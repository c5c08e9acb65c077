----------------------------- MODULE Calibration -----------------------------
(***************************************************************************)
(* A site's calibration: a set of its best opportunities, fixed once, and  *)
(* what reviewers say of each.                                             *)
(*                                                                         *)
(* Source: api/app/services/calibrations.py.                               *)
(*                                                                         *)
(* Both writes carry an idempotency key, looked up first and guarded by a  *)
(* unique index: an insert waits for an uncommitted row it would clash     *)
(* with, and its refusal is answered with the row of the key, if that is   *)
(* what it clashed with.  A key of a run belongs to the site, one of a     *)
(* review to the reviewer, whose calls are modelled: other reviewers'      *)
(* share nothing with them.                                                *)
(***************************************************************************)
EXTENDS Integers, FiniteSets

CONSTANTS
    Call,          \* calls of one reviewer, each made once
    CallKey,       \* idempotency keys
    Asked          \* what a call asks for: the size of a set, or a verdict on an item

CallKind == {"run", "review"}
KeyedRow == [kind : CallKind, key : CallKey, asked : Asked, by : Call]

VARIABLES
    calibration,   \* rows of calibration_run and calibration_review, committed
    unwritten,     \* rows inserted by transactions still open
    call           \* [Call -> what is asked, where it stands, the row it was told of, if any]

calibrationVars == <<calibration, unwritten, call>>

CallStatus == {"idle", "unkeyed", "checked", "inserted", "answered",
           "evidence_not_ready", "key_reused", "already_open", "error"}

CalibrationInit ==
    /\ calibration = {}
    /\ unwritten = {}
    /\ call \in [Call -> [kind : CallKind, key : CallKey, asked : Asked, at : {"idle"},
                          told : {{}}, late : {FALSE}]]

RowOf(c) == [kind |-> call[c].kind, key |-> call[c].key, asked |-> call[c].asked, by |-> c]
SameKey(r, s) == r.kind = s.kind /\ r.key = s.key
Runs == {r \in calibration : r.kind = "run"}

\* A call ends with a row, found or inserted, late when the index refused its own.
Answered(c, row, late) ==
    call' = [call EXCEPT ![c] = [@ EXCEPT !.at = "answered", !.told = {row}, !.late = late]]

\* It goes on, or ends, without one.
Proceeds(c, why) == call' = [call EXCEPT ![c].at = why]

\* request_hash: the key was used for the same request.
SameRequest(r, c) == r.asked = call[c].asked

\* create_run and review_item look the key up; an item to review is of a run.  For a
\* run the newest crawl may still be at work.
Check(c) ==
    LET mine == {r \in calibration : SameKey(r, RowOf(c))} IN
    /\ call[c].at = "idle"
    /\ call[c].kind = "review" => Runs # {}
    /\ UNCHANGED <<calibration, unwritten>>
    /\ \/ call[c].kind = "run" /\ Proceeds(c, "evidence_not_ready")
       \/ \E r \in mine :
             IF SameRequest(r, c) THEN Answered(c, r, FALSE) ELSE Proceeds(c, "key_reused")
       \/ mine = {} /\ Proceeds(c, IF call[c].kind = "run" THEN "unkeyed" ELSE "checked")

\* A run then looks for an open one, by itself: a run made since the key was looked up
\* is in the way, the caller's own too.  Nothing closes a run, so a site has an open one
\* once it has any.  The crawl may have left no opportunity to ask about.
SeekOpen(c) ==
    /\ call[c].at = "unkeyed"
    /\ UNCHANGED <<calibration, unwritten>>
    /\ \/ Runs # {} /\ Proceeds(c, "already_open")
       \/ Runs = {} /\ \E next \in {"checked", "evidence_not_ready"} : Proceeds(c, next)

\* Mutant of Clashes: only rows that are committed stand in the way.
NoIndex(r, c) == FALSE

\* The unique indexes: one row of a key, and one open run of a site.
Clashes(r, c) == SameKey(r, RowOf(c)) \/ (r.kind = "run" /\ call[c].kind = "run")

\* The insert, in a savepoint.
Insert(c) ==
    /\ call[c].at = "checked"
    /\ \A r \in unwritten : ~Clashes(r, c)
    /\ \A r \in calibration : ~Clashes(r, c)
    /\ unwritten' = unwritten \cup {RowOf(c)}
    /\ call' = [call EXCEPT ![c].at = "inserted"]
    /\ UNCHANGED calibration

\* The index refuses it: the row of the key answers, whatever it was asked for; a
\* run that clashed with another key's is an error.
LoseInsert(c) ==
    LET mine == {r \in calibration : SameKey(r, RowOf(c))} IN
    /\ call[c].at = "checked"
    /\ \E r \in calibration : Clashes(r, c)
    /\ IF mine = {} THEN Proceeds(c, "error") ELSE \E r \in mine : Answered(c, r, TRUE)
    /\ UNCHANGED <<calibration, unwritten>>

\* Items, audit and event, and the commit.
CommitCall(c) ==
    /\ call[c].at = "inserted"
    /\ unwritten' = unwritten \ {RowOf(c)}
    /\ calibration' = calibration \cup {RowOf(c)}
    /\ Answered(c, RowOf(c), FALSE)

\* calibration_evidence_incomplete, or the process dies: nothing is left.
Undone(c) ==
    /\ call[c].at = "inserted"
    /\ unwritten' = unwritten \ {RowOf(c)}
    /\ Proceeds(c, "error")
    /\ UNCHANGED calibration

CalibrationNext ==
    \E c \in Call : Check(c) \/ SeekOpen(c) \/ Insert(c) \/ LoseInsert(c) \/ CommitCall(c) \/ Undone(c)

CalibrationSpec == CalibrationInit /\ [][CalibrationNext]_calibrationVars
-----------------------------------------------------------------------------
CalibrationTypeOK ==
    /\ calibration \subseteq KeyedRow /\ unwritten \subseteq KeyedRow
    /\ \A c \in Call : call[c].at \in CallStatus /\ call[c].told \subseteq KeyedRow
    /\ \A c \in Call : call[c].at = "answered" <=> call[c].told # {}

\* However calls overlap, a site has one open set, a key one row, and a call is told
\* of a row of its own request: only one that lost its insert to a call of the same
\* key is answered with what the other asked for.
RetriesAgree ==
    /\ Cardinality(Runs) <= 1
    /\ \A r, s \in calibration : SameKey(r, s) => r = s
    /\ \A c \in Call : \A r \in call[c].told :
          /\ r \in calibration /\ SameKey(r, RowOf(c))
          /\ call[c].late \/ r.asked = call[c].asked
=============================================================================
