------------------------------ MODULE Citations ------------------------------
(***************************************************************************)
(* The questions a site tracks, and the scans that ask answer engines      *)
(* about them within the workspace's monthly budget.                       *)
(*                                                                         *)
(* Source: api/app/services/ai_citations.py (track, untrack), worker/app/  *)
(* citations/scan.py (collect, persist), worker/app/routines/runner.py.    *)
(*                                                                         *)
(* Nothing locks the questions of a site or the spend of a month: both     *)
(* limits are read and then acted on.  Money is counted in estimates of an *)
(* answer (ESTIMATE_PER_ANSWER_MICROS); an answer may cost more, and a call *)
(* that ends in an error may be charged for.                               *)
(***************************************************************************)
EXTENDS Integers, FiniteSets, SequencesExt

CONSTANTS
    Question,      \* texts people ask to track
    Tracker,       \* slots of track requests
    Scanner,       \* runs of the scan that may be at work at once
    Providers,     \* how many answer engines the workspace has a key for
    MaxTracked,    \* MAX_TRACKED and MAX_PROMPTS, 8 in the code
    MonthBudget,   \* the workspace's, in estimates
    MaxCost,       \* bound: what a call may cost, in estimates
    MaxUnreckoned, \* bound: what is paid beside what the estimates cover
    MaxScans       \* bound: scans in the month

ASSUME CitationAssumption ==
    /\ Providers \in Nat /\ MaxTracked \in Nat \ {0} /\ MonthBudget \in Nat
    /\ MaxCost \in Nat /\ MaxUnreckoned \in Nat /\ MaxScans \in Nat
    /\ IsFiniteSet(Question) /\ IsFiniteSet(Tracker) /\ IsFiniteSet(Scanner) /\ "none" \notin Question

VARIABLES
    question,   \* sequence of rows of ai_citation_prompt, as they were first tracked
    tracker,    \* [Tracker -> the text it has found room for, or none]
    scan,       \* [Scanner -> where it stands, the calls to make, what the answers cost
                \*  and how much of that the estimates had reckoned with]
    recorded,   \* sum of cost_micros over this month's ai_citation_run
    billed,     \* what the providers will charge
    unreckoned, \* of that, what no estimate covered or no row records
    scans

citationVars == <<question, tracker, scan, recorded, billed, unreckoned, scans>>

NoText == "none"
QuestionRow == [text : Question, active : BOOLEAN]
Asleep == [at |-> "idle", calls |-> 0, cost |-> 0, reckoned |-> 0]

CitationInit ==
    /\ question = <<>>
    /\ tracker = [t \in Tracker |-> NoText]
    /\ scan = [s \in Scanner |-> Asleep]
    /\ recorded = 0 /\ billed = 0 /\ unreckoned = 0
    /\ scans = 0

Active == {i \in DOMAIN question : question[i].active}
RowsOf(q) == {i \in DOMAIN question : question[i].text = q}
Least(m, n) == IF m < n THEN m ELSE n

-----------------------------------------------------------------------------
(* Questions.                                                              *)

\* Mutant of FindRoom: a question that comes back is not counted.
FindRoomForNew(t, q) ==
    /\ tracker[t] = NoText
    /\ RowsOf(q) \cap Active = {}
    /\ RowsOf(q) = {} => Cardinality(Active) < MaxTracked
    /\ tracker' = [tracker EXCEPT ![t] = q]
    /\ UNCHANGED <<question, scan, recorded, billed, unreckoned, scans>>

\* track, its reads: the question is not tracked, and fewer than the limit are.
FindRoom(t, q) ==
    /\ tracker[t] = NoText
    /\ RowsOf(q) \cap Active = {}
    /\ Cardinality(Active) < MaxTracked
    /\ tracker' = [tracker EXCEPT ![t] = q]
    /\ UNCHANGED <<question, scan, recorded, billed, unreckoned, scans>>

\* Its write: a retired question is tracked again, in its old place; of two requests
\* that insert the same text the index refuses the later.
Track(t) ==
    LET q == tracker[t] IN
    /\ q # NoText
    /\ tracker' = [tracker EXCEPT ![t] = NoText]
    /\ question' = IF RowsOf(q) = {} THEN Append(question, [text |-> q, active |-> TRUE])
                   ELSE [i \in DOMAIN question |->
                            IF i \in RowsOf(q) THEN [question[i] EXCEPT !.active = TRUE] ELSE question[i]]
    /\ UNCHANGED <<scan, recorded, billed, unreckoned, scans>>

Untrack(i) ==
    /\ i \in Active
    /\ question' = [question EXCEPT ![i].active = FALSE]
    /\ UNCHANGED <<tracker, scan, recorded, billed, unreckoned, scans>>

-----------------------------------------------------------------------------
(* Scans.                                                                  *)

\* calls_within_budget.
CallsWithinBudget(jobs) ==
    Least(jobs, IF MonthBudget > recorded THEN MonthBudget - recorded ELSE 0)

\* collect: every active question, the first MaxTracked there are, of every engine, as
\* many as the spend recorded leaves room for; or the run is skipped.
StartScan(s) ==
    LET calls == CallsWithinBudget(Least(Cardinality(Active), MaxTracked) * Providers) IN
    /\ scan[s].at = "idle" /\ scans < MaxScans /\ calls > 0
    /\ scan' = [scan EXCEPT ![s] = [Asleep EXCEPT !.at = "asking", !.calls = calls]]
    /\ scans' = scans + 1
    /\ UNCHANGED <<question, tracker, recorded, billed, unreckoned>>

\* More was paid than the estimates cover and the rows record.
PaidBeside(cost) ==
    /\ unreckoned' = unreckoned + cost
    /\ unreckoned' <= MaxUnreckoned

\* ask: an answer, whatever it costs, of which one estimate was reckoned with.
Answers(s, cost) ==
    /\ scan' = [scan EXCEPT ![s].calls = @ - 1, ![s].cost = @ + cost,
                            ![s].reckoned = @ + Least(cost, 1)]
    /\ PaidBeside(cost - Least(cost, 1))

\* An error is recorded with no cost, though a refusal, an empty answer or a turn that
\* broke off when it was resumed is charged for.
Errs(s, cost) ==
    /\ scan' = [scan EXCEPT ![s].calls = @ - 1]
    /\ PaidBeside(cost)

Ask(s) ==
    /\ scan[s].at = "asking" /\ scan[s].calls > 0
    /\ \E cost \in 0..MaxCost :
          /\ Answers(s, cost) \/ Errs(s, cost)
          /\ billed' = billed + cost
    /\ UNCHANGED <<question, tracker, recorded, scans>>

\* persist, with the run it belongs to.
Persist(s) ==
    /\ scan[s].at = "asking" /\ scan[s].calls = 0
    /\ scan' = [scan EXCEPT ![s] = Asleep]
    /\ recorded' = recorded + scan[s].cost
    /\ UNCHANGED <<question, tracker, billed, unreckoned, scans>>

\* The process dies, or the transaction is undone: the answers are paid for and lost.
ScanFalls(s) ==
    /\ scan[s].at = "asking"
    /\ scan' = [scan EXCEPT ![s] = Asleep]
    /\ PaidBeside(scan[s].reckoned)
    /\ UNCHANGED <<question, tracker, recorded, billed, scans>>

CitationNext ==
    \/ \E t \in Tracker : Track(t) \/ \E q \in Question : FindRoom(t, q)
    \/ \E i \in 1..Cardinality(Question) : Untrack(i)
    \/ \E s \in Scanner : StartScan(s) \/ Ask(s) \/ Persist(s) \/ ScanFalls(s)

CitationSpec == CitationInit /\ [][CitationNext]_citationVars
-----------------------------------------------------------------------------
CitationTypeOK ==
    /\ question \in BoundedSeq(QuestionRow, Cardinality(Question))
    /\ \A i, j \in DOMAIN question : question[i].text = question[j].text => i = j
    /\ tracker \in [Tracker -> Question \cup {NoText}]
    /\ \A s \in Scanner : scan[s].at \in {"idle", "asking"} /\ scan[s].calls + scan[s].cost \in Nat
    /\ billed \in Nat /\ unreckoned \in 0..MaxUnreckoned /\ scans \in 0..MaxScans

\* A site tracks more questions than a scan asks only when requests overlapped, by one
\* for each that had counted before the others wrote; retiring and tracking again does
\* not add to it.
OnlyOverlapExceedsLimit == Cardinality(Active) < MaxTracked + Cardinality(Tracker)

\* "so the cap holds even when a provider's answer runs long" (citations/scan.py): it
\* does for what the estimates cover and a row records.  That part of a month's bill is
\* no more than the budget for each scan that may be at work at once.
SpendIsBounded == billed - unreckoned <= MonthBudget * Cardinality(Scanner)
=============================================================================
