------------------------------- MODULE Outcomes -------------------------------
(***************************************************************************)
(* What came of a deployed change: a sweep looks for it on the live page,  *)
(* and four weeks later a person measures what it did to the page's        *)
(* searches.                                                               *)
(*                                                                         *)
(* Source: api/app/services/deployment_verification.py, measurements.py,   *)
(* domain/measurement.py.                                                  *)
(*                                                                         *)
(* One sweep at a time, by an advisory lock, whichever process runs it.    *)
(* A verification is a row of one receipt; a proposal deployed again after *)
(* a rollback has two receipts, and both the sweep and the measurement take *)
(* one of them in no order.  Receipts are numbered as they were deployed.  *)
(***************************************************************************)
EXTENDS Integers, FiniteSets, SequencesExt

CONSTANTS
    Change,        \* deployed proposals, each with a page of its own
    Sometimes,     \* the changes whose pages do not always answer
    Batch,         \* DEFAULT_BATCH, 20 in the code
    MaxReceipts,   \* bound: deployments
    MaxSweepDeaths \* bound: sweeps that die

ASSUME OutcomesAssumption ==
    /\ Sometimes \subseteq Change
    /\ Batch \in Nat \ {0} /\ MaxReceipts \in Nat /\ MaxSweepDeaths \in Nat

VARIABLES
    receipt,       \* the rows of deployment_receipt
    deployed,      \* [Change -> status='deployed']
    page,          \* [Change -> what a visitor finds]
    verification,  \* [receipt number -> status of its row of post_deploy_verification]
    sweep,         \* the sweep at work: what is left of its batch, the page it has read
    series,        \* the receipts whose windows are measured
    seen,          \* the receipts with a verified_at
    sweepDeaths    \* how many sweeps have died

outcomeVars == <<receipt, deployed, page, verification, sweep, series, seen, sweepDeaths>>

Number == 1..MaxReceipts
\* Deployed today, more than two weeks ago, more than four weeks ago.
Age == {"fresh", "stale", "full"}
Receipt == [of : Change, age : Age]
Found == {"live", "absent", "unreachable"}
NoPage == "none"
NoSweep == [on |-> FALSE, todo |-> <<>>, read |-> NoPage]
Of(c) == {n \in DOMAIN receipt : receipt[n].of = c}

OutcomesInit ==
    /\ receipt = <<>>
    /\ deployed = [c \in Change |-> FALSE]
    /\ page = [c \in Change |-> "absent"]
    /\ verification = [n \in Number |-> "none"]
    /\ sweep = NoSweep
    /\ series = {}
    /\ seen = {}
    /\ sweepDeaths = 0

\* Deployment: a pull request is opened, again after the first was rolled back.
Deploy(c) ==
    /\ ~deployed[c] /\ Len(receipt) < MaxReceipts
    /\ receipt' = Append(receipt, [of |-> c, age |-> "fresh"])
    /\ deployed' = [deployed EXCEPT ![c] = TRUE]
    /\ UNCHANGED <<page, verification, sweep, series, seen, sweepDeaths>>

RollBack(c) ==
    /\ deployed[c]
    /\ deployed' = [deployed EXCEPT ![c] = FALSE]
    /\ UNCHANGED <<receipt, page, verification, sweep, series, seen, sweepDeaths>>

\* The pull request is merged, the change superseded, the page down or up again.
PageChanges(c, found) ==
    /\ Of(c) # {} /\ found # page[c] /\ (found = "unreachable" => c \in Sometimes)
    /\ page' = [page EXCEPT ![c] = found]
    /\ UNCHANGED <<receipt, deployed, verification, sweep, series, seen, sweepDeaths>>

\* Two weeks pass; nobody deploys later and grows old sooner.
GrowOld(n) ==
    /\ n \in DOMAIN receipt /\ receipt[n].age # "full"
    /\ \A m \in 1..(n - 1) : receipt[n].age = receipt[m].age => receipt[m].age = "full"
    /\ receipt' = [receipt EXCEPT ![n].age = IF @ = "fresh" THEN "stale" ELSE "full"]
    /\ UNCHANGED <<deployed, page, verification, sweep, series, seen, sweepDeaths>>

-----------------------------------------------------------------------------
(* The sweep.                                                              *)

StatusOf(c) == {verification[n] : n \in Of(c)} \ {"none"}

\* Mutant of Unverified: what was verified is read again while it is fresh.
UnverifiedOrFresh(n) ==
    LET c == receipt[n].of IN deployed[c] /\ (StatusOf(c) = {} \/ receipt[n].age = "fresh")

\* Mutant of Unverified: a change that was not found is asked about for ever.
RetriedForever(n) == LET c == receipt[n].of IN deployed[c] /\ "verified" \notin StatusOf(c)

\* UNVERIFIED_SQL: never looked at, or not found yet and deployed lately.
Unverified(n) ==
    LET c == receipt[n].of IN
    /\ deployed[c] /\ "verified" \notin StatusOf(c)
    /\ StatusOf(c) = {} \/ receipt[n].age = "fresh"

\* ORDER BY deployed_at LIMIT: the oldest of them in their order, a change once for
\* each of its receipts.
Candidates ==
    {batch \in BoundedSeq(DOMAIN receipt, Batch) :
        /\ \A i \in DOMAIN batch : Unverified(batch[i]) /\ \A j \in 1..(i - 1) : batch[j] < batch[i]
        /\ \A n \in DOMAIN receipt : Unverified(n) =>
              \/ \E i \in DOMAIN batch : batch[i] = n
              \/ Len(batch) = Batch /\ \A i \in DOMAIN batch : batch[i] < n}

\* run_verification_sweep; one with nothing to do, which changes nothing, is left out.
StartSweep ==
    /\ ~sweep.on
    /\ \E batch \in Candidates :
          /\ batch # <<>>
          /\ sweep' = [on |-> TRUE, todo |-> [i \in DOMAIN batch |-> receipt[batch[i]].of],
                       read |-> NoPage]
    /\ UNCHANGED <<receipt, deployed, page, verification, series, seen, sweepDeaths>>

\* fetch_live: nothing is recorded of a page that does not answer.
ReadPage ==
    /\ sweep.todo # <<>> /\ sweep.read = NoPage
    /\ sweep' = IF page[Head(sweep.todo)] = "unreachable" THEN [sweep EXCEPT !.todo = Tail(@)]
                ELSE [sweep EXCEPT !.read = page[Head(sweep.todo)]]
    /\ UNCHANGED <<receipt, deployed, page, verification, series, seen, sweepDeaths>>

\* verify_deployment: one receipt of the proposal, its row added or written over.
RecordPage ==
    LET c == Head(sweep.todo)
        status == IF sweep.read = "live" THEN "verified" ELSE "failed"
    IN
    /\ sweep.read # NoPage
    /\ \E n \in Of(c) :
          /\ verification' = [verification EXCEPT ![n] = status]
          /\ seen' = IF status = "verified" THEN seen \cup {n} ELSE seen
    /\ sweep' = [sweep EXCEPT !.todo = Tail(@), !.read = NoPage]
    /\ UNCHANGED <<receipt, deployed, page, series, sweepDeaths>>

EndSweep ==
    /\ sweep.on /\ sweep.todo = <<>>
    /\ sweep' = NoSweep
    /\ UNCHANGED <<receipt, deployed, page, verification, series, seen, sweepDeaths>>

\* The process dies, and the lock goes with its connection.
SweepDies ==
    /\ sweep.on /\ sweepDeaths < MaxSweepDeaths
    /\ sweepDeaths' = sweepDeaths + 1
    /\ sweep' = NoSweep
    /\ UNCHANGED <<receipt, deployed, page, verification, series, seen>>

-----------------------------------------------------------------------------
(* The measurement.                                                        *)

\* Some verification of the proposal succeeded, and the receipt's four weeks
\* are over.
Measurable(n) == "verified" \in StatusOf(receipt[n].of) /\ receipt[n].age = "full"

\* calculate_or_get_measurement: for one receipt of the proposal, once.
Measure(c) ==
    /\ \E n \in Of(c) : n \notin series /\ Measurable(n) /\ series' = series \cup {n}
    /\ UNCHANGED <<receipt, deployed, page, verification, sweep, seen, sweepDeaths>>

OutcomesNext ==
    \/ \E c \in Change : Deploy(c) \/ RollBack(c) \/ Measure(c) \/ \E f \in Found : PageChanges(c, f)
    \/ \E n \in Number : GrowOld(n)
    \/ StartSweep \/ ReadPage \/ RecordPage \/ EndSweep \/ SweepDies

\* Time passes and sweeps run.
OutcomesFairness ==
    /\ \A n \in Number : WF_outcomeVars(GrowOld(n))
    /\ WF_outcomeVars(StartSweep) /\ WF_outcomeVars(ReadPage \/ RecordPage \/ EndSweep)

OutcomesSpec == OutcomesInit /\ [][OutcomesNext]_outcomeVars /\ OutcomesFairness
-----------------------------------------------------------------------------
(* Properties.                                                             *)

OutcomesTypeOK ==
    /\ receipt \in BoundedSeq(Receipt, MaxReceipts)
    /\ deployed \in [Change -> BOOLEAN]
    /\ page \in [Change -> Found]
    /\ verification \in [Number -> {"none", "failed", "verified"}]
    /\ sweep.todo \in BoundedSeq(Change, Batch) /\ sweep.read \in Found \cup {NoPage}
    /\ series \subseteq seen \cup Number /\ sweepDeaths \in 0..MaxSweepDeaths

DeployedOnce(c) == Cardinality(Of(c)) = 1

\* What was seen live stays so recorded, whatever happens to the page, and what is
\* measured was seen live: only of a change deployed twice the sweep may write
\* over it, and a window be measured on the sight of the other deployment.
SightingsAreKept ==
    \A n \in DOMAIN receipt : DeployedOnce(receipt[n].of) =>
       /\ n \in seen => verification[n] = "verified"
       /\ n \in series => n \in seen

AnswersFromNow(c) == <>[](deployed[c] /\ page[c] # "unreachable")

\* Every deployed change is looked at, sooner or later, once all their pages answer:
\* a failure is not asked about for ever, and an outage, which records nothing and
\* keeps its change at the head of the batch, delays the others while it lasts.
BacklogIsReached ==
    <>[](\A c \in Change : deployed[c] => page[c] # "unreachable")
        => \A c \in Change : <>[]deployed[c] => <>(StatusOf(c) # {})

\* deployment_verification.py: "One never looked at is always looked at, however
\* old, so enabling this sweep reaches the whole backlog once."
WholeBacklogIsReached == \A c \in Change : AnswersFromNow(c) => <>(StatusOf(c) # {})
=============================================================================
