--------------------------- MODULE BatchDeployment ---------------------------
(***************************************************************************)
(* Deploying several approved proposals of a site as one pull request.     *)
(*                                                                         *)
(* Source: api/app/services/proposals.py (deploy_proposals), domain/       *)
(* github_adapter.py (deploy_batch, rollback), domain/deployments.py,      *)
(* services/governance.py (rollback_deployment).                           *)
(*                                                                         *)
(* As in Deployment a request is one transaction that calls GitHub before  *)
(* it commits, and may end between any two calls: its rows go, what GitHub *)
(* did stays.  What is new is that there are many files: they are read,    *)
(* and then written, one by one, on a branch named by the idempotency key  *)
(* alone, so whatever list comes with the key meets what was left there.   *)
(***************************************************************************)
EXTENDS Integers, FiniteSets

CONSTANTS
    Change,      \* proposals, each with a file of its own: a list has no file twice
    BatchKey,    \* idempotency keys
    Batcher,     \* slots of requests
    DayBudget    \* site.daily_change_budget, all in one day

ASSUME BatchAssumption == BatchKey # {} /\ DayBudget \in Nat

VARIABLES
    changeStatus, \* [Change -> proposal.status]
    entry,       \* [BatchKey -> [Change -> status of its deployment_receipt]]
    branch,      \* GitHub: [BatchKey -> [Change -> what the branch's file holds]]
    pull,        \* GitHub: [BatchKey -> the pull request of the branch]
    main,        \* GitHub: [Change -> what the base branch's file holds]
    batch,       \* [Batcher -> request]
    asked,       \* [BatchKey -> the lists that claimed the key]
    undos        \* how far rollback requests have come

batchVars == <<changeStatus, entry, branch, pull, main, batch, asked, undos>>

\* What a file holds: what the change was reviewed against, or anything else; and on
\* a branch the change, written over the one or over the other.
Content == {"base", "other"}
OnBranch == {"change", "unseen"}
PullStates == {"none", "open", "merged", "closed", "withdrawn"}
Stage == {"idle", "check", "claim", "lookup", "read", "branch", "write", "open", "commit"}
BatchRequest ==
    [at : Stage, key : BatchKey, list : SUBSET Change, todo : SUBSET Change, blob : [Change -> Content]]
\* A rollback of one change: what it loaded of the proposal, and whether its pull
\* request was read as unmerged or has been closed.
UndoOfOne == [key : BatchKey, change : Change, failed : BOOLEAN, at : {"read", "closed"}]
Resting == [at |-> "idle", key |-> CHOOSE k \in BatchKey : TRUE, list |-> {}, todo |-> {},
            blob |-> [p \in Change |-> "base"]]

BatchInit ==
    /\ changeStatus = [p \in Change |-> "approved"]
    /\ entry = [k \in BatchKey |-> [p \in Change |-> "none"]]
    /\ branch = [k \in BatchKey |-> [p \in Change |-> "none"]]
    /\ pull = [k \in BatchKey |-> "none"]
    /\ main = [p \in Change |-> "base"]
    /\ batch = [r \in Batcher |-> Resting]
    /\ asked = [k \in BatchKey |-> {}]
    /\ undos = {}

\* _batch_receipts, and the receipts of the site.
Recorded(k) == {p \in Change : entry[k][p] # "none"}
Spent == Cardinality({x \in BatchKey \X Change : entry[x[1]][x[2]] # "none"})
HasBranch(k) == \A p \in Change : branch[k][p] # "none"

At(r, stage) == batch[r].at = stage
Moves(r, stage, todo) == batch' = [batch EXCEPT ![r].at = stage, ![r].todo = todo]
Ends(r) == batch' = [batch EXCEPT ![r] = Resting]
NoRow == UNCHANGED <<changeStatus, entry, asked>>
NoCall == UNCHANGED <<branch, pull, main, undos>>

-----------------------------------------------------------------------------
(* A request.                                                              *)

AskBatch(r) ==
    /\ At(r, "idle")
    /\ \E k \in BatchKey, list \in SUBSET Change \ {{}} :
          batch' = [batch EXCEPT ![r] = [Resting EXCEPT !.at = "check", !.key = k, !.list = list]]
    /\ NoRow /\ NoCall

\* The receipts of the key answer; otherwise there must be room in the day's budget
\* for every page, and every proposal be approved.
CheckBatch(r) ==
    LET q == batch[r] IN
    /\ At(r, "check")
    /\ Recorded(q.key) = {} /\ Spent + Cardinality(q.list) <= DayBudget
    /\ \A p \in q.list : changeStatus[p] = "approved"
    /\ Moves(r, "claim", {})
    /\ NoRow /\ NoCall

Claims(r) == batch[r].at \in {"lookup", "read", "branch", "write", "open", "commit"}

\* Every receipt of the list is inserted: the first waits for another request that
\* has inserted one of the key, and is refused when that one has committed.
ClaimBatch(r) ==
    LET q == batch[r] IN
    /\ At(r, "claim")
    /\ \A s \in Batcher : Claims(s) => batch[s].key # q.key
    /\ IF Recorded(q.key) # {} THEN Ends(r) /\ UNCHANGED asked
       ELSE Moves(r, "lookup", {}) /\ asked' = [asked EXCEPT ![q.key] = @ \cup {q.list}]
    /\ UNCHANGED <<changeStatus, entry>> /\ NoCall

\* A pull request of the branch, whatever its state and whichever its files, is
\* taken for this one's.
LookUpPull(r) ==
    LET q == batch[r] IN
    /\ At(r, "lookup")
    /\ IF pull[q.key] # "none" THEN Moves(r, "commit", {}) ELSE Moves(r, "read", q.list)
    /\ NoRow /\ NoCall

\* _current_file: the request ends at the first file that has drifted.
ReadBase(r, p) ==
    /\ At(r, "read") /\ p \in batch[r].todo /\ main[p] = "base"
    /\ batch' = [batch EXCEPT ![r].todo = @ \ {p}, ![r].blob[p] = main[p]]
    /\ NoRow /\ NoCall

\* A new branch holds what the base branch does by now; a branch that exists stays
\* as it is.
CreateBranch(r) ==
    LET q == batch[r] IN
    /\ At(r, "read") /\ q.todo = {}
    /\ branch' = IF HasBranch(q.key) THEN branch ELSE [branch EXCEPT ![q.key] = main]
    /\ Moves(r, "write", q.list)
    /\ NoRow /\ UNCHANGED <<pull, main, undos>>

\* PUT with the blob that was read: GitHub refuses it when the branch's file is
\* another, and the request ends with what it has written left on the branch.
WriteFile(r, p) ==
    LET q == batch[r] IN
    /\ At(r, "write") /\ p \in q.todo /\ branch[q.key][p] = q.blob[p]
    /\ branch' = [branch EXCEPT ![q.key][p] = IF @ = "base" THEN "change" ELSE "unseen"]
    /\ Moves(r, "write", q.todo \ {p})
    /\ NoRow /\ UNCHANGED <<pull, main, undos>>

OpenPull(r) ==
    /\ At(r, "write") /\ batch[r].todo = {}
    /\ pull' = [pull EXCEPT ![batch[r].key] = "open"]
    /\ Moves(r, "commit", {})
    /\ NoRow /\ UNCHANGED <<branch, main, undos>>

CommitBatch(r) ==
    LET q == batch[r] IN
    /\ At(r, "commit")
    /\ entry' = [entry EXCEPT ![q.key] = [p \in Change |-> IF p \in q.list THEN "applied" ELSE @[p]]]
    /\ changeStatus' = [p \in Change |-> IF p \in q.list THEN "deployed" ELSE changeStatus[p]]
    /\ Ends(r)
    /\ UNCHANGED asked /\ NoCall

\* A refusal, an error or a crash: the receipts go with the transaction.
AbortBatch(r) ==
    /\ ~At(r, "idle")
    /\ Ends(r)
    /\ NoRow /\ NoCall

-----------------------------------------------------------------------------
(* Around it.                                                              *)

\* A rollback of one change finds its receipt without one, and reads the pull
\* request: a merged one gets a revert of this change's file, as in Deployment.  Any
\* number may be in flight; one that dies takes no further step.
ReadForUndo(k, p) ==
    /\ entry[k][p] = "applied" /\ pull[k] # "merged"
    /\ undos' = undos \cup
          {[key |-> k, change |-> p, failed |-> changeStatus[p] = "failed", at |-> "read"]}
    /\ NoRow /\ UNCHANGED <<branch, pull, main, batch>>

\* It closes the pull request, and the changes of all the others with it, before any
\* row is written; GitHub accepts that of one that was settled meanwhile.
CloseForUndo(u) ==
    /\ u.at = "read"
    /\ pull' = [pull EXCEPT ![u.key] = IF @ = "open" THEN "withdrawn" ELSE @]
    /\ undos' = undos \cup {[u EXCEPT !.at = "closed"]}
    /\ NoRow /\ UNCHANGED <<branch, main, batch>>

\* Mutant of RecordUndo: the rows are committed before GitHub is asked.
RecordUndoFirst(u) ==
    /\ entry' = [entry EXCEPT ![u.key][u.change] = "rolled_back"]
    /\ changeStatus' = IF u.failed THEN changeStatus ELSE [changeStatus EXCEPT ![u.change] = "failed"]
    /\ UNCHANGED <<asked, batch>> /\ NoCall

\* Its commit.  When that is lost the pull request is closed and every receipt of it
\* still reads applied, until somebody asks for a rollback again.
RecordUndo(u) ==
    /\ u.at = "closed"
    /\ entry' = [entry EXCEPT ![u.key][u.change] = "rolled_back"]
    /\ changeStatus' = IF u.failed THEN changeStatus ELSE [changeStatus EXCEPT ![u.change] = "failed"]
    /\ UNCHANGED <<asked, batch>> /\ NoCall

\* A review commits: one that loaded the proposal while it was undecided may do so at
\* any time, whatever became of it since, and any number of them may have.  What is
\* left in review is to a batch as what is rejected.
ReviewCommits(p) ==
    /\ \E decided \in {"approved", "rejected"} :
          changeStatus' = [changeStatus EXCEPT ![p] = decided]
    /\ UNCHANGED <<entry, asked, batch>> /\ NoCall

PersonSettles(k) ==
    /\ pull[k] = "open"
    /\ \/ pull' = [pull EXCEPT ![k] = "closed"] /\ UNCHANGED main
       \/ LET written == {p \in Change : branch[k][p] \in OnBranch} IN
          /\ \A p \in written : main[p] = "base"
          /\ pull' = [pull EXCEPT ![k] = "merged"]
          /\ main' = [p \in Change |-> IF p \in written THEN "other" ELSE main[p]]
    /\ NoRow /\ UNCHANGED <<branch, batch, undos>>

\* Work of others, or its reversal.
PersonEdits(p) ==
    /\ \E c \in Content : main' = [main EXCEPT ![p] = c]
    /\ NoRow /\ UNCHANGED <<branch, pull, batch, undos>>

BatchNext ==
    \/ \E r \in Batcher :
          \/ AskBatch(r) \/ CheckBatch(r) \/ ClaimBatch(r) \/ LookUpPull(r) \/ CreateBranch(r)
          \/ OpenPull(r) \/ CommitBatch(r) \/ AbortBatch(r)
          \/ \E p \in Change : ReadBase(r, p) \/ WriteFile(r, p)
    \/ \E k \in BatchKey : PersonSettles(k) \/ \E p \in Change : ReadForUndo(k, p)
    \/ \E u \in undos : CloseForUndo(u) \/ RecordUndo(u)
    \/ \E p \in Change : ReviewCommits(p) \/ PersonEdits(p)

BatchSpec == BatchInit /\ [][BatchNext]_batchVars
-----------------------------------------------------------------------------
BatchTypeOK ==
    /\ changeStatus \in [Change -> {"approved", "rejected", "deployed", "failed"}]
    /\ entry \in [BatchKey -> [Change -> {"none", "applied", "rolled_back"}]]
    /\ branch \in [BatchKey -> [Change -> Content \cup OnBranch \cup {"none"}]]
    /\ pull \in [BatchKey -> PullStates] /\ main \in [Change -> Content]
    /\ batch \in [Batcher -> BatchRequest]
    /\ \A r \in Batcher : batch[r].todo \subseteq batch[r].list
    /\ asked \in [BatchKey -> SUBSET SUBSET Change]
    /\ undos \subseteq UndoOfOne

\* Whatever fails half-way and however often it is tried again, a receipt records a
\* change its pull request holds, written over the content it was reviewed against,
\* and the pull request holds none besides.  A key sent with another list breaks it,
\* when the first left its branch or its pull request behind.
ReceiptsMatchPull ==
    \A k \in BatchKey :
       /\ \A p \in Change : branch[k][p] # "unseen"
       /\ Cardinality(asked[k]) = 1 /\ Recorded(k) # {} =>
             {p \in Change : branch[k][p] = "change"} = Recorded(k)

\* Once one change of a batch is recorded as rolled back, the pull request they share
\* can put none of them on the site any more: it was closed, unless it merged before
\* the rollback came to close it.  And one that the application closed, even for a
\* rollback whose rows were lost, has receipts: a retry under its key is answered by
\* them and never adopts the closed pull request as its own.
FallsAsOne ==
    \A k \in BatchKey :
       /\ (\E p \in Change : entry[k][p] = "rolled_back") => pull[k] \notin {"none", "open"}
       /\ pull[k] = "withdrawn" => Recorded(k) # {}

\* A batch is recorded as its pull request holds it, and falls as a whole.
BatchStandsTogether == ReceiptsMatchPull /\ FallsAsOne
=============================================================================
