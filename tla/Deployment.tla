----------------------------- MODULE Deployment -----------------------------
(***************************************************************************)
(* Deploying approved proposals of one site as GitHub pull requests,       *)
(* publishing them (merging from the app), rolling them back, and the      *)
(* sweep that learns what became of a revert pull request.                 *)
(*                                                                         *)
(* Source: services/api/app/services/proposals.py (deploy_proposal,        *)
(* publish_proposal), services/governance.py (rollback_deployment),        *)
(* services/rollback_reconciliation.py, domain/github_adapter.py (deploy,  *)
(* merge, rollback, _open_revert).                                         *)
(*                                                                         *)
(* A request is one READ COMMITTED transaction that calls GitHub before it *)
(* commits.  Its SELECTs, the calls and the commit are separate steps, and *)
(* it may end between any two of them (an error, a timeout, a crash): the  *)
(* rows roll back, what GitHub did stays done.  Objects a session has      *)
(* loaded are not refreshed by a later SELECT, so a request goes on with   *)
(* the attributes it read first, and an UPDATE names only the columns the  *)
(* request changed from what it loaded.                                    *)
(***************************************************************************)
EXTENDS Integers, FiniteSets

CONSTANTS
    Proposal,       \* proposals of the site
    Key,            \* idempotency keys callers use
    Deployer,       \* slots of deploy and publish requests
    Undoer,         \* slots of rollback requests
    Budget,         \* site.daily_change_budget
    LastDay,        \* bound: days the model lets pass
    RollbackId,     \* bound: rows of rollback_receipt, by insertion order
    NewFile,        \* proposals that add a file (before_content is empty)
    FromDraft,      \* proposals submitted from a content draft
    CanPublish      \* whether publish requests are made (site.publish_from_app)

ASSUME DeploymentAssumption ==
    /\ Budget \in Nat
    /\ LastDay \in Nat
    /\ RollbackId \subseteq Nat /\ IsFiniteSet(RollbackId)
    /\ NewFile \subseteq Proposal /\ FromDraft \subseteq Proposal
    /\ CanPublish \in BOOLEAN
    /\ IsFiniteSet(Key) /\ Key # {} /\ Proposal # {}

VARIABLES
    gate,       \* mode, emergency freeze and freeze window let changes through
    day,        \* today
    proposalStatus, \* [Proposal -> proposal.status]
    review,     \* [Proposal -> statuses that approval requests in flight may write]
    receipts,   \* [Key -> row of deployment_receipt]: unique per key
    rollbacks,  \* [RollbackId -> row of rollback_receipt]
    draftStatus, \* [Proposal -> status of the content draft it came from]
    pulls,      \* GitHub: [Pull -> state of the pull request on that branch]
    reverts,    \* GitHub: [Pull -> state of its revert pull request]
    reverted,   \* GitHub: merged pulls whose change a merged revert has taken out since
    slipped,    \* history: pulls merged between a rollback's GET and its PATCH
    dep,        \* [Deployer -> deploy or publish request]
    und         \* [Undoer -> rollback request]

rows == <<proposalStatus, receipts, rollbacks, draftStatus>>
github == <<pulls, reverts, reverted, slipped>>
deployVars == <<gate, day, rows, review, github, dep, und>>

\* branch_name: the proposal and the key name the branch, hence the pull request.
Pull == Proposal \X Key
PullState == {"none", "open", "merged", "closed"}

ProposalStatus == {"validated", "review_required", "approved", "rejected", "deployed", "failed"}
Reviewed == {"approved", "review_required", "rejected"}
Undecided(s) == s \notin {"approved", "rejected", "deployed"}

ReceiptStatus == {"none", "applied", "rollback_pending", "rolled_back"}
ReceiptRow ==
    [proposal : Proposal, status : ReceiptStatus,
     published : BOOLEAN, day : 0..LastDay]
RollbackRow == [key : Key, status : {"none", "applied", "pending", "failed"}]

DeployState ==
    [pc : {"idle", "load", "key", "site", "budget", "claim", "adapter", "merge", "commit"},
     kind : {"deploy", "publish"}, proposal : Proposal, key : Key, day : 0..LastDay,
     loaded : ProposalStatus, claimed : BOOLEAN, receipt : Key, merged : BOOLEAN]
UndoState ==
    [pc : {"idle", "load", "receipt", "read", "close", "revert", "commit"},
     proposal : Proposal, loaded : {"deployed", "failed"}, key : Key, was : ReceiptStatus,
     result : {"applied", "pending"}]

SomeProposal == CHOOSE p \in Proposal : TRUE
SomeKey == CHOOSE k \in Key : TRUE
NoReceipt == [proposal |-> SomeProposal, status |-> "none", published |-> FALSE, day |-> 0]
NoRollback == [key |-> SomeKey, status |-> "none"]
IdleDeploy ==
    [pc |-> "idle", kind |-> "deploy", proposal |-> SomeProposal, key |-> SomeKey, day |-> 0,
     loaded |-> "validated", claimed |-> FALSE, receipt |-> SomeKey, merged |-> FALSE]
IdleUndo ==
    [pc |-> "idle", proposal |-> SomeProposal, loaded |-> "deployed", key |-> SomeKey,
     was |-> "none", result |-> "applied"]

DeployInit ==
    /\ gate \in BOOLEAN
    /\ day = 0
    /\ proposalStatus \in [Proposal -> {"validated", "review_required"}]
    /\ review = [p \in Proposal |-> {}]
    /\ receipts = [k \in Key |-> NoReceipt]
    /\ rollbacks = [i \in RollbackId |-> NoRollback]
    /\ draftStatus = [p \in Proposal |-> IF p \in FromDraft THEN "submitted" ELSE "none"]
    /\ pulls = [b \in Pull |-> "none"]
    /\ reverts = [b \in Pull |-> "none"]
    /\ reverted = {} /\ slipped = {}
    /\ dep = [r \in Deployer |-> IdleDeploy]
    /\ und = [u \in Undoer |-> IdleUndo]

Exists(k) == receipts[k].status # "none"
ReceiptsOf(p) == {k \in Key : Exists(k) /\ receipts[k].proposal = p}
SpentSince(d) == Cardinality({k \in Key : Exists(k) /\ receipts[k].day >= d})

\* SQLAlchemy names a column in the UPDATE only when it differs from what the
\* request loaded.
Written(loaded, new, current) == IF new # loaded THEN new ELSE current

\* reopen_draft: a post that was submitted goes back for review.  Sending it
\* again makes another proposal, which is not one of these.
SendDraftBack(p) == draftStatus' = [draftStatus EXCEPT ![p] = IF @ = "submitted" THEN "ready" ELSE @]

Answer(r) == dep' = [dep EXCEPT ![r] = IdleDeploy]
Answered(u) == und' = [und EXCEPT ![u] = IdleUndo]
OthersUnchanged == UNCHANGED <<gate, day, review>>

\* Proposals whose change the base branch holds.
Live == {p \in Proposal : \E k \in Key : pulls[<<p, k>>] = "merged" /\ <<p, k>> \notin reverted}

\* The pull request merges, perhaps while a rollback that read it open is about to
\* close it.
Closing(u, b) == und[u].pc = "close" /\ b = <<und[u].proposal, und[u].key>>
MergeOf(b) ==
    /\ pulls' = [pulls EXCEPT ![b] = "merged"]
    /\ slipped' = slipped \cup {c \in {b} : \E u \in Undoer : Closing(u, c)}

-----------------------------------------------------------------------------
(* A deploy or publish request.                                            *)

BeginDeploy(r) ==
    /\ dep[r].pc = "idle"
    /\ \E p \in Proposal, k \in Key, kind \in {"deploy", "publish"} :
          /\ kind = "publish" => CanPublish
          /\ dep' = [dep EXCEPT ![r] = [IdleDeploy EXCEPT !.pc = "load", !.kind = kind,
                                          !.proposal = p, !.key = k]]
    /\ OthersUnchanged /\ UNCHANGED <<rows, github, und>>

\* SELECT proposal.  A publish request passes the site's gates next, a deploy
\* request looks its key up first.
LoadProposal(r) ==
    /\ dep[r].pc = "load"
    /\ dep' = [dep EXCEPT ![r].loaded = proposalStatus[dep[r].proposal],
                          ![r].pc = IF dep[r].kind = "deploy" THEN "key" ELSE "site"]
    /\ OthersUnchanged /\ UNCHANGED <<rows, github, und>>

\* A receipt under this key answers the request, whichever proposal it names;
\* a publish request goes on to merge its pull request.
AdoptReceipt(r, k) ==
    IF dep[r].kind = "deploy" THEN Answer(r)
    ELSE dep' = [dep EXCEPT ![r].pc = "merge", ![r].receipt = k]

\* Otherwise the request takes its time, and the proposal must be approved and
\* not expired; expires_at only refuses, so a refusal may always happen.
CheckKey(r) ==
    LET q == dep[r] IN
    /\ q.pc = "key"
    /\ \/ Exists(q.key) /\ AdoptReceipt(r, q.key)
       \/ ~Exists(q.key) /\ Answer(r)
       \/ /\ ~Exists(q.key) /\ q.loaded = "approved"
          /\ dep' = [dep EXCEPT ![r].pc = IF q.kind = "deploy" THEN "site" ELSE "budget",
                                ![r].day = day]
    /\ OthersUnchanged /\ UNCHANGED <<rows, github, und>>

\* SELECT site: mode, emergency freeze, freeze window (and publish_from_app).
\* A publish request then recounts the approvals: a self-review given before a
\* second approver joined no longer carries it, so it may be refused here.
CheckSite(r) ==
    LET q == dep[r] IN
    /\ q.pc = "site"
    /\ \/ /\ gate
          /\ q.kind = "deploy" \/ q.loaded = "approved"
          /\ dep' = [dep EXCEPT ![r].pc = IF q.kind = "deploy" THEN "budget" ELSE "key"]
       \/ /\ gate /\ q.kind = "publish" /\ q.loaded = "deployed"
          /\ \E k \in ReceiptsOf(q.proposal) :
                /\ \A j \in ReceiptsOf(q.proposal) : receipts[j].day <= receipts[k].day
                /\ dep' = [dep EXCEPT ![r].pc = "merge", ![r].receipt = k]
       \/ /\ ~gate \/ q.kind = "publish"
          /\ Answer(r)
    /\ OthersUnchanged /\ UNCHANGED <<rows, github, und>>

\* SELECT count(receipts deployed since the start of the request's day).
CheckBudget(r) ==
    /\ dep[r].pc = "budget"
    /\ IF SpentSince(dep[r].day) >= Budget
       THEN Answer(r)
       ELSE dep' = [dep EXCEPT ![r].pc = "claim"]
    /\ OthersUnchanged /\ UNCHANGED <<rows, github, und>>

\* Mutant: only the check at the top of the method serialises the key.
ClaimKeyUnlocked(r) ==
    /\ dep[r].pc = "claim"
    /\ dep' = [dep EXCEPT ![r].pc = "adapter", ![r].claimed = TRUE]
    /\ OthersUnchanged /\ UNCHANGED <<rows, github, und>>

\* INSERT the pending receipt.  The unique index makes a second holder of the
\* key wait until the first ends; after a commit it answers with that receipt.
ClaimKey(r) ==
    LET q == dep[r] IN
    /\ q.pc = "claim"
    /\ \A s \in Deployer : dep[s].claimed => dep[s].key # q.key
    /\ IF Exists(q.key) THEN AdoptReceipt(r, q.key)
       ELSE dep' = [dep EXCEPT ![r].pc = "adapter", ![r].claimed = TRUE]
    /\ OthersUnchanged /\ UNCHANGED <<rows, github, und>>

\* adapter.deploy: adopt the branch's pull request whatever its state, refuse
\* a file that no longer matches the base hash, or open a pull request.
CallAdapter(r) ==
    LET q == dep[r]
        b == <<q.proposal, q.key>>
        done == dep' = [dep EXCEPT ![r].receipt = q.key,
                                   ![r].pc = IF q.kind = "deploy" THEN "commit" ELSE "merge"]
    IN
    /\ q.pc = "adapter"
    /\ \/ pulls[b] # "none" /\ done /\ UNCHANGED pulls
       \/ pulls[b] = "none" /\ q.proposal \in Live /\ Answer(r) /\ UNCHANGED pulls
       \/ pulls[b] = "none" /\ q.proposal \notin Live /\ done
             /\ pulls' = [pulls EXCEPT ![b] = "open"]
    /\ OthersUnchanged /\ UNCHANGED <<rows, reverts, reverted, slipped, und>>

\* The pull request a receipt names; the request's own receipt is not committed.
PullOf(q) ==
    <<IF q.claimed THEN q.proposal ELSE receipts[q.receipt].proposal, q.receipt>>

\* adapter.merge: an already merged pull request counts as published; a closed
\* one, one holding another proposal's file, or one GitHub's rules keep back is
\* a refusal, which does not undo the receipt.
MergePull(r) ==
    LET q == dep[r]
        b == PullOf(q)
        goOn(m) == dep' = [dep EXCEPT ![r].pc = "commit", ![r].merged = m]
    IN
    /\ q.pc = "merge"
    /\ \/ ~q.claimed /\ receipts[q.receipt].published /\ Answer(r) /\ UNCHANGED github
       \/ /\ q.claimed \/ ~receipts[q.receipt].published
          /\ \/ pulls[b] = "merged" /\ goOn(TRUE) /\ UNCHANGED github
             \/ pulls[b] # "merged" /\ goOn(FALSE) /\ UNCHANGED github
             \/ /\ pulls[b] = "open" /\ b[1] = q.proposal
                /\ goOn(TRUE)
                /\ MergeOf(b)
    /\ OthersUnchanged /\ UNCHANGED <<rows, reverts, reverted, und>>

\* A merge is recorded on the receipt it belongs to; one that was refused is only
\* told to the caller.
MergeRecorded(q) == [receipts EXCEPT ![q.receipt].published = @ \/ q.merged]

\* Commit: the claimed receipt becomes visible as applied and the proposal
\* deployed.
CommitDeploy(r) ==
    LET q == dep[r] IN
    /\ q.pc = "commit"
    /\ IF q.claimed
       THEN /\ receipts' = [receipts EXCEPT ![q.key] =
                 [proposal |-> q.proposal, status |-> "applied",
                  published |-> q.merged, day |-> q.day]]
            /\ proposalStatus' = [proposalStatus EXCEPT ![q.proposal] = Written(q.loaded, "deployed", @)]
       ELSE /\ receipts' = MergeRecorded(q)
            /\ UNCHANGED proposalStatus
    /\ Answer(r)
    /\ OthersUnchanged /\ UNCHANGED <<rollbacks, draftStatus, github, und>>

\* An error, a timeout or a crash ends the request.  After a call to GitHub it
\* stands for the answer that was lost: the call stays done.
AbortDeploy(r) ==
    /\ dep[r].pc # "idle"
    /\ Answer(r)
    /\ OthersUnchanged /\ UNCHANGED <<rows, github, und>>

-----------------------------------------------------------------------------
(* A rollback request.                                                     *)

BeginUndo(u) ==
    /\ und[u].pc = "idle"
    /\ \E p \in Proposal : und' = [und EXCEPT ![u] = [IdleUndo EXCEPT !.pc = "load", !.proposal = p]]
    /\ OthersUnchanged /\ UNCHANGED <<rows, github, dep>>

\* All the rollback's commit needs of the status it loaded: was it "failed".
AsLoaded(s) == IF s = "failed" THEN "failed" ELSE "deployed"

LoadForUndo(u) ==
    /\ und[u].pc = "load"
    /\ und' = [und EXCEPT ![u].pc = "receipt", ![u].loaded = AsLoaded(proposalStatus[und[u].proposal])]
    /\ OthersUnchanged /\ UNCHANGED <<rows, github, dep>>

\* SELECT a receipt of the proposal, in no order, and the rollback recorded for
\* it: one that exists, whatever became of it, is the answer.
PickReceipt(u) ==
    LET q == und[u] IN
    /\ q.pc = "receipt"
    /\ \/ /\ ReceiptsOf(q.proposal) = {}
          /\ Answered(u)
       \/ \E k \in ReceiptsOf(q.proposal) :
             IF \E i \in RollbackId : rollbacks[i].status # "none" /\ rollbacks[i].key = k
             THEN Answered(u)
             ELSE und' = [und EXCEPT ![u].pc = "read", ![u].key = k, ![u].was = receipts[k].status]
    /\ OthersUnchanged /\ UNCHANGED <<rows, github, dep>>

\* adapter.rollback: GET the pull request; unmerged is closed, merged reverted.
ReadPull(u) ==
    LET q == und[u] IN
    /\ q.pc = "read"
    /\ und' = [und EXCEPT ![u].pc = IF pulls[<<q.proposal, q.key>>] = "merged"
                                   THEN "revert" ELSE "close"]
    /\ OthersUnchanged /\ UNCHANGED <<rows, github, dep>>

\* Mutant: a rollback receipt for an undo nobody performed.
ClosePullNotAtAll(u) ==
    /\ und[u].pc = "close"
    /\ und' = [und EXCEPT ![u].pc = "commit", ![u].result = "applied"]
    /\ OthersUnchanged /\ UNCHANGED <<rows, github, dep>>

\* PATCH state=closed.  GitHub accepts it for a pull request that was merged or
\* closed in the meantime and changes nothing.
ClosePull(u) ==
    LET q == und[u]
        b == <<q.proposal, q.key>>
    IN
    /\ q.pc = "close"
    /\ pulls' = [pulls EXCEPT ![b] = IF @ = "open" THEN "closed" ELSE @]
    /\ und' = [und EXCEPT ![u].pc = "commit", ![u].result = "applied"]
    /\ OthersUnchanged /\ UNCHANGED <<rows, reverts, reverted, slipped, dep>>

\* _open_revert: adopt the revert branch's pull request whatever its state,
\* report a file that is already gone, or open the revert pull request.
OpenRevert(u) ==
    LET q == und[u]
        b == <<q.proposal, q.key>>
        gone == q.proposal \in NewFile /\ q.proposal \notin Live /\ reverts[b] = "none"
    IN
    /\ q.pc = "revert"
    /\ reverts' = [reverts EXCEPT ![b] = IF @ = "none" /\ ~gone THEN "open" ELSE @]
    /\ und' = [und EXCEPT ![u].pc = "commit", ![u].result = IF gone THEN "applied" ELSE "pending"]
    /\ OthersUnchanged /\ UNCHANGED <<rows, pulls, reverted, slipped, dep>>

FreeRollback == {i \in RollbackId : rollbacks[i].status = "none"}

CommitUndo(u) ==
    LET q == und[u] IN
    /\ q.pc = "commit"
    /\ \E i \in FreeRollback :
          /\ \A j \in FreeRollback : i <= j
          /\ rollbacks' = [rollbacks EXCEPT ![i] = [key |-> q.key, status |-> q.result]]
    /\ receipts' = [receipts EXCEPT ![q.key].status =
                       Written(q.was, IF q.result = "applied" THEN "rolled_back"
                                      ELSE "rollback_pending", @)]
    /\ proposalStatus' = [proposalStatus EXCEPT ![q.proposal] =
                       IF q.result = "applied" THEN Written(q.loaded, "failed", @) ELSE @]
    /\ IF q.result = "applied" THEN SendDraftBack(q.proposal) ELSE UNCHANGED draftStatus
    /\ Answered(u)
    /\ OthersUnchanged /\ UNCHANGED <<github, dep>>

AbortUndo(u) ==
    /\ und[u].pc # "idle"
    /\ Answered(u)
    /\ OthersUnchanged /\ UNCHANGED <<rows, github, dep>>

-----------------------------------------------------------------------------
(* The reconciler: one sweeper at a time, one pending rollback per step.   *)

RevertOf(i) == reverts[<<receipts[rollbacks[i].key].proposal, rollbacks[i].key>>]

\* pending_rollbacks: what a pass finds to ask GitHub about.
Pending(i) == rollbacks[i].status = "pending"

\* Mutant: the proposal is left deployed.
ReversedLeavesProposal(i) ==
    LET k == rollbacks[i].key IN
    /\ Pending(i) /\ RevertOf(i) = "merged"
    /\ rollbacks' = [rollbacks EXCEPT ![i].status = "applied"]
    /\ receipts' = [receipts EXCEPT ![k].status = "rolled_back"]
    /\ UNCHANGED proposalStatus
    /\ OthersUnchanged /\ UNCHANGED <<draftStatus, github, dep, und>>

\* The revert merged: the change is undone.
Reversed(i) ==
    LET k == rollbacks[i].key IN
    /\ Pending(i) /\ RevertOf(i) = "merged"
    /\ rollbacks' = [rollbacks EXCEPT ![i].status = "applied"]
    /\ receipts' = [receipts EXCEPT ![k].status = "rolled_back"]
    /\ proposalStatus' = [proposalStatus EXCEPT ![receipts[k].proposal] = "failed"]
    /\ OthersUnchanged /\ UNCHANGED <<draftStatus, github, dep, und>>

\* The revert was closed without merging: the deployment stands.
Abandoned(i) ==
    LET k == rollbacks[i].key IN
    /\ Pending(i) /\ RevertOf(i) = "closed"
    /\ rollbacks' = [rollbacks EXCEPT ![i].status = "failed"]
    /\ receipts' = [receipts EXCEPT ![k].status = "applied"]
    /\ UNCHANGED proposalStatus
    /\ OthersUnchanged /\ UNCHANGED <<draftStatus, github, dep, und>>

\* Mutant: a revert closed without merging stays pending for ever.
ReconcileMergedOnly(i) == Reversed(i)

Reconcile(i) == Reversed(i) \/ Abandoned(i)

-----------------------------------------------------------------------------
(* Around the requests: reviewers, governance, people on GitHub, the clock.*)

\* An approval request loads the proposal, and later writes what it decided
\* (ProposalReview has the decision itself) unless that is what it loaded.  No row
\* is locked: any number of requests may have loaded the proposal, so when one has
\* written, others may still be in flight or none.
LoadForReview(p) ==
    /\ Undecided(proposalStatus[p])
    /\ review' = [review EXCEPT ![p] = @ \cup (Reviewed \ {proposalStatus[p]})]
    /\ UNCHANGED <<gate, day, rows, github, dep, und>>

WriteReview(p) ==
    /\ \E s \in review[p] :
          /\ proposalStatus' = [proposalStatus EXCEPT ![p] = s]
          /\ IF s = "rejected" THEN SendDraftBack(p) ELSE UNCHANGED draftStatus
    /\ review' \in {review, [review EXCEPT ![p] = {}]}
    /\ UNCHANGED <<gate, day, receipts, rollbacks, github, dep, und>>

\* A mode change, a freeze or its lifting, a freeze window opening or closing.
ToggleGate ==
    /\ gate' = ~gate
    /\ UNCHANGED <<day, review, rows, github, dep, und>>

Midnight ==
    /\ day < LastDay
    /\ day' = day + 1
    /\ UNCHANGED <<gate, review, rows, github, dep, und>>

PersonMerges(b) ==
    /\ pulls[b] = "open"
    /\ MergeOf(b)
    /\ OthersUnchanged /\ UNCHANGED <<rows, reverts, reverted, dep, und>>

PersonCloses(b) ==
    /\ pulls[b] = "open"
    /\ pulls' = [pulls EXCEPT ![b] = "closed"]
    /\ OthersUnchanged /\ UNCHANGED <<rows, reverts, reverted, slipped, dep, und>>

PersonMergesRevert(b) ==
    /\ reverts[b] = "open"
    /\ reverts' = [reverts EXCEPT ![b] = "merged"]
    /\ reverted' = reverted \cup {c \in Pull : c[1] = b[1] /\ pulls[c] = "merged"}
    /\ OthersUnchanged /\ UNCHANGED <<rows, pulls, slipped, dep, und>>

PersonClosesRevert(b) ==
    /\ reverts[b] = "open"
    /\ reverts' = [reverts EXCEPT ![b] = "closed"]
    /\ OthersUnchanged /\ UNCHANGED <<rows, pulls, reverted, slipped, dep, und>>

-----------------------------------------------------------------------------
DeployStep(r) ==
    \/ BeginDeploy(r) \/ LoadProposal(r) \/ CheckKey(r) \/ CheckSite(r) \/ CheckBudget(r)
    \/ ClaimKey(r) \/ CallAdapter(r) \/ MergePull(r) \/ CommitDeploy(r) \/ AbortDeploy(r)

UndoStep(u) ==
    \/ BeginUndo(u) \/ LoadForUndo(u) \/ PickReceipt(u) \/ ReadPull(u)
    \/ ClosePull(u) \/ OpenRevert(u) \/ CommitUndo(u) \/ AbortUndo(u)

PeopleStep ==
    \E b \in Pull : PersonMerges(b) \/ PersonCloses(b) \/ PersonMergesRevert(b) \/ PersonClosesRevert(b)

ReviewStep == \E p \in Proposal : LoadForReview(p) \/ WriteReview(p)

DeployNext ==
    \/ \E r \in Deployer : DeployStep(r)
    \/ \E u \in Undoer : UndoStep(u)
    \/ \E i \in RollbackId : Reconcile(i)
    \/ ReviewStep \/ PeopleStep \/ ToggleGate \/ Midnight

\* run_reconcile_sweep passes for as long as the process lives, and a rollback that
\* could not be settled does not keep the next one from being looked at.
ReconcileFairness == \A i \in RollbackId : WF_deployVars(Reconcile(i))

DeploySpec == DeployInit /\ [][DeployNext]_deployVars /\ ReconcileFairness

-----------------------------------------------------------------------------
(* Properties.                                                             *)

\* Rows, requests and GitHub's pull requests stay in their shapes.
DeployTypeOK ==
    /\ gate \in BOOLEAN /\ day \in 0..LastDay
    /\ proposalStatus \in [Proposal -> ProposalStatus]
    /\ review \in [Proposal -> SUBSET Reviewed]
    /\ receipts \in [Key -> ReceiptRow]
    /\ rollbacks \in [RollbackId -> RollbackRow]
    /\ draftStatus \in [Proposal -> {"none", "ready", "submitted"}]
    /\ pulls \in [Pull -> PullState] /\ reverts \in [Pull -> PullState]
    /\ reverted \subseteq Pull /\ slipped \subseteq Pull
    /\ dep \in [Deployer -> DeployState]
    /\ und \in [Undoer -> UndoState]

\* The claimed key is a lock: two requests never drive GitHub under one key,
\* and none does so once a receipt for the key is committed.
ClaimIsExclusive ==
    \A r \in Deployer : dep[r].claimed =>
        /\ ~Exists(dep[r].key)
        /\ \A s \in Deployer \ {r} : dep[s].claimed => dep[s].key # dep[r].key

\* A receipt always points at a pull request that was opened for it, and a
\* published one at a pull request that was merged.
ReceiptHasPull ==
    \A k \in Key : Exists(k) =>
        /\ pulls[<<receipts[k].proposal, k>>] # "none"
        /\ receipts[k].published => pulls[<<receipts[k].proposal, k>>] = "merged"

\* The change was taken back: its pull request was closed, or a revert of the
\* proposal was merged after it.
TakenBack(b) == pulls[b] = "closed" \/ b \in reverted

\* What a receipt recorded as rolled back says was taken back was taken back, but
\* for one race: a merge between the GET of a rollback and its PATCH, which GitHub
\* accepts, leaves the change live, with no revert, and recorded as undone.
RolledBackIsTakenBack ==
    \A k \in Key : receipts[k].status = "rolled_back" =>
        LET b == <<receipts[k].proposal, k>>
        IN  TakenBack(b) \/ (pulls[b] = "merged" /\ b \in slipped)

\* A receipt waiting for its revert is one the sweep will find: a rollback row
\* of it is pending and its revert pull request exists.
PendingIsWatched ==
    \A k \in Key : receipts[k].status = "rollback_pending" =>
        /\ \E i \in RollbackId : rollbacks[i] = [key |-> k, status |-> "pending"]
        /\ reverts[<<receipts[k].proposal, k>>] # "none"

\* A deployed proposal whose every receipt is rolled back: shown as live with
\* nothing left to publish or roll back.
Stranded(p) ==
    /\ proposalStatus[p] = "deployed"
    /\ \A k \in ReceiptsOf(p) : receipts[k].status = "rolled_back"

\* Only a rollback that loaded the proposal while it was "failed", before it was
\* approved and deployed once more, strands it: assigning "failed" again writes
\* nothing.  Every other rollback and every sweep takes the status back.
OnlyStaleRollbackStrands ==
    [][\A p \in Proposal : ~Stranded(p) /\ Stranded(p)' =>
          \E u \in Undoer : /\ und[u].pc = "commit" /\ und[u].proposal = p
                            /\ und[u].loaded = "failed"]_deployVars

\* One rollback request at a time: a receipt recorded as rolled back stays so,
\* whatever becomes of later reverts, sweeps and deployments.
RolledBackIsFinal ==
    [][\A k \in Key : receipts[k].status = "rolled_back" => receipts'[k].status = "rolled_back"]_deployVars

\* A rollback waiting on a revert that people merged or closed is settled.
RevertIsNoticed ==
    \A i \in RollbackId :
        (rollbacks[i].status = "pending" /\ RevertOf(i) \in {"merged", "closed"})
            ~> rollbacks[i].status \in {"applied", "failed"}

\* Deployments and rollbacks that race: a key has one holder, and what waits for a
\* revert is watched.
DeploymentsAreHeld == ClaimIsExclusive /\ PendingIsWatched

\* Whatever fails half-way, what a receipt says of its pull request is so on GitHub.
ReceiptsMatchGitHub == ReceiptHasPull /\ RolledBackIsTakenBack

\* What was taken back stays so, and no proposal is left shown as live without it.
RollbacksHold == RolledBackIsFinal /\ OnlyStaleRollbackStrands
=============================================================================
