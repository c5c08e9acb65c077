-------------------------- MODULE DeploymentProofs --------------------------
(***************************************************************************)
(* Proofs about Deployment and BatchDeployment for every set of proposals, *)
(* idempotency keys and requests.                                          *)
(*                                                                         *)
(* A receipt is checked against GitHub long after the calls that made it   *)
(* so, with requests, people and the sweep in between.  What carries the   *)
(* proofs is that pull requests and receipts only go forward (Forward):    *)
(* what a request has seen of GitHub still holds when it commits           *)
(* (RequestOK, UndoOK, BatchRequestOK).                                    *)
(***************************************************************************)
EXTENDS MCProposals, ProposalReviewProofs, FiniteSetTheorems, TLAPS

\* What a deploy or publish request holds: a claim is a receipt of its own to be, for a
\* pull request that exists once the adapter has answered; otherwise the receipt it
\* adopted exists, and what it says was merged is merged.
RequestOK(q) ==
    /\ q.pc = "adapter" => q.claimed
    /\ q.claimed => /\ q.pc \in {"adapter", "merge", "commit"}
                    /\ q.pc # "adapter" => q.receipt = q.key /\ pulls[<<q.proposal, q.key>>] # "none"
    /\ q.pc \in {"merge", "commit"} /\ ~q.claimed => Exists(q.receipt)
    /\ q.merged => q.pc = "commit" /\ pulls[PullOf(q)] = "merged"

\* What a rollback that reports success may have left of a pull request.
Undone(b) == TakenBack(b) \/ (pulls[b] = "merged" /\ b \in slipped)
KeyUndone(k) == Undone(<<receipts[k].proposal, k>>)

\* What a rollback request holds: the receipt it picked is the proposal's, and what it
\* will record of GitHub is so there.
UndoOK(q) ==
    q.pc \in {"read", "close", "revert", "commit"} =>
        /\ Exists(q.key) /\ receipts[q.key].proposal = q.proposal
        /\ q.pc = "revert" => pulls[<<q.proposal, q.key>>] = "merged"
        /\ q.pc = "close" /\ pulls[<<q.proposal, q.key>>] = "merged" => <<q.proposal, q.key>> \in slipped
        /\ q.pc = "commit" /\ q.result = "applied" => Undone(<<q.proposal, q.key>>)
        /\ q.pc = "commit" /\ q.result = "pending" => reverts[<<q.proposal, q.key>>] # "none"

RequestsOK == \A r \in Deployer : RequestOK(dep[r])
UndoesOK == \A u \in Undoer : UndoOK(und[u])

\* Only a merged pull request is reverted, and a revert that merges takes it out.
RevertsFollowMerges ==
    \A b \in Pull : /\ reverts[b] # "none" => pulls[b] = "merged"
                    /\ reverts[b] = "merged" => b \in reverted

\* A rollback row is of a receipt that exists, and a pending one of a revert that does.
RowsOK ==
    \A i \in RollbackId : rollbacks[i].status # "none" =>
        /\ Exists(rollbacks[i].key)
        /\ Pending(i) => RevertOf(i) # "none"

DeployInv ==
    /\ DeployTypeOK
    /\ RequestsOK
    /\ UndoesOK
    /\ RevertsFollowMerges
    /\ RowsOK
    /\ ClaimIsExclusive
    /\ ReceiptHasPull
    /\ RolledBackIsTakenBack
    /\ PendingIsWatched

\* What a step does to pull requests and receipts that are there: they stay, a settled
\* pull request keeps its state and a receipt its proposal.
Forward ==
    /\ \A b \in Pull : /\ pulls[b] # "none" => pulls'[b] # "none"
                       /\ pulls[b] \in {"merged", "closed"} => pulls'[b] = pulls[b]
                       /\ reverts[b] # "none" => reverts'[b] # "none"
    /\ reverted \subseteq reverted' /\ slipped \subseteq slipped'
    /\ \A k \in Key : Exists(k) => Exists(k)' /\ receipts'[k].proposal = receipts[k].proposal

-----------------------------------------------------------------------------
\* The values that stand for "nothing" are typed.
LEMMA NothingIsTyped ==
    /\ SomeProposal \in Proposal /\ SomeKey \in Key
    /\ NoReceipt \in ReceiptRow /\ NoRollback \in RollbackRow
    /\ IdleDeploy \in DeployState /\ IdleUndo \in UndoState
<1>1. SomeProposal \in Proposal /\ SomeKey \in Key
  BY DeploymentAssumption DEF DeploymentAssumption, SomeProposal, SomeKey
<1>2. 0 \in 0..LastDay
  BY DeploymentAssumption DEF DeploymentAssumption
<1> QED
  BY <1>1, <1>2 DEF NoReceipt, ReceiptRow, ReceiptStatus, NoRollback, RollbackRow, IdleDeploy, DeployState,
                    IdleUndo, UndoState, ProposalStatus

\* Nothing is deployed and nobody has asked for anything.
LEMMA DeployInitEstablishes == DeployInit => DeployInv
<1> SUFFICES ASSUME DeployInit PROVE DeployInv
  OBVIOUS
<1>1. DeployTypeOK
  BY NothingIsTyped, DeploymentAssumption
     DEF DeploymentAssumption, DeployInit, DeployTypeOK, ProposalStatus, PullState
<1>2. RequestsOK /\ UndoesOK /\ ClaimIsExclusive
  BY DEF DeployInit, RequestsOK, RequestOK, UndoesOK, UndoOK, ClaimIsExclusive, IdleDeploy, IdleUndo
<1>3. RevertsFollowMerges /\ RowsOK
  BY DEF DeployInit, RevertsFollowMerges, RowsOK, NoRollback
<1>4. ReceiptHasPull /\ RolledBackIsTakenBack /\ PendingIsWatched
  BY DEF DeployInit, ReceiptHasPull, RolledBackIsTakenBack, PendingIsWatched, Exists, NoReceipt
<1> QED BY <1>1, <1>2, <1>3, <1>4 DEF DeployInv

-----------------------------------------------------------------------------
\* A request begins in its shape.
LEMMA RequestIsTyped ==
    ASSUME NEW p \in Proposal, NEW k \in Key, NEW kind \in {"deploy", "publish"}
    PROVE  [IdleDeploy EXCEPT !.pc = "load", !.kind = kind, !.proposal = p, !.key = k] \in DeployState
BY NothingIsTyped, ZenonT(20) DEF DeployState

\* The pull request a request in "merge" or "commit" holds is one.
LEMMA PullIsTyped ==
    ASSUME DeployTypeOK, NEW r \in Deployer
    PROVE  /\ PullOf(dep[r]) \in Pull
           /\ <<dep[r].proposal, dep[r].key>> \in Pull
BY DEF DeployTypeOK, PullOf, Pull, DeployState, ReceiptRow

\* A step of a deploy or publish request keeps the types.
LEMMA DeployerKeepsTypes ==
    ASSUME DeployTypeOK, NEW r \in Deployer, DeployStep(r)
    PROVE  DeployTypeOK'
<1> USE NothingIsTyped DEF DeployTypeOK, OthersUnchanged, rows, github, ReceiptStatus
<1>1. CASE BeginDeploy(r)
  <2>1. dep' \in [Deployer -> DeployState]
    <3>1. \A p \in Proposal, k \in Key, kind \in {"deploy", "publish"} :
             [IdleDeploy EXCEPT !.pc = "load", !.kind = kind, !.proposal = p, !.key = k] \in DeployState
      BY RequestIsTyped
    <3>2. \E q \in DeployState : dep' = [dep EXCEPT ![r] = q]
      BY <1>1, <3>1 DEF BeginDeploy
    <3> QED BY <3>2
  <2> QED BY <1>1, <2>1 DEF BeginDeploy
<1>2. CASE LoadProposal(r)
  BY <1>2 DEF LoadProposal, DeployState
<1>3. CASE CheckKey(r)
  BY <1>3 DEF CheckKey, AdoptReceipt, Answer, DeployState
<1>4. CASE CheckSite(r)
  BY <1>4 DEF CheckSite, Answer, DeployState, ReceiptsOf
<1>5. CASE CheckBudget(r)
  BY <1>5 DEF CheckBudget, Answer, DeployState
<1>6. CASE ClaimKey(r)
  <2>1. CASE dep' = [dep EXCEPT ![r] = IdleDeploy]
    BY <1>6, <2>1 DEF ClaimKey
  <2>2. CASE dep' = [dep EXCEPT ![r].pc = "merge", ![r].receipt = dep[r].key]
    <3>1. dep'[r] = [dep[r] EXCEPT !.pc = "merge", !.receipt = dep[r].key]
      BY <2>2
    <3>2. dep'[r] \in DeployState
      BY <3>1 DEF DeployState
    <3> QED BY <1>6, <2>2, <3>2 DEF ClaimKey
  <2>3. CASE dep' = [dep EXCEPT ![r].pc = "adapter", ![r].claimed = TRUE]
    <3>1. dep'[r] = [dep[r] EXCEPT !.pc = "adapter", !.claimed = TRUE]
      BY <2>3
    <3>2. dep'[r] \in DeployState
      BY <3>1 DEF DeployState
    <3> QED BY <1>6, <2>3, <3>2 DEF ClaimKey
  <2> QED BY <1>6, <2>1, <2>2, <2>3 DEF ClaimKey, AdoptReceipt, Answer
<1>7. CASE CallAdapter(r)
  <2>1. dep' \in [Deployer -> DeployState]
    <3>1. CASE dep' = [dep EXCEPT ![r] = IdleDeploy]
      BY <3>1
    <3>2. ASSUME NEW pc \in {"commit", "merge"},
                 dep' = [dep EXCEPT ![r].receipt = dep[r].key, ![r].pc = pc]
          PROVE  dep' \in [Deployer -> DeployState]
      <4>1. dep'[r] = [dep[r] EXCEPT !.receipt = dep[r].key, !.pc = pc]
        BY <3>2
      <4>2. dep'[r] \in DeployState
        BY <4>1 DEF DeployState
      <4> QED BY <3>2, <4>2
    <3> QED BY <1>7, <3>1, <3>2 DEF CallAdapter, Answer
  <2>2. pulls' \in [Pull -> PullState]
    BY <1>7 DEF CallAdapter, PullState
  <2> QED BY <1>7, <2>1, <2>2 DEF CallAdapter
<1>8. CASE MergePull(r)
  <2>1. dep' \in [Deployer -> DeployState]
    BY <1>8 DEF MergePull, Answer, DeployState
  <2>2. pulls' \in [Pull -> PullState] /\ slipped' \subseteq Pull
    <3>1. PullOf(dep[r]) \in Pull
      BY PullIsTyped
    <3>2. UNCHANGED github \/ MergeOf(PullOf(dep[r]))
      BY <1>8 DEF MergePull
    <3> QED BY <3>1, <3>2 DEF MergeOf, PullState
  <2> QED BY <1>8, <2>1, <2>2 DEF MergePull
<1>9. CASE CommitDeploy(r)
  <2>1. receipts' \in [Key -> ReceiptRow]
    <3>1. CASE dep[r].claimed
      BY <1>9, <3>1 DEF CommitDeploy, ReceiptRow, DeployState
    <3>2. CASE ~dep[r].claimed
      <4>1. receipts' = MergeRecorded(dep[r])
        BY <1>9, <3>2 DEF CommitDeploy
      <4>2. dep[r].receipt \in Key /\ dep[r].merged \in BOOLEAN
        BY DEF DeployState
      <4>3. \A k \in Key : receipts'[k] \in ReceiptRow
        BY <4>1, <4>2 DEF MergeRecorded, ReceiptRow
      <4> QED BY <4>1, <4>3 DEF MergeRecorded
    <3> QED BY <3>1, <3>2
  <2>2. proposalStatus' \in [Proposal -> ProposalStatus]
    BY <1>9 DEF CommitDeploy, Written, ProposalStatus, DeployState
  <2> QED BY <1>9, <2>1, <2>2 DEF CommitDeploy, Answer
<1>10. CASE AbortDeploy(r)
  BY <1>10 DEF AbortDeploy, Answer
<1> QED
  BY <1>1, <1>2, <1>3, <1>4, <1>5, <1>6, <1>7, <1>8, <1>9, <1>10 DEF DeployStep

\* A step of a rollback request keeps the types.
LEMMA UndoerKeepsTypes ==
    ASSUME DeployTypeOK, NEW u \in Undoer, UndoStep(u)
    PROVE  DeployTypeOK'
<1> USE NothingIsTyped DEF DeployTypeOK, OthersUnchanged, rows, github, ReceiptStatus
<1>1. CASE BeginUndo(u)
  <2>1. und' \in [Undoer -> UndoState]
    <3>1. \A p \in Proposal : [IdleUndo EXCEPT !.pc = "load", !.proposal = p] \in UndoState
      BY DEF UndoState
    <3> QED BY <1>1, <3>1 DEF BeginUndo
  <2> QED BY <1>1, <2>1 DEF BeginUndo
<1>2. CASE LoadForUndo(u)
  <2>1. und' \in [Undoer -> UndoState]
    <3>1. und[u] \in UndoState /\ proposalStatus[und[u].proposal] \in ProposalStatus
      BY DEF UndoState
    <3>2. und'[u] = [und[u] EXCEPT !.pc = "receipt", !.loaded = AsLoaded(proposalStatus[und[u].proposal])]
      BY <1>2 DEF LoadForUndo
    <3>3. und'[u] \in UndoState
      BY <3>1, <3>2 DEF UndoState, AsLoaded
    <3> QED BY <1>2, <3>3 DEF LoadForUndo
  <2> QED BY <1>2, <2>1 DEF LoadForUndo
<1>3. CASE PickReceipt(u)
  <2>1. und' \in [Undoer -> UndoState]
    <3>1. und[u] \in UndoState /\ \A k \in Key : receipts[k].status \in ReceiptStatus
      BY DEF ReceiptRow, ReceiptStatus
    <3>2. ASSUME NEW k \in Key,
                 und' = [und EXCEPT ![u].pc = "read", ![u].key = k, ![u].was = receipts[k].status]
          PROVE  und' \in [Undoer -> UndoState]
      <4>1. und'[u] = [und[u] EXCEPT !.pc = "read", !.key = k, !.was = receipts[k].status]
        BY <3>2
      <4>2. und'[u] \in UndoState
        BY <3>1, <4>1 DEF UndoState
      <4> QED BY <3>2, <4>2
    <3>3. CASE Answered(u)
      BY <3>3 DEF Answered
    <3> QED BY <1>3, <3>2, <3>3 DEF PickReceipt, ReceiptsOf
  <2> QED BY <1>3, <2>1 DEF PickReceipt
<1>4. CASE ReadPull(u)
  <2>1. und' \in [Undoer -> UndoState]
    <3>1. und[u] \in UndoState
      OBVIOUS
    <3>2. \E x \in {"close", "revert"} : und' = [und EXCEPT ![u].pc = x]
      BY <1>4 DEF ReadPull
    <3>3. \E x \in {"close", "revert"} : und'[u] = [und[u] EXCEPT !.pc = x]
      BY <3>2
    <3>4. und'[u] \in UndoState
      BY <3>1, <3>3 DEF UndoState
    <3> QED BY <3>2, <3>4
  <2> QED BY <1>4, <2>1 DEF ReadPull
<1>5. CASE ClosePull(u)
  <2>1. und' \in [Undoer -> UndoState]
    <3>1. und'[u] = [und[u] EXCEPT !.pc = "commit", !.result = "applied"]
      BY <1>5 DEF ClosePull
    <3>2. und'[u] \in UndoState
      BY <3>1 DEF UndoState
    <3> QED BY <1>5, <3>2 DEF ClosePull
  <2>2. pulls' \in [Pull -> PullState]
    BY <1>5 DEF ClosePull, PullState
  <2> QED BY <1>5, <2>1, <2>2 DEF ClosePull
<1>6. CASE OpenRevert(u)
  <2>1. und' \in [Undoer -> UndoState]
    <3>1. \E x \in {"applied", "pending"} : und' = [und EXCEPT ![u].pc = "commit", ![u].result = x]
      BY <1>6 DEF OpenRevert
    <3>2. \E x \in {"applied", "pending"} : und'[u] = [und[u] EXCEPT !.pc = "commit", !.result = x]
      BY <3>1
    <3>3. und'[u] \in UndoState
      BY <3>2 DEF UndoState
    <3> QED BY <3>1, <3>3
  <2>2. reverts' \in [Pull -> PullState]
    BY <1>6 DEF OpenRevert, PullState
  <2> QED BY <1>6, <2>1, <2>2 DEF OpenRevert
<1>7. CASE CommitUndo(u)
  <2>1. rollbacks' \in [RollbackId -> RollbackRow]
    BY <1>7 DEF CommitUndo, FreeRollback, RollbackRow, UndoState
  <2>2. receipts' \in [Key -> ReceiptRow]
    <3>1. \E s \in ReceiptStatus : receipts' = [receipts EXCEPT ![und[u].key].status = s]
      <4>1. und[u].was \in ReceiptStatus /\ receipts[und[u].key].status \in ReceiptStatus
        BY DEF UndoState, ReceiptRow
      <4> QED BY <1>7, <4>1 DEF CommitUndo, Written
    <3>2. PICK s \in ReceiptStatus : receipts' = [receipts EXCEPT ![und[u].key].status = s]
      BY <3>1
    <3> QED BY <3>2 DEF ReceiptRow
  <2>3. proposalStatus' \in [Proposal -> ProposalStatus]
    BY <1>7 DEF CommitUndo, Written, ProposalStatus, UndoState
  <2>4. draftStatus' \in [Proposal -> {"none", "ready", "submitted"}]
    BY <1>7 DEF CommitUndo, SendDraftBack
  <2> QED BY <1>7, <2>1, <2>2, <2>3, <2>4 DEF CommitUndo, Answered
<1>8. CASE AbortUndo(u)
  BY <1>8 DEF AbortUndo, Answered
<1> QED BY <1>1, <1>2, <1>3, <1>4, <1>5, <1>6, <1>7, <1>8 DEF UndoStep

\* Every step keeps the types.
LEMMA TypesStep ==
    ASSUME DeployTypeOK, [DeployNext]_deployVars
    PROVE  DeployTypeOK'
<1> USE NothingIsTyped DEF DeployTypeOK, OthersUnchanged, rows, github, ReceiptStatus
<1>1. ASSUME NEW i \in RollbackId, Reconcile(i) PROVE DeployTypeOK'
  <2>1. rollbacks[i].key \in Key /\ receipts[rollbacks[i].key].proposal \in Proposal
    BY DEF RollbackRow, ReceiptRow
  <2>2. CASE Reversed(i)
    <3>1. receipts' \in [Key -> ReceiptRow] /\ rollbacks' \in [RollbackId -> RollbackRow]
      BY <2>1, <2>2 DEF Reversed, RollbackRow, ReceiptRow
    <3>2. proposalStatus' \in [Proposal -> ProposalStatus]
      BY <2>1, <2>2 DEF Reversed, ProposalStatus
    <3> QED BY <2>2, <3>1, <3>2 DEF Reversed
  <2>3. CASE Abandoned(i)
    BY <2>1, <2>3 DEF Abandoned, RollbackRow, ReceiptRow
  <2> QED BY <1>1, <2>2, <2>3 DEF Reconcile
<1>2. CASE ReviewStep
  <2>1. ASSUME NEW p \in Proposal, LoadForReview(p) PROVE DeployTypeOK'
    BY <2>1 DEF LoadForReview
  <2>2. ASSUME NEW p \in Proposal, WriteReview(p) PROVE DeployTypeOK'
    <3>1. PICK s \in review[p] : proposalStatus' = [proposalStatus EXCEPT ![p] = s]
      BY <2>2 DEF WriteReview
    <3>2. proposalStatus' \in [Proposal -> ProposalStatus]
      BY <3>1 DEF Reviewed, ProposalStatus
    <3>3. review' \in [Proposal -> SUBSET Reviewed] /\ draftStatus' \in [Proposal -> {"none", "ready", "submitted"}]
      BY <2>2 DEF WriteReview, SendDraftBack
    <3> QED BY <2>2, <3>2, <3>3 DEF WriteReview
  <2> QED BY <1>2, <2>1, <2>2 DEF ReviewStep
<1>3. CASE PeopleStep
  <2> SUFFICES ASSUME NEW b \in Pull,
                      PersonMerges(b) \/ PersonCloses(b)
                      \/ PersonMergesRevert(b) \/ PersonClosesRevert(b)
               PROVE  DeployTypeOK'
    BY <1>3 DEF PeopleStep
  <2>1. b[1] \in Proposal
    BY DEF Pull
  <2>2. pulls' \in [Pull -> PullState] /\ reverts' \in [Pull -> PullState]
    BY DEF MergeOf, PersonMerges, PersonCloses, PersonMergesRevert, PersonClosesRevert, PullState
  <2>3. reverted' \subseteq Pull /\ slipped' \subseteq Pull
    BY <2>1 DEF MergeOf, PersonMerges, PersonCloses, PersonMergesRevert, PersonClosesRevert
  <2> QED
    BY <2>2, <2>3 DEF PersonMerges, PersonCloses, PersonMergesRevert, PersonClosesRevert
<1>4. CASE ToggleGate
  BY <1>4 DEF ToggleGate
<1>5. CASE Midnight
  <2>1. day' \in 0..LastDay
    BY <1>5, DeploymentAssumption DEF Midnight, DeploymentAssumption
  <2> QED BY <1>5, <2>1 DEF Midnight
<1>6. CASE UNCHANGED deployVars
  BY <1>6 DEF deployVars
<1> QED
  BY <1>1, <1>2, <1>3, <1>4, <1>5, <1>6, DeployerKeepsTypes, UndoerKeepsTypes DEF DeployNext

-----------------------------------------------------------------------------
\* The steps that write receipts or rollbacks, or change a pull request.
LEMMA Effects ==
    ASSUME [DeployNext]_deployVars
    PROVE  \/ UNCHANGED <<receipts, rollbacks, github>>
           \/ \E r \in Deployer : CallAdapter(r) \/ MergePull(r) \/ CommitDeploy(r)
           \/ \E u \in Undoer : ClosePull(u) \/ OpenRevert(u) \/ CommitUndo(u)
           \/ \E i \in RollbackId : Reconcile(i)
           \/ PeopleStep
<1> USE DEF OthersUnchanged, rows, github
<1>1. ASSUME NEW r \in Deployer,
             \/ BeginDeploy(r) \/ LoadProposal(r) \/ CheckKey(r) \/ CheckSite(r)
             \/ CheckBudget(r) \/ ClaimKey(r) \/ AbortDeploy(r)
      PROVE  UNCHANGED <<receipts, rollbacks, github>>
  BY <1>1 DEF BeginDeploy, LoadProposal, CheckKey, CheckSite, CheckBudget, ClaimKey, AbortDeploy
<1>2. ASSUME NEW u \in Undoer,
             BeginUndo(u) \/ LoadForUndo(u) \/ PickReceipt(u) \/ ReadPull(u) \/ AbortUndo(u)
      PROVE  UNCHANGED <<receipts, rollbacks, github>>
  BY <1>2 DEF BeginUndo, LoadForUndo, PickReceipt, ReadPull, AbortUndo
<1>3. ReviewStep \/ ToggleGate \/ Midnight \/ UNCHANGED deployVars
          => UNCHANGED <<receipts, rollbacks, github>>
  BY DEF ReviewStep, LoadForReview, WriteReview, ToggleGate, Midnight, deployVars
<1> QED BY <1>1, <1>2, <1>3 DEF DeployNext, DeployStep, UndoStep

\* Pull requests and receipts only go forward.
LEMMA ForwardStep ==
    ASSUME DeployInv, [DeployNext]_deployVars
    PROVE  Forward
<1> USE DEF DeployInv, DeployTypeOK, OthersUnchanged, rows, github
<1>1. CASE UNCHANGED <<receipts, rollbacks, github>>
  BY <1>1 DEF Forward, Exists
<1>2. ASSUME NEW r \in Deployer, CallAdapter(r) PROVE Forward
  BY <1>2, PullIsTyped DEF CallAdapter, Forward, Exists
<1>3. ASSUME NEW r \in Deployer, MergePull(r) PROVE Forward
  BY <1>3, PullIsTyped DEF MergePull, MergeOf, Forward, Exists
<1>4. ASSUME NEW r \in Deployer, CommitDeploy(r) PROVE Forward
  <2>1. dep[r].key \in Key /\ dep[r].receipt \in Key /\ (dep[r].claimed => ~Exists(dep[r].key))
    BY DEF DeployState, ClaimIsExclusive
  <2>2. CASE dep[r].claimed
    BY <1>4, <2>1, <2>2 DEF CommitDeploy, Forward, Exists
  <2>3. CASE ~dep[r].claimed
    <3>1. receipts' = MergeRecorded(dep[r]) /\ UNCHANGED github
      BY <1>4, <2>3 DEF CommitDeploy
    <3>2. \A k \in Key : /\ receipts'[k].proposal = receipts[k].proposal
                         /\ receipts'[k].status = receipts[k].status
      BY <3>1 DEF MergeRecorded
    <3> QED BY <3>1, <3>2 DEF Forward, Exists
  <2> QED BY <2>2, <2>3
<1>5. ASSUME NEW u \in Undoer, ClosePull(u) PROVE Forward
  BY <1>5 DEF ClosePull, Forward, Exists
<1>6. ASSUME NEW u \in Undoer, OpenRevert(u) PROVE Forward
  BY <1>6 DEF OpenRevert, Forward, Exists
<1>7. ASSUME NEW u \in Undoer, CommitUndo(u) PROVE Forward
  BY <1>7 DEF CommitUndo, Written, Forward, Exists
<1>8. ASSUME NEW i \in RollbackId, Reconcile(i) PROVE Forward
  <2>1. \A k \in Key : receipts'[k].proposal = receipts[k].proposal
    BY SMTT(40), <1>8 DEF Reconcile, Reversed, Abandoned, ReceiptRow
  <2>2. \A k \in Key : Exists(k) => Exists(k)'
    BY <1>8 DEF Reconcile, Reversed, Abandoned, Exists, ReceiptRow
  <2>3. UNCHANGED github
    BY <1>8 DEF Reconcile, Reversed, Abandoned
  <2> QED BY <2>1, <2>2, <2>3 DEF Forward
<1>9. CASE PeopleStep
  BY <1>9 DEF PeopleStep, PersonMerges, PersonCloses, PersonMergesRevert, PersonClosesRevert,
              MergeOf, Forward, Exists
<1> QED
  BY <1>1, <1>2, <1>3, <1>4, <1>5, <1>6, <1>7, <1>8, <1>9, Effects

-----------------------------------------------------------------------------
\* A step is of one request at most, and leaves the others alone.
LEMMA OtherRequestsRest ==
    ASSUME DeployTypeOK, [DeployNext]_deployVars
    PROVE  /\ \A r \in Deployer : DeployStep(r) \/ dep'[r] = dep[r]
           /\ \A u \in Undoer : UndoStep(u) \/ und'[u] = und[u]
<1> USE DEF OthersUnchanged, DeployTypeOK
<1>1. ASSUME NEW r \in Deployer, DeployStep(r)
      PROVE  und' = und /\ \A s \in Deployer \ {r} : dep'[s] = dep[s]
  BY <1>1 DEF DeployStep, BeginDeploy, LoadProposal, CheckKey, CheckSite, CheckBudget, ClaimKey,
              CallAdapter, MergePull, CommitDeploy, AbortDeploy, AdoptReceipt, Answer
<1>2. ASSUME NEW u \in Undoer, UndoStep(u)
      PROVE  dep' = dep /\ \A v \in Undoer \ {u} : und'[v] = und[v]
  BY <1>2 DEF UndoStep, BeginUndo, LoadForUndo, PickReceipt, ReadPull, ClosePull, OpenRevert,
              CommitUndo, AbortUndo, Answered
<1>3. (\E i \in RollbackId : Reconcile(i)) \/ ReviewStep \/ PeopleStep \/ ToggleGate \/ Midnight
      \/ UNCHANGED deployVars
          => dep' = dep /\ und' = und
  BY DEF Reconcile, Reversed, Abandoned, ReviewStep, LoadForReview, WriteReview, PeopleStep,
         PersonMerges, PersonCloses, PersonMergesRevert, PersonClosesRevert, ToggleGate, Midnight,
         deployVars
<1> QED BY <1>1, <1>2, <1>3 DEF DeployNext

\* What a request holds stays so while others move.
LEMMA RequestStaysOK ==
    ASSUME DeployInv, Forward, NEW r \in Deployer, dep'[r] = dep[r]
    PROVE  RequestOK(dep[r])'
<1>1. RequestOK(dep[r]) /\ dep[r] \in DeployState
  BY DEF DeployInv, RequestsOK, DeployTypeOK
<1>2. /\ dep[r].receipt \in Key /\ PullOf(dep[r]) \in Pull
      /\ <<dep[r].proposal, dep[r].key>> \in Pull
  BY PullIsTyped, <1>1 DEF DeployInv, DeployState
<1>3. dep[r].merged => PullOf(dep[r])' = PullOf(dep[r])
  BY <1>1, <1>2 DEF RequestOK, Forward, PullOf
<1> QED BY <1>1, <1>2, <1>3 DEF RequestOK, Forward

\* Every step keeps what requests hold.
LEMMA RequestsStep ==
    ASSUME DeployInv, [DeployNext]_deployVars
    PROVE  RequestsOK'
<1>1. Forward
  BY ForwardStep
<1>2. ASSUME NEW r \in Deployer, DeployStep(r) PROVE RequestOK(dep[r])'
  <2> USE DEF DeployInv, DeployTypeOK, OthersUnchanged, rows, github
  <2> DEFINE q == dep[r]
  <2>1. /\ q \in DeployState /\ RequestOK(q) /\ PullOf(q) \in Pull
        /\ <<q.proposal, q.key>> \in Pull
    BY PullIsTyped DEF RequestsOK
  <2>2. CASE BeginDeploy(r) \/ AbortDeploy(r)
    <3>1. BeginDeploy(r) => ~dep'[r].claimed /\ ~dep'[r].merged /\ dep'[r].pc = "load"
      BY DEF BeginDeploy, IdleDeploy
    <3>2. AbortDeploy(r) => ~dep'[r].claimed /\ ~dep'[r].merged /\ dep'[r].pc = "idle"
      BY DEF AbortDeploy, Answer, IdleDeploy
    <3> QED BY <2>2, <3>1, <3>2 DEF RequestOK
  <2>3. CASE LoadProposal(r)
    BY <2>1, <2>3 DEF LoadProposal, RequestOK, DeployState
  <2>4. CASE CheckKey(r)
    BY <2>1, <2>4 DEF CheckKey, AdoptReceipt, Answer, IdleDeploy, RequestOK, DeployState, Exists
  <2>5. CASE CheckSite(r)
    BY <2>1, <2>5 DEF CheckSite, ReceiptsOf, Answer, IdleDeploy, RequestOK, DeployState, Exists
  <2>6. CASE CheckBudget(r)
    BY <2>1, <2>6 DEF CheckBudget, Answer, IdleDeploy, RequestOK, DeployState
  <2>7. CASE ClaimKey(r)
    BY <2>1, <2>7 DEF ClaimKey, AdoptReceipt, Answer, IdleDeploy, RequestOK, DeployState, Exists
  <2>8. CASE CallAdapter(r)
    BY <2>1, <2>8 DEF CallAdapter, Answer, IdleDeploy, RequestOK, DeployState
  <2>9. CASE MergePull(r)
    BY SMTT(40), <2>1, <2>9 DEF MergePull, MergeOf, Answer, IdleDeploy, RequestOK, PullOf, DeployState, Exists
  <2>10. CASE CommitDeploy(r)
    BY <2>10 DEF CommitDeploy, Answer, IdleDeploy, RequestOK
  <2> QED BY <1>2, <2>2, <2>3, <2>4, <2>5, <2>6, <2>7, <2>8, <2>9, <2>10 DEF DeployStep
<1>3. ASSUME NEW r \in Deployer, ~DeployStep(r) PROVE RequestOK(dep[r])'
  <2>1. dep'[r] = dep[r]
    BY <1>3, OtherRequestsRest DEF DeployInv
  <2> QED BY <1>1, <2>1, RequestStaysOK
<1> QED BY <1>2, <1>3 DEF RequestsOK

\* A pull request that merges while a rollback is about to close it has slipped through.
LEMMA MergesSlip ==
    ASSUME DeployInv, [DeployNext]_deployVars, NEW u \in Undoer, NEW b \in Pull, Closing(u, b),
           pulls[b] # "merged", pulls'[b] = "merged"
    PROVE  b \in slipped'
<1> USE DEF DeployInv, DeployTypeOK
<1>1. ASSUME NEW c \in Pull, MergeOf(c) PROVE b \in slipped'
  BY <1>1 DEF MergeOf
<1>2. ASSUME NEW r \in Deployer, MergePull(r) PROVE b \in slipped'
  BY <1>1, <1>2, PullIsTyped DEF MergePull, github
<1>3. ASSUME PeopleStep PROVE b \in slipped'
  BY <1>1, <1>3 DEF PeopleStep, PersonMerges, PersonCloses, PersonMergesRevert, PersonClosesRevert
<1>4. ASSUME NEW r \in Deployer, CallAdapter(r) \/ CommitDeploy(r) PROVE pulls'[b] # "merged"
  BY <1>4 DEF CallAdapter, CommitDeploy, github
<1>5. ASSUME NEW v \in Undoer, ClosePull(v) \/ OpenRevert(v) \/ CommitUndo(v) PROVE pulls'[b] # "merged"
  BY <1>5 DEF ClosePull, OpenRevert, CommitUndo, github
<1>6. ASSUME NEW i \in RollbackId, Reconcile(i) PROVE pulls'[b] # "merged"
  BY <1>6 DEF Reconcile, Reversed, Abandoned, github
<1> QED BY <1>2, <1>3, <1>4, <1>5, <1>6, Effects DEF github

\* Every step keeps what rollback requests hold.
LEMMA UndoesStep ==
    ASSUME DeployInv, [DeployNext]_deployVars
    PROVE  UndoesOK'
<1>1. Forward
  BY ForwardStep
<1>2. ASSUME NEW u \in Undoer, UndoStep(u) PROVE UndoOK(und[u])'
  <2> USE DEF DeployInv, DeployTypeOK, OthersUnchanged, rows, github
  <2> DEFINE q == und[u]
  <2>1. q \in UndoState /\ UndoOK(q) /\ <<q.proposal, q.key>> \in Pull
    BY DEF UndoesOK, UndoState, Pull
  <2>2. CASE BeginUndo(u) \/ LoadForUndo(u) \/ CommitUndo(u) \/ AbortUndo(u)
    <3>1. BeginUndo(u) => und'[u].pc = "load"
      BY DEF BeginUndo, IdleUndo
    <3>2. LoadForUndo(u) => und'[u].pc = "receipt"
      BY <2>1 DEF LoadForUndo, UndoState
    <3>3. CommitUndo(u) \/ AbortUndo(u) => und'[u].pc = "idle"
      BY DEF CommitUndo, AbortUndo, Answered, IdleUndo
    <3> QED BY <2>2, <3>1, <3>2, <3>3 DEF UndoOK
  <2>3. CASE PickReceipt(u)
    <3>1. CASE Answered(u)
      BY <3>1 DEF Answered, IdleUndo, UndoOK
    <3>2. ASSUME NEW k \in ReceiptsOf(q.proposal),
                 und' = [und EXCEPT ![u].pc = "read", ![u].key = k, ![u].was = receipts[k].status]
          PROVE  UndoOK(und[u])'
      <4>1. /\ und'[u].pc = "read" /\ und'[u].key = k /\ und'[u].proposal = q.proposal
            /\ receipts' = receipts
        BY <2>1, <2>3, <3>2 DEF PickReceipt, UndoState
      <4> QED BY <4>1 DEF UndoOK, ReceiptsOf, Exists
    <3> QED BY <2>3, <3>1, <3>2 DEF PickReceipt
  <2>4. CASE ReadPull(u)
    BY <2>1, <2>4 DEF ReadPull, UndoOK, UndoState, Exists
  <2>5. CASE ClosePull(u)
    <3>1. pulls[<<q.proposal, q.key>>] \in {"open", "merged", "closed"}
      BY <2>1, <2>5 DEF ClosePull, UndoOK, ReceiptHasPull, PullState, UndoState
    <3> QED BY <2>1, <2>5, <3>1 DEF ClosePull, UndoOK, UndoState, Exists, Undone, TakenBack
  <2>6. CASE OpenRevert(u)
    <3> DEFINE b == <<q.proposal, q.key>>
               gone == q.proposal \in NewFile /\ q.proposal \notin Live /\ reverts[b] = "none"
    <3>1. /\ und'[u].pc = "commit" /\ und'[u].proposal = q.proposal /\ und'[u].key = q.key
          /\ und'[u].result = IF gone THEN "applied" ELSE "pending"
          /\ receipts' = receipts /\ reverted' = reverted /\ pulls' = pulls
          /\ q.pc = "revert"
      BY <2>1, <2>6 DEF OpenRevert, UndoState
    <3>2. pulls[b] = "merged" /\ Exists(q.key) /\ receipts[q.key].proposal = q.proposal
      BY <2>1, <3>1 DEF UndoOK
    <3>3. gone => b \in reverted
      BY <2>1, <3>2 DEF Live, UndoState
    <3>4. ~gone => reverts'[b] # "none"
      BY <2>1, <2>6 DEF OpenRevert
    <3> QED BY <3>1, <3>2, <3>3, <3>4 DEF UndoOK, Undone, TakenBack, Exists
  <2> QED BY <1>2, <2>2, <2>3, <2>4, <2>5, <2>6 DEF UndoStep
<1>3. ASSUME NEW u \in Undoer, und'[u] = und[u] PROVE UndoOK(und[u])'
  <2>1. UndoOK(und[u]) /\ und[u].key \in Key /\ <<und[u].proposal, und[u].key>> \in Pull
    BY DEF DeployInv, UndoesOK, DeployTypeOK, UndoState, Pull
  <2> DEFINE b == <<und[u].proposal, und[u].key>>
  <2>2. CASE und[u].pc = "close" /\ pulls'[b] = "merged"
    <3>1. b \in slipped'
      BY <1>1, <2>1, <2>2, MergesSlip DEF UndoOK, Closing, Forward
    <3> QED BY <1>1, <1>3, <2>1, <2>2, <3>1 DEF UndoOK, Forward
  <2>3. CASE ~(und[u].pc = "close" /\ pulls'[b] = "merged")
    BY <1>1, <1>3, <2>1, <2>3 DEF UndoOK, Forward, Undone, TakenBack
  <2> QED BY <2>2, <2>3
<1> QED BY <1>2, <1>3, OtherRequestsRest DEF UndoesOK, DeployInv

\* Every step leaves reverts behind merged pull requests, and rows of receipts that exist.
LEMMA RevertsStep ==
    ASSUME DeployInv, [DeployNext]_deployVars
    PROVE  RevertsFollowMerges'
<1>1. Forward
  BY ForwardStep
<1>2. CASE reverts' = reverts
  BY <1>1, <1>2 DEF DeployInv, RevertsFollowMerges, Forward
<1>3. ASSUME NEW u \in Undoer, OpenRevert(u) PROVE RevertsFollowMerges'
  <2>1. pulls[<<und[u].proposal, und[u].key>>] = "merged" /\ pulls' = pulls
    BY <1>3 DEF OpenRevert, DeployInv, UndoesOK, UndoOK
  <2>2. \A b \in Pull : b # <<und[u].proposal, und[u].key>> => reverts'[b] = reverts[b]
    BY <1>3 DEF OpenRevert, DeployInv, DeployTypeOK
  <2>3. reverts'[<<und[u].proposal, und[u].key>>] = "merged" =>
            reverts[<<und[u].proposal, und[u].key>>] = "merged"
    BY <1>3 DEF OpenRevert, DeployInv, DeployTypeOK
  <2> QED BY <1>3, <2>1, <2>2, <2>3 DEF DeployInv, RevertsFollowMerges, OpenRevert
<1>4. ASSUME NEW b \in Pull, PersonMergesRevert(b) \/ PersonClosesRevert(b)
      PROVE  RevertsFollowMerges'
  BY <1>4 DEF PersonMergesRevert, PersonClosesRevert, DeployInv, RevertsFollowMerges, DeployTypeOK
<1> QED
  BY <1>2, <1>3, <1>4, Effects
     DEF CallAdapter, MergePull, CommitDeploy, ClosePull, CommitUndo, Reconcile, Reversed, Abandoned,
         PeopleStep, PersonMerges, PersonCloses, github

\* No step leaves a rollback row without its receipt, or a pending one without its revert.
LEMMA RowsStep ==
    ASSUME DeployInv, [DeployNext]_deployVars
    PROVE  RowsOK'
<1> USE DEF DeployInv, DeployTypeOK
<1>1. Forward
  BY ForwardStep
<1>2. ASSUME NEW i \in RollbackId, rollbacks[i].status # "none", rollbacks'[i].key = rollbacks[i].key,
             rollbacks'[i].status = "pending" => Pending(i)
      PROVE  Exists(rollbacks[i].key)' /\ (Pending(i)' => RevertOf(i)' # "none")
  <2>1. rollbacks[i].key \in Key /\ Exists(rollbacks[i].key)
    BY <1>2 DEF RollbackRow, RowsOK
  <2>2. <<receipts[rollbacks[i].key].proposal, rollbacks[i].key>> \in Pull
    BY <2>1 DEF ReceiptRow, Pull
  <2> QED BY <1>1, <1>2, <2>1, <2>2 DEF RowsOK, Forward, RevertOf, Pending
<1>3. CASE rollbacks' = rollbacks
  BY <1>2, <1>3 DEF RowsOK, Pending
<1>4. ASSUME NEW u \in Undoer, CommitUndo(u) PROVE RowsOK'
  <2> DEFINE q == und[u]
  <2>1. PICK i \in FreeRollback : rollbacks' = [rollbacks EXCEPT ![i] = [key |-> q.key, status |-> q.result]]
    BY <1>4 DEF CommitUndo
  <2>2. q \in UndoState /\ UndoOK(q) /\ q.pc = "commit"
    BY <1>4 DEF CommitUndo, UndoesOK
  <2>3. \A j \in RollbackId : j # i => rollbacks'[j] = rollbacks[j]
    BY <2>1 DEF FreeRollback
  <2>4. rollbacks'[i] = [key |-> q.key, status |-> q.result] /\ reverts' = reverts
    BY <1>4, <2>1 DEF FreeRollback, CommitUndo, github
  <2>5. receipts'[q.key].status # "none" /\ receipts'[q.key].proposal = q.proposal /\ q.key \in Key
    BY <1>1, <2>2 DEF UndoOK, Forward, UndoState, Exists
  <2>6. Exists(rollbacks[i].key)' /\ (Pending(i)' => RevertOf(i)' # "none")
    BY <2>2, <2>4, <2>5 DEF UndoOK, Pending, RevertOf, Exists
  <2> QED BY <1>2, <2>3, <2>6 DEF RowsOK, Pending
<1>5. ASSUME NEW i \in RollbackId, Reconcile(i) PROVE RowsOK'
  <2>1. \A j \in RollbackId : rollbacks'[j].key = rollbacks[j].key
    BY <1>5 DEF Reconcile, Reversed, Abandoned, RollbackRow
  <2>2. \A j \in RollbackId : j # i => rollbacks'[j] = rollbacks[j]
    BY <1>5 DEF Reconcile, Reversed, Abandoned
  <2>3. rollbacks[i].status = "pending" /\ rollbacks'[i].status \in {"applied", "failed"}
    BY <1>5 DEF Reconcile, Reversed, Abandoned, Pending, RollbackRow
  <2> QED BY <1>2, <2>1, <2>2, <2>3 DEF RowsOK, Pending
<1> QED
  BY <1>3, <1>4, <1>5, Effects
     DEF CallAdapter, MergePull, CommitDeploy, ClosePull, OpenRevert, rows, github,
         PeopleStep, PersonMerges, PersonCloses, PersonMergesRevert, PersonClosesRevert

-----------------------------------------------------------------------------
\* Every step keeps one holder to a key: only ClaimKey takes one, only the holder makes
\* it a receipt.
LEMMA ClaimStep ==
    ASSUME DeployInv, [DeployNext]_deployVars
    PROVE  ClaimIsExclusive'
<1> USE DEF DeployInv, DeployTypeOK
\* Claims only go, and no key gets a receipt.
<1>1. ASSUME \A r \in Deployer : dep'[r].claimed => dep[r].claimed /\ dep'[r].key = dep[r].key,
             \A k \in Key : Exists(k)' => Exists(k)
      PROVE  ClaimIsExclusive'
  <2>1. \A r \in Deployer : dep[r].key \in Key
    BY DEF DeployState
  <2> QED BY <1>1, <2>1 DEF ClaimIsExclusive
<1>2. ASSUME NEW r \in Deployer, DeployStep(r) PROVE ClaimIsExclusive'
  <2> DEFINE q == dep[r]
  <2>1. q \in DeployState /\ RequestOK(q)
    BY DEF RequestsOK
  <2>2. \A s \in Deployer : s # r => dep'[s] = dep[s]
    BY <1>2 DEF DeployStep, BeginDeploy, LoadProposal, CheckKey, CheckSite, CheckBudget, ClaimKey,
                CallAdapter, MergePull, CommitDeploy, AbortDeploy, AdoptReceipt, Answer
  <2>3. CASE CommitDeploy(r)
    <3>1. ~dep'[r].claimed
      BY <2>3 DEF CommitDeploy, Answer, IdleDeploy
    <3>2. CASE q.claimed
      <4>1. \A k \in Key : k # q.key => receipts'[k] = receipts[k]
        BY <2>3, <3>2 DEF CommitDeploy
      <4>2. \A s \in Deployer \ {r} : dep[s].claimed => dep[s].key # q.key
        BY <3>2 DEF ClaimIsExclusive
      <4>3. \A s \in Deployer : dep[s].key \in Key
        BY DEF DeployState
      <4> QED BY <2>2, <3>1, <4>1, <4>2, <4>3 DEF ClaimIsExclusive, Exists
    <3>3. CASE ~q.claimed
      <4>1. \A k \in Key : receipts'[k].status = receipts[k].status
        BY <2>3, <3>3 DEF CommitDeploy, MergeRecorded, ReceiptRow
      <4> QED BY <1>1, <2>2, <3>1, <4>1 DEF Exists
    <3> QED BY <3>2, <3>3
  <2>4. CASE ClaimKey(r)
    <3>1. receipts' = receipts
      BY <2>4 DEF ClaimKey, rows
    <3>2. CASE Exists(q.key)
      <4>1. dep'[r].claimed => q.claimed /\ dep'[r].key = q.key
        <5>1. \/ dep' = [dep EXCEPT ![r] = IdleDeploy]
              \/ dep' = [dep EXCEPT ![r].pc = "merge", ![r].receipt = q.key]
          BY <2>4, <3>2 DEF ClaimKey, AdoptReceipt, Answer
        <5> QED BY <2>1, <5>1 DEF IdleDeploy, DeployState
      <4> QED BY <1>1, <2>2, <3>1, <4>1 DEF Exists
    <3>3. CASE ~Exists(q.key)
      <4>1. dep'[r].key = q.key /\ \A s \in Deployer : dep[s].claimed => dep[s].key # q.key
        BY <2>1, <2>4, <3>3 DEF ClaimKey, DeployState
      <4> QED BY <2>2, <3>1, <3>3, <4>1 DEF ClaimIsExclusive, Exists
    <3> QED BY <3>2, <3>3
  <2>5. CASE ~CommitDeploy(r) /\ ~ClaimKey(r)
    <3>1. CASE BeginDeploy(r) \/ AbortDeploy(r)
      <4>1. BeginDeploy(r) => ~dep'[r].claimed
        BY DEF BeginDeploy, IdleDeploy
      <4>2. AbortDeploy(r) => ~dep'[r].claimed
        BY DEF AbortDeploy, Answer, IdleDeploy
      <4>3. receipts' = receipts
        BY <3>1 DEF BeginDeploy, AbortDeploy, rows
      <4> QED BY <1>1, <2>2, <3>1, <4>1, <4>2, <4>3 DEF Exists
    <3>2. CASE LoadProposal(r) \/ CheckKey(r) \/ CheckSite(r) \/ CheckBudget(r)
      <4>1. dep'[r].claimed => q.claimed /\ dep'[r].key = q.key
        BY <2>1, <3>2 DEF LoadProposal, CheckKey, CheckSite, CheckBudget, AdoptReceipt, Answer,
                          IdleDeploy, DeployState
      <4>2. receipts' = receipts
        BY <3>2 DEF LoadProposal, CheckKey, CheckSite, CheckBudget, rows
      <4> QED BY <1>1, <2>2, <4>1, <4>2 DEF Exists
    <3>3. CASE CallAdapter(r) \/ MergePull(r)
      <4>1. dep'[r].claimed => q.claimed /\ dep'[r].key = q.key
        BY <2>1, <3>3 DEF CallAdapter, MergePull, Answer, IdleDeploy, DeployState
      <4>2. receipts' = receipts
        BY <3>3 DEF CallAdapter, MergePull, rows
      <4> QED BY <1>1, <2>2, <4>1, <4>2 DEF Exists
    <3> QED BY <1>2, <2>5, <3>1, <3>2, <3>3 DEF DeployStep
  <2> QED BY <2>3, <2>4, <2>5
<1>3. ASSUME NEW u \in Undoer, UndoStep(u) PROVE ClaimIsExclusive'
  <2>1. dep' = dep
    BY <1>3 DEF UndoStep, BeginUndo, LoadForUndo, PickReceipt, ReadPull, ClosePull, OpenRevert,
                CommitUndo, AbortUndo
  <2>2. CASE CommitUndo(u)
    <3>1. und[u].key \in Key /\ Exists(und[u].key)
      BY <2>2 DEF CommitUndo, UndoesOK, UndoOK, UndoState
    <3>2. \A k \in Key : k # und[u].key => receipts'[k] = receipts[k]
      BY <2>2 DEF CommitUndo
    <3> QED BY <1>1, <2>1, <3>1, <3>2 DEF Exists
  <2>3. CASE ~CommitUndo(u)
    <3>1. receipts' = receipts
      BY <1>3, <2>3 DEF UndoStep, BeginUndo, LoadForUndo, PickReceipt, ReadPull, ClosePull,
                        OpenRevert, AbortUndo, rows
    <3> QED BY <1>1, <2>1, <3>1 DEF Exists
  <2> QED BY <2>2, <2>3
<1>4. ASSUME NEW i \in RollbackId, Reconcile(i) PROVE ClaimIsExclusive'
  <2>1. Exists(rollbacks[i].key) /\ rollbacks[i].key \in Key
    BY <1>4 DEF Reconcile, Reversed, Abandoned, Pending, RowsOK, RollbackRow
  <2>2. dep' = dep /\ \A k \in Key : k # rollbacks[i].key => receipts'[k] = receipts[k]
    BY <1>4 DEF Reconcile, Reversed, Abandoned
  <2> QED BY <1>1, <2>1, <2>2 DEF Exists
<1>5. CASE ReviewStep \/ PeopleStep \/ ToggleGate \/ Midnight \/ UNCHANGED deployVars
  <2>1. dep' = dep /\ receipts' = receipts
    BY <1>5 DEF ReviewStep, LoadForReview, WriteReview, PeopleStep, PersonMerges, PersonCloses,
                PersonMergesRevert, PersonClosesRevert, ToggleGate, Midnight, deployVars, rows
  <2> QED BY <1>1, <2>1 DEF Exists
<1> QED BY <1>2, <1>3, <1>4, <1>5 DEF DeployNext

\* Every step leaves a receipt with its pull request, merged if it says published.
LEMMA ReceiptStep ==
    ASSUME DeployInv, [DeployNext]_deployVars
    PROVE  ReceiptHasPull'
<1> USE DEF DeployInv, DeployTypeOK
<1>1. Forward
  BY ForwardStep
<1>2. ASSUME NEW k \in Key, Exists(k), receipts'[k].published => receipts[k].published
      PROVE  /\ pulls'[<<receipts'[k].proposal, k>>] # "none"
             /\ receipts'[k].published => pulls'[<<receipts'[k].proposal, k>>] = "merged"
  <2>1. <<receipts[k].proposal, k>> \in Pull
    BY DEF ReceiptRow, Pull
  <2> QED BY <1>1, <1>2, <2>1 DEF ReceiptHasPull, Forward
<1>3. CASE \A k \in Key : /\ Exists(k)' => Exists(k)
                          /\ receipts'[k].published => receipts[k].published
  BY <1>2, <1>3 DEF ReceiptHasPull
<1>4. ASSUME NEW r \in Deployer, CommitDeploy(r) PROVE ReceiptHasPull'
  <2> DEFINE q == dep[r]
  <2>1. /\ q \in DeployState /\ RequestOK(q) /\ q.pc = "commit" /\ pulls' = pulls
        /\ q.receipt \in Key /\ q.key \in Key
    BY <1>4 DEF RequestsOK, CommitDeploy, github, DeployState
  <2>2. CASE q.claimed
    <3>1. receipts'[q.key] = [proposal |-> q.proposal, status |-> "applied",
                               published |-> q.merged, day |-> q.day]
      BY <1>4, <2>1, <2>2 DEF CommitDeploy
    <3>2. \A k \in Key : k # q.key => receipts'[k] = receipts[k]
      BY <1>4, <2>2 DEF CommitDeploy
    <3> QED BY <1>2, <2>1, <2>2, <3>1, <3>2 DEF ReceiptHasPull, RequestOK, PullOf, Exists
  <2>3. CASE ~q.claimed
    <3>1. receipts' = MergeRecorded(q)
      BY <1>4, <2>3 DEF CommitDeploy
    <3>2. \A k \in Key : /\ receipts'[k].status = receipts[k].status
                         /\ receipts'[k].proposal = receipts[k].proposal
                         /\ k # q.receipt => receipts'[k].published = receipts[k].published
      BY <3>1 DEF MergeRecorded, ReceiptRow
    <3>3. receipts'[q.receipt].published => receipts[q.receipt].published \/ q.merged
      BY <2>1, <3>1 DEF MergeRecorded, ReceiptRow, DeployState
    <3> QED BY <2>1, <2>3, <3>2, <3>3 DEF ReceiptHasPull, RequestOK, PullOf, Exists
  <2> QED BY <2>2, <2>3
<1>5. ASSUME NEW u \in Undoer, CommitUndo(u) PROVE ReceiptHasPull'
  <2>1. und[u].key \in Key /\ Exists(und[u].key)
    BY <1>5 DEF CommitUndo, UndoesOK, UndoOK, UndoState
  <2>2. /\ \A k \in Key : k # und[u].key => receipts'[k] = receipts[k]
        /\ receipts'[und[u].key].published = receipts[und[u].key].published
    BY <1>5, <2>1 DEF CommitUndo, ReceiptRow
  <2> QED BY <1>3, <2>1, <2>2 DEF Exists
<1>6. ASSUME NEW i \in RollbackId, Reconcile(i) PROVE ReceiptHasPull'
  <2>1. Exists(rollbacks[i].key) /\ rollbacks[i].key \in Key
    BY <1>6 DEF Reconcile, Reversed, Abandoned, Pending, RowsOK, RollbackRow
  <2>2. /\ \A k \in Key : k # rollbacks[i].key => receipts'[k] = receipts[k]
        /\ receipts'[rollbacks[i].key].published = receipts[rollbacks[i].key].published
    BY <1>6, <2>1 DEF Reconcile, Reversed, Abandoned, ReceiptRow
  <2> QED BY <1>3, <2>1, <2>2 DEF Exists
<1> QED
  BY <1>3, <1>4, <1>5, <1>6, Effects
     DEF CallAdapter, MergePull, ClosePull, OpenRevert, rows, github, Exists,
         PeopleStep, PersonMerges, PersonCloses, PersonMergesRevert, PersonClosesRevert

\* Every step leaves a receipt that reads rolled back with a pull request that was taken
\* back, or slipped through.
LEMMA RolledBackStep ==
    ASSUME DeployInv, [DeployNext]_deployVars
    PROVE  RolledBackIsTakenBack'
<1> USE DEF DeployInv, DeployTypeOK
<1>1. Forward
  BY ForwardStep
<1>2. ASSUME NEW k \in Key, receipts[k].status = "rolled_back", receipts'[k].proposal = receipts[k].proposal
      PROVE  KeyUndone(k)'
  <2>1. <<receipts[k].proposal, k>> \in Pull
    BY DEF ReceiptRow, Pull
  <2> QED BY <1>1, <1>2, <2>1 DEF RolledBackIsTakenBack, KeyUndone, Undone, TakenBack, Forward
<1>3. CASE \A k \in Key : receipts'[k].status = "rolled_back" => receipts[k].status = "rolled_back"
  BY <1>1, <1>2, <1>3 DEF RolledBackIsTakenBack, KeyUndone, Undone, TakenBack, Forward, Exists
<1>4. ASSUME NEW r \in Deployer, CommitDeploy(r) PROVE RolledBackIsTakenBack'
  <2>1. CASE dep[r].claimed
    BY <1>3, <1>4, <2>1 DEF CommitDeploy, ReceiptRow
  <2>2. CASE ~dep[r].claimed
    BY <1>3, <1>4, <2>2 DEF CommitDeploy, MergeRecorded, ReceiptRow
  <2> QED BY <2>1, <2>2
<1>5. ASSUME NEW u \in Undoer, CommitUndo(u) PROVE RolledBackIsTakenBack'
  <2> DEFINE q == und[u]
  <2>1. q \in UndoState /\ UndoOK(q) /\ q.pc = "commit" /\ pulls' = pulls
    BY <1>5 DEF CommitUndo, UndoesOK, github
  <2>2. /\ \A k \in Key : k # q.key => receipts'[k] = receipts[k]
        /\ receipts'[q.key].proposal = q.proposal
    BY <1>5, <2>1 DEF CommitUndo, UndoOK, UndoState, ReceiptRow
  <2>3. receipts'[q.key].status = "rolled_back" =>
            q.result = "applied" \/ receipts[q.key].status = "rolled_back"
    BY <1>5, <2>1 DEF CommitUndo, Written, UndoState, ReceiptRow
  <2>4. ASSUME NEW k \in Key, receipts'[k].status = "rolled_back"
        PROVE  KeyUndone(k)'
    <3>1. CASE receipts[k].status = "rolled_back" /\ receipts'[k].proposal = receipts[k].proposal
      BY <1>2, <3>1 DEF KeyUndone, Undone, TakenBack
    <3>2. CASE k = q.key /\ q.result = "applied"
      <4>1. Undone(<<q.proposal, q.key>>)
        BY <2>1, <3>2 DEF UndoOK
      <4> QED BY <1>5, <2>1, <2>2, <3>2, <4>1 DEF KeyUndone, Undone, TakenBack, CommitUndo, github
    <3> QED BY <2>1, <2>2, <2>3, <2>4, <3>1, <3>2 DEF UndoOK
  <2> QED BY <2>4 DEF RolledBackIsTakenBack, KeyUndone, Undone, TakenBack
<1>6. ASSUME NEW i \in RollbackId, Reconcile(i) PROVE RolledBackIsTakenBack'
  <2>0. PICK k \in Key : k = rollbacks[i].key
    BY DEF RollbackRow
  <2>1. UNCHANGED github /\ <<receipts[k].proposal, k>> \in Pull
    BY <1>6 DEF Reconcile, Reversed, Abandoned, RollbackRow, ReceiptRow, Pull
  <2>2. /\ \A j \in Key : j # k => receipts'[j] = receipts[j]
        /\ receipts'[k].proposal = receipts[k].proposal
    BY <1>6, <2>0, <2>1 DEF Reconcile, Reversed, Abandoned, ReceiptRow
  <2>3. receipts'[k].status = "rolled_back" => Reversed(i) /\ RevertOf(i) = "merged"
    BY <1>6, <2>0, <2>1 DEF Reconcile, Reversed, Abandoned, ReceiptRow
  <2>4. receipts'[k].status = "rolled_back" => KeyUndone(k)'
    BY <2>0, <2>1, <2>2, <2>3 DEF RevertOf, RevertsFollowMerges, KeyUndone, Undone, TakenBack, github
  <2>5. ASSUME NEW j \in Key, j # k, receipts'[j].status = "rolled_back"
        PROVE  KeyUndone(j)'
    BY <1>2, <2>2, <2>5 DEF KeyUndone, Undone, TakenBack
  <2> QED BY <2>4, <2>5 DEF RolledBackIsTakenBack, KeyUndone, Undone, TakenBack
<1> QED
  BY <1>3, <1>4, <1>5, <1>6, Effects
     DEF CallAdapter, MergePull, ClosePull, OpenRevert, rows, github,
         PeopleStep, PersonMerges, PersonCloses, PersonMergesRevert, PersonClosesRevert

\* Every step leaves a receipt that waits for its revert with a row the sweep will find.
LEMMA PendingStep ==
    ASSUME DeployInv, [DeployNext]_deployVars
    PROVE  PendingIsWatched'
<1> USE DEF DeployInv, DeployTypeOK
<1>1. Forward
  BY ForwardStep
<1>2. ASSUME NEW k \in Key, receipts[k].status = "rollback_pending",
             \A i \in RollbackId : rollbacks[i].status = "pending" /\ rollbacks[i].key = k =>
                 rollbacks'[i] = rollbacks[i]
      PROVE  /\ \E i \in RollbackId : rollbacks'[i] = [key |-> k, status |-> "pending"]
             /\ reverts'[<<receipts'[k].proposal, k>>] # "none"
  <2>1. <<receipts[k].proposal, k>> \in Pull /\ receipts'[k].proposal = receipts[k].proposal
    BY <1>1, <1>2 DEF ReceiptRow, Pull, Forward, Exists
  <2> QED BY <1>1, <1>2, <2>1 DEF PendingIsWatched, Forward
<1>3. CASE /\ \A k \in Key : receipts'[k].status = "rollback_pending" =>
                              receipts[k].status = "rollback_pending"
           /\ rollbacks' = rollbacks
  BY <1>2, <1>3 DEF PendingIsWatched
<1>4. ASSUME NEW r \in Deployer, CommitDeploy(r) PROVE PendingIsWatched'
  <2>1. CASE dep[r].claimed
    BY <1>3, <1>4, <2>1 DEF CommitDeploy, ReceiptRow
  <2>2. CASE ~dep[r].claimed
    BY <1>3, <1>4, <2>2 DEF CommitDeploy, MergeRecorded, ReceiptRow
  <2> QED BY <2>1, <2>2
<1>5. ASSUME NEW u \in Undoer, CommitUndo(u) PROVE PendingIsWatched'
  <2> DEFINE q == und[u]
  <2>1. q \in UndoState /\ UndoOK(q) /\ q.pc = "commit" /\ reverts' = reverts
    BY <1>5 DEF CommitUndo, UndoesOK, github
  <2>2. /\ \A k \in Key : k # q.key => receipts'[k] = receipts[k]
        /\ receipts'[q.key].proposal = q.proposal
    BY <1>5, <2>1 DEF CommitUndo, UndoOK, UndoState, ReceiptRow
  <2>3. receipts'[q.key].status = "rollback_pending" =>
            q.result = "pending" \/ receipts[q.key].status = "rollback_pending"
    BY <1>5, <2>1 DEF CommitUndo, Written, UndoState, ReceiptRow
  <2>4. PICK i \in FreeRollback : rollbacks' = [rollbacks EXCEPT ![i] = [key |-> q.key, status |-> q.result]]
    BY <1>5 DEF CommitUndo
  <2>5. \A j \in RollbackId : rollbacks[j].status = "pending" => rollbacks'[j] = rollbacks[j]
    BY <2>4 DEF FreeRollback
  <2>6. q.result = "pending" => \E j \in RollbackId : rollbacks'[j] = [key |-> q.key, status |-> "pending"]
    BY <2>4 DEF FreeRollback
  <2>7. ASSUME NEW k \in Key, receipts'[k].status = "rollback_pending"
        PROVE  /\ \E j \in RollbackId : rollbacks'[j] = [key |-> k, status |-> "pending"]
               /\ reverts'[<<receipts'[k].proposal, k>>] # "none"
    <3>1. CASE receipts[k].status = "rollback_pending"
      BY <1>2, <2>5, <3>1
    <3>2. CASE receipts[k].status # "rollback_pending"
      <4>1. k = q.key /\ q.result = "pending"
        BY <2>2, <2>3, <2>7, <3>2
      <4> QED BY <2>1, <2>2, <2>6, <4>1 DEF UndoOK
    <3> QED BY <3>1, <3>2
  <2> QED BY <2>7 DEF PendingIsWatched
<1>6. ASSUME NEW i \in RollbackId, Reconcile(i) PROVE PendingIsWatched'
  <2> DEFINE k == rollbacks[i].key
  <2>1. k \in Key
    BY DEF RollbackRow
  <2>2. \A j \in Key : j # k => receipts'[j] = receipts[j]
    BY <1>6, <2>1 DEF Reconcile, Reversed, Abandoned, ReceiptRow
  <2>3. receipts'[k].status \in {"rolled_back", "applied"}
    BY <1>6, <2>1 DEF Reconcile, Reversed, Abandoned, ReceiptRow
  <2>4. \A j \in RollbackId : j # i => rollbacks'[j] = rollbacks[j]
    BY <1>6 DEF Reconcile, Reversed, Abandoned
  <2> QED BY <1>2, <2>2, <2>3, <2>4 DEF PendingIsWatched
<1> QED
  BY <1>3, <1>4, <1>5, <1>6, Effects
     DEF CallAdapter, MergePull, ClosePull, OpenRevert, rows, github,
         PeopleStep, PersonMerges, PersonCloses, PersonMergesRevert, PersonClosesRevert

-----------------------------------------------------------------------------
\* Every step keeps the invariant.
LEMMA DeployStepPreserves ==
    ASSUME DeployInv, [DeployNext]_deployVars
    PROVE  DeployInv'
BY TypesStep, RequestsStep, UndoesStep, RevertsStep, RowsStep, ClaimStep, ReceiptStep,
   RolledBackStep, PendingStep DEF DeployInv

\* The inductive invariant holds of deployments, for every set of proposals, keys and
\* requests.
THEOREM DeployInvariance == DeploySpec => []DeployInv
<1>1. DeployInit => DeployInv
  BY DeployInitEstablishes
<1>2. DeployInv /\ [DeployNext]_deployVars => DeployInv'
  BY DeployStepPreserves
<1> QED BY <1>1, <1>2, PTL DEF DeploySpec

\* The variables keep their types.
THEOREM DeployTypeCorrect == DeploySpec => []DeployTypeOK
BY DeployInvariance, PTL DEF DeployInv

\* However deployments and rollbacks race, a key has one holder, and what waits for a
\* revert is watched by the sweep.
THEOREM HeldTheorem == DeploySpec => []DeploymentsAreHeld
<1>1. DeployInv => DeploymentsAreHeld
  BY DEF DeployInv, DeploymentsAreHeld
<1> QED BY <1>1, DeployInvariance, PTL

\* However requests fail half-way and race, what a receipt says of its pull request is so
\* on GitHub.
THEOREM GitHubTheorem == DeploySpec => []ReceiptsMatchGitHub
<1>1. DeployInv => ReceiptsMatchGitHub
  BY DEF DeployInv, ReceiptsMatchGitHub
<1> QED BY <1>1, DeployInvariance, PTL

-----------------------------------------------------------------------------
\* A step that neither writes a proposal or a receipt strands none.
LEMMA UntouchedIsNotStranded ==
    ASSUME NEW p \in Proposal, ~Stranded(p),
           proposalStatus'[p] = proposalStatus[p],
           \A k \in Key : /\ receipts'[k].status = receipts[k].status
                          /\ receipts'[k].proposal = receipts[k].proposal
    PROVE  ~Stranded(p)'
BY DEF Stranded, ReceiptsOf, Exists

\* A step strands a proposal only as the commit of a rollback that loaded it "failed".
LEMMA StrandStep ==
    ASSUME DeployInv, [DeployNext]_deployVars, NEW p \in Proposal, ~Stranded(p), Stranded(p)'
    PROVE  \E u \in Undoer : /\ und[u].pc = "commit" /\ und[u].proposal = p
                             /\ und[u].loaded = "failed"
<1> USE DEF DeployInv, DeployTypeOK
<1>1. ASSUME NEW r \in Deployer, CommitDeploy(r) PROVE FALSE
  <2> DEFINE q == dep[r]
  <2>1. q \in DeployState /\ q.key \in Key
    BY DEF DeployState
  <2>2. CASE q.claimed
    <3>1. /\ receipts'[q.key] = [proposal |-> q.proposal, status |-> "applied",
                                  published |-> q.merged, day |-> q.day]
          /\ \A k \in Key : k # q.key => receipts'[k] = receipts[k]
      BY <1>1, <2>1, <2>2 DEF CommitDeploy
    <3>2. ~Exists(q.key)
      BY <2>2 DEF ClaimIsExclusive
    <3>3. p # q.proposal
      BY <2>1, <3>1 DEF Stranded, ReceiptsOf, Exists
    <3>4. proposalStatus'[p] = proposalStatus[p]
      BY <1>1, <2>2, <3>3 DEF CommitDeploy
    <3> QED BY <3>1, <3>2, <3>3, <3>4 DEF Stranded, ReceiptsOf, Exists
  <2>3. CASE ~q.claimed
    <3>1. receipts' = MergeRecorded(q) /\ proposalStatus' = proposalStatus
      BY <1>1, <2>3 DEF CommitDeploy
    <3>2. \A k \in Key : /\ receipts'[k].status = receipts[k].status
                         /\ receipts'[k].proposal = receipts[k].proposal
      BY <3>1 DEF MergeRecorded, ReceiptRow
    <3> QED BY <3>1, <3>2, UntouchedIsNotStranded
  <2> QED BY <2>2, <2>3
<1>2. ASSUME NEW u \in Undoer, CommitUndo(u)
      PROVE  und[u].pc = "commit" /\ und[u].proposal = p /\ und[u].loaded = "failed"
  <2> DEFINE q == und[u]
  <2>1. q \in UndoState /\ UndoOK(q) /\ q.pc = "commit" /\ q.key \in Key
    BY <1>2 DEF CommitUndo, UndoesOK, UndoState
  <2>2. /\ \A k \in Key : k # q.key => receipts'[k] = receipts[k]
        /\ receipts'[q.key].proposal = q.proposal /\ receipts[q.key].proposal = q.proposal
        /\ receipts'[q.key].status # "none" /\ receipts[q.key].status # "none"
    BY <1>2, <2>1 DEF CommitUndo, UndoOK, UndoState, ReceiptRow, Exists, Written
  <2>3. CASE p # q.proposal
    <3>1. proposalStatus'[p] = proposalStatus[p]
      BY <1>2, <2>3 DEF CommitUndo
    <3> QED BY <2>2, <2>3, <3>1 DEF Stranded, ReceiptsOf, Exists
  <2>4. CASE p = q.proposal /\ q.result = "applied"
    <3>1. q.loaded # "failed" => proposalStatus'[p] = "failed"
      BY <1>2, <2>4 DEF CommitUndo, Written
    <3> QED BY <2>1, <2>4, <3>1 DEF Stranded
  <2>5. CASE p = q.proposal /\ q.result = "pending"
    <3>1. proposalStatus'[p] = proposalStatus[p]
      BY <1>2, <2>5 DEF CommitUndo
    <3>2. receipts'[q.key].status # "rolled_back" \/ receipts'[q.key].status = receipts[q.key].status
      BY <1>2, <2>1, <2>5 DEF CommitUndo, Written, ReceiptRow
    <3>3. receipts'[q.key].status = "rolled_back"
      BY <2>1, <2>2, <2>5 DEF Stranded, ReceiptsOf, Exists
    <3> QED BY <2>2, <3>1, <3>2, <3>3 DEF Stranded, ReceiptsOf, Exists
  <2> QED BY <2>1, <2>3, <2>4, <2>5 DEF UndoState
<1>3. ASSUME NEW i \in RollbackId, Reconcile(i) PROVE FALSE
  <2> DEFINE k == rollbacks[i].key
  <2>1. /\ k \in Key /\ Exists(k) /\ receipts[k].proposal \in Proposal
    BY <1>3 DEF Reconcile, Reversed, Abandoned, Pending, RowsOK, RollbackRow, ReceiptRow
  <2>2. /\ \A j \in Key : j # k => receipts'[j] = receipts[j]
        /\ receipts'[k].proposal = receipts[k].proposal
    BY <1>3, <2>1 DEF Reconcile, Reversed, Abandoned, ReceiptRow
  <2>3. CASE Reversed(i)
    <3>1. proposalStatus'[receipts[k].proposal] = "failed"
      BY <2>1, <2>3 DEF Reversed
    <3>2. p # receipts[k].proposal
      BY <3>1 DEF Stranded
    <3>3. proposalStatus'[p] = proposalStatus[p]
      BY <2>3, <3>2 DEF Reversed
    <3> QED BY <2>1, <2>2, <3>2, <3>3 DEF Stranded, ReceiptsOf, Exists
  <2>4. CASE Abandoned(i)
    <3>1. proposalStatus' = proposalStatus /\ receipts'[k].status = "applied"
      BY <2>1, <2>4 DEF Abandoned, ReceiptRow
    <3>2. p # receipts[k].proposal
      BY <2>1, <2>2, <3>1 DEF Stranded, ReceiptsOf, Exists
    <3> QED BY <2>1, <2>2, <3>1, <3>2 DEF Stranded, ReceiptsOf, Exists
  <2> QED BY <1>3, <2>3, <2>4 DEF Reconcile
<1>4. ASSUME NEW x \in Proposal, WriteReview(x) PROVE FALSE
  <2>1. receipts' = receipts /\ (proposalStatus'[p] = "deployed" => proposalStatus[p] = "deployed")
    BY <1>4 DEF WriteReview, Reviewed
  <2> QED BY <2>1 DEF Stranded, ReceiptsOf, Exists
<1>5. CASE UNCHANGED <<receipts, proposalStatus>>
  BY <1>5, UntouchedIsNotStranded
<1>6. \/ UNCHANGED <<receipts, proposalStatus>>
      \/ \E r \in Deployer : CommitDeploy(r)
      \/ \E u \in Undoer : CommitUndo(u)
      \/ \E i \in RollbackId : Reconcile(i)
      \/ \E x \in Proposal : WriteReview(x)
  BY DEF DeployNext, DeployStep, UndoStep, BeginDeploy, LoadProposal, CheckKey, CheckSite,
         CheckBudget, ClaimKey, CallAdapter, MergePull, AbortDeploy, BeginUndo, LoadForUndo,
         PickReceipt, ReadPull, ClosePull, OpenRevert, AbortUndo, ReviewStep, LoadForReview,
         PeopleStep, PersonMerges, PersonCloses, PersonMergesRevert, PersonClosesRevert,
         ToggleGate, Midnight, deployVars, rows
<1> QED BY <1>1, <1>2, <1>3, <1>4, <1>5, <1>6

\* Only a rollback that loaded its proposal while it was failed leaves it shown as live
\* with nothing behind it.
THEOREM StrandTheorem == DeploySpec => OnlyStaleRollbackStrands
<1>1. DeployInv /\ [DeployNext]_deployVars =>
        [\A p \in Proposal : ~Stranded(p) /\ Stranded(p)' =>
             \E u \in Undoer : /\ und[u].pc = "commit" /\ und[u].proposal = p
                               /\ und[u].loaded = "failed"]_deployVars
  BY StrandStep
<1> QED BY <1>1, DeployInvariance, PTL DEF DeploySpec, OnlyStaleRollbackStrands

-----------------------------------------------------------------------------
\* With one rollback request at a time: a receipt has one row, none while a request is
\* about to record it, and one that reads rolled back has a row that says so.
Serial == \A u, v \in Undoer : u = v

HasRow(k) == \E i \in RollbackId : rollbacks[i].status # "none" /\ rollbacks[i].key = k

OneRow ==
    \A i, j \in RollbackId :
        rollbacks[i].status # "none" /\ rollbacks[j].status # "none" /\ i # j =>
            rollbacks[i].key # rollbacks[j].key
NoRowYet ==
    \A u \in Undoer : und[u].pc \in {"read", "close", "revert", "commit"} => ~HasRow(und[u].key)
FinalRow ==
    \A k \in Key : receipts[k].status = "rolled_back" =>
        \E i \in RollbackId : rollbacks[i] = [key |-> k, status |-> "applied"]

SerialInv == OneRow /\ NoRowYet /\ FinalRow

\* At first there is no row to be second to another.
LEMMA SerialInit == DeployInit => SerialInv
BY DEF DeployInit, SerialInv, OneRow, NoRowYet, FinalRow, NoRollback, NoReceipt, IdleUndo

\* The steps that write a row or a receipt's status, or pick a receipt to take back.
LEMMA SerialEffects ==
    ASSUME DeployInv, [DeployNext]_deployVars
    PROVE  \/ /\ rollbacks' = rollbacks
              /\ \A k \in Key : receipts'[k].status = "rolled_back" => receipts[k].status = "rolled_back"
              /\ \A u \in Undoer :
                    und'[u].pc \in {"read", "close", "revert", "commit"} =>
                        \/ /\ und[u].pc \in {"read", "close", "revert", "commit"}
                           /\ und'[u].key = und[u].key
                        \/ ~HasRow(und'[u].key)
           \/ \E u \in Undoer : CommitUndo(u)
           \/ \E i \in RollbackId : Reconcile(i)
<1> USE DEF DeployInv, DeployTypeOK
<1>1. ASSUME NEW r \in Deployer, DeployStep(r)
      PROVE  /\ rollbacks' = rollbacks /\ und' = und
             /\ \A k \in Key : receipts'[k].status = "rolled_back" => receipts[k].status = "rolled_back"
  <2>1. rollbacks' = rollbacks /\ und' = und
    BY <1>1 DEF DeployStep, BeginDeploy, LoadProposal, CheckKey, CheckSite, CheckBudget, ClaimKey,
                CallAdapter, MergePull, CommitDeploy, AbortDeploy, rows
  <2>2. CASE CommitDeploy(r) /\ dep[r].claimed
    BY <2>2 DEF CommitDeploy, ReceiptRow
  <2>3. CASE CommitDeploy(r) /\ ~dep[r].claimed
    BY <2>3 DEF CommitDeploy, MergeRecorded, ReceiptRow
  <2>4. CASE ~CommitDeploy(r)
    <3>1. receipts' = receipts
      BY <1>1, <2>4 DEF DeployStep, BeginDeploy, LoadProposal, CheckKey, CheckSite, CheckBudget,
                        ClaimKey, CallAdapter, MergePull, AbortDeploy, rows
    <3> QED BY <2>1, <3>1
  <2> QED BY <2>1, <2>2, <2>3, <2>4
<1>2. ASSUME NEW u \in Undoer, UndoStep(u), ~CommitUndo(u)
      PROVE  /\ rollbacks' = rollbacks /\ receipts' = receipts
             /\ und'[u].pc \in {"read", "close", "revert", "commit"} =>
                    \/ /\ und[u].pc \in {"read", "close", "revert", "commit"}
                       /\ und'[u].key = und[u].key
                    \/ ~HasRow(und'[u].key)
  <2> DEFINE Holds == und'[u].pc \in {"read", "close", "revert", "commit"}
  <2>1. rollbacks' = rollbacks /\ receipts' = receipts
    BY <1>2 DEF UndoStep, BeginUndo, LoadForUndo, PickReceipt, ReadPull, ClosePull, OpenRevert,
                AbortUndo, rows
  <2>2. und[u] \in UndoState
    OBVIOUS
  <2>3. BeginUndo(u) => ~Holds
    BY DEF BeginUndo, IdleUndo
  <2>4. LoadForUndo(u) => ~Holds
    BY <2>2 DEF LoadForUndo, UndoState
  <2>5. AbortUndo(u) => ~Holds
    BY DEF AbortUndo, Answered, IdleUndo
  <2>6. ReadPull(u) \/ ClosePull(u) \/ OpenRevert(u) =>
            und[u].pc \in {"read", "close", "revert", "commit"} /\ und'[u].key = und[u].key
    BY <2>2 DEF ReadPull, ClosePull, OpenRevert, UndoState
  <2>7. PickReceipt(u) => ~Holds \/ ~HasRow(und'[u].key)
    <3>1. Answered(u) => ~Holds
      BY DEF Answered, IdleUndo
    <3>2. ASSUME NEW k \in ReceiptsOf(und[u].proposal), ~HasRow(k),
                 und' = [und EXCEPT ![u].pc = "read", ![u].key = k, ![u].was = receipts[k].status]
          PROVE  ~HasRow(und'[u].key)
      <4>1. und'[u].key = k
        BY <2>2, <3>2 DEF UndoState
      <4> QED BY <3>2, <4>1
    <3> QED BY <3>1, <3>2 DEF PickReceipt, HasRow
  <2> QED BY <1>2, <2>1, <2>3, <2>4, <2>5, <2>6, <2>7 DEF UndoStep
<1>3. ReviewStep \/ PeopleStep \/ ToggleGate \/ Midnight \/ UNCHANGED deployVars
          => UNCHANGED <<rollbacks, receipts, und>>
  BY DEF ReviewStep, LoadForReview, WriteReview, PeopleStep, PersonMerges, PersonCloses,
         PersonMergesRevert, PersonClosesRevert, ToggleGate, Midnight, deployVars, rows
<1> QED BY <1>1, <1>2, <1>3, OtherRequestsRest DEF DeployNext

\* Every step keeps it so while rollback requests come one at a time.
LEMMA SerialStep ==
    ASSUME Serial, DeployInv, SerialInv, [DeployNext]_deployVars
    PROVE  SerialInv'
<1> USE DEF DeployInv, DeployTypeOK, SerialInv
<1>1. CASE /\ rollbacks' = rollbacks
           /\ \A k \in Key : receipts'[k].status = "rolled_back" => receipts[k].status = "rolled_back"
           /\ \A u \in Undoer :
                 und'[u].pc \in {"read", "close", "revert", "commit"} =>
                     \/ /\ und[u].pc \in {"read", "close", "revert", "commit"}
                        /\ und'[u].key = und[u].key
                     \/ ~HasRow(und'[u].key)
  BY <1>1 DEF OneRow, NoRowYet, FinalRow, HasRow
<1>2. ASSUME NEW u \in Undoer, CommitUndo(u) PROVE SerialInv'
  <2> DEFINE q == und[u]
  <2>1. q \in UndoState /\ q.pc = "commit" /\ q.key \in Key /\ ~HasRow(q.key)
    BY <1>2 DEF CommitUndo, NoRowYet, UndoState
  <2>2. PICK i \in FreeRollback : rollbacks' = [rollbacks EXCEPT ![i] = [key |-> q.key, status |-> q.result]]
    BY <1>2 DEF CommitUndo
  <2>3. /\ rollbacks'[i] = [key |-> q.key, status |-> q.result] /\ rollbacks[i].status = "none"
        /\ \A j \in RollbackId : j # i => rollbacks'[j] = rollbacks[j]
    BY <2>2 DEF FreeRollback
  <2>4. OneRow'
    BY <2>1, <2>3 DEF OneRow, HasRow
  <2>5. NoRowYet'
    <3>1. \A v \in Undoer : und'[v].pc = "idle"
      BY <1>2 DEF Serial, CommitUndo, Answered, IdleUndo
    <3> QED BY <3>1 DEF NoRowYet
  <2>6. \A k \in Key : k # q.key => receipts'[k] = receipts[k]
    BY <1>2 DEF CommitUndo
  <2>7. receipts'[q.key].status = "rolled_back" =>
            q.result = "applied" \/ receipts[q.key].status = "rolled_back"
    BY <1>2, <2>1 DEF CommitUndo, Written, UndoState, ReceiptRow
  <2>8. ASSUME NEW k \in Key, receipts'[k].status = "rolled_back"
        PROVE  \E l \in RollbackId : rollbacks'[l] = [key |-> k, status |-> "applied"]
    <3>1. CASE receipts[k].status = "rolled_back"
      <4>1. PICK l \in RollbackId : rollbacks[l] = [key |-> k, status |-> "applied"]
        BY <3>1 DEF FinalRow
      <4>2. l # i
        BY <2>3, <4>1
      <4> QED BY <2>3, <4>1, <4>2
    <3>2. CASE receipts[k].status # "rolled_back"
      BY <2>1, <2>3, <2>6, <2>7, <2>8, <3>2 DEF FreeRollback
    <3> QED BY <3>1, <3>2
  <2> QED BY <2>4, <2>5, <2>8 DEF FinalRow
<1>3. ASSUME NEW i \in RollbackId, Reconcile(i) PROVE SerialInv'
  <2> DEFINE k == rollbacks[i].key
  <2>1. /\ k \in Key /\ rollbacks[i].status = "pending" /\ und' = und
    BY <1>3 DEF Reconcile, Reversed, Abandoned, Pending, RollbackRow
  <2>2. /\ \A j \in Key : j # k => receipts'[j] = receipts[j]
        /\ receipts'[k].status = "rolled_back" => rollbacks'[i] = [key |-> k, status |-> "applied"]
    BY <1>3, <2>1 DEF Reconcile, Reversed, Abandoned, ReceiptRow, RollbackRow
  <2>3. /\ \A j \in RollbackId : j # i => rollbacks'[j] = rollbacks[j]
        /\ rollbacks'[i].key = k
    BY <1>3 DEF Reconcile, Reversed, Abandoned, RollbackRow
  <2>4. OneRow' /\ NoRowYet'
    BY <2>1, <2>3 DEF OneRow, NoRowYet, HasRow
  <2>5. ASSUME NEW j \in Key, receipts'[j].status = "rolled_back"
        PROVE  \E l \in RollbackId : rollbacks'[l] = [key |-> j, status |-> "applied"]
    <3>1. CASE j = k
      BY <2>2, <2>5, <3>1
    <3>2. CASE j # k
      <4>1. PICK l \in RollbackId : rollbacks[l] = [key |-> j, status |-> "applied"]
        BY <2>2, <2>5, <3>2 DEF FinalRow
      <4>2. l # i
        BY <3>2, <4>1
      <4> QED BY <2>3, <4>1, <4>2
    <3> QED BY <3>1, <3>2
  <2> QED BY <2>4, <2>5 DEF FinalRow
<1> QED BY <1>1, <1>2, <1>3, SerialEffects

\* A receipt that reads rolled back keeps doing so.
LEMMA FinalStep ==
    ASSUME DeployInv, SerialInv, [DeployNext]_deployVars,
           NEW k \in Key, receipts[k].status = "rolled_back"
    PROVE  receipts'[k].status = "rolled_back"
<1> USE DEF DeployInv, DeployTypeOK, SerialInv
<1>0. PICK j \in RollbackId : rollbacks[j].status = "applied" /\ rollbacks[j].key = k
  <2>1. \E j \in RollbackId : rollbacks[j] = [key |-> k, status |-> "applied"]
    BY DEF FinalRow
  <2> QED BY <2>1
<1>1. ASSUME NEW r \in Deployer, CommitDeploy(r) PROVE receipts'[k].status = "rolled_back"
  <2>1. dep[r].claimed => k # dep[r].key
    BY DEF ClaimIsExclusive, Exists
  <2> QED BY <1>1, <2>1 DEF CommitDeploy, MergeRecorded, ReceiptRow
<1>2. ASSUME NEW u \in Undoer, CommitUndo(u) PROVE receipts'[k].status = "rolled_back"
  <2>1. k # und[u].key
    BY <1>0, <1>2 DEF CommitUndo, NoRowYet, HasRow
  <2> QED BY <1>2, <2>1 DEF CommitUndo
<1>3. ASSUME NEW i \in RollbackId, Reconcile(i) PROVE receipts'[k].status = "rolled_back"
  <2>1. k # rollbacks[i].key
    <3>1. rollbacks[i].status = "pending"
      BY <1>3 DEF Reconcile, Reversed, Abandoned, Pending
    <3> QED BY <1>0, <3>1 DEF OneRow
  <2> QED BY <1>3, <2>1 DEF Reconcile, Reversed, Abandoned
<1> QED
  BY <1>1, <1>2, <1>3, Effects
     DEF CallAdapter, MergePull, ClosePull, OpenRevert, rows, github,
         PeopleStep, PersonMerges, PersonCloses, PersonMergesRevert, PersonClosesRevert

\* With one rollback request at a time, whatever deployments, people and the sweep do,
\* what was taken back stays so, and only a stale rollback leaves a proposal shown as
\* live without it.
THEOREM RollbacksTheorem ==
    ASSUME Serial
    PROVE  DeploySpec => RollbacksHold
<1>1. DeploySpec => []SerialInv
  <2>1. DeployInv /\ SerialInv /\ [DeployNext]_deployVars => SerialInv'
    BY SerialStep
  <2> QED BY <2>1, SerialInit, DeployInvariance, PTL DEF DeploySpec
<1>2. DeploySpec => RolledBackIsFinal
  <2>1. DeployInv /\ SerialInv /\ [DeployNext]_deployVars =>
          [\A k \in Key :
              receipts[k].status = "rolled_back" => receipts'[k].status = "rolled_back"]_deployVars
    BY FinalStep
  <2> QED BY <1>1, <2>1, DeployInvariance, PTL DEF DeploySpec, RolledBackIsFinal
<1> QED BY <1>2, StrandTheorem DEF RollbacksHold

-----------------------------------------------------------------------------
(* Batches.                                                                *)

\* A branch has every file or none, and none written over what nobody reviewed; what
\* differs from the base comes from a list that claimed the key.
BranchOK ==
    \A k \in BatchKey :
        /\ HasBranch(k) \/ \A p \in Change : branch[k][p] = "none"
        /\ \A p \in Change : /\ branch[k][p] # "unseen"
                             /\ branch[k][p] = "change" => \E list \in asked[k] : p \in list

\* A request reads only files the change was reviewed against; while it holds the key
\* nobody else does, the key has no receipt, and what it has written is on the branch.
BatchRequestOK(q) ==
    /\ \A p \in Change : q.blob[p] = "base"
    /\ q.at \in {"lookup", "read", "branch", "write", "open", "commit"} =>
           q.list \in asked[q.key] /\ Recorded(q.key) = {}
    /\ q.at = "write" =>
           HasBranch(q.key) /\ \A p \in q.list \ q.todo : branch[q.key][p] = "change"
    /\ q.at = "commit" => pull[q.key] # "none"

BatchRequestsOK == \A r \in Batcher : BatchRequestOK(batch[r])

OneBatchPerKey ==
    \A r, s \in Batcher : Claims(r) /\ Claims(s) /\ r # s => batch[r].key # batch[s].key

\* A pull request holds all of a list that claimed its key; receipts are of such a list;
\* a pull request the application closed has receipts, and one of which a change was
\* rolled back is settled.
PullOK ==
    \A k \in BatchKey :
        /\ IsFiniteSet(asked[k])
        /\ pull[k] # "none" =>
               \E list \in asked[k] : \A p \in list : branch[k][p] = "change"
        /\ Recorded(k) # {} => Recorded(k) \in asked[k] /\ pull[k] # "none"
        /\ pull[k] = "withdrawn" => Recorded(k) # {}
        /\ (\E p \in Change : entry[k][p] = "rolled_back") => pull[k] \notin {"none", "open"}

\* A rollback is of a receipt, and has closed the pull request when it says so.
UndosOK ==
    \A u \in undos : /\ entry[u.key][u.change] # "none"
                     /\ u.at = "closed" => pull[u.key] \notin {"none", "open"}

BatchInv == BatchTypeOK /\ BranchOK /\ BatchRequestsOK /\ OneBatchPerKey /\ PullOK

\* At first no branch, pull request or receipt of a batch exists.
LEMMA BatchInitEstablishes == BatchInit => BatchInv
<1> SUFFICES ASSUME BatchInit PROVE BatchInv
  OBVIOUS
<1>1. Resting \in BatchRequest
  BY BatchAssumption DEF BatchAssumption, Resting, BatchRequest, Stage, Content
<1>2. BatchTypeOK
  BY <1>1 DEF BatchInit, BatchTypeOK, PullStates, Content, Resting
<1>3. BranchOK
  BY DEF BatchInit, BranchOK
<1>4. BatchRequestsOK /\ OneBatchPerKey
  BY DEF BatchInit, BatchRequestsOK, BatchRequestOK, OneBatchPerKey, Claims, Resting
<1>5. PullOK
  BY FS_EmptySet DEF BatchInit, PullOK, Recorded
<1> QED BY <1>2, <1>3, <1>4, <1>5 DEF BatchInv

\* A request goes on, and no row, branch or pull request changes.
LEMMA BatchMoves ==
    ASSUME BatchInv, NEW r \in Batcher, NEW q \in BatchRequest, q.todo \subseteq q.list,
           batch' = [batch EXCEPT ![r] = q],
           UNCHANGED <<changeStatus, entry, branch, pull, main, asked, undos>>,
           BatchRequestOK(q),
           q.at \in {"lookup", "read", "branch", "write", "open", "commit"} =>
               Claims(r) /\ q.key = batch[r].key
    PROVE  BatchInv'
<1> USE DEF BatchInv, BatchTypeOK
<1>1. BatchTypeOK'
  OBVIOUS
<1>2. BranchOK'
  BY DEF BranchOK, HasBranch
<1>5. PullOK'
  <2>1. \A k \in BatchKey : Recorded(k)' = Recorded(k)
    BY DEF Recorded
  <2> QED BY <2>1 DEF PullOK
<1>3. BatchRequestsOK'
  BY DEF BatchRequestsOK, BatchRequestOK, Recorded, HasBranch
<1>4. OneBatchPerKey'
  BY DEF OneBatchPerKey, Claims
<1> QED BY <1>1, <1>2, <1>3, <1>4, <1>5

\* The steps of a request that only read.
LEMMA BatchReads ==
    ASSUME BatchInv, NEW r \in Batcher,
           \/ AskBatch(r) \/ CheckBatch(r) \/ LookUpPull(r) \/ AbortBatch(r)
           \/ \E p \in Change : ReadBase(r, p)
    PROVE  BatchInv'
<1> USE DEF BatchInv, BatchTypeOK, NoRow, NoCall, At, Moves, Ends
<1> DEFINE q == batch[r]
<1>1. /\ Resting \in BatchRequest /\ Resting.todo \subseteq Resting.list /\ BatchRequestOK(Resting)
      /\ Resting.at = "idle"
  BY BatchAssumption DEF BatchAssumption, Resting, BatchRequest, Stage, Content, BatchRequestOK
<1>2. q \in BatchRequest /\ q.todo \subseteq q.list /\ BatchRequestOK(q)
  BY DEF BatchRequestsOK
<1>3. ASSUME AskBatch(r) PROVE BatchInv'
  <2>1. PICK k \in BatchKey, list \in SUBSET Change :
           batch' = [batch EXCEPT ![r] = [Resting EXCEPT !.at = "check", !.key = k, !.list = list]]
    BY <1>3 DEF AskBatch
  <2> DEFINE n == [Resting EXCEPT !.at = "check", !.key = k, !.list = list]
  <2>2. n \in BatchRequest /\ n.todo \subseteq n.list /\ n.at = "check" /\ BatchRequestOK(n)
    BY <1>1 DEF BatchRequest, Stage, Resting, BatchRequestOK
  <2> HIDE DEF n
  <2> QED BY <1>3, <2>1, <2>2, BatchMoves DEF AskBatch, n
<1>4. ASSUME CheckBatch(r) PROVE BatchInv'
  <2> DEFINE n == [q EXCEPT !.at = "claim", !.todo = {}]
  <2>1. n \in BatchRequest /\ n.todo \subseteq n.list /\ n.at = "claim" /\ BatchRequestOK(n)
    BY <1>2 DEF BatchRequest, Stage, BatchRequestOK
  <2>2. batch' = [batch EXCEPT ![r] = n]
    BY <1>4 DEF CheckBatch
  <2> HIDE DEF n
  <2> QED BY <1>4, <2>1, <2>2, BatchMoves DEF CheckBatch
<1>5. ASSUME LookUpPull(r) PROVE BatchInv'
  <2>1. CASE pull[q.key] # "none"
    <3> DEFINE n == [q EXCEPT !.at = "commit", !.todo = {}]
    <3>1. n \in BatchRequest /\ n.todo \subseteq n.list /\ n.key = q.key
      BY <1>2 DEF BatchRequest, Stage
    <3>2. BatchRequestOK(n) /\ Claims(r)
      BY <1>2, <1>5, <2>1 DEF BatchRequest, BatchRequestOK, LookUpPull, Claims
    <3>3. batch' = [batch EXCEPT ![r] = n]
      BY <1>5, <2>1 DEF LookUpPull
    <3> HIDE DEF n
    <3> QED BY <1>5, <3>1, <3>2, <3>3, BatchMoves DEF LookUpPull
  <2>2. CASE pull[q.key] = "none"
    <3> DEFINE n == [q EXCEPT !.at = "read", !.todo = q.list]
    <3>1. n \in BatchRequest /\ n.todo \subseteq n.list /\ n.key = q.key
      BY <1>2 DEF BatchRequest, Stage
    <3>2. BatchRequestOK(n) /\ Claims(r)
      BY <1>2, <1>5, <2>2 DEF BatchRequest, BatchRequestOK, LookUpPull, Claims
    <3>3. batch' = [batch EXCEPT ![r] = n]
      BY <1>5, <2>2 DEF LookUpPull
    <3> HIDE DEF n
    <3> QED BY <1>5, <3>1, <3>2, <3>3, BatchMoves DEF LookUpPull
  <2> QED BY <2>1, <2>2
<1>6. ASSUME AbortBatch(r) PROVE BatchInv'
  BY <1>1, <1>6, BatchMoves DEF AbortBatch
<1>7. ASSUME NEW p \in Change, ReadBase(r, p) PROVE BatchInv'
  <2> DEFINE n == [q EXCEPT !.todo = q.todo \ {p}, !.blob = [q.blob EXCEPT ![p] = main[p]]]
  <2>1. n \in BatchRequest /\ n.todo \subseteq n.list /\ n.key = q.key
    BY <1>2 DEF BatchRequest, Stage
  <2>2. BatchRequestOK(n) /\ Claims(r)
    BY <1>2, <1>7 DEF BatchRequest, BatchRequestOK, ReadBase, Claims
  <2>3. batch' = [batch EXCEPT ![r] = n]
    <3>1. batch' = [batch EXCEPT
            ![r] = [[q EXCEPT !.todo = q.todo \ {p}] EXCEPT !.blob = [q.blob EXCEPT ![p] = main[p]]]]
      BY <1>2, <1>7 DEF ReadBase, BatchRequest
    <3> QED BY <1>2, <3>1 DEF BatchRequest
  <2> HIDE DEF n
  <2> QED BY <1>7, <2>1, <2>2, <2>3, BatchMoves DEF ReadBase
<1> QED BY <1>3, <1>4, <1>5, <1>6, <1>7

\* Claiming a key: nobody holds it and it has no receipt.
LEMMA ClaimBatchPreserves ==
    ASSUME BatchInv, NEW r \in Batcher, ClaimBatch(r)
    PROVE  BatchInv'
<1> USE DEF BatchInv, BatchTypeOK, NoRow, NoCall, At, Moves, Ends
<1> DEFINE q == batch[r]
<1>1. q \in BatchRequest /\ BatchRequestOK(q) /\ q.at = "claim"
  BY DEF BatchRequestsOK, ClaimBatch
<1>2. CASE Recorded(q.key) # {}
  <2>1. AbortBatch(r)
    BY <1>1, <1>2 DEF ClaimBatch, AbortBatch
  <2> QED BY <2>1, BatchReads
<1>3. CASE Recorded(q.key) = {}
  <2>1. batch' = [batch EXCEPT ![r].at = "lookup", ![r].todo = {}]
    BY <1>3 DEF ClaimBatch
  <2>2. /\ batch'[r] = [q EXCEPT !.at = "lookup", !.todo = {}]
        /\ \A s \in Batcher : s # r => batch'[s] = batch[s]
    BY <2>1
  <2>3. batch'[r] \in BatchRequest
    BY <1>1, <2>2 DEF BatchRequest, Stage
  <2>4. /\ asked' = [asked EXCEPT ![q.key] = @ \cup {q.list}] /\ q.key \in BatchKey
        /\ \A s \in Batcher : Claims(s) => batch[s].key # q.key
        /\ UNCHANGED <<changeStatus, entry, branch, pull, main, undos>>
    BY <1>1, <1>3 DEF ClaimBatch, BatchRequest
  <2>5. /\ \A k \in BatchKey : asked[k] \subseteq asked'[k] /\ IsFiniteSet(asked'[k])
        /\ q.list \in asked'[q.key]
    <3>1. IsFiniteSet(asked[q.key] \cup {q.list})
      <4>1. IsFiniteSet(asked[q.key])
        BY <2>4 DEF PullOK
      <4> QED BY <4>1, FS_AddElement
    <3> QED BY <2>4, <3>1 DEF PullOK
  <2>6. BatchTypeOK'
    <3>1. batch' \in [Batcher -> BatchRequest]
      BY <2>1, <2>3
    <3>2. \A s \in Batcher : batch'[s].todo \subseteq batch'[s].list
      BY <1>1, <2>2 DEF BatchRequest
    <3>3. asked' \in [BatchKey -> SUBSET SUBSET Change]
      BY <1>1, <2>4 DEF BatchRequest
    <3> QED BY <2>4, <3>1, <3>2, <3>3
  <2>7. BranchOK'
    BY <2>4, <2>5 DEF BranchOK, HasBranch
  <2>8. BatchRequestsOK'
    <3>1. BatchRequestOK(batch[r])'
      <4>1. /\ batch'[r].at = "lookup" /\ batch'[r].key = q.key /\ batch'[r].list = q.list
            /\ batch'[r].blob = q.blob
        BY <1>1, <2>2 DEF BatchRequest
      <4>2. Recorded(batch[r].key)' = {}
        BY <1>3, <2>4, <4>1 DEF Recorded
      <4> QED BY <1>1, <2>5, <4>1, <4>2 DEF BatchRequestOK
    <3>2. ASSUME NEW s \in Batcher, s # r PROVE BatchRequestOK(batch[s])'
      <4>1. batch'[s] = batch[s] /\ BatchRequestOK(batch[s]) /\ batch[s].key \in BatchKey
        BY <2>2, <3>2 DEF BatchRequestsOK, BatchRequest
      <4> QED BY <2>4, <2>5, <4>1 DEF BatchRequestOK, HasBranch, Recorded
    <3> QED BY <3>1, <3>2 DEF BatchRequestsOK
  <2>9. OneBatchPerKey'
    <3>1. batch'[r].key = q.key
      BY <1>1, <2>2 DEF BatchRequest
    <3>2. \A s \in Batcher : s # r => batch'[s].key = batch[s].key /\ Claims(s)' = Claims(s)
      BY <2>2 DEF Claims
    <3> QED BY <2>4, <3>1, <3>2 DEF OneBatchPerKey
  <2>10. PullOK'
    <3>1. \A k \in BatchKey : Recorded(k)' = Recorded(k)
      BY <2>4 DEF Recorded
    <3>2. ASSUME NEW k \in BatchKey, pull[k] # "none"
          PROVE  \E list \in asked'[k] : \A p \in list : branch[k][p] = "change"
      BY <2>5, <3>2 DEF PullOK
    <3>3. \A k \in BatchKey : Recorded(k) # {} => Recorded(k) \in asked'[k] /\ pull[k] # "none"
      BY <2>5 DEF PullOK
    <3>4. \A k \in BatchKey :
             /\ pull[k] = "withdrawn" => Recorded(k) # {}
             /\ (\E p \in Change : entry[k][p] = "rolled_back") => pull[k] \notin {"none", "open"}
      BY DEF PullOK
    <3>5. entry' = entry /\ pull' = pull /\ branch' = branch
      BY <2>4
    <3> QED BY <2>5, <3>1, <3>2, <3>3, <3>4, <3>5 DEF PullOK
  <2> QED BY <2>6, <2>7, <2>8, <2>9, <2>10
<1> QED BY <1>2, <1>3


\* What a step of the key's holder may do to its branch.
BranchGrows(k, list) ==
    /\ branch' \in [BatchKey -> [Change -> Content \cup OnBranch \cup {"none"}]]
    /\ \A l \in BatchKey : l # k => branch'[l] = branch[l]
    /\ \A p \in Change : /\ branch'[k][p] \notin {"none", "unseen"}
                         /\ branch[k][p] = "change" => branch'[k][p] = "change"
                         /\ branch'[k][p] = "change" => branch[k][p] = "change" \/ p \in list

\* It leaves branches, pull requests and what other requests wrote as they should be.
LEMMA BranchGrowsKeeps ==
    ASSUME BatchInv, NEW k \in BatchKey, NEW list \in asked[k], BranchGrows(k, list),
           UNCHANGED <<entry, pull, asked>>
    PROVE  /\ BranchOK' /\ PullOK'
           /\ \A s \in Batcher : batch'[s] = batch[s] => BatchRequestOK(batch[s])'
<1> USE DEF BatchInv, BatchTypeOK
<1>1. \A l \in BatchKey : Recorded(l)' = Recorded(l)
  BY DEF Recorded
<1>2. \A l \in BatchKey : HasBranch(l) => HasBranch(l)'
  BY DEF BranchGrows, HasBranch
<1>3. \A l \in BatchKey, p \in Change : branch[l][p] = "change" => branch'[l][p] = "change"
  BY DEF BranchGrows
<1>4. BranchOK'
  <2>1. ASSUME NEW l \in BatchKey PROVE HasBranch(l)' \/ \A p \in Change : branch'[l][p] = "none"
    <3>1. CASE l = k
      BY <3>1 DEF BranchGrows, HasBranch
    <3>2. CASE l # k
      <4>1. branch'[l] = branch[l]
        BY <3>2 DEF BranchGrows
      <4>2. HasBranch(l) \/ \A p \in Change : branch[l][p] = "none"
        BY DEF BranchOK
      <4> QED BY <1>2, <4>1, <4>2
    <3> QED BY <3>1, <3>2
  <2>2. ASSUME NEW l \in BatchKey, NEW p \in Change
        PROVE  branch'[l][p] # "unseen" /\ (branch'[l][p] = "change" => \E x \in asked[l] : p \in x)
    <3>1. CASE l = k
      BY <3>1 DEF BranchGrows, BranchOK
    <3>2. CASE l # k
      BY <3>2 DEF BranchGrows, BranchOK
    <3> QED BY <3>1, <3>2
  <2> QED BY <2>1, <2>2 DEF BranchOK
<1>5. PullOK'
  <2>1. ASSUME NEW l \in BatchKey, pull[l] # "none"
        PROVE  \E x \in asked[l] : \A p \in x : branch'[l][p] = "change"
    <3>1. PICK x \in asked[l] : \A p \in x : branch[l][p] = "change"
      BY <2>1 DEF PullOK
    <3> QED BY <1>3, <3>1
  <2> QED BY <1>1, <2>1 DEF PullOK
<1>6. ASSUME NEW s \in Batcher, batch'[s] = batch[s] PROVE BatchRequestOK(batch[s])'
  <2>1. BatchRequestOK(batch[s]) /\ batch[s].key \in BatchKey /\ batch[s].list \subseteq Change
    BY DEF BatchRequestsOK, BatchRequest
  <2> QED BY <1>1, <1>2, <1>3, <1>6, <2>1 DEF BatchRequestOK
<1> QED BY <1>4, <1>5, <1>6

\* The branch is made of what the base holds.
LEMMA CreateBranchPreserves ==
    ASSUME BatchInv, NEW r \in Batcher, CreateBranch(r)
    PROVE  BatchInv'
<1> USE DEF BatchInv, BatchTypeOK, NoRow, NoCall, At, Moves, Ends
<1> DEFINE q == batch[r]
<1>1. /\ q \in BatchRequest /\ BatchRequestOK(q) /\ Claims(r) /\ q.key \in BatchKey
      /\ q.list \in asked[q.key]
  BY DEF BatchRequestsOK, CreateBranch, Claims, BatchRequest, BatchRequestOK
<1>2. BranchGrows(q.key, q.list)
  <2>1. CASE HasBranch(q.key)
    BY <1>1, <2>1 DEF CreateBranch, BranchGrows, BranchOK, HasBranch
  <2>2. CASE ~HasBranch(q.key)
    <3>1. \A p \in Change : branch[q.key][p] = "none" /\ main[p] \in {"base", "other"}
      BY <1>1, <2>2 DEF BranchOK, Content
    <3>2. branch' = [branch EXCEPT ![q.key] = main] /\ branch'[q.key] = main
      BY <1>1, <2>2 DEF CreateBranch
    <3> QED BY <1>1, <3>1, <3>2 DEF BranchGrows, Content
  <2> QED BY <2>1, <2>2
<1>3. /\ batch'[r] = [q EXCEPT !.at = "write", !.todo = q.list]
      /\ \A s \in Batcher : s # r => batch'[s] = batch[s]
      /\ batch' = [batch EXCEPT ![r] = batch'[r]]
  BY DEF CreateBranch
<1>4. batch'[r] \in BatchRequest /\ batch'[r].key = q.key /\ batch'[r].todo \subseteq batch'[r].list
  BY <1>1, <1>3 DEF BatchRequest, Stage
<1>5. BranchOK' /\ PullOK' /\ \A s \in Batcher : s # r => BatchRequestOK(batch[s])'
  BY <1>1, <1>2, <1>3, BranchGrowsKeeps DEF CreateBranch
<1>6. BatchTypeOK'
  BY <1>2, <1>3, <1>4 DEF CreateBranch, BranchGrows
<1>7. BatchRequestOK(batch[r])'
  <2>1. /\ batch'[r].blob = q.blob /\ batch'[r].list = q.list /\ batch'[r].todo = q.list
        /\ batch'[r].at = "write"
    BY <1>1, <1>3 DEF BatchRequest
  <2>2. Recorded(q.key) = {} /\ entry' = entry /\ asked' = asked
    BY <1>1 DEF BatchRequestOK, Claims, CreateBranch
  <2>3. \A p \in Change : branch'[q.key][p] # "none"
    BY <1>2 DEF BranchGrows
  <2> QED BY <1>1, <1>4, <2>1, <2>2, <2>3 DEF BatchRequestOK, Recorded, HasBranch
<1>8. OneBatchPerKey'
  <2>1. \A s \in Batcher : batch'[s].key = batch[s].key /\ (Claims(s)' => Claims(s))
    BY <1>1, <1>3, <1>4 DEF Claims
  <2> QED BY <2>1 DEF OneBatchPerKey
<1> QED BY <1>5, <1>6, <1>7, <1>8 DEF BatchRequestsOK

\* A file is written over what was reviewed.
LEMMA WriteFilePreserves ==
    ASSUME BatchInv, NEW r \in Batcher, NEW p \in Change, WriteFile(r, p)
    PROVE  BatchInv'
<1> USE DEF BatchInv, BatchTypeOK, NoRow, NoCall, At, Moves, Ends
<1> DEFINE q == batch[r]
<1>1. /\ q \in BatchRequest /\ BatchRequestOK(q) /\ Claims(r) /\ q.key \in BatchKey
      /\ q.list \in asked[q.key] /\ q.todo \subseteq q.list /\ HasBranch(q.key)
  BY DEF BatchRequestsOK, WriteFile, Claims, BatchRequest, BatchRequestOK
<1>2. /\ branch' = [branch EXCEPT ![q.key][p] = "change"] /\ branch[q.key][p] = "base"
      /\ p \in q.todo
  BY <1>1 DEF WriteFile, BatchRequestOK
<1>3. \A x \in Change : branch'[q.key][x] = IF x = p THEN "change" ELSE branch[q.key][x]
  BY <1>1, <1>2
<1>4. BranchGrows(q.key, q.list)
  BY <1>1, <1>2, <1>3 DEF BranchGrows, OnBranch, HasBranch, BranchOK
<1>5. /\ batch'[r] = [q EXCEPT !.at = "write", !.todo = q.todo \ {p}]
      /\ \A s \in Batcher : s # r => batch'[s] = batch[s]
      /\ batch' = [batch EXCEPT ![r] = batch'[r]]
  BY DEF WriteFile
<1>6. batch'[r] \in BatchRequest /\ batch'[r].key = q.key /\ batch'[r].todo \subseteq batch'[r].list
  <2>1. q.todo \ {p} \in SUBSET Change /\ q.todo \ {p} \subseteq q.list
    BY <1>1 DEF BatchRequest
  <2> QED BY <1>1, <1>5, <2>1 DEF BatchRequest, Stage
<1>7. BranchOK' /\ PullOK' /\ \A s \in Batcher : s # r => BatchRequestOK(batch[s])'
  BY <1>1, <1>4, <1>5, BranchGrowsKeeps DEF WriteFile
<1>8. BatchTypeOK'
  BY <1>4, <1>5, <1>6 DEF WriteFile, BranchGrows
<1>9. BatchRequestOK(batch[r])'
  <2>1. /\ batch'[r].blob = q.blob /\ batch'[r].list = q.list /\ batch'[r].todo = q.todo \ {p}
        /\ batch'[r].at = "write"
    BY <1>1, <1>5 DEF BatchRequest
  <2>2. Recorded(q.key) = {} /\ entry' = entry /\ asked' = asked
    BY <1>1 DEF BatchRequestOK, Claims, WriteFile
  <2>3. \A x \in Change : branch'[q.key][x] # "none"
    BY <1>4 DEF BranchGrows
  <2>4. \A x \in q.list \ (q.todo \ {p}) : branch'[q.key][x] = "change"
    BY <1>1, <1>3 DEF BatchRequestOK, WriteFile, BatchRequest
  <2> QED BY <1>1, <1>6, <2>1, <2>2, <2>3, <2>4 DEF BatchRequestOK, Recorded, HasBranch
<1>10. OneBatchPerKey'
  <2>1. \A s \in Batcher : batch'[s].key = batch[s].key /\ (Claims(s)' => Claims(s))
    BY <1>1, <1>5, <1>6 DEF Claims
  <2> QED BY <2>1 DEF OneBatchPerKey
<1> QED BY <1>7, <1>8, <1>9, <1>10 DEF BatchRequestsOK

\* The pull request is opened with all of the list on its branch.
LEMMA OpenPullPreserves ==
    ASSUME BatchInv, NEW r \in Batcher, OpenPull(r)
    PROVE  BatchInv'
<1> USE DEF BatchInv, BatchTypeOK, NoRow, NoCall, At, Moves, Ends
<1> DEFINE q == batch[r]
<1>1. /\ q \in BatchRequest /\ BatchRequestOK(q) /\ Claims(r) /\ q.key \in BatchKey
      /\ q.list \in asked[q.key] /\ Recorded(q.key) = {}
      /\ \A p \in q.list : branch[q.key][p] = "change"
  BY DEF BatchRequestsOK, OpenPull, Claims, BatchRequest, BatchRequestOK
<1>2. /\ pull' = [pull EXCEPT ![q.key] = "open"]
      /\ UNCHANGED <<changeStatus, entry, asked, branch, main, undos>>
  BY DEF OpenPull
<1>3. /\ batch'[r] = [q EXCEPT !.at = "commit", !.todo = {}]
      /\ \A s \in Batcher : s # r => batch'[s] = batch[s]
      /\ batch' = [batch EXCEPT ![r] = batch'[r]]
  BY DEF OpenPull
<1>4. /\ batch'[r] \in BatchRequest /\ batch'[r].key = q.key /\ batch'[r].todo \subseteq batch'[r].list
      /\ batch'[r].blob = q.blob /\ batch'[r].list = q.list /\ batch'[r].at = "commit"
  BY <1>1, <1>3 DEF BatchRequest, Stage
<1>5. BatchTypeOK'
  BY <1>1, <1>2, <1>3, <1>4 DEF PullStates
<1>6. \A k \in BatchKey : Recorded(k)' = Recorded(k) /\ HasBranch(k)' = HasBranch(k)
  BY <1>2 DEF Recorded, HasBranch
<1>7. BranchOK'
  BY <1>2, <1>6 DEF BranchOK
<1>8. BatchRequestsOK'
  <2>1. BatchRequestOK(batch[r])'
    BY <1>1, <1>2, <1>4, <1>6 DEF BatchRequestOK
  <2>2. ASSUME NEW s \in Batcher, s # r PROVE BatchRequestOK(batch[s])'
    <3>1. BatchRequestOK(batch[s]) /\ batch[s].key \in BatchKey /\ batch'[s] = batch[s]
      BY <1>3, <2>2 DEF BatchRequestsOK, BatchRequest
    <3> QED BY <1>1, <1>2, <1>6, <3>1 DEF BatchRequestOK
  <2> QED BY <2>1, <2>2 DEF BatchRequestsOK
<1>9. OneBatchPerKey'
  <2>1. \A s \in Batcher : batch'[s].key = batch[s].key /\ (Claims(s)' => Claims(s))
    BY <1>1, <1>3, <1>4 DEF Claims
  <2> QED BY <2>1 DEF OneBatchPerKey
<1>10. PullOK'
  <2>1. \A p \in Change : entry[q.key][p] = "none"
    BY <1>1 DEF Recorded
  <2> QED BY <1>1, <1>2, <1>6, <2>1 DEF PullOK
<1> QED BY <1>5, <1>7, <1>8, <1>9, <1>10

\* The list is recorded: the key had no receipt, and its pull request holds the list.
LEMMA CommitBatchPreserves ==
    ASSUME BatchInv, NEW r \in Batcher, CommitBatch(r)
    PROVE  BatchInv'
<1> USE DEF BatchInv, BatchTypeOK, NoRow, NoCall, At, Moves, Ends
<1> DEFINE q == batch[r]
<1>1. /\ q \in BatchRequest /\ BatchRequestOK(q) /\ Claims(r) /\ q.key \in BatchKey
      /\ q.list \in asked[q.key] /\ Recorded(q.key) = {} /\ pull[q.key] # "none"
      /\ q.list \subseteq Change
  BY DEF BatchRequestsOK, CommitBatch, Claims, BatchRequest, BatchRequestOK
<1>2. /\ \A p \in Change : entry'[q.key][p] = IF p \in q.list THEN "applied" ELSE entry[q.key][p]
      /\ \A k \in BatchKey : k # q.key => entry'[k] = entry[k]
      /\ entry' \in [BatchKey -> [Change -> {"none", "applied", "rolled_back"}]]
      /\ UNCHANGED <<asked, branch, pull, main, undos>>
  BY <1>1 DEF CommitBatch
<1>3. /\ batch' = [batch EXCEPT ![r] = Resting]
      /\ \A s \in Batcher : s # r => batch'[s] = batch[s]
      /\ batch'[r] = Resting
  BY DEF CommitBatch
<1>4. /\ Resting \in BatchRequest /\ Resting.todo \subseteq Resting.list /\ BatchRequestOK(Resting)
      /\ Resting.at = "idle"
  BY BatchAssumption DEF BatchAssumption, Resting, BatchRequest, Stage, Content, BatchRequestOK
<1>5. BatchTypeOK'
  <2>1. changeStatus' \in [Change -> {"approved", "rejected", "deployed", "failed"}]
    BY DEF CommitBatch
  <2> QED BY <1>2, <1>3, <1>4, <2>1
<1>6. /\ \A k \in BatchKey : k # q.key => Recorded(k)' = Recorded(k)
      /\ Recorded(q.key) = {} => \A p \in Change : entry[q.key][p] = "none"
  BY <1>2 DEF Recorded
<1>7. {p \in Change : entry'[q.key][p] # "none"} = q.list
  BY <1>1, <1>2, <1>6
<1>8. BranchOK'
  BY <1>2 DEF BranchOK, HasBranch
<1>9. BatchRequestsOK'
  <2>1. BatchRequestOK(batch[r])'
    BY <1>3 DEF BatchRequestOK, Resting
  <2>2. ASSUME NEW s \in Batcher, s # r PROVE BatchRequestOK(batch[s])'
    <3>1. BatchRequestOK(batch[s]) /\ batch[s].key \in BatchKey /\ batch'[s] = batch[s]
      BY <1>3, <2>2 DEF BatchRequestsOK, BatchRequest
    <3>2. Claims(s) => batch[s].key # q.key
      BY <1>1, <2>2 DEF OneBatchPerKey
    <3> QED BY <1>1, <1>2, <1>6, <3>1, <3>2 DEF BatchRequestOK, HasBranch, Claims
  <2> QED BY <2>1, <2>2 DEF BatchRequestsOK
<1>10. OneBatchPerKey'
  <2>1. /\ ~Claims(r)'
        /\ \A s \in Batcher : s # r => batch'[s].key = batch[s].key /\ (Claims(s)' => Claims(s))
    BY <1>3, <1>4 DEF Claims
  <2> QED BY <2>1 DEF OneBatchPerKey
<1>11. PullOK'
  <2>1. ASSUME NEW k \in BatchKey, k # q.key
        PROVE  /\ Recorded(k)' # {} => Recorded(k)' \in asked'[k] /\ pull'[k] # "none"
               /\ pull'[k] = "withdrawn" => Recorded(k)' # {}
               /\ (\E p \in Change : entry'[k][p] = "rolled_back") => pull'[k] \notin {"none", "open"}
    BY <1>2, <1>6, <2>1 DEF PullOK
  <2>2. Recorded(q.key) = {} => pull[q.key] # "withdrawn"
    BY <1>1, <1>6 DEF PullOK
  <2>3. ASSUME NEW k \in BatchKey, k = q.key
        PROVE  /\ Recorded(k)' \in asked'[k] /\ pull'[k] # "none" /\ pull'[k] # "withdrawn"
               /\ \A p \in Change : entry'[k][p] # "rolled_back"
    <3>1. Recorded(k)' = q.list
      BY <1>7, <2>3 DEF Recorded
    <3>2. \A p \in Change : entry'[k][p] # "rolled_back"
      BY <1>1, <1>2, <1>6, <2>3
    <3> QED BY <1>1, <1>2, <2>2, <2>3, <3>1, <3>2
  <2> QED BY <1>2, <2>1, <2>3 DEF PullOK
<1> QED BY <1>5, <1>8, <1>9, <1>10, <1>11

\* A rollback, a reviewer or a person moves.
AroundBatch ==
    \/ \E k \in BatchKey : PersonSettles(k) \/ \E p \in Change : ReadForUndo(k, p)
    \/ \E u \in undos : CloseForUndo(u) \/ RecordUndo(u)
    \/ \E p \in Change : ReviewCommits(p) \/ PersonEdits(p)

\* What they leave of rows and pull requests: a receipt stays, a pull request that is
\* settled stays so, and the one the application closes has its receipts.
AroundKeeps ==
    /\ UNCHANGED <<asked, branch, batch>>
    /\ \A k \in BatchKey :
          /\ (pull[k] # "none") <=> (pull'[k] # "none")
          /\ pull[k] \notin {"none", "open"} => pull'[k] = pull[k]
          /\ pull'[k] = "withdrawn" => (pull[k] = "withdrawn" \/ Recorded(k) # {})
    /\ \A k \in BatchKey, p \in Change :
          /\ (entry[k][p] # "none") <=> (entry'[k][p] # "none")
          /\ entry'[k][p] = "rolled_back" =>
                 (entry[k][p] = "rolled_back" \/ pull'[k] \notin {"none", "open"})

\* So they do.
LEMMA AroundStep ==
    ASSUME BatchInv, UndosOK, AroundBatch
    PROVE  AroundKeeps /\ BatchTypeOK'
<1> USE DEF BatchInv, BatchTypeOK, NoRow, NoCall
<1>1. ASSUME NEW k \in BatchKey, PersonSettles(k) PROVE AroundKeeps /\ BatchTypeOK'
  <2>1. pull' \in [BatchKey -> PullStates] /\ main' \in [Change -> Content]
    BY <1>1 DEF PersonSettles, PullStates, Content
  <2> QED BY <1>1, <2>1 DEF PersonSettles, AroundKeeps
<1>2. ASSUME NEW k \in BatchKey, NEW p \in Change, ReadForUndo(k, p) PROVE AroundKeeps /\ BatchTypeOK'
  <2>1. undos' \subseteq UndoOfOne
    <3>1. (changeStatus[p] = "failed") \in BOOLEAN
      BY Zenon
    <3> DEFINE n == [key |-> k, change |-> p, failed |-> changeStatus[p] = "failed", at |-> "read"]
    <3>2. n \in UndoOfOne
      BY <3>1 DEF UndoOfOne
    <3>3. undos' = undos \cup {n}
      BY <1>2 DEF ReadForUndo
    <3> HIDE DEF n
    <3> QED BY <3>2, <3>3
  <2> QED BY <1>2, <2>1 DEF ReadForUndo, AroundKeeps
<1>3. ASSUME NEW u \in undos, CloseForUndo(u) PROVE AroundKeeps /\ BatchTypeOK'
  <2>1. u \in UndoOfOne /\ u.key \in BatchKey /\ Recorded(u.key) # {}
    BY DEF UndoOfOne, UndosOK, Recorded
  <2>2. undos' \subseteq UndoOfOne /\ pull' \in [BatchKey -> PullStates]
    BY <1>3, <2>1 DEF CloseForUndo, UndoOfOne, PullStates
  <2> QED BY <1>3, <2>1, <2>2 DEF CloseForUndo, AroundKeeps
<1>4. ASSUME NEW u \in undos, RecordUndo(u) PROVE AroundKeeps /\ BatchTypeOK'
  <2>1. /\ u.key \in BatchKey /\ u.change \in Change /\ pull[u.key] \notin {"none", "open"}
        /\ entry[u.key][u.change] # "none"
    BY <1>4 DEF UndoOfOne, UndosOK, RecordUndo
  <2>2. changeStatus' \in [Change -> {"approved", "rejected", "deployed", "failed"}]
    BY <1>4, <2>1 DEF RecordUndo
  <2>3. entry' \in [BatchKey -> [Change -> {"none", "applied", "rolled_back"}]]
    BY <1>4, <2>1 DEF RecordUndo
  <2>4. \A k \in BatchKey, p \in Change :
           entry'[k][p] = IF k = u.key /\ p = u.change THEN "rolled_back" ELSE entry[k][p]
    BY <1>4, <2>1 DEF RecordUndo
  <2>5. UNCHANGED <<asked, branch, pull, main, batch, undos>>
    BY <1>4 DEF RecordUndo
  <2> QED BY <2>1, <2>2, <2>3, <2>4, <2>5 DEF AroundKeeps
<1>5. ASSUME NEW p \in Change, ReviewCommits(p) \/ PersonEdits(p) PROVE AroundKeeps /\ BatchTypeOK'
  <2>1. CASE ReviewCommits(p)
    <3>1. changeStatus' \in [Change -> {"approved", "rejected", "deployed", "failed"}]
      BY <2>1 DEF ReviewCommits
    <3>2. UNCHANGED <<entry, asked, branch, pull, main, batch, undos>>
      BY <2>1 DEF ReviewCommits, NoCall
    <3> QED BY <3>1, <3>2 DEF AroundKeeps
  <2>2. CASE PersonEdits(p)
    BY <2>2 DEF PersonEdits, AroundKeeps
  <2> QED BY <1>5, <2>1, <2>2
<1> QED BY <1>1, <1>2, <1>3, <1>4, <1>5 DEF AroundBatch

\* Rollbacks, reviewers and people keep the invariant.
LEMMA AroundBatchPreserves ==
    ASSUME BatchInv, UndosOK, AroundBatch
    PROVE  BatchInv'
<1>1. AroundKeeps /\ BatchTypeOK'
  BY AroundStep
<1> USE DEF BatchInv, BatchTypeOK
<1>3. \A k \in BatchKey : Recorded(k)' = Recorded(k)
  BY <1>1 DEF AroundKeeps, Recorded
<1>4. BranchOK' /\ OneBatchPerKey'
  BY <1>1 DEF AroundKeeps, BranchOK, HasBranch, OneBatchPerKey, Claims
<1>5. BatchRequestsOK'
  <2> SUFFICES ASSUME NEW s \in Batcher PROVE BatchRequestOK(batch[s])'
    BY DEF BatchRequestsOK
  <2>1. BatchRequestOK(batch[s]) /\ batch[s].key \in BatchKey
    BY DEF BatchRequestsOK, BatchRequest
  <2> QED BY <1>1, <1>3, <2>1 DEF AroundKeeps, BatchRequestOK, HasBranch
<1>6. PullOK'
  <2>1. ASSUME NEW k \in BatchKey, pull'[k] = "withdrawn" PROVE Recorded(k)' # {}
    BY <1>1, <1>3, <2>1 DEF AroundKeeps, PullOK
  <2>2. ASSUME NEW k \in BatchKey, NEW p \in Change, entry'[k][p] = "rolled_back"
        PROVE  pull'[k] \notin {"none", "open"}
    BY <1>1, <2>2 DEF AroundKeeps, PullOK
  <2> QED BY <1>1, <1>3, <2>1, <2>2 DEF AroundKeeps, PullOK
<1> QED BY <1>1, <1>4, <1>5, <1>6

\* A request's step leaves the receipts and settled pull requests that rollbacks are of:
\* it opens a pull request, and inserts receipts, only for a key that has none.
LEMMA RequestsLeaveUndos ==
    ASSUME BatchInv, UndosOK, NEW r \in Batcher,
           \/ AskBatch(r) \/ CheckBatch(r) \/ ClaimBatch(r) \/ LookUpPull(r) \/ CreateBranch(r)
           \/ OpenPull(r) \/ CommitBatch(r) \/ AbortBatch(r)
           \/ \E p \in Change : ReadBase(r, p) \/ WriteFile(r, p)
    PROVE  UndosOK'
<1> USE DEF BatchInv, BatchTypeOK, NoRow, NoCall, At
<1>1. batch[r].key \in BatchKey /\ BatchRequestOK(batch[r])
  BY DEF BatchRequestsOK, BatchRequest
<1>2. ASSUME UNCHANGED <<entry, pull, undos>> PROVE UndosOK'
  BY <1>2 DEF UndosOK, Recorded
<1>3. ASSUME OpenPull(r) PROVE UndosOK'
  <2>1. Recorded(batch[r].key) = {} /\ entry' = entry /\ undos' = undos
    BY <1>1, <1>3 DEF OpenPull, BatchRequestOK
  <2>2. \A u \in undos : u.key # batch[r].key /\ u.key \in BatchKey
    BY <2>1 DEF UndosOK, UndoOfOne, Recorded
  <2> QED BY <1>3, <2>1, <2>2 DEF OpenPull, UndosOK, Recorded
<1>4. ASSUME CommitBatch(r) PROVE UndosOK'
  <2>1. ASSUME NEW u \in undos PROVE entry'[u.key] = entry[u.key]
    <3>1. Recorded(batch[r].key) = {}
      BY <1>1, <1>4 DEF CommitBatch, BatchRequestOK
    <3>2. u.key \in BatchKey /\ u.key # batch[r].key
      BY <3>1 DEF UndosOK, UndoOfOne, Recorded
    <3> QED BY <1>4, <3>2 DEF CommitBatch
  <2> QED BY <1>4, <2>1 DEF CommitBatch, UndosOK
<1> QED
  BY <1>2, <1>3, <1>4 DEF AskBatch, CheckBatch, ClaimBatch, LookUpPull, CreateBranch, AbortBatch,
                          ReadBase, WriteFile

\* Nor does anything else take from them.
LEMMA AroundLeavesUndos ==
    ASSUME BatchInv, UndosOK, AroundBatch
    PROVE  UndosOK'
<1>1. AroundKeeps
  BY AroundStep
<1>2. \A u \in undos : u \in UndoOfOne /\ u.key \in BatchKey /\ u.change \in Change
  BY DEF BatchInv, BatchTypeOK, UndoOfOne
<1>3. \A k \in BatchKey : Recorded(k)' = Recorded(k)
  BY <1>1 DEF AroundKeeps, Recorded
<1>4. ASSUME NEW u \in undos
      PROVE  entry'[u.key][u.change] # "none" /\ (u.at = "closed" => pull'[u.key] \notin {"none", "open"})
  BY <1>1, <1>2, <1>3 DEF AroundKeeps, UndosOK
<1>5. CASE undos' = undos
  BY <1>4, <1>5 DEF UndosOK
<1>6. ASSUME NEW k \in BatchKey, NEW p \in Change, ReadForUndo(k, p) PROVE UndosOK'
  <2>1. entry'[k][p] # "none"
    BY <1>1, <1>6 DEF ReadForUndo, AroundKeeps
  <2>2. \A v \in undos' : v \in undos \/ (v.key = k /\ v.change = p /\ v.at = "read")
    BY <1>6 DEF ReadForUndo
  <2> QED BY <1>4, <2>1, <2>2 DEF UndosOK
<1>7. ASSUME NEW u \in undos, CloseForUndo(u) PROVE UndosOK'
  <2>1. pull[u.key] # "none"
    <3>1. Recorded(u.key) # {}
      BY <1>2 DEF UndosOK, Recorded
    <3> QED BY <1>2, <3>1 DEF BatchInv, PullOK
  <2>2. pull'[u.key] \notin {"none", "open"}
    BY <1>2, <1>7, <2>1 DEF CloseForUndo, BatchInv, BatchTypeOK
  <2>3. \A v \in undos' : v \in undos \/ (v.key = u.key /\ v.change = u.change)
    BY <1>2, <1>7 DEF CloseForUndo, UndoOfOne
  <2> QED BY <1>4, <2>2, <2>3 DEF UndosOK
<1> QED BY <1>5, <1>6, <1>7 DEF AroundBatch, PersonSettles, RecordUndo, ReviewCommits, PersonEdits, NoCall

\* The inductive invariant of batches holds in every state, for any changes, keys and
\* requests.
THEOREM BatchInvariance == BatchSpec => [](BatchInv /\ UndosOK)
<1>1. BatchInit => BatchInv /\ UndosOK
  BY BatchInitEstablishes DEF BatchInit, UndosOK
<1>2. BatchInv /\ UndosOK /\ [BatchNext]_batchVars => (BatchInv /\ UndosOK)'
  <2> SUFFICES ASSUME BatchInv, UndosOK, [BatchNext]_batchVars PROVE BatchInv' /\ UndosOK'
    OBVIOUS
  <2>1. CASE UNCHANGED batchVars
    <3> USE <2>1 DEF batchVars, BatchInv
    <3>1. BatchTypeOK'
      BY DEF BatchTypeOK
    <3>2. BranchOK' /\ OneBatchPerKey'
      BY DEF BranchOK, HasBranch, OneBatchPerKey, Claims
    <3>3. \A k \in BatchKey : Recorded(k)' = Recorded(k)
      BY DEF Recorded
    <3>4. PullOK'
      BY <3>3 DEF PullOK
    <3>5. BatchRequestsOK'
      BY DEF BatchRequestsOK, BatchRequestOK, Recorded, HasBranch
    <3>6. UndosOK'
      BY DEF UndosOK, Recorded
    <3> QED BY <3>1, <3>2, <3>4, <3>5, <3>6
  <2>2. CASE AroundBatch
    BY <2>2, AroundBatchPreserves, AroundLeavesUndos
  <2>3. CASE BatchNext /\ ~AroundBatch
    <3>1. BatchInv'
      BY <2>3, BatchReads, ClaimBatchPreserves, CreateBranchPreserves, WriteFilePreserves,
         OpenPullPreserves, CommitBatchPreserves DEF BatchNext, AroundBatch
    <3>2. UndosOK'
      BY <2>3, RequestsLeaveUndos DEF BatchNext, AroundBatch
    <3> QED BY <3>1, <3>2
  <2> QED BY <2>1, <2>2, <2>3
<1> QED BY <1>1, <1>2, PTL DEF BatchSpec

\* A batch is recorded as its pull request holds it, whatever failed half-way and however
\* often it was tried again with the list; and it falls as a whole.
THEOREM BatchTheorem == BatchSpec => []BatchStandsTogether
<1>1. BatchInv => ReceiptsMatchPull
  <2> SUFFICES ASSUME BatchInv, NEW k \in BatchKey
               PROVE  /\ \A p \in Change : branch[k][p] # "unseen"
                      /\ Cardinality(asked[k]) = 1 /\ Recorded(k) # {} =>
                            {p \in Change : branch[k][p] = "change"} = Recorded(k)
    BY DEF ReceiptsMatchPull
  <2>1. \A p \in Change : branch[k][p] # "unseen"
    BY DEF BatchInv, BranchOK
  <2>2. ASSUME Cardinality(asked[k]) = 1, Recorded(k) # {}
        PROVE  {p \in Change : branch[k][p] = "change"} = Recorded(k)
    <3>1. IsFiniteSet(asked[k])
      BY DEF BatchInv, PullOK
    <3>2. PICK list : asked[k] = {list}
      BY <2>2, <3>1, FS_Singleton
    <3>3. Recorded(k) = list /\ \A p \in list : branch[k][p] = "change"
      BY <2>2, <3>2 DEF BatchInv, PullOK
    <3>4. \A p \in Change : branch[k][p] = "change" => p \in list
      BY <3>2 DEF BatchInv, BranchOK
    <3>5. Recorded(k) \subseteq Change
      BY DEF Recorded
    <3> QED BY <3>3, <3>4, <3>5
  <2> QED BY <2>1, <2>2
<1>2. BatchInv => FallsAsOne
  BY DEF BatchInv, PullOK, FallsAsOne
<1> QED BY <1>1, <1>2, BatchInvariance, PTL DEF BatchStandsTogether

-----------------------------------------------------------------------------
(* The review, deployments and batches side by side, as MCProposals has    *)
(* them.                                                                   *)

\* Whatever part of MCProposals moves, each of them moves as it does alone.
LEMMA PartsAlone ==
    PartsSpec => /\ Init /\ [][Next]_vars
                 /\ DeployInit /\ [][DeployNext]_deployVars
                 /\ BatchSpec
<1>1. PartsInit => Init /\ DeployInit /\ BatchInit
  BY DEF PartsInit
<1>2. ASSUME [PartsNext]_<<part, vars, deployVars, batchVars>>
      PROVE  [Next]_vars /\ [DeployNext]_deployVars /\ [BatchNext]_batchVars
  BY <1>2 DEF PartsNext
<1> QED BY <1>1, <1>2, PTL DEF PartsSpec, BatchSpec

\* The rows of all three keep their types, whichever of them moves.
THEOREM PartsTypeCorrect == PartsSpec => []TypesHold
<1>1. Init => IInv
  BY InitEstablishes
<1>2. IInv /\ [Next]_vars => IInv'
  BY StepPreserves
<1>3. DeployInit => DeployInv
  BY DeployInitEstablishes
<1>4. DeployInv /\ [DeployNext]_deployVars => DeployInv'
  BY DeployStepPreserves
<1>5. IInv /\ DeployInv /\ BatchInv => TypesHold
  BY DEF IInv, DeployInv, BatchInv, TypesHold
<1> QED BY <1>1, <1>2, <1>3, <1>4, <1>5, BatchInvariance, PartsAlone, PTL
=============================================================================
