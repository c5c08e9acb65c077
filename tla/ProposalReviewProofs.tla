------------------------ MODULE ProposalReviewProofs ------------------------
(***************************************************************************)
(* Proofs about ProposalReview for every set of people, every set of       *)
(* request slots and every proposal that may be created.                   *)
(*                                                                         *)
(* The safety properties are not inductive alone: what a request in flight *)
(* will write depends on what it read.  RequestInv records that: the prior *)
(* approvers it counted are still recorded, a request of the author that   *)
(* got past the guards is a self-review the content allows, and the status *)
(* it loaded was one that may be decided on.                               *)
(***************************************************************************)
EXTENDS ProposalReview, FiniteSetTheorems, TLAPS

\* What a request in flight carries is still true of the committed rows.
RequestInv ==
    \A r \in Request :
        LET q == req[r] IN
        /\ q.prior \subseteq Approvers
        /\ q.self => q.by = Author /\ Scope # ""
        /\ q.pc = "sole" => q.by = Author
        /\ q.pc \in {"prior", "write"} /\ q.by = Author /\ q.decision = "approved" => q.self
        /\ q.pc \in {"sole", "prior", "write"} => Decidable(q.loaded)

\* A change the policy rates high or prohibited needs two approvers.
FloorInv == proposal.risk \in {"high", "prohibited"} => proposal.required >= 2

IInv ==
    /\ TypeOK
    /\ RequestInv
    /\ FloorInv
    /\ QuorumBehindApproval
    /\ SeparationOfDuties
    /\ NobodyDecidesTwice
    /\ RejectionReleasesDraft

-----------------------------------------------------------------------------
\* The approver count stays between 1 and 5, and at least 2 above medium,
\* whatever the site's override (resolve_required_approver_count).
LEMMA ApproverCount ==
    ASSUME NEW p \in PolicyInput
    PROVE  /\ ResolveRequiredApproverCount(p.risk, p.override) \in 1..5
           /\ p.risk \in {"high", "prohibited"} =>
                 ResolveRequiredApproverCount(p.risk, p.override) >= 2
BY DEF PolicyInput, ResolveRequiredApproverCount, TIER_APPROVER_FLOOR, LOWERABLE_TIERS,
       Risk, Override, NoOverride

\* Approvers is a finite set of people, so its cardinality is a number that
\* grows with it.
LEMMA ApproversFinite ==
    ASSUME TypeOK
    PROVE  Approvers \subseteq Person /\ IsFiniteSet(Approvers)
<1>1. Approvers \subseteq Person
  BY DEF TypeOK, Approvers, ApprovalRow
<1>2. IsFiniteSet(Approvers)
  BY <1>1, FS_Subset, ReviewAssumption DEF ReviewAssumption
<1> QED BY <1>1, <1>2

\* A count that reaches a requirement of two or more is two or more.
LEMMA AtLeastTwo == \A c, n \in Nat : c >= n /\ n >= 2 => c >= 2
OBVIOUS

\* The approver count is a number.
LEMMA RequiredIsNat == TypeOK => proposal.required \in Nat
BY DEF TypeOK

\* A freshly created proposal satisfies the invariant.
LEMMA InitEstablishes == Init => IInv
<1> SUFFICES ASSUME Init PROVE IInv
  OBVIOUS
<1> USE ReviewAssumption, SubmittedAssumption DEF ReviewAssumption, SubmittedAssumption
<1>1. PICK p \in Submitted : Create(p)
  BY DEF Init
<1>2. p \in PolicyInput
  BY <1>1
<1>3. TypeOK
  <2>1. proposal \in [risk : Risk, shape : Shape, valid : BOOLEAN, required : 1..5]
    BY <1>1, <1>2, ApproverCount DEF Create, PolicyInput
  <2>2. status \in Status /\ draft \in {"none", "ready", "submitted"}
    BY <1>1 DEF Create, InitialStatus, Status
  <2>3. member \in [Person -> MemberRow]
    BY DEF Init, MemberRow
  <2>4. req \in [Request -> RequestState]
    BY DEF Init, RequestState, IdleRequest, Role, Decision, Confirmation, Status
  <2>6. /\ deployed \in [DeployKey -> DeployedState]
        /\ undoing \subseteq DeployKey \X BOOLEAN /\ watched \subseteq DeployKey
    BY DEF Init, DeployedState
  <2>5. expired \in BOOLEAN /\ approvals \subseteq ApprovalRow
    BY DEF Init
  <2> QED BY <2>1, <2>2, <2>3, <2>4, <2>5, <2>6 DEF TypeOK
<1>4. RequestInv
  BY DEF Init, RequestInv, IdleRequest
<1>5. FloorInv
  BY <1>1, <1>2, ApproverCount DEF Create, FloorInv
<1>6. QuorumBehindApproval
  BY <1>1 DEF Create, InitialStatus, QuorumBehindApproval
<1>7. SeparationOfDuties /\ NobodyDecidesTwice /\ RejectionReleasesDraft
  BY DEF Init, SeparationOfDuties, NobodyDecidesTwice, RejectionReleasesDraft
<1> QED BY <1>3, <1>4, <1>5, <1>6, <1>7 DEF IInv

-----------------------------------------------------------------------------
(* Steps that read, refuse or start: nothing committed changes.            *)

\* The committed half of the state: all that the safety properties mention.
committed == <<proposal, status, approvals, draft>>

\* As long as the committed rows stay and the stepping request keeps its half
\* of RequestInv, the invariant is preserved.
LEMMA ReadStep ==
    ASSUME IInv, UNCHANGED committed,
           expired' \in BOOLEAN, member' \in [Person -> MemberRow], UNCHANGED taken,
           NEW r \in Request, NEW q \in RequestState,
           req' = [req EXCEPT ![r] = q],
           q.prior \subseteq Approvers,
           q.self => q.by = Author /\ Scope # "",
           q.pc = "sole" => q.by = Author,
           q.pc \in {"prior", "write"} /\ q.by = Author /\ q.decision = "approved" => q.self,
           q.pc \in {"sole", "prior", "write"} => Decidable(q.loaded)
    PROVE  IInv'
<1> USE DEF committed
<1>1. TypeOK'
  BY DEF IInv, TypeOK, taken
<1>2. RequestInv'
  BY DEF IInv, TypeOK, RequestInv, Approvers, Scope, Decidable
<1>3. (FloorInv /\ QuorumBehindApproval /\ SeparationOfDuties)'
  BY DEF IInv, FloorInv, QuorumBehindApproval, SeparationOfDuties, Approvers, Scope
<1>4. (NobodyDecidesTwice /\ RejectionReleasesDraft)'
  BY DEF IInv, NobodyDecidesTwice, RejectionReleasesDraft
<1> QED BY <1>1, <1>2, <1>3, <1>4 DEF IInv

\* A slot that serves nothing has a request's type.
LEMMA IdleIsTyped == IdleRequest \in RequestState
BY ReviewAssumption DEF ReviewAssumption, IdleRequest, RequestState, Role, Decision,
   Confirmation, Status

\* A refused request leaves nothing behind (get_tenant_session rolls it back).
LEMMA RefuseStep ==
    ASSUME IInv, UNCHANGED <<committed, expired, member, taken>>,
           NEW r \in Request, Refuse(r)
    PROVE  IInv'
BY ReadStep, IdleIsTyped DEF Refuse, IdleRequest, IInv, TypeOK, committed

\* A request that begins has read nothing yet.
LEMMA BeginStep == ASSUME IInv, NEW r \in Request, Begin(r) PROVE IInv'
<1>1. PICK p \in ActiveWith(Role), d \in Decision, c \in Confirmation :
        req' = [req EXCEPT ![r] = [IdleRequest EXCEPT !.pc = "read", !.by = p,
                   !.role = member[p].role, !.decision = d, !.confirm = c]]
  BY DEF Begin
<1> DEFINE q == [IdleRequest EXCEPT !.pc = "read", !.by = p,
                   !.role = member[p].role, !.decision = d, !.confirm = c]
<1>2. q \in RequestState
  BY IdleIsTyped DEF IdleRequest, RequestState, ActiveWith
<1>3. q.prior = {} /\ q.self = FALSE /\ q.pc = "read"
  BY DEF IdleRequest
<1>4. UNCHANGED <<committed, expired, member, taken>> /\ expired' \in BOOLEAN
        /\ member' \in [Person -> MemberRow]
  BY DEF Begin, committed, IInv, TypeOK
<1> HIDE DEF q
<1> QED BY <1>1, <1>2, <1>3, <1>4, ReadStep DEF q

\* Past the guards of approve_proposal, a loaded status is decidable, and a
\* request of the author goes through the sole-approver check.
LEMMA ReadProposalStep == ASSUME IInv, NEW r \in Request, ReadProposal(r) PROVE IInv'
<1>1. UNCHANGED <<committed, expired, member, taken>> /\ expired' \in BOOLEAN
        /\ member' \in [Person -> MemberRow]
  BY DEF ReadProposal, committed, IInv, TypeOK
<1>2. CASE Refuse(r)
  BY <1>1, <1>2, RefuseStep
<1>3. CASE ~Refuse(r)
  <2> DEFINE own == req[r].by = Author /\ req[r].decision # "rejected"
             next == IF own THEN "sole" ELSE AfterGuards(r)
             q == [req[r] EXCEPT !.pc = next, !.loaded = status]
  <2>1. Decidable(status) /\ next # "idle" /\ req' = [req EXCEPT ![r] = q]
    BY <1>3 DEF ReadProposal
  <2>2. next \in {"sole", "prior", "write"}
    BY <2>1 DEF AfterGuards
  <2>3. req[r] \in RequestState /\ status \in Status
    BY DEF IInv, TypeOK
  <2>4. q \in RequestState
    BY <2>2, <2>3 DEF RequestState
  <2>5. /\ q.prior = req[r].prior /\ q.self = req[r].self /\ q.by = req[r].by
        /\ q.decision = req[r].decision /\ q.pc = next /\ q.loaded = status
    BY <2>3 DEF RequestState
  <2>6. q.pc \in {"prior", "write"} /\ q.by = Author => q.decision = "rejected"
    BY <2>5 
  <2>7. /\ q.prior \subseteq Approvers
        /\ q.self => q.by = Author /\ Scope # ""
        /\ q.pc = "sole" => q.by = Author
    <3>1. q.pc = "sole" => q.by = Author
      BY <2>5 DEF AfterGuards
    <3> HIDE DEF q
    <3>2. req[r].prior \subseteq Approvers /\ (req[r].self => req[r].by = Author /\ Scope # "")
      BY DEF IInv, RequestInv
    <3> QED BY <2>5, <3>1, <3>2
  <2> HIDE DEF q
  <2> QED BY <1>1, <2>1, <2>4, <2>5, <2>6, <2>7, ReadStep
<1> QED BY <1>2, <1>3

\* The sole-approver check passes only a self-review the content allows.
LEMMA CheckSoleStep == ASSUME IInv, NEW r \in Request, CheckSole(r) PROVE IInv'
<1>1. UNCHANGED <<committed, expired, member, taken>> /\ expired' \in BOOLEAN
        /\ member' \in [Person -> MemberRow]
  BY DEF CheckSole, committed, IInv, TypeOK
<1>2. CASE Refuse(r)
  BY <1>1, <1>2, RefuseStep
<1>3. CASE ~Refuse(r)
  <2> DEFINE q == [req[r] EXCEPT !.pc = "prior", !.self = TRUE]
  <2>1. Scope # "" /\ req' = [req EXCEPT ![r] = q] /\ req[r].pc = "sole"
    BY <1>3 DEF CheckSole
  <2>2. req[r] \in RequestState
    BY DEF IInv, TypeOK
  <2>3. q \in RequestState
    BY <2>2 DEF RequestState
  <2>4. /\ q.prior = req[r].prior /\ q.self = TRUE /\ q.by = req[r].by
        /\ q.decision = req[r].decision /\ q.pc = "prior" /\ q.loaded = req[r].loaded
    BY <2>2 DEF RequestState
  <2> HIDE DEF q
  <2>5. q.prior \subseteq Approvers /\ Decidable(q.loaded) /\ q.by = Author
    BY <2>1, <2>4 DEF IInv, RequestInv
  <2> QED BY <1>1, <2>1, <2>3, <2>4, <2>5, ReadStep
<1> QED BY <1>2, <1>3

\* The prior approvers a request counts are committed rows.
LEMMA ReadPriorStep == ASSUME IInv, NEW r \in Request, ReadPrior(r) PROVE IInv'
<1> DEFINE q == [req[r] EXCEPT !.pc = "write", !.prior = Approvers]
<1>1. UNCHANGED <<committed, expired, member, taken>> /\ expired' \in BOOLEAN
        /\ member' \in [Person -> MemberRow]
  BY DEF ReadPrior, committed, IInv, TypeOK
<1>2. req' = [req EXCEPT ![r] = q] /\ req[r].pc = "prior" /\ req[r] \in RequestState
  BY DEF ReadPrior, IInv, TypeOK
<1>3. Approvers \subseteq Person
  BY ApproversFinite DEF IInv
<1>4. q \in RequestState
  BY <1>2, <1>3 DEF RequestState
<1>5. /\ q.prior = Approvers /\ q.self = req[r].self /\ q.by = req[r].by
      /\ q.decision = req[r].decision /\ q.pc = "write" /\ q.loaded = req[r].loaded
  BY <1>2 DEF RequestState
<1> HIDE DEF q
<1>6. /\ q.self => q.by = Author /\ Scope # ""
      /\ q.by = Author /\ q.decision = "approved" => q.self
      /\ Decidable(q.loaded)
  BY <1>2, <1>5 DEF IInv, RequestInv
<1> QED BY <1>1, <1>2, <1>4, <1>5, <1>6, ReadStep

-----------------------------------------------------------------------------
(* The step that commits a decision.                                       *)

\* A committed decision only adds an approver, so every count taken earlier
\* is a lower bound on the count afterwards.
LEMMA ApproversGrow ==
    ASSUME TypeOK, TypeOK', approvals \subseteq approvals'
    PROVE  /\ Approvers \subseteq Approvers'
           /\ \A S \in SUBSET Approvers' :
                 Cardinality(S) \in Nat /\ Cardinality(S) <= Cardinality(Approvers')
<1>1. Approvers \subseteq Approvers'
  BY DEF Approvers
<1>2. IsFiniteSet(Approvers')
  BY ApproversFinite, ReviewAssumption, FS_Subset DEF ReviewAssumption, TypeOK, Approvers, ApprovalRow
<1>3. ASSUME NEW S \in SUBSET Approvers'
      PROVE  Cardinality(S) \in Nat /\ Cardinality(S) <= Cardinality(Approvers')
  BY <1>2, FS_Subset, FS_CardinalityType
<1> QED BY <1>1, <1>3

\* The commit of a decision: the one step that changes status, rows and draft.
LEMMA WriteStep == ASSUME IInv, NEW r \in Request, Write(r) PROVE IInv'
<1> DEFINE q == req[r]
           row == [approver |-> q.by, decision |-> q.decision, self |-> q.self]
<1>1. /\ q.pc = "write" /\ approvals' = approvals \cup {row}
      /\ \A a \in approvals : a.approver # q.by
      /\ WriteStatus(q.loaded, Resulting(q))
      /\ req' = [req EXCEPT ![r] = IdleRequest]
      /\ UNCHANGED <<proposal, expired, member, taken>>
  BY DEF Write, Refuse
<1>2. q \in RequestState /\ row \in ApprovalRow
  BY DEF IInv, TypeOK, RequestState, ApprovalRow
<1>3. Resulting(q) \in {"approved", "rejected", "review_required"}
  BY DEF Resulting
<1>row. /\ row \in approvals' /\ row.approver = q.by
        /\ row.decision = q.decision /\ row.self = q.self
  BY <1>1
<1>4. draft' \in {"none", "ready", "submitted"}
  BY DEF Write, ReopenDraft, IInv, TypeOK
<1>5. TypeOK'
  BY <1>1, <1>2, <1>3, <1>4, IdleIsTyped DEF IInv, TypeOK, WriteStatus, Status, taken
<1>6. Approvers \subseteq Approvers'
      /\ \A S \in SUBSET Approvers' :
             Cardinality(S) \in Nat /\ Cardinality(S) <= Cardinality(Approvers')
  BY <1>1, <1>5, ApproversGrow DEF IInv
<1>7. RequestInv'
  <2> SUFFICES ASSUME NEW s \in Request
               PROVE  LET t == req'[s] IN
                      /\ t.prior \subseteq Approvers'
                      /\ t.self => t.by = Author /\ Scope' # ""
                      /\ t.pc = "sole" => t.by = Author
                      /\ t.pc \in {"prior", "write"} /\ t.by = Author /\ t.decision = "approved"
                            => t.self
                      /\ t.pc \in {"sole", "prior", "write"} => Decidable(t.loaded)
    BY DEF RequestInv, Decidable
  <2>1. CASE s = r
    BY <2>1, <1>1 DEF IInv, TypeOK, IdleRequest
  <2>2. CASE s # r
    <3>1. req'[s] = req[s] /\ Scope' = Scope
      BY <2>2, <1>1 DEF IInv, TypeOK, Scope
    <3> QED BY <3>1, <1>6 DEF IInv, RequestInv
  <2> QED BY <2>1, <2>2
<1>8. FloorInv'
  BY <1>1 DEF IInv, FloorInv
<1>9. QuorumBehindApproval'
  <2> SUFFICES ASSUME status' = "approved"
               PROVE  \/ Cardinality(Approvers') >= proposal.required
                      \/ \E a \in approvals' : a.self /\ a.decision = "approved"
    BY <1>1 DEF QuorumBehindApproval
  <2>1. proposal.required \in Nat
    BY DEF IInv, TypeOK
  <2>2. CASE status = "approved"
    <3>1. CASE \E a \in approvals : a.self /\ a.decision = "approved"
      BY <3>1, <1>1
    <3>2. CASE Cardinality(Approvers) >= proposal.required
      BY <3>2, <1>6, <2>1
    <3> QED BY <2>2, <3>1, <3>2 DEF IInv, QuorumBehindApproval
  <2>3. CASE status # "approved"
    <3>1. Resulting(q) = "approved"
      BY <2>3, <1>1 DEF WriteStatus
    <3>2. q.decision = "approved"
      BY <3>1, <1>2 DEF Resulting, RequestState, Decision
    <3>3. CASE q.self
      BY <3>2, <3>3, <1>row
    <3>4. CASE ~q.self
      <4>1. Cardinality(q.prior \cup {q.by}) >= proposal.required
        BY <3>1, <3>2, <3>4 DEF Resulting
      <4>2. q.prior \cup {q.by} \subseteq Approvers'
        <5>1. q.prior \subseteq Approvers'
          BY <1>6 DEF IInv, RequestInv
        <5>2. q.by \in Approvers'
          BY <3>2, <1>row DEF Approvers
        <5> QED BY <5>1, <5>2
      <4> QED BY <4>1, <4>2, <1>6, <2>1
    <3> QED BY <3>3, <3>4
  <2> QED BY <2>2, <2>3
<1>10. SeparationOfDuties'
  <2>1. q.self => q.by = Author /\ Scope # ""
    BY DEF IInv, RequestInv
  <2>2. q.by = Author /\ q.decision = "approved" => q.self
    BY <1>1 DEF IInv, RequestInv
  <2>3. Scope' = Scope
    BY <1>1 DEF Scope
  <2> SUFFICES ASSUME NEW a \in approvals'
               PROVE  /\ a.decision = "approved" /\ a.approver = Author => a.self
                      /\ a.self => a.approver = Author /\ Scope # ""
    BY <2>3 DEF SeparationOfDuties
  <2>4. CASE a \in approvals
    BY <2>4 DEF IInv, SeparationOfDuties
  <2>5. CASE a = row
    BY <2>5, <2>1, <2>2, <1>row
  <2> QED BY <1>1, <2>4, <2>5
<1>11. NobodyDecidesTwice'
  BY <1>1 DEF IInv, NobodyDecidesTwice
<1>12. RejectionReleasesDraft'
  <2>1. CASE q.decision = "rejected"
    BY <2>1, <1>4 DEF Write, ReopenDraft, RejectionReleasesDraft
  <2>2. CASE q.decision # "rejected"
    BY <2>2, <1>1 DEF Write, IInv, RejectionReleasesDraft
  <2> QED BY <2>1, <2>2
<1> QED BY <1>5, <1>7, <1>8, <1>9, <1>10, <1>11, <1>12 DEF IInv

-----------------------------------------------------------------------------
(* Steps around the requests.                                              *)

\* A step that leaves proposal, rows, draft and requests alone preserves the
\* invariant if it keeps the types: expiry and membership changes are such steps.
LEMMA SurroundingStep ==
    ASSUME IInv, UNCHANGED <<committed, req, taken>>,
           expired' \in BOOLEAN, member' \in [Person -> MemberRow]
    PROVE  IInv'
<1> USE DEF committed
<1>1. TypeOK'
  BY DEF IInv, TypeOK, taken
<1>2. (RequestInv /\ FloorInv)'
  BY DEF IInv, RequestInv, FloorInv, Approvers, Scope, Decidable
<1>3. (QuorumBehindApproval /\ SeparationOfDuties)'
  BY DEF IInv, QuorumBehindApproval, SeparationOfDuties, Approvers, Scope
<1>4. (NobodyDecidesTwice /\ RejectionReleasesDraft)'
  BY DEF IInv, NobodyDecidesTwice, RejectionReleasesDraft
<1> QED BY <1>1, <1>2, <1>3, <1>4 DEF IInv

\* Invitations, role changes and removals preserve the invariant.
LEMMA MembershipPreserves == ASSUME IInv, MembershipStep PROVE IInv'
<1> USE ReviewAssumption DEF ReviewAssumption
<1>1. member' \in [Person -> MemberRow]
  <2>1. CASE \E p \in Person : AcceptInvitation(p)
    BY <2>1 DEF AcceptInvitation, IInv, TypeOK, MemberRow
  <2>2. CASE \E p, q \in Person : ChangeRole(q, p)
    BY <2>2 DEF ChangeRole, IInv, TypeOK, MemberRow
  <2>3. CASE \E p, q \in Person : Remove(q, p)
    BY <2>3 DEF Remove, IInv, TypeOK, MemberRow
  <2> QED BY <2>1, <2>2, <2>3 DEF MembershipStep
<1>2. UNCHANGED <<committed, expired, req, taken>> /\ expired' \in BOOLEAN
  BY DEF MembershipStep, AcceptInvitation, ChangeRole, Remove, committed, IInv, TypeOK
<1> QED BY <1>1, <1>2, SurroundingStep

\* A deployment or a rollback writes a status no approval is behind, and may send the
\* draft back.
LEMMA DeploymentPreserves == ASSUME IInv, DeploymentStep PROVE IInv'
<1> USE DEF IInv, TypeOK, OthersRest, DeployedState
<1>1. /\ UNCHANGED <<proposal, expired, approvals, member, req>>
      /\ status' \in {status, "deployed", "failed"}
      /\ draft' = draft \/ ReopenDraft
  BY DEF DeploymentStep, LoadToDeploy, WriteDeployed, DropDeploy, LoadToUndo, SettleRevert,
         WriteUndone, WriteReverting, WriteStatus
<1>2. /\ deployed' \in [DeployKey -> DeployedState]
      /\ undoing' \subseteq DeployKey \X BOOLEAN /\ watched' \subseteq DeployKey
  <2>1. ASSUME NEW k \in DeployKey, LoadToDeploy(k) \/ WriteDeployed(k) \/ DropDeploy(k) PROVE <1>2!:
    BY <2>1 DEF LoadToDeploy, WriteDeployed, DropDeploy
  <2>2. ASSUME NEW k \in DeployKey, LoadToUndo(k) PROVE <1>2!:
    <3>1. <<k, status = "failed">> \in DeployKey \X BOOLEAN
      BY Zenon
    <3> QED BY <2>2, <3>1 DEF LoadToUndo
  <2>4. ASSUME NEW k \in DeployKey, SettleRevert(k) PROVE <1>2!:
    BY <2>4 DEF SettleRevert
  <2>3. ASSUME NEW q \in undoing, WriteUndone(q) \/ WriteReverting(q) PROVE <1>2!:
    BY <2>3 DEF WriteUndone, WriteReverting
  <2> QED BY <2>1, <2>2, <2>3, <2>4 DEF DeploymentStep
<1>3. TypeOK'
  BY <1>1, <1>2 DEF Status, ReopenDraft
<1>4. (RequestInv /\ FloorInv)'
  BY <1>1 DEF RequestInv, FloorInv, Approvers, Scope, Decidable
<1>5. (QuorumBehindApproval /\ SeparationOfDuties)'
  BY <1>1 DEF QuorumBehindApproval, SeparationOfDuties, Approvers, Scope
<1>6. (NobodyDecidesTwice /\ RejectionReleasesDraft)'
  BY <1>1 DEF NobodyDecidesTwice, RejectionReleasesDraft, ReopenDraft
<1> QED BY <1>3, <1>4, <1>5, <1>6

\* Every step of the specification preserves the invariant.
LEMMA StepPreserves == IInv /\ [Next]_vars => IInv'
<1> SUFFICES ASSUME IInv, [Next]_vars PROVE IInv'
  OBVIOUS
<1>1. ASSUME NEW r \in Request, RequestStep(r) PROVE IInv'
  <2>1. CASE Begin(r)
    BY <2>1, BeginStep
  <2>2. CASE ReadProposal(r)
    BY <2>2, ReadProposalStep
  <2>3. CASE CheckSole(r)
    BY <2>3, CheckSoleStep
  <2>4. CASE ReadPrior(r)
    BY <2>4, ReadPriorStep
  <2>5. CASE Write(r)
    BY <2>5, WriteStep
  <2>6. CASE DuplicateApproval(r)
    BY <2>6, RefuseStep DEF DuplicateApproval, committed
  <2> QED BY <1>1, <2>1, <2>2, <2>3, <2>4, <2>5, <2>6 DEF RequestStep
<1>2. CASE Expire
  BY <1>2, SurroundingStep DEF Expire, committed, IInv, TypeOK
<1>3. CASE MembershipStep
  BY <1>3, MembershipPreserves
<1>4. CASE UNCHANGED vars
  BY <1>4, SurroundingStep DEF vars, committed, IInv, TypeOK
<1>5. CASE DeploymentStep
  BY <1>5, DeploymentPreserves
<1> QED BY <1>1, <1>2, <1>3, <1>4, <1>5 DEF Next

\* A revert is waited for only where a rollback was recorded.
TakenBackInv == \A k \in watched : deployed[k] = "rolled_back"

\* No step takes the rollback of a watched key away.
LEMMA TakenBackStep == ASSUME IInv, TakenBackInv, [Next]_vars PROVE TakenBackInv'
<1> USE DEF TakenBackInv, IInv, TypeOK
<1>1. CASE DeploymentStep
  BY <1>1 DEF DeploymentStep, LoadToDeploy, WriteDeployed, DropDeploy, LoadToUndo, SettleRevert,
              WriteUndone, WriteReverting
<1>2. CASE UNCHANGED taken
  BY <1>2 DEF taken
<1> QED
  BY <1>1, <1>2 DEF Next, vars, RequestStep, Begin, ReadProposal, CheckSole, ReadPrior, Write,
                    DuplicateApproval, Expire, MembershipStep, AcceptInvitation, ChangeRole, Remove

\* The inductive invariant holds in every state of every behaviour.
THEOREM Invariance == Spec => []IInv
<1>1. Init => IInv
  BY InitEstablishes
<1>2. IInv /\ [Next]_vars => IInv'
  BY StepPreserves
<1> QED BY <1>1, <1>2, PTL DEF Spec

-----------------------------------------------------------------------------
\* Type correctness of the review's rows and requests.
THEOREM TypeCorrect == Spec => []TypeOK
BY Invariance, PTL DEF IInv

\* Two-person rule: however many requests count approvals at once, "approved"
\* always has the required approvals, or a self-review, recorded behind it.
THEOREM QuorumTheorem == Spec => []QuorumBehindApproval
BY Invariance, PTL DEF IInv

\* An author's approval is recorded only as a self-review the content allows.
THEOREM SeparationTheorem == Spec => []SeparationOfDuties
BY Invariance, PTL DEF IInv

\* One recorded decision per person.
THEOREM OneDecisionTheorem == Spec => []NobodyDecidesTwice
BY Invariance, PTL DEF IInv

\* A recorded rejection has released the content draft.
THEOREM DraftTheorem == Spec => []RejectionReleasesDraft
BY Invariance, PTL DEF IInv

\* High risk: at least two approvers are required, and where self-review is
\* ruled out at least two people other than the author approved.
THEOREM HighRiskTheorem == Spec => []HighRiskNeedsTwo
<1>1. IInv => HighRiskNeedsTwo
  <2> SUFFICES ASSUME IInv, proposal.risk \in {"high", "prohibited"},
                      status = "approved", Scope = ""
               PROVE  Cardinality(Approvers \ {Author}) >= 2
    BY DEF HighRiskNeedsTwo, IInv, FloorInv
  <2>1. \A a \in approvals : ~(a.self /\ a.decision = "approved")
    BY DEF IInv, SeparationOfDuties
  <2>2. Cardinality(Approvers) >= proposal.required /\ proposal.required >= 2
    BY <2>1 DEF IInv, QuorumBehindApproval, FloorInv
  <2>3. Author \notin Approvers
    BY <2>1 DEF IInv, SeparationOfDuties, Approvers
  <2>4. Approvers \ {Author} = Approvers
    BY <2>3
  <2>5. IsFiniteSet(Approvers)
    BY ApproversFinite DEF IInv
  <2>6. Cardinality(Approvers) \in Nat
    BY <2>5, FS_CardinalityType
  <2>7. proposal.required \in Nat
    BY RequiredIsNat DEF IInv
  <2>8. Cardinality(Approvers) >= 2
    BY <2>2, <2>6, <2>7, AtLeastTwo, Zenon
  <2> QED BY <2>4, <2>8
<1> QED BY <1>1, Invariance, PTL

\* A committed rejection is undone by nothing but an approval request or a deployment
\* that loaded the proposal before it, and a rollback.
THEOREM RevivalTheorem == Spec => OnlyTheseRevive
<1> DEFINE Excused ==
             \/ /\ status' \in {"approved", "review_required"}
                /\ \E r \in Request : /\ req[r].pc = "write" /\ req[r].decision = "approved"
                                     /\ req[r].loaded # "rejected"
             \/ status' = "deployed" /\ \E k \in DeployKey : deployed[k] = "loaded"
             \/ status' = "failed" /\ \E k \in DeployKey : deployed'[k] = "rolled_back"
<1>1. IInv /\ TakenBackInv /\ [Next]_vars => (status = "rejected" /\ status' # "rejected" => Excused)
  <2> SUFFICES ASSUME IInv, TakenBackInv, [Next]_vars, status = "rejected", status' # "rejected"
               PROVE  Excused
    OBVIOUS
  <2>1. CASE \E r \in Request : Write(r)
    <3>1. PICK r \in Request : Write(r)
      BY <2>1
    <3>2. req[r] \in RequestState
      BY DEF IInv, TypeOK
    <3> QED
      BY <3>1, <3>2 DEF Write, WriteStatus, Resulting, IInv, RequestInv, Decidable,
                        RequestState, Decision
  <2>2. ASSUME NEW k \in DeployKey, WriteDeployed(k) PROVE Excused
    BY <2>2 DEF WriteDeployed, WriteStatus
  <2>3. ASSUME NEW k \in DeployKey, SettleRevert(k) PROVE Excused
    BY <2>3 DEF SettleRevert, TakenBackInv, IInv, TypeOK
  <2>4. ASSUME NEW q \in undoing, WriteUndone(q) PROVE Excused
    BY <2>4 DEF WriteUndone, IInv, TypeOK
  <2> QED
    BY <2>1, <2>2, <2>3, <2>4
       DEF Next, vars, RequestStep, Begin, ReadProposal, CheckSole, ReadPrior, DuplicateApproval,
           Expire, MembershipStep, AcceptInvitation, ChangeRole, Remove, DeploymentStep,
           LoadToDeploy, DropDeploy, LoadToUndo, WriteReverting
<1>2. Spec => []TakenBackInv
  <2>1. Init => TakenBackInv
    BY DEF Init, TakenBackInv
  <2>2. IInv /\ TakenBackInv /\ [Next]_vars => TakenBackInv'
    BY TakenBackStep
  <2> QED BY <2>1, <2>2, Invariance, PTL DEF Spec
<1> QED BY <1>1, <1>2, Invariance, PTL DEF Spec, OnlyTheseRevive
=============================================================================
