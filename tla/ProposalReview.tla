--------------------------- MODULE ProposalReview ---------------------------
(***************************************************************************)
(* Review of one proposal: how it is created, who may decide on it, and    *)
(* what concurrent decisions do to its status.                             *)
(*                                                                         *)
(* Source: services/api/app/services/proposals.py (_create, is_sole_approver, *)
(* approve_proposal, reopen_draft), domain/proposals.py (approver counts,  *)
(* self-review scope), services/membership.py and services/identity.py     *)
(* (who is a member), and every other writer of the proposal's row: the    *)
(* deployments of services/proposals.py, services/governance.py and        *)
(* services/rollback_reconciliation.py, of which Deployment has the rest.  *)
(*                                                                         *)
(* Every request is one READ COMMITTED transaction (db/session.py), so     *)
(* each SELECT is a step of its own that sees what others committed        *)
(* before it, and the staged writes appear together when the request       *)
(* flushes and commits.  A refused request rolls back and leaves nothing.  *)
(* proposal.version is never bumped by the code, so the approvals of "this *)
(* version" are all the approvals of the proposal.                         *)
(***************************************************************************)
EXTENDS Integers, FiniteSets

CONSTANTS
    Person,          \* everybody who may ever belong to the tenant
    Author,          \* the person whose request created the proposal
    Request,         \* slots of approval requests being served at once
    InitialRole,     \* [Person -> Role \cup {"none"}]: members at creation
    GrantedRole,     \* roles that invitations and role changes hand out
    Submitted,       \* the policy inputs of proposals that may be created
    DeployKey        \* idempotency keys the proposal may be deployed under

Role == {"owner", "admin", "seo_manager", "editor", "developer"}
ALLOWED_PROPOSAL_ROLES == {"owner", "admin", "seo_manager", "editor", "developer"}
ALLOWED_APPROVAL_ROLES == {"owner", "admin", "seo_manager"}
SELF_REVIEW_ROLES == {"owner", "admin"}
GRANTING_ROLES == {"owner", "admin"}

ASSUME ReviewAssumption ==
    /\ Author \in Person
    /\ InitialRole \in [Person -> Role \cup {"none"}]
    /\ InitialRole[Author] \in ALLOWED_PROPOSAL_ROLES
    /\ GrantedRole \subseteq Role
    /\ IsFiniteSet(Person)

-----------------------------------------------------------------------------
(* Policy: pure functions of the proposal's content.                       *)

Risk == {"low", "medium", "high", "prohibited"}

\* What self_review_scope tells apart in the content of a change.
Shape == {"plain", "adds_json_ld", "adds_sitemap_urls", "new_post"}

\* site.required_approver_count: null, or 1 to 5 (migration 0030).
NoOverride == 0
Override == 0..5

TIER_APPROVER_FLOOR == [risk \in Risk |-> IF risk = "low" THEN 1 ELSE 2]
LOWERABLE_TIERS == {"low", "medium"}

ResolveRequiredApproverCount(risk, override) ==
    LET floor == TIER_APPROVER_FLOOR[risk]
    IN  IF override = NoOverride \/ (override < floor /\ risk \notin LOWERABLE_TIERS)
        THEN floor
        ELSE override

\* "" stands for None.
SelfReviewScope(risk, shape) ==
    CASE risk \in {"low", "medium"} -> "change"
      [] risk = "high" /\ shape \in {"adds_json_ld", "adds_sitemap_urls"} -> "change"
      [] risk = "high" /\ shape = "new_post" -> "new_post"
      [] OTHER -> ""

\* A prohibited claim is a failed validation, hence valid = FALSE there.  What
\* comes from a content draft adds a page or changes claims: never below high.
PolicyInput ==
    {p \in [risk : Risk, shape : Shape, valid : BOOLEAN, override : Override,
            fromDraft : BOOLEAN] :
        /\ p.risk = "prohibited" => ~p.valid
        /\ p.shape # "plain" \/ p.fromDraft => p.risk \in {"high", "prohibited"}
        /\ p.shape = "new_post" => p.fromDraft}

ASSUME SubmittedAssumption == Submitted \subseteq PolicyInput

\* Mutant: the data model's name for a proposal that waits for review.
InitialStatusRenamed(p) ==
    IF p.risk = "prohibited" THEN "rejected"
    ELSE IF ~p.valid THEN "draft"
    ELSE "ready_for_review"

InitialStatus(p) ==
    IF p.risk = "prohibited" THEN "rejected"
    ELSE IF ~p.valid THEN "draft"
    ELSE IF ResolveRequiredApproverCount(p.risk, p.override) > 1 THEN "review_required"
    ELSE "validated"

-----------------------------------------------------------------------------
VARIABLES
    proposal,    \* the immutable part: risk, shape, validity, approver count
    status,      \* proposal.status
    expired,     \* proposal.expires_at < now
    approvals,   \* rows of proposal_approval
    draft,       \* status of the content draft the proposal came from
    member,      \* [Person -> row of tenant_membership]
    req,         \* [Request -> the approval request the slot serves]
    deployed,    \* [DeployKey -> deployment under that key]
    undoing,     \* rollback requests that began: the key, and whether they loaded "failed"
    watched      \* keys with a pending rollback, whose revert is waited for

taken == <<deployed, undoing, watched>>
vars == <<proposal, status, expired, approvals, draft, member, req, taken>>

Status == {"draft", "validated", "review_required", "approved", "rejected",
           "expired", "deployed", "failed"}

Decision == {"approved", "rejected"}

\* command.self_review and command.self_review_post.
Confirmation == {"none", "change", "new_post"}

ApprovalRow == [approver : Person, decision : Decision, self : BOOLEAN]

MemberRow == [role : Role \cup {"none"}, state : {"none", "active", "suspended"}]

RequestState ==
    [pc : {"idle", "read", "sole", "prior", "write"},
     by : Person, role : Role, decision : Decision, confirm : Confirmation,
     loaded : Status, self : BOOLEAN, prior : SUBSET Person]

\* A deployment in flight loaded the proposal as "approved"; one that is rolled
\* back has a rollback row, whatever became of it.
DeployedState == {"none", "loaded", "applied", "rolled_back"}

IdleRequest ==
    [pc |-> "idle", by |-> Author, role |-> "owner", decision |-> "approved",
     confirm |-> "none", loaded |-> "draft", self |-> FALSE, prior |-> {}]

Create(p) ==
    /\ proposal = [risk |-> p.risk, shape |-> p.shape, valid |-> p.valid,
                   required |-> ResolveRequiredApproverCount(p.risk, p.override)]
    /\ status = InitialStatus(p)
    /\ draft = IF p.fromDraft THEN "submitted" ELSE "none"

Init ==
    /\ \E p \in Submitted : Create(p)
    /\ expired = FALSE
    /\ approvals = {}
    /\ member = [p \in Person |->
                    [role |-> InitialRole[p],
                     state |-> IF InitialRole[p] = "none" THEN "none" ELSE "active"]]
    /\ req = [r \in Request |-> IdleRequest]
    /\ deployed = [k \in DeployKey |-> "none"]
    /\ undoing = {} /\ watched = {}

-----------------------------------------------------------------------------
(* Helpers read by more than one action.                                   *)

ActiveWith(roles) ==
    {p \in Person : member[p].state = "active" /\ member[p].role \in roles}

Approvers == {a.approver : a \in {b \in approvals : b.decision = "approved"}}

Scope == SelfReviewScope(proposal.risk, proposal.shape)

Refuse(r) == req' = [req EXCEPT ![r] = IdleRequest]

\* reopen_draft: a withdrawn post sends its draft back for review.
ReopenDraft == draft' = IF draft = "submitted" THEN "ready" ELSE draft

-----------------------------------------------------------------------------
(* One approval request, cut at its SELECTs.                               *)

\* The token is resolved to a membership before the request's transaction
\* opens: the role it carries from here on is that of this moment.
Begin(r) ==
    /\ req[r].pc = "idle"
    /\ \E p \in ActiveWith(Role), d \in Decision, c \in Confirmation :
          /\ (p # Author \/ d = "rejected") => c = "none"
          /\ req' = [req EXCEPT ![r] = [IdleRequest EXCEPT !.pc = "read", !.by = p,
                                          !.role = member[p].role,
                                          !.decision = d, !.confirm = c]]
    /\ UNCHANGED <<proposal, status, expired, approvals, draft, member, taken>>

\* Mutant: a rejected proposal can be decided on again.
DecidableOnceRejected(s) == s \notin {"approved", "deployed"}

Decidable(s) == s \notin {"approved", "rejected", "deployed"}

\* After the guards: what the request does next.
AfterGuards(r) ==
    IF req[r].role \notin ALLOWED_APPROVAL_ROLES THEN "idle"
    ELSE IF req[r].decision = "approved" THEN "prior"
    ELSE "write"

\* SELECT proposal, then every guard that needs no further read.
ReadProposal(r) ==
    /\ req[r].pc = "read"
    /\ LET own == req[r].by = Author /\ req[r].decision # "rejected"
           next == IF own THEN "sole" ELSE AfterGuards(r)
       IN  IF expired \/ ~Decidable(status) \/ proposal.risk = "prohibited" \/ next = "idle"
           THEN Refuse(r)
           ELSE req' = [req EXCEPT ![r].pc = next, ![r].loaded = status]
    /\ UNCHANGED <<proposal, status, expired, approvals, draft, member, taken>>

IsSoleApprover(r) ==
    /\ req[r].role \in SELF_REVIEW_ROLES
    /\ ActiveWith(ALLOWED_APPROVAL_ROLES) = {req[r].by}

\* Mutant: the content's self-review scope is not asked for.
CheckSoleOfAnything(r) ==
    /\ req[r].pc = "sole"
    /\ IF IsSoleApprover(r) /\ req[r].confirm # "none" /\ AfterGuards(r) = "prior"
       THEN req' = [req EXCEPT ![r].pc = "prior", ![r].self = TRUE]
       ELSE Refuse(r)
    /\ UNCHANGED <<proposal, status, expired, approvals, draft, member, taken>>

\* The author approves alone: is_sole_approver, the scope, the confirmations.
CheckSole(r) ==
    /\ req[r].pc = "sole"
    /\ IF /\ IsSoleApprover(r)
          /\ Scope # ""
          /\ req[r].confirm # "none"
          /\ Scope = "new_post" => req[r].confirm = "new_post"
          /\ AfterGuards(r) = "prior"
       THEN req' = [req EXCEPT ![r].pc = "prior", ![r].self = TRUE]
       ELSE Refuse(r)
    /\ UNCHANGED <<proposal, status, expired, approvals, draft, member, taken>>

\* SELECT the prior approvers, before this approval is staged.
ReadPrior(r) ==
    /\ req[r].pc = "prior"
    /\ req' = [req EXCEPT ![r].pc = "write", ![r].prior = Approvers]
    /\ UNCHANGED <<proposal, status, expired, approvals, draft, member, taken>>

\* Mutant: the prior approvers are read after this one was staged, and one
\* more is added for "this approval".
ResultingCountsTwice(q) ==
    IF q.decision = "rejected" THEN "rejected"
    ELSE IF q.self \/ Cardinality(q.prior \cup {q.by}) + 1 >= proposal.required THEN "approved"
    ELSE "review_required"

\* The status this request assigns to the proposal it loaded.
Resulting(q) ==
    IF q.decision = "rejected" THEN "rejected"
    ELSE IF q.self \/ Cardinality(q.prior \cup {q.by}) >= proposal.required THEN "approved"
    ELSE "review_required"

\* SQLAlchemy writes a column only when it differs from the loaded value.
WriteStatus(loaded, new) == status' = IF new # loaded THEN new ELSE status

\* Flush and commit: the approval row (unique per approver), the status, and
\* the draft.  A second row of the same approver is an IntegrityError, and the
\* whole request rolls back.
Write(r) ==
    LET q == req[r] IN
    /\ q.pc = "write"
    /\ \A a \in approvals : a.approver # q.by
    /\ approvals' = approvals \cup
                      {[approver |-> q.by, decision |-> q.decision, self |-> q.self]}
    /\ WriteStatus(q.loaded, Resulting(q))
    /\ IF q.decision = "rejected" THEN ReopenDraft ELSE UNCHANGED draft
    /\ Refuse(r)
    /\ UNCHANGED <<proposal, expired, member, taken>>

DuplicateApproval(r) ==
    /\ req[r].pc = "write"
    /\ \E a \in approvals : a.approver = req[r].by
    /\ Refuse(r)
    /\ UNCHANGED <<proposal, status, expired, approvals, draft, member, taken>>

-----------------------------------------------------------------------------
(* Deployments and rollbacks, as far as they write this proposal's row.    *)
(* Neither takes a lock on it, and each writes from what it loaded.        *)

OthersRest == UNCHANGED <<proposal, expired, approvals, member, req>>

\* deploy_proposal, publish_proposal and deploy_batch SELECT the proposal once
\* and go on only if it is approved and not expired.
LoadToDeploy(k) ==
    /\ deployed[k] = "none" /\ status = "approved" /\ ~expired
    /\ deployed' = [deployed EXCEPT ![k] = "loaded"]
    /\ OthersRest /\ UNCHANGED <<status, draft, undoing, watched>>

\* The deployment commits: the receipt, and "deployed" over whatever status the
\* row has by now.
WriteDeployed(k) ==
    /\ deployed[k] = "loaded"
    /\ deployed' = [deployed EXCEPT ![k] = "applied"]
    /\ WriteStatus("approved", "deployed")
    /\ OthersRest /\ UNCHANGED <<draft, undoing, watched>>

\* A gate, the budget, the adapter or a crash ends it, and its rows roll back.
DropDeploy(k) ==
    /\ deployed[k] = "loaded"
    /\ deployed' = [deployed EXCEPT ![k] = "none"]
    /\ OthersRest /\ UNCHANGED <<status, draft, undoing, watched>>

\* rollback_deployment asks for a receipt with no rollback, and not what the
\* proposal's status is.  Any number of requests may begin at once, so what one
\* loaded may still be written by another once the first has ended.
LoadToUndo(k) ==
    /\ deployed[k] = "applied"
    /\ undoing' = undoing \cup {<<k, status = "failed">>}
    /\ OthersRest /\ UNCHANGED <<status, draft, deployed, watched>>

\* The pull request was closed: the change never went out.
WriteUndone(q) ==
    /\ deployed' = [deployed EXCEPT ![q[1]] = "rolled_back"]
    /\ status' = IF q[2] THEN status ELSE "failed"
    /\ ReopenDraft
    /\ OthersRest /\ UNCHANGED <<undoing, watched>>

\* A revert was opened: the proposal stays as it is until somebody merges it.
WriteReverting(q) ==
    /\ deployed' = [deployed EXCEPT ![q[1]] = "rolled_back"]
    /\ watched' = watched \cup {q[1]}
    /\ OthersRest /\ UNCHANGED <<status, draft, undoing>>

\* The sweep finds the revert merged, and writes "failed" whatever the status
\* is, or closed, and leaves it.
SettleRevert(k) ==
    /\ k \in watched
    /\ status' \in {status, "failed"}
    /\ watched' \in {watched, watched \ {k}}
    /\ OthersRest /\ UNCHANGED <<draft, deployed, undoing>>

DeploymentStep ==
    \/ \E k \in DeployKey : \/ LoadToDeploy(k) \/ WriteDeployed(k) \/ DropDeploy(k)
                            \/ LoadToUndo(k) \/ SettleRevert(k)
    \/ \E q \in undoing : WriteUndone(q) \/ WriteReverting(q)

-----------------------------------------------------------------------------
(* What happens around the requests.                                       *)

\* expires_at passes.  "expired" is never stored by approve_proposal: the
\* HTTPException it raises rolls its own assignment back.
Expire ==
    /\ ~expired
    /\ expired' = TRUE
    /\ UNCHANGED <<proposal, status, approvals, draft, member, req, taken>>

\* An invitation is accepted by somebody with no membership row.  A suspended
\* row stays suspended: the invitation is spent on it.
AcceptInvitation(p) ==
    /\ member[p].state = "none"
    /\ \E ro \in GrantedRole : member' = [member EXCEPT ![p] = [role |-> ro, state |-> "active"]]
    /\ UNCHANGED <<proposal, status, expired, approvals, draft, req, taken>>

MayActOn(q, p) ==
    /\ q \in ActiveWith(GRANTING_ROLES)
    /\ p # q
    /\ member[p].state = "active"
    /\ member[p].role = "owner" => member[q].role = "owner"

ChangeRole(q, p) ==
    /\ MayActOn(q, p)
    /\ \E ro \in GrantedRole :
          /\ ro = "owner" => member[q].role = "owner"
          /\ (member[p].role = "owner" /\ ro # "owner") => ActiveWith({"owner"}) \ {p} # {}
          /\ member' = [member EXCEPT ![p].role = ro]
    /\ UNCHANGED <<proposal, status, expired, approvals, draft, req, taken>>

Remove(q, p) ==
    /\ MayActOn(q, p)
    /\ member[p].role = "owner" => ActiveWith({"owner"}) \ {p} # {}
    /\ member' = [member EXCEPT ![p].state = "suspended"]
    /\ UNCHANGED <<proposal, status, expired, approvals, draft, req, taken>>

-----------------------------------------------------------------------------
RequestStep(r) ==
    \/ Begin(r) \/ ReadProposal(r) \/ CheckSole(r) \/ ReadPrior(r)
    \/ Write(r) \/ DuplicateApproval(r)

MembershipStep ==
    \E p \in Person : \/ AcceptInvitation(p)
                      \/ \E q \in Person : ChangeRole(q, p) \/ Remove(q, p)

Next ==
    \/ \E r \in Request : RequestStep(r)
    \/ DeploymentStep
    \/ Expire
    \/ MembershipStep

\* A request that has begun is served to its end; nobody has to act, expire
\* or be invited.
Served(r) == ReadProposal(r) \/ CheckSole(r) \/ ReadPrior(r) \/ Write(r) \/ DuplicateApproval(r)

Spec == Init /\ [][Next]_vars /\ \A r \in Request : WF_vars(Served(r))

-----------------------------------------------------------------------------
(* Properties.                                                             *)

\* Every variable stays in the shape the tables and the request hold.
TypeOK ==
    /\ proposal \in [risk : Risk, shape : Shape, valid : BOOLEAN, required : 1..5]
    /\ status \in Status
    /\ expired \in BOOLEAN
    /\ approvals \subseteq ApprovalRow
    /\ draft \in {"none", "ready", "submitted"}
    /\ member \in [Person -> MemberRow]
    /\ req \in [Request -> RequestState]
    /\ deployed \in [DeployKey -> DeployedState]
    /\ undoing \subseteq DeployKey \X BOOLEAN
    /\ watched \subseteq DeployKey

\* The two-person rule: a proposal is approved only on enough distinct
\* approvals, or on one self-review, however the requests that counted them
\* interleaved.  The count approve_proposal takes is of an earlier snapshot.
QuorumBehindApproval ==
    status = "approved" =>
        \/ Cardinality(Approvers) >= proposal.required
        \/ \E a \in approvals : a.self /\ a.decision = "approved"

\* No site setting talks a canonical, robots, redirect, new-page or claim change
\* below two approvers (resolve_required_approver_count), and none of them is
\* approved by fewer unless its content alone allowed a self-review.
HighRiskNeedsTwo ==
    proposal.risk \in {"high", "prohibited"} =>
        /\ proposal.required >= 2
        /\ status = "approved" /\ Scope = "" => Cardinality(Approvers \ {Author}) >= 2

\* Separation of duties: the author's own approval is always marked as a
\* self-review, exists only where the content allows self-review, and nobody
\* else's approval carries that mark.
SeparationOfDuties ==
    \A a \in approvals :
        /\ a.decision = "approved" /\ a.approver = Author => a.self
        /\ a.self => a.approver = Author /\ Scope # ""

\* One decision per person, even when a person's two clicks are served at the
\* same moment: the table's unique constraint, not the status guard, holds it.
NobodyDecidesTwice ==
    \A a, b \in approvals : a.approver = b.approver => a = b

\* Three things undo a rejection that was committed: an approval request that
\* loaded the proposal before it; a deployment that loaded it while it was
\* approved, which makes it "deployed"; and a rollback of a deployment of it,
\* which makes it "failed", a status that may be decided on again.  A rejected
\* proposal that nothing was deployed of, and that no request in flight loaded
\* before the rejection, stays rejected.
OnlyTheseRevive ==
    [][status = "rejected" /\ status' # "rejected" =>
          \/ /\ status' \in {"approved", "review_required"}
             /\ \E r \in Request : /\ req[r].pc = "write" /\ req[r].decision = "approved"
                                  /\ req[r].loaded # "rejected"
          \/ status' = "deployed" /\ \E k \in DeployKey : deployed[k] = "loaded"
          \/ status' = "failed" /\ \E k \in DeployKey : deployed'[k] = "rolled_back"]_vars

\* A rejected post's content draft goes back for review: it is never left
\* "submitted" with nothing to submit it to.
RejectionReleasesDraft ==
    (\E a \in approvals : a.decision = "rejected") => draft # "submitted"
=============================================================================
