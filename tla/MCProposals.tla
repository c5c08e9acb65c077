----------------------------- MODULE MCProposals -----------------------------
(* What can happen to proposals when two requests are served at once.  Each *)
(* behaviour shows one part from its start and leaves the others at rest:  *)
(* the review of a proposal while members come, change and go; its review  *)
(* while it is also deployed and taken back, by members who only come;     *)
(* deployments and rollbacks, with reviews as what else writes the status; *)
(* batches of two.  MCDeployment has the requests that follow one another. *)
EXTENDS ProposalReview, Deployment, BatchDeployment, TLC
CONSTANTS ann, bob, cid, r1, r2, u1, u2, p1, p2

TwoSlots == {r1, r2}
TwoUndoers == {u1, u2}

\* The author (an owner), a second approver, and somebody who is not yet a member.
People == {ann, bob, cid}
RoleOf == [p \in People |-> CASE p = ann -> "owner" [] p = bob -> "seo_manager" [] OTHER -> "none"]
Granted == {"admin"}

Input(risk, shape, valid, override, fromDraft) ==
    [risk |-> risk, shape |-> shape, valid |-> valid, override |-> override,
     fromDraft |-> fromDraft]

\* One proposal of each kind the review treats differently.
Inputs == {Input("low", "plain", TRUE, NoOverride, FALSE),
           Input("medium", "plain", TRUE, NoOverride, FALSE),
           Input("medium", "plain", FALSE, 3, FALSE),
           Input("high", "plain", TRUE, 1, FALSE),
           Input("high", "new_post", TRUE, 1, TRUE),
           Input("prohibited", "plain", FALSE, NoOverride, TRUE)}

\* One proposal, one key, rows for two rollbacks; one key of a batch, which the two
\* requests may use for different lists.
OneProposal == {p1}
TwoProposals == {p1, p2}
NoProposal == {}
TwoRows == 1..2

VARIABLE part

\* Init of ProposalReview enumerates the inputs; a part that rests has one initial state.
PartsInit ==
    /\ part \in {"review", "status", "deploys", "batches"}
    /\ Init /\ DeployInit /\ BatchInit
    /\ part \notin {"review", "status"} => proposal.risk = "low"
    /\ part # "deploys" => gate /\ proposalStatus[p1] = "validated"

\* Any number of reviews: one that loaded the proposal may always be still in flight.
ManyReviews == \A p \in Proposal : review[p] \subseteq review'[p]

\* Bound: of the two changes of a batch one may be rejected, and approved at any time, and
\* its file edited by hand; the other is approved again only once it failed.
OneDisturbed ==
    /\ changeStatus'[p2] # "rejected"
    /\ changeStatus'[p2] = "approved" => changeStatus[p2] \in {"approved", "failed"}
    /\ main'[p2] = main[p2] \/ pull' # pull

PartsNext ==
    /\ UNCHANGED part
    /\ \/ part = "review" /\ UNCHANGED taken /\ Next
       \/ part = "status" /\ (Next /\ (member' = member \/ \E p \in Person : AcceptInvitation(p)))
       \/ part = "deploys" /\ DeployNext /\ ManyReviews
       \/ part = "batches" /\ BatchNext /\ OneDisturbed
    /\ part \notin {"review", "status"} => UNCHANGED vars
    /\ part # "deploys" => UNCHANGED deployVars
    /\ part # "batches" => UNCHANGED batchVars

PartsSpec == PartsInit /\ [][PartsNext]_<<part, vars, deployVars, batchVars>>
-----------------------------------------------------------------------------
\* The type invariants of the parts.
TypesHold == TypeOK /\ DeployTypeOK /\ BatchTypeOK

\* Slots of a kind are interchangeable: no definition chooses among them.
Alike == Permutations(TwoSlots) \cup Permutations(TwoUndoers)
=============================================================================
