---------------------------- MODULE MCDeployment ----------------------------
(* A small instance of Deployment: one proposal, which may be deployed     *)
(* with either of two keys, one request of each kind at a time.            *)
EXTENDS Deployment
CONSTANTS p1, k1, k2, d1, u1

OneProposal == {p1}
TwoKeys == {k1, k2}
OneDeployer == {d1}
OneUndoer == {u1}
TwoRows == 1..2

\* One review at a time, too: it starts when none is in flight, and ends with its
\* decision.
OneReview ==
    \A p \in Proposal :
        /\ review'[p] # review[p] => {} \in {review[p], review'[p]}
        /\ proposalStatus'[p] # proposalStatus[p] /\ UNCHANGED <<dep, und, rollbacks>> => review'[p] = {}

SerialNext == DeployNext /\ OneReview

SerialSpec == DeployInit /\ [][SerialNext]_deployVars /\ ReconcileFairness
=============================================================================
