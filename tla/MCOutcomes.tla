------------------------------ MODULE MCOutcomes ------------------------------
(* Two changes and a batch of one: each deployed, or one of them twice.    *)
EXTENDS Outcomes
=============================================================================
