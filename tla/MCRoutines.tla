------------------------------ MODULE MCRoutines ------------------------------
(* A small instance of Routines.                                           *)
EXTENDS Routines
=============================================================================
