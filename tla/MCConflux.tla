----------------------------- MODULE MCConflux ------------------------------
(***************************************************************************)
(* Conflux for TLC: two legs and three messages, so that the client can    *)
(* switch to the second leg and back.                                      *)
(***************************************************************************)
EXTENDS Conflux

=============================================================================
