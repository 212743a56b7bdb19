----------------------------- MODULE MCChanMgr -----------------------------
(* Small instances of ChanMgr.                                             *)
EXTENDS ChanMgrProofs, TLC

CONSTANTS t1, t2, t3, e1, r1, e2

\* Two relays; e1 and r1 belong to the first.
MCRelays == {{e1, r1}, {e2}}

\* A relay known by one identity, by both, and an impossible mixture.
MCTargets == {{e1}, {e1, r1}, {e1, e2}}

Symmetry == Permutations({t1, t2, t3})
=============================================================================
