---------------------------- MODULE MCTunnelMgr ----------------------------
(* Small instances of TunnelMgr.                                           *)
EXTENDS TunnelMgrProofs, TLC

CONSTANTS r1, r2, l1

Exit(i, n) == [kind |-> "Exit", iso |-> i, needs |-> n]

\* Usages that a tunnel for either can serve, but not both; one needs a port.
Isolated == {Exit({"a"}, {"port"}), Exit({"b"}, {})}

\* Requests that may share a tunnel.
Alike == {Exit({"a"}, {})}

\* Requests that launch one tunnel at a time, or several.
Launching == {Exit({"a"}, {}), [kind |-> "Dir", iso |-> {"a", "b"}, needs |-> {}]}

Symmetry == Permutations({r1, r2})
=============================================================================
