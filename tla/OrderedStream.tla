--------------------------- MODULE OrderedStream ----------------------------
(***************************************************************************)
(* What a tunnel promises the streams on it, however many circuits it      *)
(* sends their messages over: they are handled in the order in which they  *)
(* were sent, each once and none before those sent earlier.                *)
(***************************************************************************)
EXTENDS Naturals, Sequences

CONSTANT Msgs

VARIABLES sent, delivered

vars == <<sent, delivered>>

Init == sent = <<>> /\ delivered = <<>>

Send ==
    /\ \E m \in Msgs : sent' = Append(sent, m)
    /\ UNCHANGED delivered

Deliver ==
    /\ Len(delivered) < Len(sent)
    /\ delivered' = Append(delivered, sent[Len(delivered) + 1])
    /\ UNCHANGED sent

Next == Send \/ Deliver

Spec == Init /\ [][Next]_vars

=============================================================================
