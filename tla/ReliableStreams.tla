-------------------------- MODULE ReliableStreams ---------------------------
(***************************************************************************)
(* What the two applications at the ends of a hop are promised of their    *)
(* streams: an end receives no more of a stream than the other has written *)
(* to it, and is told that the stream is over once the other has let go    *)
(* of it and everything that it had written has been received.             *)
(***************************************************************************)
EXTENDS Naturals

CONSTANTS Ends, Ids

VARIABLES
    held,      \* the streams that the application of each end holds
    over,      \* those of them that it knows to be over
    sent, got  \* the messages written to, and received from, each stream

vars == <<held, over, sent, got>>

Init ==
    /\ held = [e \in Ends |-> {}]
    /\ over = [e \in Ends |-> {}]
    /\ sent = [e \in Ends |-> [i \in Ids |-> 0]]
    /\ got = [e \in Ends |-> [i \in Ids |-> 0]]

Take(e, id) ==
    /\ id \notin held[e] /\ sent[e][id] = 0 /\ got[e][id] = 0
    /\ held' = [held EXCEPT ![e] = @ \cup {id}]
    /\ UNCHANGED <<over, sent, got>>

Write(e, id) ==
    /\ id \in held[e] \ over[e]
    /\ sent' = [sent EXCEPT ![e][id] = @ + 1]
    /\ UNCHANGED <<held, over, got>>

Receive(e, id) ==
    /\ id \in held[e] \ over[e]
    /\ \A f \in Ends \ {e} : got[e][id] < sent[f][id]
    /\ got' = [got EXCEPT ![e][id] = @ + 1]
    /\ UNCHANGED <<held, over, sent>>

Finish(e, id) ==
    /\ id \in held[e] \ over[e]
    /\ \A f \in Ends \ {e} : id \notin held[f] /\ got[e][id] = sent[f][id]
    /\ over' = [over EXCEPT ![e] = @ \cup {id}]
    /\ UNCHANGED <<held, sent, got>>

Release(e, id) ==
    /\ id \in held[e]
    /\ held' = [held EXCEPT ![e] = @ \ {id}]
    /\ over' = [over EXCEPT ![e] = @ \ {id}]
    /\ UNCHANGED <<sent, got>>

Next ==
    \E e \in Ends, id \in Ids :
        Take(e, id) \/ Write(e, id) \/ Receive(e, id) \/ Finish(e, id) \/ Release(e, id)

Spec == Init /\ [][Next]_vars

=============================================================================
