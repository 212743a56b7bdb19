----------------------------- MODULE MCMemQuota -----------------------------
(* A small instance of MemQuota: an account and its child, a queue in each. *)
EXTENDS MemQuota, TLC

CONSTANTS a1, a2, q1, q2

MCParent == a1 :> None @@ a2 :> a1
MCHome   == q1 :> a1 @@ q2 :> a2

\* Against a cache of 4: a cost that is claimed from the cache and fills it, and
\* one that neither fits the cache nor fills it.
MCCost == q1 :> 3 @@ q2 :> 5

\* A quota that the queues do not reach, and one they exceed by their caches
\* alone; reconfigure replaces the first by the second at any moment.
Loose == [max |-> 40, low_water |-> 30]
Tight == [max |-> 7, low_water |-> 6]
MCConfigs == {Tight}
=============================================================================
