--------------------------- MODULE MCCircStreams ----------------------------
(***************************************************************************)
(* CircStreams for TLC.                                                    *)
(***************************************************************************)
EXTENDS CircStreams

\* The first id is chosen at random.  Where no id is used twice, a different choice
\* only renumbers the streams.
InitFromOne == Init /\ next_id = 1
SpecFromOne == InitFromOne /\ [][Next]_vars

\* What the service's streams send may be two cells ahead of the client, for instance
\* the last data of a stream and its END, and what the client's send one cell ahead of
\* the service, besides requests.
MCLinkRoom == [e \in Ends |-> IF e = "client" THEN 2 ELSE 1]

=============================================================================
