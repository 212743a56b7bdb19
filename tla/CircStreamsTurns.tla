-------------------------- MODULE CircStreamsTurns --------------------------
(***************************************************************************)
(* The turns of the reactors, the steps of the applications and the        *)
(* control messages keep the invariant.  A turn is reduced to what it does *)
(* to one stream: a cell that is handled and a command that is run.        *)
(***************************************************************************)
EXTENDS CircStreamsInv

\* A leaf that names no prover is given to Zenon, for up to 30 seconds.
USE ZenonT(30)

-----------------------------------------------------------------------------
(* The turns of the reactors.                                              *)

\* The requests have room, and nothing arrives that was not written.
LEMMA ArrivalFacts ==
  ASSUME CountLaws, Types, StreamInv, QueueRoom, NEW e \in Ends, link[e] # <<>>
  PROVE  \E c \in Cmds, n \in Ids :
            /\ Head(link[e]) = Cell(c, n)
            /\ Expected(e, map[e], Cell(c, n)) \/ Late(e, map[e], Cell(c, n))
            /\ ~ Refused(e, map[e], Cell(c, n)) /\ (c = "BEGIN" => Len(incoming) < QueueLimit)
            /\ c = "DATA" => got[e][n] < MaxData
            /\ Tail(link[e]) \in Seq(CellSet)
<1>1. /\ Head(link[e]) \in CellSet
      /\ Expected(e, map[e], Head(link[e])) \/ Late(e, map[e], Head(link[e]))
  BY HeadExpected
<1>2. PICK c \in Cmds, n \in Ids : Head(link[e]) = Cell(c, n)
  BY <1>1 DEF CellSet, Cell
<1>3. link[e] \in Seq(CellSet) /\ Tail(link[e]) \in Seq(CellSet) /\ Cell(c, n).cmd = c
  BY SMTT(30) DEF Types, Cell
<1>4. c = "BEGIN" => Len(incoming) < QueueLimit
  <2>1. c = "BEGIN" => e = "service"
    BY <1>1, <1>2, <1>3 DEF Expected, Late
  <2>2. Len(incoming) \in Nat /\ QueueLimit \in Nat
    BY SMTT(30), NumbersAssumption DEF Types
  <2> QED
    BY SMTT(30), <1>2, <1>3, <2>1, <2>2 DEF QueueRoom
<1>5. ~ Refused(e, map[e], Cell(c, n))
  <2>2. Len(incoming) \in Nat /\ QueueLimit \in Nat
    BY SMTT(30), NumbersAssumption DEF Types
  <2> QED
    BY SMTT(30), <1>3, <1>4, <2>2 DEF Refused, IsRequest
<1>6. ASSUME c = "DATA" PROVE got[e][n] < MaxData
  <2> DEFINE f == Peer(e)
             x == Num(link[e], Cell("DATA", n))
             t == Num(msgs[f][n], "DATA")
             y == Num(Tail(link[e]), Cell("DATA", n))
  <2>1. f \in Ends /\ ((e = "client" /\ f = "service") \/ (e = "service" /\ f = "client"))
    BY DEF Peer, Ends
  <2>2. got[e][n] \in Nat /\ sent[f][n] \in 0 .. MaxData /\ MaxData \in Nat
        /\ msgs[f][n] \in Seq({"DATA", "CONNECTED"})
    BY SMTT(30), <2>1, NumbersAssumption DEF Types
  <2>3. x = y + 1
    BY <1>2, <1>3, <1>6, NumTail, KindFacts
  <2>4. y \in Nat /\ t \in Nat
    BY <1>3, <2>2, NumNat, KindFacts
  <2>5. got[e][n] + (x + t) <= sent[f][n]
    BY <2>1 DEF StreamInv, IdInv, DataInv, OnWay
  <2> HIDE DEF x, t, y, f
  <2> QED
    BY SMTT(30), <2>2, <2>3, <2>4, <2>5
<1> QED
  BY <1>1, <1>2, <1>3, <1>4, <1>5, <1>6

\* A turn of e, whether or not it ends with an error: it takes the cell with command c
\* about n and polls the command d for k; b and x are what it still makes of them.
Turns(e, f, n, c, b, k, d, x, m, queues, cells, rest) ==
    /\ e \in Ends /\ f \in Ends /\ f = Peer(e) /\ n \in Ids /\ k \in Ids
    /\ c \in Cmds \cup {"none"} /\ (b # "none" => Expected(e, map[e], Cell(c, n)))
    /\ rest \in Seq(CellSet)
    /\ IF c = "none" THEN rest = link[e]
       ELSE link[e] # <<>> /\ Head(link[e]) = Cell(c, n) /\ rest = Tail(link[e])
    /\ Ready(e, k, d) /\ b \in {c, "none"} /\ x \in {d, "none"}
    /\ Good(m) /\ m.err \in {"None", "CleanShutdown", "SendOnClosed", "NoSuchStream"}
    /\ (m.err = "NoSuchStream" => e \in early) /\ Made(e, m, n, b, k, x)
    /\ queues \in [Ids -> Seq({"DATA", "CONNECTED"})] /\ cells \in Seq(CellSet)
    /\ EndTurn(e, m, queues, cells, rest) /\ Delivered(e, f, n, b)
    /\ incoming' = IF b = "BEGIN" THEN Append(incoming, n) ELSE incoming
    /\ b = "BEGIN" => Len(incoming) < QueueLimit
    /\ obj' \in [Ends -> SUBSET Ids]
    /\ sent' \in [Ends -> [Ids -> 0 .. MaxData]] /\ got' \in [Ends -> [Ids -> 0 .. MaxData]]
    /\ UNCHANGED <<next_id, deciding, control, begun>>
    /\ m.err = "None" =>
          /\ b = c /\ x = d /\ (d = "DATA" => StillOpen(e, k, On(n, c, k)))
          /\ \A i \in Ids : queues[i] = IF On(k, d, i) \in {"DATA", "CONNECTED"}
                                        THEN Tail(msgs[e][i]) ELSE msgs[e][i]
          /\ cells = IF Answer(e, k, On(n, c, k), d) = "none" THEN <<>>
                     ELSE <<Cell(Answer(e, k, On(n, c, k), d), k)>>

\* What such a turn makes of each stream.
LEMMA TurnParts ==
  ASSUME CountLaws, Types, StreamInv, Running, NEW e, NEW f, NEW n, NEW c, NEW b, NEW k, NEW d, NEW x, NEW m,
         NEW queues, NEW cells, NEW rest, Turns(e, f, n, c, b, k, d, x, m, queues, cells, rest)
  PROVE  /\ Ended(e, f, m, queues, cells, rest)
         /\ \A i \in Ids : /\ Fits(e, i, On(n, b, i)) /\ Ready(e, i, On(k, x, i)) /\ Taken(e, i, On(n, c, i))
                           /\ Local(e, i, On(n, b, i), On(k, x, i)) /\ SameEnd(f, i)
<1> USE DEF Turns
<1>0. map[f].err = "None" /\ e # f
  BY DEF Running, Peer, Ends
<1>1. Ended(e, f, m, queues, cells, rest)
  BY <1>0, TurnFacts
<1>2. \A i \in Ids : Local(e, i, On(n, b, i), On(k, x, i)) /\ SameEnd(f, i)
  BY <1>0, <1>1, TurnMade DEF Delivered
<1>3. IF c = "none" THEN link'[e] = link[e]
      ELSE link[e] # <<>> /\ Head(link[e]) = Cell(c, n) /\ link'[e] = Tail(link[e])
  BY <1>1 DEF Ended
<1>4. \A i \in Ids : Taken(e, i, On(n, c, i))
  BY <1>3, TakenFacts DEF StreamInv, QueueInv
<1>5. \A i \in Ids : Fits(e, i, On(n, b, i))
  BY DEF Fits, On, Expected, Cell, Cmds
<1>6. \A i \in Ids : Ready(e, i, On(k, x, i))
  BY DEF Ready, On
<1> QED
  BY <1>1, <1>2, <1>4, <1>5, <1>6

\* A turn of a reactor keeps the invariant, whatever it hears and sends in it.
LEMMA TurnInd ==
  ASSUME CountLaws, IndInv, Running, NEW e, NEW f, NEW n, NEW c, NEW b, NEW k, NEW d, NEW x, NEW m, NEW queues,
         NEW cells, NEW rest, Turns(e, f, n, c, b, k, d, x, m, queues, cells, rest)
  PROVE  IndInv'
<1> DEFINE a == Answer(e, k, On(n, c, k), d)
<1> USE DEF Turns
<1>0. /\ Types /\ PeerIsUnderstood /\ EndMeansAll /\ StreamInv /\ map[f].err = "None"
      /\ e # f /\ (\A z \in Ends : z = e \/ z = f) /\ Peer(f) = e
  BY DEF IndInv, Running, Peer, Ends
<1>1. Ended(e, f, m, queues, cells, rest)
  BY <1>0, TurnParts
<1>2. \A i \in Ids : /\ Fits(e, i, On(n, b, i)) /\ Ready(e, i, On(k, x, i)) /\ Taken(e, i, On(n, c, i))
                      /\ Local(e, i, On(n, b, i), On(k, x, i)) /\ SameEnd(f, i)
  BY <1>0, TurnParts
<1>3. Types'
  <2>1. Len(incoming') <= QueueLimit /\ incoming' \in Seq(Ids)
    <3>1. incoming \in Seq(Ids) /\ Len(incoming) <= QueueLimit /\ QueueLimit \in Nat
      BY <1>0, NumbersAssumption DEF Types
    <3> QED
      BY SMTT(30), <3>1
  <2>2. /\ map' \in [Ends -> MapType] /\ \A z \in Ends : IsInjective(map'[z].open)
        /\ msgs' \in [Ends -> [Ids -> Seq({"DATA", "CONNECTED"})]]
        /\ link' \in [Ends -> Seq(CellSet)] /\ expired' \in [Ends -> SUBSET Ids]
    BY <1>1 DEF Ended
  <2>3. next_id' \in Ids /\ deciding' \subseteq Ids /\ control' \in Seq(Ids) /\ begun' \in 0 .. MaxBegins
        /\ early' \subseteq Ends
    BY <1>0, <1>1 DEF Types, Ended
  <2> QED
    BY <2>1, <2>2, <2>3 DEF Types
<1>4. PeerIsUnderstood'
  <2>1. /\ map'[e].err \in {"None", "CleanShutdown", "SendOnClosed", "NoSuchStream"}
        /\ map'[f].err = "None" /\ (map'[e].err = "NoSuchStream" => e \in early')
    BY <1>0, <1>1 DEF Ended
  <2> QED
    BY <1>0, <2>1 DEF PeerIsUnderstood
<1>5. IF c = "none" THEN link'[e] = link[e]
      ELSE link[e] # <<>> /\ Head(link[e]) = Cell(c, n) /\ link'[e] = Tail(link[e])
  BY <1>1 DEF Ended
<1>6. EndMeansAll'
  <2>1. ASSUME NEW i \in Ids
        PROVE  /\ i \in obj'[e] /\ map'[e].closed[i] = "EndReceived" /\ ~ IsOpen(map'[e], i)
                    => got'[e][i] = sent'[f][i]
               /\ i \in obj'[f] /\ map'[f].closed[i] = "EndReceived" /\ ~ IsOpen(map'[f], i)
                    => got'[f][i] = sent'[e][i]
    <3> DEFINE ci == On(n, b, i)
               di == On(k, x, i)
    <3>1. Fits(e, i, ci) /\ Ready(e, i, di) /\ Local(e, i, ci, di) /\ SameEnd(f, i)
      BY <1>2
    <3>2. /\ ci = "END" => Has(link[e], "END", i) /\ ~ Has(link[e], "DATA", i)
          /\ ci = "BEGIN" => Has(link[e], "BEGIN", i)
      BY <1>2 DEF Taken, On
    <3> HIDE DEF ci, di
    <3> QED
      BY <1>0, <3>1, <3>2, TurnTold
  <2>2. obj'[e] \subseteq Ids /\ obj'[f] \subseteq Ids
    OBVIOUS
  <2>3. ASSUME NEW z \in Ends, NEW i \in obj'[z],
               map'[z].closed[i] = "EndReceived", ~ IsOpen(map'[z], i)
        PROVE  got'[z][i] = sent'[Peer(z)][i]
    <3>1. CASE z = e
      BY <2>1, <2>2, <2>3, <3>1
    <3>2. CASE z = f
      BY <1>0, <2>1, <2>2, <2>3, <3>2
    <3> QED
      BY <1>0, <3>1, <3>2
  <2> QED
    BY <2>3 DEF EndMeansAll
<1>7. ASSUME Running' PROVE StreamInv'
  <2>1. m.err = "None"
    BY <1>1, <1>7 DEF Running, Ended
  <2> /\ b = c /\ x = d /\ (d = "DATA" => StillOpen(e, k, On(n, c, k)))
      /\ \A i \in Ids : queues[i] = IF On(k, d, i) \in {"DATA", "CONNECTED"}
                                    THEN Tail(msgs[e][i]) ELSE msgs[e][i]
      /\ cells = IF a = "none" THEN <<>> ELSE <<Cell(a, k)>>
    BY <2>1
  <2>3. ASSUME NEW i \in Ids PROVE Popped(e, i, On(k, d, i))
    BY <1>1 DEF Popped, Ended
  <2>4. IF a = "none" THEN link'[f] = link[f] ELSE link'[f] = Append(link[f], Cell(a, k))
    <3>1. link[f] \in Seq(CellSet) /\ link'[f] = link[f] \o cells
      BY <1>0, <1>1 DEF Ended, Types
    <3> QED
      BY SMTT(30), <3>1
  <2>5. \A i \in Ids : Local(e, i, On(n, c, i), On(k, d, i)) /\ Popped(e, i, On(k, d, i)) /\ SameEnd(f, i)
    BY <1>2, <2>3
  <2>6. incoming' = IF c = "BEGIN" THEN Append(incoming, n) ELSE incoming
    OBVIOUS
  <2> QED
    BY <1>0, <1>3, <1>5, <2>4, <2>5, <2>6, TurnStream
<1> QED
  BY <1>3, <1>4, <1>6, <1>7 DEF IndInv

\* A turn of e, as one of the three actions.
Turned(e) ==
    \E n, c, b, k, d, x, m, queues, cells, rest :
        Turns(e, Peer(e), n, c, b, k, d, x, m, queues, cells, rest)

\* Such a turn keeps the invariant.
LEMMA TurnedInd ==
  ASSUME CountLaws, IndInv, Running, NEW e, Turned(e)
  PROVE  IndInv'
<1>1. PICK n, c, b, k, d, x, m, queues, cells, rest :
         Turns(e, Peer(e), n, c, b, k, d, x, m, queues, cells, rest)
  BY DEF Turned
<1> QED
  BY <1>1, TurnInd

\* The map as it is, before anything is done with it.
LEMMA SameMap ==
  ASSUME Types, NEW e \in Ends
  PROVE  Alike(e, map[e]) /\ \A n, k : Made(e, map[e], n, "none", k, "none")
<1>1. Alike(e, map[e])
  BY DEF Types, Alike, Good
<1>2. \A n, k : Made(e, map[e], n, "none", k, "none")
  BY DEF Made, StillOpen, ClosedBy, On
<1> QED
  BY <1>1, <1>2

\* What e makes of the cell with command c about n: b is what is left of it when m, the
\* map that it leads to, holds an error.
Taught(e, f, c, n, b, m) ==
    /\ Good(m) /\ m.err \in {"None", "CleanShutdown", "NoSuchStream"}
    /\ (m.err = "NoSuchStream" => e \in early) /\ (b # "none" => Expected(e, map[e], Cell(c, n)))
    /\ Made(e, m, n, b, n, "none") /\ Delivered(e, f, n, b)
    /\ incoming' = IF b = "BEGIN" THEN Append(incoming, n) ELSE incoming
    /\ obj' \in [Ends -> SUBSET Ids]
    /\ sent' \in [Ends -> [Ids -> 0 .. MaxData]] /\ got' \in [Ends -> [Ids -> 0 .. MaxData]]

\* The cell is expected, or it is late and nothing is left of it.
LEMMA ArrivalTaught ==
  ASSUME Types, NEW e \in Ends, NEW f \in Ends, f = Peer(e), map[e].err = "None", NEW M, Alike(e, M),
         NEW c \in Cmds, NEW n \in Ids, ~ Refused(e, map[e], Cell(c, n)),
         Expected(e, map[e], Cell(c, n)) \/ Late(e, map[e], Cell(c, n)),
         NEW m, m = handle_cell(e, M, Cell(c, n)), Deliver(e, m, Cell(c, n)),
         NEW b, b = IF m.err = "None" THEN c ELSE "none", c = "DATA" => got[e][n] < MaxData
  PROVE  Taught(e, f, c, n, b, m)
<1>1. CASE Expected(e, map[e], Cell(c, n))
  <2>1. /\ Good(m) /\ m.err \in {"None", "CleanShutdown"} /\ (m.err = "CleanShutdown" => c = "BEGIN")
        /\ Made(e, m, n, b, n, "none")
    BY SMTT(30), <1>1, Heard
  <2>2. b = IF c = "BEGIN" /\ m.err # "None" THEN "none" ELSE c
    BY <2>1
  <2>3. /\ Delivered(e, f, n, b)
        /\ incoming' = IF b = "BEGIN" THEN Append(incoming, n) ELSE incoming
        /\ obj' \in [Ends -> SUBSET Ids]
        /\ sent' \in [Ends -> [Ids -> 0 .. MaxData]] /\ got' \in [Ends -> [Ids -> 0 .. MaxData]]
    BY SMTT(30), <1>1, <2>2, DeliverFacts
  <2> QED
    BY <1>1, <2>1, <2>3 DEF Taught
<1>2. CASE Late(e, map[e], Cell(c, n))
  <2>1. Good(m) /\ m.err = "NoSuchStream" /\ Made(e, m, n, "none", n, "none")
    BY <1>2, LateHeard
  <2>2. Delivered(e, f, n, "none") /\ UNCHANGED <<incoming, obj, sent, got>>
    BY <1>2, LateDelivered
  <2>3. b = "none" /\ e \in early
    BY <1>2, <2>1 DEF Late
  <2> QED
    BY <2>1, <2>2, <2>3 DEF Taught, Types
<1> QED
  BY <1>1, <1>2

\* A turn in which a reactor handles a cell.
LEMMA ListenTurned ==
  ASSUME CountLaws, IndInv, QueueRoom, NEW e \in Ends, Listen(e)
  PROVE  Running /\ Turned(e)
<1> DEFINE f == Peer(e)
<1>0. /\ Running /\ Types /\ StreamInv /\ f \in Ends /\ f = Peer(e) /\ map[e].err = "None" /\ link[e] # <<>>
      /\ UNCHANGED <<next_id, deciding, control, begun>> /\ msgs[e] \in [Ids -> Seq({"DATA", "CONNECTED"})]
  BY DEF Listen, MayPoll, IndInv, Running, Peer, Ends, Types
<1> HIDE DEF f
<1>1. PICK c \in Cmds, n \in Ids :
         /\ Head(link[e]) = Cell(c, n)
         /\ Expected(e, map[e], Cell(c, n)) \/ Late(e, map[e], Cell(c, n))
         /\ ~ Refused(e, map[e], Cell(c, n)) /\ (c = "BEGIN" => Len(incoming) < QueueLimit)
         /\ c = "DATA" => got[e][n] < MaxData
         /\ Tail(link[e]) \in Seq(CellSet)
  BY <1>0, ArrivalFacts
<1> DEFINE m == handle_cell(e, map[e], Cell(c, n))
           rest == Tail(link[e])
           queues == msgs[e]
           cells == Replies(e, m, Cell(c, n))
           b == IF m.err = "None" THEN c ELSE "none"
           a == Answer(e, n, On(n, c, n), "none")
<1>2. EndTurn(e, m, queues, cells, rest) /\ Deliver(e, m, Cell(c, n))
  BY <1>1 DEF Listen
<1>3. cells = <<>>
  BY <1>1 DEF Replies
<1>4. a = "none"
  BY DEF Answer
<1> HIDE DEF m
<1>5. m = handle_cell(e, map[e], Cell(c, n))
  BY DEF m
<1>6. Alike(e, map[e])
  BY <1>0, SameMap
<1>7. b = IF m.err = "None" THEN c ELSE "none"
  OBVIOUS
<1> HIDE DEF b, a, cells, rest, queues
<1>8. Taught(e, f, c, n, b, m)
  BY <1>0, <1>1, <1>2, <1>5, <1>6, <1>7, ArrivalTaught
<1>11. Ready(e, n, "none")
  BY DEF Ready
<1>12. cells \in Seq(CellSet) /\ rest \in Seq(CellSet) /\ rest = Tail(link[e]) /\ c # "none"
  BY SMTT(30), <1>1, <1>3 DEF rest, Cmds
<1>13. m.err = "None" =>
             /\ b = c
             /\ \A i \in Ids : queues[i] = IF On(n, "none", i) \in {"DATA", "CONNECTED"}
                                           THEN Tail(msgs[e][i]) ELSE msgs[e][i]
             /\ cells = IF a = "none" THEN <<>> ELSE <<Cell(a, n)>>
  BY <1>3, <1>4, <1>7 DEF queues, On
<1>14. queues \in [Ids -> Seq({"DATA", "CONNECTED"})]
  BY <1>0 DEF queues
<1>15. b \in {c, "none"} /\ (b = "BEGIN" => Len(incoming) < QueueLimit)
  BY <1>1, <1>7
<1>16. a = Answer(e, n, On(n, c, n), "none")
  BY DEF a
<1>17. Turns(e, f, n, c, b, n, "none", "none", m, queues, cells, rest)
  BY <1>0, <1>1, <1>2, <1>8, <1>11, <1>12, <1>13, <1>14, <1>15, <1>16 DEF Turns, Taught
<1> QED
  BY <1>0, <1>17 DEF Turned

\* The command that is run, and the cell that it sends.
LEMMA CmdFacts ==
  ASSUME NEW e \in Ends, NEW M, NEW k \in Ids, NEW d \in {"CloseStream", "DATA", "CONNECTED"},
         NEW c, IsOpen(M, k) <=> StillOpen(e, k, c), NEW a, a = Answer(e, k, c, d),
         NEW cells, cells = CmdCells(M, k, d)
  PROVE  /\ cells \in Seq(CellSet)
         /\ (d = "DATA" => StillOpen(e, k, c)) => cells = IF a = "none" THEN <<>> ELSE <<Cell(a, k)>>
<1>1. cells = CASE d = "CloseStream" -> IF IsOpen(M, k) THEN <<Cell("END", k)>> ELSE <<>>
                [] d = "DATA" /\ ~ IsOpen(M, k) -> <<>>
                [] OTHER -> <<Cell(d, k)>>
  BY DEF CmdCells, should_send_end
<1>2. Cell("END", k) \in CellSet /\ Cell("DATA", k) \in CellSet /\ Cell("CONNECTED", k) \in CellSet
  BY DEF Cell, CellSet, Cmds
<1>3. cells \in Seq(CellSet)
  BY SMTT(30), <1>1, <1>2
<1>4. ASSUME d = "DATA" => StillOpen(e, k, c) PROVE cells = IF a = "none" THEN <<>> ELSE <<Cell(a, k)>>
  BY <1>1, <1>4 DEF Answer
<1> QED
  BY <1>3, <1>4

\* A turn in which a reactor runs the command of a stream.
LEMMA TalkTurned ==
  ASSUME CountLaws, IndInv, NEW e \in Ends, Talk(e)
  PROVE  Running /\ Turned(e)
<1> DEFINE f == Peer(e)
<1>0. /\ Running /\ Types /\ StreamInv /\ f \in Ends /\ f = Peer(e) /\ map[e].err = "None"
      /\ link[e] \in Seq(CellSet) /\ UNCHANGED <<next_id, obj, incoming, deciding, control, begun, sent, got>>
  BY DEF Talk, MayPoll, IndInv, Running, Peer, Ends, Types
<1> HIDE DEF f
<1>1. PICK k \in poll_ready_streams_iter(e) :
         EndTurn(e, RunCmd(Polled(e, k), k, CircuitCmd(e, k)), Queues(e, k),
                 CmdCells(Polled(e, k), k, CircuitCmd(e, k)), link[e])
  BY DEF Talk
<1> DEFINE d == CircuitCmd(e, k)
           M == Polled(e, k)
           m == RunCmd(M, k, d)
           queues == Queues(e, k)
           cells == CmdCells(M, k, d)
           rest == link[e]
           c == "none"
           a == Answer(e, k, On(k, c, k), d)
<1>2. EndTurn(e, m, queues, cells, rest)
  BY <1>1
<1> d = CircuitCmd(e, k) /\ m = RunCmd(M, k, d) /\ cells = CmdCells(M, k, d) /\ rest = link[e]
    /\ a = Answer(e, k, On(k, c, k), d) /\ c = "none" /\ rest \in Seq(CellSet)
  BY SMTT(30), <1>0
<1> HIDE DEF d
<1>4. /\ k \in Ids /\ d \in {"CloseStream", "DATA", "CONNECTED"} /\ Ready(e, k, d)
      /\ Alike(e, M) /\ queues \in [Ids -> Seq({"DATA", "CONNECTED"})]
      /\ \A i \in Ids : queues[i] = IF On(k, d, i) \in {"DATA", "CONNECTED"}
                                    THEN Tail(msgs[e][i]) ELSE msgs[e][i]
  BY SMTT(30), <1>0, PollFacts
<1> HIDE DEF M, m, queues, cells, rest, a, c
<1>5. Good(M) /\ M.err = "None" /\ Made(e, M, k, c, k, "none")
  <2>1. Made(e, map[e], k, c, k, "none")
    BY <1>0, SameMap
  <2> QED
    BY <1>0, <1>4, <2>1 DEF Alike, Made
<1>6. /\ Good(m) /\ Made(e, m, k, c, k, d)
      /\ m.err = IF d = "DATA" /\ ~ StillOpen(e, k, On(k, c, k)) THEN "SendOnClosed" ELSE "None"
  BY SMTT(30), <1>0, <1>4, <1>5, Ran
<1>7. IsOpen(M, k) <=> StillOpen(e, k, On(k, c, k))
  BY <1>4 DEF StillOpen, On, Alike
<1>8. /\ cells \in Seq(CellSet)
      /\ (d = "DATA" => StillOpen(e, k, On(k, c, k))) => cells = IF a = "none" THEN <<>> ELSE <<Cell(a, k)>>
  <2> DEFINE ck == On(k, c, k)
  <2>1. (IsOpen(M, k) <=> StillOpen(e, k, ck)) /\ a = Answer(e, k, ck, d)
    BY <1>7
  <2> HIDE DEF ck
  <2>2. /\ cells \in Seq(CellSet)
        /\ (d = "DATA" => StillOpen(e, k, ck)) => cells = IF a = "none" THEN <<>> ELSE <<Cell(a, k)>>
    BY SMTT(30), <1>4, <2>1, CmdFacts
  <2> QED
    BY <2>2 DEF ck
<1>9. Delivered(e, f, k, c)
  BY <1>0 DEF Delivered, Seen, On
<1>10. incoming' = IF c = "BEGIN" THEN Append(incoming, k) ELSE incoming
  BY <1>0
<1>11. /\ obj' \in [Ends -> SUBSET Ids]
       /\ sent' \in [Ends -> [Ids -> 0 .. MaxData]] /\ got' \in [Ends -> [Ids -> 0 .. MaxData]]
  BY <1>0 DEF Types
<1>12. m.err \in {"None", "CleanShutdown", "SendOnClosed"}
       /\ (m.err = "None" => /\ d = "DATA" => StillOpen(e, k, On(k, c, k))
                             /\ cells = IF a = "none" THEN <<>> ELSE <<Cell(a, k)>>)
  BY <1>6, <1>8
<1>13. c \in Cmds \cup {"none"} /\ c # "BEGIN"
  OBVIOUS
<1>14. Turns(e, f, k, c, c, k, d, d, m, queues, cells, rest)
  BY <1>0, <1>2, <1>4, <1>6, <1>8, <1>9, <1>10, <1>11, <1>12, <1>13 DEF Turns
<1> QED
  BY <1>0, <1>14 DEF Turned

\* A turn in which a reactor handles a cell and runs a command, in this order.
LEMMA ListenAndTalkTurned ==
  ASSUME CountLaws, IndInv, QueueRoom, NEW e \in Ends, ListenAndTalk(e)
  PROVE  Running /\ Turned(e)
<1> DEFINE f == Peer(e)
<1>0. /\ Running /\ Types /\ StreamInv /\ f \in Ends /\ f = Peer(e) /\ map[e].err = "None" /\ link[e] # <<>>
      /\ UNCHANGED <<next_id, deciding, control, begun>>
  BY DEF ListenAndTalk, MayPoll, IndInv, Running, Peer, Ends
<1> HIDE DEF f
<1>1. PICK c \in Cmds, n \in Ids :
         /\ Head(link[e]) = Cell(c, n)
         /\ Expected(e, map[e], Cell(c, n)) \/ Late(e, map[e], Cell(c, n))
         /\ ~ Refused(e, map[e], Cell(c, n)) /\ (c = "BEGIN" => Len(incoming) < QueueLimit)
         /\ c = "DATA" => got[e][n] < MaxData
         /\ Tail(link[e]) \in Seq(CellSet)
  BY <1>0, ArrivalFacts
<1>2. PICK k \in poll_ready_streams_iter(e) :
         LET cell == Head(link[e])
             cmd == CircuitCmd(e, k)
             m == handle_cell(e, Polled(e, k), cell)
         IN  /\ IF m.err = "None"
                THEN EndTurn(e, RunCmd(m, k, cmd), Queues(e, k),
                             Replies(e, m, cell) \o CmdCells(m, k, cmd), Tail(link[e]))
                ELSE EndTurn(e, m, Queues(e, k), <<>>, Tail(link[e]))
             /\ Deliver(e, m, cell)
  BY DEF ListenAndTalk
<1> DEFINE d == CircuitCmd(e, k)
           P == Polled(e, k)
           M == handle_cell(e, P, Cell(c, n))
           queues == Queues(e, k)
           rest == Tail(link[e])
           sends == CmdCells(M, k, d)
           b == IF M.err = "None" THEN c ELSE "none"
           ck == On(n, c, k)
           a == Answer(e, k, ck, d)
<1>3. /\ IF M.err = "None" THEN EndTurn(e, RunCmd(M, k, d), queues, Replies(e, M, Cell(c, n)) \o sends, rest)
                           ELSE EndTurn(e, M, queues, <<>>, rest)
      /\ Deliver(e, M, Cell(c, n))
  BY <1>1, <1>2
<1>4. Replies(e, M, Cell(c, n)) = <<>>
  BY <1>1 DEF Replies
<1>5. /\ d = CircuitCmd(e, k) /\ M = handle_cell(e, P, Cell(c, n)) /\ sends = CmdCells(M, k, d)
      /\ b = (IF M.err = "None" THEN c ELSE "none") /\ a = Answer(e, k, ck, d)
      /\ rest = Tail(link[e]) /\ rest \in Seq(CellSet) /\ c # "none"
  BY <1>1 DEF Cmds
<1> HIDE DEF d
<1>6. /\ k \in Ids /\ d \in {"CloseStream", "DATA", "CONNECTED"} /\ Ready(e, k, d)
      /\ Alike(e, P) /\ queues \in [Ids -> Seq({"DATA", "CONNECTED"})]
      /\ \A i \in Ids : queues[i] = IF On(k, d, i) \in {"DATA", "CONNECTED"}
                                    THEN Tail(msgs[e][i]) ELSE msgs[e][i]
  BY SMTT(30), <1>0, <1>5, PollFacts
<1> HIDE DEF P, M, queues, rest, sends, b
<1>7. Taught(e, f, c, n, b, M)
  BY <1>0, <1>1, <1>3, <1>5, <1>6, ArrivalTaught
<1>8. b \in {c, "none"} /\ (b = "BEGIN" => Len(incoming) < QueueLimit)
  BY <1>1, <1>5
<1>9. /\ Good(M) /\ Made(e, M, n, b, n, "none")
      /\ M.err \in {"None", "CleanShutdown", "NoSuchStream"} /\ (M.err = "NoSuchStream" => e \in early)
  BY <1>7 DEF Taught
<1>10. CASE M.err = "None"
  <2> USE <1>10
  <2> DEFINE m == RunCmd(M, k, d)
  <2>1. m = RunCmd(M, k, d) /\ b = c
    BY <1>5
  <2> HIDE DEF m, ck, a
  <2>2. /\ Good(m) /\ Made(e, m, n, c, k, d)
        /\ m.err = IF d = "DATA" /\ ~ StillOpen(e, k, On(n, c, k)) THEN "SendOnClosed" ELSE "None"
    BY SMTT(30), <1>0, <1>1, <1>6, <1>9, <2>1, Ran
  <2>3. IsOpen(M, k) <=> StillOpen(e, k, ck)
    BY <1>6, <1>9, <2>1 DEF Made, On, ck
  <2> /\ sends \in Seq(CellSet)
      /\ (d = "DATA" => StillOpen(e, k, ck)) => sends = IF a = "none" THEN <<>> ELSE <<Cell(a, k)>>
    BY SMTT(30), <1>5, <1>6, <2>3, CmdFacts
  <2>5. EndTurn(e, m, queues, sends, rest)
    <3>1. <<>> \o sends = sends
      BY SMTT(30)
    <3> QED
      BY <1>3, <1>4, <3>1 DEF m
  <2>6. m.err \in {"None", "CleanShutdown", "SendOnClosed"}
       /\ (m.err = "None" => /\ d = "DATA" => StillOpen(e, k, On(n, c, k))
                             /\ sends = IF Answer(e, k, On(n, c, k), d) = "none" THEN <<>>
                                        ELSE <<Cell(Answer(e, k, On(n, c, k), d), k)>>)
    BY <2>2 DEF ck, a
  <2>7. Turns(e, f, n, c, b, k, d, d, m, queues, sends, rest)
    BY <1>0, <1>1, <1>5, <1>6, <1>7, <1>8, <2>1, <2>2, <2>5, <2>6 DEF Turns, Taught
  <2> QED
    BY <1>0, <2>7 DEF Turned
<1>11. CASE M.err # "None"
  <2>1. b = "none"
    BY <1>5, <1>11
  <2>2. Made(e, M, n, b, k, "none")
    BY <1>9 DEF Made, On
  <2>3. EndTurn(e, M, queues, <<>>, rest) /\ <<>> \in Seq(CellSet)
    BY SMTT(30), <1>3, <1>11
  <2>4. Turns(e, f, n, c, b, k, d, "none", M, queues, <<>>, rest)
    BY <1>0, <1>1, <1>5, <1>6, <1>7, <1>8, <1>11, <2>1, <2>2, <2>3 DEF Turns, Taught
  <2> QED
    BY <1>0, <2>4 DEF Turned
<1> QED
  BY <1>10, <1>11

\* The three actions of a reactor's turn.
LEMMA TurnTurned ==
  ASSUME CountLaws, IndInv, QueueRoom, NEW e \in Ends, Turn(e)
  PROVE  Running /\ Turned(e)
  BY ListenTurned, TalkTurned, ListenAndTalkTurned DEF Turn

-----------------------------------------------------------------------------
(* The applications.                                                       *)

\* What the applications do leaves the maps and the links alone.
Quiet == UNCHANGED <<map, next_id, link, begun, got>> /\ early \subseteq early'
SameApp(i) ==
    /\ \A e \in Ends : /\ i \in expired'[e] <=> i \in expired[e]
                       /\ i \in obj'[e] <=> i \in obj[e]
                       /\ msgs'[e][i] = msgs[e][i] /\ sent'[e][i] = sent[e][i]
    /\ SameUndecided(i)

\* When nothing is sent and no map is changed, the links tell what they did.
LEMMA QuietFacts ==
  ASSUME Quiet
  PROVE  \A i \in Ids : (\A e \in Ends : SameLink(e, i)) /\ SameFresh(i)
<1>1. link' = link /\ next_id' = next_id /\ begun' = begun
  BY DEF Quiet
<1>2. \A i \in Ids : SameFresh(i)
  BY <1>1 DEF SameFresh, Fresh, Ahead
<1>3. \A i \in Ids : \A e \in Ends : SameLink(e, i)
  BY <1>1 DEF SameLink
<1> QED
  BY <1>2, <1>3

\* Something happens to stream id alone.
LEMMA AppInd ==
  ASSUME IndInv, Quiet, NEW id \in Ids, Types', EndMeansAll', Running => QueueInv',
         Running => IdInv(id)', \A i \in Ids \ {id} : SameApp(i)
  PROVE  IndInv'
<1>1. PeerIsUnderstood'
  BY DEF IndInv, PeerIsUnderstood, Quiet
<1>2. ASSUME Running' PROVE StreamInv'
  <2>1. Running
    BY <1>2 DEF Running, Quiet
  <2>2. ASSUME NEW i \in Ids, i # id PROVE IdInv(i)'
    <3>1. IdInv(i)
      BY <2>1 DEF IndInv, StreamInv
    <3>2. \A e \in Ends : SameEnd(e, i)
      BY <2>2 DEF SameApp, SameEnd, Quiet
    <3>3. \A e \in Ends : SameLink(e, i) /\ SameFresh(i)
      BY QuietFacts
    <3>4. SameFresh(i) /\ SameUndecided(i)
      BY <2>2, QuietFacts DEF SameApp
    <3> QED
      BY <3>1, <3>2, <3>3, <3>4, KeepId
  <2> QED
    BY <2>1, <2>2 DEF StreamInv
<1> QED
  BY <1>1, <1>2 DEF IndInv

\* A message joins the queue of a stream.
LEMMA QueueAppend ==
  ASSUME CountLaws, NEW s \in Seq({"DATA", "CONNECTED"}), NEW y \in {"DATA", "CONNECTED"}
  PROVE  /\ Append(s, y) \in Seq({"DATA", "CONNECTED"}) /\ Append(s, y) # <<>>
         /\ OnlyData(s) /\ y = "DATA" => OnlyData(Append(s, y))
         /\ OnlyHead(s) /\ (y = "DATA" \/ s = <<>>) => OnlyHead(Append(s, y))
         /\ Head(Append(s, y)) = IF s = <<>> THEN y ELSE Head(s)
         /\ Num(Append(s, y), "DATA") = Num(s, "DATA") + IF y = "DATA" THEN 1 ELSE 0
<1> /\ Append(s, y) \in Seq({"DATA", "CONNECTED"}) /\ Len(Append(s, y)) = Len(s) + 1 /\ Len(s) \in Nat
    /\ \A i \in 1 .. Len(s) : Append(s, y)[i] = s[i]
    /\ Append(s, y)[Len(s) + 1] = y
  BY SMTT(30)
<1>2. Append(s, y) # <<>> /\ Head(Append(s, y)) = Append(s, y)[1]
  BY SMTT(30)
<1>3. Head(Append(s, y)) = IF s = <<>> THEN y ELSE Head(s)
  <2>1. CASE s = <<>>
    BY SMTT(30), <1>2, <2>1
  <2>2. CASE s # <<>>
    BY SMTT(30), <1>2, <2>2
  <2> QED
    BY <2>1, <2>2
<1>4. OnlyData(s) /\ y = "DATA" => OnlyData(Append(s, y))
  BY SMTT(30) DEF OnlyData
<1>5. OnlyHead(s) /\ y = "DATA" => OnlyHead(Append(s, y))
  BY SMTT(30) DEF OnlyHead
<1>6. s = <<>> => OnlyHead(Append(s, y))
  BY SMTT(30) DEF OnlyHead
<1> QED
  BY <1>2, <1>3, <1>4, <1>5, <1>6, NumAppend, KindFacts

\* An application writes data to a stream.
LEMMA WriteInd ==
  ASSUME CountLaws, IndInv, NEW e \in Ends, NEW id \in Ids, Write(e, id)
  PROVE  IndInv'
<1> DEFINE f == Peer(e)
<1>0. /\ Running /\ id \in obj[e] /\ IsOpen(map[e], id) /\ (e = "service" => id \notin Undecided)
      /\ sent[e][id] < MaxData /\ Types /\ StreamInv /\ IdInv(id) /\ EndMeansAll
      /\ UNCHANGED <<map, next_id, expired, obj, incoming, deciding, control, link, begun, got, early>>
      /\ sent' = [sent EXCEPT ![e][id] = @ + 1]
      /\ msgs' = [msgs EXCEPT ![e][id] = Append(@, "DATA")]
  BY DEF Write, IndInv, StreamInv
<1>1. f \in Ends /\ e # f /\ ((e = "client" /\ f = "service") \/ (e = "service" /\ f = "client"))
      /\ Ends = {e, f} /\ Peer(f) = e
  BY DEF Peer, Ends
<1> HIDE DEF f
<1>2. Quiet /\ (\A i \in Ids : SameUndecided(i)) /\ Undecided' = Undecided
  BY <1>0 DEF Quiet, SameUndecided, Undecided
<1> DEFINE s == msgs[e][id]
<1>3. /\ s \in Seq({"DATA", "CONNECTED"}) /\ sent[e][id] \in 0 .. MaxData /\ MaxData \in Nat
      /\ msgs \in [Ends -> [Ids -> Seq({"DATA", "CONNECTED"})]] /\ sent \in [Ends -> [Ids -> 0 .. MaxData]]
  BY SMTT(30), <1>0, NumbersAssumption DEF Types
<1>4. Append(s, "DATA") \in Seq({"DATA", "CONNECTED"}) /\ sent[e][id] + 1 \in 0 .. MaxData
  BY SMTT(30), <1>0, <1>3
<1>5. /\ msgs' \in [Ends -> [Ids -> Seq({"DATA", "CONNECTED"})]] /\ msgs'[e][id] = Append(s, "DATA")
      /\ \A x \in Ends, i \in Ids : x # e \/ i # id => msgs'[x][i] = msgs[x][i]
  BY <1>0, <1>3, <1>4
<1>6. /\ sent' \in [Ends -> [Ids -> 0 .. MaxData]] /\ sent'[e][id] = sent[e][id] + 1
      /\ \A x \in Ends, i \in Ids : x # e \/ i # id => sent'[x][i] = sent[x][i]
  BY <1>0, <1>3, <1>4
<1>7. Types'
  BY <1>0, <1>5, <1>6 DEF Types
<1>8. \A i \in Ids \ {id} : SameApp(i)
  BY <1>0, <1>2, <1>5, <1>6 DEF SameApp
<1>9. ~ (map[f].closed[id] = "EndReceived" /\ ~ IsOpen(map[f], id))
  BY <1>0, <1>1 DEF IdInv, EndInv, Untouched
<1>10. EndMeansAll'
  <2>1. ASSUME NEW z \in Ends, NEW i \in obj[z], map[z].closed[i] = "EndReceived", ~ IsOpen(map[z], i)
        PROVE  got[z][i] = sent'[Peer(z)][i]
    <3>1. got[z][i] = sent[Peer(z)][i] /\ i \in Ids /\ Peer(z) \in Ends
      BY <1>0, <1>1, <2>1 DEF EndMeansAll, Types, Peer, Ends
    <3>2. Peer(z) # e \/ i # id
      <4>1. Peer(z) = e => z = f
        BY <1>1 DEF Peer, Ends
      <4> QED
        BY <1>9, <2>1, <4>1
    <3> QED
      BY <1>6, <3>1, <3>2
  <2> QED
    BY <1>0, <2>1 DEF EndMeansAll
<1>11. QueueInv'
  BY <1>0 DEF StreamInv, QueueInv
<1>12. IdInv(id)'
  <2>1. /\ msgs'[e][id] # <<>>
        /\ OnlyData(s) => OnlyData(msgs'[e][id])
        /\ OnlyHead(s) => OnlyHead(msgs'[e][id])
        /\ Head(msgs'[e][id]) = IF s = <<>> THEN "DATA" ELSE Head(s)
        /\ Num(msgs'[e][id], "DATA") = Num(s, "DATA") + 1
    BY <1>3, <1>5, QueueAppend
  <2>2. /\ msgs'[f][id] = msgs[f][id] /\ sent'[f][id] = sent[f][id]
        /\ link' = link /\ map' = map /\ got' = got /\ obj' = obj /\ expired' = expired
        /\ early' = early
    BY <1>0, <1>1, <1>5, <1>6
  <2>3. SameFresh(id)
    BY <1>2, QuietFacts
  <2>4. EndInv(e, f, id)' /\ EndInv(f, e, id)'
    <3>1. Began(e, id) /\ Began(e, id)' /\ (Began(f, id)' <=> Began(f, id))
      BY <1>0, <1>1, <2>2, <2>3 DEF IdInv, EndInv, Untouched, Began, SameFresh, Waits
    <3>2. EndInv(e, f, id)'
      BY <1>0, <1>1, <2>2, <3>1 DEF IdInv, EndInv, NoCells
    <3>3. EndInv(f, e, id)'
      BY <1>0, <1>1, <1>2, <2>2, <3>1 DEF IdInv, EndInv, NoCells, Untouched
    <3> QED
      BY <3>2, <3>3
  <2>5. ConnInv(id)'
    BY SMTT(30), <1>0, <1>1, <1>2, <2>1, <2>2 DEF IdInv, ConnInv, Waits, Connected, Unanswered
  <2>6. DataInv(e, f, id)' /\ DataInv(f, e, id)'
    <3> DEFINE y == Num(link[f], Cell("DATA", id))
               x == Num(s, "DATA")
    <3>1. y \in Nat /\ x \in Nat /\ got[f][id] \in Nat /\ sent[e][id] \in Nat
      <4>1. link[f] \in Seq(CellSet) /\ got[f][id] \in 0 .. MaxData
        BY SMTT(30), <1>0, <1>1 DEF Types
      <4> QED
        BY SMTT(30), <1>3, <4>1, NumNat, KindFacts
    <3>2. got[f][id] + (y + x) <= sent[e][id] /\ (Wants(f, id) => got[f][id] + (y + x) = sent[e][id])
      BY <1>0, <1>1 DEF IdInv, DataInv, OnWay
    <3>3. (Wants(f, id)' <=> Wants(f, id)) /\ (Wants(e, id)' <=> Wants(e, id))
      BY <2>2 DEF Wants, Waits
    <3>4. Num(link[f], Cell("DATA", id))' = y /\ Num(msgs[e][id], "DATA")' = x + 1
      BY <2>1, <2>2
    <3> HIDE DEF x, y
    <3>5. /\ got[f][id] + (y + (x + 1)) <= sent[e][id] + 1
          /\ Wants(f, id) => got[f][id] + (y + (x + 1)) = sent[e][id] + 1
      BY SMTT(30), <3>1, <3>2
    <3>6. DataInv(e, f, id)'
      BY <1>6, <2>2, <3>3, <3>4, <3>5 DEF DataInv, OnWay
    <3>7. DataInv(f, e, id)'
      BY <1>0, <1>1, <2>2, <3>3 DEF IdInv, DataInv, OnWay
    <3> QED
      BY <3>6, <3>7
  <2> QED
    BY <1>1, <2>4, <2>5, <2>6 DEF IdInv
<1> QED
  BY <1>2, <1>7, <1>8, <1>10, <1>11, <1>12, AppInd

\* Fewer streams are held, and fewer requests undecided.
LEMMA HeldInd ==
  ASSUME IndInv, Running, Quiet, NEW id \in Ids, NEW e \in Ends, UNCHANGED <<expired, msgs, sent, early>>,
         Types',
         QueueInv', obj' \in {obj, [obj EXCEPT ![e] = @ \ {id}]},
         Undecided' \subseteq Undecided, Undecided \subseteq Undecided' \cup {id},
         e = "service" /\ id \notin obj'[e] => id \notin Undecided',
         obj' = obj \/ e = "client" => Undecided' = Undecided
  PROVE  IndInv'
<1> /\ Types /\ StreamInv /\ IdInv(id) /\ EndMeansAll /\ obj \in [Ends -> SUBSET Ids]
    /\ map' = map /\ link' = link /\ got' = got /\ sent' = sent /\ msgs' = msgs /\ expired' = expired
    /\ early' = early
  BY DEF IndInv, StreamInv, Types, Quiet
<1>1. \A x \in Ends, i \in Ids : /\ i \in obj'[x] => i \in obj[x]
                                 /\ i # id => (i \in obj'[x] <=> i \in obj[x])
  OBVIOUS
<1>2. \A i \in Ids \ {id} : SameApp(i)
  BY <1>1 DEF SameApp, SameUndecided
<1>3. EndMeansAll'
  <2>1. \A x \in Ends : obj'[x] \subseteq obj[x]
    OBVIOUS
  <2> QED
    BY SMTT(30), <2>1 DEF EndMeansAll
<1>4. IdInv(id)'
  <2>1. SameFresh(id) /\ "client" \in Ends /\ "service" \in Ends
    BY QuietFacts DEF Ends
  <2>2. /\ id \in obj'["client"] => id \in obj["client"]
        /\ id \in obj'["service"] => id \in obj["service"]
        /\ id \in Undecided' => id \in Undecided
    BY <1>1, <2>1
  <2>3. EndInv("client", "service", id)' /\ EndInv("service", "client", id)'
    BY <2>1, <2>2 DEF IdInv, EndInv, NoCells, Untouched, Began, SameFresh, Waits
  <2>4. DataInv("client", "service", id)' /\ DataInv("service", "client", id)'
    BY <2>2 DEF IdInv, DataInv, OnWay, Wants, Waits
  <2>5. /\ id \in Undecided' => id \in obj'["service"]
        /\ id \in obj'["service"] /\ id \notin Undecided' => id \notin Undecided
    <3> id \in Undecided => id \in obj["service"]
      BY DEF IdInv, ConnInv
    <3>2. CASE obj' = obj
      BY <3>2
    <3>3. CASE e = "client"
      BY <2>1, <3>3
    <3>4. CASE e = "service" /\ obj' = [obj EXCEPT ![e] = @ \ {id}]
      BY <2>1, <3>4
    <3> QED
      BY <3>2, <3>3, <3>4 DEF Ends
  <2>6. ConnInv(id)'
    BY <2>2, <2>5 DEF IdInv, ConnInv, Waits, Connected, Unanswered
  <2> QED
    BY <2>3, <2>4, <2>6 DEF IdInv
<1> QED
  BY <1>2, <1>3, <1>4, AppInd

\* An application drops a stream or an IncomingStream.
LEMMA DropInd ==
  ASSUME IndInv, NEW e \in Ends, NEW id \in Ids, Drop(e, id)
  PROVE  IndInv'
<1> /\ Running /\ id \in obj[e] /\ (e = "service" => id \notin Range(incoming) \cup Range(control))
    /\ obj' = [obj EXCEPT ![e] = @ \ {id}]
    /\ deciding' = IF e = "service" THEN deciding \ {id} ELSE deciding
    /\ UNCHANGED <<map, next_id, expired, msgs, incoming, control, link, begun, sent, got, early>>
    /\ Types /\ StreamInv
  BY DEF Drop, IndInv
<1>1. Quiet /\ UNCHANGED <<expired, msgs, sent, early>>
  BY DEF Quiet
<1>2. obj \in [Ends -> SUBSET Ids] /\ obj' \in [Ends -> SUBSET Ids] /\ obj' # obj
  BY SMTT(30) DEF Types
<1>3. Types'
  BY <1>2 DEF Types
<1>4. QueueInv'
  BY DEF StreamInv, QueueInv
<1>5. /\ Undecided' \subseteq Undecided /\ Undecided \subseteq Undecided' \cup {id}
      /\ e = "service" => id \notin Undecided'
      /\ e = "client" => Undecided' = Undecided
  BY DEF Undecided
<1> QED
  BY <1>1, <1>2, <1>3, <1>4, <1>5, HeldInd

\* The service takes a request from its queue.
LEMMA NextIncomingInd ==
  ASSUME IndInv, NextIncoming
  PROVE  IndInv'
<1>id. PICK id : id = Head(incoming)
  OBVIOUS
<1> /\ Running /\ incoming # <<>> /\ deciding' = deciding \cup {id} /\ incoming' = Tail(incoming)
    /\ UNCHANGED <<map, next_id, expired, msgs, obj, control, link, begun, sent, got, early>>
    /\ Types /\ StreamInv
  BY <1>id DEF NextIncoming, IndInv
<1>1. Quiet /\ UNCHANGED <<expired, msgs, sent, early>>
  BY DEF Quiet
<1>2. incoming \in Seq(Ids) /\ IsInjective(incoming) /\ id \in Ids
  BY SMTT(30), <1>id DEF Types, StreamInv, QueueInv
<1>3. /\ Tail(incoming) \in Seq(Ids) /\ IsInjective(Tail(incoming)) /\ id \in Range(incoming)
      /\ Range(Tail(incoming)) = Range(incoming) \ {id}
  BY <1>id, <1>2, TailFacts
<1>4. Len(Tail(incoming)) <= QueueLimit
  <2>1. Len(incoming) <= QueueLimit /\ QueueLimit \in Nat
    BY NumbersAssumption DEF Types
  <2> QED
    BY SMTT(30), <1>2, <2>1
<1>5. Types'
  BY <1>2, <1>3, <1>4 DEF Types
<1>6. QueueInv'
  BY <1>3 DEF StreamInv, QueueInv
<1>7. Undecided' = Undecided
  BY <1>3 DEF Undecided
<1>8. "client" \in Ends
  BY DEF Ends
<1> QED
  BY <1>1, <1>2, <1>5, <1>6, <1>7, <1>8, HeldInd

\* The service rejects a request: its reactor is asked to close it.
LEMMA RejectInd ==
  ASSUME IndInv, NEW id \in Ids, reject(id)
  PROVE  IndInv'
<1> /\ Running /\ id \in deciding /\ deciding' = deciding \ {id} /\ control' = Append(control, id)
    /\ UNCHANGED <<map, next_id, expired, msgs, obj, incoming, link, begun, sent, got, early>>
    /\ Types /\ StreamInv
  BY DEF reject, IndInv
<1>1. Quiet /\ UNCHANGED <<expired, msgs, sent, early>>
  BY DEF Quiet
<1>2. control \in Seq(Ids) /\ IsInjective(control) /\ id \notin Range(control)
  BY DEF Types, StreamInv, QueueInv
<1> /\ Append(control, id) \in Seq(Ids) /\ Range(Append(control, id)) = Range(control) \cup {id}
    /\ IsInjective(Append(control, id))
  BY SMTT(30), <1>2, AppendFacts
<1>4. Types'
  BY DEF Types
<1>5. QueueInv'
  BY DEF StreamInv, QueueInv
<1>6. Undecided' = Undecided
  BY DEF Undecided
<1>7. "client" \in Ends
  BY DEF Ends
<1> QED
  BY <1>1, <1>4, <1>5, <1>6, <1>7, HeldInd

\* The service accepts a request, or finds its stream gone.
LEMMA AcceptInd ==
  ASSUME CountLaws, IndInv, NEW id \in Ids, accept_data(id)
  PROVE  IndInv'
<1>0. /\ Running /\ id \in deciding /\ deciding' = deciding \ {id}
      /\ UNCHANGED <<map, next_id, expired, incoming, control, link, begun, sent, got, early>>
      /\ Types /\ StreamInv /\ IdInv(id) /\ EndMeansAll
  BY DEF accept_data, IndInv, StreamInv
<1>1. Quiet /\ UNCHANGED <<expired, sent, early>>
  BY <1>0 DEF Quiet
<1>2. QueueInv'
  BY <1>0 DEF StreamInv, QueueInv
<1>3. Undecided' = Undecided \ {id} /\ id \in Undecided /\ id \in obj["service"] /\ "service" \in Ends
  BY <1>0 DEF Undecided, StreamInv, QueueInv, IdInv, ConnInv, Ends
<1>4. obj \in [Ends -> SUBSET Ids] /\ msgs \in [Ends -> [Ids -> Seq({"DATA", "CONNECTED"})]]
  BY <1>0 DEF Types
<1>5. CASE ~ IsOpen(map["service"], id)
  <2> msgs' = msgs /\ obj' = [obj EXCEPT !["service"] = @ \ {id}]
    BY <1>5 DEF accept_data
  <2>2. obj' \in [Ends -> SUBSET Ids] /\ obj' # obj
    BY <1>3, <1>4
  <2>3. Types'
    BY <1>0, <2>2 DEF Types
  <2>4. UNCHANGED <<expired, msgs, sent, early>> /\ Undecided' \subseteq Undecided
        /\ Undecided \subseteq Undecided' \cup {id} /\ id \notin Undecided'
    BY <1>1, <1>3
  <2> QED
    BY <1>0, <1>1, <1>2, <1>3, <2>2, <2>3, <2>4, HeldInd
<1>6. CASE IsOpen(map["service"], id)
  <2> USE <1>6
  <2>1. msgs' = [msgs EXCEPT !["service"][id] = Append(@, "CONNECTED")] /\ obj' = obj
    BY DEF accept_data
  <2>2. msgs["service"][id] = <<>> /\ Unanswered(id)
    BY <1>0, <1>3 DEF IdInv, ConnInv
  <2>3. /\ Append(<<>>, "CONNECTED") \in Seq({"DATA", "CONNECTED"}) /\ Append(<<>>, "CONNECTED") # <<>>
        /\ OnlyHead(Append(<<>>, "CONNECTED")) /\ Head(Append(<<>>, "CONNECTED")) = "CONNECTED"
        /\ Num(Append(<<>>, "CONNECTED"), "DATA") = 0
    <3> DEFINE s == <<>>
               y == "CONNECTED"
    <3> s \in Seq({"DATA", "CONNECTED"}) /\ y \in {"DATA", "CONNECTED"} /\ s = <<>> /\ y # "DATA"
      BY SMTT(30)
    <3>2. Num(s, "DATA") = 0 /\ OnlyHead(s)
      BY QueueEmpty
    <3> HIDE DEF s, y
    <3>3. /\ Append(s, y) \in Seq({"DATA", "CONNECTED"}) /\ Append(s, y) # <<>>
          /\ OnlyHead(s) /\ (y = "DATA" \/ s = <<>>) => OnlyHead(Append(s, y))
          /\ Head(Append(s, y)) = IF s = <<>> THEN y ELSE Head(s)
          /\ Num(Append(s, y), "DATA") = Num(s, "DATA") + IF y = "DATA" THEN 1 ELSE 0
      BY QueueAppend
    <3>4. Num(Append(s, y), "DATA") = 0
      BY SMTT(30), <3>2, <3>3
    <3> QED
      BY <3>2, <3>3, <3>4 DEF s, y
  <2>4. /\ msgs' \in [Ends -> [Ids -> Seq({"DATA", "CONNECTED"})]]
        /\ msgs'["service"][id] = Append(<<>>, "CONNECTED")
        /\ \A x \in Ends, i \in Ids : x # "service" \/ i # id => msgs'[x][i] = msgs[x][i]
    BY <1>3, <1>4, <2>1, <2>2, <2>3
  <2>5. Types'
    BY <1>0, <2>1, <2>4 DEF Types
  <2>6. EndMeansAll'
    BY <1>0, <2>1 DEF EndMeansAll
  <2>7. \A i \in Ids \ {id} : SameApp(i)
    BY <1>1, <1>3, <2>1, <2>4 DEF SameApp, SameUndecided
  <2>8. IdInv(id)'
    <3>1. SameFresh(id)
      BY <1>1, QuietFacts
    <3> /\ map' = map /\ link' = link /\ got' = got /\ sent' = sent /\ expired' = expired /\ obj' = obj
        /\ early' = early
        /\ msgs'["client"][id] = msgs["client"][id] /\ id \notin Undecided'
      BY <1>0, <1>3, <2>1, <2>4 DEF Ends
    <3>3. Began("service", id) /\ Began("service", id)' /\ (Began("client", id)' <=> Began("client", id))
      BY <1>0, <3>1 DEF IdInv, EndInv, Untouched, Began, SameFresh, Waits
    <3>4. EndInv("client", "service", id)' /\ EndInv("service", "client", id)'
      BY <1>0, <3>3 DEF IdInv, EndInv, NoCells, Untouched
    <3>5. Num(msgs'["service"][id], "DATA") = Num(msgs["service"][id], "DATA")
      BY <2>2, <2>3, <2>4, QueueEmpty
    <3>6. DataInv("client", "service", id)' /\ DataInv("service", "client", id)'
      BY <1>0, <3>5 DEF IdInv, DataInv, OnWay, Wants, Waits
    <3>7. ConnInv(id)'
      BY <1>0, <2>2, <2>3, <2>4 DEF IdInv, ConnInv, Waits, Connected, Unanswered
    <3> QED
      BY <3>4, <3>6, <3>7 DEF IdInv
  <2> QED
    BY <1>0, <1>1, <1>2, <2>5, <2>6, <2>7, <2>8, AppInd
<1> QED
  BY <1>5, <1>6

\* The expiry of a half-stream passes.
LEMMA ExpireInd ==
  ASSUME IndInv, NEW e \in Ends, NEW id \in Ids, Expire(e, id)
  PROVE  IndInv'
<1> DEFINE f == Peer(e)
<1> /\ Running /\ map[e].closed[id] = "EndSent"
    /\ early' = IF Settled(e, id) THEN early ELSE early \cup {e}
    /\ expired' = [expired EXCEPT ![e] = @ \cup {id}]
    /\ UNCHANGED <<map, next_id, msgs, obj, incoming, deciding, control, link, begun, sent, got>>
    /\ Types /\ StreamInv /\ IdInv(id) /\ EndMeansAll
  BY DEF Expire, IndInv, StreamInv, appVars
<1>1. f \in Ends /\ e # f /\ ((e = "client" /\ f = "service") \/ (e = "service" /\ f = "client"))
  BY DEF Peer, Ends
<1> HIDE DEF f
<1>2. Quiet /\ Undecided' = Undecided
  BY DEF Quiet, Undecided
<1>3. /\ expired' \in [Ends -> SUBSET Ids] /\ expired'[f] = expired[f]
      /\ \A x \in Ends, i \in Ids : i # id => (i \in expired'[x] <=> i \in expired[x])
  BY <1>1 DEF Types
<1>4. Types'
  BY <1>3 DEF Types
<1>5. QueueInv'
  BY DEF StreamInv, QueueInv
<1>6. EndMeansAll'
  BY DEF EndMeansAll
<1>7. \A i \in Ids \ {id} : SameApp(i)
  BY <1>2, <1>3 DEF SameApp, SameUndecided
<1>8. e \notin early' => ~ IsOpen(map[f], id) /\ NoCells(e, id) /\ NoCells(f, id)
  <2> SUFFICES ASSUME e \notin early' PROVE ~ IsOpen(map[f], id) /\ NoCells(e, id) /\ NoCells(f, id)
    OBVIOUS
  <2>0. ~ IsOpen(map[f], id) /\ \A x \in Ends : \A i \in DOMAIN link[x] : link[x][i].id # id
    BY DEF Settled, f
  <2>1. \A x \in Ends, c \in Cmds : ~ Has(link[x], c, id)
    <3>1. \A x \in Ends : DOMAIN link[x] = 1 .. Len(link[x])
      BY SMTT(30) DEF Types
    <3> QED
      BY SMTT(30), <2>0, <3>1 DEF Has, Cell
  <2> QED
    BY <1>1, <2>0, <2>1 DEF NoCells, Cmds
<1>9. IdInv(id)'
  <2>1. SameFresh(id)
    BY <1>2, QuietFacts
  <2>2. Began(e, id) /\ Began(e, id)' /\ (Began(f, id)' <=> Began(f, id))
    BY <1>1, <2>1 DEF IdInv, EndInv, Untouched, Began, SameFresh, Waits
  <2>3. EndInv(e, f, id)'
    BY <1>1, <1>8, <2>2 DEF IdInv, EndInv, NoCells
  <2>4. EndInv(f, e, id)'
    BY <1>1, <1>2, <1>3, <2>2 DEF IdInv, EndInv, NoCells, Untouched
  <2>5. DataInv("client", "service", id)' /\ DataInv("service", "client", id)'
    BY DEF IdInv, DataInv, OnWay, Wants, Waits
  <2>6. ConnInv(id)'
    BY <1>2 DEF IdInv, ConnInv, Waits, Connected, Unanswered
  <2> QED
    BY <1>1, <2>3, <2>4, <2>5, <2>6 DEF IdInv
<1> QED
  BY <1>2, <1>4, <1>5, <1>6, <1>7, <1>9, AppInd

-----------------------------------------------------------------------------
(* Control messages.                                                       *)

\* A stream ends at the service, and nothing happens to any other.
Closes(id) ==
    /\ id \notin obj'["service"] /\ sent'["service"][id] = sent["service"][id]
    /\ got'["service"][id] = got["service"][id]
    /\ \A i \in Ids : SameEnd("client", i) /\ (i # id => Local("service", i, "none", "none"))

\* The reactor of the service closes the stream of a rejected request.
LEMMA ClosePendingInd ==
  ASSUME CountLaws, IndInv, ClosePendingStream
  PROVE  IndInv' /\ \E id \in Ids : Closes(id)
<1>id. PICK id : id = Head(control)
  OBVIOUS
<1> DEFINE e == "service"
           f == "client"
           s == map[e]
           m == terminate(s, id)
           cells == IF should_send_end(s, id) THEN <<Cell("END", id)>> ELSE <<>>
           rest == link[e]
           queues == msgs[e]
           x == IF IsOpen(s, id) THEN "END" ELSE "none"
<1>0. /\ Running /\ control # <<>> /\ EndTurn(e, m, queues, cells, rest)
      /\ obj' = [obj EXCEPT ![e] = @ \ {id}] /\ control' = Tail(control)
      /\ UNCHANGED <<next_id, incoming, deciding, begun, sent, got>>
      /\ Types /\ StreamInv /\ EndMeansAll /\ map[e].err = "None" /\ map[f].err = "None"
  BY <1>id DEF ClosePendingStream, IndInv, Running, Ends
<1>1. e \in Ends /\ f \in Ends /\ f = Peer(e) /\ e = Peer(f) /\ Ends = {e, f} /\ e # f
      /\ e = "service" /\ f = "client"
  BY DEF Peer, Ends
<1> HIDE DEF e, f
<1>2. control \in Seq(Ids) /\ IsInjective(control) /\ id \in Ids
  BY SMTT(30), <1>id, <1>0 DEF Types, StreamInv, QueueInv
<1>3. /\ Tail(control) \in Seq(Ids) /\ IsInjective(Tail(control)) /\ id \in Range(control)
      /\ Range(Tail(control)) = Range(control) \ {id}
  BY <1>id, <1>0, <1>2, TailFacts
<1>4. Good(s) /\ queues \in [Ids -> Seq({"DATA", "CONNECTED"})] /\ rest \in Seq(CellSet)
      /\ cells \in Seq(CellSet) /\ cells = IF x = "none" THEN <<>> ELSE <<Cell(x, id)>>
  <2>1. Good(s) /\ queues \in [Ids -> Seq({"DATA", "CONNECTED"})] /\ rest \in Seq(CellSet)
    BY <1>0, <1>1 DEF Types, Good
  <2>2. Cell("END", id) \in CellSet
    BY <1>2 DEF Cell, CellSet, Cmds
  <2>3. <<Cell("END", id)>> \in Seq(CellSet) /\ <<>> \in Seq(CellSet)
    BY SMTT(30), <2>2
  <2>4. cells = IF x = "none" THEN <<>> ELSE <<Cell(x, id)>>
    BY DEF should_send_end
  <2> QED
    BY <2>1, <2>3 DEF should_send_end
<1>5. /\ Good(m) /\ (\A i : IsOpen(m, i) <=> IsOpen(s, i) /\ i # id)
      /\ m.closed = [s.closed EXCEPT ![id] = IF IsOpen(s, id) THEN "EndSent" ELSE "None"]
      /\ m.expecting = s.expecting /\ m.err = s.err
  BY <1>2, <1>4, TerminateFacts
<1>6. s.closed \in [Ids -> Closed] /\ x \in Cmds \cup {"none"} /\ (x # "none" <=> IsOpen(map[e], id))
      /\ x \notin {"BEGIN", "CONNECTED", "DATA"}
  BY <1>4 DEF Good, MapType, Cmds
<1>7. rest = link[e] /\ s = map[e] /\ queues = msgs[e] /\ (IsOpen(s, id) => x = "END")
      /\ (~ IsOpen(s, id) => x = "none")
  OBVIOUS
<1> HIDE DEF m, cells, rest, queues, x, s
<1>8. Made(e, m, id, "none", id, "CloseStream")
  <2>1. ASSUME NEW i \in Ids
        PROVE  /\ IsOpen(m, i) <=> IsOpen(map[e], i) /\ i # id
               /\ m.closed[i] = IF i = id THEN IF IsOpen(map[e], id) THEN "EndSent" ELSE "None"
                                ELSE map[e].closed[i]
               /\ i \in m.expecting <=> i \in map[e].expecting
    BY <1>2, <1>5, <1>6, <1>7
  <2> QED
    BY <2>1 DEF Made, On, StillOpen, ClosedBy
<1>9. Ended(e, f, m, queues, cells, rest)
  BY <1>0, <1>1, <1>4, <1>5, TurnFacts
<1>10. /\ obj' \in [Ends -> SUBSET Ids] /\ id \notin obj'[e] /\ obj'[f] = obj[f]
       /\ \A i \in Ids \ {id} : i \in obj'[e] <=> i \in obj[e]
  BY <1>0, <1>1 DEF Types
<1>11. \A i \in Ids \ {id} : Seen(e, f, i, "none")
  BY <1>0, <1>10 DEF Seen
<1>12. ASSUME NEW i \in Ids, i # id PROVE Local(e, i, "none", "none") /\ SameEnd(f, i)
  <2>1. On(id, "none", i) = "none" /\ On(id, "CloseStream", i) = "none" /\ Seen(e, f, i, "none")
    BY <1>11, <1>12 DEF On
  <2>2. Local(e, i, On(id, "none", i), On(id, "CloseStream", i)) /\ SameEnd(f, i)
    BY <1>0, <1>1, <1>8, <1>9, <2>1, TurnMade
  <2> QED
    BY <2>1, <2>2
<1>13. Types'
  BY <1>0, <1>3, <1>9, <1>10 DEF Types, Ended
<1>14. PeerIsUnderstood'
  <2>1. map'[e].err = "None" /\ map'[f].err = "None"
    BY <1>0, <1>5, <1>7, <1>9 DEF Ended
  <2> QED
    BY <1>1, <2>1 DEF PeerIsUnderstood
<1>15. IdInv(id) /\ id \in Undecided
  BY <1>0, <1>2, <1>3 DEF StreamInv, Undecided
<1>16. EndMeansAll'
  <2>1. ASSUME NEW i \in Ids, i # id
        PROVE  /\ i \in obj'[e] /\ map'[e].closed[i] = "EndReceived" /\ ~ IsOpen(map'[e], i)
                    => got'[e][i] = sent'[f][i]
               /\ i \in obj'[f] /\ map'[f].closed[i] = "EndReceived" /\ ~ IsOpen(map'[f], i)
                    => got'[f][i] = sent'[e][i]
    <3>1. Fits(e, i, "none") /\ Ready(e, i, "none")
      BY DEF Fits, Ready
    <3> QED
      BY <1>0, <1>1, <1>12, <2>1, <3>1, TurnTold
  <2>2. map'[f] = map[f] /\ sent' = sent /\ got' = got /\ obj'[f] = obj[f]
    BY <1>0, <1>9, <1>10 DEF Ended
  <2>3. ASSUME NEW z \in Ends, NEW i \in obj'[z], map'[z].closed[i] = "EndReceived", ~ IsOpen(map'[z], i)
        PROVE  got'[z][i] = sent'[Peer(z)][i]
    <3> USE <2>3
    <3>1. CASE z = f
      BY <1>0, <1>1, <2>2, <3>1 DEF EndMeansAll
    <3>2. CASE z = e
      <4>1. i \in Ids /\ i # id
        BY <1>1, <1>10, <3>2
      <4> QED
        BY <1>1, <2>1, <3>2, <4>1
    <3> QED
      BY <1>1, <3>1, <3>2
  <2> QED
    BY <2>3 DEF EndMeansAll
<1>17. WellOrdered(link[e]) /\ WellOrdered(link[f])
  BY <1>0, <1>1 DEF StreamInv, QueueInv
<1>18. link'[e] = link[e] /\ IF x = "none" THEN link'[f] = link[f] ELSE link'[f] = Append(link[f], Cell(x, id))
  <2>1. link[f] \in Seq(CellSet) /\ link'[f] = link[f] \o cells /\ link'[e] = link[e]
    BY <1>0, <1>1, <1>7, <1>9 DEF Ended, Types
  <2> QED
    BY SMTT(30), <1>4, <2>1
<1>19. WellOrdered(link'[f]) /\ \A i \in Ids : Put(f, i, On(id, x, i))
  <2>1. x # "none" => ~ Has(link[f], "END", id)
    BY <1>1, <1>6, <1>15 DEF IdInv, EndInv
  <2> QED
    BY <1>0, <1>1, <1>2, <1>6, <1>17, <1>18, <2>1, PutFacts
<1>20. \A i \in Ids : Taken(e, i, "none")
  <2>1. \A i \in Ids : Taken(e, i, On(id, "none", i))
    BY <1>0, <1>1, <1>2, <1>17, <1>18, TakenFacts
  <2> QED
    BY <2>1 DEF On
<1>21. \A i \in Ids : SameFresh(i)
  BY <1>0 DEF SameFresh, Fresh, Ahead
<1>22. Undecided' = Undecided \ {id}
  BY <1>0, <1>3 DEF Undecided, StreamInv, QueueInv
<1>23. ASSUME NEW i \in Ids, i # id PROVE IdInv(i)'
  <2> USE <1>23
  <2>1. IdInv(i) /\ (~ IsOpen(map[e], i) => msgs[e][i] = <<>>)
    BY <1>0, <1>1 DEF StreamInv, IdInv, EndInv
  <2>2. Fits(e, i, "none") /\ Ready(e, i, "none")
    BY DEF Fits, Ready
  <2>3. Popped(e, i, "none")
    BY <1>7, <1>9, <2>1 DEF Popped, Ended
  <2>4. Put(f, i, Answer(e, i, "none", "none"))
    BY <1>19 DEF On, Answer
  <2>5. i \in Undecided' <=> i \in Undecided \/ "none" = "BEGIN"
    BY <1>22
  <2>6. TurnOn(e, f, i, "none", "none")
    BY <1>12, <1>20, <1>21, <2>2, <2>3, <2>4, <2>5 DEF TurnOn
  <2> QED
    BY <1>0, <1>1, <1>13, <2>1, <2>6, TurnId
<1>24. IdInv(id)'
  <2>1. /\ ~ IsOpen(map'["service"], id) /\ msgs'["service"][id] = <<>> /\ id \notin obj'["service"]
        /\ id \notin expired'["service"]
        /\ map'["service"].closed[id] = IF IsOpen(map["service"], id) /\ id \notin expired["service"]
                                        THEN "EndSent" ELSE "None"
        /\ map'["client"] = map["client"] /\ expired'["client"] = expired["client"]
        /\ msgs'["client"] = msgs["client"] /\ obj'["client"] = obj["client"]
        /\ sent' = sent /\ got' = got /\ early' = early
    <3>1. /\ IsOpen(m, id) <=> FALSE
          /\ m.closed[id] = IF IsOpen(map[e], id) THEN "EndSent" ELSE "None"
      BY <1>2, <1>5, <1>6, <1>7
    <3> QED
      BY <1>0, <1>1, <1>2, <1>9, <1>10, <3>1 DEF Ended
  <2>2. id \notin Undecided' /\ SameFresh(id) /\ Taken("service", id, "none")
        /\ Put("client", id, IF IsOpen(map["service"], id) THEN "END" ELSE "none")
    BY <1>1, <1>2, <1>7, <1>19, <1>20, <1>21, <1>22 DEF On
  <2>3. Began("service", id) /\ id \notin expired["service"] /\ map["service"].closed[id] # "EndSent"
        /\ msgs["service"][id] = <<>>
    BY <1>15 DEF IdInv, EndInv, Untouched, ConnInv
  <2>4. Began("service", id)' /\ (Began("client", id)' <=> Began("client", id)) /\ ~ Waits(id)'
    BY <2>2, <2>3 DEF Began, SameFresh, Waits, Taken
  <2>5. EndInv("service", "client", id)'
    BY <1>15, <2>1, <2>2, <2>3, <2>4 DEF IdInv, EndInv, NoCells, Taken, Put
  <2>6. EndInv("client", "service", id)'
    BY <1>15, <2>1, <2>2, <2>3, <2>4 DEF IdInv, EndInv, NoCells, Taken, Put, Untouched
  <2>7. ConnInv(id)'
    BY <1>15, <2>1, <2>2, <2>4, QueueEmpty DEF IdInv, ConnInv, Taken, Put, Unanswered, Connected
  <2>8. DataInv("service", "client", id)' /\ DataInv("client", "service", id)'
    <3>1. /\ Num(link'["client"], Cell("DATA", id)) = Num(link["client"], Cell("DATA", id))
          /\ Num(link'["service"], Cell("DATA", id)) = Num(link["service"], Cell("DATA", id))
      <4>1. Num(link["client"], Cell("DATA", id)) \in Nat /\ Num(link'["service"], Cell("DATA", id)) \in Nat
        <5>1. link["client"] \in Seq(CellSet) /\ link'["service"] \in Seq(CellSet)
          BY <1>0, <1>1, <1>13 DEF Types
        <5> QED
          BY <5>1, NumNat, KindFacts
      <4> QED
        BY SMTT(30), <2>2, <4>1 DEF Taken, Put
    <3>2. ~ Wants("service", id)' /\ (Wants("client", id)' <=> Wants("client", id))
      BY <2>1, <2>4 DEF Wants
    <3> QED
      BY <1>15, <2>1, <2>3, <3>1, <3>2 DEF IdInv, DataInv, OnWay
  <2> QED
    BY <2>5, <2>6, <2>7, <2>8 DEF IdInv
<1>25. QueueInv'
  <2>1. \A z \in Ends : WellOrdered(link'[z])
    BY <1>1, <1>17, <1>18, <1>19
  <2> QED
    BY <1>0, <1>3, <2>1 DEF StreamInv, QueueInv
<1>26. Closes(id)
  <2>1. SameEnd(f, id)
    BY <1>0, <1>1, <1>9, <1>10 DEF SameEnd, Ended
  <2>2. id \notin obj'[e] /\ sent'[e][id] = sent[e][id] /\ got'[e][id] = got[e][id]
    BY <1>0, <1>10
  <2> QED
    BY <1>1, <1>12, <2>1, <2>2 DEF Closes
<1> QED
  BY <1>2, <1>13, <1>14, <1>16, <1>23, <1>24, <1>25, <1>26 DEF IndInv, StreamInv

=============================================================================
