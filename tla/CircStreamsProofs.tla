------------------------- MODULE CircStreamsProofs --------------------------
(***************************************************************************)
(* The two ends of a hop understand each other, and no data is lost, in    *)
(* every behaviour of CircStreams in which the ids of the client do not    *)
(* come round and no request finds the queue of the service full; and in   *)
(* every behaviour of a client that begins few enough streams for that.    *)
(***************************************************************************)
EXTENDS CircStreamsTurns

\* A leaf that names no prover is given to Zenon, for up to 30 seconds.
USE ZenonT(30)

-----------------------------------------------------------------------------
(* New streams.                                                            *)

\* The remainder of a number below the divisor.
LEMMA ModSmall ==
  ASSUME NEW a \in Nat, NEW b \in Nat, a < b
  PROVE  a % b = a
  BY SMTT(30)

\* The id that add_ent takes is next_stream_id as long as the ids do not come round.
LEMMA FirstFree ==
  ASSUME Types, StreamInv, begun + 1 <= MaxId
  PROVE  /\ Fresh(next_id) /\ Free # {} /\ Tried(Min(Free)) = next_id
         /\ \A i \in Ids : i # next_id =>
               (Fresh(i) <=> (IF i >= wrapping_next_stream_id(next_id)
                              THEN i - wrapping_next_stream_id(next_id)
                              ELSE i + MaxId - wrapping_next_stream_id(next_id)) + (begun + 1) < MaxId)
         /\ ~ ((IF next_id >= wrapping_next_stream_id(next_id)
                THEN next_id - wrapping_next_stream_id(next_id)
                ELSE next_id + MaxId - wrapping_next_stream_id(next_id)) + (begun + 1) < MaxId)
         /\ wrapping_next_stream_id(next_id) \in Ids
<1>0. next_id \in 1 .. MaxId /\ MaxId \in Nat \ {0} /\ begun \in Nat
  BY SMTT(30), NumbersAssumption DEF Types, Ids
<1>1. Fresh(next_id)
  BY SMTT(30), <1>0 DEF Fresh, Ahead
<1>2. ~ IsOpen(map["client"], next_id)
  BY <1>1 DEF StreamInv, IdInv, EndInv, Began, Untouched, Types
<1>3. Tried(0) = next_id
  <2>1. next_id - 1 \in Nat /\ next_id - 1 < MaxId /\ next_id + 0 - 1 = next_id - 1
    BY SMTT(30), <1>0
  <2>2. (next_id - 1) % MaxId = next_id - 1
    BY <1>0, <2>1, ModSmall
  <2> QED
    BY SMTT(30), <1>0, <2>1, <2>2 DEF Tried
<1>4. 0 \in Free /\ \A k \in Free : k \in Nat
  BY SMTT(30), <1>0, <1>2, <1>3 DEF Free
<1>5. Min(Free) = 0
  <2> DEFINE F == Free
  <2> 0 \in F /\ \A k \in F : k \in Nat
    BY <1>4
  <2> HIDE DEF F
  <2>2. \A k \in F : (\A y \in F : k <= y) => k = 0
    BY SMTT(30)
  <2>3. \A y \in F : 0 <= y
    BY SMTT(30)
  <2>4. Min(F) = CHOOSE k \in F : \A y \in F : k <= y
    BY DEF Min
  <2>5. Min(F) \in F /\ \A y \in F : Min(F) <= y
    BY <2>3, <2>4
  <2> QED
    BY <2>2, <2>5 DEF F
<1>6. /\ \A i \in Ids : i # next_id =>
               (Fresh(i) <=> (IF i >= wrapping_next_stream_id(next_id)
                              THEN i - wrapping_next_stream_id(next_id)
                              ELSE i + MaxId - wrapping_next_stream_id(next_id)) + (begun + 1) < MaxId)
      /\ ~ ((IF next_id >= wrapping_next_stream_id(next_id)
             THEN next_id - wrapping_next_stream_id(next_id)
             ELSE next_id + MaxId - wrapping_next_stream_id(next_id)) + (begun + 1) < MaxId)
      /\ wrapping_next_stream_id(next_id) \in Ids
  BY SMTT(30), <1>0 DEF Fresh, Ahead, wrapping_next_stream_id, Ids
<1> QED
  BY <1>1, <1>3, <1>4, <1>5, <1>6

\* BeginStream finds no id: the reactor stops.
LEMMA BeginFails ==
  ASSUME IndInv, BeginStream, Free = {}
  PROVE  IndInv'
<1> /\ begun < MaxBegins /\ begun' = begun + 1 /\ Types /\ EndMeansAll /\ PeerIsUnderstood
    /\ map' = [map EXCEPT !["client"] = Fail(@, "IdRangeFull")]
    /\ UNCHANGED <<next_id, expired, msgs, obj, link, sent, got, incoming, deciding, control, early>>
  BY DEF BeginStream, IndInv
<1>1. Good(map["client"]) /\ "client" \in Ends /\ "IdRangeFull" \in Errors
  BY DEF Types, Good, Ends, Errors
<1> DEFINE m == Fail(map["client"], "IdRangeFull")
<1>2. /\ Good(m) /\ m.err = "IdRangeFull" /\ \A i : IsOpen(m, i) <=> IsOpen(map["client"], i)
      /\ m.closed = map["client"].closed
  BY <1>1, FailFacts
<1>3. map' = [map EXCEPT !["client"] = m]
  OBVIOUS
<1> HIDE DEF m
<1> /\ map' \in [Ends -> MapType] /\ map'["client"] = m /\ map'["service"] = map["service"]
    /\ \A e \in Ends : IsInjective(map'[e].open)
  BY SMTT(30), <1>1, <1>2, <1>3 DEF Types, Good, Ends
<1>5. begun' \in 0 .. MaxBegins
  BY SMTT(30), NumbersAssumption DEF Types
<1>6. Types'
  BY <1>5 DEF Types
<1>7. PeerIsUnderstood' /\ ~ Running'
  BY <1>1, <1>2 DEF PeerIsUnderstood, Running, Ends
<1>8. EndMeansAll'
  BY SMTT(30), <1>2 DEF EndMeansAll, Ends
<1> QED
  BY <1>6, <1>7, <1>8 DEF IndInv

\* A stream begins at the client, and nothing happens to any other.
Begins(id) ==
    /\ Untouched("client", id) /\ id \in obj'["client"] /\ IsOpen(map'["client"], id)
    /\ sent'["client"][id] = 0 /\ got'["client"][id] = 0
    /\ \A i \in Ids : SameEnd("service", i) /\ (i # id => Local("client", i, "none", "none"))

\* The client begins a stream, with an id that it has not used before.
LEMMA BeginInd ==
  ASSUME CountLaws, IndInv, BeginStream, begun' <= MaxId
  PROVE  IndInv' /\ (Free # {} => \E id \in Ids : Begins(id))
<1>1. CASE Free = {}
  BY <1>1, BeginFails
<1>2. CASE Free # {}
  <2>1. begun' = begun + 1 /\ Running /\ begun < MaxBegins /\ Types /\ StreamInv /\ EndMeansAll
        /\ UNCHANGED <<incoming, deciding, control, early>>
    BY DEF BeginStream, IndInv
  <2>2. PICK id : id = next_id
    OBVIOUS
  <2> DEFINE e == "client"
             f == "service"
             s == map[e]
             a == add_ent(s, id)
             m == remove_expired_halfstreams(a, expired[e])
  <2>3. begun + 1 <= MaxId /\ begun \in Nat
    BY SMTT(30), <2>1 DEF Types
  <2>4. Fresh(id) /\ Tried(Min(Free)) = id /\ id \in Ids
    BY <2>1, <2>2, <2>3, FirstFree DEF Types
  <2>5. /\ map' = [map EXCEPT ![e] = m] /\ expired' = [expired EXCEPT ![e] = {}]
        /\ next_id' = wrapping_next_stream_id(id)
        /\ msgs' = [msgs EXCEPT ![e][id] = <<>>]
        /\ obj' = [obj EXCEPT ![e] = @ \cup {id}]
        /\ link' = [link EXCEPT ![f] = Append(@, Cell("BEGIN", id))]
        /\ sent' = [sent EXCEPT ![e][id] = 0]
        /\ got' = [got EXCEPT ![e][id] = 0]
    BY <1>2, <2>4 DEF BeginStream
  <2>6. IdInv(id) /\ ~ Began(e, id) /\ ~ Began(f, id)
    BY <2>1, <2>4 DEF StreamInv, Began
  <2>7. Untouched(e, id) /\ Untouched(f, id) /\ NoCells(e, id) /\ NoCells(f, id)
    BY <2>6 DEF IdInv, EndInv
  <2>8. e \in Ends /\ f \in Ends /\ e # f /\ Ends = {e, f} /\ f = Peer(e) /\ e = Peer(f)
        /\ e = "client" /\ f = "service"
    BY DEF Ends, Peer
  <2>9. s = map[e] /\ Good(s) /\ ~ IsOpen(s, id)
    BY <2>1, <2>7, <2>8 DEF Types, Good, Untouched
  <2> HIDE DEF e, f
  <2>10. /\ Good(a) /\ a.closed = s.closed /\ a.expecting = s.expecting \cup {id} /\ a.err = s.err
         /\ \A i : IsOpen(a, i) <=> IsOpen(s, i) \/ i = id
    <3> DEFINE w == add_ent_with_id(s, id)
    <3>1. /\ Good(w) /\ (\A i : IsOpen(w, i) <=> IsOpen(s, i) \/ i = id)
          /\ w.closed = s.closed /\ w.expecting = s.expecting /\ w.err = s.err
      BY SMTT(30), <2>4, <2>9, AddFacts
    <3>2. a = [w EXCEPT !.expecting = @ \cup {id}]
      BY DEF add_ent
    <3> HIDE DEF w, a
    <3> QED
      BY <2>4, <3>1, <3>2 DEF Good, MapType, IsOpen
  <2> HIDE DEF a
  <2>11. /\ Good(m) /\ m.expecting = a.expecting /\ m.err = a.err
         /\ \A i : IsOpen(m, i) <=> IsOpen(a, i)
         /\ \A i \in Ids : m.closed[i] =
               IF i \in expired[e] /\ a.closed[i] = "EndSent" THEN "None" ELSE a.closed[i]
    BY <2>10, CollectFacts
  <2> HIDE DEF m, s
  <2>12. /\ map' \in [Ends -> MapType] /\ map'[e] = m /\ map'[f] = map[f]
         /\ \A z \in Ends : IsInjective(map'[z].open)
    BY <2>1, <2>5, <2>8, <2>11 DEF Types, Good
  <2>13. /\ expired' \in [Ends -> SUBSET Ids] /\ expired'[e] = {} /\ expired'[f] = expired[f]
         /\ obj' \in [Ends -> SUBSET Ids] /\ obj'[e] = obj[e] \cup {id} /\ obj'[f] = obj[f]
    BY <2>1, <2>4, <2>5, <2>8 DEF Types
  <2>14. /\ msgs' \in [Ends -> [Ids -> Seq({"DATA", "CONNECTED"})]]
         /\ \A z \in Ends, i \in Ids : msgs'[z][i] = IF z = e /\ i = id THEN <<>> ELSE msgs[z][i]
    <3>1. msgs \in [Ends -> [Ids -> Seq({"DATA", "CONNECTED"})]] /\ <<>> \in Seq({"DATA", "CONNECTED"})
      BY SMTT(30), <2>1 DEF Types
    <3> QED
      BY <2>4, <2>5, <2>8, <3>1
  <2>15. /\ sent' \in [Ends -> [Ids -> 0 .. MaxData]]
         /\ \A z \in Ends, i \in Ids : sent'[z][i] = IF z = e /\ i = id THEN 0 ELSE sent[z][i]
    <3>1. sent \in [Ends -> [Ids -> 0 .. MaxData]] /\ 0 \in 0 .. MaxData
      BY SMTT(30), <2>1, NumbersAssumption DEF Types
    <3> QED
      BY <2>4, <2>5, <2>8, <3>1
  <2>16. /\ got' \in [Ends -> [Ids -> 0 .. MaxData]]
         /\ \A z \in Ends, i \in Ids : got'[z][i] = IF z = e /\ i = id THEN 0 ELSE got[z][i]
    <3>1. got \in [Ends -> [Ids -> 0 .. MaxData]] /\ 0 \in 0 .. MaxData
      BY SMTT(30), <2>1, NumbersAssumption DEF Types
    <3> QED
      BY <2>4, <2>5, <2>8, <3>1
  <2>17. /\ link' \in [Ends -> Seq(CellSet)] /\ link'[e] = link[e]
         /\ link'[f] = Append(link[f], Cell("BEGIN", id))
    <3>1. Cell("BEGIN", id) \in CellSet
      BY <2>4 DEF Cell, CellSet, Cmds
    <3> QED
      BY SMTT(30), <2>1, <2>5, <2>8, <3>1 DEF Types
  <2>18. /\ next_id' \in Ids /\ ~ Fresh(id)' /\ \A i \in Ids : i # id => (Fresh(i)' <=> Fresh(i))
    BY <2>1, <2>2, <2>3, <2>5, FirstFree DEF Fresh, Ahead
  <2>19. Types'
    <3>1. begun' \in 0 .. MaxBegins
      BY SMTT(30), <2>1, NumbersAssumption DEF Types
    <3>2. incoming' \in Seq(Ids) /\ Len(incoming') <= QueueLimit /\ deciding' \subseteq Ids
          /\ control' \in Seq(Ids) /\ early' \subseteq Ends
      BY <2>1 DEF Types
    <3> QED
      BY <2>12, <2>13, <2>14, <2>15, <2>16, <2>17, <2>18, <3>1, <3>2 DEF Types
  <2>20. PeerIsUnderstood'
    <3>1. map'[e].err = map[e].err /\ map'[f].err = map[f].err
      BY <2>9, <2>10, <2>11, <2>12
    <3> QED
      BY <2>1, <2>8, <3>1 DEF IndInv, PeerIsUnderstood
  <2>21. \A i \in Ids : SameEnd(f, i) /\ (i # id => Local(e, i, "none", "none"))
    <3>1. ASSUME NEW i \in Ids, i # id PROVE Local(e, i, "none", "none")
      BY SMTT(30), <2>1, <2>8, <2>9, <2>10, <2>11, <2>12, <2>13, <2>15, <2>16, <3>1 DEF Local, StillOpen, ClosedBy
    <3>2. ASSUME NEW i \in Ids PROVE SameEnd(f, i)
      BY <2>1, <2>8, <2>12, <2>13, <2>14, <2>15, <2>16, <3>2 DEF SameEnd
    <3> QED
      BY <3>1, <3>2
  <2>22. EndMeansAll'
    <3>1. ASSUME NEW i \in Ids, i # id
          PROVE  /\ i \in obj'[e] /\ map'[e].closed[i] = "EndReceived" /\ ~ IsOpen(map'[e], i)
                      => got'[e][i] = sent'[f][i]
                 /\ i \in obj'[f] /\ map'[f].closed[i] = "EndReceived" /\ ~ IsOpen(map'[f], i)
                      => got'[f][i] = sent'[e][i]
      <4>1. Fits(e, i, "none") /\ Ready(e, i, "none")
        BY DEF Fits, Ready
      <4> QED
        BY <2>1, <2>8, <2>21, <3>1, <4>1, TurnTold
    <3>2. IsOpen(map'[e], id) /\ id \notin obj'[f]
      BY <2>7, <2>10, <2>11, <2>12, <2>13 DEF Untouched
    <3>3. ASSUME NEW z \in Ends, NEW i \in obj'[z], map'[z].closed[i] = "EndReceived", ~ IsOpen(map'[z], i)
          PROVE  got'[z][i] = sent'[Peer(z)][i]
      <4> USE <3>3
      <4>1. i \in Ids
        BY <2>13
      <4>2. CASE z = f
        BY <2>8, <3>1, <3>2, <4>1, <4>2
      <4>3. CASE z = e
        BY <2>8, <3>1, <3>2, <4>1, <4>3
      <4> QED
        BY <2>8, <4>2, <4>3
    <3> QED
      BY <3>3 DEF EndMeansAll
  <2>23. WellOrdered(link[e]) /\ WellOrdered(link[f])
    BY <2>1, <2>8 DEF StreamInv, QueueInv
  <2>24. WellOrdered(link'[f]) /\ \A i \in Ids : Put(f, i, On(id, "BEGIN", i))
    <3>1. "BEGIN" \in Cmds /\ ~ Has(link[f], "END", id)
      BY <2>7 DEF Cmds, NoCells
    <3> QED
      BY <2>1, <2>4, <2>7, <2>8, <2>17, <2>23, <3>1, PutFacts
  <2>25. \A i \in Ids : Taken(e, i, "none")
    <3>1. \A i \in Ids : Taken(e, i, On(id, "none", i))
      BY <2>1, <2>4, <2>8, <2>17, <2>23, TakenFacts
    <3> QED
      BY <3>1 DEF On
  <2>26. Undecided' = Undecided
    BY <2>1 DEF Undecided
  <2>27. ASSUME NEW i \in Ids, i # id PROVE IdInv(i)'
    <3> USE <2>27
    <3>1. IdInv(i) /\ (~ IsOpen(map[e], i) => msgs[e][i] = <<>>)
      BY <2>1, <2>8 DEF StreamInv, IdInv, EndInv
    <3>2. Fits(e, i, "none") /\ Ready(e, i, "none")
      BY DEF Fits, Ready
    <3>3. IsOpen(map'[e], i) <=> IsOpen(map[e], i)
      BY <2>9, <2>10, <2>11, <2>12
    <3>4. Popped(e, i, "none")
      BY <2>8, <2>14, <3>1, <3>3 DEF Popped
    <3>5. Put(f, i, Answer(e, i, "none", "none"))
      BY <2>24 DEF On, Answer
    <3>6. SameFresh(i) /\ (i \in Undecided' <=> i \in Undecided \/ "none" = "BEGIN")
      BY <2>18, <2>26 DEF SameFresh
    <3>7. TurnOn(e, f, i, "none", "none")
      BY <2>21, <2>25, <3>2, <3>4, <3>5, <3>6 DEF TurnOn
    <3> QED
      BY <2>1, <2>8, <2>19, <3>1, <3>7, TurnId
  <2>28. IdInv(id)'
    <3>1. /\ IsOpen(map'["client"], id) /\ map'["client"].closed[id] = "None"
          /\ id \in map'["client"].expecting /\ id \notin expired'["client"]
          /\ msgs'["client"][id] = <<>> /\ sent'["client"][id] = 0 /\ got'["client"][id] = 0
      BY SMTT(30), <2>4, <2>7, <2>8, <2>9, <2>10, <2>11, <2>12, <2>13, <2>14, <2>15, <2>16 DEF Untouched
    <3>2. /\ ~ IsOpen(map'["service"], id) /\ map'["service"].closed[id] = "None"
          /\ id \notin expired'["service"] /\ id \notin obj'["service"]
          /\ msgs'["service"][id] = <<>> /\ sent'["service"][id] = 0 /\ got'["service"][id] = 0
          /\ id \notin Undecided'
      BY SMTT(30), <2>4, <2>7, <2>8, <2>12, <2>13, <2>14, <2>15, <2>16, <2>26 DEF Untouched
    <3>3. /\ Has(link'["service"], "BEGIN", id) /\ ~ Has(link'["service"], "CONNECTED", id)
          /\ ~ Has(link'["service"], "DATA", id) /\ ~ Has(link'["service"], "END", id)
      BY <2>4, <2>7, <2>8, <2>24 DEF Put, On, NoCells
    <3>4. /\ ~ Has(link'["client"], "BEGIN", id) /\ ~ Has(link'["client"], "CONNECTED", id)
          /\ ~ Has(link'["client"], "DATA", id) /\ ~ Has(link'["client"], "END", id)
      BY <2>7, <2>8, <2>17 DEF NoCells
    <3>5. Began("client", id)' /\ ~ Began("service", id)' /\ Waits(id)'
      BY <2>18, <3>3 DEF Began, Waits
    <3>6. EndInv("client", "service", id)'
      BY <3>1, <3>2, <3>3, <3>4, <3>5 DEF EndInv
    <3>7. EndInv("service", "client", id)'
      BY <3>1, <3>2, <3>3, <3>4, <3>5 DEF EndInv, Untouched, NoCells
    <3>8. ConnInv(id)'
      BY <3>1, <3>2, <3>3, <3>4, QueueEmpty DEF ConnInv, Unanswered, Connected
    <3>9. Num(link'["client"], Cell("DATA", id)) = 0 /\ Num(link'["service"], Cell("DATA", id)) = 0
      <4>1. \A z \in Ends : link'[z] \in Seq(CellSet)
        BY <2>17
      <4>2. /\ \A j \in 1 .. Len(link'["client"]) : link'["client"][j] # Cell("DATA", id)
            /\ \A j \in 1 .. Len(link'["service"]) : link'["service"][j] # Cell("DATA", id)
        BY <3>3, <3>4 DEF Has
      <4>3. link'["client"] \in Seq(CellSet) /\ link'["service"] \in Seq(CellSet)
        BY <2>8, <4>1
      <4> QED
        BY <4>2, <4>3, NumNone, KindFacts
    <3>10. DataInv("client", "service", id)' /\ DataInv("service", "client", id)'
      BY SMTT(30), <3>1, <3>2, <3>9, QueueEmpty DEF DataInv, OnWay
    <3> QED
      BY <3>6, <3>7, <3>8, <3>10 DEF IdInv
  <2>29. QueueInv'
    <3>1. \A z \in Ends : WellOrdered(link'[z])
      BY <2>8, <2>17, <2>23, <2>24
    <3> QED
      BY <2>1, <3>1 DEF StreamInv, QueueInv
  <2>30. Begins(id)
    <3>1. IsOpen(map'[e], id) /\ id \in obj'[e] /\ sent'[e][id] = 0 /\ got'[e][id] = 0
      BY <2>4, <2>8, <2>10, <2>11, <2>12, <2>13, <2>15, <2>16
    <3> QED
      BY <2>7, <2>8, <2>21, <3>1 DEF Begins
  <2> QED
    BY <2>4, <2>19, <2>20, <2>22, <2>27, <2>28, <2>29, <2>30 DEF IndInv, StreamInv
<1> QED
  BY <1>1, <1>2

-----------------------------------------------------------------------------
(* The initial states, and every step.                                     *)

\* The invariant holds of two ends that have no streams.
LEMMA InitInd ==
  ASSUME CountLaws, Init
  PROVE  IndInv
<1> USE DEF Init
<1>0. /\ \A e \in Ends : /\ map[e] = [open |-> <<>>, closed |-> [i \in Ids |-> "None"],
                                     expecting |-> {}, err |-> "None"]
                         /\ expired[e] = {} /\ obj[e] = {} /\ link[e] = <<>>
      /\ \A e \in Ends, i \in Ids : msgs[e][i] = <<>> /\ sent[e][i] = 0 /\ got[e][i] = 0
  OBVIOUS
<1>1. \A s, c, id : s = <<>> => ~ Has(s, c, id) /\ WellOrdered(s)
  BY SMTT(30) DEF Has, WellOrdered
<1>2. \A s, i : s = <<>> => i \notin Range(s) /\ IsInjective(s)
  BY SMTT(30) DEF Range, IsInjective
<1>3. Types
  <2>1. [open |-> <<>>, closed |-> [i \in Ids |-> "None"], expecting |-> {}, err |-> "None"] \in MapType
    BY SMTT(30) DEF MapType, Closed, Errors
  <2>2. map \in [Ends -> MapType]
    BY <2>1
  <2>3. \A e \in Ends : IsInjective(map[e].open)
    BY <1>0, <1>2
  <2>4. msgs \in [Ends -> [Ids -> Seq({"DATA", "CONNECTED"})]] /\ link \in [Ends -> Seq(CellSet)]
    BY SMTT(30)
  <2>5. incoming \in Seq(Ids) /\ Len(incoming) <= QueueLimit /\ control \in Seq(Ids)
        /\ begun \in 0 .. MaxBegins
    BY SMTT(30), NumbersAssumption
  <2>6. sent \in [Ends -> [Ids -> 0 .. MaxData]] /\ got \in [Ends -> [Ids -> 0 .. MaxData]]
    BY SMTT(30), NumbersAssumption
  <2> QED
    BY <2>2, <2>3, <2>4, <2>5, <2>6 DEF Types
<1>4. PeerIsUnderstood /\ EndMeansAll
  BY <1>0 DEF PeerIsUnderstood, EndMeansAll
<1>5. QueueInv
  BY <1>0, <1>1, <1>2 DEF QueueInv
<1>6. ASSUME NEW id \in Ids PROVE IdInv(id)
  <2>1. \A e \in Ends : /\ ~ IsOpen(map[e], id) /\ map[e].closed[id] = "None" /\ map[e].expecting = {}
                        /\ id \notin expired[e] /\ id \notin obj[e] /\ msgs[e][id] = <<>>
                        /\ sent[e][id] = 0 /\ got[e][id] = 0 /\ link[e] = <<>> /\ NoCells(e, id)
    BY <1>0, <1>1, <1>2 DEF IsOpen, NoCells
  <2>2. id \notin Undecided
    BY <1>2 DEF Undecided
  <2>3. "client" \in Ends /\ "service" \in Ends
    BY DEF Ends
  <2>4. Fresh(id)
    BY SMTT(30), NumbersAssumption DEF Fresh, Ahead, Ids
  <2>5. \A e \in Ends : Untouched(e, id) /\ ~ Began(e, id)
    BY <2>1, <2>2, <2>4 DEF Untouched, Began
  <2>6. EndInv("client", "service", id) /\ EndInv("service", "client", id)
    BY <2>1, <2>3, <2>5 DEF EndInv, NoCells
  <2>7. ConnInv(id)
    BY <2>1, <2>2, <2>3, QueueEmpty DEF ConnInv, NoCells, Waits
  <2>8. \A e \in Ends : Num(link[e], Cell("DATA", id)) = 0
    BY <1>3, <2>1, NoData DEF NoCells
  <2>9. DataInv("client", "service", id) /\ DataInv("service", "client", id)
    BY SMTT(30), <2>1, <2>3, <2>8, QueueEmpty DEF DataInv, OnWay
  <2> QED
    BY <2>6, <2>7, <2>9 DEF IdInv
<1> QED
  BY <1>3, <1>4, <1>5, <1>6 DEF IndInv, StreamInv

\* Every step keeps the invariant, while there are ids and room for requests.
LEMMA NextInd ==
  ASSUME CountLaws, IndInv, QueueRoom, IdsLeft', [Next]_vars
  PROVE  IndInv'
<1>1. CASE BeginStream
  BY <1>1, BeginInd DEF IdsLeft
<1>2. CASE ClosePendingStream
  BY <1>2, ClosePendingInd
<1>3. CASE NextIncoming
  BY <1>3, NextIncomingInd
<1>4. ASSUME NEW e \in Ends, Turn(e) PROVE IndInv'
  BY <1>4, TurnTurned, TurnedInd
<1>5. ASSUME NEW e \in Ends, NEW id \in Ids, Write(e, id) PROVE IndInv'
  BY <1>5, WriteInd
<1>6. ASSUME NEW e \in Ends, NEW id \in Ids, Drop(e, id) PROVE IndInv'
  BY <1>6, DropInd
<1>7. ASSUME NEW e \in Ends, NEW id \in Ids, Expire(e, id) PROVE IndInv'
  BY <1>7, ExpireInd
<1>8. ASSUME NEW id \in Ids, accept_data(id) PROVE IndInv'
  BY <1>8, AcceptInd
<1>9. ASSUME NEW id \in Ids, reject(id) PROVE IndInv'
  BY <1>9, RejectInd
<1>10. CASE UNCHANGED vars
  <2>1. UNCHANGED <<map, next_id, expired, msgs, obj, incoming, deciding, control, link, begun, sent, got,
                  early>>
    BY <1>10 DEF vars, appVars
  <2>2. Types' /\ PeerIsUnderstood' /\ EndMeansAll' /\ (Running' => Running)
    BY <2>1 DEF IndInv, Types, PeerIsUnderstood, EndMeansAll, Running
  <2>3. Quiet /\ \A i \in Ids : SameApp(i)
    BY <2>1 DEF Quiet, SameApp, SameUndecided, Undecided
  <2>4. Running => QueueInv'
    BY <2>1 DEF IndInv, StreamInv, QueueInv
  <2>5. ASSUME NEW i \in Ids, Running PROVE IdInv(i)'
    <3>1. IdInv(i)
      BY <2>5 DEF IndInv, StreamInv
    <3>2. \A e \in Ends : SameEnd(e, i)
      BY <2>3 DEF SameApp, SameEnd, Quiet
    <3>3. (\A e \in Ends : SameLink(e, i)) /\ SameFresh(i) /\ SameUndecided(i)
      BY <2>3, QuietFacts DEF SameApp
    <3> QED
      BY <3>1, <3>2, <3>3, KeepId
  <2> QED
    BY <2>2, <2>4, <2>5 DEF IndInv, StreamInv
<1> QED
  BY <1>1, <1>2, <1>3, <1>4, <1>5, <1>6, <1>7, <1>8, <1>9, <1>10 DEF Next

\* The inductive invariant has the properties that the runs check as its parts.
LEMMA Implications ==
  ASSUME IndInv
  PROVE  TypeOK /\ PeerIsUnderstood /\ EndMeansAll /\ NoHalfOpenStream
<1>1. Types /\ PeerIsUnderstood /\ EndMeansAll
  BY DEF IndInv
<1>2. TypeOK
  BY <1>1 DEF Types, TypeOK, MapType, Closed, CellSet
<1>3. ASSUME NEW id \in Ids, Running, \A e \in Ends : \A i \in DOMAIN link[e] : link[e][i].id # id
      PROVE  IsOpen(map["client"], id) <=> IsOpen(map["service"], id)
  <2>1. IdInv(id)
    BY <1>3 DEF IndInv, StreamInv
  <2>2. NoCells("client", id) /\ NoCells("service", id)
    <3>1. \A e \in Ends : DOMAIN link[e] = 1 .. Len(link[e])
      BY SMTT(30), <1>1 DEF Types
    <3>2. \A e \in Ends, c \in Cmds : ~ Has(link[e], c, id)
      BY SMTT(30), <1>3, <3>1 DEF Has, Cell
    <3> QED
      BY <3>2 DEF NoCells, Cmds, Ends
  <2> QED
    BY <2>1, <2>2 DEF IdInv, EndInv, NoCells, Untouched, Began, Waits
<1>4. NoHalfOpenStream
  BY <1>3 DEF NoHalfOpenStream
<1> QED
  BY <1>1, <1>2, <1>4

-----------------------------------------------------------------------------
(* What the applications see.                                              *)

\* The application of e sees nothing new of stream i.
SameView(e, i) ==
    /\ (i \in obj'[e] <=> i \in obj[e]) /\ (i \in Over'[e] <=> i \in Over[e])
    /\ sent'[e][i] = sent[e][i] /\ got'[e][i] = got[e][i]

\* A set of streams for each end, when stream n of e alone joins or leaves it.
LEMMA SetsMove ==
  ASSUME NEW A \in [Ends -> SUBSET Ids], NEW B \in [Ends -> SUBSET Ids], NEW e \in Ends, NEW n \in Ids,
         \A z \in Ends, i \in Ids : z # e \/ i # n => (i \in B[z] <=> i \in A[z])
  PROVE  /\ (n \in B[e] <=> n \in A[e]) => B = A
         /\ n \in B[e] => B = [A EXCEPT ![e] = @ \cup {n}]
         /\ n \notin B[e] => B = [A EXCEPT ![e] = @ \ {n}]
<1>1. ASSUME NEW z \in Ends, z # e PROVE B[z] = A[z]
  BY <1>1
<1>2. /\ (n \in B[e] <=> n \in A[e]) => B[e] = A[e]
      /\ n \in B[e] => B[e] = A[e] \cup {n}
      /\ n \notin B[e] => B[e] = A[e] \ {n}
  <2>1. A[e] \subseteq Ids /\ B[e] \subseteq Ids /\ \A i \in Ids : i # n => (i \in B[e] <=> i \in A[e])
    OBVIOUS
  <2>2. \A i : i # n => (i \in B[e] <=> i \in A[e])
    BY <2>1
  <2>3. (n \in B[e] <=> n \in A[e]) => \A i : i \in B[e] <=> i \in A[e]
    BY <2>2
  <2>4. n \in B[e] => \A i : i \in B[e] <=> i \in A[e] \cup {n}
    BY <2>2
  <2>5. n \notin B[e] => \A i : i \in B[e] <=> i \in A[e] \ {n}
    BY <2>2
  <2> QED
    BY <2>3, <2>4, <2>5
<1> QED
  BY SMTT(30), <1>1, <1>2

\* A number for each end and stream, when that of stream n of e alone changes.
LEMMA NumbersMove ==
  ASSUME NEW A \in [Ends -> [Ids -> 0 .. MaxData]], NEW B \in [Ends -> [Ids -> 0 .. MaxData]],
         NEW e \in Ends, NEW n \in Ids, \A z \in Ends, i \in Ids : z # e \/ i # n => B[z][i] = A[z][i]
  PROVE  /\ B[e][n] = A[e][n] => B = A
         /\ B[e][n] = A[e][n] + 1 => B = [A EXCEPT ![e][n] = @ + 1]
<1>1. ASSUME NEW z \in Ends, z # e PROVE B[z] = A[z]
  BY SMTT(30), <1>1
<1>2. /\ B[e][n] = A[e][n] => B[e] = A[e]
      /\ B[e][n] = A[e][n] + 1 => B[e] = [A[e] EXCEPT ![n] = @ + 1]
  BY SMTT(30)
<1> QED
  BY SMTT(30), <1>1, <1>2

\* The streams that an application has been told the end of.
LEMMA OverFacts ==
  ASSUME Types, Types'
  PROVE  /\ Over \in [Ends -> SUBSET Ids] /\ Over' \in [Ends -> SUBSET Ids]
         /\ \A z \in Ends, i \in Ids :
               /\ i \in Over[z] <=> i \in obj[z] /\ map[z].closed[i] = "EndReceived" /\ ~ IsOpen(map[z], i)
               /\ i \in Over'[z] <=> i \in obj'[z] /\ map'[z].closed[i] = "EndReceived" /\ ~ IsOpen(map'[z], i)
<1>1. \A z \in Ends : obj[z] \subseteq Ids /\ obj'[z] \subseteq Ids
  BY DEF Types
<1>2. \A z \in Ends : /\ {i \in obj[z] : map[z].closed[i] = "EndReceived" /\ ~ IsOpen(map[z], i)} \in SUBSET Ids
                      /\ {i \in obj'[z] : map'[z].closed[i] = "EndReceived" /\ ~ IsOpen(map'[z], i)} \in SUBSET Ids
  BY <1>1
<1>3. Over \in [Ends -> SUBSET Ids] /\ Over' \in [Ends -> SUBSET Ids]
  BY <1>2 DEF Over
<1> QED
  BY <1>3 DEF Over

\* When only stream n of e is seen to change, so do the variables.
LEMMA OnlyView ==
  ASSUME Types, Types', NEW e \in Ends, NEW f \in Ends, f = Peer(e), NEW n \in Ids,
         \A i \in Ids : SameView(f, i) /\ (i # n => SameView(e, i))
  PROVE  /\ (n \in obj'[e] <=> n \in obj[e]) => obj' = obj
         /\ n \in obj'[e] => obj' = [obj EXCEPT ![e] = @ \cup {n}]
         /\ n \notin obj'[e] => obj' = [obj EXCEPT ![e] = @ \ {n}]
         /\ (n \in Over'[e] <=> n \in Over[e]) => Over' = Over
         /\ n \in Over'[e] => Over' = [Over EXCEPT ![e] = @ \cup {n}]
         /\ n \notin Over'[e] => Over' = [Over EXCEPT ![e] = @ \ {n}]
         /\ sent'[e][n] = sent[e][n] => sent' = sent
         /\ sent'[e][n] = sent[e][n] + 1 => sent' = [sent EXCEPT ![e][n] = @ + 1]
         /\ got'[e][n] = got[e][n] => got' = got
         /\ got'[e][n] = got[e][n] + 1 => got' = [got EXCEPT ![e][n] = @ + 1]
<1>1. Over \in [Ends -> SUBSET Ids] /\ Over' \in [Ends -> SUBSET Ids]
  BY OverFacts
<1>2. Ends = {e, f} /\ e # f /\ Ends \ {e} = {f}
  BY DEF Ends, Peer
<1>3. \A z \in Ends, i \in Ids : z # e \/ i # n => SameView(z, i)
  BY <1>2
<1>4. /\ (n \in obj'[e] <=> n \in obj[e]) => obj' = obj
      /\ n \in obj'[e] => obj' = [obj EXCEPT ![e] = @ \cup {n}]
      /\ n \notin obj'[e] => obj' = [obj EXCEPT ![e] = @ \ {n}]
  <2>1. \A z \in Ends, i \in Ids : z # e \/ i # n => (i \in obj'[z] <=> i \in obj[z])
    BY <1>3 DEF SameView
  <2>2. obj \in [Ends -> SUBSET Ids] /\ obj' \in [Ends -> SUBSET Ids]
    BY DEF Types
  <2> QED
    BY <2>1, <2>2, SetsMove
<1>5. /\ (n \in Over'[e] <=> n \in Over[e]) => Over' = Over
      /\ n \in Over'[e] => Over' = [Over EXCEPT ![e] = @ \cup {n}]
      /\ n \notin Over'[e] => Over' = [Over EXCEPT ![e] = @ \ {n}]
  <2>1. \A z \in Ends, i \in Ids : z # e \/ i # n => (i \in Over'[z] <=> i \in Over[z])
    BY <1>3 DEF SameView
  <2> QED
    BY <1>1, <2>1, SetsMove
<1>6. /\ sent'[e][n] = sent[e][n] => sent' = sent
      /\ sent'[e][n] = sent[e][n] + 1 => sent' = [sent EXCEPT ![e][n] = @ + 1]
  <2>1. \A z \in Ends, i \in Ids : z # e \/ i # n => sent'[z][i] = sent[z][i]
    BY <1>3 DEF SameView
  <2>2. sent \in [Ends -> [Ids -> 0 .. MaxData]] /\ sent' \in [Ends -> [Ids -> 0 .. MaxData]]
    BY DEF Types
  <2> QED
    BY SMTT(30), <2>1, <2>2, NumbersMove
<1>7. /\ got'[e][n] = got[e][n] => got' = got
      /\ got'[e][n] = got[e][n] + 1 => got' = [got EXCEPT ![e][n] = @ + 1]
  <2>1. \A z \in Ends, i \in Ids : z # e \/ i # n => got'[z][i] = got[z][i]
    BY <1>3 DEF SameView
  <2>2. got \in [Ends -> [Ids -> 0 .. MaxData]] /\ got' \in [Ends -> [Ids -> 0 .. MaxData]]
    BY DEF Types
  <2> QED
    BY SMTT(30), <2>1, <2>2, NumbersMove
<1> QED
  BY <1>4, <1>5, <1>6, <1>7

\* One end takes a stream, writes to it, receives from it, hears of its end or lets
\* go of it, and nothing else is seen of any stream: a step of the reliable streams.
LEMMA OneView ==
  ASSUME Types, Types', NEW e \in Ends, NEW f \in Ends, f = Peer(e), NEW n \in Ids,
         \A i \in Ids : SameView(f, i) /\ (i # n => SameView(e, i)),
         \/ SameView(e, n)
         \/ /\ n \notin obj[e] /\ n \in obj'[e] /\ n \notin Over'[e] /\ sent[e][n] = 0 /\ got[e][n] = 0
            /\ sent'[e][n] = 0 /\ got'[e][n] = 0
         \/ /\ n \in obj[e] \ Over[e] /\ n \in obj'[e] \ Over'[e] /\ sent'[e][n] = sent[e][n] + 1
            /\ got'[e][n] = got[e][n]
         \/ /\ n \in obj[e] \ Over[e] /\ n \in obj'[e] \ Over'[e] /\ sent'[e][n] = sent[e][n]
            /\ got'[e][n] = got[e][n] + 1 /\ got[e][n] < sent[f][n]
         \/ /\ n \in obj[e] \ Over[e] /\ n \in obj'[e] /\ n \in Over'[e] /\ sent'[e][n] = sent[e][n]
            /\ got'[e][n] = got[e][n] /\ n \notin obj[f] /\ got[e][n] = sent[f][n]
         \/ n \in obj[e] /\ n \notin obj'[e] /\ sent'[e][n] = sent[e][n] /\ got'[e][n] = got[e][n]
  PROVE  [Reliable!Next]_(Reliable!vars)
<1>1. Ends = {e, f} /\ e # f /\ Ends \ {e} = {f}
  BY DEF Ends, Peer
<1>2. (n \notin obj'[e] => n \notin Over'[e]) /\ (n \notin obj[e] => n \notin Over[e])
  BY OverFacts
<1>3. /\ (n \in obj'[e] <=> n \in obj[e]) => obj' = obj
      /\ n \in obj'[e] => obj' = [obj EXCEPT ![e] = @ \cup {n}]
      /\ n \notin obj'[e] => obj' = [obj EXCEPT ![e] = @ \ {n}]
      /\ (n \in Over'[e] <=> n \in Over[e]) => Over' = Over
      /\ n \in Over'[e] => Over' = [Over EXCEPT ![e] = @ \cup {n}]
      /\ n \notin Over'[e] => Over' = [Over EXCEPT ![e] = @ \ {n}]
      /\ sent'[e][n] = sent[e][n] => sent' = sent
      /\ sent'[e][n] = sent[e][n] + 1 => sent' = [sent EXCEPT ![e][n] = @ + 1]
      /\ got'[e][n] = got[e][n] => got' = got
      /\ got'[e][n] = got[e][n] + 1 => got' = [got EXCEPT ![e][n] = @ + 1]
  BY OnlyView
<1>4. CASE SameView(e, n)
  BY <1>3, <1>4 DEF SameView, Reliable!vars
<1>5. CASE /\ n \notin obj[e] /\ n \in obj'[e] /\ n \notin Over'[e] /\ sent[e][n] = 0 /\ got[e][n] = 0
           /\ sent'[e][n] = 0 /\ got'[e][n] = 0
  <2>1. Reliable!Take(e, n)
    BY <1>2, <1>3, <1>5 DEF Reliable!Take
  <2> QED
    BY <2>1 DEF Reliable!Next
<1>6. CASE /\ n \in obj[e] \ Over[e] /\ n \in obj'[e] \ Over'[e] /\ sent'[e][n] = sent[e][n] + 1
           /\ got'[e][n] = got[e][n]
  <2>1. Reliable!Write(e, n)
    BY <1>3, <1>6 DEF Reliable!Write
  <2> QED
    BY <2>1 DEF Reliable!Next
<1>7. CASE /\ n \in obj[e] \ Over[e] /\ n \in obj'[e] \ Over'[e] /\ sent'[e][n] = sent[e][n]
           /\ got'[e][n] = got[e][n] + 1 /\ got[e][n] < sent[f][n]
  <2>1. Reliable!Receive(e, n)
    BY <1>1, <1>3, <1>7 DEF Reliable!Receive
  <2> QED
    BY <2>1 DEF Reliable!Next
<1>8. CASE /\ n \in obj[e] \ Over[e] /\ n \in obj'[e] /\ n \in Over'[e] /\ sent'[e][n] = sent[e][n]
           /\ got'[e][n] = got[e][n] /\ n \notin obj[f] /\ got[e][n] = sent[f][n]
  <2>1. Reliable!Finish(e, n)
    BY <1>1, <1>3, <1>8 DEF Reliable!Finish
  <2> QED
    BY <2>1 DEF Reliable!Next
<1>9. CASE n \in obj[e] /\ n \notin obj'[e] /\ sent'[e][n] = sent[e][n] /\ got'[e][n] = got[e][n]
  <2>1. Reliable!Release(e, n)
    BY <1>2, <1>3, <1>9 DEF Reliable!Release
  <2> QED
    BY <2>1 DEF Reliable!Next
<1> QED
  BY <1>4, <1>5, <1>6, <1>7, <1>8, <1>9

\* A turn of which the application of e sees nothing new about stream i.
LEMMA LocalView ==
  ASSUME Types, Types', NEW e \in Ends, NEW i \in Ids, NEW c, NEW d, Fits(e, i, c), Ready(e, i, d),
         Local(e, i, c, d), c # "BEGIN", IsOpen(map[e], i) /\ i \in obj[e] => c \notin {"DATA", "END"}
  PROVE  SameView(e, i)
<1>1. (i \in obj'[e] <=> i \in obj[e]) /\ sent'[e][i] = sent[e][i] /\ got'[e][i] = got[e][i]
  BY DEF Local
<1>2. ASSUME i \in obj[e]
      PROVE  /\ map'[e].closed[i] = "EndReceived" <=> map[e].closed[i] = "EndReceived"
             /\ IsOpen(map'[e], i) <=> IsOpen(map[e], i)
  BY <1>2 DEF Local, Fits, Ready, StillOpen, ClosedBy
<1> QED
  BY <1>1, <1>2, OverFacts DEF SameView

\* An end at which nothing happens.
LEMMA EndView ==
  ASSUME Types, Types', NEW f \in Ends, NEW i \in Ids, SameEnd(f, i)
  PROVE  SameView(f, i)
  BY OverFacts DEF SameEnd, SameView

\* A turn of a reactor: the application gets a request, a message or an END, if anything.
LEMMA TurnedView ==
  ASSUME CountLaws, IndInv, IndInv', Running, NEW e \in Ends, Turned(e)
  PROVE  [Reliable!Next]_(Reliable!vars)
<1>1. PICK n, c, b, k, d, x, m, queues, cells, rest :
         Turns(e, Peer(e), n, c, b, k, d, x, m, queues, cells, rest)
  BY DEF Turned
<1> DEFINE f == Peer(e)
           cn == On(n, b, n)
           dn == On(k, x, n)
<1>2. Types /\ Types' /\ StreamInv /\ EndMeansAll' /\ f \in Ends /\ f = Peer(e) /\ Peer(f) = e /\ n \in Ids
      /\ b \in {c, "none"} /\ cn = b
      /\ ((e = "client" /\ f = "service") \/ (e = "service" /\ f = "client"))
  BY <1>1 DEF IndInv, Turns, Peer, Ends, On
<1>3. \A i \in Ids : /\ Fits(e, i, On(n, b, i)) /\ Ready(e, i, On(k, x, i)) /\ Taken(e, i, On(n, c, i))
                     /\ Local(e, i, On(n, b, i), On(k, x, i)) /\ SameEnd(f, i)
  BY <1>1, <1>2, TurnParts
<1> HIDE DEF f
<1>4. \A i \in Ids : SameView(f, i)
  BY <1>2, <1>3, EndView
<1>5. \A i \in Ids : i # n => SameView(e, i)
  <2> SUFFICES ASSUME NEW i \in Ids, i # n PROVE SameView(e, i)
    OBVIOUS
  <2>1. Fits(e, i, "none") /\ Local(e, i, "none", On(k, x, i)) /\ Ready(e, i, On(k, x, i))
    BY <1>3 DEF On
  <2> QED
    BY <1>2, <2>1, LocalView
<1>6. Fits(e, n, b) /\ Ready(e, n, dn) /\ Local(e, n, b, dn) /\ Taken(e, n, c) /\ IdInv(n) /\ SameEnd(f, n)
  BY <1>2, <1>3 DEF On, StreamInv
<1> HIDE DEF cn, dn
<1>7. CASE b = "BEGIN"
  <2>1. e = "service" /\ Waits(n)
    BY <1>2, <1>6, <1>7 DEF Fits, Taken, Waits
  <2>2. Untouched(e, n)
    BY <1>6, <2>1 DEF IdInv, EndInv, Began
  <2>3. n \in obj'[e] /\ sent'[e][n] = 0 /\ got'[e][n] = 0 /\ n \notin Over'[e]
    <3>1. IsOpen(map'[e], n)
      BY <1>6, <1>7, <2>2 DEF Local, StillOpen, Ready, Untouched
    <3> QED
      BY <1>2, <1>6, <1>7, <3>1, OverFacts DEF Local
  <2> QED
    BY <1>2, <1>4, <1>5, <2>2, <2>3, OneView DEF Untouched
<1>8. CASE b = "DATA" /\ IsOpen(map[e], n) /\ n \in obj[e]
  <2>1. /\ n \in obj'[e] /\ sent'[e][n] = sent[e][n] /\ got'[e][n] = got[e][n] + 1
        /\ IsOpen(map'[e], n) /\ n \notin Over[e] /\ n \notin Over'[e]
    <3>1. IsOpen(map'[e], n)
      BY <1>6, <1>8 DEF Local, StillOpen, Ready
    <3> QED
      BY <1>2, <1>6, <1>8, <3>1, OverFacts DEF Local
  <2>2. got[e][n] < sent[f][n]
    <3>1. got[e][n] + OnWay(f, e, n) <= sent[f][n]
      BY <1>2, <1>6 DEF IdInv, DataInv
    <3>2. Num(link[e], Cell("DATA", n)) = Num(link'[e], Cell("DATA", n)) + 1
      BY <1>2, <1>6, <1>8 DEF Taken
    <3>3. Num(link'[e], Cell("DATA", n)) \in Nat /\ Num(msgs[f][n], "DATA") \in Nat
      <4>1. link'[e] \in Seq(CellSet) /\ msgs[f][n] \in Seq({"DATA", "CONNECTED"})
        BY SMTT(30), <1>2 DEF Types
      <4> QED
        BY <4>1, NumNat, KindFacts
    <3>4. got[e][n] \in Nat /\ sent[f][n] \in Nat
      BY SMTT(30), <1>2, NumbersAssumption DEF Types
    <3> QED
      BY SMTT(30), <3>1, <3>2, <3>3, <3>4 DEF OnWay
  <2> QED
    BY <1>2, <1>4, <1>5, <1>8, <2>1, <2>2, OneView
<1>9. CASE b = "END" /\ IsOpen(map[e], n) /\ n \in obj[e]
  <2>1. /\ n \in obj'[e] /\ sent'[e][n] = sent[e][n] /\ got'[e][n] = got[e][n]
        /\ n \notin Over[e] /\ n \in Over'[e]
    <3>1. ~ IsOpen(map'[e], n) /\ map'[e].closed[n] = "EndReceived"
      BY <1>6, <1>9 DEF Local, StillOpen, Ready, ClosedBy
    <3> QED
      BY <1>2, <1>6, <1>9, <3>1, OverFacts DEF Local
  <2>2. got'[e][n] = sent'[f][n]
    BY <1>2, <2>1, OverFacts DEF EndMeansAll
  <2>3. sent'[f][n] = sent[f][n]
    BY <1>6 DEF SameEnd
  <2>4. n \notin obj[f]
    BY <1>2, <1>6, <1>9 DEF Taken, IdInv, EndInv
  <2> QED
    BY <1>2, <1>4, <1>5, <1>9, <2>1, <2>2, <2>3, <2>4, OneView
<1>10. CASE b # "BEGIN" /\ (IsOpen(map[e], n) /\ n \in obj[e] => b \notin {"DATA", "END"})
  <2>1. SameView(e, n)
    BY <1>2, <1>6, <1>10, LocalView
  <2> QED
    BY <1>2, <1>4, <1>5, <2>1, OneView
<1> QED
  BY <1>7, <1>8, <1>9, <1>10

\* The client begins a stream, or finds no id for it.
LEMMA BeginView ==
  ASSUME CountLaws, IndInv, IndInv', BeginStream, begun' <= MaxId
  PROVE  [Reliable!Next]_(Reliable!vars)
<1>0. Types /\ Types' /\ "client" \in Ends /\ "service" \in Ends /\ "service" = Peer("client")
  BY DEF IndInv, Ends, Peer
<1>1. CASE Free = {}
  <2>1. UNCHANGED <<obj, sent, got>> /\ map' = [map EXCEPT !["client"] = Fail(@, "IdRangeFull")]
    BY <1>1 DEF BeginStream
  <2>2. Good(map["client"]) /\ "IdRangeFull" \in Errors
    BY <1>0 DEF Types, Good, Errors
  <2>3. /\ \A i : IsOpen(Fail(map["client"], "IdRangeFull"), i) <=> IsOpen(map["client"], i)
        /\ Fail(map["client"], "IdRangeFull").closed = map["client"].closed
    BY <2>2, FailFacts
  <2>4. /\ map'["client"] = Fail(map["client"], "IdRangeFull") /\ map'["service"] = map["service"]
    BY <1>0, <2>1 DEF Types
  <2>5. ASSUME NEW e \in Ends, NEW i \in Ids PROVE SameView(e, i)
    <3>1. (IsOpen(map'[e], i) <=> IsOpen(map[e], i)) /\ map'[e].closed = map[e].closed
      BY <2>3, <2>4 DEF Ends
    <3> QED
      BY <1>0, <2>1, <3>1, OverFacts DEF SameView
  <2>6. 1 \in Ids
    BY SMTT(30), NumbersAssumption DEF Ids
  <2> QED
    BY <1>0, <2>5, <2>6, OneView
<1>2. CASE Free # {}
  <2>1. PICK id \in Ids : Begins(id)
    BY <1>2, BeginInd
  <2>2. \A i \in Ids : SameView("service", i)
    BY <1>0, <2>1, EndView DEF Begins
  <2>3. ASSUME NEW i \in Ids, i # id PROVE SameView("client", i)
    <3>1. Fits("client", i, "none") /\ Ready("client", i, "none") /\ Local("client", i, "none", "none")
      BY <2>1, <2>3 DEF Fits, Ready, Begins
    <3> QED
      BY <1>0, <3>1, LocalView
  <2>4. id \notin Over'["client"]
    BY <1>0, <2>1, OverFacts DEF Begins
  <2> QED
    <3> DEFINE e == "client"
               f == "service"
    <3>1. /\ e \in Ends /\ f \in Ends /\ f = Peer(e) /\ \A i \in Ids : SameView(f, i) /\ (i # id => SameView(e, i))
          /\ id \notin obj[e] /\ id \in obj'[e] /\ id \notin Over'[e] /\ sent[e][id] = 0 /\ got[e][id] = 0
          /\ sent'[e][id] = 0 /\ got'[e][id] = 0
      BY <1>0, <2>1, <2>2, <2>3, <2>4 DEF Begins, Untouched
    <3> HIDE DEF e, f
    <3> QED
      BY <1>0, <3>1, OneView
<1> QED
  BY <1>1, <1>2

\* The reactor of the service closes a stream, and its application lets go of it.
LEMMA ClosePendingView ==
  ASSUME CountLaws, IndInv, IndInv', ClosePendingStream
  PROVE  [Reliable!Next]_(Reliable!vars)
<1>0. Types /\ Types' /\ "client" \in Ends /\ "service" \in Ends /\ "client" = Peer("service")
  BY DEF IndInv, Ends, Peer
<1>1. PICK id \in Ids : Closes(id)
  BY ClosePendingInd
<1>2. \A i \in Ids : SameView("client", i)
  BY <1>0, <1>1, EndView DEF Closes
<1>3. ASSUME NEW i \in Ids, i # id PROVE SameView("service", i)
  <2>1. Fits("service", i, "none") /\ Ready("service", i, "none") /\ Local("service", i, "none", "none")
    BY <1>1, <1>3 DEF Fits, Ready, Closes
  <2> QED
    BY <1>0, <2>1, LocalView
<1>4. id \notin obj'["service"] /\ sent'["service"][id] = sent["service"][id]
      /\ got'["service"][id] = got["service"][id]
  BY <1>1 DEF Closes
<1> DEFINE e == "service"
           f == "client"
<1>5. e \in Ends /\ f \in Ends /\ f = Peer(e) /\ \A i \in Ids : SameView(f, i) /\ (i # id => SameView(e, i))
  BY <1>0, <1>2, <1>3
<1>6. id \notin obj'[e] /\ sent'[e][id] = sent[e][id] /\ got'[e][id] = got[e][id]
  BY <1>4
<1> HIDE DEF e, f
<1>7. CASE id \in obj[e]
  BY <1>0, <1>5, <1>6, <1>7, OneView
<1>8. CASE id \notin obj[e]
  <2>1. SameView(e, id)
    BY <1>0, <1>5, <1>6, <1>8, OverFacts DEF SameView
  <2> QED
    BY <1>0, <1>5, <2>1, OneView
<1> QED
  BY <1>7, <1>8

\* An application writes to a stream that is open.
LEMMA WriteView ==
  ASSUME IndInv, IndInv', NEW e \in Ends, NEW id \in Ids, Write(e, id)
  PROVE  [Reliable!Next]_(Reliable!vars)
<1> DEFINE f == Peer(e)
<1>0. Types /\ Types' /\ f \in Ends /\ f = Peer(e) /\ e # f
  BY DEF IndInv, Ends, Peer
<1>1. /\ id \in obj[e] /\ IsOpen(map[e], id) /\ map' = map /\ obj' = obj /\ got' = got
      /\ sent' = [sent EXCEPT ![e][id] = @ + 1]
  BY DEF Write
<1> HIDE DEF f
<1>2. sent'[e][id] = sent[e][id] + 1 /\ \A z \in Ends, i \in Ids : z # e \/ i # id => sent'[z][i] = sent[z][i]
  BY <1>0, <1>1 DEF Types
<1>3. \A z \in Ends, i \in Ids : i \in Over'[z] <=> i \in Over[z]
  BY <1>0, <1>1, OverFacts
<1>4. \A i \in Ids : SameView(f, i) /\ (i # id => SameView(e, i))
  BY <1>0, <1>1, <1>2, <1>3 DEF SameView
<1>5. id \notin Over[e] /\ id \notin Over'[e]
  BY <1>0, <1>1, OverFacts
<1> QED
  BY <1>0, <1>1, <1>2, <1>4, <1>5, OneView

\* An application lets go of a stream, or does nothing that the other could see.
LEMMA DropView ==
  ASSUME IndInv, IndInv', NEW e \in Ends, NEW id \in Ids, UNCHANGED <<map, sent, got>>,
         obj' = obj \/ (id \in obj[e] /\ obj' = [obj EXCEPT ![e] = @ \ {id}])
  PROVE  [Reliable!Next]_(Reliable!vars)
<1>1. CASE obj' = obj
  BY <1>1 DEF Over, Reliable!vars
<1>2. CASE id \in obj[e] /\ obj' = [obj EXCEPT ![e] = @ \ {id}]
  <2> DEFINE f == Peer(e)
  <2>1. Types /\ Types' /\ f \in Ends /\ f = Peer(e) /\ e # f
    BY DEF IndInv, Ends, Peer
  <2> HIDE DEF f
  <2>2. id \notin obj'[e] /\ \A z \in Ends, i \in Ids : z # e \/ i # id => (i \in obj'[z] <=> i \in obj[z])
    BY <1>2, <2>1 DEF Types
  <2>3. \A z \in Ends, i \in Ids : z # e \/ i # id => (i \in Over'[z] <=> i \in Over[z])
    BY <2>1, <2>2, OverFacts
  <2>4. \A i \in Ids : SameView(f, i) /\ (i # id => SameView(e, i))
    BY <2>1, <2>2, <2>3 DEF SameView
  <2> QED
    BY <1>2, <2>1, <2>2, <2>4, OneView
<1> QED
  BY <1>1, <1>2

\* Every step is one of the reliable streams, or none that they show.
LEMMA NextView ==
  ASSUME CountLaws, IndInv, IndInv', QueueRoom, IdsLeft', [Next]_vars
  PROVE  [Reliable!Next]_(Reliable!vars)
<1>1. CASE BeginStream
  BY <1>1, BeginView DEF IdsLeft
<1>2. CASE ClosePendingStream
  BY <1>2, ClosePendingView
<1>3. ASSUME NEW e \in Ends, Turn(e) PROVE [Reliable!Next]_(Reliable!vars)
  BY <1>3, TurnTurned, TurnedView
<1>4. ASSUME NEW e \in Ends, NEW id \in Ids, Write(e, id) PROVE [Reliable!Next]_(Reliable!vars)
  BY <1>4, WriteView
<1>5. ASSUME NEW e \in Ends, NEW id \in Ids, Drop(e, id) PROVE [Reliable!Next]_(Reliable!vars)
  BY <1>5, DropView DEF Drop
<1>6. ASSUME NEW id \in Ids, accept_data(id) PROVE [Reliable!Next]_(Reliable!vars)
  <2>1. "service" \in Ends /\ Types /\ Running /\ id \in deciding
    BY <1>6 DEF Ends, IndInv, accept_data
  <2>2. id \in obj["service"]
    BY <2>1 DEF IndInv, StreamInv, IdInv, ConnInv, Undecided
  <2>3. UNCHANGED <<map, sent, got>> /\ obj' \in {obj, [obj EXCEPT !["service"] = @ \ {id}]}
    BY <1>6 DEF accept_data
  <2> QED
    BY <2>1, <2>2, <2>3, DropView
<1>7. CASE UNCHANGED <<map, obj, sent, got>>
  BY <1>7 DEF Over, Reliable!vars
<1>8. NextIncoming \/ (\E e \in Ends, id \in Ids : Expire(e, id)) \/ (\E id \in Ids : reject(id)) \/ UNCHANGED vars
         => UNCHANGED <<map, obj, sent, got>>
  BY DEF NextIncoming, Expire, reject, vars, appVars
<1> QED
  BY <1>1, <1>2, <1>3, <1>4, <1>5, <1>6, <1>7, <1>8 DEF Next

-----------------------------------------------------------------------------
(* Requests are counted.                                                   *)

\* The requests that are queued or on their way are among the streams begun.
Asked(s) == [i \in 1 .. Len(s) |-> s[i].cmd]
Counted == Len(incoming) + Num(Asked(link["service"]), "BEGIN") <= begun

\* Sequences that agree everywhere are the same.
LEMMA SameSeq ==
  ASSUME NEW S, NEW s \in Seq(S), NEW t \in Seq(S), Len(s) = Len(t), \A i \in 1 .. Len(t) : s[i] = t[i]
  PROVE  s = t
<1>1. DOMAIN s = 1 .. Len(t) /\ DOMAIN t = 1 .. Len(t)
  BY SMTT(30)
<1>2. s = [i \in 1 .. Len(t) |-> s[i]] /\ t = [i \in 1 .. Len(t) |-> t[i]]
  BY SMTT(30)
<1> QED
  BY <1>2

\* The commands of the cells on a link.
LEMMA AskedType ==
  ASSUME CountLaws, NEW q \in Seq(CellSet)
  PROVE  /\ Asked(q) \in Seq(Cmds) /\ Len(Asked(q)) = Len(q)
         /\ \A i \in 1 .. Len(q) : Asked(q)[i] = q[i].cmd
         /\ Num(Asked(q), "BEGIN") \in Nat
<1>1. \A c \in CellSet : c.cmd \in Cmds
  BY DEF CellSet
<1>2. \A i \in 1 .. Len(q) : q[i] \in CellSet
  BY SMTT(30)
<1>3. \A i \in 1 .. Len(q) : q[i].cmd \in Cmds
  BY <1>1, <1>2
<1>4. Asked(q) \in Seq(Cmds) /\ Len(Asked(q)) = Len(q)
  BY SMTT(30), <1>3 DEF Asked
<1>5. \A i \in 1 .. Len(q) : Asked(q)[i] = q[i].cmd
  BY DEF Asked
<1> QED
  BY <1>4, <1>5, NumNat, KindFacts

\* A cell is put on the link ...
LEMMA AskedAppend ==
  ASSUME CountLaws, NEW q \in Seq(CellSet), NEW x \in Cmds, NEW n \in Ids
  PROVE  Num(Asked(Append(q, Cell(x, n))), "BEGIN") = Num(Asked(q), "BEGIN") + IF x = "BEGIN" THEN 1 ELSE 0
<1> DEFINE c == Cell(x, n)
           r == Append(q, c)
           s == Asked(q)
           t == Asked(r)
<1>1. c \in CellSet /\ c.cmd = x
  BY DEF Cell, CellSet
<1> HIDE DEF c
<1>2. /\ r \in Seq(CellSet) /\ Len(r) = Len(q) + 1 /\ Len(q) \in Nat /\ r[Len(q) + 1] = c
      /\ \A i \in 1 .. Len(q) : r[i] = q[i]
  BY SMTT(30), <1>1
<1> HIDE DEF r
<1>3. s \in Seq(Cmds) /\ Len(s) = Len(q) /\ \A i \in 1 .. Len(q) : s[i] = q[i].cmd
  BY AskedType
<1> t \in Seq(Cmds) /\ Len(t) = Len(q) + 1 /\ \A i \in 1 .. Len(q) + 1 : t[i] = r[i].cmd
  BY <1>2, AskedType
<1>5. t[Len(q) + 1] = x /\ \A i \in 1 .. Len(q) : t[i] = s[i]
  BY SMTT(30), <1>1, <1>2, <1>3
<1> HIDE DEF s, t
<1>6. t = Append(s, x)
  <2>1. Append(s, x) \in Seq(Cmds) /\ Len(Append(s, x)) = Len(t)
        /\ \A i \in 1 .. Len(t) : Append(s, x)[i] = t[i]
    BY SMTT(30), <1>2, <1>3, <1>5
  <2> QED
    BY <2>1, SameSeq
<1>7. Num(t, "BEGIN") = Num(s, "BEGIN") + IF x = "BEGIN" THEN 1 ELSE 0
  BY SMTT(30), <1>3, <1>6, NumAppend, KindFacts
<1> QED
  BY <1>7 DEF r, c, s, t

\* ... or taken from it.
LEMMA AskedTail ==
  ASSUME CountLaws, NEW q \in Seq(CellSet), q # <<>>
  PROVE  Num(Asked(q), "BEGIN") = Num(Asked(Tail(q)), "BEGIN") + IF Head(q).cmd = "BEGIN" THEN 1 ELSE 0
<1> DEFINE r == Tail(q)
           s == Asked(q)
           t == Asked(r)
<1>1. /\ r \in Seq(CellSet) /\ Len(r) = Len(q) - 1 /\ Len(q) \in Nat \ {0} /\ Head(q) = q[1]
      /\ \A i \in 1 .. Len(q) - 1 : r[i] = q[i + 1]
  BY SMTT(30)
<1> HIDE DEF r
<1>2. s \in Seq(Cmds) /\ Len(s) = Len(q) /\ \A i \in 1 .. Len(q) : s[i] = q[i].cmd
  BY AskedType
<1>3. t \in Seq(Cmds) /\ Len(t) = Len(q) - 1 /\ \A i \in 1 .. Len(q) - 1 : t[i] = r[i].cmd
  BY <1>1, AskedType
<1> s[1] = Head(q).cmd /\ \A i \in 1 .. Len(q) - 1 : t[i] = s[i + 1]
  BY SMTT(30), <1>1, <1>2, <1>3
<1> HIDE DEF s, t
<1> s # <<>> /\ Head(s) = Head(q).cmd
  BY SMTT(30), <1>1, <1>2
<1>6. t = Tail(s)
  <2>1. Tail(s) \in Seq(Cmds) /\ Len(Tail(s)) = Len(t) /\ \A i \in 1 .. Len(t) : Tail(s)[i] = t[i]
    BY SMTT(30), <1>1, <1>2, <1>3
  <2> QED
    BY <1>3, <2>1, SameSeq
<1>7. Num(s, "BEGIN") = Num(t, "BEGIN") + IF Head(s) = "BEGIN" THEN 1 ELSE 0
  BY <1>2, <1>6, NumTail, KindFacts
<1> QED
  BY <1>7 DEF r, s, t

\* A cell other than BEGIN is sent, a cell arrives, or a request is taken.
Moves ==
    \/ link'["service"] = link["service"] /\ incoming' = incoming
    \/ /\ link["service"] # <<>> /\ link'["service"] = Tail(link["service"])
       /\ \/ incoming' = incoming
          \/ Head(link["service"]).cmd = "BEGIN" /\ \E n \in Ids : incoming' = Append(incoming, n)
    \/ /\ incoming' = incoming
       /\ \E x \in {"END", "DATA", "CONNECTED"}, k \in Ids :
             link'["service"] = Append(link["service"], Cell(x, k))
    \/ link'["service"] = link["service"] /\ incoming # <<>> /\ incoming' = Tail(incoming)

\* None of these makes requests more than the streams begun.
LEMMA MovesCount ==
  ASSUME CountLaws, Types, Counted, Moves, begun' = begun
  PROVE  Counted'
<1> DEFINE q == link["service"]
           r == link'["service"]
           x == Num(Asked(q), "BEGIN")
           y == Num(Asked(r), "BEGIN")
           z == Len(incoming')
<1>1. q \in Seq(CellSet) /\ incoming \in Seq(Ids) /\ Len(incoming) \in Nat /\ begun \in Nat
  BY SMTT(30) DEF Types, Ends
<1>2. x \in Nat /\ Len(incoming) + x <= begun
  BY <1>1, AskedType DEF Counted
<1>3. CASE r = q /\ incoming' = incoming
  BY <1>3 DEF Counted
<1>4. CASE q # <<>> /\ r = Tail(q) /\ incoming' = incoming
  <2> USE <1>4
  <2>1. Tail(q) \in Seq(CellSet) /\ x = y + IF Head(q).cmd = "BEGIN" THEN 1 ELSE 0
    BY SMTT(30), <1>1, AskedTail
  <2>2. y \in Nat
    BY <2>1, AskedType
  <2> HIDE DEF x, y
  <2>3. Len(incoming) + y <= begun
    BY SMTT(30), <1>1, <1>2, <2>1, <2>2
  <2> QED
    BY <2>3 DEF Counted, y
<1>5. ASSUME q # <<>>, r = Tail(q), Head(q).cmd = "BEGIN", NEW n \in Ids, incoming' = Append(incoming, n)
      PROVE  Counted'
  <2> USE <1>5
  <2>1. Tail(q) \in Seq(CellSet) /\ x = y + 1
    BY SMTT(30), <1>1, AskedTail
  <2>2. y \in Nat
    BY <2>1, AskedType
  <2>3. z = Len(incoming) + 1
    BY SMTT(30), <1>1
  <2> HIDE DEF x, y, z
  <2>4. z + y <= begun
    BY SMTT(30), <1>1, <1>2, <2>1, <2>2, <2>3
  <2> QED
    BY <2>4 DEF Counted, y, z
<1>6. ASSUME incoming' = incoming, NEW c \in {"END", "DATA", "CONNECTED"}, NEW k \in Ids,
             r = Append(q, Cell(c, k))
      PROVE  Counted'
  <2>1. c \in Cmds /\ c # "BEGIN"
    BY DEF Cmds
  <2>2. y = x + 0
    BY SMTT(30), <1>1, <1>6, <2>1, AskedAppend
  <2>3. Len(incoming) + y <= begun
    BY SMTT(30), <1>2, <2>2
  <2> QED
    BY <1>6, <2>3 DEF Counted
<1>7. CASE r = q /\ incoming # <<>> /\ incoming' = Tail(incoming)
  <2>1. z \in Nat /\ z <= Len(incoming)
    BY SMTT(30), <1>1, <1>7
  <2> HIDE DEF x, z
  <2>2. z + x <= begun
    BY SMTT(30), <1>1, <1>2, <2>1
  <2> QED
    BY <1>7, <2>2 DEF Counted, x, z
<1> QED
  BY <1>3, <1>4, <1>5, <1>6, <1>7 DEF Moves

\* What a reactor sends of itself is no request.
LEMMA SentMoves ==
  ASSUME Types, NEW e \in Ends, NEW m, NEW queues, NEW M, NEW k \in Ids,
         NEW d \in {"CloseStream", "DATA", "CONNECTED"}, NEW cells, cells \in {<<>>, CmdCells(M, k, d)},
         NEW rest, EndTurn(e, m, queues, cells, rest),
         \/ rest = link[e] /\ incoming' = incoming
         \/ /\ link[e] # <<>> /\ rest = Tail(link[e])
            /\ \/ incoming' = incoming
               \/ e = "service" /\ Head(link[e]).cmd = "BEGIN" /\ \E n \in Ids : incoming' = Append(incoming, n)
  PROVE  Moves
<1>0. link \in [Ends -> Seq(CellSet)] /\ Ends = {"client", "service"}
  BY DEF Types, Ends
<1>1. CASE e = "service"
  <2>1. link'["service"] = rest
    BY <1>0, <1>1 DEF EndTurn, Peer
  <2> QED
    BY <1>1, <2>1 DEF Moves
<1>2. CASE e = "client"
  <2>1. link'["service"] = link["service"] \o cells /\ incoming' = incoming
    BY <1>0, <1>2 DEF EndTurn, Peer
  <2>2. cells = <<>> \/ \E x \in {"END", "DATA", "CONNECTED"} : cells = <<Cell(x, k)>>
    BY DEF CmdCells
  <2>3. link["service"] \in Seq(CellSet)
    BY <1>0
  <2>4. CASE cells = <<>>
    BY SMTT(30), <2>1, <2>3, <2>4 DEF Moves
  <2>5. ASSUME NEW x \in {"END", "DATA", "CONNECTED"}, cells = <<Cell(x, k)>> PROVE Moves
    <3>1. Cell(x, k) \in CellSet
      BY DEF Cell, CellSet, Cmds
    <3>2. link'["service"] = Append(link["service"], Cell(x, k))
      BY SMTT(30), <2>1, <2>3, <2>5, <3>1
    <3> QED
      BY <2>1, <3>2 DEF Moves
  <2> QED
    BY <2>2, <2>4, <2>5
<1> QED
  BY <1>0, <1>1, <1>2

\* A turn of a reactor makes no request.
LEMMA TurnMoves ==
  ASSUME CountLaws, IndInv, QueueRoom, NEW e \in Ends, Turn(e)
  PROVE  begun' = begun /\ Moves
<1>0. Running /\ Types /\ StreamInv
  BY DEF Turn, Listen, Talk, ListenAndTalk, MayPoll, IndInv
<1>1. CASE Talk(e)
  <2>1. PICK k \in poll_ready_streams_iter(e) :
         EndTurn(e, RunCmd(Polled(e, k), k, CircuitCmd(e, k)), Queues(e, k),
                 CmdCells(Polled(e, k), k, CircuitCmd(e, k)), link[e])
    BY <1>1 DEF Talk
  <2>2. k \in Ids /\ CircuitCmd(e, k) \in {"CloseStream", "DATA", "CONNECTED"}
    BY <1>0, PollFacts
  <2>3. begun' = begun /\ incoming' = incoming
    BY <1>1 DEF Talk
  <2> QED
    BY <1>0, <2>1, <2>2, <2>3, SentMoves
<1>2. ASSUME link[e] # <<>>, NEW m, Deliver(e, m, Head(link[e]))
      PROVE  /\ Replies(e, m, Head(link[e])) = <<>>
             /\ \/ incoming' = incoming
                \/ e = "service" /\ Head(link[e]).cmd = "BEGIN" /\ \E n \in Ids : incoming' = Append(incoming, n)
  <2> PICK c \in Cmds, n \in Ids :
       /\ Head(link[e]) = Cell(c, n)
       /\ Expected(e, map[e], Cell(c, n)) \/ Late(e, map[e], Cell(c, n))
       /\ ~ Refused(e, map[e], Cell(c, n))
    BY <1>0, <1>2, ArrivalFacts
  <2> Cell(c, n).cmd = c /\ Cell(c, n).id = n
    BY DEF Cell
  <2>3. c = "BEGIN" => e = "service"
    BY DEF Expected, Late
  <2>4. incoming' = incoming \/ (c = "BEGIN" /\ incoming' = Append(incoming, n))
    BY <1>2 DEF Deliver, IsRequest
  <2> QED
    BY <2>3, <2>4 DEF Replies
<1>3. CASE Listen(e)
  <2>1. PICK m : EndTurn(e, m, msgs[e], Replies(e, m, Head(link[e])), Tail(link[e])) /\ Deliver(e, m, Head(link[e]))
    BY <1>3 DEF Listen
  <2>2. begun' = begun /\ link[e] # <<>>
    BY <1>3 DEF Listen
  <2>3. 1 \in Ids
    BY SMTT(30), NumbersAssumption DEF Ids
  <2>4. Replies(e, m, Head(link[e])) = <<>>
    BY <1>2, <2>1, <2>2
  <2> QED
    BY <1>0, <1>2, <2>1, <2>2, <2>3, <2>4, SentMoves
<1>4. CASE ListenAndTalk(e)
  <2>1. PICK k \in poll_ready_streams_iter(e) :
         LET cell == Head(link[e])
             cmd == CircuitCmd(e, k)
             m == handle_cell(e, Polled(e, k), cell)
         IN  /\ IF m.err = "None"
                THEN EndTurn(e, RunCmd(m, k, cmd), Queues(e, k),
                             Replies(e, m, cell) \o CmdCells(m, k, cmd), Tail(link[e]))
                ELSE EndTurn(e, m, Queues(e, k), <<>>, Tail(link[e]))
             /\ Deliver(e, m, cell)
    BY <1>4 DEF ListenAndTalk
  <2>2. k \in Ids /\ CircuitCmd(e, k) \in {"CloseStream", "DATA", "CONNECTED"}
    BY <1>0, PollFacts
  <2>3. begun' = begun /\ link[e] # <<>>
    BY <1>4 DEF ListenAndTalk
  <2> PICK d : d = CircuitCmd(e, k)
    OBVIOUS
  <2>5. PICK m : m = handle_cell(e, Polled(e, k), Head(link[e]))
    OBVIOUS
  <2>6. /\ IF m.err = "None" THEN EndTurn(e, RunCmd(m, k, d), Queues(e, k),
                                          Replies(e, m, Head(link[e])) \o CmdCells(m, k, d), Tail(link[e]))
                             ELSE EndTurn(e, m, Queues(e, k), <<>>, Tail(link[e]))
        /\ Deliver(e, m, Head(link[e]))
    BY <2>1, <2>5
  <2>7. <<>> \o CmdCells(m, k, d) = CmdCells(m, k, d)
    BY SMTT(30), <2>2 DEF CmdCells
  <2>8. \E M, cells : EndTurn(e, M, Queues(e, k), cells, Tail(link[e])) /\ cells \in {<<>>, CmdCells(m, k, d)}
    BY <1>2, <2>3, <2>6, <2>7
  <2> QED
    BY <1>0, <1>2, <2>2, <2>3, <2>6, <2>8, SentMoves
<1> QED
  BY <1>1, <1>3, <1>4 DEF Turn

\* Every step keeps the requests among the streams begun.
LEMMA NextCount ==
  ASSUME CountLaws, IndInv, QueueRoom, IdsLeft', Counted, [Next]_vars
  PROVE  Counted'
<1>0. Types /\ (Running => StreamInv) /\ link \in [Ends -> Seq(CellSet)]
      /\ "service" \in Ends /\ "client" \in Ends
  BY DEF IndInv, Types, Ends
<1>1. CASE BeginStream
  <2> USE <1>1
  <2>1. begun' = begun + 1 /\ incoming' = incoming
    BY DEF BeginStream
  <2>2. begun \in Nat /\ link["service"] \in Seq(CellSet) /\ Len(incoming) \in Nat
    BY SMTT(30), <1>0 DEF Types
  <2> DEFINE x == Num(Asked(link["service"]), "BEGIN")
             y == Num(Asked(link'["service"]), "BEGIN")
  <2>3. x \in Nat /\ Len(incoming) + x <= begun
    BY <2>2, AskedType DEF Counted
  <2>4. Free # {} /\ Tried(Min(Free)) = next_id /\ next_id \in Ids
    <3>1. StreamInv /\ begun + 1 <= MaxId /\ next_id \in Ids
      BY <1>0, <2>1 DEF BeginStream, IdsLeft, Types
    <3> QED
      BY <1>0, <3>1, FirstFree
  <2>5. link'["service"] = Append(link["service"], Cell("BEGIN", next_id))
    BY <1>0, <2>4 DEF BeginStream
  <2>6. y = x + 1
    BY <2>2, <2>4, <2>5, AskedAppend DEF Cmds
  <2> HIDE DEF x, y
  <2>7. Len(incoming) + y <= begun + 1
    BY SMTT(30), <2>2, <2>3, <2>6
  <2> QED
    BY <2>1, <2>7 DEF Counted, y
<1>2. CASE begun' = begun /\ Moves
  BY <1>0, <1>2, MovesCount
<1>3. CASE ClosePendingStream
  <2>1. begun' = begun /\ incoming' = incoming /\ link'["service"] = link["service"]
    BY <1>0, <1>3 DEF ClosePendingStream, EndTurn, Peer
  <2> QED
    BY <1>2, <2>1 DEF Moves
<1>4. CASE NextIncoming
  BY <1>2, <1>4 DEF Moves, NextIncoming
<1>5. ASSUME NEW e \in Ends, Turn(e) PROVE Counted'
  BY <1>0, <1>2, <1>5, TurnMoves
<1>6. ASSUME NEW e \in Ends, NEW id \in Ids, Write(e, id) \/ Drop(e, id) \/ Expire(e, id) PROVE Counted'
  BY <1>2, <1>6 DEF Moves, Write, Drop, Expire, appVars
<1>7. ASSUME NEW id \in Ids, accept_data(id) \/ reject(id) PROVE Counted'
  BY <1>2, <1>7 DEF Moves, accept_data, reject
<1>8. CASE UNCHANGED vars
  BY <1>2, <1>8 DEF Moves, vars, appVars
<1> QED
  BY <1>1, <1>3, <1>4, <1>5, <1>6, <1>7, <1>8 DEF Next

\* The requests that the client may make fit into the ids and into the queue.
Ample == MaxBegins <= MaxId /\ MaxBegins <= QueueLimit

\* So many requests have room.
LEMMA CountedRoom ==
  ASSUME CountLaws, Ample, Types, Counted
  PROVE  Room
<1> DEFINE q == link["service"]
           x == Num(Asked(q), "BEGIN")
<1> /\ q \in Seq(CellSet) /\ Len(incoming) \in Nat /\ begun \in Nat /\ begun <= MaxBegins
    /\ MaxBegins \in Nat /\ MaxId \in Nat /\ QueueLimit \in Nat
  BY SMTT(30), NumbersAssumption DEF Types, Ends
<1>2. IdsLeft
  BY SMTT(30) DEF IdsLeft, Ample
<1>3. ASSUME q # <<>>, Head(q).cmd = "BEGIN" PROVE Len(incoming) < QueueLimit
  <2> DEFINE y == Num(Asked(Tail(q)), "BEGIN")
  <2>1. Tail(q) \in Seq(CellSet) /\ x = y + 1 /\ Len(incoming) + x <= begun
    BY SMTT(30), <1>3, AskedTail DEF Counted
  <2>2. y \in Nat
    BY <2>1, AskedType
  <2> HIDE DEF x, y
  <2> QED
    BY SMTT(30), <2>1, <2>2 DEF Ample
<1>4. QueueRoom
  BY SMTT(30), <1>3 DEF QueueRoom
<1> QED
  BY <1>2, <1>4 DEF Room

-----------------------------------------------------------------------------
(* Counting.                                                               *)

\* What is known of finite sets is needed for this only.
INSTANCE FiniteSetTheorems

\* The occurrences of an element in a sequence are a number ...
LEMMA CountType ==
  ASSUME NEW S, NEW s \in Seq(S), NEW x
  PROVE  Num(s, x) \in Nat
<1>1. IsFiniteSet({i \in 1 .. Len(s) : s[i] = x})
  BY SMTT(30), FS_Interval, FS_Subset
<1> QED
  BY <1>1, FS_CardinalityType DEF Num

\* ... which is 0 for an element that does not occur,
LEMMA CountNone ==
  ASSUME NEW S, NEW s \in Seq(S), NEW x, \A i \in 1 .. Len(s) : s[i] # x
  PROVE  Num(s, x) = 0
<1>1. {i \in 1 .. Len(s) : s[i] = x} = {}
  OBVIOUS
<1> QED
  BY <1>1, FS_EmptySet DEF Num

\* ... grows with an element appended,
LEMMA CountAppend ==
  ASSUME NEW S, NEW s \in Seq(S), NEW x, NEW y \in S
  PROVE  Num(Append(s, y), x) = Num(s, x) + (IF y = x THEN 1 ELSE 0)
<1> DEFINE r == Append(s, y)
           A == {i \in 1 .. Len(s) : s[i] = x}
           B == {i \in 1 .. Len(r) : r[i] = x}
<1>1. /\ r \in Seq(S) /\ Len(r) = Len(s) + 1 /\ r[Len(s) + 1] = y
      /\ \A i \in 1 .. Len(s) : r[i] = s[i]
  BY SMTT(30)
<1> HIDE DEF r
<1>2. IsFiniteSet(A)
  BY SMTT(30), FS_Interval, FS_Subset
<1>3. CASE y = x
  <2>1. B = A \cup {Len(s) + 1} /\ Len(s) + 1 \notin A
    BY SMTT(30), <1>1, <1>3
  <2> HIDE DEF A, B
  <2>2. Cardinality(B) = Cardinality(A) + 1
    BY <1>2, <2>1, FS_AddElement
  <2> QED
    BY <1>3, <2>2 DEF Num, A, B, r
<1>4. CASE y # x
  <2>1. B = A
    BY SMTT(30), <1>1, <1>4
  <2> HIDE DEF A, B
  <2>2. Num(s, x) = Cardinality(A) /\ Num(Append(s, y), x) = Cardinality(B)
    BY DEF Num, A, B, r
  <2>3. Cardinality(A) \in Nat
    BY <1>2, FS_CardinalityType
  <2> QED
    BY SMTT(30), <1>4, <2>1, <2>2, <2>3
<1> QED
  BY <1>3, <1>4

\* ... and shrinks with the first one taken away.
LEMMA CountTail ==
  ASSUME NEW S, NEW s \in Seq(S), s # <<>>, NEW x
  PROVE  Num(s, x) = Num(Tail(s), x) + (IF Head(s) = x THEN 1 ELSE 0)
<1> DEFINE r == Tail(s)
           A == {i \in 1 .. Len(r) : r[i] = x}
           B == {i \in 1 .. Len(s) : s[i] = x}
           C == B \ {1}
           f == [i \in A |-> i + 1]
<1>1. /\ r \in Seq(S) /\ Len(s) >= 1 /\ Len(s) \in Nat /\ Len(r) = Len(s) - 1 /\ Head(s) = s[1]
      /\ \A i \in 1 .. Len(s) - 1 : r[i] = s[i + 1]
  BY SMTT(30)
<1>2. Num(s, x) = Cardinality(B) /\ Num(Tail(s), x) = Cardinality(A)
  BY DEF Num
<1> HIDE DEF r
<1>3. IsFiniteSet(A) /\ IsFiniteSet(C)
  <2>1. IsFiniteSet(1 .. Len(r)) /\ IsFiniteSet(1 .. Len(s))
    BY SMTT(30), <1>1, FS_Interval
  <2>2. A \subseteq 1 .. Len(r) /\ C \subseteq 1 .. Len(s)
    OBVIOUS
  <2> HIDE DEF A, C
  <2> QED
    BY <2>1, <2>2, FS_Subset
<1>4. f \in Bijection(A, C)
  <2>1. \A i \in A : i + 1 \in C
    BY SMTT(30), <1>1
  <2>2. \A j \in C : j - 1 \in A /\ (j - 1) + 1 = j
    BY SMTT(30), <1>1
  <2>3. f \in [A -> C] /\ \A i, j \in A : f[i] = f[j] => i = j
    BY SMTT(30), <1>1, <2>1
  <2>4. \A j \in C : \E i \in A : f[i] = j
    BY <1>1, <2>2
  <2> HIDE DEF A, C, f
  <2> QED
    BY <2>3, <2>4 DEF Bijection, Injection, Surjection, IsInjective
<1>5. Cardinality(A) = Cardinality(C) /\ Cardinality(C) \in Nat
  <2> HIDE DEF f, A, C
  <2>1. ExistsBijection(A, C)
    BY <1>4 DEF ExistsBijection
  <2> QED
    BY <1>3, <2>1, FS_Bijection, FS_CardinalityType
<1>6. CASE Head(s) = x
  <2>1. 1 \notin C /\ B = C \cup {1}
    BY SMTT(30), <1>1, <1>6
  <2> HIDE DEF A, B, C
  <2>2. Cardinality(B) = Cardinality(C) + 1
    BY <1>3, <2>1, FS_AddElement
  <2> QED
    BY <1>2, <1>5, <1>6, <2>2
<1>7. CASE Head(s) # x
  <2>1. B = C
    BY <1>1, <1>7
  <2> HIDE DEF A, B, C
  <2> QED
    BY SMTT(30), <1>2, <1>5, <1>7, <2>1
<1> QED
  BY <1>6, <1>7
\* The laws of counting that the lemmas above assume.
LEMMA Counting == CountLaws
<1> SUFFICES ASSUME NEW S \in Kinds, NEW s \in Seq(S), NEW x
             PROVE  /\ Num(s, x) \in Nat
                    /\ (\A i \in 1 .. Len(s) : s[i] # x) => Num(s, x) = 0
                    /\ \A y \in S : Num(Append(s, y), x) = Num(s, x) + (IF y = x THEN 1 ELSE 0)
                    /\ s # <<>> => Num(s, x) = Num(Tail(s), x) + (IF Head(s) = x THEN 1 ELSE 0)
  BY DEF CountLaws
<1>1. Num(s, x) \in Nat
  BY CountType
<1>2. (\A i \in 1 .. Len(s) : s[i] # x) => Num(s, x) = 0
  BY CountNone
<1>3. \A y \in S : Num(Append(s, y), x) = Num(s, x) + (IF y = x THEN 1 ELSE 0)
  BY SMTT(30), CountAppend
<1>4. s # <<>> => Num(s, x) = Num(Tail(s), x) + (IF Head(s) = x THEN 1 ELSE 0)
  BY CountTail
<1> QED
  BY <1>1, <1>2, <1>3, <1>4

-----------------------------------------------------------------------------
(* The theorems.                                                           *)

\* Every behaviour in which requests are not refused and ids do not come round
\* satisfies the inductive invariant.
THEOREM Invariance == Spec /\ []Room => []IndInv
<1>1. Init => IndInv
  BY InitInd, Counting
<1>2. IndInv /\ Room /\ Room' /\ [Next]_vars => IndInv'
  BY NextInd, Counting DEF Room
<1> QED
  BY <1>1, <1>2, PTL DEF Spec

\* Every variable keeps its type: in particular, no stream of a StreamMap is listed
\* twice, and the queue of requests never exceeds its capacity.
THEOREM TypeCorrect == Spec /\ []Room => []TypeOK
  BY Invariance, Implications, PTL

\* Neither reactor (handle_msg, check_msg, ending_msg_received, about_to_send) ever
\* stops over something that the other end sent it, in whatever order the two ends
\* begin, accept, reject, write, drop and expire their streams, but for one case: an
\* end whose timer ran out on a half-stream that the other end was not done with may
\* stop over a late cell of a stream that it no longer knows (NoSuchStream).
THEOREM Understood == Spec /\ []Room => []PeerIsUnderstood
  BY Invariance, Implications, PTL

\* When the reactor hands an END to an application, the application has got all the
\* data that the other one wrote: the queue of a dropped stream is flushed before
\* its END is sent.
THEOREM AllDelivered == Spec /\ []Room => []EndMeansAll
  BY Invariance, Implications, PTL

\* A stream of which nothing is on its way is open at both ends or at neither.
THEOREM NoHalfOpen == Spec /\ []Room => []NoHalfOpenStream
  BY Invariance, Implications, PTL

\* The applications see reliable streams: whatever order the reactors poll, deliver
\* and close in, each step of theirs is one of ReliableStreams or shows nothing.
THEOREM StreamsRefine == Spec /\ []Room => StreamsReliable
<1>1. Init => Reliable!Init
  <2> SUFFICES ASSUME Init PROVE Reliable!Init
    OBVIOUS
  <2>1. obj = [e \in Ends |-> {}]
    BY DEF Init
  <2>2. Over = [e \in Ends |-> {}]
    BY SMTT(30), <2>1 DEF Over
  <2> QED
    BY <2>1, <2>2 DEF Init, Reliable!Init
<1>2. IndInv /\ IndInv' /\ Room /\ Room' /\ [Next]_vars => [Reliable!Next]_(Reliable!vars)
  BY NextView, Counting DEF Room
<1> QED
  BY <1>1, <1>2, Invariance, PTL DEF Spec, StreamsReliable, Reliable!Spec

\* A client that begins no more streams than there are ids and room for requests at
\* the service never sees its ids come round, or a request refused.
THEOREM EnoughRoom ==
  ASSUME Ample
  PROVE  Spec => []Room
<1>1. Init => IndInv
  BY InitInd, Counting
<1>2. Init => Counted
  <2> SUFFICES ASSUME Init PROVE Counted
    OBVIOUS
  <2>1. link["service"] = <<>> /\ Len(incoming) = 0 /\ begun = 0
    BY DEF Init, Ends
  <2>2. Asked(<<>>) = <<>>
    BY SMTT(30) DEF Asked
  <2>3. <<>> \in Seq(Cmds) /\ \A i \in 1 .. Len(<<>>) : <<>>[i] # "BEGIN"
    BY SMTT(30)
  <2>4. Num(<<>>, "BEGIN") = 0
    BY <2>3, NumNone, Counting, KindFacts
  <2> QED
    BY SMTT(30), <2>1, <2>2, <2>4 DEF Counted
<1>3. IndInv /\ Counted => Room
  BY CountedRoom, Counting DEF IndInv
<1>4. ASSUME IndInv, [Next]_vars PROVE IdsLeft'
  <2>1. begun \in 0 .. MaxBegins /\ MaxBegins \in Nat /\ MaxId \in Nat
    BY <1>4, NumbersAssumption DEF IndInv, Types
  <2>2. begun' = begun \/ (begun < MaxBegins /\ begun' = begun + 1)
    BY <1>4 DEF Next, Turn, Listen, Talk, ListenAndTalk, BeginStream, ClosePendingStream, NextIncoming,
                Write, Drop, Expire, accept_data, reject, vars, appVars
  <2> QED
    BY SMTT(30), <2>1, <2>2 DEF IdsLeft, Ample
<1>5. IndInv /\ Counted /\ [Next]_vars => IndInv' /\ Counted'
  BY <1>3, <1>4, NextInd, NextCount, Counting DEF Room
<1> QED
  BY <1>1, <1>2, <1>3, <1>5, PTL DEF Spec

\* For such a client all of this holds of every behaviour, however early or late the
\* timers of the half-streams run out: a timer that is too early shows only as the
\* NoSuchStream that PeerIsUnderstood allows.
THEOREM StreamsAgree ==
  ASSUME Ample
  PROVE  Spec => [](TypeOK /\ PeerIsUnderstood /\ EndMeansAll /\ NoHalfOpenStream) /\ StreamsReliable
  BY EnoughRoom, Invariance, Implications, StreamsRefine, PTL

=============================================================================
