--------------------------- MODULE CircStreamsInv ---------------------------
(***************************************************************************)
(* The inductive invariant of the streams of a hop.  It speaks of one      *)
(* stream at a time: what an end knows of it, what the other end knows,    *)
(* and what is on its way between them.  Here are what the operations of   *)
(* the StreamMap do, and what a turn of a reactor does to a stream.        *)
(***************************************************************************)
EXTENDS CircStreams, TLAPS

\* A leaf that names no prover is given to Zenon, for up to 30 seconds.
USE ZenonT(30)

-----------------------------------------------------------------------------
(* Sequences of cells and of messages.                                     *)

\* A cell on a link.
Has(q, c, id) == \E i \in 1 .. Len(q) : q[i] = Cell(c, id)
\* Of the cells about a stream, BEGIN and CONNECTED come before all others and END
\* comes last.
WellOrdered(q) ==
    \A i, j \in 1 .. Len(q) :
        i < j /\ q[i].id = q[j].id => q[i].cmd # "END" /\ q[j].cmd \notin {"BEGIN", "CONNECTED"}
\* How often x occurs in s.
Num(s, x) == Cardinality({i \in 1 .. Len(s) : s[i] = x})
CellSet == [cmd : Cmds, id : Ids]

\* Taking an element out of a sequence that holds it once.
LEMMA RemoveFacts ==
  ASSUME NEW S, NEW s \in Seq(S), IsInjective(s), NEW x
  PROVE  /\ Without(s, x) \in Seq(S) /\ IsInjective(Without(s, x))
         /\ Range(Without(s, x)) = Range(s) \ {x}
<1>1. CASE \E i \in 1 .. Len(s) : s[i] = x
  <2> DEFINE I == {i \in DOMAIN s : s[i] = x}
             k == Min(I)
             r == Without(s, x)
  <2> Len(s) \in Nat /\ k \in 1 .. Len(s) /\ s[k] = x /\ I # {}
    <3> PICK i \in 1 .. Len(s) : s[i] = x
      BY <1>1
    <3>2. I = {i}
      BY SMTT(30) DEF IsInjective
    <3>3. k = i
      BY SMTT(30), <3>2 DEF Min
    <3> QED
      BY SMTT(30), <3>2, <3>3
  <2>2. r = [i \in 1 .. Len(s) - 1 |-> IF i < k THEN s[i] ELSE s[i + 1]]
    BY DEF Without
  <2> HIDE DEF I, k, r
  <2> r \in Seq(S) /\ Len(r) = Len(s) - 1
      /\ \A i \in 1 .. Len(s) - 1 : r[i] = IF i < k THEN s[i] ELSE s[i + 1]
    <3>1. \A i \in 1 .. Len(s) - 1 : (IF i < k THEN s[i] ELSE s[i + 1]) \in S
      BY SMTT(30)
    <3>2. r \in [1 .. Len(s) - 1 -> S] /\ Len(s) - 1 \in Nat
      BY SMTT(30), <2>2, <3>1
    <3>3. r \in Seq(S) /\ Len(r) = Len(s) - 1
      BY SMTT(30), <2>2, <3>2
    <3> QED
      BY <2>2, <3>3
  <2>4. IsInjective(r)
    BY SMTT(30) DEF IsInjective
  <2>5. Range(r) \subseteq Range(s) \ {x}
    BY SMTT(30) DEF IsInjective, Range
  <2>6. ASSUME NEW y \in Range(s) \ {x} PROVE y \in Range(r)
    <3> PICK i \in 1 .. Len(s) : s[i] = y
      BY SMTT(30) DEF Range
    <3>2. i # k
      OBVIOUS
    <3>3. CASE i < k
      BY SMTT(30), <3>3 DEF Range
    <3>4. CASE i > k
      <4>1. i - 1 \in 1 .. Len(s) - 1 /\ r[i - 1] = s[i]
        BY SMTT(30), <3>4
      <4> QED
        BY SMTT(30), <4>1 DEF Range
    <3> QED
      BY SMTT(30), <3>2, <3>3, <3>4
  <2> QED
    BY <2>4, <2>5, <2>6 DEF r
<1>2. CASE ~ \E i \in 1 .. Len(s) : s[i] = x
  <2>1. {i \in DOMAIN s : s[i] = x} = {}
    BY SMTT(30), <1>2
  <2>2. Without(s, x) = s
    BY <2>1 DEF Without
  <2>3. x \notin Range(s)
    BY SMTT(30), <1>2 DEF Range
  <2> QED
    BY <2>2, <2>3
<1> QED
  BY <1>1, <1>2

\* Adding an element at the end.
LEMMA AppendFacts ==
  ASSUME NEW S, NEW s \in Seq(S), NEW x \in S
  PROVE  /\ Append(s, x) \in Seq(S) /\ Range(Append(s, x)) = Range(s) \cup {x}
         /\ IsInjective(s) /\ x \notin Range(s) => IsInjective(Append(s, x))
<1> DEFINE r == Append(s, x)
<1> r \in Seq(S) /\ Len(r) = Len(s) + 1 /\ r[Len(s) + 1] = x /\ \A i \in 1 .. Len(s) : r[i] = s[i]
  BY SMTT(30)
<1> HIDE DEF r
<1>2. Range(r) = Range(s) \cup {x}
  <2>1. Range(r) \subseteq Range(s) \cup {x}
    BY SMTT(30) DEF Range
  <2>2. Range(s) \subseteq Range(r)
    BY SMTT(30) DEF Range
  <2>3. x \in Range(r)
    BY SMTT(30) DEF Range
  <2> QED
    BY <2>1, <2>2, <2>3
<1>3. IsInjective(s) /\ x \notin Range(s) => IsInjective(r)
  BY SMTT(30) DEF IsInjective, Range
<1> QED
  BY <1>2, <1>3 DEF r

\* Taking the first element away.
LEMMA TailFacts ==
  ASSUME NEW S, NEW s \in Seq(S), s # <<>>, IsInjective(s)
  PROVE  /\ Tail(s) \in Seq(S) /\ IsInjective(Tail(s)) /\ Head(s) \in Range(s)
         /\ Range(Tail(s)) = Range(s) \ {Head(s)}
<1> /\ Tail(s) \in Seq(S) /\ Len(s) >= 1 /\ Len(Tail(s)) = Len(s) - 1 /\ Head(s) = s[1]
    /\ \A i \in 1 .. Len(s) - 1 : Tail(s)[i] = s[i + 1]
  BY SMTT(30)
<1> DEFINE r == Tail(s)
<1> HIDE DEF r
<1>2. IsInjective(r)
  BY SMTT(30) DEF IsInjective, r
<1>3. Head(s) \in Range(s)
  BY SMTT(30) DEF Range
<1>4. Range(r) \subseteq Range(s) \ {Head(s)}
  BY SMTT(30) DEF IsInjective, Range, r
<1>5. ASSUME NEW y \in Range(s) \ {Head(s)} PROVE y \in Range(r)
  <2>1. PICK i \in 1 .. Len(s) : s[i] = y
    BY SMTT(30) DEF Range
  <2>2. r \in Seq(S) /\ i - 1 \in 1 .. Len(r) /\ r[i - 1] = y
    BY SMTT(30), <2>1 DEF r
  <2> QED
    BY SMTT(30), <2>2 DEF Range
<1> QED
  BY <1>2, <1>3, <1>4, <1>5 DEF r

-----------------------------------------------------------------------------
(* The cells on a link *)

\* A cell arrives: what comes after it, and what the order of cells tells then.
LEMMA ArriveFacts ==
  ASSUME NEW q \in Seq(CellSet), q # <<>>, WellOrdered(q)
  PROVE  /\ Tail(q) \in Seq(CellSet) /\ Head(q) \in CellSet /\ WellOrdered(Tail(q))
         /\ \A c, id : Has(q, c, id) <=> Has(Tail(q), c, id) \/ Head(q) = Cell(c, id)
         /\ \A c : Has(Tail(q), c, Head(q).id) =>
              Head(q).cmd # "END" /\ c \notin {"BEGIN", "CONNECTED"}
<1>1. /\ Tail(q) \in Seq(CellSet) /\ Len(q) >= 1 /\ Len(Tail(q)) = Len(q) - 1 /\ Head(q) = q[1]
      /\ \A i \in 1 .. Len(q) - 1 : Tail(q)[i] = q[i + 1]
  BY SMTT(30)
<1> DEFINE r == Tail(q)
<1> HIDE DEF r
<1>2. Head(q) \in CellSet
  BY SMTT(30), <1>1
<1>3. WellOrdered(r)
  BY SMTT(30), <1>1 DEF WellOrdered, r
<1>4. ASSUME NEW c, NEW id PROVE Has(q, c, id) <=> Has(r, c, id) \/ Head(q) = Cell(c, id)
  <2>1. ASSUME Has(q, c, id) PROVE Has(r, c, id) \/ Head(q) = Cell(c, id)
    <3>1. PICK i \in 1 .. Len(q) : q[i] = Cell(c, id)
      BY <2>1 DEF Has
    <3>2. CASE i = 1
      BY <1>1, <3>1, <3>2
    <3>3. CASE i # 1
      <4>1. i - 1 \in 1 .. Len(r) /\ r[i - 1] = Cell(c, id)
        BY SMTT(30), <1>1, <3>1, <3>3 DEF r
      <4> QED
        BY <4>1 DEF Has
    <3> QED
      BY <3>2, <3>3
  <2>2. ASSUME Has(r, c, id) PROVE Has(q, c, id)
    <3>1. PICK i \in 1 .. Len(r) : r[i] = Cell(c, id)
      BY <2>2 DEF Has
    <3>2. i + 1 \in 1 .. Len(q) /\ q[i + 1] = Cell(c, id)
      BY SMTT(30), <1>1, <3>1 DEF r
    <3> QED
      BY <3>2 DEF Has
  <2>3. ASSUME Head(q) = Cell(c, id) PROVE Has(q, c, id)
    <3>1. 1 \in 1 .. Len(q) /\ q[1] = Cell(c, id)
      BY SMTT(30), <1>1, <2>3
    <3> QED
      BY <3>1 DEF Has
  <2> QED
    BY <2>1, <2>2, <2>3
<1>5. ASSUME NEW c, Has(r, c, Head(q).id)
      PROVE  Head(q).cmd # "END" /\ c \notin {"BEGIN", "CONNECTED"}
  <2>1. PICK i \in 1 .. Len(r) : r[i] = Cell(c, Head(q).id)
    BY <1>5 DEF Has
  <2>2. /\ 1 \in 1 .. Len(q) /\ i + 1 \in 1 .. Len(q) /\ 1 < i + 1
        /\ q[i + 1].id = q[1].id /\ q[i + 1].cmd = c
    BY SMTT(30), <1>1, <2>1 DEF r, Cell
  <2> QED
    BY <1>1, <2>2 DEF WellOrdered
<1> QED
  BY <1>1, <1>2, <1>3, <1>4, <1>5 DEF r

\* A cell is sent.
LEMMA SendFacts ==
  ASSUME NEW q \in Seq(CellSet), WellOrdered(q), NEW x \in Cmds, NEW n \in Ids,
         ~ Has(q, "END", n), x \in {"BEGIN", "CONNECTED"} => \A c \in Cmds : ~ Has(q, c, n)
  PROVE  /\ Append(q, Cell(x, n)) \in Seq(CellSet) /\ WellOrdered(Append(q, Cell(x, n)))
         /\ \A c, id : Has(Append(q, Cell(x, n)), c, id) <=> Has(q, c, id) \/ (c = x /\ id = n)
<1> DEFINE r == Append(q, Cell(x, n))
<1>0. Cell(x, n) \in CellSet /\ Cell(x, n).cmd = x /\ Cell(x, n).id = n
  BY DEF Cell, CellSet
<1> /\ r \in Seq(CellSet) /\ Len(r) = Len(q) + 1 /\ r[Len(q) + 1] = Cell(x, n)
    /\ \A i \in 1 .. Len(q) : r[i] = q[i]
  BY SMTT(30), <1>0
<1> HIDE DEF r
<1>2. ASSUME NEW i \in 1 .. Len(r), NEW j \in 1 .. Len(r), i < j, r[i].id = r[j].id
      PROVE  r[i].cmd # "END" /\ r[j].cmd \notin {"BEGIN", "CONNECTED"}
  <2> USE <1>2
  <2> i \in 1 .. Len(q) /\ r[i] = q[i] /\ q[i] \in CellSet
    BY SMTT(30)
  <2>2. CASE j \in 1 .. Len(q)
    BY <2>2 DEF WellOrdered
  <2>3. CASE j = Len(q) + 1
    <3>1. q[i] = Cell(q[i].cmd, n) /\ q[i].cmd \in Cmds
      BY <1>0, <2>3 DEF Cell, CellSet
    <3>2. Has(q, q[i].cmd, n)
      BY <3>1 DEF Has
    <3> QED
      BY <1>0, <2>3, <3>1, <3>2
  <2> QED
    BY SMTT(30), <2>2, <2>3
<1>3. WellOrdered(r)
  BY <1>2 DEF WellOrdered
<1>4. ASSUME NEW c, NEW id PROVE Has(r, c, id) <=> Has(q, c, id) \/ (c = x /\ id = n)
  <2>1. Has(q, c, id) => Has(r, c, id)
    BY SMTT(30) DEF Has
  <2>2. c = x /\ id = n => Has(r, c, id)
    BY SMTT(30) DEF Has
  <2>3. ASSUME Has(r, c, id) PROVE Has(q, c, id) \/ (c = x /\ id = n)
    <3> PICK i \in 1 .. Len(r) : r[i] = Cell(c, id)
      BY <2>3 DEF Has
    <3>2. CASE i \in 1 .. Len(q)
      BY <3>2 DEF Has
    <3>3. CASE i = Len(q) + 1
      BY SMTT(30), <3>3 DEF Cell
    <3> QED
      BY SMTT(30), <3>2, <3>3
  <2> QED
    BY <2>1, <2>2, <2>3
<1> QED
  BY <1>3, <1>4 DEF r

-----------------------------------------------------------------------------
(* Counting *)

\* The laws of counting, for the sequences that are counted.
Kinds == {CellSet, Cmds, {"DATA", "CONNECTED"}}
CountLaws ==
    \A S \in Kinds : \A s \in Seq(S) : \A x :
      /\ Num(s, x) \in Nat
      /\ (\A i \in 1 .. Len(s) : s[i] # x) => Num(s, x) = 0
      /\ \A y \in S : Num(Append(s, y), x) = Num(s, x) + (IF y = x THEN 1 ELSE 0)
      /\ s # <<>> => Num(s, x) = Num(Tail(s), x) + (IF Head(s) = x THEN 1 ELSE 0)

\* The laws, one by one: the occurrences of an element are a number ...
LEMMA NumNat ==
  ASSUME CountLaws, NEW S \in Kinds, NEW s \in Seq(S), NEW x
  PROVE  Num(s, x) \in Nat
  BY DEF CountLaws

\* ... which is 0 for an element that does not occur,
LEMMA NumNone ==
  ASSUME CountLaws, NEW S \in Kinds, NEW s \in Seq(S), NEW x, \A i \in 1 .. Len(s) : s[i] # x
  PROVE  Num(s, x) = 0
  BY SMTT(30) DEF CountLaws

\* ... grows with an element appended,
LEMMA NumAppend ==
  ASSUME CountLaws, NEW S \in Kinds, NEW s \in Seq(S), NEW x, NEW y \in S
  PROVE  Num(Append(s, y), x) = Num(s, x) + (IF y = x THEN 1 ELSE 0)
  BY SMTT(30) DEF CountLaws

\* ... and shrinks with the first one taken away.
LEMMA NumTail ==
  ASSUME CountLaws, NEW S \in Kinds, NEW s \in Seq(S), s # <<>>, NEW x
  PROVE  Num(s, x) = Num(Tail(s), x) + (IF Head(s) = x THEN 1 ELSE 0)
  BY SMTT(30) DEF CountLaws

\* The sequences that are counted.
LEMMA KindFacts == CellSet \in Kinds /\ Cmds \in Kinds /\ {"DATA", "CONNECTED"} \in Kinds
  BY DEF Kinds

-----------------------------------------------------------------------------
(* The inductive invariant.                                                *)

\* No cell about the stream is on its way to e.
NoCells(e, id) ==
    /\ ~ Has(link[e], "BEGIN", id) /\ ~ Has(link[e], "CONNECTED", id)
    /\ ~ Has(link[e], "DATA", id) /\ ~ Has(link[e], "END", id)

\* The ids have not come round, and a request finds room in the queue.
IdsLeft == begun <= MaxId
QueueRoom ==
    Len(incoming) >= QueueLimit /\ link["service"] # <<>> => Head(link["service"]).cmd # "BEGIN"
Room == IdsLeft /\ QueueRoom

\* How far next_id is from an id, and whether the client has yet to use it.
Ahead(id) == IF id >= next_id THEN id - next_id ELSE id + MaxId - next_id
Fresh(id) == Ahead(id) + begun < MaxId
\* The request is still on its way; an end knows nothing of a stream before.
Waits(id) == Has(link["service"], "BEGIN", id)
Began(e, id) == ~ Fresh(id) /\ (e = "service" => ~ Waits(id))

\* An end that knows nothing of a stream.
Untouched(e, id) ==
    /\ ~ IsOpen(map[e], id) /\ map[e].closed[id] = "None"
    /\ id \notin expired[e] /\ id \notin obj[e]
    /\ msgs[e][id] = <<>> /\ sent[e][id] = 0 /\ got[e][id] = 0
    /\ e = "service" => id \notin Undecided

\* What end e knows of a stream fits what end f knows of it, and what is on the way
\* from e to f: f is told of a stream that e has no longer, nobody holds a stream that
\* an END has been sent for, and an end that has no entry for a stream is not sent
\* anything about it, unless it has let a half-stream expire too early.
EndInv(e, f, id) ==
    /\ ~ Began(e, id) => Untouched(e, id) /\ NoCells(f, id)
    /\ IsOpen(map[e], id) => map[e].closed[id] = "None"
    /\ Has(link[f], "END", id) => ~ IsOpen(map[e], id) /\ id \notin obj[e]
    /\ Began(e, id) /\ ~ IsOpen(map[e], id)
          => Has(link[f], "END", id) \/ (Began(f, id) /\ ~ IsOpen(map[f], id))
    /\ Began(e, id) /\ ~ IsOpen(map[e], id) /\ map[e].closed[id] # "EndSent"
          /\ (map[e].closed[id] = "EndReceived" \/ e \notin early)
          => ~ IsOpen(map[f], id) /\ NoCells(e, id) /\ Began(f, id)
    /\ id \in expired[e] => map[e].closed[id] = "EndSent"
    /\ id \in expired[e] /\ e \notin early
          => ~ IsOpen(map[f], id) /\ NoCells(e, id) /\ NoCells(f, id)
    /\ ~ IsOpen(map[e], id) => msgs[e][id] = <<>>

\* The client knows, or will hear, that the stream is connected.
Connected(id) ==
    \/ id \notin map["client"].expecting
    \/ Has(link["client"], "CONNECTED", id)
    \/ msgs["service"][id] # <<>> /\ Head(msgs["service"][id]) = "CONNECTED"
\* It does not know, and nothing on its way tells it.
Unanswered(id) ==
    /\ id \in map["client"].expecting
    /\ ~ Has(link["client"], "CONNECTED", id) /\ ~ Has(link["client"], "DATA", id)

\* A queue of messages holds a CONNECTED at its head at most.
OnlyHead(s) == \A k \in 1 .. Len(s) : s[k] = "CONNECTED" => k = 1
OnlyData(s) == \A k \in 1 .. Len(s) : s[k] = "DATA"

\* The client hears CONNECTED once, and before any DATA.
ConnInv(id) ==
    /\ ~ Has(link["client"], "BEGIN", id) /\ ~ Has(link["service"], "CONNECTED", id)
    /\ OnlyData(msgs["client"][id]) /\ OnlyHead(msgs["service"][id])
    /\ Waits(id) => id \in map["client"].expecting
    /\ Has(link["client"], "CONNECTED", id) => id \in map["client"].expecting
    /\ Has(link["client"], "DATA", id)
          => id \notin map["client"].expecting \/ Has(link["client"], "CONNECTED", id)
    /\ msgs["service"][id] # <<>> /\ Head(msgs["service"][id]) = "CONNECTED" => Unanswered(id)
    /\ msgs["service"][id] # <<>> => Connected(id)
    /\ id \in Undecided /\ IsOpen(map["service"], id) => msgs["service"][id] = <<>> /\ Unanswered(id)
    /\ id \in Undecided => id \in obj["service"] /\ map["service"].closed[id] # "EndSent"
    /\ IsOpen(map["service"], id) /\ id \in obj["service"] /\ id \notin Undecided => Connected(id)

\* The DATA between e and f, in the queue of e or on the link, and whether the
\* application at f still counts it.
OnWay(e, f, id) == Num(link[f], Cell("DATA", id)) + Num(msgs[e][id], "DATA")
Wants(f, id) ==
    \/ f = "service" /\ Waits(id)
    \/ id \in obj[f] /\ (IsOpen(map[f], id) \/ map[f].closed[id] = "EndReceived")
\* No DATA is lost on its way to an application that has not dropped its stream.
DataInv(e, f, id) ==
    /\ got[f][id] + OnWay(e, f, id) <= sent[e][id]
    /\ Wants(f, id) => got[f][id] + OnWay(e, f, id) = sent[e][id]

\* All that is known of a stream.
IdInv(id) ==
    /\ ConnInv(id)
    /\ EndInv("client", "service", id) /\ EndInv("service", "client", id)
    /\ DataInv("client", "service", id) /\ DataInv("service", "client", id)

\* A request is in one place.
QueueInv ==
    /\ \A e \in Ends : WellOrdered(link[e])
    /\ IsInjective(incoming) /\ IsInjective(control)
    /\ Range(incoming) \cap deciding = {} /\ Range(incoming) \cap Range(control) = {}
    /\ deciding \cap Range(control) = {}

StreamInv == QueueInv /\ \A id \in Ids : IdInv(id)

\* Types that a proof can use: TypeOK, and that no map holds a stream twice.
Closed == {"None", "EndReceived", "EndSent"}
MapType == [open : Seq(Ids), closed : [Ids -> Closed], expecting : SUBSET Ids, err : Errors]
Types ==
    /\ map \in [Ends -> MapType] /\ \A e \in Ends : IsInjective(map[e].open)
    /\ msgs \in [Ends -> [Ids -> Seq({"DATA", "CONNECTED"})]]
    /\ link \in [Ends -> Seq(CellSet)]
    /\ next_id \in Ids
    /\ expired \in [Ends -> SUBSET Ids] /\ obj \in [Ends -> SUBSET Ids]
    /\ incoming \in Seq(Ids) /\ Len(incoming) <= QueueLimit
    /\ deciding \subseteq Ids /\ control \in Seq(Ids)
    /\ begun \in 0 .. MaxBegins /\ early \subseteq Ends
    /\ sent \in [Ends -> [Ids -> 0 .. MaxData]] /\ got \in [Ends -> [Ids -> 0 .. MaxData]]

\* The inductive invariant.  A reactor that has stopped leaves what is on its way.
IndInv == Types /\ PeerIsUnderstood /\ EndMeansAll /\ (Running => StreamInv)

-----------------------------------------------------------------------------
(* The operations of a StreamMap.                                          *)

\* What a StreamMap tells about its streams, whatever their priorities.
Good(m) == m \in MapType /\ IsInjective(m.open)

\* take_ready_msg only moves the stream to the end.
LEMMA TakeFacts ==
  ASSUME NEW m, Good(m), NEW sid \in Ids, IsOpen(m, sid)
  PROVE  /\ Good(take_ready_msg(m, sid))
         /\ \A i : IsOpen(take_ready_msg(m, sid), i) <=> IsOpen(m, i)
         /\ take_ready_msg(m, sid).closed = m.closed
         /\ take_ready_msg(m, sid).expecting = m.expecting /\ take_ready_msg(m, sid).err = m.err
         /\ Len(take_ready_msg(m, sid).open) \in Nat
<1> DEFINE r == Without(m.open, sid)
           s == Append(r, sid)
<1>1. m.open \in Seq(Ids) /\ m \in MapType /\ IsInjective(m.open)
  BY DEF Good, MapType
<1>2. r \in Seq(Ids) /\ IsInjective(r) /\ Range(r) = Range(m.open) \ {sid}
  BY <1>1, RemoveFacts
<1> HIDE DEF r
<1>3. s \in Seq(Ids) /\ IsInjective(s) /\ Range(s) = Range(m.open)
  <2>1. s \in Seq(Ids) /\ IsInjective(s) /\ Range(s) = Range(r) \cup {sid}
    BY SMTT(30), <1>2, AppendFacts
  <2>2. sid \in Range(m.open)
    BY DEF IsOpen
  <2> HIDE DEF s
  <2> QED
    BY <1>2, <2>1, <2>2
<1>4. take_ready_msg(m, sid) = [m EXCEPT !.open = s]
  BY <1>1 DEF take_ready_msg, r
<1> HIDE DEF s
<1> QED
  BY SMTT(30), <1>1, <1>3, <1>4 DEF Good, MapType, IsOpen

\* terminate closes the stream, if it is open.
LEMMA TerminateFacts ==
  ASSUME NEW m, Good(m), NEW id \in Ids
  PROVE  /\ Good(terminate(m, id))
         /\ \A i : IsOpen(terminate(m, id), i) <=> IsOpen(m, i) /\ i # id
         /\ terminate(m, id).closed =
               [m.closed EXCEPT ![id] = IF IsOpen(m, id) THEN "EndSent" ELSE "None"]
         /\ terminate(m, id).expecting = m.expecting /\ terminate(m, id).err = m.err
<1> DEFINE r == Without(m.open, id)
           k == [m.closed EXCEPT ![id] = IF IsOpen(m, id) THEN "EndSent" ELSE "None"]
<1> m.open \in Seq(Ids) /\ m \in MapType /\ IsInjective(m.open)
  BY DEF Good, MapType
<1>2. r \in Seq(Ids) /\ IsInjective(r) /\ Range(r) = Range(m.open) \ {id}
  BY RemoveFacts
<1>3. k \in [Ids -> Closed]
  BY DEF MapType, Closed
<1>4. terminate(m, id) = [m EXCEPT !.open = r, !.closed = k]
  BY DEF terminate, MapType
<1> HIDE DEF r, k
<1>5. /\ terminate(m, id) \in MapType /\ terminate(m, id).open = r /\ terminate(m, id).closed = k
      /\ terminate(m, id).expecting = m.expecting /\ terminate(m, id).err = m.err
  BY <1>2, <1>3, <1>4 DEF MapType
<1> QED
  BY <1>2, <1>5 DEF Good, IsOpen, k

\* An END is received, on an open stream or on a half-stream.
LEMMA EndingFacts ==
  ASSUME NEW m, Good(m), NEW id \in Ids, IsOpen(m, id) \/ m.closed[id] = "EndSent"
  PROVE  /\ Good(ending_msg_received(m, id))
         /\ \A i : IsOpen(ending_msg_received(m, id), i) <=> IsOpen(m, i) /\ i # id
         /\ ending_msg_received(m, id).closed =
               [m.closed EXCEPT ![id] = IF IsOpen(m, id) THEN "EndReceived" ELSE "None"]
         /\ ending_msg_received(m, id).expecting = m.expecting
         /\ ending_msg_received(m, id).err = m.err
<1> DEFINE r == Without(m.open, id)
           n == ending_msg_received(m, id)
<1> m.open \in Seq(Ids) /\ m \in MapType /\ IsInjective(m.open) /\ m.closed \in [Ids -> Closed]
  BY DEF Good, MapType
<1>2. r \in Seq(Ids) /\ IsInjective(r) /\ Range(r) = Range(m.open) \ {id}
  BY RemoveFacts
<1>3. CASE IsOpen(m, id)
  <2> DEFINE k == [m.closed EXCEPT ![id] = "EndReceived"]
  <2>1. n = [m EXCEPT !.open = r, !.closed = k]
    BY <1>3 DEF ending_msg_received, MapType
  <2>2. k \in [Ids -> Closed]
    BY DEF Closed
  <2> HIDE DEF r, k, n
  <2>3. /\ n \in MapType /\ n.open = r /\ n.closed = k /\ n.expecting = m.expecting /\ n.err = m.err
    BY <1>2, <2>1, <2>2 DEF MapType
  <2> QED
    BY <1>2, <1>3, <2>3 DEF Good, IsOpen, k, n
<1>4. CASE ~ IsOpen(m, id)
  <2> DEFINE k == [m.closed EXCEPT ![id] = "None"]
  <2>1. n = [m EXCEPT !.closed = k]
    BY <1>4 DEF ending_msg_received, MapType
  <2>2. k \in [Ids -> Closed]
    BY DEF Closed
  <2> HIDE DEF r, k, n
  <2>3. /\ n \in MapType /\ n.open = m.open /\ n.closed = k /\ n.expecting = m.expecting
        /\ n.err = m.err
    BY <2>1, <2>2 DEF MapType
  <2> QED
    BY <1>4, <2>3 DEF Good, IsOpen, k, n
<1> QED
  BY <1>3, <1>4

\* add_ent_with_id
LEMMA AddFacts ==
  ASSUME NEW m, Good(m), NEW id \in Ids, ~ IsOpen(m, id)
  PROVE  /\ Good(add_ent_with_id(m, id))
         /\ \A i : IsOpen(add_ent_with_id(m, id), i) <=> IsOpen(m, i) \/ i = id
         /\ add_ent_with_id(m, id).closed = m.closed
         /\ add_ent_with_id(m, id).expecting = m.expecting /\ add_ent_with_id(m, id).err = m.err
<1> DEFINE s == Append(m.open, id)
<1> m.open \in Seq(Ids) /\ m \in MapType /\ IsInjective(m.open)
  BY DEF Good, MapType
<1>2. s \in Seq(Ids) /\ IsInjective(s) /\ Range(s) = Range(m.open) \cup {id}
  BY SMTT(30), AppendFacts DEF IsOpen
<1>3. add_ent_with_id(m, id) = [m EXCEPT !.open = s]
  BY DEF add_ent_with_id
<1> HIDE DEF s
<1> QED
  BY <1>2, <1>3 DEF Good, MapType, IsOpen

\* An error leaves the streams as they are.
LEMMA FailFacts ==
  ASSUME NEW m, Good(m), NEW error \in Errors
  PROVE  /\ Good(Fail(m, error)) /\ Fail(m, error).err = error
         /\ \A i : IsOpen(Fail(m, error), i) <=> IsOpen(m, i)
         /\ Fail(m, error).closed = m.closed /\ Fail(m, error).expecting = m.expecting
  BY DEF Good, MapType, Fail, IsOpen

\* remove_expired_halfstreams
LEMMA CollectFacts ==
  ASSUME NEW m, Good(m), NEW late
  PROVE  /\ Good(remove_expired_halfstreams(m, late))
         /\ \A i : IsOpen(remove_expired_halfstreams(m, late), i) <=> IsOpen(m, i)
         /\ \A i \in Ids : remove_expired_halfstreams(m, late).closed[i] =
               IF i \in late /\ m.closed[i] = "EndSent" THEN "None" ELSE m.closed[i]
         /\ remove_expired_halfstreams(m, late).expecting = m.expecting
         /\ remove_expired_halfstreams(m, late).err = m.err
<1> DEFINE k == [i \in Ids |-> IF i \in late /\ m.closed[i] = "EndSent" THEN "None" ELSE m.closed[i]]
           n == remove_expired_halfstreams(m, late)
<1> m \in MapType /\ IsInjective(m.open) /\ m.closed \in [Ids -> Closed]
  BY DEF Good, MapType
<1>2. k \in [Ids -> Closed]
  BY DEF Closed
<1>3. n = [m EXCEPT !.closed = k]
  BY DEF remove_expired_halfstreams, MapType
<1>4. \A i \in Ids : k[i] = IF i \in late /\ m.closed[i] = "EndSent" THEN "None" ELSE m.closed[i]
  OBVIOUS
<1> HIDE DEF k, n
<1>5. /\ n \in MapType /\ n.open = m.open /\ n.closed = k /\ n.expecting = m.expecting
      /\ n.err = m.err
  BY <1>2, <1>3 DEF MapType
<1> QED
  BY <1>4, <1>5 DEF Good, IsOpen, n

-----------------------------------------------------------------------------
(* Handling a cell, running a command and ending a turn.                   *)

\* A cell that the map m of end e has a use for.
Expected(e, m, cell) ==
    /\ cell.cmd = "BEGIN" => e = "service" /\ ~ IsOpen(m, cell.id) /\ m.closed[cell.id] = "None"
    /\ cell.cmd # "BEGIN" =>
          IsOpen(m, cell.id) \/ (m.closed[cell.id] = "EndSent" /\ cell.id \notin expired[e])
    /\ cell.cmd = "CONNECTED" => e = "client" /\ cell.id \in m.expecting
    /\ cell.cmd = "DATA" /\ e = "client" => cell.id \notin m.expecting

\* A cell about a stream that e has forgotten too early.
Late(e, m, cell) ==
    /\ cell.cmd # "BEGIN" /\ e \in early /\ ~ IsOpen(m, cell.id)
    /\ m.closed[cell.id] # "EndSent" \/ cell.id \in expired[e]

\* What handle_cell makes of a map m and an expected cell: the map n.
Handled(e, m, cell, n) ==
    /\ Good(n) /\ n.err \in {"None", "CleanShutdown"}
    /\ n.err = "CleanShutdown" => cell.cmd = "BEGIN"
    /\ \A i : IsOpen(n, i) <=>
          \/ IsOpen(m, i) /\ ~ (cell.cmd = "END" /\ i = cell.id)
          \/ cell.cmd = "BEGIN" /\ i = cell.id /\ n.err = "None"
    /\ n.closed = IF cell.cmd = "END"
                  THEN [m.closed EXCEPT ![cell.id] =
                          IF IsOpen(m, cell.id) THEN "EndReceived" ELSE "None"]
                  ELSE m.closed
    /\ n.expecting = IF cell.cmd = "CONNECTED" THEN m.expecting \ {cell.id} ELSE m.expecting
    /\ IsRequest(e, m, cell) <=> cell.cmd = "BEGIN"

\* handle_cell finds what to do with every expected cell.
LEMMA HandleFacts ==
  ASSUME NEW e \in Ends, NEW m, Good(m), m.err = "None", NEW cell \in CellSet, Expected(e, m, cell),
         NEW n, n = handle_cell(e, m, cell)
  PROVE  Handled(e, m, cell, n)
<1> USE DEF Handled
<1> DEFINE id == cell.id
<1>0. id \in Ids /\ cell.cmd \in Cmds /\ m \in MapType
  BY DEF CellSet, Good
<1>1. IsRequest(e, m, cell) <=> cell.cmd = "BEGIN"
  BY DEF Expected, IsRequest
<1>2. CASE cell.cmd = "BEGIN"
  <2> USE <1>2
  <2>1. handle_msg(e, m, cell) = [m EXCEPT !.closed[id] = "None"]
    BY <1>1 DEF handle_msg, Expected
  <2>2. [m EXCEPT !.closed[id] = "None"] = m
    <3>1. m.closed \in [Ids -> Closed] /\ m.closed[id] = "None"
      BY <1>0 DEF MapType, Expected
    <3>2. [m.closed EXCEPT ![id] = "None"] = m.closed
      BY <1>0, <3>1
    <3> QED
      BY <1>0, <3>2 DEF MapType
  <2>3. e = "service" /\ ~ IsOpen(m, id)
    BY DEF Expected
  <2>4. n = handle_incoming_stream_request(e, m, id)
    BY <1>1, <2>1, <2>2 DEF handle_cell
  <2>5. CASE Len(m.open) >= MaxStreams
    <3>1. n = Fail(m, "CleanShutdown")
      BY <2>3, <2>4, <2>5 DEF handle_incoming_stream_request
    <3> QED
      BY SMTT(30), <1>1, <3>1, FailFacts DEF Errors
  <2>6. CASE ~ (Len(m.open) >= MaxStreams)
    <3>1. n = add_ent_with_id(m, id)
      BY <2>3, <2>4, <2>6 DEF handle_incoming_stream_request
    <3>2. /\ Good(n) /\ n.closed = m.closed /\ n.expecting = m.expecting /\ n.err = m.err
          /\ \A i : IsOpen(n, i) <=> IsOpen(m, i) \/ i = id
      BY SMTT(30), <1>0, <2>3, <3>1, AddFacts
    <3> QED
      BY <1>1, <3>2
  <2> QED
    BY <2>5, <2>6
<1>3. CASE cell.cmd # "BEGIN"
  <2> USE <1>3
  <2>1. n = Checked(e, m, cell)
    BY <1>1 DEF handle_cell, handle_msg, Expected
  <2>2. CASE cell.cmd = "END"
    <3>1. n = ending_msg_received(m, id)
      BY <2>1, <2>2 DEF Checked, check_msg
    <3>2. IsOpen(m, id) \/ m.closed[id] = "EndSent"
      BY DEF Expected
    <3> QED
      BY SMTT(30), <1>0, <1>1, <2>2, <3>1, <3>2, EndingFacts
  <2>3. CASE cell.cmd = "CONNECTED"
    <3> USE <2>3
    <3>1. check_msg(e, m, cell) = "Open"
      BY DEF Expected, check_msg
    <3>2. n = [m EXCEPT !.expecting = @ \ {id}]
      BY <2>1, <3>1 DEF Checked
    <3> QED
      BY <1>0, <1>1, <3>2 DEF Good, MapType, IsOpen
  <2>4. CASE cell.cmd = "DATA"
    <3> USE <2>4
    <3>1. check_msg(e, m, cell) = "Open"
      BY DEF Expected, check_msg, Ends
    <3>2. n = m
      BY <2>1, <3>1 DEF Checked
    <3> QED
      BY <1>0, <1>1, <3>2
  <2> QED
    BY <1>0, <2>2, <2>3, <2>4 DEF Cmds
<1> QED
  BY <1>2, <1>3

\* What RunCmd makes of the map.
LEMMA RunFacts ==
  ASSUME NEW m, Good(m), m.err = "None", NEW id \in Ids,
         NEW cmd \in {"CloseStream", "DATA", "CONNECTED"}, NEW n, n = RunCmd(m, id, cmd)
  PROVE  /\ Good(n) /\ n.err = IF cmd = "DATA" /\ ~ IsOpen(m, id) THEN "SendOnClosed" ELSE "None"
         /\ \A i : IsOpen(n, i) <=> IsOpen(m, i) /\ ~ (cmd = "CloseStream" /\ i = id)
         /\ n.closed = IF cmd = "CloseStream"
                       THEN [m.closed EXCEPT ![id] = IF IsOpen(m, id) THEN "EndSent" ELSE "None"]
                       ELSE m.closed
         /\ n.expecting = m.expecting
<1>1. CASE cmd = "CloseStream"
  <2>1. n = terminate(m, id)
    BY <1>1 DEF RunCmd
  <2> QED
    BY SMTT(30), <1>1, <2>1, TerminateFacts
<1>2. CASE cmd = "DATA" /\ ~ IsOpen(m, id)
  <2>1. n = Fail(m, "SendOnClosed")
    BY <1>2 DEF RunCmd
  <2> QED
    BY SMTT(30), <1>2, <2>1, FailFacts DEF Errors
<1>3. CASE cmd = "CONNECTED" \/ (cmd = "DATA" /\ IsOpen(m, id))
  <2>1. n = m
    BY <1>3 DEF RunCmd
  <2> QED
    BY <1>3, <2>1
<1> QED
  BY <1>1, <1>2, <1>3

\* What a turn of e that ends with map m leaves behind.
Ended(e, f, m, queues, cells, rest) ==
    /\ map' \in [Ends -> MapType] /\ \A x \in Ends : IsInjective(map'[x].open)
    /\ msgs' \in [Ends -> [Ids -> Seq({"DATA", "CONNECTED"})]]
    /\ link' \in [Ends -> Seq(CellSet)] /\ expired' \in [Ends -> SUBSET Ids]
    /\ map'[f] = map[f] /\ expired'[f] = expired[f] /\ msgs'[f] = msgs[f]
    /\ expired'[e] = {} /\ link'[e] = rest /\ link'[f] = link[f] \o cells /\ early' = early
    /\ map'[e].err = m.err /\ map'[e].expecting = m.expecting
    /\ \A i \in Ids : /\ IsOpen(map'[e], i) <=> IsOpen(m, i)
                      /\ map'[e].closed[i] =
                           IF i \in expired[e] /\ m.closed[i] = "EndSent" THEN "None" ELSE m.closed[i]
                      /\ msgs'[e][i] = IF IsOpen(m, i) THEN queues[i] ELSE <<>>

\* The end of a turn, with remove_expired_halfstreams.
LEMMA TurnFacts ==
  ASSUME Types, NEW e \in Ends, NEW f \in Ends, f = Peer(e), NEW m, Good(m),
         NEW queues \in [Ids -> Seq({"DATA", "CONNECTED"})],
         NEW cells \in Seq(CellSet), NEW rest \in Seq(CellSet), EndTurn(e, m, queues, cells, rest)
  PROVE  Ended(e, f, m, queues, cells, rest)
<1> DEFINE n == remove_expired_halfstreams(m, expired[e])
           qs == [i \in Ids |-> IF IsOpen(m, i) THEN queues[i] ELSE <<>>]
<1>0. e # f
  BY DEF Peer, Ends
<1>1. /\ map' = [map EXCEPT ![e] = n]
      /\ expired' = [expired EXCEPT ![e] = {}]
      /\ msgs' = [msgs EXCEPT ![e] = qs]
      /\ link' = [link EXCEPT ![e] = rest, ![f] = @ \o cells]
      /\ early' = early
  BY DEF EndTurn
<1>2. /\ Good(n) /\ n.expecting = m.expecting /\ n.err = m.err
      /\ \A i : IsOpen(n, i) <=> IsOpen(m, i)
      /\ \A i \in Ids : n.closed[i] =
            IF i \in expired[e] /\ m.closed[i] = "EndSent" THEN "None" ELSE m.closed[i]
  BY CollectFacts
<1> HIDE DEF n
<1>3. qs \in [Ids -> Seq({"DATA", "CONNECTED"})]
  BY SMTT(30)
<1>4. \A i \in Ids : qs[i] = IF IsOpen(m, i) THEN queues[i] ELSE <<>>
  OBVIOUS
<1> HIDE DEF qs
<1>5. /\ map' \in [Ends -> MapType] /\ map'[e] = n /\ map'[f] = map[f]
      /\ \A x \in Ends : IsInjective(map'[x].open)
  BY <1>0, <1>1, <1>2 DEF Types, Good
<1>6. expired' \in [Ends -> SUBSET Ids] /\ expired'[e] = {} /\ expired'[f] = expired[f]
  BY <1>0, <1>1 DEF Types
<1>7. msgs' \in [Ends -> [Ids -> Seq({"DATA", "CONNECTED"})]] /\ msgs'[e] = qs /\ msgs'[f] = msgs[f]
  BY <1>0, <1>1, <1>3 DEF Types
<1>8. link' \in [Ends -> Seq(CellSet)] /\ link'[e] = rest /\ link'[f] = link[f] \o cells
  <2>1. link[f] \o cells \in Seq(CellSet)
    BY SMTT(30) DEF Types
  <2> QED
    BY <1>0, <1>1, <2>1 DEF Types
<1> QED
  BY <1>1, <1>2, <1>4, <1>5, <1>6, <1>7, <1>8 DEF Ended

-----------------------------------------------------------------------------
(* What may arrive, and what keeps a stream as it is.                      *)

\* The cell at the head of a link is one that its reader has a use for, or is late.
LEMMA HeadExpected ==
  ASSUME Types, StreamInv, NEW e \in Ends, link[e] # <<>>
  PROVE  /\ Head(link[e]) \in CellSet
         /\ Expected(e, map[e], Head(link[e])) \/ Late(e, map[e], Head(link[e]))
<1>1. link[e] \in Seq(CellSet) /\ WellOrdered(link[e])
  BY DEF Types, StreamInv, QueueInv
<1>2. /\ Head(link[e]) \in CellSet
      /\ \A x, i : Has(link[e], x, i) <=> Has(Tail(link[e]), x, i) \/ Head(link[e]) = Cell(x, i)
      /\ \A x : Has(Tail(link[e]), x, Head(link[e]).id) =>
           Head(link[e]).cmd # "END" /\ x \notin {"BEGIN", "CONNECTED"}
  BY <1>1, ArriveFacts
<1>3. PICK c \in Cmds, id \in Ids : Head(link[e]) = Cell(c, id)
  BY <1>2 DEF CellSet, Cell
<1>4. Head(link[e]).cmd = c /\ Head(link[e]).id = id /\ Has(link[e], c, id)
  BY SMTT(30), <1>2, <1>3 DEF Cell
<1>5. ASSUME NEW x \in {"BEGIN", "CONNECTED"}, Has(link[e], x, id) PROVE c = x
  <2>1. Head(link[e]) = Cell(x, id)
    BY <1>2, <1>4, <1>5
  <2> QED
    BY SMTT(30), <1>3, <2>1 DEF Cell
<1>6. (Has(link[e], "BEGIN", id) => c = "BEGIN") /\ (Has(link[e], "CONNECTED", id) => c = "CONNECTED")
  BY <1>5
<1>7. c \in {"BEGIN", "CONNECTED", "DATA", "END"}
  BY DEF Cmds
<1>8. IdInv(id)
  BY DEF StreamInv
<1>9. CASE e = "client"
  <2>1. /\ Has(link["client"], c, id)
        /\ Has(link["client"], "CONNECTED", id) => c = "CONNECTED"
    BY <1>4, <1>6, <1>9
  <2>2. ~ NoCells("client", id) /\ c # "BEGIN"
    BY <1>7, <1>8, <2>1 DEF NoCells, IdInv, ConnInv
  <2>3. \/ IsOpen(map["client"], id) \/ "client" \in early
        \/ map["client"].closed[id] = "EndSent" /\ id \notin expired["client"]
    BY <1>8, <2>2 DEF IdInv, EndInv, Began
  <2>4. /\ c = "CONNECTED" => id \in map["client"].expecting
        /\ c = "DATA" => id \notin map["client"].expecting
    BY <1>8, <2>1 DEF IdInv, ConnInv
  <2> QED
    BY <1>2, <1>4, <1>9, <2>2, <2>3, <2>4 DEF Expected, Late
<1>10. CASE e = "service"
  <2> USE <1>10
  <2>1. /\ Has(link["service"], c, id)
        /\ Has(link["service"], "BEGIN", id) => c = "BEGIN"
    BY <1>4, <1>6
  <2> ~ NoCells("service", id) /\ c # "CONNECTED"
    BY <1>7, <1>8, <2>1 DEF NoCells, IdInv, ConnInv
  <2>3. CASE c = "BEGIN"
    BY <1>2, <1>4, <1>8, <2>1, <2>3 DEF IdInv, EndInv, Began, Untouched, Waits, Expected
  <2>4. CASE c # "BEGIN"
    <3>1. Began("service", id)
      BY <1>8, <2>1, <2>4 DEF IdInv, EndInv, Began, Waits
    <3>2. \/ IsOpen(map["service"], id) \/ "service" \in early
          \/ map["service"].closed[id] = "EndSent" /\ id \notin expired["service"]
      BY <1>8, <3>1 DEF IdInv, EndInv
    <3> QED
      BY <1>2, <1>4, <2>4, <3>2 DEF Expected, Late
  <2> QED
    BY <2>3, <2>4
<1> QED
  BY <1>9, <1>10 DEF Ends

-----------------------------------------------------------------------------
(* One stream at a time *)

\* End e does nothing with stream i.
SameEnd(e, i) ==
    /\ (IsOpen(map[e], i)' <=> IsOpen(map[e], i)) /\ map'[e].closed[i] = map[e].closed[i]
    /\ (i \in map'[e].expecting <=> i \in map[e].expecting)
    /\ (i \in expired'[e] <=> i \in expired[e])
    /\ (i \in obj'[e] <=> i \in obj[e]) /\ (e \in early => e \in early')
    /\ msgs'[e][i] = msgs[e][i] /\ sent'[e][i] = sent[e][i] /\ got'[e][i] = got[e][i]

\* Nothing about stream i happens on the way to end e.
SameLink(e, i) ==
    /\ Has(link[e], "BEGIN", i)' <=> Has(link[e], "BEGIN", i)
    /\ Has(link[e], "CONNECTED", i)' <=> Has(link[e], "CONNECTED", i)
    /\ Has(link[e], "DATA", i)' <=> Has(link[e], "DATA", i)
    /\ Has(link[e], "END", i)' <=> Has(link[e], "END", i)
    /\ Num(link[e], Cell("DATA", i))' = Num(link[e], Cell("DATA", i))

\* Stream i is as undecided, and as fresh, as it was.
SameUndecided(i) == i \in Undecided' <=> i \in Undecided
SameFresh(i) == Fresh(i)' <=> Fresh(i)

\* Nothing happens to stream i.
LEMMA KeepId ==
  ASSUME NEW i \in Ids, IdInv(i), \A e \in Ends : SameEnd(e, i) /\ SameLink(e, i),
         SameUndecided(i), SameFresh(i)
  PROVE  IdInv(i)'
<1> /\ SameEnd("client", i) /\ SameEnd("service", i)
    /\ SameLink("client", i) /\ SameLink("service", i)
  BY DEF Ends
<1>2. ConnInv(i)'
  BY DEF IdInv, ConnInv, SameEnd, SameLink, SameUndecided, Waits, Connected, Unanswered
<1>3. EndInv("client", "service", i)' /\ EndInv("service", "client", i)'
  BY DEF IdInv, EndInv, SameEnd, SameLink, SameUndecided, SameFresh, Waits, Began, Untouched,
     NoCells
<1>4. DataInv("client", "service", i)' /\ DataInv("service", "client", i)'
  BY DEF IdInv, DataInv, SameEnd, SameLink, Waits, Wants, OnWay
<1> QED
  BY <1>2, <1>3, <1>4 DEF IdInv

\* An empty queue of messages.
LEMMA QueueEmpty ==
  ASSUME CountLaws
  PROVE  Num(<<>>, "DATA") = 0 /\ OnlyData(<<>>) /\ OnlyHead(<<>>)
<1> <<>> \in Seq({"DATA", "CONNECTED"}) /\ Len(<<>>) = 0
  BY SMTT(30)
<1>2. \A i \in 1 .. Len(<<>>) : <<>>[i] # "DATA"
  BY SMTT(30)
<1>3. Num(<<>>, "DATA") = 0
  BY <1>2, NumNone, KindFacts
<1> QED
  BY SMTT(30), <1>3 DEF OnlyData, OnlyHead

-----------------------------------------------------------------------------
(* A turn, seen from one stream.                                           *)

\* In a turn, end e handles a cell about stream i, with command c, and then runs the
\* command d for it; "none" stands for no cell and for no command.
StillOpen(e, i, c) == (IsOpen(map[e], i) /\ c # "END") \/ c = "BEGIN"
ClosedBy(e, i, c, d) ==
    CASE d = "CloseStream" -> IF StillOpen(e, i, c) THEN "EndSent" ELSE "None"
      [] d # "CloseStream" /\ c = "END" -> IF IsOpen(map[e], i) THEN "EndReceived" ELSE "None"
      [] OTHER -> map[e].closed[i]

\* What e makes of its own state of the stream.
Local(e, i, c, d) ==
    /\ IsOpen(map[e], i)' <=> StillOpen(e, i, c) /\ d # "CloseStream"
    /\ map'[e].closed[i] = IF i \in expired[e] /\ ClosedBy(e, i, c, d) = "EndSent"
                           THEN "None" ELSE ClosedBy(e, i, c, d)
    /\ i \in map'[e].expecting <=> i \in map[e].expecting /\ c # "CONNECTED"
    /\ i \notin expired'[e] /\ (e \in early => e \in early')
    /\ i \in obj'[e] <=> i \in obj[e] \/ c = "BEGIN"
    /\ sent'[e][i] = IF c = "BEGIN" THEN 0 ELSE sent[e][i]
    /\ got'[e][i] = CASE c = "BEGIN" -> 0
                      [] c = "DATA" /\ IsOpen(map[e], i) /\ i \in obj[e] -> got[e][i] + 1
                      [] OTHER -> got[e][i]

\* Its queue of messages for the stream.
Popped(e, i, d) ==
    msgs'[e][i] = CASE ~ IsOpen(map[e], i)' -> <<>>
                    [] IsOpen(map[e], i)' /\ d \in {"DATA", "CONNECTED"} -> Tail(msgs[e][i])
                    [] OTHER -> msgs[e][i]

\* A cell about i with command c is taken from the link to e ...
Taken(e, i, c) ==
    /\ Has(link[e], "BEGIN", i) <=> Has(link[e], "BEGIN", i)' \/ c = "BEGIN"
    /\ Has(link[e], "CONNECTED", i) <=> Has(link[e], "CONNECTED", i)' \/ c = "CONNECTED"
    /\ Has(link[e], "DATA", i) <=> Has(link[e], "DATA", i)' \/ c = "DATA"
    /\ Has(link[e], "END", i) <=> Has(link[e], "END", i)' \/ c = "END"
    /\ c # "none" => ~ Has(link[e], "BEGIN", i)' /\ ~ Has(link[e], "CONNECTED", i)'
    /\ c = "END" => ~ Has(link[e], "DATA", i)' /\ ~ Has(link[e], "END", i)'
    /\ Num(link[e], Cell("DATA", i)) = Num(link[e], Cell("DATA", i))' + IF c = "DATA" THEN 1 ELSE 0

\* ... and one with command x is put on the link to f.
Put(f, i, x) ==
    /\ Has(link[f], "BEGIN", i)' <=> Has(link[f], "BEGIN", i) \/ x = "BEGIN"
    /\ Has(link[f], "CONNECTED", i)' <=> Has(link[f], "CONNECTED", i) \/ x = "CONNECTED"
    /\ Has(link[f], "DATA", i)' <=> Has(link[f], "DATA", i) \/ x = "DATA"
    /\ Has(link[f], "END", i)' <=> Has(link[f], "END", i) \/ x = "END"
    /\ Num(link[f], Cell("DATA", i))' = Num(link[f], Cell("DATA", i)) + IF x = "DATA" THEN 1 ELSE 0

\* The cell that the command is sent as.
Answer(e, i, c, d) ==
    CASE d \in {"DATA", "CONNECTED"} -> d
      [] d = "CloseStream" /\ StillOpen(e, i, c) -> "END"
      [] OTHER -> "none"

\* When e comes to handle such a cell, and to run such a command.
Fits(e, i, c) ==
    /\ c \in Cmds \cup {"none"}
    /\ c = "BEGIN" => e = "service" /\ ~ IsOpen(map[e], i) /\ map[e].closed[i] = "None"
    /\ c \in {"CONNECTED", "DATA", "END"} =>
          IsOpen(map[e], i) \/ (map[e].closed[i] = "EndSent" /\ i \notin expired[e])
    /\ c = "CONNECTED" => e = "client" /\ i \in map[e].expecting
    /\ c = "DATA" /\ e = "client" => i \notin map[e].expecting
Ready(e, i, d) ==
    /\ d \in {"none", "CloseStream", "DATA", "CONNECTED"}
    /\ d # "none" => IsOpen(map[e], i)
    /\ d = "CloseStream" => msgs[e][i] = <<>> /\ i \notin obj[e]
    /\ d \in {"DATA", "CONNECTED"} => msgs[e][i] # <<>> /\ Head(msgs[e][i]) = d

\* A turn of e that leaves both reactors running, seen from stream i.
TurnOn(e, f, i, c, d) ==
    /\ Fits(e, i, c) /\ Ready(e, i, d) /\ (d = "DATA" => StillOpen(e, i, c))
    /\ Local(e, i, c, d) /\ Popped(e, i, d) /\ SameEnd(f, i)
    /\ Taken(e, i, c) /\ Put(f, i, Answer(e, i, c, d))
    /\ SameFresh(i) /\ (i \in Undecided' <=> i \in Undecided \/ c = "BEGIN")

\* The queue of messages of a stream, from which one is taken.
LEMMA QueueTail ==
  ASSUME CountLaws, NEW s \in Seq({"DATA", "CONNECTED"}), s # <<>>
  PROVE  /\ Tail(s) \in Seq({"DATA", "CONNECTED"}) /\ Head(s) \in {"DATA", "CONNECTED"}
         /\ OnlyData(s) => OnlyData(Tail(s)) /\ Head(s) = "DATA"
         /\ OnlyHead(s) => OnlyHead(Tail(s)) /\ (Tail(s) # <<>> => Head(Tail(s)) = "DATA")
         /\ Num(s, "DATA") = Num(Tail(s), "DATA") + IF Head(s) = "DATA" THEN 1 ELSE 0
<1> /\ Tail(s) \in Seq({"DATA", "CONNECTED"}) /\ Head(s) \in {"DATA", "CONNECTED"}
    /\ Len(s) \in Nat /\ Len(s) >= 1 /\ Len(Tail(s)) = Len(s) - 1 /\ Head(s) = s[1]
    /\ \A i \in 1 .. Len(s) - 1 : Tail(s)[i] = s[i + 1] /\ s[i + 1] \in {"DATA", "CONNECTED"}
  BY SMTT(30)
<1>2. OnlyData(s) => OnlyData(Tail(s)) /\ Head(s) = "DATA"
  BY SMTT(30) DEF OnlyData
<1>3. OnlyHead(s) => OnlyHead(Tail(s))
  BY SMTT(30) DEF OnlyHead
<1>4. OnlyHead(s) /\ Tail(s) # <<>> => Head(Tail(s)) = "DATA"
  <2> SUFFICES ASSUME OnlyHead(s), Tail(s) # <<>> PROVE Head(Tail(s)) = "DATA"
    OBVIOUS
  <2>1. Len(s) >= 2 /\ Head(Tail(s)) = s[2] /\ 2 \in 1 .. Len(s)
    BY SMTT(30)
  <2> QED
    BY SMTT(30), <2>1 DEF OnlyHead
<1> QED
  BY <1>2, <1>3, <1>4, NumTail, KindFacts

\* The two ends of stream i still understand each other after a turn of e.
LEMMA TurnEnds ==
  ASSUME NEW e, NEW f, (e = "client" /\ f = "service") \/ (e = "service" /\ f = "client"),
         NEW i \in Ids, IdInv(i), NEW c, NEW d, TurnOn(e, f, i, c, d)
  PROVE  EndInv("client", "service", i)' /\ EndInv("service", "client", i)'
<1>1. CASE e = "client" /\ f = "service"
  <2>1. EndInv("client", "service", i)'
    BY SMTT(60), <1>1 DEF TurnOn, IdInv, EndInv, ConnInv, Fits, Ready, Local, Popped, SameEnd, Taken, Put,
       Answer, SameFresh, StillOpen, ClosedBy, Began, Waits, Untouched, NoCells, Cmds
  <2>2. EndInv("service", "client", i)'
    BY SMTT(60), <1>1 DEF TurnOn, IdInv, EndInv, ConnInv, Fits, Ready, Local, Popped, SameEnd, Taken, Put,
       Answer, SameFresh, StillOpen, ClosedBy, Began, Waits, Untouched, NoCells, Cmds
  <2> QED
    BY <2>1, <2>2
<1>2. CASE e = "service" /\ f = "client"
  <2>1. EndInv("client", "service", i)'
    BY SMTT(60), <1>2 DEF TurnOn, IdInv, EndInv, ConnInv, Fits, Ready, Local, Popped, SameEnd, Taken, Put,
       Answer, SameFresh, StillOpen, ClosedBy, Began, Waits, Untouched, NoCells, Cmds
  <2>2. EndInv("service", "client", i)'
    BY SMTT(60), <1>2 DEF TurnOn, IdInv, EndInv, ConnInv, Fits, Ready, Local, Popped, SameEnd, Taken, Put,
       Answer, SameFresh, StillOpen, ClosedBy, Began, Waits, Untouched, NoCells, Cmds
  <2> QED
    BY <2>1, <2>2
<1> QED
  BY <1>1, <1>2

\* What becomes of the queue of messages of stream i at e.
LEMMA TurnQueue ==
  ASSUME CountLaws, Types, NEW e \in Ends, NEW f, NEW i \in Ids, NEW c, NEW d, TurnOn(e, f, i, c, d),
         ~ IsOpen(map[e], i) => msgs[e][i] = <<>>
  PROVE  /\ OnlyData(msgs[e][i]) => OnlyData(msgs'[e][i]) /\ d # "CONNECTED"
         /\ OnlyHead(msgs[e][i]) => OnlyHead(msgs'[e][i])
         /\ OnlyHead(msgs[e][i]) /\ d \in {"DATA", "CONNECTED"} /\ msgs'[e][i] # <<>>
               => Head(msgs'[e][i]) = "DATA"
         /\ msgs'[e][i] # <<>> /\ d \notin {"DATA", "CONNECTED"} => msgs'[e][i] = msgs[e][i]
         /\ Num(msgs[e][i], "DATA") \in Nat /\ Num(msgs'[e][i], "DATA") \in Nat
         /\ Num(msgs'[e][i], "DATA") + (IF d = "DATA" THEN 1 ELSE 0) <= Num(msgs[e][i], "DATA")
         /\ c # "END" => Num(msgs'[e][i], "DATA") + (IF d = "DATA" THEN 1 ELSE 0) = Num(msgs[e][i], "DATA")
<1> DEFINE s == msgs[e][i]
           t == msgs'[e][i]
<1>1. s \in Seq({"DATA", "CONNECTED"})
  BY SMTT(30) DEF Types
<1>2. Num(s, "DATA") \in Nat
  BY <1>1, NumNat, KindFacts
<1>3. /\ d \in {"none", "CloseStream", "DATA", "CONNECTED"}
      /\ ~ IsOpen(map[e], i) => s = <<>>
      /\ d = "CloseStream" => s = <<>>
      /\ d \in {"DATA", "CONNECTED"} => s # <<>> /\ Head(s) = d
      /\ IsOpen(map[e], i)' <=> StillOpen(e, i, c) /\ d # "CloseStream"
      /\ d = "DATA" => StillOpen(e, i, c)
      /\ t = CASE ~ IsOpen(map[e], i)' -> <<>>
                [] IsOpen(map[e], i)' /\ d \in {"DATA", "CONNECTED"} -> Tail(s)
                [] OTHER -> s
  BY DEF TurnOn, Ready, Popped, Local
<1> HIDE DEF s, t
<1>4. ASSUME s # <<>>
      PROVE  /\ Tail(s) \in Seq({"DATA", "CONNECTED"})
             /\ OnlyData(s) => OnlyData(Tail(s)) /\ Head(s) = "DATA"
             /\ OnlyHead(s) => OnlyHead(Tail(s)) /\ (Tail(s) # <<>> => Head(Tail(s)) = "DATA")
             /\ Num(s, "DATA") = Num(Tail(s), "DATA") + IF Head(s) = "DATA" THEN 1 ELSE 0
             /\ Num(Tail(s), "DATA") \in Nat
  <2>1. Tail(s) \in Seq({"DATA", "CONNECTED"})
    BY SMTT(30), <1>1, <1>4
  <2> QED
    BY <1>1, <1>4, <2>1, QueueTail, NumNat, KindFacts
<1>5. CASE ~ IsOpen(map[e], i)'
  <2> USE <1>5
  <2>1. t = <<>> /\ d # "DATA"
    BY <1>3
  <2>2. Num(t, "DATA") = 0 /\ OnlyData(t) /\ OnlyHead(t)
    BY <2>1, QueueEmpty
  <2>3. c # "END" /\ d # "CONNECTED" => s = <<>>
    BY <1>3 DEF StillOpen
  <2>4. c # "END" => Num(s, "DATA") = 0
    <3>1. CASE s = <<>>
      BY <3>1, QueueEmpty
    <3>2. CASE c # "END" /\ s # <<>>
      BY <1>3, <3>2 DEF StillOpen
    <3> QED
      BY <3>1, <3>2
  <2>5. OnlyData(s) => d # "CONNECTED"
    BY <1>3, <1>4
  <2> QED
    BY SMTT(30), <1>2, <2>1, <2>2, <2>4, <2>5 DEF s, t
<1>6. CASE IsOpen(map[e], i)' /\ d \in {"DATA", "CONNECTED"}
  <2>1. t = Tail(s) /\ s # <<>> /\ Head(s) = d
    BY <1>3, <1>6
  <2> QED
    BY SMTT(30), <1>2, <1>4, <1>6, <2>1 DEF s, t
<1>7. CASE IsOpen(map[e], i)' /\ d \notin {"DATA", "CONNECTED"}
  <2>1. t = s
    BY <1>3, <1>7
  <2> QED
    BY SMTT(30), <1>2, <1>7, <2>1 DEF s, t
<1> QED
  BY <1>5, <1>6, <1>7

\* The client still knows of stream i what it may hear of it after a turn of e.
LEMMA TurnConn ==
  ASSUME CountLaws, Types, NEW e, NEW f, (e = "client" /\ f = "service") \/ (e = "service" /\ f = "client"),
         NEW i \in Ids, IdInv(i), NEW c, NEW d, TurnOn(e, f, i, c, d)
  PROVE  ConnInv(i)'
<1>1. CASE e = "client" /\ f = "service"
  <2>1. ~ IsOpen(map["client"], i) => msgs["client"][i] = <<>>
    BY DEF IdInv, EndInv
  <2>2. /\ OnlyData(msgs["client"][i]) => OnlyData(msgs'["client"][i]) /\ d # "CONNECTED"
    BY <1>1, <2>1, TurnQueue DEF Ends
  <2> QED
    BY SMTT(60), <1>1, <2>2 DEF TurnOn, IdInv, EndInv, ConnInv, Fits, Ready, Local, SameEnd, Taken, Put,
       Answer, StillOpen, Waits, Connected, Unanswered, Cmds, NoCells, Untouched, Began
<1>2. CASE e = "service" /\ f = "client"
  <2>1. ~ IsOpen(map["service"], i) => msgs["service"][i] = <<>>
    BY DEF IdInv, EndInv
  <2>2. /\ OnlyHead(msgs["service"][i]) => OnlyHead(msgs'["service"][i])
        /\ OnlyHead(msgs["service"][i]) /\ d \in {"DATA", "CONNECTED"} /\ msgs'["service"][i] # <<>>
               => Head(msgs'["service"][i]) = "DATA"
        /\ msgs'["service"][i] # <<>> /\ d \notin {"DATA", "CONNECTED"}
               => msgs'["service"][i] = msgs["service"][i]
    BY <1>2, <2>1, TurnQueue DEF Ends
  <2> QED
    BY SMTT(60), <1>2, <2>2 DEF TurnOn, IdInv, EndInv, ConnInv, Fits, Ready, Local, Popped, SameEnd, Taken, Put,
       Answer, StillOpen, ClosedBy, Waits, Connected, Unanswered, Cmds, NoCells, Untouched, Began
<1> QED
  BY <1>1, <1>2

\* The data of stream i is still accounted for after a turn of e.
LEMMA TurnData ==
  ASSUME CountLaws, Types, Types', NEW e, NEW f,
         (e = "client" /\ f = "service") \/ (e = "service" /\ f = "client"),
         NEW i \in Ids, IdInv(i), NEW c, NEW d, TurnOn(e, f, i, c, d)
  PROVE  DataInv("client", "service", i)' /\ DataInv("service", "client", i)'
<1> DEFINE x == Num(link[e], Cell("DATA", i))
           y == Num(link[f], Cell("DATA", i))
           s == Num(msgs[e][i], "DATA")
           t == Num(msgs[f][i], "DATA")
           x1 == Num(link'[e], Cell("DATA", i))
           y1 == Num(link'[f], Cell("DATA", i))
           s1 == Num(msgs'[e][i], "DATA")
           t1 == Num(msgs'[f][i], "DATA")
<1>0. e \in Ends /\ f \in Ends
  BY DEF Ends
<1>1. /\ link[e] \in Seq(CellSet) /\ link[f] \in Seq(CellSet)
      /\ link'[e] \in Seq(CellSet) /\ link'[f] \in Seq(CellSet)
      /\ msgs[f][i] \in Seq({"DATA", "CONNECTED"})
  BY SMTT(30), <1>0 DEF Types
<1>2. x \in Nat /\ y \in Nat /\ t \in Nat /\ x1 \in Nat /\ y1 \in Nat
  BY <1>1, NumNat, KindFacts
<1>3. /\ got[e][i] \in Nat /\ got[f][i] \in Nat /\ sent[e][i] \in Nat /\ sent[f][i] \in Nat
      /\ got'[e][i] \in Nat /\ got'[f][i] \in Nat /\ sent'[e][i] \in Nat /\ sent'[f][i] \in Nat
  BY SMTT(30), <1>0, NumbersAssumption DEF Types
<1>4. ~ IsOpen(map[e], i) => msgs[e][i] = <<>>
  BY <1>0 DEF IdInv, EndInv, Ends
<1>5. /\ s \in Nat /\ s1 \in Nat
      /\ s1 + (IF d = "DATA" THEN 1 ELSE 0) <= s
      /\ c # "END" => s1 + (IF d = "DATA" THEN 1 ELSE 0) = s
  BY SMTT(30), <1>0, <1>4, TurnQueue
<1>6. y1 = y + (IF d = "DATA" THEN 1 ELSE 0) /\ x = x1 + (IF c = "DATA" THEN 1 ELSE 0) /\ t1 = t
  BY DEF TurnOn, Put, Taken, Answer, SameEnd
<1>7. /\ got[f][i] + (y + s) <= sent[e][i] /\ (Wants(f, i) => got[f][i] + (y + s) = sent[e][i])
      /\ got[e][i] + (x + t) <= sent[f][i] /\ (Wants(e, i) => got[e][i] + (x + t) = sent[f][i])
  BY DEF IdInv, DataInv, OnWay
<1>8. sent'[f][i] = sent[f][i] /\ got'[f][i] = got[f][i]
  BY DEF TurnOn, SameEnd
<1>9. c = "BEGIN" => /\ e = "service" /\ Waits(i) /\ got[e][i] = 0 /\ sent[e][i] = 0
  BY DEF TurnOn, Fits, Taken, IdInv, EndInv, Began, Waits, Untouched
<1>10. /\ sent'[e][i] = sent[e][i]
       /\ got'[e][i] = IF c = "DATA" /\ IsOpen(map[e], i) /\ i \in obj[e] THEN got[e][i] + 1 ELSE got[e][i]
  BY <1>9 DEF TurnOn, Local
<1>11. /\ Wants(f, i)' => Wants(f, i) /\ (c = "END" => msgs[e][i] = <<>>)
  BY <1>4 DEF TurnOn, SameEnd, Put, Answer, Wants, Waits, Taken, IdInv, EndInv, Began, NoCells
<1>12. msgs[e][i] = <<>> => s = 0
  BY QueueEmpty
<1>13. Wants(e, i)' => Wants(e, i) /\ (c = "DATA" => IsOpen(map[e], i) /\ i \in obj[e])
  BY DEF TurnOn, Local, Fits, Ready, StillOpen, ClosedBy, Wants, Waits, Taken, IdInv, EndInv, Began
<1> HIDE DEF x, y, s, t, x1, y1, s1, t1
<1>14. got'[f][i] + (y1 + s1) <= sent'[e][i] /\ (Wants(f, i)' => got'[f][i] + (y1 + s1) = sent'[e][i])
  <2> DEFINE k == IF d = "DATA" THEN 1 ELSE 0
  <2> k \in Nat /\ y1 = y + k /\ s1 + k <= s /\ (c # "END" => s1 + k = s)
    BY <1>5, <1>6
  <2> HIDE DEF k
  <2>2. got'[f][i] + (y1 + s1) <= sent'[e][i]
    <3>0. /\ got[f][i] \in Nat /\ y \in Nat /\ s \in Nat /\ k \in Nat /\ s1 \in Nat /\ sent[e][i] \in Nat
          /\ s1 + k <= s /\ got[f][i] + (y + s) <= sent[e][i]
      BY <1>2, <1>3, <1>5, <1>7
    <3>1. got[f][i] + ((y + k) + s1) <= sent[e][i]
      BY SMTT(30), <3>0
    <3> QED
      BY <1>8, <1>10, <3>1
  <2>3. Wants(f, i)' => s1 + k = s /\ got[f][i] + (y + s) = sent[e][i]
    BY SMTT(30), <1>5, <1>7, <1>11, <1>12
  <2>4. Wants(f, i)' => got'[f][i] + (y1 + s1) = sent'[e][i]
    <3>0. /\ got[f][i] \in Nat /\ y \in Nat /\ s \in Nat /\ k \in Nat /\ s1 \in Nat /\ sent[e][i] \in Nat
          /\ Wants(f, i)' => s1 + k = s /\ got[f][i] + (y + s) = sent[e][i]
      BY <1>2, <1>3, <1>5, <2>3
    <3>1. Wants(f, i)' => got[f][i] + ((y + k) + s1) = sent[e][i]
      BY SMTT(30), <3>0
    <3> QED
      BY <1>8, <1>10, <3>1
  <2> QED
    BY <2>2, <2>4
<1>15. got'[e][i] + (x1 + t1) <= sent'[f][i] /\ (Wants(e, i)' => got'[e][i] + (x1 + t1) = sent'[f][i])
  BY SMTT(30), <1>2, <1>3, <1>6, <1>7, <1>8, <1>10, <1>13
<1>16. DataInv(e, f, i)' /\ DataInv(f, e, i)'
  BY <1>14, <1>15 DEF DataInv, OnWay, x, y, s, t, x1, y1, s1, t1
<1> QED
  BY <1>16

\* A turn of e keeps what is known of stream i.
LEMMA TurnId ==
  ASSUME CountLaws, Types, Types', NEW e, NEW f,
         (e = "client" /\ f = "service") \/ (e = "service" /\ f = "client"),
         NEW i \in Ids, IdInv(i), NEW c, NEW d, TurnOn(e, f, i, c, d)
  PROVE  IdInv(i)'
<1>1. EndInv("client", "service", i)' /\ EndInv("service", "client", i)'
  BY TurnEnds
<1>2. ConnInv(i)'
  BY TurnConn
<1>3. DataInv("client", "service", i)' /\ DataInv("service", "client", i)'
  BY TurnData
<1> QED
  BY <1>1, <1>2, <1>3 DEF IdInv

-----------------------------------------------------------------------------
(* A turn, seen from every stream.                                         *)

\* What concerns stream i of something that concerns stream n.
On(n, c, i) == IF i = n THEN c ELSE "none"

\* The map m of e after a cell with command c about n and the command d for k.
Made(e, m, n, c, k, d) ==
    \A i \in Ids :
        /\ IsOpen(m, i) <=> StillOpen(e, i, On(n, c, i)) /\ On(k, d, i) # "CloseStream"
        /\ m.closed[i] = ClosedBy(e, i, On(n, c, i), On(k, d, i))
        /\ i \in m.expecting <=> i \in map[e].expecting /\ On(n, c, i) # "CONNECTED"

\* What the applications see of stream i when a cell with command c is handled.
Seen(e, f, i, c) ==
    /\ i \in obj'[e] <=> i \in obj[e] \/ c = "BEGIN"
    /\ sent'[e][i] = IF c = "BEGIN" THEN 0 ELSE sent[e][i]
    /\ got'[e][i] = CASE c = "BEGIN" -> 0
                      [] c = "DATA" /\ IsOpen(map[e], i) /\ i \in obj[e] -> got[e][i] + 1
                      [] OTHER -> got[e][i]
    /\ i \in obj'[f] <=> i \in obj[f]
    /\ sent'[f][i] = sent[f][i] /\ got'[f][i] = got[f][i]
\* The same for every stream.
Delivered(e, f, n, c) == \A i \in Ids : Seen(e, f, i, On(n, c, i))

\* Polling a stream changes nothing but the order of the streams.
Alike(e, m) ==
    /\ Good(m) /\ \A i : IsOpen(m, i) <=> IsOpen(map[e], i)
    /\ m.closed = map[e].closed /\ m.expecting = map[e].expecting /\ m.err = map[e].err

\* poll_ready_streams_iter yields an open stream, and its command.
LEMMA PollFacts ==
  ASSUME Types, NEW e \in Ends, NEW k \in poll_ready_streams_iter(e), NEW d, d = CircuitCmd(e, k)
  PROVE  /\ k \in Ids /\ d \in {"CloseStream", "DATA", "CONNECTED"} /\ Ready(e, k, d)
         /\ Alike(e, Polled(e, k))
         /\ Queues(e, k) \in [Ids -> Seq({"DATA", "CONNECTED"})]
         /\ \A i \in Ids : Queues(e, k)[i] = IF On(k, d, i) \in {"DATA", "CONNECTED"}
                                            THEN Tail(msgs[e][i]) ELSE msgs[e][i]
<1>0. map[e] \in MapType /\ map[e].open \in Seq(Ids) /\ IsInjective(map[e].open) /\ Good(map[e])
  BY DEF Types, MapType, Good
<1>1. PICK j \in DOMAIN map[e].open : k = map[e].open[j] /\ IsReady(e, k)
  BY DEF poll_ready_streams_iter
<1>2. k \in Ids /\ IsOpen(map[e], k)
  BY SMTT(30), <1>0, <1>1 DEF IsOpen, Range
<1>3. msgs[e] \in [Ids -> Seq({"DATA", "CONNECTED"})] /\ msgs[e][k] \in Seq({"DATA", "CONNECTED"})
  BY SMTT(30), <1>2 DEF Types
<1>4. CASE msgs[e][k] = <<>>
  <2> d = "CloseStream" /\ k \notin obj[e] /\ CircuitCmd(e, k) = "CloseStream"
    BY <1>1, <1>4 DEF CircuitCmd, IsReady
  <2>2. Polled(e, k) = map[e] /\ Queues(e, k) = msgs[e]
    BY DEF Polled, Queues
  <2>3. Ready(e, k, d)
    BY <1>2, <1>4 DEF Ready
  <2>4. \A i : On(k, d, i) \notin {"DATA", "CONNECTED"}
    BY DEF On
  <2> QED
    BY <1>0, <1>2, <1>3, <2>2, <2>3, <2>4 DEF Alike
<1>5. CASE msgs[e][k] # <<>>
  <2> USE <1>5
  <2>1. d = Head(msgs[e][k]) /\ CircuitCmd(e, k) # "CloseStream" /\ d \in {"DATA", "CONNECTED"}
    BY SMTT(30), <1>3 DEF CircuitCmd
  <2>2. Polled(e, k) = take_ready_msg(map[e], k) /\ Queues(e, k) = [msgs[e] EXCEPT ![k] = Tail(@)]
    BY <2>1 DEF Polled, Queues
  <2>3. Ready(e, k, d)
    BY <1>2, <2>1 DEF Ready
  <2>4. Alike(e, Polled(e, k))
    BY SMTT(30), <1>0, <1>2, <2>2, TakeFacts DEF Alike
  <2>5. Tail(msgs[e][k]) \in Seq({"DATA", "CONNECTED"})
    BY SMTT(30), <1>3
  <2>6. /\ Queues(e, k) \in [Ids -> Seq({"DATA", "CONNECTED"})]
        /\ \A i \in Ids : Queues(e, k)[i] = IF i = k THEN Tail(msgs[e][i]) ELSE msgs[e][i]
    BY <1>2, <1>3, <2>2, <2>5
  <2>7. \A i : On(k, d, i) \in {"DATA", "CONNECTED"} <=> i = k
    BY <2>1 DEF On
  <2> QED
    BY <1>2, <2>1, <2>3, <2>4, <2>6, <2>7
<1> QED
  BY <1>4, <1>5

\* Handling a cell, seen from each stream.
LEMMA Heard ==
  ASSUME Types, NEW e \in Ends, map[e].err = "None", NEW M, Alike(e, M),
         NEW c \in Cmds, NEW n \in Ids, Expected(e, map[e], Cell(c, n)),
         NEW m, m = handle_cell(e, M, Cell(c, n)), NEW b, b = IF m.err = "None" THEN c ELSE "none"
  PROVE  /\ Good(m) /\ m.err \in {"None", "CleanShutdown"} /\ (m.err = "CleanShutdown" => c = "BEGIN")
         /\ Made(e, m, n, b, n, "none")
<1> DEFINE cell == Cell(c, n)
<1>1. cell \in CellSet /\ cell.cmd = c /\ cell.id = n
  BY DEF Cell, CellSet
<1> HIDE DEF cell
<1>2. Good(M) /\ M.err = "None" /\ Expected(e, M, cell)
  BY DEF Alike, Expected, cell
<1>3. m = handle_cell(e, M, cell)
  BY DEF cell
<1> /\ Good(m) /\ m.err \in {"None", "CleanShutdown"}
    /\ m.err = "CleanShutdown" => c = "BEGIN"
    /\ \A i : IsOpen(m, i) <=>
          \/ IsOpen(M, i) /\ ~ (c = "END" /\ i = n)
          \/ c = "BEGIN" /\ i = n /\ m.err = "None"
    /\ m.closed = IF c = "END"
                  THEN [M.closed EXCEPT ![n] = IF IsOpen(M, n) THEN "EndReceived" ELSE "None"]
                  ELSE M.closed
    /\ m.expecting = IF c = "CONNECTED" THEN M.expecting \ {n} ELSE M.expecting
  <2>1. Handled(e, M, cell, m)
    BY <1>1, <1>2, <1>3, HandleFacts
  <2> QED
    BY <1>1, <2>1 DEF Handled
<1>5. M.closed \in [Ids -> Closed] /\ map[e].closed \in [Ids -> Closed]
  BY DEF Alike, Types, MapType, Good
<1>6. ASSUME NEW i \in Ids
      PROVE  /\ IsOpen(m, i) <=> StillOpen(e, i, On(n, b, i))
             /\ m.closed[i] = ClosedBy(e, i, On(n, b, i), "none")
             /\ i \in m.expecting <=> i \in map[e].expecting /\ On(n, b, i) # "CONNECTED"
  <2> (c = "END" => b = c) /\ (c = "CONNECTED" => b = c) /\ (b \in {c, "none"}) /\ c # "none"
      /\ (b = "BEGIN" <=> c = "BEGIN" /\ m.err = "None")
    BY DEF Cmds
  <2>2. IsOpen(m, i) <=> StillOpen(e, i, On(n, b, i))
    BY DEF StillOpen, On, Alike
  <2>3. m.closed[i] = ClosedBy(e, i, On(n, b, i), "none")
    BY <1>5 DEF ClosedBy, On, Alike
  <2>4. i \in m.expecting <=> i \in map[e].expecting /\ On(n, b, i) # "CONNECTED"
    BY DEF On, Alike
  <2> QED
    BY <2>2, <2>3, <2>4
<1>7. \A i : On(n, "none", i) = "none"
  BY DEF On
<1> QED
  BY <1>6, <1>7 DEF Made

\* A late cell stops the reactor, and changes nothing else.
LEMMA LateHeard ==
  ASSUME Types, NEW e \in Ends, NEW M, Alike(e, M),
         NEW c \in Cmds, NEW n \in Ids, Late(e, map[e], Cell(c, n)), NEW m, m = handle_cell(e, M, Cell(c, n))
  PROVE  Good(m) /\ m.err = "NoSuchStream" /\ Made(e, m, n, "none", n, "none")
<1>1. Cell(c, n).cmd = c /\ Cell(c, n).id = n
  BY DEF Cell
<1>2. m = Fail(M, "NoSuchStream")
  BY <1>1 DEF handle_cell, handle_msg, IsRequest, Late, Alike
<1>3. /\ Good(m) /\ m.err = "NoSuchStream" /\ (\A i : IsOpen(m, i) <=> IsOpen(map[e], i))
      /\ m.closed = map[e].closed /\ m.expecting = map[e].expecting
  BY SMTT(30), <1>2, FailFacts DEF Alike, Errors
<1> QED
  BY <1>3 DEF Made, StillOpen, ClosedBy, On

\* Running a command, seen from each stream.
LEMMA Ran ==
  ASSUME Types, NEW e \in Ends, NEW n \in Ids, NEW c, NEW M, Good(M), M.err = "None",
         Made(e, M, n, c, n, "none"),
         NEW k \in Ids, NEW d \in {"CloseStream", "DATA", "CONNECTED"}, NEW m, m = RunCmd(M, k, d)
  PROVE  /\ Good(m) /\ Made(e, m, n, c, k, d)
         /\ m.err = IF d = "DATA" /\ ~ StillOpen(e, k, On(n, c, k)) THEN "SendOnClosed" ELSE "None"
<1>1. /\ Good(m) /\ m.err = IF d = "DATA" /\ ~ IsOpen(M, k) THEN "SendOnClosed" ELSE "None"
      /\ \A i : IsOpen(m, i) <=> IsOpen(M, i) /\ ~ (d = "CloseStream" /\ i = k)
      /\ m.closed = IF d = "CloseStream"
                    THEN [M.closed EXCEPT ![k] = IF IsOpen(M, k) THEN "EndSent" ELSE "None"]
                    ELSE M.closed
      /\ m.expecting = M.expecting
  BY SMTT(30), RunFacts
<1>2. M.closed \in [Ids -> Closed]
  BY DEF MapType, Good
<1>3. \A i : On(n, "none", i) = "none"
  BY DEF On
<1> \A i \in Ids :
      /\ IsOpen(M, i) <=> StillOpen(e, i, On(n, c, i))
      /\ M.closed[i] = ClosedBy(e, i, On(n, c, i), "none")
      /\ i \in M.expecting <=> i \in map[e].expecting /\ On(n, c, i) # "CONNECTED"
  BY <1>3 DEF Made
<1>5. ASSUME NEW i \in Ids
      PROVE  /\ IsOpen(m, i) <=> StillOpen(e, i, On(n, c, i)) /\ On(k, d, i) # "CloseStream"
             /\ m.closed[i] = ClosedBy(e, i, On(n, c, i), On(k, d, i))
             /\ i \in m.expecting <=> i \in map[e].expecting /\ On(n, c, i) # "CONNECTED"
  <2>1. On(k, d, i) = "CloseStream" <=> d = "CloseStream" /\ i = k
    BY DEF On
  <2>2. m.closed[i] = IF On(k, d, i) = "CloseStream"
                      THEN IF IsOpen(M, i) THEN "EndSent" ELSE "None" ELSE M.closed[i]
    BY <1>1, <1>2, <2>1
  <2>3. m.closed[i] = ClosedBy(e, i, On(n, c, i), On(k, d, i))
    BY <2>2 DEF ClosedBy
  <2> QED
    BY <1>1, <2>1, <2>3
<1> QED
  BY <1>1, <1>5 DEF Made

\* A turn, seen from each stream.
LEMMA TurnMade ==
  ASSUME Types, NEW e \in Ends, NEW f \in Ends, f = Peer(e),
         NEW m, NEW queues, NEW cells, NEW rest, Ended(e, f, m, queues, cells, rest),
         NEW n, NEW c, NEW k, NEW d, Made(e, m, n, c, k, d),
         NEW i \in Ids, Seen(e, f, i, On(n, c, i))
  PROVE  Local(e, i, On(n, c, i), On(k, d, i)) /\ SameEnd(f, i)
<1> DEFINE ci == On(n, c, i)
           di == On(k, d, i)
<1>1. /\ IsOpen(m, i) <=> StillOpen(e, i, ci) /\ di # "CloseStream"
      /\ m.closed[i] = ClosedBy(e, i, ci, di)
      /\ i \in m.expecting <=> i \in map[e].expecting /\ ci # "CONNECTED"
  BY DEF Made
<1>2. /\ i \in obj'[e] <=> i \in obj[e] \/ ci = "BEGIN"
      /\ sent'[e][i] = IF ci = "BEGIN" THEN 0 ELSE sent[e][i]
      /\ got'[e][i] = CASE ci = "BEGIN" -> 0
                        [] ci = "DATA" /\ IsOpen(map[e], i) /\ i \in obj[e] -> got[e][i] + 1
                        [] OTHER -> got[e][i]
      /\ i \in obj'[f] <=> i \in obj[f]
      /\ sent'[f][i] = sent[f][i] /\ got'[f][i] = got[f][i]
  BY DEF Seen
<1> HIDE DEF ci, di
<1>3. Local(e, i, ci, di)
  BY <1>1, <1>2 DEF Local, Ended
<1>4. SameEnd(f, i)
  BY <1>2 DEF SameEnd, Ended
<1> QED
  BY <1>3, <1>4 DEF ci, di

\* What the applications see of a cell.
LEMMA DeliverFacts ==
  ASSUME Types, NEW e \in Ends, NEW f \in Ends, f = Peer(e),
         NEW c \in Cmds, NEW n \in Ids, Expected(e, map[e], Cell(c, n)), ~ Refused(e, map[e], Cell(c, n)),
         NEW m, Deliver(e, m, Cell(c, n)), NEW b, b = IF c = "BEGIN" /\ m.err # "None" THEN "none" ELSE c,
         c = "DATA" => got[e][n] < MaxData
  PROVE  /\ Delivered(e, f, n, b)
         /\ incoming' = IF b = "BEGIN" THEN Append(incoming, n) ELSE incoming
         /\ obj' \in [Ends -> SUBSET Ids]
         /\ sent' \in [Ends -> [Ids -> 0 .. MaxData]] /\ got' \in [Ends -> [Ids -> 0 .. MaxData]]
<1> DEFINE data == c = "DATA" /\ IsOpen(map[e], n) /\ n \in obj[e]
           g == IF b = "BEGIN" THEN 0 ELSE IF data THEN got[e][n] + 1 ELSE got[e][n]
<1>1. Cell(c, n).cmd = c /\ Cell(c, n).id = n
  BY DEF Cell
<1>2. IsRequest(e, map[e], Cell(c, n)) /\ m.err = "None" <=> b = "BEGIN"
  BY <1>1 DEF IsRequest, Expected
<1>3. /\ incoming' = IF b = "BEGIN" THEN Append(incoming, n) ELSE incoming
      /\ obj' = IF b = "BEGIN" THEN [obj EXCEPT ![e] = @ \cup {n}] ELSE obj
      /\ sent' = IF b = "BEGIN" THEN [sent EXCEPT ![e][n] = 0] ELSE sent
      /\ got' = [got EXCEPT ![e][n] = IF b = "BEGIN" THEN 0 ELSE IF data THEN @ + 1 ELSE @]
  BY <1>1, <1>2 DEF Deliver
<1>4. e # f
  BY DEF Peer, Ends
<1>5. obj \in [Ends -> SUBSET Ids]
      /\ sent \in [Ends -> [Ids -> 0 .. MaxData]] /\ got \in [Ends -> [Ids -> 0 .. MaxData]]
  BY DEF Types
<1>6. /\ obj' \in [Ends -> SUBSET Ids]
      /\ \A x \in Ends : obj'[x] = IF b = "BEGIN" /\ x = e THEN obj[x] \cup {n} ELSE obj[x]
  BY <1>3, <1>5
<1>7. /\ sent' \in [Ends -> [Ids -> 0 .. MaxData]]
      /\ \A x \in Ends, i \in Ids : sent'[x][i] = IF b = "BEGIN" /\ x = e /\ i = n THEN 0 ELSE sent[x][i]
  BY SMTT(30), <1>3, <1>5, NumbersAssumption
<1>8. g \in 0 .. MaxData
  BY SMTT(30), <1>5, NumbersAssumption
<1>9. got' = [got EXCEPT ![e][n] = g]
  BY <1>3, <1>5
<1> HIDE DEF g
<1> /\ got' \in [Ends -> [Ids -> 0 .. MaxData]]
    /\ \A x \in Ends, i \in Ids : got'[x][i] = IF x = e /\ i = n THEN g ELSE got[x][i]
  BY <1>5, <1>8, <1>9
<1>11. ASSUME NEW i \in Ids
       PROVE  /\ i \in obj'[e] <=> i \in obj[e] \/ On(n, b, i) = "BEGIN"
              /\ sent'[e][i] = IF On(n, b, i) = "BEGIN" THEN 0 ELSE sent[e][i]
              /\ i \in obj'[f] <=> i \in obj[f]
              /\ sent'[f][i] = sent[f][i] /\ got'[f][i] = got[f][i]
  BY SMTT(30), <1>4, <1>6, <1>7 DEF On
<1>12. ASSUME NEW i \in Ids
       PROVE  got'[e][i] = CASE On(n, b, i) = "BEGIN" -> 0
                          [] On(n, b, i) = "DATA" /\ IsOpen(map[e], i) /\ i \in obj[e] -> got[e][i] + 1
                          [] OTHER -> got[e][i]
  <2>1. b = "DATA" <=> c = "DATA"
    OBVIOUS
  <2> QED
    BY <2>1 DEF On, g
<1> QED
  BY <1>3, <1>6, <1>7, <1>11, <1>12 DEF Delivered, Seen

\* They see nothing of a late one.
LEMMA LateDelivered ==
  ASSUME Types, NEW e \in Ends, NEW f \in Ends, f = Peer(e),
         NEW c \in Cmds, NEW n \in Ids, Late(e, map[e], Cell(c, n)), NEW m, Deliver(e, m, Cell(c, n))
  PROVE  Delivered(e, f, n, "none") /\ UNCHANGED <<incoming, obj, sent, got>>
<1>1. Cell(c, n).cmd = c /\ Cell(c, n).id = n
  BY DEF Cell
<1>2. ~ IsRequest(e, map[e], Cell(c, n)) /\ ~ IsOpen(map[e], n)
  BY <1>1 DEF IsRequest, Late
<1>3. UNCHANGED <<incoming, obj, sent>> /\ got' = [got EXCEPT ![e][n] = @]
  BY <1>1, <1>2 DEF Deliver
<1>4. got' = got
  BY SMTT(30), <1>3 DEF Types
<1> QED
  BY <1>3, <1>4 DEF Delivered, Seen, On

\* The cell at the head of the link to e is taken, seen from each stream.
LEMMA TakenFacts ==
  ASSUME CountLaws, Types, NEW e \in Ends, WellOrdered(link[e]), NEW n \in Ids, NEW c \in Cmds \cup {"none"},
         IF c = "none" THEN link'[e] = link[e]
                       ELSE link[e] # <<>> /\ Head(link[e]) = Cell(c, n) /\ link'[e] = Tail(link[e])
  PROVE  WellOrdered(link'[e]) /\ \A i \in Ids : Taken(e, i, On(n, c, i))
<1> DEFINE q == link[e]
           r == link'[e]
<1>0. q \in Seq(CellSet)
  BY DEF Types
<1>1. CASE c = "none"
  <2>1. r = q
    BY <1>1
  <2>2. \A i \in Ids : On(n, c, i) = "none"
    BY <1>1 DEF On
  <2>3. \A i \in Ids : Num(q, Cell("DATA", i)) \in Nat
    BY <1>0, NumNat, KindFacts
  <2> QED
    BY SMTT(30), <2>1, <2>2, <2>3 DEF Taken
<1>2. CASE c # "none"
  <2>1. q # <<>> /\ Head(q) = Cell(c, n) /\ r = Tail(q) /\ c \in Cmds /\ WellOrdered(q)
    BY <1>2
  <2> HIDE DEF q, r
  <2>2. Cell(c, n).cmd = c /\ Cell(c, n).id = n
    BY DEF Cell
  <2>3. /\ Tail(q) \in Seq(CellSet) /\ WellOrdered(Tail(q))
        /\ \A x, i : Has(q, x, i) <=> Has(Tail(q), x, i) \/ Cell(c, n) = Cell(x, i)
        /\ \A x : Has(Tail(q), x, Head(q).id) =>
             Head(q).cmd # "END" /\ x \notin {"BEGIN", "CONNECTED"}
    BY SMTT(30), <1>0, <2>1, ArriveFacts
  <2>4. \A x, i : Cell(c, n) = Cell(x, i) <=> c = x /\ n = i
    BY DEF Cell
  <2>5. /\ WellOrdered(r)
        /\ \A x, i : Has(q, x, i) <=> Has(r, x, i) \/ (c = x /\ n = i)
        /\ \A x : Has(r, x, n) => c # "END" /\ x \notin {"BEGIN", "CONNECTED"}
    BY <2>1, <2>2, <2>3, <2>4
  <2>6. ASSUME NEW i \in Ids
        PROVE  Num(q, Cell("DATA", i)) = Num(r, Cell("DATA", i)) + IF On(n, c, i) = "DATA" THEN 1 ELSE 0
    <3>1. Num(q, Cell("DATA", i)) = Num(Tail(q), Cell("DATA", i))
            + IF Head(q) = Cell("DATA", i) THEN 1 ELSE 0
      BY <1>0, <2>1, NumTail, KindFacts
    <3>2. Head(q) = Cell("DATA", i) <=> On(n, c, i) = "DATA"
      BY SMTT(30), <2>1, <2>4 DEF On
    <3> QED
      BY <2>1, <3>1, <3>2
  <2>7. ASSUME NEW i \in Ids PROVE Taken(e, i, On(n, c, i))
    <3>1. /\ Has(q, "BEGIN", i) <=> Has(r, "BEGIN", i) \/ On(n, c, i) = "BEGIN"
          /\ Has(q, "CONNECTED", i) <=> Has(r, "CONNECTED", i) \/ On(n, c, i) = "CONNECTED"
          /\ Has(q, "DATA", i) <=> Has(r, "DATA", i) \/ On(n, c, i) = "DATA"
          /\ Has(q, "END", i) <=> Has(r, "END", i) \/ On(n, c, i) = "END"
      BY <2>5 DEF On
    <3>2. /\ On(n, c, i) # "none" => ~ Has(r, "BEGIN", i) /\ ~ Has(r, "CONNECTED", i)
          /\ On(n, c, i) = "END" => ~ Has(r, "DATA", i) /\ ~ Has(r, "END", i)
      BY <2>5 DEF On
    <3> QED
      BY <2>6, <3>1, <3>2 DEF Taken, q, r
  <2> QED
    BY <2>5, <2>7 DEF r
<1> QED
  BY <1>1, <1>2

\* A cell, or none, is put on the link to f, seen from each stream.
LEMMA PutFacts ==
  ASSUME CountLaws, Types, NEW f \in Ends, WellOrdered(link[f]), NEW n \in Ids, NEW x \in Cmds \cup {"none"},
         IF x = "none" THEN link'[f] = link[f] ELSE link'[f] = Append(link[f], Cell(x, n)),
         x # "none" => ~ Has(link[f], "END", n),
         x \in {"BEGIN", "CONNECTED"} => NoCells(f, n)
  PROVE  WellOrdered(link'[f]) /\ \A i \in Ids : Put(f, i, On(n, x, i))
<1> DEFINE q == link[f]
           r == link'[f]
<1>0. q \in Seq(CellSet)
  BY DEF Types
<1>1. CASE x = "none"
  <2>1. r = q
    BY <1>1
  <2>2. \A i \in Ids : On(n, x, i) = "none"
    BY <1>1 DEF On
  <2>3. \A i \in Ids : Num(q, Cell("DATA", i)) \in Nat
    BY <1>0, NumNat, KindFacts
  <2> QED
    BY SMTT(30), <2>1, <2>2, <2>3 DEF Put
<1>2. CASE x # "none"
  <2>1. r = Append(q, Cell(x, n)) /\ x \in Cmds /\ WellOrdered(q) /\ ~ Has(q, "END", n)
    BY <1>2
  <2>2. x \in {"BEGIN", "CONNECTED"} => \A y \in Cmds : ~ Has(q, y, n)
    BY DEF NoCells, Cmds
  <2> HIDE DEF q, r
  <2>3. /\ WellOrdered(r) /\ \A y, i : Has(r, y, i) <=> Has(q, y, i) \/ (y = x /\ i = n)
    BY <1>0, <2>1, <2>2, SendFacts
  <2>4. Cell(x, n) \in CellSet /\ \A i : Cell(x, n) = Cell("DATA", i) <=> x = "DATA" /\ n = i
    BY <2>1 DEF Cell, CellSet
  <2>5. ASSUME NEW i \in Ids
        PROVE  Num(r, Cell("DATA", i)) = Num(q, Cell("DATA", i)) + IF On(n, x, i) = "DATA" THEN 1 ELSE 0
    <3>1. Num(Append(q, Cell(x, n)), Cell("DATA", i)) = Num(q, Cell("DATA", i))
            + IF Cell(x, n) = Cell("DATA", i) THEN 1 ELSE 0
      BY SMTT(30), <1>0, <2>4, NumAppend, KindFacts
    <3>2. Cell(x, n) = Cell("DATA", i) <=> On(n, x, i) = "DATA"
      BY <2>4 DEF On
    <3> QED
      BY <2>1, <3>1, <3>2
  <2>6. ASSUME NEW i \in Ids PROVE Put(f, i, On(n, x, i))
    <3>1. /\ Has(r, "BEGIN", i) <=> Has(q, "BEGIN", i) \/ On(n, x, i) = "BEGIN"
          /\ Has(r, "CONNECTED", i) <=> Has(q, "CONNECTED", i) \/ On(n, x, i) = "CONNECTED"
          /\ Has(r, "DATA", i) <=> Has(q, "DATA", i) \/ On(n, x, i) = "DATA"
          /\ Has(r, "END", i) <=> Has(q, "END", i) \/ On(n, x, i) = "END"
      BY <2>3 DEF On
    <3> QED
      BY <2>5, <3>1 DEF Put, q, r
  <2> QED
    BY <2>3, <2>6 DEF r
<1> QED
  BY <1>1, <1>2

\* A turn that leaves both reactors running.
LEMMA TurnStream ==
  ASSUME CountLaws, Types, Types', StreamInv, NEW e \in Ends, NEW f \in Ends, f = Peer(e),
         NEW n \in Ids, NEW c \in Cmds \cup {"none"},
         c # "none" => Expected(e, map[e], Cell(c, n)),
         IF c = "none" THEN link'[e] = link[e]
                       ELSE link[e] # <<>> /\ Head(link[e]) = Cell(c, n) /\ link'[e] = Tail(link[e]),
         NEW k \in Ids, NEW d, Ready(e, k, d), d = "DATA" => StillOpen(e, k, On(n, c, k)),
         NEW a, a = Answer(e, k, On(n, c, k), d),
         IF a = "none" THEN link'[f] = link[f] ELSE link'[f] = Append(link[f], Cell(a, k)),
         \A i \in Ids : Local(e, i, On(n, c, i), On(k, d, i)) /\ Popped(e, i, On(k, d, i)) /\ SameEnd(f, i),
         UNCHANGED <<next_id, deciding, control, begun>>,
         incoming' = IF c = "BEGIN" THEN Append(incoming, n) ELSE incoming
  PROVE  StreamInv'
<1>0. (e = "client" /\ f = "service") \/ (e = "service" /\ f = "client")
  BY DEF Peer, Ends
<1>1. /\ WellOrdered(link[e]) /\ WellOrdered(link[f]) /\ \A i \in Ids : IdInv(i)
      /\ incoming \in Seq(Ids) /\ IsInjective(incoming) /\ IsInjective(control)
      /\ Range(incoming) \cap deciding = {} /\ Range(incoming) \cap Range(control) = {}
      /\ deciding \cap Range(control) = {}
  BY DEF StreamInv, QueueInv, Types
<1>2. WellOrdered(link'[e]) /\ \A i \in Ids : Taken(e, i, On(n, c, i))
  BY <1>1, TakenFacts
<1>3. /\ c = "BEGIN" => e = "service" /\ ~ IsOpen(map[e], n) /\ map[e].closed[n] = "None"
      /\ c \in {"CONNECTED", "DATA", "END"} =>
            IsOpen(map[e], n) \/ (map[e].closed[n] = "EndSent" /\ n \notin expired[e])
      /\ c = "CONNECTED" => e = "client" /\ n \in map[e].expecting
      /\ c = "DATA" /\ e = "client" => n \notin map[e].expecting
  BY DEF Expected, Cell
<1>4. \A i \in Ids : Fits(e, i, On(n, c, i))
  BY <1>3 DEF Fits, On
<1>5. /\ d \in {"none", "CloseStream", "DATA", "CONNECTED"}
      /\ \A i \in Ids : Ready(e, i, On(k, d, i)) /\ (On(k, d, i) = "DATA" => StillOpen(e, i, On(n, c, i)))
  BY DEF Ready, On
<1>6. IdInv(k)
  BY <1>1
<1>7. a \in Cmds \cup {"none"} /\ (a # "none" => IsOpen(map[e], k)) /\ (a = "CONNECTED" => d = "CONNECTED")
      /\ a # "BEGIN"
  BY DEF Answer, Ready, Cmds
<1>8. a # "none" => ~ Has(link[f], "END", k)
  BY <1>0, <1>6, <1>7 DEF IdInv, EndInv
<1>9. a = "CONNECTED" => NoCells(f, k)
  <2> SUFFICES ASSUME a = "CONNECTED" PROVE NoCells(f, k)
    OBVIOUS
  <2>1. msgs[e][k] # <<>> /\ Head(msgs[e][k]) = "CONNECTED"
    BY <1>7 DEF Ready
  <2>2. e = "service" /\ f = "client"
    <3>1. msgs[e][k] \in Seq({"DATA", "CONNECTED"})
      BY SMTT(30) DEF Types
    <3>2. ~ OnlyData(msgs[e][k])
      BY SMTT(30), <2>1, <3>1 DEF OnlyData
    <3> QED
      BY <1>0, <1>6, <3>2 DEF IdInv, ConnInv
  <2> QED
    BY <1>6, <1>8, <2>1, <2>2 DEF IdInv, ConnInv, Unanswered, NoCells
<1>10. WellOrdered(link'[f]) /\ \A i \in Ids : Put(f, i, On(k, a, i))
  BY <1>1, <1>7, <1>8, <1>9, PutFacts
<1>11. \A i \in Ids : On(k, a, i) = Answer(e, i, On(n, c, i), On(k, d, i))
  BY DEF On, Answer
<1>12. \A i \in Ids : SameFresh(i)
  BY DEF SameFresh, Fresh, Ahead
<1>13. c = "BEGIN" => n \notin Undecided
  <2>1. c = "BEGIN" => Has(link["service"], "BEGIN", n)
    BY <1>2, <1>3 DEF Taken, On
  <2> QED
    BY <1>1, <2>1 DEF IdInv, EndInv, Began, Waits, Untouched
<1>14. /\ IsInjective(incoming')
       /\ Range(incoming') = IF c = "BEGIN" THEN Range(incoming) \cup {n} ELSE Range(incoming)
  BY <1>1, <1>13, AppendFacts DEF Undecided
<1>15. \A i \in Ids : i \in Undecided' <=> i \in Undecided \/ On(n, c, i) = "BEGIN"
  BY <1>14 DEF Undecided, On
<1>16. ASSUME NEW i \in Ids PROVE IdInv(i)'
  <2> DEFINE ci == On(n, c, i)
             di == On(k, d, i)
  <2>1. TurnOn(e, f, i, ci, di)
    BY <1>2, <1>4, <1>5, <1>10, <1>11, <1>12, <1>15 DEF TurnOn
  <2>2. IdInv(i)
    BY <1>1
  <2> HIDE DEF ci, di
  <2> QED
    BY <1>0, <2>1, <2>2, TurnId
<1>17. QueueInv'
  <2>1. \A x \in Ends : WellOrdered(link'[x])
    BY <1>0, <1>2, <1>10 DEF Ends
  <2>2. /\ IsInjective(control') /\ Range(incoming') \cap deciding' = {}
        /\ Range(incoming') \cap Range(control') = {} /\ deciding' \cap Range(control') = {}
    BY <1>1, <1>13, <1>14 DEF Undecided
  <2> QED
    BY <1>14, <2>1, <2>2 DEF QueueInv
<1> QED
  BY <1>16, <1>17 DEF StreamInv

\* A link that has no DATA about a stream counts none.
LEMMA NoData ==
  ASSUME CountLaws, Types, NEW e \in Ends, NEW i \in Ids, ~ Has(link[e], "DATA", i)
  PROVE  Num(link[e], Cell("DATA", i)) = 0
<1>1. link[e] \in Seq(CellSet)
  BY DEF Types
<1>2. \A j \in 1 .. Len(link[e]) : link[e][j] # Cell("DATA", i)
  BY <1>1 DEF Has, Cell
<1> QED
  BY <1>1, <1>2, NumNone, KindFacts

\* What e hears of the end of a stream, after a turn that may stop its reactor too.
LEMMA TurnTold ==
  ASSUME CountLaws, Types, StreamInv, EndMeansAll, NEW e \in Ends, NEW f \in Ends, f = Peer(e),
         NEW i \in Ids, NEW c, NEW d, Fits(e, i, c), Ready(e, i, d), Local(e, i, c, d), SameEnd(f, i),
         c = "END" => Has(link[e], "END", i) /\ ~ Has(link[e], "DATA", i),
         c = "BEGIN" => Has(link[e], "BEGIN", i)
  PROVE  /\ i \in obj'[e] /\ map'[e].closed[i] = "EndReceived" /\ ~ IsOpen(map'[e], i)
              => got'[e][i] = sent'[f][i]
         /\ i \in obj'[f] /\ map'[f].closed[i] = "EndReceived" /\ ~ IsOpen(map'[f], i)
              => got'[f][i] = sent'[e][i]
<1>0. (e = "client" /\ f = "service") \/ (e = "service" /\ f = "client")
  BY DEF Peer, Ends
<1>1. IdInv(i)
  BY DEF StreamInv
<1>2. c = "BEGIN" => sent[e][i] = 0
  BY <1>1 DEF Fits, IdInv, EndInv, Began, Waits, Untouched
<1>3. sent'[e][i] = sent[e][i] /\ sent'[f][i] = sent[f][i]
  BY <1>2 DEF Local, SameEnd
<1>4. i \in obj'[f] /\ map'[f].closed[i] = "EndReceived" /\ ~ IsOpen(map'[f], i) => got'[f][i] = sent'[e][i]
  BY <1>0, <1>3 DEF SameEnd, EndMeansAll, Peer
<1>5. ASSUME i \in obj'[e], map'[e].closed[i] = "EndReceived", ~ IsOpen(map'[e], i), c # "END"
      PROVE  got'[e][i] = sent[f][i]
  <2>1. map[e].closed[i] = "EndReceived" /\ ~ IsOpen(map[e], i) /\ i \in obj[e] /\ c # "BEGIN"
    BY <1>5 DEF Local, Fits, Ready, StillOpen, ClosedBy
  <2>2. got'[e][i] = got[e][i]
    BY <2>1 DEF Local
  <2> QED
    BY <2>1, <2>2 DEF EndMeansAll
<1>6. ASSUME i \in obj'[e], map'[e].closed[i] = "EndReceived", c = "END"
      PROVE  got'[e][i] = sent[f][i]
  <2> USE <1>6
  <2>1. IsOpen(map[e], i) /\ i \in obj[e] /\ got'[e][i] = got[e][i]
    BY DEF Local, Fits, Ready, StillOpen, ClosedBy
  <2>2. Num(link[e], Cell("DATA", i)) = 0
    BY NoData
  <2>3. msgs[f][i] = <<>>
    BY <1>0, <1>1 DEF IdInv, EndInv
  <2>4. Num(msgs[f][i], "DATA") = 0
    BY <2>3, QueueEmpty
  <2>5. got[e][i] + OnWay(f, e, i) = sent[f][i]
    BY <1>0, <1>1, <2>1 DEF IdInv, DataInv, Wants
  <2>6. got[e][i] \in Nat
    BY SMTT(30), NumbersAssumption DEF Types
  <2> QED
    BY SMTT(30), <2>1, <2>2, <2>4, <2>5, <2>6 DEF OnWay
<1> QED
  BY <1>3, <1>4, <1>5, <1>6

=============================================================================
