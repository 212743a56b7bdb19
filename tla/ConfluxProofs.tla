--------------------------- MODULE ConfluxProofs ----------------------------
(***************************************************************************)
(* Proofs, for every set of legs, that the two ends of a conflux tunnel    *)
(* count alike and that it implements the ordered stream: the inductive    *)
(* invariant, the lemmas about the numbering of cells on a leg that its    *)
(* proof rests on, and the theorems.                                       *)
(***************************************************************************)
EXTENDS Conflux, FiniteSetTheorems, TLAPS

\* A leaf that names no prover is given to Zenon, for up to 30 seconds.
USE ZenonT(30)

\* The number that the next cell of s follows, when the first one follows n.
LastNo(s, n) == IF s = <<>> THEN n ELSE s[Len(s)].no

\* The numbers of the messages in s.
Numbers(s) == {s[i].no : i \in {j \in 1 .. Len(s) : s[j].cmd = "MSG"}}

\* The cells of s have their places in the numbering, the first one after n.
Chain(s, n, msgs) ==
    \A i \in 1 .. Len(s) : Follows(s[i], IF i = 1 THEN n ELSE s[i - 1].no, msgs)

\* The numbers in s do not decrease, and a message has a new one.
Increasing(s, n) ==
    /\ \A i \in 1 .. Len(s) : n <= s[i].no /\ (s[i].cmd = "MSG" => n < s[i].no)
    /\ \A i, j \in 1 .. Len(s) :
          i < j => s[i].no <= s[j].no /\ (s[j].cmd = "MSG" => s[i].no < s[j].no)

\* What the legs in transit look like ...
LinkInv ==
    /\ \A l \in rlegs : Chain(link[l], last_seq_recv[l], sent) /\ Increasing(link[l], last_seq_recv[l])
    /\ \A l \in rlegs \cap up : last_seq_sent[l] = LastNo(link[l], last_seq_recv[l])

\* ... the counters of the client ...
SendInv ==
    /\ Len(sent) > 0 => selected_init_primary
    /\ ~ selected_init_primary => \A l \in Legs : last_seq_sent[l] = 0
    /\ \A l \in Legs : last_seq_sent[l] <= Len(sent)
    /\ state = "Running" => primary_id \in legs
    /\ state = "Running" /\ selected_init_primary =>
          /\ last_seq_sent[primary_id] = Len(sent)
          /\ \A l \in Legs \ {primary_id} : last_seq_sent[l] < last_seq_sent[primary_id]

\* ... the buffer of the join point ...
BufferInv ==
    /\ \A e \in ooo_msgs : e.seqno \in 1 .. Len(sent) /\ e.msg = sent[e.seqno]
    /\ last_seq_delivered = Len(delivered)
    /\ batch \subseteq rlegs

\* ... and that no number is in two places, or was delivered before.
FreshInv ==
    /\ last_seq_delivered <= Len(sent)
    /\ \A l \in rlegs : \A n \in Numbers(link[l]) : n > last_seq_delivered
    /\ \A l, k \in rlegs : l # k => Numbers(link[l]) \cap Numbers(link[k]) = {}
    /\ \A e \in ooo_msgs :
          /\ e.seqno > last_seq_delivered
          /\ \A l \in rlegs : e.seqno \notin Numbers(link[l])
          /\ \A f \in ooo_msgs : e.seqno = f.seqno => e = f
    /\ rstate # "Disorder"

IndInv == TypeOK /\ LinkInv /\ SendInv /\ BufferInv /\ FreshInv

-----------------------------------------------------------------------------
(* Sequences of numbered cells.                                            *)

\* A cell with the right number can be added.
LEMMA AppendCell ==
    ASSUME NEW s \in Seq(Cell), NEW n \in Nat, NEW cell \in Cell, NEW msgs \in Seq(Msgs),
           Chain(s, n, msgs), Increasing(s, n), Follows(cell, LastNo(s, n), msgs)
    PROVE  /\ Append(s, cell) \in Seq(Cell)
           /\ Chain(Append(s, cell), n, msgs) /\ Increasing(Append(s, cell), n)
           /\ LastNo(Append(s, cell), n) = cell.no
           /\ Numbers(Append(s, cell)) \subseteq Numbers(s) \cup {cell.no}
           /\ cell.cmd # "MSG" => Numbers(Append(s, cell)) = Numbers(s)
<1> DEFINE t == Append(s, cell)
<1> /\ t \in Seq(Cell) /\ Len(t) = Len(s) + 1 /\ Len(s) \in Nat
    /\ t[Len(s) + 1] = cell /\ \A i \in 1 .. Len(s) : t[i] = s[i]
  BY SMTT(30)
<1>2. \A c \in Cell : c.no \in Nat /\ (c.cmd = "SWITCH" => c.delta \in Nat)
                      /\ c.cmd \in {"LINK", "LINKED_ACK", "MSG", "SWITCH"}
  BY DEF Cell
<1>3. /\ s = <<>> <=> Len(s) = 0
      /\ \A i \in 1 .. Len(s) : s[i] \in Cell /\ s[i].no \in Nat
  BY SMTT(30), <1>2
<1>4. LastNo(s, n) \in Nat /\ cell.no >= LastNo(s, n) /\ (cell.cmd = "MSG" => cell.no > LastNo(s, n))
  BY SMTT(30), <1>2, <1>3 DEF LastNo, Follows
<1>5. n <= LastNo(s, n) /\ \A i \in 1 .. Len(s) : s[i].no <= LastNo(s, n)
  BY SMTT(30), <1>3 DEF LastNo, Increasing
<1> HIDE DEF t
<1>6. Chain(t, n, msgs)
  <2> SUFFICES ASSUME NEW i \in 1 .. Len(t) PROVE Follows(t[i], IF i = 1 THEN n ELSE t[i - 1].no, msgs)
    BY DEF Chain
  <2>1. CASE i \in 1 .. Len(s)
    BY SMTT(30), <2>1 DEF Chain
  <2>2. CASE i = Len(s) + 1
    BY SMTT(30), <2>2, <1>3 DEF LastNo
  <2> QED
    BY SMTT(30), <2>1, <2>2
<1>7. Increasing(t, n)
  <2>1. \A i \in 1 .. Len(t) : n <= t[i].no /\ (t[i].cmd = "MSG" => n < t[i].no)
    BY SMTT(30), <1>2, <1>3, <1>4, <1>5 DEF Increasing
  <2>2. ASSUME NEW i \in 1 .. Len(t), NEW j \in 1 .. Len(t), i < j
        PROVE  t[i].no <= t[j].no /\ (t[j].cmd = "MSG" => t[i].no < t[j].no)
    <3>1. CASE j \in 1 .. Len(s)
      BY SMTT(30), <2>2, <3>1 DEF Increasing
    <3>2. CASE j = Len(s) + 1
      <4>1. i \in 1 .. Len(s) /\ t[i] = s[i] /\ t[j] = cell
        BY SMTT(30), <2>2, <3>2
      <4> QED
        BY SMTT(30), <4>1, <1>2, <1>3, <1>4, <1>5
    <3> QED
      BY SMTT(30), <3>1, <3>2
  <2> QED
    BY <2>1, <2>2 DEF Increasing
<1>8. LastNo(t, n) = cell.no
  BY SMTT(30) DEF LastNo
<1>9. Numbers(t) \subseteq Numbers(s) \cup {cell.no}
  BY SMTT(30) DEF Numbers
<1>10. cell.cmd # "MSG" => Numbers(t) = Numbers(s)
  BY SMTT(30) DEF Numbers
<1> QED
  BY <1>6, <1>7, <1>8, <1>9, <1>10 DEF t

\* The first cell can be taken away.
LEMMA TailCells ==
    ASSUME NEW s \in Seq(Cell), s # <<>>, NEW n \in Nat, NEW msgs \in Seq(Msgs),
           Chain(s, n, msgs), Increasing(s, n)
    PROVE  /\ Tail(s) \in Seq(Cell) /\ Head(s) \in Cell
           /\ Follows(Head(s), n, msgs)
           /\ Chain(Tail(s), Head(s).no, msgs) /\ Increasing(Tail(s), Head(s).no)
           /\ LastNo(Tail(s), Head(s).no) = LastNo(s, n)
           /\ Head(s).cmd # "MSG" => Numbers(Tail(s)) = Numbers(s)
           /\ Head(s).cmd = "MSG" => /\ Head(s).no \in Numbers(s)
                                     /\ Numbers(Tail(s)) = Numbers(s) \ {Head(s).no}
<1> DEFINE t == Tail(s)
<1>1. /\ t \in Seq(Cell) /\ Len(t) = Len(s) - 1 /\ Len(s) \in Nat \ {0}
      /\ Head(s) = s[1] /\ \A i \in 1 .. Len(t) : t[i] = s[i + 1]
  BY SMTT(30)
<1>2. \A i \in 1 .. Len(s) : s[i] \in Cell /\ s[i].no \in Nat
  BY SMTT(30) DEF Cell
<1> HIDE DEF t
<1>3. t = <<>> <=> Len(t) = 0
  BY SMTT(30), <1>1
<1>4. Follows(Head(s), n, msgs)
  BY SMTT(30), <1>1 DEF Chain
<1>5. Chain(t, Head(s).no, msgs)
  <2> SUFFICES ASSUME NEW i \in 1 .. Len(t)
               PROVE  Follows(t[i], IF i = 1 THEN Head(s).no ELSE t[i - 1].no, msgs)
    BY DEF Chain
  <2>1. Follows(s[i + 1], s[i].no, msgs)
    BY SMTT(30), <1>1 DEF Chain
  <2>2. t[i] = s[i + 1] /\ (i = 1 => Head(s).no = s[i].no) /\ (i # 1 => t[i - 1] = s[i])
    BY SMTT(30), <1>1
  <2> QED
    BY <2>1, <2>2
<1>6. Increasing(t, Head(s).no)
  <2>1. \A i \in 1 .. Len(t) : i + 1 \in 1 .. Len(s) /\ 1 < i + 1 /\ 1 \in 1 .. Len(s)
    BY SMTT(30), <1>1
  <2>2. \A i \in 1 .. Len(t) : Head(s).no <= t[i].no /\ (t[i].cmd = "MSG" => Head(s).no < t[i].no)
    BY <2>1, <1>1 DEF Increasing
  <2>3. ASSUME NEW i \in 1 .. Len(t), NEW j \in 1 .. Len(t), i < j
        PROVE  t[i].no <= t[j].no /\ (t[j].cmd = "MSG" => t[i].no < t[j].no)
    <3>1. i + 1 \in 1 .. Len(s) /\ j + 1 \in 1 .. Len(s) /\ i + 1 < j + 1
      BY SMTT(30), <2>3, <1>1
    <3>2. t[i] = s[i + 1] /\ t[j] = s[j + 1]
      BY <1>1
    <3> QED
      BY <3>1, <3>2 DEF Increasing
  <2> QED
    BY <2>2, <2>3 DEF Increasing
<1>7. LastNo(t, Head(s).no) = LastNo(s, n)
  BY SMTT(30), <1>1, <1>3 DEF LastNo
<1>8. Numbers(s) = Numbers(t) \cup (IF Head(s).cmd = "MSG" THEN {Head(s).no} ELSE {})
  <2>1. ASSUME NEW x \in Numbers(s) PROVE x \in Numbers(t) \cup (IF Head(s).cmd = "MSG" THEN {Head(s).no} ELSE {})
    <3>1. PICK i \in 1 .. Len(s) : s[i].cmd = "MSG" /\ x = s[i].no
      BY DEF Numbers
    <3>2. CASE i = 1
      BY <3>1, <3>2, <1>1
    <3>3. CASE i # 1
      <4>1. i - 1 \in 1 .. Len(t) /\ t[i - 1] = s[i]
        BY SMTT(30), <3>3, <1>1
      <4> QED
        BY <4>1, <3>1 DEF Numbers
    <3> QED
      BY <3>2, <3>3
  <2>2. ASSUME NEW x \in Numbers(t) PROVE x \in Numbers(s)
    <3>1. PICK i \in 1 .. Len(t) : t[i].cmd = "MSG" /\ x = t[i].no
      BY DEF Numbers
    <3>2. i + 1 \in 1 .. Len(s) /\ t[i] = s[i + 1]
      BY SMTT(30), <1>1
    <3> QED
      BY <3>1, <3>2 DEF Numbers
  <2>3. Head(s).cmd = "MSG" => Head(s).no \in Numbers(s)
    <3>1. 1 \in 1 .. Len(s)
      BY SMTT(30), <1>1
    <3> QED
      BY <3>1, <1>1 DEF Numbers
  <2> QED
    BY <2>1, <2>2, <2>3
<1>9. Head(s).no \notin Numbers(t)
  BY SMTT(30), <1>6, <1>1, <1>2 DEF Numbers, Increasing
<1> QED
  BY SMTT(30), <1>1, <1>2, <1>4, <1>5, <1>6, <1>7, <1>8, <1>9 DEF t

\* The last cells can be lost.
LEMMA PrefixCells ==
    ASSUME NEW s \in Seq(Cell), NEW n \in Nat, NEW k \in 0 .. Len(s), NEW msgs,
           Chain(s, n, msgs), Increasing(s, n)
    PROVE  /\ Chain(SubSeq(s, 1, k), n, msgs) /\ Increasing(SubSeq(s, 1, k), n)
           /\ Numbers(SubSeq(s, 1, k)) \subseteq Numbers(s)
<1> DEFINE t == SubSeq(s, 1, k)
<1> /\ t \in Seq(Cell) /\ Len(t) = k /\ Len(s) \in Nat /\ k <= Len(s) /\ k \in Nat
    /\ \A i \in 1 .. k : t[i] = s[i]
  BY SMTT(30)
<1> HIDE DEF t
<1>2. Chain(t, n, msgs)
  BY SMTT(30) DEF Chain
<1>3. Increasing(t, n)
  <2>1. \A i \in 1 .. k : i \in 1 .. Len(s)
    BY SMTT(30)
  <2>2. \A i \in 1 .. k : n <= t[i].no /\ (t[i].cmd = "MSG" => n < t[i].no)
    BY <2>1 DEF Increasing
  <2>3. ASSUME NEW i \in 1 .. k, NEW j \in 1 .. k, i < j
        PROVE  t[i].no <= t[j].no /\ (t[j].cmd = "MSG" => t[i].no < t[j].no)
    BY <2>1, <2>3 DEF Increasing
  <2> QED
    BY <2>2, <2>3 DEF Increasing
<1>4. Numbers(t) \subseteq Numbers(s)
  BY SMTT(30) DEF Numbers
<1> QED
  BY <1>2, <1>3, <1>4 DEF t

\* What has its place keeps it when more is sent.
LEMMA MoreSent ==
    ASSUME NEW s \in Seq(Cell), NEW n \in Nat, NEW msgs \in Seq(Msgs), NEW m \in Msgs,
           Chain(s, n, msgs), Increasing(s, n)
    PROVE  /\ Chain(s, n, Append(msgs, m))
           /\ \A x \in Numbers(s) : x \in 1 .. Len(msgs)
<1>1. \A i \in 1 .. Len(s) : s[i] \in Cell /\ s[i].no \in Nat /\ (s[i].cmd = "MSG" => s[i].no > 0)
  BY SMTT(30) DEF Cell, Increasing
<1>2. /\ Len(msgs) \in Nat /\ Len(Append(msgs, m)) = Len(msgs) + 1
      /\ \A i \in 1 .. Len(msgs) : Append(msgs, m)[i] = msgs[i]
  BY SMTT(30)
<1>3. Chain(s, n, Append(msgs, m))
  BY SMTT(30), <1>1, <1>2 DEF Chain, Follows
<1>4. \A x \in Numbers(s) : x \in 1 .. Len(msgs)
  BY SMTT(30), <1>1, <1>2 DEF Chain, Follows, Numbers
<1> QED
  BY <1>3, <1>4

-----------------------------------------------------------------------------
(* The steps.                                                              *)

LinkVars == <<link, sent, last_seq_recv, last_seq_sent>>

\* The cells that are made are cells.
LEMMA Cells ==
    ASSUME TypeOK, NEW m \in Msgs, NEW n \in Nat, NEW d \in Nat, NEW l \in Legs
    PROVE  /\ Counted(m, n) \in Cell
           /\ Counted(m, n).cmd = "MSG" /\ Counted(m, n).no = n /\ Counted(m, n).msg = m
           /\ Switch(d, n) \in Cell
           /\ Switch(d, n).cmd = "SWITCH" /\ Switch(d, n).no = n /\ Switch(d, n).delta = d
           /\ \A cmd \in {"LINK", "LINKED_ACK"} :
                 /\ Handshake(cmd, l) \in Cell
                 /\ Handshake(cmd, l).cmd = cmd /\ Handshake(cmd, l).no = last_seq_sent[l]
BY DEF Counted, Switch, Handshake, Cell, TypeOK, LinkTypes, ClientTypes, JoinTypes

\* A message goes, with the next number, down a leg whose counter agrees or after a
\* SWITCH that makes it agree.
SentOn(l, m, cells) ==
    /\ l \in legs /\ l \in up
    /\ primary_id' = l /\ selected_init_primary' = TRUE /\ state' = state
    /\ link' = [link EXCEPT ![l] = Append(cells, Counted(m, Len(sent) + 1))]
    /\ last_seq_sent' = [last_seq_sent EXCEPT ![l] = Len(sent) + 1]
    /\ sent' = Append(sent, m)

SentPlain(l, m) == last_seq_sent[l] = Len(sent) /\ SentOn(l, m, link[l])
SentSwitch(l, m) ==
    SentOn(l, m, Append(link[l], Switch(Len(sent) - last_seq_sent[l], Len(sent))))

NotSent ==
    /\ state' \in {"ChannelClosed", "Unlinked", "NoRtt"} /\ UNCHANGED <<link, last_seq_sent, sent>>
    /\ primary_id' \in Legs /\ selected_init_primary' \in BOOLEAN
    /\ selected_init_primary => selected_init_primary'

\* Whichever way a leg is chosen, a message is sent in one of these ways.
LEMMA SendCases ==
    ASSUME TypeOK, SendInv, NEW m \in Msgs, send_relay_cell_on_leg(m) \/ send_on_primary(m)
    PROVE  /\ UNCHANGED <<up, back, legs, status, ctx, answer, join, delivered>>
           /\ NotSent \/ (\E l \in Legs : SentPlain(l, m) \/ SentSwitch(l, m))
<1> /\ state = "Running" /\ primary_id \in Legs /\ primary_id \in legs /\ legs \subseteq Legs
    /\ selected_init_primary \in BOOLEAN /\ Len(sent) \in Nat
    /\ \A l \in Legs : last_seq_sent[l] \in Nat /\ link[l] \in Seq(Cell)
  BY SMTT(30) DEF TypeOK, LinkTypes, ClientTypes, JoinTypes, SendInv, send_relay_cell_on_leg, send_on_primary
<1>1. UNCHANGED <<up, back, legs, status, ctx, answer, join, delivered>>
  BY DEF send_relay_cell_on_leg, send_on_primary
<1>2. \A l \in Legs : link[l] \o <<>> = link[l]
  BY SMTT(30)
<1>3. \A l \in Legs, c \in Cell : link[l] \o <<c>> = Append(link[l], c)
  BY SMTT(30)
<1>4. CASE send_on_primary(m)
  <2>1. /\ send_relay_cell(primary_id, last_seq_sent[primary_id], <<>>, m)
        /\ UNCHANGED <<primary_id, selected_init_primary>> /\ Len(sent) >= 1
    BY SMTT(30), <1>4 DEF send_on_primary
  <2>2. selected_init_primary /\ last_seq_sent[primary_id] = Len(sent)
    BY SMTT(30), <2>1 DEF SendInv
  <2> QED
    BY <1>1, <1>2, <2>1, <2>2 DEF send_relay_cell, NotSent, SentPlain, SentOn
<1>5. CASE SelectInitPrimary(m) /\ send_relay_cell_on_leg(m)
  <2> PICK best \in IF Measured = {} THEN {primary_id} ELSE Measured :
         /\ primary_id' = best /\ selected_init_primary' = (Measured # {})
         /\ send_relay_cell(best, last_seq_sent[best], <<>>, m)
    BY <1>5 DEF SelectInitPrimary
  <2> best \in legs /\ (status[best] = "Linked" => Measured # {})
    BY DEF Measured
  <2>3. ~ selected_init_primary /\ last_seq_sent[best] = Len(sent)
    BY SMTT(30), <1>5 DEF SelectInitPrimary, SendInv
  <2>4. CASE status[best] # "Linked" \/ best \notin up
    BY <1>1, <2>3, <2>4 DEF send_relay_cell, NotSent
  <2>5. CASE status[best] = "Linked" /\ best \in up
    BY <1>1, <1>2, <2>3, <2>5 DEF send_relay_cell, SentPlain, SentOn
  <2> QED
    BY <2>4, <2>5
<1>6. CASE KeepPrimary(m) /\ send_relay_cell_on_leg(m)
  <2> USE <1>6
  <2>1. selected_init_primary /\ last_seq_sent[primary_id] = Len(sent)
    BY DEF KeepPrimary, SendInv
  <2>2. UNCHANGED <<primary_id, selected_init_primary>>
    BY DEF KeepPrimary
  <2>3. CASE Cardinality(legs) >= 2 /\ legs # Measured
    BY SMTT(30), <1>1, <2>1, <2>2, <2>3 DEF KeepPrimary, NotSent
  <2>4. CASE send_relay_cell(primary_id, last_seq_sent[primary_id], <<>>, m)
    BY <1>1, <1>2, <2>1, <2>2, <2>4 DEF send_relay_cell, NotSent, SentPlain, SentOn
  <2> QED
    BY <2>3, <2>4 DEF KeepPrimary
<1>7. CASE SwitchPrimary(m) /\ send_relay_cell_on_leg(m)
  <2>1. selected_init_primary /\ last_seq_sent[primary_id] = Len(sent)
    BY <1>7 DEF SwitchPrimary, SendInv
  <2>2. PICK new \in legs \ {primary_id} :
           /\ primary_id' = new /\ UNCHANGED selected_init_primary
           /\ send_relay_cell(new, Len(sent),
                              <<Switch(Len(sent) - last_seq_sent[new], Len(sent))>>, m)
    BY <1>7, <2>1 DEF SwitchPrimary
  <2>3. Len(sent) - last_seq_sent[new] \in Nat
    BY SMTT(30), <2>2 DEF SendInv
  <2>4. Switch(Len(sent) - last_seq_sent[new], Len(sent)) \in Cell
    BY <2>3 DEF Switch, Cell
  <2> QED
    BY <1>1, <1>3, <2>1, <2>2, <2>4 DEF send_relay_cell, NotSent, SentSwitch,
       SentOn
<1> QED
  BY <1>4, <1>5, <1>6, <1>7 DEF send_relay_cell_on_leg

\* The channels only close, and the join point only loses legs.
LEMMA LinkFrame ==
    ASSUME LinkInv, UNCHANGED LinkVars, up' \subseteq up, rlegs' \subseteq rlegs
    PROVE  LinkInv'
BY DEF LinkInv, LinkVars

\* A cell of the handshake takes no number.
LEMMA LinkHandshake ==
    ASSUME TypeOK, LinkInv, NEW on \in SUBSET (Legs \cap up), NEW cmd \in {"LINK", "LINKED_ACK"},
           link' = [l \in Legs |-> IF l \in on THEN Append(link[l], Handshake(cmd, l)) ELSE link[l]],
           UNCHANGED <<up, rlegs, sent, last_seq_recv, last_seq_sent>>
    PROVE  /\ LinkInv' /\ link' \in [Legs -> Seq(Cell)]
           /\ \A l \in rlegs : Numbers(link'[l]) = Numbers(link[l])
<1> /\ rlegs \subseteq Legs /\ sent \in Seq(Msgs)
    /\ \A l \in Legs : /\ link[l] \in Seq(Cell) /\ last_seq_recv[l] \in Nat
                       /\ last_seq_sent[l] \in Nat
  BY DEF TypeOK, LinkTypes, ClientTypes, JoinTypes
<1>1. ASSUME NEW l \in Legs
      PROVE  Handshake(cmd, l) \in Cell /\ Handshake(cmd, l).cmd = cmd
             /\ Handshake(cmd, l).no = last_seq_sent[l]
  BY DEF Handshake, Cell
<1>2. ASSUME NEW l \in rlegs, l \in on
      PROVE  /\ Chain(link'[l], last_seq_recv[l], sent) /\ Increasing(link'[l], last_seq_recv[l])
             /\ LastNo(link'[l], last_seq_recv[l]) = last_seq_sent[l]
             /\ Numbers(link'[l]) = Numbers(link[l])
  <2> USE <1>2
  <2>1. link'[l] = Append(link[l], Handshake(cmd, l))
    OBVIOUS
  <2>2. Follows(Handshake(cmd, l), LastNo(link[l], last_seq_recv[l]), sent)
    BY <1>1 DEF LinkInv, Follows
  <2> QED
    BY <2>1, <2>2, <1>1, AppendCell DEF LinkInv
<1>3. ASSUME NEW l \in rlegs, l \notin on PROVE link'[l] = link[l]
  BY <1>3
<1>4. LinkInv'
  BY <1>2, <1>3 DEF LinkInv
<1>5. link' \in [Legs -> Seq(Cell)]
  BY SMTT(30), <1>1
<1> QED
  BY <1>2, <1>3, <1>4, <1>5

\* A message that is sent takes the next number.
LEMMA LinkSend ==
    ASSUME TypeOK, LinkInv, SendInv, NEW m \in Msgs, NEW l \in Legs,
           SentPlain(l, m) \/ SentSwitch(l, m), UNCHANGED <<up, rlegs, last_seq_recv>>
    PROVE  /\ LinkInv' /\ link' \in [Legs -> Seq(Cell)]
           /\ \A k \in rlegs : Numbers(link'[k]) \subseteq
                                  Numbers(link[k]) \cup (IF k = l THEN {Len(sent) + 1} ELSE {})
           /\ \A k \in rlegs : \A x \in Numbers(link[k]) : x \in 1 .. Len(sent)
<1> /\ rlegs \subseteq Legs /\ sent \in Seq(Msgs) /\ Len(sent) \in Nat
    /\ link \in [Legs -> Seq(Cell)] /\ last_seq_sent \in [Legs -> Nat]
    /\ \A k \in Legs : /\ link[k] \in Seq(Cell) /\ last_seq_recv[k] \in Nat
                       /\ last_seq_sent[k] \in Nat /\ last_seq_sent[k] <= Len(sent)
    /\ sent' = Append(sent, m) /\ l \in up
  <2>1. sent' = Append(sent, m) /\ l \in up
    BY DEF SentPlain, SentSwitch, SentOn
  <2>2. /\ rlegs \subseteq Legs /\ sent \in Seq(Msgs) /\ link \in [Legs -> Seq(Cell)]
        /\ last_seq_sent \in [Legs -> Nat] /\ last_seq_recv \in [Legs -> Nat]
    BY DEF TypeOK, LinkTypes, ClientTypes, JoinTypes
  <2>3. \A k \in Legs : last_seq_sent[k] <= Len(sent)
    BY DEF SendInv
  <2> QED
    BY SMTT(30), <2>1, <2>2, <2>3
<1> DEFINE msgs == Append(sent, m)
           sw == Switch(Len(sent) - last_seq_sent[l], Len(sent))
           c == Counted(m, Len(sent) + 1)
<1>1. msgs \in Seq(Msgs) /\ Len(msgs) = Len(sent) + 1 /\ msgs[Len(sent) + 1] = m
  BY SMTT(30)
<1>2. /\ c \in Cell /\ c.cmd = "MSG" /\ c.no = Len(sent) + 1 /\ c.msg = m
      /\ sw \in Cell /\ sw.cmd = "SWITCH" /\ sw.no = Len(sent)
      /\ sw.delta = Len(sent) - last_seq_sent[l]
  BY SMTT(30), Len(sent) + 1 \in Nat, Len(sent) - last_seq_sent[l] \in Nat, Cells
<1>3. \A k \in rlegs : /\ Chain(link[k], last_seq_recv[k], msgs)
                       /\ \A x \in Numbers(link[k]) : x \in 1 .. Len(sent)
  BY MoreSent DEF LinkInv
<1> HIDE DEF msgs, sw, c
<1>4. PICK cells \in Seq(Cell) :
         /\ (cells = link[l] /\ last_seq_sent[l] = Len(sent)) \/ cells = Append(link[l], sw)
         /\ link' = [link EXCEPT ![l] = Append(cells, c)]
         /\ last_seq_sent' = [last_seq_sent EXCEPT ![l] = Len(sent) + 1]
  <2>1. CASE SentPlain(l, m)
    BY <2>1 DEF SentPlain, SentOn, c
  <2>2. CASE SentSwitch(l, m)
    <3>1. Append(link[l], sw) \in Seq(Cell)
      BY SMTT(30), <1>2
    <3> QED
      BY <2>2, <3>1 DEF SentSwitch, SentOn, sw, c
  <2> QED
    BY <2>1, <2>2
<1>5. ASSUME l \in rlegs
      PROVE  /\ Chain(cells, last_seq_recv[l], msgs) /\ Increasing(cells, last_seq_recv[l])
             /\ LastNo(cells, last_seq_recv[l]) = Len(sent)
             /\ Numbers(cells) = Numbers(link[l])
  <2> USE <1>5
  <2> LastNo(link[l], last_seq_recv[l]) = last_seq_sent[l] /\ Increasing(link[l], last_seq_recv[l])
    BY DEF LinkInv
  <2>2. CASE cells = link[l] /\ last_seq_sent[l] = Len(sent)
    BY <1>3, <2>2
  <2>3. CASE cells = Append(link[l], sw)
    <3>1. Follows(sw, LastNo(link[l], last_seq_recv[l]), msgs)
      BY SMTT(30), <1>2 DEF Follows
    <3> QED
      BY <1>1, <1>2, <1>3, <2>3, <3>1, AppendCell
  <2> QED
    BY <1>4, <2>2, <2>3
<1>6. ASSUME l \in rlegs
      PROVE  /\ Chain(link'[l], last_seq_recv[l], msgs) /\ Increasing(link'[l], last_seq_recv[l])
             /\ LastNo(link'[l], last_seq_recv[l]) = last_seq_sent'[l]
             /\ Numbers(link'[l]) \subseteq Numbers(link[l]) \cup {Len(sent) + 1}
  <2>1. link'[l] = Append(cells, c) /\ last_seq_sent'[l] = Len(sent) + 1
    BY <1>4
  <2>2. Follows(c, LastNo(cells, last_seq_recv[l]), msgs)
    BY SMTT(30), <1>1, <1>2, <1>5, <1>6 DEF Follows
  <2> QED
    BY <1>1, <1>2, <1>4, <1>5, <1>6, <2>1, <2>2, AppendCell
<1>7. \A k \in Legs \ {l} : link'[k] = link[k] /\ last_seq_sent'[k] = last_seq_sent[k]
  BY <1>4
<1>8. LinkInv'
  <2>1. sent' = msgs
    BY DEF msgs
  <2> QED
    BY <1>3, <1>6, <1>7, <2>1 DEF LinkInv
<1>9. link' \in [Legs -> Seq(Cell)]
  BY SMTT(30), <1>2, <1>4
<1> QED
  BY <1>3, <1>6, <1>7, <1>8, <1>9

\* A cell that is handled is counted as it was when it was sent.
LEMMA LinkHandle ==
    ASSUME TypeOK, LinkInv, NEW l \in rlegs, link[l] # <<>>,
           link' = [link EXCEPT ![l] = Tail(@)],
           last_seq_recv' = [last_seq_recv EXCEPT ![l] = Head(link[l]).no],
           UNCHANGED <<up, rlegs, sent, last_seq_sent>>
    PROVE  LinkInv'
<1> /\ rlegs \subseteq Legs /\ sent \in Seq(Msgs)
    /\ link \in [Legs -> Seq(Cell)] /\ last_seq_recv \in [Legs -> Nat]
    /\ link[l] \in Seq(Cell) /\ last_seq_recv[l] \in Nat
  BY DEF TypeOK, LinkTypes, ClientTypes, JoinTypes
<1>1. link'[l] = Tail(link[l]) /\ last_seq_recv'[l] = Head(link[l]).no
  OBVIOUS
<1>2. \A k \in Legs \ {l} : link'[k] = link[k] /\ last_seq_recv'[k] = last_seq_recv[k]
  OBVIOUS
<1>3. Chain(link[l], last_seq_recv[l], sent) /\ Increasing(link[l], last_seq_recv[l])
  BY DEF LinkInv
<1>4. /\ Chain(Tail(link[l]), Head(link[l]).no, sent) /\ Increasing(Tail(link[l]), Head(link[l]).no)
      /\ LastNo(Tail(link[l]), Head(link[l]).no) = LastNo(link[l], last_seq_recv[l])
  BY <1>3, TailCells
<1> QED
  BY SMTT(30), <1>1, <1>2, <1>4 DEF LinkInv

\* A leg that is dropped makes no difference to the others.
LEMMA LinkDrop ==
    ASSUME TypeOK, LinkInv, NEW l \in Legs, NEW s, link' = [link EXCEPT ![l] = s],
           UNCHANGED <<sent, last_seq_recv, last_seq_sent>>,
           up' \subseteq up, rlegs' \subseteq rlegs,
           l \notin rlegs' \/ (/\ l \notin up' /\ Chain(s, last_seq_recv[l], sent)
                              /\ Increasing(s, last_seq_recv[l]))
    PROVE  LinkInv'
<1>1. \A k \in Legs \ {l} : link'[k] = link[k]
  BY DEF TypeOK, LinkTypes, ClientTypes, JoinTypes
<1>2. link'[l] = s /\ rlegs \subseteq Legs
  BY DEF TypeOK, LinkTypes, ClientTypes, JoinTypes
<1> QED
  BY <1>1, <1>2 DEF LinkInv

\* What a noted result leaves behind.
LEMMA NoteResult ==
    ASSUME ClientTypes, NEW closing \in BOOLEAN,
           NEW then \in {"Running", "Proto", "ChannelClosed"},
           note_conflux_handshake_result(closing, then)
    PROVE  /\ ctx' \in [num_legs : Nat, results : Nat]
           /\ answer' \in {"None", "Waiting", "Done", "Error", "Gone"}
           /\ state' \in {then, "NoContext", "Shutdown"}
BY SMTT(30) DEF ClientTypes, note_conflux_handshake_result, NoCtx

\* A LINKED is acknowledged on a leg that is up, and the reactor stops otherwise.
LEMMA LinkedAnswer ==
    ASSUME ClientTypes, NEW l \in Legs, handle_conflux_linked(l)
    PROVE  /\ \E then \in {"Running", "ChannelClosed"} : note_conflux_handshake_result(FALSE, then)
           /\ \/ link' = link
              \/ l \in up /\ link' = [link EXCEPT ![l] = Append(@, Handshake("LINKED_ACK", l))]
<1> DEFINE then == IF l \in up THEN "Running" ELSE "ChannelClosed"
<1>1. /\ note_conflux_handshake_result(FALSE, then) /\ then \in {"Running", "ChannelClosed"}
      /\ link' = IF state' = "Running"
                 THEN [link EXCEPT ![l] = Append(@, Handshake("LINKED_ACK", l))] ELSE link
  BY DEF handle_conflux_linked
<1>2. state' \in {then, "NoContext", "Shutdown"}
  <2> HIDE DEF then
  <2> QED
    BY <1>1, NoteResult
<1> QED
  BY <1>1, <1>2

\* What the removal of a leg changes.
LEMMA RemoveChanges ==
    ASSUME ClientTypes, NEW l \in Legs, NEW then \in {"Running", "Proto"}, RemoveLeg(l, then)
    PROVE  /\ legs' = legs \ {l} /\ up' = up \ {l}
           /\ state' = "Running" => l # primary_id /\ state = "Running"
           /\ ctx' \in [num_legs : Nat, results : Nat]
           /\ answer' \in {"None", "Waiting", "Done", "Error", "Gone"}
           /\ state' \in {"Running", "Proto", "NoContext", "Shutdown"}
           /\ UNCHANGED <<status, primary_id, selected_init_primary, last_seq_sent, join,
                          sent, delivered>>
<1>1. (then # "Running") \in BOOLEAN
  OBVIOUS
<1>2. CASE MayRemove(l) /\ status[l] # "Linked"
             /\ note_conflux_handshake_result(then # "Running", then)
  BY <1>1, <1>2, NoteResult DEF RemoveLeg, MayRemove, join
<1>3. CASE MayRemove(l) /\ UNCHANGED <<state, ctx, answer>>
  BY <1>3 DEF RemoveLeg, MayRemove, ClientTypes, Stopped, join
<1>4. CASE state' = "Shutdown" /\ UNCHANGED <<ctx, answer>>
  BY <1>4 DEF RemoveLeg, ClientTypes, join
<1> QED
  BY <1>2, <1>3, <1>4 DEF RemoveLeg

\* What handling a cell takes from its leg.
LEMMA HandleChanges ==
    ASSUME LinkTypes, JoinTypes, NEW l \in Legs, NEW cmd, HandleCell(l, cmd)
    PROVE  /\ link[l] # <<>> /\ Head(link[l]) \in Cell /\ Head(link[l]).cmd = cmd
           /\ link' \in [Legs -> Seq(Cell)] /\ link' = [link EXCEPT ![l] = Tail(@)]
           /\ batch' \subseteq Legs /\ UNCHANGED <<up, client, sent>>
           /\ rstate = "Running"
<1> link[l] \in Seq(Cell) /\ link[l] # <<>> /\ link' = [link EXCEPT ![l] = Tail(@)]
  BY DEF LinkTypes, HandleCell
<1>2. Head(link[l]) \in Cell /\ Tail(link[l]) \in Seq(Cell)
  BY SMTT(30)
<1>3. link' \in [Legs -> Seq(Cell)]
  BY <1>2 DEF LinkTypes
<1> QED
  BY <1>2, <1>3 DEF HandleCell, JoinTypes

\* Every step keeps the types of what is in transit.
LEMMA NextLinkTypes == IndInv /\ [Next]_vars => LinkTypes'
<1> SUFFICES ASSUME IndInv, [Next]_vars PROVE LinkTypes'
  OBVIOUS
<1> TypeOK /\ LinkTypes /\ ClientTypes /\ JoinTypes /\ LinkInv /\ SendInv
  BY DEF IndInv, TypeOK
<1>1. ASSUME handle_link_circuits PROVE LinkTypes'
  <2> USE <1>1
  <2>1. \A l \in Legs : Handshake("LINK", l) \in Cell /\ Append(link[l], Handshake("LINK", l)) \in Seq(Cell)
    BY SMTT(30) DEF LinkTypes, ClientTypes, Handshake, Cell
  <2>2. CASE link' = [l \in Legs |-> Append(link[l], Handshake("LINK", l))]
    BY <2>1, <2>2 DEF LinkTypes, handle_link_circuits
  <2>3. ASSUME NEW done \in SUBSET up,
               link' = [l \in Legs |-> IF l \in done THEN Append(link[l], Handshake("LINK", l)) ELSE link[l]]
        PROVE  LinkTypes'
    BY <2>1, <2>3 DEF LinkTypes, handle_link_circuits
  <2> QED
    BY <2>2, <2>3 DEF handle_link_circuits
<1>2. ASSUME NEW l \in Legs, handle_conflux_linked(l) PROVE LinkTypes'
  <2>1. Append(link[l], Handshake("LINKED_ACK", l)) \in Seq(Cell) /\ Tail(back[l]) \in Seq({"LINKED", "Mismatch"})
    BY SMTT(30), <1>2 DEF LinkTypes, ClientTypes, Handshake, Cell, handle_conflux_linked
  <2> QED
    BY <1>2, <2>1 DEF LinkTypes, handle_conflux_linked
<1>3. ASSUME NEW l \in Legs, RemoveMismatch(l) PROVE LinkTypes'
  <2>1. Tail(back[l]) \in Seq({"LINKED", "Mismatch"})
    BY SMTT(30), <1>3 DEF LinkTypes, RemoveMismatch
  <2> QED
    BY <1>3, <2>1 DEF LinkTypes, RemoveMismatch, RemoveLeg
<1>4. ASSUME NEW l \in Legs, RemoveTimeout(l) PROVE LinkTypes'
  BY <1>4 DEF LinkTypes, RemoveTimeout, RemoveLeg
<1>5. ASSUME NEW l \in Legs, RemoveClosed(l) PROVE LinkTypes'
  BY <1>5 DEF LinkTypes, RemoveClosed, RemoveLeg
<1>6. ASSUME NEW l \in Legs, handle_destroy_cell(l) PROVE LinkTypes'
  BY <1>6 DEF LinkTypes, handle_destroy_cell
<1>7. ASSUME NEW l \in Legs, HandleHandshake(l) PROVE LinkTypes'
  <2>1. \A a \in {"LINKED", "Mismatch"} : Append(back[l], a) \in Seq({"LINKED", "Mismatch"})
    BY SMTT(30) DEF LinkTypes
  <2>2. back' \in [Legs -> Seq({"LINKED", "Mismatch"})]
    BY <1>7, <2>1 DEF LinkTypes, HandleHandshake
  <2> QED
    BY <1>7, <2>2, HandleChanges DEF LinkTypes, HandleHandshake
<1>8. ASSUME NEW l \in Legs, action_for_msg(l) PROVE LinkTypes'
  <2>1. HandleCell(l, "MSG") /\ UNCHANGED back
    BY <1>8 DEF action_for_msg
  <2> QED
    BY <2>1, HandleChanges DEF LinkTypes
<1>9. ASSUME NEW l \in Legs, handle_conflux_switch(l) PROVE LinkTypes'
  <2>1. HandleCell(l, "SWITCH") /\ UNCHANGED back
    BY <1>9 DEF handle_conflux_switch
  <2> QED
    BY <2>1, HandleChanges DEF LinkTypes
<1>10. ASSUME NEW l \in Legs, RemoveClosedAtJoin(l) PROVE LinkTypes'
  BY <1>10 DEF LinkTypes, RemoveClosedAtJoin
<1>11. ASSUME NEW l \in Legs, CloseChannel(l) PROVE LinkTypes'
  <2>1. /\ \A n \in 0 .. Len(link[l]) : SubSeq(link[l], 1, n) \in Seq(Cell)
        /\ \A n \in 0 .. Len(back[l]) : SubSeq(back[l], 1, n) \in Seq({"LINKED", "Mismatch"})
    BY SMTT(30) DEF LinkTypes
  <2> QED
    BY <1>11, <2>1 DEF LinkTypes, CloseChannel
<1>12. ASSUME NEW m \in Msgs, send_relay_cell_on_leg(m) \/ send_on_primary(m) PROVE LinkTypes'
  <2> UNCHANGED <<up, back, join>>
    BY <1>12, SendCases
  <2>2. CASE NotSent
    BY <2>2 DEF LinkTypes, NotSent
  <2>3. ASSUME NEW l \in Legs, SentPlain(l, m) \/ SentSwitch(l, m) PROVE LinkTypes'
    <3>1. link' \in [Legs -> Seq(Cell)]
      BY <2>3, LinkSend DEF join, counters
    <3> QED
      BY <3>1 DEF LinkTypes
  <2> QED
    BY <1>12, <2>2, <2>3, SendCases
<1>13. ASSUME try_dequeue_ooo_msgs PROVE LinkTypes'
  BY <1>13 DEF LinkTypes, try_dequeue_ooo_msgs
<1>14. ASSUME next_circ_event PROVE LinkTypes'
  BY <1>14 DEF LinkTypes, next_circ_event
<1>15. ASSUME UNCHANGED vars PROVE LinkTypes'
  BY <1>15 DEF LinkTypes, vars
<1> QED
  BY <1>1, <1>2, <1>3, <1>4, <1>5, <1>6, <1>7, <1>8, <1>9, <1>10, <1>11, <1>12, <1>13,
     <1>14, <1>15 DEF Next, LinkStep, Event

\* Every step keeps the types of the client.
LEMMA NextClientTypes == IndInv /\ [Next]_vars => ClientTypes'
<1> SUFFICES ASSUME IndInv, [Next]_vars PROVE ClientTypes'
  OBVIOUS
<1>0. TypeOK /\ LinkTypes /\ ClientTypes /\ JoinTypes /\ LinkInv /\ SendInv
  BY DEF IndInv, TypeOK
<1>1. ASSUME handle_link_circuits PROVE ClientTypes'
  <2> USE <1>1
  <2>1. Cardinality(Legs) \in Nat
    BY ConfluxAssumption, FS_CardinalityType
  <2>2. ctx' \in [num_legs : Nat, results : Nat]
    BY SMTT(30), <1>0, <2>1 DEF ClientTypes, handle_link_circuits
  <2>3. status' \in [Legs -> {"None", "Unlinked", "AwaitingLink", "Linked"}]
    BY DEF handle_link_circuits
  <2> QED
    BY <1>0, <2>2, <2>3 DEF ClientTypes, handle_link_circuits
<1>2. ASSUME NEW l \in Legs, handle_conflux_linked(l) PROVE ClientTypes'
  <2>1. PICK then \in {"Running", "ChannelClosed"} : note_conflux_handshake_result(FALSE, then)
    BY <1>0, <1>2, LinkedAnswer
  <2> QED
    BY <1>0, <1>2, <2>1, NoteResult DEF ClientTypes, Stopped, handle_conflux_linked
<1>3. ASSUME NEW l \in Legs, RemoveMismatch(l) PROVE ClientTypes'
  <2>1. RemoveLeg(l, "Proto")
    BY <1>3 DEF RemoveMismatch
  <2> QED
    BY <1>0, <2>1, RemoveChanges DEF ClientTypes, Stopped
<1>4. ASSUME NEW l \in Legs, RemoveTimeout(l) PROVE ClientTypes'
  <2>1. RemoveLeg(l, "Running")
    BY <1>4 DEF RemoveTimeout
  <2> QED
    BY <1>0, <2>1, RemoveChanges DEF ClientTypes, Stopped
<1>5. ASSUME NEW l \in Legs, RemoveClosed(l) PROVE ClientTypes'
  <2>1. RemoveLeg(l, "Running")
    BY <1>5 DEF RemoveClosed
  <2> QED
    BY <1>0, <2>1, RemoveChanges DEF ClientTypes, Stopped
<1>6. ASSUME NEW l \in Legs, handle_destroy_cell(l) PROVE ClientTypes'
  BY <1>0, <1>6 DEF ClientTypes, Stopped, handle_destroy_cell
<1>7. ASSUME NEW l \in Legs, HandleHandshake(l) PROVE ClientTypes'
  <2>1. UNCHANGED <<client, sent>>
    BY <1>7 DEF HandleHandshake, HandleCell
  <2> QED
    BY <1>0, <2>1 DEF ClientTypes, client, setVars
<1>8. ASSUME NEW l \in Legs, action_for_msg(l) PROVE ClientTypes'
  <2>1. UNCHANGED <<client, sent>>
    BY <1>8 DEF action_for_msg, HandleCell
  <2> QED
    BY <1>0, <2>1 DEF ClientTypes, client, setVars
<1>9. ASSUME NEW l \in Legs, handle_conflux_switch(l) PROVE ClientTypes'
  <2>1. UNCHANGED <<client, sent>>
    BY <1>9 DEF handle_conflux_switch, HandleCell
  <2> QED
    BY <1>0, <2>1 DEF ClientTypes, client, setVars
<1>10. ASSUME NEW l \in Legs, RemoveClosedAtJoin(l) PROVE ClientTypes'
  <2>1. UNCHANGED <<client, sent>>
    BY <1>10 DEF RemoveClosedAtJoin
  <2> QED
    BY <1>0, <2>1 DEF ClientTypes, client, setVars
<1>11. ASSUME NEW l \in Legs, CloseChannel(l) PROVE ClientTypes'
  <2>1. UNCHANGED <<client, sent>>
    BY <1>11 DEF CloseChannel
  <2> QED
    BY <1>0, <2>1 DEF ClientTypes, client, setVars
<1>12. ASSUME NEW m \in Msgs, send_relay_cell_on_leg(m) \/ send_on_primary(m) PROVE ClientTypes'
  <2>1. UNCHANGED <<legs, status, ctx, answer>>
    BY <1>0, <1>12, SendCases
  <2>2. CASE NotSent
    BY <1>0, <2>1, <2>2 DEF ClientTypes, NotSent
  <2>3. ASSUME NEW l \in Legs, SentPlain(l, m) \/ SentSwitch(l, m) PROVE ClientTypes'
    <3>1. /\ primary_id' = l /\ selected_init_primary' = TRUE /\ state' = state
          /\ last_seq_sent' = [last_seq_sent EXCEPT ![l] = Len(sent) + 1] /\ sent' = Append(sent, m)
      BY <2>3 DEF SentPlain, SentSwitch, SentOn
    <3>2. Len(sent) + 1 \in Nat /\ Append(sent, m) \in Seq(Msgs)
      BY SMTT(30), <1>0 DEF ClientTypes
    <3> QED
      BY <1>0, <2>1, <3>1, <3>2 DEF ClientTypes
  <2> QED
    BY <1>0, <1>12, <2>2, <2>3, SendCases
<1>13. ASSUME try_dequeue_ooo_msgs PROVE ClientTypes'
  <2>1. UNCHANGED <<client, sent>>
    BY <1>13 DEF try_dequeue_ooo_msgs
  <2> QED
    BY <1>0, <2>1 DEF ClientTypes, client, setVars
<1>14. ASSUME next_circ_event PROVE ClientTypes'
  <2>1. UNCHANGED <<client, sent>>
    BY <1>14 DEF next_circ_event
  <2> QED
    BY <1>0, <2>1 DEF ClientTypes, client, setVars
<1>15. ASSUME UNCHANGED vars PROVE ClientTypes'
  <2>1. UNCHANGED <<client, sent>>
    BY <1>15 DEF vars
  <2> QED
    BY <1>0, <2>1 DEF ClientTypes, client, setVars
<1> QED
  BY <1>1, <1>2, <1>3, <1>4, <1>5, <1>6, <1>7, <1>8, <1>9, <1>10, <1>11, <1>12, <1>13, <1>14,
     <1>15 DEF Next, LinkStep, Event

\* Every step keeps the types of the join point.
LEMMA NextJoinTypes == IndInv /\ [Next]_vars => JoinTypes'
<1> SUFFICES ASSUME IndInv, [Next]_vars PROVE JoinTypes'
  OBVIOUS
<1> TypeOK /\ LinkTypes /\ ClientTypes /\ JoinTypes /\ LinkInv /\ SendInv
  BY DEF IndInv, TypeOK
<1>1. ASSUME handle_link_circuits PROVE JoinTypes'
  <2>1. UNCHANGED <<join, delivered>>
    BY <1>1 DEF handle_link_circuits
  <2> QED
    BY <2>1 DEF JoinTypes, join, counters
<1>2. ASSUME NEW l \in Legs, handle_conflux_linked(l) PROVE JoinTypes'
  <2>1. UNCHANGED <<join, delivered>>
    BY <1>2 DEF handle_conflux_linked
  <2> QED
    BY <2>1 DEF JoinTypes, join, counters
<1>3. ASSUME NEW l \in Legs, RemoveMismatch(l) PROVE JoinTypes'
  <2>1. UNCHANGED <<join, delivered>>
    BY <1>3 DEF RemoveMismatch, RemoveLeg
  <2> QED
    BY <2>1 DEF JoinTypes, join, counters
<1>4. ASSUME NEW l \in Legs, RemoveTimeout(l) PROVE JoinTypes'
  <2>1. UNCHANGED <<join, delivered>>
    BY <1>4 DEF RemoveTimeout, RemoveLeg
  <2> QED
    BY <2>1 DEF JoinTypes, join, counters
<1>5. ASSUME NEW l \in Legs, RemoveClosed(l) PROVE JoinTypes'
  <2>1. UNCHANGED <<join, delivered>>
    BY <1>5 DEF RemoveClosed, RemoveLeg
  <2> QED
    BY <2>1 DEF JoinTypes, join, counters
<1>6. ASSUME NEW l \in Legs, handle_destroy_cell(l) PROVE JoinTypes'
  <2>1. UNCHANGED <<join, delivered>>
    BY <1>6 DEF handle_destroy_cell
  <2> QED
    BY <2>1 DEF JoinTypes, join, counters
<1>7. ASSUME NEW l \in Legs, HandleHandshake(l) PROVE JoinTypes'
  <2>1. batch' \subseteq Legs
    BY <1>7, HandleChanges DEF HandleHandshake
  <2> QED
    BY <1>7, <2>1 DEF JoinTypes, HandleHandshake, counters
<1>8. ASSUME NEW l \in Legs, action_for_msg(l) PROVE JoinTypes'
  <2> USE <1>8
  <2>1. Head(link[l]).msg \in Msgs /\ batch' \subseteq Legs
    BY SMTT(30), HandleChanges DEF action_for_msg, Cell
  <2>2. delivered' \in Seq(Msgs) /\ last_seq_delivered' \in Nat
    <3>1. Append(delivered, Head(link[l]).msg) \in Seq(Msgs) /\ last_seq_delivered + 1 \in Nat
      BY SMTT(30), <2>1 DEF JoinTypes
    <3>2. delivered \in Seq(Msgs) /\ last_seq_delivered \in Nat
      BY DEF JoinTypes
    <3> QED
      BY <3>1, <3>2 DEF action_for_msg, inc_last_seq_delivered
  <2>3. last_seq_recv' \in [Legs -> Nat] /\ cells_since_switch' \in [Legs -> Nat]
    BY SMTT(30) DEF JoinTypes, action_for_msg
  <2>4. ooo_msgs' \subseteq [seqno : Nat, leg : Legs, msg : Msgs]
    BY SMTT(30), <2>1 DEF JoinTypes, action_for_msg
  <2> QED
    BY <2>1, <2>2, <2>3, <2>4 DEF JoinTypes, action_for_msg
<1>9. ASSUME NEW l \in Legs, handle_conflux_switch(l) PROVE JoinTypes'
  <2> USE <1>9
  <2> Head(link[l]).delta \in Nat /\ batch' \subseteq Legs
    BY HandleChanges DEF handle_conflux_switch, Cell
  <2>2. CASE SwitchIsValid(l, Head(link[l]).delta)
    <3>1. /\ last_seq_recv' = [last_seq_recv EXCEPT ![l] = @ + Head(link[l]).delta]
          /\ have_seen_switch' = [have_seen_switch EXCEPT ![l] = TRUE]
          /\ cells_since_switch' = [cells_since_switch EXCEPT ![l] = 0]
          /\ UNCHANGED <<rstate, rlegs, last_seq_delivered, ooo_msgs, delivered>>
      BY <2>2 DEF handle_conflux_switch
    <3>2. last_seq_recv' \in [Legs -> Nat]
      BY SMTT(30), <3>1 DEF JoinTypes
    <3> QED
      BY <3>1, <3>2 DEF JoinTypes
  <2>3. CASE ~ SwitchIsValid(l, Head(link[l]).delta)
    BY <2>3 DEF JoinTypes, handle_conflux_switch, RemoveAtJoin, counters
  <2> QED
    BY <2>2, <2>3
<1>10. ASSUME NEW l \in Legs, RemoveClosedAtJoin(l) PROVE JoinTypes'
  BY <1>10 DEF JoinTypes, RemoveClosedAtJoin, RemoveAtJoin, counters
<1>11. ASSUME NEW l \in Legs, CloseChannel(l) PROVE JoinTypes'
  <2>1. UNCHANGED <<join, delivered>>
    BY <1>11 DEF CloseChannel
  <2> QED
    BY <2>1 DEF JoinTypes, join, counters
<1>12. ASSUME NEW m \in Msgs, send_relay_cell_on_leg(m) \/ send_on_primary(m) PROVE JoinTypes'
  <2>1. UNCHANGED <<join, delivered>>
    BY <1>12, SendCases
  <2> QED
    BY <2>1 DEF JoinTypes, join, counters
<1>13. ASSUME try_dequeue_ooo_msgs PROVE JoinTypes'
  <2> PICK e \in Dequeueable :
         /\ ooo_msgs' = ooo_msgs \ {e}
         /\ IF e.leg \in rlegs
            THEN inc_last_seq_delivered(e.msg) /\ rstate' = rstate
            ELSE rstate' = "LegDisappeared" /\ UNCHANGED <<last_seq_delivered, delivered>>
    BY <1>13 DEF try_dequeue_ooo_msgs
  <2>2. e.msg \in Msgs
    BY DEF Dequeueable, JoinTypes
  <2>3. delivered' \in Seq(Msgs) /\ last_seq_delivered' \in Nat
    <3>1. Append(delivered, e.msg) \in Seq(Msgs) /\ last_seq_delivered + 1 \in Nat
      BY SMTT(30), <2>2 DEF JoinTypes
    <3>2. delivered \in Seq(Msgs) /\ last_seq_delivered \in Nat
      BY DEF JoinTypes
    <3> QED
      BY <3>1, <3>2 DEF inc_last_seq_delivered
  <2> QED
    BY <1>13, <2>3 DEF JoinTypes, try_dequeue_ooo_msgs, counters
<1>14. ASSUME next_circ_event PROVE JoinTypes'
  BY <1>14 DEF JoinTypes, next_circ_event, counters
<1>15. ASSUME UNCHANGED vars PROVE JoinTypes'
  <2>1. UNCHANGED <<join, delivered>>
    BY <1>15 DEF vars
  <2> QED
    BY <2>1 DEF JoinTypes, join, counters
<1> QED
  BY <1>1, <1>2, <1>3, <1>4, <1>5, <1>6, <1>7, <1>8, <1>9, <1>10, <1>11, <1>12, <1>13, <1>14,
     <1>15 DEF Next, LinkStep, Event

-----------------------------------------------------------------------------

\* Every step keeps the counters of the client right.
LEMMA NextSendInv == IndInv /\ [Next]_vars => SendInv'
<1> SUFFICES ASSUME IndInv, [Next]_vars PROVE SendInv'
  OBVIOUS
<1>0. TypeOK /\ LinkTypes /\ ClientTypes /\ JoinTypes /\ LinkInv /\ SendInv /\ BufferInv /\ FreshInv
  BY DEF IndInv, TypeOK
<1>1. ASSUME handle_link_circuits PROVE SendInv'
  BY <1>0, <1>1 DEF SendInv, ClientTypes, handle_link_circuits
<1>2. ASSUME NEW l \in Legs, handle_conflux_linked(l) PROVE SendInv'
  <2>1. state = "Running" /\ UNCHANGED <<legs, primary_id, selected_init_primary, last_seq_sent, sent>>
    BY <1>2 DEF handle_conflux_linked
  <2> QED
    BY <1>0, <2>1 DEF SendInv
<1>3. ASSUME NEW l \in Legs, RemoveMismatch(l) PROVE SendInv'
  <2>1. RemoveLeg(l, "Proto") /\ UNCHANGED link
    BY <1>3 DEF RemoveMismatch
  <2> QED
    BY <1>0, <2>1, RemoveChanges DEF SendInv, RemoveLeg
<1>4. ASSUME NEW l \in Legs, RemoveTimeout(l) PROVE SendInv'
  <2>1. RemoveLeg(l, "Running") /\ UNCHANGED link
    BY <1>4 DEF RemoveTimeout
  <2> QED
    BY <1>0, <2>1, RemoveChanges DEF SendInv, RemoveLeg
<1>5. ASSUME NEW l \in Legs, RemoveClosed(l) PROVE SendInv'
  <2>1. RemoveLeg(l, "Running") /\ UNCHANGED link
    BY <1>5 DEF RemoveClosed
  <2> QED
    BY <1>0, <2>1, RemoveChanges DEF SendInv, RemoveLeg
<1>6. ASSUME NEW l \in Legs, handle_destroy_cell(l) PROVE SendInv'
  BY <1>0, <1>6 DEF SendInv, handle_destroy_cell
<1>7. ASSUME NEW l \in Legs, HandleHandshake(l) PROVE SendInv'
  <2>1. UNCHANGED <<client, sent>>
    BY <1>7 DEF HandleHandshake, HandleCell
  <2> QED
    BY <1>0, <2>1 DEF SendInv, client, setVars
<1>8. ASSUME NEW l \in Legs, action_for_msg(l) PROVE SendInv'
  <2>1. UNCHANGED <<client, sent>>
    BY <1>8 DEF action_for_msg, HandleCell
  <2> QED
    BY <1>0, <2>1 DEF SendInv, client, setVars
<1>9. ASSUME NEW l \in Legs, handle_conflux_switch(l) PROVE SendInv'
  <2>1. UNCHANGED <<client, sent>>
    BY <1>9 DEF handle_conflux_switch, HandleCell
  <2> QED
    BY <1>0, <2>1 DEF SendInv, client, setVars
<1>10. ASSUME NEW l \in Legs, RemoveClosedAtJoin(l) PROVE SendInv'
  <2>1. UNCHANGED <<client, sent>>
    BY <1>10 DEF RemoveClosedAtJoin
  <2> QED
    BY <1>0, <2>1 DEF SendInv, client, setVars
<1>11. ASSUME NEW l \in Legs, CloseChannel(l) PROVE SendInv'
  <2>1. UNCHANGED <<client, sent>>
    BY <1>11 DEF CloseChannel
  <2> QED
    BY <1>0, <2>1 DEF SendInv, client, setVars
<1>12. ASSUME NEW m \in Msgs, send_relay_cell_on_leg(m) \/ send_on_primary(m) PROVE SendInv'
  <2>1. UNCHANGED <<up, legs, join, delivered>>
    BY <1>0, <1>12, SendCases
  <2>2. CASE NotSent
    BY <1>0, <2>1, <2>2 DEF SendInv, NotSent, ClientTypes
  <2>3. ASSUME NEW l \in Legs, SentPlain(l, m) \/ SentSwitch(l, m) PROVE SendInv'
    <3> /\ primary_id' = l /\ selected_init_primary' = TRUE /\ l \in legs
        /\ last_seq_sent' = [last_seq_sent EXCEPT ![l] = Len(sent) + 1] /\ sent' = Append(sent, m)
      BY <2>3 DEF SentPlain, SentSwitch, SentOn
    <3>2. Len(sent) \in Nat /\ Len(sent') = Len(sent) + 1
      BY SMTT(30), <1>0 DEF ClientTypes
    <3>3. last_seq_sent'[l] = Len(sent) + 1 /\ \A k \in Legs \ {l} : last_seq_sent'[k] = last_seq_sent[k]
      BY <1>0 DEF ClientTypes
    <3>4. \A k \in Legs : last_seq_sent[k] \in Nat /\ last_seq_sent[k] <= Len(sent)
      BY <1>0 DEF ClientTypes, SendInv
    <3> QED
      BY SMTT(30), <2>1, <3>2, <3>3, <3>4 DEF SendInv
  <2> QED
    BY <1>0, <1>12, <2>2, <2>3, SendCases
<1>13. ASSUME try_dequeue_ooo_msgs PROVE SendInv'
  <2>1. UNCHANGED <<client, sent>>
    BY <1>13 DEF try_dequeue_ooo_msgs
  <2> QED
    BY <1>0, <2>1 DEF SendInv, client, setVars
<1>14. ASSUME next_circ_event PROVE SendInv'
  <2>1. UNCHANGED <<client, sent>>
    BY <1>14 DEF next_circ_event
  <2> QED
    BY <1>0, <2>1 DEF SendInv, client, setVars
<1>15. ASSUME UNCHANGED vars PROVE SendInv'
  <2>1. UNCHANGED <<client, sent>>
    BY <1>15 DEF vars
  <2> QED
    BY <1>0, <2>1 DEF SendInv, client, setVars
<1> QED
  BY <1>1, <1>2, <1>3, <1>4, <1>5, <1>6, <1>7, <1>8, <1>9, <1>10, <1>11, <1>12, <1>13,
     <1>14, <1>15 DEF Next, LinkStep, Event

\* The legs that a LINK goes down are open.
LEMMA LinkedLegs ==
    ASSUME LinkTypes, handle_link_circuits
    PROVE  \E on \in SUBSET (Legs \cap up) :
              link' = [l \in Legs |-> IF l \in on THEN Append(link[l], Handshake("LINK", l)) ELSE link[l]]
<1>1. CASE Legs \subseteq up /\ link' = [l \in Legs |-> Append(link[l], Handshake("LINK", l))]
  <2>1. Legs \in SUBSET (Legs \cap up)
    BY <1>1
  <2> QED
    BY <1>1, <2>1
<1>2. ASSUME NEW done \in SUBSET up,
             link' = [l \in Legs |-> IF l \in done THEN Append(link[l], Handshake("LINK", l)) ELSE link[l]]
      PROVE  \E on \in SUBSET (Legs \cap up) :
                link' = [l \in Legs |-> IF l \in on THEN Append(link[l], Handshake("LINK", l)) ELSE link[l]]
  BY <1>2 DEF LinkTypes
<1> QED
  BY <1>1, <1>2 DEF handle_link_circuits

\* Every step keeps the numbering on every leg.
LEMMA NextLinkInv == IndInv /\ [Next]_vars => LinkInv'
<1> SUFFICES ASSUME IndInv, [Next]_vars PROVE LinkInv'
  OBVIOUS
<1>0. TypeOK /\ LinkTypes /\ ClientTypes /\ JoinTypes /\ LinkInv /\ SendInv /\ BufferInv /\ FreshInv
  BY DEF IndInv, TypeOK
<1>1. ASSUME handle_link_circuits PROVE LinkInv'
  <2>1. UNCHANGED <<up, rlegs, sent, last_seq_recv, last_seq_sent>>
    BY <1>1 DEF handle_link_circuits, join, counters
  <2>2. PICK on \in SUBSET (Legs \cap up) : link' = [l \in Legs |-> IF l \in on THEN Append(link[l], Handshake("LINK", l)) ELSE link[l]]
    BY <1>0, <1>1, LinkedLegs
  <2> QED
    BY <1>0, <2>1, <2>2, LinkHandshake
<1>2. ASSUME NEW l \in Legs, handle_conflux_linked(l) PROVE LinkInv'
  <2>1. UNCHANGED <<up, rlegs, sent, last_seq_recv, last_seq_sent>>
    BY <1>2 DEF handle_conflux_linked, join, counters
  <2>2. CASE link' = link
    BY <1>0, <2>1, <2>2, LinkFrame DEF LinkVars
  <2>3. CASE l \in up /\ link' = [link EXCEPT ![l] = Append(@, Handshake("LINKED_ACK", l))]
    <3>1. link' = [k \in Legs |-> IF k \in {l} THEN Append(link[k], Handshake("LINKED_ACK", k)) ELSE link[k]]
      BY <1>0, <2>3 DEF LinkTypes
    <3>2. {l} \in SUBSET (Legs \cap up)
      BY <2>3
    <3> QED
      BY <1>0, <2>1, <3>1, <3>2, LinkHandshake
  <2> QED
    BY <1>0, <1>2, <2>2, <2>3, LinkedAnswer
<1>3. ASSUME NEW l \in Legs, RemoveMismatch(l) PROVE LinkInv'
  <2>1. UNCHANGED LinkVars /\ up' \subseteq up /\ rlegs' \subseteq rlegs
    BY <1>3 DEF LinkVars, RemoveMismatch, RemoveLeg, client, setVars, join, counters
  <2> QED
    BY <1>0, <2>1, LinkFrame DEF LinkVars
<1>4. ASSUME NEW l \in Legs, RemoveTimeout(l) PROVE LinkInv'
  <2>1. UNCHANGED LinkVars /\ up' \subseteq up /\ rlegs' \subseteq rlegs
    BY <1>4 DEF LinkVars, RemoveTimeout, RemoveLeg, client, setVars, join, counters
  <2> QED
    BY <1>0, <2>1, LinkFrame DEF LinkVars
<1>5. ASSUME NEW l \in Legs, RemoveClosed(l) PROVE LinkInv'
  <2>1. UNCHANGED LinkVars /\ up' \subseteq up /\ rlegs' \subseteq rlegs
    BY <1>5 DEF LinkVars, RemoveClosed, RemoveLeg, client, setVars, join, counters
  <2> QED
    BY <1>0, <2>1, LinkFrame DEF LinkVars
<1>6. ASSUME NEW l \in Legs, handle_destroy_cell(l) PROVE LinkInv'
  <2>1. UNCHANGED LinkVars /\ up' \subseteq up /\ rlegs' \subseteq rlegs
    BY <1>6 DEF LinkVars, handle_destroy_cell, client, setVars, join, counters
  <2> QED
    BY <1>0, <2>1, LinkFrame DEF LinkVars
<1>7. ASSUME NEW l \in Legs, HandleHandshake(l) PROVE LinkInv'
  <2>1. PICK cmd \in {"LINK", "LINKED_ACK"} : HandleCell(l, cmd)
    BY <1>7 DEF HandleHandshake
  <2>2. UNCHANGED <<up, rlegs, sent, last_seq_sent, last_seq_recv>>
    BY <1>7, <2>1 DEF HandleHandshake, HandleCell, client, setVars, counters
  <2> /\ link[l] # <<>> /\ Head(link[l]).cmd = cmd /\ link' = [link EXCEPT ![l] = Tail(@)]
    BY <1>0, <2>1, HandleChanges
  <2>4. CASE l \in rlegs
    <3>1. Head(link[l]).no = last_seq_recv[l]
      BY <1>0, <2>4, TailCells DEF LinkInv, LinkTypes, JoinTypes, ClientTypes,
         Follows
    <3>2. last_seq_recv' = [last_seq_recv EXCEPT ![l] = Head(link[l]).no]
      BY <1>0, <2>2, <3>1 DEF JoinTypes
    <3> QED
      BY <1>0, <2>2, <2>4, <3>2, LinkHandle
  <2>5. CASE l \notin rlegs
    BY <1>0, <2>2, <2>5, LinkDrop DEF LinkTypes
  <2> QED
    BY <2>4, <2>5
<1>8. ASSUME NEW l \in Legs, action_for_msg(l) PROVE LinkInv'
  <2>1. HandleCell(l, "MSG") /\ last_seq_recv' = [last_seq_recv EXCEPT ![l] = last_seq_recv[l] + 1] /\ rlegs' = rlegs
    BY <1>8 DEF action_for_msg
  <2>2. UNCHANGED <<up, rlegs, sent, last_seq_sent>>
    BY <2>1 DEF HandleCell, client, setVars
  <2> /\ link[l] # <<>> /\ Head(link[l]).cmd = "MSG" /\ link' = [link EXCEPT ![l] = Tail(@)]
    BY <1>0, <2>1, HandleChanges
  <2>4. CASE l \in rlegs
    <3>1. Head(link[l]).no = last_seq_recv[l] + 1
      BY <1>0, <2>4, TailCells DEF LinkInv, LinkTypes, JoinTypes, ClientTypes,
         Follows
    <3> QED
      BY <1>0, <2>1, <2>2, <2>4, <3>1, LinkHandle
  <2>5. CASE l \notin rlegs
    <3>1. \A k \in Legs \ {l} : link'[k] = link[k] /\ last_seq_recv'[k] = last_seq_recv[k]
      BY <1>0, <2>1 DEF LinkTypes, JoinTypes
    <3> QED
      BY <1>0, <2>2, <2>5, <3>1 DEF LinkInv, JoinTypes
  <2> QED
    BY <2>4, <2>5
<1>9. ASSUME NEW l \in Legs, handle_conflux_switch(l) PROVE LinkInv'
  <2> USE <1>9
  <2>1. HandleCell(l, "SWITCH")
    BY DEF handle_conflux_switch
  <2>2. UNCHANGED <<up, sent, last_seq_sent>>
    BY <2>1 DEF HandleCell, client, setVars
  <2>3. /\ link[l] # <<>> /\ Head(link[l]).cmd = "SWITCH" /\ link' = [link EXCEPT ![l] = Tail(@)]
    BY <1>0, <2>1, HandleChanges
  <2>4. CASE ~ SwitchIsValid(l, Head(link[l]).delta)
    <3>1. rlegs' = rlegs \ {l} /\ UNCHANGED last_seq_recv
      BY <2>4 DEF handle_conflux_switch, RemoveAtJoin, counters
    <3> QED
      BY <1>0, <2>2, <2>3, <3>1, LinkDrop DEF LinkTypes
  <2>5. CASE SwitchIsValid(l, Head(link[l]).delta)
    <3> last_seq_recv' = [last_seq_recv EXCEPT ![l] = last_seq_recv[l] + Head(link[l]).delta] /\ rlegs' = rlegs
      BY <2>5 DEF handle_conflux_switch
    <3>2. CASE l \in rlegs
      <4>1. Head(link[l]).no = last_seq_recv[l] + Head(link[l]).delta
        BY <1>0, <2>3, <3>2, TailCells DEF LinkInv, LinkTypes, JoinTypes, ClientTypes,
           Follows
      <4> QED
        BY <1>0, <2>2, <2>3, <3>2, <4>1, LinkHandle
    <3>3. CASE l \notin rlegs
      <4>1. \A k \in Legs \ {l} : link'[k] = link[k] /\ last_seq_recv'[k] = last_seq_recv[k]
        BY <1>0, <2>3 DEF LinkTypes, JoinTypes
      <4> QED
        BY <1>0, <2>2, <3>3, <4>1 DEF LinkInv, JoinTypes
    <3> QED
      BY <3>2, <3>3
  <2> QED
    BY <2>4, <2>5
<1>10. ASSUME NEW l \in Legs, RemoveClosedAtJoin(l) PROVE LinkInv'
  <2>1. UNCHANGED LinkVars /\ up' \subseteq up /\ rlegs' \subseteq rlegs
    BY <1>10 DEF LinkVars, RemoveClosedAtJoin, RemoveAtJoin, client, setVars, join, counters
  <2> QED
    BY <1>0, <2>1, LinkFrame DEF LinkVars
<1>11. ASSUME NEW l \in Legs, CloseChannel(l) PROVE LinkInv'
  <2> PICK n \in 0 .. Len(link[l]) : link' = [link EXCEPT ![l] = SubSeq(@, 1, n)]
    BY <1>11 DEF CloseChannel
  <2>2. up' = up \ {l} /\ UNCHANGED <<sent, last_seq_recv, last_seq_sent, rlegs>>
    BY <1>11 DEF CloseChannel, client, setVars, join, counters
  <2>3. CASE l \in rlegs
    <3>1. /\ Chain(SubSeq(link[l], 1, n), last_seq_recv[l], sent)
          /\ Increasing(SubSeq(link[l], 1, n), last_seq_recv[l])
      BY <1>0, <2>3, PrefixCells DEF LinkInv, LinkTypes, JoinTypes
    <3> QED
      BY <1>0, <2>2, <3>1, LinkDrop
  <2>4. CASE l \notin rlegs
    BY <1>0, <2>2, <2>4, LinkDrop
  <2> QED
    BY <2>3, <2>4
<1>12. ASSUME NEW m \in Msgs, send_relay_cell_on_leg(m) \/ send_on_primary(m) PROVE LinkInv'
  <2>1. UNCHANGED <<up, legs, join, delivered>>
    BY <1>0, <1>12, SendCases
  <2>2. CASE NotSent
    BY <1>0, <2>1, <2>2, LinkFrame DEF LinkVars, NotSent, join, counters
  <2>3. ASSUME NEW l \in Legs, SentPlain(l, m) \/ SentSwitch(l, m) PROVE LinkInv'
    BY <1>0, <2>1, <2>3, LinkSend DEF join, counters
  <2> QED
    BY <1>0, <1>12, <2>2, <2>3, SendCases
<1>13. ASSUME try_dequeue_ooo_msgs PROVE LinkInv'
  <2>1. UNCHANGED LinkVars /\ up' \subseteq up /\ rlegs' \subseteq rlegs
    BY <1>13 DEF LinkVars, try_dequeue_ooo_msgs, client, setVars, join, counters
  <2> QED
    BY <1>0, <2>1, LinkFrame DEF LinkVars
<1>14. ASSUME next_circ_event PROVE LinkInv'
  <2>1. UNCHANGED LinkVars /\ up' \subseteq up /\ rlegs' \subseteq rlegs
    BY <1>14 DEF LinkVars, next_circ_event, client, setVars, join, counters
  <2> QED
    BY <1>0, <2>1, LinkFrame DEF LinkVars
<1>15. ASSUME UNCHANGED vars PROVE LinkInv'
  <2>1. UNCHANGED LinkVars /\ up' \subseteq up /\ rlegs' \subseteq rlegs
    BY <1>15 DEF LinkVars, vars, client, setVars, join, counters
  <2> QED
    BY <1>0, <2>1, LinkFrame DEF LinkVars
<1> QED
  BY <1>1, <1>2, <1>3, <1>4, <1>5, <1>6, <1>7, <1>8, <1>9, <1>10, <1>11, <1>12, <1>13, <1>14,
     <1>15 DEF Next, LinkStep, Event

\* A message that is handled has the number that it was sent with.
LEMMA HandledNumber ==
    ASSUME TypeOK, LinkInv, NEW l \in rlegs, link[l] # <<>>, Head(link[l]).cmd = "MSG"
    PROVE  /\ Head(link[l]).no = last_seq_recv[l] + 1
           /\ Head(link[l]).no \in 1 .. Len(sent) /\ Head(link[l]).msg = sent[Head(link[l]).no]
           /\ Head(link[l]).no \in Numbers(link[l])
           /\ Numbers(Tail(link[l])) = Numbers(link[l]) \ {Head(link[l]).no}
<1>1. /\ link[l] \in Seq(Cell) /\ last_seq_recv[l] \in Nat /\ sent \in Seq(Msgs)
      /\ Chain(link[l], last_seq_recv[l], sent) /\ Increasing(link[l], last_seq_recv[l])
  BY DEF TypeOK, LinkTypes, ClientTypes, JoinTypes, LinkInv
<1>2. /\ Follows(Head(link[l]), last_seq_recv[l], sent) /\ Head(link[l]).no \in Numbers(link[l])
      /\ Numbers(Tail(link[l])) = Numbers(link[l]) \ {Head(link[l]).no}
  BY <1>1, TailCells
<1> QED
  BY SMTT(30), <1>1, <1>2 DEF Follows

\* Every step keeps the buffer of the join point right.
LEMMA NextBufferInv == IndInv /\ [Next]_vars => BufferInv'
<1> SUFFICES ASSUME IndInv, [Next]_vars PROVE BufferInv'
  OBVIOUS
<1> TypeOK /\ LinkTypes /\ ClientTypes /\ JoinTypes /\ LinkInv /\ SendInv /\ BufferInv /\ FreshInv
  BY DEF IndInv, TypeOK
<1>1. ASSUME handle_link_circuits PROVE BufferInv'
  <2>1. UNCHANGED <<join, delivered, sent>>
    BY <1>1 DEF handle_link_circuits
  <2> QED
    BY <2>1 DEF BufferInv, join
<1>2. ASSUME NEW l \in Legs, handle_conflux_linked(l) PROVE BufferInv'
  <2>1. UNCHANGED <<join, delivered, sent>>
    BY <1>2 DEF handle_conflux_linked
  <2> QED
    BY <2>1 DEF BufferInv, join
<1>3. ASSUME NEW l \in Legs, RemoveMismatch(l) PROVE BufferInv'
  <2>1. UNCHANGED <<join, delivered, sent>>
    BY <1>3 DEF RemoveMismatch, RemoveLeg
  <2> QED
    BY <2>1 DEF BufferInv, join
<1>4. ASSUME NEW l \in Legs, RemoveTimeout(l) PROVE BufferInv'
  <2>1. UNCHANGED <<join, delivered, sent>>
    BY <1>4 DEF RemoveTimeout, RemoveLeg
  <2> QED
    BY <2>1 DEF BufferInv, join
<1>5. ASSUME NEW l \in Legs, RemoveClosed(l) PROVE BufferInv'
  <2>1. UNCHANGED <<join, delivered, sent>>
    BY <1>5 DEF RemoveClosed, RemoveLeg
  <2> QED
    BY <2>1 DEF BufferInv, join
<1>6. ASSUME NEW l \in Legs, handle_destroy_cell(l) PROVE BufferInv'
  <2>1. UNCHANGED <<join, delivered, sent>>
    BY <1>6 DEF handle_destroy_cell
  <2> QED
    BY <2>1 DEF BufferInv, join
<1>7. ASSUME NEW l \in Legs, HandleHandshake(l) PROVE BufferInv'
  BY <1>7 DEF BufferInv, HandleHandshake, HandleCell
<1>8. ASSUME NEW l \in Legs, action_for_msg(l) PROVE BufferInv'
  <2> USE <1>8
  <2> DEFINE cell == Head(link[l])
  <2>1. /\ HandleCell(l, "MSG") /\ l \in rlegs /\ UNCHANGED <<rlegs, sent>> /\ batch' \subseteq batch
        /\ link[l] # <<>> /\ cell.cmd = "MSG"
    BY DEF action_for_msg, HandleCell, BufferInv
  <2>2. cell.no = last_seq_recv[l] + 1 /\ cell.no \in 1 .. Len(sent) /\ cell.msg = sent[cell.no]
    BY <2>1, HandledNumber
  <2>3. ooo_msgs' \subseteq ooo_msgs \cup {[seqno |-> cell.no, leg |-> l, msg |-> cell.msg]}
    BY <2>2 DEF action_for_msg
  <2>4. \/ UNCHANGED <<last_seq_delivered, delivered>>
        \/ last_seq_delivered' = last_seq_delivered + 1 /\ \E m : delivered' = Append(delivered, m)
    BY DEF action_for_msg, inc_last_seq_delivered
  <2>5. last_seq_delivered' = Len(delivered')
    BY SMTT(30), <2>4 DEF BufferInv, JoinTypes
  <2> QED
    BY SMTT(30), <2>1, <2>2, <2>3, <2>5 DEF BufferInv
<1>9. ASSUME NEW l \in Legs, handle_conflux_switch(l) PROVE BufferInv'
  BY <1>9 DEF BufferInv, handle_conflux_switch, HandleCell, RemoveAtJoin
<1>10. ASSUME NEW l \in Legs, RemoveClosedAtJoin(l) PROVE BufferInv'
  BY <1>10 DEF BufferInv, RemoveClosedAtJoin, RemoveAtJoin
<1>11. ASSUME NEW l \in Legs, CloseChannel(l) PROVE BufferInv'
  <2>1. UNCHANGED <<join, delivered, sent>>
    BY <1>11 DEF CloseChannel
  <2> QED
    BY <2>1 DEF BufferInv, join
<1>12. ASSUME NEW m \in Msgs, send_relay_cell_on_leg(m) \/ send_on_primary(m) PROVE BufferInv'
  <2>1. UNCHANGED <<up, legs, join, delivered>>
    BY <1>12, SendCases
  <2>2. CASE NotSent
    BY <2>1, <2>2 DEF BufferInv, NotSent, join
  <2>3. ASSUME NEW l \in Legs, SentPlain(l, m) \/ SentSwitch(l, m) PROVE BufferInv'
    <3>1. sent' = Append(sent, m)
      BY <2>3 DEF SentPlain, SentSwitch, SentOn
    <3>2. \A i \in 1 .. Len(sent) : i \in 1 .. Len(sent') /\ sent'[i] = sent[i]
      BY SMTT(30), <3>1 DEF ClientTypes
    <3> QED
      BY <2>1, <3>2 DEF BufferInv, join
  <2> QED
    BY <1>12, <2>2, <2>3, SendCases
<1>13. ASSUME try_dequeue_ooo_msgs PROVE BufferInv'
  <2>1. UNCHANGED <<sent, rlegs, batch>> /\ ooo_msgs' \subseteq ooo_msgs
    BY <1>13 DEF try_dequeue_ooo_msgs
  <2>2. \/ UNCHANGED <<last_seq_delivered, delivered>>
        \/ last_seq_delivered' = last_seq_delivered + 1 /\ \E m : delivered' = Append(delivered, m)
    BY <1>13 DEF try_dequeue_ooo_msgs, inc_last_seq_delivered
  <2>3. last_seq_delivered' = Len(delivered')
    BY SMTT(30), <2>2 DEF BufferInv, JoinTypes
  <2> QED
    BY <2>1, <2>3 DEF BufferInv
<1>14. ASSUME next_circ_event PROVE BufferInv'
  BY <1>14 DEF BufferInv, next_circ_event
<1>15. ASSUME UNCHANGED vars PROVE BufferInv'
  <2>1. UNCHANGED <<join, delivered, sent>>
    BY <1>15 DEF vars
  <2> QED
    BY <2>1 DEF BufferInv, join
<1> QED
  BY <1>1, <1>2, <1>3, <1>4, <1>5, <1>6, <1>7, <1>8, <1>9, <1>10, <1>11, <1>12, <1>13, <1>14,
     <1>15 DEF Next, LinkStep, Event

\* The numbers stay fresh while none is added.
LEMMA FreshFrame ==
    ASSUME TypeOK, FreshInv, rlegs' \subseteq rlegs, UNCHANGED <<ooo_msgs, last_seq_delivered, sent>>,
           \A l \in rlegs' : Numbers(link'[l]) \subseteq Numbers(link[l]), rstate' # "Disorder"
    PROVE  FreshInv'
BY DEF FreshInv

\* The numbers in transit have been given to messages.
LEMMA NumbersTyped ==
    ASSUME TypeOK, LinkInv, NEW l \in rlegs, NEW x \in Numbers(link[l])
    PROVE  x \in 1 .. Len(sent) /\ x \in Nat
<1>1. /\ link[l] \in Seq(Cell) /\ last_seq_recv[l] \in Nat /\ sent \in Seq(Msgs)
      /\ Chain(link[l], last_seq_recv[l], sent) /\ Increasing(link[l], last_seq_recv[l])
  BY DEF TypeOK, LinkTypes, ClientTypes, JoinTypes, LinkInv
<1>2. PICK i \in 1 .. Len(link[l]) : link[l][i].cmd = "MSG" /\ x = link[l][i].no
  BY DEF Numbers
<1>3. link[l][i] \in Cell /\ x \in Nat /\ x > last_seq_recv[l] /\ x <= Len(sent)
  BY SMTT(30), <1>1, <1>2 DEF Cell, Increasing, Chain, Follows
<1> QED
  BY SMTT(30), <1>1, <1>3

\* A cell that is not counted carries no number.
LEMMA UncountedCell ==
    ASSUME TypeOK, LinkInv, NEW l \in Legs, NEW cmd, cmd # "MSG", HandleCell(l, cmd)
    PROVE  \A k \in rlegs : Numbers(link'[k]) = Numbers(link[k])
<1>1. /\ link[l] # <<>> /\ Head(link[l]).cmd = cmd /\ link' = [link EXCEPT ![l] = Tail(@)]
  BY HandleChanges DEF TypeOK
<1>2. /\ link'[l] = Tail(link[l]) /\ rlegs \subseteq Legs
      /\ \A k \in Legs \ {l} : link'[k] = link[k]
  BY <1>1 DEF TypeOK, LinkTypes, JoinTypes
<1>3. ASSUME l \in rlegs PROVE Numbers(Tail(link[l])) = Numbers(link[l])
  <2>1. /\ link[l] \in Seq(Cell) /\ last_seq_recv[l] \in Nat /\ sent \in Seq(Msgs)
        /\ Chain(link[l], last_seq_recv[l], sent) /\ Increasing(link[l], last_seq_recv[l])
    BY <1>3 DEF TypeOK, LinkTypes, ClientTypes, JoinTypes, LinkInv
  <2> QED
    BY <1>1, <2>1, TailCells
<1> QED
  BY <1>2, <1>3

\* Every step keeps the numbers apart.
LEMMA NextFreshInv == IndInv /\ [Next]_vars => FreshInv'
<1> SUFFICES ASSUME IndInv, [Next]_vars PROVE FreshInv'
  OBVIOUS
<1> TypeOK /\ LinkTypes /\ ClientTypes /\ JoinTypes /\ LinkInv /\ SendInv /\ BufferInv /\ FreshInv
  BY DEF IndInv, TypeOK
<1>1. ASSUME handle_link_circuits PROVE FreshInv'
  <2>1. UNCHANGED <<up, rlegs, sent, last_seq_recv, last_seq_sent, ooo_msgs, last_seq_delivered, rstate>>
    BY <1>1 DEF handle_link_circuits, join, counters
  <2>2. PICK on \in SUBSET (Legs \cap up) : link' = [l \in Legs |-> IF l \in on THEN Append(link[l], Handshake("LINK", l)) ELSE link[l]]
    BY <1>1, LinkedLegs
  <2>3. \A l \in rlegs : Numbers(link'[l]) = Numbers(link[l])
    BY <2>1, <2>2, LinkHandshake
  <2> QED
    BY <2>1, <2>3, FreshFrame DEF FreshInv
<1>2. ASSUME NEW l \in Legs, handle_conflux_linked(l) PROVE FreshInv'
  <2>1. UNCHANGED <<up, rlegs, sent, last_seq_recv, last_seq_sent, ooo_msgs, last_seq_delivered, rstate>>
    BY <1>2 DEF handle_conflux_linked, join, counters
  <2>2. \A k \in rlegs : Numbers(link'[k]) = Numbers(link[k])
    <3>1. CASE link' = link
      BY <3>1
    <3>2. CASE l \in up /\ link' = [link EXCEPT ![l] = Append(@, Handshake("LINKED_ACK", l))]
      <4>1. link' = [k \in Legs |-> IF k \in {l} THEN Append(link[k], Handshake("LINKED_ACK", k)) ELSE link[k]]
        BY <3>2 DEF LinkTypes
      <4>2. {l} \in SUBSET (Legs \cap up)
        BY <3>2
      <4> QED
        BY <2>1, <4>1, <4>2, LinkHandshake
    <3> QED
      BY <1>2, <3>1, <3>2, LinkedAnswer
  <2> QED
    BY <2>1, <2>2, FreshFrame DEF FreshInv
<1>3. ASSUME NEW l \in Legs, RemoveMismatch(l) PROVE FreshInv'
  <2>1. /\ UNCHANGED <<link, sent, ooo_msgs, last_seq_delivered>> /\ rlegs' \subseteq rlegs
        /\ rstate' # "Disorder"
    BY <1>3 DEF RemoveMismatch, RemoveLeg, FreshInv, join, client, setVars
  <2> QED
    BY <2>1, FreshFrame
<1>4. ASSUME NEW l \in Legs, RemoveTimeout(l) PROVE FreshInv'
  <2>1. /\ UNCHANGED <<link, sent, ooo_msgs, last_seq_delivered>> /\ rlegs' \subseteq rlegs
        /\ rstate' # "Disorder"
    BY <1>4 DEF RemoveTimeout, RemoveLeg, FreshInv, join, client, setVars
  <2> QED
    BY <2>1, FreshFrame
<1>5. ASSUME NEW l \in Legs, RemoveClosed(l) PROVE FreshInv'
  <2>1. /\ UNCHANGED <<link, sent, ooo_msgs, last_seq_delivered>> /\ rlegs' \subseteq rlegs
        /\ rstate' # "Disorder"
    BY <1>5 DEF RemoveClosed, RemoveLeg, FreshInv, join, client, setVars
  <2> QED
    BY <2>1, FreshFrame
<1>6. ASSUME NEW l \in Legs, handle_destroy_cell(l) PROVE FreshInv'
  <2>1. /\ UNCHANGED <<link, sent, ooo_msgs, last_seq_delivered>> /\ rlegs' \subseteq rlegs
        /\ rstate' # "Disorder"
    BY <1>6 DEF handle_destroy_cell, FreshInv, join, client, setVars
  <2> QED
    BY <2>1, FreshFrame
<1>7. ASSUME NEW l \in Legs, HandleHandshake(l) PROVE FreshInv'
  <2>1. PICK cmd \in {"LINK", "LINKED_ACK"} : HandleCell(l, cmd)
    BY <1>7 DEF HandleHandshake
  <2>2. UNCHANGED <<rlegs, sent, ooo_msgs, last_seq_delivered, rstate>>
    BY <1>7, <2>1 DEF HandleHandshake, HandleCell
  <2>3. \A k \in rlegs : Numbers(link'[k]) = Numbers(link[k])
    BY <2>1, UncountedCell
  <2> QED
    BY <2>2, <2>3, FreshFrame DEF FreshInv
<1>8. ASSUME NEW l \in Legs, action_for_msg(l) PROVE FreshInv'
  <2> USE <1>8
  <2> DEFINE cell == Head(link[l])
               e == [seqno |-> cell.no, leg |-> l, msg |-> cell.msg]
  <2>1. /\ l \in rlegs /\ l \in Legs /\ UNCHANGED <<rlegs, sent>> /\ link' = [link EXCEPT ![l] = Tail(@)]
        /\ link[l] # <<>> /\ cell.cmd = "MSG"
    BY DEF action_for_msg, HandleCell, BufferInv
  <2>2. /\ cell.no = last_seq_recv[l] + 1 /\ cell.no \in 1 .. Len(sent) /\ cell.no \in Numbers(link[l])
        /\ Numbers(Tail(link[l])) = Numbers(link[l]) \ {cell.no}
    BY <2>1, HandledNumber
  <2>3. /\ link'[l] = Tail(link[l]) /\ \A k \in Legs \ {l} : link'[k] = link[k]
        /\ Len(sent) \in Nat /\ last_seq_delivered \in Nat
    BY SMTT(30), <2>1 DEF LinkTypes, JoinTypes, ClientTypes
  <2>4. cell.no \in Nat /\ cell.no > last_seq_delivered
    BY SMTT(30), <2>1, <2>2, <2>3 DEF FreshInv
  <2>5. \A k \in rlegs : /\ cell.no \notin Numbers(link'[k]) /\ Numbers(link'[k]) \subseteq Numbers(link[k])
                          /\ \A x \in Numbers(link[k]) : x \in Nat /\ x > last_seq_delivered
    BY <2>1, <2>2, <2>3, NumbersTyped DEF FreshInv, JoinTypes
  <2>6. \A f \in ooo_msgs : f.seqno # cell.no /\ f.seqno \in Nat /\ f.seqno > last_seq_delivered
    BY SMTT(30), <2>1, <2>2 DEF FreshInv, BufferInv
  <2>7. rstate' # "Disorder"
    <3>1. rstate' = IF last_seq_recv[l] + 1 < last_seq_delivered + 1 THEN "Disorder" ELSE rstate
      BY DEF action_for_msg
    <3>2. rstate # "Disorder"
      BY DEF FreshInv
    <3>3. ~ (last_seq_recv[l] + 1 < last_seq_delivered + 1)
      BY SMTT(30), <2>2, <2>3, <2>4
    <3> QED
      BY <3>1, <3>2, <3>3
  <2>8. \A k, j \in rlegs : k # j => Numbers(link'[k]) \cap Numbers(link'[j]) = {}
    BY <2>5 DEF FreshInv
  <2>9. \A f \in ooo_msgs : /\ \A k \in rlegs : f.seqno \notin Numbers(link'[k])
                            /\ \A g \in ooo_msgs : f.seqno = g.seqno => f = g
    BY <2>5 DEF FreshInv
  <2>10. CASE cell.no = last_seq_delivered + 1
    <3> USE <2>10
    <3>1. last_seq_delivered' = last_seq_delivered + 1 /\ ooo_msgs' = ooo_msgs
      BY SMTT(30), <2>2, <2>3 DEF action_for_msg, inc_last_seq_delivered
    <3>2. ASSUME NEW k \in rlegs, NEW x \in Numbers(link'[k]) PROVE x > last_seq_delivered + 1
      <4>1. x # cell.no /\ x \in Nat /\ x > last_seq_delivered
        BY <2>5
      <4> QED
        BY SMTT(30), <2>3, <4>1
    <3>3. \A f \in ooo_msgs : f.seqno > last_seq_delivered + 1
      BY SMTT(30), <2>3, <2>6
    <3>4. last_seq_delivered + 1 <= Len(sent)
      BY SMTT(30), <2>2, <2>3
    <3> HIDE DEF cell
    <3> QED
      BY <2>1, <2>7, <2>8, <2>9, <3>1, <3>2, <3>3, <3>4 DEF FreshInv
  <2>11. CASE cell.no # last_seq_delivered + 1
    <3>1. UNCHANGED last_seq_delivered /\ ooo_msgs' = ooo_msgs \cup {e}
      BY SMTT(30), <2>2, <2>3, <2>4, <2>11 DEF action_for_msg
    <3>2. e.seqno = cell.no
      OBVIOUS
    <3> HIDE DEF e
    <3> QED
      BY <2>1, <2>3, <2>4, <2>5, <2>6, <2>7, <3>1, <3>2, ZenonT(90) DEF FreshInv
  <2> QED
    BY <2>10, <2>11
<1>9. ASSUME NEW l \in Legs, handle_conflux_switch(l) PROVE FreshInv'
  <2>1. HandleCell(l, "SWITCH")
    BY <1>9 DEF handle_conflux_switch
  <2>2. /\ UNCHANGED <<sent, ooo_msgs, last_seq_delivered>> /\ rlegs' \subseteq rlegs
        /\ rstate' # "Disorder"
    BY <1>9, <2>1 DEF handle_conflux_switch, HandleCell, RemoveAtJoin, FreshInv
  <2>3. \A k \in rlegs : Numbers(link'[k]) = Numbers(link[k])
    BY <2>1, UncountedCell
  <2> QED
    BY <2>2, <2>3, FreshFrame
<1>10. ASSUME NEW l \in Legs, RemoveClosedAtJoin(l) PROVE FreshInv'
  <2>1. /\ UNCHANGED <<link, sent, ooo_msgs, last_seq_delivered>> /\ rlegs' \subseteq rlegs
        /\ rstate' # "Disorder"
    BY <1>10 DEF RemoveClosedAtJoin, RemoveAtJoin, FreshInv, join, client, setVars
  <2> QED
    BY <2>1, FreshFrame
<1>11. ASSUME NEW l \in Legs, CloseChannel(l) PROVE FreshInv'
  <2>1. PICK n \in 0 .. Len(link[l]) : link' = [link EXCEPT ![l] = SubSeq(@, 1, n)]
    BY <1>11 DEF CloseChannel
  <2>2. UNCHANGED <<sent, rlegs, ooo_msgs, last_seq_delivered, rstate>>
    BY <1>11 DEF CloseChannel, client, setVars, join
  <2>3. \A k \in Legs \ {l} : link'[k] = link[k]
    BY <2>1 DEF LinkTypes
  <2>4. ASSUME l \in rlegs PROVE Numbers(link'[l]) \subseteq Numbers(link[l])
    BY SMTT(30), <2>1, <2>4, PrefixCells DEF LinkInv, LinkTypes, JoinTypes
  <2>5. ASSUME NEW k \in rlegs PROVE Numbers(link'[k]) \subseteq Numbers(link[k])
    <3>1. CASE k = l
      BY <2>4, <3>1
    <3>2. CASE k # l
      BY <2>3, <3>2 DEF JoinTypes
    <3> QED
      BY <3>1, <3>2
  <2> QED
    BY <2>2, <2>5, FreshFrame DEF FreshInv
<1>12. ASSUME NEW m \in Msgs, send_relay_cell_on_leg(m) \/ send_on_primary(m) PROVE FreshInv'
  <2>1. UNCHANGED <<up, legs, join, delivered>>
    BY <1>12, SendCases
  <2>2. CASE NotSent
    BY <2>1, <2>2, FreshFrame DEF NotSent, join, FreshInv
  <2>3. ASSUME NEW l \in Legs, SentPlain(l, m) \/ SentSwitch(l, m) PROVE FreshInv'
    <3>1. /\ \A k \in rlegs : Numbers(link'[k]) \subseteq
                                  Numbers(link[k]) \cup (IF k = l THEN {Len(sent) + 1} ELSE {})
          /\ \A k \in rlegs : \A x \in Numbers(link[k]) : x \in 1 .. Len(sent)
      BY <2>1, <2>3, LinkSend DEF join, counters
    <3>2. sent' = Append(sent, m)
      BY <2>3 DEF SentPlain, SentSwitch, SentOn
    <3>3. Len(sent) \in Nat /\ Len(sent') = Len(sent) + 1 /\ last_seq_delivered \in Nat
      BY SMTT(30), <3>2 DEF ClientTypes, JoinTypes
    <3>4. UNCHANGED <<rlegs, ooo_msgs, last_seq_delivered, rstate>>
      BY <2>1 DEF join
    <3>5. \A e \in ooo_msgs : e.seqno \in 1 .. Len(sent)
      BY DEF BufferInv
    <3>6. \A k, j \in rlegs : k # j => Numbers(link'[k]) \cap Numbers(link'[j]) = {}
      <4> SUFFICES ASSUME NEW k \in rlegs, NEW j \in rlegs, k # j, NEW x \in Numbers(link'[k]), x \in Numbers(link'[j])
                   PROVE  FALSE
        OBVIOUS
      <4>1. x \in Numbers(link[k]) \/ (k = l /\ x = Len(sent) + 1)
        BY <3>1
      <4>2. x \in Numbers(link[j]) \/ (j = l /\ x = Len(sent) + 1)
        BY <3>1
      <4>3. Len(sent) + 1 \notin 1 .. Len(sent)
        BY SMTT(30), <3>3
      <4>4. CASE x = Len(sent) + 1
        BY <3>1, <4>1, <4>2, <4>3, <4>4
      <4>5. CASE x # Len(sent) + 1
        BY <4>1, <4>2, <4>5 DEF FreshInv
      <4> QED
        BY <4>4, <4>5
    <3>7. \A k \in rlegs : \A x \in Numbers(link'[k]) : x > last_seq_delivered
      <4>1. Len(sent) + 1 > last_seq_delivered
        BY SMTT(30), <3>3 DEF FreshInv
      <4> QED
        BY <3>1, <4>1 DEF FreshInv
    <3>8. \A e \in ooo_msgs : \A k \in rlegs : e.seqno \notin Numbers(link'[k])
      <4>1. \A e \in ooo_msgs : e.seqno # Len(sent) + 1
        BY SMTT(30), <3>3, <3>5
      <4> QED
        BY <3>1, <4>1 DEF FreshInv
    <3>9. last_seq_delivered <= Len(sent')
      BY SMTT(30), <3>3 DEF FreshInv
    <3> QED
      BY <3>4, <3>6, <3>7, <3>8, <3>9 DEF FreshInv
  <2> QED
    BY <1>12, <2>2, <2>3, SendCases
<1>13. ASSUME try_dequeue_ooo_msgs PROVE FreshInv'
  <2>1. PICK e \in Dequeueable :
           /\ ooo_msgs' = ooo_msgs \ {e}
           /\ \/ last_seq_delivered' = last_seq_delivered + 1 /\ rstate' = rstate
              \/ last_seq_delivered' = last_seq_delivered /\ rstate' = "LegDisappeared"
    BY <1>13 DEF try_dequeue_ooo_msgs, inc_last_seq_delivered
  <2> /\ e \in ooo_msgs /\ e.seqno = last_seq_delivered + 1 /\ UNCHANGED <<link, rlegs, sent>>
      /\ Len(sent) \in Nat /\ last_seq_delivered \in Nat /\ last_seq_delivered + 1 <= Len(sent)
    BY SMTT(30), <1>13, <2>1 DEF Dequeueable, try_dequeue_ooo_msgs, BufferInv, ClientTypes,
       JoinTypes
  <2>3. \A k \in rlegs : \A x \in Numbers(link[k]) : x \in Nat /\ x > last_seq_delivered /\ x # last_seq_delivered + 1
    BY SMTT(30), NumbersTyped DEF FreshInv
  <2>4. \A f \in ooo_msgs \ {e} : f.seqno \in Nat /\ f.seqno > last_seq_delivered /\ f.seqno # last_seq_delivered + 1
    BY SMTT(30) DEF FreshInv, BufferInv
  <2>5. ooo_msgs' \subseteq ooo_msgs
    BY <2>1
  <2>6. CASE last_seq_delivered' = last_seq_delivered + 1 /\ rstate' = rstate
    <3>1. \A k \in rlegs : \A x \in Numbers(link[k]) : x > last_seq_delivered + 1
      BY SMTT(30), <2>3
    <3>2. \A f \in ooo_msgs' : f.seqno > last_seq_delivered + 1
      BY SMTT(30), <2>1, <2>4
    <3> QED
      BY <2>5, <2>6, <3>1, <3>2 DEF FreshInv
  <2>7. CASE last_seq_delivered' = last_seq_delivered /\ rstate' = "LegDisappeared"
    BY <2>5, <2>7 DEF FreshInv
  <2> QED
    BY <2>1, <2>6, <2>7
<1>14. ASSUME next_circ_event PROVE FreshInv'
  <2>1. /\ UNCHANGED <<link, sent, ooo_msgs, last_seq_delivered>> /\ rlegs' \subseteq rlegs
        /\ rstate' # "Disorder"
    BY <1>14 DEF next_circ_event, FreshInv, join, client, setVars
  <2> QED
    BY <2>1, FreshFrame
<1>15. ASSUME UNCHANGED vars PROVE FreshInv'
  <2>1. /\ UNCHANGED <<link, sent, ooo_msgs, last_seq_delivered>> /\ rlegs' \subseteq rlegs
        /\ rstate' # "Disorder"
    BY <1>15 DEF vars, FreshInv, join, client, setVars
  <2> QED
    BY <2>1, FreshFrame
<1> QED
  BY <1>1, <1>2, <1>3, <1>4, <1>5, <1>6, <1>7, <1>8, <1>9, <1>10, <1>11, <1>12, <1>13, <1>14,
     <1>15 DEF Next, LinkStep, Event

-----------------------------------------------------------------------------
(* The results of the handshake.                                           *)

\* The legs for which there is a result: those that are linked or have been removed.
Reported == {l \in Legs : l \notin legs \/ status[l] = "Linked"}

\* ConfluxHandshakeCtx counts a result once for each such leg; when the initiator has
\* been told, there is one for every leg.
HandshakeInv ==
    /\ state \notin {"Unlinked", "NoRtt"}
    /\ ctx # NoCtx => answer = "Waiting"
    /\ ctx # NoCtx /\ state = "Running" =>
          ctx.num_legs = Cardinality(Legs) /\ ctx.results = Cardinality(Reported)
    /\ answer = "Done" /\ state = "Running" => Reported = Legs

\* One more leg has a result, and it is the last one when as many are counted as
\* there are legs.
LEMMA OneMoreResult ==
    ASSUME NEW l \in Legs, l \notin Reported, Reported' = Reported \cup {l}
    PROVE  /\ Cardinality(Reported') = Cardinality(Reported) + 1
           /\ Cardinality(Reported') = Cardinality(Legs) => Reported' = Legs
<1> DEFINE R == Reported
           T == Reported'
<1>1. R \subseteq Legs /\ T \subseteq Legs /\ T = R \cup {l} /\ l \notin R
  BY DEF Reported
<1> HIDE DEF R, T
<1>2. IsFiniteSet(R) /\ IsFiniteSet(T) /\ (Cardinality(T) = Cardinality(Legs) => T = Legs)
  BY <1>1, ConfluxAssumption, FS_Subset
<1>3. Cardinality(T) = Cardinality(R) + 1
  BY <1>1, <1>2, FS_AddElement
<1> QED
  BY <1>2, <1>3 DEF R, T

\* Noting the result of a leg that had none.
LEMMA NoteKeepsCount ==
    ASSUME ClientTypes, HandshakeInv, state = "Running", NEW l \in Legs, l \notin Reported,
           Reported' = Reported \cup {l}, NEW closing \in BOOLEAN,
           NEW then \in {"Running", "Proto", "ChannelClosed"}, closing => then # "Running",
           note_conflux_handshake_result(closing, then)
    PROVE  HandshakeInv'
<1>1. CASE ctx = NoCtx
  <2>1. state' = "NoContext" /\ ctx' = ctx /\ answer' = answer
    BY <1>1 DEF note_conflux_handshake_result
  <2> QED
    BY <1>1, <2>1 DEF HandshakeInv
<1>2. CASE ctx # NoCtx
  <2>0. /\ answer = "Waiting" /\ ctx.num_legs = Cardinality(Legs)
        /\ ctx.results = Cardinality(Reported)
    BY <1>2 DEF HandshakeInv
  <2>1. CASE /\ ctx' = [ctx EXCEPT !.results = @ + 1] /\ state' = then /\ answer' = answer
    <3>1. ctx'.num_legs = ctx.num_legs /\ ctx'.results = ctx.results + 1
      BY <2>1 DEF ClientTypes
    <3> QED
      BY <2>0, <2>1, <3>1, OneMoreResult DEF HandshakeInv
  <2>2. CASE /\ ctx.results + 1 = ctx.num_legs \/ closing
             /\ ctx' = NoCtx /\ state' = then /\ answer' = "Done"
    <3>1. state' = "Running" => Reported' = Legs
      BY <2>0, <2>2, OneMoreResult
    <3> QED
      BY <2>2, <3>1 DEF HandshakeInv
  <2>3. CASE ctx' = NoCtx /\ state' = "Shutdown" /\ answer' = "Gone"
    BY <2>3 DEF HandshakeInv
  <2> QED
    BY <1>2, <2>1, <2>2, <2>3 DEF note_conflux_handshake_result
<1> QED
  BY <1>1, <1>2

\* Removing a leg is the result of that leg, unless it was linked already.
LEMMA RemoveKeepsCount ==
    ASSUME ClientTypes, HandshakeInv, NEW l \in Legs, NEW then \in {"Running", "Proto"},
           RemoveLeg(l, then)
    PROVE  HandshakeInv'
<1>1. state = "Running" /\ l \in legs /\ legs' = legs \ {l} /\ status' = status
  BY DEF RemoveLeg
<1>2. Reported' = Reported \cup {l} /\ (l \in Reported <=> status[l] = "Linked")
  BY <1>1 DEF Reported
<1>3. CASE status[l] # "Linked" /\ note_conflux_handshake_result(then # "Running", then)
  <2>1. (then # "Running") \in BOOLEAN
    OBVIOUS
  <2> QED
    BY <1>1, <1>2, <1>3, <2>1, NoteKeepsCount
<1>4. CASE status[l] = "Linked" /\ UNCHANGED <<state, ctx, answer>>
  <2>1. Reported' = Reported
    BY <1>2, <1>4
  <2> QED
    BY <1>4, <2>1 DEF HandshakeInv
<1>5. CASE state' = "Shutdown" /\ UNCHANGED <<ctx, answer>>
  BY <1>5 DEF HandshakeInv
<1> QED
  BY <1>3, <1>4, <1>5 DEF RemoveLeg

\* Every step keeps the count of the results.
LEMMA NextHandshakeInv == IndInv /\ HandshakeInv /\ [Next]_vars => HandshakeInv'
<1> SUFFICES ASSUME IndInv, HandshakeInv, [Next]_vars PROVE HandshakeInv'
  OBVIOUS
<1>0. TypeOK /\ ClientTypes /\ SendInv
  BY DEF IndInv, TypeOK
<1>1. ASSUME handle_link_circuits PROVE HandshakeInv'
  <2> legs' = Legs /\ state' = "Running" /\ ctx = NoCtx
    BY <1>1 DEF handle_link_circuits, HandshakeInv
  <2>2. CASE /\ status' = [l \in Legs |-> "AwaitingLink"]
             /\ ctx' = [num_legs |-> Cardinality(Legs), results |-> 0]
             /\ answer' = "Waiting"
    <3>1. Reported' = {}
      BY <2>2 DEF Reported
    <3>2. Cardinality(Reported') = 0
      BY <3>1, FS_EmptySet
    <3> QED
      BY <2>2, <3>2 DEF HandshakeInv
  <2>3. CASE ctx' = ctx /\ answer' = "Error"
    BY <2>3 DEF HandshakeInv
  <2> QED
    BY <1>1, <2>2, <2>3 DEF handle_link_circuits
<1>2. ASSUME NEW l \in Legs, handle_conflux_linked(l) PROVE HandshakeInv'
  <2>1. /\ state = "Running" /\ l \in legs /\ status[l] = "AwaitingLink" /\ legs' = legs
        /\ status' = [status EXCEPT ![l] = "Linked"]
    BY <1>2 DEF handle_conflux_linked
  <2> PICK then \in {"Running", "ChannelClosed"} : note_conflux_handshake_result(FALSE, then)
    BY <1>0, <1>2, LinkedAnswer
  <2>2. l \notin Reported /\ Reported' = Reported \cup {l}
    BY <1>0, <2>1 DEF Reported, ClientTypes
  <2> QED
    BY <1>0, <2>1, <2>2, NoteKeepsCount
<1>3. ASSUME NEW l \in Legs, RemoveMismatch(l) PROVE HandshakeInv'
  BY <1>0, <1>3, RemoveKeepsCount DEF RemoveMismatch
<1>4. ASSUME NEW l \in Legs, RemoveTimeout(l) \/ RemoveClosed(l) PROVE HandshakeInv'
  BY <1>0, <1>4, RemoveKeepsCount DEF RemoveTimeout, RemoveClosed
<1>5. ASSUME NEW l \in Legs, handle_destroy_cell(l) PROVE HandshakeInv'
  <2>1. state' = "Shutdown" /\ ctx' = ctx /\ answer' = answer
    BY <1>5 DEF handle_destroy_cell
  <2> QED
    BY <2>1 DEF HandshakeInv
<1>6. ASSUME UNCHANGED client PROVE HandshakeInv'
  <2>1. Reported' = Reported
    BY <1>6 DEF Reported, client, setVars
  <2> QED
    BY <1>6, <2>1 DEF HandshakeInv, client, setVars
<1>7. ASSUME NEW l \in Legs, Event(l) \/ CloseChannel(l) PROVE UNCHANGED client
  BY <1>7 DEF Event, HandleHandshake, action_for_msg, handle_conflux_switch, HandleCell,
     RemoveClosedAtJoin, CloseChannel
<1>8. ASSUME NEW m \in Msgs, send_relay_cell_on_leg(m) \/ send_on_primary(m) PROVE HandshakeInv'
  <2>1. UNCHANGED <<legs, status, ctx, answer>> /\ state = "Running" /\ Usable
    BY <1>0, <1>8, SendCases DEF send_relay_cell_on_leg, send_on_primary
  <2>2. Reported' = Reported /\ Reported = Legs
    BY <2>1 DEF Reported, HandshakeInv, Usable
  <2>3. primary_id \in legs /\ legs \subseteq Legs
    BY <1>0, <2>1 DEF SendInv, ClientTypes
  <2>4. legs = Measured /\ \A l \in legs : status[l] = "Linked"
    BY <2>2, <2>3 DEF Measured, Reported
  <2>5. ASSUME NEW l \in legs, NEW n, NEW s, send_relay_cell(l, n, s, m)
        PROVE  state' \in {"Running", "ChannelClosed"}
    BY <2>1, <2>4, <2>5 DEF send_relay_cell
  <2>6. state' \in {"Running", "ChannelClosed"}
    <3>1. CASE send_on_primary(m)
      BY <2>3, <2>5, <3>1 DEF send_on_primary
    <3>2. CASE SelectInitPrimary(m)
      BY <2>3, <2>4, <2>5, <3>2 DEF SelectInitPrimary
    <3>3. CASE KeepPrimary(m)
      BY <2>3, <2>4, <2>5, <3>3 DEF KeepPrimary
    <3>4. CASE SwitchPrimary(m)
      BY <2>3, <2>4, <2>5, <3>4 DEF SwitchPrimary
    <3> QED
      BY <1>8, <3>1, <3>2, <3>3, <3>4 DEF send_relay_cell_on_leg
  <2>7. ctx = NoCtx
    BY <2>1 DEF HandshakeInv, Usable
  <2> QED
    BY <2>1, <2>2, <2>6, <2>7 DEF HandshakeInv
<1>9. ASSUME try_dequeue_ooo_msgs \/ next_circ_event \/ UNCHANGED vars PROVE UNCHANGED client
  BY <1>9 DEF try_dequeue_ooo_msgs, next_circ_event, vars
<1> QED
  BY <1>1, <1>2, <1>3, <1>4, <1>5, <1>6, <1>7, <1>8, <1>9 DEF Next, LinkStep

-----------------------------------------------------------------------------
(* The legs of buffered messages.                                          *)

\* A message is buffered under a number that its leg has counted.
BehindLeg == \A e \in ooo_msgs : e.seqno <= last_seq_recv[e.leg]

\* A buffered message becomes due within a turn when the other leg has delivered the
\* one before it, and is behind.
DueAlone ==
    \A e \in Dequeueable :
        batch = {} \/ (batch = {e.leg} /\ \A k \in rlegs \ {e.leg} : last_seq_recv[k] < e.seqno)

\* When the leg of a buffered message has gone, the number that is due has been
\* counted by the leg that is left, and is lost.
HoleAhead ==
    \A e \in ooo_msgs : e.leg \notin rlegs =>
        Dequeueable = {} /\ \A k \in rlegs : last_seq_recv[k] > last_seq_delivered

OrphanInv ==
    /\ rstate # "LegDisappeared" /\ BehindLeg
    /\ rstate = "Running" => DueAlone /\ HoleAhead

\* A leg, and one that is not that leg, are all there are.
TwoLegs == \A a, b, c \in Legs : a = b \/ a = c \/ b = c

\* A set of at most two elements does not have three.
LEMMA AtMostTwo == Cardinality(Legs) <= 2 => TwoLegs
<1> SUFFICES ASSUME Cardinality(Legs) <= 2, NEW a \in Legs, NEW b \in Legs, NEW c \in Legs,
                    a # b, a # c, b # c
             PROVE  FALSE
  BY DEF TwoLegs
<1>1. IsFiniteSet({a}) /\ Cardinality({a}) = 1
  BY FS_Singleton
<1>2. IsFiniteSet({a} \cup {b}) /\ Cardinality({a} \cup {b}) = 2
  <2>1. b \notin {a}
    OBVIOUS
  <2> QED
    BY SMTT(30), <1>1, <2>1, FS_AddElement
<1>3. IsFiniteSet(({a} \cup {b}) \cup {c}) /\ Cardinality(({a} \cup {b}) \cup {c}) = 3
  <2>1. c \notin {a} \cup {b}
    OBVIOUS
  <2> QED
    BY SMTT(30), <1>2, <2>1, FS_AddElement
<1>4. ({a} \cup {b}) \cup {c} \subseteq Legs
  OBVIOUS
<1>5. Cardinality(({a} \cup {b}) \cup {c}) <= Cardinality(Legs) /\ Cardinality(Legs) \in Nat
  BY <1>4, ConfluxAssumption, FS_Subset, FS_CardinalityType
<1> QED
  BY SMTT(30), <1>3, <1>5

\* Removing a leg leaves no message that can become due without it.
LEMMA RemoveOrphans ==
    ASSUME IndInv, TwoLegs, OrphanInv, NEW l \in batch, rstate = "Running", RemoveAtJoin(l),
           batch' = batch \ {l}, UNCHANGED <<last_seq_recv, last_seq_delivered, ooo_msgs>>
    PROVE  OrphanInv'
<1>0. JoinTypes /\ BufferInv /\ BehindLeg /\ DueAlone /\ HoleAhead
  BY DEF IndInv, TypeOK, OrphanInv
<1>1. BehindLeg'
  BY <1>0 DEF BehindLeg
<1>2. rlegs' = rlegs \ {l} /\ l \in rlegs /\ rlegs \subseteq Legs /\ rstate' # "LegDisappeared"
  BY <1>0 DEF RemoveAtJoin, BufferInv, JoinTypes
<1>3. ASSUME rstate' = "Running" PROVE DueAlone' /\ HoleAhead'
  <2>1. PICK k \in rlegs \ {l} : last_seq_recv[l] <= last_seq_recv[k]
    BY <1>3 DEF RemoveAtJoin
  <2>2. rlegs' = {k} /\ last_seq_recv[l] \in Nat /\ last_seq_recv[k] \in Nat
    <3>1. \A x \in rlegs \ {l} : x = k
      BY <1>2, <2>1 DEF TwoLegs
    <3>2. last_seq_recv[l] \in Nat /\ last_seq_recv[k] \in Nat
      BY <1>0, <1>2, <2>1 DEF JoinTypes
    <3> QED
      BY <1>2, <2>1, <3>1, <3>2
  <2>3. Dequeueable = {}
    <3> SUFFICES ASSUME NEW e \in Dequeueable PROVE FALSE
      OBVIOUS
    <3>1. batch = {e.leg} /\ last_seq_recv[k] < e.seqno /\ e.leg = l
      BY <1>0, <2>1 DEF DueAlone
    <3>2. e.seqno <= last_seq_recv[l] /\ e.seqno \in Nat
      BY <1>0, <3>1 DEF BehindLeg, Dequeueable, JoinTypes
    <3> QED
      BY SMTT(30), <2>1, <2>2, <3>1, <3>2
  <2>4. Dequeueable' = {}
    BY <2>3 DEF Dequeueable
  <2>5. ASSUME NEW e \in ooo_msgs, e.leg \notin rlegs' PROVE last_seq_recv[k] > last_seq_delivered
    <3>1. CASE e.leg \notin rlegs
      BY <1>0, <2>1, <2>5, <3>1 DEF HoleAhead
    <3>2. CASE e.leg = l
      <4>1. e.seqno <= last_seq_recv[l] /\ e.seqno \in Nat /\ last_seq_delivered \in Nat
        BY <1>0, <2>5, <3>2 DEF BehindLeg, JoinTypes
      <4>2. e.seqno > last_seq_delivered
        BY DEF IndInv, FreshInv
      <4> QED
        BY SMTT(30), <2>1, <2>2, <4>1, <4>2
    <3> QED
      BY <1>2, <2>5, <3>1, <3>2
  <2> QED
    BY <2>2, <2>4, <2>5 DEF DueAlone, HoleAhead
<1> QED
  BY <1>1, <1>2, <1>3 DEF OrphanInv

\* Counting a message, which may be delivered or buffered.
LEMMA MessageOrphans ==
    ASSUME IndInv, TwoLegs, OrphanInv, NEW l \in Legs, action_for_msg(l)
    PROVE  OrphanInv'
<1> DEFINE n == last_seq_recv[l] + 1
           new == [seqno |-> n, leg |-> l, msg |-> Head(link[l]).msg]
<1>0. JoinTypes /\ BufferInv /\ FreshInv /\ BehindLeg /\ rstate = "Running" /\ DueAlone /\ HoleAhead
  BY DEF IndInv, TypeOK, OrphanInv, action_for_msg, HandleCell
<1>1. /\ l \in batch /\ batch' = batch \ {l} /\ rlegs' = rlegs /\ batch \subseteq rlegs
      /\ last_seq_recv' = [last_seq_recv EXCEPT ![l] = n] /\ rstate' \in {rstate, "Disorder"}
  BY <1>0 DEF action_for_msg, HandleCell, BufferInv
<1>2. /\ last_seq_recv[l] \in Nat /\ n \in Nat /\ last_seq_recv'[l] = n
      /\ \A k \in Legs \ {l} : last_seq_recv'[k] = last_seq_recv[k] /\ last_seq_recv[k] \in Nat
      /\ last_seq_delivered \in Nat
  BY SMTT(30), <1>0, <1>1 DEF JoinTypes
<1>3. ooo_msgs' = ooo_msgs \/ (n > last_seq_delivered + 1 /\ ooo_msgs' = ooo_msgs \cup {new})
  BY DEF action_for_msg
<1>4. \/ last_seq_delivered' = last_seq_delivered
      \/ n = last_seq_delivered + 1 /\ last_seq_delivered' = n /\ ooo_msgs' = ooo_msgs
  <2>1. ASSUME n = last_seq_delivered + 1 PROVE ~ (n > last_seq_delivered + 1)
    BY SMTT(30), <1>2, <2>1
  <2> QED
    BY <2>1 DEF action_for_msg, inc_last_seq_delivered
<1>5. n # last_seq_delivered + 1 => last_seq_delivered' = last_seq_delivered
  BY DEF action_for_msg
<1>6. new.seqno = n /\ new.leg = l
  OBVIOUS
<1>7. \A e \in ooo_msgs : e.seqno \in Nat /\ e.leg \in Legs
  BY <1>0 DEF JoinTypes
<1> HIDE DEF n, new
<1>8. BehindLeg'
  <2> SUFFICES ASSUME NEW e \in ooo_msgs' PROVE e.seqno <= last_seq_recv'[e.leg]
    BY DEF BehindLeg
  <2>1. CASE e = new
    BY SMTT(30), <1>2, <1>6, <2>1
  <2>2. CASE e \in ooo_msgs /\ e.leg # l
    BY <1>0, <1>2, <1>7, <2>2 DEF BehindLeg
  <2>3. CASE e \in ooo_msgs /\ e.leg = l
    <3>1. e.seqno <= last_seq_recv[l]
      BY <1>0, <2>3 DEF BehindLeg
    <3> QED
      BY SMTT(30), <1>2, <1>7, <2>3, <3>1 DEF n
  <2> QED
    BY <1>3, <2>1, <2>2, <2>3
<1>9. DueAlone'
  <2> SUFFICES ASSUME NEW e \in Dequeueable', batch' # {}
               PROVE  batch' = {e.leg} /\ \A k \in rlegs \ {e.leg} : last_seq_recv'[k] < e.seqno
    BY <1>1 DEF DueAlone
  <2>1. e \in ooo_msgs' /\ e.seqno = last_seq_delivered' + 1
    BY DEF Dequeueable
  <2>2. e \in ooo_msgs
    BY SMTT(30), <1>2, <1>3, <1>4, <1>6, <2>1
  <2>3. last_seq_delivered' = n
    <3> SUFFICES ASSUME last_seq_delivered' = last_seq_delivered PROVE FALSE
      BY <1>4
    <3>1. e \in Dequeueable
      BY <2>1, <2>2 DEF Dequeueable
    <3>2. batch = {l}
      BY <1>0, <1>1, <3>1 DEF DueAlone
    <3> QED
      BY <1>1, <3>2
  <2>4. e.seqno = n + 1 /\ e.seqno <= last_seq_recv'[e.leg]
    BY <1>8, <2>1, <2>3 DEF BehindLeg
  <2>5. e.leg # l
    BY SMTT(30), <1>2, <2>4
  <2>6. e.leg \in Legs /\ \A k \in Legs \ {l} : k = e.leg
    BY <1>7, <2>2, <2>5 DEF TwoLegs
  <2>7. rlegs \subseteq Legs
    BY <1>0 DEF JoinTypes
  <2>8. batch' = {e.leg}
    BY <1>1, <2>6, <2>7
  <2>9. \A k \in rlegs \ {e.leg} : k = l
    BY <2>6, <2>7
  <2>10. last_seq_recv'[l] < e.seqno
    BY SMTT(30), <1>2, <2>4
  <2> QED
    BY <2>8, <2>9, <2>10
<1>10. HoleAhead'
  <2> SUFFICES ASSUME NEW e \in ooo_msgs', e.leg \notin rlegs
               PROVE  Dequeueable' = {} /\ \A k \in rlegs : last_seq_recv'[k] > last_seq_delivered'
    BY <1>1 DEF HoleAhead
  <2>1. e \in ooo_msgs
    BY <1>1, <1>3, <1>6
  <2>2. Dequeueable = {} /\ \A k \in rlegs : last_seq_recv[k] > last_seq_delivered
    BY <1>0, <2>1 DEF HoleAhead
  <2>3. n # last_seq_delivered + 1
    BY SMTT(30), <1>1, <1>2, <2>2 DEF n
  <2>4. last_seq_delivered' = last_seq_delivered
    BY <1>5, <2>3
  <2>5. Dequeueable' = {}
    <3> SUFFICES ASSUME NEW f \in Dequeueable' PROVE FALSE
      OBVIOUS
    <3>1. f \in ooo_msgs' /\ f.seqno = last_seq_delivered + 1
      BY <2>4 DEF Dequeueable
    <3>2. f \in ooo_msgs
      BY SMTT(30), <1>2, <1>3, <1>6, <3>1
    <3> QED
      BY <2>2, <3>1, <3>2 DEF Dequeueable
  <2>6. ASSUME NEW k \in rlegs PROVE last_seq_recv'[k] > last_seq_delivered
    <3>1. CASE k = l
      BY SMTT(30), <1>1, <1>2, <2>2, <3>1 DEF n
    <3>2. CASE k # l
      BY <1>0, <1>2, <2>2, <3>2 DEF JoinTypes
    <3> QED
      BY <3>1, <3>2
  <2> QED
    BY <2>4, <2>5, <2>6
<1> QED
  BY <1>0, <1>1, <1>8, <1>9, <1>10 DEF OrphanInv

\* Every step of a tunnel of two legs keeps the legs of what can become due.
LEMMA NextOrphanInv == IndInv /\ TwoLegs /\ OrphanInv /\ [Next]_vars => OrphanInv'
<1> SUFFICES ASSUME IndInv, TwoLegs, OrphanInv, [Next]_vars PROVE OrphanInv'
  OBVIOUS
<1>0. TypeOK /\ LinkTypes /\ ClientTypes /\ JoinTypes /\ LinkInv /\ SendInv /\ BufferInv
  BY DEF IndInv, TypeOK
<1>a. \A e \in ooo_msgs : e.leg \in Legs /\ e.seqno \in Nat
  BY <1>0 DEF JoinTypes
<1>1. ASSUME UNCHANGED join PROVE OrphanInv'
  BY <1>1 DEF OrphanInv, BehindLeg, DueAlone, HoleAhead, Dequeueable, join, counters
<1>2. ASSUME handle_link_circuits \/ UNCHANGED vars PROVE UNCHANGED join
  BY <1>2 DEF handle_link_circuits, vars
<1>3. ASSUME NEW l \in Legs, LinkStep(l) \/ CloseChannel(l) PROVE UNCHANGED join
  BY <1>3 DEF LinkStep, handle_conflux_linked, RemoveMismatch, RemoveTimeout, RemoveClosed,
     RemoveLeg, handle_destroy_cell, CloseChannel
<1>4. ASSUME NEW m \in Msgs, send_relay_cell_on_leg(m) \/ send_on_primary(m) PROVE UNCHANGED join
  BY <1>0, <1>4, SendCases
<1>5. ASSUME NEW l \in Legs, HandleHandshake(l) PROVE OrphanInv'
  <2>1. /\ l \in batch /\ batch' = batch \ {l} /\ rstate' = rstate /\ rlegs' = rlegs
        /\ last_seq_recv' = last_seq_recv /\ last_seq_delivered' = last_seq_delivered
        /\ ooo_msgs' = ooo_msgs
    BY <1>5 DEF HandleHandshake, HandleCell, counters
  <2>2. Dequeueable' = Dequeueable
    BY <2>1 DEF Dequeueable
  <2>3. DueAlone => DueAlone'
    <3> SUFFICES ASSUME DueAlone, NEW e \in Dequeueable PROVE batch' = {}
      BY <2>2 DEF DueAlone
    <3> QED
      BY <2>1 DEF DueAlone
  <2> QED
    BY <2>1, <2>2, <2>3 DEF OrphanInv, BehindLeg, HoleAhead
<1>6. ASSUME NEW l \in Legs, action_for_msg(l) PROVE OrphanInv'
  BY <1>6, MessageOrphans
<1>7. ASSUME NEW l \in Legs, handle_conflux_switch(l) PROVE OrphanInv'
  <2> DEFINE d == Head(link[l]).delta
  <2>1. /\ l \in batch /\ batch' = batch \ {l} /\ rstate = "Running"
        /\ last_seq_delivered' = last_seq_delivered /\ ooo_msgs' = ooo_msgs
    BY <1>7 DEF handle_conflux_switch, HandleCell
  <2>2. CASE ~ SwitchIsValid(l, d)
    <3>1. RemoveAtJoin(l) /\ last_seq_recv' = last_seq_recv
      BY <1>7, <2>2 DEF handle_conflux_switch, counters
    <3> QED
      BY <2>1, <3>1, RemoveOrphans
  <2>3. CASE SwitchIsValid(l, d)
    <3>1. /\ last_seq_recv' = [last_seq_recv EXCEPT ![l] = @ + d]
          /\ rstate' = rstate /\ rlegs' = rlegs
      BY <1>7, <2>3 DEF handle_conflux_switch
    <3>2. d \in Nat
      BY <1>0, <1>7, HandleChanges DEF handle_conflux_switch, Cell
    <3> HIDE DEF d
    <3>3. \A k \in Legs : last_seq_recv[k] \in Nat /\ last_seq_recv'[k] \in Nat
                          /\ last_seq_recv[k] <= last_seq_recv'[k]
      BY SMTT(30), <1>0, <3>1, <3>2 DEF JoinTypes
    <3>4. Dequeueable' = Dequeueable
      BY <2>1 DEF Dequeueable
    <3>5. BehindLeg'
      <4> SUFFICES ASSUME NEW e \in ooo_msgs PROVE e.seqno <= last_seq_recv'[e.leg]
        BY <2>1 DEF BehindLeg
      <4>1. e.seqno <= last_seq_recv[e.leg]
        BY DEF OrphanInv, BehindLeg
      <4> QED
        BY SMTT(30), <1>a, <3>3, <4>1
    <3>6. DueAlone'
      <4> SUFFICES ASSUME NEW e \in Dequeueable PROVE batch' = {}
        BY <3>4 DEF DueAlone
      <4> QED
        BY <2>1 DEF OrphanInv, DueAlone
    <3>7. HoleAhead'
      <4> SUFFICES ASSUME NEW e \in ooo_msgs, e.leg \notin rlegs
                   PROVE  Dequeueable = {} /\ \A k \in rlegs : last_seq_recv'[k] > last_seq_delivered
        BY <2>1, <3>1, <3>4 DEF HoleAhead
      <4>1. Dequeueable = {} /\ \A k \in rlegs : last_seq_recv[k] > last_seq_delivered
        BY <2>1 DEF OrphanInv, HoleAhead
      <4>2. rlegs \subseteq Legs /\ last_seq_delivered \in Nat
        BY <1>0 DEF JoinTypes
      <4>3. ASSUME NEW k \in rlegs PROVE last_seq_recv'[k] > last_seq_delivered
        BY SMTT(30), <3>3, <4>1, <4>2
      <4> QED
        BY <4>1, <4>3
    <3> QED
      BY <3>1, <3>5, <3>6, <3>7 DEF OrphanInv
  <2> QED
    BY <2>2, <2>3
<1>8. ASSUME NEW l \in Legs, RemoveClosedAtJoin(l) PROVE OrphanInv'
  BY <1>8, RemoveOrphans DEF RemoveClosedAtJoin, counters
<1>9. ASSUME try_dequeue_ooo_msgs PROVE OrphanInv'
  <2>1. PICK e \in Dequeueable :
          /\ ooo_msgs' = ooo_msgs \ {e}
          /\ e.leg \in rlegs => inc_last_seq_delivered(e.msg) /\ rstate' = rstate
    BY <1>9 DEF try_dequeue_ooo_msgs
  <2>2. /\ rstate = "Running" /\ batch = {} /\ batch' = batch /\ rlegs' = rlegs
        /\ last_seq_recv' = last_seq_recv
    BY <1>9 DEF try_dequeue_ooo_msgs, counters
  <2>3. \A f \in ooo_msgs : f.leg \in rlegs
    BY <2>1, <2>2 DEF OrphanInv, HoleAhead
  <2>4. e.leg \in rlegs
    BY <2>1, <2>3 DEF Dequeueable
  <2> QED
    BY <2>1, <2>2, <2>3, <2>4 DEF OrphanInv, BehindLeg, DueAlone, HoleAhead
<1>10. ASSUME next_circ_event PROVE OrphanInv'
  <2>1. /\ Dequeueable = {} /\ rstate' = rstate /\ rlegs' = rlegs /\ ooo_msgs' = ooo_msgs
        /\ last_seq_recv' = last_seq_recv /\ last_seq_delivered' = last_seq_delivered
    BY <1>10 DEF next_circ_event, counters
  <2>2. Dequeueable' = {}
    BY <2>1 DEF Dequeueable
  <2> QED
    BY <2>1, <2>2 DEF OrphanInv, BehindLeg, DueAlone, HoleAhead
<1> QED
  BY <1>1, <1>2, <1>3, <1>4, <1>5, <1>6, <1>7, <1>8, <1>9, <1>10 DEF Next, Event

-----------------------------------------------------------------------------
(* Theorems.                                                               *)

\* Init establishes the invariant: no leg has carried a cell.
LEMMA InitIndInv == Init => IndInv
<1> SUFFICES ASSUME Init PROVE IndInv
  OBVIOUS
<1>1. LinkTypes
  BY SMTT(30) DEF Init, LinkTypes
<1>2. ClientTypes
  <2>1. ctx \in [num_legs : Nat, results : Nat]
    BY DEF Init, NoCtx
  <2>2. sent \in Seq(Msgs)
    BY SMTT(30) DEF Init
  <2>3. selected_init_primary \in BOOLEAN
    BY DEF Init
  <2>4. /\ legs \subseteq Legs /\ primary_id \in Legs /\ last_seq_sent \in [Legs -> Nat]
        /\ status \in [Legs -> {"None", "Unlinked", "AwaitingLink", "Linked"}]
    BY ConfluxAssumption DEF Init
  <2>5. state = "Running" /\ answer = "None"
    BY DEF Init
  <2> QED
    BY <2>1, <2>2, <2>3, <2>4, <2>5 DEF ClientTypes
<1>3. JoinTypes
  BY SMTT(30) DEF Init, JoinTypes
<1> Len(<<>>) = 0 /\ \A n : ~ (n \in 1 .. 0)
  BY SMTT(30)
<1>5. LinkInv
  BY SMTT(30) DEF Init, LinkInv, Chain, Increasing, LastNo
<1>6. SendInv
  BY SMTT(30) DEF Init, SendInv
<1>7. BufferInv /\ FreshInv
  BY SMTT(30) DEF Init, BufferInv, FreshInv, Numbers
<1> QED
  BY <1>1, <1>2, <1>3, <1>5, <1>6, <1>7 DEF IndInv, TypeOK

\* The inductive invariant: each leg carries an unbroken numbering, from the join
\* point's counter to the client's.
THEOREM Invariance == Spec => []IndInv
<1>1. IndInv /\ [Next]_vars => IndInv'
  BY NextLinkTypes, NextClientTypes, NextJoinTypes, NextLinkInv, NextSendInv,
     NextBufferInv,
     NextFreshInv DEF IndInv, TypeOK
<1> QED
  BY InitIndInv, <1>1, PTL DEF Spec

\* Type correctness of both ends and of the legs between them.
THEOREM TypeCorrect == Spec => []TypeOK
BY Invariance, PTL DEF IndInv

\* When note_conflux_handshake_result has told the initiator, every leg that is left
\* is linked: no message meets a leg that is not, or that has no RTT.
THEOREM UsableWhenTold == Spec => []ReadyMeansUsable
<1>1. Init => HandshakeInv
  BY DEF Init, HandshakeInv
<1>2. IndInv /\ HandshakeInv => ReadyMeansUsable
  <2> SUFFICES ASSUME IndInv, HandshakeInv, answer = "Done", state = "Running"
               PROVE  legs = Measured /\ primary_id \in legs
    BY DEF ReadyMeansUsable, HandshakeInv
  <2>1. legs \subseteq Legs /\ primary_id \in legs /\ Reported = Legs
    BY DEF IndInv, TypeOK, ClientTypes, SendInv, HandshakeInv
  <2> QED
    BY <2>1 DEF Measured, Reported
<1> QED
  BY Invariance, NextHandshakeInv, <1>1, <1>2, PTL DEF Spec

\* try_dequeue_ooo_msgs finds the leg of every message whose turn has come, however
\* the two legs of a tunnel are used and whichever of them closes.
THEOREM LegsOfBuffered == Spec => []BufferedLegStays
<1>1. CASE TwoLegs
  <2>1. Init => OrphanInv
    BY DEF Init, OrphanInv, BehindLeg, DueAlone, HoleAhead, Dequeueable
  <2>2. OrphanInv => BufferedLegStays
    BY DEF OrphanInv, BufferedLegStays
  <2> QED
    BY <1>1, Invariance, NextOrphanInv, <2>1, <2>2, PTL DEF Spec
<1>2. CASE ~ TwoLegs
  <2>1. BufferedLegStays
    BY <1>2, AtMostTwo DEF BufferedLegStays
  <2> QED
    BY <2>1, PTL
<1> QED
  BY <1>1, <1>2

\* The two ends count alike (Counters of ConfluxMsgHandler), whatever legs there are,
\* however the client switches between them and whichever close.
THEOREM CountAlike == Spec => []NumbersAgree
<1>1. IndInv => NumbersAgree
  BY DEF IndInv, LinkInv, BufferInv, NumbersAgree, Chain
<1> QED
  BY Invariance, <1>1, PTL

\* action_for_msg never meets the number of a message that was handled before.
THEOREM NeverDisordered == Spec => []NoDisorder
<1>1. IndInv => NoDisorder
  BY DEF IndInv, FreshInv, NoDisorder
<1> QED
  BY Invariance, <1>1, PTL

\* The difference that maybe_update_primary_leg puts into a SWITCH is positive.
THEOREM SwitchesGoForward == Spec => []PrimaryIsAhead
<1>1. IndInv => PrimaryIsAhead
  BY DEF IndInv, SendInv, PrimaryIsAhead, TypeOK, ClientTypes
<1> QED
  BY Invariance, <1>1, PTL

\* A conflux tunnel implements the abstract ordered stream: every step is the sending
\* of a message, the delivery of the next one, or neither.
THEOREM Implementation == Spec => InOrder
<1>1. Init => Ordered!Init
  BY DEF Init, Ordered!Init
<1>2. IndInv /\ [Next]_vars => [Ordered!Next]_(Ordered!vars)
  <2> SUFFICES ASSUME IndInv, [Next]_vars PROVE [Ordered!Next]_(Ordered!vars)
    OBVIOUS
  <2>0. TypeOK /\ LinkTypes /\ ClientTypes /\ JoinTypes /\ LinkInv /\ SendInv /\ BufferInv
    BY DEF IndInv, TypeOK
  <2> DEFINE Same == UNCHANGED <<sent, delivered>>
             Delivers == /\ Len(delivered) < Len(sent) /\ sent' = sent
                         /\ delivered' = Append(delivered, sent[Len(delivered) + 1])
             Sends == /\ \E m \in Msgs : sent' = Append(sent, m)
                      /\ delivered' = delivered
  <2>1. ASSUME NEW l \in Legs, action_for_msg(l) PROVE Same \/ Delivers
    <3> USE <2>1
    <3> /\ l \in rlegs /\ link[l] # <<>> /\ Head(link[l]).cmd = "MSG" /\ sent' = sent
      BY <2>0 DEF action_for_msg, HandleCell, BufferInv
    <3>2. /\ Head(link[l]).no = last_seq_recv[l] + 1 /\ Head(link[l]).no \in 1 .. Len(sent)
          /\ Head(link[l]).msg = sent[Head(link[l]).no]
      BY <2>0, HandledNumber
    <3>3. last_seq_delivered = Len(delivered) /\ Len(delivered) \in Nat /\ Len(sent) \in Nat
      BY SMTT(30), <2>0 DEF BufferInv, JoinTypes, ClientTypes
    <3>4. CASE last_seq_recv[l] + 1 = last_seq_delivered + 1
      BY SMTT(30), <3>2, <3>3, <3>4 DEF action_for_msg, inc_last_seq_delivered
    <3>5. CASE last_seq_recv[l] + 1 # last_seq_delivered + 1
      BY <3>5 DEF action_for_msg
    <3> QED
      BY <3>4, <3>5
  <2>2. ASSUME try_dequeue_ooo_msgs PROVE Same \/ Delivers
    <3>1. PICK e \in Dequeueable :
             IF e.leg \in rlegs THEN inc_last_seq_delivered(e.msg)
                                ELSE UNCHANGED <<last_seq_delivered, delivered>>
      BY <2>2 DEF try_dequeue_ooo_msgs
    <3>2. /\ e \in ooo_msgs /\ e.seqno = last_seq_delivered + 1
          /\ e.seqno \in 1 .. Len(sent) /\ e.msg = sent[e.seqno] /\ last_seq_delivered = Len(delivered)
      BY <2>0 DEF Dequeueable, BufferInv
    <3>3. Len(delivered) \in Nat /\ Len(sent) \in Nat /\ sent' = sent
      BY SMTT(30), <2>0, <2>2 DEF JoinTypes, ClientTypes, try_dequeue_ooo_msgs
    <3> QED
      BY SMTT(30), <3>1, <3>2, <3>3 DEF inc_last_seq_delivered
  <2>3. ASSUME NEW m \in Msgs, send_relay_cell_on_leg(m) \/ send_on_primary(m) PROVE Same \/ Sends
    BY <2>0, <2>3, SendCases DEF NotSent, SentPlain, SentSwitch, SentOn
  <2>4. ASSUME NEW l \in Legs, LinkStep(l) PROVE Same
    BY <2>4 DEF LinkStep, handle_conflux_linked, RemoveMismatch, RemoveTimeout,
       RemoveClosed,
                RemoveLeg, handle_destroy_cell
  <2>5. ASSUME NEW l \in Legs,
               HandleHandshake(l) \/ handle_conflux_switch(l) \/ RemoveClosedAtJoin(l)
                  \/ CloseChannel(l)
        PROVE  Same
    BY <2>5 DEF HandleHandshake, handle_conflux_switch, HandleCell, RemoveClosedAtJoin,
       CloseChannel
  <2>6. ASSUME handle_link_circuits \/ next_circ_event \/ UNCHANGED vars PROVE Same
    BY <2>6 DEF handle_link_circuits, next_circ_event, vars
  <2>7. Same \/ Delivers \/ Sends
    BY <2>1, <2>2, <2>3, <2>4, <2>5, <2>6 DEF Next, Event
  <2> QED
    BY <2>7 DEF Ordered!Next, Ordered!Send, Ordered!Deliver, Ordered!vars
<1> QED
  BY <1>1, <1>2, Invariance, PTL DEF Spec, InOrder, Ordered!Spec

=============================================================================
