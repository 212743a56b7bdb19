------------------------------ MODULE Conflux -------------------------------
(***************************************************************************)
(* A conflux tunnel: several circuits ("legs") to one join point, linked   *)
(* by a handshake, over which the messages of the tunnel's streams are     *)
(* sent with implicit sequence numbers (tor-proto: conflux/msghandler.rs,  *)
(* client/reactor/conflux.rs, client/reactor/conflux/msghandler.rs and     *)
(* client/reactor.rs).  The client links the legs and sends; the join      *)
(* point receives with the code that a client receives with.  Each end     *)
(* removes a leg when it learns that its channel is gone.                  *)
(***************************************************************************)
EXTENDS Naturals, FiniteSets, Sequences

CONSTANTS
    Legs,       \* the circuits of the tunnel, once they are linked
    First,      \* the circuit that the tunnel starts with
    Msgs,       \* the messages that count towards sequence numbers
    CwndInit,   \* cc_cwnd_init
    MaxMsgs     \* bound on the messages sent

ASSUME ConfluxAssumption ==
    /\ IsFiniteSet(Legs) /\ First \in Legs
    /\ CwndInit \in Nat /\ MaxMsgs \in Nat

VARIABLES
    up,         \* the legs whose channels are open
    link,       \* the cells on their way to the join point, for each leg
    back,       \* the answers to LINK on their way to the client
    \* the client's ConfluxSet and Reactor
    state, legs, status, primary_id, selected_init_primary, last_seq_sent,
    ctx, answer,    \* conflux_hs_ctx, and what the initiator has been told
    \* the join point's
    rstate, rlegs, last_seq_recv, have_seen_switch, cells_since_switch,
    last_seq_delivered, ooo_msgs,
    batch,      \* the legs with an event that is still to be handled in this turn
    sent, delivered

setVars == <<state, legs, status, primary_id, selected_init_primary, last_seq_sent>>
client == <<setVars, ctx, answer>>
counters == <<last_seq_recv, have_seen_switch, cells_since_switch>>
join == <<rstate, rlegs, counters, last_seq_delivered, ooo_msgs, batch>>
vars == <<up, link, back, client, join, sent, delivered>>

NoCtx == [num_legs |-> 0, results |-> 0]

Init ==
    /\ up = Legs
    /\ link = [l \in Legs |-> <<>>] /\ back = [l \in Legs |-> <<>>]
    /\ state = "Running" /\ legs = {First} /\ status = [l \in Legs |-> "None"]
    /\ primary_id = First /\ selected_init_primary = FALSE
    /\ last_seq_sent = [l \in Legs |-> 0]
    /\ ctx = NoCtx /\ answer = "None"
    /\ rstate = "Running" /\ rlegs = Legs
    /\ last_seq_recv = [l \in Legs |-> 0]
    /\ have_seen_switch = [l \in Legs |-> FALSE]
    /\ cells_since_switch = [l \in Legs |-> 0]
    /\ last_seq_delivered = 0 /\ ooo_msgs = {} /\ batch = {}
    /\ sent = <<>> /\ delivered = <<>>

\* The cells.  "no" is the sequence number that the client has given to a cell, or
\* the one that the next cell follows; it is not transmitted.
Cell ==
    [cmd : {"LINK", "LINKED_ACK"}, no : Nat] \cup [cmd : {"MSG"}, msg : Msgs, no : Nat]
        \cup [cmd : {"SWITCH"}, delta : Nat, no : Nat]

Handshake(cmd, l) == [cmd |-> cmd, no |-> last_seq_sent[l]]
Counted(m, n) == [cmd |-> "MSG", msg |-> m, no |-> n]
Switch(delta, n) == [cmd |-> "SWITCH", delta |-> delta, no |-> n]

-----------------------------------------------------------------------------
(* Linking.                                                                *)

\* CtrlMsg::LinkCircuits.  A LINK goes down every leg; when one cannot be sent, the
\* legs before it have begun the handshake and those after it have not.
handle_link_circuits ==
    /\ state = "Running" /\ answer = "None"
    /\ legs' = Legs
    /\ \/ /\ Legs \subseteq up
          /\ status' = [l \in Legs |-> "AwaitingLink"]
          /\ link' = [l \in Legs |-> Append(link[l], Handshake("LINK", l))]
          /\ ctx' = [num_legs |-> Cardinality(Legs), results |-> 0]
          /\ answer' = "Waiting"
       \/ \E done \in SUBSET up :
             /\ ~ Legs \subseteq up
             /\ status' = [l \in Legs |-> IF l \in done THEN "AwaitingLink" ELSE "Unlinked"]
             /\ link' = [l \in Legs |-> IF l \in done
                                        THEN Append(link[l], Handshake("LINK", l)) ELSE link[l]]
             /\ ctx' = ctx
             /\ answer' = "Error"
    /\ UNCHANGED <<up, back, state, primary_id, selected_init_primary, last_seq_sent, join,
                   sent, delivered>>

\* Mutant: the first result is taken for the last one.
NoteEarly(closing, then) ==
    /\ ctx # NoCtx /\ ctx' = NoCtx
    /\ state' = then /\ answer' = "Done"

\* note_conflux_handshake_result, after which the reactor goes on in state "then".
\* The initiator is told when there is a result for every leg, or when the reactor
\* is about to stop; the reactor also stops when the initiator has gone away.
note_conflux_handshake_result(closing, then) ==
    LET complete == ctx.results + 1 = ctx.num_legs \/ closing
    IN  \/ /\ ctx = NoCtx
           /\ state' = "NoContext" /\ UNCHANGED <<ctx, answer>>
        \/ /\ ctx # NoCtx /\ ~ complete
           /\ ctx' = [ctx EXCEPT !.results = @ + 1]
           /\ state' = then /\ answer' = answer
        \/ /\ ctx # NoCtx /\ complete
           /\ ctx' = NoCtx
           /\ \/ state' = then /\ answer' = "Done"
              \/ state' = "Shutdown" /\ answer' = "Gone"

\* A LINKED arrives on a leg that waits for it, and is acknowledged.  The result is
\* noted first: the reactor stops when the acknowledgement cannot be sent.
handle_conflux_linked(l) ==
    /\ state = "Running" /\ l \in legs
    /\ back[l] # <<>> /\ Head(back[l]) = "LINKED"
    /\ status[l] = "AwaitingLink"
    /\ status' = [status EXCEPT ![l] = "Linked"]
    /\ note_conflux_handshake_result(FALSE, IF l \in up THEN "Running" ELSE "ChannelClosed")
    /\ back' = [back EXCEPT ![l] = Tail(@)]
    /\ link' = IF state' = "Running"
               THEN [link EXCEPT ![l] = Append(@, Handshake("LINKED_ACK", l))] ELSE link
    /\ UNCHANGED <<up, legs, primary_id, selected_init_primary, last_seq_sent, join,
                   sent, delivered>>

\* ConfluxSet::remove and remove_conflux: may the client go on without the leg?  It
\* closes the tunnel if data is in progress, which congestion control decides.
MayRemove(l) ==
    /\ l # primary_id
    /\ \E k \in legs \ {l} : last_seq_sent[l] <= last_seq_sent[k]

\* Mutant: a leg that goes away is not a result of the handshake.
RemoveSilently(l, then) ==
    /\ state = "Running" /\ l \in legs
    /\ legs' = legs \ {l}
    /\ up' = up \ {l}
    /\ \/ MayRemove(l) /\ UNCHANGED state
       \/ ~ MayRemove(l) /\ state' = "Shutdown"
    /\ UNCHANGED <<status, primary_id, selected_init_primary, last_seq_sent, ctx, answer, join,
                   sent, delivered>>

\* RunOnceCmdInner::RemoveLeg.  A malformed handshake ends the reactor in any case.
\* The circuit is closed when it is dropped.
RemoveLeg(l, then) ==
    /\ state = "Running" /\ l \in legs
    /\ legs' = legs \ {l}
    /\ up' = up \ {l}
    /\ \/ /\ MayRemove(l)
          /\ \/ status[l] = "Linked" /\ UNCHANGED <<state, ctx, answer>>
             \/ status[l] # "Linked" /\ note_conflux_handshake_result(then # "Running", then)
       \/ /\ ~ MayRemove(l) \/ (status[l] = "Linked" /\ last_seq_sent[l] > 0)
          /\ state' = "Shutdown" /\ UNCHANGED <<ctx, answer>>
    /\ UNCHANGED <<status, primary_id, selected_init_primary, last_seq_sent, join,
                   sent, delivered>>

\* The nonce of a LINKED is not the one that was sent.
RemoveMismatch(l) ==
    /\ back[l] # <<>> /\ Head(back[l]) = "Mismatch"
    /\ RemoveLeg(l, "Proto")
    /\ back' = [back EXCEPT ![l] = Tail(@)] /\ UNCHANGED link

\* RemoveLegReason::ConfluxHandshakeTimeout
RemoveTimeout(l) ==
    /\ status[l] = "AwaitingLink"
    /\ RemoveLeg(l, "Running") /\ UNCHANGED <<back, link>>

\* RemoveLegReason::ChannelClosed
RemoveClosed(l) ==
    /\ l \notin up /\ back[l] = <<>>
    /\ RemoveLeg(l, "Running") /\ UNCHANGED <<back, link>>

\* The join point has dropped the leg, or its whole set: a DESTROY closes the tunnel.
handle_destroy_cell(l) ==
    /\ state = "Running" /\ l \in legs /\ l \in up /\ back[l] = <<>>
    /\ l \notin rlegs \/ rstate # "Running"
    /\ state' = "Shutdown"
    /\ UNCHANGED <<up, link, back, legs, status, primary_id, selected_init_primary,
                   last_seq_sent, ctx, answer, join, sent, delivered>>

-----------------------------------------------------------------------------
(* Sending.                                                                *)

\* The streams use the tunnel when the initiator has been answered.
Usable == answer = "Done"

\* The legs whose initial RTT is known.
Measured == {l \in legs : status[l] = "Linked"}

\* Circuit::send_relay_cell on leg l, whose counter is n, after a SWITCH if there is
\* one in "switch".
send_relay_cell(l, n, switch, m) ==
    \/ /\ status[l] # "Linked" \/ l \notin up
       /\ state' = IF status[l] # "Linked" THEN "Unlinked" ELSE "ChannelClosed"
       /\ UNCHANGED <<link, last_seq_sent, sent>>
    \/ /\ status[l] = "Linked" /\ l \in up /\ state' = state
       /\ link' = [link EXCEPT ![l] = Append(@ \o switch, Counted(m, n + 1))]
       /\ last_seq_sent' = [last_seq_sent EXCEPT ![l] = n + 1]
       /\ sent' = Append(sent, m)

\* maybe_select_init_primary: the first leg to be used, without a SWITCH.
SelectInitPrimary(m) ==
    /\ ~ selected_init_primary
    /\ \E best \in IF Measured = {} THEN {primary_id} ELSE Measured :
          /\ primary_id' = best /\ selected_init_primary' = (Measured # {})
          /\ send_relay_cell(best, last_seq_sent[best], <<>>, m)

\* select_primary_leg finds the same leg again, or there is no other; it fails when
\* one of several has no RTT yet.
KeepPrimary(m) ==
    /\ selected_init_primary
    /\ IF Cardinality(legs) >= 2 /\ legs # Measured
       THEN state' = "NoRtt" /\ UNCHANGED <<link, last_seq_sent, sent>>
       ELSE send_relay_cell(primary_id, last_seq_sent[primary_id], <<>>, m)
    /\ UNCHANGED <<primary_id, selected_init_primary>>

\* Mutant: the new leg goes on with its own counter.
SwitchUncarried(m) ==
    /\ selected_init_primary
    /\ Cardinality(legs) >= 2 /\ legs = Measured
    /\ \E new \in legs \ {primary_id} :
          LET prev == last_seq_sent[primary_id]
              seqno_delta == prev - last_seq_sent[new]
          IN  /\ primary_id' = new
              /\ send_relay_cell(new, last_seq_sent[new], <<Switch(seqno_delta, prev)>>, m)
    /\ UNCHANGED selected_init_primary

\* Mutant: the difference is taken the wrong way round.
SwitchBackwards(m) ==
    /\ selected_init_primary
    /\ Cardinality(legs) >= 2 /\ legs = Measured
    /\ \E new \in legs \ {primary_id} :
          LET prev == last_seq_sent[primary_id]
          IN  /\ primary_id' = new
              /\ send_relay_cell(new, prev, <<Switch(last_seq_sent[new] - prev, prev)>>, m)
    /\ UNCHANGED selected_init_primary

\* It finds another, whose counter is set to that of the one used so far.
SwitchPrimary(m) ==
    /\ selected_init_primary
    /\ Cardinality(legs) >= 2 /\ legs = Measured
    /\ \E new \in legs \ {primary_id} :
          LET prev == last_seq_sent[primary_id]
              seqno_delta == prev - last_seq_sent[new]
          IN  /\ primary_id' = new
              /\ send_relay_cell(new, prev, <<Switch(seqno_delta, prev)>>, m)
    /\ UNCHANGED selected_init_primary

send_relay_cell_on_leg(m) ==
    /\ state = "Running" /\ Usable /\ Len(sent) < MaxMsgs
    /\ SelectInitPrimary(m) \/ KeepPrimary(m) \/ SwitchPrimary(m)
    /\ UNCHANGED <<up, back, legs, status, ctx, answer, join, delivered>>

\* CloseStream and MaybeSendXon, for a stream that has been opened, send on the leg
\* that is primary already.
send_on_primary(m) ==
    /\ state = "Running" /\ Usable /\ Len(sent) \in 1 .. MaxMsgs - 1
    /\ send_relay_cell(primary_id, last_seq_sent[primary_id], <<>>, m)
    /\ UNCHANGED <<up, back, legs, status, primary_id, selected_init_primary, ctx, answer,
                   join, delivered>>

-----------------------------------------------------------------------------
(* Receiving.                                                              *)

\* Mutant: a message is counted twice.
CountTwice(m) ==
    /\ last_seq_delivered' = last_seq_delivered + 2
    /\ delivered' = Append(delivered, m)

\* A message is in order: it goes to its stream.
inc_last_seq_delivered(m) ==
    /\ last_seq_delivered' = last_seq_delivered + 1
    /\ delivered' = Append(delivered, m)

\* Mutants: whatever has been buffered; what has been delivered.
DequeueAny == ooo_msgs
DequeueLast == {e \in ooo_msgs : e.seqno = last_seq_delivered}

\* try_dequeue_ooo_msgs, at the beginning of a turn
Dequeueable == {e \in ooo_msgs : e.seqno = last_seq_delivered + 1}

try_dequeue_ooo_msgs ==
    /\ rstate = "Running" /\ batch = {}
    /\ \E e \in Dequeueable :
          /\ ooo_msgs' = ooo_msgs \ {e}
          /\ IF e.leg \in rlegs
             THEN inc_last_seq_delivered(e.msg) /\ rstate' = rstate
             ELSE rstate' = "LegDisappeared" /\ UNCHANGED <<last_seq_delivered, delivered>>
    /\ UNCHANGED <<up, link, back, client, rlegs, counters, batch, sent>>

\* next_circ_event: every leg may have a cell, or be at its end.
next_circ_event ==
    /\ rstate = "Running" /\ batch = {} /\ Dequeueable = {}
    /\ \E ready \in SUBSET {l \in rlegs : link[l] # <<>> \/ l \notin up} :
          ready # {} /\ batch' = ready
    /\ UNCHANGED <<up, link, back, client, rstate, rlegs, counters, last_seq_delivered,
                   ooo_msgs, sent, delivered>>

HandleCell(l, cmd) ==
    /\ rstate = "Running" /\ l \in batch
    /\ link[l] # <<>> /\ Head(link[l]).cmd = cmd
    /\ link' = [link EXCEPT ![l] = Tail(@)]
    /\ batch' = batch \ {l}
    /\ UNCHANGED <<up, client, sent>>

\* The handshake cells; the join point answers a LINK.
HandleHandshake(l) ==
    /\ \/ HandleCell(l, "LINK") /\ \E a \in {"LINKED", "Mismatch"} :
                                      back' = [back EXCEPT ![l] = Append(@, a)]
       \/ HandleCell(l, "LINKED_ACK") /\ UNCHANGED back
    /\ UNCHANGED <<rstate, rlegs, counters, last_seq_delivered, ooo_msgs, delivered>>

\* action_for_msg
action_for_msg(l) ==
    LET seqno == last_seq_recv[l] + 1
        m == Head(link[l]).msg
    IN  /\ HandleCell(l, "MSG")
        /\ last_seq_recv' = [last_seq_recv EXCEPT ![l] = seqno]
        /\ cells_since_switch' = [cells_since_switch EXCEPT ![l] = @ + 1]
        /\ IF seqno = last_seq_delivered + 1
           THEN inc_last_seq_delivered(m)
           ELSE UNCHANGED <<last_seq_delivered, delivered>>
        /\ ooo_msgs' = IF seqno > last_seq_delivered + 1
                       THEN ooo_msgs \cup {[seqno |-> seqno, leg |-> l, msg |-> m]} ELSE ooo_msgs
        /\ rstate' = IF seqno < last_seq_delivered + 1 THEN "Disorder" ELSE rstate
        /\ UNCHANGED <<back, rlegs, have_seen_switch>>

\* Mutant: the tunnel goes on while it has a leg, whatever the removed one received.
RemoveUnchecked(l) ==
    /\ rlegs' = rlegs \ {l}
    /\ \/ rlegs # {l} /\ rstate' = rstate
       \/ rstate' = "Shutdown"

\* ConfluxSet::remove, at the join point: whether the leg is its primary one, and
\* whether it has data in progress, depends on what it sends itself.
RemoveAtJoin(l) ==
    /\ rlegs' = rlegs \ {l}
    /\ \/ /\ \E k \in rlegs \ {l} : last_seq_recv[l] <= last_seq_recv[k]
          /\ rstate' = rstate
       \/ rstate' = "Shutdown"

\* validate_switch_seqno, and the checks before it
SwitchIsValid(l, rel_seqno) ==
    /\ ~ (have_seen_switch[l] /\ cells_since_switch[l] = 0)
    /\ rel_seqno # 0
    /\ ~ (last_seq_delivered = 0 /\ ~ have_seen_switch[l] /\ rel_seqno > CwndInit)

\* Mutant: the number of the SWITCH is checked and not used.
SwitchUnused(l) ==
    /\ HandleCell(l, "SWITCH")
    /\ have_seen_switch' = [have_seen_switch EXCEPT ![l] = TRUE]
    /\ cells_since_switch' = [cells_since_switch EXCEPT ![l] = 0]
    /\ UNCHANGED <<last_seq_recv, rstate, rlegs, back, last_seq_delivered, ooo_msgs, delivered>>

handle_conflux_switch(l) ==
    LET rel_seqno == Head(link[l]).delta
    IN  /\ HandleCell(l, "SWITCH")
        /\ IF SwitchIsValid(l, rel_seqno)
           THEN /\ last_seq_recv' = [last_seq_recv EXCEPT ![l] = @ + rel_seqno]
                /\ have_seen_switch' = [have_seen_switch EXCEPT ![l] = TRUE]
                /\ cells_since_switch' = [cells_since_switch EXCEPT ![l] = 0]
                /\ UNCHANGED <<rstate, rlegs>>
           ELSE RemoveAtJoin(l) /\ UNCHANGED counters
        /\ UNCHANGED <<back, last_seq_delivered, ooo_msgs, delivered>>

\* The leg's channel is at its end.
RemoveClosedAtJoin(l) ==
    /\ rstate = "Running" /\ l \in batch
    /\ link[l] = <<>> /\ l \notin up
    /\ RemoveAtJoin(l)
    /\ batch' = batch \ {l}
    /\ UNCHANGED <<up, link, back, client, counters, last_seq_delivered, ooo_msgs, sent, delivered>>

\* A channel closes, and the cells that have not reached the other end are lost.
CloseChannel(l) ==
    /\ l \in up
    /\ up' = up \ {l}
    /\ \E n \in 0 .. Len(link[l]) : link' = [link EXCEPT ![l] = SubSeq(@, 1, n)]
    /\ \E n \in 0 .. Len(back[l]) : back' = [back EXCEPT ![l] = SubSeq(@, 1, n)]
    /\ UNCHANGED <<client, join, sent, delivered>>

-----------------------------------------------------------------------------

LinkStep(l) ==
    \/ handle_conflux_linked(l) \/ RemoveMismatch(l) \/ RemoveTimeout(l) \/ RemoveClosed(l)
    \/ handle_destroy_cell(l)

Event(l) ==
    \/ HandleHandshake(l) \/ action_for_msg(l) \/ handle_conflux_switch(l)
    \/ RemoveClosedAtJoin(l)

Next ==
    \/ handle_link_circuits
    \/ \E l \in Legs : LinkStep(l) \/ Event(l) \/ CloseChannel(l)
    \/ \E m \in Msgs : send_relay_cell_on_leg(m) \/ send_on_primary(m)
    \/ try_dequeue_ooo_msgs
    \/ next_circ_event

Spec == Init /\ [][Next]_vars

\* The reactors are polled: what has arrived is handled, and timers fire.
FairSpec ==
    /\ Spec
    /\ WF_vars(try_dequeue_ooo_msgs) /\ WF_vars(next_circ_event)
    /\ \A l \in Legs : WF_vars(LinkStep(l)) /\ WF_vars(Event(l))

-----------------------------------------------------------------------------
(* Properties.                                                             *)

Stopped == {"Shutdown", "NoContext", "Proto"}

LinkTypes ==
    /\ up \subseteq Legs
    /\ link \in [Legs -> Seq(Cell)] /\ back \in [Legs -> Seq({"LINKED", "Mismatch"})]

ClientTypes ==
    /\ state \in {"Running", "ChannelClosed", "Unlinked", "NoRtt"} \cup Stopped
    /\ legs \subseteq Legs /\ primary_id \in Legs /\ selected_init_primary \in BOOLEAN
    /\ status \in [Legs -> {"None", "Unlinked", "AwaitingLink", "Linked"}]
    /\ last_seq_sent \in [Legs -> Nat] /\ sent \in Seq(Msgs)
    /\ ctx \in [num_legs : Nat, results : Nat]
    /\ answer \in {"None", "Waiting", "Done", "Error", "Gone"}

JoinTypes ==
    /\ rstate \in {"Running", "Shutdown", "Disorder", "LegDisappeared"}
    /\ rlegs \subseteq Legs /\ batch \subseteq Legs
    /\ last_seq_recv \in [Legs -> Nat]
    /\ have_seen_switch \in [Legs -> BOOLEAN] /\ cells_since_switch \in [Legs -> Nat]
    /\ last_seq_delivered \in Nat /\ delivered \in Seq(Msgs)
    /\ ooo_msgs \subseteq [seqno : Nat, leg : Legs, msg : Msgs]

TypeOK == LinkTypes /\ ClientTypes /\ JoinTypes

\* Whether the cell has its place in the numbering of msgs after the number n.
Follows(cell, n, msgs) ==
    /\ cell.cmd \in {"LINK", "LINKED_ACK"} => cell.no = n
    /\ cell.cmd = "SWITCH" => cell.no = n + cell.delta
    /\ cell.cmd = "MSG" =>
          cell.no = n + 1 /\ cell.no <= Len(msgs) /\ cell.msg = msgs[cell.no]

\* No number is transmitted: each end counts, and only SWITCHes carry a difference.
\* Still every message that is on its way over a leg of the join point, or that is
\* buffered there, is going to be handled under the number that it was sent with.
NumbersAgree ==
    /\ \A l \in rlegs : \A i \in 1 .. Len(link[l]) :
          Follows(link[l][i], IF i = 1 THEN last_seq_recv[l] ELSE link[l][i - 1].no, sent)
    /\ \A e \in ooo_msgs : e.seqno \in 1 .. Len(sent) /\ e.msg = sent[e.seqno]

\* However the client switches between legs, and whatever is lost with a leg that
\* closes, the streams get the messages in the order in which they were sent.
Ordered == INSTANCE OrderedStream WITH Msgs <- Msgs, sent <- sent, delivered <- delivered
InOrder == Ordered!Spec

\* A message is not taken for one that has been handled already: no number is given
\* twice, whichever legs the numbers are carried by ("Got a conflux cell with a
\* sequence number less than the last delivered").
NoDisorder == rstate # "Disorder"

\* A tunnel of two legs goes on without one of them only if no message that it has
\* buffered can become due: try_dequeue_ooo_msgs never fails because "the circuit leg
\* we just had disappeared".
BufferedLegStays == Cardinality(Legs) <= 2 => rstate # "LegDisappeared"

\* The leg in use is ahead of every other, so that the number of a SWITCH, which is
\* a difference of unsigned integers, is positive, and no number is given twice.
PrimaryIsAhead ==
    selected_init_primary /\ state = "Running" =>
        /\ last_seq_sent[primary_id] = Len(sent)
        /\ \A l \in legs \ {primary_id} : last_seq_sent[l] < last_seq_sent[primary_id]

\* Once the initiator is told that the handshake is over, every leg that is left can
\* be used, and one of them is the primary one: no message is sent over a leg that is
\* not linked, and none fails for want of an RTT.
ReadyMeansUsable ==
    /\ state \notin {"Unlinked", "NoRtt"}
    /\ answer = "Done" /\ state = "Running" => legs = Measured /\ primary_id \in legs

\* The initiator of the handshake gets an answer, unless the tunnel closes.
LinkAnswered == answer = "Waiting" ~> (answer # "Waiting" \/ state # "Running")

\* While no channel closes, what is sent is delivered in the end.
AllDelivered ==
    []<>(delivered = sent \/ up # Legs \/ rstate # "Running" \/ rlegs # Legs)

=============================================================================
