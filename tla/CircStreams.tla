---------------------------- MODULE CircStreams -----------------------------
(***************************************************************************)
(* The streams of one hop of a circuit, seen from its two ends: a client   *)
(* that begins streams and an onion service that accepts them, each with   *)
(* a reactor, a StreamMap and an application (tor-proto: streammap.rs,     *)
(* circuit/circhop.rs, client/reactor.rs and client/reactor/circuit.rs).   *)
(* Cells travel in order and are not lost; flow control is left out.       *)
(***************************************************************************)
EXTENDS Naturals, Sequences, FiniteSetsExt

CONSTANTS
    MaxId,       \* stream ids are 1 .. MaxId, with MaxId = 65535
    QueueLimit,  \* the capacity of the handler's incoming_sender
    MaxStreams,  \* max_concurrent_streams of the service's filter
    LinkRoom,    \* the cells on their way to each end at which no more is sent to it
    MaxBegins,   \* bound on the streams the client begins
    MaxData      \* bound on the DATA messages written to a stream at each end

ASSUME NumbersAssumption ==
    /\ MaxId \in Nat \ {0} /\ QueueLimit \in Nat \ {0} /\ MaxStreams \in Nat \ {0}
    /\ MaxBegins \in Nat /\ MaxData \in Nat

Ids == 1 .. MaxId
Ends == {"client", "service"}
ASSUME RoomAssumption == LinkRoom \in [Ends -> Nat \ {0}]

Peer(e) == IF e = "client" THEN "service" ELSE "client"
Cmds == {"BEGIN", "CONNECTED", "DATA", "END"}
Cell(c, id) == [cmd |-> c, id |-> id]

VARIABLES
    map,       \* the StreamMap of each end, and the error its reactor stopped with
    next_id,   \* next_stream_id of the client's map
    expired,   \* the half-streams whose expiry has passed
    msgs,      \* what the application has sent to an open stream's rx
    obj,       \* the streams for which the application holds a stream object
    incoming,  \* the requests queued for the service's application
    deciding,  \* the IncomingStreams that it has neither accepted nor rejected
    control,   \* the ClosePendingStream messages to the service's reactor
    link,      \* the relay cells on their way to each end
    begun, sent, got, \* streams begun; DATA written and delivered, per stream
    early      \* the ends that let a half-stream expire before it was settled

appVars == <<msgs, obj, incoming, deciding, control>>
vars == <<map, next_id, expired, appVars, link, begun, sent, got, early>>

Init ==
    /\ map = [e \in Ends |-> [open |-> <<>>, closed |-> [i \in Ids |-> "None"],
                              expecting |-> {}, err |-> "None"]]
    /\ next_id \in Ids
    /\ expired = [e \in Ends |-> {}]
    /\ msgs = [e \in Ends |-> [i \in Ids |-> <<>>]]
    /\ obj = [e \in Ends |-> {}]
    /\ incoming = <<>> /\ deciding = {} /\ control = <<>>
    /\ link = [e \in Ends |-> <<>>]
    /\ begun = 0
    /\ sent = [e \in Ends |-> [i \in Ids |-> 0]]
    /\ got = [e \in Ends |-> [i \in Ids |-> 0]]
    /\ early = {}

\* An error ends the reactor, and with it the circuit.
Running == \A e \in Ends : map[e].err = "None"

-----------------------------------------------------------------------------
(* StreamMap.  open_streams is kept in the order of its priorities.        *)

\* The streams without the one with this id
Without(open, id) ==
    LET at == {i \in DOMAIN open : open[i] = id}
    IN  IF at = {} THEN open
        ELSE [i \in 1 .. Len(open) - 1 |-> IF i < Min(at) THEN open[i] ELSE open[i + 1]]

IsOpen(m, id) == id \in Range(m.open)
Fail(m, error) == [m EXCEPT !.err = error]

wrapping_next_stream_id(id) == IF id = MaxId THEN 1 ELSE id + 1

\* The ids that add_ent tries, in this order.
Tried(k) == ((next_id + k - 1) % MaxId) + 1
Free == {k \in 0 .. MaxId - 1 : ~ IsOpen(map["client"], Tried(k))}

add_ent_with_id(m, id) == [m EXCEPT !.open = Append(@, id)]
add_ent(m, id) == [add_ent_with_id(m, id) EXCEPT !.expecting = @ \cup {id}]

ending_msg_received(m, id) ==
    CASE IsOpen(m, id) -> [m EXCEPT !.open = Without(@, id), !.closed[id] = "EndReceived"]
      [] ~ IsOpen(m, id) /\ m.closed[id] = "EndSent" -> [m EXCEPT !.closed[id] = "None"]
      [] OTHER -> Fail(m, "UnexpectedEnd")

\* What is left of the map when we end a stream.  The errors of terminate go to
\* whoever asked; an entry of closed_streams is removed even so.
terminate(m, id) ==
    [m EXCEPT !.open = Without(@, id),
              !.closed[id] = IF IsOpen(m, id) THEN "EndSent" ELSE "None"]

\* Mutant: the other end is not told of an end that it did not ask for.
NeverSendsEnd(m, id) == ~ IsOpen(m, id)

\* ShouldSendEnd
should_send_end(m, id) == IsOpen(m, id)

\* Mutant: the entry is inserted with its new priority and not removed first.
TakeKeepsEntry(m, sid) == [m EXCEPT !.open = Append(@, sid)]

take_ready_msg(m, sid) == [m EXCEPT !.open = Append(Without(@, sid), sid)]

remove_expired_halfstreams(m, late) ==
    [m EXCEPT !.closed = [i \in Ids |-> IF i \in late /\ @[i] = "EndSent" THEN "None" ELSE @[i]]]

-----------------------------------------------------------------------------
(* CmdChecker, on open streams and on half-streams.                        *)

\* StreamStatus, or an error
check_msg(e, m, cell) ==
    CASE cell.cmd = "END" -> "Closed"
      [] e = "client" /\ cell.cmd = "CONNECTED" /\ cell.id \in m.expecting -> "Open"
      [] e = "client" /\ cell.cmd = "DATA" /\ cell.id \notin m.expecting -> "Open"
      [] e = "service" /\ cell.cmd = "DATA" -> "Open"
      [] OTHER -> "Error"

\* The message is checked, and ends the stream if it is an END.
Checked(e, m, cell) ==
    LET status == check_msg(e, m, cell)
        seen == IF cell.cmd = "CONNECTED" THEN [m EXCEPT !.expecting = @ \ {cell.id}] ELSE m
    IN  CASE status = "Open" -> seen
          [] status = "Closed" -> ending_msg_received(m, cell.id)
          [] OTHER -> Fail(m, "StreamProto")

-----------------------------------------------------------------------------
(* What the reactor of an end does with a relay cell.                      *)

\* A BEGIN for which handle_msg returns the message to its caller.
IsRequest(e, m, cell) ==
    /\ cell.cmd = "BEGIN"
    /\ ~ IsOpen(m, cell.id)
    /\ m.closed[cell.id] = "None" \/ (m.closed[cell.id] = "EndSent" /\ cell.id \notin expired[e])

\* Mutant: what arrives on a half-stream is not expected any more.
HandleMsgForgetsHalf(e, m, cell) ==
    CASE IsOpen(m, cell.id) -> Checked(e, m, cell)
      [] IsRequest(e, m, cell) -> [m EXCEPT !.closed[cell.id] = "None"]
      [] OTHER -> Fail(m, "NoSuchStream")

handle_msg(e, m, cell) ==
    CASE IsOpen(m, cell.id) -> Checked(e, m, cell)
      [] IsRequest(e, m, cell) -> [m EXCEPT !.closed[cell.id] = "None"]
      [] /\ ~ IsOpen(m, cell.id) /\ ~ IsRequest(e, m, cell)
         /\ m.closed[cell.id] = "EndSent" /\ cell.id \notin expired[e] -> Checked(e, m, cell)
      [] OTHER -> Fail(m, "NoSuchStream")

\* Only the service has a handler for requests, and its filter closes the circuit
\* when there are too many streams.
handle_incoming_stream_request(e, m, id) ==
    CASE e = "client" -> Fail(m, "NoSuchStream")
      [] e = "service" /\ Len(m.open) >= MaxStreams -> Fail(m, "CleanShutdown")
      [] OTHER -> add_ent_with_id(m, id)

handle_cell(e, m, cell) ==
    IF IsRequest(e, m, cell)
    THEN handle_incoming_stream_request(e, handle_msg(e, m, cell), cell.id)
    ELSE handle_msg(e, m, cell)

\* The queue of requests is full: the service answers with an END, and the sender
\* of the new entry's messages is dropped.
Refused(e, m, cell) ==
    IsRequest(e, m, cell) /\ e = "service" /\ Len(incoming) >= QueueLimit

-----------------------------------------------------------------------------
(* One turn of a reactor.  It polls its channel and its streams together   *)
(* and then handles the cell before it runs the command.                   *)

\* Mutant: an empty queue is taken for one that nobody can send to any more.
ReadyWhenEmpty(e, id) == TRUE

\* A stream is ready when it has a message, or none and no sender any more.
IsReady(e, id) == msgs[e][id] # <<>> \/ id \notin obj[e]

\* The first ready stream, if any
poll_ready_streams_iter(e) ==
    LET ready == {i \in DOMAIN map[e].open : IsReady(e, map[e].open[i])}
    IN  {map[e].open[i] : i \in {j \in ready : \A k \in ready : j <= k}}

\* Mutant: the queue of a dropped stream is not flushed.
CircuitCmdUnflushed(e, id) == IF id \notin obj[e] THEN "CloseStream" ELSE Head(msgs[e][id])

\* CloseStream, or the message to be sent
CircuitCmd(e, id) == IF msgs[e][id] = <<>> THEN "CloseStream" ELSE Head(msgs[e][id])

\* The StreamMap and the cells sent after a command; only DATA counts towards the
\* windows, and so only DATA is refused by about_to_send.
RunCmd(m, id, cmd) ==
    CASE cmd = "CloseStream" -> terminate(m, id)
      [] cmd = "DATA" /\ ~ IsOpen(m, id) -> Fail(m, "SendOnClosed")
      [] OTHER -> m
CmdCells(m, id, cmd) ==
    CASE cmd = "CloseStream" -> IF should_send_end(m, id) THEN <<Cell("END", id)>> ELSE <<>>
      [] cmd = "DATA" /\ ~ IsOpen(m, id) -> <<>>
      [] OTHER -> <<Cell(cmd, id)>>

\* The reactor ends its turn with map m and these cells to send, and garbage-collects
\* half-streams before it waits again.  The rx of a stream goes with its entry.
EndTurn(e, m, queues, cells, rest) ==
    /\ map' = [map EXCEPT ![e] = remove_expired_halfstreams(m, expired[e])]
    /\ expired' = [expired EXCEPT ![e] = {}]
    /\ msgs' = [msgs EXCEPT ![e] = [i \in Ids |-> IF IsOpen(m, i) THEN queues[i] ELSE <<>>]]
    /\ link' = [link EXCEPT ![e] = rest, ![Peer(e)] = @ \o cells]
    /\ early' = early

\* What the application gets to see of the cell.
Deliver(e, m, cell) ==
    LET new == IsRequest(e, map[e], cell) /\ m.err = "None"
        queued == new /\ ~ Refused(e, map[e], cell)
        data == cell.cmd = "DATA" /\ IsOpen(map[e], cell.id) /\ cell.id \in obj[e]
    IN  /\ incoming' = IF queued THEN Append(incoming, cell.id) ELSE incoming
        /\ obj' = IF queued THEN [obj EXCEPT ![e] = @ \cup {cell.id}] ELSE obj
        /\ sent' = IF new THEN [sent EXCEPT ![e][cell.id] = 0] ELSE sent
        /\ got' = [got EXCEPT ![e][cell.id] = IF new THEN 0 ELSE IF data THEN @ + 1 ELSE @]

Replies(e, m, cell) ==
    IF Refused(e, map[e], cell) /\ m.err = "None" THEN <<Cell("END", cell.id)>> ELSE <<>>

\* Control messages come first.  Streams are polled once the channel takes a cell.
MayPoll(e) == Running /\ (e = "service" => control = <<>>)
CanSend(e) == Len(link[Peer(e)]) < LinkRoom[Peer(e)]

\* Only the channel has something, or nothing can be sent.
Listen(e) ==
    /\ MayPoll(e) /\ link[e] # <<>>
    /\ LET cell == Head(link[e])
           m == handle_cell(e, map[e], cell)
       IN  /\ EndTurn(e, m, msgs[e], Replies(e, m, cell), Tail(link[e]))
           /\ Deliver(e, m, cell)
    /\ UNCHANGED <<next_id, deciding, control, begun>>

\* The command that polling the streams yields, and what is left of their queues.
Polled(e, id) ==
    IF CircuitCmd(e, id) = "CloseStream" THEN map[e] ELSE take_ready_msg(map[e], id)
Queues(e, id) ==
    IF CircuitCmd(e, id) = "CloseStream" THEN msgs[e] ELSE [msgs[e] EXCEPT ![id] = Tail(@)]

\* Only a stream has something, or no cell has come out of the channel yet.
Talk(e) ==
    /\ MayPoll(e) /\ CanSend(e)
    /\ \E id \in poll_ready_streams_iter(e) :
          LET cmd == CircuitCmd(e, id)
              m == Polled(e, id)
          IN  EndTurn(e, RunCmd(m, id, cmd), Queues(e, id), CmdCells(m, id, cmd), link[e])
    /\ UNCHANGED <<next_id, obj, incoming, deciding, control, begun, sent, got>>

\* Both have.
ListenAndTalk(e) ==
    /\ MayPoll(e) /\ CanSend(e) /\ link[e] # <<>>
    /\ \E id \in poll_ready_streams_iter(e) :
          LET cell == Head(link[e])
              cmd == CircuitCmd(e, id)
              m == handle_cell(e, Polled(e, id), cell)
          IN  /\ IF m.err = "None"
                 THEN EndTurn(e, RunCmd(m, id, cmd), Queues(e, id),
                              Replies(e, m, cell) \o CmdCells(m, id, cmd), Tail(link[e]))
                 ELSE EndTurn(e, m, Queues(e, id), <<>>, Tail(link[e]))
              /\ Deliver(e, m, cell)
    /\ UNCHANGED <<next_id, deciding, control, begun>>

\* CtrlMsg::BeginStream.  When no id is left, the error also ends the reactor.
BeginStream ==
    /\ Running /\ begun < MaxBegins
    /\ begun' = begun + 1
    /\ IF Free = {}
       THEN /\ map' = [map EXCEPT !["client"] = Fail(@, "IdRangeFull")]
            /\ UNCHANGED <<next_id, expired, msgs, obj, link, sent, got>>
       ELSE LET id == Tried(Min(Free))
            IN  /\ map' = [map EXCEPT !["client"] =
                              remove_expired_halfstreams(add_ent(@, id), expired["client"])]
                /\ expired' = [expired EXCEPT !["client"] = {}]
                /\ next_id' = wrapping_next_stream_id(id)
                /\ msgs' = [msgs EXCEPT !["client"][id] = <<>>]
                /\ obj' = [obj EXCEPT !["client"] = @ \cup {id}]
                /\ link' = [link EXCEPT !["service"] = Append(@, Cell("BEGIN", id))]
                /\ sent' = [sent EXCEPT !["client"][id] = 0]
                /\ got' = [got EXCEPT !["client"][id] = 0]
    /\ UNCHANGED <<incoming, deciding, control, early>>

\* CtrlMsg::ClosePendingStream; the reactor answers, and the object is dropped.
ClosePendingStream ==
    /\ Running /\ control # <<>>
    /\ LET id == Head(control)
           m == map["service"]
           cells == IF should_send_end(m, id) THEN <<Cell("END", id)>> ELSE <<>>
       IN  /\ EndTurn("service", terminate(m, id), msgs["service"], cells, link["service"])
           /\ obj' = [obj EXCEPT !["service"] = @ \ {id}]
    /\ control' = Tail(control)
    /\ UNCHANGED <<next_id, incoming, deciding, begun, sent, got>>

-----------------------------------------------------------------------------
(* The applications.                                                       *)

\* Requests that are queued, taken or being rejected
Undecided == Range(incoming) \cup deciding \cup Range(control)

\* Data is written to a stream, by the client even before it is connected.
Write(e, id) ==
    /\ Running /\ id \in obj[e] /\ IsOpen(map[e], id)
    /\ e = "service" => id \notin Undecided
    /\ sent[e][id] < MaxData
    /\ sent' = [sent EXCEPT ![e][id] = @ + 1]
    /\ msgs' = [msgs EXCEPT ![e][id] = Append(@, "DATA")]
    /\ UNCHANGED <<map, next_id, expired, obj, incoming, deciding, control, link, begun, got, early>>

\* A stream object, or an IncomingStream, is dropped.
Drop(e, id) ==
    /\ Running /\ id \in obj[e]
    /\ e = "service" => id \notin Range(incoming) \cup Range(control)
    /\ obj' = [obj EXCEPT ![e] = @ \ {id}]
    /\ deciding' = IF e = "service" THEN deciding \ {id} ELSE deciding
    /\ UNCHANGED <<map, next_id, expired, msgs, incoming, control, link, begun, sent, got, early>>

\* The next IncomingStream is taken from the queue.
NextIncoming ==
    /\ Running /\ incoming # <<>>
    /\ deciding' = deciding \cup {Head(incoming)}
    /\ incoming' = Tail(incoming)
    /\ UNCHANGED <<map, next_id, expired, msgs, obj, control, link, begun, sent, got, early>>

\* IncomingStream::accept_data: sends a CONNECTED, or fails if the stream is gone.
accept_data(id) ==
    /\ Running /\ id \in deciding
    /\ deciding' = deciding \ {id}
    /\ \/ /\ IsOpen(map["service"], id)
          /\ msgs' = [msgs EXCEPT !["service"][id] = Append(@, "CONNECTED")]
          /\ obj' = obj
       \/ /\ ~ IsOpen(map["service"], id)
          /\ msgs' = msgs
          /\ obj' = [obj EXCEPT !["service"] = @ \ {id}]
    /\ UNCHANGED <<map, next_id, expired, incoming, control, link, begun, sent, got, early>>

\* IncomingStream::reject: asks the reactor, and waits for it.
reject(id) ==
    /\ Running /\ id \in deciding
    /\ deciding' = deciding \ {id}
    /\ control' = Append(control, id)
    /\ UNCHANGED <<map, next_id, expired, msgs, obj, incoming, link, begun, sent, got, early>>

\* The other end has heard of our END, and we have received what it had sent by then.
\* The expiry is chosen to be longer than that takes, from a timeout, not from this.
Settled(e, id) ==
    /\ ~ IsOpen(map[Peer(e)], id)
    /\ \A f \in Ends : \A i \in DOMAIN link[f] : link[f][i].id # id

\* The expiry of a half-stream passes, sooner or later than it takes to settle.
Expire(e, id) ==
    /\ Running /\ map[e].closed[id] = "EndSent" /\ id \notin expired[e]
    /\ expired' = [expired EXCEPT ![e] = @ \cup {id}]
    /\ early' = IF Settled(e, id) THEN early ELSE early \cup {e}
    /\ UNCHANGED <<map, next_id, appVars, link, begun, sent, got>>

-----------------------------------------------------------------------------

Turn(e) == Listen(e) \/ Talk(e) \/ ListenAndTalk(e)

Next ==
    \/ BeginStream \/ ClosePendingStream \/ NextIncoming
    \/ \E e \in Ends : Turn(e)
    \/ \E e \in Ends, id \in Ids : Write(e, id) \/ Drop(e, id) \/ Expire(e, id)
    \/ \E id \in Ids : accept_data(id) \/ reject(id)

Spec == Init /\ [][Next]_vars

-----------------------------------------------------------------------------
(* Properties.                                                             *)

Errors == {"None", "UnexpectedEnd", "StreamProto", "NoSuchStream", "SendOnClosed",
           "CleanShutdown", "IdRangeFull"}

TypeOK ==
    /\ \A e \in Ends :
          /\ map[e].open \in Seq(Ids) /\ IsInjective(map[e].open)
          /\ map[e].closed \in [Ids -> {"None", "EndReceived", "EndSent"}]
          /\ map[e].expecting \subseteq Ids /\ map[e].err \in Errors
          /\ msgs[e] \in [Ids -> Seq({"DATA", "CONNECTED"})]
          /\ link[e] \in Seq([cmd : Cmds, id : Ids])
    /\ next_id \in Ids
    /\ expired \in [Ends -> SUBSET Ids] /\ obj \in [Ends -> SUBSET Ids]
    /\ early \subseteq Ends
    /\ incoming \in Seq(Ids) /\ Len(incoming) <= QueueLimit
    /\ deciding \subseteq Ids /\ control \in Seq(Ids)
    /\ begun \in 0 .. MaxBegins
    /\ sent \in [Ends -> [Ids -> 0 .. MaxData]] /\ got \in [Ends -> [Ids -> 0 .. MaxData]]

\* Neither end finds fault with what the other sends, whoever closes a stream and
\* whatever is still on its way then.  The one exception is a matter of timing: an end
\* that lets a half-stream expire before it is settled may be sent a cell about a
\* stream that it no longer knows, which ends its circuit.
PeerIsUnderstood ==
    \A e \in Ends :
        /\ map[e].err \notin {"UnexpectedEnd", "StreamProto"}
        /\ map[e].err = "NoSuchStream" => e \in early

\* An end that learns that the other has closed a stream, and still wants its data,
\* has got all that was written to it.
EndMeansAll ==
    \A e \in Ends : \A id \in obj[e] :
        map[e].closed[id] = "EndReceived" /\ ~ IsOpen(map[e], id)
           => got[e][id] = sent[Peer(e)][id]

\* An operation fails with a protocol violation when "someone or something on the
\* Tor network violated the Tor protocols": not when both ends follow this code.
NoProtocolViolation == PeerIsUnderstood /\ \A e \in Ends : map[e].err # "SendOnClosed"

\* When nothing about a stream is on its way, both ends have it open or neither has:
\* whichever end closes a stream, drops or rejects it, the other does not keep it.
NoHalfOpenStream ==
    \A id \in Ids :
        Running /\ (\A e \in Ends : \A i \in DOMAIN link[e] : link[e][i].id # id)
           => (IsOpen(map["client"], id) <=> IsOpen(map["service"], id))

\* The streams that an application holds and has been told the end of.
Over == [e \in Ends |-> {id \in obj[e] : map[e].closed[id] = "EndReceived" /\ ~ IsOpen(map[e], id)}]

\* Whatever the two reactors do, in whatever order, the applications see a pair of
\* reliable streams: nothing is received that was not written, nor after an END, and
\* an END is received when the other end has dropped the stream and all is received.
Reliable == INSTANCE ReliableStreams WITH held <- obj, over <- Over
StreamsReliable == Reliable!Spec

=============================================================================
