# A verification of Arti's managers and reactors in TLA+

Arti is a Tor client in Rust. Its cryptography and parsers are pure code that tests
reach well. What tests hardly reach is the shared state in between: maps of pending and
open channels, lists of tunnels that requests wait for, restrict and steal from one
another, reactors that multiplex streams and circuits, and a memory tracker whose
background task tears down what others are using. This directory models six of those
parts, checks them on small instances with TLC and proves the main results for every
instance with TLAPS.

## The parts and how they interact

    request ── TunnelMgr ──── builds over ──── ChanMgr
                  │  expires                (one channel per relay)
              TunnelExpiry
                  │  a tunnel is one circuit, or several that are linked
               Conflux  ──── implements ── OrderedStream
                  │  carries the messages of
              CircStreams ── implements ── ReliableStreams
                  │  every queue in between is accounted for by
               MemQuota

A request for a stream asks the tunnel manager (`tor-circmgr`) for a tunnel. The manager
hands out an open one, waits for one that is being built, or builds one; a build needs a
channel to the first relay, which the channel manager (`tor-chanmgr`) hands out, waits
for or builds in the same manner. The reactor of a tunnel (`tor-proto`) runs its streams
and, when the tunnel has several circuits, orders what arrives over them. The queues
between all these tasks register with the memory quota tracker (`tor-memquota`).

| Module | Part | Source |
|---|---|---|
| `ChanMgr` | `AbstractChanMgr`, `MgrState` | `tor-chanmgr/src/mgr.rs`, `mgr/state.rs`, `mgr/select.rs`, `util/defer.rs` |
| `TunnelMgr` | `AbstractTunnelMgr`, `TunnelList` | `tor-circmgr/src/mgr.rs`, `usage.rs`, `isolation.rs`, `err.rs`, `impls.rs` |
| `TunnelExpiry` | expiration tasks and sweeps, `TunnelActivity` | `tor-circmgr/src/mgr.rs`, `tor-proto/src/util/tunnel_activity.rs` |
| `CircStreams` | `StreamMap`, half-streams, reactors of both ends | `tor-proto/src/streammap.rs`, `circuit/circhop.rs`, `client/reactor.rs`, `client/reactor/circuit.rs` |
| `ReliableStreams` | what the applications are promised of their streams | abstract |
| `Conflux` | `ConfluxSet`, the conflux message handlers | `tor-proto/src/client/reactor/conflux.rs`, `conflux/msghandler.rs`, `client/reactor.rs` |
| `OrderedStream` | what a tunnel promises its streams | abstract |
| `MemQuota` | `MemoryQuotaTracker`, `mq_queue`, the reclamation task | `tor-memquota/src/mtracker.rs`, `mtracker/reclaim.rs`, `mq_queue.rs` |

`ChanMgrProofs`, `TunnelMgrProofs`, `TunnelExpiryProofs`, `ConfluxProofs`,
`MemQuotaProofs` and `CircStreamsProofs` hold the theorems; those about streams rest on
`CircStreamsInv` (the invariant, and a turn of a reactor seen from one stream) and
`CircStreamsTurns` (every step of a reactor or an application). The modules named `MC...` and the `.cfg` files are the instances for TLC.
`PROJECT.json` maps every definition to the lines it models. A definition whose comment
begins with "Mutant" is a faulty variant of the one below it; replacing the one by the
other violates the property that `PROJECT.json` names with it.

## How the modules follow the code

A step is what no other task can interrupt: the code inside one acquisition of a lock, or
between two `.await`s of a task. Everything such a stretch of code changes is changed in
one action; everything the code reads before an `.await` and uses after it is kept in a
variable in between. Data is reduced to what decisions are made on.

**ChanMgr.** A target is a set of identities, a relay the set of all its identities, and
a channel is named by the task and the attempt that launched it. `building` and `open`
are the entries of the channel map. `choose_action` is the disjunction of `ReturnOpen`,
`WaitPending`, `FailConflict`, `Launch` and `GiveUpFinal`; the `Launch` arm goes through
`StartBuild`, `BuildOk`/`BuildErr`, `Upgrade`/`RemoveFailed` and `SendOk`/`SendErr`, or is
cut short by `Cancel`, after which its locals are dropped in the order in which Rust drops
them (`DropDefer`, then `DropSend`). `outcome` is what the shared oneshot yields to
waiters. `reconfigure_general`, `expire_channels`, channels closing and channels becoming
used or idle happen at any time. `Upgrade` lets telling a new channel its parameters fail
when the channel has closed; a channel that has not been used yet only notes them
(`reparameterize`), so here the model allows more than the code does.

**TunnelMgr.** An isolation is the set of stream groups that may share a tunnel:
compatibility is a common group and joining is intersection, which has the laws that
`isolation.rs` requires. `needs` stand for ports, stability and country. `prepare_action`
is `PrepareOpen`, `PrepareWait`, `PrepareBuild` and `PrepareError`; `take_action` is
`Register` and the steps `Left...` (the futures of this attempt, polled first) and
`Right...` (advice from other builds); `AfterError` is the retry logic of `get_or_launch`.
A build task goes through `Built`, `BuildFailed` or `BuildDropped`, `Send` and `Notify`.
`set_path_config` and `retire_all_tunnels` are the two halves of `reconfigure`. Tunnels
that are launched to learn timeouts (`Tests`) are planned before the list is locked, as
in `launch_by_usage`.

**TunnelExpiry.** Time is a counter. Each tunnel has the task of
`spawn_expiration_task`; each request first sweeps the list. Either may have to drop the
lock and ask the reactor of a long-lived tunnel since when it has no streams, so
`Consider`, `TaskAsk` and `TaskTell`, and `SweepCall`, `SweepList`, `SweepAsk` and
`SweepTell`, are separate steps. The random duration of `pick_use_duration` is a choice
from `UnusedAfter` at every check. Each hand-out decides anew whether the spec is
long-lived, as `restrict_mut` does after it has narrowed the spec, so a dirty tunnel may
become long-lived; `take_action` hands out a tunnel that has closed if it is still listed.

**CircStreams.** A client and an onion service, each with a reactor, a `StreamMap` and an
application, and one queue of cells in each direction. A turn of a reactor polls the
channel and the streams together and then handles the cell before the command of the
stream (`Listen`, `Talk`, `ListenAndTalk`), as `run_once` does. The applications begin,
write, drop, accept and reject at any time. Streams are polled only while the channel
takes another cell (`CanSend`), for which the cells on their way must be fewer than
`LinkRoom`.

The timer of a half-stream (`Expire`) runs out at any moment after the END was sent. The
code sets it to the larger of the longest round trip and twice the estimate of the time
to build the circuit (`client/reactor.rs:1022`), which is a guess: the other end may not
have heard of the END by then, or cells that it sent before may still be on their way.
`Settled` says that all of this is over. The history variable `early`, which no guard
reads, records the ends that let a half-stream expire before it was settled.

**Conflux.** The client links the legs (`handle_link_circuits`,
`handle_conflux_linked`, `RemoveLeg` with its three reasons) and sends over the leg that
it prefers; which leg has the lowest delay is a free choice, so is data in progress. The
join point counts, buffers and delivers (`action_for_msg`, `handle_conflux_switch`,
`try_dequeue_ooo_msgs`), handling the events of several legs in one turn as
`ConfluxSet::next_circ_event` yields them. Channels close at any time and lose what has
not arrived.

**MemQuota.** An account forest, participants with records and reference counts, two
`Participation`s per queue with caches, and the reclamation task. A claim that fits the
cache does not touch the tracker; one that does not fetches
`TARGET_CACHE_CLAIMING` more, and a release that overflows the cache returns all but
`TARGET_CACHE_RELEASING`. Registration is three steps, since `register_participant_with`
unlocks the tracker around the constructor. The task keeps the tracker's mutex while it
visits one participant after another, and releases it while it asks the victims to
reclaim.

## What the runs check

Passing runs also check for deadlock unless said otherwise.

| Run | Shows | Instance and why it is enough |
|---|---|---|
| `chanmgr` | One build per target; no pending entry outlives its launcher; waiters are woken after the entry is gone; what is returned matches what was asked for; a conflict is definite; a waiter fails only if the channel it waited for was lost; padding parameters are current; every request is answered. | Two requests, two relays, one of them with two identities, and three targets: subsets, equal sets, and an impossible mixture. Two reconfigurations, so that parameters can change back. |
| `chanmgr_kist` | *Violated:* channels learn the KIST parameters. | One reconfiguration, or parameters that differ from the default at the start. |
| `tunnel_isolation` | Only compatible requests share a tunnel; each gets what it asked for; those that wait for one tunnel can share it; a race is lost only to a winner. | Two requests that are isolated from one another or alike, with different needs, and a test tunnel that could serve either. Any violation takes two requests and one tunnel. |
| `tunnel_retire` | No tunnel that a request launched survives a reconfiguration; the launches of a request are bounded. | One request with two attempts of up to two parallel launches, one test tunnel, one reconfiguration. |
| `tunnel_live` | Every request ends. | Two requests that may wait for the same tunnel and every way to fail, without relying on `request_timeout`. |
| `expiry` | No tunnel expires early; a check that has asked a reactor never meets the internal error; with requests that keep coming, unused, dirty and disused tunnels all expire. | One tunnel, which any use may make long-lived, with its task, and two sweeps. Launches, uses and changes of streams happen at times 0 to 2, the task wakes first at 1 to 4, and a used tunnel is due 2 after: it is used before, at and after the moment its task wakes, between a question to its reactor and the answer being applied, and just before the instant that the task judges by. Tunnels do not affect one another. The model stops at `MaxTime`, so deadlock is not checked. |
| `expiry_dirty` | *Violated:* a dirty tunnel expires by its task alone. | One tunnel, used before its task wakes. |
| `stream_ends` | Neither end finds fault with the other, but for an unknown stream after a timer that ran out too early; an END is not received before all data; no stream stays open at one end only; the applications see `ReliableStreams`. | Two streams, a message each way, whichever end closes and whenever, and timers that run out at any moment. Up to two cells that the service's streams send are on their way at a time, such as the last data of a stream and its END or cells of both streams, and one the other way besides requests (`MCLinkRoom`). The first id is 1 (`SpecFromOne`): another one only renumbers the streams. Applications may fall silent, so deadlock is not checked. |
| `stream_race` | *Violated:* no circuit fails for a protocol violation when both ends follow the code. | One stream. |
| `conflux` | The ends count alike; the tunnel implements `OrderedStream`; no number is used twice; a buffered message finds its leg; the initiator is answered and can then use every leg that is left; what is sent arrives. | Two legs and three messages: the client can switch to the second leg and back. When the messages are spent nothing is left to do, so deadlock is not checked. |
| `memquota` | Records, caches, queues, counts and the total agree; the task does not sleep over its quota. | An account and its child, a queue in each, one whose items fit the cache and one whose items do not, and a quota that is lowered at any time below what the caches alone hold. When all is dropped nothing is left to do, so deadlock is not checked. |
| `memquota_locks` | *Violated:* `get_oldest` returns. | The same instance. |

The bounds `MaxReconf`, `MaxBegins`, `MaxData`, `LinkRoom`, `MaxMsgs`, `MaxTime`, `LastUse`,
`MaxHandles`, `MaxSending` and `MaxTries` are constants of the modules and appear in the
guards of the actions they bound. `MaxBegins` does not exceed `MaxId` or `QueueLimit` in
`stream_ends`: see the observations below on ids that come round and on full queues.
`CircStreamsProofs!EnoughRoom` proves that neither happens to such a client.

### Fairness

* `ChanMgr!FairSpec`, `TunnelMgr!FairSpec`: an executor polls a task that was woken, and a
  build ends. The latter is what the traits ask of implementors (`build_channel` "must
  take care of all timeouts"; `build_tunnel` "should implement some kind of a timeout").
  Nobody is obliged to cancel, reconfigure, expire or close anything, and
  `request_timeout` is not relied on.
* `TunnelExpiry!FairSpec`: time passes, tasks that are due run, sweeps that were begun
  end. `BusySpec` adds that requests keep arriving. `expiry` needs it for tunnels that
  are first used shortly before their task wakes, which the task does not expire:
  `expiry_dirty` is the same property of dirty tunnels without it.
* `Conflux!FairSpec`: reactors handle what has arrived, and the timer of the handshake
  fires. Closing channels and sending are not fair.

All are weak fairness of the steps of one task, which stay enabled until they are taken.

### Refinement

`Conflux` implements `OrderedStream` with the identity as refinement mapping on `sent` and
`delivered`: `InOrder` is `OrderedStream!Spec`. Everything that `Conflux` does with legs,
SWITCHes, sequence numbers and the buffer is a stutter; sending is `Send`, and the next
message, whether it arrives in order or leaves the buffer, is `Deliver`. TLC checks this
as a property of `conflux`, and `ConfluxProofs!Implementation` proves it.

`CircStreams` implements `ReliableStreams`: `StreamsReliable` is `ReliableStreams!Spec`
with the streams that are held mapped to `obj`, those that are over to `Over` (held, and
an END received), and the numbers of messages to themselves. A BEGIN that is handled or
sent is `Take`, DATA that is handed to an application is `Receive`, an END for a stream
that is held is `Finish`, and dropping or rejecting is `Release`; the maps, half-streams,
queues and links are hidden. `Finish` asks for more than `EndMeansAll`: the other
application must have let go of the stream, so that nothing can be written to it any more.
`CircStreamsProofs!StreamsRefine` proves it.

## What is proved

Every invariant, action property and refinement that a passing run checks is also proved,
for all constants that satisfy the named assumptions of the modules: any number of
requests, relays, legs, accounts, queues, streams and messages. `TargetsAssumption`
(nobody asks for no identity) and `RelaysAssumption` (no two relays share one) are
ChanMgr's; `UsagesAssumption` says which usages have isolations and needs;
`ConfluxAssumption` that a tunnel has finitely many legs; the other assumptions say that
numbers are numbers, and that `MAX_CACHE` is at least 4, low water at most the maximum,
and costs positive.

| Module | Theorems | Inductive invariant |
|---|---|---|
| `ChanMgrProofs` | `TypeCorrect`, `NoLeakedPending`, `WokenAfterRemoval`, `SharedBuilds`, `RightChannel`, `DefiniteConflict`, `PaddingUpToDate`, `CancelledWhenLost` | `IndInv`: first that handles are never used twice (`AttemptsBounded`, `ChannelOfLastLaunch`, `ChannelsExist`), then that a launch's future resolves only after its task gave up the sender (`ResolvedAfterLaunch`). Without the first, an entry could belong to an earlier attempt of the same task; without the second, `RemovedBeforeReady` says nothing of a sender that was dropped. `AwaitedSuccess` adds what a task that is on its final attempt waited for, and that it succeeded. |
| `TunnelMgrProofs` | `TypeCorrect`, `OnlyCompatibleShare`, `SuitableTunnels`, `WaitersCanShare`, `NoStaleRequestTunnels`, `RetriesEnd`, `LosersHaveWinners` | `IndInv`. A tunnel's isolation only narrows and is contained in that of everyone it was given to (`GivenIso`) and never empty (`IsoNonEmpty`), from which pairwise compatibility follows. A request waits only for tunnels that offer what it needs (`OffersSuit`), which is why `restrict_mut` need not look again. `UsableUnlessTaken` is what the action property `LostMeansTaken` needs. `WithinLimits` bounds the numbers of a request's launches, and so how many there are. |
| `TunnelExpiryProofs` | `Invariance`, `TypeCorrect`, `NeverEarly`, `NoInternalError` | `IndInv`: tasks sleep at least until the instant they judge by, and sweeps were called in the past (`Punctual`); tunnels that have expired are not listed, so nobody dates them again (`Listed`). |
| `ConfluxProofs` | `Invariance`, `TypeCorrect`, `CountAlike`, `NeverDisordered`, `SwitchesGoForward`, `UsableWhenTold`, `LegsOfBuffered`, `Implementation` | `IndInv`: the cells in transit on a leg form a chain from the receiver's counter to the sender's (`LinkInv`); the leg in use has counted all messages (`SendInv`); buffered messages are ahead of those delivered (`BufferInv`); and a number is in transit, or in the buffer, at most once (`FreshInv`), which is what makes the next number safe to deliver. `HandshakeInv` says that the results counted are those of the legs that are linked or gone, so that the last one leaves only linked legs. `OrphanInv`, for two legs, says that when the leg of a buffered message has gone, the number that is due has been passed by the other leg (`HoleAhead`), so that nothing is delivered any more; it needs that a message becomes due within a turn only when the other leg, which has just delivered, is behind (`DueAlone`). |
| `MemQuotaProofs` | `TypeCorrect`, `LedgerExact`, `RecordsCounted`, `TotalExact`, `NoLostWakeup` | `TrackerInv`. Its core is `LedgerInv`: with the two properties `UsedIsExact` and `HandlesCounted`, how far a queue's construction and destruction have come against the Participations it has (`Shape`), and that a record that is gone counts nothing (`GoneIsZero`). `Shape` is needed since a claim in progress, a receiver that waits for the lock and a queue that is being torn down must not be counted twice. `AccountInv`, `TaskInv` and `QueueInv` add the accounts, the task and the queues, and `TotalInv` the sum over the live records. |
| `CircStreamsProofs` | `Invariance`, `TypeCorrect`, `Understood`, `AllDelivered`, `NoHalfOpen`, `StreamsRefine`, `EnoughRoom`, `StreamsAgree` | `IndInv`: for each stream, that CONNECTED is heard once and before all DATA (`ConnInv`), that what an end knows of the stream fits what the other knows and what is on its way (`EndInv`: once an end has closed a stream, an END is on its way to the other or has arrived there, and only for a stream that its application does not hold; an end that has forgotten the stream has the other's END too, unless its timer ran out too early), and that DATA on its way and DATA received add up to DATA written while it is wanted (`DataInv`); for the queues, that a request is in one place and an END is the last cell of its stream (`QueueInv`). |

Each invariant is proved with one step per action, and its conjuncts with a lemma each.
What every stream satisfies is proved for one stream at a time: a turn of a reactor is
reduced to the cell that it handles and the command that it runs (`TurnOn`), and every
other stream is shown to keep what it has. The refinement uses the same facts: of all
streams at both ends, an application sees at most one change (`OneView`).

Nothing is assumed of the timers of half-streams. The cell at the head of a link is one
that the end expects, or a late one for a stream that it let expire too early
(`HeadExpected`); a late cell changes nothing but the error that the reactor stops with
(`LateHeard`), and the circuit ends there. So `EndMeansAll`, `NoHalfOpenStream` and the
refinement hold whatever the timers do, and `PeerIsUnderstood` names the one error that an
early timer can cause.

The theorems about streams assume `[]Room`: the ids have not come round, and no BEGIN
finds the queue of requests full. This is no convenience: the observations below say what
the code does otherwise. `Room` is a hypothesis on behaviours, and `EnoughRoom` derives it
from `Ample`, a condition on constants: a client that begins at most `MaxId` and at most
`QueueLimit` streams. `StreamsAgree` combines the two. In Arti ids are 16 bits wide and
the queue holds `INCOMING_BUFFER` requests, so `[]Room` covers more clients than `Ample`.

Two arguments would be inductions over data and are made without one. That a sum over a
finite set grows by what is added to the set is shown by a least counterexample among its
subsets (`LeastSubset`). How often an element occurs in a queue is the cardinality of
a set of positions, and what `Append` and `Tail` do to it (`CountLaws`) follows from the
theorems on finite sets; the other lemmas take `CountLaws` as a hypothesis, which
`Counting` discharges.

Leaves go to Zenon unless they name the SMT solver. Few need it, mostly for arithmetic.

### What is only model-checked

Liveness: `EveryRequestAnswered` of `chanmgr` and of `tunnel_live`, `ExpiresInTime`,
`LinkAnswered`, and `AllDelivered` of `conflux`. They hold under fairness, whose meaning
rests on `ENABLED`, which the prover does not handle.

## Findings

Four runs show that the code does otherwise than it says.

* **`chanmgr_kist`** (`tor-chanmgr/src/mgr/state.rs:518`). A new channel is told the
  padding parameters and not the KIST parameters, which are sent only when they change.
  `state.rs:66` says all existing channels use `channels_params`.
* **`expiry_dirty`** (`tor-circmgr/src/mgr.rs:1826`). The expiration task passes the
  instant it was spawned for as the current time, on every turn. A tunnel first used
  shortly before is never due at that instant; the task sleeps for zero and asks again
  until some request sweeps the list. `mgr.rs:366` says a dirty circuit is expired.
* **`stream_race`** (`tor-proto/src/circuit/circhop.rs:564`). A turn of the reactor that
  polls an END from the channel and a DATA message of the same stream handles the END
  first and then fails to send the message with a protocol error, which ends the circuit.
* **`memquota_locks`** (`tor-memquota/src/mtracker/reclaim.rs:67`). The reclamation task
  takes the tracker's mutex and then that of a queue; a receiver whose cache overflows
  holds that of the queue and takes the tracker's. `mtracker.rs:237` says that
  `get_oldest` runs with the global lock held and must be fast.

## Observations

Met while modelling, and in the models, but not stated as properties.

*Tunnel manager.*
* A tunnel that a request waited for may have left the list when the request looks. No
  error is recorded then (`mgr.rs:1307`), and `get_or_launch` does not retry an attempt
  without errors, although it has tries left (`mgr.rs:890` says a failure is retried).
* `take_action` wraps its errors in `RequestFailed`, which is never an internal reset, so
  every attempt counts as a failure and `MAX_RESETS` is not reached (`mgr.rs:1063`,
  against the comment at 978).
* A tunnel that is launched to learn timeouts is planned before the list is locked
  (`mgr.rs:1434`), so it can enter the list after a reconfiguration that it predates; the
  comment at 1628 promises new tunnels. `FreshRequestTunnels` is stated for the others.

*Tunnel expiry.*
* A long-lived tunnel that never had a stream answers `Ok(None)`, which counts as a use
  (`mgr.rs:770`), so it is never expired, against 299. `DisusedExpires` is stated for
  tunnels that had a stream.
* What a reactor answered is applied after the lock was dropped and taken again: a
  hand-out in between is overwritten by an older time (`mgr.rs:772`, 1730), and the tunnel
  can expire earlier than 368 says.

*Streams.*
* An entry `EndReceived` is not removed when the object of its stream is dropped
  afterwards: the entry is no longer among those that the reactor polls.
* `add_ent` looks for a free id in `open_streams` only (`streammap.rs:567`): when ids come
  round, an entry of `closed_streams` can get the same key. Running out of ids ends the
  reactor (`IdRangeFull`), not just the request.
* When the queue of incoming requests is full, an END is sent and the new entry stays
  open until its dropped sender is noticed, which sends a second END
  (`client/reactor/circuit.rs:971`).
* A cell that arrives for a half-stream after its timer ran out ends the whole circuit,
  with its other streams: `handle_msg` takes it for one of an unknown stream
  (`circuit/circhop.rs:794`). `PeerIsUnderstood` shows that nothing else has this effect,
  and `StreamsReliable` that no application is told anything wrong before.
* The lifetime of half-streams reads microseconds as milliseconds
  (`client/reactor.rs:1013`), which makes it longer, never shorter.

*Conflux.*
* With three legs or more, a buffered message can be due when its leg has been removed,
  which is an internal error ("the circuit leg we just had disappeared").
  `BufferedLegStays` shows that with two legs it cannot happen.
* One linked leg is not enough to send (`select_primary_leg_min_rtt` wants the RTT of
  every leg); the note at `client/reactor/circuit.rs:436` suggests it is.
  `ReadyMeansUsable` shows that no stream uses the tunnel so early.
* A LINK that cannot be sent leaves no handshake context, so that later results of the
  same handshake are internal errors.
* The check of a first SWITCH against the initial congestion window can refuse one that a
  correct client sends, since BEGIN and END count towards the number and not towards the
  window (`client/reactor/conflux/msghandler.rs:350`).
* When a leg is removed with messages undelivered while the tunnel goes on, the messages
  behind the hole are never delivered; `AllDelivered` is stated for tunnels that keep
  their legs.

*Memory quota.*
* The candidates for reclamation are collected once (`reclaim.rs:208`). Participants that
  get data later are not among them, and when the list is empty the task concludes that
  nobody has data; it may then end with an error and poison the tracker.
* A participant that registers with an account between the choice of victims and the
  handling of their responses loses its record without having been asked
  (`reclaim.rs:314`); `lib.rs:64` says every participant is asked.
* The children of a child account that is closed are skipped when victims are collected.
* The verdict that caches explain the excess is not revisited when caches are dropped.

## What is not modelled, and why

`PROJECT.json` lists every crate. In short:

* Cryptography, parsers, encoders, path selection, timeout statistics and configuration
  are functions of large inputs without shared state. The models take their results as
  free choices, so that what is shown holds whatever they return.
* Files, processes and sockets: persistent state, keys, pluggable transports, proxies and
  the runtimes. What can go wrong there is not defined by this source.
* Congestion and flow control: whether a window is open is a free choice in `CircStreams`
  and `Conflux`. That windows never block a circuit for ever is therefore not shown.
* The guard manager, the directory manager, the onion service client and service, the
  vanguard pools and the RPC server have state machines of the same kind as the ones here.
  They are not modelled yet; nothing above relies on them other than by the outcomes of
  builds.
* Of the parts that are modelled: incoming channels of a relay; RESOLVE streams and meta
  cells; `IncomingStream::discard`, which closes a stream without an END and which nothing
  calls; a second `LinkCircuits` for one tunnel (in this tree only tests send any); the age order of reclamation (any candidate may be the oldest), clones of a
  sender, panicking participants, tracker shutdown and collapse hooks; builds with debug
  assertions. That the quota is enforced in the end would need a mutex that starves
  nobody, which the code does not promise, so it is not stated.
* The managers are composed by their interfaces only: a build of `TunnelMgr` stands for
  the use of `ChanMgr`, and a tunnel that closes for whatever its reactor met. They share
  no lock, and each is modelled with every behaviour the other may show it.
