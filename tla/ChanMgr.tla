------------------------------ MODULE ChanMgr ------------------------------
(***************************************************************************)
(* The channel manager (crate tor-chanmgr): AbstractChanMgr and MgrState.  *)
(*                                                                         *)
(* Any number of tasks call get_or_launch for a target, a set of relay     *)
(* identities.  They share one locked map whose entries are channels being *)
(* built and open channels.  Every step below is either one acquisition of *)
(* the lock, or the code a task runs between two of its await points.      *)
(*                                                                         *)
(* An entry is named by the task and the attempt that launched it; that    *)
(* pair plays the role of UniqPendingChanId, and the channel the launch    *)
(* produces, if any, goes by the same name.                                *)
(***************************************************************************)
EXTENDS Naturals, FiniteSets

CONSTANTS
    Tasks,           \* the callers of get_or_launch
    Relays,          \* the peers, each the set of all its identities
    Targets,         \* the sets of identities a caller may ask for
    Paddings,        \* values of ChannelPaddingInstructions
    Kists,           \* values of KistParams
    DefaultPadding,  \* what a new channel's frontend starts with
    DefaultKist,     \* what a new channel's reactor starts with
    MaxReconf        \* bound on the number of reconfigurations

N_ATTEMPTS == 2

ASSUME TargetsAssumption == {} \notin Targets
ASSUME RelaysAssumption == \A r, s \in Relays : r # s => r \cap s = {}
ASSUME ParamsAssumption == DefaultPadding \in Paddings /\ DefaultKist \in Kists
ASSUME ReconfAssumption == MaxReconf \in Nat

Handles == Tasks \X (1 .. N_ATTEMPTS)
NoHandle == <<>>

VARIABLES
    building,  \* the Building entries of the map
    open,      \* the Open entries of the map
    peer,      \* the proven identities of each channel object, {} if there is none
    usable,    \* is_usable: its reactor has not exited
    idle,      \* duration_unused: "used", "idle", or "overdue" for expiry
    padding,   \* the padding parameters it has been told
    kist,      \* the KIST parameters it has been told
    outcome,   \* what each launch's oneshot future yields
    params,    \* Inner::channels_params
    reconfs,   \* reconfigurations so far
    pc,        \* where each task is
    target,    \* the identities each task asks for
    attempt,   \* attempts_so_far
    final,     \* final_attempt
    lastErr,   \* last_err, then the error the task returned
    waitOn,    \* the launch whose future the task awaits, or awaited last
    ret        \* the channel returned

mapVars == <<building, open>>
taskVars == <<pc, target, attempt, final, lastErr, waitOn, ret>>
chanVars == <<peer, usable, idle, padding, kist>>
vars == <<building, open, chanVars, outcome, params, reconfs, taskVars>>

Init ==
    /\ building = {} /\ open = {}
    /\ peer = [h \in Handles |-> {}]
    /\ usable = [h \in Handles |-> TRUE]
    /\ idle = [h \in Handles |-> "idle"]
    /\ padding = [h \in Handles |-> DefaultPadding]
    /\ kist = [h \in Handles |-> DefaultKist]
    /\ outcome = [h \in Handles |-> "pending"]
    /\ params \in [padding : Paddings, kist : Kists]
    /\ reconfs = 0
    /\ pc = [t \in Tasks |-> "choose"]
    /\ target \in [Tasks -> Targets]
    /\ attempt = [t \in Tasks |-> 0]
    /\ final = [t \in Tasks |-> FALSE]
    /\ lastErr = [t \in Tasks |-> "none"]
    /\ waitOn = [t \in Tasks |-> NoHandle]
    /\ ret = [t \in Tasks |-> NoHandle]

-----------------------------------------------------------------------------
(* Looking a target up in the map                                          *)

\* The identities of a Building entry are the ones its launcher asked for.
PendingIds(h) == target[h[1]]

\* Mutant: one common identity is enough.
AllowAnyOverlap(h, ids) == usable[h] /\ ids \cap peer[h] # {}
\* Mutant: the channel must have no identity beyond the target's.
AllowExactOnly(h, ids) == usable[h] /\ ids = peer[h]

open_channel_is_allowed(h, ids) == usable[h] /\ ids \subseteq peer[h]

\* Mutant: only pending channels with fewer identities are shared.
MaybeAllowProperSubset(h, ids) == PendingIds(h) \subseteq ids /\ PendingIds(h) # ids

pending_channel_maybe_allowed(h, ids) == PendingIds(h) \subseteq ids

OpenFor(ids) == {h \in open : open_channel_is_allowed(h, ids)}
PendingFor(ids) == {h \in building : pending_channel_maybe_allowed(h, ids)}

\* choose_best_channel, on candidates that are all usable if open: an open
\* channel wins over a pending one, and nothing else is ranked.
Best(ids) == IF OpenFor(ids) # {} THEN OpenFor(ids) ELSE PendingFor(ids)

\* A usable open channel has some of the target's identities but not all.
IdentityConflict(ids) ==
    \E h \in open : /\ usable[h]
                    /\ peer[h] \cap ids # {}
                    /\ ~ (ids \subseteq peer[h])

Handle(t) == <<t, attempt[t]>>

-----------------------------------------------------------------------------
(* get_or_launch_internal, one attempt: choose_action                      *)

\* Mutant: the number of attempts is not limited.
TryForever(t) == pc[t] = "choose"

MayTry(t) == pc[t] = "choose" /\ (attempt[t] < N_ATTEMPTS \/ final[t])
Count(t) == attempt' = [attempt EXCEPT ![t] = @ + 1]
GoTo(t, label) == pc' = [pc EXCEPT ![t] = label]

\* Action::Return(Ok(channel))
ReturnOpen(t) ==
    /\ MayTry(t) /\ Count(t)
    /\ \E h \in Best(target[t]) \cap open : ret' = [ret EXCEPT ![t] = h]
    /\ GoTo(t, "returned")
    /\ UNCHANGED <<mapVars, chanVars, outcome, params, reconfs, target, final, lastErr,
                   waitOn>>

\* Action::Wait(pending)
WaitPending(t) ==
    /\ MayTry(t) /\ Count(t) /\ ~ final[t]
    /\ \E h \in Best(target[t]) \cap building : waitOn' = [waitOn EXCEPT ![t] = h]
    /\ GoTo(t, "wait")
    /\ UNCHANGED <<mapVars, chanVars, outcome, params, reconfs, target, final, lastErr, ret>>

\* Action::Return(Err(IdentityConflict))
FailConflict(t) ==
    /\ MayTry(t) /\ Count(t)
    /\ Best(target[t]) = {} /\ IdentityConflict(target[t])
    /\ lastErr' = [lastErr EXCEPT ![t] = "IdentityConflict"]
    /\ GoTo(t, "failed")
    /\ UNCHANGED <<mapVars, chanVars, outcome, params, reconfs, target, final, waitOn, ret>>

\* Action::Launch: add a Building entry for the target's identities.
Launch(t) ==
    /\ MayTry(t) /\ Count(t) /\ ~ final[t]
    /\ Best(target[t]) = {} /\ ~ IdentityConflict(target[t])
    /\ building' = building \cup {Handle(t)'}
    /\ GoTo(t, "launched")
    /\ UNCHANGED <<open, chanVars, outcome, params, reconfs, target, final, lastErr,
                   waitOn, ret>>

\* choose_action gives None on the final attempt: leave the loop with last_err.
GiveUpFinal(t) ==
    /\ MayTry(t) /\ Count(t) /\ final[t]
    /\ Best(target[t]) \cap open = {}
    /\ Best(target[t]) # {} \/ ~ IdentityConflict(target[t])
    /\ GoTo(t, "failed")
    /\ UNCHANGED <<mapVars, chanVars, outcome, params, reconfs, target, final, lastErr,
                   waitOn, ret>>

\* The loop condition is false: return last_err.
Exhausted(t) ==
    /\ pc[t] = "choose" /\ ~ MayTry(t)
    /\ GoTo(t, "failed")
    /\ UNCHANGED <<mapVars, chanVars, outcome, params, reconfs, target, attempt, final,
                   lastErr,
                   waitOn, ret>>

-----------------------------------------------------------------------------
(* get_or_launch_internal, waiting for somebody else's launch              *)

WaitDone(t) ==
    /\ pc[t] = "wait" /\ outcome[waitOn[t]] # "pending"
    /\ LET result == outcome[waitOn[t]] IN
       /\ final' = [final EXCEPT ![t] = @ \/ result = "ok"]
       /\ lastErr' = [lastErr EXCEPT ![t] =
                        CASE result = "ok"  -> IF @ = "none" THEN "RequestCancelled" ELSE @
                          [] result = "err" -> "BuildFailed"
                          [] OTHER          -> "TaskDisappeared"]
    /\ GoTo(t, "choose")
    /\ UNCHANGED <<mapVars, chanVars, outcome, params, reconfs, target, attempt, waitOn, ret>>

-----------------------------------------------------------------------------
(* get_or_launch_internal, our own launch                                  *)

\* ChannelAccount::new succeeds and build_channel starts, or it fails and the
\* `?` unwinds the launch.
StartBuild(t) ==
    /\ pc[t] = "launched"
    /\ \/ GoTo(t, "building") /\ UNCHANGED lastErr
       \/ GoTo(t, "unwind") /\ lastErr' = [lastErr EXCEPT ![t] = "AccountClosed"]
    /\ UNCHANGED <<mapVars, chanVars, outcome, params, reconfs, target, attempt, final,
                   waitOn, ret>>

\* Mutant: the channel is listed under the identities asked for, not the proven ones.
BuildOkAsAsked(t) ==
    /\ pc[t] = "building"
    /\ \E r \in Relays :
          /\ target[t] \subseteq r
          /\ peer' = [peer EXCEPT ![Handle(t)] = target[t]]
    /\ GoTo(t, "built")
    /\ UNCHANGED <<mapVars, usable, idle, padding, kist, outcome, params, reconfs, target,
                   attempt, final, lastErr, waitOn, ret>>

\* build_channel succeeds only with a peer that proved all the identities we
\* require; the channel carries every identity the peer proved.
BuildOk(t) ==
    /\ pc[t] = "building"
    /\ \E r \in Relays :
          /\ target[t] \subseteq r
          /\ peer' = [peer EXCEPT ![Handle(t)] = r]
    /\ GoTo(t, "built")
    /\ UNCHANGED <<mapVars, usable, idle, padding, kist, outcome, params, reconfs, target,
                   attempt, final, lastErr, waitOn, ret>>

BuildErr(t) ==
    /\ pc[t] = "building"
    /\ GoTo(t, "buildFailed")
    /\ UNCHANGED <<mapVars, chanVars, outcome, params, reconfs, target, attempt, final,
                   lastErr,
                   waitOn, ret>>

remove_pending(h) == building' = building \ {h}

\* Mutant: the new channel is inserted without being told the parameters.
UpgradeUntold(t) ==
    /\ pc[t] = "built"
    /\ remove_pending(Handle(t))
    /\ open' = open \cup {Handle(t)}
    /\ GoTo(t, "sendOk")
    /\ UNCHANGED <<chanVars, lastErr, outcome, params, reconfs, target, attempt, final,
                   waitOn, ret>>

\* upgrade_pending_channel_to_open, one lock acquisition.  Telling the channel
\* its padding parameters fails if the channel has already closed; then it is
\* not inserted, and the `?` drops the sender unused.
Upgrade(t) ==
    /\ pc[t] = "built"
    /\ remove_pending(Handle(t))
    /\ \/ /\ params.padding # DefaultPadding /\ ~ usable[Handle(t)]
          /\ lastErr' = [lastErr EXCEPT ![t] = "NewChannelFailed"]
          /\ GoTo(t, "dropSend")
          /\ UNCHANGED <<open, padding>>
       \/ /\ params.padding = DefaultPadding \/ usable[Handle(t)]
          /\ open' = open \cup {Handle(t)}
          /\ padding' = [padding EXCEPT ![Handle(t)] = params.padding]
          /\ GoTo(t, "sendOk")
          /\ UNCHANGED lastErr
    /\ UNCHANGED <<peer, usable, idle, kist, outcome, params, reconfs, target, attempt, final,
                   waitOn, ret>>

\* drop(defer_remove_pending) after a failed build.
RemoveFailed(t) ==
    /\ pc[t] = "buildFailed"
    /\ remove_pending(Handle(t))
    /\ GoTo(t, "sendErr")
    /\ UNCHANGED <<open, chanVars, outcome, params, reconfs, target, attempt, final,
                   lastErr, waitOn, ret>>

\* send.send(outcome), then return the channel or go round the loop again.
SendOk(t) ==
    /\ pc[t] = "sendOk"
    /\ outcome' = [outcome EXCEPT ![Handle(t)] = "ok"]
    /\ ret' = [ret EXCEPT ![t] = Handle(t)]
    /\ GoTo(t, "returned")
    /\ UNCHANGED <<mapVars, chanVars, params, reconfs, target, attempt, final, lastErr,
                   waitOn>>

SendErr(t) ==
    /\ pc[t] = "sendErr"
    /\ outcome' = [outcome EXCEPT ![Handle(t)] = "err"]
    /\ lastErr' = [lastErr EXCEPT ![t] = "BuildFailed"]
    /\ GoTo(t, "choose")
    /\ UNCHANGED <<mapVars, chanVars, params, reconfs, target, attempt, final, waitOn, ret>>

\* The caller drops the get_or_launch future at one of its two await points.
Cancel(t) ==
    /\ pc[t] \in {"wait", "building"}
    /\ lastErr' = [lastErr EXCEPT ![t] = "CallerCancelled"]
    /\ GoTo(t, IF pc[t] = "wait" THEN "failed" ELSE "unwind")
    /\ UNCHANGED <<mapVars, chanVars, outcome, params, reconfs, target, attempt, final,
                   waitOn, ret>>

\* Mutant: the sender is dropped before the pending entry is removed.
DropSendFirst(t) ==
    /\ pc[t] = "unwind"
    /\ outcome[Handle(t)] = "dropped" => remove_pending(Handle(t)) /\ GoTo(t, "failed")
    /\ outcome[Handle(t)] # "dropped" => UNCHANGED <<building, pc>>
    /\ outcome' = [outcome EXCEPT ![Handle(t)] = "dropped"]
    /\ UNCHANGED <<open, chanVars, params, reconfs, target, attempt, final, lastErr,
                   waitOn, ret>>

\* Mutant: without the Defer, cancelling leaves the entry behind.
DropNoDefer(t) ==
    /\ pc[t] = "unwind"
    /\ GoTo(t, "dropSend")
    /\ UNCHANGED <<mapVars, chanVars, outcome, params, reconfs, target, attempt, final,
                   lastErr, waitOn, ret>>

\* Leaving the Launch arm early drops its locals in reverse order: first the
\* Defer, which removes the pending entry, then the oneshot sender.
DropDefer(t) ==
    /\ pc[t] = "unwind"
    /\ remove_pending(Handle(t))
    /\ GoTo(t, "dropSend")
    /\ UNCHANGED <<open, chanVars, outcome, params, reconfs, target, attempt, final,
                   lastErr, waitOn, ret>>

\* Mutant: the sender outlives the cancelled launch.
DropSendKept(t) ==
    /\ pc[t] = "dropSend"
    /\ GoTo(t, "failed")
    /\ UNCHANGED <<mapVars, chanVars, outcome, params, reconfs, target, attempt, final,
                   lastErr, waitOn, ret>>

DropSend(t) ==
    /\ pc[t] = "dropSend"
    /\ outcome' = [outcome EXCEPT ![Handle(t)] = "dropped"]
    /\ GoTo(t, "failed")
    /\ UNCHANGED <<mapVars, chanVars, params, reconfs, target, attempt, final, lastErr,
                   waitOn, ret>>

-----------------------------------------------------------------------------
(* The other operations on the map, and the channels themselves            *)

\* reconfigure_general, reached from update_netparams, set_dormancy and
\* reconfigure: store the new parameters and tell every open channel what
\* changed.  A closed channel does not take the update; the error is ignored.
reconfigure_general(new) ==
    /\ new # params
    /\ reconfs < MaxReconf
    /\ reconfs' = reconfs + 1
    /\ params' = new
    /\ padding' = [h \in Handles |->
                     IF h \in open /\ usable[h] /\ new.padding # params.padding
                     THEN new.padding ELSE padding[h]]
    /\ kist' = [h \in Handles |->
                  IF h \in open /\ usable[h] /\ new.kist # params.kist
                  THEN new.kist ELSE kist[h]]
    /\ UNCHANGED <<mapVars, peer, usable, idle, outcome, taskVars>>

\* expire_channels: drop every open entry unused for its maximum duration.
ready_to_expire(h) == idle[h] = "overdue"

expire_channels ==
    /\ \E h \in open : ready_to_expire(h)
    /\ open' = {h \in open : ~ ready_to_expire(h)}
    /\ UNCHANGED <<building, chanVars, outcome, params, reconfs, taskVars>>

\* The reactor of a channel exits, for whatever reason.
ChannelCloses(h) ==
    /\ peer[h] # {} /\ usable[h]
    /\ usable' = [usable EXCEPT ![h] = FALSE]
    /\ UNCHANGED <<mapVars, peer, idle, padding, kist, outcome, params, reconfs, taskVars>>

\* duration_unused changes: a holder opens the first circuit on a channel, the
\* last circuit goes away, or max_unused_duration passes.
ChannelUse(h) ==
    /\ peer[h] # {}
    /\ \/ /\ idle[h] # "used" /\ \E t \in Tasks : pc[t] = "returned" /\ ret[t] = h
          /\ idle' = [idle EXCEPT ![h] = "used"]
       \/ idle[h] = "used" /\ idle' = [idle EXCEPT ![h] = "idle"]
       \/ idle[h] = "idle" /\ idle' = [idle EXCEPT ![h] = "overdue"]
    /\ UNCHANGED <<mapVars, peer, usable, padding, kist, outcome, params, reconfs, taskVars>>

-----------------------------------------------------------------------------
Done == \A t \in Tasks : pc[t] \in {"returned", "failed"}

\* The tasks are all answered and nothing else happens to the channels.
Finished == Done /\ UNCHANGED vars

TaskStep(t) ==
    \/ ReturnOpen(t) \/ WaitPending(t) \/ FailConflict(t) \/ Launch(t)
    \/ GiveUpFinal(t) \/ Exhausted(t) \/ WaitDone(t)
    \/ StartBuild(t) \/ BuildOk(t) \/ BuildErr(t) \/ Upgrade(t) \/ RemoveFailed(t)
    \/ SendOk(t) \/ SendErr(t) \/ DropDefer(t) \/ DropSend(t)

Next ==
    \/ \E t \in Tasks : TaskStep(t) \/ Cancel(t)
    \/ \E new \in [padding : Paddings, kist : Kists] : reconfigure_general(new)
    \/ expire_channels
    \/ \E h \in Handles : ChannelCloses(h) \/ ChannelUse(h)
    \/ Finished

Spec == Init /\ [][Next]_vars

\* Tasks are polled when they can proceed, and build_channel ends: it "must
\* take care of all timeouts".  Nobody has to cancel, reconfigure or expire.
FairSpec == Spec /\ \A t \in Tasks : WF_vars(TaskStep(t))

-----------------------------------------------------------------------------
(* Properties                                                              *)

TypeOK ==
    /\ building \subseteq Handles /\ open \subseteq Handles
    /\ peer \in [Handles -> Relays \cup {{}}]
    /\ usable \in [Handles -> BOOLEAN]
    /\ idle \in [Handles -> {"used", "idle", "overdue"}]
    /\ padding \in [Handles -> Paddings]
    /\ kist \in [Handles -> Kists]
    /\ outcome \in [Handles -> {"pending", "ok", "err", "dropped"}]
    /\ params \in [padding : Paddings, kist : Kists]
    /\ reconfs \in 0 .. MaxReconf
    /\ pc \in [Tasks -> {"choose", "wait", "launched", "building", "built", "buildFailed",
                         "sendOk", "sendErr", "unwind", "dropSend", "returned", "failed"}]
    /\ target \in [Tasks -> Targets]
    /\ attempt \in [Tasks -> 0 .. N_ATTEMPTS + 1]
    /\ final \in [Tasks -> BOOLEAN]
    /\ lastErr \in [Tasks -> {"none", "RequestCancelled", "BuildFailed", "TaskDisappeared",
                              "IdentityConflict", "AccountClosed", "NewChannelFailed",
                              "CallerCancelled"}]
    /\ waitOn \in [Tasks -> Handles \cup {NoHandle}]
    /\ ret \in [Tasks -> Handles \cup {NoHandle}]

Launching == {"launched", "building", "built", "buildFailed", "unwind"}

\* The Building entries are exactly those of the tasks inside their Launch arm:
\* no early return or cancellation leaves an entry "in the channel map forever"
\* (PendingChannelHandle), and remove_pending always finds exactly one.
PendingOwned == building = {Handle(t) : t \in {u \in Tasks : pc[u] \in Launching}}

\* A pending entry is "removed from the map _before_ this future becomes ready"
\* (PendingEntry::pending), whether the sender sends or is dropped.
RemovedBeforeReady == \A h \in building : outcome[h] = "pending"

\* Concurrent requests for the same identities share one build.
OneBuildPerTarget ==
    \A g, h \in building : g # h => PendingIds(g) # PendingIds(h)

\* get_or_launch only returns a channel whose peer proved every identity of the
\* target, whether it was found open, waited for, or built.
ReturnedMatches ==
    \A t \in Tasks : pc[t] = "returned" => target[t] \subseteq peer[ret[t]]

\* "Because this channel exists, we know that our target cannot succeed": a
\* request refused with IdentityConflict asks for a relay that does not exist.
ConflictIsDefinite ==
    \A t \in Tasks : lastErr[t] = "IdentityConflict" => \A r \in Relays : ~ (target[t] \subseteq r)

\* A request that waited for a successful build fails with RequestCancelled only
\* if that channel has closed, has left the map, or is not the right relay.
CancelledOnlyIfLost ==
    \A t \in Tasks : pc[t] = "failed" /\ lastErr[t] = "RequestCancelled" =>
        LET h == waitOn[t] IN
        /\ h \in Handles /\ outcome[h] = "ok"
        /\ h \in open => ~ usable[h] \/ ~ (target[t] \subseteq peer[h])

\* Every usable channel in the map has been told the current padding parameters:
\* none is "created using being-replaced parameters" without "an update".
PaddingCurrent == \A h \in open : usable[h] => padding[h] = params.padding

\* The same for the KIST parameters, which channels_params claims "all existing
\* channels are using".
KistCurrent == \A h \in open : usable[h] => kist[h] = params.kist

\* Every request is answered: no waiter is left on a future that never resolves.
EveryRequestAnswered == \A t \in Tasks : <>(pc[t] \in {"returned", "failed"})

=============================================================================
