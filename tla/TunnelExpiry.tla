---------------------------- MODULE TunnelExpiry ----------------------------
(***************************************************************************)
(* How the tunnel manager (crate tor-circmgr) expires its open tunnels.    *)
(*                                                                         *)
(* Every tunnel has an expiration task of its own, and every request first *)
(* sweeps the whole list.  Both decide under the lock on the list, except  *)
(* for a long-lived tunnel that may be due: they drop the lock, ask the    *)
(* tunnel's reactor since when it has no streams, and take the lock again. *)
(*                                                                         *)
(* Time is a bounded counter.  The duration for which an unused tunnel is  *)
(* kept is picked at random on every check.                                *)
(***************************************************************************)
EXTENDS Integers

CONSTANTS
    Tunnels,
    LongLivedSpecs,  \* the tunnels whose spec a restriction may make long-lived
    UnusedAfter,     \* what pick_use_duration may return
    DirtyAfter,      \* max_dirtiness
    DisusedAfter,    \* disused_circuit_timeout
    Sweeps,          \* the calls of expire_tunnels that may be active at a time
    MaxStreams,      \* bound on the streams of a tunnel
    LastUse,         \* bound on the time of launches, hand-outs and changes of streams
    MaxTime          \* bound on the time

ASSUME TimesAssumption ==
    /\ UnusedAfter \subseteq Nat /\ DirtyAfter \in Nat /\ DisusedAfter \in Nat
    /\ MaxStreams \in Nat /\ LastUse \in Nat /\ MaxTime \in Nat
ASSUME UnusedAssumption == UnusedAfter # {}
ASSUME SpecsAssumption == LongLivedSpecs \subseteq Tunnels

Time == 0 .. MaxTime

\* What last_known_to_be_used_at may answer besides a time: the tunnel has
\* streams or never had one (Ok(None)), or its reactor is gone (Err).
NoTime == -1
Failed == -2

VARIABLES
    now,         \* the runtime's clock
    open,        \* open_tunnels
    expired,     \* tunnels that a check has removed because they were due
    expiration,  \* the ExpirationInfo of a tunnel's entry ...
    stamp,       \* ... and the Instant in it
    closed,      \* tunnels whose reactor has shut down
    streams,     \* n_open_streams
    disused,     \* disused_since
    task,        \* where a tunnel's expiration task is
    exp_inst,    \* the instant that the task was spawned for
    wake,        \* when its sleep ends
    learned,     \* what it learned from the reactor
    sweep,       \* where a call of expire_tunnels is
    sweep_now,   \* the time it was called with
    need_check,  \* the tunnels it has yet to ask
    usage        \* its last_known_usage: what it learned, or Unasked

Unasked == -3

list == <<open, expired, expiration, stamp>>
activity == <<closed, streams, disused>>
tasks == <<task, exp_inst, wake, learned>>
sweeping == <<sweep, sweep_now, need_check, usage>>
vars == <<now, list, activity, tasks, sweeping>>

TypeOK ==
    /\ now \in Time
    /\ open \subseteq Tunnels /\ expired \subseteq Tunnels /\ closed \subseteq Tunnels
    /\ expiration \in [Tunnels -> {"None", "Unused", "Dirty", "LongLived"}]
    /\ stamp \in [Tunnels -> Time]
    /\ streams \in [Tunnels -> 0 .. MaxStreams]
    /\ disused \in [Tunnels -> Time \cup {NoTime}]
    /\ task \in [Tunnels -> {"None", "Asleep", "Asking", "Telling", "Done"}]
    /\ exp_inst \in [Tunnels -> Nat] /\ wake \in [Tunnels -> Nat]
    /\ learned \in [Tunnels -> Time \cup {NoTime, Failed}]
    /\ sweep \in [Sweeps -> {"Idle", "Called", "Asking"}]
    /\ sweep_now \in [Sweeps -> Time]
    /\ need_check \in [Sweeps -> SUBSET Tunnels]
    /\ usage \in [Sweeps -> [Tunnels -> Time \cup {NoTime, Failed, Unasked}]]

Init ==
    /\ now = 0
    /\ open = {} /\ expired = {} /\ closed = {}
    /\ expiration = [t \in Tunnels |-> "None"]
    /\ stamp = [t \in Tunnels |-> 0]
    /\ streams = [t \in Tunnels |-> 0]
    /\ disused = [t \in Tunnels |-> NoTime]
    /\ task = [t \in Tunnels |-> "None"]
    /\ exp_inst = [t \in Tunnels |-> 0]
    /\ wake = [t \in Tunnels |-> 0]
    /\ learned = [t \in Tunnels |-> NoTime]
    /\ sweep = [s \in Sweeps |-> "Idle"]
    /\ sweep_now = [s \in Sweeps |-> 0]
    /\ need_check = [s \in Sweeps |-> {}]
    /\ usage = [s \in Sweeps |-> [t \in Tunnels |-> Unasked]]

-----------------------------------------------------------------------------
(* The entry of a tunnel.                                                  *)

\* Mutant: each use decides anew which kind of tunnel it is.
MarkUsedAnew(t, at, long_lived) ==
    /\ expiration' = [expiration EXCEPT ![t] = IF long_lived THEN "LongLived" ELSE "Dirty"]
    /\ stamp' = [stamp EXCEPT ![t] = at]

\* mark_used: a long-lived tunnel remembers its last use, another one its first.  Whether
\* the spec is long-lived is computed anew from what the tunnel has been restricted to.
MarkUsed(t, at, long_lived) ==
    IF long_lived
    THEN /\ expiration' = [expiration EXCEPT ![t] = "LongLived"]
         /\ stamp' = [stamp EXCEPT ![t] = at]
    ELSE /\ expiration' = [expiration EXCEPT ![t] = IF @ = "Unused" THEN "Dirty" ELSE @]
         /\ stamp' = [stamp EXCEPT ![t] = IF expiration[t] = "Unused" THEN at ELSE @]

\* The time at which should_expire says that a tunnel is, or may be, due.
Expiration(t, unusedAfter) ==
    stamp[t] + CASE expiration[t] = "Unused"    -> unusedAfter
                 [] expiration[t] = "Dirty"     -> DirtyAfter
                 [] expiration[t] = "LongLived" -> DisusedAfter
                 [] OTHER                       -> 0

\* ShouldExpire::Now or PossiblyNow, rather than NotBefore(Expiration)
Due(t, at, unusedAfter) == at >= Expiration(t, unusedAfter)

\* ShouldExpire::PossiblyNow, rather than Now
Uncertain(t) == expiration[t] = "LongLived"

-----------------------------------------------------------------------------
(* Tunnels and their streams.                                              *)

\* Mutant: the task does not sleep before it considers the tunnel.
SpawnAwake(t, d) ==
    /\ task' = [task EXCEPT ![t] = "Asleep"]
    /\ exp_inst' = [exp_inst EXCEPT ![t] = now + d]
    /\ wake' = [wake EXCEPT ![t] = now]

\* spawn_expiration_task
SpawnExpirationTask(t, d) ==
    /\ task' = [task EXCEPT ![t] = "Asleep"]
    /\ exp_inst' = [exp_inst EXCEPT ![t] = now + d]
    /\ wake' = [wake EXCEPT ![t] = now + d]

\* do_launch: the new entry and the task that is to expire it.
Launch(t) ==
    /\ expiration[t] = "None"
    /\ now <= LastUse
    /\ open' = open \cup {t}
    /\ expiration' = [expiration EXCEPT ![t] = "Unused"]
    /\ stamp' = [stamp EXCEPT ![t] = now]
    /\ \E d \in UnusedAfter : SpawnExpirationTask(t, d)
    /\ UNCHANGED <<now, expired, activity, learned, sweeping>>

\* A request is given an open tunnel: restrict_mut, which take_action calls without
\* looking whether the tunnel has closed.  (take_action would spawn another task for an
\* entry that is still Unused after that; no entry is.)
HandOut(t) ==
    /\ t \in open
    /\ now <= LastUse
    /\ \E long_lived \in BOOLEAN : (long_lived => t \in LongLivedSpecs) /\ MarkUsed(t, now, long_lived)
    /\ UNCHANGED <<now, open, expired, activity, tasks, sweeping>>

\* Whoever was handed the tunnel begins a stream: inc_streams.
BeginStream(t) ==
    /\ expiration[t] \in {"Dirty", "LongLived"}
    /\ t \notin closed
    /\ now <= LastUse
    /\ streams[t] < MaxStreams
    /\ streams' = [streams EXCEPT ![t] = @ + 1]
    /\ disused' = [disused EXCEPT ![t] = NoTime]
    /\ UNCHANGED <<now, list, closed, tasks, sweeping>>

\* A stream ends: dec_streams.
EndStream(t) ==
    /\ t \notin closed
    /\ now <= LastUse
    /\ streams[t] > 0
    /\ streams' = [streams EXCEPT ![t] = @ - 1]
    /\ disused' = [disused EXCEPT ![t] = IF streams[t] = 1 THEN now ELSE NoTime]
    /\ UNCHANGED <<now, list, closed, tasks, sweeping>>

\* The tunnel's reactor shuts down: nobody can be told its activity any more.
Close(t) ==
    /\ expiration[t] # "None"
    /\ t \notin closed
    /\ closed' = closed \cup {t}
    /\ streams' = [streams EXCEPT ![t] = 0]
    /\ UNCHANGED <<now, list, disused, tasks, sweeping>>

\* retire_all_tunnels, retire_circ: no longer managed, whatever its age.
Retire(t) ==
    /\ t \in open
    /\ open' = open \ {t}
    /\ UNCHANGED <<now, expired, expiration, stamp, activity, tasks, sweeping>>

Tick ==
    /\ now < MaxTime
    /\ now' = now + 1
    /\ UNCHANGED <<list, activity, tasks, sweeping>>

\* last_known_to_be_used_at
Activity(t) == IF t \in closed THEN Failed ELSE disused[t]

-----------------------------------------------------------------------------
(* update_long_lived_tunnel_last_used, for the answers of a set of tunnels. *)

\* The entries that check_long_lived lets it update.
Updatable(t, answer) == t \in open /\ answer # Failed /\ expiration[t] = "LongLived"

\* Mutant: the answer is used as it is.
LastKnownUseAsAnswered(answer, at) == answer

\* Mutant: being asked counts as a use.
LastKnownUseNow(answer, at) == at

\* The last use that an answer stands for: disused_since.unwrap_or(now).
LastKnownUse(answer, at) == IF answer = NoTime THEN at ELSE answer

UpdateLastUsed(asked, answers, at) ==
    LET updated == {t \in asked : Updatable(t, answers[t])}
        gone    == {t \in asked \cap open : answers[t] = Failed}
        due     == {t \in updated : at >= LastKnownUse(answers[t], at) + DisusedAfter}
    IN  /\ stamp' = [t \in Tunnels |->
                        IF t \in updated THEN LastKnownUse(answers[t], at) ELSE stamp[t]]
        /\ open' = open \ (gone \cup due)
        /\ expired' = expired \cup due
        /\ UNCHANGED expiration

-----------------------------------------------------------------------------
(* spawn_expiration_task and consider_expiring_tunnel.                     *)

\* The task returns, and what it knew is gone.
TaskEnds(t) ==
    /\ task' = [task EXCEPT ![t] = "Done"]
    /\ exp_inst' = [exp_inst EXCEPT ![t] = 0]
    /\ wake' = [wake EXCEPT ![t] = 0]

\* The task wakes up and considers the tunnel, as if it were exp_inst now.
Consider(t) ==
    /\ task[t] = "Asleep"
    /\ now >= wake[t]
    /\ \E d \in UnusedAfter :
          \/ /\ t \notin open
             /\ TaskEnds(t)
             /\ UNCHANGED list
          \/ /\ t \in open /\ Due(t, exp_inst[t], d)
             /\ ~Uncertain(t)
             /\ open' = open \ {t}
             /\ expired' = expired \cup {t}
             /\ TaskEnds(t)
             /\ UNCHANGED <<expiration, stamp>>
          \/ /\ t \in open /\ Due(t, exp_inst[t], d)
             /\ Uncertain(t)
             /\ task' = [task EXCEPT ![t] = "Asking"]
             /\ UNCHANGED <<list, exp_inst, wake>>
          \/ /\ t \in open /\ ~Due(t, exp_inst[t], d)
             /\ wake' = [wake EXCEPT ![t] = Expiration(t, d)]
             /\ UNCHANGED <<list, task, exp_inst>>
    /\ UNCHANGED <<now, activity, learned, sweeping>>

\* The reactor answers last_known_to_be_used_at.
TaskAsk(t) ==
    /\ task[t] = "Asking"
    /\ task' = [task EXCEPT ![t] = "Telling"]
    /\ learned' = [learned EXCEPT ![t] = Activity(t)]
    /\ UNCHANGED <<now, list, activity, exp_inst, wake, sweeping>>

\* The task tells the list, and sleeps until the tunnel may expire, or ends.
TaskTell(t) ==
    /\ task[t] = "Telling"
    /\ UpdateLastUsed({t}, learned, exp_inst[t])
    /\ IF t \in open' /\ Updatable(t, learned[t])
       THEN /\ wake' = [wake EXCEPT ![t] = stamp'[t] + DisusedAfter]
            /\ task' = [task EXCEPT ![t] = "Asleep"]
            /\ UNCHANGED exp_inst
       ELSE TaskEnds(t)
    /\ learned' = [learned EXCEPT ![t] = NoTime]
    /\ UNCHANGED <<now, activity, sweeping>>

-----------------------------------------------------------------------------
(* expire_circuits, which calls expire_tunnels.                            *)

SweepCall(s) ==
    /\ sweep[s] = "Idle"
    /\ sweep' = [sweep EXCEPT ![s] = "Called"]
    /\ sweep_now' = [sweep_now EXCEPT ![s] = now]
    /\ UNCHANGED <<now, list, activity, tasks, need_check, usage>>

\* TunnelList::expire_tunnels
SweepList(s) ==
    /\ sweep[s] = "Called"
    /\ sweep' = [sweep EXCEPT ![s] = "Asking"]
    /\ \E d \in UnusedAfter :
          LET due == {t \in open : Due(t, sweep_now[s], d)}
              may == {t \in due : Uncertain(t)}
          IN  /\ open' = open \ (due \ may)
              /\ expired' = expired \cup (due \ may)
              /\ need_check' = [need_check EXCEPT ![s] = may]
    /\ UNCHANGED <<now, expiration, stamp, activity, tasks, sweep_now, usage>>

SweepAsk(s, t) ==
    /\ sweep[s] = "Asking"
    /\ t \in need_check[s]
    /\ need_check' = [need_check EXCEPT ![s] = @ \ {t}]
    /\ usage' = [usage EXCEPT ![s][t] = Activity(t)]
    /\ UNCHANGED <<now, list, activity, tasks, sweep, sweep_now>>

SweepTell(s) ==
    /\ sweep[s] = "Asking"
    /\ need_check[s] = {}
    /\ UpdateLastUsed({t \in Tunnels : usage[s][t] # Unasked}, usage[s], sweep_now[s])
    /\ sweep' = [sweep EXCEPT ![s] = "Idle"]
    /\ sweep_now' = [sweep_now EXCEPT ![s] = 0]
    /\ usage' = [usage EXCEPT ![s] = [t \in Tunnels |-> Unasked]]
    /\ UNCHANGED <<now, activity, tasks, need_check>>

-----------------------------------------------------------------------------
TaskStep(t) == Consider(t) \/ TaskAsk(t) \/ TaskTell(t)
SweepStep(s) == SweepList(s) \/ SweepTell(s) \/ \E t \in Tunnels : SweepAsk(s, t)

Next ==
    \/ Tick
    \/ \E t \in Tunnels : \/ Launch(t) \/ HandOut(t) \/ BeginStream(t) \/ EndStream(t)
                          \/ Close(t) \/ Retire(t) \/ TaskStep(t)
    \/ \E s \in Sweeps : SweepCall(s) \/ SweepStep(s)

Spec == Init /\ [][Next]_vars

\* The runtime runs what is ready to run, and time passes.
Fairness ==
    /\ WF_vars(Tick)
    /\ \A t \in Tunnels : WF_vars(TaskStep(t))
    /\ \A s \in Sweeps : WF_vars(SweepStep(s))
FairSpec == Spec /\ Fairness

\* Besides, requests keep arriving, and each of them sweeps the list.
BusySpec == FairSpec /\ \A s \in Sweeps : WF_vars(SweepCall(s))

-----------------------------------------------------------------------------
(* Properties.                                                             *)

\* A check removes a tunnel only when the time that its entry records, plus the
\* time that should_expire adds to it, has passed: neither the exp_inst of a task
\* nor the time a sweep was called with is ever ahead of the clock.
ExpiredWasDue ==
    \A t \in expired : \E d \in UnusedAfter : Due(t, now, d)

\* The internal error of check_long_lived cannot occur: whoever dropped the lock to
\* ask about a tunnel finds it long-lived, whatever happened to it in the meantime.
AskedIsLongLived ==
    /\ \A t \in Tunnels : task[t] \in {"Asking", "Telling"} => expiration[t] = "LongLived"
    /\ \A s \in Sweeps, t \in Tunnels :
          t \in need_check[s] \/ usage[s][t] # Unasked => expiration[t] = "LongLived"

\* Why that is so.  A task sleeps at least until its exp_inst, a sweep was called in
\* the past, and only tunnels that are no longer listed have expired.
Punctual ==
    /\ \A t \in Tunnels :
          /\ task[t] = "Asleep" => wake[t] >= exp_inst[t]
          /\ task[t] \in {"Asking", "Telling"} => now >= exp_inst[t]
    /\ \A s \in Sweeps : sweep_now[s] <= now
Listed ==
    /\ open \cap expired = {}
    /\ \A t \in open \cup expired : expiration[t] # "None"

\* The inductive invariant.
IndInv == TypeOK /\ Punctual /\ Listed /\ AskedIsLongLived /\ ExpiredWasDue

\* A tunnel that nobody uses is expired.
UnusedExpires ==
    \A t \in Tunnels :
        (t \in open /\ expiration[t] = "Unused")
           ~> (t \notin open \/ expiration[t] # "Unused")

\* A dirty tunnel is expired, unless a later use makes it long-lived.
DirtyExpires ==
    \A t \in Tunnels :
        (t \in open /\ expiration[t] = "Dirty")
           ~> (t \notin open \/ expiration[t] # "Dirty")

\* A long-lived tunnel whose last stream has ended is expired, or used again.
DisusedExpires ==
    \A t \in Tunnels :
        (t \in open /\ expiration[t] = "LongLived" /\ disused[t] # NoTime)
           ~> (t \notin open \/ streams[t] > 0)

\* Whichever of the three times a tunnel is waiting for, it does not stay open past it:
\* unused, dirty and disused tunnels are all expired.
ExpiresInTime == UnusedExpires /\ DirtyExpires /\ DisusedExpires

=============================================================================
