------------------------------ MODULE MemQuota ------------------------------
(***************************************************************************)
(* The memory quota tracker of tor-memquota (mtracker.rs and               *)
(* mtracker/reclaim.rs) together with the queues that participate in it    *)
(* (mq_queue.rs).  Accounts form a forest; every queue registers a         *)
(* participant record in one account.  The sender claims the cost of an    *)
(* item before it pushes it, the receiver releases it after it popped it,  *)
(* each through a Participation of its own with a cache of up to MaxCache. *)
(* When the total exceeds the quota a background task collapses accounts   *)
(* until the low-water mark is reached.                                    *)
(*                                                                         *)
(* Everything the tracker does happens with its mutex held, so an          *)
(* operation is one step, with two exceptions.  The task keeps the mutex   *)
(* while it visits the participants one by one, and it takes each queue's  *)
(* own mutex meanwhile (lock = "task").  A receiver keeps its queue's      *)
(* mutex while it waits for the tracker's (busy).                          *)
(*                                                                         *)
(* The age of data only orders the candidates for reclamation; here any    *)
(* candidate may be the oldest.  The builds without debug assertions are   *)
(* modelled: a claim served from the cache does not look at the tracker.   *)
(***************************************************************************)
EXTENDS Integers, Sequences, FiniteSets, Functions

CONSTANTS
  Accounts,     \* the AIds
  Parent,       \* Parent[a]: the account a is a child of, or None
  Queues,       \* the PIds; a queue is one participant
  Home,         \* Home[q]: the account queue q participates in
  Cost,         \* Cost[q]: memory_cost of the items of queue q
  MaxCache,     \* MAX_CACHE
  Configs,      \* the configurations [max, low_water] reconfigure may set
  InitConfig,   \* the one the tracker is created with
  MaxHandles,   \* bound: strong handles of all accounts, for another to be made
  MaxSending,   \* bound: senders inside start_send at a time
  MaxItems,     \* how many items a queue's channel has room for
  None

ASSUME ForestAssumption ==
  /\ None \notin Accounts
  /\ Parent \in [Accounts -> Accounts \cup {None}]
  /\ Home \in [Queues -> Accounts]
ASSUME RoomAssumption == MaxItems \in Nat
ASSUME CostAssumption == Cost \in [Queues -> Nat \ {0}]
ASSUME MaxCacheAssumption == MaxCache \in Nat /\ MaxCache >= 4
ASSUME ConfigAssumption ==
  \A c \in Configs \cup {InitConfig} :
    c.max \in Nat /\ c.low_water \in Nat /\ c.low_water <= c.max

\* TARGET_CACHE_CLAIMING and TARGET_CACHE_RELEASING
TargetClaiming  == (MaxCache * 3) \div 4
TargetReleasing == MaxCache \div 4

\* The two Participations of a queue.
Ends == {"tx", "rx"}

VARIABLES
  \* State, behind the tracker's mutex
  lock,         \* "free", or "task" while the reclamation task keeps it
  accounts,     \* AIds with an ARecord
  opened,       \* AIds ever used: a slot map does not use a key again
  handles,      \* ARecord.refcount
  live,         \* PIds with a PRecord
  refcount,     \* PRecord.refcount
  used,         \* PRecord.used
  particip,     \* PRecord.particip: the "temp" participant or the "queue"
  total,        \* TotalQtyNotifier.total_used
  poisoned,     \* total_used is the poison value
  config,       \* Global.config
  wakeup,       \* an item waits in reclamation_task_wakeup
  \* the reclamation task
  task,         \* where it is; it waits in "Wait" or, after Outcome::GoodEnough, so
  todo,         \* participants maybe_start has not looked at yet
  heap,         \* Reclaiming.heap, as pairs of participant and account
  deferred,     \* Arcs of participants kept until the mutex is released
  victims,      \* Arcs still to be asked to reclaim: <<queue, temp or queue>>
  asking,       \* the queue whose reclaim is running, or None
  responses,    \* accounts whose participants answered
  \* the queues
  phase,        \* progress of register_participant_with
  temp,         \* queues whose TemporaryParticipant is collapsing
  strong,       \* strong[q]: Participations of q that hold a counted reference
  cache,        \* Participation.cache
  inflight,     \* what start_send has claimed and not yet pushed or released
  queued,       \* how many items the channel holds
  rx,           \* the ReceiverState
  owned,        \* queues whose Receiver (or constructor) holds the Arc
  busy          \* queues whose receiver has the mutex and waits for the tracker's

trackerVars == <<accounts, opened, handles, particip, config>>
recordVars  == <<live, refcount, used, total>>
taskVars    == <<task, todo, heap, deferred, victims, asking, responses>>
endVars     == <<phase, temp, strong, cache, inflight>>
rxVars      == <<queued, rx, owned, busy>>
vars == <<lock, trackerVars, recordVars, poisoned, wakeup, taskVars, endVars, rxVars>>

Init ==
  /\ lock = "free" /\ poisoned = FALSE /\ wakeup = FALSE
  /\ accounts = {} /\ opened = {}
  /\ handles = [a \in Accounts |-> 0]
  /\ live = {} /\ total = 0
  /\ refcount = [q \in Queues |-> 0]
  /\ used = [q \in Queues |-> 0]
  /\ particip = [q \in Queues |-> "temp"]
  /\ config = InitConfig
  /\ task = "Start" /\ todo = {} /\ heap = {} /\ deferred = {}
  /\ victims = {} /\ asking = None /\ responses = {}
  /\ phase = [q \in Queues |-> "New"]
  /\ strong = [q \in Queues |-> {}]
  /\ cache = [q \in Queues |-> [e \in Ends |-> 0]]
  /\ inflight = [q \in Queues |-> 0]
  /\ queued = [q \in Queues |-> 0]
  /\ rx = [q \in Queues |-> "None"]
  /\ temp = {} /\ owned = {} /\ busy = {}

-----------------------------------------------------------------------------
(* The books *)

\* TotalQtyNotifier::maybe_wakeup, for a total of t under configuration c:
\* the channel holds one item, and a full channel swallows the second.
MaybeWakeup(t, c) == wakeup' = (wakeup \/ t > c.max)

\* Mutant: the wakeup looks at the total before the claim.
ClaimTotalLate(q, n) ==
  /\ used' = [used EXCEPT ![q] = @ + n]
  /\ total' = total + n
  /\ MaybeWakeup(total, config)

\* TotalQtyNotifier::claim of n for queue q (the caller checked the poison).
ClaimTotal(q, n) ==
  /\ used' = [used EXCEPT ![q] = @ + n]
  /\ total' = total + n
  /\ MaybeWakeup(total + n, config)

\* saturating_sub
Minus(t, n) == IF n > t THEN 0 ELSE t - n

\* TotalQty::release of n from the total t, which leaves a poisoned one alone.
Lowered(t, n) == IF poisoned THEN t ELSE Minus(t, n)

\* What remains of the total once the records of qs are released.
TotalWithout(t, qs) == Lowered(t, SumFunctionOnSet(used, qs))

\* Mutant: the records go and the total is not told.
AutoReleaseSilent(qs) ==
  /\ live' = live \ qs
  /\ total' = total
  /\ used' = [q \in Queues |-> IF q \in qs THEN 0 ELSE used[q]]
  /\ refcount' = [q \in Queues |-> IF q \in qs THEN 0 ELSE refcount[q]]

\* PRecord::auto_release and removal of the records of qs.
AutoRelease(qs) ==
  /\ live' = live \ qs
  /\ total' = TotalWithout(total, qs)
  /\ used' = [q \in Queues |-> IF q \in qs THEN 0 ELSE used[q]]
  /\ refcount' = [q \in Queues |-> IF q \in qs THEN 0 ELSE refcount[q]]

\* Whether end e of q finds its record.
Found(q, e) == q \in live /\ e \in strong[q]

\* Mutant: the whole cache is returned, and TARGET_CACHE_RELEASING kept all the same.
GiveBackAll(q, e, have) ==
  IF Found(q, e)
  THEN /\ cache' = [cache EXCEPT ![q][e] = TargetReleasing]
       /\ used' = [used EXCEPT ![q] = Minus(@, have)]
       /\ total' = Lowered(total, have)
  ELSE /\ cache' = [cache EXCEPT ![q][e] = 0]
       /\ UNCHANGED <<used, total>>

\* The part of release_qty that holds the tracker's mutex: give the tracker all
\* but TARGET_CACHE_RELEASING of a cache that now holds have, or throw the
\* cache away if the record is gone.
GiveBack(q, e, have) ==
  IF Found(q, e)
  THEN /\ cache' = [cache EXCEPT ![q][e] = TargetReleasing]
       /\ used' = [used EXCEPT ![q] = Minus(@, have - TargetReleasing)]
       /\ total' = Lowered(total, have - TargetReleasing)
  ELSE /\ cache' = [cache EXCEPT ![q][e] = 0]
       /\ UNCHANGED <<used, total>>

-----------------------------------------------------------------------------
(* Accounts *)

\* MemoryQuotaTracker::new_account and Account::new_child
NewAccount(a) ==
  /\ lock = "free"
  /\ a \notin opened /\ SumFunction(handles) < MaxHandles
  /\ Parent[a] \in accounts \cup {None}
  /\ opened' = opened \cup {a}
  /\ accounts' = accounts \cup {a}
  /\ handles' = [handles EXCEPT ![a] = 1]
  /\ UNCHANGED <<lock, particip, config, recordVars, poisoned, wakeup,
                 taskVars, endVars, rxVars>>

\* Account::clone, and WeakAccount::upgrade of a queue's account
CloneAccount(a) ==
  /\ lock = "free"
  /\ a \in accounts /\ SumFunction(handles) < MaxHandles
  /\ handles' = [handles EXCEPT ![a] = @ + 1]
  /\ UNCHANGED <<lock, accounts, opened, particip, config,
                 recordVars, poisoned, wakeup, taskVars, endVars, rxVars>>

\* Account::drop: the last handle takes the account and its records with it.
DropAccount(a) ==
  /\ lock = "free"
  /\ a \in accounts
  /\ handles' = [handles EXCEPT ![a] = @ - 1]
  /\ IF handles[a] > 1
     THEN UNCHANGED <<accounts, recordVars>>
     ELSE /\ accounts' = accounts \ {a}
          /\ AutoRelease({q \in live : Home[q] = a})
  /\ UNCHANGED <<lock, opened, particip, config, poisoned, wakeup,
                 taskVars, endVars, rxVars>>

\* MemoryQuotaTracker::reconfigure
Reconfigure(c) ==
  /\ lock = "free"
  /\ config' = c
  /\ IF poisoned THEN UNCHANGED wakeup ELSE MaybeWakeup(total, c)
  /\ UNCHANGED <<lock, accounts, opened, handles, particip,
                 recordVars, poisoned, taskVars, endVars, rxVars>>

-----------------------------------------------------------------------------
(* Making a queue: ChannelSpec::new_mq and Account::register_participant_with *)

\* register_participant, with the temporary participant
Register(q) ==
  /\ lock = "free" /\ ~poisoned
  /\ phase[q] = "New"
  /\ Home[q] \in accounts
  /\ phase' = [phase EXCEPT ![q] = "Registered"]
  /\ live' = live \cup {q}
  /\ refcount' = [refcount EXCEPT ![q] = 1]
  /\ ClaimTotal(q, MaxCache)
  /\ strong' = [strong EXCEPT ![q] = {"tx"}]
  /\ cache' = [cache EXCEPT ![q]["tx"] = MaxCache]
  /\ UNCHANGED <<lock, accounts, opened, handles, particip, config, poisoned,
                 taskVars, temp, inflight, rxVars>>

\* Mutant: the receiver's clone is not counted.
ConstructUncounted(q) ==
  /\ lock = "free"
  /\ phase[q] = "Registered"
  /\ phase' = [phase EXCEPT ![q] = "Built"]
  /\ strong' = [strong EXCEPT ![q] = @ \cup {"rx"}]
  /\ rx' = [rx EXCEPT ![q] = "Ok"]
  /\ owned' = owned \cup {q}
  /\ UNCHANGED <<lock, trackerVars, recordVars, poisoned, wakeup, taskVars,
                 temp, cache, inflight, queued, busy>>

\* The constructor of new_mq: the receiver gets a clone of the Participation,
\* without a counted reference if the record has gone meanwhile.
Construct(q) ==
  /\ lock = "free"
  /\ phase[q] = "Registered"
  /\ phase' = [phase EXCEPT ![q] = "Built"]
  /\ IF q \in live
     THEN /\ refcount' = [refcount EXCEPT ![q] = @ + 1]
          /\ strong' = [strong EXCEPT ![q] = @ \cup {"rx"}]
     ELSE UNCHANGED <<refcount, strong>>
  /\ rx' = [rx EXCEPT ![q] = "Ok"]
  /\ owned' = owned \cup {q}
  /\ UNCHANGED <<lock, trackerVars, live, used, total, poisoned, wakeup, taskVars,
                 temp, cache, inflight, queued, busy>>

\* set_participant_callbacks; if the record has gone the Arc is dropped.
SetCallbacks(q) ==
  /\ lock = "free"
  /\ phase[q] = "Built"
  /\ IF q \in live
     THEN /\ particip' = [particip EXCEPT ![q] = "queue"]
          /\ phase' = [phase EXCEPT ![q] = "Checking"]
          /\ UNCHANGED owned
     ELSE /\ phase' = [phase EXCEPT ![q] = "Failed"]
          /\ owned' = owned \ {q}
          /\ UNCHANGED particip
  /\ UNCHANGED <<lock, accounts, opened, handles, config, recordVars,
                 poisoned, wakeup, taskVars, temp, strong, cache, inflight,
                 queued, rx, busy>>

\* temp_particip.collapsing.load
CheckCollapsing(q) ==
  /\ phase[q] = "Checking"
  /\ phase' = [phase EXCEPT ![q] = IF q \in temp THEN "Failed" ELSE "Open"]
  /\ owned' = owned \ ({q} \cap temp)
  /\ UNCHANGED <<lock, trackerVars, recordVars, poisoned, wakeup, taskVars,
                 temp, strong, cache, inflight, queued, rx, busy>>

-----------------------------------------------------------------------------
(* The sender *)

\* claim_qty_inner, served from the cache
ClaimCached(q) ==
  /\ cache[q]["tx"] >= Cost[q]
  /\ cache' = [cache EXCEPT ![q]["tx"] = @ - Cost[q]]
  /\ UNCHANGED <<used, total, wakeup>>

\* claim_qty_inner, from the tracker: a small claim also fills the cache up to
\* TARGET_CACHE_CLAIMING.  Without a record, or poisoned, the claim is an error.
ClaimTracked(q) ==
  LET fill == IF Cost[q] <= TargetClaiming THEN TargetClaiming - cache[q]["tx"] ELSE 0
  IN  /\ lock = "free" /\ ~poisoned
      /\ cache[q]["tx"] < Cost[q]
      /\ Found(q, "tx")
      /\ ClaimTotal(q, Cost[q] + fill)
      /\ cache' = [cache EXCEPT ![q]["tx"] = @ + fill]

\* Sender::start_send and try_send_or_return up to the claim.
StartSend(q) ==
  /\ phase[q] = "Open" /\ "tx" \in strong[q]
  /\ inflight[q] = 0 /\ Cardinality({p \in Queues : inflight[p] > 0}) < MaxSending
  /\ ClaimCached(q) \/ ClaimTracked(q)
  /\ inflight' = [inflight EXCEPT ![q] = Cost[q]]
  /\ UNCHANGED <<lock, trackerVars, live, refcount, poisoned, taskVars,
                 phase, temp, strong, rxVars>>

\* The channel takes the item.
Push(q) ==
  /\ inflight[q] > 0
  /\ rx[q] # "Closed" /\ queued[q] < MaxItems
  /\ queued' = [queued EXCEPT ![q] = @ + 1]
  /\ inflight' = [inflight EXCEPT ![q] = 0]
  /\ UNCHANGED <<lock, trackerVars, recordVars, poisoned, wakeup, taskVars,
                 phase, temp, strong, cache, rx, owned, busy>>

\* The channel is closed or full: try_claim gives the claim back.
PushFails(q) ==
  LET have == cache[q]["tx"] + inflight[q]
  IN  /\ inflight[q] > 0
      /\ rx[q] = "Closed" \/ queued[q] >= MaxItems
      /\ IF have > MaxCache
         THEN lock = "free" /\ GiveBack(q, "tx", have)
         ELSE /\ cache' = [cache EXCEPT ![q]["tx"] = have]
              /\ UNCHANGED <<used, total>>
      /\ inflight' = [inflight EXCEPT ![q] = 0]
      /\ UNCHANGED <<lock, trackerVars, live, refcount, poisoned, wakeup, taskVars,
                     phase, temp, strong, rxVars>>

\* The sender goes, or a failed new_mq drops it: Participation::drop.
DropSender(q) ==
  /\ lock = "free"
  /\ phase[q] \in {"Open", "Failed"} /\ "tx" \in strong[q]
  /\ inflight[q] = 0
  /\ IF q \notin live
     THEN UNCHANGED recordVars
     ELSE IF refcount[q] = 1
     THEN AutoRelease({q})
     ELSE /\ refcount' = [refcount EXCEPT ![q] = @ - 1]
          /\ used' = [used EXCEPT ![q] = Minus(@, cache[q]["tx"])]
          /\ total' = Lowered(total, cache[q]["tx"])
          /\ UNCHANGED live
  /\ strong' = [strong EXCEPT ![q] = @ \ {"tx"}]
  /\ cache' = [cache EXCEPT ![q]["tx"] = 0]
  /\ UNCHANGED <<lock, trackerVars, poisoned, wakeup, taskVars,
                 phase, temp, inflight, rxVars>>

-----------------------------------------------------------------------------
(* The receiver *)

\* Receiver::poll_next with an item ready, its release included.  If the cache
\* overflows the queue's mutex is kept until the tracker's is free.
PollNext(q) ==
  LET have == cache[q]["rx"] + Cost[q]
  IN  /\ phase[q] = "Open" /\ q \in owned /\ rx[q] = "Ok" /\ q \notin busy
      /\ queued[q] > 0
      /\ queued' = [queued EXCEPT ![q] = @ - 1]
      /\ cache' = [cache EXCEPT ![q]["rx"] = have]
      /\ busy' = IF have > MaxCache THEN busy \cup {q} ELSE busy
      /\ UNCHANGED <<lock, trackerVars, recordVars, poisoned, wakeup, taskVars,
                     phase, temp, strong, inflight, rx, owned>>

\* The rest of release_qty.
PollReturns(q) ==
  /\ lock = "free"
  /\ q \in busy
  /\ GiveBack(q, "rx", cache[q]["rx"])
  /\ busy' = busy \ {q}
  /\ UNCHANGED <<lock, trackerVars, live, refcount, poisoned, wakeup, taskVars,
                 phase, temp, strong, inflight, queued, rx, owned>>

\* The user drops the Receiver.
DropReceiver(q) ==
  /\ phase[q] = "Open" /\ q \in owned /\ q \notin busy
  /\ owned' = owned \ {q}
  /\ UNCHANGED <<lock, trackerVars, recordVars, poisoned, wakeup, taskVars,
                 endVars, queued, rx, busy>>

\* Whether a Weak of q's ReceiverInner can be upgraded.
Reachable(q) == q \in owned \/ q \in deferred \/ <<q, "queue">> \in victims

\* ReceiverState::drop, first half: destroy_participant.  It starts when the
\* last Arc goes, or when reclaim has taken the state out of the mutex.
DestroyParticipant(q) ==
  /\ lock = "free"
  /\ rx[q] = "Collapsed" \/ (rx[q] = "Ok" /\ ~Reachable(q))
  /\ rx' = [rx EXCEPT ![q] = "Destroyed"]
  /\ IF Found(q, "rx") THEN AutoRelease({q}) ELSE UNCHANGED recordVars
  /\ strong' = [strong EXCEPT ![q] = @ \ {"rx"}]
  /\ cache' = [cache EXCEPT ![q]["rx"] = 0]
  /\ UNCHANGED <<lock, trackerVars, poisoned, wakeup, taskVars,
                 phase, temp, inflight, queued, owned, busy>>

\* ReceiverState::drop, second half: close the channel and drain it.
CloseReceiver(q) ==
  /\ rx[q] = "Destroyed"
  /\ rx' = [rx EXCEPT ![q] = "Closed"]
  /\ queued' = [queued EXCEPT ![q] = 0]
  /\ UNCHANGED <<lock, trackerVars, recordVars, poisoned, wakeup, taskVars,
                 endVars, owned, busy>>

-----------------------------------------------------------------------------
(* The reclamation task *)

\* task_loop: inner_loop has returned, and an item arrived on the channel.
WokenUp ==
  /\ task \in {"Wait", "GoodEnough"} /\ wakeup
  /\ task' = "Start" /\ wakeup' = FALSE
  /\ UNCHANGED <<lock, trackerVars, recordVars, poisoned, todo, heap, deferred, victims,
                 asking, responses, endVars, rxVars>>

\* Mutant: the mutex is released before the participants are visited.
MaybeStartUnlocked ==
  /\ task = "Start" /\ lock = "free"
  /\ IF total <= config.max
     THEN task' = "Wait" /\ UNCHANGED todo
     ELSE task' = "Analyse" /\ todo' = live
  /\ UNCHANGED <<lock, trackerVars, recordVars, poisoned, wakeup, heap, deferred, victims,
                 asking, responses, endVars, rxVars>>

\* Reclaiming::maybe_start: the usage check; the mutex is kept.
MaybeStart ==
  /\ task = "Start" /\ lock = "free"
  /\ IF total <= config.max
     THEN task' = "Wait" /\ UNCHANGED <<lock, todo>>
     ELSE task' = "Analyse" /\ lock' = "task" /\ todo' = live
  /\ UNCHANGED <<trackerVars, recordVars, poisoned, wakeup, heap, deferred, victims, asking,
                 responses, endVars, rxVars>>

\* get_oldest: a temporary participant has data by definition, a queue has if
\* its channel is not empty.
HasData(q) == particip[q] = "temp" \/ (rx[q] = "Ok" /\ queued[q] > 0)

\* precord.particip.upgrade()
Upgradeable(q) == particip[q] = "temp" \/ Reachable(q)

\* analyse_particip, and what maybe_start does with the verdict.  A queue's
\* get_oldest takes the queue's mutex.
AnalyseParticip(q) ==
  /\ task = "Analyse"
  /\ q \in todo
  /\ todo' = todo \ {q}
  /\ IF ~Upgradeable(q)
     THEN AutoRelease({q}) /\ UNCHANGED <<heap, deferred>>
     ELSE /\ particip[q] = "queue" => q \notin busy
          /\ deferred' = IF particip[q] = "queue" THEN deferred \cup {q} ELSE deferred
          /\ heap' = IF HasData(q) \/ used[q] > refcount[q] * MaxCache
                     THEN heap \cup {<<q, Home[q]>>} ELSE heap
          /\ UNCHANGED recordVars
  /\ UNCHANGED <<lock, trackerVars, poisoned, wakeup, task, victims, asking, responses,
                 endVars, rxVars>>

\* State::get_aid_and_children_recursively, among the accounts as: the children
\* of an account that is gone are not found.
AidAndChildren(a, as) ==
  IF a \notin as THEN {}
  ELSE {b \in as : \A S \in SUBSET as :
          (a \in S /\ \A c \in as : Parent[c] \in S => c \in S) => b \in S}

\* Few enough bytes for each Participation that caches may explain them.
GoodEnough(ps, t) ==
  LET n == SumFunctionOnSet(refcount, ps)
  IN  n > 0 /\ t \div n < MaxCache

\* Reclaiming::choose_victims, on the accounts as, the records ps and the total
\* t, in the same critical section as what came before.  It ends with the
\* mutex released.
ChooseVictims(as, ps, t) ==
  /\ lock' = "free" /\ deferred' = {} /\ responses' = {}
  /\ accounts' = as
  /\ handles' = [a \in Accounts |-> IF a \in as THEN handles[a] ELSE 0]
  /\ \/ /\ \/ t <= config.low_water /\ task' = "Wait"
           \/ t > config.low_water /\ heap = {} /\ GoodEnough(ps, t) /\ task' = "GoodEnough"
        /\ heap' = {}
        /\ live' = ps /\ total' = t
        /\ UNCHANGED victims
     \/ /\ t > config.low_water /\ heap = {} /\ ~GoodEnough(ps, t)
        /\ task' = "Failed"
        /\ live' = ps /\ total' = t
        /\ UNCHANGED <<victims, heap>>
     \/ \E e \in heap :
        LET chosen == {q \in ps : Home[q] \in AidAndChildren(e[2], as)}
            gone   == {q \in chosen : ~Upgradeable(q)}
        IN  /\ t > config.low_water
            /\ task' = "Notify" /\ heap' = heap \ {e}
            /\ victims' = {<<q, particip[q]>> : q \in chosen \ gone}
            /\ live' = ps \ gone
            /\ total' = TotalWithout(t, gone)
  /\ used' = [q \in Queues |-> IF q \in live' THEN used[q] ELSE 0]
  /\ refcount' = [q \in Queues |-> IF q \in live' THEN refcount[q] ELSE 0]

\* The end of inner_loop's first critical section.
FirstVictims ==
  /\ task = "Analyse" /\ todo = {}
  /\ ChooseVictims(accounts, live, total)
  /\ UNCHANGED <<opened, particip, config, poisoned, wakeup, todo, asking,
                 endVars, rxVars>>

\* notify_victims, one victim: reclaim of the temporary participant sets its
\* flag, that of a queue takes the state out of the mutex.
AskToReclaim(q, kind) ==
  /\ task = "Notify" /\ asking = None
  /\ <<q, kind>> \in victims
  /\ IF kind = "temp"
     THEN /\ temp' = temp \cup {q}
          /\ victims' = victims \ {<<q, kind>>}
          /\ responses' = responses \cup {Home[q]}
          /\ UNCHANGED <<rx, asking>>
     ELSE /\ q \notin busy
          /\ rx' = [rx EXCEPT ![q] = IF @ = "Ok" THEN "Collapsed" ELSE @]
          /\ asking' = q
          /\ UNCHANGED <<temp, victims, responses>>
  /\ UNCHANGED <<lock, trackerVars, recordVars, poisoned, wakeup, task, todo, heap, deferred,
                 phase, strong, cache, inflight, queued, owned, busy>>

\* reclaim has dropped the state, queue and all, and returns.
Reclaimed(q) ==
  /\ asking = q /\ rx[q] = "Closed"
  /\ asking' = None
  /\ victims' = victims \ {<<q, "queue">>}
  /\ responses' = responses \cup {Home[q]}
  /\ UNCHANGED <<lock, trackerVars, recordVars, poisoned, wakeup, task, todo, heap, deferred,
                 endVars, rxVars>>

\* handle_victim_responses, then choose_victims with the mutex still held.
HandleVictimResponses ==
  LET as   == accounts \ responses
      gone == {q \in live : Home[q] \in responses}
  IN  /\ task = "Notify" /\ victims = {} /\ lock = "free"
      /\ ChooseVictims(as, live \ gone, TotalWithout(total, gone))
      /\ UNCHANGED <<opened, particip, config, poisoned, wakeup, todo,
                     asking, endVars, rxVars>>

\* task_loop ended with an error: task takes the mutex again to poison the total.
SetPoisoned ==
  /\ task = "Failed" /\ lock = "free"
  /\ task' = "Crashed" /\ poisoned' = TRUE
  /\ UNCHANGED <<lock, trackerVars, recordVars, wakeup, todo, heap, deferred, victims,
                 asking, responses, endVars, rxVars>>

-----------------------------------------------------------------------------
AccountStep ==
  \/ \E a \in Accounts : NewAccount(a) \/ CloneAccount(a) \/ DropAccount(a)
  \/ \E c \in Configs : Reconfigure(c)

\* What a call in progress does next.
CallStep(q) ==
  \/ Construct(q) \/ SetCallbacks(q) \/ CheckCollapsing(q)
  \/ Push(q) \/ PushFails(q)
  \/ PollReturns(q)
  \/ DestroyParticipant(q) \/ CloseReceiver(q)

UserStep(q) ==
  \/ Register(q)
  \/ StartSend(q) \/ DropSender(q)
  \/ PollNext(q) \/ DropReceiver(q)

TaskStep ==
  \/ WokenUp \/ MaybeStart \/ FirstVictims \/ HandleVictimResponses \/ SetPoisoned
  \/ \E q \in Queues :
       \/ AnalyseParticip(q) \/ Reclaimed(q)
       \/ \E kind \in {"temp", "queue"} : AskToReclaim(q, kind)

Next == AccountStep \/ TaskStep \/ \E q \in Queues : CallStep(q) \/ UserStep(q)

Spec == Init /\ [][Next]_vars

-----------------------------------------------------------------------------
(* Properties *)

\* The type invariant of the tracker, its task and the queues: what every
\* operation of mtracker.rs, reclaim.rs and mq_queue.rs leaves behind.
TypeOK ==
  /\ lock \in {"free", "task"} /\ poisoned \in BOOLEAN /\ wakeup \in BOOLEAN
  /\ accounts \subseteq opened /\ opened \subseteq Accounts
  /\ handles \in [Accounts -> Nat]
  /\ live \subseteq Queues /\ total \in Nat
  /\ refcount \in [Queues -> 0 .. 2] /\ used \in [Queues -> Nat]
  /\ particip \in [Queues -> {"temp", "queue"}]
  /\ config \in Configs \cup {InitConfig}
  /\ task \in {"Wait", "GoodEnough", "Start", "Analyse", "Notify", "Failed", "Crashed"}
  /\ lock = "task" <=> task = "Analyse"
  /\ todo \subseteq live /\ deferred \subseteq Queues
  /\ heap \subseteq Queues \X Accounts
  /\ victims \subseteq Queues \X {"temp", "queue"}
  /\ asking \in Queues \cup {None} /\ responses \subseteq Accounts
  /\ phase \in [Queues -> {"New", "Registered", "Built", "Checking", "Open", "Failed"}]
  /\ temp \subseteq Queues /\ owned \subseteq Queues /\ busy \subseteq Queues
  /\ strong \in [Queues -> SUBSET Ends]
  /\ cache \in [Queues -> [Ends -> Nat]]
  /\ inflight \in [Queues -> Nat]
  /\ queued \in [Queues -> 0 .. MaxItems]
  /\ rx \in [Queues -> {"None", "Ok", "Collapsed", "Destroyed", "Closed"}]

\* What a queue holds: the items in its channel and the one being sent.
Held(q) == queued[q] * Cost[q] + inflight[q]

\* The documented invariant of ParticipationInner.cache: as long as a participant
\* has its record, the record's used is exactly the two caches plus what the
\* queue holds, whatever claims, failed sends, releases and drops happened in
\* whatever order; and no cache is over MAX_CACHE unless its release is running.
UsedIsExact ==
  \A q \in live :
    /\ used[q] = cache[q]["tx"] + cache[q]["rx"] + Held(q)
    /\ cache[q]["tx"] <= MaxCache
    /\ q \notin busy => cache[q]["rx"] <= MaxCache

\* The other documented invariant: total_used is the sum of the records' used,
\* through every way in which a record can go (last drop, destroy_participant,
\* account dropped, torn down by the task), until the task poisons the total.
TotalIsSum == poisoned \/ total = SumFunctionOnSet(used, live)

\* PRecord.refcount counts the Participations that hold a counted reference, so
\* slotmap_dec_ref neither underflows nor finds the record gone early; a record
\* belongs to an account that exists and is never left behind by its queue.
HandlesCounted ==
  \A q \in live :
    /\ strong[q] # {}
    /\ refcount[q] = (IF "tx" \in strong[q] THEN 1 ELSE 0)
                    + (IF "rx" \in strong[q] THEN 1 ELSE 0)
    /\ Home[q] \in accounts

\* The task holds the tracker's mutex and wants that of a queue whose receiver
\* holds it and wants the tracker's.
Deadlocked == lock = "task" /\ \E q \in todo : particip[q] = "queue" /\ q \in busy

\* No wakeup is lost: the task never waits while the total is over the maximum,
\* be it by a claim or by a reconfigure and whatever the task was doing when it
\* happened, unless an item waits for it (or it ended with the verdict that
\* caches explain the excess, which it revisits only after the next claim).
NeverSleepsOverQuota == task = "Wait" /\ total > config.max => wakeup

\* The documentation of IsParticipant::get_oldest: it runs with the tracker's
\* global lock held, therefore it must be fast.  In particular the queue whose
\* mutex it takes must not be waiting for that global lock.
GetOldestReturns == ~Deadlocked
=============================================================================
