------------------------- MODULE TunnelExpiryProofs -------------------------
(***************************************************************************)
(* Proofs about TunnelExpiry: one lemma per conjunct of IndInv, one step   *)
(* per action.                                                             *)
(***************************************************************************)
EXTENDS TunnelExpiry, TLAPS

\* A leaf that names no prover is given to Zenon, for up to 30 seconds.
USE ZenonT(30)

\* The conjuncts of TypeOK.
ListTypes ==
    /\ now \in Time
    /\ open \subseteq Tunnels /\ expired \subseteq Tunnels /\ closed \subseteq Tunnels
    /\ expiration \in [Tunnels -> {"None", "Unused", "Dirty", "LongLived"}]
    /\ stamp \in [Tunnels -> Time]
    /\ streams \in [Tunnels -> 0 .. MaxStreams]
    /\ disused \in [Tunnels -> Time \cup {NoTime}]
TaskTypes ==
    /\ task \in [Tunnels -> {"None", "Asleep", "Asking", "Telling", "Done"}]
    /\ exp_inst \in [Tunnels -> Nat] /\ wake \in [Tunnels -> Nat]
    /\ learned \in [Tunnels -> Time \cup {NoTime, Failed}]
SweepTypes ==
    /\ sweep \in [Sweeps -> {"Idle", "Called", "Asking"}]
    /\ sweep_now \in [Sweeps -> Time]
    /\ need_check \in [Sweeps -> SUBSET Tunnels]
    /\ usage \in [Sweeps -> [Tunnels -> Time \cup {NoTime, Failed, Unasked}]]

\* What a reactor may have answered, or not yet.
Answers == Time \cup {NoTime, Failed, Unasked}

\* What update_long_lived_tunnel_last_used may do, whatever it was told: it dates
\* long-lived tunnels only, and removes as expired only those that are due.
LEMMA UpdateFacts ==
    ASSUME TypeOK, NEW asked \in SUBSET Tunnels, NEW answers \in [Tunnels -> Answers],
           \A t \in asked : answers[t] # Unasked,
           NEW at \in Time, at <= now, UpdateLastUsed(asked, answers, at)
    PROVE  /\ stamp' \in [Tunnels -> Time]
           /\ open' \subseteq open /\ expired' \subseteq expired \cup open
           /\ expired \subseteq expired'
           /\ open' \cap (expired' \ expired) = {}
           /\ expiration' = expiration
           /\ \A t \in Tunnels : stamp'[t] # stamp[t] => t \in open
           /\ \A t \in expired' \ expired :
                 expiration[t] = "LongLived" /\ now >= stamp'[t] + DisusedAfter
           /\ \A t \in Tunnels : t \in open' /\ t \in asked /\ Updatable(t, answers[t])
                 => at <= stamp'[t] + DisusedAfter
<1> DEFINE updated == {t \in asked : Updatable(t, answers[t])}
           gone    == {t \in asked \cap open : answers[t] = Failed}
           due     == {t \in updated : at >= LastKnownUse(answers[t], at) + DisusedAfter}
<1>1. /\ stamp' = [t \in Tunnels |->
                        IF t \in updated THEN LastKnownUse(answers[t], at) ELSE stamp[t]]
      /\ open' = open \ (gone \cup due)
      /\ expired' = expired \cup due
      /\ expiration' = expiration
  BY DEF UpdateLastUsed
<1>2. now \in Int /\ DisusedAfter \in Nat /\ at \in Int
  BY SMTT(30), TimesAssumption DEF TypeOK, Time
<1>3. \A t \in updated : LastKnownUse(answers[t], at) \in Time
  BY DEF LastKnownUse, Updatable, Answers, NoTime, Failed, Unasked
<1>4. \A t \in updated : t \in Tunnels /\ t \in open /\ expiration[t] = "LongLived"
  BY DEF Updatable
<1>5. stamp' \in [Tunnels -> Time]
  BY <1>1, <1>3 DEF TypeOK
<1>6. \A t \in updated : stamp'[t] = LastKnownUse(answers[t], at) /\ stamp'[t] \in Int
  BY SMTT(30), <1>1, <1>3, <1>4 DEF Time
<1>7. \A t \in due : expiration[t] = "LongLived" /\ now >= stamp'[t] + DisusedAfter
  BY SMTT(30), <1>2, <1>4, <1>6
<1>8. \A t \in Tunnels : stamp'[t] # stamp[t] => t \in open
  BY <1>1, <1>4
<1>9. \A t \in Tunnels : t \in open' /\ t \in asked /\ Updatable(t, answers[t])
                 => at <= stamp'[t] + DisusedAfter
  BY SMTT(30), <1>1, <1>2, <1>6
<1> HIDE DEF updated, gone, due
<1>10. due \subseteq open
  <2>1. due \subseteq updated
    BY DEF due
  <2> QED BY <2>1, <1>4
<1> QED BY <1>1, <1>5, <1>7, <1>8, <1>9, <1>10

\* What UpdateFacts says of a task that tells the list what it learned.
LEMMA TaskTellFacts ==
    ASSUME IndInv, NEW t \in Tunnels, TaskTell(t)
    PROVE  /\ stamp' \in [Tunnels -> Time]
           /\ open' \subseteq open /\ expired' \subseteq expired \cup open
           /\ expired \subseteq expired'
           /\ open' \cap (expired' \ expired) = {}
           /\ expiration' = expiration
           /\ \A u \in Tunnels : stamp'[u] # stamp[u] => u \in open
           /\ \A u \in expired' \ expired :
                 expiration[u] = "LongLived" /\ now >= stamp'[u] + DisusedAfter
           /\ t \in open' /\ Updatable(t, learned[t]) => exp_inst[t] <= stamp'[t] + DisusedAfter
<1>1. exp_inst[t] \in Time /\ exp_inst[t] <= now
  BY SMTT(30), TimesAssumption DEF IndInv, Punctual, TypeOK, TaskTell, Time
<1>2. learned \in [Tunnels -> Answers] /\ learned[t] # Unasked
  BY SMTT(30), TimesAssumption DEF IndInv, TypeOK, Answers, Time, NoTime, Failed, Unasked
<1>3. UpdateLastUsed({t}, learned, exp_inst[t]) /\ TypeOK
  BY DEF TaskTell, IndInv
<1> QED BY ONLY <1>1, <1>2, <1>3, t \in Tunnels, UpdateFacts

\* What UpdateFacts says of a sweep that tells the list what it learned.
LEMMA SweepTellFacts ==
    ASSUME IndInv, NEW s \in Sweeps, SweepTell(s)
    PROVE  /\ stamp' \in [Tunnels -> Time]
           /\ open' \subseteq open /\ expired' \subseteq expired \cup open
           /\ expired \subseteq expired'
           /\ open' \cap (expired' \ expired) = {}
           /\ expiration' = expiration
           /\ \A u \in Tunnels : stamp'[u] # stamp[u] => u \in open
           /\ \A u \in expired' \ expired :
                 expiration[u] = "LongLived" /\ now >= stamp'[u] + DisusedAfter
<1> DEFINE asked == {t \in Tunnels : usage[s][t] # Unasked}
<1>1. sweep_now[s] \in Time /\ sweep_now[s] <= now
  BY DEF IndInv, Punctual, TypeOK
<1>2. usage[s] \in [Tunnels -> Answers]
  BY DEF IndInv, TypeOK, Answers
<1>3. UpdateLastUsed(asked, usage[s], sweep_now[s]) /\ TypeOK
  BY DEF SweepTell, IndInv
<1>4. asked \in SUBSET Tunnels /\ \A t \in asked : usage[s][t] # Unasked
  OBVIOUS
<1> HIDE DEF asked
<1> QED BY ONLY <1>1, <1>2, <1>3, <1>4, UpdateFacts

\* The list and the activity of the tunnels keep their types.
LEMMA ListTypesStep == IndInv /\ [Next]_vars => ListTypes'
<1> SUFFICES ASSUME IndInv, [Next]_vars PROVE ListTypes'
  OBVIOUS
<1> USE DEF ListTypes, list, activity, tasks, sweeping, SpawnExpirationTask, TaskEnds, Uncertain
<1> ListTypes /\ MaxStreams \in Nat /\ MaxTime \in Nat
  BY TimesAssumption, SpecsAssumption  DEF IndInv, TypeOK, ListTypes
<1>1. ASSUME NEW t \in Tunnels, Launch(t) \/ BeginStream(t) \/ Close(t) \/ Retire(t) \/ Consider(t) \/ TaskAsk(t)
      PROVE  ListTypes'
  BY SMTT(30), <1>1 DEF Launch, BeginStream, Close, Retire, Consider, TaskAsk
<1>2. ASSUME NEW t \in Tunnels, HandOut(t)
      PROVE  ListTypes'
  BY <1>2 DEF HandOut, MarkUsed
<1>3. ASSUME NEW t \in Tunnels, EndStream(t)
      PROVE  ListTypes'
  BY SMTT(30), <1>3 DEF EndStream, Time
<1>4. ASSUME NEW t \in Tunnels, TaskTell(t)
      PROVE  ListTypes'
  <2>1. UNCHANGED <<now, closed, streams, disused>>
    BY <1>4 DEF TaskTell
  <2>2. /\ stamp' \in [Tunnels -> Time]
        /\ open' \subseteq open /\ expired' \subseteq expired \cup open
        /\ open' \cap (expired' \ expired) = {}
        /\ expiration' = expiration
    BY <1>4, TaskTellFacts
  <2> QED BY <2>1, <2>2
<1>5. ASSUME NEW s \in Sweeps, SweepCall(s) \/ SweepList(s)
      PROVE  ListTypes'
  BY <1>5 DEF SweepCall, SweepList
<1>6. ASSUME NEW s \in Sweeps, SweepTell(s)
      PROVE  ListTypes'
  <2>1. UNCHANGED <<now, closed, streams, disused>>
    BY <1>6 DEF SweepTell
  <2>2. /\ stamp' \in [Tunnels -> Time]
        /\ open' \subseteq open /\ expired' \subseteq expired \cup open
        /\ open' \cap (expired' \ expired) = {}
        /\ expiration' = expiration
    BY <1>6, SweepTellFacts
  <2> QED BY <2>1, <2>2
<1>7. ASSUME NEW s \in Sweeps, NEW t \in Tunnels, SweepAsk(s, t)
      PROVE  ListTypes'
  BY <1>7 DEF SweepAsk
<1>8. CASE Tick
  BY SMTT(30), <1>8 DEF Tick, Time
<1>9. CASE UNCHANGED vars
  BY <1>9 DEF vars
<1> QED BY <1>1, <1>2, <1>3, <1>4, <1>5, <1>6, <1>7, <1>8, <1>9 DEF Next, TaskStep, SweepStep

\* So do the expiration tasks.
LEMMA TaskTypesStep == IndInv /\ [Next]_vars => TaskTypes'
<1> SUFFICES ASSUME IndInv, [Next]_vars PROVE TaskTypes'
  OBVIOUS
<1> USE DEF TaskTypes, list, activity, tasks, sweeping, SpawnExpirationTask, TaskEnds, Uncertain
<1> /\ TaskTypes /\ now \in Time /\ stamp \in [Tunnels -> Time]
    /\ disused \in [Tunnels -> Time \cup {NoTime}]
    /\ DirtyAfter \in Nat /\ DisusedAfter \in Nat /\ MaxTime \in Nat
    /\ \A d \in UnusedAfter : d \in Nat
  BY TimesAssumption, SpecsAssumption  DEF IndInv, TypeOK, TaskTypes
<1>1. ASSUME NEW t \in Tunnels, HandOut(t) \/ BeginStream(t) \/ EndStream(t) \/ Close(t) \/ Retire(t)
      PROVE  TaskTypes'
  BY <1>1 DEF HandOut, BeginStream, EndStream, Close, Retire
<1>2. ASSUME NEW t \in Tunnels, Launch(t)
      PROVE  TaskTypes'
  <2>1. \A d \in UnusedAfter : now + d \in Nat
    BY SMTT(30) DEF Time
  <2> QED BY SMTT(30), <1>2, <2>1 DEF Launch, SpawnExpirationTask
<1>3. ASSUME NEW t \in Tunnels, Consider(t)
      PROVE  TaskTypes'
  <2>1. \A d \in UnusedAfter : Expiration(t, d) \in Nat
    BY SMTT(30) DEF Expiration, Time
  <2>2. 0 \in Nat
    BY SMTT(30)
  <2> QED BY <1>3, <2>1, <2>2 DEF Consider
<1>4. ASSUME NEW t \in Tunnels, TaskAsk(t)
      PROVE  TaskTypes'
  BY <1>4 DEF TaskAsk, Activity
<1>5. ASSUME NEW t \in Tunnels, TaskTell(t)
      PROVE  TaskTypes'
  <2>1. stamp'[t] + DisusedAfter \in Nat
    BY SMTT(30), <1>5, TaskTellFacts DEF Time
  <2>2. 0 \in Nat
    BY SMTT(30)
  <2> QED BY <1>5, <2>1, <2>2 DEF TaskTell
<1>6. ASSUME NEW s \in Sweeps, SweepCall(s) \/ SweepList(s) \/ SweepTell(s)
      PROVE  TaskTypes'
  BY <1>6 DEF SweepCall, SweepList, SweepTell
<1>7. ASSUME NEW s \in Sweeps, NEW t \in Tunnels, SweepAsk(s, t)
      PROVE  TaskTypes'
  BY <1>7 DEF SweepAsk
<1>8. CASE Tick
  BY <1>8 DEF Tick
<1>9. CASE UNCHANGED vars
  BY <1>9 DEF vars
<1> QED BY <1>1, <1>2, <1>3, <1>4, <1>5, <1>6, <1>7, <1>8, <1>9 DEF Next, TaskStep, SweepStep

\* So do the sweeps.
LEMMA SweepTypesStep == IndInv /\ [Next]_vars => SweepTypes'
<1> SUFFICES ASSUME IndInv, [Next]_vars PROVE SweepTypes'
  OBVIOUS
<1> USE DEF SweepTypes, list, activity, tasks, sweeping, SpawnExpirationTask, TaskEnds, Uncertain
<1> SweepTypes /\ now \in Time /\ open \subseteq Tunnels
    /\ disused \in [Tunnels -> Time \cup {NoTime}]
  BY TimesAssumption, SpecsAssumption  DEF IndInv, TypeOK, SweepTypes
<1>1. ASSUME NEW t \in Tunnels, Launch(t) \/ HandOut(t) \/ BeginStream(t) \/ EndStream(t) \/ Close(t) \/ Retire(t) \/ Consider(t) \/ TaskAsk(t) \/ TaskTell(t)
      PROVE  SweepTypes'
  BY <1>1 DEF Launch, HandOut, BeginStream, EndStream, Close, Retire, Consider, TaskAsk,
     TaskTell
<1>2. ASSUME NEW s \in Sweeps, SweepCall(s)
      PROVE  SweepTypes'
  BY <1>2 DEF SweepCall
<1>3. ASSUME NEW s \in Sweeps, SweepList(s)
      PROVE  SweepTypes'
  <2> DEFINE may(d) == {t \in {u \in open : Due(u, sweep_now[s], d)} : Uncertain(t)}
  <2>1. PICK d \in UnusedAfter : need_check' = [need_check EXCEPT ![s] = may(d)]
    BY <1>3 DEF SweepList
  <2>2. may(d) \in SUBSET Tunnels
    OBVIOUS
  <2> HIDE DEF may
  <2>3. need_check' \in [Sweeps -> SUBSET Tunnels]
    BY <2>1, <2>2
  <2> QED BY <1>3, <2>3 DEF SweepList
<1>4. ASSUME NEW s \in Sweeps, SweepTell(s)
      PROVE  SweepTypes'
  <2>1. [u \in Tunnels |-> Unasked] \in [Tunnels -> Time \cup {NoTime, Failed, Unasked}]
    OBVIOUS
  <2>2. 0 \in Time
    BY SMTT(30), TimesAssumption DEF Time
  <2> QED BY <1>4, <2>1, <2>2 DEF SweepTell
<1>5. ASSUME NEW s \in Sweeps, NEW t \in Tunnels, SweepAsk(s, t)
      PROVE  SweepTypes'
  <2>1. Activity(t) \in Time \cup {NoTime, Failed, Unasked}
    BY DEF Activity
  <2>2. [usage[s] EXCEPT ![t] = Activity(t)] \in [Tunnels -> Time \cup {NoTime, Failed, Unasked}]
    BY <2>1
  <2>3. usage' = [usage EXCEPT ![s] = [usage[s] EXCEPT ![t] = Activity(t)]]
    BY <1>5 DEF SweepAsk
  <2> QED BY SMTT(30), <1>5, <2>2, <2>3 DEF SweepAsk
<1>6. CASE Tick
  BY <1>6 DEF Tick
<1>7. CASE UNCHANGED vars
  BY <1>7 DEF vars
<1> QED BY <1>1, <1>2, <1>3, <1>4, <1>5, <1>6, <1>7 DEF Next, TaskStep, SweepStep

\* A task sleeps at least until its exp_inst: it never considers its tunnel too early.
LEMMA PunctualStep == IndInv /\ [Next]_vars => Punctual'
<1> SUFFICES ASSUME IndInv, [Next]_vars PROVE Punctual'
  OBVIOUS
<1> USE DEF Punctual, list, activity, tasks, sweeping, SpawnExpirationTask, TaskEnds, Uncertain
<1> /\ now \in Int /\ exp_inst \in [Tunnels -> Nat] /\ wake \in [Tunnels -> Nat]
    /\ task \in [Tunnels -> {"None", "Asleep", "Asking", "Telling", "Done"}]
    /\ sweep_now \in [Sweeps -> Int] /\ Punctual
  BY SMTT(30), TimesAssumption, SpecsAssumption  DEF IndInv, TypeOK, Time, Punctual
<1>1. ASSUME NEW t \in Tunnels, HandOut(t) \/ BeginStream(t) \/ EndStream(t) \/ Close(t) \/ Retire(t) \/ TaskAsk(t)
      PROVE  Punctual'
  BY <1>1 DEF HandOut, BeginStream, EndStream, Close, Retire, TaskAsk
<1>2. ASSUME NEW t \in Tunnels, Launch(t)
      PROVE  Punctual'
  <2>1. \A d \in UnusedAfter : now + d >= now + d
    BY SMTT(30), TimesAssumption
  <2> QED BY SMTT(30), <1>2, <2>1 DEF Launch, SpawnExpirationTask
<1>3. ASSUME NEW t \in Tunnels, Consider(t)
      PROVE  Punctual'
  <2>1. \A d \in UnusedAfter : ~Due(t, exp_inst[t], d) => Expiration(t, d) >= exp_inst[t]
    <3>1. \A d \in UnusedAfter : Expiration(t, d) \in Nat
      BY SMTT(30), TimesAssumption DEF Expiration, Time, IndInv, TypeOK
    <3> QED BY SMTT(30), <3>1 DEF Due
  <2>2. now >= wake[t] /\ wake[t] >= exp_inst[t]
    BY <1>3 DEF Consider
  <2>3. now >= exp_inst[t]
    BY SMTT(30), <2>2
  <2> QED BY <1>3, <2>1, <2>3 DEF Consider
<1>4. ASSUME NEW t \in Tunnels, TaskTell(t)
      PROVE  Punctual'
  <2>1. t \in open' /\ Updatable(t, learned[t]) => exp_inst[t] <= stamp'[t] + DisusedAfter
    BY <1>4, TaskTellFacts
  <2> QED BY <1>4, <2>1 DEF TaskTell
<1>5. ASSUME NEW s \in Sweeps, SweepCall(s) \/ SweepList(s) \/ SweepTell(s)
      PROVE  Punctual'
  <2>1. 0 <= now /\ now <= now
    BY SMTT(30), TimesAssumption DEF IndInv, TypeOK, Time
  <2> QED BY <1>5, <2>1 DEF SweepCall, SweepList, SweepTell
<1>6. ASSUME NEW s \in Sweeps, NEW t \in Tunnels, SweepAsk(s, t)
      PROVE  Punctual'
  BY <1>6 DEF SweepAsk
<1>7. CASE Tick
  BY SMTT(30), <1>7 DEF Tick
<1>8. CASE UNCHANGED vars
  BY <1>8 DEF vars
<1> QED BY <1>1, <1>2, <1>3, <1>4, <1>5, <1>6, <1>7, <1>8 DEF Next, TaskStep, SweepStep

\* A tunnel that has expired is never listed again.
LEMMA ListedStep == IndInv /\ [Next]_vars => Listed'
<1> SUFFICES ASSUME IndInv, [Next]_vars PROVE Listed'
  OBVIOUS
<1> USE DEF Listed, list, activity, tasks, sweeping, SpawnExpirationTask, TaskEnds, Uncertain
<1> Listed /\ open \subseteq Tunnels /\ expired \subseteq Tunnels
    /\ expiration \in [Tunnels -> {"None", "Unused", "Dirty", "LongLived"}]
  BY TimesAssumption, SpecsAssumption  DEF IndInv, TypeOK, Listed
<1>1. ASSUME NEW t \in Tunnels, Launch(t) \/ BeginStream(t) \/ EndStream(t) \/ Close(t) \/ Retire(t) \/ Consider(t) \/ TaskAsk(t)
      PROVE  Listed'
  BY <1>1 DEF Launch, BeginStream, EndStream, Close, Retire, Consider, TaskAsk
<1>2. ASSUME NEW t \in Tunnels, HandOut(t)
      PROVE  Listed'
  BY <1>2 DEF HandOut, MarkUsed
<1>3. ASSUME NEW t \in Tunnels, TaskTell(t)
      PROVE  Listed'
  <2>1. UNCHANGED <<now, closed, streams, disused>>
    BY <1>3 DEF TaskTell
  <2>2. /\ stamp' \in [Tunnels -> Time]
        /\ open' \subseteq open /\ expired' \subseteq expired \cup open
        /\ open' \cap (expired' \ expired) = {}
        /\ expiration' = expiration
    BY <1>3, TaskTellFacts
  <2> QED BY <2>1, <2>2
<1>4. ASSUME NEW s \in Sweeps, SweepCall(s) \/ SweepList(s)
      PROVE  Listed'
  BY <1>4 DEF SweepCall, SweepList
<1>5. ASSUME NEW s \in Sweeps, SweepTell(s)
      PROVE  Listed'
  <2>1. UNCHANGED <<now, closed, streams, disused>>
    BY <1>5 DEF SweepTell
  <2>2. /\ stamp' \in [Tunnels -> Time]
        /\ open' \subseteq open /\ expired' \subseteq expired \cup open
        /\ open' \cap (expired' \ expired) = {}
        /\ expiration' = expiration
    BY <1>5, SweepTellFacts
  <2> QED BY <2>1, <2>2
<1>6. ASSUME NEW s \in Sweeps, NEW t \in Tunnels, SweepAsk(s, t)
      PROVE  Listed'
  BY <1>6 DEF SweepAsk
<1>7. CASE Tick
  BY <1>7 DEF Tick
<1>8. CASE UNCHANGED vars
  BY <1>8 DEF vars
<1> QED BY <1>1, <1>2, <1>3, <1>4, <1>5, <1>6, <1>7, <1>8 DEF Next, TaskStep, SweepStep

\* A long-lived tunnel stays long-lived.
LEMMA AskedStep == IndInv /\ [Next]_vars => AskedIsLongLived'
<1> SUFFICES ASSUME IndInv, [Next]_vars PROVE AskedIsLongLived'
  OBVIOUS
<1> USE DEF AskedIsLongLived, list, activity, tasks, sweeping, SpawnExpirationTask, TaskEnds, Uncertain
<1> /\ AskedIsLongLived /\ expiration \in [Tunnels -> {"None", "Unused", "Dirty", "LongLived"}]
    /\ task \in [Tunnels -> {"None", "Asleep", "Asking", "Telling", "Done"}]
    /\ need_check \in [Sweeps -> SUBSET Tunnels]
    /\ usage \in [Sweeps -> [Tunnels -> Time \cup {NoTime, Failed, Unasked}]]
  BY TimesAssumption, SpecsAssumption  DEF IndInv, TypeOK, AskedIsLongLived
<1>1. ASSUME NEW t \in Tunnels, Launch(t) \/ BeginStream(t) \/ EndStream(t) \/ Close(t) \/ Retire(t) \/ Consider(t) \/ TaskAsk(t)
      PROVE  AskedIsLongLived'
  BY SMTT(30), <1>1 DEF Launch, BeginStream, EndStream, Close, Retire, Consider, TaskAsk
<1>2. ASSUME NEW t \in Tunnels, HandOut(t)
      PROVE  AskedIsLongLived'
  BY <1>2 DEF HandOut, MarkUsed
<1>3. ASSUME NEW t \in Tunnels, TaskTell(t)
      PROVE  AskedIsLongLived'
  <2>1. UNCHANGED <<need_check, usage>>
        /\ \A u \in Tunnels : task'[u] \in {"Asking", "Telling"} => task[u] \in {"Asking", "Telling"}
    BY <1>3 DEF TaskTell
  <2>2. expiration' = expiration
    BY <1>3, TaskTellFacts
  <2> QED BY <2>1, <2>2
<1>4. ASSUME NEW s \in Sweeps, SweepCall(s) \/ SweepList(s)
      PROVE  AskedIsLongLived'
  BY SMTT(30), <1>4 DEF SweepCall, SweepList
<1>5. ASSUME NEW s \in Sweeps, SweepTell(s)
      PROVE  AskedIsLongLived'
  <2>1. usage' = [usage EXCEPT ![s] = [u \in Tunnels |-> Unasked]] /\ need_check' = need_check
        /\ task' = task
    BY <1>5 DEF SweepTell
  <2> QED BY <1>5, <2>1, SweepTellFacts
<1>6. ASSUME NEW s \in Sweeps, NEW t \in Tunnels, SweepAsk(s, t)
      PROVE  AskedIsLongLived'
  <2>1. \A r \in Sweeps, u \in Tunnels :
           (r # s \/ u # t) => usage'[r][u] = usage[r][u]
    BY <1>6 DEF SweepAsk
  <2> QED BY SMTT(30), <1>6, <2>1 DEF SweepAsk
<1>7. CASE Tick
  BY <1>7 DEF Tick
<1>8. CASE UNCHANGED vars
  BY <1>8 DEF vars
<1> QED BY <1>1, <1>2, <1>3, <1>4, <1>5, <1>6, <1>7, <1>8 DEF Next, TaskStep, SweepStep

\* Every removal is due, and what was due stays due.
LEMMA ExpiredStep == IndInv /\ [Next]_vars => ExpiredWasDue'
<1> SUFFICES ASSUME IndInv, [Next]_vars PROVE ExpiredWasDue'
  OBVIOUS
<1> USE DEF ExpiredWasDue, Due, Expiration, list, activity, tasks, sweeping, SpawnExpirationTask, TaskEnds, Uncertain
<1>0. /\ ExpiredWasDue /\ now \in Int /\ stamp \in [Tunnels -> Int] /\ MaxTime \in Int
      /\ open \subseteq Tunnels /\ expired \subseteq Tunnels
      /\ open \cap expired = {} /\ \A t \in expired : expiration[t] # "None"
      /\ expiration \in [Tunnels -> {"None", "Unused", "Dirty", "LongLived"}]
      /\ DirtyAfter \in Nat /\ DisusedAfter \in Nat /\ \A d \in UnusedAfter : d \in Nat
      /\ exp_inst \in [Tunnels -> Int] /\ wake \in [Tunnels -> Int] /\ sweep_now \in [Sweeps -> Int]
      /\ \A t \in Tunnels : task[t] = "Asleep" => wake[t] >= exp_inst[t]
      /\ \A s \in Sweeps : sweep_now[s] <= now
  BY SMTT(30), TimesAssumption, SpecsAssumption  DEF IndInv, TypeOK, ExpiredWasDue, Listed, Punctual, Time
<1>1. ASSUME NEW t \in Tunnels, BeginStream(t) \/ EndStream(t) \/ Close(t) \/ Retire(t) \/ TaskAsk(t)
      PROVE  ExpiredWasDue'
  BY SMTT(30), <1>1, <1>0 DEF BeginStream, EndStream, Close, Retire, TaskAsk
<1>2. ASSUME NEW t \in Tunnels, Launch(t)
      PROVE  ExpiredWasDue'
  <2>1. \A u \in expired : expiration'[u] = expiration[u] /\ stamp'[u] = stamp[u]
    BY <1>2, <1>0 DEF Launch
  <2>2. expired' = expired /\ now' = now
    BY <1>2 DEF Launch
  <2> QED BY <2>1, <2>2, <1>0 DEF Due, Expiration
<1>3. ASSUME NEW t \in Tunnels, HandOut(t)
      PROVE  ExpiredWasDue'
  <2>1. \A u \in expired : expiration'[u] = expiration[u] /\ stamp'[u] = stamp[u]
    BY <1>3, <1>0 DEF HandOut, MarkUsed
  <2>2. expired' = expired /\ now' = now
    BY <1>3 DEF HandOut
  <2> QED BY <2>1, <2>2, <1>0 DEF Due, Expiration
<1>4. ASSUME NEW t \in Tunnels, Consider(t)
      PROVE  ExpiredWasDue'
  <2> USE <1>4
  <2>1. \A u \in expired' : u \in expired \/ \E d \in UnusedAfter : Due(u, exp_inst[t], d)
    BY DEF Consider
  <2>2. now >= exp_inst[t]
    BY SMTT(30), <1>0 DEF Consider
  <2>3. \A u \in Tunnels, d \in UnusedAfter : Due(u, exp_inst[t], d) => Due(u, now, d)
    <3>1. \A u \in Tunnels, d \in UnusedAfter : Expiration(u, d) \in Int
      BY SMTT(30), <1>0 DEF Expiration
    <3> QED BY SMTT(30), <3>1, <2>2, <1>0 DEF Due
  <2>4. \A u \in Tunnels, d \in UnusedAfter : Due(u, now, d)' = Due(u, now, d)
    BY DEF Consider, Due, Expiration
  <2>5. expired' \subseteq Tunnels
    BY <1>0 DEF Consider
  <2> QED BY SMTT(30), <2>1, <2>3, <2>4, <2>5, <1>0
<1>5. ASSUME NEW t \in Tunnels, TaskTell(t)
      PROVE  ExpiredWasDue'
  <2> USE <1>5
  <2>1. ASSUME NEW u \in expired'
        PROVE  \E d \in UnusedAfter : Due(u, now, d)'
    <3>1. now' = now
      BY DEF TaskTell
    <3>2. CASE u \in expired
      <4>1. expiration'[u] = expiration[u] /\ stamp'[u] = stamp[u]
        BY <3>2, <1>0, TaskTellFacts
      <4> QED BY <3>1, <3>2, <4>1, <1>0 DEF Due, Expiration
    <3>3. CASE u \notin expired
      <4>1. expiration'[u] = "LongLived" /\ now >= stamp'[u] + DisusedAfter
        BY <3>3, <2>1, TaskTellFacts
      <4>2. PICK d : d \in UnusedAfter
        BY UnusedAssumption
      <4> QED BY <3>1, <4>1, <4>2 DEF Due, Expiration
    <3> QED BY <3>2, <3>3
  <2> QED BY <2>1
<1>6. ASSUME NEW s \in Sweeps, SweepCall(s)
      PROVE  ExpiredWasDue'
  BY <1>6, <1>0 DEF SweepCall
<1>7. ASSUME NEW s \in Sweeps, SweepList(s)
      PROVE  ExpiredWasDue'
  <2> USE <1>7
  <2>1. \A u \in expired' : u \in expired \/ \E d \in UnusedAfter : Due(u, sweep_now[s], d)
    BY DEF SweepList
  <2>3. \A u \in Tunnels, d \in UnusedAfter : Due(u, sweep_now[s], d) => Due(u, now, d)
    <3>1. \A u \in Tunnels, d \in UnusedAfter : Expiration(u, d) \in Int
      BY SMTT(30), <1>0 DEF Expiration
    <3> QED BY SMTT(30), <3>1, <1>0 DEF Due
  <2>4. \A u \in Tunnels, d \in UnusedAfter : Due(u, now, d)' = Due(u, now, d)
    BY DEF SweepList, Due, Expiration
  <2>5. expired' \subseteq Tunnels
    BY <1>0 DEF SweepList
  <2> QED BY SMTT(30), <2>1, <2>3, <2>4, <2>5, <1>0
<1>8. ASSUME NEW s \in Sweeps, SweepTell(s)
      PROVE  ExpiredWasDue'
  <2> USE <1>8
  <2>1. ASSUME NEW u \in expired'
        PROVE  \E d \in UnusedAfter : Due(u, now, d)'
    <3>1. now' = now
      BY DEF SweepTell
    <3>2. CASE u \in expired
      <4>1. expiration'[u] = expiration[u] /\ stamp'[u] = stamp[u]
        BY <3>2, <1>0, SweepTellFacts
      <4> QED BY <3>1, <3>2, <4>1, <1>0 DEF Due, Expiration
    <3>3. CASE u \notin expired
      <4>1. expiration'[u] = "LongLived" /\ now >= stamp'[u] + DisusedAfter
        BY <3>3, <2>1, SweepTellFacts
      <4>2. PICK d : d \in UnusedAfter
        BY UnusedAssumption
      <4> QED BY <3>1, <4>1, <4>2 DEF Due, Expiration
    <3> QED BY <3>2, <3>3
  <2> QED BY <2>1
<1>9. ASSUME NEW s \in Sweeps, NEW t \in Tunnels, SweepAsk(s, t)
      PROVE  ExpiredWasDue'
  BY <1>9, <1>0 DEF SweepAsk
<1>10. CASE Tick
  <2> USE <1>10
  <2>1. ASSUME NEW t \in expired, NEW d \in UnusedAfter, Due(t, now, d)
        PROVE  Due(t, now, d)'
    <3>1. Expiration(t, d) \in Int /\ Expiration(t, d)' = Expiration(t, d)
      BY SMTT(30), <1>0 DEF Tick, Expiration
    <3> QED BY SMTT(30), <2>1, <3>1, <1>0 DEF Tick, Due
  <2> QED BY <2>1, <1>0 DEF Tick
<1>11. CASE UNCHANGED vars
  BY <1>11, <1>0 DEF vars
<1> QED BY <1>1, <1>2, <1>3, <1>4, <1>5, <1>6, <1>7, <1>8, <1>9, <1>10, <1>11 DEF Next, TaskStep,
   SweepStep

\* IndInv holds initially.
LEMMA InitInv == Init => IndInv
<1> SUFFICES ASSUME Init PROVE IndInv
  OBVIOUS
<1>1. 0 \in Time /\ 0 \in 0 .. MaxStreams
  BY SMTT(30), TimesAssumption DEF Time
<1>2. TypeOK
  BY <1>1 DEF Init, TypeOK
<1> QED BY SMTT(30), <1>2 DEF Init, IndInv, Punctual, Listed, AskedIsLongLived, ExpiredWasDue

\* Every step preserves IndInv.
LEMMA Inductive == IndInv /\ [Next]_vars => IndInv'
<1> SUFFICES ASSUME IndInv, [Next]_vars PROVE IndInv'
  OBVIOUS
<1>1. TypeOK'
  BY ListTypesStep, TaskTypesStep, SweepTypesStep DEF ListTypes, TaskTypes, SweepTypes, TypeOK
<1> QED BY <1>1, PunctualStep, ListedStep, AskedStep, ExpiredStep DEF IndInv

\* IndInv holds in every reachable state.
THEOREM Invariance == Spec => []IndInv
BY InitInv, Inductive, PTL DEF Spec

\* The types of TunnelExpiry.
THEOREM TypeCorrect == Spec => []TypeOK
<1>1. IndInv => TypeOK
  BY DEF IndInv
<1> QED BY Invariance, <1>1, PTL

\* Neither the tasks nor the sweeps expire a tunnel before its recorded time.
THEOREM NeverEarly == Spec => []ExpiredWasDue
<1>1. IndInv => ExpiredWasDue
  BY DEF IndInv
<1> QED BY Invariance, <1>1, PTL

\* The internal error of check_long_lived is unreachable.
THEOREM NoInternalError == Spec => []AskedIsLongLived
<1>1. IndInv => AskedIsLongLived
  BY DEF IndInv
<1> QED BY Invariance, <1>1, PTL

=============================================================================
