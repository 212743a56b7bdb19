--------------------------- MODULE MemQuotaProofs ---------------------------
(***************************************************************************)
(* Proofs about MemQuota, for every forest of accounts, every set of       *)
(* queues, every cost and every MAX_CACHE: a participant's record agrees   *)
(* with what its queue holds and with the handles that exist, the total    *)
(* agrees with the records, and the reclamation task misses no wakeup.     *)
(***************************************************************************)
EXTENDS MemQuota, FiniteSetTheorems, TLAPS

\* A leaf that names no prover is given to Zenon, for up to 30 seconds.
USE ZenonT(30)

\* The variables the argument is about, with their types.
LedgerTypes ==
  /\ live \subseteq Queues /\ accounts \subseteq Accounts
  /\ refcount \in [Queues -> Int] /\ used \in [Queues -> Nat]
  /\ phase \in [Queues -> {"New", "Registered", "Built", "Checking", "Open", "Failed"}]
  /\ strong \in [Queues -> SUBSET Ends]
  /\ cache \in [Queues -> [Ends -> Nat]]
  /\ inflight \in [Queues -> Nat] /\ queued \in [Queues -> Nat]
  /\ rx \in [Queues -> {"None", "Ok", "Collapsed", "Destroyed", "Closed"}]

\* How far a queue's construction and destruction have come, against the
\* Participations it has: the receiver's exists from Construct on, and as long
\* as there is a record; a receiver that waits for the tracker is not being dropped.
Shape ==
  \A q \in Queues :
    /\ inflight[q] \in {0, Cost[q]} /\ (inflight[q] # 0 => "tx" \in strong[q])
    /\ phase[q] \in {"New", "Registered"} <=> rx[q] = "None"
    /\ phase[q] = "New" => q \notin live /\ strong[q] = {}
    /\ rx[q] = "None" => strong[q] \subseteq {"tx"} /\ cache[q]["rx"] = 0
                         /\ queued[q] = 0 /\ inflight[q] = 0 /\ q \notin busy
    /\ q \in live /\ rx[q] # "None" => rx[q] \in {"Ok", "Collapsed"} /\ "rx" \in strong[q]
    /\ q \in busy => /\ phase[q] = "Open" /\ rx[q] = "Ok" /\ q \in owned
                     /\ cache[q]["rx"] > MaxCache

\* A record that is gone keeps nothing.
GoneIsZero == \A q \in Queues : q \notin live => used[q] = 0

LedgerInv == LedgerTypes /\ Shape /\ GoneIsZero /\ HandlesCounted /\ UsedIsExact

\* The accounts: one that exists has a handle.
AccountInv ==
  /\ accounts \subseteq opened /\ opened \subseteq Accounts
  /\ handles \in [Accounts -> Nat] /\ \A a \in accounts : handles[a] > 0
  /\ config \in Configs \cup {InitConfig}

\* The reclamation task: it keeps the mutex exactly while it looks at participants,
\* all of which have a record then, and only its own end poisons the total.
TaskInv ==
  /\ lock \in {"free", "task"} /\ poisoned \in BOOLEAN /\ wakeup \in BOOLEAN
  /\ task \in {"Wait", "GoodEnough", "Start", "Analyse", "Notify", "Failed", "Crashed"}
  /\ lock = "task" <=> task = "Analyse"
  /\ todo \subseteq live /\ (task # "Analyse" => todo = {})
  /\ poisoned => task = "Crashed"
  /\ deferred \subseteq Queues
  /\ heap \subseteq Queues \X Accounts
  /\ victims \subseteq Queues \X {"temp", "queue"}
  /\ asking \in Queues \cup {None} /\ responses \subseteq Accounts

\* The rest of what is known of a queue.
QueueInv ==
  /\ refcount \in [Queues -> 0 .. 2]
  /\ particip \in [Queues -> {"temp", "queue"}]
  /\ temp \subseteq Queues /\ owned \subseteq Queues /\ busy \subseteq Queues
  /\ queued \in [Queues -> 0 .. MaxItems]

\* The total, over the finitely many records there are at any time.
TotalInv == IsFiniteSet(live) /\ total \in Nat /\ TotalIsSum

-----------------------------------------------------------------------------
(* Sums over finite sets *)

\* The element that SumFunctionOnSet takes first.
Pick(s) == CHOOSE x \in s : TRUE

\* g is the table of the sums of f over the subsets of S.
SumTable(g, f, S) ==
  g = [s \in SUBSET S |-> IF s = {} THEN 0 ELSE f[Pick(s)] + g[s \ {Pick(s)}]]

\* SumFunctionOnSet looks its result up in that table.
LEMMA SumIsTable ==
  ASSUME NEW f, NEW S
  PROVE  SumFunctionOnSet(f, S) = (CHOOSE g : SumTable(g, f, S))[S]
  BY DEF SumFunctionOnSet, FoldFunctionOnSet, MapThenFoldSet, SumTable, Pick

\* The first element is one of the set, and taking it away leaves less.
LEMMA PickFacts ==
  ASSUME NEW s, s # {}
  PROVE  Pick(s) \in s /\ s \ {Pick(s)} \subseteq s /\ s \ {Pick(s)} # s
  BY DEF Pick

\* Induction on the subsets of a finite set, by the least counterexample.
LEMMA LeastSubset ==
  ASSUME NEW S, IsFiniteSet(S), NEW B, B \subseteq SUBSET S, B # {}
  PROVE  \E s \in B : \A u \in B : u \subseteq s => u = s
<1>1. IsWellFoundedOn(StrictSubsetOrdering(S), SUBSET S)
  BY FS_FiniteSubsetsOfFinite, FS_StrictSubsetOrderingWellFounded
<1> PICK s \in B : \A u \in B : ~ (<<u, s>> \in StrictSubsetOrdering(S))
  BY <1>1, WFMin
<1>3. ASSUME NEW u \in B, u \subseteq s, u # s PROVE FALSE
  <2>1. u \in SUBSET S /\ s \in SUBSET S
    OBVIOUS
  <2>2. <<u, s>> \in StrictSubsetOrdering(S)
    BY <1>3, <2>1 DEF StrictSubsetOrdering
  <2> QED
    BY <2>2
<1> QED
  BY <1>3

\* There is at most one table ...
LEMMA TableUnique ==
  ASSUME NEW f, NEW S, IsFiniteSet(S), NEW g, NEW h, SumTable(g, f, S), SumTable(h, f, S)
  PROVE  g = h
<1> DEFINE B == {s \in SUBSET S : g[s] # h[s]}
<1>0. /\ \A s \in SUBSET S : g[s] = IF s = {} THEN 0 ELSE f[Pick(s)] + g[s \ {Pick(s)}]
      /\ \A s \in SUBSET S : h[s] = IF s = {} THEN 0 ELSE f[Pick(s)] + h[s \ {Pick(s)}]
      /\ DOMAIN g = SUBSET S /\ DOMAIN h = SUBSET S
      /\ g = [s \in SUBSET S |-> g[s]] /\ h = [s \in SUBSET S |-> h[s]]
  BY DEF SumTable
<1>1. B = {}
  <2> SUFFICES ASSUME B # {} PROVE FALSE
    OBVIOUS
  <2>1. PICK s \in B : \A u \in B : u \subseteq s => u = s
    <3> HIDE DEF B
    <3>1. B \subseteq SUBSET S
      BY DEF B
    <3> QED
      BY SMTT(30), <3>1, LeastSubset
  <2> s \in SUBSET S /\ g[s] # h[s]
    BY <2>1
  <2>3. s # {}
    BY <1>0
  <2>4. s \ {Pick(s)} \in SUBSET S /\ s \ {Pick(s)} \notin B
    BY <2>1, <2>3, PickFacts
  <2>5. g[s \ {Pick(s)}] = h[s \ {Pick(s)}]
    BY <2>4
  <2> QED
    BY <1>0, <2>3, <2>5
<1>2. \A s \in SUBSET S : g[s] = h[s]
  BY <1>1
<1> QED
  BY <1>0, <1>2

\* ... a table for S contains one for every subset of S ...
LEMMA TableRestricts ==
  ASSUME NEW f, NEW S, NEW g, SumTable(g, f, S), NEW T \in SUBSET S
  PROVE  SumTable([s \in SUBSET T |-> g[s]], f, T)
<1> DEFINE h == [s \in SUBSET T |-> g[s]]
<1>1. ASSUME NEW s \in SUBSET T
      PROVE  g[s] = IF s = {} THEN 0 ELSE f[Pick(s)] + h[s \ {Pick(s)}]
  <2>1. s \in SUBSET S /\ s \ {Pick(s)} \in SUBSET T
    OBVIOUS
  <2>2. g[s] = IF s = {} THEN 0 ELSE f[Pick(s)] + g[s \ {Pick(s)}]
    BY <2>1 DEF SumTable
  <2> QED
    BY <2>1, <2>2
<1> QED
  BY <1>1 DEF SumTable

\* ... and a finite set has a table.
LEMMA TableExists ==
  ASSUME NEW f, NEW S, IsFiniteSet(S)
  PROVE  \E g : SumTable(g, f, S)
<1> DEFINE B == {s \in SUBSET S : ~ \E g : SumTable(g, f, s)}
           G(u) == CHOOSE g : SumTable(g, f, u)
<1> SUFFICES ASSUME B # {} PROVE FALSE
  OBVIOUS
<1>1. PICK T \in B : \A u \in B : u \subseteq T => u = T
  <2>1. B \subseteq SUBSET S
    OBVIOUS
  <2> HIDE DEF B
  <2> QED
    BY SMTT(30), <2>1, LeastSubset
<1>2. T \in SUBSET S /\ ~ \E g : SumTable(g, f, T)
  BY <1>1
<1>3. ASSUME NEW u, u \subseteq T, u # T PROVE SumTable(G(u), f, u) /\ IsFiniteSet(u)
  <2>1. u \in SUBSET S /\ u \notin B
    BY <1>1, <1>2, <1>3
  <2>2. \E g : SumTable(g, f, u)
    BY <2>1
  <2> QED
    BY <2>1, <2>2, FS_Subset
<1> HIDE DEF B, G
<1> DEFINE h == [s \in SUBSET T |-> IF s = {} THEN 0
                                   ELSE f[Pick(s)] + G(s \ {Pick(s)})[s \ {Pick(s)}]]
<1>4. ASSUME NEW s \in SUBSET T, s # {} PROVE h[s \ {Pick(s)}] = G(s \ {Pick(s)})[s \ {Pick(s)}]
  <2> DEFINE u == s \ {Pick(s)}
             v == u \ {Pick(u)}
  <2>1. u \in SUBSET T /\ u # T /\ SumTable(G(u), f, u)
    BY <1>3, <1>4, PickFacts
  <2>2. G(u)[u] = IF u = {} THEN 0 ELSE f[Pick(u)] + G(u)[v]
    BY <2>1 DEF SumTable
  <2>3. h[u] = IF u = {} THEN 0 ELSE f[Pick(u)] + G(v)[v]
    BY <2>1
  <2>4. CASE u # {}
    <3>1. v \in SUBSET u /\ v # T /\ v \subseteq T
      BY <2>1, <2>4, PickFacts
    <3>2. SumTable(G(v), f, v) /\ IsFiniteSet(v)
      BY <1>3, <3>1
    <3>3. SumTable([w \in SUBSET v |-> G(u)[w]], f, v)
      <4> DEFINE g == G(u)
      <4>1. SumTable(g, f, u) /\ v \in SUBSET u
        BY <2>1, <3>1
      <4> HIDE DEF g, u, v
      <4>2. SumTable([w \in SUBSET v |-> g[w]], f, v)
        BY <4>1, TableRestricts
      <4> QED
        BY <4>2 DEF g
    <3>4. G(v) = [w \in SUBSET v |-> G(u)[w]]
      BY <3>2, <3>3, TableUnique
    <3>5. G(v)[v] = G(u)[v]
      BY <3>4
    <3> QED
      BY <2>2, <2>3, <3>5
  <2> QED
    BY <2>2, <2>3, <2>4
<1>5. SumTable(h, f, T)
  BY <1>4 DEF SumTable
<1> QED
  BY <1>2, <1>5

\* What SumFunctionOnSet computes: nothing for the empty set, and the first element
\* plus the sum of the others for any other.
LEMMA SumStep ==
  ASSUME NEW f, NEW S, IsFiniteSet(S)
  PROVE  SumFunctionOnSet(f, S) =
           IF S = {} THEN 0 ELSE f[Pick(S)] + SumFunctionOnSet(f, S \ {Pick(S)})
<1> DEFINE G(u) == CHOOSE g : SumTable(g, f, u)
           T == S \ {Pick(S)}
<1>1. SumTable(G(S), f, S)
  BY TableExists
<1>2. G(S)[S] = IF S = {} THEN 0 ELSE f[Pick(S)] + G(S)[T]
  BY <1>1 DEF SumTable
<1>3. T \in SUBSET S /\ IsFiniteSet(T)
  BY FS_Subset
<1>4. SumTable(G(T), f, T)
  BY <1>3, TableExists
<1>5. SumTable([w \in SUBSET T |-> G(S)[w]], f, T)
  BY <1>1, <1>3, TableRestricts
<1>6. G(T) = [w \in SUBSET T |-> G(S)[w]]
  BY <1>3, <1>4, <1>5, TableUnique
<1>7. G(T)[T] = G(S)[T]
  BY <1>6
<1>8. SumFunctionOnSet(f, S) = G(S)[S] /\ SumFunctionOnSet(f, T) = G(T)[T]
  BY SumIsTable
<1> QED
  BY <1>2, <1>7, <1>8

\* There is nothing to add over the empty set.
LEMMA SumEmpty ==
  ASSUME NEW f
  PROVE  SumFunctionOnSet(f, {}) = 0
  BY FS_EmptySet, SumStep

\* A sum of natural numbers is one.
LEMMA SumNat ==
  ASSUME NEW Q, NEW f \in [Q -> Nat], NEW S \in SUBSET Q, IsFiniteSet(S)
  PROVE  SumFunctionOnSet(f, S) \in Nat
<1> DEFINE B == {s \in SUBSET S : SumFunctionOnSet(f, s) \notin Nat}
<1> SUFFICES ASSUME B # {} PROVE FALSE
  OBVIOUS
<1>1. PICK s \in B : \A u \in B : u \subseteq s => u = s
  <2>1. B \subseteq SUBSET S
    OBVIOUS
  <2> HIDE DEF B
  <2> QED
    BY SMTT(30), <2>1, LeastSubset
<1> s \in SUBSET S /\ SumFunctionOnSet(f, s) \notin Nat /\ IsFiniteSet(s)
  BY <1>1, FS_Subset
<1>3. s # {}
  BY SMTT(30), SumEmpty
<1>4. Pick(s) \in S /\ s \ {Pick(s)} \in SUBSET S /\ s \ {Pick(s)} \notin B
  BY <1>1, <1>3, PickFacts
<1>5. SumFunctionOnSet(f, s \ {Pick(s)}) \in Nat /\ f[Pick(s)] \in Nat
  BY <1>4
<1>6. SumFunctionOnSet(f, s) = f[Pick(s)] + SumFunctionOnSet(f, s \ {Pick(s)})
  BY <1>3, SumStep
<1> QED
  BY SMTT(30), <1>5, <1>6

\* Any element can be taken out of a sum, not only the first one.
LEMMA SumTakeOut ==
  ASSUME NEW Q, NEW f \in [Q -> Nat], NEW S \in SUBSET Q, IsFiniteSet(S), NEW x \in S
  PROVE  SumFunctionOnSet(f, S) = f[x] + SumFunctionOnSet(f, S \ {x})
<1> DEFINE Good(s) == \A y \in s : SumFunctionOnSet(f, s) = f[y] + SumFunctionOnSet(f, s \ {y})
           B == {s \in SUBSET S : ~ Good(s)}
<1> SUFFICES ASSUME B # {} PROVE FALSE
  <2>1. Good(S) => SumFunctionOnSet(f, S) = f[x] + SumFunctionOnSet(f, S \ {x})
    OBVIOUS
  <2>2. B = {} => Good(S)
    <3> HIDE DEF Good
    <3> QED
      OBVIOUS
  <2> QED
    BY <2>1, <2>2
<1>0. \A s \in SUBSET S : SumFunctionOnSet(f, s) \in Nat /\ IsFiniteSet(s)
  <2> SUFFICES ASSUME NEW s \in SUBSET S PROVE SumFunctionOnSet(f, s) \in Nat /\ IsFiniteSet(s)
    OBVIOUS
  <2>1. IsFiniteSet(s) /\ s \in SUBSET Q
    BY FS_Subset
  <2> QED
    BY <2>1, SumNat
<1>1. PICK s \in B : \A u \in B : u \subseteq s => u = s
  <2>1. B \subseteq SUBSET S
    OBVIOUS
  <2> HIDE DEF B
  <2> QED
    BY SMTT(30), <2>1, LeastSubset
<1>2. s \in SUBSET S /\ ~ Good(s)
  BY <1>1
<1>3. ASSUME NEW u \in SUBSET s, u # s PROVE Good(u)
  <2> HIDE DEF Good
  <2>1. u \in SUBSET S /\ u \notin B
    BY <1>1, <1>2, <1>3
  <2> QED
    BY <2>1
<1> HIDE DEF B
<1>4. PICK y \in s : SumFunctionOnSet(f, s) # f[y] + SumFunctionOnSet(f, s \ {y})
  BY <1>2
<1>5. SumFunctionOnSet(f, s) = f[Pick(s)] + SumFunctionOnSet(f, s \ {Pick(s)}) /\ Pick(s) \in s
  BY <1>0, <1>2, <1>4, SumStep, PickFacts
<1>6. y # Pick(s)
  BY <1>4, <1>5
<1> DEFINE p == Pick(s)
           r == SumFunctionOnSet(f, (s \ {p}) \ {y})
<1>7. SumFunctionOnSet(f, s \ {p}) = f[y] + r
  <2>1. Good(s \ {p})
    BY <1>3, <1>5
  <2>2. y \in s \ {p}
    BY <1>4, <1>6
  <2> QED
    BY <2>1, <2>2
<1>8. SumFunctionOnSet(f, s \ {y}) = f[p] + r
  <2>1. Good(s \ {y})
    BY <1>3, <1>4
  <2>2. p \in s \ {y} /\ (s \ {y}) \ {p} = (s \ {p}) \ {y}
    BY <1>5, <1>6
  <2> QED
    BY <2>1, <2>2
<1>9. r \in Nat /\ f[p] \in Nat /\ f[y] \in Nat
  <2>1. (s \ {p}) \ {y} \in SUBSET S /\ p \in Q /\ y \in Q
    BY <1>2, <1>4, <1>5
  <2> QED
    BY <1>0, <2>1
<1> QED
  BY SMTT(30), <1>4, <1>5, <1>7, <1>8, <1>9

\* Functions that agree on a set have the same sum over it.
LEMMA SumSame ==
  ASSUME NEW f, NEW g, NEW S, IsFiniteSet(S), \A x \in S : f[x] = g[x]
  PROVE  SumFunctionOnSet(f, S) = SumFunctionOnSet(g, S)
<1> DEFINE B == {s \in SUBSET S : SumFunctionOnSet(f, s) # SumFunctionOnSet(g, s)}
<1> SUFFICES ASSUME B # {} PROVE FALSE
  OBVIOUS
<1>1. PICK s \in B : \A u \in B : u \subseteq s => u = s
  <2>1. B \subseteq SUBSET S
    OBVIOUS
  <2> HIDE DEF B
  <2> QED
    BY SMTT(30), <2>1, LeastSubset
<1> s \in SUBSET S /\ SumFunctionOnSet(f, s) # SumFunctionOnSet(g, s) /\ IsFiniteSet(s)
  BY <1>1, FS_Subset
<1>3. s # {}
  BY SumEmpty
<1>4. Pick(s) \in S /\ s \ {Pick(s)} \in SUBSET S /\ s \ {Pick(s)} \notin B
  BY <1>1, <1>3, PickFacts
<1>5. SumFunctionOnSet(f, s \ {Pick(s)}) = SumFunctionOnSet(g, s \ {Pick(s)})
  BY <1>4
<1>6. /\ SumFunctionOnSet(f, s) = f[Pick(s)] + SumFunctionOnSet(f, s \ {Pick(s)})
      /\ SumFunctionOnSet(g, s) = g[Pick(s)] + SumFunctionOnSet(g, s \ {Pick(s)})
  BY <1>3, SumStep
<1> QED
  BY <1>4, <1>5, <1>6

\* A sum is that of a part and that of the rest.
LEMMA SumSplit ==
  ASSUME NEW Q, NEW f \in [Q -> Nat], NEW S \in SUBSET Q, IsFiniteSet(S), NEW T \in SUBSET S
  PROVE  SumFunctionOnSet(f, S) = SumFunctionOnSet(f, T) + SumFunctionOnSet(f, S \ T)
<1> DEFINE B == {s \in SUBSET S : SumFunctionOnSet(f, S) #
                                     SumFunctionOnSet(f, s) + SumFunctionOnSet(f, S \ s)}
<1> SUFFICES ASSUME B # {} PROVE FALSE
  OBVIOUS
<1>0. \A s \in SUBSET S : SumFunctionOnSet(f, s) \in Nat /\ IsFiniteSet(s)
  <2> SUFFICES ASSUME NEW s \in SUBSET S PROVE SumFunctionOnSet(f, s) \in Nat /\ IsFiniteSet(s)
    OBVIOUS
  <2>1. IsFiniteSet(s) /\ s \in SUBSET Q
    BY FS_Subset
  <2> QED
    BY <2>1, SumNat
<1>1. PICK s \in B : \A u \in B : u \subseteq s => u = s
  <2>1. B \subseteq SUBSET S
    OBVIOUS
  <2> HIDE DEF B
  <2> QED
    BY SMTT(30), <2>1, LeastSubset
<1> /\ s \in SUBSET S
    /\ SumFunctionOnSet(f, S) # SumFunctionOnSet(f, s) + SumFunctionOnSet(f, S \ s)
  BY <1>1
<1>3. s # {}
  <2>1. SumFunctionOnSet(f, {}) = 0 /\ S \ {} = S
    BY <1>0, SumStep
  <2>2. SumFunctionOnSet(f, S) = SumFunctionOnSet(f, {}) + SumFunctionOnSet(f, S \ {})
    BY SMTT(30), <1>0, <2>1
  <2> QED
    BY <2>2
<1> DEFINE p == Pick(s)
           u == s \ {p}
<1>4. p \in s /\ u \in SUBSET S /\ u \notin B
  BY <1>1, <1>3, PickFacts
<1>5. SumFunctionOnSet(f, S) = SumFunctionOnSet(f, u) + SumFunctionOnSet(f, S \ u)
  BY <1>4
<1>6. SumFunctionOnSet(f, s) = f[p] + SumFunctionOnSet(f, u)
  BY <1>0, <1>3, SumStep
<1>7. SumFunctionOnSet(f, S \ u) = f[p] + SumFunctionOnSet(f, S \ s)
  <2>1. p \in S \ u /\ (S \ u) \ {p} = S \ s /\ S \ u \in SUBSET Q /\ IsFiniteSet(S \ u)
    BY <1>0, <1>4
  <2> HIDE DEF u, p
  <2> QED
    BY SMTT(30), <2>1, SumTakeOut
<1>8. /\ SumFunctionOnSet(f, u) \in Nat /\ SumFunctionOnSet(f, S \ s) \in Nat /\ f[p] \in Nat
  BY <1>0, <1>4
<1> HIDE DEF B, u, p
<1> QED
  BY SMTT(30), <1>5, <1>6, <1>7, <1>8

-----------------------------------------------------------------------------
(* The books *)

\* The arithmetic of a number of items of one cost.
LEMMA Times ==
  ASSUME NEW n \in Nat, NEW c \in Nat
  PROVE  /\ n * c \in Nat
         /\ (n + 1) * c = n * c + c
         /\ n > 0 => (n - 1) * c = n * c - c /\ n * c >= c
         /\ 0 * c = 0
  BY SMTT(30)

\* Both targets lie between zero and MAX_CACHE.
LEMMA Targets ==
  /\ TargetClaiming \in Nat /\ TargetClaiming <= MaxCache
  /\ TargetReleasing \in Nat /\ TargetReleasing <= MaxCache
  BY SMTT(30), MaxCacheAssumption DEF TargetClaiming, TargetReleasing

\* choose_victims only removes records, and leaves the others as they are.
LEMMA ChooseFacts ==
  ASSUME NEW as, NEW ps, NEW t, ChooseVictims(as, ps, t)
  PROVE  /\ live' \subseteq ps /\ accounts' = as
         /\ used' = [q \in Queues |-> IF q \in live' THEN used[q] ELSE 0]
         /\ refcount' = [q \in Queues |-> IF q \in live' THEN refcount[q] ELSE 0]
<1>1. live' \subseteq ps
  BY DEF ChooseVictims
<1>2. QED
  BY <1>1 DEF ChooseVictims

\* What the two critical sections of inner_loop do to records and accounts.
LEMMA VictimFacts ==
  ASSUME LedgerTypes, HandlesCounted, FirstVictims \/ HandleVictimResponses
  PROVE  /\ live' \subseteq live /\ accounts' \subseteq accounts
         /\ \A q \in live' : Home[q] \in accounts'
         /\ used' = [q \in Queues |-> IF q \in live' THEN used[q] ELSE 0]
         /\ refcount' = [q \in Queues |-> IF q \in live' THEN refcount[q] ELSE 0]
         /\ UNCHANGED <<endVars, rxVars>>
<1>1. CASE FirstVictims
  <2>1. ChooseVictims(accounts, live, total)
    BY <1>1 DEF FirstVictims
  <2>2. UNCHANGED <<endVars, rxVars>>
    BY <1>1 DEF FirstVictims
  <2> HIDE DEF ChooseVictims
  <2> QED
    BY SMTT(30), <2>1, <2>2, ChooseFacts DEF HandlesCounted
<1>2. CASE HandleVictimResponses
  <2> DEFINE gone == {q \in live : Home[q] \in responses}
  <2>1. ChooseVictims(accounts \ responses, live \ gone, TotalWithout(total, gone))
    BY <1>2 DEF HandleVictimResponses
  <2>2. UNCHANGED <<endVars, rxVars>>
    BY <1>2 DEF HandleVictimResponses
  <2> QED
    BY SMTT(30), <2>1, <2>2, ChooseFacts DEF HandlesCounted
<1> QED
  BY <1>1, <1>2

\* Steps that leave records, Participations and queues alone.
Elsewhere ==
  \/ \E a \in Accounts : NewAccount(a) \/ CloneAccount(a)
  \/ \E c \in Configs : Reconfigure(c)
  \/ WokenUp \/ MaybeStart \/ SetPoisoned
  \/ \E q \in Queues : DropReceiver(q) \/ Reclaimed(q)

\* Those steps change nothing the ledger depends on, but for a new account.
LEMMA ElsewhereFacts ==
  ASSUME Elsewhere
  PROVE  /\ UNCHANGED <<recordVars, endVars, queued, rx, busy>>
         /\ \A q \in busy : q \in owned => q \in owned'
         /\ accounts \subseteq accounts'
         /\ accounts \subseteq Accounts => accounts' \subseteq Accounts
  BY DEF Elsewhere, NewAccount, CloneAccount, Reconfigure, WokenUp, MaybeStart, SetPoisoned,
         DropReceiver, Reclaimed, trackerVars, recordVars, taskVars, endVars, rxVars

\* The steps one by one, as the preservation proofs take them.
LEMMA NextCases ==
  ASSUME Next
  PROVE  \/ Elsewhere
         \/ \E a \in Accounts : DropAccount(a)
         \/ FirstVictims \/ HandleVictimResponses
         \/ \E q \in Queues :
              \/ Register(q) \/ Construct(q) \/ SetCallbacks(q) \/ CheckCollapsing(q)
              \/ StartSend(q) \/ Push(q) \/ PushFails(q) \/ DropSender(q)
              \/ PollNext(q) \/ PollReturns(q) \/ DestroyParticipant(q) \/ CloseReceiver(q)
              \/ AnalyseParticip(q)
              \/ \E kind \in {"temp", "queue"} : AskToReclaim(q, kind)
  BY DEF Next, AccountStep, CallStep, UserStep, TaskStep, Elsewhere

-----------------------------------------------------------------------------
(* Preservation, one lemma for each part of LedgerInv *)

\* A release that overflows the cache keeps the types.
LEMMA GiveBackTypes ==
  ASSUME LedgerTypes, NEW q \in Queues, NEW e \in Ends, NEW have \in Nat, have > MaxCache,
         GiveBack(q, e, have)
  PROVE  used' \in [Queues -> Nat] /\ cache' \in [Queues -> [Ends -> Nat]]
<1>1. used \in [Queues -> Nat] /\ cache \in [Queues -> [Ends -> Nat]]
  BY DEF LedgerTypes
<1>2. have - TargetReleasing \in Nat /\ TargetReleasing \in Nat
  BY SMTT(30), Targets, MaxCacheAssumption
<1>3. Minus(used[q], have - TargetReleasing) \in Nat
  BY SMTT(30), <1>1, <1>2 DEF Minus
<1>4. CASE Found(q, e)
  <2>1. /\ cache' = [cache EXCEPT ![q][e] = TargetReleasing]
        /\ used' = [used EXCEPT ![q] = Minus(@, have - TargetReleasing)]
    BY <1>4 DEF GiveBack
  <2> QED
    BY <1>1, <1>2, <1>3, <2>1
<1>5. CASE ~Found(q, e)
  <2>1. cache' = [cache EXCEPT ![q][e] = 0] /\ used' = used
    BY <1>5 DEF GiveBack
  <2> QED
    BY <1>1, <2>1
<1> QED
  BY <1>4, <1>5

\* Every step keeps the types.
LEMMA NextTypes == LedgerInv /\ [Next]_vars => LedgerTypes'
<1> SUFFICES ASSUME LedgerInv, [Next]_vars PROVE LedgerTypes'
  OBVIOUS
<1> LedgerTypes
  BY DEF LedgerInv
<1> USE CostAssumption, MaxCacheAssumption, Targets
<1> USE DEF LedgerTypes, Ends
<1>1. CASE Elsewhere
  BY <1>1, ElsewhereFacts DEF recordVars, endVars
<1>2. ASSUME NEW a \in Accounts, DropAccount(a) PROVE LedgerTypes'
  BY SMTT(30), <1>2 DEF DropAccount, AutoRelease, recordVars, endVars, rxVars
<1>3. CASE FirstVictims \/ HandleVictimResponses
  BY SMTT(30), <1>3, VictimFacts DEF LedgerInv, endVars, rxVars
<1>4. ASSUME NEW q \in Queues, Register(q) PROVE LedgerTypes'
  BY SMTT(30), <1>4 DEF Register, ClaimTotal, rxVars
<1>5. ASSUME NEW q \in Queues, Construct(q) PROVE LedgerTypes'
  BY SMTT(30), <1>5 DEF Construct, trackerVars
<1>6. ASSUME NEW q \in Queues, SetCallbacks(q) \/ CheckCollapsing(q) PROVE LedgerTypes'
  BY <1>6 DEF SetCallbacks, CheckCollapsing, trackerVars, recordVars
<1>7. ASSUME NEW q \in Queues, StartSend(q) PROVE LedgerTypes'
  <2> USE <1>7
  <2>1. CASE ClaimCached(q)
    BY SMTT(30), <2>1 DEF StartSend, ClaimCached, trackerVars, rxVars
  <2>2. CASE ClaimTracked(q)
    BY SMTT(30), <2>2 DEF StartSend, ClaimTracked, ClaimTotal, trackerVars, rxVars
  <2> QED
    BY <2>1, <2>2 DEF StartSend
<1>8. ASSUME NEW q \in Queues, Push(q) PROVE LedgerTypes'
  BY SMTT(30), <1>8 DEF Push, trackerVars, recordVars
<1>9. ASSUME NEW q \in Queues, PushFails(q) PROVE LedgerTypes'
  <2> USE <1>9
  <2> DEFINE have == cache[q]["tx"] + inflight[q]
  <2>1. have \in Nat
    BY SMTT(30)
  <2>2. /\ inflight' = [inflight EXCEPT ![q] = 0]
        /\ UNCHANGED <<live, accounts, refcount, phase, strong, queued, rx>>
    BY DEF PushFails, trackerVars, rxVars
  <2>3. have > MaxCache => GiveBack(q, "tx", have)
    BY DEF PushFails
  <2>4. ~(have > MaxCache) => cache' = [cache EXCEPT ![q]["tx"] = have] /\ used' = used
    BY DEF PushFails
  <2> HIDE DEF have
  <2>5. used' \in [Queues -> Nat] /\ cache' \in [Queues -> [Ends -> Nat]]
    <3>1. CASE have > MaxCache
      BY <2>1, <2>3, <3>1, GiveBackTypes
    <3>2. CASE ~(have > MaxCache)
      <4>1. used \in [Queues -> Nat] /\ cache \in [Queues -> [Ends -> Nat]]
        OBVIOUS
      <4>2. cache' = [cache EXCEPT ![q]["tx"] = have] /\ used' = used
        BY <2>4, <3>2
      <4>3. [cache[q] EXCEPT !["tx"] = have] \in [Ends -> Nat]
        BY <2>1, <4>1
      <4> QED
        BY <4>1, <4>2, <4>3
    <3> QED
      BY <3>1, <3>2
  <2>6. inflight' \in [Queues -> Nat]
    BY <2>2
  <2> QED
    BY <2>2, <2>5, <2>6
<1>10. ASSUME NEW q \in Queues, DropSender(q) PROVE LedgerTypes'
  BY SMTT(30), <1>10 DEF DropSender, AutoRelease, Minus, trackerVars, recordVars, rxVars
<1>11. ASSUME NEW q \in Queues, PollNext(q) PROVE LedgerTypes'
  BY SMTT(30), <1>11 DEF PollNext, trackerVars, recordVars
<1>12. ASSUME NEW q \in Queues, PollReturns(q) PROVE LedgerTypes'
  <2>1. cache[q]["rx"] \in Nat /\ cache[q]["rx"] > MaxCache
    BY SMTT(30), <1>12 DEF LedgerInv, Shape, PollReturns
  <2>2. /\ GiveBack(q, "rx", cache[q]["rx"])
        /\ UNCHANGED <<live, accounts, refcount, phase, strong, inflight, queued, rx>>
    BY <1>12 DEF PollReturns, trackerVars
  <2>3. used' \in [Queues -> Nat] /\ cache' \in [Queues -> [Ends -> Nat]]
    BY <2>1, <2>2, GiveBackTypes
  <2> QED
    BY <2>2, <2>3
<1>13. ASSUME NEW q \in Queues, DestroyParticipant(q) PROVE LedgerTypes'
  BY SMTT(30), <1>13 DEF DestroyParticipant, AutoRelease, trackerVars, recordVars
<1>14. ASSUME NEW q \in Queues, CloseReceiver(q) PROVE LedgerTypes'
  BY <1>14 DEF CloseReceiver, trackerVars, recordVars, endVars
<1>15. ASSUME NEW q \in Queues, AnalyseParticip(q) PROVE LedgerTypes'
  BY SMTT(30), <1>15 DEF AnalyseParticip, AutoRelease, trackerVars, recordVars, endVars, rxVars
<1>16. ASSUME NEW q \in Queues, NEW kind, AskToReclaim(q, kind) PROVE LedgerTypes'
  BY <1>16 DEF AskToReclaim, trackerVars, recordVars
<1>17. CASE UNCHANGED vars
  BY <1>17 DEF vars, trackerVars, recordVars, endVars, rxVars
<1> QED
  BY <1>1, <1>2, <1>3, <1>4, <1>5, <1>6, <1>7, <1>8, <1>9, <1>10, <1>11, <1>12, <1>13, <1>14,
     <1>15, <1>16, <1>17, NextCases

\* Every step keeps the stages of a queue and its Participations in step.
LEMMA NextShape == LedgerInv /\ [Next]_vars => Shape'
<1> SUFFICES ASSUME LedgerInv, [Next]_vars PROVE Shape'
  OBVIOUS
<1> LedgerTypes /\ Shape
  BY DEF LedgerInv
<1> USE CostAssumption, MaxCacheAssumption, Targets
<1> USE DEF LedgerTypes, Shape, Ends
<1>1. CASE Elsewhere
  BY SMTT(30), <1>1, ElsewhereFacts DEF recordVars, endVars
<1>2. ASSUME NEW a \in Accounts, DropAccount(a) PROVE Shape'
  BY SMTT(30), <1>2 DEF DropAccount, AutoRelease, recordVars, endVars, rxVars
<1>3. CASE FirstVictims \/ HandleVictimResponses
  BY SMTT(30), <1>3, VictimFacts DEF LedgerInv, endVars, rxVars
<1>4. ASSUME NEW q \in Queues, Register(q) PROVE Shape'
  BY SMTT(30), <1>4 DEF Register, ClaimTotal, rxVars
<1>5. ASSUME NEW q \in Queues, Construct(q) PROVE Shape'
  BY SMTT(30), <1>5 DEF Construct, trackerVars
<1>6. ASSUME NEW q \in Queues, SetCallbacks(q) \/ CheckCollapsing(q) PROVE Shape'
  BY SMTT(30), <1>6 DEF SetCallbacks, CheckCollapsing, trackerVars, recordVars
<1>7. ASSUME NEW q \in Queues, StartSend(q) PROVE Shape'
  <2> USE <1>7
  <2>1. CASE ClaimCached(q)
    BY SMTT(30), <2>1 DEF StartSend, ClaimCached, trackerVars, rxVars
  <2>2. CASE ClaimTracked(q)
    BY SMTT(30), <2>2 DEF StartSend, ClaimTracked, ClaimTotal, trackerVars, rxVars
  <2> QED
    BY <2>1, <2>2 DEF StartSend
<1>8. ASSUME NEW q \in Queues, Push(q) PROVE Shape'
  BY SMTT(30), <1>8 DEF Push, trackerVars, recordVars
<1>9. ASSUME NEW q \in Queues, PushFails(q) PROVE Shape'
  BY SMTT(30), <1>9 DEF PushFails, GiveBack, Minus, trackerVars, rxVars
<1>10. ASSUME NEW q \in Queues, DropSender(q) PROVE Shape'
  BY SMTT(30), <1>10 DEF DropSender, AutoRelease, Minus, trackerVars, recordVars, rxVars
<1>11. ASSUME NEW q \in Queues, PollNext(q) PROVE Shape'
  BY SMTT(30), <1>11 DEF PollNext, trackerVars, recordVars
<1>12. ASSUME NEW q \in Queues, PollReturns(q) PROVE Shape'
  BY SMTT(30), <1>12 DEF PollReturns, GiveBack, Minus, trackerVars
<1>13. ASSUME NEW q \in Queues, DestroyParticipant(q) PROVE Shape'
  BY SMTT(30), <1>13 DEF DestroyParticipant, Found, Reachable, AutoRelease, trackerVars, recordVars
<1>14. ASSUME NEW q \in Queues, CloseReceiver(q) PROVE Shape'
  BY <1>14 DEF CloseReceiver, trackerVars, recordVars, endVars
<1>15. ASSUME NEW q \in Queues, AnalyseParticip(q) PROVE Shape'
  BY SMTT(30), <1>15 DEF AnalyseParticip, AutoRelease, trackerVars, recordVars, endVars, rxVars
<1>16. ASSUME NEW q \in Queues, NEW kind, AskToReclaim(q, kind) PROVE Shape'
  BY SMTT(30), <1>16 DEF AskToReclaim, trackerVars, recordVars
<1>17. CASE UNCHANGED vars
  BY <1>17 DEF vars, trackerVars, recordVars, endVars, rxVars
<1> QED
  BY <1>1, <1>2, <1>3, <1>4, <1>5, <1>6, <1>7, <1>8, <1>9, <1>10, <1>11, <1>12, <1>13, <1>14,
     <1>15, <1>16, <1>17, NextCases

\* Every step keeps the handles counted, and the records that are gone empty.
LEMMA NextCounted == LedgerInv /\ [Next]_vars => HandlesCounted' /\ GoneIsZero'
<1> SUFFICES ASSUME LedgerInv, [Next]_vars PROVE HandlesCounted' /\ GoneIsZero'
  OBVIOUS
<1> LedgerTypes /\ Shape /\ HandlesCounted /\ GoneIsZero
  BY DEF LedgerInv
<1> USE DEF LedgerTypes, HandlesCounted, GoneIsZero, Ends
<1>1. CASE Elsewhere
  BY <1>1, ElsewhereFacts DEF recordVars, endVars
<1>2. ASSUME NEW a \in Accounts, DropAccount(a) PROVE HandlesCounted' /\ GoneIsZero'
  BY SMTT(30), <1>2 DEF DropAccount, AutoRelease, recordVars, endVars
<1>3. CASE FirstVictims \/ HandleVictimResponses
  BY <1>3, VictimFacts DEF endVars
<1>4. ASSUME NEW q \in Queues, Register(q) PROVE HandlesCounted' /\ GoneIsZero'
  <2> USE <1>4
  <2>1. HandlesCounted'
    <3>1. /\ strong'[q] # {} /\ "tx" \in strong'[q] /\ "rx" \notin strong'[q]
          /\ refcount'[q] = 1 /\ Home[q] \in accounts'
          /\ live' = live \cup {q} /\ accounts' = accounts
      BY DEF Register
    <3>2. \A p \in live : p # q => strong'[p] = strong[p] /\ refcount'[p] = refcount[p]
      BY DEF Register
    <3> QED
      BY SMTT(30), <3>1, <3>2
  <2>2. GoneIsZero'
    BY DEF Register, ClaimTotal
  <2> QED
    BY <2>1, <2>2
<1>5. ASSUME NEW q \in Queues, Construct(q) PROVE HandlesCounted' /\ GoneIsZero'
  BY SMTT(30), <1>5 DEF Construct, Shape, trackerVars
<1>6. ASSUME NEW q \in Queues, SetCallbacks(q) \/ CheckCollapsing(q)
      PROVE  HandlesCounted' /\ GoneIsZero'
  BY <1>6 DEF SetCallbacks, CheckCollapsing, trackerVars, recordVars
<1>7. ASSUME NEW q \in Queues, StartSend(q) PROVE HandlesCounted' /\ GoneIsZero'
  BY <1>7 DEF StartSend, ClaimCached, ClaimTracked, ClaimTotal, Found, trackerVars
<1>8. ASSUME NEW q \in Queues, Push(q) \/ PollNext(q) PROVE HandlesCounted' /\ GoneIsZero'
  BY <1>8 DEF Push, PollNext, trackerVars, recordVars
<1>9. ASSUME NEW q \in Queues, PushFails(q) PROVE HandlesCounted' /\ GoneIsZero'
  BY <1>9 DEF PushFails, GiveBack, Found, trackerVars
<1>10. ASSUME NEW q \in Queues, DropSender(q) PROVE HandlesCounted' /\ GoneIsZero'
  BY SMTT(30), <1>10 DEF DropSender, AutoRelease, trackerVars, recordVars
<1>11. ASSUME NEW q \in Queues, PollReturns(q) PROVE HandlesCounted' /\ GoneIsZero'
  BY <1>11 DEF PollReturns, GiveBack, Found, trackerVars
<1>12. ASSUME NEW q \in Queues, DestroyParticipant(q) PROVE HandlesCounted' /\ GoneIsZero'
  BY SMTT(30), <1>12 DEF DestroyParticipant, Found, Shape, AutoRelease, trackerVars, recordVars
<1>13. ASSUME NEW q \in Queues, CloseReceiver(q) PROVE HandlesCounted' /\ GoneIsZero'
  BY <1>13 DEF CloseReceiver, trackerVars, recordVars, endVars
<1>14. ASSUME NEW q \in Queues, AnalyseParticip(q) PROVE HandlesCounted' /\ GoneIsZero'
  BY SMTT(30), <1>14 DEF AnalyseParticip, AutoRelease, trackerVars, recordVars, endVars
<1>15. ASSUME NEW q \in Queues, NEW kind, AskToReclaim(q, kind)
       PROVE  HandlesCounted' /\ GoneIsZero'
  BY <1>15 DEF AskToReclaim, trackerVars, recordVars
<1>16. CASE UNCHANGED vars
  BY <1>16 DEF vars, trackerVars, recordVars, endVars
<1> QED
  BY <1>1, <1>2, <1>3, <1>4, <1>5, <1>6, <1>7, <1>8, <1>9, <1>10, <1>11, <1>12, <1>13, <1>14,
     <1>15, <1>16, NextCases

\* Every step keeps each record's used equal to the caches and the queue.
LEMMA NextUsed == LedgerInv /\ [Next]_vars => UsedIsExact'
<1> SUFFICES ASSUME LedgerInv, [Next]_vars PROVE UsedIsExact'
  OBVIOUS
<1> LedgerTypes /\ Shape /\ HandlesCounted /\ UsedIsExact
  BY DEF LedgerInv
<1>a. \A q \in Queues : queued[q] * Cost[q] \in Nat
  BY CostAssumption, Times DEF LedgerTypes
<1> USE CostAssumption, MaxCacheAssumption, Targets
<1> USE DEF LedgerTypes, UsedIsExact, Held, Ends
<1>1. CASE Elsewhere
  BY <1>1, ElsewhereFacts DEF recordVars, endVars
<1>2. ASSUME NEW a \in Accounts, DropAccount(a) PROVE UsedIsExact'
  BY <1>2 DEF DropAccount, AutoRelease, recordVars, endVars, rxVars
<1>3. CASE FirstVictims \/ HandleVictimResponses
  BY <1>3, VictimFacts DEF endVars, rxVars
<1>4. ASSUME NEW q \in Queues, Register(q) PROVE UsedIsExact'
  <2>1. used[q] = 0 /\ cache[q]["rx"] = 0 /\ queued[q] = 0 /\ inflight[q] = 0
    BY <1>4 DEF LedgerInv, Register, Shape, GoneIsZero
  <2>2. 0 * Cost[q] = 0
    BY Times
  <2> QED
    BY SMTT(30), <1>4, <2>1, <2>2 DEF Register, ClaimTotal, rxVars
<1>5. ASSUME NEW q \in Queues, Construct(q) PROVE UsedIsExact'
  BY <1>5 DEF Construct, trackerVars
<1>6. ASSUME NEW q \in Queues, SetCallbacks(q) \/ CheckCollapsing(q) PROVE UsedIsExact'
  BY <1>6 DEF SetCallbacks, CheckCollapsing, trackerVars, recordVars
<1>7. ASSUME NEW q \in Queues, StartSend(q) PROVE UsedIsExact'
  <2> USE <1>7
  <2>1. CASE ClaimCached(q)
    BY SMTT(30), <1>a, <2>1 DEF StartSend, ClaimCached, trackerVars, rxVars
  <2>2. CASE ClaimTracked(q)
    BY SMTT(30), <1>a, <2>2 DEF StartSend, ClaimTracked, ClaimTotal, trackerVars, rxVars
  <2> QED
    BY <2>1, <2>2 DEF StartSend
<1>8. ASSUME NEW q \in Queues, Push(q) PROVE UsedIsExact'
  <2>1. inflight[q] = Cost[q]
    BY SMTT(30), <1>8 DEF Push, Shape
  <2>2. (queued[q] + 1) * Cost[q] = queued[q] * Cost[q] + Cost[q]
    BY Times
  <2> QED
    BY SMTT(30), <1>a, <1>8, <2>1, <2>2 DEF Push, trackerVars, recordVars
<1>9. ASSUME NEW q \in Queues, PushFails(q) PROVE UsedIsExact'
  <2> USE <1>9
  <2> DEFINE have == cache[q]["tx"] + inflight[q]
  <2>1. /\ inflight' = [inflight EXCEPT ![q] = 0]
        /\ UNCHANGED <<live, queued, busy>>
    BY DEF PushFails, rxVars
  <2>2. q \in live => Found(q, "tx")
    BY SMTT(30) DEF PushFails, Shape, Found
  <2>3. CASE have > MaxCache /\ q \in live
    <3> USE <2>3
    <3>1. /\ cache' = [cache EXCEPT ![q]["tx"] = TargetReleasing]
          /\ used' = [used EXCEPT ![q] = Minus(@, have - TargetReleasing)]
      BY <2>2 DEF PushFails, GiveBack
    <3>2. used'[q] = used[q] - (have - TargetReleasing)
      BY SMTT(30), <1>a, <3>1 DEF Minus
    <3> QED
      BY SMTT(30), <1>a, <2>1, <3>1, <3>2
  <2>4. CASE ~(have > MaxCache)
    <3>1. cache' = [cache EXCEPT ![q]["tx"] = have] /\ used' = used
      BY <2>4 DEF PushFails
    <3> QED
      BY SMTT(30), <1>a, <2>1, <2>4, <3>1
  <2>5. CASE have > MaxCache /\ q \notin live
    <3>1. cache' = [cache EXCEPT ![q]["tx"] = 0] /\ used' = used
      BY <2>5 DEF PushFails, GiveBack, Found
    <3> QED
      BY <1>a, <2>1, <2>5, <3>1
  <2> QED
    BY <2>3, <2>4, <2>5
<1>10. ASSUME NEW q \in Queues, DropSender(q) PROVE UsedIsExact'
  BY SMTT(30), <1>a, <1>10 DEF DropSender, AutoRelease, Minus, trackerVars, recordVars, rxVars
<1>11. ASSUME NEW q \in Queues, PollNext(q) PROVE UsedIsExact'
  <2>1. (queued[q] - 1) * Cost[q] = queued[q] * Cost[q] - Cost[q]
    BY <1>11, Times DEF PollNext
  <2> QED
    BY SMTT(30), <1>a, <1>11, <2>1 DEF PollNext, trackerVars, recordVars
<1>12. ASSUME NEW q \in Queues, PollReturns(q) PROVE UsedIsExact'
  <2>1. cache[q]["rx"] > MaxCache /\ (q \in live => Found(q, "rx"))
    BY <1>12 DEF PollReturns, Shape, Found
  <2> QED
    BY SMTT(30), <1>a, <1>12, <2>1 DEF PollReturns, GiveBack, Found, Minus, trackerVars
<1>13. ASSUME NEW q \in Queues, DestroyParticipant(q) PROVE UsedIsExact'
  <2>1. q \in live => Found(q, "rx")
    BY <1>13 DEF DestroyParticipant, Found, Shape
  <2> QED
    BY SMTT(30), <1>13, <2>1 DEF DestroyParticipant, AutoRelease, trackerVars, recordVars
<1>14. ASSUME NEW q \in Queues, CloseReceiver(q) PROVE UsedIsExact'
  BY <1>14 DEF CloseReceiver, Shape, trackerVars, recordVars, endVars
<1>15. ASSUME NEW q \in Queues, AnalyseParticip(q) PROVE UsedIsExact'
  <2>1. UNCHANGED <<cache, inflight, queued, busy>>
    BY <1>15 DEF AnalyseParticip, endVars, rxVars
  <2>2. \/ live' = live /\ used' = used
        \/ /\ live' = live \ {q}
           /\ used' = [p \in Queues |-> IF p \in {q} THEN 0 ELSE used[p]]
    BY <1>15 DEF AnalyseParticip, AutoRelease, recordVars
  <2>3. live' \subseteq live /\ \A p \in live' : used'[p] = used[p]
    BY <2>2
  <2> QED
    BY <2>1, <2>3
<1>16. ASSUME NEW q \in Queues, NEW kind, AskToReclaim(q, kind) PROVE UsedIsExact'
  BY <1>16 DEF AskToReclaim, trackerVars, recordVars
<1>17. CASE UNCHANGED vars
  BY <1>17 DEF vars, trackerVars, recordVars, endVars, rxVars
<1> QED
  BY <1>1, <1>2, <1>3, <1>4, <1>5, <1>6, <1>7, <1>8, <1>9, <1>10, <1>11, <1>12, <1>13, <1>14,
     <1>15, <1>16, <1>17, NextCases

-----------------------------------------------------------------------------
(* Accounts, the reclamation task and the queues *)

\* What the users of the tracker leave to the reclamation task: they take records
\* away only while the mutex is free.
LEMMA UsersFrame ==
  ASSUME AccountStep \/ \E q \in Queues : CallStep(q) \/ UserStep(q)
  PROVE  /\ UNCHANGED <<lock, poisoned, task, todo, heap, deferred, victims, asking, responses>>
         /\ lock = "free" \/ live' = live
         /\ wakeup' = wakeup \/ \E t, c : wakeup' = (wakeup \/ t > c.max)
<1>1. CASE AccountStep
  BY <1>1, ZenonT(60) DEF AccountStep, NewAccount, CloneAccount, DropAccount, Reconfigure, MaybeWakeup,
     taskVars
<1>2. ASSUME NEW q \in Queues, CallStep(q)
      PROVE  /\ UNCHANGED <<lock, poisoned, taskVars, wakeup>>
             /\ lock = "free" \/ live' = live
  BY <1>2, ZenonT(60) DEF CallStep, Construct, SetCallbacks, CheckCollapsing, Push, PushFails,
     PollReturns, DestroyParticipant, CloseReceiver, recordVars
<1>3. ASSUME NEW q \in Queues, UserStep(q)
      PROVE  /\ UNCHANGED <<lock, poisoned, taskVars>>
             /\ lock = "free" \/ live' = live
             /\ wakeup' = wakeup \/ \E t, c : wakeup' = (wakeup \/ t > c.max)
  <2>1. CASE StartSend(q)
    BY <2>1, ZenonT(60) DEF StartSend, ClaimCached, ClaimTracked, ClaimTotal, MaybeWakeup
  <2>2. CASE Register(q)
    BY <2>2, ZenonT(60) DEF Register, ClaimTotal, MaybeWakeup
  <2>3. CASE DropSender(q) \/ PollNext(q) \/ DropReceiver(q)
    BY <2>3, ZenonT(60) DEF DropSender, PollNext, DropReceiver, recordVars
  <2> QED
    BY <1>3, <2>1, <2>2, <2>3 DEF UserStep
<1> QED
  BY <1>1, <1>2, <1>3, ZenonT(60) DEF taskVars

\* What choose_victims leaves to the task.
LEMMA ChooseTask ==
  ASSUME NEW as \in SUBSET Accounts, NEW ps \in SUBSET Queues, NEW t, ChooseVictims(as, ps, t),
         LedgerTypes, TaskInv, QueueInv
  PROVE  /\ lock' = "free" /\ task' \in {"Wait", "GoodEnough", "Failed", "Notify"}
         /\ deferred' = {} /\ responses' = {} /\ heap' \subseteq heap
         /\ victims' \subseteq Queues \X {"temp", "queue"}
<1>1. lock' = "free" /\ deferred' = {} /\ responses' = {}
  BY DEF ChooseVictims
<1>2. task' \in {"Wait", "GoodEnough", "Failed", "Notify"} /\ heap' \subseteq heap
  BY DEF ChooseVictims
<1>3. victims' = victims \/ \E qs \in SUBSET ps : victims' = {<<q, particip[q]>> : q \in qs}
  <2>1. ASSUME NEW e \in heap, NEW chosen, NEW gone, chosen \subseteq ps,
               victims' = {<<q, particip[q]>> : q \in chosen \ gone}
        PROVE  \E qs \in SUBSET ps : victims' = {<<q, particip[q]>> : q \in qs}
    BY <2>1
  <2> QED
    BY <2>1 DEF ChooseVictims
<1>4. victims' \subseteq Queues \X {"temp", "queue"}
  BY SMTT(30), <1>3 DEF TaskInv, QueueInv
<1> QED
  BY <1>1, <1>2, <1>4

\* Every step keeps the task in order.
LEMMA NextTaskInv == LedgerInv /\ AccountInv /\ TaskInv /\ QueueInv /\ [Next]_vars => TaskInv'
<1> SUFFICES ASSUME LedgerInv, AccountInv, TaskInv, QueueInv, [Next]_vars PROVE TaskInv'
  OBVIOUS
<1>0. LedgerTypes /\ HandlesCounted
  BY DEF LedgerInv
<1>1. CASE AccountStep \/ \E q \in Queues : CallStep(q) \/ UserStep(q)
  <2>1. /\ UNCHANGED <<lock, poisoned, task, todo, heap, deferred, victims, asking, responses>>
        /\ lock = "free" \/ live' = live
    BY <1>1, UsersFrame
  <2>2. wakeup' \in BOOLEAN
    BY <1>1, UsersFrame DEF TaskInv
  <2>3. todo' \subseteq live'
    BY <2>1 DEF TaskInv
  <2> QED
    BY <2>1, <2>2, <2>3 DEF TaskInv
<1>2. CASE WokenUp
  <2> /\ task \in {"Wait", "GoodEnough"} /\ task' = "Start" /\ wakeup' = FALSE
      /\ UNCHANGED <<lock, poisoned, live, todo, heap, deferred, victims, asking, responses>>
    BY <1>2 DEF WokenUp, recordVars
  <2>2. lock' = "free" /\ task' # "Analyse" /\ ~ poisoned /\ todo' = {}
    BY DEF TaskInv
  <2>3. wakeup' \in BOOLEAN
    OBVIOUS
  <2> QED
    BY <2>2, <2>3 DEF TaskInv
<1>3. CASE MaybeStart
  <2>1. /\ task = "Start" /\ lock = "free"
        /\ \/ task' = "Wait" /\ lock' = lock /\ todo' = todo
           \/ task' = "Analyse" /\ lock' = "task" /\ todo' = live
        /\ UNCHANGED <<wakeup, poisoned, live, heap, deferred, victims, asking, responses>>
    BY <1>3 DEF MaybeStart, recordVars
  <2> QED
    BY <2>1 DEF TaskInv
<1>4. ASSUME NEW q \in Queues, AnalyseParticip(q) PROVE TaskInv'
  <2>1. /\ task = "Analyse" /\ todo' = todo \ {q} /\ live' \in {live, live \ {q}}
        /\ deferred' \in {deferred, deferred \cup {q}}
        /\ heap' \in {heap, heap \cup {<<q, Home[q]>>}}
        /\ UNCHANGED <<lock, poisoned, wakeup, task, victims, asking, responses>>
    BY <1>4 DEF AnalyseParticip, AutoRelease, recordVars
  <2>2. todo' \subseteq live' /\ deferred' \subseteq Queues /\ heap' \subseteq Queues \X Accounts
    BY SMTT(30), <2>1, ForestAssumption DEF TaskInv
  <2> QED
    BY <2>1, <2>2 DEF TaskInv
<1>5. CASE FirstVictims
  <2> /\ ChooseVictims(accounts, live, total) /\ task = "Analyse" /\ todo = {}
      /\ UNCHANGED <<poisoned, wakeup, todo, asking>>
    BY <1>5 DEF FirstVictims
  <2>2. accounts \in SUBSET Accounts /\ live \in SUBSET Queues
    BY <1>0 DEF LedgerTypes
  <2>3. /\ lock' = "free" /\ task' \in {"Wait", "GoodEnough", "Failed", "Notify"}
        /\ deferred' = {} /\ responses' = {} /\ heap' \subseteq heap
        /\ victims' \subseteq Queues \X {"temp", "queue"}
    BY <1>0, <2>2, ChooseTask
  <2>4. ~ poisoned /\ todo' = {} /\ todo' \subseteq live'
    BY DEF TaskInv
  <2>5. /\ lock' \in {"free", "task"} /\ (lock' = "task" <=> task' = "Analyse")
        /\ task' \in {"Wait", "GoodEnough", "Start", "Analyse", "Notify", "Failed", "Crashed"}
        /\ deferred' \subseteq Queues /\ heap' \subseteq Queues \X Accounts
        /\ responses' \subseteq Accounts /\ asking' \in Queues \cup {None}
    BY <2>3 DEF TaskInv
  <2> QED
    BY <2>3, <2>4, <2>5 DEF TaskInv
<1>6. CASE HandleVictimResponses
  <2> DEFINE gone == {q \in live : Home[q] \in responses}
             as == accounts \ responses
             ps == live \ gone
             t == TotalWithout(total, gone)
  <2> /\ ChooseVictims(as, ps, t) /\ task = "Notify"
      /\ UNCHANGED <<poisoned, wakeup, todo, asking>>
    BY <1>6 DEF HandleVictimResponses
  <2>2. as \in SUBSET Accounts /\ ps \in SUBSET Queues
    BY <1>0 DEF LedgerTypes
  <2> HIDE DEF as, ps, t
  <2>3. /\ lock' = "free" /\ task' \in {"Wait", "GoodEnough", "Failed", "Notify"}
        /\ deferred' = {} /\ responses' = {} /\ heap' \subseteq heap
        /\ victims' \subseteq Queues \X {"temp", "queue"}
    BY <1>0, <2>2, ChooseTask
  <2>4. ~ poisoned /\ todo' = {} /\ todo' \subseteq live'
    BY DEF TaskInv
  <2>5. /\ lock' \in {"free", "task"} /\ (lock' = "task" <=> task' = "Analyse")
        /\ task' \in {"Wait", "GoodEnough", "Start", "Analyse", "Notify", "Failed", "Crashed"}
        /\ deferred' \subseteq Queues /\ heap' \subseteq Queues \X Accounts
        /\ responses' \subseteq Accounts /\ asking' \in Queues \cup {None}
    BY <2>3 DEF TaskInv
  <2> QED
    BY <2>3, <2>4, <2>5 DEF TaskInv
<1>7. ASSUME NEW q \in Queues, NEW kind, AskToReclaim(q, kind) \/ Reclaimed(q) PROVE TaskInv'
  <2>1. /\ victims' \subseteq victims /\ asking' \in {asking, q, None}
        /\ responses' \in {responses, responses \cup {Home[q]}}
        /\ UNCHANGED <<lock, poisoned, wakeup, live, task, todo, heap, deferred>>
    BY <1>7 DEF AskToReclaim, Reclaimed, recordVars
  <2>2. /\ victims' \subseteq Queues \X {"temp", "queue"} /\ asking' \in Queues \cup {None}
        /\ responses' \subseteq Accounts
    BY <2>1, ForestAssumption DEF TaskInv
  <2> QED
    BY <2>1, <2>2 DEF TaskInv
<1>8. CASE SetPoisoned
  <2>1. /\ task = "Failed" /\ lock = "free" /\ task' = "Crashed" /\ poisoned' = TRUE
        /\ UNCHANGED <<lock, wakeup, live, todo, heap, deferred, victims, asking, responses>>
    BY <1>8 DEF SetPoisoned, recordVars
  <2>2. poisoned' \in BOOLEAN
    BY <2>1
  <2> QED
    BY <2>1, <2>2 DEF TaskInv
<1>9. CASE UNCHANGED vars
  BY <1>9 DEF TaskInv, vars, recordVars, taskVars
<1> QED
  BY <1>1, <1>2, <1>3, <1>4, <1>5, <1>6, <1>7, <1>8, <1>9 DEF Next, TaskStep

\* Every step keeps the accounts in order.
LEMMA NextAccountInv == LedgerInv /\ AccountInv /\ [Next]_vars => AccountInv'
<1> SUFFICES ASSUME LedgerInv, AccountInv, [Next]_vars PROVE AccountInv'
  OBVIOUS
<1>0. /\ handles \in [Accounts -> Nat] /\ accounts \subseteq Accounts
      /\ \A a \in accounts : handles[a] > 0
  BY DEF AccountInv
<1>1. ASSUME NEW a \in Accounts, NewAccount(a) PROVE AccountInv'
  <2>1. /\ opened' = opened \cup {a} /\ accounts' = accounts \cup {a} /\ config' = config
        /\ handles' = [handles EXCEPT ![a] = 1]
    BY <1>1 DEF NewAccount
  <2> QED
    BY SMTT(30), <1>0, <2>1 DEF AccountInv
<1>2. ASSUME NEW a \in Accounts, CloneAccount(a) PROVE AccountInv'
  <2>1. /\ opened' = opened /\ accounts' = accounts /\ config' = config
        /\ handles' = [handles EXCEPT ![a] = @ + 1]
    BY <1>2 DEF CloneAccount
  <2> QED
    BY SMTT(30), <1>0, <2>1 DEF AccountInv
<1>3. ASSUME NEW a \in Accounts, DropAccount(a) PROVE AccountInv'
  <2> /\ opened' = opened /\ config' = config /\ a \in accounts
      /\ handles' = [handles EXCEPT ![a] = @ - 1]
      /\ handles[a] > 1 => accounts' = accounts
      /\ ~ (handles[a] > 1) => accounts' = accounts \ {a}
    BY <1>3 DEF DropAccount
  <2>2. handles' \in [Accounts -> Nat]
    BY SMTT(30), <1>0
  <2>3. \A b \in accounts' : handles'[b] > 0
    BY SMTT(30), <1>0
  <2> QED
    BY <2>2, <2>3 DEF AccountInv
<1>4. ASSUME NEW c \in Configs, Reconfigure(c) PROVE AccountInv'
  BY <1>4 DEF AccountInv, Reconfigure
<1>5. ASSUME NEW as \in SUBSET accounts, NEW ps, NEW t, ChooseVictims(as, ps, t), UNCHANGED <<opened, config>>
      PROVE  AccountInv'
  <2>1. /\ accounts' = as
        /\ handles' = [a \in Accounts |-> IF a \in as THEN handles[a] ELSE 0]
    BY <1>5 DEF ChooseVictims
  <2> QED
    BY <1>0, <1>5, <2>1 DEF AccountInv
<1>6. CASE FirstVictims
  <2>1. ChooseVictims(accounts, live, total) /\ UNCHANGED <<opened, config>>
    BY <1>6 DEF FirstVictims
  <2> QED
    BY <1>5, <2>1
<1>7. CASE HandleVictimResponses
  <2>1. \E ps, t : ChooseVictims(accounts \ responses, ps, t) /\ UNCHANGED <<opened, config>>
    BY <1>7 DEF HandleVictimResponses
  <2>2. accounts \ responses \in SUBSET accounts
    OBVIOUS
  <2> QED
    BY <1>5, <2>1, <2>2
<1>8. ASSUME UNCHANGED <<accounts, opened, handles, config>> PROVE AccountInv'
  BY <1>8 DEF AccountInv
<1>9. ASSUME NEW q \in Queues, CallStep(q) PROVE UNCHANGED <<accounts, opened, handles, config>>
  BY <1>9, ZenonT(60) DEF CallStep, Construct, SetCallbacks, CheckCollapsing, Push, PushFails,
     PollReturns, DestroyParticipant, CloseReceiver, trackerVars
<1>10. ASSUME NEW q \in Queues, UserStep(q) PROVE UNCHANGED <<accounts, opened, handles, config>>
  BY <1>10, ZenonT(60) DEF UserStep, Register, StartSend, DropSender, PollNext, DropReceiver, trackerVars
<1>11. ASSUME WokenUp \/ MaybeStart \/ SetPoisoned PROVE UNCHANGED <<accounts, opened, handles, config>>
  BY <1>11, ZenonT(60) DEF WokenUp, MaybeStart, SetPoisoned, trackerVars
<1>12. ASSUME NEW q \in Queues, NEW kind, AnalyseParticip(q) \/ Reclaimed(q) \/ AskToReclaim(q, kind)
       PROVE  UNCHANGED <<accounts, opened, handles, config>>
  BY <1>12, ZenonT(60) DEF AnalyseParticip, Reclaimed, AskToReclaim, trackerVars
<1>13. CASE UNCHANGED vars
  BY <1>8, <1>13 DEF vars, trackerVars
<1> QED
  BY <1>1, <1>2, <1>3, <1>4, <1>6, <1>7, <1>8, <1>9, <1>10, <1>11, <1>12, <1>13, ZenonT(60)
     DEF Next, AccountStep, TaskStep

\* Every step keeps what else is known of the queues.
LEMMA NextQueueInv == LedgerInv /\ QueueInv /\ [Next]_vars => QueueInv'
<1> SUFFICES ASSUME LedgerInv, QueueInv, [Next]_vars PROVE QueueInv'
  OBVIOUS
<1>0. /\ LedgerTypes /\ queued \in [Queues -> 0 .. MaxItems]
      /\ particip \in [Queues -> {"temp", "queue"}]
  BY DEF LedgerInv, QueueInv
<1>1. refcount' \in [Queues -> 0 .. 2]
  <2>1. LedgerTypes' /\ HandlesCounted'
    BY NextTypes, NextCounted
  <2>2. \A q \in Queues : q \notin live' => refcount'[q] \in {0, refcount[q]}
    <3>1. CASE UNCHANGED refcount
      BY <3>1
    <3>2. ASSUME NEW qs, AutoRelease(qs)
          PROVE  \A q \in Queues : q \notin live' => refcount'[q] \in {0, refcount[q]}
      BY <3>2 DEF AutoRelease
    <3>3. CASE FirstVictims \/ HandleVictimResponses
      <4>1. refcount' = [q \in Queues |-> IF q \in live' THEN refcount[q] ELSE 0]
        BY <3>3, VictimFacts DEF LedgerInv
      <4> QED
        BY <4>1
    <3>4. ASSUME NEW q \in Queues, Register(q) \/ Construct(q) \/ DropSender(q)
          PROVE  \A p \in Queues : p \notin live' => refcount'[p] \in {0, refcount[p]}
      <4>1. \/ UNCHANGED refcount \/ \E qs : AutoRelease(qs)
            \/ q \in live' /\ \E n : refcount' = [refcount EXCEPT ![q] = n]
        BY <3>4 DEF Register, Construct, DropSender, recordVars
      <4>2. ASSUME NEW n, refcount' = [refcount EXCEPT ![q] = n], q \in live'
            PROVE  \A p \in Queues : p \notin live' => refcount'[p] \in {0, refcount[p]}
        BY <1>0, <4>2 DEF LedgerTypes
      <4> QED
        BY <3>1, <3>2, <4>1, <4>2
    <3>5. ASSUME AccountStep
          PROVE  UNCHANGED refcount \/ \E qs : AutoRelease(qs)
      BY <3>5 DEF AccountStep, NewAccount, CloneAccount, DropAccount, Reconfigure, recordVars
    <3>6. ASSUME NEW q \in Queues,
                 SetCallbacks(q) \/ CheckCollapsing(q) \/ StartSend(q) \/ Push(q) \/ PushFails(q)
                   \/ PollNext(q) \/ PollReturns(q) \/ DropReceiver(q) \/ DestroyParticipant(q)
                   \/ CloseReceiver(q)
          PROVE  UNCHANGED refcount \/ \E qs : AutoRelease(qs)
      BY <3>6 DEF SetCallbacks, CheckCollapsing, StartSend, Push, PushFails, PollNext,
         PollReturns, DropReceiver, DestroyParticipant, CloseReceiver, recordVars
    <3>7. ASSUME NEW q \in Queues, NEW kind,
                 AnalyseParticip(q) \/ Reclaimed(q) \/ AskToReclaim(q, kind)
          PROVE  UNCHANGED refcount \/ \E qs : AutoRelease(qs)
      BY <3>7 DEF AnalyseParticip, Reclaimed, AskToReclaim, recordVars
    <3>8. ASSUME WokenUp \/ MaybeStart \/ SetPoisoned \/ UNCHANGED vars PROVE UNCHANGED refcount
      BY <3>8 DEF WokenUp, MaybeStart, SetPoisoned, recordVars, vars
    <3> QED
      BY <3>1, <3>2, <3>3, <3>4, <3>5, <3>6, <3>7, <3>8, ZenonT(60)
         DEF Next, TaskStep, CallStep, UserStep
  <2>3. \A q \in live' : refcount'[q] \in 0 .. 2
    BY SMTT(30), <2>1 DEF HandlesCounted
  <2>4. \A q \in Queues : refcount'[q] \in 0 .. 2
    BY SMTT(30), <2>2, <2>3 DEF QueueInv
  <2> QED
    BY <2>1, <2>4 DEF LedgerTypes
<1>2. particip' \in [Queues -> {"temp", "queue"}]
  <2>1. particip' = particip \/ \E q \in Queues : particip' = [particip EXCEPT ![q] = "queue"]
    <3>1. ASSUME AccountStep PROVE particip' = particip
      BY <3>1 DEF AccountStep, NewAccount, CloneAccount, DropAccount, Reconfigure
    <3>2. ASSUME NEW q \in Queues, CallStep(q)
          PROVE  particip' = particip \/ particip' = [particip EXCEPT ![q] = "queue"]
      BY <3>2, ZenonT(60) DEF CallStep, Construct, SetCallbacks, CheckCollapsing, Push, PushFails,
         PollReturns, DestroyParticipant, CloseReceiver, trackerVars
    <3>3. ASSUME NEW q \in Queues, UserStep(q) PROVE particip' = particip
      BY <3>3, ZenonT(60) DEF UserStep, Register, StartSend, DropSender, PollNext, DropReceiver,
         trackerVars
    <3>4. ASSUME TaskStep PROVE particip' = particip
      BY <3>4, ZenonT(60) DEF TaskStep, WokenUp, MaybeStart, FirstVictims, HandleVictimResponses,
         SetPoisoned, AnalyseParticip, Reclaimed, AskToReclaim, trackerVars
    <3> QED
      BY <3>1, <3>2, <3>3, <3>4 DEF Next, vars, trackerVars
  <2> QED
    BY <1>0, <2>1
<1>3. temp' \subseteq Queues /\ owned' \subseteq Queues /\ busy' \subseteq Queues
  <2> DEFINE Grows(q) == /\ temp' \subseteq temp \cup {q} /\ owned' \subseteq owned \cup {q}
                         /\ busy' \subseteq busy \cup {q}
  <2>1. ASSUME NEW q \in Queues, Grows(q) PROVE temp' \subseteq Queues /\ owned' \subseteq Queues /\ busy' \subseteq Queues
    BY <2>1 DEF QueueInv
  <2>2. ASSUME NEW q \in Queues, CallStep(q) PROVE Grows(q)
    BY <2>2, ZenonT(60) DEF CallStep, Construct, SetCallbacks, CheckCollapsing, Push, PushFails,
       PollReturns, DestroyParticipant, CloseReceiver, endVars, rxVars
  <2>3. ASSUME NEW q \in Queues, UserStep(q) PROVE Grows(q)
    BY <2>3, ZenonT(60) DEF UserStep, Register, StartSend, DropSender, PollNext, DropReceiver,
       endVars, rxVars
  <2>4. ASSUME NEW q \in Queues, NEW kind, AnalyseParticip(q) \/ Reclaimed(q) \/ AskToReclaim(q, kind)
        PROVE  Grows(q)
    BY <2>4, ZenonT(60) DEF AnalyseParticip, Reclaimed, AskToReclaim, endVars, rxVars
  <2>5. ASSUME \/ AccountStep \/ WokenUp \/ MaybeStart \/ FirstVictims \/ HandleVictimResponses
               \/ SetPoisoned \/ UNCHANGED vars
        PROVE  temp' = temp /\ owned' = owned /\ busy' = busy
    BY <2>5, ZenonT(60) DEF AccountStep, NewAccount, CloneAccount, DropAccount, Reconfigure, WokenUp,
       MaybeStart, FirstVictims, HandleVictimResponses, SetPoisoned, vars, endVars, rxVars
  <2> HIDE DEF Grows
  <2>6. CASE temp' = temp /\ owned' = owned /\ busy' = busy
    BY <2>6 DEF QueueInv
  <2> QED
    BY <2>1, <2>2, <2>3, <2>4, <2>5, <2>6, ZenonT(60) DEF Next, TaskStep
<1>4. queued' \in [Queues -> 0 .. MaxItems]
  <2>1. ASSUME NEW q \in Queues, Push(q) PROVE queued' \in [Queues -> 0 .. MaxItems]
    <3>1. queued[q] < MaxItems /\ queued' = [queued EXCEPT ![q] = @ + 1]
      BY <2>1 DEF Push
    <3> QED
      BY SMTT(30), <1>0, <3>1, RoomAssumption
  <2>2. ASSUME NEW q \in Queues, PollNext(q) PROVE queued' \in [Queues -> 0 .. MaxItems]
    <3>1. queued[q] > 0 /\ queued' = [queued EXCEPT ![q] = @ - 1]
      BY <2>2 DEF PollNext
    <3> QED
      BY SMTT(30), <1>0, <3>1, RoomAssumption
  <2>3. ASSUME NEW q \in Queues, CloseReceiver(q) PROVE queued' \in [Queues -> 0 .. MaxItems]
    <3>1. queued' = [queued EXCEPT ![q] = 0]
      BY <2>3 DEF CloseReceiver
    <3> QED
      BY SMTT(30), <1>0, <3>1, RoomAssumption
  <2>4. ASSUME NEW q \in Queues,
               \/ Construct(q) \/ SetCallbacks(q) \/ CheckCollapsing(q) \/ PushFails(q)
               \/ PollReturns(q) \/ DestroyParticipant(q)
               \/ Register(q) \/ StartSend(q) \/ DropSender(q) \/ DropReceiver(q)
        PROVE  queued' = queued
    BY <2>4, ZenonT(60) DEF Construct, SetCallbacks, CheckCollapsing, PushFails, PollReturns,
       DestroyParticipant, Register, StartSend, DropSender, DropReceiver, rxVars
  <2>5. ASSUME AccountStep \/ TaskStep \/ UNCHANGED vars PROVE queued' = queued
    BY <2>5, ZenonT(60) DEF AccountStep, NewAccount, CloneAccount, DropAccount, Reconfigure, TaskStep,
       WokenUp, MaybeStart, FirstVictims, HandleVictimResponses, SetPoisoned, AnalyseParticip,
       Reclaimed, AskToReclaim, vars, rxVars
  <2> QED
    BY <1>0, <2>1, <2>2, <2>3, <2>4, <2>5, ZenonT(60) DEF Next, CallStep, UserStep
<1> QED
  BY <1>1, <1>2, <1>3, <1>4 DEF QueueInv

-----------------------------------------------------------------------------
(* The total *)

\* What is left of a total that is right for the records ps, without those of qs.
LEMMA TotalOfRest ==
  ASSUME LedgerTypes, NEW ps \in SUBSET Queues, IsFiniteSet(ps), NEW qs \in SUBSET ps,
         NEW t \in Nat, poisoned \/ t = SumFunctionOnSet(used, ps)
  PROVE  /\ TotalWithout(t, qs) \in Nat /\ TotalWithout(t, qs) <= t
         /\ IsFiniteSet(ps \ qs)
         /\ poisoned \/ TotalWithout(t, qs) = SumFunctionOnSet(used, ps \ qs)
<1> DEFINE n == SumFunctionOnSet(used, qs)
           r == SumFunctionOnSet(used, ps \ qs)
<1>1. used \in [Queues -> Nat] /\ IsFiniteSet(qs) /\ IsFiniteSet(ps \ qs)
  BY FS_Subset DEF LedgerTypes
<1>2. n \in Nat /\ r \in Nat
  <2>1. qs \in SUBSET Queues /\ ps \ qs \in SUBSET Queues
    OBVIOUS
  <2> QED
    BY <1>1, <2>1, SumNat
<1>3. SumFunctionOnSet(used, ps) = n + r
  BY SMTT(30), <1>1, SumSplit
<1>4. TotalWithout(t, qs) = IF poisoned THEN t ELSE IF n > t THEN 0 ELSE t - n
  BY DEF TotalWithout, Lowered, Minus
<1> HIDE DEF n, r
<1>5. CASE poisoned
  BY SMTT(30), <1>1, <1>4, <1>5
<1>6. CASE ~ poisoned
  <2>1. t = n + r
    BY <1>3, <1>6
  <2>2. TotalWithout(t, qs) = r
    BY SMTT(30), <1>2, <1>4, <1>6, <2>1
  <2> QED
    BY SMTT(30), <1>1, <1>2, <2>1, <2>2 DEF r
<1> QED
  BY <1>5, <1>6

\* Removing records keeps the total right.
LEMMA ReleaseTotal ==
  ASSUME LedgerTypes, TotalInv, NEW qs \in SUBSET live, AutoRelease(qs), poisoned' = poisoned
  PROVE  TotalInv' /\ total' <= total
<1>1. live \in SUBSET Queues /\ IsFiniteSet(live) /\ total \in Nat
      /\ (poisoned \/ total = SumFunctionOnSet(used, live))
  BY DEF LedgerTypes, TotalInv, TotalIsSum
<1>2. /\ live' = live \ qs /\ total' = TotalWithout(total, qs)
      /\ used' = [q \in Queues |-> IF q \in qs THEN 0 ELSE used[q]]
  BY DEF AutoRelease
<1>3. /\ total' \in Nat /\ total' <= total /\ IsFiniteSet(live')
      /\ poisoned \/ total' = SumFunctionOnSet(used, live')
  BY <1>1, <1>2, TotalOfRest
<1>4. \A q \in live' : used'[q] = used[q]
  BY <1>1, <1>2
<1>5. SumFunctionOnSet(used', live') = SumFunctionOnSet(used, live')
  BY <1>3, <1>4, SumSame
<1> QED
  BY <1>3, <1>5 DEF TotalInv, TotalIsSum

\* Two functions that differ at one place have sums that differ by as much.
LEMMA SumChange ==
  ASSUME NEW Q, NEW f \in [Q -> Nat], NEW g \in [Q -> Nat], NEW S \in SUBSET Q, IsFiniteSet(S),
         NEW x \in S, \A y \in S \ {x} : g[y] = f[y]
  PROVE  \E r \in Nat : /\ SumFunctionOnSet(f, S) = f[x] + r
                        /\ SumFunctionOnSet(g, S) = g[x] + r
<1> DEFINE R == S \ {x}
           r == SumFunctionOnSet(f, R)
<1>1. IsFiniteSet(R) /\ R \in SUBSET Q /\ \A y \in R : f[y] = g[y]
  BY FS_Subset
<1>2. SumFunctionOnSet(f, S) = f[x] + r
  BY SMTT(30), SumTakeOut
<1>3. SumFunctionOnSet(g, S) = g[x] + SumFunctionOnSet(g, R)
  BY SMTT(30), SumTakeOut
<1> HIDE DEF R
<1>4. r \in Nat
  BY <1>1, SumNat
<1>5. SumFunctionOnSet(g, R) = r
  BY <1>1, SumSame
<1> HIDE DEF r
<1> QED
  BY <1>2, <1>3, <1>4, <1>5

\* So does changing one record and the total by as much.
LEMMA ChangeOne ==
  ASSUME LedgerTypes, TotalInv, NEW q \in live, NEW n \in Nat,
         used' = [used EXCEPT ![q] = n], live' = live, poisoned' = poisoned,
         poisoned => total' \in Nat, ~ poisoned => total' = total - used[q] + n
  PROVE  TotalInv'
<1>1. /\ live \in SUBSET Queues /\ IsFiniteSet(live) /\ q \in Queues
      /\ used \in [Queues -> Nat] /\ used' \in [Queues -> Nat]
  BY DEF LedgerTypes, TotalInv
<1>2. used'[q] = n /\ \A p \in live \ {q} : used'[p] = used[p]
  BY <1>1
<1>5. PICK r \in Nat : /\ SumFunctionOnSet(used, live) = used[q] + r
                         /\ SumFunctionOnSet(used', live) = used'[q] + r
  <2> DEFINE u == used'
  <2>1. u \in [Queues -> Nat] /\ \A p \in live \ {q} : u[p] = used[p]
    BY <1>1, <1>2
  <2> HIDE DEF u
  <2>2. \E r \in Nat : /\ SumFunctionOnSet(used, live) = used[q] + r
                       /\ SumFunctionOnSet(u, live) = u[q] + r
    BY SMTT(30), <1>1, <2>1, SumChange
  <2> QED
    BY <2>2 DEF u
<1>6. SumFunctionOnSet(used', live) = n + r
  BY <1>2, <1>5
<1>7. CASE poisoned
  BY <1>1, <1>7 DEF TotalInv, TotalIsSum
<1>8. CASE ~ poisoned
  <2>1. total = used[q] + r
    BY <1>5, <1>8 DEF TotalInv, TotalIsSum
  <2>2. total' = n + r
    BY SMTT(30), <1>1, <1>5, <1>8, <2>1
  <2>3. total' = SumFunctionOnSet(used', live') /\ total' \in Nat /\ IsFiniteSet(live')
    BY SMTT(30), <1>1, <1>5, <1>6, <2>2
  <2> QED
    BY <2>3 DEF TotalInv, TotalIsSum
<1> QED
  BY <1>7, <1>8

\* A release of n from a record that has as much.
LEMMA ReleasePart ==
  ASSUME LedgerTypes, TotalInv, NEW q \in live, NEW n \in Nat, n <= used[q],
         used' = [used EXCEPT ![q] = Minus(@, n)], total' = Lowered(total, n),
         live' = live, poisoned' = poisoned
  PROVE  TotalInv' /\ total' <= total
<1> /\ used \in [Queues -> Nat] /\ q \in Queues /\ live \in SUBSET Queues /\ IsFiniteSet(live)
    /\ total \in Nat
  BY DEF LedgerTypes, TotalInv
<1>2. Minus(used[q], n) = used[q] - n /\ used[q] - n \in Nat
  BY SMTT(30) DEF Minus
<1>3. used' = [used EXCEPT ![q] = used[q] - n]
  BY <1>2
<1>4. CASE poisoned
  <2>1. total' = total
    BY <1>4 DEF Lowered
  <2>2. TotalInv'
    <3> DEFINE m == used[q] - n
    <3>1. m \in Nat /\ used' = [used EXCEPT ![q] = m] /\ total' \in Nat
      BY <1>2, <1>3, <2>1
    <3> HIDE DEF m
    <3> QED
      BY <1>4, <3>1, ChangeOne
  <2> QED
    BY SMTT(30), <2>1, <2>2
<1>5. CASE ~ poisoned
  <2> USE <1>5
  <2>1. total = SumFunctionOnSet(used, live)
    BY DEF TotalInv, TotalIsSum
  <2>2. SumFunctionOnSet(used, live \ {q}) \in Nat
    <3>1. IsFiniteSet(live \ {q}) /\ live \ {q} \in SUBSET Queues
      BY FS_Subset
    <3> QED
      BY <3>1, SumNat
  <2>3. n <= total
    BY SMTT(30), <2>1, <2>2, SumTakeOut
  <2>4. total' = total - n
    BY SMTT(30), <2>3 DEF Lowered, Minus
  <2>5. TotalInv'
    <3> DEFINE m == used[q] - n
    <3>1. m \in Nat /\ used' = [used EXCEPT ![q] = m] /\ total' = total - used[q] + m
      BY SMTT(30), <1>2, <1>3, <2>4
    <3> HIDE DEF m
    <3> QED
      BY <3>1, ChangeOne
  <2> QED
    BY SMTT(30), <2>3, <2>4, <2>5
<1> QED
  BY <1>4, <1>5

\* choose_victims keeps the total right, and does not raise it.
LEMMA ChooseTotal ==
  ASSUME LedgerTypes, NEW as, NEW ps \in SUBSET Queues, IsFiniteSet(ps), NEW t \in Nat,
         poisoned \/ t = SumFunctionOnSet(used, ps), ChooseVictims(as, ps, t), poisoned' = poisoned
  PROVE  TotalInv' /\ total' <= t /\ (task' = "Wait" => total' <= config.low_water)
<1>1. \/ live' = ps /\ total' = t /\ (task' = "Wait" => t <= config.low_water)
      \/ /\ task' = "Notify"
         /\ \E gone \in SUBSET ps : live' = ps \ gone /\ total' = TotalWithout(t, gone)
  <2>1. ASSUME NEW e, NEW chosen, NEW gone, chosen \subseteq ps, gone \subseteq chosen,
               live' = ps \ gone, total' = TotalWithout(t, gone)
        PROVE  \E g \in SUBSET ps : live' = ps \ g /\ total' = TotalWithout(t, g)
    BY <2>1
  <2> QED
    BY <2>1, ZenonT(60) DEF ChooseVictims
<1> /\ total' \in Nat /\ total' <= t /\ IsFiniteSet(live') /\ live' \subseteq Queues
    /\ poisoned \/ total' = SumFunctionOnSet(used, live')
    /\ task' = "Wait" => total' <= config.low_water
  <2>1. CASE live' = ps /\ total' = t /\ (task' = "Wait" => t <= config.low_water)
    BY SMTT(30), <2>1
  <2>2. ASSUME NEW gone \in SUBSET ps, live' = ps \ gone, total' = TotalWithout(t, gone),
               task' = "Notify"
        PROVE  /\ total' \in Nat /\ total' <= t /\ IsFiniteSet(live') /\ live' \subseteq Queues
               /\ poisoned \/ total' = SumFunctionOnSet(used, live')
               /\ task' = "Wait" => total' <= config.low_water
    BY <2>2, TotalOfRest
  <2> QED
    BY <1>1, <2>1, <2>2
<1>3. used' = [q \in Queues |-> IF q \in live' THEN used[q] ELSE 0]
  BY ChooseFacts
<1>4. \A q \in live' : used'[q] = used[q]
  BY <1>3
<1>5. SumFunctionOnSet(used', live') = SumFunctionOnSet(used, live')
  BY <1>4, SumSame
<1> QED
  BY <1>5 DEF TotalInv, TotalIsSum

\* A step raises the total only by a claim, which looks whether to wake the task.
LowersOrLooks == total' <= total \/ wakeup' = (wakeup \/ total' > config.max)

\* A claim of n by queue q that has a record afterwards.
LEMMA ClaimKeepsTotal ==
  ASSUME LedgerTypes, GoneIsZero, TotalInv, NEW q \in Queues, NEW n \in Nat, ClaimTotal(q, n),
         live' = live \cup {q}, ~ poisoned, poisoned' = poisoned
  PROVE  TotalInv' /\ LowersOrLooks
<1>1. /\ live \in SUBSET Queues /\ IsFiniteSet(live) /\ used \in [Queues -> Nat] /\ total \in Nat
      /\ total = SumFunctionOnSet(used, live)
  BY DEF LedgerTypes, TotalInv, TotalIsSum
<1>2. used' = [used EXCEPT ![q] = @ + n] /\ total' = total + n
      /\ wakeup' = (wakeup \/ total + n > config.max)
  BY DEF ClaimTotal, MaybeWakeup
<1> DEFINE L == live \cup {q}
           u == used'
<1>3. /\ L \in SUBSET Queues /\ IsFiniteSet(L) /\ q \in L
      /\ u \in [Queues -> Nat] /\ u[q] = used[q] + n /\ \A p \in L \ {q} : u[p] = used[p]
  BY SMTT(30), <1>1, <1>2, FS_AddElement
<1>4. SumFunctionOnSet(used, L) = total
  <2>1. CASE q \in live
    <3>1. L = live
      BY <2>1
    <3> QED
      BY <1>1, <3>1
  <2>2. CASE q \notin live
    <3>1. used[q] = 0 /\ L \ {q} = live
      BY <2>2 DEF GoneIsZero
    <3> HIDE DEF L
    <3>2. SumFunctionOnSet(used, L) = used[q] + SumFunctionOnSet(used, L \ {q})
      BY SMTT(30), <1>1, <1>3, SumTakeOut
    <3> QED
      BY SMTT(30), <1>1, <3>1, <3>2
  <2> QED
    BY <2>1, <2>2
<1> HIDE DEF L, u
<1>5. PICK r \in Nat : SumFunctionOnSet(used, L) = used[q] + r /\ SumFunctionOnSet(u, L) = u[q] + r
  BY SMTT(30), <1>1, <1>3, SumChange
<1>6. total' = SumFunctionOnSet(u, L) /\ total' \in Nat
  BY SMTT(30), <1>1, <1>2, <1>3, <1>4, <1>5
<1>7. TotalInv'
  BY <1>3, <1>6 DEF TotalInv, TotalIsSum, L, u
<1> QED
  BY <1>2, <1>7 DEF LowersOrLooks

\* So does every step, and the task goes to sleep in choose_victims at low water only.
LEMMA NextTotal ==
  LedgerInv /\ TaskInv /\ TotalInv /\ [Next]_vars =>
    /\ TotalInv' /\ LowersOrLooks
    /\ FirstVictims \/ HandleVictimResponses => (task' = "Wait" => total' <= config.low_water)
<1> SUFFICES ASSUME LedgerInv, TaskInv, TotalInv, [Next]_vars
             PROVE  /\ TotalInv' /\ LowersOrLooks
                    /\ FirstVictims \/ HandleVictimResponses =>
                         (task' = "Wait" => total' <= config.low_water)
  OBVIOUS
<1>0. /\ LedgerTypes /\ Shape /\ GoneIsZero /\ HandlesCounted /\ UsedIsExact
      /\ live \in SUBSET Queues /\ IsFiniteSet(live) /\ total \in Nat
      /\ poisoned \/ total = SumFunctionOnSet(used, live)
  BY DEF LedgerInv, LedgerTypes, TotalInv, TotalIsSum
<1>a. \A q \in Queues : queued[q] * Cost[q] \in Nat
  BY <1>0, CostAssumption, Times DEF LedgerTypes
<1>s. ASSUME live' = live, used' = used, total' = total, poisoned => poisoned'
      PROVE  TotalInv' /\ LowersOrLooks
  <2>1. TotalInv'
    BY <1>0, <1>s DEF TotalInv, TotalIsSum
  <2>2. total' <= total
    BY SMTT(30), <1>0, <1>s
  <2> QED
    BY <2>1, <2>2 DEF LowersOrLooks
<1>l. ASSUME TotalInv', total' <= total PROVE TotalInv' /\ LowersOrLooks
  BY <1>l DEF LowersOrLooks
<1>1. ASSUME Elsewhere PROVE TotalInv' /\ LowersOrLooks
  <2>1. live' = live /\ used' = used /\ total' = total
    BY <1>1, ElsewhereFacts DEF recordVars
  <2>2. poisoned => poisoned'
    BY <1>1, ZenonT(60) DEF Elsewhere, NewAccount, CloneAccount, Reconfigure, WokenUp, MaybeStart,
       SetPoisoned, DropReceiver, Reclaimed
  <2> QED
    BY <1>s, <2>1, <2>2
<1>2. ASSUME NEW a \in Accounts, DropAccount(a) PROVE TotalInv' /\ LowersOrLooks
  <2> DEFINE qs == {q \in live : Home[q] = a}
  <2> poisoned' = poisoned /\ (AutoRelease(qs) \/ UNCHANGED recordVars)
    BY <1>2 DEF DropAccount
  <2>2. qs \in SUBSET live
    OBVIOUS
  <2> HIDE DEF qs
  <2>3. CASE AutoRelease(qs)
    BY <1>0, <1>l, <2>2, <2>3, ReleaseTotal
  <2>4. CASE UNCHANGED recordVars
    BY <1>s, <2>4 DEF recordVars
  <2> QED
    BY <2>3, <2>4
<1>3. ASSUME FirstVictims
      PROVE  TotalInv' /\ LowersOrLooks /\ (task' = "Wait" => total' <= config.low_water)
  <2>1. ChooseVictims(accounts, live, total) /\ poisoned' = poisoned
    BY <1>3 DEF FirstVictims
  <2>2. TotalInv' /\ total' <= total /\ (task' = "Wait" => total' <= config.low_water)
    BY <1>0, <2>1, ChooseTotal
  <2> QED
    BY <1>l, <2>2
<1>4. ASSUME HandleVictimResponses
      PROVE  TotalInv' /\ LowersOrLooks /\ (task' = "Wait" => total' <= config.low_water)
  <2> DEFINE gone == {q \in live : Home[q] \in responses}
             as == accounts \ responses
             ps == live \ gone
             t == TotalWithout(total, gone)
  <2>1. ChooseVictims(as, ps, t) /\ poisoned' = poisoned
    BY <1>4 DEF HandleVictimResponses
  <2>2. gone \in SUBSET live
    OBVIOUS
  <2> HIDE DEF gone, as
  <2>3. t \in Nat /\ t <= total /\ IsFiniteSet(ps) /\ (poisoned \/ t = SumFunctionOnSet(used, ps))
    BY <1>0, <2>2, TotalOfRest
  <2>4. ps \in SUBSET Queues
    BY <1>0
  <2> HIDE DEF ps, t
  <2>5. TotalInv' /\ total' <= t /\ (task' = "Wait" => total' <= config.low_water)
    BY <1>0, <2>1, <2>3, <2>4, ChooseTotal
  <2>6. total' <= total
    BY SMTT(30), <1>0, <2>3, <2>5 DEF TotalInv
  <2> QED
    BY <1>l, <2>5, <2>6
<1>5. ASSUME NEW q \in Queues, Register(q) PROVE TotalInv' /\ LowersOrLooks
  <2>1. /\ ~ poisoned /\ poisoned' = poisoned /\ live' = live \cup {q} /\ ClaimTotal(q, MaxCache)
    BY <1>5 DEF Register
  <2> QED
    BY <1>0, <2>1, MaxCacheAssumption, ClaimKeepsTotal
<1>6. ASSUME NEW q \in Queues, StartSend(q) PROVE TotalInv' /\ LowersOrLooks
  <2>1. live' = live /\ poisoned' = poisoned
    BY <1>6 DEF StartSend
  <2>2. CASE ClaimCached(q)
    BY <1>s, <2>1, <2>2 DEF ClaimCached
  <2>3. CASE ClaimTracked(q)
    <3> DEFINE fill == IF Cost[q] <= TargetClaiming THEN TargetClaiming - cache[q]["tx"] ELSE 0
               n == Cost[q] + fill
    <3> /\ ~ poisoned /\ q \in live /\ ClaimTotal(q, n) /\ cache[q]["tx"] < Cost[q]
      BY <2>3 DEF ClaimTracked, Found
    <3>2. n \in Nat
      BY SMTT(30), <1>0, CostAssumption, Targets DEF LedgerTypes, Ends
    <3>3. live' = live \cup {q}
      BY <2>1
    <3> HIDE DEF n
    <3> QED
      BY <1>0, <2>1, <3>2, <3>3, ClaimKeepsTotal
  <2> QED
    BY <1>6, <2>2, <2>3 DEF StartSend
<1>7. ASSUME NEW q \in Queues, NEW e \in Ends, NEW have \in Nat, have > MaxCache,
             q \in live => have <= used[q], GiveBack(q, e, have), live' = live, poisoned' = poisoned
      PROVE  TotalInv' /\ LowersOrLooks
  <2> USE <1>7
  <2> DEFINE n == have - TargetReleasing
  <2>1. CASE Found(q, e)
    <3>1. used' = [used EXCEPT ![q] = Minus(@, n)] /\ total' = Lowered(total, n) /\ q \in live
      BY <2>1 DEF GiveBack, Found
    <3>2. n \in Nat /\ n <= used[q]
      BY SMTT(30), <1>0, <3>1, Targets, MaxCacheAssumption DEF LedgerTypes
    <3> HIDE DEF n
    <3> QED
      BY <1>0, <1>l, <3>1, <3>2, ReleasePart
  <2>2. CASE ~ Found(q, e)
    BY <1>s, <2>2 DEF GiveBack
  <2> QED
    BY <2>1, <2>2
<1>8. ASSUME NEW q \in Queues, PushFails(q) PROVE TotalInv' /\ LowersOrLooks
  <2> USE <1>8
  <2> DEFINE have == cache[q]["tx"] + inflight[q]
  <2>1. live' = live /\ poisoned' = poisoned
    BY DEF PushFails
  <2>2. have \in Nat /\ (q \in live => have <= used[q])
    BY SMTT(30), <1>0, <1>a DEF LedgerTypes, UsedIsExact, Held, Ends
  <2>3. CASE have > MaxCache
    <3>1. GiveBack(q, "tx", have)
      BY <2>3 DEF PushFails
    <3> HIDE DEF have
    <3> QED
      BY <1>7, <2>1, <2>2, <2>3, <3>1 DEF Ends
  <2>4. CASE ~ (have > MaxCache)
    <3>1. used' = used /\ total' = total
      BY <2>4 DEF PushFails
    <3> QED
      BY <1>s, <2>1, <3>1
  <2> QED
    BY <2>3, <2>4
<1>9. ASSUME NEW q \in Queues, DropSender(q) PROVE TotalInv' /\ LowersOrLooks
  <2> DEFINE n == cache[q]["tx"]
             qs == {q}
  <2>1. poisoned' = poisoned
    BY <1>9 DEF DropSender
  <2>2. \/ UNCHANGED <<live, used, total>>
        \/ q \in live /\ AutoRelease(qs)
        \/ /\ q \in live /\ live' = live
           /\ used' = [used EXCEPT ![q] = Minus(@, n)] /\ total' = Lowered(total, n)
    BY <1>9 DEF DropSender, recordVars
  <2>3. q \in live => n \in Nat /\ n <= used[q] /\ qs \in SUBSET live
    BY SMTT(30), <1>0, <1>a DEF LedgerTypes, UsedIsExact, Held, Ends
  <2> HIDE DEF n, qs
  <2>4. CASE UNCHANGED <<live, used, total>>
    BY <1>s, <2>1, <2>4
  <2>5. CASE q \in live /\ AutoRelease(qs)
    BY <1>0, <1>l, <2>1, <2>3, <2>5, ReleaseTotal
  <2>6. CASE /\ q \in live /\ live' = live
             /\ used' = [used EXCEPT ![q] = Minus(@, n)] /\ total' = Lowered(total, n)
    BY <1>0, <1>l, <2>1, <2>3, <2>6, ReleasePart
  <2> QED
    BY <2>2, <2>4, <2>5, <2>6
<1>10. ASSUME NEW q \in Queues, PollReturns(q) PROVE TotalInv' /\ LowersOrLooks
  <2> DEFINE have == cache[q]["rx"]
  <2>1. live' = live /\ poisoned' = poisoned /\ q \in busy /\ GiveBack(q, "rx", have)
    BY <1>10 DEF PollReturns
  <2>2. have \in Nat /\ have > MaxCache /\ (q \in live => have <= used[q])
    BY SMTT(30), <1>0, <1>a, <2>1 DEF LedgerTypes, UsedIsExact, Held, Ends, Shape
  <2> HIDE DEF have
  <2> QED
    BY <1>7, <2>1, <2>2 DEF Ends
<1>11. ASSUME NEW q \in Queues, DestroyParticipant(q) \/ AnalyseParticip(q)
       PROVE  TotalInv' /\ LowersOrLooks
  <2> DEFINE qs == {q}
  <2>1. poisoned' = poisoned
    BY <1>11 DEF DestroyParticipant, AnalyseParticip
  <2>2. \/ UNCHANGED <<live, used, total>>
        \/ q \in live /\ AutoRelease(qs)
    BY <1>11 DEF DestroyParticipant, AnalyseParticip, Found, recordVars, TaskInv
  <2>3. q \in live => qs \in SUBSET live
    OBVIOUS
  <2> HIDE DEF qs
  <2>4. CASE UNCHANGED <<live, used, total>>
    BY <1>s, <2>1, <2>4
  <2>5. CASE q \in live /\ AutoRelease(qs)
    BY <1>0, <1>l, <2>1, <2>3, <2>5, ReleaseTotal
  <2> QED
    BY <2>2, <2>4, <2>5
<1>12. ASSUME NEW q \in Queues, NEW kind,
              \/ Construct(q) \/ SetCallbacks(q) \/ CheckCollapsing(q) \/ Push(q) \/ PollNext(q)
              \/ CloseReceiver(q) \/ AskToReclaim(q, kind)
       PROVE  TotalInv' /\ LowersOrLooks
  <2>1. UNCHANGED <<live, used, total, poisoned>>
    BY <1>12, ZenonT(60) DEF Construct, SetCallbacks, CheckCollapsing, Push, PollNext, CloseReceiver,
       AskToReclaim, recordVars
  <2> QED
    BY <1>s, <2>1
<1>13. ASSUME UNCHANGED vars PROVE TotalInv' /\ LowersOrLooks
  <2>1. live' = live /\ used' = used /\ total' = total /\ poisoned' = poisoned
    BY <1>13 DEF vars, recordVars
  <2> QED
    BY <1>s, <2>1
<1>14. TotalInv' /\ LowersOrLooks
  BY <1>1, <1>2, <1>3, <1>4, <1>5, <1>6, <1>8, <1>9, <1>10, <1>11, <1>12, <1>13, NextCases
<1> QED
  BY <1>3, <1>4, <1>14

-----------------------------------------------------------------------------
(* The theorems *)

\* Every step keeps the inductive invariant of the ledger.
LEMMA NextLedger == LedgerInv /\ [Next]_vars => LedgerInv'
  BY NextTypes, NextShape, NextCounted, NextUsed DEF LedgerInv

\* The inductive invariant of the ledger holds in every behaviour of the tracker,
\* its task and its queues.
LEMMA LedgerHolds == Spec => []LedgerInv
<1>1. Init => LedgerInv
  BY SMTT(30) DEF Init, LedgerInv, LedgerTypes, Shape, GoneIsZero, HandlesCounted, UsedIsExact, Ends
<1>2. LedgerInv /\ [Next]_vars => LedgerInv'
  BY NextLedger
<1> QED
  BY <1>1, <1>2, PTL DEF Spec

\* Whatever the senders, the receivers and the reclamation task do, the record of
\* a participant accounts exactly for the caches of its Participations and the
\* items of its queue: claim, release, clone and drop of Participation lose nothing.
THEOREM LedgerExact == Spec => []UsedIsExact
<1>1. LedgerInv => UsedIsExact
  BY DEF LedgerInv
<1> QED
  BY <1>1, LedgerHolds, PTL

\* The reference count of a participant's record is the number of Participations
\* that were counted in, and a record exists only in an account that exists: the
\* expectations of refcount.rs (no underflow, no entry that vanished early) hold.
THEOREM RecordsCounted == Spec => []HandlesCounted
<1>1. LedgerInv => HandlesCounted
  BY DEF LedgerInv
<1> QED
  BY <1>1, LedgerHolds, PTL

\* The inductive invariant of the whole tracker.
TrackerInv == LedgerInv /\ AccountInv /\ TaskInv /\ QueueInv /\ TotalInv

\* The invariant of the whole tracker holds in every behaviour of the tracker, its
\* task and its queues.
LEMMA TrackerHolds == Spec => []TrackerInv
<1>1. Init => TrackerInv
  <2>1. Init => LedgerInv
    BY SMTT(30) DEF Init, LedgerInv, LedgerTypes, Shape, GoneIsZero, HandlesCounted, UsedIsExact, Ends
  <2>2. Init => AccountInv /\ TaskInv
    <3>1. Init => AccountInv
      BY SMTT(30) DEF Init, AccountInv
    <3>2. Init => poisoned \in BOOLEAN /\ wakeup \in BOOLEAN /\ (poisoned => task = "Crashed")
      BY DEF Init
    <3>3. Init => TaskInv
      BY <3>2 DEF Init, TaskInv
    <3> QED
      BY <3>1, <3>3
  <2>3. Init => QueueInv
    BY SMTT(30), RoomAssumption DEF Init, QueueInv
  <2>4. Init => TotalInv
    <3> SUFFICES ASSUME Init PROVE TotalInv
      OBVIOUS
    <3>1. live = {} /\ total = 0
      BY DEF Init
    <3>2. SumFunctionOnSet(used, live) = 0 /\ IsFiniteSet(live)
      BY <3>1, SumEmpty, FS_EmptySet
    <3> QED
      BY <3>1, <3>2 DEF TotalInv, TotalIsSum
  <2> QED
    BY <2>1, <2>2, <2>3, <2>4 DEF TrackerInv
<1>2. TrackerInv /\ [Next]_vars => TrackerInv'
  BY NextLedger, NextAccountInv, NextTaskInv, NextQueueInv, NextTotal DEF TrackerInv
<1> QED
  BY <1>1, <1>2, PTL DEF Spec

\* Type correctness: what every operation of mtracker.rs, reclaim.rs and mq_queue.rs
\* leaves behind is in the range its declaration and its comments promise.
THEOREM TypeCorrect == Spec => []TypeOK
<1>1. TrackerInv => TypeOK
  BY DEF TrackerInv, LedgerInv, LedgerTypes, AccountInv, TaskInv, QueueInv, TotalInv, TypeOK
<1> QED
  BY <1>1, TrackerHolds, PTL

\* total_used is the sum of the records' used, for any number of queues and through
\* every way a record can go, until the task has poisoned it: the documented
\* invariant of TotalQtyNotifier.
THEOREM TotalExact == Spec => []TotalIsSum
<1>1. TrackerInv => TotalIsSum
  BY DEF TrackerInv, TotalInv
<1> QED
  BY <1>1, TrackerHolds, PTL

\* Every step keeps the promise of the wakeup: a claim or a reconfigure that leaves
\* the total above the maximum leaves an item in the channel as well, and the task
\* goes back to waiting only with the total at most at the maximum.
LEMMA NextWakeup ==
  TrackerInv /\ NeverSleepsOverQuota /\ [Next]_vars => NeverSleepsOverQuota'
<1> SUFFICES ASSUME TrackerInv, NeverSleepsOverQuota, [Next]_vars, task' = "Wait",
                    total' > config'.max
             PROVE  wakeup'
  BY DEF NeverSleepsOverQuota
<1>0. /\ LedgerInv /\ TaskInv /\ TotalInv /\ total \in Nat
      /\ config \in Configs \cup {InitConfig} /\ (poisoned => task = "Crashed")
  BY DEF TrackerInv, TotalInv, AccountInv, TaskInv
<1>a. /\ config.max \in Nat /\ config.low_water \in Nat /\ config.low_water <= config.max
  BY <1>0, ConfigAssumption
<1>b. /\ TotalInv' /\ LowersOrLooks
      /\ FirstVictims \/ HandleVictimResponses => total' <= config.low_water
  BY <1>0, NextTotal
<1>c. total' \in Nat
  BY <1>b DEF TotalInv
<1>1. ASSUME NEW c \in Configs, Reconfigure(c) PROVE wakeup'
  <2>1. task' = task /\ total' = total /\ config' = c
    BY <1>1 DEF Reconfigure, taskVars, recordVars
  <2>2. ~ poisoned
    BY <1>0, <2>1
  <2>3. wakeup' = (wakeup \/ total > c.max)
    BY <1>1, <2>2 DEF Reconfigure, MaybeWakeup
  <2> QED
    BY <2>1, <2>3
<1>2. ASSUME task' = task, config' = config, wakeup => wakeup' PROVE wakeup'
  <2> USE <1>2
  <2>1. CASE total' <= total
    <3>1. total > config.max
      BY SMTT(30), <1>0, <1>a, <1>c, <2>1
    <3> QED
      BY <3>1 DEF NeverSleepsOverQuota
  <2>2. CASE wakeup' = (wakeup \/ total' > config.max)
    BY <2>2
  <2> QED
    BY <1>b, <2>1, <2>2 DEF LowersOrLooks
<1>3. CASE AccountStep
  <2>1. CASE \E a \in Accounts : NewAccount(a) \/ CloneAccount(a) \/ DropAccount(a)
    <3>1. task' = task /\ config' = config /\ wakeup' = wakeup
      BY <2>1 DEF NewAccount, CloneAccount, DropAccount, taskVars
    <3> QED
      BY <1>2, <3>1
  <2> QED
    BY <1>1, <1>3, <2>1 DEF AccountStep
<1>4. ASSUME NEW q \in Queues, CallStep(q) PROVE wakeup'
  <2>1. task' = task /\ config' = config /\ wakeup' = wakeup
    BY <1>4, ZenonT(60) DEF CallStep, Construct, SetCallbacks, CheckCollapsing, Push, PushFails,
       PollReturns, DestroyParticipant, CloseReceiver, taskVars, trackerVars
  <2> QED
    BY <1>2, <2>1
<1>5. ASSUME NEW q \in Queues, UserStep(q) PROVE wakeup'
  <2>1. task' = task /\ config' = config
    BY <1>5, ZenonT(60) DEF UserStep, Register, StartSend, DropSender, PollNext, DropReceiver, taskVars,
       trackerVars
  <2>2. wakeup => wakeup'
    BY <1>5, ZenonT(60) DEF UserStep, Register, StartSend, DropSender, PollNext, DropReceiver,
       ClaimCached, ClaimTracked, ClaimTotal, MaybeWakeup
  <2> QED
    BY <1>2, <2>1, <2>2
<1>6. CASE FirstVictims \/ HandleVictimResponses
  <2>1. config' = config
    BY <1>6 DEF FirstVictims, HandleVictimResponses
  <2> QED
    BY SMTT(30), <1>6, <1>a, <1>b, <1>c, <2>1
<1>7. CASE MaybeStart
  <2>1. total <= config.max /\ total' = total /\ config' = config
    BY <1>7 DEF MaybeStart, recordVars, trackerVars
  <2> QED
    BY SMTT(30), <1>0, <1>a, <2>1
<1>8. CASE WokenUp \/ SetPoisoned
  BY <1>8 DEF WokenUp, SetPoisoned
<1>9. ASSUME NEW q \in Queues, NEW kind,
             AnalyseParticip(q) \/ Reclaimed(q) \/ AskToReclaim(q, kind)
      PROVE  wakeup'
  <2>1. task' = task /\ config' = config /\ wakeup' = wakeup
    BY <1>9, ZenonT(60) DEF AnalyseParticip, Reclaimed, AskToReclaim, trackerVars
  <2> QED
    BY <1>2, <2>1
<1>10. CASE UNCHANGED vars
  <2>1. task' = task /\ config' = config /\ wakeup' = wakeup
    BY <1>10 DEF vars, taskVars, trackerVars
  <2> QED
    BY <1>2, <2>1
<1>11. CASE TaskStep
  BY <1>6, <1>7, <1>8, <1>9, <1>11 DEF TaskStep
<1> QED
  BY <1>3, <1>4, <1>5, <1>10, <1>11 DEF Next

\* No wakeup is lost, whatever the maximum, the low-water mark, the number of queues
\* and the moment of the claim: the reclamation task never waits while the total is
\* over the maximum unless an item waits for it in the channel.
THEOREM NoLostWakeup == Spec => []NeverSleepsOverQuota
<1>1. Init => NeverSleepsOverQuota
  BY DEF Init, NeverSleepsOverQuota
<1> QED
  BY <1>1, TrackerHolds, NextWakeup, PTL DEF Spec
=============================================================================
