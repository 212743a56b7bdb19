-------------------------- MODULE TunnelMgrProofs ---------------------------
(***************************************************************************)
(* Proofs about TunnelMgr for any requests, usages, isolations and limits. *)
(* The inductive invariant comes first, with the parts about types and     *)
(* counters, what the lists, futures and advice refer to, and the tunnels  *)
(* given out; then who may wait for what; then the theorems.               *)
(***************************************************************************)
EXTENDS TunnelMgr, TLAPS

\* A leaf that names no prover is given to Zenon, for up to 30 seconds.
USE ZenonT(30)

\* TypeOK in parts: the specs, the lists and builds, the requests, the counters.
SpecTypes ==
    /\ iso \in [Builds -> SUBSET Groups]
    /\ kind \in [Builds -> {"Dir", "Exit", "NoUsage"}]
    /\ offers \in [Builds -> SUBSET Needs]
    /\ tent \in [Builds -> SUBSET Groups]
    /\ planned \in [Builds -> 0 .. MaxReconf]
    /\ live \in [Builds -> BOOLEAN]
BuildTypes ==
    /\ open \subseteq Builds
    /\ pending \subseteq Builds
    /\ build \in [Builds -> {"none", "planned", "building", "reply", "sent", "done"}]
    /\ result \in [Builds -> {"none", "ok", "CircCanceled"} \cup BuildErrors]
    /\ users \in [Builds -> SUBSET Requests]
RequestTypes ==
    /\ usage \in [Requests -> Usages]
    /\ pc \in [Requests -> {"start", "register", "wait", "error", "ok", "failed"}]
    /\ left \in [Requests -> SUBSET Builds]
    /\ advice \in [Requests -> SUBSET Builds]
    /\ errs \in [Requests -> SUBSET Errors]
LoopTypes ==
    /\ config \in 0 .. MaxReconf
    /\ reconf \in BOOLEAN
    /\ nFail \in [Requests -> 0 .. MaxTries]
    /\ nReset \in [Requests -> 0 .. MAX_RESETS]

\* Inside the loop a request has tries left, and no error is ever a reset.
CountersBounded ==
    \A r \in Requests :
        /\ nReset[r] = 0 /\ nFail[r] <= max_failures(usage[r])
        /\ pc[r] \in {"start", "register", "wait", "error"} => nFail[r] < max_failures(usage[r])

\* The tunnels of the next attempt have not been planned.
NumberedBuilds ==
    \A r \in Requests, b \in Builds : b[1] = r /\ build[b] # "none" =>
        IF pc[r] = "start" THEN b[2] <= nFail[r] ELSE b[2] <= nFail[r] + 1

\* A task has something to send once its build is over.
ResultsSet == \A b \in Builds : build[b] \in {"reply", "sent", "done"} => result[b] # "none"

\* Which builds the lists and the requests may name, and when.
Phases ==
    \A b \in Builds :
        /\ b \in pending => build[b] = "building"
        /\ b \in open => build[b] \in {"reply", "sent", "done"}
        /\ users[b] # {} => build[b] \in {"reply", "sent", "done"}
        /\ \A r \in Requests : b \in left[r] \cup advice[r] => build[b] \notin {"none", "planned"}

\* Only an attempt that is under way waits.
Waiters == \A r \in Requests : left[r] # {} => pc[r] \in {"register", "wait", "error"}

\* What a request waits for or is advised of can do what it asked.
OffersSuit ==
    \A b \in Builds, r \in Requests : b \in left[r] \cup advice[r] =>
        kind[b] = SpecKind(usage[r]) /\ Required(usage[r]) \subseteq offers[b]

\* A spec always leaves some use possible.
IsoNonEmpty == \A b \in Builds : iso[b] # {}

\* A tunnel is restricted to everything it was given out for.
GivenIso == \A b \in Builds : \A r \in users[b] : iso[b] \subseteq Isolation(usage[r])

\* The tentative assignment takes account of all who wait.
TentativeInv ==
    \A b \in Builds : build[b] \in {"planned", "building"} =>
        /\ tent[b] # {} /\ tent[b] \subseteq iso[b]
        /\ \A r \in Requests : b \in left[r] => tent[b] \subseteq Isolation(usage[r])

\* A request can use what it waits for unless another one has been given it.
UsableUnlessTaken ==
    \A b \in Builds, r \in Requests : b \in left[r] =>
        compatible(iso[b], Isolation(usage[r])) \/ users[b] \ {r} # {}

\* The attempts that launch tunnels are counted by max_failures, the tunnels of
\* each by launch_parallelism.
WithinLimits ==
    \A r \in Requests, b \in Builds : b[1] = r /\ build[b] # "none" =>
        b[2] <= max_failures(usage[r]) /\ b[3] <= Parallelism(usage[r])

\* The inductive invariant, in layers: each rests on the ones before.
LoopInv == TypeOK /\ CountersBounded /\ NumberedBuilds /\ ResultsSet
ListInv == LoopInv /\ Phases /\ Waiters
IndInv == /\ ListInv /\ OffersSuit /\ AnswerSuits /\ IsoNonEmpty /\ GivenIso
          /\ TentativeInv /\ UsableUnlessTaken /\ FreshRequestTunnels /\ WithinLimits

-----------------------------------------------------------------------------
\* The number of tries is positive and at most request_max_retries.
LEMMA MaxFailuresBounds == \A u \in Usages : max_failures(u) \in 1 .. MaxTries
<1> SUFFICES ASSUME NEW u \in Usages PROVE max_failures(u) \in 1 .. MaxTries
  OBVIOUS
<1> DEFINE p == Parallelism(u)
           q == max_failures(u)
<1> p \in Nat \ {0} /\ MaxTries \in Nat \ {0}
  BY SMTT(30), NumbersAssumption DEF Parallelism
<1> HIDE DEF p
<1>2. q = (MaxTries + p - 1) \div p
  BY DEF max_failures, p
<1> q \in Int /\ p * q <= MaxTries + p - 1 /\ MaxTries + p - 1 < p * q + p
  BY SMTT(30), <1>2
<1> HIDE DEF q
<1>4. q >= 1
  <2>1. CASE q <= 0
    <3>1. p * q <= 0
      BY SMTT(30), <2>1
    <3> QED
      BY SMTT(30), <3>1
  <2> QED
    BY SMTT(30), <2>1
<1>5. q <= MaxTries
  <2>1. CASE q >= MaxTries + 1
    <3>1. p * q >= p * (MaxTries + 1)
      BY SMTT(30), <2>1
    <3>2. p * (MaxTries + 1) = p * MaxTries + p
      BY SMTT(30)
    <3>3. p * MaxTries >= MaxTries
      BY SMTT(30)
    <3> QED
      BY SMTT(30), <3>1, <3>2, <3>3
  <2> QED
    BY SMTT(30), <2>1
<1> QED
  BY SMTT(30), <1>4, <1>5 DEF q

\* Attempts are numbers.
LEMMA BuildNumbers == \A b \in Builds : b[2] \in Nat
BY SMTT(30), NumbersAssumption DEF Builds

\* A request that is about to plan its next attempt names builds that exist and
\* have not been used.
LEMMA FreshBuilds ==
    ASSUME LoopInv, NEW r \in Requests, pc[r] = "start"
    PROVE  \A b \in NewBuilds(r) : b \in Builds /\ b[1] = r /\ b[2] = nFail[r] + 1 /\ build[b] = "none"
<1>1. usage[r] \in Usages /\ nFail[r] \in Nat /\ nReset[r] = 0
  BY SMTT(30) DEF LoopInv, TypeOK, CountersBounded
<1>2. nFail[r] < max_failures(usage[r]) /\ max_failures(usage[r]) \in 1 .. MaxTries
  BY <1>1, MaxFailuresBounds DEF LoopInv, CountersBounded
<1>3. Attempt(r) = nFail[r] + 1 /\ Attempt(r) \in 1 .. MaxTries + MAX_RESETS
  BY SMTT(30), <1>1, <1>2, NumbersAssumption DEF Attempt
<1>4. 1 .. Parallelism(usage[r]) \subseteq 1 .. DirParallelism
  BY SMTT(30), NumbersAssumption DEF Parallelism
<1> SUFFICES ASSUME NEW k \in 1 .. Parallelism(usage[r]), NEW b, b = <<r, Attempt(r), k>>
             PROVE  b \in Builds /\ b[1] = r /\ b[2] = nFail[r] + 1 /\ build[b] = "none"
  BY DEF NewBuilds
<1>5. b \in Builds /\ b[1] = r /\ b[2] = nFail[r] + 1
  BY <1>3, <1>4 DEF Builds
<1>6. ~ (b[2] <= nFail[r])
  BY SMTT(30), <1>1, <1>5
<1> QED
  BY <1>5, <1>6 DEF LoopInv, NumberedBuilds

\* What PrepareBuild(r) does to the builds in new, which it plans.
Launched(r, new) ==
    /\ \A b \in new : b[1] = r /\ b[2] = nFail[r] + 1 /\ build[b] = "none"
    /\ \A b \in new : /\ kind'[b] = SpecKind(usage[r]) /\ Required(usage[r]) \subseteq offers'[b]
                      /\ iso'[b] = Isolation(usage[r]) /\ tent'[b] = Isolation(usage[r])
                      /\ planned'[b] = config
    /\ \A b \in Builds \ new : /\ kind'[b] = kind[b] /\ offers'[b] = offers[b] /\ iso'[b] = iso[b]
                               /\ tent'[b] = tent[b] /\ planned'[b] = planned[b]
    /\ \A b \in Builds : build'[b] = IF b \in new THEN "building" ELSE build[b]
    /\ pending' = pending \cup new
    /\ \A x \in Requests : left'[x] = IF x = r THEN new ELSE left[x]

\* A request that builds plans tunnels that nobody knows yet.
LEMMA LaunchedFacts ==
    ASSUME LoopInv, NEW r \in Requests, PrepareBuild(r)
    PROVE  \E new \in SUBSET Builds : Launched(r, new)
<1>1. \A b \in NewBuilds(r) : b \in Builds /\ b[1] = r /\ b[2] = nFail[r] + 1 /\ build[b] = "none"
  BY FreshBuilds DEF PrepareBuild
<1> PICK new \in SUBSET NewBuilds(r) :
          /\ \E o \in [new -> {s \in SUBSET Needs : Required(usage[r]) \subseteq s}] :
                Plan(new, SpecKind(usage[r]), Isolation(usage[r]), o)
          /\ pending' = pending \cup new
          /\ build' = [b \in Builds |-> IF b \in new THEN "building" ELSE build[b]]
          /\ left' = [left EXCEPT ![r] = new]
  BY DEF PrepareBuild
<1>3. new \in SUBSET Builds /\ left \in [Requests -> SUBSET Builds]
  BY <1>1 DEF LoopInv, TypeOK
<1>4. PICK o \in [new -> {s \in SUBSET Needs : Required(usage[r]) \subseteq s}] :
            Plan(new, SpecKind(usage[r]), Isolation(usage[r]), o)
  OBVIOUS
<1>5. \A b \in new : b \in Builds /\ Required(usage[r]) \subseteq o[b]
  BY <1>3, <1>4
<1>6. \A b \in new : /\ kind'[b] = SpecKind(usage[r]) /\ Required(usage[r]) \subseteq offers'[b]
                     /\ iso'[b] = Isolation(usage[r]) /\ tent'[b] = Isolation(usage[r])
                     /\ planned'[b] = config
  BY <1>4, <1>5 DEF Plan
<1>7. \A b \in Builds \ new : /\ kind'[b] = kind[b] /\ offers'[b] = offers[b] /\ iso'[b] = iso[b]
                              /\ tent'[b] = tent[b] /\ planned'[b] = planned[b]
  BY <1>4 DEF Plan
<1>8. \A b \in new : b[1] = r /\ b[2] = nFail[r] + 1 /\ build[b] = "none"
  BY <1>1
<1>9. /\ \A b \in Builds : build'[b] = IF b \in new THEN "building" ELSE build[b]
      /\ \A x \in Requests : left'[x] = IF x = r THEN new ELSE left[x]
  BY <1>3
<1> QED
  BY <1>3, <1>6, <1>7, <1>8, <1>9 DEF Launched

\* The tunnel of a timeout-testing launch.
TestBuild(l) == <<l, 1, 1>>

\* What PlanTest(l) does.
TestPlanned(l) ==
    /\ TestBuild(l) \in Builds /\ build[TestBuild(l)] = "none"
    /\ iso'[TestBuild(l)] = Groups /\ tent'[TestBuild(l)] = Groups
    /\ \A b \in Builds \ {TestBuild(l)} :
          /\ kind'[b] = kind[b] /\ offers'[b] = offers[b] /\ iso'[b] = iso[b]
          /\ tent'[b] = tent[b] /\ planned'[b] = planned[b]
    /\ build' = [build EXCEPT ![TestBuild(l)] = "planned"]

\* The tunnel of launch_by_usage has a name of its own.
LEMMA TestBuilds == \A l \in Tests : TestBuild(l) \in Builds
BY SMTT(30), NumbersAssumption DEF TestBuild, Builds

\* launch_by_usage plans its tunnel without touching the others.
LEMMA TestFacts == ASSUME NEW l \in Tests, PlanTest(l) PROVE TestPlanned(l)
<1> DEFINE b == TestBuild(l)
<1>1. b \in Builds /\ build[b] = "none" /\ build' = [build EXCEPT ![b] = "planned"]
  BY TestBuilds DEF PlanTest, TestBuild
<1>2. PICK k \in {"Exit", "NoUsage"}, o \in [{b} -> SUBSET Needs] : Plan({b}, k, Groups, o)
  BY DEF PlanTest, TestBuild
<1> HIDE DEF b
<1>3. iso'[b] = Groups /\ tent'[b] = Groups
  BY <1>1, <1>2 DEF Plan
<1>4. \A c \in Builds \ {b} : /\ kind'[c] = kind[c] /\ offers'[c] = offers[c] /\ iso'[c] = iso[c]
                              /\ tent'[c] = tent[c] /\ planned'[c] = planned[c]
  BY <1>2 DEF Plan
<1> QED
  BY <1>1, <1>3, <1>4 DEF TestPlanned, b

\* Every step keeps the specs of the tunnels in their types.
LEMMA NextSpecTypes == LoopInv /\ [Next]_vars => SpecTypes'
<1> SUFFICES ASSUME LoopInv, [Next]_vars PROVE SpecTypes'
  OBVIOUS
<1> /\ iso \in [Builds -> SUBSET Groups]
    /\ kind \in [Builds -> {"Dir", "Exit", "NoUsage"}]
    /\ offers \in [Builds -> SUBSET Needs] /\ tent \in [Builds -> SUBSET Groups]
    /\ planned \in [Builds -> 0 .. MaxReconf] /\ live \in [Builds -> BOOLEAN]
    /\ open \subseteq Builds /\ pending \subseteq Builds /\ config \in 0 .. MaxReconf
    /\ usage \in [Requests -> Usages]
  BY DEF LoopInv, TypeOK
<1> USE DEF SpecTypes, listVars, specVars, buildVars, confVars, loopVars, GoTo
<1>1. ASSUME NEW r \in Requests, PrepareOpen(r) PROVE SpecTypes'
  BY SMTT(30), <1>1 DEF PrepareOpen, find_open, restrict_mut
<1>2. ASSUME NEW r \in Requests, PrepareWait(r) PROVE SpecTypes'
  BY SMTT(30), <1>2 DEF PrepareWait, find_pending_tunnels, tentative_restrict_mut
<1>3. ASSUME NEW r \in Requests, PrepareBuild(r) PROVE SpecTypes'
  <2> USE <1>3
  <2>1. \A b \in NewBuilds(r) : b \in Builds
    BY FreshBuilds DEF PrepareBuild
  <2> PICK new \in SUBSET NewBuilds(r) :
            /\ \E o \in [new -> {s \in SUBSET Needs : Required(usage[r]) \subseteq s}] :
                  Plan(new, SpecKind(usage[r]), Isolation(usage[r]), o)
            /\ pending' = pending \cup new
            /\ build' = [b \in Builds |-> IF b \in new THEN "building" ELSE build[b]]
            /\ left' = [left EXCEPT ![r] = new]
    BY DEF PrepareBuild
  <2>3. new \subseteq Builds /\ usage[r] \in Usages
    BY <2>1
  <2>4. Isolation(usage[r]) \subseteq Groups
    BY <2>3, UsagesAssumption
  <2>5. kind' \in [Builds -> {"Dir", "Exit", "NoUsage"}]
    BY <2>3 DEF Plan, SpecKind
  <2>6. iso' \in [Builds -> SUBSET Groups] /\ tent' \in [Builds -> SUBSET Groups]
    BY SMTT(30), <2>4 DEF Plan
  <2>7. planned' \in [Builds -> 0 .. MaxReconf]
    BY DEF Plan
  <2>8. offers' \in [Builds -> SUBSET Needs]
    BY DEF Plan
  <2> QED
    BY <2>5, <2>6, <2>7, <2>8 DEF PrepareBuild
<1>4. ASSUME NEW r \in Requests, PrepareError(r) \/ TakeActionError(r) \/ Timeout(r) \/
      Register(r) \/ LeftExhausted(r) PROVE SpecTypes'
  BY <1>4 DEF PrepareError, TakeActionError, Timeout, Register, LeftExhausted
<1>5. ASSUME NEW r \in Requests, NEW b \in Builds, LeftUse(r, b) PROVE SpecTypes'
  BY <1>5 DEF LeftUse, Take, LeftReady, restrict_mut
<1>6. ASSUME NEW r \in Requests, NEW b \in Builds, RightUse(r, b) PROVE SpecTypes'
  BY <1>6 DEF RightUse, Take, RightReady, restrict_mut
<1>7. ASSUME NEW r \in Requests, NEW b \in Builds, LeftLost(r, b) \/ LeftGone(r, b) \/
      LeftError(r, b) \/ LeftCanceled(r, b) \/ RightUseless(r, b) PROVE SpecTypes'
  BY <1>7 DEF LeftLost, LeftGone, LeftError, LeftCanceled, RightUseless
<1>8. ASSUME NEW b \in Builds, TunnelCloses(b) PROVE SpecTypes'
  BY <1>8 DEF TunnelCloses
<1>9. ASSUME NEW b \in Builds, Built(b) \/ BuildFailed(b) \/ BuildDropped(b) \/ Send(b) \/
      Notify(b) \/ take_open(b) PROVE SpecTypes'
  BY <1>9 DEF Built, BuildFailed, BuildDropped, Send, Notify, take_open
<1>10. ASSUME NEW l \in Tests, PlanTest(l) PROVE SpecTypes'
  <2>1. TestBuild(l) \in Builds
    BY TestBuilds
  <2> PICK k \in {"Exit", "NoUsage"}, o \in [{TestBuild(l)} -> SUBSET Needs] :
            Plan({TestBuild(l)}, k, Groups, o)
    BY <1>10 DEF PlanTest, TestBuild
  <2>3. kind' \in [Builds -> {"Dir", "Exit", "NoUsage"}]
    BY DEF Plan
  <2>4. iso' \in [Builds -> SUBSET Groups] /\ tent' \in [Builds -> SUBSET Groups]
    BY DEF Plan
  <2>5. planned' \in [Builds -> 0 .. MaxReconf]
    BY DEF Plan
  <2>6. offers' \in [Builds -> SUBSET Needs]
    BY <2>1 DEF Plan
  <2> QED
    BY <1>10, <2>3, <2>4, <2>5, <2>6 DEF PlanTest
<1>11. ASSUME NEW l \in Tests, LaunchTest(l) PROVE SpecTypes'
  BY <1>11 DEF LaunchTest
<1>12. ASSUME set_path_config \/ retire_all_tunnels PROVE SpecTypes'
  BY <1>12 DEF set_path_config, retire_all_tunnels
<1>13. ASSUME UNCHANGED vars PROVE SpecTypes'
  BY <1>13 DEF vars
<1> QED
  BY <1>1, <1>2, <1>3, <1>4, <1>5, <1>6, <1>7, <1>8, <1>9, <1>10, <1>11, <1>12, <1>13 DEF
     Next, RequestStep, BuildStep, Finished

\* Every step keeps the lists and the state of the builds in their types.
LEMMA NextBuildTypes == LoopInv /\ [Next]_vars => BuildTypes'
<1> SUFFICES ASSUME LoopInv, [Next]_vars PROVE BuildTypes'
  OBVIOUS
<1> /\ open \subseteq Builds /\ pending \subseteq Builds
    /\ build \in [Builds -> {"none", "planned", "building", "reply", "sent", "done"}]
    /\ result \in [Builds -> {"none", "ok", "CircCanceled"} \cup BuildErrors]
    /\ users \in [Builds -> SUBSET Requests] /\ usage \in [Requests -> Usages]
  BY DEF LoopInv, TypeOK
<1> USE DEF BuildTypes, listVars, specVars, buildVars, confVars, loopVars, GoTo
<1>1. ASSUME NEW r \in Requests, PrepareOpen(r) PROVE BuildTypes'
  BY SMTT(30), <1>1 DEF PrepareOpen, find_open
<1>2. ASSUME NEW r \in Requests, PrepareBuild(r) PROVE BuildTypes'
  <2> USE <1>2
  <2>1. \A b \in NewBuilds(r) : b \in Builds
    BY FreshBuilds DEF PrepareBuild
  <2>2. PICK new \in SUBSET NewBuilds(r) :
              /\ \E o \in [new -> {s \in SUBSET Needs : Required(usage[r]) \subseteq s}] :
                    Plan(new, SpecKind(usage[r]), Isolation(usage[r]), o)
              /\ pending' = pending \cup new
              /\ build' = [b \in Builds |-> IF b \in new THEN "building" ELSE build[b]]
              /\ left' = [left EXCEPT ![r] = new]
    BY DEF PrepareBuild
  <2>3. new \subseteq Builds /\ usage[r] \in Usages
    BY <2>1, <2>2
  <2> QED
    BY <2>2, <2>3 DEF PrepareBuild
<1>3. ASSUME NEW r \in Requests, PrepareWait(r) \/ PrepareError(r) \/ TakeActionError(r) \/
      Timeout(r) \/ Register(r) \/ LeftExhausted(r) PROVE BuildTypes'
  BY <1>3 DEF PrepareWait, PrepareError, TakeActionError, Timeout, Register, LeftExhausted
<1>4. ASSUME NEW r \in Requests, NEW b \in Builds, LeftUse(r, b) PROVE BuildTypes'
  BY <1>4 DEF LeftUse, Take, LeftReady
<1>5. ASSUME NEW r \in Requests, NEW b \in Builds, RightUse(r, b) PROVE BuildTypes'
  BY <1>5 DEF RightUse, Take, RightReady
<1>6. ASSUME NEW r \in Requests, NEW b \in Builds, LeftLost(r, b) \/ LeftGone(r, b) \/
      LeftError(r, b) \/ LeftCanceled(r, b) \/ RightUseless(r, b) PROVE BuildTypes'
  BY <1>6 DEF LeftLost, LeftGone, LeftError, LeftCanceled, RightUseless
<1>7. ASSUME NEW b \in Builds, Built(b) PROVE BuildTypes'
  BY <1>7 DEF Built
<1>8. ASSUME NEW b \in Builds, BuildFailed(b) PROVE BuildTypes'
  BY <1>8 DEF BuildFailed
<1>9. ASSUME NEW b \in Builds, BuildDropped(b) PROVE BuildTypes'
  BY <1>9 DEF BuildDropped
<1>10. ASSUME NEW b \in Builds, Send(b) PROVE BuildTypes'
  BY <1>10 DEF Send
<1>11. ASSUME NEW b \in Builds, Notify(b) PROVE BuildTypes'
  BY <1>11 DEF Notify
<1>12. ASSUME NEW b \in Builds, take_open(b) PROVE BuildTypes'
  BY <1>12 DEF take_open
<1>13. ASSUME NEW b \in Builds, TunnelCloses(b) PROVE BuildTypes'
  BY <1>13 DEF TunnelCloses
<1>14. ASSUME NEW l \in Tests, PlanTest(l) PROVE BuildTypes'
  <2>1. TestBuild(l) \in Builds
    BY TestBuilds
  <2>2. PICK k \in {"Exit", "NoUsage"}, o \in [{TestBuild(l)} -> SUBSET Needs] :
              Plan({TestBuild(l)}, k, Groups, o)
    BY <1>14 DEF PlanTest, TestBuild
  <2> QED
    BY <1>14, <2>1 DEF PlanTest
<1>15. ASSUME NEW l \in Tests, LaunchTest(l) PROVE BuildTypes'
  <2>1. TestBuild(l) \in Builds
    BY TestBuilds
  <2> QED
    BY <1>15, <2>1 DEF LaunchTest, TestBuild
<1>16. ASSUME retire_all_tunnels PROVE BuildTypes'
  BY <1>16 DEF retire_all_tunnels
<1>17. ASSUME set_path_config PROVE BuildTypes'
  BY <1>17 DEF set_path_config
<1>18. ASSUME UNCHANGED vars PROVE BuildTypes'
  BY <1>18 DEF vars
<1> QED
  BY <1>1, <1>2, <1>3, <1>4, <1>5, <1>6, <1>7, <1>8, <1>9, <1>10, <1>11, <1>12, <1>13,
     <1>14, <1>15, <1>16, <1>17, <1>18 DEF Next, RequestStep, BuildStep, Finished

\* Every step keeps the state of the requests in its types.
LEMMA NextRequestTypes == LoopInv /\ [Next]_vars => RequestTypes'
<1> SUFFICES ASSUME LoopInv, [Next]_vars PROVE RequestTypes'
  OBVIOUS
<1> /\ pending \subseteq Builds
    /\ result \in [Builds -> {"none", "ok", "CircCanceled"} \cup BuildErrors]
    /\ build \in [Builds -> {"none", "planned", "building", "reply", "sent", "done"}]
    /\ usage \in [Requests -> Usages]
    /\ pc \in [Requests -> {"start", "register", "wait", "error", "ok", "failed"}]
    /\ left \in [Requests -> SUBSET Builds] /\ advice \in [Requests -> SUBSET Builds]
    /\ errs \in [Requests -> SUBSET Errors]
  BY DEF LoopInv, TypeOK
<1> USE DEF RequestTypes, listVars, specVars, buildVars, confVars, loopVars, GoTo
<1>1. ASSUME NEW r \in Requests, PrepareOpen(r) PROVE RequestTypes'
  BY <1>1, ErrorsAssumption DEF PrepareOpen
<1>2. ASSUME NEW r \in Requests, PrepareWait(r) PROVE RequestTypes'
  BY SMTT(30), <1>2, ErrorsAssumption DEF PrepareWait, find_pending_tunnels
<1>3. ASSUME NEW r \in Requests, PrepareBuild(r) PROVE RequestTypes'
  <2> USE <1>3
  <2>1. \A b \in NewBuilds(r) : b \in Builds
    BY FreshBuilds DEF PrepareBuild
  <2>2. PICK new \in SUBSET NewBuilds(r) :
              /\ \E o \in [new -> {s \in SUBSET Needs : Required(usage[r]) \subseteq s}] :
                    Plan(new, SpecKind(usage[r]), Isolation(usage[r]), o)
              /\ pending' = pending \cup new
              /\ build' = [b \in Builds |-> IF b \in new THEN "building" ELSE build[b]]
              /\ left' = [left EXCEPT ![r] = new]
    BY DEF PrepareBuild
  <2>3. new \subseteq Builds /\ usage[r] \in Usages
    BY <2>1, <2>2
  <2> QED
    BY <2>2, <2>3 DEF PrepareBuild
<1>4. ASSUME NEW r \in Requests, PrepareError(r) PROVE RequestTypes'
  BY SMTT(30), <1>4, ErrorsAssumption DEF PrepareError, AfterError, Errors
<1>5. ASSUME NEW r \in Requests, TakeActionError(r) PROVE RequestTypes'
  BY <1>5, ErrorsAssumption DEF TakeActionError, AfterError
<1>6. ASSUME NEW r \in Requests, Timeout(r) PROVE RequestTypes'
  BY <1>6, ErrorsAssumption DEF Timeout
<1>7. ASSUME NEW r \in Requests, Register(r) PROVE RequestTypes'
  BY <1>7, ErrorsAssumption DEF Register
<1>8. ASSUME NEW r \in Requests, LeftExhausted(r) PROVE RequestTypes'
  BY <1>8, ErrorsAssumption DEF LeftExhausted
<1>9. ASSUME NEW r \in Requests, NEW b \in Builds, LeftUse(r, b) PROVE RequestTypes'
  BY <1>9, ErrorsAssumption DEF LeftUse, Take, LeftReady
<1>10. ASSUME NEW r \in Requests, NEW b \in Builds, LeftLost(r, b) PROVE RequestTypes'
  BY <1>10, ErrorsAssumption DEF LeftLost, Consume, RecordError, Errors
<1>11. ASSUME NEW r \in Requests, NEW b \in Builds, LeftGone(r, b) PROVE RequestTypes'
  BY <1>11, ErrorsAssumption DEF LeftGone, Consume
<1>12. ASSUME NEW r \in Requests, NEW b \in Builds, LeftError(r, b) PROVE RequestTypes'
  BY <1>12, ErrorsAssumption DEF LeftError, Consume, RecordError, LeftReady,
     Resolved,
     LoopInv, ResultsSet, Errors
<1>13. ASSUME NEW r \in Requests, NEW b \in Builds, LeftCanceled(r, b) PROVE RequestTypes'
  BY <1>13, ErrorsAssumption DEF LeftCanceled, RecordError, Errors
<1>14. ASSUME NEW r \in Requests, NEW b \in Builds, RightUse(r, b) PROVE RequestTypes'
  BY <1>14, ErrorsAssumption DEF RightUse, Take, RightReady
<1>15. ASSUME NEW r \in Requests, NEW b \in Builds, RightUseless(r, b) PROVE RequestTypes'
  BY <1>15, ErrorsAssumption DEF RightUseless
<1>16. ASSUME NEW b \in Builds, Notify(b) PROVE RequestTypes'
  BY <1>16, ErrorsAssumption DEF Notify
<1>17. ASSUME NEW b \in Builds, Built(b) \/ BuildFailed(b) \/ BuildDropped(b) \/ Send(b) \/
      take_open(b) \/ TunnelCloses(b) PROVE RequestTypes'
  BY <1>17 DEF Built, BuildFailed, BuildDropped, Send, take_open, TunnelCloses
<1>18. ASSUME NEW l \in Tests, PlanTest(l) \/ LaunchTest(l) PROVE RequestTypes'
  BY <1>18 DEF PlanTest, LaunchTest
<1>19. ASSUME set_path_config \/ retire_all_tunnels PROVE RequestTypes'
  BY <1>19 DEF set_path_config, retire_all_tunnels
<1>20. ASSUME UNCHANGED vars PROVE RequestTypes'
  BY <1>20 DEF vars
<1> QED
  BY <1>1, <1>2, <1>3, <1>4, <1>5, <1>6, <1>7, <1>8, <1>9, <1>10, <1>11, <1>12, <1>13,
     <1>14, <1>15, <1>16, <1>17, <1>18, <1>19, <1>20 DEF Next, RequestStep, BuildStep, Finished

\* Every step keeps the counters in their ranges.
LEMMA NextLoopTypes == LoopInv /\ [Next]_vars => LoopTypes'
<1> SUFFICES ASSUME LoopInv, [Next]_vars PROVE LoopTypes'
  OBVIOUS
<1> /\ config \in 0 .. MaxReconf /\ reconf \in BOOLEAN
    /\ nFail \in [Requests -> 0 .. MaxTries] /\ nReset \in [Requests -> 0 .. MAX_RESETS]
    /\ usage \in [Requests -> Usages]
    /\ pc \in [Requests -> {"start", "register", "wait", "error", "ok", "failed"}]
  BY DEF LoopInv, TypeOK
<1> USE DEF LoopTypes, listVars, specVars, buildVars, confVars, loopVars, GoTo
<1>1. ASSUME NEW r \in Requests, PrepareError(r) PROVE LoopTypes'
  <2>1. usage[r] \in Usages /\ max_failures(usage[r]) \in 1 .. MaxTries
    BY MaxFailuresBounds
  <2> QED
    BY SMTT(30), <1>1, <2>1, NumbersAssumption DEF PrepareError, AfterError, is_internal_reset,
       LoopInv, CountersBounded
<1>2. ASSUME NEW r \in Requests, TakeActionError(r) PROVE LoopTypes'
  <2>1. usage[r] \in Usages /\ max_failures(usage[r]) \in 1 .. MaxTries
    BY MaxFailuresBounds
  <2> QED
    BY SMTT(30), <1>2, <2>1, NumbersAssumption DEF TakeActionError, AfterError, is_internal_reset,
       LoopInv, CountersBounded
<1>3. ASSUME NEW r \in Requests, Timeout(r) PROVE LoopTypes'
  BY <1>3 DEF Timeout
<1>4. ASSUME NEW r \in Requests, PrepareOpen(r) \/ PrepareWait(r) \/ PrepareBuild(r) \/
      Register(r) \/ LeftExhausted(r) PROVE LoopTypes'
  BY <1>4 DEF PrepareOpen, PrepareWait, PrepareBuild, Register, LeftExhausted
<1>5. ASSUME NEW r \in Requests, NEW b \in Builds, LeftUse(r, b) \/ LeftLost(r, b) \/ LeftGone(r,
      b) \/ LeftError(r, b) \/ LeftCanceled(r, b) \/ RightUse(r, b) \/ RightUseless(r, b) PROVE
      LoopTypes'
  BY <1>5 DEF LeftUse, Take, LeftReady, LeftLost, LeftGone, LeftError, LeftCanceled,
     RightUse, Take, RightReady, RightUseless
<1>6. ASSUME NEW b \in Builds, Built(b) \/ BuildFailed(b) \/ BuildDropped(b) \/ Send(b) \/
      Notify(b) \/ take_open(b) \/ TunnelCloses(b) PROVE LoopTypes'
  BY <1>6 DEF Built, BuildFailed, BuildDropped, Send, Notify, take_open, TunnelCloses
<1>7. ASSUME NEW l \in Tests, PlanTest(l) \/ LaunchTest(l) PROVE LoopTypes'
  BY <1>7 DEF PlanTest, LaunchTest
<1>8. ASSUME set_path_config PROVE LoopTypes'
  BY SMTT(30), <1>8, NumbersAssumption DEF set_path_config
<1>9. ASSUME retire_all_tunnels PROVE LoopTypes'
  BY <1>9 DEF retire_all_tunnels
<1>10. ASSUME UNCHANGED vars PROVE LoopTypes'
  BY <1>10 DEF vars
<1> QED
  BY <1>1, <1>2, <1>3, <1>4, <1>5, <1>6, <1>7, <1>8, <1>9, <1>10 DEF Next, RequestStep,
     BuildStep, Finished

\* Every step keeps the variables in their types.
LEMMA NextTypeOK == LoopInv /\ [Next]_vars => TypeOK'
BY NextSpecTypes, NextBuildTypes, NextRequestTypes, NextLoopTypes
   DEF TypeOK, SpecTypes, BuildTypes, RequestTypes, LoopTypes

\* An attempt that fails takes the request out of its loop or leaves it a try.
LEMMA NextCountersBounded == LoopInv /\ [Next]_vars => CountersBounded'
<1> SUFFICES ASSUME LoopInv, [Next]_vars PROVE CountersBounded'
  OBVIOUS
<1> /\ pc \in [Requests -> {"start", "register", "wait", "error", "ok", "failed"}]
    /\ nFail \in [Requests -> 0 .. MaxTries] /\ nReset \in [Requests -> 0 .. MAX_RESETS]
    /\ usage \in [Requests -> Usages]
  BY DEF LoopInv, TypeOK
<1> USE DEF CountersBounded, listVars, specVars, buildVars, confVars, loopVars, GoTo, LoopInv
<1>1. ASSUME NEW r \in Requests, PrepareOpen(r) PROVE CountersBounded'
  BY <1>1, MaxFailuresBounds DEF PrepareOpen, LoopInv
<1>2. ASSUME NEW r \in Requests, PrepareWait(r) PROVE CountersBounded'
  BY <1>2, MaxFailuresBounds DEF PrepareWait, LoopInv
<1>3. ASSUME NEW r \in Requests, PrepareBuild(r) PROVE CountersBounded'
  BY <1>3, MaxFailuresBounds DEF PrepareBuild, LoopInv
<1>4. ASSUME NEW r \in Requests, PrepareError(r) PROVE CountersBounded'
  BY SMTT(30), <1>4, MaxFailuresBounds DEF PrepareError, LoopInv, AfterError,
     is_internal_reset
<1>5. ASSUME NEW r \in Requests, TakeActionError(r) PROVE CountersBounded'
  BY SMTT(30), <1>5, MaxFailuresBounds DEF TakeActionError, LoopInv, AfterError,
     is_internal_reset
<1>6. ASSUME NEW r \in Requests, Timeout(r) PROVE CountersBounded'
  BY <1>6, MaxFailuresBounds DEF Timeout, LoopInv
<1>7. ASSUME NEW r \in Requests, Register(r) PROVE CountersBounded'
  BY <1>7, MaxFailuresBounds DEF Register, LoopInv
<1>8. ASSUME NEW r \in Requests, LeftExhausted(r) PROVE CountersBounded'
  BY <1>8, MaxFailuresBounds DEF LeftExhausted, LoopInv
<1>9. ASSUME NEW r \in Requests, NEW b \in Builds, LeftUse(r, b) PROVE CountersBounded'
  BY <1>9, MaxFailuresBounds DEF LeftUse, Take, LeftReady, LoopInv
<1>10. ASSUME NEW r \in Requests, NEW b \in Builds, LeftCanceled(r, b) PROVE CountersBounded'
  BY <1>10, MaxFailuresBounds DEF LeftCanceled, LoopInv, LeftReady
<1>11. ASSUME NEW r \in Requests, NEW b \in Builds, RightUse(r, b) PROVE CountersBounded'
  BY <1>11, MaxFailuresBounds DEF RightUse, Take, RightReady, LoopInv
<1>12. ASSUME NEW r \in Requests, NEW b \in Builds, LeftLost(r, b) \/ LeftGone(r, b) \/
      LeftError(r, b) \/ RightUseless(r, b) PROVE CountersBounded'
  BY <1>12 DEF LeftLost, LeftGone, LeftError, RightUseless
<1>13. ASSUME NEW b \in Builds, Built(b) \/ BuildFailed(b) \/ BuildDropped(b) \/ Send(b) \/
      Notify(b) \/ take_open(b) \/ TunnelCloses(b) PROVE CountersBounded'
  BY <1>13 DEF Built, BuildFailed, BuildDropped, Send, Notify, take_open, TunnelCloses
<1>14. ASSUME NEW l \in Tests, PlanTest(l) \/ LaunchTest(l) PROVE CountersBounded'
  BY <1>14 DEF PlanTest, LaunchTest
<1>15. ASSUME set_path_config \/ retire_all_tunnels PROVE CountersBounded'
  BY <1>15 DEF set_path_config, retire_all_tunnels
<1>16. ASSUME UNCHANGED vars PROVE CountersBounded'
  BY <1>16 DEF vars
<1> QED
  BY <1>1, <1>2, <1>3, <1>4, <1>5, <1>6, <1>7, <1>8, <1>9, <1>10, <1>11, <1>12, <1>13,
     <1>14, <1>15, <1>16 DEF Next, RequestStep, BuildStep, Finished

\* Each attempt uses build names of its own.
LEMMA NextNumberedBuilds == LoopInv /\ [Next]_vars => NumberedBuilds'
<1> SUFFICES ASSUME LoopInv, [Next]_vars PROVE NumberedBuilds'
  OBVIOUS
<1> /\ pc \in [Requests -> {"start", "register", "wait", "error", "ok", "failed"}]
    /\ nFail \in [Requests -> 0 .. MaxTries] /\ nReset \in [Requests -> 0 .. MAX_RESETS]
    /\ build \in [Builds -> {"none", "planned", "building", "reply", "sent", "done"}]
  BY DEF LoopInv, TypeOK
<1> USE DEF NumberedBuilds, listVars, specVars, buildVars, confVars, loopVars, GoTo, LoopInv
<1>1. ASSUME NEW r \in Requests, PrepareOpen(r) PROVE NumberedBuilds'
  BY SMTT(30), <1>1, BuildNumbers DEF PrepareOpen
<1>2. ASSUME NEW r \in Requests, PrepareWait(r) PROVE NumberedBuilds'
  BY SMTT(30), <1>2, BuildNumbers DEF PrepareWait
<1>3. ASSUME NEW r \in Requests, PrepareBuild(r) PROVE NumberedBuilds'
  <2>1. PICK new \in SUBSET Builds : Launched(r, new)
    BY <1>3, LaunchedFacts
  <2>2. /\ \A b \in new : b[1] = r /\ b[2] = nFail[r] + 1
        /\ \A b \in Builds : build'[b] = IF b \in new THEN "building" ELSE build[b]
    BY <2>1 DEF Launched
  <2>3. nFail' = nFail /\ pc[r] = "start" /\ pc' = [pc EXCEPT ![r] = "register"]
    BY <1>3 DEF PrepareBuild
  <2> QED
    BY SMTT(30), <2>2, <2>3, BuildNumbers
<1>4. ASSUME NEW r \in Requests, PrepareError(r) PROVE NumberedBuilds'
  BY SMTT(30), <1>4, BuildNumbers DEF PrepareError, AfterError, is_internal_reset
<1>5. ASSUME NEW r \in Requests, TakeActionError(r) PROVE NumberedBuilds'
  BY SMTT(30), <1>5, BuildNumbers DEF TakeActionError, AfterError, is_internal_reset
<1>6. ASSUME NEW r \in Requests, Timeout(r) PROVE NumberedBuilds'
  BY SMTT(30), <1>6, BuildNumbers DEF Timeout
<1>7. ASSUME NEW r \in Requests, Register(r) PROVE NumberedBuilds'
  BY <1>7, BuildNumbers DEF Register
<1>8. ASSUME NEW r \in Requests, LeftExhausted(r) PROVE NumberedBuilds'
  BY <1>8, BuildNumbers DEF LeftExhausted
<1>9. ASSUME NEW r \in Requests, NEW b \in Builds, LeftUse(r, b) PROVE NumberedBuilds'
  BY <1>9, BuildNumbers DEF LeftUse, Take, LeftReady
<1>10. ASSUME NEW r \in Requests, NEW b \in Builds, LeftCanceled(r, b) PROVE NumberedBuilds'
  BY <1>10, BuildNumbers DEF LeftCanceled, LeftReady
<1>11. ASSUME NEW r \in Requests, NEW b \in Builds, RightUse(r, b) PROVE NumberedBuilds'
  BY <1>11, BuildNumbers DEF RightUse, Take, RightReady
<1>12. ASSUME NEW r \in Requests, NEW b \in Builds, LeftLost(r, b) \/ LeftGone(r, b) \/
      LeftError(r, b) \/ RightUseless(r, b) PROVE NumberedBuilds'
  BY <1>12 DEF LeftLost, LeftGone, LeftError, RightUseless
<1>13. ASSUME NEW b \in Builds, Built(b) PROVE NumberedBuilds'
  BY <1>13, BuildNumbers DEF Built
<1>14. ASSUME NEW b \in Builds, BuildFailed(b) PROVE NumberedBuilds'
  BY <1>14, BuildNumbers DEF BuildFailed
<1>15. ASSUME NEW b \in Builds, BuildDropped(b) PROVE NumberedBuilds'
  BY <1>15, BuildNumbers DEF BuildDropped
<1>16. ASSUME NEW b \in Builds, Send(b) PROVE NumberedBuilds'
  BY <1>16, BuildNumbers DEF Send
<1>17. ASSUME NEW b \in Builds, Notify(b) PROVE NumberedBuilds'
  BY <1>17, BuildNumbers DEF Notify
<1>18. ASSUME NEW b \in Builds, take_open(b) \/ TunnelCloses(b) PROVE NumberedBuilds'
  BY <1>18 DEF take_open, TunnelCloses
<1>19. ASSUME NEW l \in Tests, PlanTest(l) PROVE NumberedBuilds'
  BY SMTT(30), <1>19, DisjointAssumption DEF PlanTest
<1>20. ASSUME NEW l \in Tests, LaunchTest(l) PROVE NumberedBuilds'
  BY <1>20, BuildNumbers DEF LaunchTest
<1>21. ASSUME set_path_config \/ retire_all_tunnels PROVE NumberedBuilds'
  BY <1>21 DEF set_path_config, retire_all_tunnels
<1>22. ASSUME UNCHANGED vars PROVE NumberedBuilds'
  BY <1>22 DEF vars
<1> QED
  BY <1>1, <1>2, <1>3, <1>4, <1>5, <1>6, <1>7, <1>8, <1>9, <1>10, <1>11, <1>12, <1>13,
     <1>14, <1>15, <1>16, <1>17, <1>18, <1>19, <1>20, <1>21, <1>22 DEF Next, RequestStep,
     BuildStep, Finished

\* The reply is made in the step that ends the build.
LEMMA NextResultsSet == LoopInv /\ [Next]_vars => ResultsSet'
<1> SUFFICES ASSUME LoopInv, [Next]_vars PROVE ResultsSet'
  OBVIOUS
<1>0. /\ build \in [Builds -> {"none", "planned", "building", "reply", "sent", "done"}]
      /\ result \in [Builds -> {"none", "ok", "CircCanceled"} \cup BuildErrors]
  BY DEF LoopInv, TypeOK
<1> USE DEF ResultsSet, listVars, specVars, buildVars, confVars, loopVars, GoTo, LoopInv
<1>1. ASSUME NEW r \in Requests, PrepareBuild(r) PROVE ResultsSet'
  <2>1. PICK new \in SUBSET Builds : Launched(r, new)
    BY <1>1, LaunchedFacts
  <2>2. \A b \in Builds : build'[b] \in {"reply", "sent", "done"} => build'[b] = build[b]
    BY <2>1 DEF Launched
  <2> QED
    BY <1>1, <2>2 DEF PrepareBuild
<1>2. ASSUME NEW r \in Requests, PrepareOpen(r) \/ PrepareWait(r) \/ PrepareError(r) \/
      TakeActionError(r) \/ Timeout(r) \/ Register(r) \/ LeftExhausted(r) PROVE ResultsSet'
  BY <1>2 DEF PrepareOpen, PrepareWait, PrepareError, TakeActionError, Timeout,
     Register,
     LeftExhausted
<1>3. ASSUME NEW r \in Requests, NEW b \in Builds, LeftUse(r, b) \/ LeftLost(r, b) \/ LeftGone(r,
      b) \/ LeftError(r, b) \/ LeftCanceled(r, b) \/ RightUse(r, b) \/ RightUseless(r, b) PROVE
      ResultsSet'
  BY <1>3 DEF LeftUse, Take, LeftReady, LeftLost, LeftGone, LeftError, LeftCanceled,
     RightUse,
     Take, RightReady, RightUseless
<1>4. ASSUME NEW b \in Builds, Built(b) PROVE ResultsSet'
  BY <1>4, <1>0, ErrorsAssumption DEF Built
<1>5. ASSUME NEW b \in Builds, BuildFailed(b) PROVE ResultsSet'
  BY <1>5, <1>0, ErrorsAssumption DEF BuildFailed
<1>6. ASSUME NEW b \in Builds, BuildDropped(b) PROVE ResultsSet'
  BY <1>6, <1>0, ErrorsAssumption DEF BuildDropped
<1>7. ASSUME NEW b \in Builds, Send(b) PROVE ResultsSet'
  BY <1>7, <1>0, ErrorsAssumption DEF Send
<1>8. ASSUME NEW b \in Builds, Notify(b) PROVE ResultsSet'
  BY <1>8, <1>0, ErrorsAssumption DEF Notify
<1>9. ASSUME NEW b \in Builds, take_open(b) \/ TunnelCloses(b) PROVE ResultsSet'
  BY <1>9 DEF take_open, TunnelCloses
<1>10. ASSUME NEW l \in Tests, PlanTest(l) PROVE ResultsSet'
  BY <1>10, <1>0, ErrorsAssumption DEF PlanTest
<1>11. ASSUME NEW l \in Tests, LaunchTest(l) PROVE ResultsSet'
  BY <1>11, <1>0, ErrorsAssumption DEF LaunchTest
<1>12. ASSUME set_path_config \/ retire_all_tunnels PROVE ResultsSet'
  BY <1>12 DEF set_path_config, retire_all_tunnels
<1>13. ASSUME UNCHANGED vars PROVE ResultsSet'
  BY <1>13 DEF vars
<1> QED
  BY <1>1, <1>2, <1>3, <1>4, <1>5, <1>6, <1>7, <1>8, <1>9, <1>10, <1>11, <1>12, <1>13 DEF
     Next, RequestStep, BuildStep, Finished

-----------------------------------------------------------------------------
\* The lists and the requests name builds in the right phase.
LEMMA NextPhases == ListInv /\ [Next]_vars => Phases'
<1> SUFFICES ASSUME ListInv, [Next]_vars PROVE Phases'
  OBVIOUS
<1> /\ open \subseteq Builds /\ pending \subseteq Builds
    /\ build \in [Builds -> {"none", "planned", "building", "reply", "sent", "done"}]
    /\ left \in [Requests -> SUBSET Builds] /\ advice \in [Requests -> SUBSET Builds]
    /\ users \in [Builds -> SUBSET Requests]
  BY DEF ListInv, LoopInv, TypeOK
<1> USE DEF Phases, listVars, specVars, buildVars, confVars, loopVars, GoTo, ListInv
<1>1. ASSUME NEW r \in Requests, PrepareOpen(r) PROVE Phases'
  BY <1>1 DEF PrepareOpen, find_open
<1>2. ASSUME NEW r \in Requests, PrepareWait(r) PROVE Phases'
  BY SMTT(30), <1>2 DEF PrepareWait, find_pending_tunnels
<1>3. ASSUME NEW r \in Requests, PrepareBuild(r) PROVE Phases'
  <2>1. PICK new \in SUBSET Builds : Launched(r, new)
    BY <1>3, LaunchedFacts DEF ListInv
  <2>2. /\ \A b \in new : build[b] = "none"
        /\ \A b \in Builds : build'[b] = IF b \in new THEN "building" ELSE build[b]
        /\ pending' = pending \cup new
        /\ \A x \in Requests : left'[x] = IF x = r THEN new ELSE left[x]
    BY <2>1 DEF Launched
  <2>3. open' = open /\ users' = users /\ advice' = advice
    BY <1>3 DEF PrepareBuild
  <2> QED
    BY SMTT(30), <2>2, <2>3
<1>4. ASSUME NEW r \in Requests, PrepareError(r) PROVE Phases'
  BY <1>4 DEF PrepareError, AfterError
<1>5. ASSUME NEW r \in Requests, TakeActionError(r) PROVE Phases'
  BY <1>5 DEF TakeActionError, AfterError
<1>6. ASSUME NEW r \in Requests, Timeout(r) PROVE Phases'
  BY <1>6 DEF Timeout
<1>7. ASSUME NEW r \in Requests, Register(r) PROVE Phases'
  BY <1>7 DEF Register
<1>8. ASSUME NEW r \in Requests, LeftExhausted(r) PROVE Phases'
  BY <1>8 DEF LeftExhausted
<1>9. ASSUME NEW r \in Requests, NEW b \in Builds, LeftUse(r, b) PROVE Phases'
  BY <1>9 DEF LeftUse, Take, LeftReady, Resolved
<1>10. ASSUME NEW r \in Requests, NEW b \in Builds, LeftLost(r, b) PROVE Phases'
  BY <1>10 DEF LeftLost, Consume
<1>11. ASSUME NEW r \in Requests, NEW b \in Builds, LeftGone(r, b) PROVE Phases'
  BY <1>11 DEF LeftGone, Consume
<1>12. ASSUME NEW r \in Requests, NEW b \in Builds, LeftError(r, b) PROVE Phases'
  BY <1>12 DEF LeftError, Consume
<1>13. ASSUME NEW r \in Requests, NEW b \in Builds, LeftCanceled(r, b) PROVE Phases'
  BY <1>13 DEF LeftCanceled
<1>14. ASSUME NEW r \in Requests, NEW b \in Builds, RightUse(r, b) PROVE Phases'
  BY <1>14 DEF RightUse, Take, RightReady
<1>15. ASSUME NEW r \in Requests, NEW b \in Builds, RightUseless(r, b) PROVE Phases'
  BY <1>15 DEF RightUseless
<1>16. ASSUME NEW b \in Builds, Built(b) PROVE Phases'
  BY <1>16 DEF Built
<1>17. ASSUME NEW b \in Builds, BuildFailed(b) PROVE Phases'
  BY <1>17 DEF BuildFailed
<1>18. ASSUME NEW b \in Builds, BuildDropped(b) PROVE Phases'
  BY <1>18 DEF BuildDropped
<1>19. ASSUME NEW b \in Builds, Send(b) PROVE Phases'
  BY <1>19 DEF Send
<1>20. ASSUME NEW b \in Builds, Notify(b) PROVE Phases'
  BY <1>20 DEF Notify
<1>21. ASSUME NEW b \in Builds, take_open(b) PROVE Phases'
  BY <1>21 DEF take_open
<1>22. ASSUME NEW b \in Builds, TunnelCloses(b) PROVE Phases'
  BY <1>22 DEF TunnelCloses
<1>23. ASSUME NEW l \in Tests, PlanTest(l) PROVE Phases'
  <2>1. TestPlanned(l)
    BY <1>23, TestFacts
  <2>2. build[TestBuild(l)] = "none" /\ build' = [build EXCEPT ![TestBuild(l)] = "planned"]
    BY <2>1 DEF TestPlanned
  <2> QED
    BY <1>23, <2>2 DEF PlanTest
<1>24. ASSUME NEW l \in Tests, LaunchTest(l) PROVE Phases'
  <2>1. TestBuild(l) \in Builds
    BY TestBuilds
  <2> QED
    BY <1>24, <2>1 DEF LaunchTest, TestBuild
<1>25. ASSUME retire_all_tunnels PROVE Phases'
  BY <1>25 DEF retire_all_tunnels
<1>26. ASSUME set_path_config PROVE Phases'
  BY <1>26 DEF set_path_config
<1>27. ASSUME UNCHANGED vars PROVE Phases'
  BY <1>27 DEF vars
<1> QED
  BY <1>1, <1>2, <1>3, <1>4, <1>5, <1>6, <1>7, <1>8, <1>9, <1>10, <1>11, <1>12, <1>13,
     <1>14, <1>15, <1>16, <1>17, <1>18, <1>19, <1>20, <1>21, <1>22, <1>23, <1>24, <1>25, <1>26,
     <1>27 DEF Next, RequestStep, BuildStep, Finished

\* The futures of an attempt are dropped when it ends.
LEMMA NextWaiters == ListInv /\ [Next]_vars => Waiters'
<1> SUFFICES ASSUME ListInv, [Next]_vars PROVE Waiters'
  OBVIOUS
<1> /\ left \in [Requests -> SUBSET Builds]
    /\ pc \in [Requests -> {"start", "register", "wait", "error", "ok", "failed"}]
  BY DEF ListInv, LoopInv, TypeOK
<1> USE DEF Waiters, listVars, specVars, buildVars, confVars, loopVars, GoTo, ListInv
<1>1. ASSUME NEW r \in Requests, PrepareOpen(r) PROVE Waiters'
  BY <1>1 DEF PrepareOpen
<1>2. ASSUME NEW r \in Requests, PrepareWait(r) PROVE Waiters'
  BY <1>2 DEF PrepareWait
<1>3. ASSUME NEW r \in Requests, PrepareBuild(r) PROVE Waiters'
  BY <1>3 DEF PrepareBuild
<1>4. ASSUME NEW r \in Requests, PrepareError(r) PROVE Waiters'
  BY <1>4 DEF PrepareError, AfterError
<1>5. ASSUME NEW r \in Requests, TakeActionError(r) PROVE Waiters'
  BY <1>5 DEF TakeActionError, AfterError
<1>6. ASSUME NEW r \in Requests, Timeout(r) PROVE Waiters'
  BY <1>6 DEF Timeout
<1>7. ASSUME NEW r \in Requests, Register(r) PROVE Waiters'
  BY <1>7 DEF Register
<1>8. ASSUME NEW r \in Requests, LeftExhausted(r) PROVE Waiters'
  BY <1>8 DEF LeftExhausted
<1>9. ASSUME NEW r \in Requests, NEW b \in Builds, LeftUse(r, b) PROVE Waiters'
  BY <1>9 DEF LeftUse, Take, LeftReady
<1>10. ASSUME NEW r \in Requests, NEW b \in Builds, LeftLost(r, b) PROVE Waiters'
  BY <1>10 DEF LeftLost, Consume
<1>11. ASSUME NEW r \in Requests, NEW b \in Builds, LeftGone(r, b) PROVE Waiters'
  BY <1>11 DEF LeftGone, Consume
<1>12. ASSUME NEW r \in Requests, NEW b \in Builds, LeftError(r, b) PROVE Waiters'
  BY <1>12 DEF LeftError, Consume
<1>13. ASSUME NEW r \in Requests, NEW b \in Builds, LeftCanceled(r, b) PROVE Waiters'
  BY <1>13 DEF LeftCanceled, LeftReady
<1>14. ASSUME NEW r \in Requests, NEW b \in Builds, RightUse(r, b) PROVE Waiters'
  BY <1>14 DEF RightUse, Take, RightReady
<1>15. ASSUME NEW r \in Requests, NEW b \in Builds, RightUseless(r, b) PROVE Waiters'
  BY <1>15 DEF RightUseless
<1>16. ASSUME NEW b \in Builds, Built(b) \/ BuildFailed(b) \/ BuildDropped(b) \/ Send(b) \/
      Notify(b) \/ take_open(b) \/ TunnelCloses(b) PROVE Waiters'
  BY <1>16 DEF Built, BuildFailed, BuildDropped, Send, Notify, take_open, TunnelCloses
<1>17. ASSUME NEW l \in Tests, PlanTest(l) \/ LaunchTest(l) PROVE Waiters'
  BY <1>17 DEF PlanTest, LaunchTest
<1>18. ASSUME set_path_config \/ retire_all_tunnels PROVE Waiters'
  BY <1>18 DEF set_path_config, retire_all_tunnels
<1>19. ASSUME UNCHANGED vars PROVE Waiters'
  BY <1>19 DEF vars
<1> QED
  BY <1>1, <1>2, <1>3, <1>4, <1>5, <1>6, <1>7, <1>8, <1>9, <1>10, <1>11, <1>12, <1>13,
     <1>14, <1>15, <1>16, <1>17, <1>18, <1>19 DEF Next, RequestStep, BuildStep, Finished

\* A request only waits for, or hears of, tunnels that support its usage.
LEMMA NextOffersSuit == ListInv /\ OffersSuit /\ [Next]_vars => OffersSuit'
<1> SUFFICES ASSUME ListInv, OffersSuit, [Next]_vars PROVE OffersSuit'
  OBVIOUS
<1>0. /\ left \in [Requests -> SUBSET Builds] /\ advice \in [Requests -> SUBSET Builds]
  BY DEF ListInv, LoopInv, TypeOK
<1> USE DEF OffersSuit, listVars, specVars, buildVars, confVars, loopVars, GoTo
<1>1. ASSUME NEW r \in Requests, PrepareWait(r) PROVE OffersSuit'
  <2>1. PICK c \in find_pending_tunnels(usage[r]) : left' = [left EXCEPT ![r] = {c}]
    BY <1>1 DEF PrepareWait
  <2>2. kind[c] = SpecKind(usage[r]) /\ Required(usage[r]) \subseteq offers[c]
    BY <2>1 DEF find_pending_tunnels, supports
  <2>3. \A x \in Requests, b \in Builds : b \in left'[x] => b \in left[x] \/ (x = r /\ b = c)
    BY <1>0, <2>1
  <2>4. kind' = kind /\ offers' = offers /\ usage' = usage /\ advice' = advice
    BY <1>1 DEF PrepareWait
  <2> QED
    BY <2>2, <2>3, <2>4
<1>2. ASSUME NEW r \in Requests, PrepareBuild(r) PROVE OffersSuit'
  <2> PICK new \in SUBSET Builds : Launched(r, new)
    BY <1>2, LaunchedFacts DEF ListInv
  <2>2. \A b \in Builds, x \in Requests : b \in left[x] \cup advice[x] => b \notin new
    BY DEF Launched, ListInv, Phases
  <2>3. \A b \in Builds \ new : kind'[b] = kind[b] /\ offers'[b] = offers[b]
    BY DEF Launched
  <2>4. \A b \in new : kind'[b] = SpecKind(usage[r]) /\ Required(usage[r]) \subseteq offers'[b]
    BY DEF Launched
  <2>5. \A x \in Requests : left'[x] = IF x = r THEN new ELSE left[x]
    BY DEF Launched
  <2>6. usage' = usage /\ advice' = advice
    BY <1>2 DEF PrepareBuild
  <2> QED
    BY SMTT(30), <2>2, <2>3, <2>4, <2>5, <2>6
<1>3. ASSUME NEW r \in Requests, PrepareError(r) PROVE OffersSuit'
  BY SMTT(30), <1>3, <1>0 DEF PrepareError, AfterError
<1>4. ASSUME NEW r \in Requests, TakeActionError(r) PROVE OffersSuit'
  BY <1>4, <1>0 DEF TakeActionError, AfterError
<1>5. ASSUME NEW r \in Requests, Timeout(r) PROVE OffersSuit'
  BY <1>5, <1>0 DEF Timeout
<1>6. ASSUME NEW r \in Requests, PrepareOpen(r) \/ Register(r) \/ LeftExhausted(r) PROVE
      OffersSuit'
  BY <1>6 DEF PrepareOpen, Register, LeftExhausted
<1>7. ASSUME NEW r \in Requests, NEW b \in Builds, LeftUse(r, b) PROVE OffersSuit'
  BY <1>7, <1>0 DEF LeftUse, Take, LeftReady
<1>8. ASSUME NEW r \in Requests, NEW b \in Builds, LeftLost(r, b) PROVE OffersSuit'
  BY <1>8, <1>0 DEF LeftLost, Consume
<1>9. ASSUME NEW r \in Requests, NEW b \in Builds, LeftGone(r, b) PROVE OffersSuit'
  BY <1>9, <1>0 DEF LeftGone, Consume
<1>10. ASSUME NEW r \in Requests, NEW b \in Builds, LeftError(r, b) PROVE OffersSuit'
  BY <1>10, <1>0 DEF LeftError, Consume
<1>11. ASSUME NEW r \in Requests, NEW b \in Builds, RightUse(r, b) PROVE OffersSuit'
  BY <1>11, <1>0 DEF RightUse, Take, RightReady
<1>12. ASSUME NEW r \in Requests, NEW b \in Builds, RightUseless(r, b) PROVE OffersSuit'
  BY <1>12, <1>0 DEF RightUseless
<1>13. ASSUME NEW r \in Requests, NEW b \in Builds, LeftCanceled(r, b) PROVE OffersSuit'
  BY <1>13 DEF LeftCanceled
<1>14. ASSUME NEW b \in Builds, Notify(b) PROVE OffersSuit'
  BY <1>14, <1>0 DEF Notify, supports
<1>15. ASSUME NEW b \in Builds, Built(b) \/ BuildFailed(b) \/ BuildDropped(b) \/ Send(b) \/
      take_open(b) \/ TunnelCloses(b) PROVE OffersSuit'
  BY <1>15 DEF Built, BuildFailed, BuildDropped, Send, take_open, TunnelCloses
<1>16. ASSUME NEW l \in Tests, PlanTest(l) PROVE OffersSuit'
  <2>1. TestPlanned(l)
    BY <1>16, TestFacts
  <2>2. \A b \in Builds, x \in Requests : b \in left[x] \cup advice[x] => b # TestBuild(l)
    BY <2>1 DEF TestPlanned, ListInv, Phases
  <2>3. \A b \in Builds \ {TestBuild(l)} : kind'[b] = kind[b] /\ offers'[b] = offers[b]
    BY <2>1 DEF TestPlanned
  <2> QED
    BY <1>16, <2>2, <2>3 DEF PlanTest
<1>17. ASSUME NEW l \in Tests, LaunchTest(l) PROVE OffersSuit'
  BY <1>17 DEF LaunchTest
<1>18. ASSUME set_path_config \/ retire_all_tunnels PROVE OffersSuit'
  BY <1>18 DEF set_path_config, retire_all_tunnels
<1>19. ASSUME UNCHANGED vars PROVE OffersSuit'
  BY <1>19 DEF vars
<1> QED
  BY <1>1, <1>2, <1>3, <1>4, <1>5, <1>6, <1>7, <1>8, <1>9, <1>10, <1>11, <1>12, <1>13,
     <1>14, <1>15, <1>16, <1>17, <1>18, <1>19 DEF Next, RequestStep, BuildStep, Finished

\* A tunnel is only given to a request whose needs it covers.
LEMMA NextAnswerSuits == ListInv /\ OffersSuit /\ AnswerSuits /\ [Next]_vars => AnswerSuits'
<1> SUFFICES ASSUME ListInv, OffersSuit, AnswerSuits, [Next]_vars PROVE AnswerSuits'
  OBVIOUS
<1>0. /\ open \subseteq Builds /\ left \in [Requests -> SUBSET Builds]
      /\ advice \in [Requests -> SUBSET Builds] /\ users \in [Builds -> SUBSET Requests]
  BY DEF ListInv, LoopInv, TypeOK
<1> USE DEF AnswerSuits, listVars, specVars, buildVars, confVars, loopVars, GoTo
<1>1. ASSUME NEW r \in Requests, PrepareOpen(r) PROVE AnswerSuits'
  <2>1. PICK c \in find_open(usage[r]) : users' = [users EXCEPT ![c] = users[c] \cup {r}]
    BY <1>1 DEF PrepareOpen
  <2>2. kind[c] = SpecKind(usage[r]) /\ Required(usage[r]) \subseteq offers[c]
    BY <2>1 DEF find_open, supports
  <2>3. \A b \in Builds : \A x \in users'[b] : x \in users[b] \/ (x = r /\ b = c)
    BY <1>0, <2>1
  <2>4. kind' = kind /\ offers' = offers /\ usage' = usage
    BY <1>1 DEF PrepareOpen
  <2> QED
    BY <2>2, <2>3, <2>4
<1>2. ASSUME NEW r \in Requests, PrepareBuild(r) PROVE AnswerSuits'
  <2>1. PICK new \in SUBSET Builds : Launched(r, new)
    BY <1>2, LaunchedFacts DEF ListInv
  <2>2. \A b \in Builds : users[b] # {} => b \notin new
    BY <2>1 DEF Launched, ListInv, Phases
  <2>3. \A b \in Builds \ new : kind'[b] = kind[b] /\ offers'[b] = offers[b]
    BY <2>1 DEF Launched
  <2>4. usage' = usage /\ users' = users
    BY <1>2 DEF PrepareBuild
  <2> QED
    BY <2>2, <2>3, <2>4
<1>3. ASSUME NEW r \in Requests, PrepareWait(r) \/ PrepareError(r) \/ TakeActionError(r) \/
      Timeout(r) \/ Register(r) \/ LeftExhausted(r) PROVE AnswerSuits'
  BY <1>3 DEF PrepareWait, PrepareError, TakeActionError, Timeout, Register,
     LeftExhausted
<1>4. ASSUME NEW r \in Requests, NEW b \in Builds, LeftUse(r, b) PROVE AnswerSuits'
  <2> USE <1>4
  <2>1. users' = [users EXCEPT ![b] = @ \cup {r}]
    BY DEF LeftUse, Take
  <2>2. kind[b] = SpecKind(usage[r]) /\ Required(usage[r]) \subseteq offers[b]
    BY DEF LeftUse, LeftReady, OffersSuit
  <2>3. \A c \in Builds : \A x \in users'[c] : x \in users[c] \/ (x = r /\ c = b)
    BY <1>0, <2>1
  <2>4. kind' = kind /\ offers' = offers /\ usage' = usage
    BY DEF LeftUse, Take
  <2> QED
    BY <2>2, <2>3, <2>4
<1>5. ASSUME NEW r \in Requests, NEW b \in Builds, RightUse(r, b) PROVE AnswerSuits'
  <2> USE <1>5
  <2>1. users' = [users EXCEPT ![b] = @ \cup {r}]
    BY DEF RightUse, Take
  <2>2. kind[b] = SpecKind(usage[r]) /\ Required(usage[r]) \subseteq offers[b]
    BY DEF RightUse, RightReady, OffersSuit
  <2>3. \A c \in Builds : \A x \in users'[c] : x \in users[c] \/ (x = r /\ c = b)
    BY <1>0, <2>1
  <2>4. kind' = kind /\ offers' = offers /\ usage' = usage
    BY DEF RightUse, Take
  <2> QED
    BY <2>2, <2>3, <2>4
<1>6. ASSUME NEW r \in Requests, NEW b \in Builds, LeftLost(r, b) \/ LeftGone(r, b) \/
      LeftError(r, b) \/ LeftCanceled(r, b) \/ RightUseless(r, b) PROVE AnswerSuits'
  BY <1>6 DEF LeftLost, LeftGone, LeftError, LeftCanceled, RightUseless
<1>7. ASSUME NEW b \in Builds, Built(b) \/ BuildFailed(b) \/ BuildDropped(b) \/ Send(b) \/
      Notify(b) \/ take_open(b) \/ TunnelCloses(b) PROVE AnswerSuits'
  BY <1>7 DEF Built, BuildFailed, BuildDropped, Send, Notify, take_open, TunnelCloses
<1>8. ASSUME NEW l \in Tests, PlanTest(l) PROVE AnswerSuits'
  <2>1. TestPlanned(l)
    BY <1>8, TestFacts
  <2>2. \A b \in Builds : users[b] # {} => b # TestBuild(l)
    BY <2>1 DEF TestPlanned, ListInv, Phases
  <2>3. \A b \in Builds \ {TestBuild(l)} : kind'[b] = kind[b] /\ offers'[b] = offers[b]
    BY <2>1 DEF TestPlanned
  <2> QED
    BY <1>8, <2>2, <2>3 DEF PlanTest
<1>9. ASSUME NEW l \in Tests, LaunchTest(l) PROVE AnswerSuits'
  BY <1>9 DEF LaunchTest
<1>10. ASSUME set_path_config \/ retire_all_tunnels PROVE AnswerSuits'
  BY <1>10 DEF set_path_config, retire_all_tunnels
<1>11. ASSUME UNCHANGED vars PROVE AnswerSuits'
  BY <1>11 DEF vars
<1> QED
  BY <1>1, <1>2, <1>3, <1>4, <1>5, <1>6, <1>7, <1>8, <1>9, <1>10, <1>11 DEF Next,
     RequestStep, BuildStep, Finished

\* A tunnel is restricted only by an isolation compatible with its own.
LEMMA NextIsoNonEmpty == ListInv /\ IsoNonEmpty /\ [Next]_vars => IsoNonEmpty'
<1> SUFFICES ASSUME ListInv, IsoNonEmpty, [Next]_vars PROVE IsoNonEmpty'
  OBVIOUS
<1>0. /\ open \subseteq Builds /\ iso \in [Builds -> SUBSET Groups]
      /\ usage \in [Requests -> Usages]
  BY DEF ListInv, LoopInv, TypeOK
<1> USE DEF IsoNonEmpty, listVars, specVars, buildVars, confVars, loopVars, GoTo
<1>1. ASSUME NEW r \in Requests, PrepareOpen(r) PROVE IsoNonEmpty'
  BY <1>1, <1>0 DEF PrepareOpen, find_open, supports, compatible, restrict_mut
<1>2. ASSUME NEW r \in Requests, PrepareBuild(r) PROVE IsoNonEmpty'
  <2>1. PICK new \in SUBSET Builds : Launched(r, new)
    BY <1>2, LaunchedFacts DEF ListInv
  <2>2. \A b \in Builds : iso'[b] = IF b \in new THEN Isolation(usage[r]) ELSE iso[b]
    BY <2>1 DEF Launched
  <2>3. Isolation(usage[r]) # {}
    BY <1>0, UsagesAssumption
  <2> QED
    BY <2>2, <2>3
<1>3. ASSUME NEW r \in Requests, PrepareWait(r) \/ PrepareError(r) \/ TakeActionError(r) \/
      Timeout(r) \/ Register(r) \/ LeftExhausted(r) PROVE IsoNonEmpty'
  BY <1>3 DEF PrepareWait, PrepareError, TakeActionError, Timeout, Register, LeftExhausted
<1>4. ASSUME NEW r \in Requests, NEW b \in Builds, LeftUse(r, b) PROVE IsoNonEmpty'
  BY <1>4, <1>0 DEF LeftUse, Take, LeftReady, Restrictable, compatible, restrict_mut
<1>5. ASSUME NEW r \in Requests, NEW b \in Builds, RightUse(r, b) PROVE IsoNonEmpty'
  BY <1>5, <1>0 DEF RightUse, Take, RightReady, Restrictable, compatible, restrict_mut
<1>6. ASSUME NEW r \in Requests, NEW b \in Builds, LeftLost(r, b) \/ LeftGone(r, b) \/
      LeftError(r, b) \/ LeftCanceled(r, b) \/ RightUseless(r, b) PROVE IsoNonEmpty'
  BY <1>6 DEF LeftLost, LeftGone, LeftError, LeftCanceled, RightUseless
<1>7. ASSUME NEW b \in Builds, Built(b) \/ BuildFailed(b) \/ BuildDropped(b) \/ Send(b) \/
      Notify(b) \/ take_open(b) \/ TunnelCloses(b) PROVE IsoNonEmpty'
  BY <1>7 DEF Built, BuildFailed, BuildDropped, Send, Notify, take_open, TunnelCloses
<1>8. ASSUME NEW l \in Tests, PlanTest(l) PROVE IsoNonEmpty'
  <2>1. TestPlanned(l)
    BY <1>8, TestFacts
  <2>2. \A b \in Builds : iso'[b] = IF b = TestBuild(l) THEN Groups ELSE iso[b]
    BY <2>1 DEF TestPlanned
  <2> QED
    BY <2>2, UsagesAssumption
<1>9. ASSUME NEW l \in Tests, LaunchTest(l) PROVE IsoNonEmpty'
  BY <1>9 DEF LaunchTest
<1>10. ASSUME set_path_config \/ retire_all_tunnels PROVE IsoNonEmpty'
  BY <1>10 DEF set_path_config, retire_all_tunnels
<1>11. ASSUME UNCHANGED vars PROVE IsoNonEmpty'
  BY <1>11 DEF vars
<1> QED
  BY <1>1, <1>2, <1>3, <1>4, <1>5, <1>6, <1>7, <1>8, <1>9, <1>10, <1>11 DEF Next,
     RequestStep, BuildStep, Finished

\* A tunnel's isolation only ever shrinks once it has been given out.
LEMMA NextGivenIso == ListInv /\ GivenIso /\ [Next]_vars => GivenIso'
<1> SUFFICES ASSUME ListInv, GivenIso, [Next]_vars PROVE GivenIso'
  OBVIOUS
<1>0. /\ open \subseteq Builds /\ iso \in [Builds -> SUBSET Groups]
      /\ users \in [Builds -> SUBSET Requests]
  BY DEF ListInv, LoopInv, TypeOK
<1> USE DEF GivenIso, listVars, specVars, buildVars, confVars, loopVars, GoTo
<1>1. ASSUME NEW r \in Requests, PrepareOpen(r) PROVE GivenIso'
  BY SMTT(30), <1>1, <1>0 DEF PrepareOpen, restrict_mut, find_open
<1>2. ASSUME NEW r \in Requests, PrepareBuild(r) PROVE GivenIso'
  <2>1. PICK new \in SUBSET Builds : Launched(r, new)
    BY <1>2, LaunchedFacts DEF ListInv
  <2>2. \A b \in Builds : users[b] # {} => b \notin new
    BY <2>1 DEF Launched, ListInv, Phases
  <2>3. \A b \in Builds \ new : iso'[b] = iso[b]
    BY <2>1 DEF Launched
  <2>4. usage' = usage /\ users' = users
    BY <1>2 DEF PrepareBuild
  <2> QED
    BY <2>2, <2>3, <2>4
<1>3. ASSUME NEW r \in Requests, PrepareWait(r) \/ PrepareError(r) \/ TakeActionError(r) \/
      Timeout(r) \/ Register(r) \/ LeftExhausted(r) PROVE GivenIso'
  BY <1>3 DEF PrepareWait, PrepareError, TakeActionError, Timeout, Register,
     LeftExhausted
<1>4. ASSUME NEW r \in Requests, NEW b \in Builds, LeftUse(r, b) PROVE GivenIso'
  BY <1>4, <1>0 DEF LeftUse, Take, LeftReady, restrict_mut
<1>5. ASSUME NEW r \in Requests, NEW b \in Builds, RightUse(r, b) PROVE GivenIso'
  BY <1>5, <1>0 DEF RightUse, Take, RightReady, restrict_mut
<1>6. ASSUME NEW r \in Requests, NEW b \in Builds, LeftLost(r, b) \/ LeftGone(r, b) \/
      LeftError(r, b) \/ LeftCanceled(r, b) \/ RightUseless(r, b) PROVE GivenIso'
  BY <1>6 DEF LeftLost, LeftGone, LeftError, LeftCanceled, RightUseless
<1>7. ASSUME NEW b \in Builds, Built(b) \/ BuildFailed(b) \/ BuildDropped(b) \/ Send(b) \/
      Notify(b) \/ take_open(b) \/ TunnelCloses(b) PROVE GivenIso'
  BY <1>7 DEF Built, BuildFailed, BuildDropped, Send, Notify, take_open, TunnelCloses
<1>8. ASSUME NEW l \in Tests, PlanTest(l) PROVE GivenIso'
  <2>1. TestPlanned(l)
    BY <1>8, TestFacts
  <2>2. \A b \in Builds : users[b] # {} => b # TestBuild(l)
    BY <2>1 DEF TestPlanned, ListInv, Phases
  <2>3. \A b \in Builds \ {TestBuild(l)} : iso'[b] = iso[b]
    BY <2>1 DEF TestPlanned
  <2> QED
    BY <1>8, <2>2, <2>3 DEF PlanTest
<1>9. ASSUME NEW l \in Tests, LaunchTest(l) PROVE GivenIso'
  BY <1>9 DEF LaunchTest
<1>10. ASSUME set_path_config \/ retire_all_tunnels PROVE GivenIso'
  BY <1>10 DEF set_path_config, retire_all_tunnels
<1>11. ASSUME UNCHANGED vars PROVE GivenIso'
  BY <1>11 DEF vars
<1> QED
  BY <1>1, <1>2, <1>3, <1>4, <1>5, <1>6, <1>7, <1>8, <1>9, <1>10, <1>11 DEF Next,
     RequestStep, BuildStep, Finished

-----------------------------------------------------------------------------

\* Each new waiter narrows the tentative assignment to what it can use.
LEMMA NextTentativeInv == ListInv /\ TentativeInv /\ [Next]_vars => TentativeInv'
<1> SUFFICES ASSUME ListInv, TentativeInv, [Next]_vars PROVE TentativeInv'
  OBVIOUS
<1>0. /\ open \subseteq Builds /\ pending \subseteq Builds
      /\ build \in [Builds -> {"none", "planned", "building", "reply", "sent", "done"}]
      /\ left \in [Requests -> SUBSET Builds] /\ iso \in [Builds -> SUBSET Groups]
      /\ tent \in [Builds -> SUBSET Groups] /\ usage \in [Requests -> Usages]
  BY DEF ListInv, LoopInv, TypeOK
<1> USE DEF TentativeInv, listVars, specVars, buildVars, confVars, loopVars, GoTo
<1>1. ASSUME NEW r \in Requests, PrepareOpen(r) PROVE TentativeInv'
  <2>1. PICK c \in find_open(usage[r]) : restrict_mut(c, usage[r])
    BY <1>1 DEF PrepareOpen
  <2>2. c \in Builds /\ build[c] \notin {"planned", "building"}
    BY <1>0, <2>1 DEF find_open, ListInv, Phases
  <2>3. \A b \in Builds : b # c => iso'[b] = iso[b]
    BY <1>0, <2>1, <2>2 DEF restrict_mut
  <2> QED
    BY <1>1, <2>2, <2>3 DEF PrepareOpen
<1>2. ASSUME NEW r \in Requests, PrepareWait(r) PROVE TentativeInv'
  <2> PICK c \in find_pending_tunnels(usage[r]) :
            tentative_restrict_mut(c, usage[r]) /\ left' = [left EXCEPT ![r] = {c}]
    BY <1>2 DEF PrepareWait
  <2>2. c \in Builds /\ compatible(tent[c], Isolation(usage[r]))
    BY <1>0 DEF find_pending_tunnels, supports
  <2>3. tent'[c] = tent[c] \cap Isolation(usage[r]) /\ \A b \in Builds : b # c => tent'[b] = tent[b]
    BY <1>0, <2>2 DEF tentative_restrict_mut
  <2>4. \A x \in Requests, b \in Builds : b \in left'[x] => b \in left[x] \/ (x = r /\ b = c)
    BY <1>0
  <2>5. build' = build /\ usage' = usage /\ iso' = iso
    BY <1>2 DEF PrepareWait
  <2> QED
    BY <2>2, <2>3, <2>4, <2>5 DEF compatible
<1>3. ASSUME NEW r \in Requests, PrepareBuild(r) PROVE TentativeInv'
  <2>1. PICK new \in SUBSET Builds : Launched(r, new)
    BY <1>3, LaunchedFacts DEF ListInv
  <2>2. /\ \A b \in new : tent'[b] = Isolation(usage[r]) /\ iso'[b] = Isolation(usage[r])
        /\ \A b \in Builds \ new : tent'[b] = tent[b] /\ iso'[b] = iso[b] /\ build'[b] = build[b]
    BY <2>1 DEF Launched
  <2>3. Isolation(usage[r]) # {} /\ usage' = usage
    BY <1>3, <1>0, UsagesAssumption DEF PrepareBuild
  <2>4. \A x \in Requests, b \in Builds : b \in left'[x] => IF b \in new THEN x = r ELSE b \in left[x]
    BY SMTT(30), <2>1 DEF Launched, ListInv, Phases
  <2>5. ASSUME NEW b \in Builds, build'[b] \in {"planned", "building"}
        PROVE  /\ tent'[b] # {} /\ tent'[b] \subseteq iso'[b]
               /\ \A x \in Requests : b \in left'[x] => tent'[b] \subseteq Isolation(usage'[x])
    <3>1. CASE b \in new
      BY SMTT(30), <2>2, <2>3, <2>4, <3>1
    <3>2. CASE b \notin new
      BY <2>2, <2>3, <2>4, <2>5, <3>2
    <3> QED
      BY <3>1, <3>2
  <2> QED
    BY <2>5
<1>4. ASSUME NEW r \in Requests, PrepareError(r) PROVE TentativeInv'
  BY SMTT(30), <1>4, <1>0 DEF PrepareError, AfterError
<1>5. ASSUME NEW r \in Requests, TakeActionError(r) PROVE TentativeInv'
  BY <1>5, <1>0 DEF TakeActionError, AfterError
<1>6. ASSUME NEW r \in Requests, Timeout(r) PROVE TentativeInv'
  BY <1>6, <1>0 DEF Timeout
<1>7. ASSUME NEW r \in Requests, Register(r) \/ LeftExhausted(r) PROVE TentativeInv'
  BY <1>7 DEF Register, LeftExhausted
<1>8. ASSUME NEW r \in Requests, NEW b \in Builds, LeftUse(r, b) PROVE TentativeInv'
  <2>1. \A c \in Builds : build[c] \in {"planned", "building"} => iso'[c] = iso[c]
    BY <1>8, <1>0 DEF LeftUse, Take, restrict_mut, ListInv, Phases
  <2> QED
    BY SMTT(30), <1>8, <2>1 DEF LeftUse, Take
<1>9. ASSUME NEW r \in Requests, NEW b \in Builds, LeftLost(r, b) PROVE TentativeInv'
  BY <1>9, <1>0 DEF LeftLost, Consume
<1>10. ASSUME NEW r \in Requests, NEW b \in Builds, LeftGone(r, b) PROVE TentativeInv'
  BY <1>10, <1>0 DEF LeftGone, Consume
<1>11. ASSUME NEW r \in Requests, NEW b \in Builds, LeftError(r, b) PROVE TentativeInv'
  BY <1>11, <1>0 DEF LeftError, Consume
<1>12. ASSUME NEW r \in Requests, NEW b \in Builds, RightUse(r, b) PROVE TentativeInv'
  <2>1. \A c \in Builds : build[c] \in {"planned", "building"} => iso'[c] = iso[c]
    BY <1>12, <1>0 DEF RightUse, Take, restrict_mut, ListInv, Phases
  <2> QED
    BY SMTT(30), <1>12, <2>1 DEF RightUse, Take
<1>13. ASSUME NEW r \in Requests, NEW b \in Builds, LeftCanceled(r, b) \/ RightUseless(r, b) PROVE
      TentativeInv'
  BY <1>13 DEF LeftCanceled, RightUseless
<1>14. ASSUME NEW b \in Builds, Built(b) PROVE TentativeInv'
  BY <1>14, <1>0 DEF Built
<1>15. ASSUME NEW b \in Builds, BuildFailed(b) PROVE TentativeInv'
  BY <1>15, <1>0 DEF BuildFailed
<1>16. ASSUME NEW b \in Builds, BuildDropped(b) PROVE TentativeInv'
  BY <1>16, <1>0 DEF BuildDropped
<1>17. ASSUME NEW b \in Builds, Send(b) PROVE TentativeInv'
  BY <1>17, <1>0 DEF Send
<1>18. ASSUME NEW b \in Builds, Notify(b) PROVE TentativeInv'
  BY <1>18, <1>0 DEF Notify
<1>19. ASSUME NEW b \in Builds, take_open(b) \/ TunnelCloses(b) PROVE TentativeInv'
  BY <1>19 DEF take_open, TunnelCloses
<1>20. ASSUME NEW l \in Tests, PlanTest(l) PROVE TentativeInv'
  <2>1. TestPlanned(l)
    BY <1>20, TestFacts
  <2>2. /\ iso'[TestBuild(l)] = Groups /\ tent'[TestBuild(l)] = Groups
        /\ \A b \in Builds \ {TestBuild(l)} :
              tent'[b] = tent[b] /\ iso'[b] = iso[b] /\ build'[b] = build[b]
    BY <2>1, <1>0 DEF TestPlanned
  <2>3. Groups # {} /\ usage' = usage /\ left' = left
    BY <1>20, UsagesAssumption DEF PlanTest
  <2>4. \A x \in Requests : TestBuild(l) \notin left[x]
    BY <2>1 DEF TestPlanned, ListInv, Phases
  <2>5. ASSUME NEW b \in Builds, build'[b] \in {"planned", "building"}
        PROVE  /\ tent'[b] # {} /\ tent'[b] \subseteq iso'[b]
               /\ \A x \in Requests : b \in left'[x] => tent'[b] \subseteq Isolation(usage'[x])
    <3>1. CASE b = TestBuild(l)
      BY <2>2, <2>3, <2>4, <3>1
    <3>2. CASE b # TestBuild(l)
      BY <2>2, <2>3, <2>5, <3>2
    <3> QED
      BY <3>1, <3>2
  <2> QED
    BY <2>5
<1>21. ASSUME NEW l \in Tests, LaunchTest(l) PROVE TentativeInv'
  BY <1>21, <1>0 DEF LaunchTest
<1>22. ASSUME set_path_config \/ retire_all_tunnels PROVE TentativeInv'
  BY <1>22 DEF set_path_config, retire_all_tunnels
<1>23. ASSUME UNCHANGED vars PROVE TentativeInv'
  BY <1>23 DEF vars
<1> QED
  BY <1>1, <1>2, <1>3, <1>4, <1>5, <1>6, <1>7, <1>8, <1>9, <1>10, <1>11, <1>12, <1>13,
     <1>14, <1>15, <1>16, <1>17, <1>18, <1>19, <1>20, <1>21, <1>22, <1>23 DEF Next, RequestStep,
     BuildStep, Finished

\* Only giving a tunnel out narrows its isolation.
LEMMA NextUsableUnlessTaken == ListInv /\ TentativeInv /\ UsableUnlessTaken /\ [Next]_vars =>
    UsableUnlessTaken'
<1> SUFFICES ASSUME ListInv, TentativeInv, UsableUnlessTaken, [Next]_vars PROVE UsableUnlessTaken'
  OBVIOUS
<1>0. /\ open \subseteq Builds /\ pending \subseteq Builds
      /\ left \in [Requests -> SUBSET Builds] /\ iso \in [Builds -> SUBSET Groups]
      /\ tent \in [Builds -> SUBSET Groups] /\ usage \in [Requests -> Usages]
      /\ users \in [Builds -> SUBSET Requests]
  BY DEF ListInv, LoopInv, TypeOK
<1> USE DEF UsableUnlessTaken, listVars, specVars, buildVars, confVars, loopVars, GoTo
<1>1. ASSUME NEW r \in Requests, PrepareOpen(r) PROVE UsableUnlessTaken'
  <2>1. PICK c \in find_open(usage[r]) :
              c \in Builds /\ restrict_mut(c, usage[r]) /\ users' = [users EXCEPT ![c] = users[c] \cup {r}]
    BY <1>1, <1>0 DEF PrepareOpen, find_open
  <2>2. /\ r \in users'[c] /\ usage' = usage /\ \A b \in Builds : users[b] \subseteq users'[b]
        /\ \A x \in Requests : \A b \in left'[x] : x # r /\ b \in left[x]
    BY <1>1, <1>0, <2>1 DEF PrepareOpen, ListInv, Waiters
  <2>3. \A b \in Builds : b # c => iso'[b] = iso[b]
    BY <1>0, <2>1 DEF restrict_mut
  <2>4. ASSUME NEW b \in Builds, NEW x \in Requests, b \in left'[x]
        PROVE  compatible(iso'[b], Isolation(usage'[x])) \/ users'[b] \ {x} # {}
    <3>1. b \in left[x] /\ x # r
      BY <2>2, <2>4
    <3>2. CASE b = c
      BY <2>2, <3>1, <3>2
    <3>3. CASE b # c
      BY <2>2, <2>3, <3>1, <3>3
    <3> QED
      BY <3>2, <3>3
  <2> QED
    BY <2>4
<1>2. ASSUME NEW r \in Requests, PrepareWait(r) PROVE UsableUnlessTaken'
  <2>1. PICK c \in find_pending_tunnels(usage[r]) : left' = [left EXCEPT ![r] = {c}]
    BY <1>2 DEF PrepareWait
  <2>2. c \in Builds /\ c \in pending /\ compatible(tent[c], Isolation(usage[r]))
    BY <1>0, <2>1 DEF find_pending_tunnels, supports
  <2>3. compatible(iso[c], Isolation(usage[r]))
    BY <2>2 DEF ListInv, Phases, TentativeInv, compatible
  <2>4. \A x \in Requests, b \in Builds : b \in left'[x] => b \in left[x] \/ (x = r /\ b = c)
    BY <1>0, <2>1
  <2>5. usage' = usage /\ iso' = iso /\ users' = users
    BY <1>2 DEF PrepareWait
  <2> QED
    BY <2>3, <2>4, <2>5
<1>3. ASSUME NEW r \in Requests, PrepareBuild(r) PROVE UsableUnlessTaken'
  <2>1. PICK new \in SUBSET Builds : Launched(r, new)
    BY <1>3, LaunchedFacts DEF ListInv
  <2>2. /\ \A b \in new : iso'[b] = Isolation(usage[r])
        /\ \A b \in Builds \ new : iso'[b] = iso[b]
        /\ \A x \in Requests, b \in Builds : b \in left'[x] => IF b \in new THEN x = r ELSE b \in left[x]
    BY SMTT(30), <2>1 DEF Launched, ListInv, Phases
  <2>3. Isolation(usage[r]) # {} /\ usage' = usage /\ users' = users
    BY <1>3, <1>0, UsagesAssumption DEF PrepareBuild
  <2> QED
    BY <2>2, <2>3 DEF compatible
<1>4. ASSUME NEW r \in Requests, PrepareError(r) PROVE UsableUnlessTaken'
  BY <1>4, <1>0 DEF PrepareError, AfterError
<1>5. ASSUME NEW r \in Requests, TakeActionError(r) PROVE UsableUnlessTaken'
  BY <1>5, <1>0 DEF TakeActionError, AfterError
<1>6. ASSUME NEW r \in Requests, Timeout(r) PROVE UsableUnlessTaken'
  BY <1>6, <1>0 DEF Timeout
<1>7. ASSUME NEW r \in Requests, Register(r) \/ LeftExhausted(r) PROVE UsableUnlessTaken'
  BY <1>7 DEF Register, LeftExhausted
<1>8. ASSUME NEW r \in Requests, NEW b \in Builds, LeftUse(r, b) PROVE UsableUnlessTaken'
  <2>1. b \in Builds /\ restrict_mut(b, usage[r])
    BY <1>8 DEF LeftUse, Take
  <2>2. /\ r \in users'[b] /\ usage' = usage /\ \A c \in Builds : users[c] \subseteq users'[c]
        /\ \A x \in Requests : \A c \in left'[x] : x # r /\ c \in left[x]
    BY <1>8, <1>0 DEF LeftUse, Take, ListInv, Waiters
  <2>3. \A c \in Builds : c # b => iso'[c] = iso[c]
    BY <1>0, <2>1 DEF restrict_mut
  <2>4. ASSUME NEW c \in Builds, NEW x \in Requests, c \in left'[x]
        PROVE  compatible(iso'[c], Isolation(usage'[x])) \/ users'[c] \ {x} # {}
    <3>1. c \in left[x] /\ x # r
      BY <2>2, <2>4
    <3>2. CASE c = b
      BY <2>2, <3>1, <3>2
    <3>3. CASE c # b
      BY <2>2, <2>3, <3>1, <3>3
    <3> QED
      BY <3>2, <3>3
  <2> QED
    BY <2>4
<1>9. ASSUME NEW r \in Requests, NEW b \in Builds, LeftLost(r, b) PROVE UsableUnlessTaken'
  BY <1>9, <1>0 DEF LeftLost, Consume
<1>10. ASSUME NEW r \in Requests, NEW b \in Builds, LeftGone(r, b) PROVE UsableUnlessTaken'
  BY <1>10, <1>0 DEF LeftGone, Consume
<1>11. ASSUME NEW r \in Requests, NEW b \in Builds, LeftError(r, b) PROVE UsableUnlessTaken'
  BY <1>11, <1>0 DEF LeftError, Consume
<1>12. ASSUME NEW r \in Requests, NEW b \in Builds, RightUse(r, b) PROVE UsableUnlessTaken'
  <2>1. b \in Builds /\ restrict_mut(b, usage[r])
    BY <1>12 DEF RightUse, Take
  <2>2. /\ r \in users'[b] /\ usage' = usage /\ \A c \in Builds : users[c] \subseteq users'[c]
        /\ \A x \in Requests : \A c \in left'[x] : x # r /\ c \in left[x]
    BY <1>12, <1>0 DEF RightUse, Take, ListInv, Waiters
  <2>3. \A c \in Builds : c # b => iso'[c] = iso[c]
    BY <1>0, <2>1 DEF restrict_mut
  <2>4. ASSUME NEW c \in Builds, NEW x \in Requests, c \in left'[x]
        PROVE  compatible(iso'[c], Isolation(usage'[x])) \/ users'[c] \ {x} # {}
    <3>1. c \in left[x] /\ x # r
      BY <2>2, <2>4
    <3>2. CASE c = b
      BY <2>2, <3>1, <3>2
    <3>3. CASE c # b
      BY <2>2, <2>3, <3>1, <3>3
    <3> QED
      BY <3>2, <3>3
  <2> QED
    BY <2>4
<1>13. ASSUME NEW r \in Requests, NEW b \in Builds, LeftCanceled(r, b) \/ RightUseless(r, b) PROVE
      UsableUnlessTaken'
  BY <1>13 DEF LeftCanceled, RightUseless
<1>14. ASSUME NEW b \in Builds, Built(b) \/ BuildFailed(b) \/ BuildDropped(b) \/ Send(b) \/
      Notify(b) \/ take_open(b) \/ TunnelCloses(b) PROVE UsableUnlessTaken'
  BY <1>14 DEF Built, BuildFailed, BuildDropped, Send, Notify, take_open, TunnelCloses
<1>15. ASSUME NEW l \in Tests, PlanTest(l) PROVE UsableUnlessTaken'
  <2>1. TestPlanned(l)
    BY <1>15, TestFacts
  <2>2. /\ \A b \in Builds \ {TestBuild(l)} : iso'[b] = iso[b]
        /\ \A x \in Requests : TestBuild(l) \notin left[x]
    BY <2>1 DEF TestPlanned, ListInv, Phases
  <2>3. left' = left /\ usage' = usage /\ users' = users
    BY <1>15 DEF PlanTest
  <2> QED
    BY <2>2, <2>3
<1>16. ASSUME NEW l \in Tests, LaunchTest(l) PROVE UsableUnlessTaken'
  BY <1>16 DEF LaunchTest
<1>17. ASSUME set_path_config \/ retire_all_tunnels PROVE UsableUnlessTaken'
  BY <1>17 DEF set_path_config, retire_all_tunnels
<1>18. ASSUME UNCHANGED vars PROVE UsableUnlessTaken'
  BY <1>18 DEF vars
<1> QED
  BY <1>1, <1>2, <1>3, <1>4, <1>5, <1>6, <1>7, <1>8, <1>9, <1>10, <1>11, <1>12, <1>13,
     <1>14, <1>15, <1>16, <1>17, <1>18 DEF Next, RequestStep, BuildStep, Finished

\* Requests plan and register their tunnels under one acquisition of the lock.
LEMMA NextFreshRequestTunnels == ListInv /\ FreshRequestTunnels /\ [Next]_vars =>
    FreshRequestTunnels'
<1> SUFFICES ASSUME ListInv, FreshRequestTunnels, [Next]_vars PROVE FreshRequestTunnels'
  OBVIOUS
<1>0. /\ open \subseteq Builds /\ pending \subseteq Builds
      /\ planned \in [Builds -> 0 .. MaxReconf]
  BY DEF ListInv, LoopInv, TypeOK
<1> USE DEF FreshRequestTunnels, listVars, specVars, buildVars, confVars, loopVars, GoTo
<1>1. ASSUME NEW r \in Requests, PrepareBuild(r) PROVE FreshRequestTunnels'
  <2>1. PICK new \in SUBSET Builds : Launched(r, new)
    BY <1>1, LaunchedFacts DEF ListInv
  <2>2. /\ \A b \in new : planned'[b] = config
        /\ \A b \in Builds \ new : planned'[b] = planned[b]
        /\ pending' = pending \cup new
    BY <2>1 DEF Launched
  <2>3. open' = open /\ config' = config /\ reconf' = reconf
    BY <1>1 DEF PrepareBuild
  <2>4. ASSUME ~ reconf', NEW b \in open' \cup pending', b[1] \in Requests
        PROVE  planned'[b] = config'
    <3>1. CASE b \in new
      BY <3>1, <2>2, <2>3
    <3>2. CASE b \notin new
      BY <1>0, <3>2, <2>2, <2>3, <2>4
    <3> QED
      BY <3>1, <3>2
  <2> QED
    BY <2>4
<1>2. ASSUME NEW r \in Requests, PrepareOpen(r) \/ PrepareWait(r) \/ PrepareError(r) \/
      TakeActionError(r) \/ Timeout(r) \/ Register(r) \/ LeftExhausted(r) PROVE
      FreshRequestTunnels'
  BY <1>2 DEF PrepareOpen, PrepareWait, PrepareError, TakeActionError, Timeout, Register,
     LeftExhausted
<1>3. ASSUME NEW r \in Requests, NEW b \in Builds, LeftUse(r, b) \/ LeftLost(r, b) \/ LeftGone(r,
      b) \/ LeftError(r, b) \/ LeftCanceled(r, b) \/ RightUse(r, b) \/ RightUseless(r, b) PROVE
      FreshRequestTunnels'
  BY <1>3 DEF LeftUse, Take, LeftReady, LeftLost, LeftGone, LeftError, LeftCanceled,
     RightUse,
     Take, RightReady, RightUseless
<1>4. ASSUME NEW b \in Builds, Built(b) PROVE FreshRequestTunnels'
  BY <1>4, <1>0 DEF Built
<1>5. ASSUME NEW b \in Builds, BuildFailed(b) PROVE FreshRequestTunnels'
  BY <1>5, <1>0 DEF BuildFailed
<1>6. ASSUME NEW b \in Builds, BuildDropped(b) PROVE FreshRequestTunnels'
  BY <1>6, <1>0 DEF BuildDropped
<1>7. ASSUME NEW b \in Builds, Send(b) \/ Notify(b) \/ take_open(b) \/ TunnelCloses(b) PROVE
      FreshRequestTunnels'
  BY <1>7 DEF Send, Notify, take_open, TunnelCloses
<1>8. ASSUME NEW l \in Tests, PlanTest(l) PROVE FreshRequestTunnels'
  <2>1. TestPlanned(l)
    BY <1>8, TestFacts
  <2>2. /\ \A b \in Builds \ {TestBuild(l)} : planned'[b] = planned[b]
        /\ TestBuild(l) \notin open \cup pending
    BY <2>1 DEF TestPlanned, ListInv, Phases
  <2>3. open' = open /\ pending' = pending /\ config' = config /\ reconf' = reconf
    BY <1>8 DEF PlanTest
  <2> QED
    BY <1>0, <2>2, <2>3
<1>9. ASSUME NEW l \in Tests, LaunchTest(l) PROVE FreshRequestTunnels'
  <2>1. /\ pending' = pending \cup {<<l, 1, 1>>}
        /\ open' = open /\ planned' = planned /\ config' = config /\ reconf' = reconf
    BY <1>9 DEF LaunchTest
  <2>2. <<l, 1, 1>>[1] \notin Requests
    BY DisjointAssumption
  <2> QED
    BY <2>1, <2>2
<1>10. ASSUME set_path_config \/ retire_all_tunnels PROVE FreshRequestTunnels'
  BY <1>10 DEF set_path_config, retire_all_tunnels
<1>11. ASSUME UNCHANGED vars PROVE FreshRequestTunnels'
  BY <1>11 DEF vars
<1> QED
  BY <1>1, <1>2, <1>3, <1>4, <1>5, <1>6, <1>7, <1>8, <1>9, <1>10, <1>11 DEF Next,
     RequestStep, BuildStep, Finished

-----------------------------------------------------------------------------
\* A task is started for a build of the request that plans it, one of those that
\* launch_parallelism allows, or for a timeout-testing launch.
LEMMA NextWithinLimits ==
    ListInv /\ WithinLimits /\ [Next]_vars => WithinLimits'
<1> SUFFICES ASSUME ListInv, WithinLimits, [Next]_vars PROVE WithinLimits'
  OBVIOUS
<1>0. build \in [Builds -> {"none", "planned", "building", "reply", "sent", "done"}]
  BY DEF ListInv, LoopInv, TypeOK
<1> USE DEF WithinLimits, listVars, specVars, buildVars, confVars, loopVars
<1>1. ASSUME NEW r \in Requests, PrepareBuild(r) PROVE WithinLimits'
  <2> USE <1>1
  <2>1. PICK new \in SUBSET NewBuilds(r) :
              build' = [b \in Builds |-> IF b \in new THEN "building" ELSE build[b]]
    BY DEF PrepareBuild
  <2>2. usage' = usage
    BY DEF PrepareBuild
  <2>3. \A b \in new : b[1] = r /\ b[2] <= max_failures(usage[r]) /\ b[3] <= Parallelism(usage[r])
    <3>1. \A b \in NewBuilds(r) : b[1] = r /\ b[3] <= Parallelism(usage[r])
      BY SMTT(30) DEF NewBuilds
    <3>2. \A b \in NewBuilds(r) : b[2] = nFail[r] + 1
      BY FreshBuilds DEF PrepareBuild, ListInv
    <3>3. nFail[r] < max_failures(usage[r]) /\ nFail[r] \in Nat /\ max_failures(usage[r]) \in Nat
      <4>1. pc[r] = "start"
        BY DEF PrepareBuild
      <4> QED
        BY SMTT(30), <4>1, MaxFailuresBounds DEF ListInv, LoopInv, CountersBounded, TypeOK
    <3> QED
      BY SMTT(30), <2>1, <3>1, <3>2, <3>3
  <2>4. \A b \in Builds : build'[b] # "none" => build[b] # "none" \/ b \in new
    BY <2>1
  <2> QED
    BY <2>2, <2>3, <2>4 DEF Parallelism, max_failures
<1>2. ASSUME NEW b \in Builds, Built(b) \/ BuildFailed(b) \/ BuildDropped(b) \/ Send(b) \/ Notify(b)
      PROVE WithinLimits'
  <2>1. usage' = usage /\ build[b] # "none"
    BY <1>2 DEF Built, BuildFailed, BuildDropped, Send, Notify
  <2>2. PICK s : build' = [build EXCEPT ![b] = s]
    BY <1>2 DEF Built, BuildFailed, BuildDropped, Send, Notify
  <2>3. \A c \in Builds : build'[c] # "none" => build[c] # "none"
    BY <1>0, <2>1, <2>2
  <2> QED
    BY <2>1, <2>3 DEF Parallelism, max_failures
<1>3. ASSUME NEW l \in Tests, PlanTest(l) \/ LaunchTest(l) PROVE WithinLimits'
  <2>1. usage' = usage
    BY <1>3 DEF PlanTest, LaunchTest
  <2>2. PICK s : build' = [build EXCEPT ![TestBuild(l)] = s]
    BY <1>3 DEF PlanTest, LaunchTest, TestBuild
  <2>3. \A c \in Builds : build'[c] # "none" => build[c] # "none" \/ c = TestBuild(l)
    BY <1>0, <2>2
  <2>4. TestBuild(l)[1] \notin Requests
    BY DisjointAssumption DEF TestBuild
  <2> QED
    BY <2>1, <2>3, <2>4 DEF Parallelism, max_failures
<1>4. ASSUME NEW r \in Requests, PrepareOpen(r) \/ PrepareWait(r) \/ PrepareError(r) \/
      TakeActionError(r) \/ Timeout(r) \/ Register(r) \/ LeftExhausted(r) PROVE WithinLimits'
  <2>1. usage' = usage /\ build' = build
    BY <1>4 DEF PrepareOpen, PrepareWait, PrepareError, TakeActionError, Timeout,
       Register, LeftExhausted
  <2> QED
    BY <2>1 DEF Parallelism, max_failures
<1>5. ASSUME NEW r \in Requests, NEW b \in Builds, LeftUse(r, b) \/ LeftLost(r, b) \/
      LeftGone(r, b) \/ LeftError(r, b) \/ LeftCanceled(r, b) \/ RightUse(r, b) \/
      RightUseless(r, b) PROVE WithinLimits'
  <2>1. usage' = usage /\ build' = build
    BY <1>5 DEF LeftUse, LeftLost, LeftGone, LeftError, LeftCanceled, RightUse,
       RightUseless, Take
  <2> QED
    BY <2>1 DEF Parallelism, max_failures
<1>6. ASSUME NEW b \in Builds, take_open(b) \/ TunnelCloses(b) PROVE WithinLimits'
  <2>1. usage' = usage /\ build' = build
    BY <1>6 DEF take_open, TunnelCloses
  <2> QED
    BY <2>1 DEF Parallelism, max_failures
<1>7. ASSUME set_path_config \/ retire_all_tunnels \/ UNCHANGED vars PROVE WithinLimits'
  <2>1. usage' = usage /\ build' = build
    BY <1>7 DEF set_path_config, retire_all_tunnels, vars
  <2> QED
    BY <2>1 DEF Parallelism, max_failures
<1> QED
  BY <1>1, <1>2, <1>3, <1>4, <1>5, <1>6, <1>7
     DEF Next, RequestStep, BuildStep, Finished

\* The manager starts with empty lists and nothing planned.
LEMMA InitIndInv == Init => IndInv
<1> SUFFICES ASSUME Init PROVE IndInv
  OBVIOUS
<1>1. TypeOK
  <2>1. /\ iso \in [Builds -> SUBSET Groups] /\ tent \in [Builds -> SUBSET Groups]
        /\ offers \in [Builds -> SUBSET Needs] /\ planned \in [Builds -> 0 .. MaxReconf]
    BY SMTT(30), NumbersAssumption DEF Init
  <2>2. /\ left \in [Requests -> SUBSET Builds] /\ advice \in [Requests -> SUBSET Builds]
        /\ errs \in [Requests -> SUBSET Errors] /\ users \in [Builds -> SUBSET Requests]
    BY DEF Init
  <2>3. nFail \in [Requests -> 0 .. MaxTries] /\ nReset \in [Requests -> 0 .. MAX_RESETS]
    BY SMTT(30), NumbersAssumption DEF Init
  <2>4. /\ kind \in [Builds -> {"Dir", "Exit", "NoUsage"}] /\ live \in [Builds -> BOOLEAN]
        /\ build \in [Builds -> {"none", "planned", "building", "reply", "sent", "done"}]
    BY DEF Init
  <2>5. /\ result \in [Builds -> {"none", "ok", "CircCanceled"} \cup BuildErrors]
        /\ pc \in [Requests -> {"start", "register", "wait", "error", "ok", "failed"}]
    BY DEF Init
  <2>6. /\ config \in 0 .. MaxReconf /\ usage \in [Requests -> Usages]
        /\ open \subseteq Builds /\ pending \subseteq Builds
    BY SMTT(30), NumbersAssumption DEF Init
  <2>7. reconf \in BOOLEAN
    BY DEF Init
  <2> QED
    BY <2>1, <2>2, <2>3, <2>4, <2>5, <2>6, <2>7 DEF TypeOK
<1>2. \A r \in Requests : max_failures(usage[r]) \in 1 .. MaxTries
  BY <1>1, MaxFailuresBounds DEF TypeOK
<1>3. LoopInv
  BY SMTT(30), <1>1, <1>2, NumbersAssumption DEF Init, LoopInv, CountersBounded, NumberedBuilds, ResultsSet
<1>4. Phases /\ Waiters /\ OffersSuit /\ AnswerSuits /\ GivenIso
  BY DEF Init, Phases, Waiters, OffersSuit, AnswerSuits, GivenIso
<1>5. /\ IsoNonEmpty /\ TentativeInv /\ UsableUnlessTaken /\ FreshRequestTunnels
      /\ WithinLimits
  BY UsagesAssumption DEF Init, IsoNonEmpty, TentativeInv, UsableUnlessTaken,
     FreshRequestTunnels, WithinLimits
<1> QED
  BY <1>3, <1>4, <1>5 DEF IndInv, ListInv

\* The inductive invariant is kept by every step.
LEMMA NextIndInv == IndInv /\ [Next]_vars => IndInv'
<1> SUFFICES ASSUME IndInv, [Next]_vars PROVE IndInv'
  OBVIOUS
<1>1. LoopInv'
  BY NextTypeOK, NextCountersBounded, NextNumberedBuilds, NextResultsSet
     DEF IndInv, ListInv, LoopInv
<1>2. Phases' /\ Waiters' /\ OffersSuit' /\ AnswerSuits'
  BY NextPhases, NextWaiters, NextOffersSuit, NextAnswerSuits DEF IndInv
<1>3. IsoNonEmpty' /\ GivenIso' /\ TentativeInv'
  BY NextIsoNonEmpty, NextGivenIso, NextTentativeInv DEF IndInv
<1>4. UsableUnlessTaken' /\ FreshRequestTunnels' /\ WithinLimits'
  BY NextUsableUnlessTaken, NextFreshRequestTunnels, NextWithinLimits DEF IndInv
<1> QED
  BY <1>1, <1>2, <1>3, <1>4 DEF IndInv, ListInv

\* The inductive invariant holds in every reachable state.
LEMMA Inductive == Spec => []IndInv
BY InitIndInv, NextIndInv, PTL DEF Spec

\* Type correctness, in particular that the loop of get_or_launch is bounded.
THEOREM TypeCorrect == Spec => []TypeOK
BY Inductive, PTL DEF IndInv, ListInv, LoopInv

\* Requests that share a tunnel have compatible isolations, whatever the
\* isolations are and however the requests interleave.
THEOREM OnlyCompatibleShare == Spec => []IsolationRespected
<1>1. IndInv => IsolationRespected
  <2> SUFFICES ASSUME IndInv, NEW b \in Builds, NEW r \in users[b], NEW s \in users[b]
               PROVE  compatible(Isolation(usage[r]), Isolation(usage[s]))
    BY DEF IsolationRespected
  <2>1. iso[b] # {}
    BY DEF IndInv, IsoNonEmpty
  <2>2. iso[b] \subseteq Isolation(usage[r]) /\ iso[b] \subseteq Isolation(usage[s])
    BY DEF IndInv, GivenIso
  <2> QED
    BY <2>1, <2>2 DEF compatible
<1> QED
  BY <1>1, Inductive, PTL

\* A request gets a tunnel that can do what it asked for.
THEOREM SuitableTunnels == Spec => []AnswerSuits
BY Inductive, PTL DEF IndInv

\* The requests that wait for a tunnel can all be served by it.
THEOREM WaitersCanShare == Spec => []TentativeSuitsWaiters
<1>1. IndInv => TentativeSuitsWaiters
  <2> SUFFICES ASSUME IndInv, NEW b \in pending,
                      NEW r \in Requests, NEW s \in Requests, b \in left[r], b \in left[s]
               PROVE  /\ compatible(tent[b], Isolation(usage[r])) /\ tent[b] \subseteq iso[b]
                      /\ compatible(Isolation(usage[r]), Isolation(usage[s]))
    BY DEF TentativeSuitsWaiters
  <2>1. b \in Builds /\ build[b] = "building"
    BY DEF IndInv, ListInv, LoopInv, TypeOK, Phases
  <2>2. tent[b] # {} /\ tent[b] \subseteq iso[b]
    BY <2>1 DEF IndInv, TentativeInv
  <2>3. tent[b] \subseteq Isolation(usage[r]) /\ tent[b] \subseteq Isolation(usage[s])
    BY <2>1 DEF IndInv, TentativeInv
  <2> QED
    BY <2>2, <2>3 DEF compatible
<1> QED
  BY <1>1, Inductive, PTL

\* No tunnel that a request launched outlives a reconfiguration in the lists.
THEOREM NoStaleRequestTunnels == Spec => []FreshRequestTunnels
BY Inductive, PTL DEF IndInv

\* A step that records LostUsabilityRace follows one that gave the tunnel out.
LEMMA NextLost == IndInv /\ [Next]_vars => LostStep
<1> SUFFICES ASSUME IndInv, [Next]_vars PROVE LostStep
  OBVIOUS
<1>0. /\ errs \in [Requests -> SUBSET Errors] /\ left \in [Requests -> SUBSET Builds]
      /\ result \in [Builds -> {"none", "ok", "CircCanceled"} \cup BuildErrors]
  BY DEF IndInv, ListInv, LoopInv, TypeOK
<1> USE DEF LostStep, listVars, specVars, buildVars, confVars, loopVars, GoTo
<1>1. ASSUME NEW r \in Requests, PrepareWait(r) PROVE LostStep
  BY <1>1, <1>0, ErrorsAssumption DEF PrepareWait
<1>2. ASSUME NEW r \in Requests, PrepareBuild(r) PROVE LostStep
  BY <1>2, <1>0, ErrorsAssumption DEF PrepareBuild
<1>3. ASSUME NEW r \in Requests, PrepareError(r) PROVE LostStep
  BY SMTT(30), <1>3, <1>0, ErrorsAssumption DEF PrepareError, AfterError
<1>4. ASSUME NEW r \in Requests, TakeActionError(r) PROVE LostStep
  BY <1>4, <1>0, ErrorsAssumption DEF TakeActionError, AfterError
<1>5. ASSUME NEW r \in Requests, PrepareOpen(r) \/ Timeout(r) \/ Register(r) \/ LeftExhausted(r)
      PROVE LostStep
  BY <1>5 DEF PrepareOpen, Timeout, Register, LeftExhausted
<1>6. ASSUME NEW r \in Requests, NEW b \in Builds, LeftLost(r, b) PROVE LostStep
  <2> b \in left[r] /\ ~ Restrictable(b, usage[r]) /\ kind[b] = SpecKind(usage[r])
    BY <1>6 DEF LeftLost, LeftReady, IndInv, OffersSuit
  <2>2. ~ compatible(iso[b], Isolation(usage[r]))
    BY DEF Restrictable
  <2>3. users[b] \ {r} # {}
    BY <2>2 DEF IndInv, UsableUnlessTaken
  <2> QED
    BY <1>6, <1>0, <2>3 DEF LeftLost, RecordError
<1>7. ASSUME NEW r \in Requests, NEW b \in Builds, LeftError(r, b) PROVE LostStep
  BY <1>7, <1>0, ErrorsAssumption DEF LeftError, RecordError, LeftReady
<1>8. ASSUME NEW r \in Requests, NEW b \in Builds, LeftCanceled(r, b) PROVE LostStep
  BY <1>8, <1>0, ErrorsAssumption DEF LeftCanceled, RecordError
<1>9. ASSUME NEW r \in Requests, NEW b \in Builds, LeftUse(r, b) \/ LeftGone(r, b) \/ RightUse(r,
      b) \/ RightUseless(r, b) PROVE LostStep
  BY <1>9 DEF LeftUse, Take, LeftReady, LeftGone, RightUse, Take, RightReady,
     RightUseless
<1>10. ASSUME NEW b \in Builds, Built(b) \/ BuildFailed(b) \/ BuildDropped(b) \/ Send(b) \/
      Notify(b) \/ take_open(b) \/ TunnelCloses(b) PROVE LostStep
  BY <1>10 DEF Built, BuildFailed, BuildDropped, Send, Notify, take_open, TunnelCloses
<1>11. ASSUME NEW l \in Tests, PlanTest(l) \/ LaunchTest(l) PROVE LostStep
  BY <1>11 DEF PlanTest, LaunchTest
<1>12. ASSUME set_path_config \/ retire_all_tunnels PROVE LostStep
  BY <1>12 DEF set_path_config, retire_all_tunnels
<1>13. ASSUME UNCHANGED vars PROVE LostStep
  BY <1>13 DEF vars
<1> QED
  BY <1>1, <1>2, <1>3, <1>4, <1>5, <1>6, <1>7, <1>8, <1>9, <1>10, <1>11, <1>12, <1>13 DEF
     Next, RequestStep, BuildStep, Finished

\* A request that loses a race for a tunnel lost it to a request that got it.
THEOREM LosersHaveWinners == Spec => LostMeansTaken
<1>1. IndInv /\ [Next]_vars => [LostStep]_vars
  BY NextLost
<1> QED
  BY <1>1, Inductive, PTL DEF Spec, LostMeansTaken

\* The rounding up in max_failures: its product with the parallelism stays below
\* the number of tries plus the parallelism.
LEMMA TriesProduct ==
    \A u \in Usages :
        /\ max_failures(u) \in Nat /\ Parallelism(u) \in Nat \ {0}
        /\ max_failures(u) * Parallelism(u) < MaxTries + Parallelism(u)
<1> SUFFICES ASSUME NEW u \in Usages
             PROVE  /\ max_failures(u) \in Nat /\ Parallelism(u) \in Nat \ {0}
                    /\ max_failures(u) * Parallelism(u) < MaxTries + Parallelism(u)
  OBVIOUS
<1> DEFINE p == Parallelism(u)
           q == max_failures(u)
<1> p \in Nat \ {0} /\ MaxTries \in Nat \ {0} /\ q \in Nat
  BY SMTT(30), NumbersAssumption, MaxFailuresBounds DEF Parallelism
<1> HIDE DEF p
<1>2. q = (MaxTries + p - 1) \div p
  BY DEF max_failures, p
<1>3. p * q <= MaxTries + p - 1
  BY SMTT(30), <1>2
<1> HIDE DEF q
<1>4. q * p < MaxTries + p
  BY SMTT(30), <1>3
<1> QED
  BY <1>4 DEF p, q

\* What is known of finite sets is needed for the number of launches only.
INSTANCE FiniteSetTheorems

\* Over all its attempts a request launches at most request_max_retries tunnels, up
\* to the rounding of parallel launches, whatever fails, is lost or is cancelled.
THEOREM RetriesEnd == Spec => []TriesBounded
<1>1. IndInv => TriesBounded
  <2> SUFFICES ASSUME IndInv, NEW r \in Requests
               PROVE  Cardinality({b \in Builds : b[1] = r /\ build[b] # "none"})
                        < MaxTries + Parallelism(usage[r])
    BY DEF TriesBounded
  <2> DEFINE S == {b \in Builds : b[1] = r /\ build[b] # "none"}
             p == Parallelism(usage[r])
             q == max_failures(usage[r])
             T == (1 .. q) \X (1 .. p)
             f == [b \in S |-> <<b[2], b[3]>>]
  <2>1. usage[r] \in Usages /\ nFail[r] \in Nat
    BY SMTT(30) DEF IndInv, ListInv, LoopInv, TypeOK
  <2>2. q \in Nat /\ p \in Nat \ {0} /\ q * p < MaxTries + p /\ MaxTries \in Nat
    BY <2>1, TriesProduct, NumbersAssumption
  <2>3. \A b \in S : b[2] <= q /\ b[3] <= p
    BY DEF IndInv, WithinLimits
  <2>4. ASSUME NEW b \in S PROVE b[2] \in 1 .. q /\ b[3] \in 1 .. p
    <3>1. b[2] \in Nat /\ b[2] >= 1 /\ b[3] \in Nat /\ b[3] >= 1
      BY SMTT(30), NumbersAssumption DEF Builds
    <3> QED
      BY SMTT(30), <2>2, <2>3, <3>1
  <2>5. f \in Injection(S, T)
    <3>1. f \in [S -> T]
      BY <2>4
    <3>2. \A b \in S : b = <<r, b[2], b[3]>>
      BY SMTT(30) DEF Builds
    <3>3. ASSUME NEW b \in S, NEW c \in S, f[b] = f[c] PROVE b = c
      <4>1. <<b[2], b[3]>> = <<c[2], c[3]>>
        BY <3>3
      <4>2. b[2] = c[2] /\ b[3] = c[3]
        BY <4>1
      <4> QED
        BY <3>2, <4>2
    <3> QED
      BY <3>1, <3>3 DEF Injection, IsInjective
  <2>6. IsFiniteSet(T) /\ Cardinality(T) = q * p
    <3>1. IsFiniteSet(1 .. q) /\ Cardinality(1 .. q) = q
      BY SMTT(30), <2>2, FS_Interval
    <3>2. IsFiniteSet(1 .. p) /\ Cardinality(1 .. p) = p
      BY SMTT(30), <2>2, FS_Interval
    <3> DEFINE A == 1 .. q
               B == 1 .. p
    <3>3. IsFiniteSet(A \X B) /\ Cardinality(A \X B) = Cardinality(A) * Cardinality(B)
      <4> HIDE DEF A, B
      <4>1. IsFiniteSet(A) /\ IsFiniteSet(B)
        BY <3>1, <3>2 DEF A, B
      <4> QED
        BY <4>1, FS_Product
    <3> QED
      BY <3>1, <3>2, <3>3
  <2>7. IsFiniteSet(S) /\ Cardinality(S) <= Cardinality(T)
    BY <2>5, <2>6, FS_Injection
  <2>8. Cardinality(S) \in Nat
    BY <2>7, FS_CardinalityType
  <2> HIDE DEF S, p, q
  <2> QED
    BY SMTT(30), <2>2, <2>6, <2>7, <2>8 DEF S, p
<1> QED
  BY <1>1, Inductive, PTL
=============================================================================
