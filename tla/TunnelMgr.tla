----------------------------- MODULE TunnelMgr -----------------------------
(***************************************************************************)
(* The tunnel manager (crate tor-circmgr): AbstractTunnelMgr, TunnelList.  *)
(*                                                                         *)
(* Requests call get_or_launch and share one locked list of open tunnels,  *)
(* pending tunnels and waiting requests.  Each tunnel is built by a task   *)
(* of its own; a step is one acquisition of the lock or the code between   *)
(* two awaits.  Retry delays only postpone steps, and are left out.        *)
(*                                                                         *)
(* A build <<l, n, k>> is the k-th tunnel of the n-th attempt of l; the    *)
(* tunnel it makes goes by the same name.                                  *)
(*                                                                         *)
(* An isolation is the set of groups whose streams it lets share a tunnel: *)
(* two are compatible if they intersect, and join is intersection.  Groups *)
(* stands for a tunnel with no isolation yet.  The needs of a usage are    *)
(* its ports, stability and country, which a tunnel's offers must cover.   *)
(***************************************************************************)
EXTENDS Integers, FiniteSets

CONSTANTS
    Requests,        \* the callers of get_or_launch
    Tests,           \* timeout-testing launches, which call launch_by_usage
    Usages,          \* the TargetTunnelUsages that are asked for
    Groups,          \* what isolations are made of
    Needs,           \* what usages may need of a path
    Circs,           \* the circs of a Preemptive usage
    BuildErrors,     \* the ways in which a build may fail
    MaxTries,        \* request_max_retries
    DirParallelism,  \* launch_parallelism of TargetTunnelUsage::Dir
    MAX_RESETS,
    MaxReconf        \* bound on the number of reconfigurations

UsageKind(u) == u.kind
Isolation(u) == u.iso
Required(u) == u.needs

ASSUME UsagesAssumption ==
    /\ Groups # {}
    /\ \A u \in Usages :
          /\ UsageKind(u) \in {"Dir", "Exit", "Preemptive"}
          /\ Isolation(u) \subseteq Groups /\ Isolation(u) # {}
          /\ Required(u) \subseteq Needs
          /\ UsageKind(u) = "Exit" <=> Isolation(u) # Groups
          /\ UsageKind(u) = "Dir" => Required(u) = {}
ASSUME NumbersAssumption ==
    /\ Circs \in Nat /\ MAX_RESETS \in Nat \ {0} /\ MaxReconf \in Nat
    /\ MaxTries \in Nat \ {0} /\ DirParallelism \in Nat \ {0}
ASSUME ErrorsAssumption ==
    BuildErrors \subseteq {"Channel", "GuardNotUsable", "Bug", "PendingCanceled"}
ASSUME DisjointAssumption == Requests \cap Tests = {}

Builds == (Requests \cup Tests) \X (1 .. MaxTries + MAX_RESETS) \X (1 .. DirParallelism)

VARIABLES
    open,     \* open_tunnels
    pending,  \* pending_tunnels whose strong reference is still held
    iso,      \* the isolation in the spec of an open tunnel
    kind,     \* the kind of a planned tunnel's spec
    offers,   \* the policy, stability and country in that spec
    tent,     \* the isolation in a pending tunnel's tentative_assignment
    planned,  \* the path configuration a tunnel was planned with
    live,     \* usable(): the tunnel has not closed
    build,    \* where the task of spawn_launch is
    result,   \* what its oneshot future yields once it is sent
    config,   \* the version of the builder's path_config
    reconf,   \* TRUE inside reconfigure, between set_path_config and retire
    usage,    \* what each request asks for
    pc,       \* where each request is
    left,     \* the futures of wait_on_stream that have not been consumed
    advice,   \* the ids queued in the request's notify channel
    errs,     \* the errors in the attempt's RetryError
    nFail,    \* n_failures
    nReset,   \* n_resets
    users     \* the requests a tunnel was returned to

listVars == <<open, pending>>
specVars == <<kind, offers, planned>>
buildVars == <<build, result>>
confVars == <<config, reconf>>
loopVars == <<nFail, nReset>>
vars == <<listVars, iso, specVars, tent, live, buildVars, confVars, usage, pc, left, advice, errs,
          loopVars, users>>

Init ==
    /\ open = {} /\ pending = {}
    /\ iso = [b \in Builds |-> Groups]
    /\ kind = [b \in Builds |-> "NoUsage"]
    /\ offers = [b \in Builds |-> {}]
    /\ tent = [b \in Builds |-> Groups]
    /\ planned = [b \in Builds |-> 0]
    /\ live = [b \in Builds |-> TRUE]
    /\ build = [b \in Builds |-> "none"]
    /\ result = [b \in Builds |-> "none"]
    /\ config = 0 /\ reconf = FALSE
    /\ usage \in [Requests -> Usages]
    /\ pc = [r \in Requests |-> "start"]
    /\ left = [r \in Requests |-> {}]
    /\ advice = [r \in Requests |-> {}]
    /\ errs = [r \in Requests |-> {}]
    /\ nFail = [r \in Requests |-> 0]
    /\ nReset = [r \in Requests |-> 0]
    /\ users = [b \in Builds |-> {}]

-----------------------------------------------------------------------------
(* SupportedTunnelUsage                                                    *)

SpecKind(u) == IF UsageKind(u) = "Dir" THEN "Dir" ELSE "Exit"
compatible(i, j) == i \cap j # {}

\* Mutant: only the isolation is compared.
SupportsIsolation(b, i, u) == kind[b] = SpecKind(u) /\ compatible(i, Isolation(u))

supports(b, i, u) ==
    /\ kind[b] = SpecKind(u)
    /\ compatible(i, Isolation(u))
    /\ Required(u) \subseteq offers[b]
    /\ UsageKind(u) = "Preemptive" => i = Groups

\* Mutant: a tunnel is only used for what its isolation already implies.
RestrictableIfImplied(b, u) == kind[b] = SpecKind(u) /\ iso[b] \subseteq Isolation(u)

\* restrict_mut looks at the kind and the isolation only.
Restrictable(b, u) == kind[b] = SpecKind(u) /\ compatible(iso[b], Isolation(u))

\* Mutant: the isolation of an open tunnel is not narrowed.
RestrictNothing(b, u) == UNCHANGED iso

restrict_mut(b, u) == iso' = [iso EXCEPT ![b] = @ \cap Isolation(u)]

\* Mutant: the tentative assignment of a pending tunnel is not narrowed.
TentativeRestrictNothing(b, u) == UNCHANGED tent

tentative_restrict_mut(b, u) == tent' = [tent EXCEPT ![b] = @ \cap Isolation(u)]

find_open(u) ==
    LET supported == {b \in open : live[b] /\ supports(b, iso[b], u)}
    IN  IF UsageKind(u) = "Preemptive" /\ Cardinality(supported) < Circs THEN {} ELSE supported

find_pending_tunnels(u) == {b \in pending : supports(b, tent[b], u)}

-----------------------------------------------------------------------------
(* get_or_launch: prepare_action, one acquisition of the lock              *)

Parallelism(u) == IF UsageKind(u) = "Dir" THEN DirParallelism ELSE 1

\* Mutant: the number of tries is not divided by the parallelism.
MaxFailuresUndivided(u) == MaxTries + 1

max_failures(u) == (MaxTries + Parallelism(u) - 1) \div Parallelism(u)
Attempt(r) == nFail[r] + nReset[r] + 1
GoTo(r, label) == pc' = [pc EXCEPT ![r] = label]

\* plan_by_usage for the builds in new, which get a spec of kind k, isolation i
\* and offers o, and the current path configuration.
Plan(new, k, i, o) ==
    /\ kind' = [b \in Builds |-> IF b \in new THEN k ELSE kind[b]]
    /\ iso' = [b \in Builds |-> IF b \in new THEN i ELSE iso[b]]
    /\ tent' = [b \in Builds |-> IF b \in new THEN i ELSE tent[b]]
    /\ offers' = [b \in Builds |-> IF b \in new THEN o[b] ELSE offers[b]]
    /\ planned' = [b \in Builds |-> IF b \in new THEN config ELSE planned[b]]

\* Action::Open, which take_action returns at once.
PrepareOpen(r) ==
    /\ pc[r] = "start"
    /\ \E b \in find_open(usage[r]) :
          /\ restrict_mut(b, usage[r])
          /\ users' = [users EXCEPT ![b] = @ \cup {r}]
    /\ GoTo(r, "ok")
    /\ UNCHANGED <<listVars, specVars, tent, live, buildVars, confVars, usage, left, advice, errs,
                   loopVars>>

\* Action::Wait
PrepareWait(r) ==
    /\ pc[r] = "start"
    /\ find_open(usage[r]) = {}
    /\ \E b \in find_pending_tunnels(usage[r]) :
          /\ tentative_restrict_mut(b, usage[r])
          /\ left' = [left EXCEPT ![r] = {b}]
    /\ errs' = [errs EXCEPT ![r] = {}]
    /\ GoTo(r, "register")
    /\ UNCHANGED <<listVars, iso, specVars, live, buildVars, confVars, usage, advice, loopVars, users>>

NewBuilds(r) == {<<r, Attempt(r), k>> : k \in 1 .. Parallelism(usage[r])}

\* Action::Build, with the plans that could be made; take_action spawns them.
PrepareBuild(r) ==
    /\ pc[r] = "start"
    /\ find_open(usage[r]) = {} /\ find_pending_tunnels(usage[r]) = {}
    /\ \E new \in SUBSET NewBuilds(r) :
          /\ new # {}
          /\ \E o \in [new -> {s \in SUBSET Needs : Required(usage[r]) \subseteq s}] :
                Plan(new, SpecKind(usage[r]), Isolation(usage[r]), o)
          /\ pending' = pending \cup new
          /\ build' = [b \in Builds |-> IF b \in new THEN "building" ELSE build[b]]
          /\ left' = [left EXCEPT ![r] = new]
    /\ errs' = [errs EXCEPT ![r] = {}]
    /\ GoTo(r, "register")
    /\ UNCHANGED <<open, live, result, confVars, usage, advice, loopVars, users>>

-----------------------------------------------------------------------------
(* get_or_launch: what to do after an error                                *)

is_internal_reset(e) == e \in {"GuardNotUsable", "CircCanceled", "LostUsabilityRace"}
NeverRetried == {"NoRelay", "Bug"}

\* Count error e, made of the causes in es, and try again unless it reached its
\* limit or none of the causes is worth a retry.
AfterError(r, e, es) ==
    /\ errs' = [errs EXCEPT ![r] = es]
    /\ nReset' = [nReset EXCEPT ![r] = IF is_internal_reset(e) THEN @ + 1 ELSE @]
    /\ nFail' = [nFail EXCEPT ![r] = IF is_internal_reset(e) THEN @ ELSE @ + 1]
    /\ LET limit == IF is_internal_reset(e) THEN nReset[r] + 1 >= MAX_RESETS
                                            ELSE nFail[r] + 1 >= max_failures(usage[r])
       IN  GoTo(r, IF limit \/ es \subseteq NeverRetried THEN "failed" ELSE "start")
    /\ left' = [left EXCEPT ![r] = {}]
    /\ advice' = [advice EXCEPT ![r] = {}]

\* prepare_action fails: no plan could be made.
PrepareError(r) ==
    /\ pc[r] = "start"
    /\ find_open(usage[r]) = {} /\ find_pending_tunnels(usage[r]) = {}
    /\ \E e \in {"NoRelay", "Guard"} : AfterError(r, e, {e})
    /\ UNCHANGED <<listVars, iso, specVars, tent, live, buildVars, confVars, usage, users>>

\* take_action failed, so the error is a RequestFailed.
TakeActionError(r) ==
    /\ pc[r] = "error"
    /\ AfterError(r, "RequestFailed", errs[r])
    /\ UNCHANGED <<listVars, iso, specVars, tent, live, buildVars, confVars, usage, users>>

\* request_timeout passes, between two attempts or inside take_action.
Timeout(r) ==
    /\ pc[r] \in {"start", "wait"}
    /\ left' = [left EXCEPT ![r] = {}]
    /\ advice' = [advice EXCEPT ![r] = {}]
    /\ GoTo(r, "failed")
    /\ UNCHANGED <<listVars, iso, specVars, tent, live, buildVars, confVars, usage, errs,
                   loopVars, users>>

-----------------------------------------------------------------------------
(* take_action: wait for the tunnels of the attempt, or for advice         *)

Resolved(b) == build[b] \in {"sent", "done"}

\* Enter the list of pending requests, which lasts as long as the wait.
Register(r) ==
    /\ pc[r] = "register"
    /\ GoTo(r, "wait")
    /\ UNCHANGED <<listVars, iso, specVars, tent, live, buildVars, confVars, usage, left, advice,
                   errs, loopVars, users>>

\* The next item of wait_on_stream.
LeftReady(r, b) == pc[r] = "wait" /\ b \in left[r] /\ Resolved(b)
Consume(r, b) == left' = [left EXCEPT ![r] = @ \ {b}]
RecordError(r, e) == errs' = [errs EXCEPT ![r] = @ \cup {e}]

\* Lock, look the tunnel up, restrict it and return it.
Take(r, b) ==
    /\ b \in open /\ Restrictable(b, usage[r])
    /\ restrict_mut(b, usage[r])
    /\ users' = [users EXCEPT ![b] = @ \cup {r}]
    /\ left' = [left EXCEPT ![r] = {}]
    /\ advice' = [advice EXCEPT ![r] = {}]
    /\ GoTo(r, "ok")
    /\ UNCHANGED <<listVars, specVars, tent, live, buildVars, confVars, usage, errs, loopVars>>

LeftUse(r, b) == LeftReady(r, b) /\ result[b] = "ok" /\ Take(r, b)

\* Another request restricted the tunnel first.
LeftLost(r, b) ==
    /\ LeftReady(r, b) /\ result[b] = "ok"
    /\ b \in open /\ ~ Restrictable(b, usage[r])
    /\ Consume(r, b) /\ RecordError(r, "LostUsabilityRace")
    /\ UNCHANGED <<listVars, iso, specVars, tent, live, buildVars, confVars, usage, pc, advice,
                   loopVars, users>>

\* The tunnel has left the list: no error is recorded.
LeftGone(r, b) ==
    /\ LeftReady(r, b) /\ result[b] = "ok" /\ b \notin open
    /\ Consume(r, b)
    /\ UNCHANGED <<listVars, iso, specVars, tent, live, buildVars, confVars, usage, pc, advice,
                   errs, loopVars, users>>

LeftError(r, b) ==
    /\ LeftReady(r, b) /\ result[b] \notin {"ok", "PendingCanceled"}
    /\ Consume(r, b) /\ RecordError(r, result[b])
    /\ UNCHANGED <<listVars, iso, specVars, tent, live, buildVars, confVars, usage, pc, advice,
                   loopVars, users>>

\* The sender was dropped: give up on the other tunnels too.
LeftCanceled(r, b) ==
    /\ LeftReady(r, b) /\ result[b] = "PendingCanceled"
    /\ RecordError(r, "PendingCanceled")
    /\ GoTo(r, "error")
    /\ UNCHANGED <<listVars, iso, specVars, tent, live, buildVars, confVars, usage, left, advice,
                   loopVars, users>>

\* The tunnels of the attempt are exhausted.
LeftExhausted(r) ==
    /\ pc[r] = "wait" /\ left[r] = {}
    /\ GoTo(r, "error")
    /\ UNCHANGED <<listVars, iso, specVars, tent, live, buildVars, confVars, usage, left, advice,
                   errs, loopVars, users>>

\* The next item of additional_stream, when the other one has nothing to say.
RightReady(r, b) ==
    /\ pc[r] = "wait" /\ left[r] # {} /\ b \in advice[r]
    /\ \A c \in left[r] : ~ Resolved(c)

RightUse(r, b) == RightReady(r, b) /\ Take(r, b)

RightUseless(r, b) ==
    /\ RightReady(r, b)
    /\ ~ (b \in open /\ Restrictable(b, usage[r]))
    /\ advice' = [advice EXCEPT ![r] = @ \ {b}]
    /\ UNCHANGED <<listVars, iso, specVars, tent, live, buildVars, confVars, usage, pc, left, errs,
                   loopVars, users>>

-----------------------------------------------------------------------------
(* spawn_launch and do_launch: the task that builds a tunnel               *)

\* Mutant: a tunnel retired while it was being built is handed out all the same.
BuiltUnchecked(b) ==
    /\ build[b] = "building"
    /\ pending' = pending \ {b}
    /\ open' = open \cup {b}
    /\ result' = [result EXCEPT ![b] = "ok"]
    /\ build' = [build EXCEPT ![b] = "reply"]
    /\ UNCHANGED <<iso, specVars, tent, live, confVars, usage, pc, left, advice, errs, loopVars, users>>

\* build_tunnel succeeds: under the lock, add the tunnel if it is still pending.
Built(b) ==
    /\ build[b] = "building"
    /\ pending' = pending \ {b}
    /\ open' = IF b \in pending THEN open \cup {b} ELSE open
    /\ result' = [result EXCEPT ![b] = IF b \in pending THEN "ok" ELSE "CircCanceled"]
    /\ build' = [build EXCEPT ![b] = "reply"]
    /\ UNCHANGED <<iso, specVars, tent, live, confVars, usage, pc, left, advice, errs, loopVars, users>>

\* build_tunnel fails or panics; the strong reference to the entry is dropped.
BuildFailed(b) ==
    /\ build[b] = "building"
    /\ pending' = pending \ {b}
    /\ \E e \in BuildErrors \ {"PendingCanceled"} : result' = [result EXCEPT ![b] = e]
    /\ build' = [build EXCEPT ![b] = "reply"]
    /\ UNCHANGED <<open, iso, specVars, tent, live, confVars, usage, pc, left, advice, errs,
                   loopVars, users>>

\* The executor drops the task: the entry goes, and so does the sender.
BuildDropped(b) ==
    /\ build[b] = "building" /\ "PendingCanceled" \in BuildErrors
    /\ pending' = pending \ {b}
    /\ result' = [result EXCEPT ![b] = "PendingCanceled"]
    /\ build' = [build EXCEPT ![b] = "done"]
    /\ UNCHANGED <<open, iso, specVars, tent, live, confVars, usage, pc, left, advice, errs,
                   loopVars, users>>

\* Mutant: a cancelled build does not tell those who wait for it.
SendUnlessCanceled(b) ==
    /\ build[b] = "reply" /\ result[b] # "CircCanceled"
    /\ build' = [build EXCEPT ![b] = IF result[b] = "ok" THEN "sent" ELSE "done"]
    /\ UNCHANGED <<listVars, iso, specVars, tent, live, result, confVars, usage, pc, left, advice,
                   errs, loopVars, users>>

\* sender.send(reply)
Send(b) ==
    /\ build[b] = "reply"
    /\ build' = [build EXCEPT ![b] = IF result[b] = "ok" THEN "sent" ELSE "done"]
    /\ UNCHANGED <<listVars, iso, specVars, tent, live, result, confVars, usage, pc, left, advice,
                   errs, loopVars, users>>

\* The isolation a build was planned with, which new_spec keeps.
SpecIso(b) == IF b[1] \in Tests THEN Groups ELSE Isolation(usage[b[1]])

\* After request_loyalty, offer the tunnel to the waiting requests new_spec supports.
Notify(b) ==
    /\ build[b] = "sent"
    /\ build' = [build EXCEPT ![b] = "done"]
    /\ advice' = [r \in Requests |->
                    IF pc[r] = "wait" /\ supports(b, SpecIso(b), usage[r])
                    THEN advice[r] \cup {b} ELSE advice[r]]
    /\ UNCHANGED <<listVars, iso, specVars, tent, live, result, confVars, usage, pc, left, errs,
                   loopVars, users>>

-----------------------------------------------------------------------------
(* The other operations on the list                                        *)

\* launch_by_usage for a timeout-testing tunnel: plan it, then lock and add it.
PlanTest(l) ==
    LET b == <<l, 1, 1>> IN
    /\ build[b] = "none"
    /\ \E k \in {"Exit", "NoUsage"}, o \in [{b} -> SUBSET Needs] : Plan({b}, k, Groups, o)
    /\ build' = [build EXCEPT ![b] = "planned"]
    /\ UNCHANGED <<listVars, live, result, confVars, usage, pc, left, advice, errs, loopVars, users>>

LaunchTest(l) ==
    LET b == <<l, 1, 1>> IN
    /\ build[b] = "planned"
    /\ pending' = pending \cup {b}
    /\ build' = [build EXCEPT ![b] = "building"]
    /\ UNCHANGED <<open, iso, specVars, tent, live, result, confVars, usage, pc, left, advice, errs,
                   loopVars, users>>

\* reconfigure: first the builder's path configuration ...
set_path_config ==
    /\ ~ reconf /\ config < MaxReconf
    /\ config' = config + 1 /\ reconf' = TRUE
    /\ UNCHANGED <<listVars, iso, specVars, tent, live, buildVars, usage, pc, left, advice, errs,
                   loopVars, users>>

\* ... then, if the paths built so far may not conform to it, clear_all_tunnels.
retire_all_tunnels ==
    /\ reconf
    /\ open' = {} /\ pending' = {}
    /\ reconf' = FALSE
    /\ UNCHANGED <<iso, specVars, tent, live, buildVars, config, usage, pc, left, advice, errs,
                   loopVars, users>>

\* A tunnel leaves the list because it expired or through take_tunnel.
take_open(b) ==
    /\ b \in open
    /\ open' = open \ {b}
    /\ UNCHANGED <<pending, iso, specVars, tent, live, buildVars, confVars, usage, pc, left, advice,
                   errs, loopVars, users>>

TunnelCloses(b) ==
    /\ b \in open /\ live[b]
    /\ live' = [live EXCEPT ![b] = FALSE]
    /\ UNCHANGED <<listVars, iso, specVars, tent, buildVars, confVars, usage, pc, left, advice, errs,
                   loopVars, users>>

-----------------------------------------------------------------------------
Done == \A r \in Requests : pc[r] \in {"ok", "failed"}

\* The requests are all answered and nothing else happens to the tunnels.
Finished == Done /\ UNCHANGED vars

RequestStep(r) ==
    \/ PrepareOpen(r) \/ PrepareWait(r) \/ PrepareBuild(r) \/ PrepareError(r)
    \/ Register(r) \/ LeftExhausted(r) \/ TakeActionError(r)
    \/ \E b \in Builds : \/ LeftUse(r, b) \/ LeftLost(r, b) \/ LeftGone(r, b)
                         \/ LeftError(r, b) \/ LeftCanceled(r, b)
                         \/ RightUse(r, b) \/ RightUseless(r, b)

BuildStep(b) == Built(b) \/ BuildFailed(b) \/ BuildDropped(b) \/ Send(b) \/ Notify(b)

Next ==
    \/ \E r \in Requests : RequestStep(r) \/ Timeout(r)
    \/ \E b \in Builds : BuildStep(b) \/ take_open(b) \/ TunnelCloses(b)
    \/ \E l \in Tests : PlanTest(l) \/ LaunchTest(l)
    \/ set_path_config \/ retire_all_tunnels
    \/ Finished

Spec == Init /\ [][Next]_vars

\* Requests and builders are polled when they can proceed, and build_tunnel ends:
\* it "should implement some kind of a timeout".  request_timeout is not used.
FairSpec ==
    /\ Spec
    /\ \A r \in Requests : WF_vars(RequestStep(r))
    /\ \A b \in Builds : WF_vars(BuildStep(b))

-----------------------------------------------------------------------------
(* Properties                                                              *)

Errors == {"NoRelay", "Guard", "Channel", "GuardNotUsable", "Bug", "CircCanceled",
           "PendingCanceled", "LostUsabilityRace"}

TypeOK ==
    /\ open \subseteq Builds /\ pending \subseteq Builds
    /\ iso \in [Builds -> SUBSET Groups]
    /\ kind \in [Builds -> {"Dir", "Exit", "NoUsage"}]
    /\ offers \in [Builds -> SUBSET Needs]
    /\ tent \in [Builds -> SUBSET Groups]
    /\ planned \in [Builds -> 0 .. MaxReconf]
    /\ live \in [Builds -> BOOLEAN]
    /\ build \in [Builds -> {"none", "planned", "building", "reply", "sent", "done"}]
    /\ result \in [Builds -> {"none", "ok", "CircCanceled"} \cup BuildErrors]
    /\ config \in 0 .. MaxReconf /\ reconf \in BOOLEAN
    /\ usage \in [Requests -> Usages]
    /\ pc \in [Requests -> {"start", "register", "wait", "error", "ok", "failed"}]
    /\ left \in [Requests -> SUBSET Builds]
    /\ advice \in [Requests -> SUBSET Builds]
    /\ errs \in [Requests -> SUBSET Errors]
    /\ nFail \in [Requests -> 0 .. MaxTries]
    /\ nReset \in [Requests -> 0 .. MAX_RESETS]
    /\ users \in [Builds -> SUBSET Requests]

\* "Two streams may share a circuit if and only if they have compatible
\* Isolations": requests that were given the same tunnel, whether they found it
\* open, waited for it or were advised of it, are pairwise compatible.
IsolationRespected ==
    \A b \in Builds : \A r, s \in users[b] : compatible(Isolation(usage[r]), Isolation(usage[s]))

\* A returned tunnel can do what was asked, although restrict_mut never looks at
\* the ports, the stability or the country.
AnswerSuits ==
    \A b \in Builds : \A r \in users[b] :
        kind[b] = SpecKind(usage[r]) /\ Required(usage[r]) \subseteq offers[b]

\* The tentative assignment "must support the usage of every pending request
\* that's waiting for this tunnel" (PendingEntry): so the requests that wait for a
\* tunnel can share it, and it starts out no narrower than what they expect.
TentativeSuitsWaiters ==
    \A b \in pending :
        LET waiters == {r \in Requests : b \in left[r]}
        IN  /\ \A r \in waiters : compatible(tent[b], Isolation(usage[r])) /\ tent[b] \subseteq iso[b]
            /\ \A r, s \in waiters : compatible(Isolation(usage[r]), Isolation(usage[s]))

\* LostUsabilityRace: "another request got it first".  A request loses a tunnel it
\* waited for only to a request that was given that tunnel.
LostStep ==
    \A r \in Requests :
        "LostUsabilityRace" \in errs'[r] \ errs[r] =>
            \E b \in left[r] : users[b] \ {r} # {}
LostMeansTaken == [][LostStep]_vars

\* retire_all_tunnels makes sure that "any new (or pending) requests will receive
\* tunnels that are built using the new configuration": outside reconfigure, no
\* tunnel that a request launched and may still be given predates it.
FreshRequestTunnels ==
    ~ reconf => \A b \in open \cup pending : b[1] \in Requests => planned[b] = config

\* request_max_retries: "When a circuit is requested, we stop retrying new circuits
\* after this many attempts."  Parallel launches count as attempts, up to rounding.
TriesBounded ==
    \A r \in Requests :
        Cardinality({b \in Builds : b[1] = r /\ build[b] # "none"}) < MaxTries + Parallelism(usage[r])

\* Every request ends, even if nothing times out: no builder leaves those who
\* wait for it without a reply, and the retries are bounded.
EveryRequestAnswered == \A r \in Requests : <>(pc[r] \in {"ok", "failed"})

=============================================================================
