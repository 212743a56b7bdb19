--------------------------- MODULE ChanMgrProofs ---------------------------
(***************************************************************************)
(* Proofs about ChanMgr for any set of tasks, relays and targets.          *)
(***************************************************************************)
EXTENDS ChanMgr, TLAPS

\* A leaf that names no prover is given to Zenon, for up to 30 seconds.
USE ZenonT(30)

\* A task in its Launch arm, or still holding that arm's sender.
HoldsSender == Launching \cup {"sendOk", "sendErr", "dropSend"}

\* The loop of get_or_launch_internal tries N_ATTEMPTS times and once more if
\* final, so a task that may still launch or has launched names a valid handle.
AttemptsBounded ==
    \A t \in Tasks : /\ pc[t] = "choose" => attempt[t] <= N_ATTEMPTS
                     /\ pc[t] \in HoldsSender \cup {"wait"} => attempt[t] \in 1 .. N_ATTEMPTS

\* A channel object belongs to the last launch of its task, and that task never
\* launches again; so the name of a channel is never used for another one.
ChannelOfLastLaunch ==
    \A h \in Handles : peer[h] # {} =>
        /\ h[2] = attempt[h[1]]
        /\ pc[h[1]] \in {"built", "sendOk", "dropSend", "returned", "failed"}
        /\ target[h[1]] \subseteq peer[h]

\* The names in use denote channel objects.
ChannelsExist ==
    /\ \A h \in open : peer[h] # {}
    /\ \A t \in Tasks : pc[t] \in {"built", "sendOk"} => peer[Handle(t)] # {}
    /\ \A t \in Tasks : pc[t] = "returned" => ret[t] \in Handles /\ peer[ret[t]] # {}

\* A launch's future resolves only after its task gave up the sender.
ResolvedAfterLaunch ==
    \A h \in Handles : outcome[h] # "pending" =>
        \/ h[2] < attempt[h[1]]
        \/ h[2] = attempt[h[1]] /\ pc[h[1]] \notin HoldsSender

\* A map entry is Building or Open, never both.
EntriesDisjoint == building \cap open = {}

\* The inductive invariant, in two layers: the second rests on the first.
ObjInv == TypeOK /\ AttemptsBounded /\ ChannelOfLastLaunch /\ ChannelsExist
MapInv == PendingOwned /\ ResolvedAfterLaunch /\ EntriesDisjoint
IndInv == /\ ObjInv /\ MapInv /\ OneBuildPerTarget
          /\ ReturnedMatches /\ ConflictIsDefinite /\ PaddingCurrent

-----------------------------------------------------------------------------
\* The manager starts with an empty map and no channel.
LEMMA InitObjInv == Init => ObjInv
BY SMTT(30), ParamsAssumption, ReconfAssumption
   DEF Init, ObjInv, TypeOK, AttemptsBounded, ChannelOfLastLaunch, ChannelsExist, HoldsSender,
       Launching, N_ATTEMPTS, Handles, NoHandle

\* ... and with everything its inductive invariant asks for.
LEMMA InitIndInv == Init => IndInv
<1> SUFFICES ASSUME Init PROVE IndInv
  OBVIOUS
<1>1. MapInv /\ OneBuildPerTarget /\ PaddingCurrent
  BY DEF Init, MapInv, PendingOwned, ResolvedAfterLaunch, EntriesDisjoint, OneBuildPerTarget,
         PaddingCurrent, Launching
<1>2. ReturnedMatches /\ ConflictIsDefinite
  BY DEF Init, ReturnedMatches, ConflictIsDefinite
<1> QED
  BY <1>1, <1>2, InitObjInv DEF IndInv

\* Every step keeps the variables in their types.
LEMMA NextTypeOK == ObjInv /\ [Next]_vars => TypeOK'
<1> SUFFICES ASSUME ObjInv, [Next]_vars PROVE TypeOK'
  OBVIOUS
<1> USE ParamsAssumption, ReconfAssumption
    DEF ObjInv, TypeOK, N_ATTEMPTS, GoTo, Count, mapVars, taskVars, chanVars
<1>1. ASSUME NEW t \in Tasks, ReturnOpen(t) PROVE TypeOK'
  BY SMTT(30), <1>1 DEF ReturnOpen, Best, MayTry, AttemptsBounded
<1>2. ASSUME NEW t \in Tasks, WaitPending(t) PROVE TypeOK'
  BY SMTT(30), <1>2 DEF WaitPending, Best, MayTry, AttemptsBounded
<1>3. ASSUME NEW t \in Tasks, FailConflict(t) PROVE TypeOK'
  BY SMTT(30), <1>3 DEF FailConflict, MayTry, AttemptsBounded
<1>4. ASSUME NEW t \in Tasks, Launch(t) PROVE TypeOK'
  BY SMTT(30), <1>4 DEF Launch, MayTry, Handle, Handles, AttemptsBounded
<1>5. ASSUME NEW t \in Tasks, GiveUpFinal(t) PROVE TypeOK'
  BY SMTT(30), <1>5 DEF GiveUpFinal, MayTry, AttemptsBounded
<1>6. ASSUME NEW t \in Tasks, Exhausted(t) PROVE TypeOK'
  BY <1>6 DEF Exhausted
<1>7. ASSUME NEW t \in Tasks, WaitDone(t) PROVE TypeOK'
  BY <1>7 DEF WaitDone, NoHandle
<1>8. ASSUME NEW t \in Tasks, StartBuild(t) PROVE TypeOK'
  BY <1>8 DEF StartBuild
<1>9. ASSUME NEW t \in Tasks, BuildOk(t) PROVE TypeOK'
  <2> USE <1>9
  <2>1. Handle(t) \in Handles
    BY DEF BuildOk, AttemptsBounded, HoldsSender, Launching, Handle, Handles
  <2>2. PICK r \in Relays : target[t] \subseteq r /\ peer' = [peer EXCEPT ![Handle(t)] = r]
    BY DEF BuildOk
  <2>3. peer' \in [Handles -> Relays \cup {{}}]
    BY <2>1, <2>2
  <2> QED
    BY <2>3 DEF BuildOk
<1>10. ASSUME NEW t \in Tasks, BuildErr(t) PROVE TypeOK'
  BY <1>10 DEF BuildErr
<1>11. ASSUME NEW t \in Tasks, Upgrade(t) PROVE TypeOK'
  <2> USE <1>11
  <2>1. Handle(t) \in Handles
    BY DEF Upgrade, AttemptsBounded, HoldsSender, Launching, Handle, Handles
  <2>2. building' \subseteq Handles /\ open' \subseteq Handles
    BY <2>1 DEF Upgrade, remove_pending
  <2>3. padding' \in [Handles -> Paddings]
    BY <2>1 DEF Upgrade
  <2> QED
    BY SMTT(30), <2>2, <2>3 DEF Upgrade
<1>12. ASSUME NEW t \in Tasks, RemoveFailed(t) PROVE TypeOK'
  BY <1>12 DEF RemoveFailed, remove_pending
<1>13. ASSUME NEW t \in Tasks, SendOk(t) PROVE TypeOK'
  BY <1>13 DEF SendOk, AttemptsBounded, HoldsSender, Launching, Handle, Handles
<1>14. ASSUME NEW t \in Tasks, SendErr(t) PROVE TypeOK'
  BY <1>14 DEF SendErr
<1>15. ASSUME NEW t \in Tasks, DropDefer(t) PROVE TypeOK'
  BY <1>15 DEF DropDefer, remove_pending
<1>16. ASSUME NEW t \in Tasks, DropSend(t) PROVE TypeOK'
  BY <1>16 DEF DropSend
<1>17. ASSUME NEW t \in Tasks, Cancel(t) PROVE TypeOK'
  BY <1>17 DEF Cancel
<1>18. ASSUME NEW new \in [padding : Paddings, kist : Kists], reconfigure_general(new) PROVE TypeOK'
  BY SMTT(30), <1>18 DEF reconfigure_general
<1>19. ASSUME expire_channels PROVE TypeOK'
  BY <1>19 DEF expire_channels
<1>20. ASSUME NEW h \in Handles, ChannelCloses(h) PROVE TypeOK'
  BY <1>20 DEF ChannelCloses
<1>21. ASSUME NEW h \in Handles, ChannelUse(h) PROVE TypeOK'
  BY <1>21 DEF ChannelUse
<1>22. ASSUME UNCHANGED vars PROVE TypeOK'
  BY <1>22 DEF vars
<1>23. QED
  BY <1>1, <1>2, <1>3, <1>4, <1>5, <1>6, <1>7, <1>8, <1>9, <1>10, <1>11, <1>12, <1>13, <1>14,
     <1>15, <1>16, <1>17, <1>18, <1>19, <1>20, <1>21, <1>22 DEF Next, TaskStep, Finished

\* A task never goes beyond N_ATTEMPTS launches.
LEMMA NextAttemptsBounded == ObjInv /\ [Next]_vars => AttemptsBounded'
<1> SUFFICES ASSUME ObjInv, [Next]_vars PROVE AttemptsBounded'
  OBVIOUS
<1> USE DEF ObjInv, TypeOK, AttemptsBounded, N_ATTEMPTS, HoldsSender, Launching, MayTry, GoTo, Count, mapVars, taskVars, chanVars
<1>1. ASSUME NEW t \in Tasks, ReturnOpen(t) PROVE AttemptsBounded'
  BY <1>1 DEF ReturnOpen
<1>2. ASSUME NEW t \in Tasks, WaitPending(t) PROVE AttemptsBounded'
  BY SMTT(30), <1>2 DEF WaitPending
<1>3. ASSUME NEW t \in Tasks, FailConflict(t) PROVE AttemptsBounded'
  BY <1>3 DEF FailConflict
<1>4. ASSUME NEW t \in Tasks, Launch(t) PROVE AttemptsBounded'
  BY SMTT(30), <1>4 DEF Launch
<1>5. ASSUME NEW t \in Tasks, GiveUpFinal(t) PROVE AttemptsBounded'
  BY <1>5 DEF GiveUpFinal
<1>6. ASSUME NEW t \in Tasks, Exhausted(t) PROVE AttemptsBounded'
  BY <1>6 DEF Exhausted
<1>7. ASSUME NEW t \in Tasks, WaitDone(t) PROVE AttemptsBounded'
  BY SMTT(30), <1>7 DEF WaitDone
<1>8. ASSUME NEW t \in Tasks, StartBuild(t) PROVE AttemptsBounded'
  BY SMTT(30), <1>8 DEF StartBuild
<1>9. ASSUME NEW t \in Tasks, BuildOk(t) PROVE AttemptsBounded'
  BY <1>9 DEF BuildOk
<1>10. ASSUME NEW t \in Tasks, BuildErr(t) PROVE AttemptsBounded'
  BY <1>10 DEF BuildErr
<1>11. ASSUME NEW t \in Tasks, Upgrade(t) PROVE AttemptsBounded'
  BY SMTT(30), <1>11 DEF Upgrade
<1>12. ASSUME NEW t \in Tasks, RemoveFailed(t) PROVE AttemptsBounded'
  BY <1>12 DEF RemoveFailed
<1>13. ASSUME NEW t \in Tasks, SendOk(t) PROVE AttemptsBounded'
  BY <1>13 DEF SendOk
<1>14. ASSUME NEW t \in Tasks, SendErr(t) PROVE AttemptsBounded'
  BY SMTT(30), <1>14 DEF SendErr
<1>15. ASSUME NEW t \in Tasks, DropDefer(t) PROVE AttemptsBounded'
  BY <1>15 DEF DropDefer
<1>16. ASSUME NEW t \in Tasks, DropSend(t) PROVE AttemptsBounded'
  BY <1>16 DEF DropSend
<1>17. ASSUME NEW t \in Tasks, Cancel(t) PROVE AttemptsBounded'
  BY <1>17 DEF Cancel
<1>18. ASSUME NEW new \in [padding : Paddings, kist : Kists], reconfigure_general(new) PROVE AttemptsBounded'
  BY <1>18 DEF reconfigure_general
<1>19. ASSUME expire_channels PROVE AttemptsBounded'
  BY <1>19 DEF expire_channels
<1>20. ASSUME NEW h \in Handles, ChannelCloses(h) PROVE AttemptsBounded'
  BY <1>20 DEF ChannelCloses
<1>21. ASSUME NEW h \in Handles, ChannelUse(h) PROVE AttemptsBounded'
  BY <1>21 DEF ChannelUse
<1>22. ASSUME UNCHANGED vars PROVE AttemptsBounded'
  BY <1>22 DEF vars
<1>23. QED
  BY <1>1, <1>2, <1>3, <1>4, <1>5, <1>6, <1>7, <1>8, <1>9, <1>10, <1>11, <1>12, <1>13, <1>14,
     <1>15, <1>16, <1>17, <1>18, <1>19, <1>20, <1>21, <1>22 DEF Next, TaskStep, Finished

\* A new channel object never takes the name of an older one.
LEMMA NextChannelOfLastLaunch == ObjInv /\ [Next]_vars => ChannelOfLastLaunch'
<1> SUFFICES ASSUME ObjInv, [Next]_vars PROVE ChannelOfLastLaunch'
  OBVIOUS
<1> USE DEF ObjInv, ChannelOfLastLaunch, Handles, TypeOK, GoTo, Count, mapVars, taskVars, chanVars
<1>1. ASSUME NEW t \in Tasks, ReturnOpen(t) PROVE ChannelOfLastLaunch'
  BY <1>1 DEF ReturnOpen, MayTry
<1>2. ASSUME NEW t \in Tasks, WaitPending(t) PROVE ChannelOfLastLaunch'
  BY <1>2 DEF WaitPending, MayTry
<1>3. ASSUME NEW t \in Tasks, FailConflict(t) PROVE ChannelOfLastLaunch'
  BY <1>3 DEF FailConflict, MayTry
<1>4. ASSUME NEW t \in Tasks, Launch(t) PROVE ChannelOfLastLaunch'
  BY <1>4 DEF Launch, MayTry
<1>5. ASSUME NEW t \in Tasks, GiveUpFinal(t) PROVE ChannelOfLastLaunch'
  BY <1>5 DEF GiveUpFinal, MayTry
<1>6. ASSUME NEW t \in Tasks, Exhausted(t) PROVE ChannelOfLastLaunch'
  BY <1>6 DEF Exhausted
<1>7. ASSUME NEW t \in Tasks, WaitDone(t) PROVE ChannelOfLastLaunch'
  BY <1>7 DEF WaitDone
<1>8. ASSUME NEW t \in Tasks, StartBuild(t) PROVE ChannelOfLastLaunch'
  BY SMTT(30), <1>8 DEF StartBuild
<1>9. ASSUME NEW t \in Tasks, BuildOk(t) PROVE ChannelOfLastLaunch'
  BY SMTT(30), <1>9 DEF BuildOk, Handle
<1>10. ASSUME NEW t \in Tasks, BuildErr(t) PROVE ChannelOfLastLaunch'
  BY <1>10 DEF BuildErr
<1>11. ASSUME NEW t \in Tasks, Upgrade(t) PROVE ChannelOfLastLaunch'
  BY SMTT(30), <1>11 DEF Upgrade
<1>12. ASSUME NEW t \in Tasks, RemoveFailed(t) PROVE ChannelOfLastLaunch'
  BY <1>12 DEF RemoveFailed
<1>13. ASSUME NEW t \in Tasks, SendOk(t) PROVE ChannelOfLastLaunch'
  BY <1>13 DEF SendOk
<1>14. ASSUME NEW t \in Tasks, SendErr(t) PROVE ChannelOfLastLaunch'
  BY <1>14 DEF SendErr
<1>15. ASSUME NEW t \in Tasks, DropDefer(t) PROVE ChannelOfLastLaunch'
  BY <1>15 DEF DropDefer
<1>16. ASSUME NEW t \in Tasks, DropSend(t) PROVE ChannelOfLastLaunch'
  BY <1>16 DEF DropSend
<1>17. ASSUME NEW t \in Tasks, Cancel(t) PROVE ChannelOfLastLaunch'
  BY <1>17 DEF Cancel
<1>18. ASSUME NEW new \in [padding : Paddings, kist : Kists], reconfigure_general(new) PROVE ChannelOfLastLaunch'
  BY <1>18 DEF reconfigure_general
<1>19. ASSUME expire_channels PROVE ChannelOfLastLaunch'
  BY <1>19 DEF expire_channels
<1>20. ASSUME NEW h \in Handles, ChannelCloses(h) PROVE ChannelOfLastLaunch'
  BY <1>20 DEF ChannelCloses
<1>21. ASSUME NEW h \in Handles, ChannelUse(h) PROVE ChannelOfLastLaunch'
  BY <1>21 DEF ChannelUse
<1>22. ASSUME UNCHANGED vars PROVE ChannelOfLastLaunch'
  BY <1>22 DEF vars
<1>23. QED
  BY <1>1, <1>2, <1>3, <1>4, <1>5, <1>6, <1>7, <1>8, <1>9, <1>10, <1>11, <1>12, <1>13, <1>14,
     <1>15, <1>16, <1>17, <1>18, <1>19, <1>20, <1>21, <1>22 DEF Next, TaskStep, Finished

\* Channel objects are only named once they exist.
LEMMA NextChannelsExist == ObjInv /\ [Next]_vars => ChannelsExist'
<1> SUFFICES ASSUME ObjInv, [Next]_vars PROVE ChannelsExist'
  OBVIOUS
<1> USE TargetsAssumption
    DEF ObjInv, ChannelsExist, TypeOK, Handle, GoTo, Count, mapVars, taskVars, chanVars
<1>1. ASSUME NEW t \in Tasks, ReturnOpen(t) PROVE ChannelsExist'
  BY SMTT(30), <1>1 DEF ReturnOpen, Best, OpenFor, MayTry
<1>2. ASSUME NEW t \in Tasks, WaitPending(t) PROVE ChannelsExist'
  BY <1>2 DEF WaitPending
<1>3. ASSUME NEW t \in Tasks, FailConflict(t) PROVE ChannelsExist'
  BY <1>3 DEF FailConflict
<1>4. ASSUME NEW t \in Tasks, Launch(t) PROVE ChannelsExist'
  BY <1>4 DEF Launch
<1>5. ASSUME NEW t \in Tasks, GiveUpFinal(t) PROVE ChannelsExist'
  BY SMTT(30), <1>5 DEF GiveUpFinal
<1>6. ASSUME NEW t \in Tasks, Exhausted(t) PROVE ChannelsExist'
  BY <1>6 DEF Exhausted
<1>7. ASSUME NEW t \in Tasks, WaitDone(t) PROVE ChannelsExist'
  BY <1>7 DEF WaitDone
<1>8. ASSUME NEW t \in Tasks, StartBuild(t) PROVE ChannelsExist'
  BY SMTT(30), <1>8 DEF StartBuild
<1>9. ASSUME NEW t \in Tasks, BuildOk(t) PROVE ChannelsExist'
  <2> USE <1>9
  <2>1. Handle(t) \in Handles
    BY DEF BuildOk, AttemptsBounded, HoldsSender, Launching, Handle, Handles
  <2>2. PICK r \in Relays : target[t] \subseteq r /\ peer' = [peer EXCEPT ![Handle(t)] = r]
    BY DEF BuildOk
  <2>3. r # {}
    <3>1. target[t] \in Targets
      OBVIOUS
    <3>2. target[t] # {}
      BY ONLY <3>1, TargetsAssumption
    <3>3. PICK i : i \in target[t]
      BY ONLY <3>2
    <3> QED
      BY <2>2, <3>3
  <2>4. \A h \in Handles : peer[h] # {} => peer'[h] # {}
    BY <2>1, <2>2, <2>3
  <2>5. peer'[Handle(t)] # {}
    BY <2>1, <2>2, <2>3
  <2> QED
    BY SMTT(30), <2>4, <2>5 DEF BuildOk, AttemptsBounded, HoldsSender, Launching, Handles
<1>10. ASSUME NEW t \in Tasks, BuildErr(t) PROVE ChannelsExist'
  BY <1>10 DEF BuildErr
<1>11. ASSUME NEW t \in Tasks, Upgrade(t) PROVE ChannelsExist'
  BY SMTT(30), <1>11 DEF Upgrade, remove_pending
<1>12. ASSUME NEW t \in Tasks, RemoveFailed(t) PROVE ChannelsExist'
  BY <1>12 DEF RemoveFailed
<1>13. ASSUME NEW t \in Tasks, SendOk(t) PROVE ChannelsExist'
  BY <1>13 DEF SendOk, Handle, AttemptsBounded, HoldsSender, Launching, Handles
<1>14. ASSUME NEW t \in Tasks, SendErr(t) PROVE ChannelsExist'
  BY <1>14 DEF SendErr
<1>15. ASSUME NEW t \in Tasks, DropDefer(t) PROVE ChannelsExist'
  BY <1>15 DEF DropDefer
<1>16. ASSUME NEW t \in Tasks, DropSend(t) PROVE ChannelsExist'
  BY <1>16 DEF DropSend
<1>17. ASSUME NEW t \in Tasks, Cancel(t) PROVE ChannelsExist'
  BY <1>17 DEF Cancel
<1>18. ASSUME NEW new \in [padding : Paddings, kist : Kists], reconfigure_general(new) PROVE ChannelsExist'
  BY <1>18 DEF reconfigure_general
<1>19. ASSUME expire_channels PROVE ChannelsExist'
  BY <1>19 DEF expire_channels
<1>20. ASSUME NEW h \in Handles, ChannelCloses(h) PROVE ChannelsExist'
  BY <1>20 DEF ChannelCloses
<1>21. ASSUME NEW h \in Handles, ChannelUse(h) PROVE ChannelsExist'
  BY <1>21 DEF ChannelUse
<1>22. ASSUME UNCHANGED vars PROVE ChannelsExist'
  BY <1>22 DEF vars
<1>23. QED
  BY <1>1, <1>2, <1>3, <1>4, <1>5, <1>6, <1>7, <1>8, <1>9, <1>10, <1>11, <1>12, <1>13, <1>14,
     <1>15, <1>16, <1>17, <1>18, <1>19, <1>20, <1>21, <1>22 DEF Next, TaskStep, Finished

\* Entries enter and leave the map together with their task's Launch arm.
LEMMA NextPendingOwned == ObjInv /\ MapInv /\ [Next]_vars => PendingOwned'
<1> SUFFICES ASSUME ObjInv /\ MapInv, [Next]_vars PROVE PendingOwned'
  OBVIOUS
<1> USE DEF ObjInv, MapInv, TypeOK, PendingOwned, Launching, Handle, GoTo, Count, mapVars, taskVars, chanVars
<1>1. ASSUME NEW t \in Tasks, ReturnOpen(t) PROVE PendingOwned'
  BY <1>1, SMTT(60) DEF ReturnOpen, MayTry
<1>2. ASSUME NEW t \in Tasks, WaitPending(t) PROVE PendingOwned'
  BY <1>2, SMTT(60) DEF WaitPending, MayTry
<1>3. ASSUME NEW t \in Tasks, FailConflict(t) PROVE PendingOwned'
  BY <1>3, SMTT(60) DEF FailConflict, MayTry
<1>4. ASSUME NEW t \in Tasks, Launch(t) PROVE PendingOwned'
  BY <1>4, SMTT(60) DEF Launch, MayTry
<1>5. ASSUME NEW t \in Tasks, GiveUpFinal(t) PROVE PendingOwned'
  BY <1>5, SMTT(60) DEF GiveUpFinal, MayTry
<1>6. ASSUME NEW t \in Tasks, Exhausted(t) PROVE PendingOwned'
  BY <1>6, SMTT(60) DEF Exhausted
<1>7. ASSUME NEW t \in Tasks, WaitDone(t) PROVE PendingOwned'
  BY <1>7, SMTT(60) DEF WaitDone
<1>8. ASSUME NEW t \in Tasks, StartBuild(t) PROVE PendingOwned'
  BY <1>8, SMTT(60) DEF StartBuild
<1>9. ASSUME NEW t \in Tasks, BuildOk(t) PROVE PendingOwned'
  BY <1>9, SMTT(60) DEF BuildOk
<1>10. ASSUME NEW t \in Tasks, BuildErr(t) PROVE PendingOwned'
  BY <1>10, SMTT(60) DEF BuildErr
<1>11. ASSUME NEW t \in Tasks, Upgrade(t) PROVE PendingOwned'
  BY <1>11, SMTT(60) DEF Upgrade, remove_pending
<1>12. ASSUME NEW t \in Tasks, RemoveFailed(t) PROVE PendingOwned'
  BY <1>12, SMTT(60) DEF RemoveFailed, remove_pending
<1>13. ASSUME NEW t \in Tasks, SendOk(t) PROVE PendingOwned'
  BY <1>13, SMTT(60) DEF SendOk
<1>14. ASSUME NEW t \in Tasks, SendErr(t) PROVE PendingOwned'
  BY <1>14, SMTT(60) DEF SendErr
<1>15. ASSUME NEW t \in Tasks, DropDefer(t) PROVE PendingOwned'
  BY <1>15, SMTT(60) DEF DropDefer, remove_pending
<1>16. ASSUME NEW t \in Tasks, DropSend(t) PROVE PendingOwned'
  BY <1>16, SMTT(60) DEF DropSend
<1>17. ASSUME NEW t \in Tasks, Cancel(t) PROVE PendingOwned'
  BY <1>17, SMTT(60) DEF Cancel
<1>18. ASSUME NEW new \in [padding : Paddings, kist : Kists], reconfigure_general(new) PROVE PendingOwned'
  BY <1>18, SMTT(60) DEF reconfigure_general
<1>19. ASSUME expire_channels PROVE PendingOwned'
  BY <1>19, SMTT(60) DEF expire_channels
<1>20. ASSUME NEW h \in Handles, ChannelCloses(h) PROVE PendingOwned'
  BY <1>20, SMTT(60) DEF ChannelCloses
<1>21. ASSUME NEW h \in Handles, ChannelUse(h) PROVE PendingOwned'
  BY <1>21, SMTT(60) DEF ChannelUse
<1>22. ASSUME UNCHANGED vars PROVE PendingOwned'
  BY <1>22, SMTT(60) DEF vars
<1>23. QED
  BY <1>1, <1>2, <1>3, <1>4, <1>5, <1>6, <1>7, <1>8, <1>9, <1>10, <1>11, <1>12, <1>13, <1>14,
     <1>15, <1>16, <1>17, <1>18, <1>19, <1>20, <1>21, <1>22 DEF Next, TaskStep, Finished

\* A sender is used or dropped only as its task leaves the Launch arm.
LEMMA NextResolvedAfterLaunch == ObjInv /\ MapInv /\ [Next]_vars => ResolvedAfterLaunch'
<1> SUFFICES ASSUME ObjInv /\ MapInv, [Next]_vars PROVE ResolvedAfterLaunch'
  OBVIOUS
<1> USE DEF ObjInv, MapInv, TypeOK, ResolvedAfterLaunch, AttemptsBounded, HoldsSender, Launching, Handles, Handle, N_ATTEMPTS, GoTo, Count, mapVars, taskVars, chanVars
<1>1. ASSUME NEW t \in Tasks, ReturnOpen(t) PROVE ResolvedAfterLaunch'
  BY <1>1, SMTT(60) DEF ReturnOpen, MayTry
<1>2. ASSUME NEW t \in Tasks, WaitPending(t) PROVE ResolvedAfterLaunch'
  BY <1>2, SMTT(60) DEF WaitPending, MayTry
<1>3. ASSUME NEW t \in Tasks, FailConflict(t) PROVE ResolvedAfterLaunch'
  BY <1>3, SMTT(60) DEF FailConflict, MayTry
<1>4. ASSUME NEW t \in Tasks, Launch(t) PROVE ResolvedAfterLaunch'
  BY <1>4, SMTT(60) DEF Launch, MayTry
<1>5. ASSUME NEW t \in Tasks, GiveUpFinal(t) PROVE ResolvedAfterLaunch'
  BY <1>5, SMTT(60) DEF GiveUpFinal, MayTry
<1>6. ASSUME NEW t \in Tasks, Exhausted(t) PROVE ResolvedAfterLaunch'
  BY <1>6, SMTT(60) DEF Exhausted
<1>7. ASSUME NEW t \in Tasks, WaitDone(t) PROVE ResolvedAfterLaunch'
  BY <1>7, SMTT(60) DEF WaitDone
<1>8. ASSUME NEW t \in Tasks, StartBuild(t) PROVE ResolvedAfterLaunch'
  BY <1>8, SMTT(60) DEF StartBuild
<1>9. ASSUME NEW t \in Tasks, BuildOk(t) PROVE ResolvedAfterLaunch'
  BY <1>9, SMTT(60) DEF BuildOk
<1>10. ASSUME NEW t \in Tasks, BuildErr(t) PROVE ResolvedAfterLaunch'
  BY <1>10, SMTT(60) DEF BuildErr
<1>11. ASSUME NEW t \in Tasks, Upgrade(t) PROVE ResolvedAfterLaunch'
  BY <1>11, SMTT(60) DEF Upgrade
<1>12. ASSUME NEW t \in Tasks, RemoveFailed(t) PROVE ResolvedAfterLaunch'
  BY <1>12, SMTT(60) DEF RemoveFailed
<1>13. ASSUME NEW t \in Tasks, SendOk(t) PROVE ResolvedAfterLaunch'
  BY <1>13, SMTT(60) DEF SendOk
<1>14. ASSUME NEW t \in Tasks, SendErr(t) PROVE ResolvedAfterLaunch'
  BY <1>14, SMTT(60) DEF SendErr
<1>15. ASSUME NEW t \in Tasks, DropDefer(t) PROVE ResolvedAfterLaunch'
  BY <1>15, SMTT(60) DEF DropDefer
<1>16. ASSUME NEW t \in Tasks, DropSend(t) PROVE ResolvedAfterLaunch'
  BY <1>16, SMTT(60) DEF DropSend
<1>17. ASSUME NEW t \in Tasks, Cancel(t) PROVE ResolvedAfterLaunch'
  BY <1>17, SMTT(60) DEF Cancel
<1>18. ASSUME NEW new \in [padding : Paddings, kist : Kists], reconfigure_general(new) PROVE ResolvedAfterLaunch'
  BY <1>18, SMTT(60) DEF reconfigure_general
<1>19. ASSUME expire_channels PROVE ResolvedAfterLaunch'
  BY <1>19, SMTT(60) DEF expire_channels
<1>20. ASSUME NEW h \in Handles, ChannelCloses(h) PROVE ResolvedAfterLaunch'
  BY <1>20, SMTT(60) DEF ChannelCloses
<1>21. ASSUME NEW h \in Handles, ChannelUse(h) PROVE ResolvedAfterLaunch'
  BY <1>21, SMTT(60) DEF ChannelUse
<1>22. ASSUME UNCHANGED vars PROVE ResolvedAfterLaunch'
  BY <1>22, SMTT(60) DEF vars
<1>23. QED
  BY <1>1, <1>2, <1>3, <1>4, <1>5, <1>6, <1>7, <1>8, <1>9, <1>10, <1>11, <1>12, <1>13, <1>14,
     <1>15, <1>16, <1>17, <1>18, <1>19, <1>20, <1>21, <1>22 DEF Next, TaskStep, Finished

\* Upgrading an entry replaces it, and a launch makes a new one.
LEMMA NextEntriesDisjoint == ObjInv /\ MapInv /\ [Next]_vars => EntriesDisjoint'
<1> SUFFICES ASSUME ObjInv /\ MapInv, [Next]_vars PROVE EntriesDisjoint'
  OBVIOUS
<1> USE DEF ObjInv, MapInv, EntriesDisjoint, Handle, GoTo, Count, mapVars, taskVars, chanVars
<1>1. ASSUME NEW t \in Tasks, ReturnOpen(t) PROVE EntriesDisjoint'
  BY <1>1 DEF ReturnOpen
<1>2. ASSUME NEW t \in Tasks, WaitPending(t) PROVE EntriesDisjoint'
  BY <1>2 DEF WaitPending
<1>3. ASSUME NEW t \in Tasks, FailConflict(t) PROVE EntriesDisjoint'
  BY <1>3 DEF FailConflict
<1>4. ASSUME NEW t \in Tasks, Launch(t) PROVE EntriesDisjoint'
  BY SMTT(30), <1>4 DEF Launch, MayTry, ChannelsExist, ChannelOfLastLaunch, TypeOK, Handles
<1>5. ASSUME NEW t \in Tasks, GiveUpFinal(t) PROVE EntriesDisjoint'
  BY <1>5 DEF GiveUpFinal
<1>6. ASSUME NEW t \in Tasks, Exhausted(t) PROVE EntriesDisjoint'
  BY <1>6 DEF Exhausted
<1>7. ASSUME NEW t \in Tasks, WaitDone(t) PROVE EntriesDisjoint'
  BY <1>7 DEF WaitDone
<1>8. ASSUME NEW t \in Tasks, StartBuild(t) PROVE EntriesDisjoint'
  BY <1>8 DEF StartBuild
<1>9. ASSUME NEW t \in Tasks, BuildOk(t) PROVE EntriesDisjoint'
  BY <1>9 DEF BuildOk
<1>10. ASSUME NEW t \in Tasks, BuildErr(t) PROVE EntriesDisjoint'
  BY <1>10 DEF BuildErr
<1>11. ASSUME NEW t \in Tasks, Upgrade(t) PROVE EntriesDisjoint'
  BY <1>11 DEF Upgrade, remove_pending
<1>12. ASSUME NEW t \in Tasks, RemoveFailed(t) PROVE EntriesDisjoint'
  BY <1>12 DEF RemoveFailed, remove_pending
<1>13. ASSUME NEW t \in Tasks, SendOk(t) PROVE EntriesDisjoint'
  BY <1>13 DEF SendOk
<1>14. ASSUME NEW t \in Tasks, SendErr(t) PROVE EntriesDisjoint'
  BY <1>14 DEF SendErr
<1>15. ASSUME NEW t \in Tasks, DropDefer(t) PROVE EntriesDisjoint'
  BY <1>15 DEF DropDefer, remove_pending
<1>16. ASSUME NEW t \in Tasks, DropSend(t) PROVE EntriesDisjoint'
  BY <1>16 DEF DropSend
<1>17. ASSUME NEW t \in Tasks, Cancel(t) PROVE EntriesDisjoint'
  BY <1>17 DEF Cancel
<1>18. ASSUME NEW new \in [padding : Paddings, kist : Kists], reconfigure_general(new) PROVE EntriesDisjoint'
  BY <1>18 DEF reconfigure_general
<1>19. ASSUME expire_channels PROVE EntriesDisjoint'
  BY <1>19 DEF expire_channels
<1>20. ASSUME NEW h \in Handles, ChannelCloses(h) PROVE EntriesDisjoint'
  BY <1>20 DEF ChannelCloses
<1>21. ASSUME NEW h \in Handles, ChannelUse(h) PROVE EntriesDisjoint'
  BY <1>21 DEF ChannelUse
<1>22. ASSUME UNCHANGED vars PROVE EntriesDisjoint'
  BY <1>22 DEF vars
<1>23. QED
  BY <1>1, <1>2, <1>3, <1>4, <1>5, <1>6, <1>7, <1>8, <1>9, <1>10, <1>11, <1>12, <1>13, <1>14,
     <1>15, <1>16, <1>17, <1>18, <1>19, <1>20, <1>21, <1>22 DEF Next, TaskStep, Finished

\* A launch happens only when no pending entry could serve the target.
LEMMA NextOneBuildPerTarget == IndInv /\ [Next]_vars => OneBuildPerTarget'
<1> SUFFICES ASSUME IndInv, [Next]_vars PROVE OneBuildPerTarget'
  OBVIOUS
<1> USE DEF IndInv, ObjInv, OneBuildPerTarget, PendingIds, Handle, GoTo, Count, mapVars, taskVars, chanVars
<1>1. ASSUME NEW t \in Tasks, ReturnOpen(t) PROVE OneBuildPerTarget'
  BY <1>1 DEF ReturnOpen
<1>2. ASSUME NEW t \in Tasks, WaitPending(t) PROVE OneBuildPerTarget'
  BY <1>2 DEF WaitPending
<1>3. ASSUME NEW t \in Tasks, FailConflict(t) PROVE OneBuildPerTarget'
  BY <1>3 DEF FailConflict
<1>4. ASSUME NEW t \in Tasks, Launch(t) PROVE OneBuildPerTarget'
  BY SMTT(30), <1>4 DEF Launch, MayTry, Best, PendingFor, pending_channel_maybe_allowed, TypeOK
<1>5. ASSUME NEW t \in Tasks, GiveUpFinal(t) PROVE OneBuildPerTarget'
  BY <1>5 DEF GiveUpFinal
<1>6. ASSUME NEW t \in Tasks, Exhausted(t) PROVE OneBuildPerTarget'
  BY <1>6 DEF Exhausted
<1>7. ASSUME NEW t \in Tasks, WaitDone(t) PROVE OneBuildPerTarget'
  BY <1>7 DEF WaitDone
<1>8. ASSUME NEW t \in Tasks, StartBuild(t) PROVE OneBuildPerTarget'
  BY <1>8 DEF StartBuild
<1>9. ASSUME NEW t \in Tasks, BuildOk(t) PROVE OneBuildPerTarget'
  BY <1>9 DEF BuildOk
<1>10. ASSUME NEW t \in Tasks, BuildErr(t) PROVE OneBuildPerTarget'
  BY <1>10 DEF BuildErr
<1>11. ASSUME NEW t \in Tasks, Upgrade(t) PROVE OneBuildPerTarget'
  BY <1>11 DEF Upgrade, remove_pending
<1>12. ASSUME NEW t \in Tasks, RemoveFailed(t) PROVE OneBuildPerTarget'
  BY <1>12 DEF RemoveFailed, remove_pending
<1>13. ASSUME NEW t \in Tasks, SendOk(t) PROVE OneBuildPerTarget'
  BY <1>13 DEF SendOk
<1>14. ASSUME NEW t \in Tasks, SendErr(t) PROVE OneBuildPerTarget'
  BY <1>14 DEF SendErr
<1>15. ASSUME NEW t \in Tasks, DropDefer(t) PROVE OneBuildPerTarget'
  BY <1>15 DEF DropDefer, remove_pending
<1>16. ASSUME NEW t \in Tasks, DropSend(t) PROVE OneBuildPerTarget'
  BY <1>16 DEF DropSend
<1>17. ASSUME NEW t \in Tasks, Cancel(t) PROVE OneBuildPerTarget'
  BY <1>17 DEF Cancel
<1>18. ASSUME NEW new \in [padding : Paddings, kist : Kists], reconfigure_general(new) PROVE OneBuildPerTarget'
  BY <1>18 DEF reconfigure_general
<1>19. ASSUME expire_channels PROVE OneBuildPerTarget'
  BY <1>19 DEF expire_channels
<1>20. ASSUME NEW h \in Handles, ChannelCloses(h) PROVE OneBuildPerTarget'
  BY <1>20 DEF ChannelCloses
<1>21. ASSUME NEW h \in Handles, ChannelUse(h) PROVE OneBuildPerTarget'
  BY <1>21 DEF ChannelUse
<1>22. ASSUME UNCHANGED vars PROVE OneBuildPerTarget'
  BY <1>22 DEF vars
<1>23. QED
  BY <1>1, <1>2, <1>3, <1>4, <1>5, <1>6, <1>7, <1>8, <1>9, <1>10, <1>11, <1>12, <1>13, <1>14,
     <1>15, <1>16, <1>17, <1>18, <1>19, <1>20, <1>21, <1>22 DEF Next, TaskStep, Finished

\* A channel is returned only after it is found to have all the target's identities.
LEMMA NextReturnedMatches == IndInv /\ [Next]_vars => ReturnedMatches'
<1> SUFFICES ASSUME IndInv, [Next]_vars PROVE ReturnedMatches'
  OBVIOUS
<1> USE DEF IndInv, ObjInv, ReturnedMatches, TypeOK, GoTo, Count, mapVars, taskVars, chanVars
<1>1. ASSUME NEW t \in Tasks, ReturnOpen(t) PROVE ReturnedMatches'
  BY SMTT(30), <1>1 DEF ReturnOpen, Best, OpenFor, PendingFor, open_channel_is_allowed, MapInv,
     EntriesDisjoint
<1>2. ASSUME NEW t \in Tasks, WaitPending(t) PROVE ReturnedMatches'
  BY <1>2 DEF WaitPending
<1>3. ASSUME NEW t \in Tasks, FailConflict(t) PROVE ReturnedMatches'
  BY <1>3 DEF FailConflict
<1>4. ASSUME NEW t \in Tasks, Launch(t) PROVE ReturnedMatches'
  BY <1>4 DEF Launch
<1>5. ASSUME NEW t \in Tasks, GiveUpFinal(t) PROVE ReturnedMatches'
  BY SMTT(30), <1>5 DEF GiveUpFinal
<1>6. ASSUME NEW t \in Tasks, Exhausted(t) PROVE ReturnedMatches'
  BY <1>6 DEF Exhausted
<1>7. ASSUME NEW t \in Tasks, WaitDone(t) PROVE ReturnedMatches'
  BY <1>7 DEF WaitDone
<1>8. ASSUME NEW t \in Tasks, StartBuild(t) PROVE ReturnedMatches'
  BY <1>8 DEF StartBuild
<1>9. ASSUME NEW t \in Tasks, BuildOk(t) PROVE ReturnedMatches'
  BY SMTT(30), <1>9 DEF BuildOk, ChannelOfLastLaunch, ChannelsExist, Handle
<1>10. ASSUME NEW t \in Tasks, BuildErr(t) PROVE ReturnedMatches'
  BY <1>10 DEF BuildErr
<1>11. ASSUME NEW t \in Tasks, Upgrade(t) PROVE ReturnedMatches'
  BY SMTT(30), <1>11 DEF Upgrade
<1>12. ASSUME NEW t \in Tasks, RemoveFailed(t) PROVE ReturnedMatches'
  BY <1>12 DEF RemoveFailed
<1>13. ASSUME NEW t \in Tasks, SendOk(t) PROVE ReturnedMatches'
  BY SMTT(30), <1>13 DEF SendOk, ChannelOfLastLaunch, ChannelsExist, AttemptsBounded,
     HoldsSender, Launching, Handle, Handles
<1>14. ASSUME NEW t \in Tasks, SendErr(t) PROVE ReturnedMatches'
  BY <1>14 DEF SendErr
<1>15. ASSUME NEW t \in Tasks, DropDefer(t) PROVE ReturnedMatches'
  BY <1>15 DEF DropDefer
<1>16. ASSUME NEW t \in Tasks, DropSend(t) PROVE ReturnedMatches'
  BY <1>16 DEF DropSend
<1>17. ASSUME NEW t \in Tasks, Cancel(t) PROVE ReturnedMatches'
  BY <1>17 DEF Cancel
<1>18. ASSUME NEW new \in [padding : Paddings, kist : Kists], reconfigure_general(new) PROVE ReturnedMatches'
  BY <1>18 DEF reconfigure_general
<1>19. ASSUME expire_channels PROVE ReturnedMatches'
  BY <1>19 DEF expire_channels
<1>20. ASSUME NEW h \in Handles, ChannelCloses(h) PROVE ReturnedMatches'
  BY <1>20 DEF ChannelCloses
<1>21. ASSUME NEW h \in Handles, ChannelUse(h) PROVE ReturnedMatches'
  BY <1>21 DEF ChannelUse
<1>22. ASSUME UNCHANGED vars PROVE ReturnedMatches'
  BY <1>22 DEF vars
<1>23. QED
  BY <1>1, <1>2, <1>3, <1>4, <1>5, <1>6, <1>7, <1>8, <1>9, <1>10, <1>11, <1>12, <1>13, <1>14,
     <1>15, <1>16, <1>17, <1>18, <1>19, <1>20, <1>21, <1>22 DEF Next, TaskStep, Finished

\* Relays do not share identities, so a channel to one rules the others out.
LEMMA NextConflictIsDefinite == IndInv /\ [Next]_vars => ConflictIsDefinite'
<1> SUFFICES ASSUME IndInv, [Next]_vars PROVE ConflictIsDefinite'
  OBVIOUS
<1> USE DEF IndInv, ObjInv, ConflictIsDefinite, TypeOK, GoTo, Count, mapVars, taskVars, chanVars
<1>1. ASSUME NEW t \in Tasks, ReturnOpen(t) PROVE ConflictIsDefinite'
  BY <1>1 DEF ReturnOpen
<1>2. ASSUME NEW t \in Tasks, WaitPending(t) PROVE ConflictIsDefinite'
  BY <1>2 DEF WaitPending
<1>3. ASSUME NEW t \in Tasks, FailConflict(t) PROVE ConflictIsDefinite'
  <2>1. PICK h \in open : peer[h] \cap target[t] # {} /\ ~ (target[t] \subseteq peer[h])
    BY <1>3 DEF FailConflict, IdentityConflict
  <2>2. peer[h] \in Relays
    BY DEF ChannelsExist
  <2>3. ASSUME NEW r \in Relays, target[t] \subseteq r PROVE FALSE
    <3>1. peer[h] \cap r # {}
      BY <2>1, <2>3
    <3> QED
      BY <2>1, <2>2, <2>3, <3>1, RelaysAssumption
  <2> QED
    BY <1>3, <2>3 DEF FailConflict
<1>4. ASSUME NEW t \in Tasks, Launch(t) PROVE ConflictIsDefinite'
  BY <1>4 DEF Launch
<1>5. ASSUME NEW t \in Tasks, GiveUpFinal(t) PROVE ConflictIsDefinite'
  BY <1>5 DEF GiveUpFinal
<1>6. ASSUME NEW t \in Tasks, Exhausted(t) PROVE ConflictIsDefinite'
  BY <1>6 DEF Exhausted
<1>7. ASSUME NEW t \in Tasks, WaitDone(t) PROVE ConflictIsDefinite'
  BY <1>7 DEF WaitDone
<1>8. ASSUME NEW t \in Tasks, StartBuild(t) PROVE ConflictIsDefinite'
  BY SMTT(30), <1>8 DEF StartBuild
<1>9. ASSUME NEW t \in Tasks, BuildOk(t) PROVE ConflictIsDefinite'
  BY <1>9 DEF BuildOk
<1>10. ASSUME NEW t \in Tasks, BuildErr(t) PROVE ConflictIsDefinite'
  BY <1>10 DEF BuildErr
<1>11. ASSUME NEW t \in Tasks, Upgrade(t) PROVE ConflictIsDefinite'
  BY <1>11, ZenonT(90) DEF Upgrade
<1>12. ASSUME NEW t \in Tasks, RemoveFailed(t) PROVE ConflictIsDefinite'
  BY <1>12 DEF RemoveFailed
<1>13. ASSUME NEW t \in Tasks, SendOk(t) PROVE ConflictIsDefinite'
  BY <1>13 DEF SendOk
<1>14. ASSUME NEW t \in Tasks, SendErr(t) PROVE ConflictIsDefinite'
  BY <1>14 DEF SendErr
<1>15. ASSUME NEW t \in Tasks, DropDefer(t) PROVE ConflictIsDefinite'
  BY <1>15 DEF DropDefer
<1>16. ASSUME NEW t \in Tasks, DropSend(t) PROVE ConflictIsDefinite'
  BY <1>16 DEF DropSend
<1>17. ASSUME NEW t \in Tasks, Cancel(t) PROVE ConflictIsDefinite'
  BY <1>17 DEF Cancel
<1>18. ASSUME NEW new \in [padding : Paddings, kist : Kists], reconfigure_general(new) PROVE ConflictIsDefinite'
  BY <1>18 DEF reconfigure_general
<1>19. ASSUME expire_channels PROVE ConflictIsDefinite'
  BY <1>19 DEF expire_channels
<1>20. ASSUME NEW h \in Handles, ChannelCloses(h) PROVE ConflictIsDefinite'
  BY <1>20 DEF ChannelCloses
<1>21. ASSUME NEW h \in Handles, ChannelUse(h) PROVE ConflictIsDefinite'
  BY <1>21 DEF ChannelUse
<1>22. ASSUME UNCHANGED vars PROVE ConflictIsDefinite'
  BY <1>22 DEF vars
<1>23. QED
  BY <1>1, <1>2, <1>3, <1>4, <1>5, <1>6, <1>7, <1>8, <1>9, <1>10, <1>11, <1>12, <1>13, <1>14,
     <1>15, <1>16, <1>17, <1>18, <1>19, <1>20, <1>21, <1>22 DEF Next, TaskStep, Finished

\* Both the upgrade and the reconfiguration hold the lock while they tell channels.
LEMMA NextPaddingCurrent == IndInv /\ [Next]_vars => PaddingCurrent'
<1> SUFFICES ASSUME IndInv, [Next]_vars PROVE PaddingCurrent'
  OBVIOUS
<1> USE DEF IndInv, ObjInv, PaddingCurrent, TypeOK, GoTo, Count, mapVars, taskVars, chanVars
<1>1. ASSUME NEW t \in Tasks, ReturnOpen(t) PROVE PaddingCurrent'
  BY <1>1 DEF ReturnOpen
<1>2. ASSUME NEW t \in Tasks, WaitPending(t) PROVE PaddingCurrent'
  BY <1>2 DEF WaitPending
<1>3. ASSUME NEW t \in Tasks, FailConflict(t) PROVE PaddingCurrent'
  BY <1>3 DEF FailConflict
<1>4. ASSUME NEW t \in Tasks, Launch(t) PROVE PaddingCurrent'
  BY <1>4 DEF Launch
<1>5. ASSUME NEW t \in Tasks, GiveUpFinal(t) PROVE PaddingCurrent'
  BY <1>5 DEF GiveUpFinal
<1>6. ASSUME NEW t \in Tasks, Exhausted(t) PROVE PaddingCurrent'
  BY <1>6 DEF Exhausted
<1>7. ASSUME NEW t \in Tasks, WaitDone(t) PROVE PaddingCurrent'
  BY <1>7 DEF WaitDone
<1>8. ASSUME NEW t \in Tasks, StartBuild(t) PROVE PaddingCurrent'
  BY <1>8 DEF StartBuild
<1>9. ASSUME NEW t \in Tasks, BuildOk(t) PROVE PaddingCurrent'
  BY <1>9 DEF BuildOk
<1>10. ASSUME NEW t \in Tasks, BuildErr(t) PROVE PaddingCurrent'
  BY <1>10 DEF BuildErr
<1>11. ASSUME NEW t \in Tasks, Upgrade(t) PROVE PaddingCurrent'
  <2> USE <1>11
  <2>1. Handle(t) \in Handles
    BY DEF Upgrade, AttemptsBounded, HoldsSender, Launching, Handle, Handles
  <2>2. CASE open' = open /\ padding' = padding
    BY <2>2 DEF Upgrade
  <2>3. CASE /\ open' = open \cup {Handle(t)}
             /\ padding' = [padding EXCEPT ![Handle(t)] = params.padding]
    <3>1. ASSUME NEW h \in open', usable'[h] PROVE padding'[h] = params'.padding
      <4>1. params' = params /\ usable' = usable
        BY DEF Upgrade
      <4>2. CASE h = Handle(t)
        BY ONLY SMTT(30), <2>1, <2>3, <4>1, <4>2, padding \in [Handles -> Paddings]
      <4>3. CASE h # Handle(t)
        BY <2>3, <3>1, <4>1, <4>3
      <4> QED
        BY <4>2, <4>3
    <3> QED
      BY <3>1
  <2> QED
    BY <2>2, <2>3 DEF Upgrade
<1>12. ASSUME NEW t \in Tasks, RemoveFailed(t) PROVE PaddingCurrent'
  BY <1>12 DEF RemoveFailed
<1>13. ASSUME NEW t \in Tasks, SendOk(t) PROVE PaddingCurrent'
  BY <1>13 DEF SendOk
<1>14. ASSUME NEW t \in Tasks, SendErr(t) PROVE PaddingCurrent'
  BY <1>14 DEF SendErr
<1>15. ASSUME NEW t \in Tasks, DropDefer(t) PROVE PaddingCurrent'
  BY <1>15 DEF DropDefer
<1>16. ASSUME NEW t \in Tasks, DropSend(t) PROVE PaddingCurrent'
  BY <1>16 DEF DropSend
<1>17. ASSUME NEW t \in Tasks, Cancel(t) PROVE PaddingCurrent'
  BY <1>17 DEF Cancel
<1>18. ASSUME NEW new \in [padding : Paddings, kist : Kists], reconfigure_general(new) PROVE PaddingCurrent'
  BY <1>18 DEF reconfigure_general
<1>19. ASSUME expire_channels PROVE PaddingCurrent'
  BY <1>19 DEF expire_channels
<1>20. ASSUME NEW h \in Handles, ChannelCloses(h) PROVE PaddingCurrent'
  BY <1>20 DEF ChannelCloses
<1>21. ASSUME NEW h \in Handles, ChannelUse(h) PROVE PaddingCurrent'
  BY <1>21 DEF ChannelUse
<1>22. ASSUME UNCHANGED vars PROVE PaddingCurrent'
  BY <1>22 DEF vars
<1>23. QED
  BY <1>1, <1>2, <1>3, <1>4, <1>5, <1>6, <1>7, <1>8, <1>9, <1>10, <1>11, <1>12, <1>13, <1>14,
     <1>15, <1>16, <1>17, <1>18, <1>19, <1>20, <1>21, <1>22 DEF Next, TaskStep, Finished
-----------------------------------------------------------------------------

\* The inductive invariant holds in every reachable state.
LEMMA Inductive == Spec => []IndInv
<1>1. IndInv /\ [Next]_vars => IndInv'
  <2> SUFFICES ASSUME IndInv, [Next]_vars PROVE IndInv'
    OBVIOUS
  <2>1. ObjInv'
    BY NextTypeOK, NextAttemptsBounded, NextChannelOfLastLaunch, NextChannelsExist
       DEF IndInv, ObjInv
  <2>2. MapInv'
    BY NextPendingOwned, NextResolvedAfterLaunch, NextEntriesDisjoint DEF IndInv, MapInv
  <2> QED
    BY <2>1, <2>2, NextOneBuildPerTarget, NextReturnedMatches, NextConflictIsDefinite,
       NextPaddingCurrent DEF IndInv
<1> QED
  BY <1>1, InitIndInv, PTL DEF Spec

\* The future of a launch is unresolved while its task holds the sender.
LEMMA SenderUnused ==
    ASSUME IndInv, NEW t \in Tasks, pc[t] \in HoldsSender
    PROVE  Handle(t) \in Handles /\ outcome[Handle(t)] = "pending"
<1>1. attempt[t] \in 1 .. N_ATTEMPTS
  BY DEF IndInv, ObjInv, AttemptsBounded
<1>2. Handle(t) \in Handles /\ Handle(t)[1] = t /\ Handle(t)[2] = attempt[t]
  BY <1>1 DEF Handle, Handles
<1>3. attempt[t] \in Nat
  BY SMTT(30), <1>1 DEF N_ATTEMPTS
<1> QED
  BY SMTT(30), <1>2, <1>3 DEF IndInv, MapInv, ResolvedAfterLaunch

\* What a step may do to a channel whose launch has been reported a success: it may
\* close or leave the map, never come back or change its peer.
SettledStep ==
    \A h \in Handles : outcome[h] = "ok" =>
        /\ outcome'[h] = "ok" /\ peer'[h] = peer[h]
        /\ h \in open' => h \in open
        /\ usable'[h] => usable[h]

\* Every step leaves the channels that were reported where they are.
LEMMA NextSettled == IndInv /\ [Next]_vars => SettledStep
<1> SUFFICES ASSUME IndInv, [Next]_vars PROVE SettledStep
  OBVIOUS
<1>0. /\ outcome \in [Handles -> {"pending", "ok", "err", "dropped"}]
      /\ peer \in [Handles -> Relays \cup {{}}] /\ usable \in [Handles -> BOOLEAN]
  BY DEF IndInv, ObjInv, TypeOK
<1> USE DEF mapVars, taskVars, chanVars
<1>1. ASSUME NEW t \in Tasks, BuildOk(t) PROVE SettledStep
  <2>1. outcome' = outcome /\ open' = open /\ usable' = usable /\ pc[t] = "building"
    BY <1>1 DEF BuildOk
  <2>2. Handle(t) \in Handles /\ outcome[Handle(t)] = "pending"
    BY <2>1, SenderUnused DEF HoldsSender, Launching
  <2>3. PICK r : peer' = [peer EXCEPT ![Handle(t)] = r]
    BY <1>1 DEF BuildOk
  <2>4. \A h \in Handles : outcome[h] = "ok" => peer'[h] = peer[h]
    BY <1>0, <2>2, <2>3
  <2> QED
    BY <2>1, <2>4 DEF SettledStep
<1>2. ASSUME NEW t \in Tasks, Upgrade(t) PROVE SettledStep
  <2>1. outcome' = outcome /\ peer' = peer /\ usable' = usable /\ pc[t] = "built"
    BY <1>2 DEF Upgrade
  <2>2. Handle(t) \in Handles /\ outcome[Handle(t)] = "pending"
    BY <2>1, SenderUnused DEF HoldsSender, Launching
  <2>3. open' \subseteq open \cup {Handle(t)}
    BY <1>2 DEF Upgrade
  <2>4. \A h \in Handles : outcome[h] = "ok" /\ h \in open' => h \in open
    BY <2>2, <2>3
  <2> QED
    BY <2>1, <2>4 DEF SettledStep
<1>3. ASSUME NEW t \in Tasks, SendOk(t) \/ SendErr(t) \/ DropSend(t) PROVE SettledStep
  <2> USE <1>3
  <2>1. open' = open /\ peer' = peer /\ usable' = usable
    BY DEF SendOk, SendErr, DropSend
  <2>2. pc[t] \in HoldsSender
    BY DEF SendOk, SendErr, DropSend, HoldsSender
  <2>3. Handle(t) \in Handles /\ outcome[Handle(t)] = "pending"
    BY <2>2, SenderUnused
  <2>4. PICK o : outcome' = [outcome EXCEPT ![Handle(t)] = o]
    BY DEF SendOk, SendErr, DropSend
  <2>5. \A h \in Handles : outcome[h] = "ok" => outcome'[h] = "ok"
    BY <1>0, <2>3, <2>4
  <2> QED
    BY <2>1, <2>5 DEF SettledStep
<1>4. ASSUME expire_channels PROVE SettledStep
  <2>1. outcome' = outcome /\ peer' = peer /\ usable' = usable /\ open' \subseteq open
    BY <1>4 DEF expire_channels
  <2> QED
    BY <2>1 DEF SettledStep
<1>5. ASSUME NEW c \in Handles, ChannelCloses(c) PROVE SettledStep
  <2>1. outcome' = outcome /\ peer' = peer /\ open' = open
    BY <1>5 DEF ChannelCloses
  <2>2. usable' = [usable EXCEPT ![c] = FALSE]
    BY <1>5 DEF ChannelCloses
  <2>3. \A h \in Handles : usable'[h] => usable[h]
    BY <1>0, <2>2
  <2> QED
    BY <2>1, <2>3 DEF SettledStep
<1>6. ASSUME NEW t \in Tasks, ReturnOpen(t) \/ WaitPending(t) \/ FailConflict(t) \/ Launch(t) \/
      GiveUpFinal(t) \/ Exhausted(t) \/ WaitDone(t) PROVE SettledStep
  <2>1. outcome' = outcome /\ peer' = peer /\ usable' = usable /\ open' = open
    BY <1>6 DEF ReturnOpen, WaitPending, FailConflict, Launch, GiveUpFinal, Exhausted,
       WaitDone
  <2> QED
    BY <2>1 DEF SettledStep
<1>7. ASSUME NEW t \in Tasks, StartBuild(t) \/ BuildErr(t) \/ RemoveFailed(t) \/ DropDefer(t) \/
      Cancel(t) PROVE SettledStep
  <2>1. outcome' = outcome /\ peer' = peer /\ usable' = usable /\ open' = open
    BY <1>7 DEF StartBuild, BuildErr, RemoveFailed, DropDefer, Cancel
  <2> QED
    BY <2>1 DEF SettledStep
<1>8. ASSUME \/ \E new \in [padding : Paddings, kist : Kists] : reconfigure_general(new)
             \/ \E h \in Handles : ChannelUse(h)
             \/ UNCHANGED vars
      PROVE SettledStep
  <2>1. outcome' = outcome /\ peer' = peer /\ usable' = usable /\ open' = open
    BY <1>8 DEF reconfigure_general, ChannelUse, vars
  <2> QED
    BY <2>1 DEF SettledStep
<1> QED
  BY <1>1, <1>2, <1>3, <1>4, <1>5, <1>6, <1>7, <1>8 DEF Next, TaskStep, Finished

\* A task whose last_err is RequestCancelled has been told of the success of what it
\* waited for, is on its final attempt, and neither waits nor launches again.
AwaitedSuccess ==
    \A t \in Tasks :
        /\ pc[t] = "wait" => waitOn[t] \in Handles
        /\ lastErr[t] = "RequestCancelled" =>
              /\ final[t] /\ pc[t] \in {"choose", "returned", "failed"}
              /\ waitOn[t] \in Handles /\ outcome[waitOn[t]] = "ok"

\* What a task has, in the two states of a step.
SameTask(u) ==
    pc'[u] = pc[u] /\ lastErr'[u] = lastErr[u] /\ final'[u] = final[u] /\ waitOn'[u] = waitOn[u]

\* A step of a task leaves the other tasks, and what everyone asks for, alone.
LEMMA TaskFrame ==
    ASSUME TypeOK, NEW t \in Tasks, TaskStep(t) \/ Cancel(t)
    PROVE  target' = target /\ \A u \in Tasks \ {t} : SameTask(u)
<1>1. target' = target
  BY DEF TaskStep, Cancel, ReturnOpen, WaitPending, FailConflict, Launch, GiveUpFinal,
     Exhausted, WaitDone, StartBuild, BuildOk, BuildErr, Upgrade, RemoveFailed, SendOk, SendErr,
     DropDefer, DropSend
<1>2. PICK label : pc' = [pc EXCEPT ![t] = label]
  BY DEF TaskStep, Cancel, ReturnOpen, WaitPending, FailConflict, Launch, GiveUpFinal,
     Exhausted, WaitDone, StartBuild, BuildOk, BuildErr, Upgrade, RemoveFailed, SendOk, SendErr,
     DropDefer, DropSend, GoTo
<1>3. lastErr' = lastErr \/ \E e : lastErr' = [lastErr EXCEPT ![t] = e]
  BY DEF TaskStep, Cancel, ReturnOpen, WaitPending, FailConflict, Launch, GiveUpFinal,
     Exhausted, WaitDone, StartBuild, BuildOk, BuildErr, Upgrade, RemoveFailed, SendOk, SendErr,
     DropDefer, DropSend
<1>4. final' = final \/ \E e : final' = [final EXCEPT ![t] = e]
  BY DEF TaskStep, Cancel, ReturnOpen, WaitPending, FailConflict, Launch, GiveUpFinal,
     Exhausted, WaitDone, StartBuild, BuildOk, BuildErr, Upgrade, RemoveFailed, SendOk, SendErr,
     DropDefer, DropSend
<1>5. waitOn' = waitOn \/ \E e : waitOn' = [waitOn EXCEPT ![t] = e]
  BY DEF TaskStep, Cancel, ReturnOpen, WaitPending, FailConflict, Launch, GiveUpFinal,
     Exhausted, WaitDone, StartBuild, BuildOk, BuildErr, Upgrade, RemoveFailed, SendOk, SendErr,
     DropDefer, DropSend
<1>6. ASSUME NEW u \in Tasks \ {t} PROVE SameTask(u)
  <2>1. pc'[u] = pc[u]
    BY <1>2 DEF TypeOK
  <2>2. lastErr'[u] = lastErr[u]
    BY <1>3 DEF TypeOK
  <2>3. final'[u] = final[u]
    BY <1>4 DEF TypeOK
  <2>4. waitOn'[u] = waitOn[u]
    BY <1>5 DEF TypeOK
  <2> QED
    BY <2>1, <2>2, <2>3, <2>4 DEF SameTask
<1> QED
  BY <1>1, <1>6

\* RequestCancelled is only ever recorded by a task that saw a success.
LEMMA NextAwaitedSuccess == IndInv /\ AwaitedSuccess /\ [Next]_vars => AwaitedSuccess'
<1> SUFFICES ASSUME IndInv, AwaitedSuccess, [Next]_vars, NEW u \in Tasks
             PROVE  /\ pc'[u] = "wait" => waitOn'[u] \in Handles
                    /\ lastErr'[u] = "RequestCancelled" =>
                          /\ final'[u] /\ pc'[u] \in {"choose", "returned", "failed"}
                          /\ waitOn'[u] \in Handles /\ outcome'[waitOn'[u]] = "ok"
  BY DEF AwaitedSuccess
<1> DEFINE Goal == /\ pc'[u] = "wait" => waitOn'[u] \in Handles
                   /\ lastErr'[u] = "RequestCancelled" =>
                          /\ final'[u] /\ pc'[u] \in {"choose", "returned", "failed"}
                          /\ waitOn'[u] \in Handles /\ outcome'[waitOn'[u]] = "ok"
<1>0. TypeOK /\ SettledStep
  BY NextSettled DEF IndInv, ObjInv
<1>a. /\ pc \in [Tasks -> {"choose", "wait", "launched", "building", "built", "buildFailed",
                         "sendOk", "sendErr", "unwind", "dropSend", "returned", "failed"}]
      /\ final \in [Tasks -> BOOLEAN]
  BY <1>0 DEF TypeOK
<1>b. lastErr \in [Tasks -> {"none", "RequestCancelled", "BuildFailed", "TaskDisappeared",
                              "IdentityConflict", "AccountClosed", "NewChannelFailed",
                              "CallerCancelled"}]
      /\ waitOn \in [Tasks -> Handles \cup {NoHandle}]
  BY <1>0 DEF TypeOK
<1>c. /\ pc[u] = "wait" => waitOn[u] \in Handles
      /\ lastErr[u] = "RequestCancelled" =>
            /\ final[u] /\ pc[u] \in {"choose", "returned", "failed"}
            /\ waitOn[u] \in Handles /\ outcome'[waitOn[u]] = "ok"
  BY <1>0 DEF AwaitedSuccess, SettledStep
<1>1. ASSUME SameTask(u) PROVE Goal
  BY <1>1, <1>c DEF SameTask
<1>2. ASSUME NEW t \in Tasks, TaskStep(t) \/ Cancel(t), t # u PROVE Goal
  BY <1>0, <1>1, <1>2, TaskFrame
<1>3. CASE ReturnOpen(u) \/ GiveUpFinal(u) \/ Exhausted(u)
  <2>1. lastErr' = lastErr /\ final' = final /\ waitOn' = waitOn
    BY <1>3 DEF ReturnOpen, GiveUpFinal, Exhausted
  <2>2. pc' = [pc EXCEPT ![u] = "returned"] \/ pc' = [pc EXCEPT ![u] = "failed"]
    BY <1>3 DEF ReturnOpen, GiveUpFinal, Exhausted, GoTo
  <2>3. pc'[u] \in {"returned", "failed"}
    BY <1>a, <2>2
  <2> QED
    BY <1>c, <2>1, <2>3
<1>4. CASE WaitPending(u)
  <2>1. lastErr' = lastErr /\ ~ final[u]
    BY <1>4 DEF WaitPending
  <2>2. PICK h \in building : waitOn' = [waitOn EXCEPT ![u] = h]
    BY <1>4 DEF WaitPending
  <2>3. waitOn'[u] \in Handles
    BY <1>0, <1>b, <2>2 DEF TypeOK
  <2> QED
    BY <1>c, <2>1, <2>3
<1>5. CASE Launch(u)
  <2>1. lastErr' = lastErr /\ ~ final[u] /\ pc' = [pc EXCEPT ![u] = "launched"]
    BY <1>5 DEF Launch, GoTo
  <2>2. pc'[u] = "launched"
    BY <1>a, <2>1
  <2> QED
    BY <1>c, <2>1, <2>2
<1>6. CASE FailConflict(u) \/ SendErr(u) \/ Cancel(u)
  <2>1. \E e \in {"IdentityConflict", "BuildFailed", "CallerCancelled"} :
            lastErr' = [lastErr EXCEPT ![u] = e]
    BY <1>6 DEF FailConflict, SendErr, Cancel
  <2>2. lastErr'[u] # "RequestCancelled"
    BY <1>b, <2>1
  <2>3. \E l \in {"failed", "choose", "unwind"} : pc' = [pc EXCEPT ![u] = l]
    BY <1>6 DEF FailConflict, SendErr, Cancel, GoTo
  <2>4. pc'[u] # "wait"
    BY <1>a, <2>3
  <2> QED
    BY <2>2, <2>4
<1>7. CASE WaitDone(u)
  <2> USE <1>7
  <2> DEFINE result == outcome[waitOn[u]]
  <2>1. pc[u] = "wait" /\ waitOn[u] \in Handles /\ lastErr[u] # "RequestCancelled"
    BY <1>c DEF WaitDone
  <2>2. pc'[u] = "choose"
    BY <1>a DEF WaitDone, GoTo
  <2>3. /\ final' = [final EXCEPT ![u] = @ \/ result = "ok"] /\ waitOn' = waitOn
        /\ lastErr' = [lastErr EXCEPT ![u] =
                        CASE result = "ok"  -> IF @ = "none" THEN "RequestCancelled" ELSE @
                          [] result = "err" -> "BuildFailed"
                          [] OTHER          -> "TaskDisappeared"]
    BY DEF WaitDone
  <2>4. result # "ok" => lastErr'[u] # "RequestCancelled"
    BY <1>b, <2>3
  <2>5. final'[u] = (final[u] \/ result = "ok")
    BY <1>a, <2>3
  <2>6. result = "ok" => outcome'[waitOn[u]] = "ok"
    BY <1>0, <2>1 DEF SettledStep
  <2> HIDE DEF result
  <2>7. result = "ok" => waitOn'[u] \in Handles /\ outcome'[waitOn'[u]] = "ok"
    BY <2>1, <2>3, <2>6
  <2>8. pc'[u] # "wait" /\ pc'[u] \in {"choose", "returned", "failed"}
    BY <2>2
  <2>9. CASE lastErr'[u] = "RequestCancelled"
    BY <2>4, <2>5, <2>7, <2>8, <2>9
  <2> QED
    BY <2>8, <2>9
<1>8. CASE \/ StartBuild(u) \/ BuildOk(u) \/ BuildErr(u) \/ Upgrade(u) \/ RemoveFailed(u)
           \/ SendOk(u) \/ DropDefer(u) \/ DropSend(u)
  <2> USE <1>8
  <2>1. lastErr' = lastErr \/ \E e \in {"AccountClosed", "NewChannelFailed"} :
                                   lastErr' = [lastErr EXCEPT ![u] = e]
    BY DEF StartBuild, BuildOk, BuildErr, Upgrade, RemoveFailed, SendOk, DropDefer,
       DropSend
  <2>2. pc[u] \notin {"choose", "returned", "failed"}
    BY DEF StartBuild, BuildOk, BuildErr, Upgrade, RemoveFailed, SendOk, DropDefer, DropSend
  <2>3. \E l \in {"building", "unwind", "built", "buildFailed", "dropSend", "sendOk", "sendErr",
                  "returned", "failed"} : pc' = [pc EXCEPT ![u] = l]
    BY DEF StartBuild, BuildOk, BuildErr, Upgrade, RemoveFailed, SendOk, DropDefer,
       DropSend, GoTo
  <2>4. pc'[u] # "wait"
    BY <1>a, <2>3
  <2>5. lastErr'[u] # "RequestCancelled"
    BY <1>b, <1>c, <2>1, <2>2
  <2> QED
    BY <2>4, <2>5
<1>9. ASSUME \/ \E new \in [padding : Paddings, kist : Kists] : reconfigure_general(new)
             \/ expire_channels
             \/ \E h \in Handles : ChannelCloses(h) \/ ChannelUse(h)
             \/ UNCHANGED vars
      PROVE Goal
  <2>1. UNCHANGED taskVars
    BY <1>9 DEF reconfigure_general, expire_channels, ChannelCloses, ChannelUse, vars
  <2>2. SameTask(u)
    BY <2>1 DEF taskVars, SameTask
  <2> QED
    BY <1>1, <2>2
<1>10. CASE TaskStep(u)
  BY <1>3, <1>4, <1>5, <1>6, <1>7, <1>8, <1>10 DEF TaskStep
<1> QED
  BY <1>2, <1>6, <1>9, <1>10 DEF Next, Finished

\* The one way to fail with RequestCancelled: the final attempt finds no channel.
LEMMA FailsOnFinalAttempt ==
    ASSUME IndInv, AwaitedSuccess, NEW u \in Tasks, TaskStep(u) \/ Cancel(u),
           pc'[u] = "failed", lastErr'[u] = "RequestCancelled"
    PROVE  GiveUpFinal(u)
<1>a. /\ pc \in [Tasks -> {"choose", "wait", "launched", "building", "built", "buildFailed",
                         "sendOk", "sendErr", "unwind", "dropSend", "returned", "failed"}]
      /\ lastErr \in [Tasks -> {"none", "RequestCancelled", "BuildFailed", "TaskDisappeared",
                              "IdentityConflict", "AccountClosed", "NewChannelFailed",
                              "CallerCancelled"}]
  BY DEF IndInv, ObjInv, TypeOK
<1>b. lastErr[u] = "RequestCancelled" => final[u] /\ pc[u] \in {"choose", "returned", "failed"}
  BY DEF AwaitedSuccess
<1>1. ~ (FailConflict(u) \/ SendErr(u) \/ Cancel(u))
  <2> SUFFICES ASSUME FailConflict(u) \/ SendErr(u) \/ Cancel(u) PROVE FALSE
    OBVIOUS
  <2>1. \E e \in {"IdentityConflict", "BuildFailed", "CallerCancelled"} :
            lastErr' = [lastErr EXCEPT ![u] = e]
    BY DEF FailConflict, SendErr, Cancel
  <2> QED
    BY <1>a, <2>1
<1>2. ~ Exhausted(u)
  <2> SUFFICES ASSUME Exhausted(u) PROVE FALSE
    OBVIOUS
  <2>1. lastErr' = lastErr /\ pc[u] = "choose" /\ ~ MayTry(u)
    BY DEF Exhausted
  <2> QED
    BY <1>b, <2>1 DEF MayTry
<1>3. ~ DropSend(u)
  <2> SUFFICES ASSUME DropSend(u) PROVE FALSE
    OBVIOUS
  <2>1. lastErr' = lastErr /\ pc[u] = "dropSend"
    BY DEF DropSend
  <2> QED
    BY <1>b, <2>1
<1>4. ~ (ReturnOpen(u) \/ WaitPending(u) \/ Launch(u) \/ WaitDone(u) \/ StartBuild(u) \/ BuildOk(u)
         \/ BuildErr(u) \/ Upgrade(u) \/ RemoveFailed(u) \/ SendOk(u) \/ DropDefer(u))
  <2> SUFFICES ASSUME ReturnOpen(u) \/ WaitPending(u) \/ Launch(u) \/ WaitDone(u) \/ StartBuild(u)
                      \/ BuildOk(u) \/ BuildErr(u) \/ Upgrade(u) \/ RemoveFailed(u) \/ SendOk(u)
                      \/ DropDefer(u)
               PROVE  FALSE
    OBVIOUS
  <2>1. \E l \in {"returned", "wait", "launched", "choose", "building", "unwind", "built",
                  "buildFailed", "dropSend", "sendOk", "sendErr"} : pc' = [pc EXCEPT ![u] = l]
    BY DEF ReturnOpen, WaitPending, Launch, WaitDone, StartBuild, BuildOk, BuildErr,
       Upgrade, RemoveFailed, SendOk, DropDefer, GoTo
  <2> QED
    BY <1>a, <2>1
<1> QED
  BY <1>1, <1>2, <1>3, <1>4 DEF TaskStep

\* A channel that was reported and is lost to a task stays lost to it.
LEMMA NextCancelledOnlyIfLost ==
    IndInv /\ AwaitedSuccess /\ CancelledOnlyIfLost /\ [Next]_vars => CancelledOnlyIfLost'
<1> DEFINE Lost(t, h) == outcome[h] = "ok" /\ (h \in open => ~ usable[h] \/ ~ (target[t] \subseteq peer[h]))
<1> SUFFICES ASSUME IndInv, AwaitedSuccess, CancelledOnlyIfLost, [Next]_vars, NEW u \in Tasks,
                    pc'[u] = "failed", lastErr'[u] = "RequestCancelled"
             PROVE  /\ waitOn'[u] \in Handles /\ outcome'[waitOn'[u]] = "ok"
                    /\ waitOn'[u] \in open' => \/ ~ usable'[waitOn'[u]]
                                               \/ ~ (target'[u] \subseteq peer'[waitOn'[u]])
  BY DEF CancelledOnlyIfLost
<1>0. TypeOK /\ SettledStep
  BY NextSettled DEF IndInv, ObjInv
<1>1. target' = target
  <2>1. ASSUME NEW t \in Tasks, TaskStep(t) \/ Cancel(t) PROVE target' = target
    BY <1>0, <2>1, TaskFrame
  <2> QED
    BY <2>1 DEF Next, Finished, reconfigure_general, expire_channels, ChannelCloses,
       ChannelUse, vars, taskVars
<1>2. waitOn'[u] = waitOn[u] /\ (GiveUpFinal(u) \/ (pc[u] = "failed" /\ lastErr[u] = "RequestCancelled"))
  <2>1. CASE TaskStep(u) \/ Cancel(u)
    BY <2>1, FailsOnFinalAttempt DEF GiveUpFinal
  <2>2. ASSUME NEW t \in Tasks, TaskStep(t) \/ Cancel(t), t # u
        PROVE  waitOn'[u] = waitOn[u] /\ pc[u] = "failed" /\ lastErr[u] = "RequestCancelled"
    <3>1. SameTask(u)
      BY <1>0, <2>2, TaskFrame
    <3> QED
      BY <3>1 DEF SameTask
  <2>3. ASSUME UNCHANGED taskVars
        PROVE  waitOn'[u] = waitOn[u] /\ pc[u] = "failed" /\ lastErr[u] = "RequestCancelled"
    BY <2>3 DEF taskVars
  <2> QED
    BY <2>1, <2>2, <2>3 DEF Next, Finished, reconfigure_general, expire_channels,
       ChannelCloses, ChannelUse, vars
<1>3. waitOn[u] \in Handles /\ Lost(u, waitOn[u])
  <2>1. CASE GiveUpFinal(u)
    <3>1. Best(target[u]) \cap open = {} /\ lastErr' = lastErr
      BY <2>1 DEF GiveUpFinal
    <3>2. OpenFor(target[u]) = {}
      BY <3>1 DEF Best, OpenFor
    <3>3. waitOn[u] \in Handles /\ outcome[waitOn[u]] = "ok"
      BY <3>1 DEF AwaitedSuccess
    <3>4. waitOn[u] \in open => ~ usable[waitOn[u]] \/ ~ (target[u] \subseteq peer[waitOn[u]])
      BY <3>2 DEF OpenFor, open_channel_is_allowed
    <3> QED
      BY <3>3, <3>4
  <2>2. CASE pc[u] = "failed" /\ lastErr[u] = "RequestCancelled"
    BY <2>2 DEF CancelledOnlyIfLost
  <2> QED
    BY <1>2, <2>1, <2>2
<1>4. PICK h \in Handles : h = waitOn[u] /\ Lost(u, h)
  BY <1>3
<1>5. outcome'[h] = "ok" /\ peer'[h] = peer[h] /\ (h \in open' => h \in open)
      /\ (usable'[h] => usable[h])
  BY <1>0, <1>4 DEF SettledStep
<1>6. h \in open' => ~ usable'[h] \/ ~ (target'[u] \subseteq peer'[h])
  BY <1>1, <1>4, <1>5
<1> QED
  BY <1>2, <1>4, <1>5, <1>6

\* Type correctness, in particular that a request makes at most three attempts.
THEOREM TypeCorrect == Spec => []TypeOK
BY Inductive, PTL DEF IndInv, ObjInv

\* No return, error or cancellation leaves a Building entry behind, and no entry
\* disappears under its launcher.
THEOREM NoLeakedPending == Spec => []PendingOwned
BY Inductive, PTL DEF IndInv, MapInv

\* Waiters are woken only after the entry they waited for has left the map.
THEOREM WokenAfterRemoval == Spec => []RemovedBeforeReady
<1>1. IndInv => RemovedBeforeReady
  <2> SUFFICES ASSUME IndInv, NEW h \in building PROVE outcome[h] = "pending"
    BY DEF RemovedBeforeReady
  <2>1. PICK t \in Tasks : pc[t] \in Launching /\ h = Handle(t)
    BY DEF IndInv, MapInv, PendingOwned
  <2>2. h \in Handles
    BY DEF IndInv, ObjInv, TypeOK
  <2>3. h[1] = t /\ h[2] = attempt[t] /\ attempt[t] \in Nat
    BY SMTT(30), <2>1 DEF Handle, IndInv, ObjInv, TypeOK, N_ATTEMPTS
  <2> QED
    BY SMTT(30), <2>1, <2>2, <2>3 DEF IndInv, MapInv, ResolvedAfterLaunch, HoldsSender
<1> QED
  BY <1>1, Inductive, PTL

\* Two tasks never build channels to the same target at the same time.
THEOREM SharedBuilds == Spec => []OneBuildPerTarget
BY Inductive, PTL DEF IndInv

\* Whatever the interleaving, a returned channel has every identity asked for.
THEOREM RightChannel == Spec => []ReturnedMatches
BY Inductive, PTL DEF IndInv

\* A request is refused with IdentityConflict only if no relay could satisfy it.
THEOREM DefiniteConflict == Spec => []ConflictIsDefinite
BY Inductive, PTL DEF IndInv

\* A task that waited for a build that succeeded, and still fails with
\* RequestCancelled, does so because that very channel had closed, left the map or
\* was no match (get_or_launch_internal).
THEOREM CancelledWhenLost == Spec => []CancelledOnlyIfLost
<1>1. Init => AwaitedSuccess /\ CancelledOnlyIfLost
  <2> SUFFICES ASSUME Init, NEW t \in Tasks PROVE pc[t] = "choose" /\ lastErr[t] = "none"
    BY DEF AwaitedSuccess, CancelledOnlyIfLost
  <2> QED
    BY DEF Init
<1> QED
  BY <1>1, Inductive, NextAwaitedSuccess, NextCancelledOnlyIfLost, PTL DEF Spec

\* No channel in the map misses a change of the padding parameters.
THEOREM PaddingUpToDate == Spec => []PaddingCurrent
BY Inductive, PTL DEF IndInv
=============================================================================
