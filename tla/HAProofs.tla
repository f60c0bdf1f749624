------------------------------ MODULE HAProofs ------------------------------
(***************************************************************************)
(* What haGuard, failover and failback achieve, for any number of operators, *)
(* client transactions and faults and both storage drivers: as long as no   *)
(* command runs beside a failover or a failback, "main" always has its      *)
(* database, keeps what was acknowledged, revives nothing that was given up *)
(* and is served by one primary, but for the faults each theorem names.     *)
(***************************************************************************)
EXTENDS HA, TLAPS

\* What the docker, storage and psql calls do to the types.
LEMMA CallTypes ==
  ASSUME TypeOK
  PROVE  /\ \A n \in Nodes, st \in {"absent", "running", "exited"} :
               StopContainer(n, st) => /\ cont' \in [Nodes -> {"absent", "running", "exited"}]
                                       /\ sess' \subseteq Nodes
         /\ StartMain => /\ cont' \in [Nodes -> {"absent", "running", "exited"}]
                         /\ has' \in [Nodes -> BOOLEAN]
                         /\ role' \in [Nodes -> {"primary", "replica"}]
         /\ StartStandby => cont' \in [Nodes -> {"absent", "running", "exited"}]
         /\ \A n \in Nodes : Wipe(n) => /\ has' \in [Nodes -> BOOLEAN]
                                        /\ data' \in [Nodes -> SUBSET (1..MaxWrites)]
         /\ \A n, m \in Nodes :
               Basebackup(n, m) => /\ has' \in [Nodes -> BOOLEAN]
                                   /\ data' \in [Nodes -> SUBSET (1..MaxWrites)]
                                   /\ role' \in [Nodes -> {"primary", "replica"}]
         /\ \A n \in Nodes : Promote(n) => role' \in [Nodes -> {"primary", "replica"}]
         /\ \A o \in Operators, s \in Steps : Goto(o, s) => pc' \in [Operators -> Steps]
         /\ \A f : Fault(f) => faults' \in Seq(Faults) /\ Len(faults') <= MaxFaults
<1> USE BoundsAssumption DEF TypeOK
<1>1. \A n \in Nodes, st \in {"absent", "running", "exited"} :
         StopContainer(n, st) => /\ cont' \in [Nodes -> {"absent", "running", "exited"}]
                                 /\ sess' \subseteq Nodes
  BY DEF StopContainer
<1>2. /\ StartMain => /\ cont' \in [Nodes -> {"absent", "running", "exited"}]
                      /\ has' \in [Nodes -> BOOLEAN]
                      /\ role' \in [Nodes -> {"primary", "replica"}]
      /\ StartStandby => cont' \in [Nodes -> {"absent", "running", "exited"}]
  BY DEF StartMain, StartStandby
<1>3. \A n \in Nodes : Wipe(n) => /\ has' \in [Nodes -> BOOLEAN]
                                  /\ data' \in [Nodes -> SUBSET (1..MaxWrites)]
  BY DEF Wipe
<1>4. \A n, m \in Nodes :
         Basebackup(n, m) => /\ has' \in [Nodes -> BOOLEAN]
                             /\ data' \in [Nodes -> SUBSET (1..MaxWrites)]
                             /\ role' \in [Nodes -> {"primary", "replica"}]
  BY DEF Basebackup
<1>5. \A n \in Nodes : Promote(n) => role' \in [Nodes -> {"primary", "replica"}]
  BY DEF Promote
<1>6. \A o \in Operators, s \in Steps : Goto(o, s) => pc' \in [Operators -> Steps]
  BY DEF Goto
<1>7. \A f : Fault(f) => faults' \in Seq(Faults) /\ Len(faults') <= MaxFaults
  BY DEF Fault
<1> QED BY <1>1, <1>2, <1>3, <1>4, <1>5, <1>6, <1>7

\* Type correctness is inductive by itself, whoever runs what.
LEMMA TypeInductive == TypeOK /\ [Next]_vars => TypeOK'
<1> SUFFICES ASSUME TypeOK, [Next]_vars PROVE TypeOK'
  OBVIOUS
<1> USE BoundsAssumption, CallTypes DEF TypeOK, Nodes, Steps, dbVars, histVars
<1>1. CASE Connect
  BY <1>1 DEF Connect
<1>2. ASSUME NEW n \in Nodes, Write(n) PROVE TypeOK'
  <2>1. /\ writes' \in 0..MaxWrites /\ writes + 1 \in 1..MaxWrites
        /\ acked' \subseteq 1..writes' /\ lost' \subseteq acked'
    BY <1>2 DEF Write
  <2>2. data' \in [Nodes -> SUBSET (1..MaxWrites)]
    BY <1>2, <2>1 DEF Write
  <2> QED BY <1>2, <2>1, <2>2 DEF Write
<1>3. ASSUME NEW n \in Nodes, Replicate(n) PROVE TypeOK'
  BY <1>3 DEF Replicate, Other
<1>4. ASSUME NEW n \in Nodes, NodeCrash(n) PROVE TypeOK'
  BY <1>4 DEF NodeCrash
<1>5. ASSUME NEW o \in Operators, Enable(o) \/ Failover(o) \/ Disable(o) \/ Failback(o) \/ Up(o)
      PROVE  TypeOK'
  <2>1. \E s \in Steps : Begin(o, s)
    BY <1>5 DEF Enable, Failover, Disable, Failback, Up
  <2>2. overlap' \in BOOLEAN /\ pc' \in [Operators -> Steps]
    BY <2>1 DEF Begin
  <2> QED BY <2>1, <2>2 DEF Begin
<1>6. ASSUME NEW o \in Operators, EnableReset(o) \/ DisableRemove(o) \/ FailbackWipe(o) \/ FailbackDrop(o)
      PROVE  TypeOK'
  BY <1>6 DEF EnableReset, DisableRemove, FailbackWipe, FailbackDrop
<1>7. ASSUME NEW o \in Operators, EnableCopy(o) \/ FailbackCopy(o) PROVE TypeOK'
  BY <1>7 DEF EnableCopy, FailbackCopy
<1>8. ASSUME NEW o \in Operators, EnableStart(o) \/ FailbackStart(o) \/ UpMain(o) \/ UpStandby(o)
      PROVE  TypeOK'
  <2>1. CASE EnableStart(o)
    BY <2>1 DEF EnableStart
  <2>2. CASE FailbackStart(o) \/ UpMain(o)
    BY <2>2 DEF FailbackStart, UpMain
  <2>3. CASE UpStandby(o)
    BY <2>3 DEF UpStandby
  <2> QED BY <1>8, <2>1, <2>2, <2>3
<1>9. ASSUME NEW o \in Operators, FailoverPromote(o) \/ FailbackPromote(o) PROVE TypeOK'
  BY <1>9 DEF FailoverPromote, FailbackPromote
<1>10. ASSUME NEW o \in Operators, FailoverStop(o) PROVE TypeOK'
  BY <1>10 DEF FailoverStop
<1>11. ASSUME NEW o \in Operators, FailoverPoint(o) \/ DisablePoint(o) \/ FailbackPoint(o)
       PROVE  TypeOK'
  BY <1>11 DEF FailoverPoint, DisablePoint, FailbackPoint
<1>12. ASSUME NEW o \in Operators, FailbackCatchup(o) \/ FailbackReplay(o) PROVE TypeOK'
  BY <1>12 DEF FailbackCatchup, FailbackReplay
<1>13. ASSUME NEW o \in Operators, FailbackStop(o) PROVE TypeOK'
  <2>1. cont' \in [Nodes -> {"absent", "running", "exited"}] /\ sess' \subseteq Nodes
    BY <1>13 DEF FailbackStop
  <2>2. data' \in [Nodes -> SUBSET (1..MaxWrites)]
    BY <1>13 DEF FailbackStop
  <2>3. final' \in [Operators -> SUBSET (1..MaxWrites)]
    BY <1>13 DEF FailbackStop
  <2>4. faults' \in Seq(Faults) /\ Len(faults') <= MaxFaults /\ pc' \in [Operators -> Steps]
    BY <1>13 DEF FailbackStop
  <2> QED BY <1>13, <2>1, <2>2, <2>3, <2>4 DEF FailbackStop
<1>14. ASSUME NEW o \in Operators, FailbackStopped(o) \/ FailbackRestart(o) \/ Down(o) \/ Die(o)
       PROVE  TypeOK'
  BY <1>14 DEF FailbackStopped, FailbackRestart, Down, Die
<1>15. CASE Wake \/ Delete
  BY <1>15 DEF Wake, Delete
<1>16. CASE UNCHANGED vars
  BY <1>16 DEF vars
<1> QED
  BY <1>1, <1>2, <1>3, <1>4, <1>5, <1>6, <1>7, <1>8, <1>9, <1>10, <1>11, <1>12,
     <1>13, <1>14, <1>15, <1>16 DEF Next, Command

\* The state after installation has its type.
LEMMA TypeInit == Init => TypeOK
<1> SUFFICES ASSUME Init PROVE TypeOK
  OBVIOUS
<1>1. overlap \in BOOLEAN
  BY DEF Init
<1>2. /\ cont \in [Nodes -> {"absent", "running", "exited"}]
      /\ has \in [Nodes -> BOOLEAN]
      /\ role \in [Nodes -> {"primary", "replica"}]
  BY DEF Init, Nodes
<1>3. /\ data \in [Nodes -> SUBSET (1..MaxWrites)]
      /\ final \in [Operators -> SUBSET (1..MaxWrites)]
      /\ pc \in [Operators -> Steps]
  BY DEF Init, Steps
<1> QED BY <1>1, <1>2, <1>3, BoundsAssumption DEF Init, TypeOK, Nodes

\* Type correctness of the HA commands, whoever runs them.
THEOREM HATypeCorrect == Spec => []TypeOK
BY TypeInit, TypeInductive, PTL DEF Spec
-----------------------------------------------------------------------------
(***************************************************************************)
(* History.  What has gone wrong stays recorded, so that a step after which *)
(* nothing has gone wrong starts where nothing had.                         *)
(***************************************************************************)

\* A fault stays recorded: the history only grows, and by what happens.
LEMMA FaultsRecorded ==
  ASSUME TypeOK, [Next]_vars, NEW f, ~ Happened(f)'
  PROVE  ~ Happened(f) /\ ~ Fault(f)
<1>1. faults \in Seq(Faults)
  BY DEF TypeOK
<1>2. UNCHANGED faults \/ \E g \in Faults : faults' = Append(faults, g)
  BY DEF Next, vars, dbVars, histVars, Connect, Write, Replicate, NodeCrash, Command, Begin,
         Enable, EnableReset, EnableCopy, EnableStart, Failover, FailoverPromote,
         FailoverStop, FailoverPoint, Disable, DisableRemove, DisablePoint, Failback,
         FailbackWipe, FailbackCopy, FailbackStart, FailbackCatchup, FailbackStop,
         FailbackReplay, FailbackPromote, FailbackPoint, FailbackDrop, FailbackStopped,
         FailbackRestart, Up, UpMain, UpStandby, Down, Wake, Delete, Die, Fault
<1>3. ASSUME NEW g \in Faults, faults' = Append(faults, g), Happened(f) PROVE FALSE
  <2>1. PICK i \in 1..Len(faults) : faults[i] = f
    BY <1>3 DEF Happened
  <2>2. i \in 1..Len(faults') /\ faults'[i] = f
    BY <1>1, <1>3, <2>1
  <2> QED BY <2>2 DEF Happened
<1>4. ASSUME Fault(f) PROVE FALSE
  <2>1. faults' = Append(faults, f) /\ f \in Faults
    BY <1>4 DEF Fault
  <2>2. Len(faults) + 1 \in 1..Len(faults') /\ faults'[Len(faults) + 1] = f
    BY <1>1, <2>1
  <2> QED BY <2>2 DEF Happened
<1>5. CASE UNCHANGED faults
  BY <1>4, <1>5 DEF Happened
<1> QED BY <1>2, <1>3, <1>4, <1>5

\* So does a command that was run beside a failover or a failback.
LEMMA OverlapRecorded ==
  ASSUME [Next]_vars, ~ overlap'
  PROVE  ~ overlap
<1>1. UNCHANGED overlap \/ \E o \in Operators, step \in Steps : Begin(o, step)
  BY DEF Next, vars, dbVars, histVars, Connect, Write, Replicate, NodeCrash, Command, Steps,
         Enable, EnableReset, EnableCopy, EnableStart, Failover, FailoverPromote,
         FailoverStop, FailoverPoint, Disable, DisableRemove, DisablePoint, Failback,
         FailbackWipe, FailbackCopy, FailbackStart, FailbackCatchup, FailbackStop,
         FailbackReplay, FailbackPromote, FailbackPoint, FailbackDrop, FailbackStopped,
         FailbackRestart, Up, UpMain, UpStandby, Down, Wake, Delete, Die
<1> QED BY <1>1 DEF Begin

\* So does the deletion of the standby's data with btrfs.
LEMMA DeletionRecorded ==
  ASSUME TypeOK, [Next]_vars, ~ StandbyDeleted'
  PROVE  ~ StandbyDeleted /\ ~ (Driver = "btrfs" /\ Fault("delete"))
BY FaultsRecorded DEF StandbyDeleted
-----------------------------------------------------------------------------
(***************************************************************************)
(* Who serves "main".  haGuard reads the pointer once; what it read is      *)
(* still true at every later step of the command, because only a failover   *)
(* and a failback change the pointer and nothing runs beside those.         *)
(***************************************************************************)
MainServes == {"enable:reset", "enable:copy", "enable:start",
               "failover:promote", "failover:stop", "failover:point",
               "disable:remove", "disable:point", "failback:drop", "up:main"}

StandbyServes == {"failback:wipe", "failback:copy", "failback:start",
                  "failback:catchup", "failback:stop", "failback:replay",
                  "failback:promote", "failback:point", "up:standby"}

MovesAlone == \A o, p \in Operators : o # p /\ pc[o] \in Moving => pc[p] = "idle"

Routed == \A o \in Operators :
  /\ pc[o] \in MainServes => pointer = "main"
  /\ pc[o] \in StandbyServes => pointer = "standby"

RouteInv == TypeOK /\ (~ overlap => MovesAlone /\ Routed)

\* One step per kind of command step; clients, Postgres and faults move no pointer.
LEMMA RouteInductive == RouteInv /\ [Next]_vars => RouteInv'
<1> SUFFICES ASSUME RouteInv, [Next]_vars, ~ overlap' PROVE MovesAlone' /\ Routed'
  BY TypeInductive DEF RouteInv
<1>0. TypeOK /\ MovesAlone /\ Routed
  BY OverlapRecorded DEF RouteInv
<1> USE <1>0 DEF MovesAlone, Routed, TypeOK, Nodes, Moving, MainServes, StandbyServes, Goto
<1>1. ASSUME UNCHANGED <<pc, pointer>> PROVE MovesAlone' /\ Routed'
  BY <1>1
<1>2. CASE Connect \/ (\E n \in Nodes : Write(n) \/ Replicate(n) \/ NodeCrash(n)) \/ Wake \/ Delete
  BY <1>1, <1>2 DEF Connect, Write, Replicate, NodeCrash, Wake, Delete
<1>3. ASSUME NEW o \in Operators, Command(o) PROVE MovesAlone' /\ Routed'
  <2>1. CASE Enable(o) \/ Disable(o) \/ Up(o)
    <3>1. PICK step \in {"enable:reset", "disable:remove", "up:main", "up:standby"} :
             /\ Begin(o, step)
             /\ IF step = "up:standby" THEN pointer = "standby" ELSE pointer = "main"
      BY <2>1 DEF Enable, Disable, Up, haGuard
    <3>2. pc[o] = "idle" /\ pc' = [pc EXCEPT ![o] = step] /\ pointer' = pointer
      BY <3>1 DEF Begin
    <3>3. \A p \in Operators \ {o} : pc[p] \notin Moving
      BY <3>1 DEF Begin
    <3>4. MovesAlone'
      BY <3>1, <3>2, <3>3
    <3>5. Routed'
      BY <3>1, <3>2
    <3> QED BY <3>4, <3>5
  <2>2. CASE Failover(o) \/ Failback(o)
    <3>1. PICK step \in {"failover:promote", "failback:wipe"} :
             /\ Begin(o, step)
             /\ IF step = "failback:wipe" THEN pointer = "standby" ELSE pointer = "main"
      BY <2>2 DEF Failover, Failback, haGuard
    <3>2. pc[o] = "idle" /\ pc' = [pc EXCEPT ![o] = step] /\ pointer' = pointer
      BY <3>1 DEF Begin
    <3>3. \A p \in Operators \ {o} : pc[p] = "idle"
      BY <3>1 DEF Begin
    <3>4. MovesAlone'
      BY <3>1, <3>2, <3>3
    <3>5. Routed'
      BY <3>1, <3>2
    <3> QED BY <3>4, <3>5
  <2>3. CASE EnableReset(o) \/ EnableCopy(o) \/ EnableStart(o) \/ DisableRemove(o)
    BY <2>3 DEF EnableReset, EnableCopy, EnableStart, DisableRemove
  <2>4. CASE FailoverPromote(o) \/ FailoverStop(o) \/ FailbackDrop(o)
    BY <2>4 DEF FailoverPromote, FailoverStop, FailbackDrop
  <2>5. CASE FailbackWipe(o) \/ FailbackCopy(o) \/ FailbackStart(o) \/ FailbackCatchup(o)
    BY <2>5 DEF FailbackWipe, FailbackCopy, FailbackStart, FailbackCatchup
  <2>6. CASE FailbackStop(o) \/ FailbackReplay(o) \/ FailbackPromote(o)
    BY <2>6 DEF FailbackStop, FailbackReplay, FailbackPromote
  <2>7. CASE FailoverPoint(o) \/ FailbackPoint(o)
    BY <2>7 DEF FailoverPoint, FailbackPoint
  <2>8. CASE DisablePoint(o)
    BY <2>8 DEF DisablePoint
  <2>9. CASE FailbackStopped(o) \/ FailbackRestart(o) \/ UpMain(o) \/ UpStandby(o) \/ Die(o)
    BY <2>9 DEF FailbackStopped, FailbackRestart, UpMain, UpStandby, Die
  <2>10. CASE Down(o)
    BY <1>1, <2>10 DEF Down
  <2> QED BY <1>3, <2>1, <2>2, <2>3, <2>4, <2>5, <2>6, <2>7, <2>8, <2>9, <2>10 DEF Command
<1>4. CASE UNCHANGED vars
  BY <1>1, <1>4 DEF vars
<1> QED BY <1>2, <1>3, <1>4 DEF Next
-----------------------------------------------------------------------------
(***************************************************************************)
(* The database that serves "main".  What runs has a database, and each     *)
(* move knows the one it is about to route to.                              *)
(***************************************************************************)
RunningHasData == \A n \in Nodes : cont[n] = "running" => has[n]

\* Every start of a container on storage without a database either makes one
\* (main) or fails (standby); storage is wiped with its container gone.
LEMMA RunningHasDataInductive ==
  TypeOK /\ RunningHasData /\ [Next]_vars => RunningHasData'
<1> SUFFICES ASSUME TypeOK, RunningHasData, [Next]_vars PROVE RunningHasData'
  OBVIOUS
<1> USE DEF RunningHasData, TypeOK, Nodes, dbVars
<1>1. CASE Connect \/ (\E n \in Nodes : Write(n) \/ Replicate(n) \/ NodeCrash(n)) \/ Wake \/ Delete
  BY <1>1 DEF Connect, Write, Replicate, NodeCrash, Wake, Delete, StopContainer, StartStandby, Wipe
<1>2. ASSUME NEW o \in Operators, Command(o) PROVE RunningHasData'
  <2>1. CASE Enable(o) \/ Failover(o) \/ Disable(o) \/ Failback(o) \/ Up(o)
    BY <2>1 DEF Enable, Failover, Disable, Failback, Up, Begin
  <2>2. CASE EnableReset(o) \/ DisableRemove(o) \/ FailbackDrop(o) \/ FailbackWipe(o)
    BY <2>2 DEF EnableReset, DisableRemove, FailbackDrop, FailbackWipe, StopContainer, Wipe
  <2>3. CASE EnableCopy(o) \/ FailbackCopy(o)
    BY <2>3 DEF EnableCopy, FailbackCopy, Basebackup
  <2>4. CASE EnableStart(o) \/ UpStandby(o) \/ FailbackStart(o) \/ UpMain(o)
    BY <2>4 DEF EnableStart, UpStandby, FailbackStart, UpMain, StartMain, StartStandby
  <2>5. CASE FailoverPromote(o) \/ FailbackPromote(o) \/ FailoverPoint(o) \/ DisablePoint(o)
             \/ FailbackPoint(o) \/ FailbackCatchup(o) \/ FailbackReplay(o) \/ Die(o)
    BY <2>5 DEF FailoverPromote, FailbackPromote, FailoverPoint, DisablePoint, FailbackPoint,
                FailbackCatchup, FailbackReplay, Die
  <2>6. CASE FailoverStop(o) \/ FailbackStop(o) \/ FailbackStopped(o) \/ Down(o)
    BY <2>6 DEF FailoverStop, FailbackStop, FailbackStopped, Down, StopContainer
  <2>7. CASE FailbackRestart(o)
    BY <2>7 DEF FailbackRestart
  <2> QED BY <1>2, <2>1, <2>2, <2>3, <2>4, <2>5, <2>6, <2>7 DEF Command
<1>3. CASE UNCHANGED vars
  BY <1>3 DEF vars
<1> QED BY <1>1, <1>2, <1>3 DEF Next

StandbyMade == {"failover:stop", "failover:point"}

MainMade == {"failback:start", "failback:catchup", "failback:stop",
             "failback:replay", "failback:promote", "failback:point"}

Made == \A o \in Operators :
  /\ pc[o] \in StandbyMade => has["standby"]
  /\ pc[o] \in MainMade => has["main"]

StorageInv == /\ RouteInv
              /\ RunningHasData
              /\ ~ overlap /\ ~ StandbyDeleted => has[pointer] /\ Made

\* One step per command step: who wipes a database knows that it does not serve.
LEMMA StorageInductive == StorageInv /\ [Next]_vars => StorageInv'
<1> SUFFICES ASSUME StorageInv, [Next]_vars PROVE StorageInv'
  OBVIOUS
<1>0. RouteInv /\ RouteInv' /\ RunningHasData /\ RunningHasData'
  BY RouteInductive, RunningHasDataInductive DEF StorageInv, RouteInv
<1> SUFFICES ASSUME ~ overlap', ~ StandbyDeleted' PROVE (has[pointer] /\ Made)'
  BY <1>0 DEF StorageInv
<1>h. ~ overlap /\ ~ StandbyDeleted /\ ~ (Driver = "btrfs" /\ Fault("delete"))
  BY <1>0, OverlapRecorded, DeletionRecorded DEF RouteInv
<1>i. TypeOK /\ RunningHasData /\ has[pointer] /\ Made /\ MovesAlone /\ Routed
  BY <1>0, <1>h DEF StorageInv, RouteInv
<1> USE <1>h, <1>i DEF TypeOK, Nodes, dbVars, Made, MovesAlone, Routed, Moving, MainServes,
                       StandbyServes, StandbyMade, MainMade, Goto, Running
<1>1. CASE Connect \/ (\E n \in Nodes : Write(n) \/ Replicate(n) \/ NodeCrash(n)) \/ Wake
  BY <1>1 DEF Connect, Write, Replicate, NodeCrash, Wake
<1>2. CASE Delete
  BY <1>2, DriverAssumption DEF Delete
<1>3. ASSUME NEW o \in Operators, Command(o) PROVE (has[pointer] /\ Made)'
  <2>1. CASE Enable(o) \/ Failover(o) \/ Disable(o) \/ Failback(o) \/ Up(o)
    BY <2>1 DEF Enable, Failover, Disable, Failback, Up, Begin
  <2>2. CASE EnableReset(o) \/ DisableRemove(o) \/ FailbackDrop(o)
    BY <2>2 DEF EnableReset, DisableRemove, FailbackDrop, Wipe
  <2>3. CASE FailbackWipe(o)
    BY <2>3 DEF FailbackWipe, Wipe
  <2>4. CASE EnableCopy(o) \/ FailbackCopy(o)
    BY <2>4 DEF EnableCopy, FailbackCopy, Basebackup
  <2>5. CASE EnableStart(o) \/ UpStandby(o)
    BY <2>5 DEF EnableStart, UpStandby
  <2>6. CASE FailbackStart(o) \/ UpMain(o)
    BY <2>6 DEF FailbackStart, UpMain, StartMain
  <2>7. CASE FailoverPromote(o) \/ FailbackPromote(o)
    BY <2>7 DEF FailoverPromote, FailbackPromote, RunningHasData
  <2>8. CASE FailoverStop(o) \/ FailbackStop(o)
    BY <2>8 DEF FailoverStop, FailbackStop
  <2>9. CASE FailoverPoint(o) \/ DisablePoint(o) \/ FailbackPoint(o)
    BY <2>9 DEF FailoverPoint, DisablePoint, FailbackPoint
  <2>10. CASE FailbackCatchup(o) \/ FailbackReplay(o)
    BY <2>10 DEF FailbackCatchup, FailbackReplay
  <2>11. CASE FailbackStopped(o) \/ FailbackRestart(o) \/ Down(o) \/ Die(o)
    BY <2>11 DEF FailbackStopped, FailbackRestart, Down, Die
  <2> QED BY <1>3, <2>1, <2>2, <2>3, <2>4, <2>5, <2>6, <2>7, <2>8, <2>9, <2>10, <2>11 DEF Command
<1>4. CASE UNCHANGED vars
  BY <1>4 DEF vars
<1> QED BY <1>1, <1>2, <1>3, <1>4 DEF Next

\* main serves its own database before the first HA command.
LEMMA StorageInit == Init => StorageInv
<1> SUFFICES ASSUME Init PROVE StorageInv
  OBVIOUS
<1>1. MovesAlone /\ Routed /\ Made
  BY DEF Init, MovesAlone, Routed, Made, Moving, MainServes, StandbyServes, StandbyMade, MainMade
<1>2. RunningHasData /\ has[pointer]
  BY DEF Init, RunningHasData, Nodes
<1> QED BY <1>1, <1>2, TypeInit DEF StorageInv, RouteInv

\* haGuard works: HA commands of any number of operators that die anywhere,
\* with containers that exit and stops that fail, never leave "main" routed to
\* storage without a database, unless one ran beside a failover or a failback,
\* or the standby's subvolume was deleted as a branch.
THEOREM GuardKeepsServingStorage == Spec => []ServingStorageKept
<1>1. StorageInv => ServingStorageKept
  BY DEF StorageInv, ServingStorageKept
<1> QED BY <1>1, StorageInit, StorageInductive, PTL DEF Spec
-----------------------------------------------------------------------------
(***************************************************************************)
(* Failover and failback keep every acknowledged write.  Clients are only  *)
(* ever connected to the running container the pointer names, so whoever   *)
(* has stopped that container knows that nothing more is being written.    *)
(***************************************************************************)
NothingAmiss ==
  /\ ~ Happened("nostop") /\ ~ Happened("unclean") /\ ~ Happened("wake")
  /\ ~ overlap /\ ~ StandbyDeleted

ClientsFollowPointer == \A n \in sess : n = pointer /\ cont[n] = "running"

Drained == \A o \in Operators :
  /\ pc[o] = "failover:point" => cont["main"] # "running"
  /\ pc[o] \in {"failback:replay", "failback:promote", "failback:point"} =>
        cont["standby"] # "running"
  /\ pc[o] = "failback:replay" => final[o] = data["standby"]
  /\ pc[o] \in {"failback:promote", "failback:point"} => acked \ lost \subseteq data["main"]

WritesKept == acked \ lost \subseteq data[pointer]

KeepInv == /\ RouteInv
           /\ RunningHasData
           /\ NothingAmiss => WritesKept /\ ClientsFollowPointer /\ Drained

\* Every step of a command, a client, docker or a fault keeps what was acknowledged.
LEMMA KeepInductive == KeepInv /\ [Next]_vars => KeepInv'
<1> SUFFICES ASSUME KeepInv, [Next]_vars PROVE KeepInv'
  OBVIOUS
<1>0. RouteInv /\ RouteInv' /\ RunningHasData /\ RunningHasData'
  BY RouteInductive, RunningHasDataInductive DEF KeepInv, RouteInv
<1> SUFFICES ASSUME NothingAmiss'
             PROVE  WritesKept' /\ ClientsFollowPointer' /\ Drained'
  BY <1>0 DEF KeepInv
<1>h. /\ NothingAmiss /\ ~ Fault("nostop") /\ ~ Fault("unclean") /\ ~ Fault("wake")
      /\ ~ (Driver = "btrfs" /\ Fault("delete"))
  BY <1>0, FaultsRecorded, OverlapRecorded, DeletionRecorded DEF NothingAmiss, RouteInv
<1>i. WritesKept /\ ClientsFollowPointer /\ Drained
  BY <1>h DEF KeepInv
<1>k. TypeOK /\ Routed /\ MovesAlone
  BY <1>0, <1>h DEF RouteInv, NothingAmiss
<1> USE <1>h, <1>i, <1>k DEF WritesKept, ClientsFollowPointer, Drained, TypeOK, Routed,
                 MainServes, StandbyServes, Moving, Nodes, dbVars, histVars, Goto, Running
<1>1. CASE Connect
  BY <1>1 DEF Connect
<1>2. ASSUME NEW n \in Nodes, Write(n)
      PROVE  WritesKept' /\ ClientsFollowPointer' /\ Drained'
  <2>1. n = pointer /\ cont[n] = "running"
    BY <1>2 DEF Write
  <2>2. WritesKept'
    BY <1>2, <2>1 DEF Write
  <2>3. ClientsFollowPointer'
    BY <1>2 DEF Write
  <2>4. Drained'
    BY <1>2, <2>1 DEF Write
  <2> QED BY <2>2, <2>3, <2>4
<1>3. ASSUME NEW n \in Nodes, Replicate(n)
      PROVE  WritesKept' /\ ClientsFollowPointer' /\ Drained'
  <2>1. /\ \A m \in Nodes : data[m] \subseteq data'[m]
        /\ cont["standby"] = "running"
        /\ UNCHANGED <<pointer, cont, sess, pc, final, acked, lost>>
    BY <1>3 DEF Replicate, Other
  <2> QED BY <2>1
<1>4. ASSUME NEW n \in Nodes, NodeCrash(n)
      PROVE  WritesKept' /\ ClientsFollowPointer' /\ Drained'
  BY <1>4 DEF NodeCrash, StopContainer
<1>5. ASSUME NEW o \in Operators, Command(o)
      PROVE  WritesKept' /\ ClientsFollowPointer' /\ Drained'
  <2>0. pc[o] # "idle" => \A p \in Operators \ {o} : pc[p] \notin Moving
    BY DEF MovesAlone
  <2>a. ASSUME pc[o] # "idle", NEW s, Goto(o, s),
               s \notin {"failover:point", "failback:replay", "failback:promote", "failback:point"}
        PROVE  Drained'
    BY <2>0, <2>a
  <2>1. CASE Enable(o) \/ Failover(o) \/ Disable(o) \/ Failback(o) \/ Up(o)
    <3>1. PICK s \in {"enable:reset", "failover:promote", "disable:remove", "failback:wipe",
                     "up:main", "up:standby"} : Begin(o, s)
      BY <2>1 DEF Enable, Failover, Disable, Failback, Up
    <3>2. WritesKept' /\ ClientsFollowPointer'
      BY <3>1 DEF Begin
    <3>3. Drained'
      BY <3>1 DEF Begin
    <3> QED BY <3>2, <3>3
  <2>2. CASE EnableReset(o) \/ DisableRemove(o) \/ FailbackDrop(o)
    <3>1. pointer = "main" /\ pc'[o] \in {"enable:copy", "disable:point", "idle"}
      BY <2>2 DEF EnableReset, DisableRemove, FailbackDrop
    <3>2. /\ data'["main"] = data["main"] /\ cont'["main"] = cont["main"]
          /\ sess' \subseteq sess \ {"standby"}
          /\ UNCHANGED <<pointer, acked, lost>>
      BY <2>2 DEF EnableReset, DisableRemove, FailbackDrop, StopContainer, Wipe
    <3>3. WritesKept' /\ ClientsFollowPointer'
      BY <3>1, <3>2
    <3>4. Drained'
      BY <2>2, <2>a DEF EnableReset, DisableRemove, FailbackDrop
    <3> QED BY <3>3, <3>4
  <2>3. CASE FailbackWipe(o)
    BY <2>0, <2>3 DEF FailbackWipe, StopContainer, Wipe
  <2>4. CASE EnableCopy(o) \/ FailbackCopy(o)
    <3>1. /\ pc'[o] \in {"enable:start", "failback:start"}
          /\ UNCHANGED <<pointer, cont, sess, acked, lost>>
      BY <2>4 DEF EnableCopy, FailbackCopy
    <3>2. data'[pointer] = data[pointer]
      BY <2>4 DEF EnableCopy, FailbackCopy, Basebackup
    <3>3. WritesKept' /\ ClientsFollowPointer'
      BY <3>1, <3>2
    <3>4. Drained'
      BY <2>4, <2>a DEF EnableCopy, FailbackCopy
    <3> QED BY <3>3, <3>4
  <2>5. CASE EnableStart(o) \/ FailbackStart(o)
    <3>1. /\ pc'[o] \in {"idle", "failback:catchup"}
          /\ sess' \subseteq sess
          /\ UNCHANGED <<pointer, data, acked, lost>>
      BY <2>5 DEF EnableStart, FailbackStart
    <3>2. \A n \in Nodes : cont[n] = "running" => cont'[n] = "running"
      BY <2>5 DEF EnableStart, FailbackStart, StartMain, StartStandby
    <3>3. WritesKept' /\ ClientsFollowPointer'
      BY <3>1, <3>2
    <3>4. Drained'
      BY <2>5, <2>a DEF EnableStart, FailbackStart
    <3> QED BY <3>3, <3>4
  <2>6. CASE UpMain(o) \/ UpStandby(o)
    <3>1. UNCHANGED <<pointer, data, sess, acked, lost>>
      BY <2>6 DEF UpMain, UpStandby
    <3>2. \A n \in Nodes : cont[n] = "running" => cont'[n] = "running"
      BY <1>0, <2>6 DEF UpMain, UpStandby, StartMain, StartStandby, RunningHasData
    <3>3. WritesKept' /\ ClientsFollowPointer'
      BY <3>1, <3>2
    <3>4. Drained'
      BY <2>6, <2>a DEF UpMain, UpStandby
    <3> QED BY <3>3, <3>4
  <2>7. CASE FailoverPromote(o) \/ FailbackPromote(o)
    BY <2>0, <2>7 DEF FailoverPromote, FailbackPromote
  <2>8. CASE FailoverStop(o)
    <3>1. /\ StopContainer("main", "exited")
          /\ pc[o] # "idle" /\ pc' = [pc EXCEPT ![o] = "failover:point"]
          /\ UNCHANGED <<pointer, data, acked, lost>>
      BY <2>8 DEF FailoverStop
    <3>2. cont'["main"] # "running" /\ cont'["standby"] = cont["standby"]
      BY <3>1 DEF StopContainer
    <3>3. WritesKept' /\ ClientsFollowPointer'
      BY <3>1, <3>2 DEF StopContainer
    <3>4. Drained'
      BY <2>0, <3>1, <3>2
    <3> QED BY <3>3, <3>4
  <2>9. CASE FailoverPoint(o)
    BY <2>0, <2>9 DEF FailoverPoint
  <2>10. CASE DisablePoint(o)
    BY <2>0, <2>10 DEF DisablePoint
  <2>11. CASE FailbackPoint(o)
    BY <2>0, <2>11 DEF FailbackPoint
  <2>12. CASE FailbackCatchup(o) \/ FailbackReplay(o)
    BY <2>0, <2>12 DEF FailbackCatchup, FailbackReplay
  <2>13. CASE FailbackStop(o)
    BY <2>0, <2>13 DEF FailbackStop, StopContainer
  <2>14. CASE FailbackStopped(o) \/ Down(o) \/ Die(o)
    BY <2>0, <2>14 DEF FailbackStopped, Down, Die, StopContainer
  <2>15. CASE FailbackRestart(o)
    BY <2>0, <2>15 DEF FailbackRestart
  <2> QED BY <1>5, <2>1, <2>2, <2>3, <2>4, <2>5, <2>6, <2>7, <2>8, <2>9, <2>10,
             <2>11, <2>12, <2>13, <2>14, <2>15 DEF Command
<1>6. CASE Wake \/ Delete
  <2>1. Delete
    BY <1>6 DEF Wake
  <2>2. /\ \A n \in Nodes : cont'[n] = "running" => cont[n] = "running" /\ n # "standby"
        /\ cont'["main"] = cont["main"]
        /\ sess' = sess \ {"standby"}
        /\ UNCHANGED <<pointer, data, pc, final, acked, lost>>
    BY <2>1 DEF Delete, StopContainer
  <2>3. WritesKept' /\ Drained'
    BY <2>2
  <2>4. ClientsFollowPointer'
    BY <2>2
  <2> QED BY <2>3, <2>4
<1>7. CASE UNCHANGED vars
  BY <1>7 DEF vars
<1> QED BY <1>1, <1>2, <1>3, <1>4, <1>5, <1>6, <1>7 DEF Next

\* Nothing was acknowledged before the first write.
LEMMA KeepInit == Init => KeepInv
<1> SUFFICES ASSUME Init PROVE KeepInv
  OBVIOUS
<1>1. RouteInv /\ RunningHasData
  BY StorageInit DEF StorageInv
<1>2. WritesKept /\ ClientsFollowPointer /\ Drained
  BY DEF Init, WritesKept, ClientsFollowPointer, Drained
<1> QED BY <1>1, <1>2 DEF KeepInv

\* HAFailback's promise: with no command run beside a failover or a failback,
\* clean shutdowns and nobody waking the stopped standby, no acknowledged write
\* is lost but those a failover knowingly gives up, wherever a command dies or
\* a container exits.
THEOREM FailbackKeepsEveryWrite == Spec => []AckedWritesKept
<1>1. KeepInv => AckedWritesKept
  BY DEF KeepInv, NothingAmiss, AckedWritesKept, WritesKept
<1> QED BY <1>1, KeepInit, KeepInductive, PTL DEF Spec
-----------------------------------------------------------------------------
(***************************************************************************)
(* Split brain.  Whoever is connected to the old primary was connected     *)
(* while it served, and failover cuts them off before it moves the pointer; *)
(* nothing starts that container in between.                               *)
(***************************************************************************)
OldPrimaryLeft ==
  /\ "main" \in sess => pointer = "main"
  /\ \A o \in Operators : pc[o] = "failover:point" =>
        "main" \notin sess /\ cont["main"] # "running"

SplitInv == RouteInv /\ (~ Happened("nostop") /\ ~ overlap => OldPrimaryLeft)

\* Every step keeps clients off the old primary, unless a docker stop failed unnoticed.
LEMMA SplitInductive == SplitInv /\ [Next]_vars => SplitInv'
<1> SUFFICES ASSUME SplitInv, [Next]_vars PROVE SplitInv'
  OBVIOUS
<1>0. RouteInv /\ RouteInv'
  BY RouteInductive DEF SplitInv
<1> SUFFICES ASSUME ~ Happened("nostop")', ~ overlap' PROVE OldPrimaryLeft'
  BY <1>0 DEF SplitInv
<1>h. ~ Happened("nostop") /\ ~ Fault("nostop") /\ ~ overlap
  BY <1>0, FaultsRecorded, OverlapRecorded DEF RouteInv
<1>i. OldPrimaryLeft
  BY <1>h DEF SplitInv
<1>k. TypeOK /\ Routed /\ MovesAlone
  BY <1>0, <1>h DEF RouteInv
<1> USE <1>h, <1>i, <1>k DEF OldPrimaryLeft, TypeOK, Routed, MainServes, StandbyServes, Moving, Nodes,
                             dbVars, histVars, Goto, Running
<1>1. CASE Connect \/ \E n \in Nodes : Write(n) \/ Replicate(n)
  BY <1>1 DEF Connect, Write, Replicate
<1>2. ASSUME NEW n \in Nodes, NodeCrash(n) PROVE OldPrimaryLeft'
  BY <1>2 DEF NodeCrash, StopContainer
<1>3. ASSUME NEW o \in Operators, Command(o) PROVE OldPrimaryLeft'
  <2>0. pc[o] # "idle" => \A p \in Operators \ {o} : pc[p] \notin Moving
    BY DEF MovesAlone
  <2>1. CASE Enable(o) \/ Failover(o) \/ Disable(o) \/ Failback(o) \/ Up(o)
    BY <2>0, <2>1 DEF Enable, Failover, Disable, Failback, Up, Begin
  <2>2. CASE EnableReset(o) \/ DisableRemove(o) \/ FailbackDrop(o) \/ FailbackWipe(o)
    BY <2>0, <2>2 DEF EnableReset, DisableRemove, FailbackDrop, FailbackWipe, StopContainer
  <2>3. CASE EnableCopy(o) \/ FailbackCopy(o) \/ FailoverPromote(o) \/ FailbackPromote(o)
    BY <2>0, <2>3 DEF EnableCopy, FailbackCopy, FailoverPromote, FailbackPromote
  <2>4. CASE EnableStart(o) \/ FailbackStart(o) \/ UpMain(o) \/ UpStandby(o)
    BY <2>0, <2>4 DEF EnableStart, FailbackStart, UpMain, UpStandby
  <2>5. CASE FailoverStop(o)
    BY <2>0, <2>5 DEF FailoverStop, StopContainer
  <2>6. CASE FailoverPoint(o) \/ DisablePoint(o) \/ FailbackPoint(o)
    BY <2>0, <2>6 DEF FailoverPoint, DisablePoint, FailbackPoint
  <2>7. CASE FailbackCatchup(o) \/ FailbackReplay(o)
    BY <2>0, <2>7 DEF FailbackCatchup, FailbackReplay
  <2>8. CASE FailbackStop(o)
    BY <2>0, <2>8 DEF FailbackStop, StopContainer
  <2>9. CASE FailbackStopped(o) \/ FailbackRestart(o) \/ Down(o) \/ Die(o)
    BY <2>0, <2>9 DEF FailbackStopped, FailbackRestart, Down, Die, StopContainer
  <2> QED BY <1>3, <2>1, <2>2, <2>3, <2>4, <2>5, <2>6, <2>7, <2>8, <2>9 DEF Command
<1>4. CASE Wake \/ Delete
  BY <1>4 DEF Wake, Delete, StopContainer, StartStandby
<1>5. CASE UNCHANGED vars
  BY <1>5 DEF vars
<1> QED BY <1>1, <1>2, <1>3, <1>4, <1>5 DEF Next

\* With no command run beside it, a client can commit on the old primary
\* after a failover only if the `docker stop` whose result HAFailover drops
\* has failed, whatever else exits, is killed, woken or deleted.
THEOREM FailoverAvoidsSplitBrain == Spec => []SplitBrainNeedsFailedStop
<1>1. SplitInv => SplitBrainNeedsFailedStop
  BY DEF SplitInv, OldPrimaryLeft, SplitBrainNeedsFailedStop, NoSplitBrain
<1>2. Init => SplitInv
  BY StorageInit DEF Init, SplitInv, StorageInv, OldPrimaryLeft
<1> QED BY <1>1, <1>2, SplitInductive, PTL DEF Spec
-----------------------------------------------------------------------------
(***************************************************************************)
(* What a failover gave up.  Until then nothing was given up that either    *)
(* database holds; afterwards only the old primary's may hold it, and a      *)
(* failback replaces that before "main" is routed to it.                    *)
(***************************************************************************)
GivenUpGone == /\ lost \cap data[pointer] = {}
               /\ pointer = "main" => lost \cap data["standby"] = {}
               /\ \A o \in Operators : pc[o] \in MainMade => lost \cap data["main"] = {}

StandbyPromoted == /\ pointer = "standby" => role["standby"] = "primary"
                   /\ \A o \in Operators : pc[o] \in StandbyMade => role["standby"] = "primary"

GivenUpInv == RouteInv /\ (~ overlap => GivenUpGone /\ StandbyPromoted)

\* One step per command step: nothing puts a transaction that was given up back
\* into the database that serves, or into the one about to.
LEMMA GivenUpInductive == GivenUpInv /\ [Next]_vars => GivenUpInv'
<1> SUFFICES ASSUME GivenUpInv, [Next]_vars PROVE GivenUpInv'
  OBVIOUS
<1>0. RouteInv /\ RouteInv'
  BY RouteInductive DEF GivenUpInv
<1> SUFFICES ASSUME ~ overlap' PROVE GivenUpGone' /\ StandbyPromoted'
  BY <1>0 DEF GivenUpInv
<1>h. ~ overlap
  BY OverlapRecorded
<1>i. TypeOK /\ Routed /\ MovesAlone /\ GivenUpGone /\ StandbyPromoted
  BY <1>0, <1>h DEF RouteInv, GivenUpInv
<1> USE <1>i DEF GivenUpGone, StandbyPromoted, TypeOK, Routed, MainServes, StandbyServes,
                 Nodes, dbVars, histVars, Goto, Moving, MainMade, StandbyMade
<1>1. CASE Connect \/ (\E n \in Nodes : NodeCrash(n)) \/ Wake
  BY <1>1 DEF Connect, NodeCrash, Wake
<1>2. ASSUME NEW n \in Nodes, Write(n) PROVE GivenUpGone' /\ StandbyPromoted'
  <2>1. writes + 1 \notin lost
    OBVIOUS
  <2> QED BY <1>2, <2>1 DEF Write
<1>3. ASSUME NEW n \in Nodes, Replicate(n) PROVE GivenUpGone' /\ StandbyPromoted'
  <2>1. CASE n = "main"
    BY <1>3, <2>1 DEF Replicate, Other
  <2>2. CASE n = "standby"
    BY <1>3, <2>2 DEF Replicate, Other
  <2> QED BY <2>1, <2>2
<1>4. CASE Delete
  BY <1>4 DEF Delete, Wipe
<1>5. ASSUME NEW o \in Operators, Command(o) PROVE GivenUpGone' /\ StandbyPromoted'
  <2>0. pc[o] # "idle" => \A p \in Operators \ {o} : pc[p] \notin Moving
    BY DEF MovesAlone
  <2>1. CASE Enable(o) \/ Failover(o) \/ Disable(o) \/ Failback(o) \/ Up(o)
    BY <2>1 DEF Enable, Failover, Disable, Failback, Up, Begin
  <2>2. CASE EnableReset(o) \/ DisableRemove(o) \/ FailbackDrop(o) \/ FailbackWipe(o)
    BY <2>0, <2>2 DEF EnableReset, DisableRemove, FailbackDrop, FailbackWipe, Wipe
  <2>3. CASE EnableCopy(o)
    BY <2>0, <2>3 DEF EnableCopy, Basebackup
  <2>4. CASE FailbackCopy(o)
    BY <2>0, <2>4 DEF FailbackCopy, Basebackup
  <2>5. CASE EnableStart(o) \/ UpStandby(o)
    BY <2>0, <2>5 DEF EnableStart, UpStandby
  <2>6. CASE FailbackStart(o) \/ UpMain(o)
    BY <2>0, <2>6 DEF FailbackStart, UpMain, StartMain
  <2>7. CASE FailoverPromote(o) \/ FailbackPromote(o)
    BY <2>0, <2>7 DEF FailoverPromote, FailbackPromote, Promote
  <2>8. CASE FailoverStop(o)
    BY <2>0, <2>8 DEF FailoverStop
  <2>9. CASE FailbackStop(o)
    BY <2>0, <2>9 DEF FailbackStop
  <2>10. CASE FailoverPoint(o)
    BY <2>0, <2>10 DEF FailoverPoint
  <2>11. CASE DisablePoint(o) \/ FailbackPoint(o)
    BY <2>0, <2>11 DEF DisablePoint, FailbackPoint
  <2>12. CASE FailbackCatchup(o) \/ FailbackReplay(o)
    BY <2>0, <2>12 DEF FailbackCatchup, FailbackReplay
  <2>13. CASE FailbackStopped(o) \/ FailbackRestart(o) \/ Down(o) \/ Die(o)
    BY <2>13 DEF FailbackStopped, FailbackRestart, Down, Die
  <2> QED BY <1>5, <2>1, <2>2, <2>3, <2>4, <2>5, <2>6, <2>7, <2>8, <2>9, <2>10,
             <2>11, <2>12, <2>13 DEF Command
<1>6. CASE UNCHANGED vars
  BY <1>6 DEF vars
<1> QED BY <1>1, <1>2, <1>3, <1>4, <1>5, <1>6 DEF Next

\* With no command run beside a failover or a failback, a write that a failover
\* gave up never shows up in "main" again, whatever dies, exits, is killed,
\* woken or deleted.
THEOREM FailbackRevivesNothing == Spec => []GivenUpStaysGivenUp
<1>1. GivenUpInv => GivenUpStaysGivenUp
  BY DEF GivenUpInv, GivenUpGone, GivenUpStaysGivenUp
<1>2. Init => GivenUpInv
  <2> SUFFICES ASSUME Init PROVE GivenUpInv
    OBVIOUS
  <2>1. GivenUpGone /\ StandbyPromoted
    BY DEF Init, GivenUpGone, StandbyPromoted, MainMade, StandbyMade
  <2> QED BY <2>1, StorageInit DEF GivenUpInv, StorageInv
<1> QED BY <1>1, <1>2, GivenUpInductive, PTL DEF Spec
=============================================================================
