--------------------------------- MODULE HA ---------------------------------
(***************************************************************************)
(* High availability of "main" (ha.go, and Init, Down, Delete, Wake and    *)
(* the primary pointer in branch.go).  Two Postgres containers can serve   *)
(* "main"; a file, the primary pointer, says which one does; the `odb`     *)
(* commands are sequences of docker and psql calls made by processes that  *)
(* take no lock and can die between any two of them.  Clients keep writing *)
(* to the container they connected to.                                     *)
(***************************************************************************)
EXTENDS Naturals, Sequences

CONSTANTS Operators,  \* processes running odb commands
          Faults,     \* what may go wrong, see below
          MaxFaults,  \* bound: how often in all
          MaxWrites,  \* bound: client transactions
          Driver      \* storage driver, "zfs" or "btrfs"

\* "crash"  a Postgres container exits
\* "nostop" `docker stop` of the old primary fails, which failover ignores
\* "unclean" the standby a failback stops was killed when `docker stop` ran out
\*          of time, or had exited by itself just before
\* "wake"   somebody wakes the branch called standby
\* "delete" somebody deletes the branch called standby
ASSUME FaultsAssumption ==
  Faults \subseteq {"crash", "nostop", "unclean", "wake", "delete"}
ASSUME BoundsAssumption == MaxFaults \in Nat /\ MaxWrites \in Nat
ASSUME DriverAssumption == Driver \in {"zfs", "btrfs"}

Nodes == {"main", "standby"}

VARIABLES pointer,  \* ~/.oxyndb/primary
          cont,     \* state of each container
          has,      \* is there a database in the node's storage?
          role,     \* is that database a primary or a replica?
          data,     \* the client transactions in it
          sess,     \* containers with clients of "main" connected
          pc,       \* step of each operator's command
          final,    \* failback: the standby's final WAL position, as what it covers
          writes,   \* client transactions so far
          acked,    \* history: the ones clients were told are committed
          lost,     \* history: the ones a failover gave up (not streamed yet)
          overlap,  \* history: has a failover or failback run beside another command?
          faults    \* faults so far, in order

dbVars == <<cont, has, role, data, sess>>
histVars == <<writes, acked, lost, overlap>>
vars == <<pointer, dbVars, pc, final, histVars, faults>>

Steps == {"idle",
          "enable:reset", "enable:copy", "enable:start",
          "failover:promote", "failover:stop", "failover:point",
          "disable:remove", "disable:point",
          "failback:wipe", "failback:copy", "failback:start", "failback:catchup",
          "failback:stop", "failback:replay", "failback:promote",
          "failback:point", "failback:drop",
          "up:main", "up:standby"}

TypeOK ==
  /\ pointer \in Nodes
  /\ cont \in [Nodes -> {"absent", "running", "exited"}]
  /\ has \in [Nodes -> BOOLEAN]
  /\ role \in [Nodes -> {"primary", "replica"}]
  /\ data \in [Nodes -> SUBSET (1..MaxWrites)]
  /\ sess \subseteq Nodes
  /\ pc \in [Operators -> Steps]
  /\ final \in [Operators -> SUBSET (1..MaxWrites)]
  /\ writes \in 0..MaxWrites
  /\ acked \subseteq 1..writes
  /\ lost \subseteq acked
  /\ overlap \in BOOLEAN
  /\ faults \in Seq(Faults)
  /\ Len(faults) <= MaxFaults

\* After the first `odb up`: main runs, and there is no standby.
Init ==
  /\ pointer = "main"
  /\ cont = [n \in Nodes |-> IF n = "main" THEN "running" ELSE "absent"]
  /\ has = [n \in Nodes |-> n = "main"]
  /\ role = [n \in Nodes |-> "primary"]
  /\ data = [n \in Nodes |-> {}]
  /\ sess = {}
  /\ pc = [o \in Operators |-> "idle"]
  /\ final = [o \in Operators |-> {}]
  /\ writes = 0
  /\ acked = {}
  /\ lost = {}
  /\ overlap = FALSE
  /\ faults = <<>>

Running(n) == cont[n] = "running"

Fault(f) == /\ f \in Faults
            /\ Len(faults) < MaxFaults
            /\ faults' = Append(faults, f)

Happened(f) == \E i \in 1..Len(faults) : faults[i] = f

Goto(o, step) == pc' = [pc EXCEPT ![o] = step]

\* The steps of the two commands that move "main" from one container to the
\* other, up to the move itself.
Moving == {"failover:promote", "failover:stop", "failover:point",
           "failback:wipe", "failback:copy", "failback:start", "failback:catchup",
           "failback:stop", "failback:replay", "failback:promote", "failback:point"}

\* o starts a command: is it a move and another command under way, or is
\* another one's move under way?
Begin(o, step) ==
  /\ pc[o] = "idle"
  /\ Goto(o, step)
  /\ overlap' = (overlap \/ \E p \in Operators \ {o} :
                    IF step \in Moving THEN pc[p] # "idle" ELSE pc[p] \in Moving)
  /\ UNCHANGED <<pointer, dbVars, final, writes, acked, lost, faults>>
-----------------------------------------------------------------------------
(* Containers and storage *)

\* docker stop / docker rm -f: the container's clients are cut off.
StopContainer(n, st) == /\ cont' = [cont EXCEPT ![n] = IF @ = "absent" THEN @ ELSE st]
                        /\ sess' = sess \ {n}

\* startContainer("main"): docker run, after which Postgres initializes an empty
\* data directory as a new, empty primary.
StartMain == /\ cont' = [cont EXCEPT !["main"] = "running"]
             /\ has' = [has EXCEPT !["main"] = TRUE]
             /\ role' = [role EXCEPT !["main"] = IF has["main"] THEN @ ELSE "primary"]

\* docker run or docker start of the standby: it is given no password to
\* initialize a database with, so without one Postgres exits.
StartStandby == cont' = [cont EXCEPT !["standby"] = IF has["standby"] THEN "running" ELSE "exited"]

Wipe(n) == /\ has' = [has EXCEPT ![n] = FALSE]
           /\ data' = [data EXCEPT ![n] = {}]

\* pg_basebackup -R: a replica with everything the source has committed.  It
\* refuses a directory that is not empty.
Basebackup(from, to) == /\ ~ has[to]
                        /\ has' = [has EXCEPT ![to] = TRUE]
                        /\ data' = [data EXCEPT ![to] = data[from]]
                        /\ role' = [role EXCEPT ![to] = "replica"]

Promote(n) == role' = [role EXCEPT ![n] = "primary"]

Other(n) == IF n = "main" THEN "standby" ELSE "main"
-----------------------------------------------------------------------------
(* Clients, and Postgres streaming to its replica (external) *)

\* BackendAddr("main"): a new connection goes where the pointer says.
Connect ==
  /\ Running(pointer)
  /\ pointer \notin sess
  /\ sess' = sess \union {pointer}
  /\ UNCHANGED <<pointer, cont, has, role, data, pc, final, histVars, faults>>

\* A client commits on the container it is connected to and is told so.
Write(n) ==
  /\ n \in sess
  /\ role[n] = "primary"
  /\ writes < MaxWrites
  /\ writes' = writes + 1
  /\ data' = [data EXCEPT ![n] = @ \union {writes + 1}]
  /\ acked' = acked \union {writes + 1}
  /\ UNCHANGED <<pointer, cont, has, role, sess, pc, final, lost, overlap, faults>>

\* Asynchronous streaming: the replica gets the next transaction it lacks.
Replicate(n) ==
  LET missing == data[Other(n)] \ data[n] IN
  /\ Running(n) /\ Running(Other(n))
  /\ role[n] = "replica" /\ role[Other(n)] = "primary"
  /\ \E w \in missing : /\ \A x \in missing : w <= x
                         /\ data' = [data EXCEPT ![n] = @ \union {w}]
  /\ UNCHANGED <<pointer, cont, has, role, sess, pc, final, histVars, faults>>

NodeCrash(n) ==
  /\ Running(n)
  /\ Fault("crash")
  /\ StopContainer(n, "exited")
  /\ UNCHANGED <<pointer, has, role, data, pc, final, histVars>>
-----------------------------------------------------------------------------
(* odb ha enable *)

\* Mutant of haGuard: it lets everything through.
haGuardNone(action) == TRUE

\* haGuard, then allowReplication, which needs the primary to answer.
haGuard(action) == IF action = "failback" THEN pointer = "standby"
                   ELSE pointer # "standby"

Enable(o) ==
  /\ haGuard("enable")
  /\ Running("main")
  /\ Begin(o, "enable:reset")

EnableReset(o) ==
  /\ pc[o] = "enable:reset"
  /\ StopContainer("standby", "absent")
  /\ Wipe("standby")
  /\ Goto(o, "enable:copy")
  /\ UNCHANGED <<pointer, role, final, histVars, faults>>

EnableCopy(o) ==
  /\ pc[o] = "enable:copy"
  /\ Running("main")
  /\ Basebackup("main", "standby")
  /\ Goto(o, "enable:start")
  /\ UNCHANGED <<pointer, cont, sess, final, histVars, faults>>

\* docker run --name fails when there is a standby container.
EnableStart(o) ==
  /\ pc[o] = "enable:start"
  /\ cont["standby"] = "absent"
  /\ StartStandby
  /\ Goto(o, "idle")
  /\ UNCHANGED <<pointer, has, role, data, sess, final, histVars, faults>>
-----------------------------------------------------------------------------
(* odb ha failover *)

Failover(o) ==
  /\ haGuard("failover")
  /\ Running("standby")
  /\ Begin(o, "failover:promote")

\* pg_promote raises an error on a server that is not in recovery.
FailoverPromote(o) ==
  /\ pc[o] = "failover:promote"
  /\ Running("standby")
  /\ role["standby"] = "replica"
  /\ Promote("standby")
  /\ Goto(o, "failover:stop")
  /\ UNCHANGED <<pointer, cont, has, data, sess, final, histVars, faults>>

\* Mutant of FailoverStop: the old primary is left alone.
FailoverStopSkipped(o) ==
  /\ pc[o] = "failover:stop"
  /\ Goto(o, "failover:point")
  /\ UNCHANGED <<pointer, dbVars, final, histVars, faults>>

\* quiet("docker", "stop", old): its failure goes unnoticed.
FailoverStop(o) ==
  /\ pc[o] = "failover:stop"
  /\ \/ StopContainer("main", "exited") /\ UNCHANGED faults
     \/ Fault("nostop") /\ UNCHANGED <<cont, sess>>
  /\ Goto(o, "failover:point")
  /\ UNCHANGED <<pointer, has, role, data, final, histVars>>

FailoverPoint(o) ==
  /\ pc[o] = "failover:point"
  /\ pointer' = "standby"
  /\ lost' = lost \union (acked \ data["standby"])
  /\ Goto(o, "idle")
  /\ UNCHANGED <<dbVars, final, writes, acked, overlap, faults>>
-----------------------------------------------------------------------------
(* odb ha disable *)

Disable(o) ==
  /\ haGuard("disable")
  /\ Begin(o, "disable:remove")

DisableRemove(o) ==
  /\ pc[o] = "disable:remove"
  /\ StopContainer("standby", "absent")
  /\ Wipe("standby")
  /\ Goto(o, "disable:point")
  /\ UNCHANGED <<pointer, role, final, histVars, faults>>

DisablePoint(o) ==
  /\ pc[o] = "disable:point"
  /\ pointer' = "main"
  /\ Goto(o, "idle")
  /\ UNCHANGED <<dbVars, final, histVars, faults>>
-----------------------------------------------------------------------------
(* odb ha failback *)

Failback(o) ==
  /\ haGuard("failback")
  /\ Running("standby")
  /\ Begin(o, "failback:wipe")

FailbackWipe(o) ==
  /\ pc[o] = "failback:wipe"
  /\ StopContainer("main", "absent")
  /\ Wipe("main")
  /\ Goto(o, "failback:copy")
  /\ UNCHANGED <<pointer, role, final, histVars, faults>>

FailbackCopy(o) ==
  /\ pc[o] = "failback:copy"
  /\ Running("standby")
  /\ Basebackup("standby", "main")
  /\ Goto(o, "failback:start")
  /\ UNCHANGED <<pointer, cont, sess, final, histVars, faults>>

FailbackStart(o) ==
  /\ pc[o] = "failback:start"
  /\ StartMain
  /\ sess' = sess \ {"main"}
  /\ Goto(o, "failback:catchup")
  /\ UNCHANGED <<pointer, data, final, histVars, faults>>

\* pollUntil: main has replayed the standby's current position.
FailbackCatchup(o) ==
  /\ pc[o] = "failback:catchup"
  /\ Running("main") /\ Running("standby")
  /\ data["standby"] \subseteq data["main"]
  /\ Goto(o, "failback:stop")
  /\ UNCHANGED <<pointer, dbVars, final, histVars, faults>>

\* docker stop, which fails without a container.  A clean shutdown first sends
\* all WAL to the replica, if it is connected just then, and pg_controldata shows
\* the position after it; a server that was killed, or had exited, shows an
\* earlier checkpoint.
FailbackStop(o) ==
  /\ pc[o] = "failback:stop"
  /\ cont["standby"] # "absent"
  /\ StopContainer("standby", "exited")
  /\ \/ /\ Running("standby")
        /\ \/ Running("main") /\ data' = [data EXCEPT !["main"] = @ \union data["standby"]]
           \/ UNCHANGED data
        /\ final' = [final EXCEPT ![o] = data["standby"]]
        /\ UNCHANGED faults
     \/ /\ Fault("unclean")
        /\ \E k \in 0..MaxWrites :
              final' = [final EXCEPT ![o] = {w \in data["standby"] : w <= k}]
        /\ UNCHANGED data
  /\ Goto(o, "failback:replay")
  /\ UNCHANGED <<pointer, has, role, histVars>>

\* Mutant of FailbackReplay: the final position is not waited for.
FailbackReplayAtOnce(o) ==
  /\ pc[o] = "failback:replay"
  /\ Running("main")
  /\ Goto(o, "failback:promote")
  /\ UNCHANGED <<pointer, dbVars, final, histVars, faults>>

FailbackReplay(o) ==
  /\ pc[o] = "failback:replay"
  /\ Running("main")
  /\ final[o] \subseteq data["main"]
  /\ Goto(o, "failback:promote")
  /\ UNCHANGED <<pointer, dbVars, final, histVars, faults>>

FailbackPromote(o) ==
  /\ pc[o] = "failback:promote"
  /\ Running("main")
  /\ role["main"] = "replica"
  /\ Promote("main")
  /\ Goto(o, "failback:point")
  /\ UNCHANGED <<pointer, cont, has, data, sess, final, histVars, faults>>

FailbackPoint(o) ==
  /\ pc[o] = "failback:point"
  /\ pointer' = "main"
  /\ final' = [final EXCEPT ![o] = {}]
  /\ Goto(o, "failback:drop")
  /\ UNCHANGED <<dbVars, histVars, faults>>

FailbackDrop(o) ==
  /\ pc[o] = "failback:drop"
  /\ StopContainer("standby", "absent")
  /\ Wipe("standby")
  /\ Goto(o, "idle")
  /\ UNCHANGED <<pointer, role, final, histVars, faults>>

\* Mutant of FailbackStopped: the clean-up moves "main" back if it has its data.
FailbackStoppedMovesBack(o) ==
  /\ pc[o] \in {"failback:wipe", "failback:copy", "failback:start", "failback:catchup"}
  /\ StopContainer("main", "absent")
  /\ pointer' = IF has["main"] THEN "main" ELSE pointer
  /\ Goto(o, "idle")
  /\ UNCHANGED <<has, role, data, final, histVars, faults>>

\* stopped(): a step before the standby is stopped fails or times out.
FailbackStopped(o) ==
  /\ pc[o] \in {"failback:wipe", "failback:copy", "failback:start", "failback:catchup"}
  /\ StopContainer("main", "absent")
  /\ Goto(o, "idle")
  /\ UNCHANGED <<pointer, has, role, data, final, histVars, faults>>

\* restart(): a later step before the promotion succeeds fails or times out;
\* the standby is started again, unless docker fails at that too.
FailbackRestart(o) ==
  /\ pc[o] \in {"failback:stop", "failback:replay", "failback:promote"}
  /\ \E up \in BOOLEAN :
        cont' = [cont EXCEPT !["main"] = "absent",
                             !["standby"] = IF up /\ @ # "absent" /\ has["standby"]
                                            THEN "running" ELSE @]
  /\ sess' = sess \ {"main"}
  /\ final' = [final EXCEPT ![o] = {}]
  /\ Goto(o, "idle")
  /\ UNCHANGED <<pointer, has, role, data, histVars, faults>>
-----------------------------------------------------------------------------
(* odb up (Init), odb stop (Down) and commands on branches *)

Up(o) == Begin(o, IF pointer = "standby" THEN "up:standby" ELSE "up:main")

\* Nothing to do for a container that runs.
UpMain(o) ==
  /\ pc[o] = "up:main"
  /\ StartMain
  /\ Goto(o, "idle")
  /\ UNCHANGED <<pointer, data, sess, final, histVars, faults>>

\* ensurePromotedStandby: refuses when the standby's data is missing.
UpStandby(o) ==
  /\ pc[o] = "up:standby"
  /\ IF cont["standby"] = "absent" /\ ~ has["standby"]
     THEN UNCHANGED cont ELSE StartStandby
  /\ Goto(o, "idle")
  /\ UNCHANGED <<pointer, has, role, data, sess, final, histVars, faults>>

Down(o) ==
  /\ pc[o] = "idle"
  /\ cont' = [n \in Nodes |-> "absent"]
  /\ sess' = {}
  /\ UNCHANGED <<pointer, has, role, data, pc, final, histVars, faults>>

\* EnsureRunning("standby"): a stopped container is started again, a missing
\* one is made anew if the storage driver finds a branch of that name.  Storage
\* that an enable left without a copy of the database is taken for none: the
\* container made on it would only exit.
Wake ==
  /\ \/ cont["standby"] = "exited"
     \/ cont["standby"] = "absent" /\ Driver = "btrfs" /\ has["standby"]
  /\ Fault("wake")
  /\ StartStandby
  /\ UNCHANGED <<pointer, has, role, data, sess, pc, final, histVars>>

\* Delete("standby"): only the name main is refused.  With btrfs the standby's
\* storage is a subvolume among the branches', with zfs a dataset apart.
Delete ==
  /\ Fault("delete")
  /\ StopContainer("standby", "absent")
  /\ IF Driver = "btrfs" THEN Wipe("standby") ELSE UNCHANGED <<has, data>>
  /\ UNCHANGED <<pointer, role, pc, final, histVars>>

\* A command gives up without clean-up: its process dies, or a step fails.
Die(o) ==
  /\ pc[o] # "idle"
  /\ Goto(o, "idle")
  /\ final' = [final EXCEPT ![o] = {}]
  /\ UNCHANGED <<pointer, dbVars, histVars, faults>>

Command(o) ==
  \/ Enable(o) \/ EnableReset(o) \/ EnableCopy(o) \/ EnableStart(o)
  \/ Failover(o) \/ FailoverPromote(o) \/ FailoverStop(o) \/ FailoverPoint(o)
  \/ Disable(o) \/ DisableRemove(o) \/ DisablePoint(o)
  \/ Failback(o) \/ FailbackWipe(o) \/ FailbackCopy(o) \/ FailbackStart(o)
  \/ FailbackCatchup(o) \/ FailbackStop(o) \/ FailbackReplay(o)
  \/ FailbackPromote(o) \/ FailbackPoint(o) \/ FailbackDrop(o)
  \/ FailbackStopped(o) \/ FailbackRestart(o)
  \/ Up(o) \/ UpMain(o) \/ UpStandby(o) \/ Down(o) \/ Die(o)

Next ==
  \/ Connect
  \/ \E n \in Nodes : Write(n) \/ Replicate(n) \/ NodeCrash(n)
  \/ \E o \in Operators : Command(o)
  \/ Wake \/ Delete

Spec == Init /\ [][Next]_vars
-----------------------------------------------------------------------------
(* Properties *)

\* With btrfs the branch called standby can be deleted with the data in it.
StandbyDeleted == Driver = "btrfs" /\ Happened("delete")

\* The storage of the container that serves "main" always holds a database:
\* no HA command wipes what clients are being routed to (haGuard), wherever it
\* dies and whatever runs beside it, as long as no command runs beside a
\* failover or a failback.
ServingStorageKept == ~ overlap /\ ~ StandbyDeleted => has[pointer]

\* Every transaction a client was told is committed is in the database that
\* serves "main", except those a failover gave up because they had not yet
\* been streamed.  Failback therefore keeps every write, and a command that
\* dies part-way, or a container that exits, loses nothing: it takes a stop
\* that fails or is not clean, somebody waking the stopped standby, or a
\* command beside a failover or a failback.
AckedWritesKept ==
  /\ ~ Happened("nostop") /\ ~ Happened("unclean") /\ ~ Happened("wake")
  /\ ~ overlap /\ ~ StandbyDeleted
  => acked \ lost \subseteq data[pointer]

\* A transaction a failover gave up never comes back: the old primary's database,
\* which may still hold it, does not serve "main" again before it is replaced.
GivenUpStaysGivenUp == ~ overlap => lost \cap data[pointer] = {}

\* Once "main" is routed to the promoted standby no client can still commit
\* on the old primary.
NoSplitBrain == pointer = "standby" => ~ ("main" \in sess /\ role["main"] = "primary")

\* Only a `docker stop` of the old primary that fails unnoticed breaks that,
\* or a command run beside the failover.
SplitBrainNeedsFailedStop == ~ Happened("nostop") /\ ~ overlap => NoSplitBrain
=============================================================================
