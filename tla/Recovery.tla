------------------------------ MODULE Recovery ------------------------------
(***************************************************************************)
(* Recovery from base backups and archived WAL: a branch from just before  *)
(* a ledger entry (branch_before.go) and point-in-time restores            *)
(* (restore.go, Restore in branch.go).  main commits transactions and is   *)
(* backed up meanwhile; every command makes its calls one by one, and      *)
(* others may use the same branch name, or the one restore container,      *)
(* between two of them: branchBeforeMu only spans one process.  A WAL      *)
(* position is the number that the next commit will have, and times are    *)
(* those of a clock that moves in Tick steps.  The two kinds of command    *)
(* share nothing but the database, so a behaviour has one kind: "restore", *)
(* or branch-before on a ledger with the 2.0 capture ("xid") or without    *)
(* ("time").                                                               *)
(***************************************************************************)
EXTENDS Naturals, Sequences, FiniteSets

CONSTANTS Txs,         \* transactions of main
          Jobs,        \* branch-before commands
          Restores,    \* restore commands
          None,
          XidMod,      \* bound: 2^32, the transaction ids of recovery_target_xid
          MaxTime,     \* bound: ticks of the clock
          MaxBackups   \* bound: base backups

ASSUME BoundsAssumption == XidMod \in Nat \ {0} /\ MaxTime \in Nat /\ MaxBackups \in Nat

Systems == 1..2

\* A base backup, the branch of the name the commands are given, and the restore
\* container.
Backups == [sys : Systems, lsn : Nat \ {0}, time : Nat]
BranchStates == [by : Jobs \union {"user"}, state : {"restoring", "stopped", "promoted", "branch"},
                 sys : Systems, upto : Nat]
Containers == [by : Restores, ts : Nat, from : Backups, state : {"restoring", "stopped", "promoted"}, upto : Nat]

ASSUME NamesAssumption == "user" \notin Jobs /\ None \notin BranchStates /\ None \notin Containers

VARIABLES mode,      \* the kind of command of this behaviour
          now,       \* the clock
          system,    \* system identifier of the database main serves
          up,        \* the primary answers
          wal,       \* each database's commits
          archived,  \* how much of them object storage has
          tx,        \* transactions in progress
          xids,      \* transaction ids handed out
          backups,   \* base backups in object storage
          branch,    \* the branch of the name the commands are given
          job,       \* branch-before commands
          rc,        \* the restore container
          restore,   \* restore commands
          usurped,   \* history: a branch being restored was deleted by a user
          wiped      \* history: a user's branch was removed by a failing command

database == <<mode, now, system, up, wal, archived, tx, xids, backups>>
before == <<branch, job, usurped, wiped>>
restores == <<rc, restore>>
vars == <<database, before, restores>>

NoTx == [xid |-> 0, at |-> 0, lsn |-> 0, open |-> TRUE]
NoJob == [pc |-> "idle", entry |-> NoTx, pos |-> 0, from |-> None, out |-> "none"]
NoRestore == [pc |-> "idle", ts |-> 0, from |-> None, blind |-> FALSE, out |-> "none"]

Init ==
  /\ mode \in {"xid", "time", "restore"}
  /\ now = 0 /\ system = 1 /\ up = TRUE /\ xids = 0
  /\ wal = [s \in Systems |-> <<>>]
  /\ archived = [s \in Systems |-> 0]
  /\ tx = [t \in Txs |-> NoTx]
  /\ backups = {}
  /\ branch = None /\ rc = None
  /\ job = [j \in Jobs |-> NoJob]
  /\ restore = [r \in Restores |-> NoRestore]
  /\ usurped = FALSE /\ wiped = FALSE
-----------------------------------------------------------------------------
(* main, its WAL archive and its backups: external to the two commands *)

Commits == wal[system]

\* Other steps happen between two ticks, in the same instant of the clock.
Tick ==
  /\ now < MaxTime
  /\ now' = now + 1
  /\ UNCHANGED <<mode, system, up, wal, archived, tx, xids, backups, before, restores>>

\* A statement that the ledger records: the time, and with the 2.0 capture also
\* the transaction id and the WAL position.  (Restores look at commits only.)
Record(t) ==
  /\ mode # "restore" /\ up /\ tx[t] = NoTx
  /\ xids' = xids + 1
  /\ tx' = [tx EXCEPT ![t] = [xid |-> xids + 1, at |-> now, open |-> TRUE,
                              lsn |-> IF mode = "xid" THEN Len(Commits) + 1 ELSE 0]]
  /\ UNCHANGED <<mode, now, system, up, wal, archived, backups, before, restores>>

Commit(t) ==
  /\ up /\ tx[t].open /\ (tx[t] # NoTx \/ mode = "restore")
  /\ wal' = [wal EXCEPT ![system] = Append(@, [xid |-> tx[t].xid, time |-> now, entry |-> tx[t]])]
  /\ tx' = [tx EXCEPT ![t].open = FALSE]
  /\ UNCHANGED <<mode, now, system, up, archived, xids, backups, before, restores>>

Backup ==
  /\ up /\ Cardinality(backups) < MaxBackups
  /\ backups' = backups \union {[sys |-> system, lsn |-> Len(Commits) + 1, time |-> now]}
  /\ archived' = [archived EXCEPT ![system] = Len(Commits)]
  /\ UNCHANGED <<mode, now, system, up, wal, tx, xids, before, restores>>

\* The primary stops; it comes back, or a new database is initialised in its
\* place, which archives to the same storage.  (To branch-before this is one more
\* reason why a call may fail.)
PrimaryStop ==
  /\ mode = "restore" /\ up
  /\ up' = FALSE
  /\ UNCHANGED <<mode, now, system, wal, archived, tx, xids, backups, before, restores>>

PrimaryStart ==
  /\ ~ up /\ up' = TRUE
  /\ system' \in {system, system + 1} \intersect Systems
  /\ UNCHANGED <<mode, now, wal, archived, tx, xids, backups, before, restores>>
-----------------------------------------------------------------------------
(* Recovery: how much of a database's WAL Postgres replays *)

\* The first commit at or after a backup that satisfies stop; 0 without one in
\* the archive.
FirstStop(b, Stop(_)) ==
  LET S == {i \in b.lsn .. archived[b.sys] : Stop(wal[b.sys][i])}
  IN IF S = {} THEN 0 ELSE CHOOSE i \in S : \A k \in S : i <= k

\* recovery_target_xid or recovery_target_time with inclusive off.
BeforeStop(e, b) ==
  FirstStop(b, LAMBDA c : IF e.lsn > 0 THEN c.xid % XidMod = e.xid % XidMod ELSE c.time >= e.at)

\* recovery_target_time as Restore uses it, inclusive.
TimeStop(ts, b) == FirstStop(b, LAMBDA c : c.time > ts)

\* Mutant of pickBaseBackup: by the finish time, also when the position is known.
pickBaseBackupByTime(e, sys) ==
  LET S == {b \in backups : b.sys = sys /\ b.time <= e.at}
  IN {b \in S : \A c \in S : c.time <= b.time}

\* The newest backup of this database that finished before the entry's change.
pickBaseBackup(e, sys) ==
  LET S == {b \in backups : /\ b.sys = sys
                            /\ IF e.lsn > 0 THEN b.lsn <= e.lsn ELSE b.time < e.at}
  IN {b \in S : \A c \in S : c.time <= b.time}

\* Mutant of pickBackupForTime: any backup of this database.
pickBackupForTimeAny(ts, sys) ==
  LET S == {b \in backups : sys # 0 => b.sys = sys}
  IN {b \in S : \A c \in S : c.time <= b.time}

\* The same for a time; sys is 0 when the primary did not answer, and then
\* backups of any database will do.
pickBackupForTime(ts, sys) ==
  LET S == {b \in backups : (sys # 0 => b.sys = sys) /\ b.time <= ts}
  IN {b \in S : \A c \in S : c.time <= b.time}
-----------------------------------------------------------------------------
(* BranchBeforeEntry *)

exists == branch # None

Set(j, r) == job' = [job EXCEPT ![j] = r]
Goto(j, step) == Set(j, [job[j] EXCEPT !.pc = step])
End(j, out) == Set(j, [job[j] EXCEPT !.pc = "done", !.out = out])

\* The checks up to the entry: refuses if the branch exists, the entry does not or
\* was BLOCKED, or the primary does not answer.
Begin(j) ==
  /\ mode # "restore" /\ job[j].pc = "idle"
  /\ \/ End(j, "refused")
     \/ /\ ~ exists
        /\ \E i \in DOMAIN Commits :
             Set(j, [job[j] EXCEPT !.pc = "flush", !.entry = Commits[i].entry, !.pos = i])
  /\ UNCHANGED <<database, branch, usurped, wiped, restores>>

\* flushWALArchive: a segment switch, and waiting until it is shipped.
FlushWAL(j) ==
  /\ job[j].pc = "flush"
  /\ \/ /\ archived' = [archived EXCEPT ![system] = Len(Commits)]
        /\ Goto(j, "pick")
     \/ End(j, "failed") /\ UNCHANGED archived
  /\ UNCHANGED <<mode, now, system, up, wal, tx, xids, backups, branch, usurped, wiped, restores>>

Pick(j) ==
  /\ job[j].pc = "pick"
  /\ LET bs == pickBaseBackup(job[j].entry, system) IN
     IF bs = {} THEN End(j, "failed")
     ELSE \E b \in bs : Set(j, [job[j] EXCEPT !.pc = "create", !.from = b])
  /\ UNCHANGED <<database, branch, usurped, wiped, restores>>

\* Mutant of fail: the partial branch is kept.
failKeeps(j) ==
  /\ End(j, "failed")
  /\ UNCHANGED <<branch, wiped>>

\* Removes the container and the storage of the name, whoever made them.  The
\* storage may stay, which the error then says; the container, too, which it does
\* not.
fail(j) ==
  \/ /\ End(j, "failed")
     /\ branch' = None
     /\ wiped' = (wiped \/ (exists /\ branch.by = "user"))
  \/ /\ exists /\ End(j, "kept")
     /\ \/ UNCHANGED branch
        \/ /\ branch.state # "branch"
           /\ branch' = [branch EXCEPT !.state = "stopped"]
     /\ UNCHANGED wiped

\* Mutant of CreateEmpty: a dataset that was there already is also cleaned up.
CreateEmptyCleansUp(j) ==
  /\ job[j].pc = "create"
  /\ IF exists THEN fail(j)
     ELSE /\ branch' = [by |-> j, state |-> "restoring", sys |-> job[j].from.sys, upto |-> 0]
          /\ Goto(j, "wait")
          /\ UNCHANGED wiped
  /\ UNCHANGED <<database, usurped, restores>>

EmptyBranch(j, state) == [by |-> j, state |-> state, sys |-> job[j].from.sys, upto |-> 0]

\* createEmpty, which fails if the dataset is there, for any other reason, or after
\* it made a subvolume, which stays then; and docker run.
CreateEmpty(j) ==
  /\ job[j].pc = "create"
  /\ \/ End(j, "failed") /\ UNCHANGED branch
     \/ ~ exists /\ branch' = EmptyBranch(j, "restoring") /\ Goto(j, "wait")
     \/ ~ exists /\ branch' = EmptyBranch(j, "stopped") /\ End(j, "halfmade")
  /\ UNCHANGED <<database, usurped, wiped, restores>>

\* restore_before.sh: Postgres in the container replays to the target and promotes,
\* or stops when the archive ends before it.
Recover(j) ==
  LET stop == BeforeStop(job[j].entry, job[j].from) IN
  /\ exists /\ branch.by = j /\ branch.state = "restoring" /\ job[j].from # None
  /\ branch' = IF stop = 0 THEN [branch EXCEPT !.state = "stopped"]
               ELSE [branch EXCEPT !.state = "promoted", !.upto = stop - 1]
  /\ UNCHANGED <<database, job, usurped, wiped, restores>>

Serving == exists /\ branch.state \in {"promoted", "branch"}

\* waitPromoted looks at the name's container: any that is out of recovery will do.
WaitPromoted(j) ==
  /\ job[j].pc = "wait"
  /\ \/ Serving /\ Goto(j, "check") /\ UNCHANGED <<branch, wiped>>
     \/ fail(j)
  /\ UNCHANGED <<database, usurped, restores>>

Contains(i) == branch.sys = system /\ i <= branch.upto

\* The entry must not be in the branch's ledger.
CheckAbsent(j) ==
  /\ job[j].pc = "check"
  /\ IF Serving /\ ~ Contains(job[j].pos)
     THEN Goto(j, "serve") /\ UNCHANGED <<branch, wiped>>
     ELSE fail(j)
  /\ UNCHANGED <<database, usurped, restores>>

\* The recovery settings go and the container restarts as a branch's.
Serve(j) ==
  /\ job[j].pc = "serve"
  /\ \/ /\ Serving
        /\ branch' = [branch EXCEPT !.state = "branch"]
        /\ End(j, "ok")
        /\ UNCHANGED wiped
     \/ fail(j)
  /\ UNCHANGED <<database, usurped, restores>>

Die(j) ==
  /\ job[j].pc \notin {"idle", "done"}
  /\ End(j, "died")
  /\ UNCHANGED <<database, branch, usurped, wiped, restores>>

\* Users and the gateway treat the name as any other branch's.
UserCreate ==
  /\ mode # "restore" /\ ~ exists
  /\ branch' = [by |-> "user", state |-> "branch", sys |-> system, upto |-> Len(Commits)]
  /\ UNCHANGED <<database, job, usurped, wiped, restores>>

UserDelete ==
  /\ exists
  /\ branch' = None
  /\ usurped' = (usurped \/ branch.by # "user")
  /\ UNCHANGED <<database, job, wiped, restores>>
-----------------------------------------------------------------------------
(* Restore *)

SetR(r, x) == restore' = [restore EXCEPT ![r] = x]
EndR(r, out) == SetR(r, [restore[r] EXCEPT !.pc = "done", !.out = out])

\* restoreBackupName for a timestamp.
PickRestore(r) ==
  /\ mode = "restore" /\ restore[r].pc = "idle"
  /\ \E ts \in 0..now :
       LET bs == pickBackupForTime(ts, IF up THEN system ELSE 0) IN
       IF bs = {} THEN EndR(r, "refused")
       ELSE \E b \in bs : SetR(r, [restore[r] EXCEPT !.pc = "run", !.ts = ts, !.from = b, !.blind = ~ up])
  /\ UNCHANGED <<database, before, rc>>

\* "latest", or a timestamp that can't be read: wal-g's newest backup.
PickLatest(r) ==
  /\ mode = "restore" /\ restore[r].pc = "idle"
  /\ \E b \in backups :
       /\ \A c \in backups : c.time <= b.time
       /\ SetR(r, [restore[r] EXCEPT !.pc = "run", !.ts = MaxTime + 1, !.from = b, !.blind = TRUE])
  /\ UNCHANGED <<database, before, rc>>

\* docker rm and docker run of the one restore container.
RunRestore(r) ==
  /\ restore[r].pc = "run"
  /\ rc' = [by |-> r, ts |-> restore[r].ts, from |-> restore[r].from, state |-> "restoring", upto |-> 0]
  /\ SetR(r, [restore[r] EXCEPT !.pc = "wait"])
  /\ UNCHANGED <<database, before>>

\* restore_pitr.sh: replay to the target, or for "latest" to the end of the archive.
RecoverRestore ==
  /\ rc # None /\ rc.state = "restoring"
  /\ LET stop == TimeStop(rc.ts, rc.from) IN
     rc' = IF stop # 0 THEN [rc EXCEPT !.state = "promoted", !.upto = stop - 1]
           ELSE IF rc.ts > MaxTime THEN [rc EXCEPT !.state = "promoted", !.upto = archived[rc.from.sys]]
           ELSE [rc EXCEPT !.state = "stopped"]
  /\ UNCHANGED <<database, before, restore>>

\* waitRecovered: any container of the name that is out of recovery, or time out.
WaitRecovered(r) ==
  /\ restore[r].pc = "wait"
  /\ EndR(r, "timeout") \/ (rc.state = "promoted" /\ EndR(r, "ok"))
  /\ UNCHANGED <<database, before, rc>>
-----------------------------------------------------------------------------
Database ==
  \/ Tick \/ Backup \/ PrimaryStop \/ PrimaryStart
  \/ \E t \in Txs : Record(t) \/ Commit(t)

Job(j) ==
  \/ Begin(j) \/ FlushWAL(j) \/ Pick(j) \/ CreateEmpty(j) \/ Recover(j)
  \/ WaitPromoted(j) \/ CheckAbsent(j) \/ Serve(j) \/ Die(j)

Restore(r) == PickRestore(r) \/ PickLatest(r) \/ RunRestore(r) \/ WaitRecovered(r)

Next ==
  \/ Database
  \/ \E j \in Jobs : Job(j)
  \/ \E r \in Restores : Restore(r)
  \/ RecoverRestore \/ UserCreate \/ UserDelete

Spec == Init /\ [][Next]_vars
-----------------------------------------------------------------------------
\* Type correctness, with the archive a prefix of what was written and a backup
\* never ahead of it.
TypeOK ==
  /\ now \in 0..MaxTime /\ system \in Systems /\ up \in BOOLEAN /\ xids \in Nat
  /\ \A s \in Systems : archived[s] \in 0..Len(wal[s])
  /\ \A b \in backups : b.lsn <= archived[b.sys] + 1 /\ b.time <= now
  /\ branch = None \/ branch.state \in {"restoring", "stopped", "promoted", "branch"}
  /\ \A j \in Jobs : job[j].out \in {"none", "refused", "failed", "kept", "halfmade", "ok", "died"}
  /\ \A r \in Restores : restore[r].out \in {"none", "refused", "timeout", "ok"}

Kept(j) == job[j].out = "ok" /\ exists /\ branch.by = j

\* Another commit since the backup has the entry's 32-bit transaction id.
Wrapped(j) ==
  LET e == job[j].entry IN
  \E i \in job[j].from.lsn .. job[j].pos - 1 : wal[branch.sys][i].xid % XidMod = e.xid % XidMod

\* The comment on BranchBeforeEntry: the branch holds main exactly as it was just
\* before the entry committed: every commit before the entry's, no other.  For an
\* entry without captured transaction id: none of the commits from the instant of
\* the statement on, and every one before.
HoldsExactlyBefore ==
  \A j \in Jobs : Kept(j) /\ ~ Wrapped(j) =>
    LET e == job[j].entry IN
    IF e.lsn > 0 THEN branch.upto = job[j].pos - 1
    ELSE /\ branch.upto < job[j].pos
         /\ \A i \in DOMAIN wal[branch.sys] :
              i <= branch.upto <=> \A k \in 1..i : wal[branch.sys][k].time < e.at

\* A command that ends leaves a finished branch or none, and never says that it
\* made a branch that is in recovery or unchecked.  It leaves an unfinished one,
\* which takes its name, only if its process died, if it could not remove what it
\* had made and says so, or if createEmpty failed half way.
UnfinishedHasACause ==
  exists /\ branch.state # "branch" =>
    job[branch.by].pc # "done" \/ job[branch.by].out \in {"died", "kept", "halfmade"}

\* A failing command removes another's branch only if the one that it was
\* restoring was deleted under it and its name was used again.
FailRemovesOnlyItsOwn == wiped => usurped

\* `restored to ts`: the container holds what the database had committed by ts,
\* no more and no less, unless another restore replaced the container meanwhile
\* or the backup was chosen without knowing which database main is.
RestoredAsReported ==
  \A r \in Restores :
    LET x == restore[r] IN
    /\ x.out = "ok" /\ rc # None /\ rc.by = r
    /\ ~ x.blind
    => \A i \in DOMAIN wal[rc.from.sys] :
         i <= rc.upto <=> \A k \in 1..i : wal[rc.from.sys][k].time <= x.ts
=============================================================================
