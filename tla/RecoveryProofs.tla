--------------------------- MODULE RecoveryProofs ---------------------------
(***************************************************************************)
(* Proofs about Recovery, for any number of transactions, backups,         *)
(* commands and restores, whatever they do to each other's branches and    *)
(* containers.                                                             *)
(***************************************************************************)
EXTENDS Recovery, WellFoundedInduction, TLAPS

Entries == [xid : Nat, at : Nat, lsn : Nat, open : BOOLEAN]
CommitRecords == [xid : Nat, time : Nat, entry : Entries]

(***************************************************************************)
(* The database: a commit carries its own entry, which was recorded no     *)
(* later and at no later position, and what committed before a backup has  *)
(* a time no later than the backup's.  Only restores see another database. *)
(***************************************************************************)
DatabaseInv ==
  /\ mode \in {"xid", "time", "restore"} /\ now \in 0..MaxTime /\ system \in Systems /\ xids \in Nat
  /\ mode # "restore" => system = 1 /\ up
  /\ wal \in [Systems -> Seq(CommitRecords)]
  /\ archived \in [Systems -> Nat]
  /\ tx \in [Txs -> Entries]
  /\ backups \subseteq Backups
  /\ \A s \in Systems : archived[s] <= Len(wal[s])
  /\ \A s \in Systems : \A i \in 1..Len(wal[s]) :
       LET c == wal[s][i] IN c.xid = c.entry.xid /\ c.entry.at <= c.time /\ c.time <= now /\ c.entry.lsn <= i
  /\ \A t \in Txs : /\ tx[t].at <= now /\ tx[t].lsn <= Len(wal[system]) + 1
                    /\ mode = "restore" => tx[t].lsn = 0
  /\ \A b \in backups : /\ b.lsn <= Len(wal[b.sys]) + 1 /\ b.time <= now
                        /\ \A i \in 1..Len(wal[b.sys]) : i < b.lsn => wal[b.sys][i].time <= b.time

\* What is written stays.
Grows ==
  /\ backups \subseteq backups' /\ mode' = mode /\ now <= now'
  /\ \A s \in Systems : /\ Len(wal[s]) <= Len(wal'[s])
                        /\ \A i \in 1..Len(wal[s]) : wal'[s][i] = wal[s][i]
-----------------------------------------------------------------------------
(* Where a recovery stops *)

\* A set of natural numbers has a least member.
LEMMA LeastExists ==
  ASSUME NEW S \in SUBSET Nat, S # {}
  PROVE  \E i \in S : \A k \in S : i <= k
<1> DEFINE R == OpToRel(<, Nat)
<1>1. IsWellFoundedOn(R, Nat)
  BY NatLessThanWellFounded
<1>2. \A x, y \in Nat : x < y => <<x, y>> \in R
  BY DEF OpToRel
<1> HIDE DEF R
<1>3. PICK i \in S : \A k \in S : ~ (<<k, i>> \in R)
  BY <1>1, WFMin
<1>4. \A k \in S : i <= k
  <2> TAKE k \in S
  <2>1. i \in Nat /\ k \in Nat
    OBVIOUS
  <2>2. ~ (k < i)
    BY <1>2, <1>3, <2>1
  <2> QED BY <2>1, <2>2
<1> QED BY <1>4

\* The recovery of branch-before from backup b stops at commit n of the WAL w, and at
\* none before it.
BeforeHit(e, c) == IF e.lsn > 0 THEN c.xid % XidMod = e.xid % XidMod ELSE c.time >= e.at
StoppedBefore(w, e, b, n) ==
  /\ n \in b.lsn .. Len(w[b.sys]) /\ BeforeHit(e, w[b.sys][n])
  /\ \A k \in b.lsn .. n - 1 : ~ BeforeHit(e, w[b.sys][k])

\* The same for a restore to a time.
StoppedAfter(w, ts, b, n) ==
  /\ n \in b.lsn .. Len(w[b.sys]) /\ w[b.sys][n].time > ts
  /\ \A k \in b.lsn .. n - 1 : ~ (w[b.sys][k].time > ts)

\* BeforeStop finds the first commit that satisfies its condition.
LEMMA BeforeStopIsFirst ==
  ASSUME DatabaseInv, NEW b \in Backups, NEW e
  PROVE  LET stop == BeforeStop(e, b) IN stop # 0 => StoppedBefore(wal, e, b, stop)
<1> DEFINE S == {i \in b.lsn .. archived[b.sys] : BeforeHit(e, wal[b.sys][i])}
<1>1. BeforeStop(e, b) = IF S = {} THEN 0 ELSE CHOOSE i \in S : \A k \in S : i <= k
  BY DEF BeforeStop, FirstStop, BeforeHit
<1>2. CASE S # {}
  <2>0. b.sys \in Systems /\ b.lsn \in Nat /\ archived[b.sys] \in Nat /\ archived[b.sys] <= Len(wal[b.sys]) /\ Len(wal[b.sys]) \in Nat
    BY DEF Backups, DatabaseInv
  <2>1. S \in SUBSET Nat
    BY <2>0
  <2> DEFINE m == CHOOSE i \in S : \A k \in S : i <= k
  <2>2. m \in S /\ \A k \in S : m <= k
    <3> HIDE DEF S
    <3> QED BY <1>2, <2>1, LeastExists
  <2>3. BeforeStop(e, b) = m
    BY <1>1, <1>2
  <2> HIDE DEF m
  <2>4. \A k \in b.lsn .. m - 1 : ~ BeforeHit(e, wal[b.sys][k])
    <3> TAKE k \in b.lsn .. m - 1
    <3>1. k \in b.lsn .. archived[b.sys] /\ ~ (m <= k)
      BY <2>0, <2>2
    <3> QED BY <2>2, <3>1
  <2>5. m \in b.lsn .. Len(wal[b.sys]) /\ BeforeHit(e, wal[b.sys][m])
    BY <2>0, <2>2
  <2> QED BY <2>3, <2>4, <2>5 DEF StoppedBefore
<1> QED BY <1>1, <1>2

\* TimeStop finds the first commit after the time.
LEMMA TimeStopIsFirst ==
  ASSUME DatabaseInv, NEW b \in Backups, NEW ts
  PROVE  LET stop == TimeStop(ts, b) IN stop # 0 => StoppedAfter(wal, ts, b, stop)
<1> DEFINE S == {i \in b.lsn .. archived[b.sys] : wal[b.sys][i].time > ts}
<1>1. TimeStop(ts, b) = IF S = {} THEN 0 ELSE CHOOSE i \in S : \A k \in S : i <= k
  BY DEF TimeStop, FirstStop
<1>2. CASE S # {}
  <2>0. b.sys \in Systems /\ b.lsn \in Nat /\ archived[b.sys] \in Nat /\ archived[b.sys] <= Len(wal[b.sys]) /\ Len(wal[b.sys]) \in Nat
    BY DEF Backups, DatabaseInv
  <2>1. S \in SUBSET Nat
    BY <2>0
  <2> DEFINE m == CHOOSE i \in S : \A k \in S : i <= k
  <2>2. m \in S /\ \A k \in S : m <= k
    <3> HIDE DEF S
    <3> QED BY <1>2, <2>1, LeastExists
  <2>3. TimeStop(ts, b) = m
    BY <1>1, <1>2
  <2> HIDE DEF m
  <2>4. \A k \in b.lsn .. m - 1 : ~ (wal[b.sys][k].time > ts)
    <3> TAKE k \in b.lsn .. m - 1
    <3>1. k \in b.lsn .. archived[b.sys] /\ ~ (m <= k)
      BY <2>0, <2>2
    <3> QED BY <2>2, <3>1
  <2>5. m \in b.lsn .. Len(wal[b.sys]) /\ wal[b.sys][m].time > ts
    BY <2>0, <2>2
  <2> QED BY <2>3, <2>4, <2>5 DEF StoppedAfter
<1> QED BY <1>1, <1>2
-----------------------------------------------------------------------------
(* The database under every step *)

\* Only the database's own steps and FlushWAL change it.
LEMMA DatabaseSteps ==
  ASSUME [Next]_vars
  PROVE  \/ Database
         \/ \E j \in Jobs : FlushWAL(j)
         \/ UNCHANGED database
<1>1. ASSUME NEW j \in Jobs, Job(j) PROVE FlushWAL(j) \/ UNCHANGED database
  BY <1>1 DEF Job, Begin, Pick, CreateEmpty, Recover, WaitPromoted, CheckAbsent, Serve, Die
<1>2. ASSUME NEW r \in Restores, Restore(r) PROVE UNCHANGED database
  BY <1>2 DEF Restore, PickRestore, PickLatest, RunRestore, WaitRecovered
<1>3. CASE RecoverRestore \/ UserCreate \/ UserDelete
  BY <1>3 DEF RecoverRestore, UserCreate, UserDelete
<1> QED BY <1>1, <1>2, <1>3 DEF Next, vars

\* Every step keeps the database in order and what it has written.
LEMMA DatabaseKept == DatabaseInv /\ [Next]_vars => DatabaseInv' /\ Grows
<1> SUFFICES ASSUME DatabaseInv, [Next]_vars PROVE DatabaseInv' /\ Grows
  OBVIOUS
<1> USE BoundsAssumption
<1>0. CASE UNCHANGED database
  BY <1>0 DEF database, DatabaseInv, Grows
<1>a. ASSUME NEW s \in Systems PROVE wal[s] \in Seq(CommitRecords) /\ Len(wal[s]) \in Nat
  BY DEF DatabaseInv
<1>b. now \in Nat /\ system \in Systems
  BY DEF DatabaseInv
<1>1. CASE Tick
  <2>1. now' = now + 1 /\ now' \in 0..MaxTime /\ UNCHANGED <<mode, system, up, wal, archived, tx, xids, backups>>
    BY <1>1 DEF Tick, DatabaseInv
  <2>2. Grows
    BY <2>1 DEF Grows, DatabaseInv
  <2>3. \A s \in Systems : \A i \in 1..Len(wal[s]) : wal[s][i].time <= now'
    <3> TAKE s \in Systems
    <3> TAKE i \in 1..Len(wal[s])
    <3>1. wal[s][i] \in CommitRecords
      BY <1>a
    <3>2. wal[s][i].time \in Nat /\ wal[s][i].time <= now
      BY <3>1 DEF DatabaseInv, CommitRecords
    <3> QED BY <1>b, <2>1, <3>2
  <2>4. \A t \in Txs : tx[t].at <= now'
    <3> TAKE t \in Txs
    <3>1. tx[t].at \in Nat /\ tx[t].at <= now
      BY DEF DatabaseInv, Entries
    <3> QED BY <1>b, <2>1, <3>1
  <2>5. \A b \in backups : b.time <= now'
    <3> TAKE b \in backups
    <3>1. b.time \in Nat /\ b.time <= now
      BY DEF DatabaseInv, Backups
    <3> QED BY <1>b, <2>1, <3>1
  <2>6. DatabaseInv'
    BY <2>1, <2>3, <2>4, <2>5 DEF DatabaseInv
  <2> QED BY <2>2, <2>6
<1>2. ASSUME NEW t \in Txs, Record(t) PROVE DatabaseInv' /\ Grows
  <2> DEFINE e == [xid |-> xids + 1, at |-> now, open |-> TRUE, lsn |-> IF mode = "xid" THEN Len(Commits) + 1 ELSE 0]
  <2>1. mode # "restore" /\ xids' = xids + 1 /\ tx' = [tx EXCEPT ![t] = e] /\ UNCHANGED <<mode, now, system, up, wal, archived, backups>>
    BY <1>2 DEF Record
  <2>2. e \in Entries /\ e.at = now /\ e.lsn <= Len(wal[system]) + 1
    BY <1>a DEF Entries, Commits, DatabaseInv
  <2> HIDE DEF e
  <2>3. tx' \in [Txs -> Entries] /\ \A u \in Txs : tx'[u] = IF u = t THEN e ELSE tx[u]
    BY <2>1, <2>2 DEF DatabaseInv
  <2>4. \A u \in Txs : tx'[u].at <= now /\ tx'[u].lsn <= Len(wal[system]) + 1
    <3> TAKE u \in Txs
    <3>1. tx[u].at <= now /\ tx[u].lsn <= Len(wal[system]) + 1 /\ now <= now
      BY <1>b DEF DatabaseInv
    <3> QED BY <2>2, <2>3, <3>1
  <2>5. DatabaseInv'
    <3>1. xids' \in Nat
      BY <2>1 DEF DatabaseInv
    <3>2. \A u \in Txs : /\ tx'[u].at <= now' /\ tx'[u].lsn <= Len(wal'[system']) + 1
                         /\ mode' = "restore" => tx'[u].lsn = 0
      BY <2>1, <2>4
    <3>3. \A b \in backups' : /\ b.lsn <= Len(wal'[b.sys]) + 1 /\ b.time <= now'
                              /\ \A i \in 1..Len(wal'[b.sys]) : i < b.lsn => wal'[b.sys][i].time <= b.time
      BY <2>1 DEF DatabaseInv
    <3>4. \A s \in Systems : \A i \in 1..Len(wal'[s]) :
            LET c == wal'[s][i] IN c.xid = c.entry.xid /\ c.entry.at <= c.time /\ c.time <= now' /\ c.entry.lsn <= i
      BY <2>1 DEF DatabaseInv
    <3> QED BY <2>1, <2>3, <3>1, <3>2, <3>3, <3>4 DEF DatabaseInv
  <2>6. Grows
    BY <1>a, <1>b, <2>1 DEF Grows
  <2> QED BY <2>5, <2>6
<1>3. ASSUME NEW t \in Txs, Commit(t) PROVE DatabaseInv' /\ Grows
  <2> DEFINE c == [xid |-> tx[t].xid, time |-> now, entry |-> tx[t]]
             n == Len(wal[system]) + 1
  <2>1. /\ wal' = [wal EXCEPT ![system] = Append(@, c)] /\ tx' = [tx EXCEPT ![t].open = FALSE]
        /\ UNCHANGED <<mode, now, system, up, archived, xids, backups>>
    BY <1>3 DEF Commit
  <2>2. c \in CommitRecords /\ c.xid = c.entry.xid /\ c.entry.at <= c.time /\ c.time = now /\ c.entry.lsn <= n
    BY DEF DatabaseInv, CommitRecords, Entries
  <2> HIDE DEF c
  <2>3. /\ tx' \in [Txs -> Entries]
        /\ \A u \in Txs : tx'[u].at = tx[u].at /\ tx'[u].lsn = tx[u].lsn
    BY <2>1 DEF DatabaseInv, Entries
  <2>4. system \in Systems /\ n \in Nat /\ n >= 1
    BY <1>a DEF DatabaseInv
  <2>5. /\ wal' \in [Systems -> Seq(CommitRecords)]
        /\ \A s \in Systems : s # system => wal'[s] = wal[s]
        /\ wal'[system] = Append(wal[system], c)
    BY <1>a, <2>1, <2>2, <2>4 DEF DatabaseInv
  <2>6. /\ Len(wal'[system]) = n /\ wal'[system][n] = c
        /\ \A i \in 1..Len(wal[system]) : wal'[system][i] = wal[system][i]
    BY <1>a, <2>2, <2>4, <2>5
  <2>7. Grows
    <3>1. ASSUME NEW s \in Systems
          PROVE  Len(wal[s]) <= Len(wal'[s]) /\ \A i \in 1..Len(wal[s]) : wal'[s][i] = wal[s][i]
      <4>1. CASE s = system
        BY <1>a, <2>4, <2>6, <4>1
      <4>2. CASE s # system
        BY <1>a, <2>5, <4>2
      <4> QED BY <4>1, <4>2
    <3> QED BY <2>1, <3>1 DEF Grows, DatabaseInv
  <2>8. ASSUME NEW s \in Systems, NEW i \in 1..Len(wal'[s])
        PROVE  LET d == wal'[s][i] IN d.xid = d.entry.xid /\ d.entry.at <= d.time /\ d.time <= now /\ d.entry.lsn <= i
    <3>1. CASE i \in 1..Len(wal[s])
      BY <2>7, <3>1 DEF Grows, DatabaseInv
    <3>2. CASE i \notin 1..Len(wal[s])
      <4>1. s = system /\ i = n
        BY <1>a, <2>4, <2>5, <2>6, <2>8, <3>2
      <4> QED BY <2>2, <2>6, <4>1 DEF DatabaseInv
    <3> QED BY <3>1, <3>2
  <2>9. ASSUME NEW b \in backups, NEW i \in 1..Len(wal'[b.sys])
        PROVE  b.lsn <= Len(wal'[b.sys]) + 1 /\ (i < b.lsn => wal'[b.sys][i].time <= b.time)
    <3>1. b.sys \in Systems /\ b.lsn \in Nat /\ b.lsn <= Len(wal[b.sys]) + 1 /\ Len(wal'[b.sys]) \in Nat
      BY <2>5 DEF DatabaseInv, Backups
    <3>2. b.lsn <= Len(wal'[b.sys]) + 1
      BY <1>a, <2>7, <3>1 DEF Grows
    <3>3. ASSUME i < b.lsn PROVE i \in 1..Len(wal[b.sys])
      BY <1>a, <3>1, <3>3
    <3>4. i < b.lsn => wal'[b.sys][i].time <= b.time
      BY <2>7, <3>1, <3>3 DEF Grows, DatabaseInv
    <3> QED BY <3>2, <3>4
  <2>10. \A b \in backups : b.lsn <= Len(wal'[b.sys]) + 1
    <3> TAKE b \in backups
    <3>1. b.sys \in Systems /\ b.lsn \in Nat /\ b.lsn <= Len(wal[b.sys]) + 1 /\ Len(wal'[b.sys]) \in Nat
      BY <2>5 DEF DatabaseInv, Backups
    <3> QED BY <1>a, <2>7, <3>1 DEF Grows
  <2>11. \A s \in Systems : archived[s] <= Len(wal'[s])
    <3> TAKE s \in Systems
    <3>1. archived[s] \in Nat /\ archived[s] <= Len(wal[s]) /\ Len(wal'[s]) \in Nat
      BY <2>5 DEF DatabaseInv
    <3> QED BY <1>a, <2>7, <3>1 DEF Grows
  <2>12. \A u \in Txs : tx'[u].lsn <= Len(wal'[system]) + 1
    <3> TAKE u \in Txs
    <3>1. tx[u].lsn \in Nat /\ tx[u].lsn <= n
      BY DEF DatabaseInv, Entries
    <3> QED BY <2>3, <2>4, <2>6, <3>1
  <2>13. DatabaseInv'
    <3>1. \A u \in Txs : /\ tx'[u].at <= now' /\ tx'[u].lsn <= Len(wal'[system']) + 1
                         /\ mode' = "restore" => tx'[u].lsn = 0
      BY <2>1, <2>3, <2>12 DEF DatabaseInv
    <3>2. \A b \in backups' : /\ b.lsn <= Len(wal'[b.sys]) + 1 /\ b.time <= now'
                              /\ \A i \in 1..Len(wal'[b.sys]) : i < b.lsn => wal'[b.sys][i].time <= b.time
      BY <2>1, <2>9, <2>10 DEF DatabaseInv
    <3>3. \A s \in Systems : \A i \in 1..Len(wal'[s]) :
            LET d == wal'[s][i] IN d.xid = d.entry.xid /\ d.entry.at <= d.time /\ d.time <= now' /\ d.entry.lsn <= i
      BY <2>1, <2>8
    <3> QED BY <2>1, <2>3, <2>5, <2>11, <3>1, <3>2, <3>3 DEF DatabaseInv
  <2> QED BY <2>7, <2>13
<1>4. ASSUME archived' = [archived EXCEPT ![system] = Len(Commits)],
             backups' = backups \/ backups' = backups \union {[sys |-> system, lsn |-> Len(Commits) + 1, time |-> now]},
             UNCHANGED <<mode, now, system, up, wal, tx, xids>>
      PROVE  DatabaseInv' /\ Grows
  <2> DEFINE b == [sys |-> system, lsn |-> Len(Commits) + 1, time |-> now]
  <2>1. system \in Systems /\ Len(Commits) = Len(wal[system]) /\ Len(wal[system]) \in Nat
    BY <1>a DEF Commits, DatabaseInv
  <2>2. archived' \in [Systems -> Nat] /\ \A s \in Systems : archived'[s] <= Len(wal[s])
    BY <1>4, <2>1 DEF DatabaseInv
  <2>3. b \in Backups /\ b.lsn = Len(wal[system]) + 1 /\ b.sys = system /\ b.time = now
    <3>1. Len(Commits) + 1 \in Nat \ {0}
      BY <2>1
    <3> QED BY <1>b, <2>1, <3>1 DEF Backups
  <2> HIDE DEF b
  <2>4. \A x \in backups' : /\ x \in Backups /\ x.lsn <= Len(wal[x.sys]) + 1 /\ x.time <= now
                            /\ \A i \in 1..Len(wal[x.sys]) : i < x.lsn => wal[x.sys][i].time <= x.time
    <3> TAKE x \in backups'
    <3>1. CASE x \in backups
      BY <3>1 DEF DatabaseInv
    <3>2. CASE x = b
      BY <2>1, <2>3, <3>2 DEF DatabaseInv
    <3> QED BY <1>4, <3>1, <3>2 DEF b
  <2>5. DatabaseInv'
    BY <1>4, <2>2, <2>4 DEF DatabaseInv
  <2>6. Grows
    BY <1>4, <1>a DEF Grows, DatabaseInv
  <2> QED BY <2>5, <2>6
<1>5. CASE Backup
  BY <1>4, <1>5 DEF Backup
<1>6. ASSUME NEW j \in Jobs, FlushWAL(j) PROVE DatabaseInv' /\ Grows
  BY <1>0, <1>4, <1>6 DEF FlushWAL, database
<1>7. CASE PrimaryStop
  BY <1>7, <1>a DEF PrimaryStop, DatabaseInv, Grows
<1>8. CASE PrimaryStart
  <2>1. mode = "restore" /\ system' \in Systems /\ UNCHANGED <<mode, now, wal, archived, tx, xids, backups>>
    BY <1>8 DEF PrimaryStart, DatabaseInv
  <2>2. \A t \in Txs : tx[t].lsn <= Len(wal[system']) + 1
    BY <1>a, <2>1 DEF DatabaseInv
  <2>3. DatabaseInv'
    BY <2>1, <2>2 DEF DatabaseInv
  <2>4. Grows
    BY <1>a, <2>1 DEF Grows, DatabaseInv
  <2> QED BY <2>3, <2>4
<1> QED BY <1>0, <1>1, <1>2, <1>3, <1>5, <1>6, <1>7, <1>8, DatabaseSteps DEF Database
-----------------------------------------------------------------------------
(* Branch-before *)

JobStates == [pc : {"idle", "flush", "pick", "create", "wait", "check", "serve", "done"}, entry : Entries,
              pos : Nat, from : Backups \union {None},
              out : {"none", "refused", "failed", "kept", "halfmade", "ok", "died"}]

\* A command's entry is the one of a commit of main, w the WAL; its backup, one of B,
\* was made before the entry's change.
FoundIn(w, x) == x.pos \in 1..Len(w[1]) /\ x.entry = w[1][x.pos].entry
PickedIn(w, B, x) ==
  /\ FoundIn(w, x)
  /\ x.from \in B /\ x.from.sys = 1
  /\ IF x.entry.lsn > 0 THEN x.from.lsn <= x.entry.lsn ELSE x.from.time < x.entry.at

JobOK(w, B, x) ==
  /\ x.pc \in {"flush", "pick"} => FoundIn(w, x)
  /\ x.pc \in {"create", "wait", "check", "serve"} => PickedIn(w, B, x)
  /\ x.out # "none" => x.pc = "done"

JobsInv ==
  /\ job \in [Jobs -> JobStates]
  /\ \A j \in Jobs : (job[j].pc # "idle" => mode # "restore") /\ JobOK(wal, backups, job[j])

\* The branch is a user's and finished, or command x made it and has not removed it:
\* it stopped where recovery stops, and is unfinished only while x runs, or if x died,
\* could not remove it or failed half way in making it.
MadeBy(w, B, x, br) ==
  /\ PickedIn(w, B, x) /\ br.sys = 1
  /\ x.pc \in {"wait", "check", "serve", "done"}
  /\ x.pc = "done" => br.state = "branch" \/ x.out \in {"died", "kept", "halfmade"}
  /\ br.state \in {"promoted", "branch"} => StoppedBefore(w, x.entry, x.from, br.upto + 1)

BranchInv ==
  branch # None =>
    /\ branch \in BranchStates
    /\ branch.by = "user" => branch.state = "branch"
    /\ branch.by # "user" => MadeBy(wal, backups, job[branch.by], branch)

\* Unless a user has deleted a branch in recovery, a command that may still fail
\* has the branch to itself.
OwnInv ==
  /\ wiped => usurped
  /\ ~ usurped => \A j \in Jobs : job[j].pc \in {"wait", "check", "serve"} => branch # None /\ branch.by = j

BeforeInv == DatabaseInv /\ JobsInv /\ BranchInv /\ OwnInv

\* What was found, picked or replayed stays so as the database grows.
LEMMA GrowthKeeps ==
  ASSUME DatabaseInv, Grows
  PROVE  /\ \A x : FoundIn(wal, x) => FoundIn(wal', x)
         /\ \A x : PickedIn(wal, backups, x) => PickedIn(wal', backups', x)
         /\ \A x : JobOK(wal, backups, x) => JobOK(wal', backups', x)
         /\ \A e, n : \A b \in Backups : StoppedBefore(wal, e, b, n) => StoppedBefore(wal', e, b, n)
         /\ \A ts, n : \A b \in Backups : StoppedAfter(wal, ts, b, n) => StoppedAfter(wal', ts, b, n)
<1>0. 1 \in Systems /\ \A s \in Systems : Len(wal[s]) \in Nat /\ Len(wal[s]) <= Len(wal'[s])
  BY DEF Systems, DatabaseInv, Grows
<1>1. ASSUME NEW s \in Systems, NEW i \in 1..Len(wal[s]) PROVE i \in 1..Len(wal'[s]) /\ wal'[s][i] = wal[s][i]
  BY <1>0, <1>1 DEF Grows
<1>2. \A x : FoundIn(wal, x) => FoundIn(wal', x)
  BY <1>0, <1>1 DEF FoundIn
<1>3. \A x : PickedIn(wal, backups, x) => PickedIn(wal', backups', x)
  BY <1>2 DEF PickedIn, Grows
<1>4. \A x : JobOK(wal, backups, x) => JobOK(wal', backups', x)
  BY <1>2, <1>3 DEF JobOK
<1>5. ASSUME NEW e, NEW n, NEW b \in Backups, StoppedBefore(wal, e, b, n) PROVE StoppedBefore(wal', e, b, n)
  <2>1. b.sys \in Systems /\ b.lsn \in Nat /\ b.lsn >= 1
    BY DEF Backups
  <2>2. n \in 1..Len(wal[b.sys]) /\ n \in b.lsn .. Len(wal'[b.sys]) /\ wal'[b.sys][n] = wal[b.sys][n]
    BY <1>0, <1>1, <1>5, <2>1 DEF StoppedBefore
  <2>3. \A k \in b.lsn .. n - 1 : wal'[b.sys][k] = wal[b.sys][k]
    BY <1>0, <1>1, <2>1, <2>2
  <2> QED BY <1>5, <2>2, <2>3 DEF StoppedBefore
<1>6. ASSUME NEW ts, NEW n, NEW b \in Backups, StoppedAfter(wal, ts, b, n) PROVE StoppedAfter(wal', ts, b, n)
  <2>1. b.sys \in Systems /\ b.lsn \in Nat /\ b.lsn >= 1
    BY DEF Backups
  <2>2. n \in 1..Len(wal[b.sys]) /\ n \in b.lsn .. Len(wal'[b.sys]) /\ wal'[b.sys][n] = wal[b.sys][n]
    BY <1>0, <1>1, <1>6, <2>1 DEF StoppedAfter
  <2>3. \A k \in b.lsn .. n - 1 : wal'[b.sys][k] = wal[b.sys][k]
    BY <1>0, <1>1, <2>1, <2>2
  <2> QED BY <1>6, <2>2, <2>3 DEF StoppedAfter
<1> QED BY <1>2, <1>3, <1>4, <1>5, <1>6

\* The one job that a step of its changes.
LEMMA OneJob ==
  ASSUME BeforeInv, NEW j \in Jobs, NEW x \in JobStates, job' = [job EXCEPT ![j] = x],
         mode # "restore", JobOK(wal', backups', x), Grows
  PROVE  JobsInv'
<1>1. job' \in [Jobs -> JobStates] /\ \A k \in Jobs : job'[k] = IF k = j THEN x ELSE job[k]
  BY DEF BeforeInv, JobsInv
<1>2. \A k \in Jobs : JobOK(wal', backups', job'[k])
  BY <1>1, GrowthKeeps DEF BeforeInv, JobsInv
<1>3. \A k \in Jobs : job'[k].pc # "idle" => mode' # "restore"
  BY <1>1 DEF Grows, BeforeInv, JobsInv
<1> QED BY <1>1, <1>2, <1>3 DEF JobsInv

\* What a step of a command does to it: pc, out and, at first, what it works on.
JobMoves(j) ==
  \/ job' = job
  \/ \E x \in JobStates :
       /\ job' = [job EXCEPT ![j] = x]
       /\ mode # "restore" /\ JobOK(wal', backups', x)
       /\ x.pc # "idle"
       /\ job[j].pc \in {"create", "wait", "check", "serve"} =>
            x.entry = job[j].entry /\ x.pos = job[j].pos /\ x.from = job[j].from

\* Every step of a command is such a move.
LEMMA JobMovesOn ==
  ASSUME BeforeInv, Grows, NEW j \in Jobs, Job(j)
  PROVE  JobMoves(j)
<1>0. job[j] \in JobStates /\ JobOK(wal, backups, job[j]) /\ JobOK(wal', backups', job[j]) /\ (job[j].pc # "idle" => mode # "restore")
  BY GrowthKeeps DEF BeforeInv, JobsInv
<1>1. ASSUME NEW o \in {"refused", "failed", "kept", "halfmade", "ok", "died"}, End(j, o), mode # "restore" PROVE JobMoves(j)
  <2> DEFINE x == [job[j] EXCEPT !.pc = "done", !.out = o]
  <2>1. x \in JobStates /\ x.pc = "done" /\ x.entry = job[j].entry /\ x.pos = job[j].pos /\ x.from = job[j].from
    BY <1>0 DEF JobStates
  <2>2. job' = [job EXCEPT ![j] = x]
    BY <1>1 DEF End, Set
  <2> HIDE DEF x
  <2>3. JobOK(wal', backups', x)
    BY <2>1 DEF JobOK
  <2> QED BY <1>1, <2>1, <2>2, <2>3 DEF JobMoves
<1>2. ASSUME NEW step \in {"pick", "wait", "check", "serve"}, Goto(j, step), job[j].pc # "idle",
             step = "pick" => job[j].pc = "flush",
             step # "pick" => job[j].pc \in {"create", "wait", "check", "serve"}
      PROVE  JobMoves(j)
  <2> DEFINE x == [job[j] EXCEPT !.pc = step]
  <2>1. x \in JobStates /\ x.pc = step /\ x.out = job[j].out /\ x.entry = job[j].entry /\ x.pos = job[j].pos /\ x.from = job[j].from
    BY <1>0 DEF JobStates
  <2>2. job' = [job EXCEPT ![j] = x]
    BY <1>2 DEF Goto, Set
  <2> HIDE DEF x
  <2>3. JobOK(wal', backups', x)
    BY <1>0, <1>2, <2>1 DEF JobOK, FoundIn, PickedIn
  <2> QED BY <1>0, <1>2, <2>1, <2>2, <2>3 DEF JobMoves
<1>3. CASE Begin(j)
  <2>1. CASE End(j, "refused")
    BY <1>1, <1>3, <2>1 DEF Begin
  <2>2. CASE ~ End(j, "refused")
    <3>1. PICK i \in DOMAIN Commits : Set(j, [job[j] EXCEPT !.pc = "flush", !.entry = Commits[i].entry, !.pos = i])
      BY <1>3, <2>2 DEF Begin
    <3> DEFINE x == [job[j] EXCEPT !.pc = "flush", !.entry = Commits[i].entry, !.pos = i]
    <3>2. mode # "restore" /\ system = 1 /\ Commits = wal[1] /\ wal' = wal /\ job[j].pc = "idle"
      BY <1>3 DEF Begin, BeforeInv, DatabaseInv, Commits, database
    <3>3. i \in 1..Len(wal[1]) /\ wal[1][i].entry \in Entries
      <4>1. wal[1] \in Seq(CommitRecords) /\ i \in DOMAIN wal[1]
        BY <3>2 DEF BeforeInv, DatabaseInv, Systems
      <4>2. i \in 1..Len(wal[1]) /\ wal[1][i] \in CommitRecords
        BY <4>1
      <4> QED BY <4>2 DEF CommitRecords
    <3>4. x \in JobStates /\ x.pc = "flush" /\ x.out = job[j].out /\ x.pos = i /\ x.entry = wal[1][i].entry
      <4>1. i \in Nat /\ Commits[i].entry \in Entries
        BY <3>2, <3>3
      <4> QED BY <1>0, <3>2, <4>1 DEF JobStates
    <3>5. job' = [job EXCEPT ![j] = x]
      BY <3>1 DEF Set
    <3> HIDE DEF x
    <3>6. JobOK(wal', backups', x)
      BY <1>0, <3>2, <3>3, <3>4 DEF JobOK, FoundIn
    <3> QED BY <3>2, <3>4, <3>5, <3>6 DEF JobMoves
  <2> QED BY <2>1, <2>2
<1>4. CASE FlushWAL(j)
  BY <1>0, <1>1, <1>2, <1>4 DEF FlushWAL
<1>5. CASE Pick(j)
  <2> DEFINE bs == pickBaseBackup(job[j].entry, system)
  <2>0. job[j].pc = "pick" /\ mode # "restore" /\ UNCHANGED <<wal, backups>>
    BY <1>0, <1>5 DEF Pick, database
  <2>1. CASE bs = {}
    BY <1>1, <1>5, <2>0, <2>1 DEF Pick
  <2>2. CASE bs # {}
    <3>1. PICK b \in bs : Set(j, [job[j] EXCEPT !.pc = "create", !.from = b])
      BY <1>5, <2>2 DEF Pick
    <3> DEFINE x == [job[j] EXCEPT !.pc = "create", !.from = b]
    <3>2. b \in backups /\ b.sys = 1 /\ b \in Backups
          /\ IF job[j].entry.lsn > 0 THEN b.lsn <= job[j].entry.lsn ELSE b.time < job[j].entry.at
      BY <2>0 DEF pickBaseBackup, BeforeInv, DatabaseInv
    <3>3. x \in JobStates /\ x.pc = "create" /\ x.out = job[j].out /\ x.entry = job[j].entry /\ x.pos = job[j].pos /\ x.from = b
      BY <1>0, <3>2 DEF JobStates
    <3>4. job' = [job EXCEPT ![j] = x]
      BY <3>1 DEF Set
    <3> HIDE DEF x
    <3>5. FoundIn(wal', job[j])
      BY <1>0, <2>0 DEF JobOK
    <3>6. JobOK(wal', backups', x)
      BY <1>0, <2>0, <3>2, <3>3, <3>5 DEF JobOK, PickedIn, FoundIn
    <3> QED BY <2>0, <3>3, <3>4, <3>6 DEF JobMoves
  <2> QED BY <2>1, <2>2
<1>6. CASE CreateEmpty(j)
  BY <1>0, <1>1, <1>2, <1>6 DEF CreateEmpty
<1>7. CASE Recover(j)
  BY <1>7 DEF Recover, JobMoves
<1>8. CASE WaitPromoted(j) \/ CheckAbsent(j) \/ Serve(j)
  BY <1>0, <1>1, <1>2, <1>8 DEF WaitPromoted, CheckAbsent, Serve, fail
<1>9. CASE Die(j)
  BY <1>0, <1>1, <1>9 DEF Die
<1> QED BY <1>3, <1>4, <1>5, <1>6, <1>7, <1>8, <1>9 DEF Job

\* Every step keeps the commands in order.
LEMMA JobsKept == BeforeInv /\ [Next]_vars => JobsInv'
<1> SUFFICES ASSUME BeforeInv, [Next]_vars PROVE JobsInv'
  OBVIOUS
<1>0. Grows
  BY DatabaseKept DEF BeforeInv
<1>1. CASE job' = job
  BY <1>0, <1>1, GrowthKeeps DEF BeforeInv, JobsInv, Grows
<1>2. ASSUME NEW j \in Jobs, Job(j) PROVE JobsInv'
  <2>1. JobMoves(j)
    BY <1>0, <1>2, JobMovesOn
  <2> QED BY <1>0, <1>1, <2>1, OneJob DEF JobMoves
<1>3. CASE Database
  BY <1>1, <1>3 DEF Database, Tick, Backup, PrimaryStop, PrimaryStart, Record, Commit, before
<1>4. ASSUME NEW r \in Restores, Restore(r) PROVE JobsInv'
  BY <1>1, <1>4 DEF Restore, PickRestore, PickLatest, RunRestore, WaitRecovered, before
<1>5. CASE RecoverRestore \/ UserCreate \/ UserDelete \/ UNCHANGED vars
  BY <1>1, <1>5 DEF RecoverRestore, UserCreate, UserDelete, vars, before
<1> QED BY <1>2, <1>3, <1>4, <1>5 DEF Next

\* A command's next point or its end, and the other commands.
LEMMA JobAfter ==
  ASSUME BeforeInv, NEW j \in Jobs
  PROVE  /\ \A o : End(j, o) => /\ \A k \in Jobs \ {j} : job'[k] = job[k]
                                /\ job'[j].pc = "done" /\ job'[j].out = o
                                /\ job'[j].entry = job[j].entry /\ job'[j].pos = job[j].pos /\ job'[j].from = job[j].from
         /\ \A s : Goto(j, s) => /\ \A k \in Jobs \ {j} : job'[k] = job[k]
                                 /\ job'[j].pc = s /\ job'[j].out = job[j].out
                                 /\ job'[j].entry = job[j].entry /\ job'[j].pos = job[j].pos /\ job'[j].from = job[j].from
<1>1. job \in [Jobs -> JobStates] /\ job[j] \in JobStates
  BY DEF BeforeInv, JobsInv
<1> QED BY <1>1 DEF End, Goto, Set, JobStates

\* The branch that a step leaves alone.
LEMMA BranchStays ==
  ASSUME BeforeInv, Grows, branch' = branch,
         branch # None /\ branch.by # "user" =>
           LET x == job[branch.by]
               y == job'[branch.by] IN
           /\ y.entry = x.entry /\ y.pos = x.pos /\ y.from = x.from
           /\ y.pc \in {"wait", "check", "serve", "done"}
           /\ y.pc = "done" => branch.state = "branch" \/ y.out \in {"died", "kept", "halfmade"}
  PROVE  BranchInv'
<1> SUFFICES ASSUME branch # None, branch.by # "user" PROVE MadeBy(wal', backups', job'[branch.by], branch)
  BY DEF BeforeInv, BranchInv
<1> DEFINE x == job[branch.by]
           y == job'[branch.by]
<1>1. MadeBy(wal, backups, x, branch)
  BY DEF BeforeInv, BranchInv
<1>2. PickedIn(wal', backups', x) /\ x.from \in Backups
  BY <1>1, GrowthKeeps DEF MadeBy, PickedIn, BeforeInv, DatabaseInv
<1>3. PickedIn(wal', backups', y)
  BY <1>2 DEF PickedIn, FoundIn
<1>4. branch.state \in {"promoted", "branch"} => StoppedBefore(wal', x.entry, x.from, branch.upto + 1)
  BY <1>1, <1>2, GrowthKeeps DEF MadeBy, BeforeInv
<1> QED BY <1>1, <1>3, <1>4 DEF MadeBy

\* Every step keeps the branch what its maker made of it.
LEMMA BranchKept == BeforeInv /\ [Next]_vars => BranchInv'
<1> SUFFICES ASSUME BeforeInv, [Next]_vars PROVE BranchInv'
  OBVIOUS
<1>0. Grows
  BY DatabaseKept DEF BeforeInv
<1>1. CASE branch' = None
  BY <1>1 DEF BranchInv
<1>b. branch # None => /\ branch \in BranchStates /\ (branch.by = "user" => branch.state = "branch")
                       /\ branch.by # "user" => branch.by \in Jobs /\ MadeBy(wal, backups, job[branch.by], branch)
  BY DEF BeforeInv, BranchInv, BranchStates
<1>2. CASE branch' = branch /\ job' = job
  BY <1>0, <1>2, <1>b, BranchStays DEF MadeBy
<1>3. ASSUME NEW j \in Jobs, branch' = branch, job[j].pc \in {"idle", "flush", "pick", "create"}, JobMoves(j)
      PROVE  BranchInv'
  <2>1. branch # None => branch.by # j
    BY <1>3, <1>b, NamesAssumption DEF MadeBy
  <2>2. \A k \in Jobs : k # j => job'[k] = job[k]
    BY <1>3 DEF JobMoves, BeforeInv, JobsInv
  <2> QED BY <1>0, <1>3, <1>b, <2>1, <2>2, BranchStays DEF MadeBy
<1>4. ASSUME NEW j \in Jobs, Job(j) PROVE BranchInv'
  <2>0. JobMoves(j)
    BY <1>0, <1>4, JobMovesOn
  <2>1. CASE Begin(j) \/ FlushWAL(j) \/ Pick(j)
    BY <1>3, <2>0, <2>1 DEF Begin, FlushWAL, Pick
  <2>2. CASE CreateEmpty(j)
    <3>1. CASE UNCHANGED branch
      BY <1>3, <2>0, <2>2, <3>1 DEF CreateEmpty
    <3>2. ASSUME NEW s \in {"restoring", "stopped"}, branch' = EmptyBranch(j, s),
                 IF s = "restoring" THEN Goto(j, "wait") ELSE End(j, "halfmade")
          PROVE  BranchInv'
      <4> DEFINE br == EmptyBranch(j, s)
      <4>1. branch' = br /\ job[j].pc = "create" /\ UNCHANGED <<wal, backups>>
        BY <2>2, <3>2 DEF CreateEmpty, database
      <4>2. PickedIn(wal, backups, job[j])
        BY <4>1 DEF BeforeInv, JobsInv, JobOK
      <4>3. br \in BranchStates /\ br.by = j /\ br.state = s /\ br.sys = 1
        BY <4>2 DEF EmptyBranch, PickedIn, BranchStates, Systems
      <4>4. /\ job'[j].pc = "wait" \/ (job'[j].pc = "done" /\ job'[j].out = "halfmade")
            /\ job'[j].entry = job[j].entry /\ job'[j].pos = job[j].pos /\ job'[j].from = job[j].from
        BY <3>2, JobAfter
      <4> HIDE DEF br
      <4>5. MadeBy(wal', backups', job'[j], br)
        BY <4>1, <4>2, <4>3, <4>4 DEF MadeBy, PickedIn, FoundIn
      <4> QED BY <4>1, <4>3, <4>5, NamesAssumption DEF BranchInv
    <3> QED BY <2>2, <3>1, <3>2 DEF CreateEmpty
  <2>3. CASE Recover(j)
    <3> DEFINE stop == BeforeStop(job[j].entry, job[j].from)
               stopped == [branch EXCEPT !.state = "stopped"]
               promoted == [branch EXCEPT !.state = "promoted", !.upto = stop - 1]
    <3>1. /\ branch # None /\ branch.by = j /\ branch.state = "restoring"
          /\ branch' = IF stop = 0 THEN stopped ELSE promoted
          /\ UNCHANGED <<job, wal, backups>>
      BY <2>3 DEF Recover, exists, database
    <3>2. branch.by # "user" /\ MadeBy(wal, backups, job[j], branch) /\ branch \in BranchStates
      BY <1>b, <3>1, NamesAssumption
    <3>3. job[j].from \in Backups
      BY <3>2 DEF MadeBy, PickedIn, BeforeInv, DatabaseInv
    <3>4. stop # 0 => StoppedBefore(wal, job[j].entry, job[j].from, stop)
      BY <3>3, BeforeStopIsFirst DEF BeforeInv
    <3>5. stop # 0 => stop \in Nat /\ stop - 1 \in Nat /\ (stop - 1) + 1 = stop
      <4>1. job[j].from.lsn \in Nat \ {0} /\ job[j].from.sys \in Systems
        BY <3>3 DEF Backups
      <4>2. Len(wal[job[j].from.sys]) \in Nat
        BY <4>1 DEF BeforeInv, DatabaseInv
      <4>3. stop # 0 => stop \in job[j].from.lsn .. Len(wal[job[j].from.sys])
        BY <3>4 DEF StoppedBefore
      <4> HIDE DEF stop
      <4> QED BY <4>1, <4>2, <4>3
    <3>6. job[j].pc = "done" => job[j].out \in {"died", "kept", "halfmade"}
      BY <3>1, <3>2 DEF MadeBy
    <3> HIDE DEF stop
    <3>7. CASE stop = 0
      <4>1. stopped \in BranchStates /\ stopped.by = j /\ stopped.state = "stopped" /\ stopped.sys = branch.sys
        BY <3>1, <3>2 DEF BranchStates
      <4> HIDE DEF stopped
      <4>2. MadeBy(wal, backups, job[j], stopped)
        BY <3>2, <3>6, <4>1 DEF MadeBy
      <4> QED BY <3>1, <3>7, <4>1, <4>2, NamesAssumption DEF BranchInv
    <3>8. CASE stop # 0
      <4>1. /\ promoted \in BranchStates /\ promoted.by = j /\ promoted.state = "promoted" /\ promoted.sys = branch.sys
            /\ promoted.upto = stop - 1
        BY <3>1, <3>2, <3>5, <3>8 DEF BranchStates
      <4> HIDE DEF promoted
      <4>2. MadeBy(wal, backups, job[j], promoted)
        BY <3>2, <3>4, <3>5, <3>6, <3>8, <4>1 DEF MadeBy
      <4> QED BY <3>1, <3>8, <4>1, <4>2, NamesAssumption DEF BranchInv
    <3> QED BY <3>7, <3>8
  <2>4. ASSUME Goto(j, "check") \/ Goto(j, "serve") \/ End(j, "died") \/ End(j, "kept"), branch' = branch,
               job[j].pc \notin {"idle", "done"}
        PROVE  BranchInv'
    <3>1. /\ \A k \in Jobs \ {j} : job'[k] = job[k]
          /\ job'[j].entry = job[j].entry /\ job'[j].pos = job[j].pos /\ job'[j].from = job[j].from
          /\ job'[j].pc \in {"check", "serve", "done"} /\ (job'[j].pc = "done" => job'[j].out \in {"died", "kept"})
      BY <2>4, JobAfter
    <3> QED BY <1>0, <1>b, <2>4, <3>1, BranchStays DEF MadeBy
  <2>b. ASSUME fail(j), job[j].pc \in {"wait", "check", "serve"}, UNCHANGED <<wal, backups>> PROVE BranchInv'
    <3>1. CASE branch' = None
      BY <1>1, <3>1
    <3>2. CASE End(j, "kept") /\ branch' = branch
      BY <2>4, <2>b, <3>2
    <3>3. CASE branch # None /\ End(j, "kept") /\ branch.state # "branch" /\ branch' = [branch EXCEPT !.state = "stopped"]
      <4> DEFINE br == [branch EXCEPT !.state = "stopped"]
                 k == branch.by
      <4>1. br \in BranchStates /\ br.by = k /\ br.state = "stopped" /\ br.sys = branch.sys
        BY <1>b, <3>3 DEF BranchStates
      <4>2. k # "user" /\ k \in Jobs /\ MadeBy(wal, backups, job[k], branch)
        BY <1>b, <3>3
      <4>3. /\ \A i \in Jobs \ {j} : job'[i] = job[i]
            /\ job'[j].entry = job[j].entry /\ job'[j].pos = job[j].pos /\ job'[j].from = job[j].from
            /\ job'[j].pc = "done" /\ job'[j].out = "kept"
        BY <3>3, JobAfter
      <4>4. branch' = br
        BY <3>3
      <4> HIDE DEF br
      <4>5. CASE k = j
        BY <2>b, <4>1, <4>2, <4>3, <4>4, <4>5 DEF BranchInv, MadeBy, PickedIn, FoundIn
      <4>6. CASE k # j
        <5>1. job'[k] = job[k]
          BY <4>2, <4>3, <4>6
        <5> QED BY <2>b, <3>3, <4>1, <4>2, <4>4, <5>1 DEF BranchInv, MadeBy
      <4> QED BY <4>5, <4>6
    <3> QED BY <2>b, <3>1, <3>2, <3>3 DEF fail, exists
  <2>5. CASE WaitPromoted(j) \/ CheckAbsent(j)
    BY <2>4, <2>5, <2>b DEF WaitPromoted, CheckAbsent, database
  <2>6. CASE Serve(j)
    <3>1. CASE fail(j)
      BY <2>6, <2>b, <3>1 DEF Serve, database
    <3>2. CASE ~ fail(j)
      <4> DEFINE br == [branch EXCEPT !.state = "branch"]
      <4>1. /\ branch # None /\ branch.state \in {"promoted", "branch"} /\ branch' = br /\ End(j, "ok")
            /\ UNCHANGED <<wal, backups>> /\ job[j].pc = "serve"
        BY <2>6, <3>2 DEF Serve, Serving, exists, database
      <4>2. br \in BranchStates /\ br.by = branch.by /\ br.state = "branch" /\ br.sys = branch.sys /\ br.upto = branch.upto
        BY <1>b, <4>1 DEF BranchStates
      <4> HIDE DEF br
      <4>3. /\ \A k \in Jobs \ {j} : job'[k] = job[k]
            /\ job'[j].entry = job[j].entry /\ job'[j].pos = job[j].pos /\ job'[j].from = job[j].from /\ job'[j].pc = "done"
        BY <4>1, JobAfter
      <4>4. branch.by # "user" => MadeBy(wal, backups, job'[branch.by], br)
        <5> SUFFICES ASSUME branch.by # "user" PROVE MadeBy(wal, backups, job'[branch.by], br)
          OBVIOUS
        <5>1. MadeBy(wal, backups, job[branch.by], branch) /\ branch.by \in Jobs
          BY <1>b, <4>1
        <5>2. /\ job'[branch.by].entry = job[branch.by].entry /\ job'[branch.by].pos = job[branch.by].pos
              /\ job'[branch.by].from = job[branch.by].from /\ job'[branch.by].pc \in {"wait", "check", "serve", "done"}
          BY <4>3, <5>1 DEF MadeBy
        <5> QED BY <4>1, <4>2, <5>1, <5>2 DEF MadeBy, PickedIn, FoundIn
      <4> QED BY <4>1, <4>2, <4>4 DEF BranchInv
    <3> QED BY <3>1, <3>2
  <2>7. CASE Die(j)
    BY <2>4, <2>7 DEF Die
  <2> QED BY <1>4, <2>1, <2>2, <2>3, <2>5, <2>6, <2>7 DEF Job
<1>5. CASE Database
  BY <1>2, <1>5 DEF Database, Tick, Backup, PrimaryStop, PrimaryStart, Record, Commit, before
<1>6. ASSUME NEW r \in Restores, Restore(r) PROVE BranchInv'
  BY <1>2, <1>6 DEF Restore, PickRestore, PickLatest, RunRestore, WaitRecovered, before
<1>7. CASE UserCreate
  <2> DEFINE br == [by |-> "user", state |-> "branch", sys |-> system, upto |-> Len(Commits)]
  <2>1. branch' = br
    BY <1>7 DEF UserCreate
  <2>2. br \in BranchStates /\ br.by = "user" /\ br.state = "branch"
    BY DEF BranchStates, Commits, BeforeInv, DatabaseInv
  <2> HIDE DEF br
  <2> QED BY <2>1, <2>2 DEF BranchInv
<1>8. CASE UserDelete
  BY <1>1, <1>8 DEF UserDelete
<1>9. CASE RecoverRestore \/ UNCHANGED vars
  BY <1>2, <1>9 DEF RecoverRestore, vars, before
<1> QED BY <1>4, <1>5, <1>6, <1>7, <1>8, <1>9 DEF Next

\* Every step keeps a branch with its maker, or marks that it does not.
LEMMA OwnKept == BeforeInv /\ [Next]_vars => OwnInv'
<1> SUFFICES ASSUME BeforeInv, [Next]_vars PROVE OwnInv'
  OBVIOUS
<1>0. CASE UNCHANGED <<usurped, wiped, job, branch>>
  BY <1>0 DEF BeforeInv, OwnInv
<1> DEFINE AtRisk(x) == x.pc \in {"wait", "check", "serve"}
<1>a. (wiped => usurped) /\ (~ usurped => \A j \in Jobs : AtRisk(job[j]) => branch # None /\ branch.by = j)
  BY DEF BeforeInv, OwnInv
<1>1. ASSUME NEW j \in Jobs, UNCHANGED <<usurped, wiped>>, \A k \in Jobs \ {j} : job'[k] = job[k],
             ~ usurped => \/ branch' = branch /\ (AtRisk(job'[j]) => AtRisk(job[j]))
                          \/ branch' # None /\ branch # None /\ branch'.by = branch.by /\ (AtRisk(job'[j]) => AtRisk(job[j]))
                          \/ branch = None /\ branch' # None /\ branch'.by = j
                          \/ branch # None /\ branch.by = j /\ ~ AtRisk(job'[j])
      PROVE  OwnInv'
  BY <1>1, <1>a DEF OwnInv
<1>2. ASSUME NEW j \in Jobs, fail(j), AtRisk(job[j]), UNCHANGED usurped PROVE OwnInv'
  <2>1. /\ \A k \in Jobs \ {j} : job'[k] = job[k]
        /\ job'[j].pc = "done"
    BY <1>2, JobAfter DEF fail
  <2>2. CASE usurped
    BY <1>2, <2>2 DEF OwnInv
  <2>3. CASE ~ usurped
    <3>1. branch # None /\ branch.by = j /\ branch.by # "user"
      BY <1>2, <1>a, <2>3, NamesAssumption
    <3>2. ~ wiped'
      BY <1>2, <1>a, <2>3, <3>1 DEF fail, exists
    <3>3. ~ AtRisk(job'[j]) /\ \A k \in Jobs \ {j} : ~ AtRisk(job'[k])
      BY <1>a, <2>1, <2>3, <3>1
    <3> QED BY <3>2, <3>3 DEF OwnInv
  <2> QED BY <2>2, <2>3
<1>3. ASSUME NEW j \in Jobs, Job(j) PROVE OwnInv'
  <2>1. ASSUME NEW o, End(j, o), UNCHANGED <<usurped, wiped, branch>> PROVE OwnInv'
    <3>1. (\A k \in Jobs \ {j} : job'[k] = job[k]) /\ ~ AtRisk(job'[j])
      BY <2>1, JobAfter
    <3> QED BY <1>1, <2>1, <3>1
  <2>2. ASSUME NEW s, Goto(j, s), AtRisk([pc |-> s]) => AtRisk(job[j]), UNCHANGED <<usurped, wiped, branch>> PROVE OwnInv'
    <3>1. (\A k \in Jobs \ {j} : job'[k] = job[k]) /\ (AtRisk(job'[j]) => AtRisk(job[j]))
      BY <2>2, JobAfter
    <3> QED BY <1>1, <2>2, <3>1
  <2>3. ASSUME NEW x, Set(j, x), ~ AtRisk(x), UNCHANGED <<usurped, wiped, branch>> PROVE OwnInv'
    <3>1. (\A k \in Jobs \ {j} : job'[k] = job[k]) /\ ~ AtRisk(job'[j])
      BY <2>3 DEF Set, BeforeInv, JobsInv
    <3> QED BY <1>1, <2>3, <3>1
  <2>a. job[j] \in JobStates
    BY DEF BeforeInv, JobsInv
  <2>4. CASE Begin(j)
    <3>1. ASSUME NEW e, NEW i PROVE ~ AtRisk([job[j] EXCEPT !.pc = "flush", !.entry = e, !.pos = i])
      BY <2>a DEF JobStates
    <3> QED BY <2>1, <2>3, <2>4, <3>1 DEF Begin
  <2>5. CASE FlushWAL(j)
    BY <2>1, <2>2, <2>5 DEF FlushWAL
  <2>6. CASE Pick(j)
    <3>1. ASSUME NEW b PROVE ~ AtRisk([job[j] EXCEPT !.pc = "create", !.from = b])
      BY <2>a DEF JobStates
    <3> QED BY <2>1, <2>3, <2>6, <3>1 DEF Pick
  <2>7. CASE CreateEmpty(j)
    <3>1. CASE End(j, "failed") /\ UNCHANGED branch
      BY <2>1, <2>7, <3>1 DEF CreateEmpty
    <3>2. ASSUME NEW s \in {"restoring", "stopped"}, branch' = EmptyBranch(j, s), ~ exists,
                 Goto(j, "wait") \/ End(j, "halfmade")
          PROVE  OwnInv'
      <4> DEFINE br == EmptyBranch(j, s)
      <4>1. branch = None /\ branch' = br /\ job[j].pc = "create" /\ UNCHANGED <<usurped, wiped>>
        BY <2>7, <3>2 DEF CreateEmpty, exists
      <4>2. \A k \in Jobs \ {j} : job'[k] = job[k]
        BY <3>2, JobAfter
      <4>3. br # None /\ br.by = j
        <5>1. PickedIn(wal, backups, job[j])
          BY <4>1 DEF BeforeInv, JobsInv, JobOK
        <5>2. br \in BranchStates
          BY <5>1 DEF EmptyBranch, PickedIn, BranchStates, Systems
        <5> QED BY <5>2, NamesAssumption DEF EmptyBranch
      <4> HIDE DEF br
      <4> QED BY <1>1, <4>1, <4>2, <4>3
    <3> QED BY <2>7, <3>1, <3>2 DEF CreateEmpty
  <2>8. CASE Recover(j)
    <3>1. /\ branch # None /\ UNCHANGED <<usurped, wiped, job>> /\ branch \in BranchStates
      BY <2>8 DEF Recover, exists, BeforeInv, BranchInv
    <3>2. \E s, u : branch' = [branch EXCEPT !.state = s] \/ branch' = [branch EXCEPT !.state = s, !.upto = u]
      BY <2>8 DEF Recover
    <3>3. branch'.by = branch.by
      BY <3>1, <3>2 DEF BranchStates
    <3>4. branch' # None
      <4>1. CASE branch' = [branch EXCEPT !.state = "stopped"]
        <5>1. [branch EXCEPT !.state = "stopped"] \in BranchStates
          BY <3>1 DEF BranchStates
        <5> QED BY <4>1, <5>1, NamesAssumption
      <4>2. CASE BeforeStop(job[j].entry, job[j].from) # 0
        <5> DEFINE stop == BeforeStop(job[j].entry, job[j].from)
        <5>1. branch' = [branch EXCEPT !.state = "promoted", !.upto = stop - 1] /\ branch.by = j
          BY <2>8, <4>2 DEF Recover
        <5>2. job[j].from \in Backups
          BY <3>1, <5>1, NamesAssumption DEF BeforeInv, BranchInv, MadeBy, PickedIn, DatabaseInv
        <5>3. stop \in job[j].from.lsn .. Len(wal[job[j].from.sys])
          BY <4>2, <5>2, BeforeStopIsFirst DEF BeforeInv, StoppedBefore
        <5>4. job[j].from.lsn \in Nat \ {0} /\ Len(wal[job[j].from.sys]) \in Nat
          BY <5>2 DEF Backups, BeforeInv, DatabaseInv
        <5> HIDE DEF stop
        <5>5. stop - 1 \in Nat
          BY <5>3, <5>4
        <5>6. [branch EXCEPT !.state = "promoted", !.upto = stop - 1] \in BranchStates
          BY <3>1, <5>5 DEF BranchStates
        <5> QED BY <5>1, <5>6, NamesAssumption
      <4> QED BY <2>8, <4>1, <4>2 DEF Recover
    <3> QED BY <1>1, <3>1, <3>3, <3>4
  <2>9. CASE WaitPromoted(j)
    BY <1>2, <2>2, <2>9 DEF WaitPromoted
  <2>10. CASE CheckAbsent(j)
    BY <1>2, <2>2, <2>10 DEF CheckAbsent
  <2>11. CASE Serve(j)
    <3>1. CASE fail(j)
      BY <1>2, <2>11, <3>1 DEF Serve
    <3>2. CASE ~ fail(j)
      <4> DEFINE br == [branch EXCEPT !.state = "branch"]
      <4>1. branch # None /\ branch' = br /\ End(j, "ok") /\ UNCHANGED <<usurped, wiped>>
        BY <2>11, <3>2 DEF Serve, Serving, exists
      <4>2. br \in BranchStates /\ br.by = branch.by
        BY <4>1 DEF BranchStates, BeforeInv, BranchInv
      <4>3. (\A k \in Jobs \ {j} : job'[k] = job[k]) /\ ~ AtRisk(job'[j])
        BY <4>1, JobAfter
      <4> HIDE DEF br
      <4> QED BY <1>1, <4>1, <4>2, <4>3, NamesAssumption
    <3> QED BY <3>1, <3>2
  <2>12. CASE Die(j)
    BY <2>1, <2>12 DEF Die
  <2> QED BY <1>3, <2>4, <2>5, <2>6, <2>7, <2>8, <2>9, <2>10, <2>11, <2>12 DEF Job
<1>4. CASE Database
  BY <1>0, <1>4 DEF Database, Tick, Backup, PrimaryStop, PrimaryStart, Record, Commit, before
<1>5. ASSUME NEW r \in Restores, Restore(r) PROVE OwnInv'
  BY <1>0, <1>5 DEF Restore, PickRestore, PickLatest, RunRestore, WaitRecovered, before
<1>6. CASE UserCreate
  BY <1>6, <1>a DEF UserCreate, exists, OwnInv
<1>7. CASE UserDelete
  <2>1. branch # None /\ UNCHANGED <<job, wiped>> /\ usurped' = (usurped \/ branch.by # "user")
    BY <1>7 DEF UserDelete, exists
  <2>2. CASE usurped'
    BY <2>2 DEF OwnInv
  <2>3. CASE ~ usurped'
    <3>1. ~ usurped /\ branch.by = "user"
      BY <2>1, <2>3
    <3> QED BY <1>a, <2>1, <3>1, NamesAssumption DEF OwnInv
  <2> QED BY <2>2, <2>3
<1>8. CASE RecoverRestore \/ UNCHANGED vars
  BY <1>0, <1>8 DEF RecoverRestore, vars, before
<1> QED BY <1>3, <1>4, <1>5, <1>6, <1>7, <1>8 DEF Next
-----------------------------------------------------------------------------
(* What branch-before promises *)

\* Every state has the invariant of the branch-before commands.
LEMMA BeforeInvAlways == Spec => []BeforeInv
<1>1. Init => BeforeInv
  <2> SUFFICES ASSUME Init PROVE BeforeInv
    OBVIOUS
  <2>1. NoTx \in Entries /\ NoTx.lsn = 0 /\ NoTx.at = 0
    BY DEF NoTx, Entries
  <2>2. /\ NoJob \in JobStates /\ NoJob.pc = "idle" /\ NoJob.out = "none"
    BY <2>1 DEF NoJob, JobStates
  <2>3. \A s \in Systems : wal[s] = <<>> /\ archived[s] = 0
    BY DEF Init
  <2>4. DatabaseInv
    <3>1. wal \in [Systems -> Seq(CommitRecords)] /\ archived \in [Systems -> Nat]
      BY DEF Init
    <3>2. tx \in [Txs -> Entries] /\ \A t \in Txs : tx[t] = NoTx
      BY <2>1 DEF Init
    <3>3. now = 0 /\ system = 1 /\ xids = 0 /\ up = TRUE /\ backups = {} /\ mode \in {"xid", "time", "restore"}
      BY DEF Init
    <3>4. \A s \in Systems : Len(wal[s]) = 0
      BY <2>3
    <3>5. \A t \in Txs : tx[t].at <= now /\ tx[t].lsn <= Len(wal[system]) + 1 /\ tx[t].lsn = 0
      BY <2>1, <3>2, <3>3, <3>4 DEF Systems
    <3> QED BY <2>3, <3>1, <3>2, <3>3, <3>4, <3>5, BoundsAssumption DEF DatabaseInv, Systems
  <2>5. JobsInv
    <3>1. job \in [Jobs -> JobStates] /\ \A j \in Jobs : job[j] = NoJob
      BY <2>2 DEF Init
    <3> QED BY <2>2, <3>1 DEF JobsInv, JobOK
  <2>6. BranchInv /\ OwnInv
    BY <2>2 DEF Init, BranchInv, OwnInv
  <2> QED BY <2>4, <2>5, <2>6 DEF BeforeInv
<1>2. BeforeInv /\ [Next]_vars => BeforeInv'
  BY DatabaseKept, JobsKept, BranchKept, OwnKept DEF BeforeInv
<1> QED BY <1>1, <1>2, PTL DEF Spec

\* BranchBeforeEntry's fail() removes the name's container and storage whoever made
\* them; it only ever meets a branch that it did not make if a user deleted the one
\* that it was restoring and used the name again.
THEOREM FailRemovesOwnBranch == Spec => []FailRemovesOnlyItsOwn
<1>1. BeforeInv => FailRemovesOnlyItsOwn
  BY DEF BeforeInv, OwnInv, FailRemovesOnlyItsOwn
<1> QED BY <1>1, BeforeInvAlways, PTL

\* Every way in which branch-before ends leaves a finished branch or none, but for a
\* process that died, a removal that failed and a createEmpty that failed half way.
THEOREM UnfinishedForACause == Spec => []UnfinishedHasACause
<1>1. BeforeInv => UnfinishedHasACause
  BY DEF BeforeInv, BranchInv, MadeBy, UnfinishedHasACause, exists
<1> QED BY <1>1, BeforeInvAlways, PTL

\* The branch of branch-before holds every commit before the entry's and no other: the
\* backup was picked before the entry's change and recovery stops at the first commit
\* with the entry's transaction id, or of its instant; unless a commit since the backup
\* has the same 32-bit id.
THEOREM BranchHoldsExactlyBefore == Spec => []HoldsExactlyBefore
<1>1. BeforeInv => HoldsExactlyBefore
  <2> SUFFICES ASSUME BeforeInv, NEW j \in Jobs, Kept(j), ~ Wrapped(j)
               PROVE  LET e == job[j].entry IN
                      IF e.lsn > 0 THEN branch.upto = job[j].pos - 1
                      ELSE /\ branch.upto < job[j].pos
                           /\ \A i \in DOMAIN wal[branch.sys] :
                                i <= branch.upto <=> \A k \in 1..i : wal[branch.sys][k].time < e.at
    BY DEF HoldsExactlyBefore
  <2> DEFINE e == job[j].entry
             b == job[j].from
             w == wal[1]
             p == job[j].pos
             n == branch.upto + 1
  <2>1. job[j].out = "ok" /\ branch # None /\ branch.by = j /\ branch \in BranchStates
    BY DEF Kept, exists, BeforeInv, BranchInv
  <2>2. job[j].pc = "done" /\ MadeBy(wal, backups, job[j], branch)
    BY <2>1, NamesAssumption DEF BeforeInv, BranchInv, JobsInv, JobOK
  <2>3. branch.sys = 1 /\ StoppedBefore(wal, e, b, n) /\ PickedIn(wal, backups, job[j])
    BY <2>1, <2>2 DEF MadeBy
  <2>4. b \in Backups /\ b.sys = 1 /\ b.lsn \in Nat /\ b.lsn >= 1 /\ b.time \in Nat /\ b \in backups
    BY <2>3 DEF PickedIn, BeforeInv, DatabaseInv, Backups
  <2>5. /\ w \in Seq(CommitRecords) /\ Len(w) \in Nat /\ p \in 1..Len(w) /\ e = w[p].entry
        /\ \A i \in 1..Len(w) : w[i] \in CommitRecords /\ w[i].time \in Nat /\ w[i].xid \in Nat
    <3>1. w \in Seq(CommitRecords) /\ p \in 1..Len(w) /\ e = w[p].entry
      BY <2>3 DEF PickedIn, FoundIn, BeforeInv, DatabaseInv, Systems
    <3>2. Len(w) \in Nat /\ \A i \in 1..Len(w) : w[i] \in CommitRecords
      BY <3>1
    <3> QED BY <3>1, <3>2 DEF CommitRecords
  <2>6. w[p].xid = e.xid /\ e.at <= w[p].time /\ e.lsn <= p /\ e \in Entries /\ e.at \in Nat /\ e.lsn \in Nat /\ e.xid \in Nat
    <3>1. w[p] \in CommitRecords /\ e \in Entries
      BY <2>5 DEF CommitRecords
    <3>2. 1 \in Systems /\ w[p].xid = w[p].entry.xid /\ w[p].entry.at <= w[p].time /\ w[p].entry.lsn <= p
      BY <2>5 DEF BeforeInv, DatabaseInv, Systems
    <3> QED BY <2>5, <3>1, <3>2 DEF Entries
  <2>7. n \in b.lsn .. Len(w) /\ BeforeHit(e, w[n]) /\ \A k \in b.lsn .. n - 1 : ~ BeforeHit(e, w[k])
    BY <2>3, <2>4 DEF StoppedBefore
  <2>8. branch.upto \in Nat
    BY <2>1 DEF BranchStates
  <2>9. CASE e.lsn > 0
    <3>1. b.lsn <= e.lsn
      BY <2>3, <2>9 DEF PickedIn
    <3>2. \A i \in b.lsn .. p - 1 : ~ (w[i].xid % XidMod = e.xid % XidMod)
      BY <2>3 DEF Wrapped
    <3>3. w[n].xid % XidMod = e.xid % XidMod /\ \A k \in b.lsn .. n - 1 : ~ (w[k].xid % XidMod = e.xid % XidMod)
      BY <2>7, <2>9 DEF BeforeHit
    <3>4. ~ (n < p)
      <4> SUFFICES ASSUME n < p PROVE FALSE
        OBVIOUS
      <4>1. n \in b.lsn .. p - 1
        BY <2>4, <2>5, <2>7
      <4> QED BY <3>2, <3>3, <4>1
    <3>5. ~ (p < n)
      <4> SUFFICES ASSUME p < n PROVE FALSE
        OBVIOUS
      <4>1. p \in b.lsn .. n - 1
        BY <2>4, <2>5, <2>6, <2>8, <3>1
      <4> QED BY <2>6, <3>3, <4>1
    <3> QED BY <2>5, <2>8, <2>9, <3>4, <3>5
  <2>10. CASE ~ (e.lsn > 0)
    <3>1. b.time < e.at
      BY <2>3, <2>10 DEF PickedIn
    <3>2. ASSUME NEW k \in 1..Len(w), k < b.lsn PROVE w[k].time < e.at
      <4>1. w[k].time <= b.time
        BY <2>4, <3>2 DEF BeforeInv, DatabaseInv
      <4> QED BY <2>4, <2>5, <2>6, <3>1, <4>1
    <3>3. w[n].time >= e.at /\ \A k \in b.lsn .. n - 1 : w[k].time < e.at
      <4>1. w[n].time >= e.at /\ \A k \in b.lsn .. n - 1 : ~ (w[k].time >= e.at)
        BY <2>7, <2>10 DEF BeforeHit
      <4>2. \A k \in b.lsn .. n - 1 : w[k].time \in Nat
        BY <2>4, <2>5, <2>7
      <4> QED BY <2>6, <4>1, <4>2
    <3>4. ~ (p < n)
      <4> SUFFICES ASSUME p < n PROVE FALSE
        OBVIOUS
      <4>1. p \in 1..Len(w) /\ (p < b.lsn \/ p \in b.lsn .. n - 1)
        BY <2>4, <2>5, <2>8
      <4>2. w[p].time < e.at
        BY <3>2, <3>3, <4>1
      <4> QED BY <2>5, <2>6, <4>2
    <3>5. ASSUME NEW i \in DOMAIN w PROVE i <= branch.upto <=> \A k \in 1..i : w[k].time < e.at
      <4>0. i \in 1..Len(w)
        BY <2>5
      <4>1. ASSUME i <= branch.upto, NEW k \in 1..i PROVE w[k].time < e.at
        <5>1. k \in 1..Len(w) /\ (k < b.lsn \/ k \in b.lsn .. n - 1)
          BY <2>4, <2>5, <2>8, <4>0, <4>1
        <5> QED BY <3>2, <3>3, <5>1
      <4>2. ASSUME ~ (i <= branch.upto) PROVE n \in 1..i /\ ~ (w[n].time < e.at)
        <5>1. n \in 1..Len(w) /\ n \in 1..i
          BY <2>4, <2>5, <2>7, <2>8, <4>0, <4>2
        <5>2. w[n].time \in Nat
          BY <2>5, <5>1
        <5> QED BY <2>6, <3>3, <5>1, <5>2
      <4> QED BY <4>1, <4>2
    <3> QED BY <2>3, <2>5, <2>8, <2>10, <3>4, <3>5
  <2> QED BY <2>9, <2>10
<1> QED BY <1>1, BeforeInvAlways, PTL
-----------------------------------------------------------------------------
(* Restores *)

RestoreStates == [pc : {"idle", "run", "wait", "done"}, ts : Nat, from : Backups \union {None}, blind : BOOLEAN,
                  out : {"none", "refused", "timeout", "ok"}]

\* A restore to a time that knows its database starts from a backup, one of B, of that
\* time or before.
Aimed(B, x) == x.from \in B /\ (~ x.blind => x.from.time <= x.ts /\ x.ts <= MaxTime)

RestoreOK(B, x) ==
  /\ x.pc \in {"run", "wait"} => Aimed(B, x)
  /\ x.out # "none" => x.pc = "done"

RestoreInv ==
  /\ restore \in [Restores -> RestoreStates]
  /\ \A r \in Restores : RestoreOK(backups, restore[r])

\* The container is the one that restore x runs, which reports success only once it is
\* promoted; it stopped at the first commit after the time.
RunBy(B, x, c) ==
  /\ x.pc \in {"wait", "done"} /\ Aimed(B, x)
  /\ c.ts = x.ts /\ c.from = x.from
  /\ x.out = "ok" => c.state = "promoted"

RcInv ==
  rc # None =>
    /\ rc \in Containers
    /\ RunBy(backups, restore[rc.by], rc)
    /\ rc.state = "promoted" /\ rc.ts <= MaxTime => StoppedAfter(wal, rc.ts, rc.from, rc.upto + 1)

RestoresInv == DatabaseInv /\ RestoreInv /\ RcInv

\* Every step keeps the restores in order.
LEMMA RestoresKept == RestoresInv /\ [Next]_vars => RestoreInv' /\ RcInv'
<1> SUFFICES ASSUME RestoresInv, [Next]_vars PROVE RestoreInv' /\ RcInv'
  OBVIOUS
<1>0. Grows /\ backups \subseteq backups' /\ DatabaseInv
  BY DatabaseKept DEF RestoresInv, Grows
<1>a. restore \in [Restores -> RestoreStates] /\ \A r \in Restores : restore[r] \in RestoreStates /\ RestoreOK(backups', restore[r])
  BY <1>0 DEF RestoresInv, RestoreInv, RestoreOK, Aimed
<1>b. ASSUME rc # None
      PROVE  /\ rc \in Containers /\ rc.by \in Restores /\ rc.from \in Backups
             /\ RunBy(backups, restore[rc.by], rc) /\ RunBy(backups', restore[rc.by], rc)
             /\ rc.state = "promoted" /\ rc.ts <= MaxTime => StoppedAfter(wal, rc.ts, rc.from, rc.upto + 1)
             /\ rc.state = "promoted" /\ rc.ts <= MaxTime => StoppedAfter(wal', rc.ts, rc.from, rc.upto + 1)
  <2>1. /\ rc \in Containers /\ RunBy(backups, restore[rc.by], rc)
        /\ rc.state = "promoted" /\ rc.ts <= MaxTime => StoppedAfter(wal, rc.ts, rc.from, rc.upto + 1)
    BY <1>b DEF RestoresInv, RcInv
  <2>2. rc.by \in Restores /\ rc.from \in Backups
    BY <2>1 DEF Containers
  <2>3. RunBy(backups', restore[rc.by], rc)
    BY <1>0, <2>1 DEF RunBy, Aimed
  <2>4. rc.state = "promoted" /\ rc.ts <= MaxTime => StoppedAfter(wal', rc.ts, rc.from, rc.upto + 1)
    BY <1>0, <2>1, <2>2, GrowthKeeps
  <2> QED BY <2>1, <2>2, <2>3, <2>4
<1>1. CASE UNCHANGED restores
  <2>1. restore' = restore /\ rc' = rc
    BY <1>1 DEF restores
  <2>2. RestoreInv'
    BY <1>a, <2>1 DEF RestoreInv
  <2>3. RcInv'
    BY <1>b, <2>1 DEF RcInv
  <2> QED BY <2>2, <2>3
<1>2. ASSUME NEW r \in Restores, NEW x \in RestoreStates, restore' = [restore EXCEPT ![r] = x], RestoreOK(backups', x)
      PROVE  RestoreInv' /\ restore'[r] = x /\ \A q \in Restores : q # r => restore'[q] = restore[q]
  <2>1. restore' \in [Restores -> RestoreStates] /\ \A q \in Restores : restore'[q] = IF q = r THEN x ELSE restore[q]
    BY <1>2, <1>a
  <2> QED BY <1>2, <1>a, <2>1 DEF RestoreInv
<1>3. ASSUME NEW r \in Restores, NEW x \in RestoreStates, restore[r].pc = "idle", rc' = rc,
             restore' = [restore EXCEPT ![r] = x], RestoreOK(backups', x)
      PROVE  RestoreInv' /\ RcInv'
  <2>1. rc # None => rc.by # r
    BY <1>3, <1>b DEF RunBy
  <2>2. RestoreInv' /\ (rc # None => restore'[rc.by] = restore[rc.by])
    BY <1>2, <1>3, <1>b, <2>1
  <2>3. RcInv'
    BY <1>3, <1>b, <2>2 DEF RcInv
  <2> QED BY <2>2, <2>3
<1>4. ASSUME NEW r \in Restores, PickRestore(r) PROVE RestoreInv' /\ RcInv'
  <2>1. PICK ts \in 0..now :
          LET bs == pickBackupForTime(ts, IF up THEN system ELSE 0) IN
          IF bs = {} THEN EndR(r, "refused")
          ELSE \E b \in bs : SetR(r, [restore[r] EXCEPT !.pc = "run", !.ts = ts, !.from = b, !.blind = ~ up])
    BY <1>4 DEF PickRestore
  <2>2. restore[r].pc = "idle" /\ rc' = rc /\ backups' = backups /\ restore[r] \in RestoreStates /\ RestoreOK(backups', restore[r])
    BY <1>4, <1>a DEF PickRestore, database
  <2>3. CASE EndR(r, "refused")
    <3> DEFINE x == [restore[r] EXCEPT !.pc = "done", !.out = "refused"]
    <3>1. x \in RestoreStates /\ x.pc = "done"
      BY <2>2 DEF RestoreStates
    <3>2. restore' = [restore EXCEPT ![r] = x]
      BY <2>3 DEF EndR, SetR
    <3> HIDE DEF x
    <3> QED BY <1>3, <2>2, <3>1, <3>2 DEF RestoreOK
  <2>4. CASE ~ EndR(r, "refused")
    <3>1. PICK b \in pickBackupForTime(ts, IF up THEN system ELSE 0) :
            SetR(r, [restore[r] EXCEPT !.pc = "run", !.ts = ts, !.from = b, !.blind = ~ up])
      BY <2>1, <2>4
    <3> DEFINE x == [restore[r] EXCEPT !.pc = "run", !.ts = ts, !.from = b, !.blind = ~ up]
    <3>2. b \in backups /\ b \in Backups /\ b.time <= ts
      BY <1>0 DEF pickBackupForTime, DatabaseInv
    <3>3. ts \in Nat /\ ts <= MaxTime
      BY <1>0, BoundsAssumption DEF DatabaseInv
    <3>4. (~ up) \in BOOLEAN
      OBVIOUS
    <3>5. x \in RestoreStates /\ x.pc = "run" /\ x.ts = ts /\ x.from = b /\ x.out = restore[r].out
      BY <2>2, <3>2, <3>3, <3>4 DEF RestoreStates
    <3>6. restore' = [restore EXCEPT ![r] = x]
      BY <3>1 DEF SetR
    <3> HIDE DEF x
    <3>7. RestoreOK(backups', x)
      BY <2>2, <3>2, <3>3, <3>5 DEF RestoreOK, Aimed
    <3> QED BY <1>3, <2>2, <3>5, <3>6, <3>7
  <2> QED BY <2>3, <2>4
<1>5. ASSUME NEW r \in Restores, PickLatest(r) PROVE RestoreInv' /\ RcInv'
  <2>1. PICK b \in backups : SetR(r, [restore[r] EXCEPT !.pc = "run", !.ts = MaxTime + 1, !.from = b, !.blind = TRUE])
    BY <1>5 DEF PickLatest
  <2> DEFINE x == [restore[r] EXCEPT !.pc = "run", !.ts = MaxTime + 1, !.from = b, !.blind = TRUE]
  <2>2. restore[r].pc = "idle" /\ rc' = rc /\ backups' = backups /\ restore[r] \in RestoreStates /\ RestoreOK(backups', restore[r])
    BY <1>5, <1>a DEF PickLatest, database
  <2>3. b \in Backups /\ MaxTime + 1 \in Nat
    BY <1>0, BoundsAssumption DEF DatabaseInv
  <2>4. x \in RestoreStates /\ x.pc = "run" /\ x.blind = TRUE /\ x.from = b /\ x.out = restore[r].out
    BY <2>2, <2>3 DEF RestoreStates
  <2>5. restore' = [restore EXCEPT ![r] = x]
    BY <2>1 DEF SetR
  <2> HIDE DEF x
  <2>6. RestoreOK(backups', x)
    BY <2>2, <2>4 DEF RestoreOK, Aimed
  <2> QED BY <1>3, <2>2, <2>4, <2>5, <2>6
<1>6. ASSUME NEW r \in Restores, RunRestore(r) PROVE RestoreInv' /\ RcInv'
  <2> DEFINE x == [restore[r] EXCEPT !.pc = "wait"]
             c == [by |-> r, ts |-> restore[r].ts, from |-> restore[r].from, state |-> "restoring", upto |-> 0]
  <2>1. restore[r].pc = "run" /\ restore[r] \in RestoreStates /\ RestoreOK(backups', restore[r]) /\ backups' = backups
    BY <1>6, <1>a DEF RunRestore, database
  <2>2. Aimed(backups', restore[r]) /\ restore[r].from \in Backups /\ restore[r].out # "ok"
    BY <1>0, <2>1 DEF RestoreOK, Aimed, DatabaseInv
  <2>3. /\ x \in RestoreStates /\ x.pc = "wait" /\ x.ts = restore[r].ts /\ x.from = restore[r].from
        /\ x.blind = restore[r].blind /\ x.out = restore[r].out
    BY <2>1 DEF RestoreStates
  <2>4. c \in Containers /\ c.by = r /\ c.ts = restore[r].ts /\ c.from = restore[r].from /\ c.state = "restoring"
    BY <2>1, <2>2 DEF Containers, RestoreStates
  <2>5. restore' = [restore EXCEPT ![r] = x] /\ rc' = c
    BY <1>6 DEF RunRestore, SetR
  <2> HIDE DEF x, c
  <2>6. RestoreOK(backups', x) /\ RunBy(backups', x, c)
    BY <2>1, <2>2, <2>3, <2>4 DEF RestoreOK, Aimed, RunBy
  <2>7. RestoreInv' /\ restore'[r] = x
    BY <1>2, <2>3, <2>5, <2>6
  <2>8. RcInv'
    BY <2>4, <2>5, <2>6, <2>7 DEF RcInv
  <2> QED BY <2>7, <2>8
<1>7. ASSUME NEW r \in Restores, WaitRecovered(r) PROVE RestoreInv' /\ RcInv'
  <2>1. PICK o \in {"timeout", "ok"} : EndR(r, o) /\ (o = "ok" => rc.state = "promoted")
    BY <1>7 DEF WaitRecovered
  <2> DEFINE x == [restore[r] EXCEPT !.pc = "done", !.out = o]
  <2>2. restore[r].pc = "wait" /\ rc' = rc /\ backups' = backups /\ restore[r] \in RestoreStates
    BY <1>7, <1>a DEF WaitRecovered, database
  <2>3. /\ x \in RestoreStates /\ x.pc = "done" /\ x.ts = restore[r].ts /\ x.from = restore[r].from
        /\ x.blind = restore[r].blind /\ x.out = o
    BY <2>2 DEF RestoreStates
  <2>4. restore' = [restore EXCEPT ![r] = x]
    BY <2>1 DEF EndR, SetR
  <2> HIDE DEF x
  <2>5. RestoreInv' /\ restore'[r] = x /\ \A q \in Restores : q # r => restore'[q] = restore[q]
    BY <1>2, <2>3, <2>4 DEF RestoreOK
  <2>6. rc # None => RunBy(backups', restore'[rc.by], rc)
    <3>1. CASE rc # None /\ rc.by = r
      BY <1>b, <2>1, <2>3, <2>5, <3>1 DEF RunBy, Aimed
    <3>2. CASE rc # None /\ rc.by # r
      BY <1>b, <2>5, <3>2
    <3> QED BY <3>1, <3>2
  <2>7. RcInv'
    BY <1>b, <2>2, <2>6 DEF RcInv
  <2> QED BY <2>5, <2>7
<1>8. CASE RecoverRestore
  <2> DEFINE stop == TimeStop(rc.ts, rc.from)
             found == [rc EXCEPT !.state = "promoted", !.upto = stop - 1]
             all == [rc EXCEPT !.state = "promoted", !.upto = archived[rc.from.sys]]
             none == [rc EXCEPT !.state = "stopped"]
  <2>1. /\ rc # None /\ rc.state = "restoring" /\ restore' = restore /\ UNCHANGED <<wal, backups>>
        /\ rc' = IF stop # 0 THEN found ELSE IF rc.ts > MaxTime THEN all ELSE none
    BY <1>8 DEF RecoverRestore, database
  <2>2. RestoreInv'
    BY <1>a, <2>1 DEF RestoreInv
  <2>3. /\ rc \in Containers /\ rc.by \in Restores /\ rc.from \in Backups /\ rc.ts \in Nat
        /\ RunBy(backups', restore[rc.by], rc) /\ restore[rc.by].out # "ok"
    BY <1>b, <2>1 DEF RunBy, Containers
  <2>4. ASSUME NEW c \in Containers, c.by = rc.by, c.ts = rc.ts, c.from = rc.from, rc' = c,
               c.state = "promoted" /\ c.ts <= MaxTime => StoppedAfter(wal, c.ts, c.from, c.upto + 1)
        PROVE  RcInv'
    BY <2>1, <2>3, <2>4 DEF RcInv, RunBy
  <2>5. stop # 0 => StoppedAfter(wal, rc.ts, rc.from, stop)
    BY <1>0, <2>3, TimeStopIsFirst
  <2>6. rc.from.lsn \in Nat \ {0} /\ rc.from.sys \in Systems
    BY <2>3 DEF Backups
  <2>7. Len(wal[rc.from.sys]) \in Nat /\ archived[rc.from.sys] \in Nat
    BY <1>0, <2>6 DEF DatabaseInv
  <2>8. stop # 0 => stop \in rc.from.lsn .. Len(wal[rc.from.sys])
    BY <2>5 DEF StoppedAfter
  <2> HIDE DEF stop
  <2>9. stop # 0 => stop - 1 \in Nat /\ (stop - 1) + 1 = stop
    BY <2>6, <2>7, <2>8
  <2>10. CASE stop # 0
    <3>1. found \in Containers /\ found.by = rc.by /\ found.ts = rc.ts /\ found.from = rc.from /\ found.upto = stop - 1
      BY <2>3, <2>9, <2>10 DEF Containers
    <3> HIDE DEF found
    <3> QED BY <2>1, <2>2, <2>4, <2>5, <2>9, <2>10, <3>1
  <2>11. CASE stop = 0 /\ rc.ts > MaxTime
    <3>1. all \in Containers /\ all.by = rc.by /\ all.ts = rc.ts /\ all.from = rc.from
      BY <2>3, <2>7 DEF Containers
    <3>2. ~ (rc.ts <= MaxTime)
      BY <2>3, <2>11, BoundsAssumption
    <3> HIDE DEF all
    <3> QED BY <2>1, <2>2, <2>4, <2>11, <3>1, <3>2
  <2>12. CASE stop = 0 /\ ~ (rc.ts > MaxTime)
    <3>1. none \in Containers /\ none.by = rc.by /\ none.ts = rc.ts /\ none.from = rc.from /\ none.state = "stopped"
      BY <2>3 DEF Containers
    <3> HIDE DEF none
    <3> QED BY <2>1, <2>2, <2>4, <2>12, <3>1
  <2> QED BY <2>10, <2>11, <2>12
<1>9. CASE Database
  BY <1>1, <1>9 DEF Database, Tick, Backup, PrimaryStop, PrimaryStart, Record, Commit
<1>10. ASSUME NEW j \in Jobs, Job(j) PROVE UNCHANGED restores
  BY <1>10 DEF Job, Begin, FlushWAL, Pick, CreateEmpty, Recover, WaitPromoted, CheckAbsent, Serve, Die
<1>11. CASE UserCreate \/ UserDelete \/ UNCHANGED vars
  BY <1>1, <1>11 DEF UserCreate, UserDelete, vars
<1> QED BY <1>1, <1>4, <1>5, <1>6, <1>7, <1>8, <1>9, <1>10, <1>11 DEF Next, Restore

\* Every state has the invariant of the restores.
LEMMA RestoresInvAlways == Spec => []RestoresInv
<1>1. Init /\ BeforeInv => RestoresInv
  <2> SUFFICES ASSUME Init, BeforeInv PROVE RestoresInv
    OBVIOUS
  <2>1. NoRestore \in RestoreStates /\ NoRestore.pc = "idle" /\ NoRestore.out = "none"
    BY DEF NoRestore, RestoreStates
  <2>2. restore \in [Restores -> RestoreStates] /\ \A r \in Restores : restore[r] = NoRestore
    BY <2>1 DEF Init
  <2>3. RestoreInv
    BY <2>1, <2>2 DEF RestoreInv, RestoreOK
  <2> QED BY <2>3 DEF Init, BeforeInv, RestoresInv, RcInv
<1>2. RestoresInv /\ [Next]_vars => RestoresInv'
  BY DatabaseKept, RestoresKept DEF RestoresInv
<1> QED BY <1>1, <1>2, BeforeInvAlways, PTL DEF Spec

\* A restore that reports a time and whose container is still its own holds what the
\* database had committed by that time, no more and no less, unless the backup was
\* picked blind: it started from a backup of that time or before, and recovery stops at
\* the first commit after it.
THEOREM RestoreHoldsItsTime == Spec => []RestoredAsReported
<1>1. RestoresInv => RestoredAsReported
  <2> SUFFICES ASSUME RestoresInv, NEW r \in Restores, restore[r].out = "ok", rc # None, rc.by = r, ~ restore[r].blind,
                      NEW i \in DOMAIN wal[rc.from.sys]
               PROVE  i <= rc.upto <=> \A k \in 1..i : wal[rc.from.sys][k].time <= restore[r].ts
    BY DEF RestoredAsReported
  <2> DEFINE b == rc.from
             w == wal[b.sys]
             n == rc.upto + 1
             ts == restore[r].ts
  <2>1. rc \in Containers /\ RunBy(backups, restore[r], rc)
    BY DEF RestoresInv, RcInv
  <2>2. rc.state = "promoted" /\ rc.ts = ts /\ b \in backups /\ b.time <= ts /\ ts <= MaxTime
    BY <2>1 DEF RunBy, Aimed
  <2>3. StoppedAfter(wal, ts, b, n)
    BY <2>2 DEF RestoresInv, RcInv
  <2>4. rc.upto \in Nat /\ ts \in Nat /\ b.sys \in Systems /\ b.lsn \in Nat /\ b.lsn >= 1 /\ b.time \in Nat
    BY <2>1, <2>2 DEF Containers, Backups
  <2>5. w \in Seq(CommitRecords)
    BY <2>4 DEF RestoresInv, DatabaseInv
  <2>6. Len(w) \in Nat /\ i \in 1..Len(w) /\ \A k \in 1..Len(w) : w[k].time \in Nat
    <3>1. Len(w) \in Nat /\ i \in 1..Len(w) /\ \A k \in 1..Len(w) : w[k] \in CommitRecords
      BY <2>5
    <3> QED BY <3>1 DEF CommitRecords
  <2>7. n \in b.lsn .. Len(w) /\ w[n].time > ts /\ \A k \in b.lsn .. n - 1 : ~ (w[k].time > ts)
    BY <2>3 DEF StoppedAfter
  <2>8. \A k \in 1..Len(w) : k < b.lsn => w[k].time <= b.time
    BY <2>2 DEF RestoresInv, DatabaseInv
  <2>9. ASSUME i <= rc.upto, NEW k \in 1..i PROVE w[k].time <= ts
    <3>1. k \in 1..Len(w) /\ (k < b.lsn \/ k \in b.lsn .. n - 1)
      BY <2>4, <2>6, <2>9
    <3>2. w[k].time \in Nat
      BY <2>6, <3>1
    <3>3. w[k].time <= b.time \/ ~ (w[k].time > ts)
      BY <2>7, <2>8, <3>1
    <3> QED BY <2>2, <2>4, <3>2, <3>3
  <2>10. ASSUME ~ (i <= rc.upto) PROVE n \in 1..i /\ ~ (w[n].time <= ts)
    <3>1. n \in 1..Len(w) /\ n \in 1..i
      BY <2>4, <2>6, <2>7, <2>10
    <3>2. w[n].time \in Nat
      BY <2>6, <3>1
    <3> QED BY <2>4, <2>7, <3>1, <3>2
  <2> QED BY <2>9, <2>10
<1> QED BY <1>1, RestoresInvAlways, PTL
-----------------------------------------------------------------------------
(* Types *)

\* A backup's WAL is archived up to where it finished: what is archived stays.
ArchiveInv == up \in BOOLEAN /\ \A b \in backups : b.lsn <= archived[b.sys] + 1

\* Every state is type correct, the archive is a prefix of what was written and holds
\* every backup's WAL: Backup and FlushWAL archive all there is, and nothing is removed.
THEOREM RecoveryTypeCorrect == Spec => []TypeOK
<1>1. Init => ArchiveInv
  BY DEF Init, ArchiveInv
<1>2. BeforeInv /\ ArchiveInv /\ [Next]_vars => ArchiveInv'
  <2> SUFFICES ASSUME BeforeInv, ArchiveInv, [Next]_vars PROVE ArchiveInv'
    OBVIOUS
  <2>0. /\ system \in Systems /\ wal \in [Systems -> Seq(CommitRecords)] /\ archived \in [Systems -> Nat]
        /\ backups \subseteq Backups /\ \A s \in Systems : archived[s] <= Len(wal[s])
    BY DEF BeforeInv, DatabaseInv
  <2>1. CASE UNCHANGED <<up, archived, backups>>
    BY <2>1 DEF ArchiveInv
  <2>2. ASSUME archived' = [archived EXCEPT ![system] = Len(Commits)], up' = up,
               \A b \in backups' : b \in backups \/ (b.sys = system /\ b.lsn = Len(Commits) + 1)
        PROVE  ArchiveInv'
    <3>1. Len(Commits) \in Nat /\ archived[system] <= Len(Commits)
      BY <2>0 DEF Commits
    <3>2. ASSUME NEW b \in backups' PROVE b.lsn <= archived'[b.sys] + 1
      <4>1. CASE b \in backups
        <5>1. b.sys \in Systems /\ b.lsn \in Nat /\ b.lsn <= archived[b.sys] + 1
          BY <2>0, <4>1 DEF Backups, ArchiveInv
        <5>2. archived[b.sys] \in Nat /\ archived'[b.sys] \in Nat /\ archived[b.sys] <= archived'[b.sys]
          BY <2>0, <2>2, <3>1, <5>1
        <5> QED BY <5>1, <5>2
      <4>2. CASE b \notin backups
        BY <2>0, <2>2, <3>1, <3>2, <4>2
      <4> QED BY <4>1, <4>2
    <3> QED BY <2>2, <3>2 DEF ArchiveInv
  <2>3. CASE Backup
    <3>1. \A b \in backups' : b \in backups \/ (b.sys = system /\ b.lsn = Len(Commits) + 1)
      BY <2>3 DEF Backup
    <3> QED BY <2>2, <2>3, <3>1 DEF Backup
  <2>4. ASSUME NEW j \in Jobs, FlushWAL(j) PROVE ArchiveInv'
    BY <2>1, <2>2, <2>4 DEF FlushWAL
  <2>5. CASE PrimaryStop \/ PrimaryStart
    BY <2>5 DEF PrimaryStop, PrimaryStart, ArchiveInv
  <2>6. ASSUME NEW t \in Txs, Record(t) \/ Commit(t) PROVE ArchiveInv'
    BY <2>1, <2>6 DEF Record, Commit
  <2>7. CASE Tick \/ UNCHANGED database
    BY <2>1, <2>7 DEF Tick, database
  <2> QED BY <2>3, <2>4, <2>5, <2>6, <2>7, DatabaseSteps DEF Database
<1>3. BeforeInv /\ RestoresInv /\ ArchiveInv => TypeOK
  <2> SUFFICES ASSUME BeforeInv, RestoresInv, ArchiveInv PROVE TypeOK
    OBVIOUS
  <2>1. \A s \in Systems : archived[s] \in 0..Len(wal[s])
    BY DEF BeforeInv, DatabaseInv
  <2>2. /\ now \in 0..MaxTime /\ system \in Systems /\ xids \in Nat /\ up \in BOOLEAN
        /\ \A b \in backups : b.lsn <= archived[b.sys] + 1 /\ b.time <= now
    BY DEF BeforeInv, DatabaseInv, ArchiveInv
  <2>3. branch = None \/ branch.state \in {"restoring", "stopped", "promoted", "branch"}
    BY DEF BeforeInv, BranchInv, BranchStates
  <2>4. \A j \in Jobs : job[j].out \in {"none", "refused", "failed", "kept", "halfmade", "ok", "died"}
    BY DEF BeforeInv, JobsInv, JobStates
  <2>5. \A r \in Restores : restore[r].out \in {"none", "refused", "timeout", "ok"}
    BY DEF RestoresInv, RestoreInv, RestoreStates
  <2> QED BY <2>1, <2>2, <2>3, <2>4, <2>5 DEF TypeOK
<1> QED BY <1>1, <1>2, <1>3, BeforeInvAlways, RestoresInvAlways, PTL DEF Spec
=============================================================================
