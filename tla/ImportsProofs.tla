--------------------------- MODULE ImportsProofs ----------------------------
(***************************************************************************)
(* Proofs about Imports: for any number of branches, jobs, clients and     *)
(* outside events, and whatever plans the jobs follow.                     *)
(***************************************************************************)
EXTENDS Imports, ImportTypes, TLAPS

Datasets == [by : Jobs \union {"user"}, from : Names \union {"main"},
             public : SUBSET (Pieces \union {MainTable}), raw : SUBSET (Pieces \union {MainTable}),
             guard : BOOLEAN, sub : {"none", "copying", "ready"}]

\* A job has its sessions with the guard off, and closes.
Sessions == {"prepare", "load", "rows", "docs", "relational", "subscribe", "stage", "model"}
Unguarded == Sessions \union {"check", "test", "close"}
Steps == Unguarded \union {"idle", "refresh", "create", "open", "reopen", "done"}

JobStates == [pc : Steps, name : Names \union {None}, plan : Plan, extracted : BOOLEAN, out : {"ok", "error", "failed"}]
ClientStates == [pc : {"idle", "ensure", "guard", "dial", "session"}, name : Names \union {None}, late : BOOLEAN, slow : BOOLEAN]
ReaperStates == [pc : {"idle", "connections", "replication", "stop"}, name : Names \union {None}]

DisksInv ==
  /\ disk \in [Names -> Datasets \union {None}]
  /\ cont \in [Names -> {"absent", "up", "down"}]
  /\ slot \in BOOLEAN

JobsInv ==
  /\ job \in [Jobs -> JobStates]
  /\ \A j \in Jobs : job[j].pc # "idle" => job[j].name \in Names /\ job[j].plan \in Plans[j]

\* A client x was late or slow if the reaper r is at its branch, as the clocks k tell,
\* or is there to be counted.
ClientOK(x, k, r) ==
  x.pc # "idle" => /\ x.name \in Names
                   /\ k[x.name] # "unseen" /\ (k[x.name] = "idle" /\ x.pc # "session" => x.slow)
                   /\ r.pc # "idle" /\ r.name = x.name =>
                        x.late \/ x.slow \/ (x.pc = "session" /\ r.pc = "connections")

GatewayInv ==
  /\ client \in [Clients -> ClientStates]
  /\ \A c \in Clients : ClientOK(client[c], clock, reap)
  /\ clock \in [Names -> {"unseen", "recent", "idle"}]
  /\ reap \in ReaperStates
  /\ reap.pc # "idle" => reap.name \in Names
  /\ cut = {}

Types == DisksInv /\ JobsInv /\ GatewayInv

\* Next, action by action.
LEMMA NextCases ==
  ASSUME [Next]_vars
  PROVE  \/ \E n \in Names : UserDelete(n) \/ Expire(n) \/ InitialCopy(n) \/ Cutover(n) \/ ReaperRead(n)
         \/ \E n \in Names, c \in Clients : Touch(c, n)
         \/ \E n \in Names, p \in Names \union {"main"} : UserCreate(n, p)
         \/ \E j \in Jobs : \/ JobDies(j) \/ Refresh(j) \/ CreateTarget(j) \/ Open(j) \/ Session(j) \/ Check(j) \/ Test(j)
                            \/ Close(j)
         \/ \E j \in Jobs : \E n \in Targets, p \in Plans[j] : StartImport(j, n, p) \/ StartPipeline(j, n, p)
         \/ \E c \in Clients : Ensure(c) \/ ReconcileGuard(c) \/ Dial(c) \/ Hangup(c)
         \/ ReaperConnections \/ ReaperReplication \/ ReaperStop \/ GatewayRestart
         \/ UNCHANGED vars
BY Zenon DEF Next, Event, Job, Handler, Reaper, Replication
-----------------------------------------------------------------------------
(* What a session leaves *)

\* A dataset d that a session of job j may leave where there was b.
Left(b, d) ==
  /\ d \in Datasets /\ d.by = b.by /\ d.from = b.from /\ d.guard = b.guard
  /\ d.sub = b.sub \/ (b.sub = "none" /\ ~ slot /\ d.sub = "copying")

\* Adding to a dataset's tables or moving them leaves the rest.
LEMMA TablesLeft ==
  ASSUME NEW b \in Datasets, NEW S \in SUBSET (Pieces \union {MainTable}), NEW T \in SUBSET (Pieces \union {MainTable})
  PROVE  /\ Left(b, b)
         /\ Left(b, [b EXCEPT !.public = S]) /\ [b EXCEPT !.public = S].public = S
         /\ [b EXCEPT !.public = S].raw = b.raw /\ [b EXCEPT !.public = S].sub = b.sub
         /\ Left(b, [b EXCEPT !.raw = T, !.public = S]) /\ [b EXCEPT !.raw = T, !.public = S].public = S
         /\ [b EXCEPT !.raw = T, !.public = S].raw = T /\ [b EXCEPT !.raw = T, !.public = S].sub = b.sub
BY DEF Left, Datasets

\* Add, as a set of tables.
LEMMA AddLeft ==
  ASSUME NEW j \in Jobs, Db(j) \in Datasets, NEW S \in SUBSET {"stage", "docs", "table", "rows", "model"}
  PROVE  /\ Left(Db(j), Add(j, S)) /\ Add(j, S).public = Db(j).public \union ({j} \X S)
         /\ Add(j, S).raw = Db(j).raw /\ Add(j, S).sub = Db(j).sub
<1>1. Db(j).public \union ({j} \X S) \in SUBSET (Pieces \union {MainTable})
  BY DEF Datasets, Pieces
<1> QED BY <1>1, TablesLeft DEF Add

\* Where a session may take a job.
After == {"load", "rows", "docs", "relational", "subscribe", "check", "close", "model", "test", "fail"}

Leaves(j, O) == \A o \in O : Left(Db(j), o[1]) /\ o[2] \in After

\* What each of the sessions leaves is a dataset with the same guard.
LEMMA SessionLeaves ==
  ASSUME NEW j \in Jobs, Db(j) \in Datasets, job[j] \in JobStates, job[j].pc \in Sessions
  PROVE  Leaves(j, Outcomes(j))
<1> DEFINE D == Db(j)
           Whole == SUBSET (Pieces \union {MainTable})
<1>0. \A S, T : Leaves(j, S) /\ Leaves(j, T) => Leaves(j, S \union T)
  BY DEF Leaves
<1>1. Leaves(j, failed(j)) /\ Leaves(j, {})
  <2>1. Left(D, D)
    BY DEF Left
  <2> QED BY <2>1 DEF failed, Leaves, After
<1>2. ASSUME NEW d, Left(D, d), NEW s \in After PROVE Leaves(j, {<<d, s>>})
  BY <1>2 DEF Leaves
<1>3. ASSUME NEW S \in SUBSET {"stage", "docs", "table", "rows", "model"}, NEW s \in After PROVE Leaves(j, {<<Add(j, S), s>>})
  BY <1>2, AddLeft
<1>4. Leaves(j, prepareTarget(j))
  <2>1. Left(D, [D EXCEPT !.public = {}])
    BY TablesLeft
  <2> QED BY <1>0, <1>1, <1>2, <2>1 DEF prepareTarget, After
<1>5. Leaves(j, runCollectingErrors(j))
  <2>1. \A S \in {T \in SUBSET {"table", "rows"} : "rows" \in T => "table" \in T \/ Has(j, "table")} : Left(D, Add(j, S))
    BY AddLeft
  <2>2. Leaves(j, {<<Add(j, S), "fail">> : S \in {T \in SUBSET {"table", "rows"} : "rows" \in T => "table" \in T \/ Has(j, "table")}})
    BY <2>1 DEF Leaves, After
  <2>3. Leaves(j, {<<Add(j, {"table", "rows"}), "check">>})
    BY <1>3 DEF After
  <2> QED BY <1>0, <1>1, <2>2, <2>3 DEF runCollectingErrors
<1>6. ASSUME NEW R \in SUBSET SUBSET {"table", "rows"}, NEW s \in After
      PROVE  Leaves(j, {<<Add(j, S), IF Tables(Add(j, S)) = {} THEN "fail" ELSE s>> : S \in R})
  <2>1. \A S \in R : Left(D, Add(j, S))
    BY AddLeft
  <2> QED BY <2>1 DEF Leaves, After
<1>7. Leaves(j, pgloader(j))
  <2>1. Leaves(j, {<<Add(j, S), IF Tables(Add(j, S)) = {} THEN "fail" ELSE "check">> : S \in {{}, {"table"}, {"table", "rows"}}})
    BY <1>6 DEF After
  <2> QED BY <1>0, <1>1, <2>1 DEF pgloader
<1>8. Leaves(j, loadMySQLNative(j))
  <2>1. Leaves(j, {<<Add(j, {"table"}), "rows">>})
    BY <1>3 DEF After
  <2> QED BY <1>0, <1>1, <2>1 DEF loadMySQLNative
<1>9. Leaves(j, loadCSV(j))
  <2>1. Leaves(j, {<<IF Has(j, "table") THEN Db(j) ELSE Add(j, {"table"}), "rows">>})
    BY <1>2, AddLeft, TablesLeft DEF After
  <2> QED BY <1>0, <1>1, <2>1 DEF loadCSV
<1>10. Leaves(j, loadRows(j))
  <2>1. Leaves(j, {<<Add(j, {"rows"}), "check">>})
    BY <1>3 DEF After
  <2> QED BY <1>0, <1>1, <2>1 DEF loadRows
<1>a. ASSUME NEW K PROVE Without(j, K) \in Whole
  BY DEF Without, Datasets
<1>11. Leaves(j, stageTable(j))
  <2>1. Without(j, {"stage", "docs"}) \union {<<j, "stage">>} \in Whole
    BY <1>a DEF Pieces
  <2>2. Left(D, [D EXCEPT !.public = Without(j, {"stage", "docs"}) \union {<<j, "stage">>}])
    BY <2>1, TablesLeft
  <2>3. Leaves(j, {<<[Db(j) EXCEPT !.public = Without(j, {"stage", "docs"}) \union {<<j, "stage">>}], "docs">>})
    BY <1>2, <2>2 DEF After
  <2> QED BY <1>0, <1>1, <2>3 DEF stageTable
<1>12. Leaves(j, stageDocs(j))
  <2>1. Leaves(j, {<<Add(j, {"docs"}), "relational">>})
    BY <1>3 DEF After
  <2> QED BY <1>0, <1>1, <2>1 DEF stageDocs
<1>13. Leaves(j, relationalizeJSON(j))
  <2> DEFINE rows == {<<i, "rows">> : i \in {x \in Jobs : <<x, "docs">> \in Db(j).public}}
             final == Without(j, {"stage", "docs", "table", "rows"}) \union {<<j, "table">>} \union rows
  <2>1. rows \in Whole /\ {<<j, "table">>} \in Whole
    <3>1. \A i \in Jobs : <<i, "rows">> \in Pieces /\ <<i, "table">> \in Pieces
      BY DEF Pieces
    <3> QED BY <3>1
  <2>2. final \in Whole
    BY <1>a, <2>1
  <2>3. relationalizeJSON(j) = failed(j) \union IF Has(j, "stage") THEN {<<[D EXCEPT !.public = final], "check">>} ELSE {}
    BY DEF relationalizeJSON
  <2> HIDE DEF final
  <2>4. Left(D, [D EXCEPT !.public = final])
    BY <2>2, TablesLeft
  <2>5. Leaves(j, {<<[D EXCEPT !.public = final], "check">>})
    BY <1>2, <2>4 DEF After
  <2> QED BY <1>0, <1>1, <2>3, <2>5
<1>14. Leaves(j, copySchema(j))
  <2>1. Leaves(j, {<<Add(j, S), IF Tables(Add(j, S)) = {} THEN "fail" ELSE "subscribe">> : S \in {{}, {"table"}}})
    BY <1>6 DEF After
  <2> QED BY <1>0, <1>1, <2>1 DEF copySchema
<1>15. Leaves(j, subscribe(j))
  <2>1. D.sub = "none" /\ ~ slot => Left(D, [D EXCEPT !.sub = "copying"])
    BY DEF Left, Datasets
  <2>2. D.sub = "none" /\ ~ slot => Leaves(j, {<<[D EXCEPT !.sub = "copying"], "close">>})
    BY <1>2, <2>1 DEF After
  <2> QED BY <1>0, <1>1, <2>2 DEF subscribe
<1>16. Leaves(j, stageRaw(j))
  <2>1. Left(D, [D EXCEPT !.raw = D.public, !.public = {}])
    BY TablesLeft DEF Datasets
  <2>2. Leaves(j, {<<[Db(j) EXCEPT !.raw = Db(j).public, !.public = {}], "model">>})
    BY <1>2, <2>1 DEF After
  <2> QED BY <1>0, <1>1, <2>2 DEF stageRaw
<1>17. Leaves(j, model(j))
  <2>1. Leaves(j, {<<Add(j, {"model"}), "test">>})
    BY <1>3 DEF After
  <2> QED BY <1>0, <1>1, <2>1 DEF model
<1>18. CASE job[j].pc = "load"
  <2>1. job[j].plan.load \in {"postgres", "sql", "pgloader", "native", "csv", "json", "mongo", "continuous"}
    BY DEF JobStates, Plan
  <2>2. \/ Outcomes(j) = runCollectingErrors(j) \/ Outcomes(j) = loadMySQLNative(j) \/ Outcomes(j) = pgloader(j)
        \/ Outcomes(j) = loadCSV(j) \/ Outcomes(j) = stageTable(j) \/ Outcomes(j) = copySchema(j)
    BY <1>18, <2>1 DEF Outcomes, loadPostgres, loadSQL, loadMySQL, loadMongo
  <2> QED BY <1>5, <1>7, <1>8, <1>9, <1>11, <1>14, <2>2
<1>19. CASE job[j].pc # "load"
  BY <1>4, <1>10, <1>12, <1>13, <1>15, <1>16, <1>17, <1>19 DEF Outcomes, Sessions
<1> QED BY <1>18, <1>19
-----------------------------------------------------------------------------
(* What the operators that the actions share do to the state *)

\* A clone of main is guarded and does not replicate; another one is as its parent.
LEMMA CloneIs ==
  ASSUME Types, NEW p \in Names \union {"main"}, p # "main" => disk[p] # None, NEW by \in Jobs \union {"user"}
  PROVE  LET d == Clone(p, by) IN
         /\ d \in Datasets /\ d.by = by
         /\ p = "main" => d.public = {MainTable} /\ d.raw = {} /\ d.guard = TRUE /\ d.sub = "none"
         /\ p # "main" => d.guard = disk[p].guard /\ d.sub = disk[p].sub
<1>1. CASE p = "main"
  <2>1. {MainTable} \in SUBSET (Pieces \union {MainTable}) /\ {} \in SUBSET (Pieces \union {MainTable})
    OBVIOUS
  <2> QED BY <1>1, <2>1 DEF Clone, Datasets
<1>2. CASE p # "main"
  <2>1. disk[p] \in Datasets /\ p \in Names
    BY <1>2 DEF Types, DisksInv
  <2> QED BY <1>2, <2>1 DEF Clone, Datasets
<1> QED BY <1>1, <1>2

\* CreateBranch makes one dataset and leaves the others.
LEMMA CreateIs ==
  ASSUME Types, NEW n \in Names, NEW p \in Names \union {"main"}, p # "main" => disk[p] # None, NEW by \in Jobs \union {"user"},
         CreateBranch(n, p, by)
  PROVE  /\ disk' \in [Names -> Datasets \union {None}] /\ cont' \in [Names -> {"absent", "up", "down"}]
         /\ \A m \in Names \ {n} : disk'[m] = disk[m] /\ cont'[m] = cont[m]
         /\ disk'[n] = Clone(p, by) /\ disk'[n] \in Datasets /\ disk'[n].by = by /\ cont'[n] = "up"
         /\ p = "main" => disk'[n].public = {MainTable} /\ disk'[n].raw = {} /\ disk'[n].guard = TRUE /\ disk'[n].sub = "none"
         /\ p # "main" => disk'[n].guard = disk[p].guard /\ disk'[n].sub = disk[p].sub
<1> DEFINE d == Clone(p, by)
<1>1. /\ d \in Datasets /\ d.by = by
      /\ p = "main" => d.public = {MainTable} /\ d.raw = {} /\ d.guard = TRUE /\ d.sub = "none"
      /\ p # "main" => d.guard = disk[p].guard /\ d.sub = disk[p].sub
  BY CloneIs
<1>2. disk' = [disk EXCEPT ![n] = d] /\ cont' = [cont EXCEPT ![n] = "up"]
  BY DEF CreateBranch
<1>3. disk \in [Names -> Datasets \union {None}] /\ cont \in [Names -> {"absent", "up", "down"}]
  BY DEF Types, DisksInv
<1> HIDE DEF d
<1>4. disk'[n] = d /\ cont'[n] = "up" /\ \A m \in Names \ {n} : disk'[m] = disk[m] /\ cont'[m] = cont[m]
  BY <1>2, <1>3
<1>5. disk' \in [Names -> Datasets \union {None}] /\ cont' \in [Names -> {"absent", "up", "down"}]
  BY <1>1, <1>2, <1>3
<1> QED BY <1>1, <1>4, <1>5 DEF d

\* DeleteBranch removes some datasets and leaves the others; it closes sessions and no
\* handler that is on its way.
LEMMA DeleteIs ==
  ASSUME Types, NEW n \in Names, DeleteBranch(n)
  PROVE  /\ disk' \in [Names -> Datasets \union {None}] /\ cont' \in [Names -> {"absent", "up", "down"}]
         /\ \A m \in Names : disk'[m] = None \/ (disk'[m] = disk[m] /\ m \notin Gone(n))
         /\ cont'[n] = "absent" /\ \A m \in Names \ {n} : cont'[m] = cont[m]
<1>1. disk \in [Names -> Datasets \union {None}] /\ cont \in [Names -> {"absent", "up", "down"}]
  BY DEF Types, DisksInv
<1>2. disk' = [m \in Names |-> IF m \in Gone(n) THEN None ELSE disk[m]] /\ cont' = [cont EXCEPT ![n] = "absent"]
  BY DEF DeleteBranch
<1> QED BY <1>1, <1>2

\* CutOff closes sessions with one branch.
LEMMA CutOffIs ==
  ASSUME Types, NEW n, client' = CutOff(n)
  PROVE  /\ client' \in [Clients -> ClientStates]
         /\ \A c \in Clients : \/ client'[c] = client[c]
                               \/ /\ client'[c] = Closed /\ client[c].name = n /\ client[c].pc = "session"
                                  /\ client'[c].pc = "idle" /\ client'[c].name = None
<1>1. Closed \in ClientStates /\ Closed.pc = "idle" /\ Closed.name = None
  BY DEF Closed, ClientStates
<1>2. client \in [Clients -> ClientStates]
  BY DEF Types, GatewayInv
<1> QED BY <1>1, <1>2 DEF CutOff

\* setGuard changes the guard of a branch that is up, and nothing else, or nothing.
LEMMA GuardIs ==
  ASSUME Types, NEW n \in Names, NEW on \in BOOLEAN, setGuard(n, on)
  PROVE  /\ disk' \in [Names -> Datasets \union {None}]
         /\ \A m \in Names \ {n} : disk'[m] = disk[m]
         /\ \/ /\ disk' = disk /\ inherit' = inherit
               /\ orphan' = IF on /\ Up(n) /\ ~ disk[n].guard THEN orphan \union {n} ELSE orphan
            \/ /\ Up(n) /\ disk[n] # None /\ disk[n] \in Datasets /\ disk'[n] \in Datasets /\ disk'[n].guard = on
               /\ disk'[n].by = disk[n].by /\ disk'[n].sub = disk[n].sub /\ disk'[n].from = disk[n].from
               /\ disk'[n].public = disk[n].public /\ disk'[n].raw = disk[n].raw
               /\ orphan' = IF on THEN orphan \ {n} ELSE orphan
               /\ inherit' = IF on THEN inherit \ {n} ELSE inherit
<1>1. disk \in [Names -> Datasets \union {None}]
  BY DEF Types, DisksInv
<1> DEFINE Done == /\ Up(n) /\ disk' = [disk EXCEPT ![n].guard = on]
                   /\ orphan' = IF on THEN orphan \ {n} ELSE orphan
                   /\ inherit' = IF on THEN inherit \ {n} ELSE inherit
           Failed == /\ UNCHANGED <<disk, inherit>>
                     /\ orphan' = IF on /\ Up(n) /\ ~ disk[n].guard THEN orphan \union {n} ELSE orphan
<1>0. Done \/ Failed
  BY Zenon DEF setGuard
<1>2. CASE Failed
  BY <1>1, <1>2
<1>3. CASE Done
  <2>1. disk[n] # None /\ disk[n] \in Datasets
    BY <1>1, <1>3 DEF Up, exists
  <2>2. disk' = [disk EXCEPT ![n] = [disk[n] EXCEPT !.guard = on]]
    BY <1>3
  <2> DEFINE d == [disk[n] EXCEPT !.guard = on]
  <2>3. /\ d \in Datasets /\ d.guard = on /\ d.by = disk[n].by /\ d.sub = disk[n].sub /\ d.from = disk[n].from
        /\ d.public = disk[n].public /\ d.raw = disk[n].raw
    BY <2>1 DEF Datasets
  <2> HIDE DEF d
  <2>4. disk' \in [Names -> Datasets \union {None}] /\ disk'[n] = d /\ \A m \in Names \ {n} : disk'[m] = disk[m]
    BY <1>1, <2>2, <2>3 DEF d
  <2> QED BY <1>3, <2>1, <2>3, <2>4
<1> QED BY <1>0, <1>2, <1>3

\* The job that a step moves, and the others.
Moved(j, s, o) ==
  /\ job' \in [Jobs -> JobStates]
  /\ \A i \in Jobs \ {j} : job'[i] = job[i]
  /\ job'[j].pc = s /\ job'[j].out = o
  /\ job'[j].name = job[j].name /\ job'[j].plan = job[j].plan

\* The ways in which the steps of a job assign it are such moves.
LEMMA MovesIs ==
  ASSUME Types, NEW j \in Jobs
  PROVE  /\ \A s \in Steps : Goto(j, s) => Moved(j, s, job[j].out) /\ job'[j].extracted = job[j].extracted
         /\ \A s \in Steps : \A o \in {"ok", "error", "failed"} :
              job' = [job EXCEPT ![j].pc = s, ![j].out = o] => Moved(j, s, o) /\ job'[j].extracted = job[j].extracted
         /\ job' = [job EXCEPT ![j].pc = "reopen", ![j].extracted = TRUE]
              => Moved(j, "reopen", job[j].out) /\ job'[j].extracted = TRUE
<1>1. job \in [Jobs -> JobStates] /\ job[j] \in JobStates
  BY DEF Types, JobsInv
<1>3. ASSUME NEW s \in Steps, NEW o \in {"ok", "error", "failed"}, NEW x \in BOOLEAN,
             job' = [job EXCEPT ![j] = [job[j] EXCEPT !.pc = s, !.out = o, !.extracted = x]]
      PROVE  Moved(j, s, o) /\ job'[j].extracted = x
  <2> DEFINE y == [job[j] EXCEPT !.pc = s, !.out = o, !.extracted = x]
  <2>1. y \in JobStates /\ y.pc = s /\ y.out = o /\ y.extracted = x /\ y.name = job[j].name /\ y.plan = job[j].plan
    BY <1>1 DEF JobStates
  <2>2. job' = [job EXCEPT ![j] = y]
    BY <1>3
  <2> HIDE DEF y
  <2>3. job' \in [Jobs -> JobStates] /\ job'[j] = y /\ \A i \in Jobs \ {j} : job'[i] = job[i]
    BY <1>1, <2>1, <2>2
  <2> QED BY <2>1, <2>3 DEF Moved
<1>4. job[j].out \in {"ok", "error", "failed"} /\ job[j].extracted \in BOOLEAN /\ "reopen" \in Steps
  BY <1>1 DEF JobStates, Steps
<1>5. ASSUME NEW s \in Steps, Goto(j, s) PROVE Moved(j, s, job[j].out) /\ job'[j].extracted = job[j].extracted
  <2>1. [job EXCEPT ![j].pc = s] = [job EXCEPT ![j] = [job[j] EXCEPT !.pc = s, !.out = job[j].out, !.extracted = job[j].extracted]]
    BY <1>1 DEF JobStates
  <2> QED BY <1>3, <1>4, <1>5, <2>1 DEF Goto
<1>6. ASSUME NEW s \in Steps, NEW o \in {"ok", "error", "failed"}, job' = [job EXCEPT ![j].pc = s, ![j].out = o]
      PROVE  Moved(j, s, o) /\ job'[j].extracted = job[j].extracted
  <2>1. [job EXCEPT ![j].pc = s, ![j].out = o] = [job EXCEPT ![j] = [job[j] EXCEPT !.pc = s, !.out = o, !.extracted = job[j].extracted]]
    <3>1. [job[j] EXCEPT !.pc = s, !.out = o] = [job[j] EXCEPT !.pc = s, !.out = o, !.extracted = job[j].extracted]
      BY <1>1 DEF JobStates
    <3>2. [job EXCEPT ![j].pc = s, ![j].out = o] = [job EXCEPT ![j] = [job[j] EXCEPT !.pc = s, !.out = o]]
      BY <1>1
    <3> QED BY <3>1, <3>2
  <2> QED BY <1>3, <1>4, <1>6, <2>1
<1>7. ASSUME job' = [job EXCEPT ![j].pc = "reopen", ![j].extracted = TRUE]
      PROVE  Moved(j, "reopen", job[j].out) /\ job'[j].extracted = TRUE
  <2>1. [job EXCEPT ![j].pc = "reopen", ![j].extracted = TRUE] =
          [job EXCEPT ![j] = [job[j] EXCEPT !.pc = "reopen", !.out = job[j].out, !.extracted = TRUE]]
    BY <1>1 DEF JobStates
  <2> QED BY <1>3, <1>4, <1>7, <2>1
<1> QED BY <1>5, <1>6, <1>7

\* What each action of a job does to it.
LEMMA JobIs ==
  ASSUME Types, NEW j \in Jobs
  PROVE  /\ JobDies(j) => Moved(j, "done", job[j].out)
         /\ Refresh(j) => Moved(j, "create", job[j].out)
         /\ CreateTarget(j) => IF exists(job[j].name) THEN Moved(j, "done", "error") ELSE Moved(j, "open", job[j].out)
         /\ Open(j) => Moved(j, IF job[j].pc = "open" THEN "prepare" ELSE "stage", job[j].out) /\ job'[j].extracted = job[j].extracted
         /\ Check(j) => /\ Moved(j, "close", "error") \/ Moved(j, "close", job[j].out)
                        /\ job'[j].extracted = job[j].extracted
         /\ Test(j) => /\ Moved(j, "close", "failed") \/ Moved(j, "close", job[j].out)
                       /\ job'[j].extracted = job[j].extracted
         /\ Close(j) => \/ Moved(j, "reopen", job[j].out) /\ job'[j].extracted = TRUE
                        \/ Moved(j, "done", job[j].out)
<1> USE DEF Steps, Unguarded, Sessions
<1>1. /\ \A s \in Steps : Goto(j, s) => Moved(j, s, job[j].out) /\ job'[j].extracted = job[j].extracted
      /\ \A s \in Steps : \A o \in {"ok", "error", "failed"} :
           job' = [job EXCEPT ![j].pc = s, ![j].out = o] => Moved(j, s, o) /\ job'[j].extracted = job[j].extracted
      /\ job' = [job EXCEPT ![j].pc = "reopen", ![j].extracted = TRUE]
           => Moved(j, "reopen", job[j].out) /\ job'[j].extracted = TRUE
  BY MovesIs
<1>2. JobDies(j) => Moved(j, "done", job[j].out)
  BY <1>1 DEF JobDies
<1>3. Refresh(j) => Moved(j, "create", job[j].out)
  BY <1>1 DEF Refresh
<1>4. CreateTarget(j) => IF exists(job[j].name) THEN Moved(j, "done", "error") ELSE Moved(j, "open", job[j].out)
  BY <1>1 DEF CreateTarget
<1>5. Open(j) => Moved(j, IF job[j].pc = "open" THEN "prepare" ELSE "stage", job[j].out) /\ job'[j].extracted = job[j].extracted
  BY <1>1 DEF Open
<1>6. Fail(j) => Moved(j, "close", "error") /\ job'[j].extracted = job[j].extracted
  BY <1>1 DEF Fail
<1>7. Check(j) => (Moved(j, "close", "error") \/ Moved(j, "close", job[j].out)) /\ job'[j].extracted = job[j].extracted
  BY <1>1, <1>6 DEF Check
<1>8. Test(j) => (Moved(j, "close", "failed") \/ Moved(j, "close", job[j].out)) /\ job'[j].extracted = job[j].extracted
  BY <1>1 DEF Test
<1>9. job' = [job EXCEPT ![j].pc = "done"] => Moved(j, "done", job[j].out)
  BY <1>1 DEF Goto
<1>10. Close(j) => \/ Moved(j, "reopen", job[j].out) /\ job'[j].extracted = TRUE
                   \/ Moved(j, "done", job[j].out)
  BY <1>1, <1>9 DEF Close, Report
<1> QED BY <1>2, <1>3, <1>4, <1>5, <1>7, <1>8, <1>10

\* A session changes its job's branch alone, as SessionLeaves has it, and takes its job
\* on or to the deferred close.
LEMMA SessionIs ==
  ASSUME Types, NEW j \in Jobs, Session(j)
  PROVE  LET n == job[j].name IN
         /\ n \in Names /\ disk' \in [Names -> Datasets \union {None}]
         /\ \A m \in Names \ {n} : disk'[m] = disk[m]
         /\ job'[j].extracted = job[j].extracted
         /\ \/ disk' = disk /\ Moved(j, "close", "error")
            \/ /\ Up(n) /\ disk[n] # None /\ disk[n] \in Datasets /\ disk'[n] \in Datasets
               /\ \E o \in Outcomes(j) : /\ disk'[n] = o[1] /\ Left(disk[n], o[1]) /\ o[2] \in After
                                         /\ IF o[2] = "fail" THEN Moved(j, "close", "error") ELSE Moved(j, o[2], job[j].out)
<1> DEFINE n == job[j].name
<1>0. job[j].pc \in Sessions /\ job[j] \in JobStates /\ n \in Names /\ disk \in [Names -> Datasets \union {None}]
  BY DEF Session, Sessions, Types, JobsInv, DisksInv
<1>1. Fail(j) => Moved(j, "close", "error") /\ job'[j].extracted = job[j].extracted
  BY MovesIs DEF Fail, Steps, Unguarded
<1>2. CASE ~ Up(n)
  BY <1>0, <1>1, <1>2 DEF Session
<1>3. CASE Up(n)
  <2>1. disk[n] # None /\ disk[n] \in Datasets /\ Db(j) = disk[n]
    BY <1>0, <1>3 DEF Up, exists, Db
  <2>2. PICK o \in Outcomes(j) : disk' = [disk EXCEPT ![n] = o[1]] /\ IF o[2] = "fail" THEN Fail(j) ELSE Goto(j, o[2])
    BY <1>3 DEF Session
  <2>3. Left(disk[n], o[1]) /\ o[2] \in After
    BY <1>0, <2>1, SessionLeaves DEF Leaves
  <2>4. o[1] \in Datasets
    BY <2>3 DEF Left
  <2>5. disk'[n] = o[1] /\ disk' \in [Names -> Datasets \union {None}] /\ \A m \in Names \ {n} : disk'[m] = disk[m]
    BY <1>0, <2>2, <2>4
  <2>6. /\ IF o[2] = "fail" THEN Moved(j, "close", "error") ELSE Moved(j, o[2], job[j].out)
        /\ job'[j].extracted = job[j].extracted
    <3>1. o[2] # "fail" => o[2] \in Steps
      BY <2>3 DEF After, Steps, Unguarded, Sessions
    <3> QED BY <1>1, <2>2, <3>1, MovesIs
  <2> QED BY <1>0, <1>3, <2>1, <2>3, <2>4, <2>5, <2>6
<1> QED BY <1>2, <1>3

\* Starting a job.
LEMMA StartIs ==
  ASSUME Types, NEW j \in Jobs, NEW n \in Targets, NEW p \in Plans[j], StartImport(j, n, p) \/ StartPipeline(j, n, p)
  PROVE  /\ job' \in [Jobs -> JobStates] /\ \A i \in Jobs \ {j} : job'[i] = job[i]
         /\ job[j].pc = "idle" /\ job'[j].pc \in {"create", "refresh"} /\ job'[j].name = n /\ job'[j].plan = p /\ n \in Names
         /\ job'[j].extracted = FALSE /\ job'[j].out = "ok"
         /\ overlap' = IF Meets(j, n) = {} THEN overlap ELSE overlap \union {j} \union Meets(j, n)
         /\ UNCHANGED <<branches, slot, gateway, landed, orphan, inherit, twins, raced, cut>>
         /\ result' = result \/ result' = [result EXCEPT ![j] = "running"]
<1>1. PICK s \in {"create", "refresh"} : StartJob(j, n, p, s)
  BY DEF StartImport, StartPipeline
<1> DEFINE y == [pc |-> s, name |-> n, plan |-> p, extracted |-> FALSE, out |-> "ok"]
<1>2. p \in Plan /\ n \in Names
  BY PlansAssumption, NamesAssumption
<1>3. y \in JobStates /\ y.pc = s /\ y.name = n /\ y.plan = p /\ y.extracted = FALSE /\ y.out = "ok"
  BY <1>2 DEF JobStates, Steps
<1>4. job' = [job EXCEPT ![j] = y] /\ job \in [Jobs -> JobStates]
  BY <1>1 DEF StartJob, Types, JobsInv
<1> HIDE DEF y
<1>5. job' \in [Jobs -> JobStates] /\ job'[j] = y /\ \A i \in Jobs \ {j} : job'[i] = job[i]
  BY <1>3, <1>4
<1>6. result' = result \/ result' = [result EXCEPT ![j] = "running"]
  BY DEF StartImport, StartPipeline, StartRun
<1> QED BY <1>1, <1>2, <1>3, <1>5, <1>6 DEF StartJob
-----------------------------------------------------------------------------
(* Types *)

\* Every step keeps the types.
LEMMA TypesKept == Types /\ [Next]_vars => Types'
<1> SUFFICES ASSUME Types, [Next]_vars PROVE Types'
  OBVIOUS
<1>0. /\ disk \in [Names -> Datasets \union {None}] /\ cont \in [Names -> {"absent", "up", "down"}] /\ slot \in BOOLEAN
      /\ job \in [Jobs -> JobStates]
      /\ client \in [Clients -> ClientStates] /\ clock \in [Names -> {"unseen", "recent", "idle"}] /\ reap \in ReaperStates
  BY DEF Types, DisksInv, JobsInv, GatewayInv
<1>1. DisksInv'
  <2>1. CASE UNCHANGED <<disk, cont, slot>>
    BY <1>0, <2>1 DEF DisksInv
  <2>2. ASSUME NEW n \in Names, UserDelete(n) PROVE DisksInv'
    BY <1>0, <2>2, DeleteIs DEF UserDelete, DisksInv
  <2>3. ASSUME NEW n \in Names, InitialCopy(n) PROVE DisksInv'
    <3> DEFINE D == disk[n]
               P == D.public \union {<<j, "rows">> : j \in {i \in Jobs : <<i, "table">> \in D.public}}
               d == [D EXCEPT !.sub = "ready", !.public = P]
    <3>1. disk' = [disk EXCEPT ![n] = d] /\ D \in Datasets /\ UNCHANGED <<cont, slot>>
      BY <1>0, <2>3 DEF InitialCopy, Up, exists
    <3>2. P \in SUBSET (Pieces \union {MainTable})
      <4>1. \A i \in Jobs : <<i, "rows">> \in Pieces
        BY DEF Pieces
      <4> QED BY <3>1, <4>1 DEF Datasets
    <3> HIDE DEF P
    <3>3. d \in Datasets
      BY <3>1, <3>2 DEF Datasets
    <3> HIDE DEF d
    <3> QED BY <1>0, <3>1, <3>3 DEF DisksInv
  <2>4. ASSUME NEW n \in Names, Cutover(n) PROVE DisksInv'
    <3> DEFINE d == [disk[n] EXCEPT !.sub = "none"]
    <3>1. disk' = [disk EXCEPT ![n] = d] /\ disk[n] \in Datasets /\ UNCHANGED cont /\ slot' = FALSE
      BY <1>0, <2>4 DEF Cutover, TableCount, Up, exists
    <3>2. d \in Datasets
      BY <3>1 DEF Datasets
    <3> HIDE DEF d
    <3> QED BY <1>0, <3>1, <3>2 DEF DisksInv
  <2>5. ASSUME NEW n \in Names, NEW p \in Names \union {"main"}, UserCreate(n, p) PROVE DisksInv'
    BY <1>0, <2>5, CreateIs DEF UserCreate, exists, DisksInv
  <2>6. ASSUME NEW j \in Jobs, Refresh(j) PROVE DisksInv'
    <3>1. job[j].name \in Names
      BY <2>6 DEF Refresh, Types, JobsInv
    <3> QED BY <1>0, <2>6, <3>1, DeleteIs DEF Refresh, DisksInv
  <2>7. ASSUME NEW j \in Jobs, CreateTarget(j) PROVE DisksInv'
    <3>1. job[j].name \in Names
      BY <2>7 DEF CreateTarget, Types, JobsInv
    <3> QED BY <1>0, <2>7, <3>1, CreateIs DEF CreateTarget, DisksInv, branches
  <2>8. ASSUME NEW j \in Jobs, Open(j) \/ Close(j) PROVE DisksInv'
    <3>1. job[j].name \in Names
      BY <2>8 DEF Open, Close, Types, JobsInv
    <3> QED BY <1>0, <2>8, <3>1, GuardIs DEF Open, Close, DisksInv
  <2>9. ASSUME NEW j \in Jobs, Session(j) PROVE DisksInv'
    <3>1. disk' \in [Names -> Datasets \union {None}]
      BY <2>9, SessionIs
    <3> QED BY <1>0, <2>9, <3>1 DEF Session, DisksInv
  <2>10. ASSUME NEW c \in Clients, ReconcileGuard(c) PROVE DisksInv'
    <3>1. client[c].name \in Names
      BY <2>10 DEF ReconcileGuard, Types, GatewayInv, ClientOK
    <3> QED BY <1>0, <2>10, <3>1, GuardIs DEF ReconcileGuard, DisksInv
  <2>11. ASSUME NEW c \in Clients, Ensure(c) PROVE DisksInv'
    BY <1>0, <2>11 DEF Ensure, DisksInv
  <2>12. CASE ReaperStop
    BY <1>0, <2>12 DEF ReaperStop, DisksInv
  <2>13. ASSUME NEW n \in Names, Expire(n) \/ ReaperRead(n) PROVE DisksInv'
    BY <2>1, <2>13 DEF Expire, ReaperRead, branches
  <2>14. ASSUME NEW n \in Names, NEW c \in Clients, Touch(c, n) PROVE DisksInv'
    BY <2>1, <2>14 DEF Touch, branches
  <2>15. ASSUME NEW j \in Jobs, JobDies(j) \/ Check(j) \/ Test(j) PROVE DisksInv'
    BY <2>1, <2>15 DEF JobDies, Check, Test, branches
  <2>16. ASSUME NEW j \in Jobs, NEW n \in Targets, NEW p \in Plans[j], StartImport(j, n, p) \/ StartPipeline(j, n, p) PROVE DisksInv'
    BY <2>1, <2>16 DEF StartImport, StartPipeline, StartJob, branches
  <2>17. ASSUME NEW c \in Clients, Dial(c) \/ Hangup(c) PROVE DisksInv'
    BY <2>1, <2>17 DEF Dial, Hangup, branches
  <2>18. CASE ReaperConnections \/ ReaperReplication \/ GatewayRestart \/ UNCHANGED vars
    BY <2>1, <2>18 DEF ReaperConnections, ReaperReplication, GatewayRestart, vars, branches
  <2> QED BY <2>2, <2>3, <2>4, <2>5, <2>6, <2>7, <2>8, <2>9, <2>10, <2>11, <2>12, <2>13, <2>14, <2>15, <2>16, <2>17, <2>18, NextCases
<1>2. JobsInv'
  <2>1. CASE UNCHANGED job
    BY <2>1 DEF Types, JobsInv
  <2>2. ASSUME NEW j \in Jobs, NEW s, NEW o, Moved(j, s, o), job[j].pc # "idle" PROVE JobsInv'
    BY <2>2 DEF Moved, Types, JobsInv
  <2>3. ASSUME NEW j \in Jobs, JobDies(j) \/ Refresh(j) \/ CreateTarget(j) \/ Open(j) \/ Check(j) \/ Test(j) \/ Close(j) PROVE JobsInv'
    <3>1. job[j].pc # "idle"
      BY <2>3 DEF JobDies, Active, Refresh, CreateTarget, Open, Check, Test, Close
    <3> QED BY <2>2, <2>3, <3>1, JobIs
  <2>4. ASSUME NEW j \in Jobs, Session(j) PROVE JobsInv'
    <3>1. job[j].pc # "idle"
      BY <2>4 DEF Session
    <3>2. \E s, o : Moved(j, s, o)
      BY <2>4, SessionIs
    <3> QED BY <2>2, <3>1, <3>2
  <2>5. ASSUME NEW j \in Jobs, NEW n \in Targets, NEW p \in Plans[j], StartImport(j, n, p) \/ StartPipeline(j, n, p) PROVE JobsInv'
    <3>1. /\ job' \in [Jobs -> JobStates] /\ (\A i \in Jobs \ {j} : job'[i] = job[i])
          /\ job'[j].name \in Names /\ job'[j].plan \in Plans[j]
      BY <2>5, StartIs
    <3> QED BY <3>1 DEF Types, JobsInv
  <2>6. ASSUME NEW n \in Names, UserDelete(n) \/ Expire(n) \/ InitialCopy(n) \/ Cutover(n) \/ ReaperRead(n) PROVE JobsInv'
    BY <2>1, <2>6 DEF UserDelete, Expire, InitialCopy, Cutover, ReaperRead
  <2>7. ASSUME NEW n \in Names, NEW c \in Clients, Touch(c, n) PROVE JobsInv'
    BY <2>1, <2>7 DEF Touch
  <2>8. ASSUME NEW n \in Names, NEW p \in Names \union {"main"}, UserCreate(n, p) PROVE JobsInv'
    BY <2>1, <2>8 DEF UserCreate
  <2>9. ASSUME NEW c \in Clients, Ensure(c) \/ ReconcileGuard(c) \/ Dial(c) \/ Hangup(c) PROVE JobsInv'
    BY <2>1, <2>9 DEF Ensure, ReconcileGuard, Dial, Hangup
  <2>10. CASE ReaperConnections \/ ReaperReplication \/ ReaperStop \/ GatewayRestart \/ UNCHANGED vars
    BY <2>1, <2>10 DEF ReaperConnections, ReaperReplication, ReaperStop, GatewayRestart, vars
  <2> QED BY <2>3, <2>4, <2>5, <2>6, <2>7, <2>8, <2>9, <2>10, NextCases
<1>3. GatewayInv'
  <2> DEFINE Nowhere == [pc |-> "idle", name |-> None]
  <2>0. /\ \A c \in Clients : client[c] \in ClientStates /\ ClientOK(client[c], clock, reap)
        /\ reap.pc # "idle" => reap.name \in Names
        /\ cut = {}
    BY DEF Types, GatewayInv
  <2>a. Closed \in ClientStates /\ Closed.pc = "idle"
    BY DEF Closed, ClientStates
  <2>b. Nowhere \in ReaperStates /\ Nowhere.pc = "idle"
    BY DEF ReaperStates
  <2>c. ASSUME NEW ok, NEW s \in {"replication", "stop", ""}, ReaperGoto(ok, s), reap.pc # "idle",
               ok => s # ""
        PROVE  reap' \in ReaperStates /\ (reap'.pc # "idle" => reap.pc # "idle" /\ reap'.name = reap.name)
    <3>1. s # "" => [reap EXCEPT !.pc = s] \in ReaperStates /\ [reap EXCEPT !.pc = s].name = reap.name
      BY <1>0 DEF ReaperStates
    <3> QED BY <2>b, <2>c, <3>1 DEF ReaperGoto
  \* A step that closes connections or moves them on, and lets the reaper move on.
  <2>1. ASSUME client' \in [Clients -> ClientStates], clock' = clock, cut' = cut,
               \A c \in Clients : client'[c].pc # "idle" => /\ client[c].pc # "idle" /\ client'[c].name = client[c].name
                                                            /\ client'[c].late = client[c].late /\ client'[c].slow = client[c].slow
                                                            /\ (client'[c].pc = "session" <=> client[c].pc = "session"),
               reap' \in ReaperStates, reap'.pc # "idle" => reap.pc # "idle" /\ reap'.name = reap.name,
               reap.pc = "connections" /\ reap'.pc \notin {"idle", "connections"} =>
                 \A c \in Clients : client[c].name = reap.name => client[c].pc # "session"
        PROVE  GatewayInv'
    <3>1. \A c \in Clients : ClientOK(client'[c], clock', reap')
      BY <2>0, <2>1 DEF ClientOK
    <3> QED BY <1>0, <2>0, <2>1, <3>1 DEF GatewayInv
  <2>2. CASE UNCHANGED <<client, clock, reap, cut>>
    BY <1>0, <2>0, <2>2 DEF GatewayInv
  <2>3. ASSUME NEW n, client' = CutOff(n), UNCHANGED <<clock, reap, cut>> PROVE GatewayInv'
    BY <1>0, <2>1, <2>3, CutOffIs
  <2>4. ASSUME NEW n \in Names, UserDelete(n) PROVE GatewayInv'
    BY <2>3, <2>4 DEF UserDelete, DeleteBranch
  <2>5. ASSUME NEW j \in Jobs, Refresh(j) PROVE GatewayInv'
    BY <2>3, <2>5 DEF Refresh, DeleteBranch
  <2>6. ASSUME NEW n \in Names, Expire(n) PROVE GatewayInv'
    <3>1. client' = [c \in Clients |-> IF client[c].name = n /\ client[c].pc # "session"
                                       THEN [client[c] EXCEPT !.slow = TRUE] ELSE client[c]]
          /\ clock' = [clock EXCEPT ![n] = "idle"] /\ UNCHANGED <<reap, cut>>
      BY <2>6 DEF Expire, histories
    <3>2. ASSUME NEW c \in Clients
          PROVE  /\ client'[c] \in ClientStates /\ client'[c].pc = client[c].pc /\ client'[c].name = client[c].name
                 /\ client'[c].late = client[c].late /\ (client[c].slow => client'[c].slow)
                 /\ (client[c].name = n /\ client[c].pc # "session" => client'[c].slow)
      BY <1>0, <3>1 DEF ClientStates
    <3>3. client' \in [Clients -> ClientStates]
      BY <3>1, <3>2
    <3>4. clock' \in [Names -> {"unseen", "recent", "idle"}] /\ clock'[n] = "idle" /\ \A m \in Names \ {n} : clock'[m] = clock[m]
      BY <1>0, <3>1
    <3>5. \A c \in Clients : ClientOK(client'[c], clock', reap')
      BY <2>0, <3>1, <3>2, <3>4 DEF ClientOK
    <3> QED BY <1>0, <2>0, <3>1, <3>3, <3>4, <3>5 DEF GatewayInv
  <2>7. ASSUME NEW n \in Names, ReaperRead(n) PROVE GatewayInv'
    <3>1. UNCHANGED <<client, cut>> /\ clock[n] # "recent" /\ reap.pc = "idle"
      BY <2>7 DEF ReaperRead, histories
    <3>2. CASE clock[n] = "unseen"
      <4>1. clock' = [clock EXCEPT ![n] = "recent"] /\ reap' = reap
        BY <2>7, <3>2 DEF ReaperRead
      <4>2. clock' \in [Names -> {"unseen", "recent", "idle"}] /\ clock'[n] = "recent" /\ \A m \in Names \ {n} : clock'[m] = clock[m]
        BY <1>0, <4>1
      <4>3. \A c \in Clients : ClientOK(client[c], clock', reap)
        BY <2>0, <4>2 DEF ClientOK
      <4> QED BY <1>0, <2>0, <3>1, <4>1, <4>2, <4>3 DEF GatewayInv
    <3>3. CASE clock[n] # "unseen"
      <4> DEFINE r == [pc |-> "connections", name |-> n]
      <4>1. clock' = clock /\ reap' = r
        BY <2>7, <3>3 DEF ReaperRead
      <4>2. r \in ReaperStates /\ r.name = n /\ r.pc = "connections"
        BY DEF ReaperStates
      <4> HIDE DEF r
      <4>3. clock[n] = "idle"
        BY <1>0, <3>1, <3>3
      <4>4. \A c \in Clients : ClientOK(client[c], clock, r)
        BY <2>0, <4>2, <4>3 DEF ClientOK
      <4> QED BY <1>0, <2>0, <3>1, <4>1, <4>2, <4>4 DEF GatewayInv
    <3> QED BY <3>2, <3>3
  <2>8. ASSUME NEW n \in Names, NEW c \in Clients, Touch(c, n) PROVE GatewayInv'
    <3> DEFINE y == [pc |-> "ensure", name |-> n, late |-> reap.name = n, slow |-> FALSE]
    <3>1. client' = [client EXCEPT ![c] = y] /\ clock' = [clock EXCEPT ![n] = "recent"] /\ UNCHANGED <<reap, cut>>
      BY <2>8 DEF Touch, Set, histories
    <3>2. (reap.name = n) \in BOOLEAN
      OBVIOUS
    <3>3. y \in ClientStates /\ y.name = n /\ y.pc = "ensure" /\ (reap.name = n => y.late)
      BY <3>2 DEF ClientStates
    <3> HIDE DEF y
    <3>4. client' \in [Clients -> ClientStates] /\ client'[c] = y /\ \A d \in Clients \ {c} : client'[d] = client[d]
      BY <1>0, <3>1, <3>3
    <3>5. clock' \in [Names -> {"unseen", "recent", "idle"}] /\ clock'[n] = "recent" /\ \A m \in Names \ {n} : clock'[m] = clock[m]
      BY <1>0, <3>1
    <3>6. ClientOK(y, clock', reap)
      BY <3>3, <3>5 DEF ClientOK
    <3>7. \A d \in Clients \ {c} : ClientOK(client[d], clock', reap)
      BY <2>0, <3>5 DEF ClientOK
    <3>8. \A d \in Clients : ClientOK(client'[d], clock', reap')
      BY <3>1, <3>4, <3>6, <3>7
    <3> QED BY <1>0, <2>0, <3>1, <3>4, <3>5, <3>8 DEF GatewayInv
  <2>9. ASSUME NEW c \in Clients, NEW y \in ClientStates, Set(c, y), UNCHANGED <<clock, reap, cut>>,
               y.pc # "idle" => /\ client[c].pc # "idle" /\ y.name = client[c].name
                                /\ y.late = client[c].late /\ y.slow = client[c].slow
                                /\ y.pc # "session" /\ client[c].pc # "session"
        PROVE  GatewayInv'
    <3>1. client' \in [Clients -> ClientStates] /\ \A d \in Clients : client'[d] = IF d = c THEN y ELSE client[d]
      BY <1>0, <2>9 DEF Set
    <3> QED BY <1>0, <2>1, <2>9, <3>1
  <2>10. ASSUME NEW c \in Clients, Ensure(c) \/ ReconcileGuard(c) \/ Hangup(c) PROVE GatewayInv'
    <3>1. UNCHANGED <<clock, reap, cut>> /\ client[c].pc # "idle" /\ client[c] \in ClientStates
      BY <1>0, <2>10 DEF Ensure, ReconcileGuard, Hangup, histories
    <3>2. ASSUME NEW s \in {"dial", "guard"}
          PROVE  /\ [client[c] EXCEPT !.pc = s] \in ClientStates /\ [client[c] EXCEPT !.pc = s].name = client[c].name
                 /\ [client[c] EXCEPT !.pc = s].pc = s
                 /\ [client[c] EXCEPT !.pc = s].late = client[c].late /\ [client[c] EXCEPT !.pc = s].slow = client[c].slow
      BY <3>1 DEF ClientStates
    <3>3. Set(c, Closed) \/ \E s \in {"dial", "guard"} : client[c].pc # "session" /\ Set(c, [client[c] EXCEPT !.pc = s])
      <4>1. CASE Ensure(c)
        <5>1. CASE exists(client[c].name)
          <6>1. Set(c, [client[c] EXCEPT !.pc = IF cont[client[c].name] = "up" THEN "dial" ELSE "guard"])
            BY <4>1, <5>1 DEF Ensure
          <6>2. client[c].pc # "session"
            BY <4>1 DEF Ensure
          <6>3. CASE cont[client[c].name] = "up"
            BY <6>1, <6>2, <6>3
          <6>4. CASE cont[client[c].name] # "up"
            BY <6>1, <6>2, <6>4
          <6> QED BY <6>3, <6>4
        <5> QED BY <4>1, <5>1 DEF Ensure
      <4>2. CASE ReconcileGuard(c) \/ Hangup(c)
        BY <4>2 DEF ReconcileGuard, Hangup
      <4> QED BY <2>10, <4>1, <4>2
    <3>4. CASE Set(c, Closed)
      BY <2>9, <2>a, <3>1, <3>4
    <3>5. ASSUME NEW s \in {"dial", "guard"}, client[c].pc # "session", Set(c, [client[c] EXCEPT !.pc = s]) PROVE GatewayInv'
      <4> DEFINE y == [client[c] EXCEPT !.pc = s]
      <4>1. /\ y \in ClientStates /\ y.name = client[c].name /\ y.late = client[c].late /\ y.slow = client[c].slow /\ Set(c, y)
            /\ y.pc # "session" /\ client[c].pc # "session"
        BY <3>2, <3>5
      <4> HIDE DEF y
      <4> QED BY <2>9, <3>1, <4>1
    <3> QED BY <3>3, <3>4, <3>5
  \* Connected: the reaper will count it, or it was late or slow and the reaper has counted.
  <2>20. ASSUME NEW c \in Clients, Dial(c) PROVE GatewayInv'
    <3> DEFINE n == client[c].name
               kept == [client[c] EXCEPT !.pc = "session"]
               fresh == [pc |-> "session", name |-> n, late |-> FALSE, slow |-> FALSE]
    <3>1. UNCHANGED <<clock, reap, cut>> /\ client[c].pc = "dial" /\ client[c] \in ClientStates
      BY <1>0, <2>20 DEF Dial, histories
    <3>2. Set(c, Closed) \/ (Counted(n) /\ Set(c, kept)) \/ (~ Counted(n) /\ Set(c, fresh))
      BY <2>20 DEF Dial
    <3>3. CASE Set(c, Closed)
      BY <2>9, <2>a, <3>1, <3>3
    <3>4. ASSUME NEW y \in ClientStates, Set(c, y), ClientOK(y, clock, reap) PROVE GatewayInv'
      <4>1. client' \in [Clients -> ClientStates] /\ \A d \in Clients : client'[d] = IF d = c THEN y ELSE client[d]
        BY <1>0, <3>4 DEF Set
      <4>2. \A d \in Clients : ClientOK(client'[d], clock', reap')
        BY <2>0, <3>1, <3>4, <4>1
      <4> QED BY <1>0, <2>0, <3>1, <4>1, <4>2 DEF GatewayInv
    <3>5. CASE Counted(n) /\ Set(c, kept)
      <4>1. /\ kept \in ClientStates /\ kept.pc = "session" /\ kept.name = n
            /\ kept.late = client[c].late /\ kept.slow = client[c].slow
        BY <3>1 DEF ClientStates
      <4> HIDE DEF kept
      <4>2. ClientOK(kept, clock, reap)
        BY <2>0, <3>1, <3>5, <4>1 DEF ClientOK, Counted
      <4> QED BY <3>4, <3>5, <4>1, <4>2
    <3>6. CASE ~ Counted(n) /\ Set(c, fresh)
      <4>1. fresh \in ClientStates /\ fresh.pc = "session" /\ fresh.name = n
        BY <3>1 DEF ClientStates
      <4>2. reap.pc # "idle" /\ reap.name = n => reap.pc = "connections"
        BY <1>0, <3>6 DEF Counted, ReaperStates
      <4> HIDE DEF fresh
      <4>3. ClientOK(fresh, clock, reap)
        BY <2>0, <3>1, <4>1, <4>2 DEF ClientOK
      <4> QED BY <3>4, <3>6, <4>1, <4>3
    <3> QED BY <3>2, <3>3, <3>5, <3>6
  <2>11. CASE ReaperConnections
    <3> DEFINE ok == Up(reap.name) /\ ~ \E c \in Clients : client[c].name = reap.name /\ client[c].pc = "session"
    <3>1. ReaperGoto(ok, "replication") /\ reap.pc = "connections" /\ UNCHANGED <<client, clock, cut>>
      BY <2>11 DEF ReaperConnections, histories
    <3> HIDE DEF ok
    <3>2. reap' \in ReaperStates /\ (reap'.pc # "idle" => reap'.name = reap.name /\ ok)
      <4>1. CASE ok
        <5>1. reap' = [reap EXCEPT !.pc = "replication"]
          BY <3>1, <4>1 DEF ReaperGoto
        <5> QED BY <1>0, <4>1, <5>1 DEF ReaperStates
      <4>2. CASE ~ ok
        <5>1. reap' = Nowhere
          BY <3>1, <4>2 DEF ReaperGoto
        <5> QED BY <2>b, <5>1
      <4> QED BY <4>1, <4>2
    <3>3. reap'.pc # "idle" => \A c \in Clients : client[c].name = reap.name => client[c].pc # "session"
      BY <3>2 DEF ok
    <3> QED BY <1>0, <2>1, <3>1, <3>2, <3>3
  <2>12. CASE ReaperReplication
    BY <1>0, <2>1, <2>12, <2>c DEF ReaperReplication, histories
  <2>13. CASE ReaperStop
    <3>1. /\ reap.pc = "stop" /\ clock' = clock /\ client' = CutOff(reap.name) /\ ReaperGoto(FALSE, "")
          /\ cut' = cut \union {c \in Clients : client'[c] # client[c] /\ ~ client[c].late /\ ~ client[c].slow}
      BY <2>13 DEF ReaperStop
    <3>2. \A c \in Clients : client'[c] # client[c] => client[c].name = reap.name /\ client[c].pc = "session"
      BY <3>1, CutOffIs
    <3>3. \A c \in Clients : client'[c] # client[c] => client[c].late \/ client[c].slow
      BY <2>0, <3>1, <3>2 DEF ClientOK
    <3>4. cut' = cut
      BY <3>1, <3>3
    <3>5. reap' \in ReaperStates /\ (reap'.pc # "idle" => reap.pc # "idle" /\ reap'.name = reap.name)
      BY <2>c, <3>1
    <3> QED BY <2>1, <3>1, <3>4, <3>5, CutOffIs
  <2>14. CASE GatewayRestart
    <3>1. /\ client' = [c \in Clients |-> Closed] /\ clock' = [n \in Names |-> "unseen"] /\ reap' = Nowhere /\ cut' = cut
      BY <2>14 DEF GatewayRestart, ReaperGoto
    <3>2. client' \in [Clients -> ClientStates] /\ \A c \in Clients : client'[c].pc = "idle"
      BY <2>a, <3>1
    <3>3. clock' \in [Names -> {"unseen", "recent", "idle"}]
      BY <3>1
    <3>4. \A c \in Clients : ClientOK(client'[c], clock', reap')
      BY <3>2 DEF ClientOK
    <3> HIDE DEF Nowhere
    <3> QED BY <2>0, <2>b, <3>1, <3>2, <3>3, <3>4 DEF GatewayInv
  <2>15. ASSUME NEW n \in Names, InitialCopy(n) \/ Cutover(n) PROVE GatewayInv'
    BY <2>2, <2>15 DEF InitialCopy, Cutover, gateway, histories
  <2>16. ASSUME NEW n \in Names, NEW p \in Names \union {"main"}, UserCreate(n, p) PROVE GatewayInv'
    BY <2>2, <2>16 DEF UserCreate, gateway
  <2>17. ASSUME NEW j \in Jobs, JobDies(j) \/ CreateTarget(j) \/ Open(j) \/ Session(j) \/ Check(j) \/ Test(j) \/ Close(j) PROVE GatewayInv'
    BY <2>2, <2>17 DEF JobDies, CreateTarget, Open, Session, Check, Test, Close, gateway, histories
  <2>18. ASSUME NEW j \in Jobs, NEW n \in Targets, NEW p \in Plans[j], StartImport(j, n, p) \/ StartPipeline(j, n, p) PROVE GatewayInv'
    BY <2>2, <2>18 DEF StartImport, StartPipeline, StartJob, gateway
  <2>19. CASE UNCHANGED vars
    BY <2>2, <2>19 DEF vars, gateway, histories
  <2> QED BY <2>4, <2>5, <2>6, <2>7, <2>8, <2>10, <2>11, <2>12, <2>13, <2>14, <2>15, <2>16, <2>17, <2>18, <2>19, <2>20, NextCases
<1> QED BY <1>1, <1>2, <1>3 DEF Types

\* Every state has its type.
LEMMA TypesAlways == Spec => []Types
<1>1. Init => Types
  <2> SUFFICES ASSUME Init PROVE Types
    OBVIOUS
  <2>1. DisksInv
    BY DEF Init, DisksInv
  <2>2. Idle \in JobStates /\ Idle.pc = "idle"
    BY DEF Idle, JobStates, Steps, Plan
  <2>3. JobsInv
    BY <2>2 DEF Init, JobsInv
  <2>4. Closed \in ClientStates /\ Closed.pc = "idle"
    BY DEF Closed, ClientStates
  <2>5. [pc |-> "idle", name |-> None] \in ReaperStates
    BY DEF ReaperStates
  <2>6. GatewayInv
    BY <2>4, <2>5 DEF Init, GatewayInv, ClientOK
  <2> QED BY <2>1, <2>3, <2>6 DEF Types
<1> QED BY <1>1, TypesKept, PTL DEF Spec

\* The idle reaper cuts off no client that was connected when it counted the connections,
\* and no other that touched its branch before it read the clock and within the idle
\* window: by the count, a client that is not connected yet is late or slow.
THEOREM ReaperSparesTheConnected == Spec => []ReaperSparesClients
<1>1. Types => ReaperSparesClients
  BY DEF Types, GatewayInv, ReaperSparesClients
<1> QED BY <1>1, TypesAlways, PTL
-----------------------------------------------------------------------------
(* Replication *)

Replicates(n) == disk[n] # None /\ disk[n].sub # "none"

\* Without a clone of a replicating branch, one branch at most replicates, and has the
\* slot.  A branch that replicates while it is stopped, or about to be, began to as the
\* reaper was about to stop it.
ReplicationInv ==
  /\ ~ twins => \A m, n \in Names : Replicates(m) /\ Replicates(n) => m = n
  /\ ~ twins => \A n \in Names : Replicates(n) => slot
  /\ \A n \in Names : Replicates(n) /\ cont[n] = "down" => n \in raced
  /\ \A n \in Names : Replicates(n) /\ reap.pc = "stop" /\ reap.name = n => n \in raced

\* Every step keeps that.
LEMMA ReplicationKept == Types /\ ReplicationInv /\ [Next]_vars => ReplicationInv'
<1> SUFFICES ASSUME Types, ReplicationInv, [Next]_vars PROVE ReplicationInv'
  OBVIOUS
<1>0. /\ ~ twins => \A m, n \in Names : Replicates(m) /\ Replicates(n) => m = n
      /\ ~ twins => \A n \in Names : Replicates(n) => slot
      /\ \A n \in Names : Replicates(n) /\ cont[n] = "down" => n \in raced
      /\ \A n \in Names : Replicates(n) /\ reap.pc = "stop" /\ reap.name = n => n \in raced
  BY DEF ReplicationInv
\* A step after which no branch replicates that did not, or is stopped.
<1>1. ASSUME \A n \in Names : Replicates(n)' => Replicates(n),
             \A n \in Names : cont'[n] = "down" /\ Replicates(n)' => cont[n] = "down",
             UNCHANGED <<slot, twins, raced>>,
             reap'.pc = "stop" => \/ reap.pc = "stop" /\ reap'.name = reap.name
                                  \/ ~ Replicates(reap'.name)
      PROVE  ReplicationInv'
  <2>1. \A n \in Names : Replicates(n)' /\ reap'.pc = "stop" /\ reap'.name = n => n \in raced
    BY <1>0, <1>1
  <2> QED BY <1>0, <1>1, <2>1 DEF ReplicationInv
<1>2. CASE UNCHANGED <<disk, cont, slot, twins, raced, reap>>
  BY <1>0, <1>2 DEF ReplicationInv, Replicates
<1>3. ASSUME NEW n \in Names, DeleteBranch(n), UNCHANGED <<slot, twins, raced, reap>> PROVE ReplicationInv'
  <2>1. \A m \in Names : Replicates(m)' => Replicates(m)
    BY <1>3, DeleteIs DEF Replicates
  <2>2. \A m \in Names : cont'[m] = "down" => cont[m] = "down"
    BY <1>3, DeleteIs
  <2> QED BY <1>1, <1>3, <2>1, <2>2
<1>4. ASSUME NEW n \in Names, NEW p \in Names \union {"main"}, p # "main" => disk[p] # None, disk[n] = None,
             NEW by \in Jobs \union {"user"}, CreateBranch(n, p, by), UNCHANGED <<slot, reap>>
      PROVE  ReplicationInv'
  <2>1. /\ \A m \in Names \ {n} : disk'[m] = disk[m] /\ cont'[m] = cont[m]
        /\ cont'[n] = "up"
        /\ p = "main" => disk'[n].sub = "none"
        /\ p # "main" => disk'[n].sub = disk[p].sub
    BY <1>4, CreateIs
  <2>2. \A m \in Names \ {n} : (Replicates(m)' <=> Replicates(m)) /\ (m \in raced' <=> m \in raced)
    BY <1>4, <2>1 DEF Replicates, CreateBranch
  <2>3. Replicates(n)' => p # "main" /\ Replicates(p) /\ twins'
    BY <1>4, <2>1 DEF Replicates, CreateBranch
  <2>4. twins => twins'
    BY <1>4 DEF CreateBranch
  <2>5. Replicates(n)' /\ reap'.pc = "stop" /\ reap'.name = n => n \in raced'
    BY <1>4, <2>3 DEF CreateBranch
  <2> QED BY <1>0, <1>4, <2>1, <2>2, <2>3, <2>4, <2>5 DEF ReplicationInv
<1>5. ASSUME NEW n \in Names, NEW on \in BOOLEAN, setGuard(n, on), UNCHANGED <<cont, slot, twins, raced, reap>> PROVE ReplicationInv'
  <2>1. \A m \in Names : Replicates(m)' => Replicates(m)
    BY <1>5, GuardIs DEF Replicates
  <2> QED BY <1>1, <1>5, <2>1
<1>6. ASSUME NEW j \in Jobs, Session(j) PROVE ReplicationInv'
  <2>0. PICK n \in Names : n = job[j].name
    BY <1>6, SessionIs
  <2> DEFINE subscribed == Up(n) /\ disk[n].sub # disk'[n].sub
  <2>1. \A m \in Names \ {n} : Replicates(m)' <=> Replicates(m)
    BY <1>6, <2>0, SessionIs DEF Replicates
  <2>2. /\ slot' = (slot \/ subscribed) /\ UNCHANGED <<cont, twins, reap>>
        /\ raced' = IF subscribed /\ reap.pc = "stop" /\ reap.name = n THEN raced \union {n} ELSE raced
    BY <1>6, <2>0 DEF Session, gateway
  <2>3. CASE ~ subscribed
    <3>1. disk' = disk \/ (disk[n] # None /\ Up(n))
      BY <1>6, <2>0, SessionIs
    <3>2. Replicates(n)' => Replicates(n)
      BY <2>3, <3>1 DEF Replicates
    <3>3. slot' = slot
      BY <2>2, <2>3 DEF Types, DisksInv
    <3> QED BY <1>1, <2>1, <2>2, <2>3, <3>2, <3>3
  <2>4. CASE subscribed
    <3>1. Left(disk[n], disk'[n]) /\ disk[n] # None
      BY <1>6, <2>0, <2>4, SessionIs
    <3>2. disk[n].sub = "none" /\ ~ slot
      BY <2>4, <3>1 DEF Left
    <3>3. ~ twins => \A m \in Names : ~ Replicates(m)
      BY <1>0, <3>2
    <3>4. ~ twins' => \A m \in Names \ {n} : ~ Replicates(m)'
      BY <2>1, <2>2, <3>3
    <3>5. slot' = TRUE /\ cont[n] = "up"
      BY <2>2, <2>4 DEF Up
    <3>6. \A m \in Names : Replicates(m)' /\ cont'[m] = "down" => m \in raced'
      BY <1>0, <2>1, <2>2, <3>5
    <3>7. \A m \in Names : Replicates(m)' /\ reap'.pc = "stop" /\ reap'.name = m => m \in raced'
      BY <1>0, <2>1, <2>2, <2>4
    <3> QED BY <2>1, <3>4, <3>5, <3>6, <3>7 DEF ReplicationInv
  <2> QED BY <2>3, <2>4
<1>7. ASSUME NEW n \in Names, InitialCopy(n) PROVE ReplicationInv'
  <2>1. /\ disk[n] # None /\ disk[n].sub = "copying" /\ UNCHANGED <<cont, slot, twins, raced, reap>>
        /\ \A m \in Names \ {n} : disk'[m] = disk[m]
    BY <1>7 DEF InitialCopy, Up, exists, gateway, histories, Types, DisksInv
  <2>2. \A m \in Names : Replicates(m)' => Replicates(m)
    BY <2>1 DEF Replicates
  <2> QED BY <1>1, <2>1, <2>2
<1>8. ASSUME NEW n \in Names, Cutover(n) PROVE ReplicationInv'
  <2>1. /\ Replicates(n) /\ UNCHANGED <<cont, twins, reap>> /\ raced' = raced \ {n}
        /\ disk' = [disk EXCEPT ![n] = [disk[n] EXCEPT !.sub = "none"]]
    BY <1>8 DEF Cutover, TableCount, Up, exists, Replicates, gateway
  <2>2. disk[n] \in Datasets
    BY <2>1 DEF Replicates, Types, DisksInv
  <2>3. ~ Replicates(n)' /\ \A m \in Names \ {n} : Replicates(m)' <=> Replicates(m)
    BY <2>1, <2>2 DEF Replicates, Types, DisksInv, Datasets
  <2>4. ~ twins' => \A m \in Names : ~ Replicates(m)'
    BY <1>0, <2>1, <2>3
  <2> QED BY <1>0, <2>1, <2>3, <2>4 DEF ReplicationInv
<1>9. ASSUME NEW c \in Clients, Ensure(c) PROVE ReplicationInv'
  <2>1. UNCHANGED <<disk, slot, twins, raced, reap>>
    BY <1>9 DEF Ensure, histories
  <2>2. \A m \in Names : cont'[m] = "down" => cont[m] = "down"
    BY <1>9 DEF Ensure, Types, DisksInv
  <2> QED BY <1>1, <2>1, <2>2 DEF Replicates
<1>10. CASE ReaperStop
  <2>1. UNCHANGED <<disk, slot, twins, raced>> /\ reap.pc = "stop" /\ reap'.pc = "idle"
    BY <1>10 DEF ReaperStop, ReaperGoto
  <2>2. \A m \in Names \ {reap.name} : cont'[m] = cont[m]
    BY <1>10 DEF ReaperStop, Types, DisksInv
  <2>3. \A m \in Names : Replicates(m)' <=> Replicates(m)
    BY <2>1 DEF Replicates
  <2> QED BY <1>0, <2>1, <2>2, <2>3 DEF ReplicationInv
<1>11. CASE ReaperReplication
  <2>1. /\ UNCHANGED <<disk, cont, slot, twins, raced>> /\ reap.pc = "replication"
        /\ reap' = IF Up(reap.name) /\ disk[reap.name].sub = "none" THEN [reap EXCEPT !.pc = "stop"] ELSE [pc |-> "idle", name |-> None]
    BY <1>11 DEF ReaperReplication, ReaperGoto, branches, histories
  <2>2. [reap EXCEPT !.pc = "stop"].name = reap.name
    BY DEF Types, GatewayInv, ReaperStates
  <2>3. reap'.pc = "stop" => ~ Replicates(reap'.name)
    BY <2>1, <2>2 DEF Replicates
  <2> QED BY <1>1, <2>1, <2>3 DEF Replicates
<1>12. CASE ReaperConnections \/ GatewayRestart \/ UNCHANGED vars \/ \E n \in Names : ReaperRead(n)
  <2>1. UNCHANGED <<disk, cont, slot, twins, raced>>
    BY <1>12 DEF ReaperConnections, GatewayRestart, vars, ReaperRead, branches, histories
  <2>2. reap'.pc # "stop" \/ reap' = reap
    <3> DEFINE r == [reap EXCEPT !.pc = "replication"]
               i == [pc |-> "idle", name |-> None]
    <3>1. r.pc = "replication" /\ i.pc = "idle"
      BY DEF Types, GatewayInv, ReaperStates
    <3>2. CASE ReaperConnections \/ GatewayRestart
      <4>1. reap' = r \/ reap' = i
        BY <3>2 DEF ReaperConnections, GatewayRestart, ReaperGoto
      <4> HIDE DEF r, i
      <4> QED BY <3>1, <4>1
    <3>3. CASE UNCHANGED vars \/ \E n \in Names : ReaperRead(n)
      <4>1. ASSUME NEW n \in Names, ReaperRead(n) PROVE reap'.pc # "stop" \/ reap' = reap
        BY <4>1 DEF ReaperRead
      <4> QED BY <3>3, <4>1 DEF vars, gateway
    <3> QED BY <1>12, <3>2, <3>3
  <2> QED BY <1>1, <2>1, <2>2 DEF Replicates
<1>13. ASSUME NEW n \in Names, UserDelete(n) PROVE ReplicationInv'
  BY <1>3, <1>13 DEF UserDelete
<1>14. ASSUME NEW n \in Names, NEW p \in Names \union {"main"}, UserCreate(n, p) PROVE ReplicationInv'
  BY <1>4, <1>14 DEF UserCreate, exists, gateway
<1>15. ASSUME NEW j \in Jobs, Refresh(j) \/ CreateTarget(j) \/ Open(j) \/ Close(j) PROVE ReplicationInv'
  <2>1. job[j].name \in Names
    BY <1>15 DEF Refresh, CreateTarget, Open, Close, Types, JobsInv
  <2>2. CASE Refresh(j)
    BY <1>3, <2>1, <2>2 DEF Refresh
  <2>3. CASE CreateTarget(j)
    BY <1>2, <1>4, <2>1, <2>3 DEF CreateTarget, exists, gateway, branches
  <2>4. CASE Open(j) \/ Close(j)
    BY <1>5, <2>1, <2>4 DEF Open, Close, gateway
  <2> QED BY <1>15, <2>2, <2>3, <2>4
<1>16. ASSUME NEW c \in Clients, ReconcileGuard(c) PROVE ReplicationInv'
  <2>1. client[c].name \in Names
    BY <1>16 DEF ReconcileGuard, Types, GatewayInv, ClientOK
  <2> QED BY <1>5, <1>16, <2>1 DEF ReconcileGuard
<1>17. ASSUME NEW j \in Jobs, JobDies(j) \/ Check(j) \/ Test(j) PROVE ReplicationInv'
  BY <1>2, <1>17 DEF JobDies, Check, Test, branches, gateway, histories
<1>18. ASSUME NEW c \in Clients, Dial(c) \/ Hangup(c) \/ \E n \in Names : Touch(c, n) PROVE ReplicationInv'
  BY <1>2, <1>18 DEF Dial, Hangup, Touch, branches, histories
<1>19. ASSUME NEW n \in Names, Expire(n) PROVE ReplicationInv'
  BY <1>2, <1>19 DEF Expire, branches, histories
<1>20. ASSUME NEW j \in Jobs, NEW n \in Targets, NEW p \in Plans[j], StartImport(j, n, p) \/ StartPipeline(j, n, p) PROVE ReplicationInv'
  BY <1>2, <1>20, StartIs DEF branches, gateway
<1> QED BY <1>6, <1>7, <1>8, <1>9, <1>10, <1>11, <1>12, <1>13, <1>14, <1>15, <1>16, <1>17, <1>18, <1>19, <1>20, NextCases

\* Every state has it.
LEMMA ReplicationAlways == Spec => []ReplicationInv
<1>1. Init => ReplicationInv
  BY DEF Init, ReplicationInv, Replicates
<1> QED BY <1>1, TypesAlways, ReplicationKept, PTL DEF Spec

\* The comment on canSuspend, for every interleaving: a replicating branch is suspended
\* only if it began to replicate between the reaper's look at its subscriptions and its
\* docker stop.
THEOREM OnlyARaceSuspendsReplication == Spec => []ReplicationSuspendedOnlyByRace
<1>1. ReplicationInv => ReplicationSuspendedOnlyByRace
  BY DEF ReplicationInv, Replicates, ReplicationSuspendedOnlyByRace, exists
<1> QED BY <1>1, ReplicationAlways, PTL

\* A branch that replicates has its slot on the source as long as no replicating branch
\* was cloned: subscribing takes the one slot, and only its holder's cutover drops it.
THEOREM ReplicationKeepsItsSlot == Spec => []SubscriptionsHaveTheirSlot
<1>1. ReplicationInv => SubscriptionsHaveTheirSlot
  BY DEF ReplicationInv, Replicates, SubscriptionsHaveTheirSlot, exists
<1> QED BY <1>1, ReplicationAlways, PTL
-----------------------------------------------------------------------------
(* The guard *)

\* A job has it off from Open to Close; a job that has yet to open, or gives up before,
\* is no cause.
GuardInv ==
  \A n \in Names : Up(n) /\ ~ disk[n].guard =>
    \/ \E j \in Jobs : job[j].pc \in Unguarded /\ job[j].name = n
    \/ \E c \in Clients : client[c].name = n /\ client[c].pc = "guard"
    \/ n \in orphan \/ n \in inherit

\* Every step keeps that.
LEMMA GuardKept == Types /\ GuardInv /\ [Next]_vars => GuardInv'
<1> SUFFICES ASSUME Types, GuardInv, [Next]_vars,
                    NEW n \in Names, cont'[n] = "up", disk'[n] # None, ~ disk'[n].guard
             PROVE  \/ \E j \in Jobs : job'[j].pc \in Unguarded /\ job'[j].name = n
                    \/ \E c \in Clients : client'[c].name = n /\ client'[c].pc = "guard"
                    \/ n \in orphan' \/ n \in inherit'
  BY DEF GuardInv, Up, exists
<1> DEFINE Goal == \/ \E j \in Jobs : job'[j].pc \in Unguarded /\ job'[j].name = n
                   \/ \E c \in Clients : client'[c].name = n /\ client'[c].pc = "guard"
                   \/ n \in orphan' \/ n \in inherit'
<1>0. cont[n] = "up" /\ disk[n] # None /\ ~ disk[n].guard =>
        \/ \E j \in Jobs : job[j].pc \in Unguarded /\ job[j].name = n
        \/ \E c \in Clients : client[c].name = n /\ client[c].pc = "guard"
        \/ n \in orphan \/ n \in inherit
  BY DEF GuardInv, Up, exists
\* A step that leaves the branch as it was, and every cause.
<1>1. ASSUME cont[n] = "up", disk[n] # None, ~ disk[n].guard,
             \A j \in Jobs : job[j].pc \in Unguarded /\ job[j].name = n => job'[j].pc \in Unguarded /\ job'[j].name = n,
             \A c \in Clients : client[c].name = n /\ client[c].pc = "guard" => client'[c].name = n /\ client'[c].pc = "guard",
             n \in orphan => n \in orphan', n \in inherit => n \in inherit'
      PROVE  Goal
  BY <1>0, <1>1
<1>2. CASE UNCHANGED <<disk, cont, orphan, inherit>> /\ UNCHANGED <<job, client>>
  BY <1>1, <1>2
<1>3. ASSUME NEW m \in Names, DeleteBranch(m),
             \A j \in Jobs : job[j].pc \in Unguarded => job'[j] = job[j]
      PROVE  Goal
  <2>1. m # n /\ cont[n] = "up" /\ disk[n] = disk'[n] /\ n \notin Gone(m)
    BY <1>3, DeleteIs
  <2>2. \A c \in Clients : client[c].name = n /\ client[c].pc = "guard" => client'[c].name = n /\ client'[c].pc = "guard"
    BY <1>3, CutOffIs DEF DeleteBranch
  <2> QED BY <1>1, <1>3, <2>1, <2>2 DEF DeleteBranch
<1>4. ASSUME NEW m \in Names, NEW p \in Names \union {"main"}, p # "main" => disk[p] # None,
             NEW by \in Jobs \union {"user"}, CreateBranch(m, p, by), UNCHANGED client,
             \A j \in Jobs : job[j].pc \in Unguarded => job'[j] = job[j]
      PROVE  Goal
  <2>1. CASE m = n
    <3>0. (p = "main" => disk'[n].guard = TRUE) /\ (p # "main" => disk'[n].guard = disk[p].guard)
      BY <1>4, <2>1, CreateIs
    <3>1. p # "main" /\ ~ disk[p].guard
      BY <3>0
    <3> QED BY <1>4, <2>1, <3>1 DEF CreateBranch
  <2>2. CASE m # n
    <3>1. disk'[n] = disk[n] /\ cont'[n] = cont[n]
      BY <1>4, <2>2, CreateIs
    <3>2. (n \in orphan => n \in orphan') /\ (n \in inherit => n \in inherit')
      BY <1>4, <2>2 DEF CreateBranch
    <3> QED BY <1>1, <1>4, <3>1, <3>2
  <2> QED BY <2>1, <2>2
<1>5. ASSUME NEW m \in Names, setGuard(m, TRUE), cont' = cont,
             \A j \in Jobs : job[j].pc \in Unguarded => job'[j] = job[j] \/ job[j].name = m,
             \A c \in Clients : client'[c] = client[c] \/ client[c].name = m
      PROVE  Goal
  <2>1. CASE m = n
    <3>1. disk' = disk /\ orphan' = IF Up(n) /\ ~ disk[n].guard THEN orphan \union {n} ELSE orphan
      BY <1>5, <2>1, GuardIs
    <3> QED BY <1>5, <3>1 DEF Up, exists
  <2>2. CASE m # n
    <3>1. disk'[n] = disk[n]
      BY <1>5, <2>2, GuardIs
    <3>2. (n \in orphan => n \in orphan') /\ (n \in inherit => n \in inherit')
      BY <1>5, <2>2, GuardIs
    <3> QED BY <1>1, <1>5, <2>2, <3>1, <3>2
  <2> QED BY <2>1, <2>2
<1>6. ASSUME NEW j \in Jobs, JobDies(j) PROVE Goal
  <2>1. UNCHANGED <<disk, cont, client, inherit>> /\ (\A i \in Jobs \ {j} : job'[i] = job[i])
        /\ orphan' = IF exists(job[j].name) /\ ~ disk[job[j].name].guard THEN orphan \union {job[j].name} ELSE orphan
    BY <1>6, JobIs DEF JobDies, branches, gateway, Moved
  <2>2. CASE job[j].name = n
    BY <2>1, <2>2 DEF exists
  <2>3. CASE job[j].name # n
    BY <1>1, <2>1, <2>3
  <2> QED BY <2>2, <2>3
<1>7. ASSUME NEW j \in Jobs, Refresh(j) PROVE Goal
  <2>1. job[j].name \in Names /\ \A i \in Jobs : job[i].pc \in Unguarded => job'[i] = job[i]
    BY <1>7, JobIs DEF Refresh, Moved, Types, JobsInv, Unguarded, Sessions
  <2> QED BY <1>3, <1>7, <2>1 DEF Refresh
<1>8. ASSUME NEW j \in Jobs, CreateTarget(j) PROVE Goal
  <2>1. job[j].name \in Names /\ \A i \in Jobs : job[i].pc \in Unguarded => job'[i] = job[i]
    BY <1>8, JobIs DEF CreateTarget, Moved, Types, JobsInv, Unguarded, Sessions
  <2>2. CASE exists(job[j].name)
    BY <1>1, <1>8, <2>1, <2>2 DEF CreateTarget, branches, gateway
  <2>3. CASE ~ exists(job[j].name)
    BY <1>4, <1>8, <2>1, <2>3 DEF CreateTarget, gateway
  <2> QED BY <2>2, <2>3
<1>9. ASSUME NEW j \in Jobs, Open(j) PROVE Goal
  <2>1. job[j].name \in Names /\ Moved(j, IF job[j].pc = "open" THEN "prepare" ELSE "stage", job[j].out)
    BY <1>9, JobIs DEF Open, Types, JobsInv
  <2>2. CASE job[j].name = n
    BY <2>1, <2>2 DEF Moved, Unguarded, Sessions
  <2>3. CASE job[j].name # n
    <3>1. disk'[n] = disk[n] /\ cont' = cont /\ client' = client /\ orphan' = orphan /\ inherit' = inherit
      BY <1>9, <2>1, <2>3, GuardIs DEF Open, gateway, setGuard
    <3> QED BY <1>1, <2>1, <2>3, <3>1 DEF Moved
  <2> QED BY <2>2, <2>3
<1>10. ASSUME NEW j \in Jobs, NEW s \in Unguarded, NEW o, Moved(j, s, o), UNCHANGED <<cont, client, orphan, inherit>>,
              job[j].name # n => disk'[n] = disk[n]
       PROVE  Goal
  <2>1. CASE job[j].name = n
    BY <1>10, <2>1 DEF Moved
  <2>2. CASE job[j].name # n
    BY <1>1, <1>10, <2>2 DEF Moved
  <2> QED BY <2>1, <2>2
<1>11. ASSUME NEW j \in Jobs, Session(j) PROVE Goal
  <2>1. UNCHANGED <<cont, client, orphan, inherit>> /\ (job[j].name # n => disk'[n] = disk[n])
    BY <1>11, SessionIs DEF Session, gateway
  <2>2. \E s \in Unguarded, o \in {"error", job[j].out} : Moved(j, s, o)
    BY <1>11, SessionIs DEF After, Unguarded, Sessions
  <2> QED BY <1>10, <2>1, <2>2
<1>12. ASSUME NEW j \in Jobs, Check(j) \/ Test(j) PROVE Goal
  <2>1. UNCHANGED <<disk, cont, client, orphan, inherit>>
    BY <1>12 DEF Check, Test, branches, gateway, histories
  <2>2. \E o : Moved(j, "close", o)
    BY <1>12, JobIs
  <2> QED BY <1>10, <2>1, <2>2 DEF Unguarded
<1>13. ASSUME NEW j \in Jobs, Close(j) PROVE Goal
  <2>1. job[j].name \in Names /\ \A i \in Jobs \ {j} : job'[i] = job[i]
    BY <1>13, JobIs DEF Close, Moved, Types, JobsInv
  <2>2. setGuard(job[j].name, TRUE) /\ cont' = cont /\ client' = client
    BY <1>13 DEF Close, gateway
  <2> QED BY <1>5, <2>1, <2>2
<1>14. ASSUME NEW c \in Clients, ReconcileGuard(c) PROVE Goal
  <2>1. client[c].name \in Names /\ \A d \in Clients \ {c} : client'[d] = client[d]
    BY <1>14 DEF ReconcileGuard, Set, Types, GatewayInv, ClientOK
  <2> QED BY <1>5, <1>14, <2>1 DEF ReconcileGuard
<1>15. ASSUME NEW c \in Clients, NEW y, Set(c, y), client[c].pc # "guard", UNCHANGED <<disk, cont, job, orphan, inherit>> PROVE Goal
  <2>1. \A d \in Clients \ {c} : client'[d] = client[d]
    BY <1>15 DEF Set, Types, GatewayInv
  <2> QED BY <1>1, <1>15, <2>1
<1>16. ASSUME NEW c \in Clients, Ensure(c) PROVE Goal
  <2>1. client[c].pc = "ensure" /\ UNCHANGED <<disk, job, orphan, inherit>> /\ client[c] \in ClientStates
    BY <1>16 DEF Ensure, histories, Types, GatewayInv
  <2>2. CASE cont' = cont
    BY <1>15, <1>16, <2>1, <2>2 DEF Ensure
  <2>3. CASE cont' # cont
    <3> DEFINE m == client[c].name
               y == [client[c] EXCEPT !.pc = "guard"]
    <3>0. cont' = [cont EXCEPT ![m] = "up"] /\ Set(c, [client[c] EXCEPT !.pc = IF cont[m] = "up" THEN "dial" ELSE "guard"])
      BY <1>16, <2>3 DEF Ensure
    <3>a. cont[m] # "up"
      BY <2>3, <3>0 DEF Types, DisksInv
    <3>1. Set(c, y)
      BY <3>0, <3>a
    <3>2. y.pc = "guard" /\ y.name = m
      BY <2>1 DEF ClientStates
    <3> HIDE DEF y
    <3>3. client'[c] = y /\ \A d \in Clients \ {c} : client'[d] = client[d]
      BY <3>1 DEF Set, Types, GatewayInv
    <3>4. CASE m = n
      BY <3>2, <3>3, <3>4
    <3>5. CASE m # n
      <4>1. cont'[n] = cont[n]
        BY <3>0, <3>5 DEF Types, DisksInv
      <4> QED BY <1>1, <2>1, <3>3, <4>1
    <3> QED BY <3>4, <3>5
  <2> QED BY <2>2, <2>3
<1>17. ASSUME NEW c \in Clients, Dial(c) \/ Hangup(c) PROVE Goal
  BY <1>15, <1>17 DEF Dial, Hangup, branches, histories
<1>18. ASSUME NEW c \in Clients, NEW m \in Names, Touch(c, m) PROVE Goal
  BY <1>15, <1>18 DEF Touch, branches, histories
<1>19. ASSUME NEW m \in Names, Expire(m) PROVE Goal
  <2>1. UNCHANGED <<disk, cont, job, orphan, inherit>>
    BY <1>19 DEF Expire, branches, histories
  <2>2. \A c \in Clients : client'[c].pc = client[c].pc /\ client'[c].name = client[c].name
    BY <1>19 DEF Expire, Types, GatewayInv, ClientStates
  <2> QED BY <1>1, <2>1, <2>2
<1>20. CASE ReaperStop
  <2>1. UNCHANGED <<disk, job, orphan, inherit>> /\ client' = CutOff(reap.name) /\ cont' = [cont EXCEPT ![reap.name] = IF @ = "up" THEN "down" ELSE @]
    BY <1>20 DEF ReaperStop
  <2>2. cont[n] = "up"
    BY <2>1 DEF Types, DisksInv
  <2>3. \A c \in Clients : client[c].pc = "guard" => client'[c] = client[c]
    BY <2>1, CutOffIs
  <2> QED BY <1>1, <2>1, <2>2, <2>3
<1>21. CASE GatewayRestart
  <2>1. UNCHANGED <<disk, cont, job, inherit>>
        /\ orphan' = orphan \union {m \in Names : exists(m) /\ ~ disk[m].guard /\ \E c \in Clients : client[c].name = m /\ client[c].pc = "guard"}
    BY <1>21 DEF GatewayRestart, branches
  <2> QED BY <1>0, <2>1 DEF exists
<1>22. ASSUME NEW m \in Names, InitialCopy(m) \/ Cutover(m) PROVE Goal
  <2>1. UNCHANGED <<cont, job, client, orphan, inherit>> /\ disk[m] # None
    BY <1>22 DEF InitialCopy, Cutover, TableCount, Up, exists, gateway, histories
  <2>2. disk[m] \in Datasets
    BY <2>1 DEF Types, DisksInv
  <2>3. disk'[n] # None => disk[n] # None /\ disk'[n].guard = disk[n].guard
    BY <1>22, <2>1, <2>2 DEF InitialCopy, Cutover, Types, DisksInv, Datasets
  <2> QED BY <1>1, <2>1, <2>3
<1>23. ASSUME NEW m \in Names, UserDelete(m) PROVE Goal
  BY <1>3, <1>23 DEF UserDelete
<1>24. ASSUME NEW m \in Names, NEW p \in Names \union {"main"}, UserCreate(m, p) PROVE Goal
  BY <1>4, <1>24 DEF UserCreate, exists, gateway
<1>25. ASSUME NEW j \in Jobs, NEW m \in Targets, NEW p \in Plans[j], StartImport(j, m, p) \/ StartPipeline(j, m, p) PROVE Goal
  <2>1. /\ UNCHANGED <<disk, cont, client, orphan, inherit>> /\ job[j].pc = "idle"
        /\ \A i \in Jobs \ {j} : job'[i] = job[i]
    BY <1>25, StartIs DEF branches, gateway
  <2> QED BY <1>1, <2>1 DEF Unguarded, Sessions
<1>26. CASE ReaperConnections \/ ReaperReplication \/ UNCHANGED vars \/ \E m \in Names : ReaperRead(m)
  BY <1>2, <1>26 DEF ReaperConnections, ReaperReplication, vars, ReaperRead, branches, histories, gateway
<1> QED BY <1>6, <1>7, <1>8, <1>9, <1>11, <1>12, <1>13, <1>14, <1>16, <1>17, <1>18, <1>19, <1>20, <1>21, <1>22, <1>23, <1>24,
           <1>25, <1>26, NextCases

\* A running branch without the destructive-DDL guard is being imported into or woken,
\* or was left so by a process that died, by a setGuard that failed unreported, or by
\* Create from such a branch.
THEOREM GuardIsOffForACause == Spec => []UnguardedHasACause
<1>1. Init => GuardInv
  BY DEF Init, GuardInv, Up, exists
<1>2. GuardInv => UnguardedHasACause
  BY DEF GuardInv, UnguardedHasACause, Unguarding, Active, Unguarded, Sessions
<1> QED BY <1>1, <1>2, TypesAlways, GuardKept, PTL DEF Spec
-----------------------------------------------------------------------------
(* What a job has loaded *)

Loaded(j) == {<<j, "table">>, <<j, "rows">>}

\* The dataset d of job j, with plan p, at each of its steps; x: the pipeline has its
\* extract.
Content(j, p, pc, x, d) ==
  /\ pc \in {"open", "prepare", "load", "rows", "docs", "relational", "subscribe", "check"} => d.raw = {} /\ x = FALSE
  /\ pc = "load"       => d.public = {}
  /\ pc = "rows"       => d.public = {<<j, "table">>}
  /\ pc = "docs"       => d.public = {<<j, "stage">>}
  /\ pc = "relational" => d.public = {<<j, "stage">>, <<j, "docs">>}
  /\ pc = "subscribe"  => d.public = {<<j, "table">>} /\ p.load = "continuous"
  /\ pc = "check"      => d.public = Loaded(j)
  /\ pc \in {"reopen", "stage"} => d.raw = {} /\ d.public = Loaded(j) /\ x = TRUE
  /\ pc = "model"      => d.raw = Loaded(j) /\ d.public = {} /\ x = TRUE
  /\ pc = "test"       => d.raw = Loaded(j) /\ d.public = {<<j, "model">>} /\ x = TRUE
  /\ pc = "close" /\ x = FALSE =>
       d.raw = {} /\ (d.public = Loaded(j) \/ (p.load = "continuous" /\ d.public = {<<j, "table">>}))
  /\ pc = "close" /\ x = TRUE => d.raw = Loaded(j) /\ d.public = {<<j, "model">>}
  /\ x = TRUE => p.pipeline
  /\ d.sub # "none" => p.load = "continuous" /\ pc = "close"

\* A session that does not fail takes its job's dataset to the content of the next step.
LEMMA SessionContent ==
  ASSUME NEW j \in Jobs, Db(j) \in Datasets, job[j] \in JobStates, job[j].pc \in Sessions, job[j].plan.load # "pgloader",
         Content(j, job[j].plan, job[j].pc, job[j].extracted, Db(j)), NEW o \in Outcomes(j), o[2] # "fail"
  PROVE  Content(j, job[j].plan, o[2], job[j].extracted, o[1])
<1> DEFINE D == Db(j)
           p == job[j].plan
           x == job[j].extracted
<1>0. /\ x \in BOOLEAN /\ (x = TRUE => p.pipeline) /\ D.sub = "none" /\ o \notin failed(j) /\ D \in Datasets
      /\ {} \in SUBSET (Pieces \union {MainTable}) /\ D.public \in SUBSET (Pieces \union {MainTable})
  BY DEF Content, JobStates, Sessions, failed, Datasets
<1>1. ASSUME NEW S \in SUBSET {"stage", "docs", "table", "rows", "model"}
      PROVE  Add(j, S).public = D.public \union {<<j, k>> : k \in S} /\ Add(j, S).raw = D.raw /\ Add(j, S).sub = D.sub
  <2>1. {j} \X S = {<<j, k>> : k \in S}
    OBVIOUS
  <2> QED BY <2>1, AddLeft
<1>2. ASSUME NEW S \in SUBSET (Pieces \union {MainTable})
      PROVE  [D EXCEPT !.public = S].public = S /\ [D EXCEPT !.public = S].raw = D.raw /\ [D EXCEPT !.public = S].sub = D.sub
  BY <1>0, TablesLeft
<1>3. CASE job[j].pc = "prepare"
  <2>1. o = <<[D EXCEPT !.public = {}], "load">>
    BY <1>0, <1>3 DEF Outcomes, prepareTarget
  <2>2. D.raw = {} /\ x = FALSE
    BY <1>3 DEF Content
  <2> QED BY <1>0, <1>2, <2>1, <2>2 DEF Content
<1>4. CASE job[j].pc = "load"
  <2>0. D.public = {} /\ D.raw = {} /\ x = FALSE /\ \A k : ~ Has(j, k)
    BY <1>4 DEF Content, Has
  <2>1. CASE p.load \in {"postgres", "sql"}
    <3>1. o = <<Add(j, {"table", "rows"}), "check">>
      BY <1>4, <2>1 DEF Outcomes, loadPostgres, loadSQL, runCollectingErrors
    <3>2. Add(j, {"table", "rows"}).public = Loaded(j)
      BY <1>1, <2>0 DEF Loaded
    <3> QED BY <1>0, <1>1, <2>0, <3>1, <3>2 DEF Content
  <2>2. CASE p.load \in {"native", "csv"}
    <3>1. o = <<Add(j, {"table"}), "rows">>
      BY <1>0, <1>4, <2>0, <2>2 DEF Outcomes, loadMySQL, mysqlNeedsNative, loadMySQLNative, loadCSV
    <3>2. Add(j, {"table"}).public = {<<j, "table">>}
      BY <1>1, <2>0
    <3> QED BY <1>0, <1>1, <2>0, <3>1, <3>2 DEF Content
  <2>3. CASE p.load \in {"json", "mongo"}
    <3>1. o = <<[D EXCEPT !.public = Without(j, {"stage", "docs"}) \union {<<j, "stage">>}], "docs">>
      BY <1>0, <1>4, <2>3 DEF Outcomes, loadMongo, stageTable
    <3>2. Without(j, {"stage", "docs"}) \union {<<j, "stage">>} = {<<j, "stage">>}
      BY <2>0 DEF Without
    <3>3. {<<j, "stage">>} \in SUBSET (Pieces \union {MainTable})
      BY DEF Pieces
    <3> QED BY <1>0, <1>2, <2>0, <3>1, <3>2, <3>3 DEF Content
  <2>4. CASE p.load = "continuous"
    <3>1. PICK S \in {{}, {"table"}} : o = <<Add(j, S), IF Tables(Add(j, S)) = {} THEN "fail" ELSE "subscribe">>
      BY <1>0, <1>4, <2>4 DEF Outcomes, copySchema
    <3>2. S # {}
      <4>1. Add(j, {}).public = {} /\ Add(j, {}).raw = {}
        BY <1>1, <2>0
      <4>2. Tables(Add(j, {})) = {}
        BY <4>1 DEF Tables
      <4> QED BY <3>1, <4>2
    <3>3. S = {"table"} /\ o[2] = "subscribe" /\ o[1] = Add(j, {"table"})
      BY <3>1, <3>2
    <3>4. Add(j, {"table"}).public = {<<j, "table">>}
      BY <1>1, <2>0
    <3> QED BY <1>0, <1>1, <2>0, <2>4, <3>3, <3>4 DEF Content
  <2> QED BY <2>1, <2>2, <2>3, <2>4 DEF JobStates, Plan
<1>5. CASE job[j].pc = "rows"
  <2>1. D.public = {<<j, "table">>} /\ D.raw = {} /\ x = FALSE
    BY <1>5 DEF Content
  <2>2. o = <<Add(j, {"rows"}), "check">>
    BY <1>0, <1>5 DEF Outcomes, loadRows
  <2>3. Add(j, {"rows"}).public = Loaded(j)
    BY <1>1, <2>1 DEF Loaded
  <2> QED BY <1>0, <1>1, <2>1, <2>2, <2>3 DEF Content
<1>6. CASE job[j].pc = "docs"
  <2>1. D.public = {<<j, "stage">>} /\ D.raw = {} /\ x = FALSE
    BY <1>6 DEF Content
  <2>2. o = <<Add(j, {"docs"}), "relational">>
    BY <1>0, <1>6 DEF Outcomes, stageDocs
  <2>3. Add(j, {"docs"}).public = {<<j, "stage">>, <<j, "docs">>}
    BY <1>1, <2>1
  <2> QED BY <1>0, <1>1, <2>1, <2>2, <2>3 DEF Content
<1>7. CASE job[j].pc = "relational"
  <2> DEFINE rows == {<<i, "rows">> : i \in {y \in Jobs : <<y, "docs">> \in Db(j).public}}
             final == Without(j, {"stage", "docs", "table", "rows"}) \union {<<j, "table">>} \union rows
  <2>1. D.public = {<<j, "stage">>, <<j, "docs">>} /\ D.raw = {} /\ x = FALSE
    BY <1>7 DEF Content
  <2>2. o = <<[D EXCEPT !.public = final], "check">>
    BY <1>0, <1>7 DEF Outcomes, relationalizeJSON
  <2>3. Without(j, {"stage", "docs", "table", "rows"}) = {}
    BY <2>1 DEF Without
  <2>4. rows = {<<j, "rows">>}
    BY <2>1
  <2>5. final = Loaded(j)
    BY <2>3, <2>4 DEF Loaded
  <2> HIDE DEF final
  <2>6. Loaded(j) \in SUBSET (Pieces \union {MainTable})
    BY DEF Pieces, Loaded
  <2> QED BY <1>0, <1>2, <2>1, <2>2, <2>5, <2>6 DEF Content
<1>8. CASE job[j].pc = "subscribe"
  <2> DEFINE d == [D EXCEPT !.sub = "copying"]
  <2>1. D.public = {<<j, "table">>} /\ D.raw = {} /\ x = FALSE /\ p.load = "continuous"
    BY <1>8 DEF Content
  <2>2. o = <<d, "close">>
    BY <1>0, <1>8 DEF Outcomes, subscribe
  <2>3. d.public = D.public /\ d.raw = D.raw
    BY <1>0 DEF Datasets
  <2> HIDE DEF d
  <2> QED BY <1>0, <2>1, <2>2, <2>3 DEF Content
<1>9. CASE job[j].pc = "stage"
  <2> DEFINE d == [D EXCEPT !.raw = D.public, !.public = {}]
  <2>1. D.public = Loaded(j) /\ D.raw = {} /\ x = TRUE
    BY <1>9 DEF Content
  <2>2. o = <<d, "model">>
    BY <1>0, <1>9 DEF Outcomes, stageRaw
  <2>3. d.public = {} /\ d.raw = D.public /\ d.sub = D.sub
    BY <1>0 DEF Datasets
  <2> HIDE DEF d
  <2> QED BY <1>0, <2>1, <2>2, <2>3 DEF Content
<1>10. CASE job[j].pc = "model"
  <2>1. D.public = {} /\ D.raw = Loaded(j) /\ x = TRUE
    BY <1>10 DEF Content
  <2>2. o = <<Add(j, {"model"}), "test">>
    BY <1>0, <1>10 DEF Outcomes, model
  <2>3. Add(j, {"model"}).public = {<<j, "model">>}
    BY <1>1, <2>1
  <2> QED BY <1>0, <1>1, <2>1, <2>2, <2>3 DEF Content
<1> QED BY <1>3, <1>4, <1>5, <1>6, <1>7, <1>8, <1>9, <1>10 DEF Sessions

Early == {"idle", "refresh", "create"}

\* Jobs that meet on a name are marked; a dataset that a job created is at its name; a
\* job that met no other finds there what it has loaded.
MeetingInv ==
  \A i, j \in Jobs : i # j /\ Active(i) /\ Active(j) /\ job[i].name = job[j].name => i \in overlap /\ j \in overlap

OwnerInv ==
  /\ \A n \in Names : disk[n] # None => \A j \in Jobs : disk[n].by = j => job[j].name = n /\ job[j].pc \notin Early
  /\ \A j \in Jobs : job[j].pc \in Early => job[j].extracted = FALSE

\* Job i, in state x, finds its own dataset d and nothing went wrong.
Expects(i, x, d) ==
  x.pc \notin Early \union {"done"} /\ x.out = "ok" /\ x.plan.load # "pgloader" /\ d # None /\ d.by = i

ContentInv ==
  \A i \in Jobs : i \notin overlap /\ Expects(i, job[i], disk[job[i].name])
    => Content(i, job[i].plan, job[i].pc, job[i].extracted, disk[job[i].name])

\* Steps that leave the jobs and what they reported.
LEMMA JobsLeft ==
  ASSUME [Next]_vars
  PROVE  \/ UNCHANGED <<job, result, landed, overlap>>
         \/ \E j \in Jobs : \/ JobDies(j) \/ Refresh(j) \/ CreateTarget(j) \/ Open(j) \/ Session(j) \/ Check(j) \/ Test(j)
                            \/ Close(j)
         \/ \E j \in Jobs : \E n \in Targets, p \in Plans[j] : StartImport(j, n, p) \/ StartPipeline(j, n, p)
<1>1. ASSUME NEW n \in Names, UserDelete(n) \/ Expire(n) \/ InitialCopy(n) \/ Cutover(n) \/ ReaperRead(n)
      PROVE  UNCHANGED <<job, result, landed, overlap>>
  BY <1>1 DEF UserDelete, Expire, InitialCopy, Cutover, ReaperRead, histories
<1>2. ASSUME NEW n \in Names, NEW c \in Clients, Touch(c, n) PROVE UNCHANGED <<job, result, landed, overlap>>
  BY <1>2 DEF Touch, histories
<1>3. ASSUME NEW n \in Names, NEW p \in Names \union {"main"}, UserCreate(n, p) PROVE UNCHANGED <<job, result, landed, overlap>>
  BY <1>3 DEF UserCreate
<1>4. ASSUME NEW c \in Clients, Ensure(c) \/ ReconcileGuard(c) \/ Dial(c) \/ Hangup(c) PROVE UNCHANGED <<job, result, landed, overlap>>
  BY <1>4 DEF Ensure, ReconcileGuard, Dial, Hangup, histories
<1>5. CASE ReaperConnections \/ ReaperReplication \/ ReaperStop \/ GatewayRestart \/ UNCHANGED vars
  BY <1>5 DEF ReaperConnections, ReaperReplication, ReaperStop, GatewayRestart, vars, histories
<1> QED BY <1>1, <1>2, <1>3, <1>4, <1>5, NextCases

\* Every step keeps track of the jobs that meet.
LEMMA MeetingKept == Types /\ MeetingInv /\ [Next]_vars => MeetingInv' /\ overlap \subseteq overlap'
<1> SUFFICES ASSUME Types, MeetingInv, [Next]_vars PROVE MeetingInv' /\ overlap \subseteq overlap'
  OBVIOUS
<1>1. ASSUME UNCHANGED <<job, overlap>> PROVE MeetingInv' /\ overlap \subseteq overlap'
  BY <1>1 DEF MeetingInv, Active
<1>2. ASSUME NEW j \in Jobs, NEW s, NEW o, Moved(j, s, o), Active(j), UNCHANGED overlap
      PROVE  MeetingInv' /\ overlap \subseteq overlap'
  BY <1>2 DEF MeetingInv, Active, Moved
<1>3. ASSUME NEW j \in Jobs, JobDies(j) \/ Refresh(j) \/ CreateTarget(j) \/ Open(j) \/ Check(j) \/ Test(j) \/ Close(j)
      PROVE  MeetingInv' /\ overlap \subseteq overlap'
  <2>1. Active(j) /\ UNCHANGED overlap
    BY <1>3 DEF JobDies, Active, Refresh, CreateTarget, Open, Check, Test, Close, histories
  <2> QED BY <1>2, <1>3, <2>1, JobIs
<1>4. ASSUME NEW j \in Jobs, Session(j) PROVE MeetingInv' /\ overlap \subseteq overlap'
  <2>1. Active(j) /\ UNCHANGED overlap
    BY <1>4 DEF Session, Active
  <2>2. \E s, o : Moved(j, s, o)
    BY <1>4, SessionIs
  <2> QED BY <1>2, <2>1, <2>2
<1>5. ASSUME NEW j \in Jobs, NEW n \in Targets, NEW p \in Plans[j], StartImport(j, n, p) \/ StartPipeline(j, n, p)
      PROVE  MeetingInv' /\ overlap \subseteq overlap'
  <2>1. /\ \A i \in Jobs \ {j} : job'[i] = job[i]
        /\ job[j].pc = "idle" /\ job'[j].name = n
        /\ overlap' = IF Meets(j, n) = {} THEN overlap ELSE overlap \union {j} \union Meets(j, n)
    BY <1>5, StartIs
  <2>2. overlap \subseteq overlap'
    BY <2>1
  <2>3. \A i \in Jobs \ {j} : Active(i) /\ job[i].name = n => i \in overlap' /\ j \in overlap'
    BY <2>1 DEF Meets
  <2>4. \A i \in Jobs \ {j} : Active(i)' <=> Active(i)
    BY <2>1 DEF Active
  <2> QED BY <2>1, <2>2, <2>3, <2>4 DEF MeetingInv
<1> QED BY <1>1, <1>3, <1>4, <1>5, JobsLeft

\* What a step may do to a dataset.
Same(b, d) == d.by = b.by /\ d.public = b.public /\ d.raw = b.raw /\ d.sub = b.sub

DiskStep(n) ==
  \/ disk'[n] = None \/ disk'[n] = disk[n]
  \/ disk[n] # None /\ Same(disk[n], disk'[n])
  \/ disk'[n].by = "user"
  \/ \E j \in Jobs : /\ CreateTarget(j) /\ ~ exists(n) /\ job[j].name = n
                     /\ disk'[n].by = j /\ disk'[n].raw = {} /\ disk'[n].sub = "none"
  \/ \E j \in Jobs : Session(j) /\ job[j].name = n
  \/ InitialCopy(n) \/ Cutover(n)

\* Every step of the system changes a dataset in one of these ways.
LEMMA DiskSteps ==
  ASSUME Types, [Next]_vars, NEW n \in Names
  PROVE  DiskStep(n)
<1>0. ASSUME NEW m \in Names, NEW p \in Names \union {"main"}, p # "main" => disk[p] # None, NEW by \in Jobs \union {"user"},
             CreateBranch(m, p, by)
      PROVE  /\ disk'[m].by = by /\ (p = "main" => disk'[m].raw = {} /\ disk'[m].sub = "none")
             /\ \A k \in Names \ {m} : disk'[k] = disk[k]
  <2>1. disk'[m].by = by
    BY <1>0, CreateIs
  <2>2. p = "main" => disk'[m].raw = {} /\ disk'[m].sub = "none"
    BY <1>0, CreateIs
  <2>3. \A k \in Names \ {m} : disk'[k] = disk[k]
    BY <1>0, CreateIs
  <2> QED BY <2>1, <2>2, <2>3
<1>1. ASSUME NEW m \in Names, DeleteBranch(m) PROVE DiskStep(n)
  BY <1>1, DeleteIs DEF DiskStep
<1>2. ASSUME NEW m \in Names, NEW on \in BOOLEAN, setGuard(m, on) PROVE DiskStep(n)
  BY <1>2, GuardIs DEF DiskStep, Same
<1>3. ASSUME NEW j \in Jobs, CreateTarget(j) PROVE DiskStep(n)
  <2>1. job[j].name \in Names
    BY <1>3 DEF CreateTarget, Types, JobsInv
  <2>2. CASE exists(job[j].name)
    BY <1>3, <2>2 DEF CreateTarget, DiskStep, branches
  <2>3. CASE ~ exists(job[j].name)
    <3>1. CreateBranch(job[j].name, "main", j)
      BY <1>3, <2>3 DEF CreateTarget
    <3>2. /\ disk'[job[j].name].by = j /\ disk'[job[j].name].raw = {} /\ disk'[job[j].name].sub = "none"
          /\ \A m \in Names \ {job[j].name} : disk'[m] = disk[m]
      <4>1. "main" \in Names \union {"main"} /\ j \in Jobs \union {"user"}
        OBVIOUS
      <4> QED BY <1>0, <2>1, <3>1, <4>1, Zenon
    <3>3. CASE n = job[j].name
      BY <1>3, <2>3, <3>2, <3>3, Zenon DEF DiskStep
    <3>4. CASE n # job[j].name
      BY <3>2, <3>4 DEF DiskStep
    <3> QED BY <3>3, <3>4
  <2> QED BY <2>2, <2>3
<1>4. ASSUME NEW m \in Names, NEW p \in Names \union {"main"}, UserCreate(m, p) PROVE DiskStep(n)
  <2>1. disk'[m].by = "user" /\ \A k \in Names \ {m} : disk'[k] = disk[k]
    <3>1. CreateBranch(m, p, "user") /\ (p # "main" => disk[p] # None) /\ "user" \in Jobs \union {"user"}
      BY <1>4 DEF UserCreate, exists
    <3> QED BY <1>0, <1>4, <3>1, Zenon
  <2> QED BY <2>1 DEF DiskStep
<1>5. ASSUME NEW j \in Jobs, Session(j) PROVE DiskStep(n)
  BY <1>5, SessionIs DEF DiskStep
<1>6. ASSUME NEW j \in Jobs, Open(j) \/ Close(j) \/ Refresh(j) PROVE DiskStep(n)
  <2>1. job[j].name \in Names
    BY <1>6 DEF Open, Close, Refresh, Types, JobsInv
  <2> QED BY <1>1, <1>2, <1>6, <2>1 DEF Open, Close, Refresh
<1>7. ASSUME NEW c \in Clients, ReconcileGuard(c) PROVE DiskStep(n)
  <2>1. client[c].name \in Names
    BY <1>7 DEF ReconcileGuard, Types, GatewayInv, ClientOK
  <2> QED BY <1>2, <1>7, <2>1 DEF ReconcileGuard
<1>8. ASSUME NEW m \in Names, InitialCopy(m) \/ Cutover(m) PROVE DiskStep(n)
  <2>1. CASE m = n
    BY <1>8, <2>1 DEF DiskStep
  <2>2. CASE m # n
    BY <1>8, <2>2 DEF InitialCopy, Cutover, DiskStep, Types, DisksInv
  <2> QED BY <2>1, <2>2
<1>9. ASSUME NEW m \in Names, UserDelete(m) PROVE DiskStep(n)
  BY <1>1, <1>9 DEF UserDelete
<1>10. ASSUME NEW m \in Names, Expire(m) \/ ReaperRead(m) \/ \E c \in Clients : Touch(c, m) PROVE DiskStep(n)
  BY <1>10 DEF Expire, ReaperRead, Touch, DiskStep, branches
<1>11. ASSUME NEW j \in Jobs, JobDies(j) \/ Check(j) \/ Test(j) PROVE DiskStep(n)
  BY <1>11 DEF JobDies, Check, Test, DiskStep, branches
<1>12. ASSUME NEW j \in Jobs, NEW m \in Targets, NEW p \in Plans[j], StartImport(j, m, p) \/ StartPipeline(j, m, p) PROVE DiskStep(n)
  BY <1>12, StartIs DEF DiskStep, branches
<1>13. ASSUME NEW c \in Clients, Ensure(c) \/ Dial(c) \/ Hangup(c) PROVE DiskStep(n)
  BY <1>13 DEF Ensure, Dial, Hangup, DiskStep, branches
<1>14. CASE ReaperConnections \/ ReaperReplication \/ ReaperStop \/ GatewayRestart \/ UNCHANGED vars
  BY <1>14 DEF ReaperConnections, ReaperReplication, ReaperStop, GatewayRestart, vars, DiskStep, branches
<1> QED BY <1>3, <1>4, <1>5, <1>6, <1>7, <1>8, <1>9, <1>10, <1>11, <1>12, <1>13, <1>14, NextCases

\* A job that has created its branch stays with its name and does not begin again; one
\* that has not has extracted nothing.
LEMMA JobsStay ==
  ASSUME Types, OwnerInv, [Next]_vars, NEW j \in Jobs
  PROVE  /\ job[j].pc \notin Early => job'[j].name = job[j].name /\ job'[j].pc \notin Early
         /\ job'[j].pc \in Early => job'[j].extracted = FALSE
<1> DEFINE Stays == /\ job[j].pc \notin Early => job'[j].name = job[j].name /\ job'[j].pc \notin Early
                    /\ job'[j].pc \in Early => job'[j].extracted = FALSE
<1>0. job[j].pc \in Early => job[j].extracted = FALSE
  BY DEF OwnerInv
<1>1. ASSUME job'[j] = job[j] PROVE Stays
  BY <1>0, <1>1
<1>2. ASSUME NEW i \in Jobs, NEW s, NEW o, Moved(i, s, o), s \notin Early PROVE Stays
  BY <1>1, <1>2 DEF Moved
<1>3. ASSUME NEW i \in Jobs, JobDies(i) \/ Open(i) \/ Check(i) \/ Test(i) \/ Close(i) \/ CreateTarget(i) PROVE Stays
  <2>1. PICK s, o : Moved(i, s, o) /\ s \in {"done", "open", "prepare", "stage", "close", "reopen"}
    <3>1. JobDies(i) \/ Check(i) \/ Test(i) \/ Close(i) => \E o : Moved(i, "done", o) \/ Moved(i, "close", o) \/ Moved(i, "reopen", o)
      BY JobIs
    <3>2. Open(i) => \E o : Moved(i, "prepare", o) \/ Moved(i, "stage", o)
      BY JobIs
    <3>3. CreateTarget(i) => \E o : Moved(i, "done", o) \/ Moved(i, "open", o)
      BY JobIs
    <3> QED BY <1>3, <3>1, <3>2, <3>3
  <2> QED BY <1>2, <2>1 DEF Early
<1>4. ASSUME NEW i \in Jobs, Refresh(i) PROVE Stays
  <2>1. Moved(i, "create", job[i].out) /\ job'[i].extracted = job[i].extracted /\ job[i].pc \in Early
    BY <1>4, MovesIs DEF Refresh, Steps, Early
  <2> QED BY <1>0, <1>1, <2>1 DEF Moved
<1>5. ASSUME NEW i \in Jobs, Session(i) PROVE Stays
  <2>1. \E s, o : Moved(i, s, o) /\ s \notin Early
    BY <1>5, SessionIs DEF After, Early
  <2> QED BY <1>2, <2>1
<1>6. ASSUME NEW i \in Jobs, NEW n \in Targets, NEW p \in Plans[i], StartImport(i, n, p) \/ StartPipeline(i, n, p) PROVE Stays
  BY <1>1, <1>6, StartIs DEF Early
<1> QED BY <1>1, <1>3, <1>4, <1>5, <1>6, JobsLeft

\* Every step keeps what ties datasets to the jobs that created them.
LEMMA OwnerKept == Types /\ OwnerInv /\ [Next]_vars => OwnerInv'
<1> SUFFICES ASSUME Types, OwnerInv, [Next]_vars PROVE OwnerInv'
  OBVIOUS
<1>1. ASSUME NEW n \in Names, disk'[n] # None, NEW j \in Jobs, disk'[n].by = j PROVE job'[j].name = n /\ job'[j].pc \notin Early
  <2>1. ASSUME disk[n] # None, disk[n].by = j PROVE job'[j].name = n /\ job'[j].pc \notin Early
    BY <2>1, JobsStay DEF OwnerInv
  <2>2. disk \in [Names -> Datasets \union {None}]
    BY DEF Types, DisksInv
  <2>3. ASSUME NEW i \in Jobs, CreateTarget(i), ~ exists(n), job[i].name = n, disk'[n].by = i
        PROVE  job'[j].name = n /\ job'[j].pc \notin Early
    BY <1>1, <2>3, JobIs DEF Moved, Early
  <2>4. ASSUME NEW i \in Jobs, Session(i), job[i].name = n PROVE job'[j].name = n /\ job'[j].pc \notin Early
    BY <1>1, <2>1, <2>4, SessionIs DEF Left
  <2>5. ASSUME InitialCopy(n) \/ Cutover(n) PROVE job'[j].name = n /\ job'[j].pc \notin Early
    <3>1. disk[n] # None /\ disk[n] \in Datasets
      BY <2>2, <2>5 DEF InitialCopy, Cutover, TableCount, Up, exists
    <3>2. disk'[n].by = disk[n].by
      BY <2>2, <2>5, <3>1 DEF InitialCopy, Cutover, Datasets
    <3> QED BY <1>1, <2>1, <3>1, <3>2
  <2>6. j # "user"
    BY NamesAssumption
  <2>7. DiskStep(n)
    BY DiskSteps
  <2> QED BY <1>1, <2>1, <2>3, <2>4, <2>5, <2>6, <2>7 DEF DiskStep, Same
<1>2. \A j \in Jobs : job'[j].pc \in Early => job'[j].extracted = FALSE
  BY JobsStay
<1> QED BY <1>1, <1>2 DEF OwnerInv

\* What the other jobs, the users and the gateway do leaves a job that met no other with
\* its content.
LEMMA OthersKeepContent ==
  ASSUME Types, MeetingInv, OwnerInv, ContentInv, [Next]_vars, NEW i \in Jobs, i \notin overlap, job'[i] = job[i], ~ Session(i),
         NEW n \in Names, n = job[i].name, Expects(i, job'[i], disk'[n])
  PROVE  Content(i, job'[i].plan, job'[i].pc, job'[i].extracted, disk'[n])
<1> DEFINE p == job[i].plan
           x == job[i].extracted
           Goal == Content(i, p, job[i].pc, x, disk'[n])
<1>0. /\ disk \in [Names -> Datasets \union {None}] /\ job[i] \in JobStates /\ x \in BOOLEAN
      /\ job[i].pc \notin Early \union {"done"} /\ job[i].out = "ok" /\ p.load # "pgloader" /\ disk'[n] # None /\ disk'[n].by = i
  BY DEF Types, DisksInv, JobsInv, JobStates, Expects
<1>1. p.load = "continuous" => ~ p.pipeline
  <2>1. p \in Plans[i]
    BY <1>0 DEF Types, JobsInv, Early
  <2> QED BY <2>1, PlansAssumption
<1>2. ASSUME disk[n] # None, disk[n].by = i PROVE Content(i, p, job[i].pc, x, disk[n])
  BY <1>0, <1>2 DEF ContentInv, Expects
<1>a. ASSUME disk[n] # None, disk[n].by = i, disk[n].sub # "none"
      PROVE  /\ job[i].pc = "close" /\ p.load = "continuous" /\ x = FALSE /\ disk[n].raw = {}
             /\ disk[n].public = Loaded(i) \/ disk[n].public = {<<i, "table">>}
  <2>1. job[i].pc = "close" /\ p.load = "continuous"
    BY <1>2, <1>a DEF Content
  <2>2. x = FALSE
    BY <1>0, <1>1, <1>2, <1>a, <2>1 DEF Content
  <2> QED BY <1>2, <1>a, <2>1, <2>2 DEF Content
<1>b. ASSUME NEW d, job[i].pc = "close", p.load = "continuous", x = FALSE, d.raw = {},
             d.public = Loaded(i) \/ d.public = {<<i, "table">>}
      PROVE  Content(i, p, job[i].pc, x, d)
  BY <1>b DEF Content
<1>3. ASSUME disk'[n] = disk[n] PROVE Goal
  BY <1>0, <1>2, <1>3
<1>4. ASSUME disk[n] # None, Same(disk[n], disk'[n]) PROVE Goal
  <2>1. Content(i, p, job[i].pc, x, disk[n])
    BY <1>0, <1>2, <1>4 DEF Same
  <2> QED BY <1>4, <2>1 DEF Content, Same
<1>5. ASSUME NEW j \in Jobs, CreateTarget(j), disk'[n].by = j PROVE Goal
  <2>1. j = i /\ job[i].pc = "create"
    BY <1>0, <1>5 DEF CreateTarget
  <2> QED BY <1>0, <2>1 DEF Early
<1>6. ASSUME NEW j \in Jobs, Session(j), job[j].name = n PROVE Goal
  <2>1. j # i /\ Active(j) /\ Active(i)
    BY <1>0, <1>6 DEF Session, Active, Early
  <2> QED BY <1>6, <2>1 DEF MeetingInv
<1>7. ASSUME InitialCopy(n) PROVE Goal
  <2> DEFINE b == disk[n]
             R == {<<j, "rows">> : j \in {k \in Jobs : <<k, "table">> \in b.public}}
             d == [b EXCEPT !.sub = "ready", !.public = b.public \union R]
  <2>1. b # None /\ b \in Datasets /\ b.sub = "copying" /\ disk' = [disk EXCEPT ![n] = d]
    BY <1>0, <1>7 DEF InitialCopy, Up, exists
  <2>2. d.by = b.by /\ d.raw = b.raw /\ d.public = b.public \union R
    BY <2>1 DEF Datasets
  <2>3. disk'[n] = d
    BY <1>0, <2>1
  <2> HIDE DEF d
  <2>4. /\ job[i].pc = "close" /\ p.load = "continuous" /\ x = FALSE /\ b.raw = {}
        /\ b.public = Loaded(i) \/ b.public = {<<i, "table">>}
    BY <1>0, <1>a, <2>1, <2>2, <2>3
  <2>5. R = {<<i, "rows">>}
    BY <2>4 DEF Loaded
  <2> HIDE DEF R
  <2>6. d.public = Loaded(i) /\ d.raw = {}
    BY <2>2, <2>4, <2>5 DEF Loaded
  <2> QED BY <1>b, <2>3, <2>4, <2>6
<1>8. ASSUME Cutover(n) PROVE Goal
  <2> DEFINE b == disk[n]
             d == [b EXCEPT !.sub = "none"]
  <2>1. b # None /\ b \in Datasets /\ b.sub # "none" /\ disk' = [disk EXCEPT ![n] = d]
    BY <1>0, <1>8 DEF Cutover, TableCount, Up, exists
  <2>2. d.by = b.by /\ d.raw = b.raw /\ d.public = b.public
    BY <2>1 DEF Datasets
  <2>3. disk'[n] = d
    BY <1>0, <2>1
  <2> HIDE DEF d
  <2>4. /\ job[i].pc = "close" /\ p.load = "continuous" /\ x = FALSE /\ b.raw = {}
        /\ b.public = Loaded(i) \/ b.public = {<<i, "table">>}
    BY <1>0, <1>a, <2>1, <2>2, <2>3
  <2> QED BY <1>b, <2>2, <2>3, <2>4
<1>9. DiskStep(n) /\ i # "user"
  BY DiskSteps, NamesAssumption
<1>10. Goal
  <2> HIDE DEF Goal
  <2> QED BY <1>0, <1>3, <1>4, <1>5, <1>6, <1>7, <1>8, <1>9 DEF DiskStep
<1> QED BY <1>10

\* A step of the job itself leaves the content of its next step, or fails it.
LEMMA OwnStepsContent ==
  ASSUME Types, OwnerInv, ContentInv, NEW i \in Jobs, i \notin overlap, NEW n \in Names, n = job[i].name,
         CreateTarget(i) \/ Open(i) \/ Session(i) \/ Check(i) \/ Test(i) \/ Close(i),
         Expects(i, job'[i], disk'[n])
  PROVE  Content(i, job'[i].plan, job'[i].pc, job'[i].extracted, disk'[n])
<1> DEFINE p == job[i].plan
           x == job[i].extracted
<1>0. /\ disk \in [Names -> Datasets \union {None}] /\ job[i] \in JobStates /\ x \in BOOLEAN
      /\ job'[i].pc \notin Early \union {"done"} /\ job'[i].out = "ok" /\ job'[i].plan.load # "pgloader"
      /\ disk'[n] # None /\ disk'[n].by = i
  BY DEF Types, DisksInv, JobsInv, JobStates, Expects
<1>1. ASSUME job[i].pc \notin Early \union {"done"}, job[i].out = "ok", p.load # "pgloader", disk[n] # None, disk[n].by = i
      PROVE  Content(i, p, job[i].pc, x, disk[n])
  BY <1>1 DEF ContentInv, Expects
<1>2. CASE CreateTarget(i)
  <2>1. ~ exists(n)
    BY <1>0, <1>2, JobIs DEF Moved, Early
  <2>2. CreateBranch(n, "main", i) /\ Goto(i, "open") /\ job[i].pc = "create"
    BY <1>2, <2>1 DEF CreateTarget
  <2>3. Moved(i, "open", job[i].out) /\ job'[i].extracted = x
    BY <2>2, MovesIs DEF Steps
  <2>4. x = FALSE
    BY <2>2 DEF OwnerInv, Early
  <2>5. disk'[n].raw = {}
    BY <2>2, CreateIs
  <2>6. disk'[n].sub = "none"
    BY <2>2, CreateIs
  <2> QED BY <2>3, <2>4, <2>5, <2>6 DEF Moved, Content
<1>3. CASE Open(i)
  <2>1. /\ Moved(i, IF job[i].pc = "open" THEN "prepare" ELSE "stage", job[i].out) /\ job'[i].extracted = x
        /\ job[i].pc \in {"open", "reopen"} /\ setGuard(n, FALSE)
    BY <1>3, JobIs DEF Open
  <2>2. disk[n] # None /\ Same(disk[n], disk'[n])
    <3>1. FALSE \in BOOLEAN /\ setGuard(n, FALSE)
      BY <2>1
    <3> QED BY <1>0, <3>1, GuardIs DEF Same
  <2>3. Content(i, p, job[i].pc, x, disk[n])
    BY <1>0, <1>1, <2>1, <2>2 DEF Moved, Same, Early
  <2> QED BY <2>1, <2>2, <2>3 DEF Moved, Same, Content
<1>4. CASE Session(i)
  <2>1. job[i].pc \in Sessions /\ ~ Moved(i, "close", "error")
    BY <1>0, <1>4 DEF Session, Sessions, Moved
  <2>2. job'[i].extracted = x /\ disk[n] # None /\ disk[n] \in Datasets
    BY <1>4, <2>1, SessionIs
  <2>3. PICK o \in Outcomes(i) : /\ disk'[n] = o[1] /\ Left(disk[n], o[1]) /\ o[2] \in After
                                 /\ IF o[2] = "fail" THEN Moved(i, "close", "error") ELSE Moved(i, o[2], job[i].out)
    BY <1>4, <2>1, SessionIs
  <2>4. o[2] # "fail" /\ Moved(i, o[2], job[i].out) /\ disk[n].by = i
    BY <1>0, <2>1, <2>3 DEF Left
  <2>5. Content(i, p, job[i].pc, x, disk[n]) /\ p.load # "pgloader"
    BY <1>0, <1>1, <2>1, <2>2, <2>4 DEF Moved, Sessions, Early
  <2>6. Db(i) = disk[n]
    BY DEF Db
  <2>7. Content(i, p, o[2], x, o[1])
    BY <1>0, <2>1, <2>2, <2>4, <2>5, <2>6, SessionContent
  <2> QED BY <2>2, <2>3, <2>4, <2>7 DEF Moved
<1>5. CASE Check(i) \/ Test(i)
  <2>1. Moved(i, "close", job[i].out) /\ job'[i].extracted = x /\ job[i].pc \in {"check", "test"} /\ disk' = disk
    BY <1>0, <1>5, JobIs DEF Check, Test, Moved, branches
  <2>2. Content(i, p, job[i].pc, x, disk[n])
    BY <1>0, <1>1, <2>1 DEF Moved, Early
  <2> QED BY <2>1, <2>2 DEF Moved, Content
<1>6. CASE Close(i)
  <2>1. job[i].pc = "close" /\ setGuard(n, TRUE) /\ Moved(i, "reopen", job[i].out) /\ job'[i].extracted = TRUE
    BY <1>0, <1>6, JobIs DEF Close, Moved
  <2>2. p.pipeline /\ x = FALSE
    <3>1. job[i].plan.pipeline /\ ~ job[i].extracted
      <4>1. job' = [job EXCEPT ![i].pc = "done"] => job'[i].pc = "done"
        BY DEF Types, JobsInv, JobStates
      <4>2. job'[i].pc = "reopen"
        BY <2>1 DEF Moved
      <4> QED BY <1>6, <4>1, <4>2 DEF Close, Report
    <3> QED BY <1>0, <3>1
  <2>3. disk[n] # None /\ Same(disk[n], disk'[n])
    BY <1>0, <2>1, GuardIs DEF Same
  <2>4. Content(i, p, job[i].pc, x, disk[n])
    BY <1>0, <1>1, <2>1, <2>3 DEF Moved, Same, Early
  <2>5. p.load # "continuous"
    BY <2>1, <2>2, PlansAssumption DEF Types, JobsInv
  <2> QED BY <2>1, <2>2, <2>3, <2>4, <2>5 DEF Moved, Same, Content
<1> QED BY <1>2, <1>3, <1>4, <1>5, <1>6

\* Every step keeps the jobs' content.
LEMMA ContentKept == Types /\ MeetingInv /\ OwnerInv /\ ContentInv /\ [Next]_vars => ContentInv'
<1> SUFFICES ASSUME Types, MeetingInv, OwnerInv, ContentInv, [Next]_vars PROVE ContentInv'
  OBVIOUS
<1>0. Types' /\ overlap \subseteq overlap'
  BY TypesKept, MeetingKept
<1>1. ASSUME NEW i \in Jobs, i \notin overlap', NEW n, n = job'[i].name, Expects(i, job'[i], disk'[n])
      PROVE  Content(i, job'[i].plan, job'[i].pc, job'[i].extracted, disk'[n])
  <2>1. i \notin overlap /\ n \in Names /\ job'[i].pc \notin Early \union {"done"}
    <3>1. job'[i].pc # "idle" => job'[i].name \in Names
      BY <1>0 DEF Types, JobsInv
    <3> QED BY <1>0, <1>1, <3>1 DEF Expects, Early
  <2>2. ASSUME job'[i] = job[i], ~ Session(i) PROVE Content(i, job'[i].plan, job'[i].pc, job'[i].extracted, disk'[n])
    BY <1>1, <2>1, <2>2, OthersKeepContent
  <2>3. ASSUME NEW s, NEW o, Moved(i, s, o), s \notin Early \union {"done"},
               CreateTarget(i) \/ Open(i) \/ Session(i) \/ Check(i) \/ Test(i) \/ Close(i)
        PROVE  Content(i, job'[i].plan, job'[i].pc, job'[i].extracted, disk'[n])
    <3>1. n = job[i].name
      BY <1>1, <2>3 DEF Moved
    <3> QED BY <1>1, <2>1, <2>3, <3>1, OwnStepsContent
  <2>4. ASSUME Session(i) PROVE Content(i, job'[i].plan, job'[i].pc, job'[i].extracted, disk'[n])
    <3>1. \E s, o : Moved(i, s, o)
      BY <2>4, SessionIs
    <3> QED BY <2>1, <2>3, <2>4, <3>1 DEF Moved
  <2>5. ASSUME NEW j \in Jobs \ {i}, NEW s, NEW o, Moved(j, s, o) PROVE job'[i] = job[i]
    BY <2>5 DEF Moved
  <2>6. ASSUME NEW j \in Jobs, JobDies(j) \/ Refresh(j) \/ CreateTarget(j) \/ Open(j) \/ Check(j) \/ Test(j) \/ Close(j)
        PROVE  Content(i, job'[i].plan, job'[i].pc, job'[i].extracted, disk'[n])
    <3>1. \E s, o : Moved(j, s, o) /\ (JobDies(j) => s = "done") /\ (Refresh(j) => s = "create")
      <4>1. JobDies(j) => \E o : Moved(j, "done", o)
        BY JobIs
      <4>2. Refresh(j) => \E o : Moved(j, "create", o)
        BY JobIs
      <4>3. Open(j) \/ CreateTarget(j) => \E s, o : Moved(j, s, o)
        BY JobIs
      <4>4. Check(j) \/ Test(j) \/ Close(j) => \E s, o : Moved(j, s, o)
        BY JobIs
      <4>5. PICK s, o : Moved(j, s, o)
        BY <2>6, <4>1, <4>2, <4>3, <4>4
      <4>6. (JobDies(j) => job'[j].pc = "done") /\ (Refresh(j) => job'[j].pc = "create") /\ job'[j].pc = s
        BY <4>1, <4>2, <4>5 DEF Moved
      <4> QED BY <4>5, <4>6
    <3>2. CASE j = i
      BY <2>1, <2>3, <2>6, <3>1, <3>2 DEF Moved, Early
    <3>3. CASE j # i
      BY <2>2, <2>4, <2>5, <3>1, <3>3
    <3> QED BY <3>2, <3>3
  <2>7. ASSUME NEW j \in Jobs \ {i}, Session(j) PROVE Content(i, job'[i].plan, job'[i].pc, job'[i].extracted, disk'[n])
    <3>1. \E s, o : Moved(j, s, o)
      BY <2>7, SessionIs
    <3> QED BY <2>2, <2>4, <2>5, <3>1
  <2>8. ASSUME NEW j \in Jobs, NEW m \in Targets, NEW q \in Plans[j], StartImport(j, m, q) \/ StartPipeline(j, m, q)
        PROVE  Content(i, job'[i].plan, job'[i].pc, job'[i].extracted, disk'[n])
    BY <2>1, <2>2, <2>4, <2>8, StartIs DEF Early
  <2> QED BY <2>2, <2>4, <2>6, <2>7, <2>8, JobsLeft
<1> QED BY <1>1 DEF ContentInv

\* What job i, in state x, with result r and contents l at its report, may claim.
Reported(i, x, r, l, met) ==
  /\ r = "ok" => x.pc = "done"
  /\ x.pc # "done" => l = None
  /\ r = "ok" /\ l # None /\ ~ met /\ x.plan.load # "pgloader" =>
       \/ x.plan.pipeline = TRUE /\ l = Loaded(i) \union {<<i, "model">>}
       \/ x.plan.pipeline = FALSE /\ l = Loaded(i)
       \/ x.plan.load = "continuous" /\ l = {<<i, "table">>}

ReportsInv ==
  /\ result \in [Jobs -> {"none", "running", "ok", "error", "failed"}]
  /\ landed \in [Jobs -> (SUBSET (Pieces \union {MainTable})) \union {None}]
  /\ \A i \in Jobs : Reported(i, job[i], result[i], landed[i], i \in overlap)

\* A job that reports success on its own branch has found there what it loaded.
LEMMA CloseReports ==
  ASSUME Types, ContentInv, ReportsInv, NEW j \in Jobs, Close(j)
  PROVE  ReportsInv'
<1> DEFINE n == job[j].name
           x == job[j].extracted
           p == job[j].plan
<1>0. /\ job \in [Jobs -> JobStates] /\ job[j].pc = "close" /\ UNCHANGED overlap /\ job[j].out \in {"ok", "error", "failed"}
      /\ n \in Names /\ disk \in [Names -> Datasets \union {None}] /\ x \in BOOLEAN /\ p.pipeline \in BOOLEAN
      /\ result \in [Jobs -> {"none", "running", "ok", "error", "failed"}]
      /\ landed \in [Jobs -> (SUBSET (Pieces \union {MainTable})) \union {None}]
      /\ \A i \in Jobs : Reported(i, job[i], result[i], landed[i], i \in overlap)
  BY DEF Close, Types, JobsInv, DisksInv, JobStates, Plan, ReportsInv
<1>1. /\ \A i \in Jobs \ {j} : job'[i] = job[i]
      /\ job'[j].plan = p
  BY JobIs DEF Moved
<1>2. CASE p.pipeline /\ ~ x /\ job[j].out = "ok"
  <2>1. result' = result /\ landed' = landed /\ job' = [job EXCEPT ![j].pc = "reopen", ![j].extracted = TRUE]
    BY <1>2 DEF Close
  <2>2. job'[j].pc = "reopen"
    BY <2>1, MovesIs DEF Moved
  <2>3. landed[j] = None /\ result[j] # "ok"
    BY <1>0 DEF Reported
  <2>4. Reported(j, job'[j], result'[j], landed'[j], j \in overlap')
    BY <2>1, <2>2, <2>3 DEF Reported
  <2> QED BY <1>0, <1>1, <2>1, <2>4 DEF ReportsInv
<1>3. CASE ~ (p.pipeline /\ ~ x /\ job[j].out = "ok")
  <2>1. /\ job' = [job EXCEPT ![j].pc = "done"] /\ result' = [result EXCEPT ![j] = job[j].out]
        /\ landed' = IF exists(n) /\ disk[n].by = j THEN [landed EXCEPT ![j] = disk[n].public \union disk[n].raw] ELSE landed
    BY <1>3 DEF Close, Report, FinishRun
  <2>2. job'[j].pc = "done"
    BY <1>0, <2>1 DEF JobStates
  <2>3. result'[j] = job[j].out /\ \A i \in Jobs \ {j} : result'[i] = result[i] /\ landed'[i] = landed[i]
    BY <1>0, <2>1
  <2>4. CASE exists(n) /\ disk[n].by = j
    <3>1. landed'[j] = disk[n].public \union disk[n].raw /\ disk[n] # None /\ disk[n] \in Datasets
      BY <1>0, <2>1, <2>4 DEF exists
    <3>2. ASSUME j \notin overlap, p.load # "pgloader", job[j].out = "ok" PROVE Content(j, p, "close", x, disk[n])
      BY <1>0, <2>4, <3>1, <3>2 DEF ContentInv, Expects, Early
    <3>3. ASSUME j \notin overlap, p.load # "pgloader", job[j].out = "ok", x = TRUE
          PROVE  p.pipeline = TRUE /\ landed'[j] = Loaded(j) \union {<<j, "model">>}
      <4>1. disk[n].raw = Loaded(j) /\ disk[n].public = {<<j, "model">>} /\ p.pipeline
        BY <3>2, <3>3 DEF Content
      <4> QED BY <1>0, <3>1, <4>1
    <3>4. ASSUME j \notin overlap, p.load # "pgloader", job[j].out = "ok", x = FALSE
          PROVE  p.pipeline = FALSE /\ (landed'[j] = Loaded(j) \/ (p.load = "continuous" /\ landed'[j] = {<<j, "table">>}))
      <4>1. disk[n].raw = {} /\ (disk[n].public = Loaded(j) \/ (p.load = "continuous" /\ disk[n].public = {<<j, "table">>}))
        BY <3>2, <3>4 DEF Content
      <4>2. p.pipeline = FALSE
        BY <1>0, <1>3, <3>4
      <4> QED BY <3>1, <4>1, <4>2
    <3>5. Reported(j, job'[j], result'[j], landed'[j], j \in overlap')
      BY <1>0, <1>1, <2>2, <2>3, <3>3, <3>4 DEF Reported
    <3>6. landed' \in [Jobs -> (SUBSET (Pieces \union {MainTable})) \union {None}]
      <4>1. disk[n].public \union disk[n].raw \in SUBSET (Pieces \union {MainTable})
        BY <3>1 DEF Datasets
      <4> QED BY <1>0, <2>1, <2>4, <4>1
    <3>7. result' \in [Jobs -> {"none", "running", "ok", "error", "failed"}]
      BY <1>0, <2>1
    <3> QED BY <1>0, <1>1, <2>3, <3>5, <3>6, <3>7 DEF ReportsInv
  <2>5. CASE ~ (exists(n) /\ disk[n].by = j)
    <3>1. landed' = landed /\ landed[j] = None /\ result' \in [Jobs -> {"none", "running", "ok", "error", "failed"}]
      BY <1>0, <2>1, <2>5 DEF Reported
    <3>2. Reported(j, job'[j], result'[j], landed'[j], j \in overlap')
      BY <2>2, <3>1 DEF Reported
    <3> QED BY <1>0, <1>1, <2>3, <3>1, <3>2 DEF ReportsInv
  <2> QED BY <2>4, <2>5
<1> QED BY <1>2, <1>3

\* Every step keeps the reports true.
LEMMA ReportsKept == Types /\ MeetingInv /\ ContentInv /\ ReportsInv /\ [Next]_vars => ReportsInv'
<1> SUFFICES ASSUME Types, MeetingInv, ContentInv, ReportsInv, [Next]_vars PROVE ReportsInv'
  OBVIOUS
<1>0. /\ overlap \subseteq overlap'
      /\ result \in [Jobs -> {"none", "running", "ok", "error", "failed"}]
      /\ landed \in [Jobs -> (SUBSET (Pieces \union {MainTable})) \union {None}]
      /\ \A i \in Jobs : Reported(i, job[i], result[i], landed[i], i \in overlap)
  BY MeetingKept DEF ReportsInv
<1>1. ASSUME NEW i \in Jobs, job'[i] = job[i], result'[i] = result[i], landed'[i] = landed[i]
      PROVE  Reported(i, job'[i], result'[i], landed'[i], i \in overlap')
  BY <1>0, <1>1 DEF Reported
<1>2. CASE UNCHANGED <<job, result, landed, overlap>>
  BY <1>0, <1>1, <1>2 DEF ReportsInv
<1>3. ASSUME NEW j \in Jobs, \A i \in Jobs \ {j} : job'[i] = job[i], job[j].pc # "done", landed' = landed,
             result' = result \/ \E r \in {"running", "error"} : result' = [result EXCEPT ![j] = r]
      PROVE  ReportsInv'
  <2>1. landed[j] = None /\ result[j] # "ok"
    BY <1>0, <1>3 DEF Reported
  <2>2. result' \in [Jobs -> {"none", "running", "ok", "error", "failed"}] /\ \A i \in Jobs \ {j} : result'[i] = result[i]
    BY <1>0, <1>3
  <2>3. result'[j] # "ok" /\ landed'[j] = None
    BY <1>0, <1>3, <2>1
  <2>4. Reported(j, job'[j], result'[j], landed'[j], j \in overlap')
    BY <2>3 DEF Reported
  <2> QED BY <1>0, <1>1, <1>3, <2>2, <2>4 DEF ReportsInv
<1>4. ASSUME NEW j \in Jobs, JobDies(j) \/ Refresh(j) \/ CreateTarget(j) \/ Open(j) \/ Check(j) \/ Test(j) PROVE ReportsInv'
  <2>1. /\ job[j].pc # "done" /\ landed' = landed
        /\ result' = result \/ result' = [result EXCEPT ![j] = "error"]
    BY <1>4 DEF JobDies, Refresh, CreateTarget, Open, Check, Test, Active, FinishRun, histories
  <2>2. \A i \in Jobs \ {j} : job'[i] = job[i]
    BY <1>4, JobIs DEF Moved
  <2> QED BY <1>3, <2>1, <2>2
<1>5. ASSUME NEW j \in Jobs, Session(j) PROVE ReportsInv'
  <2>1. job[j].pc # "done" /\ landed' = landed /\ result' = result
    BY <1>5 DEF Session
  <2>2. \A i \in Jobs \ {j} : job'[i] = job[i]
    BY <1>5, SessionIs DEF Moved
  <2> QED BY <1>3, <2>1, <2>2
<1>6. ASSUME NEW j \in Jobs, NEW n \in Targets, NEW p \in Plans[j], StartImport(j, n, p) \/ StartPipeline(j, n, p) PROVE ReportsInv'
  <2>1. /\ job[j].pc # "done" /\ landed' = landed /\ \A i \in Jobs \ {j} : job'[i] = job[i]
        /\ result' = result \/ result' = [result EXCEPT ![j] = "running"]
    BY <1>6, StartIs
  <2> QED BY <1>3, <2>1
<1> QED BY <1>2, <1>4, <1>5, <1>6, CloseReports, JobsLeft

\* An import or pipeline that reports success on the branch it created has loaded its
\* source completely and nothing else, unless another job met it there or pgloader
\* loaded it.
THEOREM SuccessfulImportsAreComplete == Spec => []SuccessIsComplete
<1> DEFINE Inv == MeetingInv /\ OwnerInv /\ ContentInv /\ ReportsInv
<1>1. Init => Inv
  <2> SUFFICES ASSUME Init PROVE Inv
    OBVIOUS
  <2>1. \A j \in Jobs : job[j] = Idle /\ job[j].pc = "idle" /\ job[j].extracted = FALSE
    BY DEF Init, Idle
  <2>2. MeetingInv /\ ContentInv
    BY <2>1 DEF MeetingInv, ContentInv, Active, Expects, Early
  <2>3. OwnerInv
    BY <2>1 DEF Init, OwnerInv
  <2>4. \A j \in Jobs : result[j] = "none" /\ landed[j] = None
    BY DEF Init
  <2>5. /\ result \in [Jobs -> {"none", "running", "ok", "error", "failed"}]
        /\ landed \in [Jobs -> (SUBSET (Pieces \union {MainTable})) \union {None}]
    <3>1. "none" \in {"none", "running", "ok", "error", "failed"} /\ None \in (SUBSET (Pieces \union {MainTable})) \union {None}
      OBVIOUS
    <3> HIDE DEF MainTable
    <3> QED BY <3>1 DEF Init
  <2>6. ReportsInv
    BY <2>4, <2>5 DEF ReportsInv, Reported
  <2> QED BY <2>2, <2>3, <2>6
<1>2. Types /\ Inv /\ [Next]_vars => Inv'
  BY MeetingKept, OwnerKept, ContentKept, ReportsKept
<1>3. Inv => SuccessIsComplete
  <2> SUFFICES ASSUME ReportsInv, NEW j \in Jobs, result[j] = "ok", landed[j] # None, j \notin overlap, job[j].plan.load # "pgloader"
               PROVE  landed[j] \in Complete(j)
    BY DEF SuccessIsComplete
  <2>1. Reported(j, job[j], result[j], landed[j], FALSE)
    BY DEF ReportsInv, Reported
  <2>2. /\ {j} \X ({"table", "rows"} \union {"model"}) = Loaded(j) \union {<<j, "model">>}
        /\ {j} \X ({"table", "rows"} \union {}) = Loaded(j)
    BY DEF Loaded
  <2> QED BY <2>1, <2>2 DEF Reported, Complete
<1> QED BY <1>1, <1>2, <1>3, TypesAlways, PTL DEF Spec
-----------------------------------------------------------------------------
(* The conversions *)

\* mapMySQLType alone: the type that an integer type becomes holds its values.
LEMMA TypesWiden ==
  ASSUME NEW t \in DOMAIN MySQLBits, NEW unsigned
  PROVE  PostgresBits[mapMySQLType(t, unsigned)] >= MySQLBits[t] + IF unsigned THEN 1 ELSE 0
<1>1. t \in {"tinyint", "smallint", "mediumint", "int", "bigint"}
  BY DEF MySQLBits
<1>2. CASE t = "tinyint"
  BY <1>2 DEF mapMySQLType, PostgresBits, MySQLBits
<1>3. CASE t = "smallint"
  BY <1>3 DEF mapMySQLType, PostgresBits, MySQLBits
<1>4. CASE t = "mediumint"
  BY <1>4 DEF mapMySQLType, PostgresBits, MySQLBits
<1>5. CASE t = "int"
  BY <1>5 DEF mapMySQLType, PostgresBits, MySQLBits
<1>6. CASE t = "bigint"
  BY <1>6 DEF mapMySQLType, PostgresBits, MySQLBits
<1> QED BY <1>1, <1>2, <1>3, <1>4, <1>5, <1>6

\* Whatever columns a MySQL table has, each of its integer columns gets a type that
\* holds all its values, at the place where the rows of mysqldump have it.
THEOREM ColumnsHoldTheirIntegers == IntegersFit
<1> DEFINE row == SelectSeq(columns, LAMBDA x : ~ x.generated)
           table == mysqlCreateTable(columns)
<1>1. table = [i \in DOMAIN row |-> mapMySQLType(row[i].type, row[i].unsigned)]
  BY DEF mysqlCreateTable
<1>2. IntegersFit <=> \A i \in DOMAIN row :
        row[i].type \in DOMAIN MySQLBits =>
          PostgresBits[table[i]] >= MySQLBits[row[i].type] + IF row[i].unsigned THEN 1 ELSE 0
  BY DEF IntegersFit
<1> HIDE DEF row, table
<1>3. SUFFICES ASSUME NEW i \in DOMAIN row, row[i].type \in DOMAIN MySQLBits
               PROVE  PostgresBits[table[i]] >= MySQLBits[row[i].type] + IF row[i].unsigned THEN 1 ELSE 0
  BY <1>2
<1>4. table[i] = mapMySQLType(row[i].type, row[i].unsigned)
  BY <1>1
<1> QED BY <1>3, <1>4, TypesWiden

\* Whatever documents a JSON source has, none is lost and none fails to load, and each
\* value but a null keeps its type, unless objects are mixed with other documents.
THEOREM DocumentsKeepTheirValues ==
  ASSUME docs \in Seq(Documents)
  PROVE  DocumentsKept
<1> SUFFICES ASSUME Fields(docs) = {} \/ (\A i \in DOMAIN docs : docs[i].object)
             PROVE  /\ DOMAIN Rows(docs) = DOMAIN docs
                    /\ \A i \in DOMAIN docs, k \in Fields(docs) :
                         LET cell == Rows(docs)[i][k] IN
                         cell[2] # "absent" =>
                           /\ cell[2] \in Accepts[cell[1]]
                           /\ cell[1] = "text" => k = "_id" \/ cell[2] \in {"string", "null"}
  BY DEF DocumentsKept
<1>1. CASE Fields(docs) = {}
  BY <1>1 DEF Rows
<1>2. CASE Fields(docs) # {}
  <2>1. {i \in DOMAIN docs : docs[i].object} = DOMAIN docs
    BY <1>2
  <2>2. Rows(docs) = [i \in DOMAIN docs |-> [k \in Fields(docs) |-> Cell(docs, i, k)]]
    BY <1>2, <2>1 DEF Rows
  <2>3. ASSUME NEW i \in DOMAIN docs, NEW k \in Fields(docs), docs[i].value[k] # "absent"
        PROVE  LET t == jsonColumn(k, KindsOf(docs, k)) IN
               /\ docs[i].value[k] \in Accepts[t]
               /\ t = "text" => k = "_id" \/ docs[i].value[k] \in {"string", "null"}
    <3> DEFINE v == docs[i].value[k]
               kinds == KindsOf(docs, k)
               ts == kinds \ {"null"}
    <3>1. docs[i] \in Documents /\ k \in Keys
      BY DEF Fields
    <3>2. v \in Kinds /\ v \in kinds
      BY <2>3, <3>1 DEF Documents, KindsOf
    <3>3. v = "null" \/ v \in ts
      BY <3>2
    <3>4. jsonColumn(k, kinds) = CASE k = "_id" \/ ts = {} \/ ts = {"string"} -> "text"
                                   [] ts = {"number"}                        -> "numeric"
                                   [] ts = {"boolean"}                       -> "boolean"
                                   [] OTHER                                  -> "jsonb"
      BY DEF jsonColumn
    <3> HIDE DEF v, kinds, ts
    <3>5. CASE k = "_id" \/ ts = {} \/ ts = {"string"}
      BY <3>2, <3>3, <3>4, <3>5 DEF Accepts, v, kinds
    <3>6. CASE ~ (k = "_id" \/ ts = {} \/ ts = {"string"}) /\ ts = {"number"}
      BY <3>2, <3>3, <3>4, <3>6 DEF Accepts, v, kinds
    <3>7. CASE ~ (k = "_id" \/ ts = {} \/ ts = {"string"}) /\ ts = {"boolean"}
      BY <3>2, <3>3, <3>4, <3>7 DEF Accepts, v, kinds
    <3>8. CASE ~ (k = "_id" \/ ts = {} \/ ts = {"string"}) /\ ts # {"number"} /\ ts # {"boolean"}
      <4>1. jsonColumn(k, kinds) = "jsonb"
        BY <3>4, <3>8
      <4> QED BY <3>2, <4>1 DEF Accepts, v, kinds
    <3> QED BY <3>5, <3>6, <3>7, <3>8
  <2>4. \A i \in DOMAIN docs, k \in Fields(docs) :
          /\ Rows(docs)[i][k][1] = jsonColumn(k, KindsOf(docs, k))
          /\ Rows(docs)[i][k][2] = docs[i].value[k]
    BY <2>2 DEF Cell
  <2> HIDE DEF Rows
  <2> QED BY <2>2, <2>3, <2>4
<1> QED BY <1>1, <1>2
=============================================================================
