------------------------------ MODULE Imports -------------------------------
(***************************************************************************)
(* Imports (import.go), continuous imports (replication.go) and pipelines  *)
(* (pipeline.go, the run handler of controlplane/server.go) among the      *)
(* things that run beside them: other jobs that use the same branch name,  *)
(* users who create and delete branches, clients whose connections wake a  *)
(* branch, and the gateway's idle reaper (proxy.go).  A job is a sequence  *)
(* of docker and psql calls that find the branch by its name each time and *)
(* hold nothing between two calls.  Create and Delete are single steps     *)
(* here; Branches takes them apart.                                        *)
(***************************************************************************)
EXTENDS Naturals, FiniteSets

CONSTANTS Names,     \* branch names
          Targets,   \* those that jobs import into
          Jobs,      \* import commands and requests, pipeline runs
          Clients,   \* connections at the gateway
          Plans,     \* the plans each job may follow, see Plan
          MaxEvents, \* bound: user commands, connections, kills and idle windows
          None

\* A source and its loader, and whether a pipeline runs the import.
Plan == [load : {"postgres", "sql", "pgloader", "native", "csv", "json", "mongo", "continuous"},
         pipeline : BOOLEAN]

ASSUME PlansAssumption ==
  /\ Plans \in [Jobs -> SUBSET Plan]
  /\ \A j \in Jobs : \A p \in Plans[j] : p.load = "continuous" => ~ p.pipeline
ASSUME EventsAssumption == MaxEvents \in Nat
ASSUME NamesAssumption ==
  Targets \subseteq Names /\ None \notin Names /\ Names \cap (Jobs \union {"main"}) = {} /\ "user" \notin Jobs

VARIABLES events,   \* how many there have been
          disk,     \* each branch's dataset
          cont,     \* and container
          job,      \* the jobs' progress
          result,   \* what they reported
          client,   \* connection handlers
          clock,    \* lastActivity: each branch's idle time, as the reaper reads it
          reap,     \* the reaper's progress
          slot,     \* the source database has a replication slot odb_sub
          overlap,  \* history: jobs that met another job on their branch
          landed,   \* history: the contents when a job reported success
          orphan,   \* history: branches left unguarded by a process that died
                    \* or a setGuard that failed
          inherit,  \* history: branches cloned from an unguarded one
          twins,    \* history: a replicating branch was cloned
          raced,    \* history: branches that began to replicate as the reaper
                    \* was about to stop them
          cut       \* history: clients it cut off that it could have known of

histories == <<overlap, landed, orphan, inherit, twins, raced, cut>>
gateway == <<client, clock, reap>>
branches == <<disk, cont>>
vars == <<events, branches, slot, job, result, gateway, histories>>

MainTable == <<"main", "table">>

Pieces == Jobs \X {"stage", "docs", "table", "rows", "model"}

Idle == [pc |-> "idle", name |-> None, plan |-> [load |-> "sql", pipeline |-> FALSE],
         extracted |-> FALSE, out |-> "ok"]

Closed == [pc |-> "idle", name |-> None, late |-> FALSE, slow |-> FALSE]

Init ==
  /\ events = 0
  /\ disk = [n \in Names |-> None]
  /\ cont = [n \in Names |-> "absent"]
  /\ job = [j \in Jobs |-> Idle]
  /\ result = [j \in Jobs |-> "none"]
  /\ client = [c \in Clients |-> Closed]
  /\ clock = [n \in Names |-> "unseen"]
  /\ reap = [pc |-> "idle", name |-> None]
  /\ slot = FALSE
  /\ overlap = {} /\ orphan = {} /\ inherit = {} /\ raced = {} /\ cut = {}
  /\ twins = FALSE
  /\ landed = [j \in Jobs |-> None]
-----------------------------------------------------------------------------
(* Branches: what import.go and pipeline.go use of branch.go *)

exists(n) == disk[n] # None
Up(n) == cont[n] = "up" /\ exists(n)

\* Create copies the parent's files, its event trigger's state and subscription
\* included, and starts a container on them; no reconcileGuard.
Clone(p, by) ==
  IF p = "main" THEN [by |-> by, from |-> p, public |-> {MainTable}, raw |-> {}, guard |-> TRUE, sub |-> "none"]
  ELSE [disk[p] EXCEPT !.by = by, !.from = p]

CreateBranch(n, p, by) ==
  /\ disk' = [disk EXCEPT ![n] = Clone(p, by)]
  /\ cont' = [cont EXCEPT ![n] = "up"]
  /\ inherit' = IF p # "main" /\ ~ disk[p].guard THEN inherit \union {n} ELSE inherit \ {n}
  /\ orphan' = orphan \ {n}
  /\ twins' = (twins \/ (p # "main" /\ disk[p].sub # "none"))
  /\ raced' = IF p # "main" /\ reap.pc = "stop" /\ reap.name = n THEN raced \union {n} ELSE raced \ {n}

\* Delete removes the container, then the dataset with its clones unless one of
\* them is in use.
Family(n) == {m \in Names : exists(m) /\ (m = n \/ disk[m].from = n)}

Gone(n) == IF exists(n) /\ \A m \in Family(n) \ {n} : cont[m] # "up" THEN Family(n) ELSE {}

CutOff(n) == [c \in Clients |-> IF client[c].name = n /\ client[c].pc = "session"
                                THEN Closed ELSE client[c]]

DeleteBranch(n) ==
  /\ disk' = [m \in Names |-> IF m \in Gone(n) THEN None ELSE disk[m]]
  /\ cont' = [cont EXCEPT ![n] = "absent"]
  /\ client' = CutOff(n)
  /\ inherit' = inherit \ Gone(n) /\ orphan' = orphan \ Gone(n)

UserCreate(n, p) ==
  /\ ~ exists(n) /\ (p # "main" => exists(p) /\ p # n)
  /\ CreateBranch(n, p, "user")
  /\ UNCHANGED <<slot, job, result, gateway, overlap, landed, cut>>

UserDelete(n) ==
  /\ exists(n)
  /\ DeleteBranch(n)
  /\ UNCHANGED <<slot, job, result, clock, reap, overlap, landed, twins, raced, cut>>

\* setGuard ignores the errors of docker exec and psql, which may fail on a
\* branch that is up and do on one that is not.
setGuard(n, on) ==
  \/ /\ Up(n)
     /\ disk' = [disk EXCEPT ![n].guard = on]
     /\ orphan' = IF on THEN orphan \ {n} ELSE orphan
     /\ inherit' = IF on THEN inherit \ {n} ELSE inherit
  \/ /\ UNCHANGED <<disk, inherit>>
     /\ orphan' = IF on /\ Up(n) /\ ~ disk[n].guard THEN orphan \union {n} ELSE orphan

\* The user tables of a dataset; TableCount reports 0 when psql fails.
Tables(db) == (db.public \union db.raw) \ (Jobs \X {"docs", "rows"})

TableCount(n) == IF Up(n) THEN Cardinality(Tables(disk[n])) ELSE 0
-----------------------------------------------------------------------------
(* Jobs *)

Goto(j, step) == job' = [job EXCEPT ![j].pc = step]

\* An error leaves the deferred setGuard(true) to do.
Fail(j) == job' = [job EXCEPT ![j].pc = "close", ![j].out = "error"]

Active(j) == job[j].pc \notin {"idle", "done"}

Meets(j, n) == {i \in Jobs \ {j} : Active(i) /\ job[i].name = n}

StartRun(j) == result' = [result EXCEPT ![j] = "running"]
FinishRun(j, status) == result' = [result EXCEPT ![j] = status]

StartJob(j, n, p, step) ==
  /\ job[j].pc = "idle" /\ p \in Plans[j]
  /\ job' = [job EXCEPT ![j] = [pc |-> step, name |-> n, plan |-> p, extracted |-> FALSE, out |-> "ok"]]
  /\ overlap' = IF Meets(j, n) = {} THEN overlap ELSE overlap \union {j} \union Meets(j, n)
  /\ UNCHANGED <<branches, slot, gateway, landed, orphan, inherit, twins, raced, cut>>

\* POST /api/import, or `odb import`.
StartImport(j, n, p) ==
  /\ ~ p.pipeline
  /\ StartJob(j, n, p, "create")
  /\ UNCHANGED result

\* The handler of a pipeline run, which records that it is running.
StartPipeline(j, n, p) ==
  /\ p.pipeline
  /\ StartJob(j, n, p, "refresh")
  /\ StartRun(j)

\* RunPipeline deletes whatever branch has the pipeline's name.
Refresh(j) ==
  LET n == job[j].name IN
  /\ job[j].pc = "refresh"
  /\ DeleteBranch(n)
  /\ Goto(j, "create")
  /\ UNCHANGED <<slot, result, clock, reap, overlap, landed, twins, raced, cut>>

\* importInstance creates the branch and gives up if there is one.
CreateTarget(j) ==
  LET n == job[j].name IN
  /\ job[j].pc = "create"
  /\ IF exists(n)
     THEN /\ job' = [job EXCEPT ![j].pc = "done", ![j].out = "error"]
          /\ FinishRun(j, "error")
          /\ UNCHANGED <<branches, inherit, orphan, twins, raced>>
     ELSE CreateBranch(n, "main", j) /\ Goto(j, "open") /\ UNCHANGED result
  /\ UNCHANGED <<slot, gateway, overlap, landed, cut>>

\* setGuard(false), by importInstance or, after the import, by RunPipeline.
Open(j) ==
  /\ job[j].pc \in {"open", "reopen"}
  /\ setGuard(job[j].name, FALSE)
  /\ Goto(j, IF job[j].pc = "open" THEN "prepare" ELSE "stage")
  /\ UNCHANGED <<cont, slot, result, gateway, overlap, landed, twins, raced, cut>>

Db(j) == disk[job[j].name]
Add(j, S) == [Db(j) EXCEPT !.public = @ \union ({j} \X S)]
Has(j, kind) == \E i \in Jobs : <<i, kind>> \in Db(j).public

\* What a psql session may leave: pairs of a dataset and the job's next step.
failed(j) == {<<Db(j), "fail">>}

\* prepareTarget drops the schema public with main's tables and creates it.
prepareTarget(j) == {<<[Db(j) EXCEPT !.public = {}], "load">>} \union failed(j)

\* Mutant of runCollectingErrors: psql's exit code decides, which is 0 if
\* statements fail.
runExitCode(j) ==
  {<<Add(j, S), "check">> : S \in {{}, {"table"}, {"table", "rows"}}} \union failed(j)

\* The whole dump runs; if statements failed, as they do when the tables are
\* there already, the import fails with the rest loaded.
runCollectingErrors(j) ==
  {<<Add(j, S), "fail">> : S \in {T \in SUBSET {"table", "rows"} :
                                    "rows" \in T => "table" \in T \/ Has(j, "table")}}
  \union IF Has(j, "table") THEN {} ELSE {<<Add(j, {"table", "rows"}), "check">>}

\* pg_dump's output, or a .sql file.
loadPostgres(j) == runCollectingErrors(j)
loadSQL(j) == runCollectingErrors(j)

\* pgloader reports no failure short of its own: any part may be missing.
pgloader(j) ==
  {<<Add(j, S), IF Tables(Add(j, S)) = {} THEN "fail" ELSE "check">> :
     S \in {{}, {"table"}, {"table", "rows"}}}
  \union failed(j)

\* loadMySQLNative and loadCSV create the tables, then send the rows in another
\* session; in between mysqldump runs, without a connection to the branch.
loadMySQLNative(j) ==
  failed(j) \union IF Has(j, "table") THEN {} ELSE {<<Add(j, {"table"}), "rows">>}

\* The source says that it is MySQL 8 or later.
mysqlNeedsNative(p) == p.load = "native"

loadMySQL(j) == IF mysqlNeedsNative(job[j].plan) THEN loadMySQLNative(j) ELSE pgloader(j)

\* CREATE TABLE IF NOT EXISTS.
loadCSV(j) ==
  failed(j) \union {<<IF Has(j, "table") THEN Db(j) ELSE Add(j, {"table"}), "rows">>}

loadRows(j) ==
  failed(j) \union IF Has(j, "table") THEN {<<Add(j, {"rows"}), "check">>} ELSE {}

\* loadJSON: a stage table, a transaction that fills it, and the final table
\* made of the stage's documents.
Without(j, kinds) == {x \in Db(j).public : \A i \in Jobs, k \in kinds : x # <<i, k>>}

stageTable(j) ==
  {<<[Db(j) EXCEPT !.public = Without(j, {"stage", "docs"}) \union {<<j, "stage">>}], "docs">>}
  \union failed(j)

stageDocs(j) ==
  (IF Has(j, "stage") THEN {<<Add(j, {"docs"}), "relational">>} ELSE {}) \union failed(j)

relationalizeJSON(j) ==
  LET rows == {<<i, "rows">> : i \in {x \in Jobs : <<x, "docs">> \in Db(j).public}}
      final == Without(j, {"stage", "docs", "table", "rows"}) \union {<<j, "table">>} \union rows
  IN failed(j) \union IF Has(j, "stage") THEN {<<[Db(j) EXCEPT !.public = final], "check">>} ELSE {}

\* The documents of a collection, one collection here, are loaded as JSON.
loadMongo(j) == stageTable(j)

\* ImportContinuousTo copies the schema without counting errors, insists on
\* some table, and subscribes.
copySchema(j) ==
  {<<Add(j, S), IF Tables(Add(j, S)) = {} THEN "fail" ELSE "subscribe">> : S \in {{}, {"table"}}}
  \union failed(j)

\* CREATE SUBSCRIPTION makes a slot on the source and fails if there is one.
subscribe(j) ==
  failed(j) \union IF Db(j).sub = "none" /\ ~ slot
                   THEN {<<[Db(j) EXCEPT !.sub = "copying"], "close">>} ELSE {}

\* RunPipeline moves public to raw and makes the models from it, one here.
stageRaw(j) ==
  {<<[Db(j) EXCEPT !.raw = Db(j).public, !.public = {}], "model">>} \union failed(j)

model(j) ==
  failed(j) \union
    IF \E i \in Jobs : <<i, "table">> \in Db(j).raw
    THEN {<<Add(j, {"model"}), "test">>} ELSE {}

Outcomes(j) ==
  CASE job[j].pc = "prepare"    -> prepareTarget(j)
    [] job[j].pc = "rows"       -> loadRows(j)
    [] job[j].pc = "docs"       -> stageDocs(j)
    [] job[j].pc = "relational" -> relationalizeJSON(j)
    [] job[j].pc = "subscribe"  -> subscribe(j)
    [] job[j].pc = "stage"      -> stageRaw(j)
    [] job[j].pc = "model"      -> model(j)
    [] job[j].pc = "load"       ->
         CASE job[j].plan.load = "postgres"   -> loadPostgres(j)
           [] job[j].plan.load = "sql"        -> loadSQL(j)
           [] job[j].plan.load \in {"pgloader", "native"} -> loadMySQL(j)
           [] job[j].plan.load = "csv"        -> loadCSV(j)
           [] job[j].plan.load = "json"       -> stageTable(j)
           [] job[j].plan.load = "mongo"      -> loadMongo(j)
           [] job[j].plan.load = "continuous" -> copySchema(j)

\* One session with the branch, found by its name; a branch that is not up
\* fails it.
Session(j) ==
  LET n == job[j].name IN
  /\ job[j].pc \in {"prepare", "load", "rows", "docs", "relational", "subscribe", "stage", "model"}
  /\ IF Up(n)
     THEN \E o \in Outcomes(j) :
            /\ disk' = [disk EXCEPT ![n] = o[1]]
            /\ IF o[2] = "fail" THEN Fail(j) ELSE Goto(j, o[2])
     ELSE Fail(j) /\ UNCHANGED disk
  /\ LET subscribed == Up(n) /\ disk[n].sub # disk'[n].sub IN
     /\ slot' = (slot \/ subscribed)
     /\ raced' = IF subscribed /\ reap.pc = "stop" /\ reap.name = n THEN raced \union {n} ELSE raced
  /\ UNCHANGED <<cont, result, gateway, overlap, landed, orphan, inherit, twins, cut>>

\* No tables, or no answer, is a failure.
Check(j) ==
  /\ job[j].pc = "check"
  /\ IF TableCount(job[j].name) = 0 THEN Fail(j) ELSE Goto(j, "close")
  /\ UNCHANGED <<branches, slot, result, gateway, histories>>

\* The pipeline's tests, if it has any; a failing test, or one that can't be run,
\* does not stop the run.
Test(j) ==
  /\ job[j].pc = "test"
  /\ \/ Goto(j, "close")
     \/ job' = [job EXCEPT ![j].pc = "close", ![j].out = "failed"]
  /\ UNCHANGED <<branches, slot, result, gateway, histories>>

\* The report: a file or SSE message for an import, FinishRun for a pipeline.
Report(j) ==
  LET n == job[j].name IN
  /\ job' = [job EXCEPT ![j].pc = "done"]
  /\ FinishRun(j, job[j].out)
  /\ landed' = IF exists(n) /\ disk[n].by = j
               THEN [landed EXCEPT ![j] = disk[n].public \union disk[n].raw] ELSE landed

\* The deferred setGuard(true); then the pipeline's second half, or the report.
Close(j) ==
  /\ job[j].pc = "close"
  /\ setGuard(job[j].name, TRUE)
  /\ IF job[j].plan.pipeline /\ ~ job[j].extracted /\ job[j].out = "ok"
     THEN /\ job' = [job EXCEPT ![j].pc = "reopen", ![j].extracted = TRUE]
          /\ UNCHANGED <<result, landed>>
     ELSE Report(j)
  /\ UNCHANGED <<cont, slot, gateway, overlap, twins, raced, cut>>

\* The job's process is killed: nothing deferred runs, and a pipeline's run
\* stays recorded as running.
JobDies(j) ==
  LET n == job[j].name IN
  /\ Active(j)
  /\ Goto(j, "done")
  /\ orphan' = IF exists(n) /\ ~ disk[n].guard THEN orphan \union {n} ELSE orphan
  /\ UNCHANGED <<branches, slot, result, gateway, overlap, landed, inherit, twins, raced, cut>>
-----------------------------------------------------------------------------
(* Continuous imports after the job *)

\* External: the subscription's worker finishes the initial copy.
InitialCopy(n) ==
  /\ Up(n) /\ disk[n].sub = "copying" /\ slot
  /\ disk' = [disk EXCEPT ![n].sub = "ready",
                          ![n].public = @ \union {<<j, "rows">> : j \in {i \in Jobs : <<i, "table">> \in @}}]
  /\ UNCHANGED <<cont, slot, job, result, gateway, histories>>

\* Mutant of Cutover: the slot goes even if the branch has no subscription.
CutoverAnyBranch(n) ==
  /\ TableCount(n) # 0
  /\ disk' = [disk EXCEPT ![n].sub = "none"]
  /\ slot' = FALSE
  /\ raced' = raced \ {n}
  /\ UNCHANGED <<cont, job, result, gateway, overlap, landed, orphan, inherit, twins, cut>>

\* ImportCutoverTo and CutoverReplication: DROP SUBSCRIPTION drops the slot on
\* the source too, and fails if it is gone.  Nothing asks for Ready.
Cutover(n) ==
  /\ TableCount(n) # 0 /\ disk[n].sub # "none" /\ slot
  /\ disk' = [disk EXCEPT ![n].sub = "none"]
  /\ slot' = FALSE
  /\ raced' = raced \ {n}
  /\ UNCHANGED <<cont, job, result, gateway, overlap, landed, orphan, inherit, twins, cut>>
-----------------------------------------------------------------------------
(* The gateway: clients wake branches, the reaper stops idle ones *)

Set(c, r) == client' = [client EXCEPT ![c] = r]

\* handle up to EnsureRunning.  A handler is late if the reaper has read the
\* clock, and slow if the idle window passes before it is connected.
Touch(c, n) ==
  /\ client[c].pc = "idle"
  /\ Set(c, [pc |-> "ensure", name |-> n, late |-> reap.name = n, slow |-> FALSE])
  /\ clock' = [clock EXCEPT ![n] = "recent"]
  /\ UNCHANGED <<branches, slot, job, result, reap, histories>>

\* EnsureRunning: a branch that is up is left alone; one that had to be started
\* gets its guard back, in a step of its own.  (A stopped container whose
\* dataset went with its parent's comes up empty: Branches follows that.)
Ensure(c) ==
  LET n == client[c].name IN
  /\ client[c].pc = "ensure"
  /\ IF ~ exists(n) THEN Set(c, Closed) /\ UNCHANGED cont
     ELSE /\ Set(c, [client[c] EXCEPT !.pc = IF cont[n] = "up" THEN "dial" ELSE "guard"])
          /\ cont' = [cont EXCEPT ![n] = "up"]
  /\ UNCHANGED <<disk, slot, job, result, clock, reap, histories>>

\* Mutant of ReconcileGuard: a resumed branch is not guarded again.
ReconcileNothing(c) ==
  /\ client[c].pc = "guard"
  /\ Set(c, [client[c] EXCEPT !.pc = "dial"])
  /\ UNCHANGED <<branches, slot, job, result, clock, reap, histories>>

ReconcileGuard(c) ==
  /\ client[c].pc = "guard"
  /\ setGuard(client[c].name, TRUE)
  /\ Set(c, [client[c] EXCEPT !.pc = "dial"])
  /\ UNCHANGED <<cont, slot, job, result, clock, reap, overlap, landed, twins, raced, cut>>

\* The reaper has asked a branch for its connections and found none.
Counted(n) == reap.name = n /\ reap.pc \in {"replication", "stop"}

\* Once connected, a client shows in the next count, late, slow or neither.
Dial(c) ==
  LET n == client[c].name IN
  /\ client[c].pc = "dial"
  /\ Set(c, IF ~ Up(n) THEN Closed
            ELSE IF Counted(n) THEN [client[c] EXCEPT !.pc = "session"]
            ELSE [pc |-> "session", name |-> n, late |-> FALSE, slow |-> FALSE])
  /\ UNCHANGED <<branches, slot, job, result, clock, reap, histories>>

Hangup(c) ==
  /\ client[c].pc = "session"
  /\ Set(c, Closed)
  /\ UNCHANGED <<branches, slot, job, result, clock, reap, histories>>

\* The idle window passes since a branch's last activity.
Expire(n) ==
  /\ clock[n] = "recent"
  /\ clock' = [clock EXCEPT ![n] = "idle"]
  /\ client' = [c \in Clients |-> IF client[c].name = n /\ client[c].pc # "session"
                             THEN [client[c] EXCEPT !.slow = TRUE] ELSE client[c]]
  /\ UNCHANGED <<branches, slot, job, result, reap, histories>>

\* The reaper looks at a running branch: first sight starts its clock.
ReaperRead(n) ==
  /\ reap.pc = "idle" /\ cont[n] = "up" /\ clock[n] # "recent"
  /\ IF clock[n] = "unseen"
     THEN clock' = [clock EXCEPT ![n] = "recent"] /\ UNCHANGED reap
     ELSE reap' = [pc |-> "connections", name |-> n] /\ UNCHANGED clock
  /\ UNCHANGED <<branches, slot, job, result, client, histories>>

ReaperGoto(ok, step) == reap' = IF ok THEN [reap EXCEPT !.pc = step] ELSE [pc |-> "idle", name |-> None]

\* Mutant of ReaperConnections: a branch with connections looks idle.
ReaperNoConnections ==
  /\ reap.pc = "connections"
  /\ ReaperGoto(Up(reap.name), "replication")
  /\ UNCHANGED <<branches, slot, job, result, client, clock, histories>>

\* canSuspend: no client connection, then no subscription.
ReaperConnections ==
  LET n == reap.name IN
  /\ reap.pc = "connections"
  /\ ReaperGoto(Up(n) /\ ~ \E c \in Clients : client[c].name = n /\ client[c].pc = "session", "replication")
  /\ UNCHANGED <<branches, slot, job, result, client, clock, histories>>

\* Mutant of ReaperReplication: a replicating branch looks idle.
ReaperNoReplication ==
  /\ reap.pc = "replication"
  /\ ReaperGoto(Up(reap.name), "stop")
  /\ UNCHANGED <<branches, slot, job, result, client, clock, histories>>

ReaperReplication ==
  /\ reap.pc = "replication"
  /\ ReaperGoto(Up(reap.name) /\ disk[reap.name].sub = "none", "stop")
  /\ UNCHANGED <<branches, slot, job, result, client, clock, histories>>

\* Suspend: docker stop, without a second look.
ReaperStop ==
  LET n == reap.name IN
  /\ reap.pc = "stop"
  /\ cont' = [cont EXCEPT ![n] = IF @ = "up" THEN "down" ELSE @]
  /\ client' = CutOff(n)
  /\ cut' = cut \union {c \in Clients : /\ client'[c] # client[c]
                                        /\ ~ client[c].late /\ ~ client[c].slow}
  /\ ReaperGoto(FALSE, "")
  /\ UNCHANGED <<disk, slot, job, result, clock, overlap, landed, orphan, inherit, twins, raced>>

\* The gateway's process restarts: lastActivity is lost, and so is a wake that
\* had not come to reconcileGuard.
GatewayRestart ==
  /\ client' = [c \in Clients |-> Closed]
  /\ clock' = [n \in Names |-> "unseen"]
  /\ ReaperGoto(FALSE, "")
  /\ orphan' = orphan \union {n \in Names : /\ exists(n) /\ ~ disk[n].guard
                                           /\ \E c \in Clients : client[c].name = n /\ client[c].pc = "guard"}
  /\ UNCHANGED <<branches, slot, job, result, overlap, landed, inherit, twins, raced, cut>>
-----------------------------------------------------------------------------
Job(j) ==
  \/ Refresh(j) \/ CreateTarget(j) \/ Open(j) \/ Session(j) \/ Check(j) \/ Test(j) \/ Close(j)
  \/ \E n \in Targets, p \in Plans[j] : StartImport(j, n, p) \/ StartPipeline(j, n, p)

Handler(c) == Ensure(c) \/ ReconcileGuard(c) \/ Dial(c) \/ Hangup(c)

Reaper ==
  \/ \E n \in Names : ReaperRead(n)
  \/ ReaperConnections \/ ReaperReplication \/ ReaperStop

Replication(n) == InitialCopy(n) \/ Cutover(n)

\* What comes from outside, as often as MaxEvents allows.
Event ==
  \/ \E n \in Names : \/ UserDelete(n) \/ Expire(n)
                      \/ \E c \in Clients : Touch(c, n)
                      \/ \E p \in Names \union {"main"} : UserCreate(n, p)
  \/ \E j \in Jobs : JobDies(j)
  \/ GatewayRestart

Next ==
  \/ /\ events < MaxEvents /\ events' = events + 1
     /\ Event
  \/ /\ UNCHANGED events
     /\ \/ \E j \in Jobs : Job(j)
        \/ \E c \in Clients : Handler(c)
        \/ \E n \in Names : Replication(n)
        \/ Reaper

Spec == Init /\ [][Next]_vars
-----------------------------------------------------------------------------
\* Type correctness, with what ties the pieces together: a container serves a
\* dataset that is there, and the reaper is at a branch exactly while it works.
TypeOK ==
  /\ events \in 0..MaxEvents
  /\ \A n \in Names : disk[n] = None \/
       disk[n] \in [by : Jobs \union {"user"}, from : Names \union {"main"},
                    public : SUBSET (Pieces \union {MainTable}), raw : SUBSET (Pieces \union {MainTable}),
                    guard : BOOLEAN, sub : {"none", "copying", "ready"}]
  /\ cont \in [Names -> {"absent", "up", "down"}]
  /\ \A n \in Names : cont[n] = "up" => exists(n)
  /\ \A j \in Jobs : job[j].plan \in Plan /\ job[j].out \in {"ok", "error", "failed"}
  /\ result \in [Jobs -> {"none", "running", "ok", "error", "failed"}]
  /\ \A c \in Clients : client[c].pc = "session" => Up(client[c].name)
  /\ clock \in [Names -> {"unseen", "recent", "idle"}]
  /\ reap.pc = "idle" <=> reap.name = None

\* What the job's source holds, as its plan may leave it in the branch; the rows
\* of a continuous import follow the report.
Complete(j) ==
  LET all == {"table", "rows"} \union IF job[j].plan.pipeline THEN {"model"} ELSE {}
  IN {{j} \X all} \union IF job[j].plan.load = "continuous" THEN {{<<j, "table">>}} ELSE {}

\* An import or pipeline that reports success on the branch it created has
\* loaded its source completely and nothing else: nothing of main's, no staging
\* table, nothing half done by a session that a deletion, a suspension by the
\* reaper or a bad input stopped.  What spoils this: another job on the same
\* name meanwhile, which nothing prevents, and pgloader, whose partial loads
\* pass for successes.
SuccessIsComplete ==
  \A j \in Jobs :
    /\ result[j] = "ok" /\ landed[j] # None
    /\ j \notin overlap /\ job[j].plan.load # "pgloader"
    => landed[j] \in Complete(j)

Unguarding(n) ==
  \/ \E j \in Jobs : Active(j) /\ job[j].name = n
  \/ \E c \in Clients : client[c].name = n /\ client[c].pc = "guard"

\* A running branch without the destructive-DDL guard is being imported into,
\* is being woken (Postgres serves before reconcileGuard gets to it), or was
\* left so, until the branch next starts: by an import, or a wake, whose process
\* died or whose ALTER EVENT TRIGGER failed, which setGuard does not report; or
\* by Create from such a branch, which copies the disabled trigger.
UnguardedHasACause ==
  \A n \in Names : Up(n) /\ ~ disk[n].guard =>
    Unguarding(n) \/ n \in orphan \/ n \in inherit

\* The comment on canSuspend: a continuous import is not suspended.  It is if
\* it began after the reaper asked.
ReplicationSuspendedOnlyByRace ==
  \A n \in Names : exists(n) /\ cont[n] = "down" /\ disk[n].sub # "none" => n \in raced

\* The reaper never cuts off a client that was connected when it counted the
\* connections, however long ago the client's last activity, nor one that was
\* still on its way, if it touched the branch before the reaper read the clock
\* and within the idle window.  The others get in between the count and docker
\* stop, which is done without a second look.
ReaperSparesClients == cut = {}

\* A branch that replicates has its slot on the source, so that it can be cut
\* over, unless a replicating branch was cloned: cutting over the clone drops
\* the slot they share.
SubscriptionsHaveTheirSlot ==
  ~ twins => \A n \in Names : exists(n) /\ disk[n].sub # "none" => slot
=============================================================================
