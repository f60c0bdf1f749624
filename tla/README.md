# OxynDB in TLA+

OxynDB runs Postgres databases in containers on copy-on-write storage, branches
them in milliseconds, routes clients to them through a wire-protocol gateway and
keeps a tamper-evident ledger ("Blackbox") of schema changes in each of them.
This project models the parts of it where order, failure and concurrency decide
whether it is correct, checks them with TLC on small instances and proves the
central results with TLAPS for all instances.

## Inventory

| part | state it keeps | operations | what is hard | what makes it correct |
|---|---|---|---|---|
| Blackbox triggers (`internal/ledger/ledger.sql`, `policy.sql`) | `odb.schema_ledger`, its id sequence, the advisory chain lock, `ledger_policy_evaluations` | DDL event triggers, `chain_row`, the guardrail and the policy gate, the append-only triggers | concurrent transactions, isolation levels, savepoints, a second connection (dblink) per refused statement, crashes | rows link only to committed rows, in an order a verifier can follow; a refused statement is recorded and returns |
| Checkpoints and anchors (`internal/branch/checkpoint.go`, `internal/ledger/integrity.go`, `ledger_v2.sql`) | `odb.ledger_checkpoints`, anchor files | `Checkpoint`, the contiguity trigger, `WriteAnchor`, `Integrity`, `Verify` | several engine processes, a crash between database and file, appends during a checkpoint or an audit, recreated branches | what verifies is unchanged; what is unchanged verifies; every entry gets anchored |
| HA (`internal/branch/ha.go`) | two containers and their storage, the primary pointer file | enable, failover, failback, disable, up, stop | commands are sequences of docker/psql calls without a lock, any of which can fail | `main` always has its database; no acknowledged write is lost; no split brain |
| Branch lifecycle (`branch.go`, `storage.go`) | dataset or subvolume, snapshot, container, caches | create, reset, delete, suspend, wake, up, down | storage and container are two systems; the gateway, its reaper, the API and the CLI act at once | a branch name never reaches another branch's or an empty database |
| Gateway (`internal/proxy`) | sessions, cancel targets, last use of each branch | startup, authentication, wake, relay, cancel, idle reaper | sessions start while the reaper suspends | a client that is there is not cut off; a cancel reaches its own session |
| Agent branches (`branch.go`, `agent_access.go`, `internal/agentapi`) | branches with a lifetime, scoped keys | create, reap, revoke | cap and lifetime against crashes | branches and keys end together |
| Import, pipelines and replication (`import.go`, `pipeline.go`, `replication.go`) | guard setting, subscription and slot, run records | import, pipeline run, continuous import, cutover | a job is many sessions found by name; the guard is off meanwhile; loaders that fail without saying so | success means the source is there; the guard comes back on |
| Restore and branch-before (`restore.go`, `branch_before.go`) | base backups, WAL archive, one restore container | restore, branch before an entry | recovery targets, WAL archived in time, several databases in one archive | what is served is exactly what was promised |
| Auth store (`internal/auth`) | accounts, identities, keys, sessions, pipelines | register, OAuth sign-in, mint, verify, revoke | statements without transactions, shared by four processes | a person has one account; revoked means refused |
| Policy rules and admins (`branch/policy.go`, `controlplane/policy.go`) | `odb.policy_rules`, members of `odb_admin` | add, update, remove, preview, grant, revoke | rules change between preview and run; check-then-act on the list of admins | the preview tells what the gate will do; an admin remains |
| Provenance (`branch/provenance.go`) | agent sessions, ledger entries of a call | `ExecuteChange` | timeouts leave SQL running | a call reports its own entries |
| Diff and impact (`branch/diff.go`, `ledger/impact.go`, `branch/impact.go`) | none | compare two ledgers; score a statement | two reads at two times; a statement with several actions | the split is the fork; destructive changes are flagged |
| MCP server (`internal/mcp`) | its key's scope, stdin | serve, dispatch, tools | scope of every tool and argument; decode errors | a scoped key works on its branch only; serves until stdin closes |
| Statement cursor (`ledger.sql` 189-470) | per-session position in a query | which statement of a query a trigger runs for | multi-statement queries | the row quotes its own statement |
| Control plane, agent API (`internal/controlplane`, `internal/agentapi`) | none of their own | HTTP handlers that call the above | several calls per request | |
| Secrets, TLS, daemon, update, host launchers, CLI, web UI, clients | files | I/O | two processes making one secret; update half done | |

How the parts interact: the gateway, the control plane, the agent API, MCP and the
CLI all call `internal/branch`, from separate processes without a common lock; branch
code drives `docker`, the storage driver and `psql`; the triggers run inside each
branch's Postgres; the checkpointer goroutine reads every running branch's ledger
and writes anchor files outside it; HA moves a pointer file that the gateway reads on
every connection to `main`.

## Modules

| module | models |
|---|---|
| `LedgerLog` | abstract: what the ledger promises its readers; also the rows, links and `Intact` that the others use |
| `BlackboxChain` | appending inside Postgres: sessions, the chain lock, table locks, snapshots, savepoints, gates and dblink; implements `LedgerLog` |
| `BlackboxChainProofs` | theorems about `BlackboxChain` |
| `Merkle`, `RowOrder` | the Merkle tree of a checkpoint, and the order in which rows are loaded, as operators |
| `Roots` | what the count and root of a checkpoint say of its rows |
| `Checkpoints` | engines, anchor files and audits over a ledger that clients append to as `LedgerLog` says, or from a stale snapshot; composes `LedgerLog`, `Merkle` and `RowOrder` |
| `CheckpointsProofs` | theorems about `Checkpoints`, `Merkle` and `LedgerDiff` |
| `HA`, `HAProofs` | HA commands of several operators step by step, and theorems about them |
| `Branches`, `BranchesProofs` | branches other than `main`: commands, docker, the storage, agent keys and roles, and the gateway's connection handlers; theorems |
| `AgentCap` | the cap on agent branches: which containers some check counted |
| `Imports`, `ImportsProofs` | imports, pipelines and continuous imports among users, clients, the idle reaper and each other; theorems about them and `ImportTypes` |
| `ImportTypes` | the conversions of the loaders: MySQL columns, JSON documents |
| `Recovery`, `RecoveryProofs` | branch-before and restores over base backups and archived WAL; theorems |
| `Accounts` | accounts and OAuth sign-ins in the store |
| `GatewaySessions` | API keys, scopes and cancel keys of the gateway's sessions |
| `McpServer` | the MCP server's loop, and what a scoped key reaches |
| `PolicyAdmin` | granting and revoking `odb_admin` from the console and by hand |
| `AccessProofs` | theorems about these four |
| `Changes`, `ChangesProofs` | policy rules and `execute_change`; theorems about them and `Impact` |
| `LedgerDiff` | the diff of two branches' ledgers |
| `Impact` | what a statement changes, and its score |
| `MC*` | instances for TLC: symmetry, plans, and the choice between parts that share no state |

Operators named as mutants ("Mutant of ...") are plausible bugs; replacing the
definition they belong to makes TLC refute the property they are meant for, which
shows that the property can fail.

Some properties name exemptions through history variables (`overlap`, `lost`, `stale`,
`straddled` and the like). Each one is something the code really allows, and is named in
the property's comment: the property says that nothing else goes wrong.

### Blackbox: LedgerLog and BlackboxChain

sha256 is taken to be injective, so a row's `prev` field holds the very row whose
hash it copied and comparing hashes is comparing rows. Text is left out: a row is an
id, a status (APPLIED or BLOCKED) and its link.

Each session is a client connection. `Begin` fixes the isolation level and, under
repeatable read, the snapshot. `Create` and `Alter`/`TableGranted` are DDL that the
gates let through; the trigger's `INSERT` draws the id (`StartInsert`) before
`chain_row` (`ChainRow`) waits for the advisory lock, because Postgres evaluates the
column default first. The lock is kept until the transaction, or the savepoint that
took it, ends. `Refuse` is the guardrail or the policy gate: if the transaction holds
the chain lock nothing is recorded in Blackbox, otherwise a second connection inserts
the record (`DblinkRecord`) and, for the policy gate, the evaluation (`EvalRecord`).
That connection is a transaction of its own that Postgres' deadlock detector does not
connect with the session waiting for it, hence `Waits` has no edge for it. `DblinkFail`
burns the id; a second connection that is abandoned while it waits and commits later is
not modelled.

### Checkpoints

`Checkpoint` is `ReadLast`, `Load`, `Insert`, `Write`, one step per psql call or file
operation. `Contiguous` is the trigger on `ledger_checkpoints`. `Integrity` is
`LoadRows` and `LoadAnchorsAndVerify`. Clients that read committed append as `LedgerLog`
promises, in the order of their ids (`AppendNext`) or not (`AppendEarly`); a repeatable read
client links to a row that is no longer the last (`AppendStale`). `Recreate` gives the branch
the ledger of its parent, with or without a checkpoint, beside the anchor files of the old one.
`Faults` says which of these and of failing calls and a superuser's rewriting may happen in an
instance; they happen in any order and any kind more than once, `MaxFaults` times together.
`took` and `sealed` are history variables that no action reads.

### HA

`pc[o]` is the step a command has reached; each step is one docker, storage or psql
call, and `Die` ends a command anywhere. `data[n]` is the set of client transactions
in a database, `sess` the containers that clients of `main` are connected to, `final`
the WAL position that failback waits for, as the set of transactions it covers.
`acked` and `lost` are history variables, and so is `overlap`: a failover or failback
ran beside another command. `enable`, `disable` and `up` may overlap each other freely. The
standby is started by `docker run --name` without a password, so it refuses a second
container and exits on storage without a database (`StartStandby`); `main` initializes an
empty directory (`StartMain`). A clean `docker stop` sends the remaining WAL only to a
replica that is connected just then, and a standby that was killed or had exited shows an
older checkpoint.

### Branches

A branch is a dataset (`ds`, with whether it was made for an agent) and a container under one name, which
nothing keeps together. `cmd[a]` is a command in progress, one step per storage, docker
or psql call; a command may end after any of them (`Die`: the process dies or a call
fails). `conn[c]` is a connection handler: `Arrive` (authentication, scope), `Ensure`
and `Resume` or `Recreate` (`EnsureRunning`), `BackendAddr`, `Dial`, `LoginRole`,
`Auth`, then the relay. A container started where no dataset is mounted runs an `empty`
cluster, which Postgres initializes in the directory docker makes; it lacks the client
roles, which come with the Blackbox schema in a clone of `main`. (`odb ledger upgrade`
of such a cluster would create them; it is not modelled.) The idle reaper decides on
what it saw and stops the branch later, so `Suspend` may happen at any moment; `lastActivity`
is therefore not state of the model. The storage is zfs: `destroy -R` takes
clones along and fails where a running container uses one. `main` has no user or agent
roles of its own. `replaced` and `reused` are history variables.

`AgentCap` adds a third, `uncounted`. `CreateAgentBranch` counts containers before it makes
one, so an agent branch is in no count when its creation passed the check while another was
still to make its container, or when a wake, a reset or a plain `create` makes a container
that docker did not know, as all do after `odb stop`. The check also lets a creation through
when its `docker ps` fails (`CreateAgentBranchUnlisted`). `CapHolds` says that nothing else
takes the agents beyond `OXYNDB_AGENT_MAX`.

### Imports and ImportTypes

`job[j]` is an import command, an import request or a pipeline run, with the plan it
follows; each step is one psql session or docker call, which finds the branch by name and
fails if it is not up. `Session` picks one of the `Outcomes` of the loader at that step:
pairs of what the database holds after it and the job's next step. A database is the set
of `Pieces` in its schemas (`public`, and `raw` for a pipeline): a table, its rows, a stage
table, its documents or a model, each with the job that made it. A source has one table,
a collection one batch. `setGuard` may fail without anybody's knowing, also on a branch that
is up; `Close` is the deferred call. `JobDies` is a killed process. The gateway's part is `Touch`, `Ensure`,
`ReconcileGuard`, `Dial` and the reaper's four steps (`ReaperRead`, `ReaperConnections`,
`ReaperReplication`, `ReaperStop`), so that the clock, the probes and the stop can be
overtaken. A client is late if it touched the branch after the reaper read the clock, and slow
if the idle window passed while it was on its way; once it is connected before the count it is
neither, whatever its idle time, and only the count protects it. `slot` is the replication slot `odb_sub` at the source.

`ImportTypes` keeps the width of integers as a number of bits and a JSON value as its
kind; its two properties are checked on all pairs of columns and of documents.

### Recovery

A WAL position is the number of the commit that comes next; a backup has the position and
the time at which it ended; `archived` is how much object storage has. Recovery stops at
the first commit after the backup that meets the target (`FirstStop`). Transaction ids
are compared modulo `XidMod`, 2^32 in the code: an entry whose id is met twice after the
backup is exempt (`Wrapped`). `branchBeforeMu` spans one process, so commands of other
processes and users use the name freely. `fail` may leave the storage, or the container too,
and `createEmpty` may fail after it made the subvolume. A behaviour has one kind of command, and ledgers with
and without the 2.0 capture (`xid`, `time`).

### Accounts, GatewaySessions, McpServer, PolicyAdmin

Four protocols about who may do what; they share no state that the properties tell apart,
so `MCAccess` chooses one of them per behaviour. `Accounts` takes `upsertOAuth` apart at its
statements, each of which may fail: an error of a lookup counts as no row, one of the identity's
insert is dropped, and `CreateUser` and `userByID` end the sign-in; `GatewaySessions` follows a connection from the startup message through the key
lookup and the backend's login to the relay, and the cancel key's registration;
`McpServer` has stdin as a queue of lines, good, garbage or of another shape, and tools of
three sorts: those of one branch, the five that a scoped key is refused, and `impact`, which is
not refused and asks the other running branches for its object;
`PolicyAdmin` has the check, the listing and the change of a request as three steps.

### Changes, LedgerDiff, Impact

`Changes` composes the rules, the gate and `ExecuteChange`: `Preview`, `StartAgentSession`,
`Send`, then Postgres runs the statements one by one (`RunRefused`, `RunStatement`,
`RunFails`, `RunCommits`) while the call waits or gives up (`TimeOut`), then `ReadEntries`.
A kind of statement has its command tag, the tag `CommandTag` guesses from its words, and the
command that event triggers see when it runs: itself, one nested in it (`DO`), or none
(`TRUNCATE`). A rule's pattern is the set of kinds it matches; the gate matches the statement
that runs or, where the statement cursor cannot tell it, the whole query (`Texts`), and the cursor may
fail to tell any. `capture_ext` may skip a row, which then has no call hash. The chain lock is as in
`BlackboxChain`: one transaction with uncommitted rows at a time. `LedgerDiff` has ids drawn
before rows commit and clones of what is committed. `Impact` enumerates statements, how
many of their actions the tokenizer gets to, and what the branch says of their object.

## Runs

| run | shows |
|---|---|
| `chain_rc` | with read committed clients the ledger refines `LedgerLog`, verifies unless a row links to a greater id (`IntactUnlessReordered`), and refused statements return when no table locks are involved |
| `chain_rr` | with table locks, deadlocks and repeatable read: links are committed, evaluations name real records, no wait for oneself |
| `chain_hang` | violated: a refused statement may hang for good in a cycle Postgres cannot see |
| `ckpt` | read committed and repeatable read clients: checkpoints are contiguous whichever engines race; a ledger whose rows are linked in order verifies; what verifies is unchanged |
| `ckpt_live` | every entry is checkpointed, unless a row is linked out of order, which stops it; an audit of a ledger nobody rewrote or replaced raises an alarm only in a race with an engine (one that sealed rows the audit has not loaded, or one that is yet to write an anchor file below another, or failed to) or because an append linked out of order |
| `ha` | two operators, btrfs: `main` keeps its database; writes are lost or brought back, and `main` split, only for named reasons |
| `branches` | a client that is let in is on the present data of the branch it named, whatever commands, wakes, suspensions and restarts race; a login fails only on a branch that was replaced or not finished; the cap on agent branches is exceeded only by containers that no check counted |
| `imports` | an import that reports success has loaded its source and nothing else; a branch is unguarded, a continuous import suspended, a client cut off or a slot missing only for named reasons; conversions keep integers and documents |
| `recovery` | a branch-before holds exactly what preceded its entry and takes nothing from others; it leaves something unfinished only if it is killed, cannot remove it or fails half way through creating it; a restore holds what was committed by its time |
| `access` | a person has one account and gets in, except for named races and failed statements; cancel keys reach their own session and end with it; a scoped key works on its branch only; the console leaves an admin |
| `changes` | `execute_change` reports its own entries, but for those without a call hash, and its preview agrees with the gate where it guesses the tag right; a diff splits at the fork; destructive actions are flagged; count and root of a checkpoint determine its rows |
| `mcp_stdin` | violated: after a line that is not JSON the MCP server runs for ever, stdin closed or not |

Disagreements with comments and documents that the passing runs' exemptions name, without
a run of their own:

- `ledger.sql:590` "Every row is hash-chained to the one before it": ids are drawn before
  the lock, so two appends may link in the other order (`IntactUnlessReordered`).
- `docs/ledger-anchor-format.md:102` "Any failure means the ledger no longer matches what
  was recorded": so does a death between the checkpoint row and the anchor file
  (`OrderlyLedgerVerifies`).
- `ha.go:263` "a failure part-way loses nothing": a standby that is killed by `docker stop`, or
  exits just before it, shows a position before its last writes (`AckedWritesKept`).
- `ha.go:191` "The old primary is stopped to avoid split-brain": a failing `docker stop` is
  ignored (`SplitBrainNeedsFailedStop`; `NoSplitBrain` is the comment's claim).
- `branch.go:766` "a reset keeps the branch (and so the key's scope), and the agent goes on
  using the DSN it was given": the new clone lacks the agent's role
  (`LoginsFailOnlyOnReplacedBranches`).
- `branch.go:716` "Cap concurrent agent branches so an agent loop can't exhaust the pool": two
  creations at once, wakes after `odb stop` and a failing `docker ps` exceed the cap (`CapHolds`).
- `mcp.go:289` "A branch-scoped key reaches one branch and no further", and `mcp/auth.go:82` on
  refusing "the tools that reach past a single branch": `impact` asks the other running branches
  whether they have the object, for a scoped key too (`ScopedToItsBranch` names it).
- `controlplane/policy.go`: the last admin may go when two removals overlap (`AdminsRemain`).
- `proxy.go:443` canSuspend: an import that begins after the probe is suspended
  (`ReplicationSuspendedOnlyByRace`).

Bounds. Two sessions are enough for every pairwise race and for the cycles; three ids
allow a reordering with a row on either side. Three ledger ids give Merkle levels of
odd and even length and two checkpoints with a race between them; two faults, of one kind or of
two, allow a fault in the handling of another; a recreated branch inherits one row, with or
without a checkpoint. `ckpt_live` leaves out tampering and recreation, which its properties
exempt. In `changes` five leaves reach an odd Merkle level above the leaves. In
`ha` two operators give every pair of commands, two writes one that is streamed and one
that is not, and three faults one in each of failover, failback and recovery; a state in
which a command has overlapped a failover or failback is checked and not explored further
(`NoOverlap`), as every property excepts what follows. In `branches` two names give a clone of a
branch and an address to reuse; one command, one handler, suspensions, `odb stop`, the
agent reaper and a gateway restart interleave, with no bound on how often. For the
cap both names are agents' and `AgentMax` is 1, so that every second container is one too
many; two commands run at once, the client wakes branches, and a
creation ends with its container (what follows can only remove it, as a delete does). In `imports`
two jobs on one name, a second name for a clone, one client, and two events from
outside (`MaxEvents`: a deletion and a creation, a kill and a wake, a connection and the
end of its idle window); the jobs themselves and the reaper have no bound. One job is a
MongoDB pipeline, a continuous import or an import by CSV or pgloader, the other comes from `pg_dump`;
`json` takes the steps of `mongo`, `sql` those of `postgres`, and `native` those of `csv` but
for IF NOT EXISTS. In `recovery` three transactions
over `XidMod` 2 make an id repeat, two backups and two ticks give one on either side of a
commit; one command runs among users of the name, as a second restore would only replace
the container of the first, which `RestoredAsReported` exempts. In `access` two people, one address that either or both may have or lose in one change, and two
sign-ins; two keys, two connections and three backend keys, so that a key can be left over;
two lines of stdin; three users and two requests, as two admins removing each other need.
In `changes` a call and its retry, two rule changes and two ids; texts of one or two statements
that are an ALTER, a DROP, a nested drop of a column, TRUNCATE or CREATE TABLE AS, and rules a person adds on
the tags those last two are guessed to have; three branches and three
rows, as a clone between two commits out of order needs. Bounds are the constants named
`Max...`. Deadlock is not checked where the bounds, or jobs that are done, let a behaviour
end.

Fairness. `BlackboxChain`: Postgres grants locks first come first served, so a waiter
whose lock keeps becoming free gets it (strong fairness); it resolves deadlocks it can
see; clients end their transactions. Without the last the first open transaction
would keep the lock. `Checkpoints`: `StartCheckpointer` calls `Checkpoint` at every
tick, a call that is not interrupted proceeds, and transactions end. Calls fail at most
`MaxFaults` times: failures that never stop would prevent every checkpoint. `McpServer`: the server's loop runs (weak fairness of its own
steps, nothing about the client).

## Proofs

Every safety property of the passing runs is a theorem of its specification, for any
number of sessions, branches, jobs, rows and so on, and for every value of the bounds.
The type invariants of `BlackboxChain`, `HA` and `Recovery` are theorems and no run repeats
them. Each proof module extends the modules it is about and has, per theorem, the inductive
invariant (checked with TLC before it was proved), a lemma that every step keeps it, with
a step per action, and the theorem that combines the two. Assumptions on constants are the
named `ASSUME`s of the modules: that names and the marks for "none" differ, that bounds are
natural numbers, that SQL is a non-empty sequence of statements. What else a theorem
assumes is said here.

`BlackboxChainProofs`:

- `TypeCorrect`, `CommittedRowsLinkToCommittedRows`, `NeverWaitsForItself` from
  `ChainInv`. `LinksCommitted` alone is not inductive: one must know that only the
  lock's holder has uncommitted rows, that an uncommitted row links to a committed row
  or to one of the same transaction with a smaller id, so that a savepoint never keeps
  a row without the one it links to.
- `IntactUnlessReorderedHolds`, for read committed clients, from `OrderInv`: while no
  row links upwards, every row, uncommitted ones included, links to the greatest
  smaller id.
- `EvaluationsNameRecords` from `EvalInv`: a session that records an evaluation has no id
  or the id of a record that is committed.
- `AppendingImplementsTheLog`, for read committed clients: the refinement of `LedgerLog`.
  Ids in flight are those drawn and neither visible nor given up; a step that draws an id is
  `Allocate`, a commit or a second connection's record is `Publish`, an abort is `Burn` and
  everything else stutters. Repeatable read clients link to rows that are not the last,
  which `LedgerLog` does not allow.

`CheckpointsProofs`:

- `RootCommitsToItsRows` and `CheckpointsCommitToRows`: row sequences of equal length and root
  are equal, for any length.
  A level's successor determines it when the lengths agree, so the leaves are equal by
  induction down the levels.
- `CheckpointsStayContiguous` and `IntactLedgerIsUnchanged` from `SealInv`: an engine past
  `Load` holds the anchor of the rows it took, every anchor file was built from the rows
  recorded in `sealed`, and the checkpoints partition the ids. The second theorem rests on
  the first bullet: rows in id order are determined by their root.
- `UntouchedLedgerVerifies` from `OrderInv`: the rows a checkpoint was built from are still there
  and were linked one to the next, the first to a row below the range. A row that was committed into
  the range later would be the predecessor of one of them, which does not link to it; if the
  ledger is linked in order there is none, and the ranges hold what they were built from.
- `AlarmsHaveACause`, an action property, from `OrderInv` and `QuietInv`: the rows an audit
  loaded are among those now there, and of a checkpoint's rows it has all, or nothing but them from
  the range on; if what it loaded is linked in order, an anchor no newer than that matches. While no append has
  linked out of order they are.
- `DiffSplitsWhereBranchesFork` from five parts: hashes and ids name rows (`HashInv`); a
  branch that shares a row has everything below it (`PrefixInv`, unless `straddled`); what a
  diff has read stays all that the branches share (`ReadInv`); and its result is the split
  (`ResultInv`).

`HAProofs`, for any number of operators, either storage driver and any number of writes
and faults:

- `HATypeCorrect`;
- `RouteInv`, on which the others rest: while nothing has overlapped a failover or failback,
  whoever is in one is alone, and what a command's guard read in the pointer is still true at
  each of its steps;
- `GuardKeepsServingStorage` from `StorageInv`: what runs has a database, and each step of a
  move knows which databases it has made;
- `FailbackKeepsEveryWrite` from `KeepInv`: clients are connected only to the running
  container the pointer names, so once failback has stopped it the position it reads
  covers everything acknowledged;
- `FailbackRevivesNothing` from `GivenUpInv`: until a failover neither database holds anything
  given up, after it only the old primary's may, and failback replaces that one before
  `main` is routed to it;
- `FailoverAvoidsSplitBrain` from `SplitInv`, whatever else goes wrong.

`BranchesProofs`: `BranchesTypeCorrect`, `SessionsStayOnTheirBranch` and
`LoginsFindTheirRole` from `BranchInv`, one part per group of variables: what a dataset
descends from exists (`StorageInv`); addresses are those of running containers
(`DockerInv`); a running container has its dataset (`MountInv`); the address a handler has
looked up is its target's or nobody's until docker reuses one (`RouteInv`); what the gateway
remembers of a branch that was not replaced is true (`CacheInv`); an agent branch has its role
or the command that made it will see to it (`AgentInv`). `AgentCapHolds` from `CapInv`: the cap
alone is not inductive, as a creation that was allowed has no container yet; the invariant
counts the branches that have one and those a creation has been allowed to make
(`Pledged`), and only finitely many names are agents' (`AgentsAssumption`).

`ImportsProofs`, whatever plans the jobs follow: `ReaperSparesTheConnected` from `GatewayInv`,
`OnlyARaceSuspendsReplication` and `ReplicationKeepsItsSlot` from `ReplicationInv`,
`GuardIsOffForACause` from `GuardInv`, and `SuccessfulImportsAreComplete` from
`MeetingInv`, `OwnerInv`, `ContentInv` and `ReportsInv`: jobs that meet on a name are marked,
a dataset that a job made is at its name, and a job that met no other finds there exactly what
its steps so far have loaded. `ColumnsHoldTheirIntegers` holds whatever the columns are, and
`DocumentsKeepTheirValues` for any sequence of documents.

`RecoveryProofs`: `BranchHoldsExactlyBefore`, `UnfinishedForACause` and
`FailRemovesOwnBranch` from `BeforeInv`, `RestoreHoldsItsTime` from `RestoresInv`, and
`RecoveryTypeCorrect`. The database's part (`DatabaseInv`) says that commits are ordered
against backups and that an entry was recorded no later than it committed; the commands' part,
that the position where recovery stops is fixed once it was found, as what is written stays.

`AccessProofs`: `ConsoleLeavesAnAdmin` (a request that has read the list knows that its target
is not alone on it), `ScopedServerStaysOnItsBranch`, `CancelsStayWithTheirSession` (a
registered key is one connection's or has leaked), `OnePersonOneAccount` and
`SignInsFailForACause` (`PersonInv`: whoever is signed in is signed in as the account of the
identity row).

`ChangesProofs`: `ReportsItsOwnEntries` from `OwnInv` (while no call has given up, what runs is
the SQL of the call that waits; the rows of earlier calls are up to the marker, its own after
it), `PreviewAgreesWithTheGate` from `PreviewInv`, whatever tags are guessed and commands nested, and
`EveryDropIsFlagged` for `ALTER TABLE` with any number of actions, any number of them read.

Induction over data. The library's induction theorems take a predicate as parameter, which the
provers cannot instantiate, but a set of natural numbers that is not empty has a least member
by `WFMin` and `NatLessThanWellFounded`; `Least`, and proofs by least counterexample from it,
serve for the levels of the Merkle tree, rows in id order, the greatest id of a set and the
first commit at which recovery stops.

What the proofs changed in the models:

- `FalseAlarmHasACause` did not hold beyond two ledger rows: with two engines the anchor file of a
  later checkpoint may be written before an earlier one's, and an audit in between reports
  tampering. The property names that race now, and the run has three rows.
- `Branches`: a `destroy -R` that fails part of the way takes a set of datasets that is closed
  under clones; it was any set, which left a clone without what it was cloned from.
- Constants: a job is not the `"user"` that owns other branches (`Imports`, `Recovery`), and
  SQL is a sequence (`Changes`).
- `HA`: with several operators, `pg_basebackup` into a directory that is not empty, a second
  `docker run` of the standby and a start without a database fail, as they do in docker and
  Postgres. A standby that exits by itself just before failback stops it leaves an older
  checkpoint in `pg_controldata`; the model took the last position, and so hid that failback
  then loses writes (now among the exceptions of `AckedWritesKept`).
- `ById` is defined by rank, and the levels of the Merkle tree are an operator of their own,
  so that they can be reasoned about.

Only model-checked: liveness under fairness (`RefusedReturns`, `EntriesGetCheckpointed`), which
is out of the prover's reach, and the properties of the two runs that are violated.

## Plan

Statement cursor; policy overrides; secrets made by two processes at once.

## Not modelled

- Web UI, clients, deployment scripts, host and VM launchers, the daemon, TLS files,
  rendering and argument parsing of the CLI: I/O and presentation without state of their own.
- Update: downloads and replacing binaries.
- Timelines, listings and the other handlers that only read one database state.
- The parsing of the statement cursor of `ledger.sql` (189-470): SQL text, which a model would
  have to transliterate. `Changes` has its outcome: the statement is found, or the whole query
  is matched.
- Passwords, tokens and wire framing: cryptography and byte layout.
- Other column types of the MySQL import and mysqldump's escaping: one-to-one tables of
  names, and text.
