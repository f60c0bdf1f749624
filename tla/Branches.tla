------------------------------ MODULE Branches ------------------------------
(***************************************************************************)
(* The life of branches other than "main" (branch.go, storage.go,          *)
(* agent_access.go) and of the client connections the gateway routes to    *)
(* them (proxy.go).  A branch is a dataset and a container under one name. *)
(* Commands (CLI, APIs, the agent reaper), connection handlers and the     *)
(* gateway's idle reaper each make several storage, docker and psql calls  *)
(* and take no common lock, so all of these interleave.                    *)
(***************************************************************************)
EXTENDS Naturals, FiniteSets

CONSTANTS Branches,   \* branch names
          Agents,     \* those of the form agent-<id>
          Clients,    \* connections at the gateway
          Admins,     \* processes running branch commands
          IPs,        \* addresses of the docker network
          None,       \* no branch, no address
          AgentMax    \* OXYNDB_AGENT_MAX

ASSUME AgentMaxAssumption == AgentMax \in Nat
ASSUME NamesAssumption == /\ Agents \subseteq Branches
                          /\ None \notin Branches /\ None \notin IPs
                          /\ Branches \cap {"main", "user", "odbclient"} = {}

VARIABLES ds,        \* each branch's dataset: "none", or made for an "agent" or by another "create"
          from,      \* the branches it is a clone of, directly or not
          roles,     \* login roles in it, besides odbclient
          cont,      \* state of each branch's container
          ip,        \* address of a running container
          keys,      \* branches with a valid branch-scoped key
          cache,     \* ensuredRoles: branches where the user's role was provisioned
          conn,      \* connection handlers
          cmd,       \* commands in progress
          reused,    \* history: docker gave an address that a handler was about
                     \* to dial to another branch's container
          replaced   \* history: cached branches whose dataset was destroyed since

storage == <<ds, from, roles>>
docker == <<cont, ip>>
gateway == <<cache, replaced>>
vars == <<storage, docker, gateway, keys, conn, cmd, reused>>

Closed == [pc |-> "idle", target |-> None, who |-> "user", addr |-> None,
           server |-> None, login |-> "odbclient"]

Done == [pc |-> "idle", name |-> None, parent |-> "main", kind |-> "create"]

Init ==
  /\ ds = [n \in Branches |-> "none"]
  /\ from = [n \in Branches |-> {}]
  /\ roles = [n \in Branches |-> {}]
  /\ cont = [n \in Branches |-> "absent"]
  /\ ip = [n \in Branches |-> None]
  /\ keys = {}
  /\ cache = {}
  /\ conn = [c \in Clients |-> Closed]
  /\ cmd = [a \in Admins |-> Done]
  /\ reused = FALSE
  /\ replaced = {}

-----------------------------------------------------------------------------
(* Storage and docker *)

exists(p) == IF p = "main" THEN TRUE ELSE ds[p] # "none"

Running(n) == cont[n] \in {"running", "empty"}

\* Mutant of Family: destroy without -R.
FamilyAlone(n) == {m \in Branches : exists(m) /\ m = n}

\* zfs destroy -R takes the clones of a dataset with it.
Family(n) == {m \in Branches : exists(m) /\ (m = n \/ n \in from[m])}

\* The handlers after everyone connected to a container of S is cut off.
CutOff(S) == [c \in Clients |-> IF conn[c].server \in S THEN Closed ELSE conn[c]]

\* Addresses that handlers have looked up for another branch and not dialled.
LookedUp(n) == {conn[c].addr : c \in {x \in Clients : /\ conn[x].pc = "dial"
                                                        /\ conn[x].target # n}}

\* docker run or start: the branch's mount point is bound by path, so the
\* container gets the dataset mounted there now or, without one, a directory
\* that docker makes and in which Postgres initializes an empty cluster.
StartContainer(n) ==
  /\ cont' = [cont EXCEPT ![n] = IF exists(n) THEN "running" ELSE "empty"]
  /\ \E x \in IPs \ {ip[m] : m \in Branches \ {n}} :
        /\ ip' = [ip EXCEPT ![n] = x]
        /\ reused' = (reused \/ x \in LookedUp(n))

StopContainers(S, state) ==
  /\ cont' = [n \in Branches |-> IF n \in S THEN state ELSE cont[n]]
  /\ ip' = [n \in Branches |-> IF n \in S THEN None ELSE ip[n]]

\* psql in the branch's container, on a clone of main.
Psql(n) == cont[n] = "running"
-----------------------------------------------------------------------------
(* Commands: Create, CreateAgentBranch, Delete, DeleteAgentBranch, Reset *)

Begin(a, k, n, p, step) ==
  /\ cmd[a].pc = "idle"
  /\ cmd' = [cmd EXCEPT ![a] = [pc |-> step, name |-> n, parent |-> p, kind |-> k]]

Goto(a, step) == cmd' = [cmd EXCEPT ![a] = IF step = "idle" THEN Done
                                           ELSE [@ EXCEPT !.pc = step]]

Create(a, n, p) ==
  /\ exists(p) /\ ~ exists(n)
  /\ Begin(a, "create", n, p, "clone")
  /\ UNCHANGED <<storage, docker, gateway, keys, conn, reused>>

\* The agent containers docker knows, running or not.
ListAgentBranches == {n \in Agents : cont[n] # "absent"}

\* Mutant of CreateAgentBranch: one branch more than the cap.
CreateAgentBranchOneMore(a, n) ==
  /\ n \in Agents
  /\ AgentMax = 0 \/ Cardinality(ListAgentBranches) <= AgentMax
  /\ ~ exists(n)
  /\ Begin(a, "agent", n, "main", "clone")
  /\ UNCHANGED <<storage, docker, gateway, keys, conn, reused>>

\* The cap is checked once, before anything is made.
CreateAgentBranch(a, n) ==
  /\ n \in Agents
  /\ AgentMax = 0 \/ Cardinality(ListAgentBranches) < AgentMax
  /\ ~ exists(n)
  /\ Begin(a, "agent", n, "main", "clone")
  /\ UNCHANGED <<storage, docker, gateway, keys, conn, reused>>

\* When the containers can't be listed there is no cap.
CreateAgentBranchUnlisted(a, n) ==
  /\ n \in Agents
  /\ ~ exists(n)
  /\ Begin(a, "agent", n, "main", "clone")
  /\ UNCHANGED <<storage, docker, gateway, keys, conn, reused>>

\* Snapshot and clone; fails if the parent has gone or the branch has appeared.
Clone(a) ==
  LET n == cmd[a].name
      p == cmd[a].parent
  IN
  /\ cmd[a].pc = "clone"
  /\ IF exists(p) /\ ~ exists(n)
     THEN /\ ds' = [ds EXCEPT ![n] = IF cmd[a].kind = "agent" THEN "agent" ELSE "create"]
          /\ from' = [from EXCEPT ![n] = IF p = "main" THEN {} ELSE {p} \union from[p]]
          /\ roles' = [roles EXCEPT ![n] = IF p = "main" THEN {} ELSE roles[p]]
          /\ Goto(a, "start")
     ELSE /\ Goto(a, "idle")
          /\ UNCHANGED storage
  /\ UNCHANGED <<docker, gateway, keys, conn, reused>>

\* chown, startContainer and waitReady.
Start(a) ==
  LET n == cmd[a].name IN
  /\ cmd[a].pc = "start"
  /\ StartContainer(n)
  /\ conn' = CutOff({n})
  /\ Goto(a, IF cmd[a].kind = "agent" THEN "role" ELSE "idle")
  /\ UNCHANGED <<storage, gateway, keys>>

\* The dataset of a creation that ends early: a branch like any other.
Unfinished(n) == ds' = [ds EXCEPT ![n] = IF @ = "agent" THEN "create" ELSE @]

\* Mutant of AgentRole: the key is minted without ensureLoginRole.
AgentRoleForgotten(a) ==
  /\ cmd[a].pc = "role"
  /\ Goto(a, "key")
  /\ UNCHANGED <<storage, docker, gateway, keys, conn, reused>>

\* containerIP and ensureLoginRole, which needs the role odbclient of a clone.
\* When either fails the branch stays, without the agent's role.
AgentRole(a) ==
  LET n == cmd[a].name IN
  /\ cmd[a].pc = "role"
  /\ IF Psql(n)
     THEN /\ roles' = [roles EXCEPT ![n] = @ \union {n}]
          /\ Goto(a, "key")
          /\ UNCHANGED ds
     ELSE /\ Goto(a, "idle")
          /\ Unfinished(n)
          /\ UNCHANGED roles
  /\ UNCHANGED <<from, docker, gateway, keys, conn, reused>>

\* CreateAgentBranchWithProvenance: if the session can't be recorded then
\* DeleteAgentBranch, which may fail to revoke the key that nobody has got yet.
CreateAgentBranchWithProvenance(a) ==
  /\ keys' \in {keys, keys \union {cmd[a].name}}
  /\ Goto(a, "remove")

\* mintAgentKey; if it fails the branch is deleted again.  A request with
\* provenance goes on to record its session.
MintKey(a) ==
  /\ cmd[a].pc = "key"
  /\ \/ keys' = keys \union {cmd[a].name} /\ Goto(a, "idle")
     \/ UNCHANGED keys /\ Goto(a, "remove")
     \/ CreateAgentBranchWithProvenance(a)
  /\ UNCHANGED <<storage, docker, gateway, conn, reused>>

Delete(a, n) ==
  /\ Begin(a, "delete", n, "main", "remove")
  /\ UNCHANGED <<storage, docker, gateway, keys, conn, reused>>

\* The key store may fail, which is only logged.
revokeAgentKeys(n) == keys' \in {keys, keys \ {n}}

DeleteAgentBranch(a, n) ==
  /\ n \in Agents
  /\ Begin(a, "delete", n, "main", "remove")
  /\ revokeAgentKeys(n)
  /\ UNCHANGED <<storage, docker, gateway, conn, reused>>

\* The agent reaper deletes the agent branches whose containers, running or
\* not, are old.
ReapAgentBranches(a, n) == cont[n] # "absent" /\ DeleteAgentBranch(a, n)

Reset(a, n, p) ==
  /\ Begin(a, "reset", n, p, "remove")
  /\ UNCHANGED <<storage, docker, gateway, keys, conn, reused>>

Remove(a) ==
  LET n == cmd[a].name IN
  /\ cmd[a].pc = "remove"
  /\ StopContainers({n}, "absent")
  /\ conn' = CutOff({n})
  /\ Goto(a, "destroy")
  /\ UNCHANGED <<storage, gateway, keys, reused>>

\* A dataset that a running container has mounted is in use; zfs destroy -R
\* works through the clones first and stops at the first that is.
Destroy(a) ==
  LET n == cmd[a].name
      busy == {m \in Family(n) : cont[m] = "running"}
      lose(S) == /\ ds' = [m \in Branches |-> IF m \in S THEN "none" ELSE ds[m]]
                 /\ from' = [m \in Branches |-> IF m \in S THEN {} ELSE from[m]]
                 /\ roles' = [m \in Branches |-> IF m \in S THEN {} ELSE roles[m]]
                 /\ replaced' = replaced \union (S \cap cache)
  IN
  /\ cmd[a].pc = "destroy"
  /\ IF exists(n) /\ busy = {}
     THEN /\ lose(Family(n))
          /\ Goto(a, IF cmd[a].kind = "reset" THEN "clone" ELSE "idle")
     ELSE /\ \E S \in SUBSET (Family(n) \ (busy \union {n})) :
               (\A k \in Family(n) : from[k] \intersect S # {} => k \in S) /\ lose(S)
          /\ Goto(a, "idle")
  /\ UNCHANGED <<docker, cache, keys, conn, reused>>

\* The command's process dies between two of its calls, or gives up because one
\* failed (the quota, chown, docker run or waitReady).
Die(a) ==
  /\ cmd[a].pc # "idle"
  /\ Goto(a, "idle")
  /\ IF cmd[a].kind = "agent" /\ cmd[a].pc \in {"start", "role"}
     THEN Unfinished(cmd[a].name) ELSE UNCHANGED ds
  /\ UNCHANGED <<from, roles, docker, gateway, keys, conn, reused>>

\* `odb stop` removes every container.
Down ==
  /\ StopContainers(Branches, "absent")
  /\ conn' = CutOff(Branches)
  /\ UNCHANGED <<storage, gateway, keys, cmd, reused>>

\* docker stop, by `odb suspend` or by the gateway's idle reaper.  The reaper
\* looks at the branch's last activity and its connections first, but stops the
\* branch without a second look: by then anything may have connected.
Suspend(n) ==
  /\ Running(n)
  /\ StopContainers({n}, "exited")
  /\ conn' = CutOff({n})
  /\ UNCHANGED <<storage, gateway, keys, cmd, reused>>
-----------------------------------------------------------------------------
(* The gateway: one handler per connection *)

Set(c, r) == conn' = [conn EXCEPT ![c] = r]

Hangup(c) == Set(c, Closed)

\* handle up to touch(target): an agent's key opens its own branch only.
Arrive(c, n, w) ==
  /\ conn[c].pc = "idle"
  /\ w = "agent" => n \in keys
  /\ Set(c, [Closed EXCEPT !.pc = "ensure", !.target = n, !.who = w])
  /\ UNCHANGED <<storage, docker, gateway, keys, cmd, reused>>

\* EnsureRunning looks at the container and, without one, for the dataset.
Ensure(c) ==
  LET n == conn[c].target IN
  /\ conn[c].pc = "ensure"
  /\ IF cont[n] = "absent" /\ ~ exists(n)
     THEN Hangup(c)
     ELSE Set(c, [conn[c] EXCEPT !.pc = CASE Running(n)         -> "addr"
                                          [] cont[n] = "exited"  -> "resume"
                                          [] cont[n] = "absent"  -> "start"])
  /\ UNCHANGED <<storage, docker, gateway, keys, cmd, reused>>

\* docker start, which leaves a running container alone and fails without one.
Resume(c) ==
  LET n == conn[c].target IN
  /\ conn[c].pc = "resume"
  /\ IF cont[n] = "absent" THEN Hangup(c) ELSE Set(c, [conn[c] EXCEPT !.pc = "addr"])
  /\ IF cont[n] = "exited" THEN StartContainer(n) ELSE UNCHANGED <<docker, reused>>
  /\ UNCHANGED <<storage, gateway, keys, cmd>>

\* startContainer removes whatever container has the name by now.
Recreate(c) ==
  LET n == conn[c].target IN
  /\ conn[c].pc = "start"
  /\ StartContainer(n)
  /\ conn' = [CutOff({n}) EXCEPT ![c] = [conn[c] EXCEPT !.pc = "addr"]]
  /\ UNCHANGED <<storage, gateway, keys, cmd>>

\* waitReady and BackendAddr, which fails if the container has no address.
BackendAddr(c) ==
  LET n == conn[c].target IN
  /\ conn[c].pc = "addr"
  /\ IF ip[n] = None THEN Hangup(c)
     ELSE Set(c, [conn[c] EXCEPT !.pc = "dial", !.addr = ip[n]])
  /\ UNCHANGED <<storage, docker, gateway, keys, cmd, reused>>

Dial(c) ==
  LET up == {n \in Branches : ip[n] = conn[c].addr} IN
  /\ conn[c].pc = "dial"
  /\ IF up = {} THEN Hangup(c)
     ELSE \E n \in up : Set(c, [conn[c] EXCEPT !.pc = "role", !.addr = None, !.server = n])
  /\ UNCHANGED <<storage, docker, gateway, keys, cmd, reused>>

\* The user's role, provisioned once per branch name and gateway process.
EnsureUserRole(n) ==
  IF n \notin cache /\ Psql(n)
  THEN /\ roles' = [roles EXCEPT ![n] = @ \union {"user"}]
       /\ cache' = cache \union {n}
  ELSE UNCHANGED <<roles, cache>>

\* The agent's own role; or the user's; or, if it can't be made, the shared role.
LoginRole(c) ==
  LET n == conn[c].target
      as(u) == Set(c, [conn[c] EXCEPT !.pc = "auth", !.login = u])
  IN
  /\ conn[c].pc = "role"
  /\ \/ /\ conn[c].who = "agent"
        /\ as(n)
        /\ UNCHANGED <<roles, cache>>
     \/ /\ conn[c].who = "user"
        /\ EnsureUserRole(n)
        /\ as(IF n \in cache' THEN "user" ELSE "odbclient")
  /\ UNCHANGED <<ds, from, docker, replaced, keys, cmd, reused>>

\* The cluster of server n knows role u.  An empty cluster has no client role,
\* unless someone runs `odb ledger upgrade` on it, which is not modelled.
KnowsRole(n, u) == cont[n] = "running" /\ u \in roles[n] \union {"odbclient"}

\* Mutant of Auth: the gateway logs in as the superuser, which every cluster has.
AuthAsSuperuser(c) ==
  /\ conn[c].pc = "auth"
  /\ Set(c, [conn[c] EXCEPT !.pc = "session"])
  /\ UNCHANGED <<storage, docker, gateway, keys, cmd, reused>>

Auth(c) ==
  /\ conn[c].pc = "auth"
  /\ KnowsRole(conn[c].server, conn[c].login)
  /\ Set(c, [conn[c] EXCEPT !.pc = "session"])
  /\ UNCHANGED <<storage, docker, gateway, keys, cmd, reused>>

AuthFail(c) ==
  /\ conn[c].pc = "auth"
  /\ ~ KnowsRole(conn[c].server, conn[c].login)
  /\ Hangup(c)
  /\ UNCHANGED <<storage, docker, gateway, keys, cmd, reused>>

Close(c) ==
  /\ conn[c].pc = "session"
  /\ Hangup(c)
  /\ UNCHANGED <<storage, docker, gateway, keys, cmd, reused>>

GatewayRestart ==
  /\ cache' = {}
  /\ replaced' = {}
  /\ conn' = [c \in Clients |-> Closed]
  /\ UNCHANGED <<storage, docker, keys, cmd, reused>>
-----------------------------------------------------------------------------
Command(a) ==
  \/ Clone(a) \/ Start(a) \/ AgentRole(a) \/ MintKey(a)
  \/ Remove(a) \/ Destroy(a) \/ Die(a)
  \/ \E n \in Branches :
       \/ CreateAgentBranch(a, n) \/ CreateAgentBranchUnlisted(a, n)
       \/ Delete(a, n) \/ DeleteAgentBranch(a, n) \/ ReapAgentBranches(a, n)
       \/ \E p \in Branches \union {"main"} : Create(a, n, p) \/ Reset(a, n, p)

Handler(c) ==
  \/ \E n \in Branches, w \in {"user", "agent"} : Arrive(c, n, w)
  \/ Ensure(c) \/ Resume(c) \/ Recreate(c) \/ BackendAddr(c) \/ Dial(c)
  \/ LoginRole(c) \/ Auth(c) \/ AuthFail(c) \/ Close(c)

Next ==
  \/ \E a \in Admins : Command(a)
  \/ \E c \in Clients : Handler(c)
  \/ \E n \in Branches : Suspend(n)
  \/ Down \/ GatewayRestart

Spec == Init /\ [][Next]_vars
-----------------------------------------------------------------------------
\* Type correctness, with the shape of docker and of the storage: the running
\* containers have an address each, and a clone goes when the branch it was made
\* from goes (destroy -R), so that no branch descends from itself.
TypeOK ==
  /\ ds \in [Branches -> {"none", "create", "agent"}]
  /\ from \in [Branches -> SUBSET Branches]
  /\ \A n \in Branches : n \notin from[n]
  /\ roles \in [Branches -> SUBSET (Branches \union {"user"})]
  /\ cont \in [Branches -> {"absent", "exited", "running", "empty"}]
  /\ ip \in [Branches -> IPs \union {None}]
  /\ \A n \in Branches : ip[n] # None <=> Running(n)
  /\ \A m, n \in Branches : ip[m] = ip[n] /\ Running(n) => m = n
  /\ keys \subseteq Agents
  /\ cache \subseteq Branches /\ replaced \subseteq cache
  /\ conn \in [Clients ->
       [pc : {"idle", "ensure", "resume", "start", "addr", "dial", "role", "auth", "session"},
        target : Branches \union {None}, who : {"user", "agent"}, addr : IPs \union {None},
        server : Branches \union {None}, login : Branches \union {"user", "odbclient"}]]
  /\ cmd \in [Admins ->
       [pc : {"idle", "clone", "start", "role", "key", "remove", "destroy"},
        name : Branches \union {None}, parent : Branches \union {"main"},
        kind : {"create", "agent", "delete", "reset"}]]
  /\ reused \in BOOLEAN

\* A client that the gateway has let in talks to the branch it asked for, on the
\* branch's present data, and keeps doing so until it is cut off: not to another
\* branch, not to data that a reset or delete has thrown away, and not to the
\* empty cluster that docker and Postgres make when a wake (EnsureRunning) races
\* a delete.  Only an address that docker hands on between BackendAddr and Dial
\* can spoil this.
SessionsOnTheirBranch ==
  ~ reused =>
    \A c \in Clients : conn[c].pc = "session" =>
      LET n == conn[c].target IN
      /\ conn[c].server = n
      /\ cont[n] = "running"
      /\ exists(n)

Creating(n) == \E a \in Admins : cmd[a].name = n /\ cmd[a].kind = "agent"

\* The gateway logs a client in as a role the branch has.  What remains: the
\* branch is being created, its creation died or failed, it runs without its
\* dataset, or it has been replaced since the role was made, by a reset or by a
\* plain create under an agent branch's name, whose key only DeleteAgentBranch
\* revokes, or since the gateway cached that the user's role is there
\* (ensuredRoles is never cleared).
LoginsFailOnlyOnReplacedBranches ==
  \A c \in Clients :
    LET n == conn[c].target IN
    /\ conn[c].pc = "auth"
    /\ ~ reused
    /\ cont[n] = "running"
    /\ ~ Creating(n)
    => \/ KnowsRole(n, conn[c].login)
       \/ conn[c].who = "user" /\ n \in replaced
       \/ conn[c].who = "agent" /\ ds[n] # "agent"
=============================================================================
