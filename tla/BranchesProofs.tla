--------------------------- MODULE BranchesProofs ---------------------------
(***************************************************************************)
(* Proofs about Branches, for any number of branches, clients, commands    *)
(* and addresses.  The invariant comes in parts, one for each group of     *)
(* variables, and each part is shown to be kept by every step.             *)
(***************************************************************************)
EXTENDS AgentCap, FiniteSetTheorems, TLAPS

\* Datasets: what a branch descends from exists, with all that descends from.
StorageInv ==
  /\ ds \in [Branches -> {"none", "create", "agent"}]
  /\ from \in [Branches -> SUBSET Branches]
  /\ roles \in [Branches -> SUBSET (Branches \union {"user"})]
  /\ \A n \in Branches : n \notin from[n]
  /\ \A k \in Branches : from[k] # {} => ds[k] # "none"
  /\ \A k \in Branches : \A j \in from[k] : ds[j] # "none" /\ from[j] \subseteq from[k]

DockerInv ==
  /\ cont \in [Branches -> {"absent", "exited", "running", "empty"}]
  /\ ip \in [Branches -> IPs \union {None}]
  /\ \A n \in Branches : ip[n] # None <=> Running(n)
  /\ \A m, n \in Branches : ip[m] = ip[n] /\ Running(n) => m = n
  /\ reused \in BOOLEAN

CmdStates == [pc : {"idle", "clone", "start", "role", "key", "remove", "destroy"},
              name : Branches \union {None}, parent : Branches \union {"main"},
              kind : {"create", "agent", "delete", "reset"}]

CmdInv ==
  /\ keys \subseteq Agents
  /\ cmd \in [Admins -> CmdStates]
  /\ \A a \in Admins :
       /\ cmd[a].pc # "idle" => cmd[a].name \in Branches
       /\ cmd[a].pc = "clone" => cmd[a].kind # "delete"
       /\ cmd[a].pc \in {"role", "key"} => cmd[a].kind = "agent"
       /\ cmd[a].kind = "agent" => cmd[a].name \in Agents

\* A container on a dataset has one: it can't be destroyed under it.
MountInv == \A n \in Branches : cont[n] = "running" => ds[n] # "none"

ConnStates == [pc : {"idle", "ensure", "resume", "start", "addr", "dial", "role", "auth", "session"},
               target : Branches \union {None}, who : {"user", "agent"}, addr : IPs \union {None},
               server : Branches \union {None}, login : Branches \union {"user", "odbclient"}]

\* A handler has a server from Dial on, and that server's container runs.
ConnOK(r) ==
  /\ r.pc # "idle" => r.target \in Branches
  /\ r.pc = "dial" => r.addr \in IPs
  /\ r.server # None <=> r.pc \in {"role", "auth", "session"}
  /\ r.server # None => Running(r.server)
  /\ r.pc = "session" => cont[r.server] = "running"

ConnInv ==
  /\ conn \in [Clients -> ConnStates]
  /\ \A c \in Clients : ConnOK(conn[c])

\* Until docker reuses an address, the one a handler has looked up is its target's
\* or nobody's.
RouteOK(r) ==
  /\ r.server # None => r.server = r.target
  /\ r.pc = "dial" => \A n \in Branches : ip[n] = r.addr => n = r.target

RouteInv == ~ reused => \A c \in Clients : RouteOK(conn[c])

\* What the gateway remembers of a branch that was not replaced is still true.
CacheInv ==
  /\ cache \subseteq Branches /\ replaced \subseteq cache
  /\ \A n \in cache \ replaced : "user" \in roles[n] /\ ds[n] # "none"

\* An agent branch has its agent's role, or the command that made it will see to it.
AgentInv ==
  \A n \in Branches : ds[n] = "agent" =>
    \/ n \in roles[n]
    \/ \E a \in Admins : cmd[a].name = n /\ cmd[a].kind = "agent" /\ cmd[a].pc \in {"start", "role"}

\* The role a handler logs in as.
LoginOK(r, known) ==
  r.pc = "auth" =>
    \/ r.who = "agent" /\ r.login = r.target
    \/ r.who = "user" /\ r.login = "odbclient"
    \/ r.who = "user" /\ r.login = "user" /\ r.target \in known

LoginInv == \A c \in Clients : LoginOK(conn[c], cache)

BranchInv ==
  /\ StorageInv /\ DockerInv /\ CmdInv /\ MountInv /\ ConnInv
  /\ RouteInv /\ CacheInv /\ AgentInv /\ LoginInv
-----------------------------------------------------------------------------
\* What the steps of a command leave alone.
LEMMA CommandSteps ==
  ASSUME NEW a \in Admins, Command(a)
  PROVE  \/ Clone(a) \/ Start(a) \/ AgentRole(a) \/ Remove(a) \/ Destroy(a) \/ Die(a) \/ MintKey(a)
         \/ /\ cmd[a].pc = "idle"
            /\ \E n \in Branches, p \in Branches \union {"main"}, k \in {"create", "agent", "delete", "reset"},
                  s \in {"clone", "remove"} :
                 /\ Begin(a, k, n, p, s) /\ (k = "agent" => n \in Agents) /\ (s = "clone" => k # "delete")
            /\ keys' \subseteq keys /\ UNCHANGED <<storage, docker, gateway, conn, reused>>
<1>1. ASSUME NEW n \in Branches, CreateAgentBranch(a, n) \/ CreateAgentBranchUnlisted(a, n)
      PROVE  Begin(a, "agent", n, "main", "clone") /\ n \in Agents /\ UNCHANGED <<storage, docker, gateway, keys, conn, reused>>
  BY <1>1 DEF CreateAgentBranch, CreateAgentBranchUnlisted
<1>2. ASSUME NEW n \in Branches, Delete(a, n)
      PROVE  Begin(a, "delete", n, "main", "remove") /\ UNCHANGED <<storage, docker, gateway, keys, conn, reused>>
  BY <1>2 DEF Delete
<1>3. ASSUME NEW n \in Branches, DeleteAgentBranch(a, n) \/ ReapAgentBranches(a, n)
      PROVE  /\ Begin(a, "delete", n, "main", "remove") /\ keys' \subseteq keys
             /\ UNCHANGED <<storage, docker, gateway, conn, reused>>
  BY <1>3 DEF DeleteAgentBranch, ReapAgentBranches, revokeAgentKeys
<1>4. ASSUME NEW n \in Branches, NEW p \in Branches \union {"main"}, Create(a, n, p)
      PROVE  Begin(a, "create", n, p, "clone") /\ UNCHANGED <<storage, docker, gateway, keys, conn, reused>>
  BY <1>4 DEF Create
<1>5. ASSUME NEW n \in Branches, NEW p \in Branches \union {"main"}, Reset(a, n, p)
      PROVE  Begin(a, "reset", n, p, "remove") /\ UNCHANGED <<storage, docker, gateway, keys, conn, reused>>
  BY <1>5 DEF Reset
<1>6. \A k, n, p, s : Begin(a, k, n, p, s) => cmd[a].pc = "idle"
  BY DEF Begin
<1> QED BY <1>1, <1>2, <1>3, <1>4, <1>5, <1>6 DEF Command

\* What the steps of a handler leave alone.
LEMMA HandlerSteps ==
  ASSUME NEW c \in Clients, Handler(c)
  PROVE  /\ \/ Resume(c) \/ Recreate(c) \/ LoginRole(c)
            \/ UNCHANGED <<storage, docker, gateway, reused>>
         /\ UNCHANGED <<keys, cmd, ds, from, replaced>>
BY DEF Handler, Arrive, Ensure, Resume, Recreate, BackendAddr, Dial, LoginRole, Auth, AuthFail, Close, storage, gateway

\* Storage and the commands of a container's start.
LEMMA StartFacts ==
  ASSUME StorageInv, DockerInv, NEW n \in Branches, StartContainer(n)
  PROVE  /\ DockerInv' /\ reused' \in BOOLEAN
         /\ \A m \in Branches \ {n} : cont'[m] = cont[m] /\ ip'[m] = ip[m]
         /\ cont'[n] = IF ds[n] # "none" THEN "running" ELSE "empty"
         /\ ip'[n] \in IPs
         /\ ~ reused' => ~ reused /\ ip'[n] \notin LookedUp(n)
<1>1. PICK x \in IPs \ {ip[m] : m \in Branches \ {n}} :
        ip' = [ip EXCEPT ![n] = x] /\ reused' = (reused \/ x \in LookedUp(n))
  BY DEF StartContainer
<1>2. cont' = [cont EXCEPT ![n] = IF ds[n] # "none" THEN "running" ELSE "empty"]
  BY NamesAssumption DEF exists, StartContainer
<1>3. /\ \A m \in Branches \ {n} : cont'[m] = cont[m] /\ ip'[m] = ip[m]
      /\ cont'[n] = IF ds[n] # "none" THEN "running" ELSE "empty"
      /\ ip'[n] = x /\ x # None /\ \A m \in Branches \ {n} : ip[m] # x
  BY <1>1, <1>2, NamesAssumption DEF DockerInv
<1>4. /\ cont' \in [Branches -> {"absent", "exited", "running", "empty"}]
      /\ ip' \in [Branches -> IPs \union {None}]
  BY <1>1, <1>2 DEF DockerInv
<1>5. reused' \in BOOLEAN
  BY <1>1 DEF DockerInv
<1>6. DockerInv'
  BY <1>3, <1>4, <1>5 DEF DockerInv, Running
<1>7. ~ reused' => ~ reused /\ ip'[n] \notin LookedUp(n)
  BY <1>1, <1>3
<1> QED BY <1>1, <1>3, <1>5, <1>6, <1>7

\* Docker once some containers are stopped or removed.
LEMMA StopFacts ==
  ASSUME DockerInv, NEW S \in SUBSET Branches, NEW s \in {"absent", "exited"}, StopContainers(S, s), UNCHANGED reused
  PROVE  /\ DockerInv'
         /\ \A m \in Branches : IF m \in S THEN cont'[m] = s /\ ip'[m] = None
                                ELSE cont'[m] = cont[m] /\ ip'[m] = ip[m]
<1>1. /\ cont' \in [Branches -> {"absent", "exited", "running", "empty"}]
      /\ ip' \in [Branches -> IPs \union {None}]
  BY DEF StopContainers, DockerInv
<1>2. \A m \in Branches : IF m \in S THEN cont'[m] = s /\ ip'[m] = None
                          ELSE cont'[m] = cont[m] /\ ip'[m] = ip[m]
  BY DEF StopContainers
<1>3. DockerInv'
  BY <1>1, <1>2 DEF DockerInv, Running
<1> QED BY <1>2, <1>3

\* A command's next step, or its end.
LEMMA GotoFacts ==
  ASSUME CmdInv, NEW a \in Admins, NEW step \in {"idle", "clone", "start", "role", "key", "remove", "destroy"},
         Goto(a, step)
  PROVE  /\ cmd' \in [Admins -> CmdStates]
         /\ \A b \in Admins \ {a} : cmd'[b] = cmd[b]
         /\ step = "idle" => cmd'[a] = Done
         /\ step # "idle" => /\ cmd'[a].pc = step /\ cmd'[a].name = cmd[a].name
                             /\ cmd'[a].parent = cmd[a].parent /\ cmd'[a].kind = cmd[a].kind
<1>1. CASE step = "idle"
  <2>1. cmd' = [cmd EXCEPT ![a] = Done]
    BY <1>1 DEF Goto
  <2>2. Done \in CmdStates
    BY DEF Done, CmdStates
  <2> QED BY <1>1, <2>1, <2>2 DEF CmdInv
<1>2. CASE step # "idle"
  <2> DEFINE r == [cmd[a] EXCEPT !.pc = step]
  <2>1. cmd' = [cmd EXCEPT ![a] = r]
    BY <1>2 DEF Goto
  <2>2. r \in CmdStates /\ r.pc = step /\ r.name = cmd[a].name /\ r.parent = cmd[a].parent /\ r.kind = cmd[a].kind
    BY DEF CmdInv, CmdStates
  <2> HIDE DEF r
  <2> QED BY <1>2, <2>1, <2>2 DEF CmdInv
<1> QED BY <1>1, <1>2

\* The datasets a destroy takes: with each dataset, its clones.
LEMMA LoseFacts ==
  ASSUME StorageInv, NEW S \in SUBSET Branches,
         \A k \in Branches : from[k] \intersect S # {} => k \in S,
         ds' = [m \in Branches |-> IF m \in S THEN "none" ELSE ds[m]],
         from' = [m \in Branches |-> IF m \in S THEN {} ELSE from[m]],
         roles' = [m \in Branches |-> IF m \in S THEN {} ELSE roles[m]]
  PROVE  StorageInv'
<1>1. /\ ds' \in [Branches -> {"none", "create", "agent"}]
      /\ from' \in [Branches -> SUBSET Branches]
      /\ roles' \in [Branches -> SUBSET (Branches \union {"user"})]
  BY DEF StorageInv
<1>2. \A m \in Branches : /\ m \in S => ds'[m] = "none" /\ from'[m] = {}
                          /\ m \notin S => ds'[m] = ds[m] /\ from'[m] = from[m]
  OBVIOUS
<1>3. ASSUME NEW k \in Branches, NEW j \in from'[k] PROVE ds'[j] # "none" /\ from'[j] \subseteq from'[k]
  <2>1. k \notin S /\ j \in from[k] /\ j \in Branches /\ j \notin S
    BY <1>2, <1>3 DEF StorageInv
  <2> QED BY <1>2, <2>1 DEF StorageInv
<1>4. \A n \in Branches : n \notin from'[n] /\ (from'[n] # {} => ds'[n] # "none")
  BY <1>2 DEF StorageInv
<1> QED BY <1>1, <1>3, <1>4 DEF StorageInv

\* Which datasets Destroy takes: none of them has a container on it, and with each
\* of them its clones go.
LEMMA DestroyFacts ==
  ASSUME BranchInv, NEW a \in Admins, Destroy(a)
  PROVE  \E S \in SUBSET Branches :
           /\ \A m \in S : cont[m] # "running"
           /\ \A k \in Branches : from[k] \intersect S # {} => k \in S
           /\ ds' = [m \in Branches |-> IF m \in S THEN "none" ELSE ds[m]]
           /\ from' = [m \in Branches |-> IF m \in S THEN {} ELSE from[m]]
           /\ roles' = [m \in Branches |-> IF m \in S THEN {} ELSE roles[m]]
           /\ replaced' = replaced \union (S \cap cache)
           /\ UNCHANGED <<docker, cache, keys, conn, reused>>
<1> DEFINE n == cmd[a].name
           busy == {m \in Family(n) : cont[m] = "running"}
<1>1. /\ n \in Branches /\ UNCHANGED <<docker, cache, keys, conn, reused>>
      /\ Family(n) = {m \in Branches : ds[m] # "none" /\ (m = n \/ n \in from[m])}
  BY NamesAssumption DEF Destroy, BranchInv, CmdInv, Family, exists
<1>2. CASE exists(n) /\ busy = {}
  <2>1. /\ ds' = [m \in Branches |-> IF m \in Family(n) THEN "none" ELSE ds[m]]
        /\ from' = [m \in Branches |-> IF m \in Family(n) THEN {} ELSE from[m]]
        /\ roles' = [m \in Branches |-> IF m \in Family(n) THEN {} ELSE roles[m]]
        /\ replaced' = replaced \union (Family(n) \cap cache)
    BY <1>2 DEF Destroy
  <2>2. ASSUME NEW k \in Branches, NEW j \in from[k], j \in Family(n) PROVE k \in Family(n)
    BY <1>1, <2>2 DEF BranchInv, StorageInv
  <2> QED BY <1>1, <1>2, <2>1, <2>2
<1>3. CASE ~ (exists(n) /\ busy = {})
  <2>1. PICK S \in SUBSET (Family(n) \ (busy \union {n})) :
          /\ \A k \in Family(n) : from[k] \intersect S # {} => k \in S
          /\ ds' = [m \in Branches |-> IF m \in S THEN "none" ELSE ds[m]]
          /\ from' = [m \in Branches |-> IF m \in S THEN {} ELSE from[m]]
          /\ roles' = [m \in Branches |-> IF m \in S THEN {} ELSE roles[m]]
          /\ replaced' = replaced \union (S \cap cache)
    BY <1>3 DEF Destroy
  <2>2. ASSUME NEW k \in Branches, NEW j \in from[k], j \in S PROVE k \in S
    <3>1. j \in Family(n)
      BY <2>2
    <3>2. k \in Family(n)
      BY <1>1, <2>2, <3>1 DEF BranchInv, StorageInv
    <3> QED BY <2>1, <2>2, <3>2
  <2> QED BY <1>1, <2>1, <2>2
<1> QED BY <1>2, <1>3
-----------------------------------------------------------------------------
(* Each part is kept by every step. *)

\* Every step keeps the datasets in order.
LEMMA StorageKept == BranchInv /\ [Next]_vars => StorageInv'
<1> SUFFICES ASSUME BranchInv, [Next]_vars PROVE StorageInv'
  OBVIOUS
<1>0. CASE UNCHANGED storage
  BY <1>0 DEF storage, BranchInv, StorageInv
<1>1. ASSUME NEW a \in Admins, Clone(a) PROVE StorageInv'
  <2> DEFINE n == cmd[a].name
             p == cmd[a].parent
             new == IF p = "main" THEN {} ELSE {p} \union from[p]
             rs == IF p = "main" THEN {} ELSE roles[p]
  <2>0. n \in Branches /\ p \in Branches \union {"main"} /\ cmd[a].kind \in {"create", "agent", "reset"}
    BY <1>1 DEF Clone, BranchInv, CmdInv, CmdStates
  <2>1. CASE ~ (exists(p) /\ ~ exists(n))
    BY <1>0, <1>1, <2>1 DEF Clone
  <2>2. CASE exists(p) /\ ~ exists(n)
    <3>1. /\ ds' = [ds EXCEPT ![n] = IF cmd[a].kind = "agent" THEN "agent" ELSE "create"]
          /\ from' = [from EXCEPT ![n] = new]
          /\ roles' = [roles EXCEPT ![n] = rs]
      BY <1>1, <2>2 DEF Clone
    <3>2. ds[n] = "none" /\ (p # "main" => p \in Branches /\ ds[p] # "none" /\ p # n)
      BY <2>0, <2>2, NamesAssumption DEF exists
    <3>3. /\ new \in SUBSET Branches /\ n \notin new /\ rs \in SUBSET (Branches \union {"user"})
          /\ \A j \in new : ds[j] # "none" /\ from[j] \subseteq new
      BY <2>0, <3>2 DEF BranchInv, StorageInv
    <3> HIDE DEF new, rs
    <3>4. /\ ds' \in [Branches -> {"none", "create", "agent"}]
          /\ from' \in [Branches -> SUBSET Branches]
          /\ roles' \in [Branches -> SUBSET (Branches \union {"user"})]
      BY <2>0, <3>1, <3>3 DEF BranchInv, StorageInv
    <3>5. /\ ds'[n] # "none" /\ from'[n] = new
          /\ \A m \in Branches \ {n} : ds'[m] = ds[m] /\ from'[m] = from[m]
      BY <2>0, <3>1 DEF BranchInv, StorageInv
    <3>6. \A k \in Branches : n \notin from[k]
      BY <3>2 DEF BranchInv, StorageInv
    <3>7. ASSUME NEW k \in Branches, NEW j \in from'[k] PROVE ds'[j] # "none" /\ from'[j] \subseteq from'[k]
      <4>1. j \in Branches /\ j # n
        BY <3>3, <3>4, <3>5, <3>6, <3>7
      <4>2. CASE k = n
        BY <3>3, <3>5, <3>7, <4>1, <4>2
      <4>3. CASE k # n
        BY <3>5, <3>7, <4>1, <4>3 DEF BranchInv, StorageInv
      <4> QED BY <4>2, <4>3
    <3>8. \A m \in Branches : m \notin from'[m] /\ (from'[m] # {} => ds'[m] # "none")
      BY <3>3, <3>5 DEF BranchInv, StorageInv
    <3> QED BY <3>4, <3>7, <3>8 DEF StorageInv
  <2> QED BY <2>1, <2>2
<1>2. ASSUME NEW n \in Branches, Unfinished(n), UNCHANGED <<from, roles>> PROVE StorageInv'
  <2>1. ds' = [ds EXCEPT ![n] = IF ds[n] = "agent" THEN "create" ELSE ds[n]]
    BY <1>2 DEF Unfinished
  <2>2. ds' \in [Branches -> {"none", "create", "agent"}] /\ \A m \in Branches : ds[m] # "none" => ds'[m] # "none"
    BY <2>1 DEF BranchInv, StorageInv
  <2>3. \A m \in Branches : from[m] \subseteq Branches
    BY DEF BranchInv, StorageInv
  <2> QED BY <1>2, <2>2, <2>3 DEF BranchInv, StorageInv
<1>3. ASSUME NEW n \in Branches, NEW u \in Branches \union {"user"}, roles' = [roles EXCEPT ![n] = @ \union {u}],
             UNCHANGED <<ds, from>>
      PROVE  StorageInv'
  <2>1. roles' \in [Branches -> SUBSET (Branches \union {"user"})]
    BY <1>3 DEF BranchInv, StorageInv
  <2> QED BY <1>3, <2>1 DEF BranchInv, StorageInv
<1>4. ASSUME NEW a \in Admins, AgentRole(a) PROVE StorageInv'
  <2>1. cmd[a].name \in Branches
    BY <1>4 DEF AgentRole, BranchInv, CmdInv
  <2> QED BY <1>2, <1>3, <1>4, <2>1 DEF AgentRole
<1>5. ASSUME NEW a \in Admins, Die(a) PROVE StorageInv'
  <2>1. cmd[a].name \in Branches
    BY <1>5 DEF Die, BranchInv, CmdInv
  <2> QED BY <1>0, <1>2, <1>5, <2>1 DEF Die, storage
<1>6. ASSUME NEW a \in Admins, Destroy(a) PROVE StorageInv'
  BY <1>6, DestroyFacts, LoseFacts DEF BranchInv
<1>7. ASSUME NEW c \in Clients, LoginRole(c) PROVE StorageInv'
  <2>1. conn[c].target \in Branches
    BY <1>7 DEF LoginRole, BranchInv, ConnInv, ConnOK
  <2> QED BY <1>0, <1>3, <1>7, <2>1 DEF LoginRole, EnsureUserRole, storage
<1>8. ASSUME NEW a \in Admins, Start(a) \/ Remove(a) \/ MintKey(a) PROVE UNCHANGED storage
  BY <1>8 DEF Start, Remove, MintKey
<1>9. ASSUME NEW c \in Clients, Resume(c) \/ Recreate(c) PROVE UNCHANGED storage
  BY <1>9 DEF Resume, Recreate
<1>10. ASSUME NEW a \in Admins, Command(a) PROVE StorageInv'
  BY <1>0, <1>1, <1>4, <1>5, <1>6, <1>8, <1>10, CommandSteps
<1>11. ASSUME NEW c \in Clients, Handler(c) PROVE StorageInv'
  BY <1>0, <1>7, <1>9, <1>11, HandlerSteps
<1>12. CASE (\E n \in Branches : Suspend(n)) \/ Down \/ GatewayRestart \/ UNCHANGED vars
  BY <1>0, <1>12 DEF Suspend, Down, GatewayRestart, vars
<1> QED BY <1>10, <1>11, <1>12 DEF Next

\* Every step keeps addresses with the containers that run, one each.
LEMMA DockerKept == BranchInv /\ [Next]_vars => DockerInv'
<1> SUFFICES ASSUME BranchInv, [Next]_vars PROVE DockerInv'
  OBVIOUS
<1>0. CASE UNCHANGED <<docker, reused>>
  BY <1>0 DEF docker, BranchInv, DockerInv, Running
<1>1. ASSUME NEW n \in Branches, StartContainer(n) PROVE DockerInv'
  BY <1>1, StartFacts DEF BranchInv
<1>2. ASSUME NEW S \in SUBSET Branches, NEW s \in {"absent", "exited"}, StopContainers(S, s), UNCHANGED reused
      PROVE  DockerInv'
  BY <1>2, StopFacts DEF BranchInv
<1>3. ASSUME NEW a \in Admins, Start(a) \/ Remove(a) PROVE DockerInv'
  <2>1. cmd[a].name \in Branches
    BY <1>3 DEF Start, Remove, BranchInv, CmdInv
  <2> QED BY <1>1, <1>2, <1>3, <2>1 DEF Start, Remove
<1>4. ASSUME NEW c \in Clients, Resume(c) \/ Recreate(c) PROVE DockerInv'
  <2>1. conn[c].target \in Branches
    BY <1>4 DEF Resume, Recreate, BranchInv, ConnInv, ConnOK
  <2> QED BY <1>0, <1>1, <1>4, <2>1 DEF Resume, Recreate
<1>5. ASSUME NEW a \in Admins, Clone(a) \/ AgentRole(a) \/ Destroy(a) \/ Die(a) \/ MintKey(a)
      PROVE  UNCHANGED <<docker, reused>>
  BY <1>5 DEF Clone, AgentRole, Destroy, Die, MintKey
<1>6. ASSUME NEW c \in Clients, LoginRole(c) PROVE UNCHANGED <<docker, reused>>
  BY <1>6 DEF LoginRole
<1>7. ASSUME NEW a \in Admins, Command(a) PROVE DockerInv'
  BY <1>0, <1>3, <1>5, <1>7, CommandSteps
<1>8. ASSUME NEW c \in Clients, Handler(c) PROVE DockerInv'
  BY <1>0, <1>4, <1>6, <1>8, HandlerSteps
<1>9. ASSUME NEW n \in Branches, Suspend(n) PROVE DockerInv'
  BY <1>2, <1>9 DEF Suspend
<1>10. CASE Down
  BY <1>2, <1>10 DEF Down
<1>11. CASE GatewayRestart \/ UNCHANGED vars
  BY <1>0, <1>11 DEF GatewayRestart, vars
<1> QED BY <1>7, <1>8, <1>9, <1>10, <1>11 DEF Next

\* Every step keeps the commands in order; keys are minted for agent branches only.
LEMMA CmdKept == BranchInv /\ [Next]_vars => CmdInv'
<1> SUFFICES ASSUME BranchInv, [Next]_vars PROVE CmdInv'
  OBVIOUS
<1>0. CASE UNCHANGED <<keys, cmd>>
  BY <1>0 DEF BranchInv, CmdInv
<1>1. ASSUME NEW a \in Admins, NEW step \in {"idle", "clone", "start", "role", "key", "remove", "destroy"},
             Goto(a, step), cmd[a].pc # "idle", keys' \subseteq Agents,
             step = "clone" => cmd[a].kind # "delete",
             step \in {"role", "key"} => cmd[a].kind = "agent"
      PROVE  CmdInv'
  <2>1. /\ cmd' \in [Admins -> CmdStates]
        /\ \A b \in Admins \ {a} : cmd'[b] = cmd[b]
        /\ step = "idle" => cmd'[a] = Done
        /\ step # "idle" => cmd'[a].pc = step /\ cmd'[a].name = cmd[a].name /\ cmd'[a].kind = cmd[a].kind
    BY <1>1, GotoFacts DEF BranchInv
  <2> QED BY <1>1, <2>1 DEF BranchInv, CmdInv, Done
<1>2. ASSUME NEW a \in Admins, NEW n \in Branches, NEW p \in Branches \union {"main"},
             NEW k \in {"create", "agent", "delete", "reset"}, NEW s \in {"clone", "remove"},
             Begin(a, k, n, p, s), k = "agent" => n \in Agents, s = "clone" => k # "delete", keys' \subseteq keys
      PROVE  CmdInv'
  <2> DEFINE r == [pc |-> s, name |-> n, parent |-> p, kind |-> k]
  <2>1. cmd' = [cmd EXCEPT ![a] = r]
    BY <1>2 DEF Begin
  <2>2. r \in CmdStates /\ r.pc = s /\ r.name = n /\ r.kind = k
    BY DEF CmdStates
  <2> HIDE DEF r
  <2> QED BY <1>2, <2>1, <2>2 DEF BranchInv, CmdInv
<1>a. keys \subseteq Agents
  BY DEF BranchInv, CmdInv
<1>3. ASSUME NEW a \in Admins, Clone(a) PROVE CmdInv'
  BY <1>1, <1>3, <1>a DEF Clone
<1>4. ASSUME NEW a \in Admins, Start(a) PROVE CmdInv'
  <2>1. CASE cmd[a].kind = "agent"
    BY <1>1, <1>4, <1>a, <2>1 DEF Start
  <2>2. CASE cmd[a].kind # "agent"
    BY <1>1, <1>4, <1>a, <2>2 DEF Start
  <2> QED BY <2>1, <2>2
<1>5. ASSUME NEW a \in Admins, AgentRole(a) PROVE CmdInv'
  <2>1. cmd[a].kind = "agent"
    BY <1>5 DEF AgentRole, BranchInv, CmdInv
  <2> QED BY <1>1, <1>5, <1>a, <2>1 DEF AgentRole
<1>6. ASSUME NEW a \in Admins, Remove(a) PROVE CmdInv'
  BY <1>1, <1>6, <1>a DEF Remove
<1>7. ASSUME NEW a \in Admins, Destroy(a) PROVE CmdInv'
  <2>1. CASE Goto(a, "idle")
    BY <1>1, <1>7, <1>a, <2>1 DEF Destroy
  <2>2. CASE Goto(a, "clone") /\ cmd[a].kind = "reset"
    BY <1>1, <1>7, <1>a, <2>2 DEF Destroy
  <2> QED BY <1>7, <2>1, <2>2 DEF Destroy
<1>8. ASSUME NEW a \in Admins, Die(a) PROVE CmdInv'
  BY <1>1, <1>8, <1>a DEF Die
<1>9. ASSUME NEW a \in Admins, MintKey(a) PROVE CmdInv'
  <2>1. cmd[a].name \in Agents /\ cmd[a].pc = "key"
    BY <1>9 DEF MintKey, BranchInv, CmdInv
  <2>2. keys' \subseteq Agents /\ (Goto(a, "idle") \/ Goto(a, "remove"))
    BY <1>9, <1>a, <2>1 DEF MintKey, CreateAgentBranchWithProvenance
  <2> QED BY <1>1, <2>1, <2>2
<1>10. ASSUME NEW a \in Admins, Command(a) PROVE CmdInv'
  BY <1>2, <1>3, <1>4, <1>5, <1>6, <1>7, <1>8, <1>9, <1>10, CommandSteps
<1>11. ASSUME NEW c \in Clients, Handler(c) PROVE CmdInv'
  BY <1>0, <1>11, HandlerSteps
<1>12. CASE (\E n \in Branches : Suspend(n)) \/ Down \/ GatewayRestart \/ UNCHANGED vars
  BY <1>0, <1>12 DEF Suspend, Down, GatewayRestart, vars
<1> QED BY <1>10, <1>11, <1>12 DEF Next

\* Every step keeps the dataset of a branch that a container has mounted.
LEMMA MountKept == BranchInv /\ [Next]_vars => MountInv'
<1> SUFFICES ASSUME BranchInv, [Next]_vars PROVE MountInv'
  OBVIOUS
<1>0. CASE UNCHANGED <<ds, docker>>
  BY <1>0 DEF docker, BranchInv, MountInv
<1>1. ASSUME NEW n \in Branches, StartContainer(n), UNCHANGED ds PROVE MountInv'
  BY <1>1, StartFacts DEF BranchInv, MountInv
<1>2. ASSUME NEW S \in SUBSET Branches, NEW s \in {"absent", "exited"}, StopContainers(S, s), UNCHANGED <<ds, reused>>
      PROVE  MountInv'
  BY <1>2, StopFacts DEF BranchInv, MountInv
<1>3. ASSUME NEW a \in Admins, Start(a) \/ Remove(a) PROVE MountInv'
  <2>1. cmd[a].name \in Branches
    BY <1>3 DEF Start, Remove, BranchInv, CmdInv
  <2> QED BY <1>1, <1>2, <1>3, <2>1 DEF Start, Remove, storage
<1>4. ASSUME NEW c \in Clients, Resume(c) \/ Recreate(c) PROVE MountInv'
  <2>1. conn[c].target \in Branches
    BY <1>4 DEF Resume, Recreate, BranchInv, ConnInv, ConnOK
  <2> QED BY <1>0, <1>1, <1>4, <2>1 DEF Resume, Recreate, storage
<1>5. ASSUME UNCHANGED docker, \A m \in Branches : ds[m] # "none" => ds'[m] # "none" PROVE MountInv'
  BY <1>5 DEF docker, BranchInv, MountInv
<1>6. ASSUME NEW a \in Admins, Clone(a) PROVE MountInv'
  <2>1. cmd[a].name \in Branches /\ cmd[a].kind \in {"create", "agent", "reset"}
    BY <1>6 DEF Clone, BranchInv, CmdInv, CmdStates
  <2>2. ds' = ds \/ ds' = [ds EXCEPT ![cmd[a].name] = IF cmd[a].kind = "agent" THEN "agent" ELSE "create"]
    BY <1>6 DEF Clone, storage
  <2>3. \A m \in Branches : ds[m] # "none" => ds'[m] # "none"
    BY <2>1, <2>2 DEF BranchInv, StorageInv
  <2> QED BY <1>5, <1>6, <2>3 DEF Clone
<1>7. ASSUME NEW a \in Admins, AgentRole(a) \/ Die(a) PROVE MountInv'
  <2>1. ds' = ds \/ ds' = [ds EXCEPT ![cmd[a].name] = IF @ = "agent" THEN "create" ELSE @]
    BY <1>7 DEF AgentRole, Die, Unfinished
  <2>2. \A m \in Branches : ds[m] # "none" => ds'[m] # "none"
    BY <2>1 DEF BranchInv, StorageInv
  <2> QED BY <1>5, <1>7, <2>2 DEF AgentRole, Die
<1>8. ASSUME NEW a \in Admins, Destroy(a) PROVE MountInv'
  <2>1. PICK S \in SUBSET Branches :
          /\ \A m \in S : cont[m] # "running"
          /\ ds' = [m \in Branches |-> IF m \in S THEN "none" ELSE ds[m]]
          /\ UNCHANGED docker
    BY <1>8, DestroyFacts
  <2> QED BY <2>1 DEF docker, BranchInv, MountInv
<1>9. ASSUME NEW a \in Admins, MintKey(a) PROVE MountInv'
  BY <1>0, <1>9 DEF MintKey, storage
<1>10. ASSUME NEW a \in Admins, Command(a) PROVE MountInv'
  BY <1>0, <1>3, <1>6, <1>7, <1>8, <1>9, <1>10, CommandSteps DEF storage
<1>11. ASSUME NEW c \in Clients, LoginRole(c) PROVE MountInv'
  BY <1>0, <1>11 DEF LoginRole
<1>12. ASSUME NEW c \in Clients, Handler(c) PROVE MountInv'
  BY <1>0, <1>4, <1>11, <1>12, HandlerSteps DEF storage
<1>13. ASSUME NEW n \in Branches, Suspend(n) PROVE MountInv'
  BY <1>2, <1>13 DEF Suspend, storage
<1>14. CASE Down
  BY <1>2, <1>14 DEF Down, storage
<1>15. CASE GatewayRestart \/ UNCHANGED vars
  BY <1>0, <1>15 DEF GatewayRestart, vars, storage
<1> QED BY <1>10, <1>12, <1>13, <1>14, <1>15 DEF Next

\* One handler takes a step and docker does not.
LEMMA OneHandler ==
  ASSUME BranchInv, NEW c \in Clients, NEW r \in ConnStates,
         conn' = [conn EXCEPT ![c] = r], UNCHANGED <<docker, reused>>, cache \subseteq cache',
         ConnOK(r), ~ reused => RouteOK(r), LoginOK(r, cache')
  PROVE  ConnInv' /\ RouteInv' /\ LoginInv'
<1>1. /\ conn' \in [Clients -> ConnStates] /\ conn'[c] = r
      /\ \A d \in Clients \ {c} : conn'[d] = conn[d]
  BY DEF BranchInv, ConnInv
<1>2. \A d \in Clients : ConnOK(conn[d]) /\ (~ reused => RouteOK(conn[d])) /\ LoginOK(conn[d], cache)
  BY DEF BranchInv, ConnInv, RouteInv, LoginInv
<1>3. \A d \in Clients : ConnOK(conn'[d])
  BY <1>1, <1>2
<1>4. \A d \in Clients : ~ reused => RouteOK(conn'[d])
  BY <1>1, <1>2
<1>5. \A d \in Clients : LoginOK(conn'[d], cache')
  BY <1>1, <1>2 DEF LoginOK
<1>6. ConnInv'
  BY <1>1, <1>3 DEF ConnInv, ConnOK, Running, docker
<1>7. RouteInv'
  BY <1>4 DEF RouteInv, RouteOK, docker
<1>8. LoginInv'
  BY <1>5 DEF LoginInv, LoginOK
<1> QED BY <1>6, <1>7, <1>8

\* A handler that hangs up.
LEMMA ClosedOK == Closed \in ConnStates /\ ConnOK(Closed) /\ RouteOK(Closed) /\ \A S : LoginOK(Closed, S)
BY DEF Closed, ConnStates, ConnOK, RouteOK, LoginOK

\* Containers stop, and their clients are cut off.
LEMMA StopCuts ==
  ASSUME BranchInv, NEW S \in SUBSET Branches, NEW s \in {"absent", "exited"}, StopContainers(S, s),
         conn' = CutOff(S), UNCHANGED <<cache, reused>>
  PROVE  ConnInv' /\ RouteInv' /\ LoginInv'
<1>1. \A m \in Branches : IF m \in S THEN cont'[m] = s /\ ip'[m] = None
                          ELSE cont'[m] = cont[m] /\ ip'[m] = ip[m]
  BY StopFacts DEF BranchInv
<1>2. \A c \in Clients : conn'[c] = IF conn[c].server \in S THEN Closed ELSE conn[c]
  BY DEF CutOff
<1>3. conn' \in [Clients -> ConnStates]
  BY ClosedOK DEF CutOff, BranchInv, ConnInv
<1>4. ASSUME NEW c \in Clients PROVE ConnOK(conn[c])'
  <2>1. ConnOK(conn[c]) /\ conn[c] \in ConnStates
    BY DEF BranchInv, ConnInv
  <2>2. CASE conn'[c] = Closed
    BY <2>2 DEF Closed, ConnOK
  <2>3. CASE conn'[c] = conn[c] /\ conn[c].server \notin S
    <3>1. conn[c].server # None => conn[c].server \in Branches /\ cont'[conn[c].server] = cont[conn[c].server]
      BY <1>1, <2>1, <2>3 DEF ConnStates
    <3> QED BY <2>1, <2>3, <3>1 DEF ConnOK, Running
  <2> QED BY <1>2, <2>2, <2>3
<1>5. ASSUME NEW c \in Clients, ~ reused PROVE RouteOK(conn[c])'
  <2>1. RouteOK(conn[c]) /\ ConnOK(conn[c])
    BY <1>5 DEF BranchInv, RouteInv, ConnInv
  <2>2. CASE conn'[c] = Closed
    BY <2>2 DEF Closed, RouteOK
  <2>3. CASE conn'[c] = conn[c]
    BY <1>1, <2>1, <2>3, NamesAssumption DEF RouteOK, ConnOK
  <2> QED BY <1>2, <2>2, <2>3
<1>6. ASSUME NEW c \in Clients PROVE LoginOK(conn'[c], cache)
  BY <1>2, ClosedOK DEF BranchInv, LoginInv
<1>7. ConnInv'
  BY <1>3, <1>4 DEF ConnInv
<1>8. RouteInv'
  BY <1>5 DEF RouteInv
<1>9. LoginInv'
  BY <1>6 DEF LoginInv, LoginOK
<1> QED BY <1>7, <1>8, <1>9

\* A container starts and those who were connected to the one before it are gone.
LEMMA StartCuts ==
  ASSUME BranchInv, NEW n \in Branches, StartContainer(n), UNCHANGED cache,
         conn' \in [Clients -> ConnStates],
         \A c \in Clients : \/ conn'[c] = conn[c] /\ conn[c].server # n
                            \/ /\ ConnOK(conn'[c]) /\ RouteOK(conn'[c]) /\ LoginOK(conn'[c], cache)
                               /\ conn'[c].server = None /\ conn'[c].pc # "dial"
  PROVE  ConnInv' /\ RouteInv' /\ LoginInv'
<1>1. /\ \A m \in Branches \ {n} : cont'[m] = cont[m] /\ ip'[m] = ip[m]
      /\ ip'[n] \in IPs /\ (~ reused' => ~ reused /\ ip'[n] \notin LookedUp(n))
  BY StartFacts DEF BranchInv
<1>2. ASSUME NEW c \in Clients PROVE ConnOK(conn[c])'
  <2>1. ConnOK(conn[c]) /\ conn[c] \in ConnStates
    BY DEF BranchInv, ConnInv
  <2>2. CASE ConnOK(conn'[c]) /\ conn'[c].server = None
    BY <2>2 DEF ConnOK
  <2>3. CASE conn'[c] = conn[c] /\ conn[c].server # n
    <3>1. conn[c].server # None => conn[c].server \in Branches /\ cont'[conn[c].server] = cont[conn[c].server]
      BY <1>1, <2>1, <2>3 DEF ConnStates
    <3> QED BY <2>1, <2>3, <3>1 DEF ConnOK, Running
  <2> QED BY <2>2, <2>3
<1>3. ASSUME NEW c \in Clients, ~ reused' PROVE RouteOK(conn[c])'
  <2>1. RouteOK(conn[c]) /\ ConnOK(conn[c])
    BY <1>1, <1>3 DEF BranchInv, RouteInv, ConnInv
  <2>2. CASE RouteOK(conn'[c]) /\ conn'[c].server = None /\ conn'[c].pc # "dial"
    BY <2>2 DEF RouteOK
  <2>3. CASE conn'[c] = conn[c]
    <3>1. conn[c].pc = "dial" /\ conn[c].target # n => ip'[n] # conn[c].addr
      BY <1>1, <1>3 DEF LookedUp
    <3>2. conn[c].pc = "dial" => \A m \in Branches : ip'[m] = conn[c].addr => m = conn[c].target
      BY <1>1, <2>1, <3>1 DEF RouteOK
    <3> QED BY <2>1, <2>3, <3>2 DEF RouteOK
  <2> QED BY <2>2, <2>3
<1>4. ASSUME NEW c \in Clients PROVE LoginOK(conn'[c], cache)
  BY DEF BranchInv, LoginInv
<1>5. ConnInv'
  BY <1>2 DEF ConnInv
<1>6. RouteInv'
  BY <1>3 DEF RouteInv
<1>7. LoginInv'
  BY <1>4 DEF LoginInv, LoginOK
<1> QED BY <1>5, <1>6, <1>7

\* Every step keeps the handlers on their way to the branch they were asked for.
LEMMA HandlersKept == BranchInv /\ [Next]_vars => ConnInv' /\ RouteInv' /\ LoginInv'
<1> DEFINE Kept == ConnInv' /\ RouteInv' /\ LoginInv'
<1> SUFFICES ASSUME BranchInv, [Next]_vars PROVE Kept
  OBVIOUS
<1>0. CASE UNCHANGED <<docker, reused, conn, cache>>
  <2>1. ConnInv'
    BY <1>0 DEF docker, BranchInv, ConnInv, ConnOK, Running
  <2>2. RouteInv'
    BY <1>0 DEF docker, BranchInv, RouteInv, RouteOK
  <2>3. LoginInv'
    BY <1>0 DEF BranchInv, LoginInv, LoginOK
  <2> QED BY <2>1, <2>2, <2>3
<1>a. ASSUME NEW c \in Clients PROVE conn[c] \in ConnStates /\ ConnOK(conn[c]) /\ (~ reused => RouteOK(conn[c])) /\ LoginOK(conn[c], cache)
  BY DEF BranchInv, ConnInv, RouteInv, LoginInv
<1>b. \A S \in SUBSET Branches : /\ CutOff(S) \in [Clients -> ConnStates]
                                 /\ \A c \in Clients : CutOff(S)[c] = IF conn[c].server \in S THEN Closed ELSE conn[c]
  BY <1>a, ClosedOK DEF CutOff
<1>c. Closed.server = None /\ Closed.pc # "dial"
  BY DEF Closed
<1>d. ASSUME NEW c \in Clients, Set(c, Closed), UNCHANGED <<docker, reused, cache>> PROVE Kept
  BY <1>d, ClosedOK, OneHandler DEF Set
(* Commands *)
<1>1. ASSUME NEW a \in Admins, Start(a) PROVE Kept
  <2>1. cmd[a].name \in Branches /\ StartContainer(cmd[a].name) /\ conn' = CutOff({cmd[a].name}) /\ UNCHANGED cache
    BY <1>1 DEF Start, BranchInv, CmdInv, gateway
  <2>2. conn' \in [Clients -> ConnStates]
    BY <1>b, <2>1
  <2>3. ASSUME NEW c \in Clients
        PROVE  \/ conn'[c] = conn[c] /\ conn[c].server # cmd[a].name
               \/ /\ ConnOK(conn'[c]) /\ RouteOK(conn'[c]) /\ LoginOK(conn'[c], cache)
                  /\ conn'[c].server = None /\ conn'[c].pc # "dial"
    BY <1>b, <1>c, <2>1, ClosedOK
  <2> QED BY <2>1, <2>2, <2>3, StartCuts
<1>2. ASSUME NEW a \in Admins, Remove(a) PROVE Kept
  <2>1. cmd[a].name \in Branches
    BY <1>2 DEF Remove, BranchInv, CmdInv
  <2> QED BY <1>2, <2>1, StopCuts DEF Remove, gateway
<1>3. ASSUME NEW a \in Admins, Clone(a) \/ AgentRole(a) \/ Destroy(a) \/ Die(a) \/ MintKey(a) PROVE Kept
  BY <1>0, <1>3 DEF Clone, AgentRole, Destroy, Die, MintKey, gateway
<1>4. ASSUME NEW a \in Admins, Command(a) PROVE Kept
  BY <1>0, <1>1, <1>2, <1>3, <1>4, CommandSteps DEF gateway
(* Handlers *)
<1>5. ASSUME NEW c \in Clients, NEW n \in Branches, NEW w \in {"user", "agent"}, Arrive(c, n, w) PROVE Kept
  <2> DEFINE r == [Closed EXCEPT !.pc = "ensure", !.target = n, !.who = w]
  <2>1. conn' = [conn EXCEPT ![c] = r] /\ UNCHANGED <<docker, reused, cache>>
    BY <1>5 DEF Arrive, Set, gateway
  <2>2. r \in ConnStates /\ ConnOK(r) /\ RouteOK(r) /\ LoginOK(r, cache)
    BY DEF Closed, ConnStates, ConnOK, RouteOK, LoginOK
  <2> HIDE DEF r
  <2> QED BY <2>1, <2>2, OneHandler
<1>6. ASSUME NEW c \in Clients, NEW step \in {"addr", "resume", "start"}, conn[c].pc \in {"ensure", "resume", "start"},
             Set(c, [conn[c] EXCEPT !.pc = step]), UNCHANGED <<docker, reused, cache>>
      PROVE  Kept
  <2> DEFINE r == [conn[c] EXCEPT !.pc = step]
  <2>1. r \in ConnStates /\ ConnOK(r) /\ (~ reused => RouteOK(r)) /\ LoginOK(r, cache)
    BY <1>6, <1>a DEF ConnStates, ConnOK, RouteOK, LoginOK
  <2>2. conn' = [conn EXCEPT ![c] = r]
    BY <1>6 DEF Set
  <2> HIDE DEF r
  <2> QED BY <1>6, <2>1, <2>2, OneHandler
<1>7. ASSUME NEW c \in Clients, Ensure(c) PROVE Kept
  <2> DEFINE n == conn[c].target
  <2>1. n \in Branches /\ cont[n] \in {"absent", "exited", "running", "empty"}
    BY <1>7, <1>a DEF Ensure, ConnOK, BranchInv, DockerInv
  <2>2. CASE cont[n] = "absent" /\ ~ exists(n)
    BY <1>7, <1>d, <2>2 DEF Ensure, Hangup, gateway
  <2>3. CASE ~ (cont[n] = "absent" /\ ~ exists(n))
    <3> DEFINE st == CASE Running(n) -> "addr" [] cont[n] = "exited" -> "resume" [] cont[n] = "absent" -> "start"
    <3>1. Set(c, [conn[c] EXCEPT !.pc = st]) /\ UNCHANGED <<docker, reused, cache>>
      BY <1>7, <2>3 DEF Ensure, gateway
    <3>2. st \in {"addr", "resume", "start"}
      BY <2>1 DEF Running
    <3> HIDE DEF st
    <3> QED BY <1>6, <1>7, <3>1, <3>2 DEF Ensure
  <2> QED BY <2>2, <2>3
<1>8. ASSUME NEW c \in Clients, Resume(c) PROVE Kept
  <2> DEFINE n == conn[c].target
             r == [conn[c] EXCEPT !.pc = "addr"]
  <2>1. conn[c].pc = "resume" /\ n \in Branches /\ UNCHANGED cache
    BY <1>8, <1>a DEF Resume, ConnOK, gateway
  <2>2. CASE cont[n] = "absent"
    BY <1>8, <1>d, <2>1, <2>2 DEF Resume, Hangup
  <2>3. CASE cont[n] # "absent" /\ cont[n] # "exited"
    BY <1>6, <1>8, <2>1, <2>3 DEF Resume
  <2>4. CASE cont[n] = "exited"
    <3>1. StartContainer(n) /\ conn' = [conn EXCEPT ![c] = r]
      BY <1>8, <2>4 DEF Resume, Set
    <3>2. /\ r \in ConnStates /\ ConnOK(r) /\ RouteOK(r) /\ LoginOK(r, cache)
          /\ r.server = None /\ r.pc # "dial"
      BY <2>1, <1>a DEF ConnStates, ConnOK, RouteOK, LoginOK
    <3> HIDE DEF r
    <3>3. ASSUME NEW d \in Clients PROVE conn[d].server # n
      BY <1>a, <2>1, <2>4, NamesAssumption DEF ConnOK, Running
    <3>4. conn' \in [Clients -> ConnStates] /\ \A d \in Clients : conn'[d] = IF d = c THEN r ELSE conn[d]
      BY <3>1, <3>2 DEF BranchInv, ConnInv
    <3>5. ASSUME NEW d \in Clients
          PROVE  \/ conn'[d] = conn[d] /\ conn[d].server # n
                 \/ /\ ConnOK(conn'[d]) /\ RouteOK(conn'[d]) /\ LoginOK(conn'[d], cache)
                    /\ conn'[d].server = None /\ conn'[d].pc # "dial"
      BY <3>2, <3>3, <3>4
    <3> QED BY <2>1, <3>1, <3>4, <3>5, StartCuts
  <2> QED BY <2>2, <2>3, <2>4
<1>9. ASSUME NEW c \in Clients, Recreate(c) PROVE Kept
  <2> DEFINE n == conn[c].target
             r == [conn[c] EXCEPT !.pc = "addr"]
  <2>1. conn[c].pc = "start" /\ n \in Branches /\ UNCHANGED cache /\ StartContainer(n)
    BY <1>9, <1>a DEF Recreate, ConnOK, gateway
  <2>2. /\ r \in ConnStates /\ ConnOK(r) /\ RouteOK(r) /\ LoginOK(r, cache)
        /\ r.server = None /\ r.pc # "dial"
    BY <2>1, <1>a DEF ConnStates, ConnOK, RouteOK, LoginOK
  <2>3. conn' = [CutOff({n}) EXCEPT ![c] = r]
    BY <1>9 DEF Recreate
  <2> HIDE DEF r
  <2>4. /\ conn' \in [Clients -> ConnStates]
        /\ \A d \in Clients : conn'[d] = IF d = c THEN r ELSE CutOff({n})[d]
    BY <1>b, <2>1, <2>2, <2>3
  <2>5. ASSUME NEW d \in Clients
        PROVE  \/ conn'[d] = conn[d] /\ conn[d].server # n
               \/ /\ ConnOK(conn'[d]) /\ RouteOK(conn'[d]) /\ LoginOK(conn'[d], cache)
                  /\ conn'[d].server = None /\ conn'[d].pc # "dial"
    BY <1>b, <1>c, <2>1, <2>2, <2>4, ClosedOK
  <2> QED BY <2>1, <2>4, <2>5, StartCuts
<1>10. ASSUME NEW c \in Clients, BackendAddr(c) PROVE Kept
  <2> DEFINE n == conn[c].target
             r == [conn[c] EXCEPT !.pc = "dial", !.addr = ip[n]]
  <2>1. conn[c].pc = "addr" /\ n \in Branches /\ UNCHANGED <<docker, reused, cache>>
    BY <1>10, <1>a DEF BackendAddr, ConnOK, gateway
  <2>2. CASE ip[n] = None
    BY <1>10, <1>d, <2>1, <2>2 DEF BackendAddr, Hangup
  <2>3. CASE ip[n] # None
    <3>1. conn' = [conn EXCEPT ![c] = r]
      BY <1>10, <2>3 DEF BackendAddr, Set
    <3>2. ip[n] \in IPs /\ \A m \in Branches : ip[m] = ip[n] => m = n
      BY <2>1, <2>3 DEF BranchInv, DockerInv
    <3>3. r \in ConnStates /\ r.pc = "dial" /\ r.addr = ip[n] /\ r.server = conn[c].server /\ r.target = n
      BY <3>2, <1>a DEF ConnStates
    <3>4. ConnOK(r) /\ RouteOK(r) /\ LoginOK(r, cache)
      BY <1>a, <2>1, <3>2, <3>3 DEF ConnOK, RouteOK, LoginOK
    <3> HIDE DEF r
    <3> QED BY <2>1, <3>1, <3>3, <3>4, OneHandler
  <2> QED BY <2>2, <2>3
<1>11. ASSUME NEW c \in Clients, Dial(c) PROVE Kept
  <2> DEFINE up == {n \in Branches : ip[n] = conn[c].addr}
  <2>1. conn[c].pc = "dial" /\ conn[c].target \in Branches /\ conn[c].addr \in IPs /\ UNCHANGED <<docker, reused, cache>>
    BY <1>11, <1>a DEF Dial, ConnOK, gateway
  <2>2. CASE up = {}
    BY <1>11, <1>d, <2>1, <2>2 DEF Dial, Hangup
  <2>3. CASE up # {}
    <3>1. PICK n \in up : conn' = [conn EXCEPT ![c] = [conn[c] EXCEPT !.pc = "role", !.addr = None, !.server = n]]
      BY <1>11, <2>3 DEF Dial, Set
    <3> DEFINE r == [conn[c] EXCEPT !.pc = "role", !.addr = None, !.server = n]
    <3>2. n \in Branches /\ Running(n) /\ n # None
      BY <2>1, NamesAssumption DEF BranchInv, DockerInv
    <3>3. ~ reused => n = conn[c].target
      BY <1>a, <2>1 DEF RouteOK
    <3>4. r \in ConnStates /\ r.pc = "role" /\ r.server = n /\ r.target = conn[c].target
      BY <3>2, <1>a DEF ConnStates
    <3>5. ConnOK(r) /\ (~ reused => RouteOK(r)) /\ LoginOK(r, cache)
      BY <2>1, <3>2, <3>3, <3>4 DEF ConnOK, RouteOK, LoginOK
    <3>6. conn' = [conn EXCEPT ![c] = r]
      BY <3>1
    <3> HIDE DEF r
    <3> QED BY <2>1, <3>4, <3>5, <3>6, OneHandler
  <2> QED BY <2>2, <2>3
<1>12. ASSUME NEW c \in Clients, LoginRole(c) PROVE Kept
  <2> DEFINE n == conn[c].target
  <2>1. conn[c].pc = "role" /\ n \in Branches /\ UNCHANGED <<docker, reused>> /\ cache \subseteq cache'
    BY <1>12, <1>a DEF LoginRole, EnsureUserRole, ConnOK
  <2>2. PICK u \in {n, "user", "odbclient"} :
          /\ conn' = [conn EXCEPT ![c] = [conn[c] EXCEPT !.pc = "auth", !.login = u]]
          /\ \/ conn[c].who = "agent" /\ u = n
             \/ conn[c].who = "user" /\ u = "odbclient"
             \/ conn[c].who = "user" /\ u = "user" /\ n \in cache'
    <3>1. CASE conn[c].who = "agent"
      BY <1>12, <3>1 DEF LoginRole, Set
    <3>2. CASE conn[c].who = "user" /\ n \in cache'
      BY <1>12, <3>2 DEF LoginRole, Set
    <3>3. CASE conn[c].who = "user" /\ n \notin cache'
      BY <1>12, <3>3 DEF LoginRole, Set
    <3> QED BY <1>12, <3>1, <3>2, <3>3 DEF LoginRole
  <2> DEFINE r == [conn[c] EXCEPT !.pc = "auth", !.login = u]
  <2>3. /\ r \in ConnStates /\ r.pc = "auth" /\ r.server = conn[c].server /\ r.target = n
        /\ r.login = u /\ r.who = conn[c].who
    BY <1>a, <2>1 DEF ConnStates
  <2>4. ConnOK(r) /\ (~ reused => RouteOK(r)) /\ LoginOK(r, cache')
    BY <1>a, <2>1, <2>2, <2>3 DEF ConnOK, RouteOK, LoginOK
  <2>5. conn' = [conn EXCEPT ![c] = r]
    BY <2>2
  <2> HIDE DEF r
  <2> QED BY <2>1, <2>3, <2>4, <2>5, OneHandler
<1>13. ASSUME NEW c \in Clients, Auth(c) PROVE Kept
  <2> DEFINE r == [conn[c] EXCEPT !.pc = "session"]
  <2>1. /\ conn[c].pc = "auth" /\ cont[conn[c].server] = "running" /\ conn' = [conn EXCEPT ![c] = r]
        /\ UNCHANGED <<docker, reused, cache>>
    BY <1>13 DEF Auth, KnowsRole, Set, gateway
  <2>2. r \in ConnStates /\ r.pc = "session" /\ r.server = conn[c].server /\ r.target = conn[c].target
    BY <1>a DEF ConnStates
  <2>3. ConnOK(r) /\ (~ reused => RouteOK(r)) /\ LoginOK(r, cache)
    BY <1>a, <2>1, <2>2 DEF ConnOK, RouteOK, LoginOK
  <2> HIDE DEF r
  <2> QED BY <2>1, <2>2, <2>3, OneHandler
<1>14. ASSUME NEW c \in Clients, AuthFail(c) \/ Close(c) PROVE Kept
  BY <1>14, <1>d DEF AuthFail, Close, Hangup, gateway
<1>15. ASSUME NEW c \in Clients, Handler(c) PROVE Kept
  BY <1>5, <1>7, <1>8, <1>9, <1>10, <1>11, <1>12, <1>13, <1>14, <1>15 DEF Handler
(* Everybody else *)
<1>16. ASSUME NEW n \in Branches, Suspend(n) PROVE Kept
  BY <1>16, StopCuts DEF Suspend, gateway
<1>17. CASE Down
  BY <1>17, StopCuts DEF Down, gateway
<1>18. CASE GatewayRestart
  <2>1. conn' = [c \in Clients |-> Closed] /\ UNCHANGED <<docker, reused>>
    BY <1>18 DEF GatewayRestart
  <2>2. ConnInv'
    BY <2>1 DEF ConnInv, ConnOK, Closed, ConnStates
  <2>3. RouteInv' /\ LoginInv'
    BY <2>1 DEF RouteInv, RouteOK, LoginInv, LoginOK, Closed
  <2> QED BY <2>2, <2>3
<1>19. CASE UNCHANGED vars
  BY <1>0, <1>19 DEF vars, gateway
<1> QED BY <1>4, <1>15, <1>16, <1>17, <1>18, <1>19 DEF Next

\* Every step keeps true what the gateway remembers of branches, or marks it.
LEMMA CacheKept == BranchInv /\ [Next]_vars => CacheInv'
<1> SUFFICES ASSUME BranchInv, [Next]_vars PROVE CacheInv'
  OBVIOUS
<1>0. ASSUME UNCHANGED gateway, \A n \in Branches : ds[n] # "none" => ds'[n] # "none" /\ roles[n] \subseteq roles'[n]
      PROVE  CacheInv'
  BY <1>0 DEF gateway, BranchInv, CacheInv
<1>a. CASE UNCHANGED <<storage, gateway>>
  BY <1>a DEF storage, gateway, BranchInv, CacheInv
<1>1. ASSUME NEW a \in Admins, Clone(a) PROVE CacheInv'
  <2> DEFINE n == cmd[a].name
  <2>1. n \in Branches /\ UNCHANGED gateway
    BY <1>1 DEF Clone, BranchInv, CmdInv
  <2>2. CASE UNCHANGED storage
    BY <1>a, <2>1, <2>2
  <2>3. CASE ~ UNCHANGED storage
    <3>1. ds[n] = "none"
      BY <1>1, <2>1, <2>3, NamesAssumption DEF Clone, exists
    <3>2. \E v : ds' = [ds EXCEPT ![n] = v]
      BY <1>1, <2>3 DEF Clone
    <3>3. \E v : roles' = [roles EXCEPT ![n] = v]
      BY <1>1, <2>3 DEF Clone
    <3>4. \A m \in Branches \ {n} : ds'[m] = ds[m] /\ roles'[m] = roles[m]
      BY <2>1, <3>2, <3>3 DEF BranchInv, StorageInv
    <3> QED BY <1>0, <2>1, <3>1, <3>4
  <2> QED BY <2>2, <2>3
<1>2. ASSUME NEW a \in Admins, AgentRole(a) \/ Die(a) PROVE CacheInv'
  <2>1. cmd[a].name \in Branches /\ UNCHANGED gateway
    BY <1>2 DEF AgentRole, Die, BranchInv, CmdInv
  <2>2. /\ ds' = ds \/ ds' = [ds EXCEPT ![cmd[a].name] = IF @ = "agent" THEN "create" ELSE @]
        /\ roles' = roles \/ roles' = [roles EXCEPT ![cmd[a].name] = @ \union {cmd[a].name}]
    BY <1>2 DEF AgentRole, Die, Unfinished
  <2>3. \A m \in Branches : ds[m] # "none" => ds'[m] # "none" /\ roles[m] \subseteq roles'[m]
    BY <2>1, <2>2 DEF BranchInv, StorageInv
  <2> QED BY <1>0, <2>1, <2>3
<1>3. ASSUME NEW a \in Admins, Destroy(a) PROVE CacheInv'
  <2>1. PICK S \in SUBSET Branches :
          /\ ds' = [m \in Branches |-> IF m \in S THEN "none" ELSE ds[m]]
          /\ roles' = [m \in Branches |-> IF m \in S THEN {} ELSE roles[m]]
          /\ replaced' = replaced \union (S \cap cache) /\ UNCHANGED cache
    BY <1>3, DestroyFacts
  <2> QED BY <2>1 DEF BranchInv, CacheInv
<1>4. ASSUME NEW c \in Clients, LoginRole(c) PROVE CacheInv'
  <2> DEFINE n == conn[c].target
  <2>1. n \in Branches /\ UNCHANGED <<ds, replaced>>
    BY <1>4 DEF LoginRole, BranchInv, ConnInv, ConnOK
  <2>2. CASE UNCHANGED <<roles, cache>>
    BY <2>1, <2>2 DEF BranchInv, CacheInv
  <2>3. CASE roles' = [roles EXCEPT ![n] = @ \union {"user"}] /\ cache' = cache \union {n} /\ Psql(n)
    <3>1. ds[n] # "none"
      BY <2>1, <2>3 DEF Psql, BranchInv, MountInv
    <3>2. "user" \in roles'[n] /\ \A m \in Branches : roles[m] \subseteq roles'[m]
      BY <2>1, <2>3 DEF BranchInv, StorageInv
    <3> QED BY <2>1, <2>3, <3>1, <3>2 DEF BranchInv, CacheInv
  <2> QED BY <1>4, <2>2, <2>3 DEF LoginRole, EnsureUserRole
<1>5. ASSUME NEW a \in Admins, Start(a) \/ Remove(a) \/ MintKey(a) PROVE CacheInv'
  BY <1>a, <1>5 DEF Start, Remove, MintKey
<1>6. ASSUME NEW c \in Clients, Resume(c) \/ Recreate(c) PROVE CacheInv'
  BY <1>a, <1>6 DEF Resume, Recreate
<1>7. ASSUME NEW a \in Admins, Command(a) PROVE CacheInv'
  BY <1>a, <1>1, <1>2, <1>3, <1>5, <1>7, CommandSteps
<1>8. ASSUME NEW c \in Clients, Handler(c) PROVE CacheInv'
  BY <1>a, <1>4, <1>6, <1>8, HandlerSteps
<1>9. CASE (\E n \in Branches : Suspend(n)) \/ Down \/ UNCHANGED vars
  BY <1>a, <1>9 DEF Suspend, Down, vars
<1>10. CASE GatewayRestart
  BY <1>10 DEF GatewayRestart, CacheInv
<1> QED BY <1>7, <1>8, <1>9, <1>10 DEF Next

\* Every step keeps the agent's role in an agent branch, or the command that makes it.
LEMMA AgentKept == BranchInv /\ [Next]_vars => AgentInv'
<1> SUFFICES ASSUME BranchInv, [Next]_vars PROVE AgentInv'
  OBVIOUS
<1> DEFINE At(a, n) == cmd[a].name = n /\ cmd[a].kind = "agent" /\ cmd[a].pc \in {"start", "role"}
           AtNext(a, n) == cmd'[a].name = n /\ cmd'[a].kind = "agent" /\ cmd'[a].pc \in {"start", "role"}
<1>0. ASSUME \A n \in Branches : ds'[n] = "agent" => ds[n] = "agent" /\ roles[n] \subseteq roles'[n],
             \A a \in Admins, n \in Branches : At(a, n) /\ ds'[n] = "agent" => n \in roles'[n] \/ AtNext(a, n)
      PROVE  AgentInv'
  BY <1>0 DEF BranchInv, AgentInv
<1>a. CASE UNCHANGED <<storage, cmd>>
  BY <1>a DEF storage, BranchInv, AgentInv
<1>1. ASSUME NEW a \in Admins, NEW step \in {"idle", "clone", "start", "role", "key", "remove", "destroy"},
             Goto(a, step)
      PROVE  /\ \A b \in Admins \ {a} : cmd'[b] = cmd[b]
             /\ step # "idle" => /\ cmd'[a].pc = step /\ cmd'[a].name = cmd[a].name /\ cmd'[a].kind = cmd[a].kind
  BY <1>1, GotoFacts DEF BranchInv
<1>2. ASSUME NEW a \in Admins, Clone(a) PROVE AgentInv'
  <2> DEFINE n == cmd[a].name
  <2>1. n \in Branches
    BY <1>2 DEF Clone, BranchInv, CmdInv
  <2>2. CASE UNCHANGED storage /\ Goto(a, "idle")
    <3>1. \A b \in Admins \ {a} : cmd'[b] = cmd[b]
      BY <1>1, <2>2
    <3>2. \A m : ~ At(a, m)
      BY <1>2 DEF Clone
    <3> QED BY <1>0, <2>2, <3>1, <3>2 DEF storage
  <2>3. CASE ~ (UNCHANGED storage /\ Goto(a, "idle"))
    <3>1. /\ ds' = [ds EXCEPT ![n] = IF cmd[a].kind = "agent" THEN "agent" ELSE "create"]
          /\ (\E v : roles' = [roles EXCEPT ![n] = v]) /\ Goto(a, "start")
      BY <1>2, <2>3 DEF Clone
    <3>2. /\ \A b \in Admins \ {a} : cmd'[b] = cmd[b]
          /\ cmd'[a].pc = "start" /\ cmd'[a].name = n /\ cmd'[a].kind = cmd[a].kind
      BY <1>1, <3>1
    <3>3. \A m \in Branches \ {n} : ds'[m] = ds[m] /\ roles'[m] = roles[m]
      BY <2>1, <3>1 DEF BranchInv, StorageInv
    <3>4. ds'[n] = "agent" => cmd[a].kind = "agent"
      BY <2>1, <3>1 DEF BranchInv, StorageInv
    <3>5. \A m : ~ At(a, m)
      BY <1>2 DEF Clone
    <3>6. ASSUME NEW m \in Branches, ds'[m] = "agent" PROVE m \in roles'[m] \/ \E b \in Admins : AtNext(b, m)
      <4>1. CASE m = n
        BY <3>2, <3>4, <3>6, <4>1
      <4>2. CASE m # n
        BY <3>2, <3>3, <3>5, <3>6, <4>2 DEF BranchInv, AgentInv
      <4> QED BY <4>1, <4>2
    <3> QED BY <3>6 DEF AgentInv
  <2> QED BY <2>2, <2>3
<1>3. ASSUME NEW a \in Admins, Start(a) PROVE AgentInv'
  <2>1. UNCHANGED storage /\ cmd[a].pc = "start"
    BY <1>3 DEF Start
  <2>2. CASE cmd[a].kind = "agent"
    <3>1. Goto(a, "role")
      BY <1>3, <2>2 DEF Start
    <3> QED BY <1>0, <1>1, <2>1, <3>1 DEF storage
  <2>3. CASE cmd[a].kind # "agent"
    <3>1. Goto(a, "idle")
      BY <1>3, <2>3 DEF Start
    <3> QED BY <1>0, <1>1, <2>1, <2>3, <3>1 DEF storage
  <2> QED BY <2>2, <2>3
<1>4. ASSUME NEW a \in Admins, AgentRole(a) PROVE AgentInv'
  <2> DEFINE n == cmd[a].name
  <2>1. n \in Branches
    BY <1>4 DEF AgentRole, BranchInv, CmdInv
  <2>2. CASE roles' = [roles EXCEPT ![n] = @ \union {n}] /\ Goto(a, "key") /\ UNCHANGED ds
    <3>1. n \in roles'[n] /\ \A m \in Branches : roles[m] \subseteq roles'[m]
      BY <2>1, <2>2 DEF BranchInv, StorageInv
    <3>2. \A b \in Admins \ {a} : cmd'[b] = cmd[b]
      BY <1>1, <2>2
    <3> QED BY <1>0, <2>2, <3>1, <3>2
  <2>3. CASE Goto(a, "idle") /\ Unfinished(n) /\ UNCHANGED roles
    <3>1. \A m \in Branches : ds'[m] = "agent" => ds[m] = "agent" /\ m # n
      BY <2>1, <2>3 DEF BranchInv, StorageInv, Unfinished
    <3>2. \A b \in Admins \ {a} : cmd'[b] = cmd[b]
      BY <1>1, <2>3
    <3> QED BY <1>0, <2>3, <3>1, <3>2
  <2> QED BY <1>4, <2>2, <2>3 DEF AgentRole
<1>5. ASSUME NEW a \in Admins, Die(a) PROVE AgentInv'
  <2> DEFINE n == cmd[a].name
  <2>1. n \in Branches /\ Goto(a, "idle") /\ UNCHANGED roles
    BY <1>5 DEF Die, BranchInv, CmdInv
  <2>2. \A b \in Admins \ {a} : cmd'[b] = cmd[b]
    BY <1>1, <2>1
  <2>3. CASE Unfinished(n)
    <3>1. \A m \in Branches : ds'[m] = "agent" => ds[m] = "agent" /\ m # n
      BY <2>1, <2>3 DEF BranchInv, StorageInv, Unfinished
    <3> QED BY <1>0, <2>1, <2>2, <3>1
  <2>4. CASE ~ (cmd[a].kind = "agent" /\ cmd[a].pc \in {"start", "role"}) /\ UNCHANGED ds
    BY <1>0, <2>1, <2>2, <2>4
  <2> QED BY <1>5, <2>3, <2>4 DEF Die
<1>6. ASSUME NEW a \in Admins, Destroy(a) PROVE AgentInv'
  <2>1. PICK S \in SUBSET Branches :
          /\ ds' = [m \in Branches |-> IF m \in S THEN "none" ELSE ds[m]]
          /\ roles' = [m \in Branches |-> IF m \in S THEN {} ELSE roles[m]]
    BY <1>6, DestroyFacts
  <2>2. cmd[a].pc = "destroy" /\ \A b \in Admins \ {a} : cmd'[b] = cmd[b]
    BY <1>1, <1>6 DEF Destroy
  <2>3. \A n \in Branches : ds'[n] = "agent" => ds[n] = "agent" /\ roles'[n] = roles[n]
    BY <2>1
  <2> QED BY <1>0, <2>2, <2>3
<1>7. ASSUME NEW a \in Admins, UNCHANGED storage, cmd[a].pc \notin {"start", "role"},
             \A b \in Admins \ {a} : cmd'[b] = cmd[b]
      PROVE  AgentInv'
  BY <1>0, <1>7 DEF storage
<1>8. ASSUME NEW a \in Admins, Remove(a) \/ MintKey(a) PROVE AgentInv'
  <2>1. UNCHANGED storage /\ cmd[a].pc \notin {"start", "role"}
    BY <1>8 DEF Remove, MintKey
  <2>2. Goto(a, "destroy") \/ Goto(a, "idle") \/ Goto(a, "remove")
    BY <1>8 DEF Remove, MintKey, CreateAgentBranchWithProvenance
  <2>3. \A b \in Admins \ {a} : cmd'[b] = cmd[b]
    BY <1>1, <2>2
  <2> QED BY <1>7, <2>1, <2>3
<1>9. ASSUME NEW a \in Admins, NEW k, NEW n, NEW p, NEW s, Begin(a, k, n, p, s), UNCHANGED storage PROVE AgentInv'
  <2>1. cmd[a].pc = "idle" /\ \A b \in Admins \ {a} : cmd'[b] = cmd[b]
    BY <1>9 DEF Begin, BranchInv, CmdInv
  <2> QED BY <1>7, <1>9, <2>1
<1>10. ASSUME NEW a \in Admins, Command(a) PROVE AgentInv'
  BY <1>2, <1>3, <1>4, <1>5, <1>6, <1>8, <1>9, <1>10, CommandSteps
<1>11. ASSUME NEW c \in Clients, LoginRole(c) PROVE AgentInv'
  <2>1. UNCHANGED <<ds, cmd>> /\ conn[c].target \in Branches
    BY <1>11 DEF LoginRole, BranchInv, ConnInv, ConnOK
  <2>2. roles' = roles \/ roles' = [roles EXCEPT ![conn[c].target] = @ \union {"user"}]
    BY <1>11 DEF LoginRole, EnsureUserRole
  <2>3. \A m \in Branches : roles[m] \subseteq roles'[m]
    BY <2>1, <2>2 DEF BranchInv, StorageInv
  <2> QED BY <1>0, <2>1, <2>3
<1>12. ASSUME NEW c \in Clients, Handler(c) PROVE AgentInv'
  BY <1>a, <1>11, <1>12, HandlerSteps DEF Resume, Recreate
<1>13. CASE (\E n \in Branches : Suspend(n)) \/ Down \/ GatewayRestart \/ UNCHANGED vars
  BY <1>a, <1>13 DEF Suspend, Down, GatewayRestart, vars
<1> QED BY <1>10, <1>12, <1>13 DEF Next
-----------------------------------------------------------------------------
\* BranchInv holds to begin with.
LEMMA BranchInvInit == Init => BranchInv
<1> SUFFICES ASSUME Init PROVE BranchInv
  OBVIOUS
<1>1. StorageInv /\ MountInv /\ CacheInv /\ AgentInv
  BY DEF Init, StorageInv, MountInv, CacheInv, AgentInv
<1>2. DockerInv
  BY DEF Init, DockerInv, Running
<1>3. CmdInv
  BY NamesAssumption DEF Init, CmdInv, CmdStates, Done
<1>4. ConnInv /\ RouteInv /\ LoginInv
  BY ClosedOK DEF Init, ConnInv, RouteInv, LoginInv
<1> QED BY <1>1, <1>2, <1>3, <1>4 DEF BranchInv

\* Every step keeps BranchInv.
LEMMA BranchInvStep == BranchInv /\ [Next]_vars => BranchInv'
BY StorageKept, DockerKept, CmdKept, MountKept, HandlersKept, CacheKept, AgentKept DEF BranchInv

\* BranchInv is an inductive invariant.
LEMMA BranchInvAlways == Spec => []BranchInv
BY BranchInvInit, BranchInvStep, PTL DEF Spec

\* Type correctness with the shape of docker and storage, for any number of
\* branches, however commands and handlers interleave.
THEOREM BranchesTypeCorrect == Spec => []TypeOK
<1>1. BranchInv => TypeOK
  BY DEF BranchInv, StorageInv, DockerInv, CmdInv, CacheInv, ConnInv, CmdStates, ConnStates, TypeOK
<1> QED BY <1>1, BranchInvAlways, PTL

\* Whoever the gateway let in is on the present data of the branch asked for, unless
\* docker reused an address between BackendAddr and Dial.
THEOREM SessionsStayOnTheirBranch == Spec => []SessionsOnTheirBranch
<1>1. BranchInv => SessionsOnTheirBranch
  <2> SUFFICES ASSUME BranchInv, ~ reused, NEW c \in Clients, conn[c].pc = "session"
               PROVE  LET n == conn[c].target IN
                      conn[c].server = n /\ cont[n] = "running" /\ exists(n)
    BY DEF SessionsOnTheirBranch
  <2>1. conn[c].server = conn[c].target /\ cont[conn[c].target] = "running" /\ conn[c].target \in Branches
    BY DEF BranchInv, ConnInv, ConnOK, RouteInv, RouteOK
  <2>2. exists(conn[c].target)
    BY <2>1, NamesAssumption DEF BranchInv, MountInv, exists
  <2> QED BY <2>1, <2>2
<1> QED BY <1>1, BranchInvAlways, PTL

\* A login fails only where the branch was replaced or is being made.
THEOREM LoginsFindTheirRole == Spec => []LoginsFailOnlyOnReplacedBranches
<1>1. BranchInv => LoginsFailOnlyOnReplacedBranches
  <2> SUFFICES ASSUME BranchInv, NEW c \in Clients, conn[c].pc = "auth", cont[conn[c].target] = "running",
                      ~ Creating(conn[c].target)
               PROVE  \/ KnowsRole(conn[c].target, conn[c].login)
                      \/ conn[c].who = "user" /\ conn[c].target \in replaced
                      \/ conn[c].who = "agent" /\ ds[conn[c].target] # "agent"
    BY DEF LoginsFailOnlyOnReplacedBranches
  <2> DEFINE n == conn[c].target
  <2>1. n \in Branches /\ LoginOK(conn[c], cache)
    BY DEF BranchInv, ConnInv, ConnOK, LoginInv
  <2>2. CASE conn[c].who = "agent" /\ conn[c].login = n
    <3>1. ds[n] = "agent" => n \in roles[n]
      BY <2>1 DEF BranchInv, AgentInv, Creating
    <3> QED BY <2>2, <3>1 DEF KnowsRole
  <2>3. CASE conn[c].login = "odbclient"
    BY <2>3 DEF KnowsRole
  <2>4. CASE conn[c].who = "user" /\ conn[c].login = "user" /\ n \in cache
    BY <2>4 DEF BranchInv, CacheInv, KnowsRole
  <2> QED BY <2>1, <2>2, <2>3, <2>4 DEF LoginOK
<1> QED BY <1>1, BranchInvAlways, PTL
-----------------------------------------------------------------------------
(* The cap on agent branches *)

\* The agent branches that have a container, or that a creation has been allowed
\* to make one for.
Pledged == ListAgentBranches \union {n \in Agents : \E a \in Admins : InFlight(a) /\ cmd[a].name = n}

\* The cap holds for what is pledged: a creation that was allowed alone keeps its
\* place until its container is there.
CapInv == BranchInv /\ (AgentMax > 0 => Cardinality(Pledged \ uncounted) <= AgentMax)

\* A creation comes to be in flight by its first step, and keeps its name.
LEMMA FlightSteps ==
  ASSUME BranchInv, [Next]_vars, NEW a \in Admins, InFlight(a)'
  PROVE  \/ InFlight(a) /\ cmd'[a].name = cmd[a].name
         \/ \E n \in Branches : CreateAgentBranch(a, n) \/ CreateAgentBranchUnlisted(a, n)
<1>1. CASE cmd'[a] = cmd[a]
  BY <1>1 DEF InFlight
<1>2. ASSUME NEW b \in Admins, NEW k, NEW n, NEW p, NEW s, Begin(b, k, n, p, s), k # "agent"
      PROVE  b # a \/ ~ InFlight(a)'
  BY <1>2 DEF Begin, InFlight, BranchInv, CmdInv
<1>3. ASSUME NEW b \in Admins, NEW k, NEW n, NEW p, NEW s, Begin(b, k, n, p, s), b # a
      PROVE  cmd'[a] = cmd[a]
  BY <1>3 DEF Begin, BranchInv, CmdInv
<1>4. ASSUME NEW b \in Admins, NEW step \in {"idle", "clone", "start", "role", "key", "remove", "destroy"},
             Goto(b, step), b # a
      PROVE  cmd'[a] = cmd[a]
  BY <1>4, GotoFacts DEF BranchInv
<1>5. ASSUME NEW step \in {"idle", "role", "key", "remove", "destroy"}, Goto(a, step)
      PROVE  FALSE
  BY <1>5, GotoFacts DEF BranchInv, InFlight, Done
<1>6. ASSUME Clone(a) PROVE InFlight(a) /\ cmd'[a].name = cmd[a].name
  <2>1. Goto(a, "start")
    BY <1>5, <1>6 DEF Clone
  <2> QED BY <1>6, <2>1, GotoFacts DEF Clone, BranchInv, InFlight
<1>7. ASSUME Destroy(a) PROVE FALSE
  <2>1. Goto(a, "clone") /\ cmd[a].kind = "reset"
    BY <1>5, <1>7 DEF Destroy
  <2> QED BY <2>1, GotoFacts DEF BranchInv, InFlight
<1>8. ASSUME NEW b \in Admins, Command(b)
      PROVE  \/ cmd'[a] = cmd[a]
             \/ InFlight(a) /\ cmd'[a].name = cmd[a].name
             \/ \E n \in Branches : CreateAgentBranch(a, n) \/ CreateAgentBranchUnlisted(a, n)
  <2>1. CASE Clone(b)
    BY <1>4, <1>6, <2>1 DEF Clone
  <2>2. CASE Start(b)
    BY <1>4, <1>5, <2>2 DEF Start
  <2>3. CASE AgentRole(b)
    BY <1>4, <1>5, <2>3 DEF AgentRole
  <2>4. CASE MintKey(b)
    BY <1>4, <1>5, <2>4 DEF MintKey, CreateAgentBranchWithProvenance
  <2>5. CASE Remove(b)
    BY <1>4, <1>5, <2>5 DEF Remove
  <2>6. CASE Destroy(b)
    BY <1>4, <1>7, <2>6 DEF Destroy
  <2>7. CASE Die(b)
    BY <1>4, <1>5, <2>7 DEF Die
  <2>8. ASSUME NEW n \in Branches, CreateAgentBranch(b, n) \/ CreateAgentBranchUnlisted(b, n)
        PROVE  cmd'[a] = cmd[a] \/ CreateAgentBranch(a, n) \/ CreateAgentBranchUnlisted(a, n)
    <3>1. Begin(b, "agent", n, "main", "clone")
      BY <2>8 DEF CreateAgentBranch, CreateAgentBranchUnlisted
    <3> QED BY <1>3, <2>8, <3>1
  <2>9. ASSUME NEW n \in Branches, Delete(b, n) \/ DeleteAgentBranch(b, n) \/ ReapAgentBranches(b, n)
        PROVE  cmd'[a] = cmd[a]
    <3>1. Begin(b, "delete", n, "main", "remove")
      BY <2>9 DEF Delete, DeleteAgentBranch, ReapAgentBranches
    <3> QED BY <1>2, <1>3, <3>1
  <2>10. ASSUME NEW n \in Branches, NEW p \in Branches \union {"main"}, Create(b, n, p)
         PROVE  cmd'[a] = cmd[a]
    BY <1>2, <1>3, <2>10 DEF Create
  <2>11. ASSUME NEW n \in Branches, NEW p \in Branches \union {"main"}, Reset(b, n, p)
         PROVE  cmd'[a] = cmd[a]
    BY <1>2, <1>3, <2>11 DEF Reset
  <2> QED BY <1>8, <2>1, <2>2, <2>3, <2>4, <2>5, <2>6, <2>7, <2>8, <2>9, <2>10, <2>11 DEF Command
<1>9. (\E b \in Admins : Command(b)) \/ cmd' = cmd
  BY HandlerSteps DEF Next, vars, Suspend, Down, GatewayRestart
<1> QED BY <1>1, <1>8, <1>9

\* A part of a finite set within a bound is within it.
LEMMA FewerWithin ==
  ASSUME NEW S, NEW T, IsFiniteSet(T), S \subseteq T, NEW k \in Nat, Cardinality(T) <= k
  PROVE  Cardinality(S) <= k
<1>1. IsFiniteSet(S) /\ Cardinality(S) <= Cardinality(T)
  BY FS_Subset
<1>2. Cardinality(S) \in Nat /\ Cardinality(T) \in Nat
  BY <1>1, FS_CardinalityType
<1> QED BY <1>1, <1>2

\* Every step keeps the pledged branches within the cap.
LEMMA CapKept ==
  ASSUME CapInv, [CapNext]_<<vars, uncounted>>, AgentMax > 0
  PROVE  Cardinality(Pledged' \ uncounted') <= AgentMax
<1>0. BranchInv /\ Cardinality(Pledged \ uncounted) <= AgentMax /\ [Next]_vars
  BY DEF CapInv, CapNext
<1>1. /\ IsFiniteSet(Pledged \ uncounted) /\ IsFiniteSet(ListAgentBranches)
  <2>1. Pledged \ uncounted \subseteq Agents /\ ListAgentBranches \subseteq Agents
    BY DEF Pledged, ListAgentBranches
  <2> QED BY <2>1, AgentsAssumption, FS_Subset
<1>2. CASE UNCHANGED <<vars, uncounted>>
  BY <1>0, <1>2 DEF Pledged, ListAgentBranches, InFlight, vars, docker
<1>3. CASE CapNext /\ Begun = {}
  <2>1. uncounted' = uncounted \union Unchecked
    BY <1>3 DEF CapNext, Overlapping, Unlisted
  <2>2. \A a \in Admins : InFlight(a)' => InFlight(a)
    BY <1>3 DEF Begun
  <2>3. ASSUME NEW a \in Admins, InFlight(a)' PROVE InFlight(a) /\ cmd'[a].name = cmd[a].name
    BY <1>0, <2>2, <2>3, FlightSteps DEF CreateAgentBranch, CreateAgentBranchUnlisted, Begin, InFlight
  <2>4. ASSUME NEW m \in Pledged' \ uncounted' PROVE m \in Pledged
    <3>1. m \in Agents /\ m \notin Unchecked
      BY <2>1, <2>4 DEF Pledged, ListAgentBranches
    <3>2. CASE \E a \in Admins : InFlight(a)' /\ cmd'[a].name = m
      BY <2>3, <3>1, <3>2 DEF Pledged
    <3>3. CASE cont'[m] # "absent"
      BY <3>1, <3>3 DEF Pledged, ListAgentBranches, Unchecked
    <3> QED BY <2>4, <3>2, <3>3 DEF Pledged, ListAgentBranches
  <2>5. Pledged' \ uncounted' \subseteq Pledged \ uncounted
    BY <2>1, <2>4
  <2> QED BY <1>0, <1>1, <2>5, FewerWithin, AgentMaxAssumption
<1>4. ASSUME CapNext, NEW a \in Begun
      PROVE  Cardinality(Pledged' \ uncounted') <= AgentMax
  <2>1. a \in Admins /\ ~ InFlight(a) /\ InFlight(a)'
    BY <1>4 DEF Begun
  <2>2. PICK n \in Branches : CreateAgentBranch(a, n) \/ CreateAgentBranchUnlisted(a, n)
    BY <1>0, <2>1, FlightSteps
  <2>3. /\ n \in Agents /\ cmd'[a].name = n /\ \A b \in Admins \ {a} : cmd'[b] = cmd[b]
        /\ UNCHANGED cont
    <3>1. Begin(a, "agent", n, "main", "clone") /\ n \in Agents /\ UNCHANGED docker
      BY <2>2 DEF CreateAgentBranch, CreateAgentBranchUnlisted
    <3> QED BY <1>0, <2>1, <3>1 DEF Begin, docker, BranchInv, CmdInv
  <2>4. Begun = {a} /\ Unchecked = {} /\ ListAgentBranches' = ListAgentBranches
    BY <1>4, <2>3 DEF Begun, Unchecked, ListAgentBranches, InFlight
  <2>5. \A m \in Pledged' : m \in Pledged \/ m = n
    BY <2>3, <2>4 DEF Pledged, InFlight
  <2>6. CASE (\E b \in Admins : InFlight(b)) \/ ~ CreateAgentBranch(a, n)
    <3>0. Overlapping \union Unlisted = {a}
      BY <2>3, <2>4, <2>6 DEF Overlapping, Unlisted
    <3>1. uncounted' = uncounted \union {n}
      BY <1>4, <2>3, <2>4, <3>0 DEF CapNext
    <3>2. Pledged' \ uncounted' \subseteq Pledged \ uncounted
      BY <2>5, <3>1
    <3> QED BY <1>0, <1>1, <3>2, FewerWithin, AgentMaxAssumption
  <2>7. CASE ~ (\E b \in Admins : InFlight(b)) /\ CreateAgentBranch(a, n)
    <3>0. Cardinality(ListAgentBranches) < AgentMax
      BY <2>7, AgentMaxAssumption DEF CreateAgentBranch
    <3>1. Pledged = ListAgentBranches
      BY <2>7 DEF Pledged
    <3>2. Pledged' \ uncounted' \subseteq ListAgentBranches \union {n}
      BY <2>5, <3>1
    <3>3. /\ IsFiniteSet(ListAgentBranches \union {n}) /\ Cardinality(ListAgentBranches) \in Nat
          /\ Cardinality(ListAgentBranches \union {n}) \in {Cardinality(ListAgentBranches), Cardinality(ListAgentBranches) + 1}
      BY <1>1, FS_AddElement, FS_CardinalityType
    <3>4. Cardinality(ListAgentBranches \union {n}) <= AgentMax
      BY <3>0, <3>3, AgentMaxAssumption
    <3> QED BY <3>2, <3>3, <3>4, FewerWithin, AgentMaxAssumption
  <2> QED BY <2>6, <2>7
<1> QED BY <1>2, <1>3, <1>4

\* There are never more agent containers than the cap allows, however creations,
\* wakes, resets, deletes and failures interleave, but for those that no check
\* counted: CapHolds for any number of agents, commands and clients, and any cap.
THEOREM AgentCapHolds == CapSpec => []CapHolds
<1>1. CapInit => CapInv
  <2> SUFFICES ASSUME CapInit PROVE CapInv
    OBVIOUS
  <2>1. BranchInv
    BY BranchInvInit DEF CapInit
  <2>2. Pledged \ uncounted = {}
    BY NamesAssumption DEF CapInit, Init, Pledged, ListAgentBranches, InFlight, Done
  <2>3. Cardinality(Pledged \ uncounted) = 0
    BY <2>2, FS_EmptySet
  <2> QED BY <2>1, <2>3, AgentMaxAssumption DEF CapInv
<1>2. CapInv /\ [CapNext]_<<vars, uncounted>> => CapInv'
  <2> SUFFICES ASSUME CapInv, [CapNext]_<<vars, uncounted>> PROVE CapInv'
    OBVIOUS
  <2>1. BranchInv'
    BY BranchInvStep DEF CapInv, CapNext
  <2> QED BY <2>1, CapKept DEF CapInv
<1>3. CapInv => CapHolds
  <2> SUFFICES ASSUME CapInv, AgentMax > 0 PROVE Cardinality(ListAgentBranches \ uncounted) <= AgentMax
    BY DEF CapHolds
  <2>1. /\ ListAgentBranches \ uncounted \subseteq Pledged \ uncounted
        /\ Pledged \ uncounted \subseteq Agents
    BY DEF Pledged, ListAgentBranches
  <2> QED BY <2>1, AgentsAssumption, AgentMaxAssumption, FS_Subset, FewerWithin DEF CapInv
<1> QED BY <1>1, <1>2, <1>3, PTL DEF CapSpec
=============================================================================
