---------------------------- MODULE AccessProofs ----------------------------
(***************************************************************************)
(* Proofs about who gets in where: the policy admins, the MCP server's     *)
(* scope, the Gateway's cancel keys and the accounts of people who sign in *)
(* through a provider, for every set of users, requests, connections, keys *)
(* and people.                                                             *)
(***************************************************************************)
EXTENDS Accounts, GatewaySessions, McpServer, PolicyAdmin, FiniteSetTheorems, TLAPS

-----------------------------------------------------------------------------
(* Policy admins *)

(***************************************************************************)
(* A request that has read the list of admins knows that its target is not *)
(* the only one on it.                                                     *)
(***************************************************************************)
AdminInv ==
  /\ admins \subseteq Users
  /\ request \in [AdminRequests -> [pc : {"idle", "checked", "listed"}, what : {"none", "grant", "revoke"},
                                    target : Users \union {NoUser}, list : SUBSET Users]]
  /\ \A r \in AdminRequests :
       /\ request[r].pc = "checked" => request[r].target \in Users
       /\ request[r].pc = "listed" => request[r].list # {} /\ request[r].list # {request[r].target}
  /\ AdminsRemain

\* AdminInv is preserved by every request of the console and by `odb admin`.
LEMMA AdminInvInductive == AdminInv /\ [PolicyAdminNext]_policyAdminVars => AdminInv'
<1> SUFFICES ASSUME AdminInv, [PolicyAdminNext]_policyAdminVars PROVE AdminInv'
  OBVIOUS
<1> USE UsersAssumption DEF AdminInv, AdminsRemain, NoRequest, SetRequest
<1>1. ASSUME NEW r \in AdminRequests, NEW u \in Users, NEW target \in Users,
             NEW what \in {"grant", "revoke"}, Begin(r, u, what, target)
      PROVE  AdminInv'
  BY <1>1 DEF Begin
<1>2. ASSUME NEW r \in AdminRequests, Grant(r) PROVE AdminInv'
  BY <1>2 DEF Grant
<1>3. ASSUME NEW r \in AdminRequests, ListAdmins(r) PROVE AdminInv'
  <2>1. ASSUME Cardinality(admins) # 1 PROVE admins # {request[r].target}
    BY <2>1, FS_Singleton
  <2>2. CASE request[r].target \in admins /\ Cardinality(admins) # 1
    <3> DEFINE to == [request[r] EXCEPT !.pc = "listed", !.list = admins]
    <3>1. request' = [request EXCEPT ![r] = to] /\ UNCHANGED <<admins, byHand, stale>>
      BY <1>3, <2>2 DEF ListAdmins
    <3>2. to \in [pc : {"idle", "checked", "listed"}, what : {"none", "grant", "revoke"},
                  target : Users \union {NoUser}, list : SUBSET Users]
      BY DEF AdminInv
    <3>3. to.pc = "listed" /\ to.list # {} /\ to.list # {to.target}
      BY <2>1, <2>2
    <3> HIDE DEF to
    <3> QED BY <3>1, <3>2, <3>3
  <2>3. CASE ~ (request[r].target \in admins /\ Cardinality(admins) # 1)
    <3>1. request' = [request EXCEPT ![r] = NoRequest] /\ UNCHANGED <<admins, byHand, stale>>
      BY <1>3, <2>3 DEF ListAdmins
    <3> QED BY <3>1
  <2> QED BY <2>2, <2>3
<1>4. ASSUME NEW r \in AdminRequests, RevokeAdmin(r) PROVE AdminInv'
  <2>1. /\ admins' = admins \ {request[r].target}
        /\ request' = [request EXCEPT ![r] = NoRequest]
    BY <1>4 DEF RevokeAdmin
  <2>2. AdminsRemain'
    <3>1. CASE admins' = {} /\ request[r].list = admins
      BY <1>4, <2>1, <3>1 DEF RevokeAdmin
    <3>2. CASE request[r].list # admins
      BY <1>4, <3>2 DEF RevokeAdmin
    <3> QED BY <3>1, <3>2
  <2> QED BY <2>1, <2>2
<1>5. ASSUME NEW r \in AdminRequests, GiveUp(r) PROVE AdminInv'
  BY <1>5 DEF GiveUp
<1>6. ASSUME NEW u \in Users, ByHand(u) PROVE AdminInv'
  BY <1>6 DEF ByHand
<1>7. CASE UNCHANGED policyAdminVars
  BY <1>7 DEF policyAdminVars
<1> QED BY <1>1, <1>2, <1>3, <1>4, <1>5, <1>6, <1>7 DEF PolicyAdminNext

\* However many requests of the web console interleave, an admin remains unless
\* `odb admin revoke` was used or a removal acted on a list that had changed.
THEOREM ConsoleLeavesAnAdmin == PolicyAdminSpec => []AdminsRemain
<1>1. PolicyAdminInit => AdminInv
  BY UsersAssumption DEF PolicyAdminInit, AdminInv, AdminsRemain, NoRequest
<1>2. AdminInv => AdminsRemain
  BY DEF AdminInv
<1> QED BY <1>1, <1>2, AdminInvInductive, PTL DEF PolicyAdminSpec
-----------------------------------------------------------------------------
(* The MCP server *)

ScopeInv ==
  /\ mcp \in [pc : {"off", "serving", "ended"}, scope : Branches \union {NoBranch},
              tool : Tools \union {"none"}, on : SUBSET Branches, asked : SUBSET Branches, broken : BOOLEAN]
  /\ stdin \in Seq([line : {"request"}, req : Requests] \union [line : {Garbage, NotARequest}])
  /\ ScopedToItsBranch

\* One call of a tool works within the scope, whatever branch it names and whatever
\* branches are running, and only impact asks others.
LEMMA ToolStaysInScope ==
  ASSUME NEW s \in Branches \union {NoBranch}, NEW r \in Requests, NEW up \in SUBSET Branches
  PROVE  LET did == runTool(s, r, up) IN
         /\ did.on \in SUBSET Branches /\ did.asked \in SUBSET Branches
         /\ s # NoBranch => did.on \subseteq {s} /\ (did.asked # {} => r.tool = "impact")
<1> DEFINE b == ledgerBranchName(applyScope(s, r))
<1>1. b \in Branches /\ (s # NoBranch => b = s)
  BY McpAssumption DEF applyScope, ledgerBranchName, Requests
<1> HIDE DEF b
<1>2. CASE scopeRefuses(s, r)
  BY <1>2 DEF runTool
<1>3. CASE ~ scopeRefuses(s, r) /\ r.tool = "one"
  BY <1>1, <1>3 DEF runTool, b
<1>4. CASE ~ scopeRefuses(s, r) /\ r.tool = "impact"
  BY <1>1, <1>4 DEF runTool, b, branchPresence
<1>5. CASE ~ scopeRefuses(s, r) /\ r.tool = "beyond"
  BY <1>1, <1>5 DEF runTool, b, scopeRefuses
<1> QED BY <1>2, <1>3, <1>4, <1>5 DEF Requests, Tools

\* ScopeInv is preserved by every message and every step of the server.
LEMMA ScopeInvInductive == ScopeInv /\ [McpNext]_mcpVars => ScopeInv'
<1> SUFFICES ASSUME ScopeInv, [McpNext]_mcpVars PROVE ScopeInv'
  OBVIOUS
<1> USE DEF ScopeInv, ScopedToItsBranch
<1>1. ASSUME NEW s \in Branches \union {NoBranch}, StartMCP(s) PROVE ScopeInv'
  BY <1>1 DEF StartMCP, NoServer
<1>2. CASE Write
  BY <1>2 DEF Write
<1>3. CASE CloseStdin
  BY <1>3 DEF CloseStdin
<1>4. CASE ServeRequest
  <2> DEFINE m == Head(stdin)
             did(up) == runTool(mcp.scope, m.req, up)
  <2>1. m.req \in Requests /\ Tail(stdin) \in Seq([line : {"request"}, req : Requests] \union [line : {Garbage, NotARequest}])
    BY <1>4 DEF ServeRequest, Garbage, NotARequest
  <2>2. PICK step \in {"serving", "ended"}, up \in SUBSET Branches :
          mcp' = [mcp EXCEPT !.pc = step, !.tool = m.req.tool, !.on = did(up).on, !.asked = did(up).asked]
    BY <1>4 DEF ServeRequest
  <2>3. /\ did(up).on \in SUBSET Branches /\ did(up).asked \in SUBSET Branches
        /\ mcp.scope # NoBranch => did(up).on \subseteq {mcp.scope} /\ (did(up).asked # {} => m.req.tool = "impact")
    BY <2>1, ToolStaysInScope
  <2>4. m.req.tool \in Tools
    BY <2>1 DEF Requests
  <2> HIDE DEF did, m
  <2>5. stdin' = Tail(stdin)
    BY <1>4 DEF ServeRequest
  <2>6. mcp' \in [pc : {"off", "serving", "ended"}, scope : Branches \union {NoBranch},
                  tool : Tools \union {"none"}, on : SUBSET Branches, asked : SUBSET Branches, broken : BOOLEAN]
    BY <2>2, <2>3, <2>4
  <2>7. ScopedToItsBranch'
    BY <2>2, <2>3
  <2> QED BY <2>1, <2>5, <2>6, <2>7
<1>5. CASE DecodeError
  <2>1. CASE /\ stdin # <<>> /\ Head(stdin).line = NotARequest
             /\ stdin' = Tail(stdin)
             /\ UNCHANGED mcp
    BY <2>1
  <2>2. CASE mcp' = [mcp EXCEPT !.broken = TRUE] /\ UNCHANGED stdin
    BY <2>2
  <2> QED BY <1>5, <2>1, <2>2 DEF DecodeError
<1>6. CASE EndOfFile
  BY <1>6 DEF EndOfFile
<1>7. CASE UNCHANGED mcpVars
  BY <1>7 DEF mcpVars
<1> QED BY <1>1, <1>2, <1>3, <1>4, <1>5, <1>6, <1>7 DEF McpNext, MCPStep

\* A server with a scoped key never works on another branch, nor on several, and
\* asks others through impact alone, for any sequence of requests.
THEOREM ScopedServerStaysOnItsBranch == McpSpec => []ScopedToItsBranch
<1>1. McpInit => ScopeInv
  BY DEF McpInit, NoServer, ScopeInv, ScopedToItsBranch
<1>2. ScopeInv => ScopedToItsBranch
  BY DEF ScopeInv
<1> QED BY <1>1, <1>2, ScopeInvInductive, PTL DEF McpSpec
-----------------------------------------------------------------------------
(* The Gateway's cancel keys *)

(***************************************************************************)
(* A key belongs to one connection at most, that connection is past its    *)
(* login, and the Gateway has it registered for that connection's branch;  *)
(* a registered key is a connection's or has leaked.                       *)
(***************************************************************************)
ConnStates == [pc : {"idle", "password", "login", "startup", "pipe"}, scope : Targets \union {Absent},
               on : Targets \union {Absent}, key : BackendKeys \union {Absent}]

KeyInv ==
  /\ issued \subseteq BackendKeys
  /\ scope \in [KeyIds -> Targets \union {Absent}]
  /\ cancelTargets \in [BackendKeys -> Targets \union {Absent}]
  /\ conn \in [Conns -> ConnStates]
  /\ \A c \in Conns : conn[c].key # Absent =>
       /\ conn[c].key \in issued
       /\ conn[c].pc \in {"startup", "pipe"}
       /\ cancelTargets[conn[c].key] = conn[c].on
  /\ \A c, d \in Conns : conn[c].key # Absent /\ conn[d].key = conn[c].key => d = c
  /\ \A k \in issued : cancelTargets[k] # Absent => k \in leaked \/ \E c \in Conns : conn[c].key = k

\* KeyInv holds after a step that leaves keys and their registrations alone, but
\* for one connection without a key.
LEMMA KeylessStep ==
  ASSUME KeyInv, NEW c \in Conns, conn[c].key = Absent, NEW r \in ConnStates, r.key = Absent,
         conn' = [conn EXCEPT ![c] = r], UNCHANGED <<scope, cancelTargets, issued, leaked>>
  PROVE  KeyInv'
<1>1. \A d \in Conns : conn'[d].key = conn[d].key /\ (d # c => conn'[d] = conn[d])
  BY DEF KeyInv
<1>2. conn' \in [Conns -> ConnStates]
  BY DEF KeyInv
<1> QED BY <1>1, <1>2, TargetsAssumption DEF KeyInv

\* KeyInv is preserved by every step of the Gateway and of the key store.
LEMMA KeyInvInductive == KeyInv /\ [GatewayNext]_gatewayVars => KeyInv'
<1> SUFFICES ASSUME KeyInv, [GatewayNext]_gatewayVars PROVE KeyInv'
  OBVIOUS
<1>0. Absent \notin BackendKeys /\ Main \in Targets
  BY TargetsAssumption
<1>n. NoConn \in ConnStates /\ NoConn.key = Absent
  BY DEF NoConn, ConnStates
<1>a. CASE UNCHANGED <<conn, cancelTargets, issued, leaked>> /\ scope' \in [KeyIds -> Targets \union {Absent}]
  BY <1>a DEF KeyInv
<1>b. ASSUME NEW k \in KeyIds, revokeAPIKey(k) PROVE KeyInv'
  BY <1>a, <1>b DEF revokeAPIKey, Revoke, KeyInv
<1>c. ASSUME NEW s \in Targets, RevokeScopeKeys(s) PROVE KeyInv'
  BY <1>a, <1>c DEF RevokeScopeKeys, Revoke, KeyInv
<1>k. ASSUME NEW k \in KeyIds, NEW s \in Targets \union {Absent}, CreateScopedAPIKey(k, s) PROVE KeyInv'
  BY <1>a, <1>k DEF CreateScopedAPIKey, KeyInv
<1>d. ASSUME NEW c \in Conns, NEW t \in Targets \union {Absent}, readStartup(c, t) PROVE KeyInv'
  <2> DEFINE r == [NoConn EXCEPT !.pc = "password", !.on = t]
  <2>1. conn[c].key = Absent
    BY <1>d DEF readStartup, KeyInv
  <2>2. conn' = [conn EXCEPT ![c] = r] /\ UNCHANGED <<scope, cancelTargets, issued, leaked>>
    BY <1>d DEF readStartup, SetConn, keyVars
  <2>3. r \in ConnStates /\ r.key = Absent
    BY DEF NoConn, ConnStates
  <2> QED BY <2>1, <2>2, <2>3, KeylessStep
<1>e. ASSUME NEW c \in Conns, NEW k \in KeyIds, Connect(c, k) PROVE KeyInv'
  <2> DEFINE target == IF conn[c].on = Absent THEN Main ELSE conn[c].on
             ok == VerifyKey(k) /\ scopeAllows(scope[k], target)
             r == [NoConn EXCEPT !.pc = "login", !.scope = scope[k], !.on = target]
  <2>1. conn[c].key = Absent /\ UNCHANGED <<scope, cancelTargets, issued, leaked>>
    BY <1>e DEF Connect, KeyInv, keyVars
  <2>2. conn' = [conn EXCEPT ![c] = IF ok THEN r ELSE NoConn]
    BY <1>e DEF Connect, SetConn
  <2>3. r \in ConnStates /\ r.key = Absent
    BY <1>0 DEF NoConn, ConnStates, KeyInv
  <2> HIDE DEF r, ok
  <2>4. CASE ok
    BY <2>1, <2>2, <2>3, <2>4, KeylessStep
  <2>5. CASE ~ ok
    BY <1>n, <2>1, <2>2, <2>5, KeylessStep
  <2> QED BY <2>4, <2>5
<1>f. ASSUME NEW c \in Conns, backendAuth(c) PROVE KeyInv'
  <2> DEFINE r == [conn[c] EXCEPT !.pc = "startup"]
  <2>1. conn[c].key = Absent /\ UNCHANGED <<scope, cancelTargets, issued, leaked>>
    BY <1>f DEF backendAuth, KeyInv, keyVars
  <2>2. conn' = [conn EXCEPT ![c] = NoConn] \/ conn' = [conn EXCEPT ![c] = r]
    BY <1>f DEF backendAuth, SetConn, ConnGoto
  <2>3. r \in ConnStates /\ r.key = Absent
    BY <2>1 DEF ConnStates, KeyInv
  <2> HIDE DEF r
  <2> QED BY <1>n, <2>1, <2>2, <2>3, KeylessStep
<1>g. ASSUME NEW c \in Conns, ReadyForQuery(c) PROVE KeyInv'
  <2>1. /\ conn' = [conn EXCEPT ![c] = [conn[c] EXCEPT !.pc = "pipe"]]
        /\ UNCHANGED <<scope, cancelTargets, issued, leaked>>
    BY <1>g DEF ReadyForQuery, ConnGoto, SetConn, keyVars
  <2>2. conn' \in [Conns -> ConnStates]
    BY <2>1 DEF KeyInv, ConnStates
  <2>3. \A d \in Conns : /\ conn'[d].key = conn[d].key /\ conn'[d].on = conn[d].on
                         /\ conn'[d].pc \in {conn[d].pc, "pipe"}
    BY <2>1 DEF KeyInv, ConnStates
  <2> QED BY <2>1, <2>2, <2>3 DEF KeyInv
<1>h. ASSUME NEW c \in Conns, StartupFails(c) PROVE KeyInv'
  <2>1. /\ conn' = [conn EXCEPT ![c] = NoConn]
        /\ leaked' = leaked \union ({conn[c].key} \ {Absent})
        /\ UNCHANGED <<scope, cancelTargets, issued>>
    BY <1>h DEF StartupFails, SetConn, keyVars
  <2>2. conn' \in [Conns -> ConnStates] /\ \A d \in Conns : conn'[d] = IF d = c THEN NoConn ELSE conn[d]
    BY <1>n, <2>1 DEF KeyInv
  <2> QED BY <1>0, <1>n, <2>1, <2>2 DEF KeyInv
<1>i. ASSUME NEW c \in Conns, Disconnect(c) PROVE KeyInv'
  <2>1. /\ conn' = [conn EXCEPT ![c] = NoConn]
        /\ cancelTargets' = [k \in BackendKeys |-> IF k = conn[c].key THEN Absent ELSE cancelTargets[k]]
        /\ UNCHANGED <<scope, issued, leaked>>
    BY <1>i DEF Disconnect, SetConn, deregisterCancel, keyVars
  <2>2. conn' \in [Conns -> ConnStates] /\ \A d \in Conns : conn'[d] = IF d = c THEN NoConn ELSE conn[d]
    BY <1>n, <2>1 DEF KeyInv
  <2>3. /\ cancelTargets' \in [BackendKeys -> Targets \union {Absent}]
        /\ \A k \in BackendKeys : cancelTargets'[k] = IF k = conn[c].key THEN Absent ELSE cancelTargets[k]
    BY <2>1 DEF KeyInv
  <2>4. \A k \in issued : cancelTargets'[k] # Absent => k \in leaked \/ \E d \in Conns : conn'[d].key = k
    BY <2>2, <2>3 DEF KeyInv
  <2> QED BY <1>0, <1>n, <2>1, <2>2, <2>3, <2>4 DEF KeyInv
<1>j. ASSUME NEW c \in Conns, NEW key \in BackendKeys, BackendKeyData(c, key) PROVE KeyInv'
  <2>1. /\ conn[c].key = Absent /\ conn[c].pc = "startup" /\ key \notin issued
        /\ conn' = [conn EXCEPT ![c] = [conn[c] EXCEPT !.key = key]]
        /\ cancelTargets' = [cancelTargets EXCEPT ![key] = conn[c].on]
        /\ issued' = issued \union {key} /\ UNCHANGED <<scope, leaked>>
    BY <1>j DEF BackendKeyData, SetConn, keyVars
  <2>2. conn' \in [Conns -> ConnStates]
    BY <2>1 DEF KeyInv, ConnStates
  <2>3. \A d \in Conns : /\ conn'[d].key = IF d = c THEN key ELSE conn[d].key
                         /\ conn'[d].on = conn[d].on /\ conn'[d].pc = conn[d].pc
    BY <2>1 DEF KeyInv, ConnStates
  <2>4. /\ cancelTargets' \in [BackendKeys -> Targets \union {Absent}]
        /\ \A k \in BackendKeys : cancelTargets'[k] = IF k = key THEN conn[c].on ELSE cancelTargets[k]
    BY <2>1 DEF KeyInv, ConnStates
  <2> QED BY <1>0, <2>1, <2>2, <2>3, <2>4 DEF KeyInv
<1>l. CASE UNCHANGED gatewayVars
  BY <1>a, <1>l DEF gatewayVars, keyVars, KeyInv
<1> QED BY <1>b, <1>c, <1>d, <1>e, <1>f, <1>g, <1>h, <1>i, <1>j, <1>k, <1>l
        DEF GatewayNext, GatewayStep

\* For any number of connections, branches and keys a cancel request reaches the
\* branch of the session whose key it has, and a key of no session reaches nobody
\* unless that session failed within its startup.
THEOREM CancelsStayWithTheirSession == GatewaySpec => []CancelReachesItsSession
<1>1. GatewayInit => KeyInv
  BY DEF GatewayInit, KeyInv, NoConn, ConnStates
<1>2. KeyInv => CancelReachesItsSession
  BY TargetsAssumption DEF KeyInv, CancelReachesItsSession, CancelReaches
<1> QED BY <1>1, <1>2, KeyInvInductive, PTL DEF GatewaySpec
-----------------------------------------------------------------------------
(* The accounts of people who sign in through a provider *)

Accts == People \union Emails
SignInStates == [pc : {"idle", "identity", "email", "create", "link", "session", "failed"},
                 who : People \union {Nobody}, mail : Emails \union {Nobody}, acct : Accts \union {Nobody},
                 err : BOOLEAN]

AccountTypes ==
  /\ users \subseteq Accts
  /\ identity \in [People -> Accts \union {Nobody}]
  /\ mail \in [People -> Emails \union {Nobody}]
  /\ signin \in [SignIns -> SignInStates]
  /\ seenAs \in [People -> SUBSET Accts]
  /\ \A c \in SignIns : /\ signin[c].pc # "idle" => signin[c].who \in People
                        /\ signin[c].pc \in {"link", "session"} => signin[c].acct \in Accts

(***************************************************************************)
(* A person with no lost identity row and no overlapping first sign-in has *)
(* one callback under way at most; past the first query it works for       *)
(* somebody who has no identity row yet, and nobody else takes the address *)
(* it is about to create, unless its own query failed; whoever was or is   *)
(* being signed in is signed in as the account of the identity row; and    *)
(* the made-up address of somebody without one has an account only if the  *)
(* identity row exists or is next.                                         *)
(***************************************************************************)
PersonInv(p) ==
  /\ \A c, d \in Starting(p) : c = d
  /\ \A c \in SignIns : signin[c].who = p =>
       /\ signin[c].pc \in {"email", "create", "link"} => identity[p] = Nobody
       /\ signin[c].pc = "create" /\ ~ signin[c].err => signin[c].mail \notin users
       /\ signin[c].pc = "session" => signin[c].acct = identity[p] /\ identity[p] # Nobody
       /\ signin[c].pc = "failed" => signin[c].err
  /\ seenAs[p] \subseteq {identity[p]}
  /\ p \in users => identity[p] # Nobody \/ \E c \in SignIns : signin[c].who = p /\ signin[c].pc = "link"

AccountInv ==
  /\ AccountTypes
  /\ \A p \in People : p \notin lost \union crossed => PersonInv(p)

\* AccountInv is preserved by every statement of every sign-in and registration.
LEMMA AccountInvInductive == AccountInv /\ [AccountsNext]_accountVars => AccountInv'
<1> SUFFICES ASSUME AccountInv, [AccountsNext]_accountVars PROVE AccountInv'
  OBVIOUS
<1> USE AccountsAssumption
<1>1. ASSUME NEW p \in People, ChangeMail(p) PROVE AccountInv'
  <2>1. mail' \in [People -> Emails \union {Nobody}] /\ UNCHANGED <<users, identity, signin, seenAs, lost, crossed>>
    BY <1>1 DEF ChangeMail, store, history, AccountInv, AccountTypes
  <2> QED BY <2>1 DEF AccountInv, AccountTypes, PersonInv, Starting
<1>2. ASSUME NEW e \in Emails, Register(e) PROVE AccountInv'
  <2>1. /\ users' = users \union {e} /\ crossed' = crossed \union Awaiting(e)
        /\ UNCHANGED <<identity, mail, signin, seenAs, lost>>
    BY <1>2 DEF Register
  <2>2. AccountTypes'
    BY <2>1 DEF AccountInv, AccountTypes, Accts
  <2>3. ASSUME NEW p \in People, p \notin lost' \union crossed' PROVE PersonInv(p)'
    <3>1. PersonInv(p) /\ p \notin Awaiting(e)
      BY <2>1, <2>3 DEF AccountInv
    <3>2. \A c \in SignIns : signin[c].who = p /\ signin[c].pc = "create" => signin[c].mail # e
      BY <3>1 DEF Awaiting, Starting, Address
    <3>3. p # e
      OBVIOUS
    <3> QED BY <2>1, <3>1, <3>2, <3>3 DEF PersonInv, Starting
  <2> QED BY <2>2, <2>3 DEF AccountInv
<1>3. ASSUME NEW c \in SignIns, NEW p \in People, Callback(c, p) PROVE AccountInv'
  <2>0. PICK m \in {mail[p], Nobody} : Step(c, [NoSignIn EXCEPT !.pc = "identity", !.who = p, !.mail = m])
    BY <1>3 DEF Callback
  <2> DEFINE r == [NoSignIn EXCEPT !.pc = "identity", !.who = p, !.mail = m]
  <2>1. /\ signin[c].pc = "idle" /\ signin' = [signin EXCEPT ![c] = r]
        /\ crossed' = IF Starting(p) = {} THEN crossed ELSE crossed \union {p}
        /\ UNCHANGED <<users, identity, mail, seenAs, lost>>
    BY <1>3, <2>0 DEF Callback, Step, store
  <2>2. r \in SignInStates /\ r.pc = "identity" /\ r.who = p
    BY <2>0 DEF NoSignIn, SignInStates, AccountInv, AccountTypes
  <2> HIDE DEF r
  <2>3. AccountTypes'
    BY <2>1, <2>2 DEF AccountInv, AccountTypes
  <2>4. \A d \in SignIns : signin'[d] = IF d = c THEN r ELSE signin[d]
    BY <2>1 DEF AccountInv, AccountTypes
  <2>5. ASSUME NEW q \in People, q \notin lost' \union crossed' PROVE PersonInv(q)'
    <3>1. PersonInv(q) /\ (q = p => Starting(p) = {})
      BY <2>1, <2>5 DEF AccountInv
    <3> QED BY <2>1, <2>2, <2>4, <3>1 DEF PersonInv, Starting
  <2> QED BY <2>3, <2>5 DEF AccountInv
<1>4. ASSUME NEW c \in SignIns, FindIdentity(c) PROVE AccountInv'
  <2> DEFINE w == signin[c].who
             a == identity[w]
  <2>0. /\ signin[c].pc = "identity" /\ signin[c] \in SignInStates /\ w \in People
        /\ a \in Accts \union {Nobody}
        /\ UNCHANGED <<users, identity, mail, seenAs, crossed>>
    BY <1>4 DEF FindIdentity, store, AccountInv, AccountTypes
  <2>1. \E r \in SignInStates :
          /\ signin' = [signin EXCEPT ![c] = r] /\ r.who = w
          /\ \/ r.pc = "email" /\ ((lost' = lost /\ a = Nobody) \/ lost' = lost \union {w})
             \/ r.pc = "session" /\ r.acct = a /\ a # Nobody /\ lost' = lost
             \/ r.pc = "failed" /\ r.err /\ lost' = lost
    <3>1. CASE Step(c, [signin[c] EXCEPT !.pc = IF a = Nobody THEN "email" ELSE "session", !.acct = a]) /\ UNCHANGED lost
      <4> DEFINE r == [signin[c] EXCEPT !.pc = IF a = Nobody THEN "email" ELSE "session", !.acct = a]
      <4>1. r \in SignInStates /\ r.who = w /\ r.acct = a /\ r.pc = IF a = Nobody THEN "email" ELSE "session"
        BY <2>0, <3>1 DEF SignInStates
      <4>2. signin' = [signin EXCEPT ![c] = r]
        BY <3>1 DEF Step
      <4> HIDE DEF r
      <4> QED BY <2>0, <3>1, <4>1, <4>2
    <3>2. CASE Goto(c, "email") /\ lost' = lost \union {w}
      <4> DEFINE r == [signin[c] EXCEPT !.pc = "email"]
      <4>1. r \in SignInStates /\ r.who = w /\ r.pc = "email"
        BY <2>0, <3>2 DEF SignInStates
      <4>2. signin' = [signin EXCEPT ![c] = r]
        BY <3>2 DEF Goto, Step
      <4> HIDE DEF r
      <4> QED BY <2>0, <3>2, <4>1, <4>2
    <3>3. CASE Erred(c, "failed") /\ UNCHANGED lost
      <4> DEFINE r == [signin[c] EXCEPT !.pc = "failed", !.err = TRUE]
      <4>1. r \in SignInStates /\ r.who = w /\ r.pc = "failed" /\ r.err
        BY <2>0, <3>3 DEF SignInStates
      <4>2. signin' = [signin EXCEPT ![c] = r]
        BY <3>3 DEF Erred, Step
      <4> HIDE DEF r
      <4> QED BY <2>0, <3>3, <4>1, <4>2
    <3> QED BY <1>4, <3>1, <3>2, <3>3 DEF FindIdentity
  <2>2. PICK r \in SignInStates :
          /\ signin' = [signin EXCEPT ![c] = r] /\ r.who = w
          /\ \/ r.pc = "email" /\ ((lost' = lost /\ a = Nobody) \/ lost' = lost \union {w})
             \/ r.pc = "session" /\ r.acct = a /\ a # Nobody /\ lost' = lost
             \/ r.pc = "failed" /\ r.err /\ lost' = lost
    BY <2>1
  <2>3. AccountTypes'
    BY <2>0, <2>2 DEF AccountInv, AccountTypes
  <2>4. \A d \in SignIns : signin'[d] = IF d = c THEN r ELSE signin[d]
    BY <2>2 DEF AccountInv, AccountTypes
  <2>5. ASSUME NEW q \in People, q \notin lost' \union crossed' PROVE PersonInv(q)'
    <3>1. PersonInv(q) /\ (q = w => lost' = lost \/ r.pc # "email")
      BY <2>0, <2>2, <2>5 DEF AccountInv
    <3>2. CASE q = w
      BY <2>0, <2>2, <2>4, <2>5, <3>1, <3>2 DEF PersonInv, Starting
    <3>3. CASE q # w
      <4>1. \A d \in SignIns : /\ signin'[d].who = signin[d].who
                               /\ signin[d].who = q => signin'[d] = signin[d]
        BY <2>2, <2>4, <3>3
      <4> QED BY <2>0, <3>1, <4>1 DEF PersonInv, Starting
    <3> QED BY <3>2, <3>3
  <2> QED BY <2>3, <2>5 DEF AccountInv
<1>5. ASSUME NEW c \in SignIns, FindEmail(c) PROVE AccountInv'
  <2> DEFINE found == signin[c].mail \in users
  <2>1. /\ signin[c].pc = "email" /\ signin[c] \in SignInStates /\ signin[c].who \in People
        /\ found => signin[c].mail \in Accts
        /\ UNCHANGED <<users, identity, mail, seenAs, lost, crossed>>
    BY <1>5 DEF FindEmail, store, history, AccountInv, AccountTypes
  <2>a. \E r \in SignInStates :
          /\ signin' = [signin EXCEPT ![c] = r] /\ r.who = signin[c].who /\ r.mail = signin[c].mail
          /\ \/ r.pc = "link" /\ r.acct \in Accts
             \/ r.pc = "create" /\ (r.err \/ ~ found)
    <3>1. CASE found /\ Step(c, [signin[c] EXCEPT !.pc = "link", !.acct = signin[c].mail])
      <4> DEFINE r == [signin[c] EXCEPT !.pc = "link", !.acct = signin[c].mail]
      <4>1. r \in SignInStates /\ r.who = signin[c].who /\ r.mail = signin[c].mail /\ r.pc = "link" /\ r.acct = signin[c].mail
        BY <2>1, <3>1 DEF SignInStates
      <4>2. signin' = [signin EXCEPT ![c] = r]
        BY <3>1 DEF Step
      <4> HIDE DEF r
      <4> QED BY <2>1, <3>1, <4>1, <4>2
    <3>2. CASE ~ found /\ Goto(c, "create")
      <4> DEFINE r == [signin[c] EXCEPT !.pc = "create"]
      <4>1. r \in SignInStates /\ r.who = signin[c].who /\ r.mail = signin[c].mail /\ r.pc = "create"
        BY <2>1, <3>2 DEF SignInStates
      <4>2. signin' = [signin EXCEPT ![c] = r]
        BY <3>2 DEF Goto, Step
      <4> HIDE DEF r
      <4> QED BY <2>1, <3>2, <4>1, <4>2
    <3>3. CASE Erred(c, "create")
      <4> DEFINE r == [signin[c] EXCEPT !.pc = "create", !.err = TRUE]
      <4>1. r \in SignInStates /\ r.who = signin[c].who /\ r.mail = signin[c].mail /\ r.pc = "create" /\ r.err
        BY <2>1, <3>3 DEF SignInStates
      <4>2. signin' = [signin EXCEPT ![c] = r]
        BY <3>3 DEF Erred, Step
      <4> HIDE DEF r
      <4> QED BY <2>1, <3>3, <4>1, <4>2
    <3> QED BY <1>5, <3>1, <3>2, <3>3 DEF FindEmail
  <2>2. PICK r \in SignInStates :
          /\ signin' = [signin EXCEPT ![c] = r] /\ r.who = signin[c].who /\ r.mail = signin[c].mail
          /\ \/ r.pc = "link" /\ r.acct \in Accts
             \/ r.pc = "create" /\ (r.err \/ ~ found)
    BY <2>a
  <2>3. AccountTypes'
    BY <2>1, <2>2 DEF AccountInv, AccountTypes
  <2>4. \A d \in SignIns : signin'[d] = IF d = c THEN r ELSE signin[d]
    BY <2>2 DEF AccountInv, AccountTypes
  <2>5. ASSUME NEW q \in People, q \notin lost' \union crossed' PROVE PersonInv(q)'
    <3>1. PersonInv(q)
      BY <2>1, <2>5 DEF AccountInv
    <3> QED BY <2>1, <2>2, <2>4, <3>1 DEF PersonInv, Starting
  <2> QED BY <2>3, <2>5 DEF AccountInv
<1>6. ASSUME NEW c \in SignIns, CreateUser(c) PROVE AccountInv'
  <2> DEFINE w == signin[c].who
             e == Address(w, signin[c].mail)
  <2>0. signin[c].pc = "create" /\ w \in People /\ e \in Accts /\ UNCHANGED <<identity, mail, seenAs, lost>>
    BY <1>6 DEF CreateUser, AccountInv, AccountTypes, SignInStates, Accts, Address
  <2>a. CASE /\ UNCHANGED <<users, crossed>>
             /\ (e \in users /\ Goto(c, "failed")) \/ Erred(c, "failed")
    <3>1. PICK r \in SignInStates :
            /\ signin' = [signin EXCEPT ![c] = r] /\ r.who = w /\ r.pc = "failed"
            /\ r.err \/ (e \in users /\ ~ signin[c].err)
      <4>1. signin[c] \in SignInStates
        BY DEF AccountInv, AccountTypes
      <4>2. CASE e \in users /\ Goto(c, "failed")
        <5> DEFINE r == [signin[c] EXCEPT !.pc = "failed"]
        <5>1. r \in SignInStates /\ r.who = w /\ r.pc = "failed" /\ r.err = signin[c].err /\ r.err \in BOOLEAN
          BY <4>1, <4>2 DEF SignInStates
        <5>2. signin' = [signin EXCEPT ![c] = r]
          BY <4>2 DEF Goto, Step
        <5> HIDE DEF r
        <5> QED BY <4>1, <4>2, <5>1, <5>2
      <4>3. CASE Erred(c, "failed")
        <5> DEFINE r == [signin[c] EXCEPT !.pc = "failed", !.err = TRUE]
        <5>1. r \in SignInStates /\ r.who = w /\ r.pc = "failed" /\ r.err
          BY <4>1, <4>3 DEF SignInStates
        <5>2. signin' = [signin EXCEPT ![c] = r]
          BY <4>3 DEF Erred, Step
        <5> HIDE DEF r
        <5> QED BY <4>1, <4>3, <5>1, <5>2
      <4> QED BY <2>a, <4>2, <4>3
    <3>2. r \in SignInStates /\ r.who = w /\ r.pc = "failed" /\ UNCHANGED <<users, crossed>>
      BY <2>a, <3>1
    <3>3. AccountTypes'
      BY <2>0, <3>1, <3>2 DEF AccountInv, AccountTypes
    <3>4. \A d \in SignIns : signin'[d] = IF d = c THEN r ELSE signin[d]
      BY <3>1 DEF AccountInv, AccountTypes
    <3>5. r.err \/ w \in lost \union crossed
      <4> SUFFICES ASSUME ~ r.err, w \notin lost \union crossed PROVE FALSE
        OBVIOUS
      <4>1. PersonInv(w)
        BY <2>0 DEF AccountInv
      <4>2. signin[c].mail \notin users /\ identity[w] = Nobody
        BY <2>0, <3>1, <4>1 DEF PersonInv
      <4>3. e = w /\ w \in users
        BY <3>1, <4>2 DEF Address
      <4>4. PICK d \in SignIns : signin[d].who = w /\ signin[d].pc = "link"
        BY <4>1, <4>2, <4>3 DEF PersonInv
      <4>5. c \in Starting(w) /\ d \in Starting(w)
        BY <2>0, <4>4 DEF Starting
      <4> QED BY <2>0, <4>1, <4>4, <4>5 DEF PersonInv
    <3>6. ASSUME NEW q \in People, q \notin lost' \union crossed' PROVE PersonInv(q)'
      <4>1. PersonInv(q) /\ (q = w => r.err)
        BY <2>0, <3>2, <3>5, <3>6 DEF AccountInv
      <4>2. \A d \in SignIns : signin'[d].who = q <=> signin[d].who = q
        BY <3>2, <3>4
      <4>3. \A d \in SignIns : signin[d].who = q => signin'[d] = signin[d] \/ (d = c /\ q = w /\ signin'[d] = r)
        BY <3>4
      <4> QED BY <2>0, <3>2, <4>1, <4>2, <4>3 DEF PersonInv, Starting
    <3> QED BY <3>3, <3>6 DEF AccountInv
  <2>b. CASE /\ e \notin users /\ users' = users \union {e}
             /\ Step(c, [signin[c] EXCEPT !.pc = "link", !.acct = e])
             /\ crossed' = crossed \union (Awaiting(e) \ {w})
    <3> DEFINE r == [signin[c] EXCEPT !.pc = "link", !.acct = e]
    <3>1. /\ signin' = [signin EXCEPT ![c] = r] /\ users' = users \union {e}
          /\ crossed' = crossed \union (Awaiting(e) \ {w})
      BY <2>b DEF Step
    <3>2. r \in SignInStates /\ r.who = w /\ r.pc = "link" /\ r.acct = e
      BY <2>0 DEF SignInStates, AccountInv, AccountTypes
    <3> HIDE DEF r
    <3>3. AccountTypes'
      BY <2>0, <3>1, <3>2 DEF AccountInv, AccountTypes
    <3>4. \A d \in SignIns : signin'[d] = IF d = c THEN r ELSE signin[d]
      BY <3>1 DEF AccountInv, AccountTypes
    <3>5. ASSUME NEW q \in People, q \notin lost' \union crossed' PROVE PersonInv(q)'
      <4>1. PersonInv(q)
        BY <2>0, <3>1, <3>5 DEF AccountInv
      <4>2. ASSUME NEW d \in SignIns, signin'[d].who = q, signin'[d].pc = "create", ~ signin'[d].err
            PROVE  signin'[d].mail \notin users'
        <5>1. d # c /\ signin'[d] = signin[d]
          BY <3>2, <3>4, <4>2
        <5>2. signin[d].mail \notin users
          BY <4>1, <4>2, <5>1 DEF PersonInv
        <5>3. d \in Starting(q)
          BY <4>2, <5>1 DEF Starting
        <5>4. CASE q = w
          <6>1. c \in Starting(q)
            BY <2>0, <5>4 DEF Starting
          <6> QED BY <4>1, <5>1, <5>3, <6>1 DEF PersonInv
        <5>5. CASE q # w
          <6>1. q \notin Awaiting(e)
            BY <3>1, <3>5, <5>5
          <6>2. Address(q, signin[d].mail) # e
            BY <5>3, <6>1 DEF Awaiting
          <6>3. signin[d].mail \in Emails \union {Nobody}
            BY DEF AccountInv, AccountTypes, SignInStates
          <6> QED BY <2>0, <3>1, <5>1, <5>2, <6>2, <6>3 DEF Address, Accts
        <5> QED BY <5>4, <5>5
      <4>3. q \in users' => identity'[q] # Nobody \/ \E d \in SignIns : signin'[d].who = q /\ signin'[d].pc = "link"
        <5>1. ASSUME q = e PROVE q = w
          BY <5>1 DEF Address, AccountInv, AccountTypes, SignInStates
        <5>2. CASE q = w
          BY <3>2, <3>4, <5>2
        <5>3. CASE q # w
          <6>1. q \in users' => q \in users
            BY <3>1, <5>1, <5>3
          <6>2. \A d \in SignIns : signin[d].who = q => signin'[d] = signin[d]
            BY <3>4, <5>3
          <6> QED BY <2>0, <4>1, <6>1, <6>2 DEF PersonInv
        <5> QED BY <5>2, <5>3
      <4>4. \A d \in SignIns : signin'[d].who = signin[d].who
        BY <3>2, <3>4
      <4>5. Starting(q)' = Starting(q)
        BY <2>0, <3>2, <3>4, <4>4 DEF Starting
      <4> QED BY <2>0, <3>2, <3>4, <4>1, <4>2, <4>3, <4>4, <4>5 DEF PersonInv
    <3> QED BY <3>3, <3>5 DEF AccountInv
  <2> QED BY <1>6, <2>a, <2>b DEF CreateUser
<1>7. ASSUME NEW c \in SignIns, Link(c) PROVE AccountInv'
  <2> DEFINE w == signin[c].who
             r == [signin[c] EXCEPT !.pc = "session"]
  <2>1. /\ signin[c].pc = "link" /\ w \in People /\ signin[c].acct \in Accts
        /\ signin' = [signin EXCEPT ![c] = r]
        /\ \/ identity' = [identity EXCEPT ![w] = IF @ = Nobody THEN signin[c].acct ELSE @] /\ lost' = lost
           \/ lost' = lost \union {w} /\ identity' = identity
        /\ UNCHANGED <<users, mail, seenAs, crossed>>
    BY <1>7 DEF Link, Goto, Step, AccountInv, AccountTypes
  <2>2. r \in SignInStates /\ r.who = w /\ r.acct = signin[c].acct /\ r.pc = "session"
    BY DEF SignInStates, AccountInv, AccountTypes
  <2> HIDE DEF r
  <2>3. AccountTypes'
    <3>1. identity' \in [People -> Accts \union {Nobody}]
      BY <2>1 DEF AccountInv, AccountTypes
    <3> QED BY <2>1, <2>2, <3>1 DEF AccountInv, AccountTypes
  <2>4. \A d \in SignIns : signin'[d] = IF d = c THEN r ELSE signin[d]
    BY <2>1 DEF AccountInv, AccountTypes
  <2>5. ASSUME NEW q \in People, q \notin lost' \union crossed' PROVE PersonInv(q)'
    <3>1. PersonInv(q)
      BY <2>1, <2>5 DEF AccountInv
    <3>2. CASE q # w
      <4>1. identity'[q] = identity[q]
        BY <2>1, <3>2 DEF AccountInv, AccountTypes
      <4>2. \A d \in SignIns : /\ signin'[d].who = q <=> signin[d].who = q
                               /\ signin[d].who = q => signin'[d] = signin[d]
        BY <2>2, <2>4, <3>2
      <4> QED BY <2>1, <3>1, <4>1, <4>2 DEF PersonInv, Starting
    <3>3. CASE q = w
      <4>1. c \in Starting(q)
        BY <2>1, <3>3 DEF Starting
      <4>2. Starting(q) = {c}
        BY <3>1, <4>1 DEF PersonInv
      <4>3. identity[q] = Nobody /\ identity'[q] = signin[c].acct /\ identity'[q] # Nobody
        BY <2>1, <2>5, <3>1, <3>3 DEF PersonInv, AccountInv, AccountTypes, Accts
      <4>4. \A d \in SignIns : signin[d].who = q /\ d # c => signin'[d] = signin[d] /\ signin[d].pc \notin {"identity", "email", "create", "link", "session"}
        BY <2>4, <3>1, <4>2, <4>3 DEF Starting, PersonInv
      <4>5. seenAs[q] = {}
        BY <3>1, <4>3 DEF PersonInv, AccountInv, AccountTypes, Accts
      <4>6. Starting(q)' = {}
        BY <2>2, <2>4, <4>4 DEF Starting
      <4>7. \A d \in SignIns : signin'[d].who = signin[d].who
        BY <2>2, <2>4
      <4> QED BY <2>1, <2>2, <2>4, <3>1, <4>3, <4>4, <4>5, <4>6, <4>7 DEF PersonInv
    <3> QED BY <3>2, <3>3
  <2> QED BY <2>3, <2>5 DEF AccountInv
<1>8. ASSUME NEW c \in SignIns, CreateSession(c) \/ Retry(c) PROVE AccountInv'
  <2> DEFINE w == signin[c].who
  <2>1. /\ w \in People /\ signin' = [signin EXCEPT ![c] = NoSignIn]
        /\ UNCHANGED <<users, identity, mail, lost, crossed>>
        /\ \/ signin[c].pc = "session" /\ seenAs' = [seenAs EXCEPT ![w] = @ \union {signin[c].acct}]
           \/ signin[c].pc \in {"session", "failed"} /\ seenAs' = seenAs
    BY <1>8 DEF CreateSession, Retry, Step, store, history, AccountInv, AccountTypes
  <2>2. NoSignIn \in SignInStates /\ NoSignIn.pc = "idle" /\ NoSignIn.who = Nobody
    BY DEF NoSignIn, SignInStates
  <2>4. \A d \in SignIns : signin'[d] = IF d = c THEN NoSignIn ELSE signin[d]
    BY <2>1 DEF AccountInv, AccountTypes
  <2>5. ASSUME NEW q \in People, q \notin lost' \union crossed' PROVE PersonInv(q)'
    <3>1. PersonInv(q)
      BY <2>1, <2>5 DEF AccountInv
    <3>2. seenAs'[q] \subseteq {identity[q]}
      BY <2>1, <3>1 DEF PersonInv, AccountInv, AccountTypes
    <3>3. \A d \in SignIns : /\ signin'[d].who = q => signin'[d] = signin[d]
                             /\ signin[d].who = q /\ signin[d].pc = "link" => signin'[d] = signin[d]
      BY <2>1, <2>2, <2>4
    <3> QED BY <2>1, <3>1, <3>2, <3>3 DEF PersonInv, Starting
  <2>6. AccountTypes'
    <3>1. CASE seenAs' = seenAs
      BY <2>1, <2>2, <2>4, <3>1 DEF AccountInv, AccountTypes
    <3>2. CASE signin[c].pc = "session" /\ seenAs' = [seenAs EXCEPT ![w] = @ \union {signin[c].acct}]
      BY <2>1, <2>2, <2>4, <3>2 DEF AccountInv, AccountTypes
    <3> QED BY <2>1, <3>1, <3>2
  <2> QED BY <2>5, <2>6 DEF AccountInv
<1>9. CASE ServerDies
  <2>1. /\ signin' = [c \in SignIns |-> NoSignIn]
        /\ \A c \in SignIns : signin[c].pc = "link" => signin[c].who \in lost'
        /\ lost \subseteq lost' /\ UNCHANGED <<users, identity, mail, seenAs, crossed>>
    BY <1>9 DEF ServerDies, store
  <2>2. NoSignIn \in SignInStates /\ NoSignIn.pc = "idle" /\ NoSignIn.who = Nobody
    BY DEF NoSignIn, SignInStates
  <2>3. AccountTypes'
    BY <2>1, <2>2 DEF AccountInv, AccountTypes
  <2>4. ASSUME NEW q \in People, q \notin lost' \union crossed' PROVE PersonInv(q)'
    <3>1. PersonInv(q)
      BY <2>1, <2>4 DEF AccountInv
    <3> QED BY <2>1, <2>2, <2>4, <3>1 DEF PersonInv, Starting
  <2> QED BY <2>3, <2>4 DEF AccountInv
<1>10. CASE UNCHANGED accountVars
  BY <1>10 DEF accountVars, store, history, AccountInv, AccountTypes, PersonInv, Starting
<1> QED BY <1>1, <1>2, <1>3, <1>4, <1>5, <1>6, <1>7, <1>8, <1>9, <1>10 DEF AccountsNext, SignIn

\* AccountInv holds at the start.
LEMMA AccountInvInit == AccountsInit => AccountInv
BY AccountsAssumption DEF AccountsInit, AccountInv, AccountTypes, PersonInv, Starting, NoSignIn, SignInStates

\* However the statements of any number of sign-ins and registrations interleave,
\* and whichever of them fail, a person arrives at one account, but for the causes
\* named.
THEOREM OnePersonOneAccount == AccountsSpec => []OneAccountPerPerson
<1>1. AccountInv => OneAccountPerPerson
  <2> SUFFICES ASSUME AccountInv, NEW p \in People, p \notin lost \union crossed
               PROVE  ~ (Cardinality(seenAs[p]) > 1)
    BY DEF OneAccountPerPerson
  <2>1. seenAs[p] = {} \/ seenAs[p] = {identity[p]}
    BY DEF AccountInv, PersonInv
  <2>2. Cardinality({}) = 0 /\ Cardinality({identity[p]}) = 1
    BY FS_EmptySet, FS_Singleton
  <2> QED BY <2>1, <2>2
<1> QED BY <1>1, AccountInvInit, AccountInvInductive, PTL DEF AccountsSpec

\* A confirmed sign-in fails for one of the same causes only, or because one of its
\* own statements failed.
THEOREM SignInsFailForACause == AccountsSpec => []FailedSignInHasACause
<1>1. AccountInv => FailedSignInHasACause
  BY DEF AccountInv, AccountTypes, PersonInv, FailedSignInHasACause
<1> QED BY <1>1, AccountInvInit, AccountInvInductive, PTL DEF AccountsSpec
=============================================================================
