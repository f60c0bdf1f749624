--------------------------- MODULE GatewaySessions ---------------------------
(***************************************************************************)
(* Client sessions of the Gateway (proxy.go): the API key is looked up once*)
(* per connection and bounds the branch it opens, and the Gateway keeps    *)
(* the cancel keys of its sessions, which a CancelRequest on a connection  *)
(* of its own names.  Branches is about waking the branch and logging in   *)
(* to it; here a login succeeds or fails.                                  *)
(***************************************************************************)
EXTENDS Naturals, FiniteSets

CONSTANTS KeyIds,       \* API keys
          Targets,      \* branches, main among them
          Main,
          Conns,        \* client connections
          BackendKeys,  \* process id and secret of a Postgres backend
          Absent        \* no branch, no key

ASSUME TargetsAssumption == Main \in Targets /\ Absent \notin Targets \union BackendKeys

VARIABLES scope,         \* each key's scope: Absent for an account key
          valid,         \* keys in the store
          conn,          \* each connection
          cancelTargets, \* cancel keys and their backends
          issued,        \* backend keys handed out
          leaked         \* history: keys of sessions that failed in their startup

keyVars == <<scope, valid>>
gatewayVars == <<keyVars, conn, cancelTargets, issued, leaked>>

NoConn == [pc |-> "idle", scope |-> Absent, on |-> Absent, key |-> Absent]

GatewayInit ==
  /\ scope = [k \in KeyIds |-> Absent]
  /\ valid = {}
  /\ conn = [c \in Conns |-> NoConn]
  /\ cancelTargets = [k \in BackendKeys |-> Absent]
  /\ issued = {} /\ leaked = {}

\* An account key, or a key scoped to a branch.
CreateScopedAPIKey(k, s) ==
  /\ k \notin valid
  /\ valid' = valid \union {k}
  /\ scope' = [scope EXCEPT ![k] = s]
  /\ UNCHANGED <<conn, cancelTargets, issued, leaked>>

\* A revoked key is gone for whoever looks it up next.
Revoke(ks) ==
  /\ ks # {}
  /\ valid' = valid \ ks
  /\ UNCHANGED <<scope, conn, cancelTargets, issued, leaked>>

revokeAPIKey(k) == Revoke({k} \intersect valid)

\* The keys of a branch that is deleted; account keys stay.
RevokeScopeKeys(s) == Revoke({k \in valid : scope[k] = s})

VerifyKey(k) == k \in valid

SetConn(c, r) == conn' = [conn EXCEPT ![c] = r]
ConnGoto(c, step) == SetConn(c, [conn[c] EXCEPT !.pc = step])

scopeAllows(s, target) == s = Absent \/ s = target

\* The startup message, after TLS if the client asks for it.  (A CancelRequest in
\* its place goes to forwardCancel and ends the connection.)
readStartup(c, database) ==
  /\ conn[c].pc = "idle"
  /\ SetConn(c, [NoConn EXCEPT !.pc = "password", !.on = database])
  /\ UNCHANGED <<keyVars, cancelTargets, issued, leaked>>

\* handle: the client's password is a key, and the key may open the branch; no
\* database is main.
Connect(c, k) ==
  LET target == IF conn[c].on = Absent THEN Main ELSE conn[c].on IN
  /\ conn[c].pc = "password"
  /\ SetConn(c, IF VerifyKey(k) /\ scopeAllows(scope[k], target)
                THEN [NoConn EXCEPT !.pc = "login", !.scope = scope[k], !.on = target] ELSE NoConn)
  /\ UNCHANGED <<keyVars, cancelTargets, issued, leaked>>

\* backendAuth as the branch's agent role, the client's own or the shared one.
backendAuth(c) ==
  /\ conn[c].pc = "login"
  /\ SetConn(c, NoConn) \/ ConnGoto(c, "startup")
  /\ UNCHANGED <<keyVars, cancelTargets, issued, leaked>>

\* relayStartupCaptureKey: BackendKeyData is passed on, then registered.
BackendKeyData(c, key) ==
  /\ conn[c].pc = "startup" /\ conn[c].key = Absent
  /\ key \notin issued
  /\ issued' = issued \union {key}
  /\ SetConn(c, [conn[c] EXCEPT !.key = key])
  /\ cancelTargets' = [cancelTargets EXCEPT ![key] = conn[c].on]
  /\ UNCHANGED <<keyVars, leaked>>

\* A backend may also send no key.
ReadyForQuery(c) ==
  /\ conn[c].pc = "startup"
  /\ ConnGoto(c, "pipe")
  /\ UNCHANGED <<keyVars, cancelTargets, issued, leaked>>

\* An error in the startup, or either side closes: handle returns without
\* deregistering the key.
StartupFails(c) ==
  /\ conn[c].pc = "startup"
  /\ SetConn(c, NoConn)
  /\ leaked' = leaked \union ({conn[c].key} \ {Absent})
  /\ UNCHANGED <<keyVars, cancelTargets, issued>>

\* Mutant of deregisterCancel: the key stays.
deregisterCancelNever(key) == UNCHANGED cancelTargets

deregisterCancel(key) ==
  cancelTargets' = [k \in BackendKeys |-> IF k = key THEN Absent ELSE cancelTargets[k]]

\* One of the two copies ends, and handle with it.
Disconnect(c) ==
  /\ conn[c].pc = "pipe"
  /\ deregisterCancel(conn[c].key)
  /\ SetConn(c, NoConn)
  /\ UNCHANGED <<keyVars, issued, leaked>>

\* forwardCancel reaches the backend its key is registered for, or nobody; what it
\* cancels there is not part of this state.
CancelReaches(key) == cancelTargets[key]
-----------------------------------------------------------------------------
GatewayStep(c) ==
  \/ \E t \in Targets \union {Absent} : readStartup(c, t)
  \/ \E k \in KeyIds : Connect(c, k)
  \/ backendAuth(c) \/ ReadyForQuery(c) \/ StartupFails(c) \/ Disconnect(c)
  \/ \E key \in BackendKeys : BackendKeyData(c, key)

GatewayNext ==
  \/ \E k \in KeyIds : revokeAPIKey(k) \/ \E s \in Targets \union {Absent} : CreateScopedAPIKey(k, s)
  \/ \E s \in Targets : RevokeScopeKeys(s)
  \/ \E c \in Conns : GatewayStep(c)

GatewaySpec == GatewayInit /\ [][GatewayNext]_gatewayVars
-----------------------------------------------------------------------------
\* A CancelRequest reaches the branch of the session whose key it has as long as
\* that session may run queries, and a key that is no session's reaches nobody,
\* unless the session ended before its startup did.
CancelReachesItsSession ==
  \A key \in issued :
    LET mine == {c \in Conns : conn[c].key = key} IN
    IF mine # {} THEN \A c \in mine : CancelReaches(key) = conn[c].on
    ELSE CancelReaches(key) # Absent => key \in leaked
=============================================================================
