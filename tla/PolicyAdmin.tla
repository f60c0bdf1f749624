---------------------------- MODULE PolicyAdmin -----------------------------
(***************************************************************************)
(* Who may override a blocking rule (controlplane/policy.go, security.go): *)
(* the members of odb_admin on a branch.  A request of the web console     *)
(* checks that its user is a member, then reads the list of members, then  *)
(* changes it, each a query of its own; `odb admin` changes it at any      *)
(* moment and checks nothing.                                              *)
(***************************************************************************)
EXTENDS Naturals, FiniteSets

CONSTANTS Users,      \* accounts
          AdminRequests,   \* requests of the web console
          NoUser

ASSUME UsersAssumption == NoUser \notin Users

VARIABLES admins,   \* members of odb_admin
          request,  \* each request
          byHand,   \* history: `odb admin revoke` was used
          stale     \* history: a request revoked after the list it read had changed

policyAdminVars == <<admins, request, byHand, stale>>

NoRequest == [pc |-> "idle", what |-> "none", target |-> NoUser, list |-> {}]

\* `odb admin grant` makes the first admin.
PolicyAdminInit ==
  /\ admins \in {{u} : u \in Users}
  /\ request = [r \in AdminRequests |-> NoRequest]
  /\ byHand = FALSE /\ stale = FALSE

SetRequest(r, to) == request' = [request EXCEPT ![r] = to]

\* admin: the user's role is a member, by a query of its own.
IsAdmin(u) == u \in admins

\* POST and DELETE /admins, as far as the check; anybody else is refused.
Begin(r, u, what, target) ==
  /\ request[r].pc = "idle"
  /\ IsAdmin(u)
  /\ SetRequest(r, [NoRequest EXCEPT !.pc = "checked", !.what = what, !.target = target])
  /\ UNCHANGED <<admins, byHand, stale>>

\* GrantAdmin, for whoever has an account.
Grant(r) ==
  /\ request[r].pc = "checked" /\ request[r].what = "grant"
  /\ admins' = admins \union {request[r].target}
  /\ SetRequest(r, NoRequest)
  /\ UNCHANGED <<byHand, stale>>

\* Mutant of ListAdmins: the last admin may be removed.
ListAdminsAny(r) ==
  /\ request[r].pc = "checked" /\ request[r].what = "revoke"
  /\ SetRequest(r, [request[r] EXCEPT !.pc = "listed", !.list = admins])
  /\ UNCHANGED <<admins, byHand, stale>>

\* DELETE /admins reads the members: the target must be one, and not the only one.
ListAdmins(r) ==
  /\ request[r].pc = "checked" /\ request[r].what = "revoke"
  /\ IF request[r].target \in admins /\ Cardinality(admins) # 1
     THEN SetRequest(r, [request[r] EXCEPT !.pc = "listed", !.list = admins])
     ELSE SetRequest(r, NoRequest)
  /\ UNCHANGED <<admins, byHand, stale>>

\* RevokeAdmin.
RevokeAdmin(r) ==
  /\ request[r].pc = "listed"
  /\ admins' = admins \ {request[r].target}
  /\ stale' = (stale \/ request[r].list # admins)
  /\ SetRequest(r, NoRequest)
  /\ UNCHANGED byHand

\* A query fails, or the control plane dies.
GiveUp(r) ==
  /\ request[r].pc # "idle"
  /\ SetRequest(r, NoRequest)
  /\ UNCHANGED <<admins, byHand, stale>>

\* `odb admin grant` and `odb admin revoke`.
ByHand(u) ==
  /\ \/ admins' = admins \union {u} /\ UNCHANGED byHand
     \/ admins' = admins \ {u} /\ byHand' = TRUE
  /\ UNCHANGED <<request, stale>>

PolicyAdminNext ==
  \/ \E r \in AdminRequests, u, target \in Users, what \in {"grant", "revoke"} : Begin(r, u, what, target)
  \/ \E r \in AdminRequests : Grant(r) \/ ListAdmins(r) \/ RevokeAdmin(r) \/ GiveUp(r)
  \/ \E u \in Users : ByHand(u)

PolicyAdminSpec == PolicyAdminInit /\ [][PolicyAdminNext]_policyAdminVars
-----------------------------------------------------------------------------
\* "Removing the last admin would leave nobody who can grant it back from the web
\* console" (policy.go): the console alone leaves an admin, whoever removes whom,
\* unless two removals overlap, since the list each one reads is older than what
\* it then does.
AdminsRemain == admins = {} => byHand \/ stale
=============================================================================
