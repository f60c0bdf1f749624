------------------------------ MODULE Accounts ------------------------------
(***************************************************************************)
(* The account store (internal/auth): accounts and OAuth identities in one *)
(* SQLite file that the control plane, the Gateway, the Agent API and      *)
(* `odb mcp` share.  Every statement is a transaction of its own, so       *)
(* concurrent sign-ins interleave between any two of them.  Accounts are   *)
(* never deleted and an e-mail address belongs to one, so the address      *)
(* stands for the account.  Session tokens are random and are read by      *)
(* nobody but their holder, and a password only decides whether its owner  *)
(* gets one: neither is kept here.                                         *)
(***************************************************************************)
EXTENDS Naturals, FiniteSets

CONSTANTS People,      \* accounts at the OAuth provider, (provider, subject)
          Emails,      \* addresses they may have there
          SignIns,     \* OAuth callbacks
          Nobody,
          MaxMoves     \* bound: address changes at the provider

ASSUME AccountsAssumption ==
  /\ Nobody \notin People \union Emails
  /\ People \intersect Emails = {} /\ MaxMoves \in Nat

VARIABLES users,     \* accounts
          identity,  \* oauth_identities: the account of each person
          mail,      \* the address the provider reports, Nobody for none
          moves,     \* address changes so far
          signin,    \* each callback's step
          seenAs,    \* history: accounts each person was signed in as
          lost,      \* history: people whose identity row was not written, or not
                     \* read although it was there
          crossed    \* history: people with two first sign-ins, or a sign-in and
                     \* a registration of the same address, at the same time

store == <<users, identity>>
history == <<seenAs, lost, crossed>>
accountVars == <<store, mail, moves, signin, history>>

\* provider-subject@oauth.local, for a person without an address.
Address(p, m) == IF m = Nobody THEN p ELSE m

NoSignIn == [pc |-> "idle", who |-> Nobody, mail |-> Nobody, acct |-> Nobody, err |-> FALSE]

AccountsInit ==
  /\ users = {}
  /\ identity = [p \in People |-> Nobody]
  /\ mail \in [People -> Emails \union {Nobody}] /\ moves = 0
  /\ signin = [c \in SignIns |-> NoSignIn]
  /\ seenAs = [p \in People |-> {}] /\ lost = {} /\ crossed = {}
-----------------------------------------------------------------------------
(* Accounts *)

Starting(p) == {c \in SignIns : signin[c].who = p /\ signin[c].pc \in {"identity", "email", "create", "link"}}
Awaiting(e) == {p \in People : \E c \in Starting(p) : Address(p, signin[c].mail) = e}

\* External: the person changes the address at the provider.
ChangeMail(p) ==
  /\ moves < MaxMoves
  /\ mail' \in {[mail EXCEPT ![p] = m] : m \in (Emails \union {Nobody}) \ {mail[p]}}
  /\ moves' = moves + 1
  /\ UNCHANGED <<store, signin, history>>

\* handleRegister: an account with a password, unless the address has one.
Register(e) ==
  /\ e \notin users
  /\ users' = users \union {e}
  /\ crossed' = crossed \union Awaiting(e)
  /\ UNCHANGED <<identity, mail, moves, signin, seenAs, lost>>
-----------------------------------------------------------------------------
(* handleOAuthCallback and upsertOAuth *)

Step(c, r) == signin' = [signin EXCEPT ![c] = r]
Goto(c, step) == Step(c, [signin[c] EXCEPT !.pc = step])

\* The state cookie matches and the provider says who it is.  The address is
\* missing, too, if GitHub's list of them cannot be read.
Callback(c, p) ==
  /\ signin[c].pc = "idle"
  /\ \E m \in {mail[p], Nobody} :
       Step(c, [NoSignIn EXCEPT !.pc = "identity", !.who = p, !.mail = m])
  /\ crossed' = IF Starting(p) = {} THEN crossed ELSE crossed \union {p}
  /\ UNCHANGED <<store, mail, moves, seenAs, lost>>

\* A statement of the sign-in fails, and the sign-in goes on at a step.
Erred(c, step) == Step(c, [signin[c] EXCEPT !.pc = step, !.err = TRUE])

\* The identity's account.  An error of the query counts as no identity, which makes
\* a difference if there is one; an error of userByID is the sign-in's.
FindIdentity(c) ==
  LET a == identity[signin[c].who] IN
  /\ signin[c].pc = "identity"
  /\ \/ /\ Step(c, [signin[c] EXCEPT !.pc = IF a = Nobody THEN "email" ELSE "session", !.acct = a])
        /\ UNCHANGED lost
     \/ /\ a # Nobody /\ Goto(c, "email")
        /\ lost' = lost \union {signin[c].who}
     \/ /\ a # Nobody /\ Erred(c, "failed")
        /\ UNCHANGED lost
  /\ UNCHANGED <<store, mail, moves, seenAs, crossed>>

\* Mutant of FindEmail: an account of that address is not looked for.
FindEmailNever(c) ==
  /\ signin[c].pc = "email"
  /\ Goto(c, "create")
  /\ UNCHANGED <<store, mail, moves, history>>

\* The account of that address.  An error of the query counts as no account.
FindEmail(c) ==
  /\ signin[c].pc = "email"
  /\ \/ IF signin[c].mail \in users
        THEN Step(c, [signin[c] EXCEPT !.pc = "link", !.acct = signin[c].mail])
        ELSE Goto(c, "create")
     \/ signin[c].mail \in users /\ Erred(c, "create")
  /\ UNCHANGED <<store, mail, moves, history>>

\* CreateUser fails if the address has an account by now, and reports any other
\* error of the INSERT as that.
CreateUser(c) ==
  LET e == Address(signin[c].who, signin[c].mail) IN
  /\ signin[c].pc = "create"
  /\ \/ /\ e \in users /\ Goto(c, "failed")
        /\ UNCHANGED <<users, crossed>>
     \/ /\ Erred(c, "failed")
        /\ UNCHANGED <<users, crossed>>
     \/ /\ e \notin users /\ users' = users \union {e}
        /\ Step(c, [signin[c] EXCEPT !.pc = "link", !.acct = e])
        /\ crossed' = crossed \union (Awaiting(e) \ {signin[c].who})
  /\ UNCHANGED <<identity, mail, moves, seenAs, lost>>

\* Mutant of Link: whoever has an address is found by it, and is not linked.
LinkCreatedOnly(c) ==
  /\ signin[c].pc = "link"
  /\ identity' = [identity EXCEPT ![signin[c].who] =
                    IF @ = Nobody /\ signin[c].mail = Nobody THEN signin[c].acct ELSE @]
  /\ Goto(c, "session")
  /\ UNCHANGED <<users, mail, moves, history>>

\* The identity row: an error is ignored, also that there is one by now.
Link(c) ==
  LET p == signin[c].who IN
  /\ signin[c].pc = "link"
  /\ \/ /\ identity' = [identity EXCEPT ![p] = IF @ = Nobody THEN signin[c].acct ELSE @]
        /\ UNCHANGED lost
     \/ /\ lost' = lost \union {p}
        /\ UNCHANGED identity
  /\ Goto(c, "session")
  /\ UNCHANGED <<users, mail, moves, seenAs, crossed>>

\* The person is in, as this account.  If the session's row is not written, the
\* error is dropped and the person is sent on without being signed in.
CreateSession(c) ==
  /\ signin[c].pc = "session"
  /\ \/ seenAs' = [seenAs EXCEPT ![signin[c].who] = @ \union {signin[c].acct}]
     \/ UNCHANGED seenAs
  /\ Step(c, NoSignIn)
  /\ UNCHANGED <<users, identity, mail, moves, lost, crossed>>

\* The answer of a failed sign-in is read, and the person may try again.
Retry(c) ==
  /\ signin[c].pc = "failed"
  /\ Step(c, NoSignIn)
  /\ UNCHANGED <<store, mail, moves, history>>

\* The control plane dies.
ServerDies ==
  /\ \E c \in SignIns : signin[c].pc \notin {"idle", "failed"}
  /\ signin' = [c \in SignIns |-> NoSignIn]
  /\ lost' = lost \union {signin[c].who : c \in {d \in SignIns : signin[d].pc = "link"}}
  /\ UNCHANGED <<store, mail, moves, seenAs, crossed>>

SignIn(c) ==
  \/ \E p \in People : Callback(c, p)
  \/ FindIdentity(c) \/ FindEmail(c) \/ CreateUser(c) \/ Link(c) \/ CreateSession(c) \/ Retry(c)

AccountsNext ==
  \/ \E p \in People : ChangeMail(p)
  \/ \E e \in Emails : Register(e)
  \/ \E c \in SignIns : SignIn(c)
  \/ ServerDies

AccountsSpec == AccountsInit /\ [][AccountsNext]_accountVars
-----------------------------------------------------------------------------
\* A person who signs in through the provider always arrives at the same account,
\* whatever address the provider reports by then and whatever other statement of
\* the store fails, except after two first sign-ins at the same time or after an
\* identity row that was not written or that a failed query did not find.
OneAccountPerPerson ==
  \A p \in People : Cardinality(seenAs[p]) > 1 => p \in lost \union crossed

\* A sign-in that the provider confirmed and none of whose own statements failed
\* fails only if the address was taken between two statements, or the person's
\* identity row was not written: somebody without an address at the provider then
\* stays locked out.  Failed statements of earlier sign-ins are no cause.
FailedSignInHasACause ==
  \A c \in SignIns :
    signin[c].pc = "failed" => signin[c].err \/ signin[c].who \in lost \union crossed
=============================================================================
