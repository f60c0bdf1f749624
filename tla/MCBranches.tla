---------------------------- MODULE MCBranches ----------------------------
(***************************************************************************)
(* Branches for TLC; a behaviour is about one of two parts.  In "routing"   *)
(* one command runs at a time, and one name is an agent's.  In "cap" two    *)
(* run at once on agents' clones of main, a creation is not followed beyond *)
(* its container, and a user's connection only wakes the branch.            *)
(***************************************************************************)
EXTENDS AgentCap, TLC

CONSTANTS OnlyAgent,  \* in "routing", the agent's name
          Operator    \* in "routing", the only process

VARIABLE part

\* "routing" keeps no count, and says nothing about the cap.
MCInit == /\ part \in {"routing", "cap"}
          /\ Init
          /\ uncounted = IF part = "cap" THEN {} ELSE Agents

Routing ==
  \/ /\ Command(Operator)
     /\ cmd'[Operator].kind = "agent" => cmd'[Operator].name = OnlyAgent
  \/ \E c \in Clients : Handler(c)
  \/ \E n \in Branches : Suspend(n)
  \/ Down \/ GatewayRestart

Waking == /\ \A n \in Branches : roles'[n] = {}
          /\ \A a \in Admins : cmd'[a].parent = "main"
          /\ \A c \in Clients : conn'[c].who = "user" /\ conn'[c].pc \in {"idle", "ensure", "start", "addr"}

MCNext == /\ UNCHANGED part
          /\ \/ part = "routing" /\ Routing /\ UNCHANGED uncounted
             \/ part = "cap" /\ CapNext /\ Waking

MCSpec == MCInit /\ [][MCNext]_<<vars, uncounted, part>>

\* Clients and addresses are interchangeable.
Symmetry == Permutations(Clients) \union Permutations(IPs)
=============================================================================
