------------------------------ MODULE AgentCap ------------------------------
(***************************************************************************)
(* The cap on agent branches (CreateAgentBranch, agentMax).  Each branch is *)
(* a full Postgres, so a loop of agents must not exhaust the machine.  The  *)
(* check counts containers before it makes one; a history variable beside   *)
(* Branches keeps the agent branches that were in no count.                 *)
(***************************************************************************)
EXTENDS Branches

ASSUME AgentsAssumption == IsFiniteSet(Agents)

VARIABLE uncounted   \* history: agent branches whose container came uncounted

\* A creation has passed the check and not yet made its container.
InFlight(a) == cmd[a].kind = "agent" /\ cmd[a].pc \in {"clone", "start"}

\* Creations that begin in this step; those of them that begin while another
\* one's container is still to come; and those that the check can't have let
\* through.
Begun == {a \in Admins : ~ InFlight(a) /\ InFlight(a)'}

Overlapping == {a \in Begun : \E b \in Admins : InFlight(b)}

Unlisted == {a \in Begun : ~ CreateAgentBranch(a, cmd'[a].name)}

\* Containers made in this step other than by a creation: a
\* wake, a reset or a plain create under an agent's name.
Unchecked == {n \in Agents : /\ cont[n] = "absent" /\ cont'[n] # "absent"
                              /\ ~ \E a \in Admins : InFlight(a) /\ cmd[a].name = n}

CapInit == Init /\ uncounted = {}

CapNext ==
  /\ Next
  /\ uncounted' = (uncounted \ {cmd'[a].name : a \in Begun})
                     \union {cmd'[a].name : a \in Overlapping \union Unlisted} \union Unchecked

CapSpec == CapInit /\ [][CapNext]_<<vars, uncounted>>

\* There are never more agent containers than OXYNDB_AGENT_MAX, whatever is
\* created, suspended, deleted, reaped, stopped and fails, but for those of
\* creations that overlapped another one's or could not list the containers, and
\* those that a wake, a reset or a plain create made without a check, as after
\* `odb stop`.
CapHolds == AgentMax > 0 => Cardinality(ListAgentBranches \ uncounted) <= AgentMax
=============================================================================
