------------------------------ MODULE MCAccess ------------------------------
(* Accounts, the Gateway's sessions, the MCP server and the policy admins on *)
(* small instances.  They share nothing that the properties tell apart, so a *)
(* behaviour is one of the four.                                             *)
EXTENDS Accounts, GatewaySessions, McpServer, PolicyAdmin, TLC

VARIABLE part

all == <<part, accountVars, gatewayVars, mcpVars, policyAdminVars>>

Init == /\ part \in {"accounts", "gateway", "mcp", "admins"}
        /\ AccountsInit /\ GatewayInit /\ McpInit /\ PolicyAdminInit
        /\ part # "accounts" => \A p \in People : mail[p] = Nobody
        /\ part # "admins" => admins = {CHOOSE u \in Users : TRUE}

Next ==
  \/ part = "accounts" /\ AccountsNext /\ UNCHANGED <<part, gatewayVars, mcpVars, policyAdminVars>>
  \/ part = "gateway" /\ GatewayNext /\ UNCHANGED <<part, accountVars, mcpVars, policyAdminVars>>
  \/ part = "mcp" /\ McpNext /\ UNCHANGED <<part, accountVars, gatewayVars, policyAdminVars>>
  \/ part = "admins" /\ PolicyAdminNext /\ UNCHANGED <<part, accountVars, gatewayVars, mcpVars>>

Spec == Init /\ [][Next]_all

\* People, their addresses and their sign-ins are interchangeable.
Symmetry == Permutations(People) \union Permutations(Emails) \union Permutations(SignIns)
=============================================================================
