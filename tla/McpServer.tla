----------------------------- MODULE McpServer -----------------------------
(***************************************************************************)
(* `odb mcp` (internal/mcp): JSON-RPC requests on stdin, one at a time.    *)
(* The API key is looked up once, when the server starts; a key scoped to  *)
(* a branch bounds every request after that, also when the key has been    *)
(* revoked meanwhile.                                                      *)
(***************************************************************************)
EXTENDS Naturals, Sequences

CONSTANTS Branches,       \* branches a request may name
          DefaultBranch,  \* main
          NoBranch,
          MaxLines        \* bound: messages in stdin

ASSUME McpAssumption ==
  DefaultBranch \in Branches /\ NoBranch \notin Branches /\ MaxLines \in Nat

VARIABLES stdin,   \* messages not read yet
          closed,  \* stdin is "open", "closed", or "cut" within a message
          mcp      \* the server: its key's scope, and what its last request reached

mcpVars == <<stdin, closed, mcp>>

NoServer == [pc |-> "off", scope |-> NoBranch, tool |-> "none", on |-> {}, asked |-> {}, broken |-> FALSE]

McpInit == stdin = <<>> /\ closed = "open" /\ mcp = NoServer

\* The tools, by what they reach: one branch; impact, which also asks the other
\* running branches whether they have the object; and the five that act on, list
\* or compare other branches.
Tools == {"one", "impact", "beyond"}

\* A request names a branch or none.
Requests == [tool : Tools, branch : Branches \union {NoBranch}]

\* A line that is not JSON, and JSON that is not a request.
Garbage == "garbage"
NotARequest == "other"

\* authenticate: the key the server is started with, looked up once.
StartMCP(s) ==
  /\ mcp.pc = "off"
  /\ mcp' = [NoServer EXCEPT !.pc = "serving", !.scope = s]
  /\ UNCHANGED <<stdin, closed>>

Write ==
  /\ mcp.pc = "serving" /\ closed = "open" /\ Len(stdin) < MaxLines
  /\ \E m \in [line : {"request"}, req : Requests] \union [line : {Garbage, NotARequest}] :
       stdin' = Append(stdin, m)
  /\ UNCHANGED <<closed, mcp>>

CloseStdin ==
  /\ mcp.pc = "serving" /\ closed = "open"
  /\ closed' \in {"closed", "cut"}
  /\ UNCHANGED <<stdin, mcp>>

\* A key that is scoped does not reach the five tools, nor another branch's name.
\* impact is not refused.
scopeRefuses(s, r) == s # NoBranch /\ (r.tool = "beyond" \/ r.branch \notin {NoBranch, s})

\* Mutant of applyScope: a missing branch is left to its default.
applyScopeNamedOnly(s, r) == r.branch

\* The branch argument to use.
applyScope(s, r) == IF s = NoBranch THEN r.branch ELSE s

\* No branch is main.
ledgerBranchName(b) == IF b = NoBranch THEN DefaultBranch ELSE b

\* branchPresence: of the branches that are running, up, the others.
branchPresence(self, up) == up \ {self}

\* runTool: the branches one call works on, and those it asks for the object.
runTool(s, r, up) ==
  LET b == ledgerBranchName(applyScope(s, r)) IN
  IF scopeRefuses(s, r) THEN [on |-> {}, asked |-> {}]
  ELSE CASE r.tool = "one" -> [on |-> {b}, asked |-> {}]
         [] r.tool = "impact" -> [on |-> {b}, asked |-> branchPresence(b, up)]
         [] r.tool = "beyond" -> [on |-> up, asked |-> {}]

\* Decode, dispatch, callTool: one request at a time.  The server ends if it cannot
\* write its answer.
ServeRequest ==
  /\ mcp.pc = "serving" /\ ~ mcp.broken
  /\ stdin # <<>> /\ Head(stdin).line = "request"
  /\ stdin' = Tail(stdin)
  /\ \E step \in {"serving", "ended"}, up \in SUBSET Branches :
       LET r == Head(stdin).req
           did == runTool(mcp.scope, r, up) IN
       mcp' = [mcp EXCEPT !.pc = step, !.tool = r.tool, !.on = did.on, !.asked = did.asked]
  /\ UNCHANGED closed

\* A decode error is logged and the loop goes on.  The decoder goes on too after
\* JSON of another shape; a syntax error, or the end of stdin within a message, it
\* repeats for ever.
DecodeError ==
  /\ mcp.pc = "serving" /\ ~ mcp.broken
  /\ \/ /\ stdin # <<>> /\ Head(stdin).line = NotARequest
        /\ stdin' = Tail(stdin)
        /\ UNCHANGED mcp
     \/ /\ \/ stdin # <<>> /\ Head(stdin).line = Garbage
           \/ stdin = <<>> /\ closed = "cut"
        /\ mcp' = [mcp EXCEPT !.broken = TRUE]
        /\ UNCHANGED stdin
  /\ UNCHANGED closed

\* io.EOF.
EndOfFile ==
  /\ mcp.pc = "serving" /\ ~ mcp.broken
  /\ stdin = <<>> /\ closed = "closed"
  /\ mcp' = [mcp EXCEPT !.pc = "ended"]
  /\ UNCHANGED <<stdin, closed>>

MCPStep == ServeRequest \/ DecodeError \/ EndOfFile

McpNext == (\E s \in Branches \union {NoBranch} : StartMCP(s)) \/ Write \/ CloseStdin \/ MCPStep

\* The server's loop runs.
McpSpec == McpInit /\ [][McpNext]_mcpVars /\ WF_mcpVars(MCPStep)
-----------------------------------------------------------------------------
\* A server started with a key that is scoped to a branch works on that branch
\* only, with any tool and any branch argument, a missing one included, which
\* otherwise means main; other branches learn of a call only from impact, which
\* asks the running ones whether they have its object.
ScopedToItsBranch ==
  mcp.scope # NoBranch => /\ mcp.on \subseteq {mcp.scope}
                          /\ mcp.asked # {} => mcp.tool = "impact"

\* "Serve runs the MCP server on stdio until stdin closes" (mcp.go).
ServesUntilStdinCloses == closed # "open" ~> mcp.pc = "ended"
=============================================================================
