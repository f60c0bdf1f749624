------------------------------ MODULE Changes -------------------------------
(***************************************************************************)
(* execute_change of the MCP server (provenance.go) against a branch's     *)
(* policy rules and Blackbox: preview the rules, remember the newest ledger*)
(* id, run the SQL as a client, and report the ledger entries it made.  The*)
(* calls of one server come one after another and share a session id; rule *)
(* changes (branch/policy.go) and other clients come at any moment, and a  *)
(* call that times out leaves its SQL running in Postgres.                 *)
(*                                                                         *)
(* SQL is a sequence of statements, each of a kind that has a command tag, *)
(* another one that its words suggest, and a command it makes Postgres's   *)
(* event triggers fire for; a rule is about a tag and the kinds its        *)
(* pattern matches.                                                        *)
(***************************************************************************)
EXTENDS Naturals, Sequences, FiniteSets, FiniteSetsExt

CONSTANTS SQLs,           \* what execute_change is asked to run
          TagOf,          \* the command tag Postgres has for each kind of statement
          GuessOf,        \* the tag its first words suggest
          Carries,        \* the tags whose words are all among its leading ones
          Fires,          \* the kind of command event triggers see when it runs: itself,
                          \* what a DO block or a function runs, or "none"
          Guarded,        \* tags that the guardrail refuses
          CustomRules,    \* rules a person may add
          Builtin,        \* a shipped rule's id
          Custom,         \* another rule id
          BuiltinRule,    \* the shipped rule
          NoRule,
          MaxCalls, MaxRuleChanges, MaxId   \* bounds

Kinds == DOMAIN TagOf
RuleIds == {Builtin, Custom}

ASSUME ChangesAssumption ==
  /\ SQLs \subseteq Seq(Kinds) \ {<<>>}
  /\ "none" \notin Kinds
  /\ \A k \in Kinds : GuessOf[k] \in Carries[k] /\ Fires[k] \in Kinds \union {"none"}
  /\ Builtin # Custom /\ {MaxCalls, MaxRuleChanges, MaxId} \subseteq Nat

VARIABLES rules,     \* odb.policy_rules
          version,   \* history: rule changes so far
          ledger,    \* committed rows of odb.schema_ledger
          nextId,    \* its sequence
          call,      \* the execute_change that runs, or its result
          running,   \* SQL in Postgres: its call, and the ids of its rows
          late,      \* history: calls that ended before their SQL did
          skipped    \* history: the policy gate failed and let a statement through

changeVars == <<rules, version, ledger, nextId, call, running, late, skipped>>

NoCall == [n |-> 0, pc |-> "done", sql |-> <<>>, preview |-> {}, at |-> 0, marker |-> 0, known |-> TRUE,
           status |-> "none", by |-> NoRule, kind |-> "none", sure |-> FALSE, entries |-> {}]

ChangesInit ==
  /\ rules = [r \in RuleIds |-> IF r = Builtin THEN BuiltinRule ELSE NoRule]
  /\ version = 0 /\ ledger = {} /\ nextId = 1
  /\ call = NoCall /\ running = {} /\ late = {} /\ skipped = FALSE
-----------------------------------------------------------------------------
(* Policy rules: one statement each, from the console or from `odb policy` *)

RuleChanged == version < MaxRuleChanges /\ version' = version + 1

AddPolicyRule(r, rule) ==
  /\ rules[r] = NoRule
  /\ RuleChanged
  /\ rules' = [rules EXCEPT ![r] = rule]
  /\ UNCHANGED <<ledger, nextId, call, running, late, skipped>>

UpdatePolicyRule(r, action, enabled) ==
  /\ rules[r] # NoRule
  /\ RuleChanged
  /\ rules' = [rules EXCEPT ![r].action = action, ![r].enabled = enabled]
  /\ UNCHANGED <<ledger, nextId, call, running, late, skipped>>

\* Built-in rules can only be disabled.
RemovePolicyRule(r) ==
  /\ rules[r] # NoRule /\ r # Builtin
  /\ RuleChanged
  /\ rules' = [rules EXCEPT ![r] = NoRule]
  /\ UNCHANGED <<ledger, nextId, call, running, late, skipped>>
-----------------------------------------------------------------------------
(* What the rules say of a statement *)

Blocks(r, tag, kinds) ==
  /\ rules[r] # NoRule
  /\ rules[r].enabled /\ rules[r].action = "block"
  /\ rules[r].tag = tag /\ rules[r].pattern \intersect kinds # {}

\* A guess from the first words of the text.
CommandTag(sql) == GuessOf[Head(sql)]

\* Mutant of PolicyCheck: the rules are matched with the first statement only.
PolicyCheckFirst(sql) == {r \in RuleIds : Blocks(r, CommandTag(sql), {Head(sql)})}

\* odb.policy_check: every statement in the text that carries this tag is looked at.
PolicyCheck(sql) ==
  LET candidates == {sql[i] : i \in {j \in DOMAIN sql : CommandTag(sql) \in Carries[sql[j]]}}
  IN {r \in RuleIds : Blocks(r, CommandTag(sql), candidates)}

\* The command of SQL s that event triggers see next.
Fired(s) == Fires[s.sql[s.step]]

\* odb._statement_texts: the statement itself if that is certain, which it is not for
\* a command inside another, one that does not carry its tag, or one after a statement
\* the cursor lost; otherwise the whole query too.
Certain(s) == Fired(s) = s.sql[s.step] /\ TagOf[Fired(s)] \in Carries[Fired(s)]

Texts(s, sure) == IF sure THEN {Fired(s)} ELSE {Fired(s)} \union {s.sql[i] : i \in DOMAIN s.sql}

\* The rules that refuse it.
Refusing(s, sure) == {r \in RuleIds : Blocks(r, TagOf[Fired(s)], Texts(s, sure))}
-----------------------------------------------------------------------------
(* ExecuteChange *)

SetCall(r) == call' = [call EXCEPT !.pc = r]
End == call' = [call EXCEPT !.pc = "done", !.status = "failed"]

\* The preview; a dry run ends with it.
Preview(sql, dryRun) ==
  /\ call.pc = "done" /\ call.n < MaxCalls
  /\ call' = [NoCall EXCEPT !.n = call.n + 1, !.pc = IF dryRun THEN "done" ELSE "previewed",
                            !.status = IF dryRun THEN "preview" ELSE "none",
                            !.sql = sql, !.preview = PolicyCheck(sql), !.at = version]
  /\ UNCHANGED <<rules, version, ledger, nextId, running, late, skipped>>

\* The newest ledger id.
Marker == Max({r.id : r \in ledger} \union {0})

\* Mutant of StartAgentSession: entries are looked for in the whole ledger.
StartAgentSessionUnmarked ==
  /\ call.pc = "previewed"
  /\ SetCall("marked")
  /\ UNCHANGED <<rules, version, ledger, nextId, running, late, skipped>>

\* The session row, which may be there already, and the newest id; if that cannot
\* be read it is 0.
StartAgentSession ==
  /\ call.pc = "previewed"
  /\ \/ call' = [call EXCEPT !.pc = "marked", !.marker = Marker]
     \/ call' = [call EXCEPT !.pc = "marked", !.known = FALSE]
     \/ End
  /\ UNCHANGED <<rules, version, ledger, nextId, running, late, skipped>>

\* Connect, set the provenance, send the SQL.
Send ==
  /\ call.pc = "marked"
  /\ \/ /\ SetCall("waiting")
        /\ running' = running \union {[n |-> call.n, sql |-> call.sql, step |-> 1, ids |-> {}]}
     \/ End /\ UNCHANGED running
  /\ UNCHANGED <<rules, version, ledger, nextId, late, skipped>>

\* The call gives up on the connection.  Postgres does not notice.
TimeOut ==
  /\ call.pc = "waiting"
  /\ End
  /\ late' = late \union {call.n}
  /\ UNCHANGED <<rules, version, ledger, nextId, running, skipped>>

\* The SQL of call s.n is over: classifyExecError, if the call still waits.
Answer(s, status, rule, kind, sure) ==
  /\ running' = running \ {s}
  /\ call' = IF call.pc = "waiting" /\ call.n = s.n
             THEN [call EXCEPT !.pc = "answered", !.status = status, !.by = rule, !.kind = kind, !.sure = sure]
             ELSE call

\* A ledger row and its extension, which has the call's hash.
Row(id, s, blocked, hash) == [id |-> id, call |-> s.n, hash |-> hash, blocked |-> blocked]

\* Postgres: one statement is refused, by the guardrail or then by a rule, and what
\* came before it is rolled back.  Its record goes through a second connection, unless
\* this one has the chain's lock by then or the record fails.
RunRefused(s) ==
  /\ s.step <= Len(s.sql) /\ Fired(s) # "none"
  /\ \E sure \in BOOLEAN :
       /\ sure => Certain(s)
       /\ IF TagOf[Fired(s)] \in Guarded THEN Answer(s, "error", NoRule, Fired(s), sure)
          ELSE \E r \in Refusing(s, sure) : Answer(s, "blocked", r, Fired(s), sure)
  /\ \/ /\ s.ids = {} /\ nextId <= MaxId
        /\ \A t \in running : t.ids = {}
        /\ ledger' = ledger \union {Row(nextId, s, TRUE, <<>>)} /\ nextId' = nextId + 1
     \/ UNCHANGED <<ledger, nextId>>
  /\ UNCHANGED <<rules, version, late, skipped>>

\* The gates of a statement that runs; the policy gate may fail, and lets it through.
Passes(s) ==
  \/ Fired(s) = "none" /\ UNCHANGED skipped
  \/ /\ Fired(s) # "none" /\ TagOf[Fired(s)] \notin Guarded
     /\ \E sure \in BOOLEAN : (sure => Certain(s)) /\ skipped' = (skipped \/ Refusing(s, sure) # {})

\* Postgres: one statement runs.  Its ledger row is inserted under the chain's lock;
\* none is for what fires no event trigger, nor for objects the ledger leaves out.
RunStatement(s) ==
  /\ s.step <= Len(s.sql)
  /\ Passes(s)
  /\ \/ /\ Fired(s) # "none" /\ nextId <= MaxId
        /\ \A t \in running : t # s => t.ids = {}
        /\ running' = (running \ {s}) \union {[s EXCEPT !.step = @ + 1, !.ids = @ \union {nextId}]}
        /\ nextId' = nextId + 1
     \/ /\ running' = (running \ {s}) \union {[s EXCEPT !.step = @ + 1]}
        /\ UNCHANGED nextId
  /\ UNCHANGED <<rules, version, ledger, call, late>>

\* A statement fails by itself.
RunFails(s) ==
  /\ Answer(s, "error", NoRule, "none", FALSE)
  /\ UNCHANGED <<rules, version, ledger, nextId, late, skipped>>

\* capture_ext skips the rows outside cap: it failed on them, or is turned off.
RunCommits(s) ==
  /\ s.step > Len(s.sql)
  /\ \E cap \in SUBSET s.ids :
       ledger' = ledger \union {Row(i, s, FALSE, IF i \in cap THEN s.sql ELSE <<>>) : i \in s.ids}
  /\ Answer(s, "applied", NoRule, "none", FALSE)
  /\ UNCHANGED <<rules, version, nextId, late, skipped>>

\* The entries after the marker with this session, and this call hash or BLOCKED.
Entries == {r.id : r \in {q \in ledger : q.id > call.marker /\ q.call > 0 /\ (q.hash = call.sql \/ q.blocked)}}

\* An error leaves none.
ReadEntries ==
  /\ call.pc = "answered"
  /\ \/ call' = [call EXCEPT !.pc = "done", !.entries = Entries]
     \/ call' = [call EXCEPT !.pc = "done", !.known = FALSE]
  /\ UNCHANGED <<rules, version, ledger, nextId, running, late, skipped>>

\* External: an entry of another client of the branch.
OtherClient ==
  /\ nextId <= MaxId
  /\ \A t \in running : t.ids = {}
  /\ ledger' = ledger \union {[id |-> nextId, call |-> 0, hash |-> <<>>, blocked |-> FALSE]}
  /\ nextId' = nextId + 1
  /\ UNCHANGED <<rules, version, call, running, late, skipped>>

ChangesNext ==
  \/ \E r \in RuleIds, rule \in CustomRules : AddPolicyRule(r, rule)
  \/ \E r \in RuleIds, action \in {"warn", "block"}, enabled \in BOOLEAN : UpdatePolicyRule(r, action, enabled)
  \/ \E r \in RuleIds : RemovePolicyRule(r)
  \/ \E sql \in SQLs, dryRun \in BOOLEAN : Preview(sql, dryRun)
  \/ StartAgentSession \/ Send \/ TimeOut \/ ReadEntries \/ OtherClient
  \/ \E s \in running : RunRefused(s) \/ RunStatement(s) \/ RunFails(s) \/ RunCommits(s)

ChangesSpec == ChangesInit /\ [][ChangesNext]_changeVars
-----------------------------------------------------------------------------
\* The entries a call reports are ones its own SQL made: neither another client's nor
\* those of an earlier call, also of the same SQL; and the only ones it leaves out are
\* those whose call hash was not captured.  Exempt are a call whose marker or entries
\* could not be read, and one after a call that gave up on SQL that was still running:
\* a retry then reports both.
EntriesAreItsOwn ==
  call.pc = "done" /\ call.status \in {"applied", "blocked", "error"} /\ call.known /\ late = {} =>
    LET own == {q \in ledger : q.call = call.n} IN
    /\ call.entries \subseteq {q.id : q \in own}
    /\ \A q \in own : q.id \in call.entries \/ (~ q.blocked /\ q.hash = <<>>)

\* The guess is right for all that the preview looks at: each such statement has this
\* tag, and passes the gate itself.
GuessedRight(sql) ==
  \A i \in DOMAIN sql : CommandTag(sql) \in Carries[sql[i]] => Fires[sql[i]] = sql[i] /\ TagOf[sql[i]] = CommandTag(sql)

\* The preview and the gate agree, as long as the rules did not change in between.  A
\* call that is blocked is blocked by a rule its preview named, unless the command has
\* another tag than the one guessed for the text, which is all the preview looks at, or the
\* gate could not tell its statement and took the whole query.  A call that was previewed as
\* blocked is not applied, unless the gate failed or the guess was wrong: the words
\* of CREATE TABLE AS suggest CREATE TABLE, and TRUNCATE fires no event trigger.
PreviewHonest ==
  call.pc = "done" /\ call.at = version =>
    /\ call.status = "blocked" /\ call.sure /\ TagOf[call.kind] = CommandTag(call.sql) => call.by \in call.preview
    /\ call.status = "applied" /\ GuessedRight(call.sql) => call.preview = {} \/ skipped
=============================================================================
