------------------------------- MODULE Impact -------------------------------
(***************************************************************************)
(* Impact analysis (ledger/impact.go, branch/impact.go): which object a    *)
(* statement changes and how, found in its text, and a score for what it   *)
(* affects.  A statement is a verb and, for ALTER TABLE, its actions, of   *)
(* which the tokenizer delivers as many as read says: it stops after 256   *)
(* tokens and at the first semicolon, also one within a literal.           *)
(***************************************************************************)
EXTENDS Naturals, Sequences, FiniteSets, FiniteSetsExt

VARIABLE change   \* the statement, and what the branch says of its object

\* "drop-bare" drops a column called identity or expression without saying COLUMN,
\* and "add-words" has RENAME among its names or within a literal.
AlterActions == {"add", "add-words", "drop-constraint", "drop-column", "drop-bare",
                 "alter-column-type", "alter-column", "alter-constraint"}

\* Postgres takes a RENAME alone, and the other actions in any number.
Alone == {<<"rename">>, <<"rename-column">>, <<"rename-constraint">>}
OtherVerbs == {"drop", "drop-other", "truncate", "create-index", "grant", "revoke", "other"}

Statements ==
  UNION {[verb : {"alter"}, acts : [1..n -> AlterActions], read : 0..n] : n \in 1..2}
  \union [verb : {"alter"}, acts : Alone, read : {1}]
  \union [verb : OtherVerbs, acts : {<<>>}, read : {0}]

\* odb.blast_radius and the other branches: dependents by weight, rows, presence, rules.
Circumstances ==
  [found : BOOLEAN, heavy : 0..2, medium : {0, 1}, light : {0, 3}, truncated : BOOLEAN,
   rows : {0, 10000, 1000000}, present : {0, 6}, blocks : {0, 1}, warns : {0, 1}]

Unrecognised == "unrecognised"

\* What the words of an action read as: ADD, DROP CONSTRAINT and DROP IDENTITY as
\* nothing, a constraint that is altered as a column, and RENAME without a new name
\* as a plain "alter".
reads(act) ==
  CASE act \in {"add", "drop-constraint", "drop-bare"} -> "nothing"
    [] act \in {"add-words", "rename-constraint"} -> "alter"
    [] act = "alter-constraint" -> "alter-column"
    [] OTHER -> act

\* Mutant of ParseTarget: the first action decides.
ParseTargetFirst(s) ==
  CASE s.verb = "alter" -> IF s.read = 0 \/ reads(s.acts[1]) = "nothing" THEN "alter" ELSE reads(s.acts[1])
    [] s.verb \in {"drop-other", "other"} -> Unrecognised
    [] OTHER -> s.verb

\* The first action that reads as something decides.  Functions, schemas and other
\* objects are not recognised.
ParseTarget(s) ==
  LET deciding == {i \in 1..s.read : reads(s.acts[i]) # "nothing"}
  IN CASE s.verb = "alter" -> IF deciding = {} THEN "alter" ELSE reads(s.acts[Min(deciding)])
       [] s.verb \in {"drop-other", "other"} -> Unrecognised
       [] OTHER -> s.verb

Destructive(action) ==
  action \in {"drop", "drop-column", "alter-column-type", "truncate", "rename", "rename-column"}

\* Views, functions and foreign keys are heavy, triggers and policies medium, indexes
\* and the rest light.
scoreImpact(action, c) ==
  IF ~ c.found THEN 0
  ELSE (IF Destructive(action) THEN 5 ELSE 1) + 3 * c.heavy + 2 * c.medium + c.light
       + (IF c.truncated THEN 3 ELSE 0)
       + (IF c.rows >= 1000000 THEN 3 ELSE IF c.rows >= 10000 THEN 1 ELSE 0)
       + (IF c.present > 5 THEN 5 ELSE c.present)
       + 5 * c.blocks + 2 * c.warns

level(score, c) ==
  IF ~ c.found THEN "none" ELSE IF score >= 15 THEN "high" ELSE IF score >= 5 THEN "medium" ELSE "low"

\* Impact: an error if the statement's object is not recognised.
Report(s, c) ==
  LET action == ParseTarget(s)
  IN IF action = Unrecognised THEN Unrecognised ELSE level(scoreImpact(action, c), c)

NoChange == [s |-> [verb |-> "other", acts |-> <<>>, read |-> 0],
             c |-> [found |-> FALSE, heavy |-> 0, medium |-> 0, light |-> 0, truncated |-> FALSE,
                    rows |-> 0, present |-> 0, blocks |-> 0, warns |-> 0]]

\* A caller asks about a statement.
Ask(s, c) == change' = [s |-> s, c |-> c]
-----------------------------------------------------------------------------
\* "A destructive change starts at 5" (impact.go): a statement that drops a column or
\* changes its type, wherever in the statement it does, is at least a medium change,
\* and 'low' is never the answer.  Exempt are an action that the tokenizer does not
\* get to, one behind an action that reads as another change of the table, and the
\* drop of a column whose name reads as DROP IDENTITY or DROP EXPRESSION.
DropsAreFlagged ==
  LET s == change.s
      Hides(act) == act \in {"alter-column", "alter-constraint", "add-words"}
      flagged == {i \in 1..s.read : /\ s.acts[i] \in {"drop-column", "alter-column-type"}
                                    /\ \A k \in 1..i : ~ Hides(s.acts[k])}
  IN change.c.found /\ s.verb = "alter" /\ flagged # {} => Report(s, change.c) \in {"medium", "high"}
=============================================================================
