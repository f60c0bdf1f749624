----------------------------- MODULE MCChanges ------------------------------
(* execute_change, the diff of two branches, the impact of a statement and   *)
(* the Merkle roots of two row sequences on small instances; a behaviour is  *)
(* about one of the four.                                                    *)
EXTENDS Changes, LedgerDiff, Impact, Roots, TLC

VARIABLE part

all == <<part, changeVars, diffVars, change, roots>>

MCTagOf == [add |-> "ALTER TABLE", dropcol |-> "ALTER TABLE", drop |-> "DROP TABLE",
            ctas |-> "CREATE TABLE AS", truncate |-> "TRUNCATE TABLE", do |-> "DO"]

MCGuessOf == [MCTagOf EXCEPT !.ctas = "CREATE TABLE", !.truncate = "TRUNCATE"]

MCCarries == [k \in DOMAIN MCTagOf |-> IF k = "truncate" THEN {"TRUNCATE"} ELSE {MCTagOf[k], MCGuessOf[k]}]

MCFires == [k \in DOMAIN MCTagOf |-> CASE k = "truncate" -> "none" [] k = "do" -> "dropcol" [] OTHER -> k]

MCSQLs == {<<"drop">>, <<"add", "dropcol">>, <<"add", "do">>, <<"truncate">>, <<"ctas">>}

MCCustomRules == [tag : {"CREATE TABLE", "TRUNCATE"}, pattern : {DOMAIN MCTagOf},
                  action : {"block"}, enabled : {TRUE}]

MCBuiltinRule == [tag |-> "ALTER TABLE", pattern |-> {"dropcol"}, action |-> "warn", enabled |-> TRUE]

Init == /\ part \in {"changes", "diff", "impact", "roots"}
        /\ ChangesInit /\ DiffInit /\ change = NoChange /\ RootsInit

Next ==
  \/ part = "changes" /\ ChangesNext /\ UNCHANGED <<part, diffVars, change, roots>>
  \/ part = "diff" /\ DiffNext /\ UNCHANGED <<part, changeVars, change, roots>>
  \/ /\ part = "impact" /\ change = NoChange
     /\ \E s \in Statements, c \in Circumstances : Ask(s, c)
     /\ UNCHANGED <<part, changeVars, diffVars, roots>>
  \/ part = "roots" /\ RootsNext /\ UNCHANGED <<part, changeVars, diffVars, change>>

Spec == Init /\ [][Next]_all

\* Branches other than main are interchangeable.
Symmetry == Permutations(Names \ {Root})
=============================================================================
