----------------------------- MODULE RowOrder ------------------------------
(* The order in which the ledger's rows are loaded (checkpoint.go).         *)
EXTENDS Naturals, FiniteSets

\* Rows in id order: the i-th has i - 1 rows below it.
ById(S) == [i \in 1..Cardinality(S) |->
              CHOOSE r \in S : Cardinality({x \in S : x.id < r.id}) = i - 1]
=============================================================================
