-------------------------------- MODULE MCHA --------------------------------
(***************************************************************************)
(* HA with two operators.  What a command run beside a failover or a       *)
(* failback may leave behind is excepted from every property, so such       *)
(* states are checked and not explored further.                            *)
(***************************************************************************)
EXTENDS HA, TLC

Symmetry == Permutations(Operators)

NoOverlap == ~ overlap
=============================================================================
