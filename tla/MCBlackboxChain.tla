-------------------------- MODULE MCBlackboxChain --------------------------
(* BlackboxChain on small instances; the cfg files give the constants.     *)
EXTENDS BlackboxChain, TLC

\* Sessions are interchangeable (only used with safety properties).
Symmetry == Permutations(Sessions)
=============================================================================
