--------------------------- MODULE MCCheckpoints ---------------------------
(* Checkpoints on small instances; the cfg files give the constants.       *)
EXTENDS Checkpoints, TLC

\* Engines are interchangeable (only used with safety properties).
Symmetry == Permutations(Engines)
=============================================================================
