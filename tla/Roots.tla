------------------------------- MODULE Roots -------------------------------
(***************************************************************************)
(* What the entry_count and merkle_root of a checkpoint say of its rows:   *)
(* Verify compares the two with the rows it finds (integrity.go).          *)
(***************************************************************************)
EXTENDS Merkle

CONSTANTS RowHashes, \* the rows there may be, as their hashes
          MaxLen     \* bound: rows in a checkpoint

ASSUME MaxLenAssumption == MaxLen \in Nat

VARIABLE roots       \* the rows of two checkpoints

RowSeqs == UNION {[1..n -> RowHashes] : n \in 1..MaxLen}

RootsInit == roots = <<>>

RootsNext == roots = <<>> /\ \E left, right \in RowSeqs : roots' = <<left, right>>

RootsSpec == RootsInit /\ [][RootsNext]_roots

\* MerkleRoot commits to its rows: two checkpoints with the same entry_count
\* and merkle_root hold the same rows.  Roots alone do not, since the last
\* node of an odd level is duplicated, which is why Verify also compares
\* the number of rows.
RootCommitsToRows == roots # <<>> => RootCommits(roots[1], roots[2])
=============================================================================
