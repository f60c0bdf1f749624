------------------------------ MODULE Merkle -------------------------------
(***************************************************************************)
(* The Merkle tree over the rows of a checkpoint (integrity.go).  sha256   *)
(* is injective, so a hash is its preimage: a leaf is <<0, row>> and an    *)
(* inner node <<1, left, right>>, the first element being the byte that    *)
(* separates the two.                                                      *)
(***************************************************************************)
EXTENDS Naturals, Sequences

LeafHash(r) == <<0, r>>

NodeHash(l, r) == <<1, l, r>>

NoRoot == <<>>

\* An odd level is completed with a copy of its last node.
EvenLevel(level) == IF Len(level) % 2 = 1 THEN Append(level, level[Len(level)])
                    ELSE level

\* Mutant of NextLevel: an unpaired last node is dropped.
NextLevelDropsOdd(level) ==
  [i \in 1..(Len(level) \div 2) |-> NodeHash(level[2 * i - 1], level[2 * i])]

NextLevel(level) ==
  LET even == EvenLevel(level)
  IN  [i \in 1..(Len(even) \div 2) |-> NodeHash(even[2 * i - 1], even[2 * i])]

\* The loop of MerkleRoot: the level that it has after n rounds.
Levels(leaves) ==
  LET level[n \in Nat] == IF n = 0 THEN leaves
                          ELSE IF Len(level[n - 1]) <= 1 THEN level[n - 1]
                          ELSE NextLevel(level[n - 1])
  IN  level

\* Halving a level Len(leaves) times leaves one node.
MerkleRoot(leaves) ==
  IF leaves = <<>> THEN NoRoot ELSE Levels(leaves)[Len(leaves)][1]

rootOf(rs) == MerkleRoot([i \in DOMAIN rs |-> LeafHash(rs[i])])

\* Two checkpoints with the same entry_count and merkle_root hold the same rows.
RootCommits(left, right) ==
  Len(left) = Len(right) /\ rootOf(left) = rootOf(right) => left = right
=============================================================================
