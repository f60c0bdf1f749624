------------------------- MODULE CheckpointsProofs -------------------------
(***************************************************************************)
(* Proofs about Merkle, Checkpoints and LedgerDiff, for every number of    *)
(* rows, engines, branches and faults.  Facts about all rounds of a loop   *)
(* or all rows of a sequence are proved by taking the least counterexample.*)
(***************************************************************************)
EXTENDS Checkpoints, LedgerDiff, Roots, WellFoundedInduction, FiniteSetTheorems, SequenceTheorems, TLAPS

\* A set of numbers that is not empty has a least one.
LEMMA Least ==
  ASSUME NEW S \in SUBSET Nat, S # {}
  PROVE  \E n \in S : \A m \in S : n <= m
<1> DEFINE R == OpToRel(<, Nat)
<1>1. \A x, y \in Nat : <<y, x>> \in R <=> y < x
  BY DEF OpToRel
<1>2. IsWellFoundedOn(R, Nat)
  BY NatLessThanWellFounded
<1> HIDE DEF R
<1>3. PICK x \in S : \A y \in S : ~ (<<y, x>> \in R)
  BY <1>2, WFMin
<1>4. ASSUME NEW y \in S PROVE x <= y
  <2>1. ~ (<<y, x>> \in R)
    BY <1>3
  <2>2. ~ (y < x)
    BY <1>1, <2>1
  <2> QED BY <2>2
<1> QED BY <1>4
-----------------------------------------------------------------------------
(* The Merkle tree *)

\* One round of MerkleRoot's loop.
Round(l) == IF Len(l) <= 1 THEN l ELSE NextLevel(l)

\* l is what the first n rounds make of the leaves.
Rounds(l, leaves, n) ==
  /\ l = [k \in 0..n |-> l[k]]
  /\ l[0] = leaves
  /\ \A k \in 1..n : l[k] = Round(l[k - 1])

\* Two lists of rounds over the same leaves agree where both are defined.
LEMMA RoundsAgree ==
  ASSUME NEW leaves, NEW l, NEW m, NEW n \in Nat, NEW o \in Nat, n <= o,
         Rounds(l, leaves, n), Rounds(m, leaves, o)
  PROVE  \A k \in 0..n : l[k] = m[k]
<1> DEFINE Bad == {k \in 0..n : l[k] # m[k]}
<1> SUFFICES ASSUME Bad # {} PROVE FALSE
  OBVIOUS
<1>1. Bad \in SUBSET Nat
  OBVIOUS
<1>2. PICK k \in Bad : \A j \in Bad : k <= j
  BY <1>1, Least
<1>3. k \in 0..n /\ l[k] # m[k]
  OBVIOUS
<1>4. k # 0
  BY <1>3 DEF Rounds
<1>5. k - 1 \in 0..n /\ k - 1 \notin Bad /\ k \in 1..n /\ k \in 1..o
  BY <1>2, <1>3, <1>4
<1>6. l[k - 1] = m[k - 1]
  BY <1>5
<1> QED BY <1>3, <1>5, <1>6 DEF Rounds

\* There are rounds of every number.
LEMMA RoundsExist ==
  ASSUME NEW leaves
  PROVE  \A n \in Nat : \E l : Rounds(l, leaves, n)
<1> DEFINE Bad == {n \in Nat : ~ \E l : Rounds(l, leaves, n)}
<1> SUFFICES ASSUME Bad # {} PROVE FALSE
  OBVIOUS
<1>1. Bad \in SUBSET Nat
  OBVIOUS
<1>2. PICK n \in Bad : \A j \in Bad : n <= j
  BY <1>1, Least
<1>3. n \in Nat /\ ~ \E l : Rounds(l, leaves, n)
  OBVIOUS
<1>4. CASE n = 0
  <2> DEFINE z == [k \in 0..n |-> leaves]
  <2>1. Rounds(z, leaves, n)
    BY <1>4 DEF Rounds
  <2> QED BY <1>3, <2>1
<1>5. CASE n # 0
  <2>1. n - 1 \in Nat /\ n - 1 \notin Bad
    BY <1>2, <1>3, <1>5
  <2>2. PICK l : Rounds(l, leaves, n - 1)
    BY <2>1
  <2> DEFINE z == [k \in 0..n |-> IF k = n THEN Round(l[n - 1]) ELSE l[k]]
  <2>3. z = [k \in 0..n |-> z[k]] /\ z[0] = leaves
    BY <1>3, <1>5, <2>2 DEF Rounds
  <2>4. ASSUME NEW k \in 1..n PROVE z[k] = Round(z[k - 1])
    <3>1. k \in 0..n /\ k - 1 \in 0..n /\ k - 1 # n
      BY <1>3
    <3>2. z[k - 1] = l[k - 1]
      BY <3>1
    <3>3. CASE k = n
      BY <3>1, <3>2, <3>3
    <3>4. CASE k # n
      <4>1. k \in 1..(n - 1)
        BY <1>3, <3>4
      <4>2. l[k] = Round(l[k - 1])
        BY <2>2, <4>1 DEF Rounds
      <4>3. z[k] = l[k]
        BY <3>1, <3>4
      <4> QED BY <3>2, <4>2, <4>3
    <3> QED BY <3>3, <3>4
  <2> HIDE DEF z
  <2>5. Rounds(z, leaves, n)
    BY <2>3, <2>4 DEF Rounds
  <2> QED BY <1>3, <2>5
<1> QED BY <1>4, <1>5

\* What MerkleRoot's loop computes, round by round.
LEMMA LevelsIs ==
  ASSUME NEW leaves
  PROVE  /\ Levels(leaves)[0] = leaves
         /\ \A n \in Nat : n > 0 => Levels(leaves)[n] = Round(Levels(leaves)[n - 1])
<1> DEFINE R(n) == CHOOSE l : Rounds(l, leaves, n)
           f == [n \in Nat |-> R(n)[n]]
           Is(g) == g = [n \in Nat |-> IF n = 0 THEN leaves
                                       ELSE IF Len(g[n - 1]) <= 1 THEN g[n - 1]
                                       ELSE NextLevel(g[n - 1])]
<1>1. ASSUME NEW n \in Nat PROVE Rounds(R(n), leaves, n)
  BY RoundsExist
<1>2. f[0] = leaves
  BY <1>1 DEF Rounds
<1>3. ASSUME NEW n \in Nat, n > 0 PROVE f[n] = Round(f[n - 1])
  <2>1. n - 1 \in Nat /\ n - 1 <= n /\ n \in 1..n /\ n - 1 \in 0..(n - 1)
    BY <1>3
  <2>2. Rounds(R(n), leaves, n) /\ Rounds(R(n - 1), leaves, n - 1)
    BY <1>1, <2>1
  <2> HIDE DEF R
  <2>3. R(n)[n - 1] = R(n - 1)[n - 1]
    BY <2>1, <2>2, RoundsAgree
  <2>4. R(n)[n] = Round(R(n)[n - 1])
    BY <2>1, <2>2 DEF Rounds
  <2> QED BY <2>1, <2>3, <2>4
<1> HIDE DEF R
<1>4. f = [n \in Nat |-> f[n]]
  OBVIOUS
<1> HIDE DEF f
<1>5. Is(f)
  <2>1. ASSUME NEW n \in Nat PROVE f[n] = IF n = 0 THEN leaves
                                       ELSE IF Len(f[n - 1]) <= 1 THEN f[n - 1]
                                       ELSE NextLevel(f[n - 1])
    BY <1>2, <1>3 DEF Round
  <2> QED BY <1>4, <2>1
<1>6. Levels(leaves) = CHOOSE g : Is(g)
  BY DEF Levels
<1>7. Is(Levels(leaves))
  <2> HIDE DEF Is
  <2> QED BY <1>5, <1>6
<1> DEFINE v == Levels(leaves)
<1> HIDE DEF v
<1>8. Is(v)
  BY <1>7 DEF v
<1>9. ASSUME NEW n \in Nat PROVE v[n] = IF n = 0 THEN leaves
                                       ELSE IF Len(v[n - 1]) <= 1 THEN v[n - 1]
                                       ELSE NextLevel(v[n - 1])
  BY <1>8
<1>10. v[0] = leaves /\ \A n \in Nat : n > 0 => v[n] = Round(v[n - 1])
  BY <1>9 DEF Round
<1> QED BY <1>10 DEF v

\* l is a sequence of k elements, whatever they are.
Sized(l, k) == k \in Nat /\ l = [i \in 1..k |-> l[i]]

\* A sequence of k elements has length k.
LEMMA SizedIs ==
  ASSUME NEW l, NEW k, Sized(l, k)
  PROVE  l \in Seq({l[i] : i \in 1..k}) /\ Len(l) = k
<1> DEFINE S == {l[i] : i \in 1..k}
<1>1. l \in [1..k -> S] /\ k \in Nat
  BY DEF Sized
<1>2. l \in Seq(S)
  BY <1>1, SeqDef
<1>3. DOMAIN l = 1..k /\ DOMAIN l = 1..Len(l) /\ Len(l) \in Nat
  BY <1>1, <1>2, LenProperties
<1> HIDE DEF S
<1>4. Len(l) = k
  BY <1>1, <1>3
<1> QED BY <1>2, <1>4 DEF S

\* The pairs that a round hashes; the last node of an odd level is its own partner.
LEMMA NextLevelIs ==
  ASSUME NEW l, NEW k, Sized(l, k), k >= 1
  PROVE  NextLevel(l) = [i \in 1..((k + 1) \div 2) |-> NodeHash(l[2 * i - 1], IF 2 * i <= k THEN l[2 * i] ELSE l[k])]
<1> DEFINE S == {l[i] : i \in 1..k}
           even == EvenLevel(l)
<1>0. k \in Nat /\ l \in Seq(S) /\ Len(l) = k
  BY SizedIs DEF Sized
<1>1. l[k] \in S
  BY <1>0
<1>2. CASE k % 2 = 1
  <2> HIDE DEF S
  <2>1. even = Append(l, l[k])
    BY <1>0, <1>2 DEF EvenLevel
  <2>2. Len(even) = k + 1 /\ (\A i \in 1..k : even[i] = l[i]) /\ even[k + 1] = l[k]
    BY <1>0, <1>1, <2>1
  <2> HIDE DEF even
  <2>3. ASSUME NEW i \in 1..((k + 1) \div 2)
        PROVE  even[2 * i - 1] = l[2 * i - 1] /\ even[2 * i] = IF 2 * i <= k THEN l[2 * i] ELSE l[k]
    <3>1. 2 * i - 1 \in 1..k /\ 2 * i \in 1..(k + 1)
      BY <1>0, <1>2
    <3>2. even[2 * i - 1] = l[2 * i - 1]
      BY <2>2, <3>1
    <3>3. CASE 2 * i <= k
      <4>1. 2 * i \in 1..k
        BY <1>0, <3>1, <3>3
      <4> QED BY <2>2, <3>2, <3>3, <4>1
    <3>4. CASE ~ (2 * i <= k)
      <4>1. 2 * i = k + 1
        BY <1>0, <3>1, <3>4
      <4> QED BY <2>2, <3>2, <3>4, <4>1
    <3> QED BY <3>3, <3>4
  <2>4. NextLevel(l) = [i \in 1..((k + 1) \div 2) |-> NodeHash(even[2 * i - 1], even[2 * i])]
    BY <2>2 DEF NextLevel, even
  <2> QED BY <2>3, <2>4
<1>3. CASE k % 2 # 1
  <2> HIDE DEF S
  <2>1. EvenLevel(l) = l
    BY <1>0, <1>3 DEF EvenLevel
  <2>2. k \div 2 = (k + 1) \div 2
    BY <1>0, <1>3
  <2>3. \A i \in 1..((k + 1) \div 2) : 2 * i <= k
    BY <1>0, <1>3
  <2>4. NextLevel(l) = [i \in 1..((k + 1) \div 2) |-> NodeHash(l[2 * i - 1], l[2 * i])]
    BY <1>0, <2>1, <2>2 DEF NextLevel
  <2> QED BY <2>3, <2>4
<1> QED BY <1>2, <1>3

\* A round halves a level of more than one node, and two levels of the same length
\* whose next levels are equal are equal.
LEMMA RoundIs ==
  ASSUME NEW l, NEW m, NEW k, Sized(l, k), Sized(m, k), k >= 1
  PROVE  /\ k = 1 => Round(l) = l /\ Round(m) = m
         /\ k > 1 => Sized(Round(l), (k + 1) \div 2) /\ Sized(Round(m), (k + 1) \div 2)
         /\ Round(l) = Round(m) => l = m
<1> DEFINE S(x) == {x[i] : i \in 1..k}
           h == (k + 1) \div 2
           N(x) == [i \in 1..h |-> NodeHash(x[2 * i - 1], IF 2 * i <= k THEN x[2 * i] ELSE x[k])]
<1>0. k \in Nat /\ Len(l) = k /\ Len(m) = k
  BY SizedIs DEF Sized
<1>1. CASE k = 1
  BY <1>0, <1>1 DEF Round
<1>2. CASE k > 1
  <2>1. Round(l) = N(l) /\ Round(m) = N(m)
    <3>1. NextLevel(l) = N(l)
      BY NextLevelIs
    <3>2. NextLevel(m) = N(m)
      BY NextLevelIs
    <3>3. ~ (Len(l) <= 1) /\ ~ (Len(m) <= 1)
      BY <1>0, <1>2
    <3> HIDE DEF N
    <3> QED BY <3>1, <3>2, <3>3 DEF Round
  <2>2. h \in Nat
    BY <1>0
  <2>3. Sized(N(l), h) /\ Sized(N(m), h)
    <3> HIDE DEF h
    <3> QED BY <2>2 DEF Sized
  <2>4. ASSUME N(l) = N(m), NEW j \in 1..k PROVE l[j] = m[j]
    <3>1. CASE j % 2 = 1
      <4> DEFINE i == (j + 1) \div 2
      <4>1. i \in 1..h /\ 2 * i - 1 = j
        BY <1>0, <3>1
      <4> HIDE DEF i, h
      <4>2. N(l)[i] = N(m)[i]
        BY <2>4
      <4>3. NodeHash(l[j], IF 2 * i <= k THEN l[2 * i] ELSE l[k]) = NodeHash(m[j], IF 2 * i <= k THEN m[2 * i] ELSE m[k])
        BY <4>1, <4>2
      <4> QED BY <4>3 DEF NodeHash
    <3>2. CASE j % 2 # 1
      <4> DEFINE i == j \div 2
      <4>1. i \in 1..h /\ 2 * i = j /\ 2 * i <= k
        BY <1>0, <3>2
      <4> HIDE DEF i, h
      <4>2. N(l)[i] = N(m)[i]
        BY <2>4
      <4>3. NodeHash(l[2 * i - 1], l[j]) = NodeHash(m[2 * i - 1], m[j])
        BY <4>1, <4>2
      <4> QED BY <4>3 DEF NodeHash
    <3> QED BY <3>1, <3>2
  <2>5. N(l) = N(m) => l = m
    <3> HIDE DEF N
    <3> SUFFICES ASSUME N(l) = N(m) PROVE l = m
      OBVIOUS
    <3>1. \A j \in 1..k : l[j] = m[j]
      BY <2>4
    <3> QED BY <3>1 DEF Sized
  <2> HIDE DEF N
  <2> QED BY <1>2, <2>1, <2>3, <2>5
<1> QED BY <1>0, <1>1, <1>2

\* The levels of two trees over the same number of leaves have the same length in
\* every round, one node less at least until only the root is left.
LEMMA LevelsShrink ==
  ASSUME NEW a, NEW b, NEW k, Sized(a, k), Sized(b, k), k >= 1
  PROVE  \A n \in Nat : \E s \in 1..k : /\ Sized(Levels(a)[n], s) /\ Sized(Levels(b)[n], s)
                                        /\ s = 1 \/ s + n <= k
<1> DEFINE Good(n) == \E s \in 1..k : /\ Sized(Levels(a)[n], s) /\ Sized(Levels(b)[n], s)
                                      /\ s = 1 \/ s + n <= k
           Bad == {n \in Nat : ~ Good(n)}
<1>0. k \in Nat
  BY DEF Sized
<1> SUFFICES ASSUME Bad # {} PROVE FALSE
  OBVIOUS
<1>1. PICK n \in Bad : \A j \in Bad : n <= j
  <2>1. Bad \in SUBSET Nat
    OBVIOUS
  <2> HIDE DEF Bad
  <2> QED BY <2>1, Least
<1>2. n \in Nat /\ ~ Good(n)
  OBVIOUS
<1>3. n # 0
  <2> SUFFICES ASSUME n = 0 PROVE Good(n)
    BY <1>2
  <2>1. Levels(a)[n] = a /\ Levels(b)[n] = b
    BY LevelsIs
  <2>2. k \in 1..k /\ k + n <= k
    BY <1>0
  <2> QED BY <2>1, <2>2
<1>4. n - 1 \in Nat /\ n > 0 /\ Good(n - 1)
  BY <1>1, <1>2, <1>3
<1>5. PICK s \in 1..k : Sized(Levels(a)[n - 1], s) /\ Sized(Levels(b)[n - 1], s) /\ (s = 1 \/ s + (n - 1) <= k)
  BY <1>4
<1>6. Levels(a)[n] = Round(Levels(a)[n - 1]) /\ Levels(b)[n] = Round(Levels(b)[n - 1])
  BY <1>2, <1>4, LevelsIs
<1>7. s \in Nat /\ s >= 1
  BY <1>0
<1>8. CASE s = 1
  <2>1. Sized(Levels(a)[n], 1) /\ Sized(Levels(b)[n], 1)
    BY <1>5, <1>6, <1>7, <1>8, RoundIs
  <2>2. 1 \in 1..k
    BY <1>0
  <2> QED BY <1>2, <2>1, <2>2
<1>9. CASE s > 1
  <2> DEFINE h == (s + 1) \div 2
  <2>1. Sized(Levels(a)[n], h) /\ Sized(Levels(b)[n], h)
    <3> DEFINE x == Levels(a)[n - 1]
               y == Levels(b)[n - 1]
    <3>1. Sized(x, s) /\ Sized(y, s) /\ s >= 1 /\ s > 1
      BY <1>5, <1>7, <1>9
    <3>2. Levels(a)[n] = Round(x) /\ Levels(b)[n] = Round(y)
      BY <1>6
    <3> HIDE DEF x, y
    <3>3. Sized(Round(x), (s + 1) \div 2) /\ Sized(Round(y), (s + 1) \div 2)
      BY <3>1, RoundIs, Zenon
    <3> QED BY <3>2, <3>3
  <2>2. h \in 1..k /\ h <= s - 1
    BY <1>0, <1>7, <1>9
  <2> HIDE DEF h
  <2>3. h = 1 \/ h + n <= k
    BY <1>0, <1>2, <1>5, <1>7, <1>9, <2>2
  <2> QED BY <1>2, <2>1, <2>2, <2>3
<1> QED BY <1>7, <1>8, <1>9

\* Two checkpoints with the same entry_count and merkle_root hold the same leaves:
\* equal levels come from equal levels, round by round back to the leaves.
LEMMA RootFixesLeaves ==
  ASSUME NEW a, NEW b, NEW k, Sized(a, k), Sized(b, k), MerkleRoot(a) = MerkleRoot(b)
  PROVE  a = b
<1>0. k \in Nat /\ Len(a) = k /\ Len(b) = k
  BY SizedIs DEF Sized
<1>1. CASE k = 0
  <2>1. 1..k = {}
    BY <1>1
  <2> QED BY <1>1, <2>1 DEF Sized
<1>2. CASE k # 0
  <2>0. k >= 1
    BY <1>0, <1>2
  <2>1. a # <<>> /\ b # <<>>
    BY <1>0, <1>2, EmptySeq
  <2>2. Levels(a)[k][1] = Levels(b)[k][1]
    BY <1>0, <2>1 DEF MerkleRoot
  <2>3. Levels(a)[k] = Levels(b)[k]
    <3>1. PICK s \in 1..k : Sized(Levels(a)[k], s) /\ Sized(Levels(b)[k], s) /\ (s = 1 \/ s + k <= k)
      BY <1>0, <2>0, LevelsShrink
    <3>2. s = 1
      BY <1>0, <3>1
    <3>3. \A i \in 1..s : Levels(a)[k][i] = Levels(b)[k][i]
      BY <2>2, <3>2
    <3> QED BY <3>1, <3>3 DEF Sized
  <2> DEFINE Equal == {n \in Nat : Levels(a)[n] = Levels(b)[n]}
  <2>4. PICK n \in Equal : \A j \in Equal : n <= j
    <3>1. Equal \in SUBSET Nat /\ Equal # {}
      BY <1>0, <2>3
    <3> HIDE DEF Equal
    <3> QED BY <3>1, Least
  <2>5. CASE n = 0
    BY <2>5, LevelsIs
  <2>6. CASE n # 0
    <3>1. n - 1 \in Nat /\ n > 0 /\ n \in Nat /\ n - 1 \notin Equal
      BY <2>4, <2>6
    <3>2. PICK s \in 1..k : Sized(Levels(a)[n - 1], s) /\ Sized(Levels(b)[n - 1], s)
      BY <2>0, <3>1, LevelsShrink
    <3>3. Round(Levels(a)[n - 1]) = Round(Levels(b)[n - 1])
      BY <3>1, LevelsIs
    <3>4. s >= 1
      BY <1>0
    <3>5. Levels(a)[n - 1] = Levels(b)[n - 1]
      BY <3>2, <3>3, <3>4, RoundIs
    <3> QED BY <3>1, <3>5
  <2> QED BY <2>5, <2>6
<1> QED BY <1>1, <1>2

\* Two checkpoints with the same entry_count and merkle_root hold the same rows, of
\* any number.  Roots alone do not commit to the rows, since the last node of an odd
\* level is duplicated, which is why Verify also compares the number of rows.
THEOREM RootCommitsToItsRows ==
  ASSUME NEW Values, NEW left \in Seq(Values), NEW right \in Seq(Values)
  PROVE  RootCommits(left, right)
<1> SUFFICES ASSUME Len(left) = Len(right), rootOf(left) = rootOf(right)
             PROVE  left = right
  BY DEF RootCommits
<1> DEFINE k == Len(left)
           L(rs) == [i \in DOMAIN rs |-> LeafHash(rs[i])]
<1>0. k \in Nat /\ left \in [1..k -> Values] /\ right \in [1..k -> Values]
  BY LenProperties
<1> HIDE DEF k
<1>1. Sized(L(left), k) /\ Sized(L(right), k)
  BY <1>0 DEF Sized
<1>2. MerkleRoot(L(left)) = MerkleRoot(L(right))
  BY DEF rootOf
<1>3. L(left) = L(right)
  <2> HIDE DEF L
  <2> QED BY <1>1, <1>2, RootFixesLeaves
<1>4. ASSUME NEW i \in 1..k PROVE left[i] = right[i]
  <2>1. L(left)[i] = L(right)[i]
    BY <1>3
  <2>2. LeafHash(left[i]) = LeafHash(right[i])
    BY <1>0, <2>1
  <2> QED BY <2>2 DEF LeafHash
<1> QED BY <1>0, <1>4

\* The same of any two checkpoints with rows of any number and kind.
THEOREM CheckpointsCommitToRows == RootsSpec => []RootCommitsToRows
<1> DEFINE Inv == roots = <<>> \/ \E left, right \in Seq(RowHashes) : roots = <<left, right>>
<1>1. RootsInit => Inv
  BY DEF RootsInit
<1>2. Inv /\ [RootsNext]_roots => Inv'
  <2>1. RowSeqs \subseteq Seq(RowHashes)
    BY MaxLenAssumption DEF RowSeqs
  <2> QED BY <2>1 DEF RootsNext
<1>3. Inv => RootCommitsToRows
  <2> SUFFICES ASSUME NEW left \in Seq(RowHashes), NEW right \in Seq(RowHashes), roots = <<left, right>>
               PROVE  RootCommits(roots[1], roots[2])
    BY DEF RootCommitsToRows
  <2> QED BY RootCommitsToItsRows
<1> QED BY <1>1, <1>2, <1>3, PTL DEF RootsSpec
-----------------------------------------------------------------------------
(* Rows in id order *)

\* Rows with ids of their own, up to some number.
Numbered(S) == /\ \E m \in Nat : \A r \in S : r.id \in 1..m
               /\ \A r, x \in S : r.id = x.id => r = x

\* Such a set is finite.
LEMMA NumberedFinite ==
  ASSUME NEW S, Numbered(S)
  PROVE  IsFiniteSet(S) /\ Cardinality(S) \in Nat /\ \A r \in S : r.id \in Nat
<1> DEFINE f == [r \in S |-> r.id]
<1>0. PICK m \in Nat : \A r \in S : r.id \in 1..m
  BY DEF Numbered
<1>1. f \in Injection(S, 1..m)
  BY <1>0 DEF Numbered, Injection, IsInjective
<1>2. IsFiniteSet(1..m)
  BY FS_Interval
<1> HIDE DEF f
<1>3. IsFiniteSet(S)
  BY <1>1, <1>2, FS_Injection
<1> QED BY <1>0, <1>3, FS_CardinalityType

Below(r, S) == {x \in S : x.id < r.id}

\* The number of rows below a row is its own, and less than the number of all rows.
LEMMA RankIs ==
  ASSUME NEW S, Numbered(S)
  PROVE  /\ \A r \in S : Cardinality(Below(r, S)) \in 0..(Cardinality(S) - 1)
         /\ \A r, x \in S : Cardinality(Below(r, S)) = Cardinality(Below(x, S)) => r = x
<1>0. IsFiniteSet(S) /\ Cardinality(S) \in Nat /\ \A r \in S : r.id \in Nat
  BY NumberedFinite
<1>1. ASSUME NEW r \in S PROVE Cardinality(Below(r, S)) \in 0..(Cardinality(S) - 1)
  <2>1. Below(r, S) \in SUBSET S /\ r \notin Below(r, S)
    BY <1>0 DEF Below
  <2>2. /\ IsFiniteSet(Below(r, S))
        /\ Cardinality(Below(r, S)) <= Cardinality(S)
        /\ Cardinality(S) = Cardinality(Below(r, S)) => S = Below(r, S)
    BY <1>0, <2>1, FS_Subset
  <2>3. Cardinality(Below(r, S)) \in Nat
    BY <2>2, FS_CardinalityType
  <2>4. Cardinality(Below(r, S)) # Cardinality(S)
    BY <2>1, <2>2
  <2> QED BY <1>0, <2>2, <2>3, <2>4
<1>2. ASSUME NEW r \in S, NEW x \in S, r.id < x.id
      PROVE  Cardinality(Below(r, S)) # Cardinality(Below(x, S))
  <2>1. \A y \in S : y.id < r.id => y.id < x.id
    BY <1>0, <1>2
  <2>2. Below(r, S) \in SUBSET Below(x, S) /\ r \in Below(x, S) /\ r \notin Below(r, S)
    BY <1>0, <1>2, <2>1 DEF Below
  <2>3. Below(x, S) \in SUBSET S
    BY DEF Below
  <2>4. IsFiniteSet(Below(x, S))
    BY <1>0, <2>3, FS_Subset
  <2>5. Cardinality(Below(x, S)) = Cardinality(Below(r, S)) => Below(x, S) = Below(r, S)
    BY <2>2, <2>4, FS_Subset
  <2> QED BY <2>2, <2>5
<1>3. ASSUME NEW r \in S, NEW x \in S, r # x PROVE Cardinality(Below(r, S)) # Cardinality(Below(x, S))
  <2>1. r.id \in Nat /\ x.id \in Nat /\ r.id # x.id
    BY <1>0, <1>3 DEF Numbered
  <2>2. r.id < x.id \/ x.id < r.id
    BY <2>1
  <2> QED BY <1>2, <2>2
<1> QED BY <1>1, <1>3

\* The rows in id order are an ascending sequence of exactly those rows.
LEMMA ByIdIs ==
  ASSUME NEW S, Numbered(S)
  PROVE  /\ Sized(ById(S), Cardinality(S))
         /\ Len(ById(S)) = Cardinality(S)
         /\ S = {ById(S)[i] : i \in 1..Cardinality(S)}
         /\ \A i, j \in 1..Cardinality(S) : i < j => ById(S)[i].id < ById(S)[j].id
<1> DEFINE n == Cardinality(S)
           rank == [r \in S |-> Cardinality(Below(r, S))]
<1>0. IsFiniteSet(S) /\ n \in Nat
  BY NumberedFinite
<1>1. rank \in Injection(S, 0..(n - 1))
  BY RankIs DEF Injection, IsInjective
<1>2. IsFiniteSet(0..(n - 1)) /\ Cardinality(0..(n - 1)) = n
  <2>1. 0 \in Int /\ n - 1 \in Int
    BY <1>0
  <2>2. Cardinality(0..(n - 1)) = IF 0 > n - 1 THEN 0 ELSE (n - 1) - 0 + 1
    BY <2>1, FS_Interval
  <2> QED BY <1>0, <2>1, <2>2, FS_Interval
<1>3. rank \in Surjection(S, 0..(n - 1))
  <2> HIDE DEF rank
  <2> QED BY <1>1, <1>2, FS_Injection
<1>4. ASSUME NEW i \in 1..n
      PROVE  ById(S)[i] \in S /\ Cardinality(Below(ById(S)[i], S)) = i - 1
  <2>1. i - 1 \in 0..(n - 1)
    BY <1>0
  <2>2. \E r \in S : rank[r] = i - 1
    BY <1>3, <2>1 DEF Surjection
  <2>3. \E r \in S : Cardinality(Below(r, S)) = i - 1
    BY <2>2
  <2>4. ById(S)[i] = CHOOSE r \in S : Cardinality(Below(r, S)) = i - 1
    BY DEF ById, Below
  <2> QED BY <2>3, <2>4
<1>5. Sized(ById(S), n)
  <2> DEFINE e(i) == CHOOSE r \in S : Cardinality({x \in S : x.id < r.id}) = i - 1
             f == [i \in 1..n |-> e(i)]
  <2>1. ById(S) = f
    BY DEF ById
  <2> HIDE DEF e
  <2>2. f = [i \in 1..n |-> f[i]]
    OBVIOUS
  <2> HIDE DEF f
  <2> QED BY <1>0, <2>1, <2>2 DEF Sized
<1>6. Len(ById(S)) = n
  BY <1>5, SizedIs
<1>7. ASSUME NEW r \in S PROVE \E i \in 1..n : ById(S)[i] = r
  <2> DEFINE i == Cardinality(Below(r, S)) + 1
  <2>1. i \in 1..n /\ i - 1 = Cardinality(Below(r, S))
    BY <1>0, RankIs
  <2>2. ById(S)[i] \in S /\ Cardinality(Below(ById(S)[i], S)) = Cardinality(Below(r, S))
    BY <1>4, <2>1
  <2>3. ById(S)[i] = r
    BY <2>2, RankIs
  <2> QED BY <2>1, <2>3
<1>8. S = {ById(S)[i] : i \in 1..n}
  BY <1>4, <1>7
<1>9. ASSUME NEW i \in 1..n, NEW j \in 1..n, i < j PROVE ById(S)[i].id < ById(S)[j].id
  <2> DEFINE r == ById(S)[i]
             x == ById(S)[j]
  <2>1. r \in S /\ Cardinality(Below(r, S)) = i - 1 /\ x \in S /\ Cardinality(Below(x, S)) = j - 1
    BY <1>4
  <2> HIDE DEF r, x
  <2> SUFFICES ASSUME ~ (r.id < x.id) PROVE FALSE
    BY DEF r, x
  <2>2. r.id \in Nat /\ x.id \in Nat /\ \A y \in S : y.id \in Nat
    BY <2>1, NumberedFinite
  <2>3. Below(x, S) \in SUBSET Below(r, S) /\ Below(r, S) \in SUBSET S
    BY <2>2 DEF Below
  <2>4. IsFiniteSet(Below(r, S))
    BY <1>0, <2>3, FS_Subset
  <2>5. Cardinality(Below(x, S)) <= Cardinality(Below(r, S))
    BY <2>3, <2>4, FS_Subset
  <2> QED BY <1>0, <1>9, <2>1, <2>5
<1> QED BY <1>5, <1>6, <1>8, <1>9

\* The rows of a ledger, or some of them.
Ledger(S) == /\ \A r \in S : r.id \in 1..MaxSeq
             /\ \A r, x \in S : r.id = x.id => r = x

\* They are numbered.
LEMMA LedgerNumbered ==
  ASSUME NEW S, Ledger(S)
  PROVE  Numbered(S)
BY BoundsAssumption DEF Ledger, Numbered

\* Some of the rows of such a set are one again.
LEMMA LedgerSubset ==
  ASSUME NEW S, Ledger(S), NEW T \in SUBSET S
  PROVE  Ledger(T)
BY DEF Ledger

\* ORDER BY id DESC LIMIT 1 finds the row with the greatest id.
LEMMA LastIs ==
  ASSUME NEW S, Ledger(S)
  PROVE  /\ S = {} => Last(S) = Genesis
         /\ S # {} => Last(S) \in S /\ \A x \in S : x.id <= Last(S).id
<1>1. CASE S = {}
  BY <1>1 DEF Last
<1>2. CASE S # {}
  <2> DEFINE D == {MaxSeq - r.id : r \in S}
  <2>1. D \in SUBSET Nat /\ D # {}
    BY <1>2, BoundsAssumption DEF Ledger
  <2> HIDE DEF D
  <2>2. PICK d \in D : \A e \in D : d <= e
    BY <2>1, Least
  <2> USE DEF D
  <2>3. PICK r \in S : d = MaxSeq - r.id
    OBVIOUS
  <2>4. ASSUME NEW x \in S PROVE x.id <= r.id
    <3>1. MaxSeq - r.id <= MaxSeq - x.id
      BY <2>2, <2>3
    <3>2. x.id \in 1..MaxSeq /\ r.id \in 1..MaxSeq
      BY DEF Ledger
    <3> QED BY <3>1, <3>2, BoundsAssumption
  <2> HIDE DEF D
  <2>5. Last(S) = CHOOSE r1 \in S : \A x \in S : x.id <= r1.id
    BY <1>2 DEF Last
  <2> QED BY <1>2, <2>4, <2>5
<1> QED BY <1>1, <1>2

\* It is the only row with the greatest id.
LEMMA LastUnique ==
  ASSUME NEW S, Ledger(S), NEW r \in S, \A x \in S : x.id <= r.id
  PROVE  Last(S) = r
<1>1. Last(S) \in S /\ r.id <= Last(S).id /\ Last(S).id <= r.id
  BY LastIs
<1>2. Last(S).id \in Nat /\ r.id \in Nat
  BY <1>1 DEF Ledger
<1>3. Last(S).id = r.id
  BY <1>1, <1>2
<1> QED BY <1>1, <1>3 DEF Ledger

\* The rows in id order end with the last.
LEMMA ByIdEnds ==
  ASSUME NEW S, Ledger(S), S # {}
  PROVE  ById(S)[Len(ById(S))] = Last(S)
<1> DEFINE n == Cardinality(S)
<1>0. IsFiniteSet(S) /\ n \in Nat /\ Numbered(S)
  BY LedgerNumbered, NumberedFinite
<1>1. Len(ById(S)) = n /\ S = {ById(S)[i] : i \in 1..n} /\ \A i, j \in 1..n : i < j => ById(S)[i].id < ById(S)[j].id
  BY <1>0, ByIdIs
<1>2. n \in 1..n
  BY <1>0, FS_EmptySet
<1> HIDE DEF n
<1>3. ById(S)[n] \in S
  BY <1>1, <1>2
<1>4. ASSUME NEW x \in S PROVE x.id <= ById(S)[n].id
  <2>1. PICK i \in 1..n : x = ById(S)[i]
    BY <1>1
  <2>2. x.id \in Nat /\ ById(S)[n].id \in Nat
    BY <1>3 DEF Ledger
  <2>3. CASE i < n
    BY <1>1, <1>2, <2>1, <2>2, <2>3
  <2>4. CASE i = n
    BY <2>1, <2>2, <2>4
  <2> QED BY <1>0, <2>3, <2>4
<1> QED BY <1>1, <1>3, <1>4, LastUnique

\* Two sets of rows of the same size with the same root are the same.
LEMMA RootFixesRows ==
  ASSUME NEW S, NEW T, Ledger(S), Ledger(T),
         Len(ById(S)) = Len(ById(T)), rootOf(ById(S)) = rootOf(ById(T))
  PROVE  S = T
<1> DEFINE n == Cardinality(S)
           V == S \union T
<1>1. Sized(ById(S), n) /\ S = {ById(S)[i] : i \in 1..n} /\ Len(ById(S)) = n
  BY ByIdIs, LedgerNumbered
<1>2. Sized(ById(T), n) /\ T = {ById(T)[i] : i \in 1..n} /\ Len(ById(T)) = n
  <2>1. Sized(ById(T), Cardinality(T)) /\ T = {ById(T)[i] : i \in 1..Cardinality(T)} /\ Len(ById(T)) = Cardinality(T)
    BY ByIdIs, LedgerNumbered
  <2> QED BY <1>1, <2>1
<1> HIDE DEF n
<1>3. ById(S) \in Seq(V) /\ ById(T) \in Seq(V)
  <2>1. ById(S) \in Seq(S)
    BY <1>1, SizedIs
  <2>2. ById(T) \in Seq(T)
    BY <1>2, SizedIs
  <2> QED BY <2>1, <2>2, SeqMonotonic
<1> HIDE DEF V
<1>4. RootCommits(ById(S), ById(T))
  BY <1>3, RootCommitsToItsRows
<1>5. ById(S) = ById(T)
  BY <1>4 DEF RootCommits
<1> QED BY <1>1, <1>2, <1>5
-----------------------------------------------------------------------------
(***************************************************************************)
(* The inductive invariant.  An engine past Load holds an anchor of the    *)
(* rows it took; so was every anchor file built, and every checkpoint has  *)
(* a range; the checkpoints are contiguous.  As long as the ledger is      *)
(* neither rewritten nor replaced, what an anchor was built from are rows  *)
(* of the ledger, linked in order, and either the audit has them all, or   *)
(* they are all that the audit has from there on.  As long as no append    *)
(* links out of order either, ids become visible in order and every row    *)
(* follows the next lower one.                                             *)
(***************************************************************************)
Sealing(a, T) ==
  /\ Ledger(T) /\ T # {}
  /\ a.fromId \in Nat
  /\ a = BuildAnchor(a.fromId, a.prevRoot, T)
  /\ \A r \in T : a.fromId <= r.id

Types ==
  /\ seq \in 0..MaxSeq
  /\ inflight \subseteq 1..seq
  /\ Ledger(rows)
  /\ \A r \in rows : r = Row(r.id, r.status, r.prev) /\ r.id <= seq /\ r.id \notin inflight
  /\ pc \in [Engines -> {"idle", "load", "insert", "write"}]
  /\ lastTo \in [Engines -> Nat]
  /\ prevRoot = [e \in Engines |-> prevRoot[e]]
  /\ built = [e \in Engines |-> built[e]]
  /\ took = [e \in Engines |-> took[e]]
  /\ audit \in {"idle", "rows"}

Ranges(C) == \A c \in C : c.fromId \in Nat /\ c.toId \in 1..MaxSeq /\ c.fromId <= c.toId

SealInv ==
  /\ \A e \in Engines : pc[e] \in {"insert", "write"} => Sealing(built[e], took[e])
  /\ Ranges(ckpts)
  /\ CheckpointsContiguous
  /\ \A x \in sealed : \E a \in anchors : a.toId = x.toId /\ Sealing(a, x.rows)

\* What the audit in progress, if any, has loaded.
Seen == IF audit = "rows" THEN loaded ELSE {}

Chained(a, T) == \E p : p.id \in Nat /\ p.id < a.fromId /\ CheckChain(p, T)

\* The rows T of an anchor, among those of the ledger, S, and of the audit, L.
Sits(a, T, S, L) ==
  /\ T \subseteq S /\ Chained(a, T)
  /\ T \subseteq L \/ \A r \in L : a.fromId <= r.id => r \in T

Calm == ~ Happened("tamper") /\ ~ Happened("recreate")

OrderInv == Calm =>
  /\ Seen \subseteq rows
  /\ \A c \in ckpts : \E T : Sealing(c, T) /\ Sits(c, T, rows, Seen)
  /\ \A e \in Engines : pc[e] \in {"insert", "write"} => Sits(built[e], took[e], rows, Seen)
  /\ anchors \subseteq ckpts
  /\ \A e \in Engines : pc[e] = "write" => built[e] \in ckpts

QuietInv == Calm /\ ~ Happened("reorder") /\ ~ Happened("stale") =>
  /\ Intact(rows) /\ Intact(Seen)
  /\ \A r \in rows, i \in inflight : r.id < i
-----------------------------------------------------------------------------
(* Anchors and checkpoints *)

\* What an anchor says of the rows it was built from.
LEMMA SealingIs ==
  ASSUME NEW a, NEW T, Sealing(a, T)
  PROVE  /\ a.toId = Last(T).id /\ a.lastRow = Last(T)
         /\ a.count = Len(ById(T)) /\ a.root = rootOf(ById(T))
         /\ Last(T) \in T /\ \A r \in T : r.id \in Nat /\ a.fromId <= r.id /\ r.id <= a.toId
         /\ a.fromId \in Nat /\ a.toId \in 1..MaxSeq /\ a.fromId <= a.toId
<1>1. a.toId = Last(T).id /\ a.lastRow = Last(T) /\ a.count = Len(ById(T)) /\ a.root = rootOf(ById(T))
  BY DEF Sealing, BuildAnchor
<1>2. Last(T) \in T /\ \A r \in T : r.id <= Last(T).id
  BY LastIs DEF Sealing
<1> QED BY <1>1, <1>2 DEF Sealing, Ledger

\* BuildAnchor seals the rows it is given.
LEMMA BuildSeals ==
  ASSUME NEW T, Ledger(T), T # {}, NEW from \in Nat, NEW root, \A r \in T : from <= r.id
  PROVE  Sealing(BuildAnchor(from, root, T), T)
<1> DEFINE a == BuildAnchor(from, root, T)
<1>1. a.fromId = from /\ a.prevRoot = root
  BY DEF BuildAnchor
<1> QED BY <1>1 DEF Sealing

\* lastCheckpoint finds the checkpoint with the greatest to_id.
LEMMA LastCkptIs ==
  ASSUME NEW C, Ranges(C)
  PROVE  /\ C = {} => LastCkpt(C).toId = 0
         /\ C # {} => LastCkpt(C) \in C
         /\ LastCkpt(C).toId \in Nat
         /\ \A c \in C : c.toId <= LastCkpt(C).toId
<1>1. CASE C = {}
  BY <1>1 DEF LastCkpt
<1>2. CASE C # {}
  <2> DEFINE D == {MaxSeq - c.toId : c \in C}
  <2>1. D \in SUBSET Nat /\ D # {}
    BY <1>2, BoundsAssumption DEF Ranges
  <2> HIDE DEF D
  <2>2. PICK d \in D : \A e \in D : d <= e
    BY <2>1, Least
  <2> USE DEF D
  <2>3. PICK c \in C : d = MaxSeq - c.toId
    OBVIOUS
  <2>4. ASSUME NEW x \in C PROVE x.toId <= c.toId
    <3>1. MaxSeq - c.toId <= MaxSeq - x.toId
      BY <2>2, <2>3
    <3>2. x.toId \in 1..MaxSeq /\ c.toId \in 1..MaxSeq
      BY DEF Ranges
    <3> QED BY <3>1, <3>2, BoundsAssumption
  <2> HIDE DEF D
  <2>5. LastCkpt(C) = CHOOSE c1 \in C : \A x \in C : x.toId <= c1.toId
    BY <1>2 DEF LastCkpt
  <2>6. LastCkpt(C) \in C /\ \A x \in C : x.toId <= LastCkpt(C).toId
    BY <2>4, <2>5
  <2> QED BY <1>2, <2>6 DEF Ranges
<1> QED BY <1>1, <1>2
-----------------------------------------------------------------------------
(* What the actions do *)

\* An append adds one row, which links to the last one if it is the next and not stale.
AppendSummary(n) ==
  /\ n.id \in inflight /\ n = Row(n.id, n.status, n.prev)
  /\ rows' = rows \union {n}
  /\ inflight' = inflight \ {n.id}
  /\ seq' = seq
  /\ UNCHANGED <<ckpts, anchors, engineVars, auditVars, sealed>>
  /\ \/ faults' = faults /\ n.prev = Last(rows) /\ \A j \in inflight : n.id <= j
     \/ faults' = faults \union {"reorder"} \/ faults' = faults \union {"stale"}

\* All ways to append, the next id in flight, one before its turn, or with a stale link,
\* are of this form.
LEMMA AppendIs ==
  ASSUME NEW i \in inflight, AppendNext(i) \/ AppendEarly(i) \/ AppendStale(i)
  PROVE  \E n : AppendSummary(n)
<1>0. PICK p : /\ rows' = rows \union {Row(i, "genuine", p)} /\ inflight' = inflight \ {i} /\ seq' = seq
               /\ \/ p = Last(rows) /\ faults' = faults /\ \A j \in inflight : i <= j
                  \/ faults' = faults \union {"reorder"} \/ faults' = faults \union {"stale"}
  <2>1. CASE AppendNext(i) \/ AppendEarly(i)
    <3> DEFINE n == Row(i, "genuine", Last(rows))
    <3>1. Ids({n}) = {i}
      BY DEF Ids, Row
    <3>2. Publish({n})
      BY <2>1 DEF AppendNext, AppendEarly
    <3>3. rows' = rows \union {n} /\ inflight' = inflight \ {i} /\ seq' = seq
      BY <3>1, <3>2 DEF Publish
    <3>4. (faults' = faults /\ \A j \in inflight : i <= j) \/ faults' = faults \union {"reorder"}
      BY <2>1 DEF AppendNext, AppendEarly, Fault
    <3> HIDE DEF n
    <3> QED BY <3>3, <3>4 DEF n
  <2>2. CASE AppendStale(i)
    BY <2>2 DEF AppendStale, Fault
  <2> QED BY <2>1, <2>2
<1> DEFINE n == Row(i, "genuine", p)
<1>1. n.id = i /\ n.prev = p /\ n = Row(n.id, n.status, n.prev)
  BY DEF Row
<1>4. rows' = rows \union {n} /\ inflight' = inflight \ {i} /\ seq' = seq
  BY <1>0
<1>5. UNCHANGED <<ckpts, anchors, engineVars, auditVars, sealed>>
  BY DEF AppendNext, AppendEarly, AppendStale
<1>6. \/ faults' = faults /\ n.prev = Last(rows) /\ \A j \in inflight : n.id <= j
      \/ faults' = faults \union {"reorder"} \/ faults' = faults \union {"stale"}
  BY <1>0, <1>1
<1>7. n.id \in inflight
  BY <1>1
<1> HIDE DEF n
<1>8. AppendSummary(n)
  BY <1>1, <1>4, <1>5, <1>6, <1>7 DEF AppendSummary
<1> QED BY <1>8

\* A step of an engine's Checkpoint call.
EngineSummary(e) ==
  /\ \A o \in Engines \ {e} : pc'[o] = pc[o] /\ built'[o] = built[o] /\ took'[o] = took[o]
  /\ \/ pc'[e] \in {"idle", "load"} /\ ckpts' = ckpts
     \/ /\ pc'[e] = "insert" /\ ckpts' = ckpts
        /\ took'[e] = Fresh(e) /\ Fresh(e) # {}
        /\ CheckChain(Last({r \in rows : r.id <= lastTo[e]}), Fresh(e))
        /\ built'[e] = BuildAnchor(lastTo[e] + 1, prevRoot[e], Fresh(e))
     \/ /\ pc[e] = "insert" /\ pc'[e] = "write"
        /\ Contiguous(built[e]) /\ ckpts' = ckpts \union {built[e]}
        /\ built'[e] = built[e] /\ took'[e] = took[e]
  /\ \/ anchors' = anchors /\ sealed' = sealed
     \/ /\ pc[e] = "write" /\ anchors' = anchors \union {built[e]}
        /\ sealed' = sealed \union {[toId |-> built[e].toId, rows |-> took[e]]}
  /\ faults \subseteq faults'
  /\ UNCHANGED <<logVars, auditVars>>

\* Each psql call and file operation of Checkpoint, failed or not, is of this form.
LEMMA EngineIs ==
  ASSUME Types, NEW e \in Engines, ReadLast(e) \/ Load(e) \/ Insert(e) \/ Write(e) \/ Fail(e)
  PROVE  EngineSummary(e)
<1>1. /\ pc = [o \in Engines |-> pc[o]]
      /\ built = [o \in Engines |-> built[o]]
      /\ took = [o \in Engines |-> took[o]]
  BY DEF Types
<1>2. ASSUME Done(e)
      PROVE  /\ \A o \in Engines \ {e} : pc'[o] = pc[o] /\ built'[o] = built[o] /\ took'[o] = took[o]
             /\ pc'[e] = "idle"
  BY <1>1, <1>2 DEF Done
<1>3. CASE ReadLast(e)
  BY <1>1, <1>3 DEF ReadLast, EngineSummary
<1>4. CASE Load(e)
  <2>1. CASE Done(e)
    BY <1>2, <1>4, <2>1 DEF Load, EngineSummary
  <2>2. CASE ~ Done(e)
    <3>1. /\ pc' = [pc EXCEPT ![e] = "insert"]
          /\ built' = [built EXCEPT ![e] = BuildAnchor(lastTo[e] + 1, prevRoot[e], Fresh(e))]
          /\ took' = [took EXCEPT ![e] = Fresh(e)]
          /\ Fresh(e) # {} /\ CheckChain(Last({r \in rows : r.id <= lastTo[e]}), Fresh(e))
          /\ UNCHANGED <<logVars, ckpts, anchors, auditVars, faults, sealed>>
      BY <1>4, <2>2 DEF Load
    <3>2. pc'[e] = "insert" /\ built'[e] = BuildAnchor(lastTo[e] + 1, prevRoot[e], Fresh(e)) /\ took'[e] = Fresh(e)
      BY <1>1, <3>1
    <3>3. \A o \in Engines \ {e} : pc'[o] = pc[o] /\ built'[o] = built[o] /\ took'[o] = took[o]
      BY <1>1, <3>1
    <3> QED BY <3>1, <3>2, <3>3 DEF EngineSummary
  <2> QED BY <2>1, <2>2
<1>5. CASE Insert(e)
  <2>1. CASE Done(e) /\ ckpts' = ckpts
    BY <1>2, <1>5, <2>1 DEF Insert, EngineSummary
  <2>2. CASE ~ (Done(e) /\ ckpts' = ckpts)
    <3>1. /\ pc[e] = "insert" /\ Contiguous(built[e])
          /\ ckpts' = ckpts \union {built[e]}
          /\ pc' = [pc EXCEPT ![e] = "write"]
          /\ UNCHANGED <<built, took>>
          /\ UNCHANGED <<logVars, anchors, auditVars, faults, sealed>>
      BY <1>5, <2>2 DEF Insert
    <3>2. pc'[e] = "write" /\ \A o \in Engines \ {e} : pc'[o] = pc[o]
      BY <1>1, <3>1
    <3> QED BY <3>1, <3>2 DEF EngineSummary
  <2> QED BY <2>1, <2>2
<1>6. CASE Write(e)
  BY <1>2, <1>6 DEF Write, EngineSummary
<1>7. CASE Fail(e)
  BY <1>2, <1>7 DEF Fail, Fault, EngineSummary
<1> QED BY <1>3, <1>4, <1>5, <1>6, <1>7

\* The steps that change neither the ledger's rows nor a checkpoint call.
QuietSummary ==
  /\ UNCHANGED <<rows, ckpts, anchors, engineVars, faults, sealed>>
  /\ \/ /\ seq' = seq + 1 /\ seq < MaxSeq /\ inflight' = inflight \union {seq + 1}
        /\ UNCHANGED auditVars
     \/ /\ seq' = seq /\ inflight' \subseteq inflight
        /\ UNCHANGED auditVars
     \/ UNCHANGED <<seq, inflight>> /\ audit' = "rows" /\ loaded' = rows
     \/ UNCHANGED <<seq, inflight>> /\ audit' = "idle"

\* The cases of a step.
LEMMA StepCases ==
  ASSUME Types, [Next]_vars
  PROVE  \/ QuietSummary
         \/ \E n : AppendSummary(n)
         \/ \E e \in Engines : EngineSummary(e)
         \/ Recreate
         \/ \E r \in rows : Tamper(r)
<1>1. CASE UNCHANGED vars
  BY <1>1 DEF vars, logVars, engineVars, auditVars, QuietSummary
<1>2. CASE Draw
  BY <1>2 DEF Draw, Allocate, QuietSummary, logVars, engineVars, auditVars
<1>3. ASSUME NEW i \in inflight, AppendNext(i) \/ AppendEarly(i) \/ AppendStale(i) PROVE \E n : AppendSummary(n)
  BY <1>3, AppendIs
<1>4. ASSUME NEW i \in inflight, Abandon(i) PROVE QuietSummary
  BY <1>4 DEF Abandon, Burn, QuietSummary
<1>5. ASSUME NEW e \in Engines, ReadLast(e) \/ Load(e) \/ Insert(e) \/ Write(e) \/ Fail(e) PROVE EngineSummary(e)
  BY <1>5, EngineIs
<1>6. CASE LoadRows
  BY <1>6 DEF LoadRows, QuietSummary, logVars
<1>7. CASE LoadAnchorsAndVerify
  BY <1>7 DEF LoadAnchorsAndVerify, QuietSummary, logVars
<1> QED BY <1>1, <1>2, <1>3, <1>4, <1>5, <1>6, <1>7 DEF Next
-----------------------------------------------------------------------------
(* Types *)

\* Rows with ids of their own, all of them ids of S.
Rewritten(T, S) ==
  /\ Ledger(T)
  /\ \A r \in T : r = Row(r.id, r.status, r.prev) /\ r.id \in Ids(S)

\* Recomputing the chain keeps the ids.
LEMMA RechainIs ==
  ASSUME NEW S, Ledger(S)
  PROVE  Rewritten(Rechain(S), S)
<1>1. PICK last : Rechain(S) = {Row(r.id, r.status, last[r.id - 1]) : r \in S}
  BY DEF Rechain
<1>2. ASSUME NEW y \in Rechain(S)
      PROVE  \E r \in S : y.id = r.id /\ y = Row(r.id, r.status, last[r.id - 1]) /\ y = Row(y.id, y.status, y.prev)
  BY <1>1 DEF Row
<1>3. \A y \in Rechain(S) : y.id \in 1..MaxSeq /\ y.id \in Ids(S)
  BY <1>2 DEF Ledger, Ids
<1>4. ASSUME NEW y \in Rechain(S), NEW z \in Rechain(S), y.id = z.id PROVE y = z
  <2>1. PICK r \in S : y.id = r.id /\ y = Row(r.id, r.status, last[r.id - 1])
    BY <1>2
  <2>2. PICK x \in S : z.id = x.id /\ z = Row(x.id, x.status, last[x.id - 1])
    BY <1>2
  <2>3. r = x
    BY <1>4, <2>1, <2>2 DEF Ledger
  <2> QED BY <2>1, <2>2, <2>3
<1> QED BY <1>2, <1>3, <1>4 DEF Rewritten, Ledger

\* The rows of a recreated branch's parent, from 1 on.
LEMMA InheritedIs ==
  /\ Ledger(Inherited) /\ \A r \in Inherited : r = Row(r.id, r.status, r.prev) /\ r.id \in 1..ParentRows
  /\ ParentRows > 0 => \E r \in Inherited : r.id = 1
<1> DEFINE S == {Row(i, "inherited", Genesis) : i \in 1..ParentRows}
<1>1. \A r \in S : r.id \in 1..ParentRows /\ r = Row(r.id, "inherited", Genesis)
  BY DEF Row
<1>2. Ledger(S)
  <2>1. \A r \in S : r.id \in 1..MaxSeq
    BY <1>1, BoundsAssumption
  <2>2. \A r, x \in S : r.id = x.id => r = x
    BY <1>1
  <2> HIDE DEF S
  <2> QED BY <2>1, <2>2 DEF Ledger
<1>3. ParentRows > 0 => \E r \in S : r.id = 1
  <2> SUFFICES ASSUME ParentRows > 0 PROVE \E r \in S : r.id = 1
    OBVIOUS
  <2>1. 1 \in 1..ParentRows
    BY BoundsAssumption
  <2>2. Row(1, "inherited", Genesis) \in S /\ Row(1, "inherited", Genesis).id = 1
    BY <2>1 DEF Row
  <2> QED BY <2>2
<1>4. Ids(S) \subseteq 1..ParentRows
  BY <1>1 DEF Ids
<1>5. Inherited = Rechain(S)
  BY DEF Inherited
<1> HIDE DEF S
<1>6. Rewritten(Inherited, S)
  BY <1>2, <1>5, RechainIs
<1>7. ASSUME NEW r \in S PROVE \E y \in Rechain(S) : y.id = r.id
  <2>1. PICK last : Rechain(S) = {Row(x.id, x.status, last[x.id - 1]) : x \in S}
    BY DEF Rechain
  <2>2. Row(r.id, r.status, last[r.id - 1]) \in Rechain(S)
    BY <2>1
  <2>3. Row(r.id, r.status, last[r.id - 1]).id = r.id
    BY DEF Row
  <2> QED BY <2>2, <2>3
<1> QED BY <1>3, <1>4, <1>5, <1>6, <1>7 DEF Rewritten

\* Whoever rewrites the ledger leaves rows with ids that it had.
LEMMA TamperIs ==
  ASSUME Types, NEW r \in rows, Tamper(r)
  PROVE  Rewritten(rows', rows) /\ faults' = faults \union {"tamper"}
         /\ UNCHANGED <<seq, inflight, ckpts, anchors, engineVars, auditVars, sealed>>
<1>1. PICK forged \in {rows \ {r}, (rows \ {r}) \union {[r EXCEPT !.status = "forged"]}} :
        rows' \in {forged, Rechain(forged)}
  BY DEF Tamper
<1> DEFINE q == [r EXCEPT !.status = "forged"]
<1>2. r = Row(r.id, r.status, r.prev) /\ Ledger(rows)
  BY DEF Types
<1>3. q.id = r.id /\ q = Row(q.id, q.status, q.prev)
  BY <1>2 DEF Row
<1> HIDE DEF q
<1>4. Rewritten(forged, rows)
  <2>1. \A y \in forged : (y \in rows /\ y # r) \/ y = q
    BY <1>1 DEF q
  <2>2. \A y \in forged : y.id \in 1..MaxSeq /\ y.id \in Ids(rows) /\ y = Row(y.id, y.status, y.prev)
    BY <1>3, <2>1 DEF Types, Ledger, Ids
  <2>3. \A y, z \in forged : y.id = z.id => y = z
    BY <1>2, <1>3, <2>1 DEF Ledger
  <2> QED BY <2>2, <2>3 DEF Rewritten, Ledger
<1>5. Rewritten(Rechain(forged), rows)
  <2>1. Rewritten(Rechain(forged), forged)
    BY <1>4, RechainIs DEF Rewritten
  <2>2. Ids(forged) \subseteq Ids(rows)
    BY <1>4 DEF Rewritten, Ids
  <2> QED BY <2>1, <2>2 DEF Rewritten
<1>6. rows' = forged \/ rows' = Rechain(forged)
  BY <1>1
<1> QED BY <1>4, <1>5, <1>6 DEF Tamper, Fault

\* The types are kept.
LEMMA TypesKept ==
  ASSUME Types, Ranges(ckpts), [Next]_vars
  PROVE  Types'
<1> DEFINE LogT == /\ seq \in 0..MaxSeq
                   /\ inflight \subseteq 1..seq
                   /\ Ledger(rows)
                   /\ \A r \in rows : r = Row(r.id, r.status, r.prev) /\ r.id <= seq /\ r.id \notin inflight
           EngT == /\ pc \in [Engines -> {"idle", "load", "insert", "write"}]
                   /\ lastTo \in [Engines -> Nat]
                   /\ prevRoot = [e \in Engines |-> prevRoot[e]]
                   /\ built = [e \in Engines |-> built[e]]
                   /\ took = [e \in Engines |-> took[e]]
<1>0. LogT /\ EngT /\ audit \in {"idle", "rows"}
  BY DEF Types
<1>1. LogT'
  <2>1. CASE UNCHANGED rows /\ UNCHANGED <<seq, inflight>>
    BY <1>0, <2>1 DEF Ledger, Row
  <2>2. CASE QuietSummary
    <3>1. CASE UNCHANGED <<seq, inflight>>
      BY <2>1, <2>2, <3>1 DEF QuietSummary
    <3>2. CASE seq' = seq + 1 /\ seq < MaxSeq /\ inflight' = inflight \union {seq + 1}
      <4>1. rows' = rows
        BY <2>2 DEF QuietSummary
      <4>2. seq' \in 0..MaxSeq /\ inflight' \subseteq 1..seq'
        BY <1>0, <3>2, BoundsAssumption
      <4>3. ASSUME NEW r \in rows PROVE r.id <= seq' /\ r.id \notin inflight'
        BY <1>0, <3>2 DEF Ledger
      <4> QED BY <1>0, <4>1, <4>2, <4>3 DEF Ledger, Row
    <3>3. CASE seq' = seq /\ inflight' \subseteq inflight
      <4>1. rows' = rows
        BY <2>2 DEF QuietSummary
      <4> QED BY <1>0, <3>3, <4>1 DEF Ledger, Row
    <3> QED BY <2>2, <3>1, <3>2, <3>3 DEF QuietSummary
  <2>3. ASSUME NEW n, AppendSummary(n) PROVE LogT'
    <3>1. n.id \in inflight /\ n = Row(n.id, n.status, n.prev) /\ rows' = rows \union {n}
          /\ inflight' = inflight \ {n.id} /\ seq' = seq
      BY <2>3 DEF AppendSummary
    <3>2. n.id \in 1..MaxSeq /\ n.id <= seq /\ \A r \in rows : r.id # n.id
      BY <1>0, <3>1, BoundsAssumption
    <3>3. Ledger(rows')
      BY <1>0, <3>1, <3>2 DEF Ledger
    <3>4. \A r \in rows' : r = Row(r.id, r.status, r.prev) /\ r.id <= seq' /\ r.id \notin inflight'
      BY <1>0, <3>1, <3>2
    <3>5. seq' \in 0..MaxSeq /\ inflight' \subseteq 1..seq'
      BY <1>0, <3>1
    <3> QED BY <3>3, <3>4, <3>5 DEF Ledger, Row
  <2>4. ASSUME NEW e \in Engines, EngineSummary(e) PROVE LogT'
    BY <2>1, <2>4 DEF EngineSummary, logVars
  <2>5. CASE Recreate
    <3>1. seq' = ParentRows /\ inflight' = {} /\ rows' = Inherited
      BY <2>5 DEF Recreate
    <3>2. Ledger(rows') /\ \A r \in rows' : r = Row(r.id, r.status, r.prev) /\ r.id <= seq' /\ r.id \notin inflight'
      BY <3>1, InheritedIs, BoundsAssumption
    <3>3. seq' \in 0..MaxSeq /\ inflight' \subseteq 1..seq'
      BY <3>1, BoundsAssumption
    <3> QED BY <3>2, <3>3 DEF Ledger, Row
  <2>6. ASSUME NEW r \in rows, Tamper(r) PROVE LogT'
    <3>1. Rewritten(rows', rows) /\ UNCHANGED <<seq, inflight>>
      BY <2>6, TamperIs
    <3>2. \A y \in rows' : y.id <= seq /\ y.id \notin inflight /\ y = Row(y.id, y.status, y.prev)
      BY <1>0, <3>1 DEF Rewritten, Ids
    <3>3. Ledger(rows')
      BY <3>1 DEF Rewritten
    <3> QED BY <1>0, <3>1, <3>2, <3>3 DEF Ledger, Row
  <2> QED BY <2>2, <2>3, <2>4, <2>5, <2>6, StepCases
<1>2. EngT'
  <2>1. CASE UNCHANGED engineVars
    BY <1>0, <2>1 DEF engineVars
  <2>2. ASSUME NEW e \in Engines, Done(e) PROVE EngT'
    BY <1>0, <2>2 DEF Done
  <2>3. ASSUME NEW e \in Engines, ReadLast(e) PROVE EngT'
    <3>1. LastCkpt(ckpts).toId \in Nat
      BY LastCkptIs
    <3> QED BY <1>0, <2>3, <3>1 DEF ReadLast
  <2>4. ASSUME NEW e \in Engines, Load(e), ~ Done(e) PROVE EngT'
    BY <1>0, <2>4 DEF Load
  <2>5. ASSUME NEW e \in Engines, Insert(e), ~ Done(e) PROVE EngT'
    BY <1>0, <2>5 DEF Insert
  <2>6. ASSUME NEW e \in Engines, Write(e) \/ Fail(e) PROVE Done(e)
    BY <2>6 DEF Write, Fail
  <2>7. ASSUME Next PROVE EngT' \/ (UNCHANGED engineVars)
    <3>1. CASE Draw \/ LoadRows \/ LoadAnchorsAndVerify \/ Recreate
      BY <3>1 DEF Draw, LoadRows, LoadAnchorsAndVerify, Recreate
    <3>2. ASSUME NEW i \in inflight, AppendNext(i) \/ AppendEarly(i) \/ AppendStale(i) \/ Abandon(i) PROVE UNCHANGED engineVars
      BY <3>2 DEF AppendNext, AppendEarly, AppendStale, Abandon
    <3>3. ASSUME NEW r \in rows, Tamper(r) PROVE UNCHANGED engineVars
      BY <3>3 DEF Tamper
    <3> HIDE DEF EngT
    <3> QED BY <2>2, <2>3, <2>4, <2>5, <2>6, <2>7, <3>1, <3>2, <3>3 DEF Next
  <2> HIDE DEF EngT
  <2> QED BY <2>1, <2>7 DEF vars
<1>3. audit' \in {"idle", "rows"}
  <2>1. CASE UNCHANGED auditVars
    BY <1>0, <2>1 DEF auditVars
  <2> QED BY <2>1, StepCases, TamperIs DEF QuietSummary, AppendSummary, EngineSummary, Recreate
<1> QED BY <1>1, <1>2, <1>3 DEF Types
-----------------------------------------------------------------------------
(* Seals *)

\* The trigger keeps the checkpoints contiguous: a new one comes after all others.
LEMMA ContiguousKept ==
  ASSUME Ranges(ckpts), CheckpointsContiguous, NEW a, Ranges({a}), Contiguous(a), ckpts' = ckpts \union {a}
  PROVE  Ranges(ckpts') /\ CheckpointsContiguous'
<1>1. Ranges(ckpts')
  BY DEF Ranges
<1>2. a.toId \in Nat /\ a.fromId \in Nat /\ a.fromId <= a.toId /\ a.fromId = LastCkpt(ckpts).toId + 1 /\ a.prevRoot = LastCkpt(ckpts).root
  BY DEF Ranges, Contiguous
<1>3. ASSUME NEW c \in ckpts PROVE c.toId \in Nat /\ c.toId < a.toId
  <2>1. c.toId <= LastCkpt(ckpts).toId /\ LastCkpt(ckpts).toId \in Nat /\ c.toId \in Nat
    BY LastCkptIs DEF Ranges
  <2> QED BY <1>2, <2>1
<1>4. {d \in ckpts' : d.toId < a.toId} = ckpts
  BY <1>2, <1>3
<1>5. ASSUME NEW c \in ckpts PROVE {d \in ckpts' : d.toId < c.toId} = {d \in ckpts : d.toId < c.toId}
  <2>1. ~ (a.toId < c.toId)
    BY <1>2, <1>3
  <2> QED BY <2>1
<1>6. ASSUME NEW c \in ckpts'
      PROVE  /\ c.fromId = LastCkpt({d \in ckpts' : d.toId < c.toId}).toId + 1
             /\ c.prevRoot = LastCkpt({d \in ckpts' : d.toId < c.toId}).root
             /\ \A d \in ckpts' \ {c} : d.toId # c.toId
  <2>1. CASE c = a
    <3>1. \A d \in ckpts' \ {c} : d.toId # c.toId
      BY <1>2, <1>3, <2>1
    <3> QED BY <1>2, <1>4, <2>1, <3>1
  <2>2. CASE c \in ckpts
    <3>1. \A d \in ckpts' \ {c} : d.toId # c.toId
      <4>1. a.toId # c.toId
        BY <1>2, <1>3, <2>2
      <4> QED BY <2>2, <4>1 DEF CheckpointsContiguous
    <3>2. c.fromId = LastCkpt({d \in ckpts : d.toId < c.toId}).toId + 1 /\ c.prevRoot = LastCkpt({d \in ckpts : d.toId < c.toId}).root
      BY <2>2 DEF CheckpointsContiguous
    <3> QED BY <1>5, <2>2, <3>1, <3>2
  <2> QED BY <2>1, <2>2
<1>7. CheckpointsContiguous'
  BY <1>6 DEF CheckpointsContiguous
<1> QED BY <1>1, <1>7

\* Every anchor is one of the rows it was built from, and the checkpoints are contiguous.
LEMMA SealKept ==
  ASSUME Types, SealInv, [Next]_vars
  PROVE  SealInv'
<1> DEFINE Eng == \A e \in Engines : pc[e] \in {"insert", "write"} => Sealing(built[e], took[e])
           Files == \A x \in sealed : \E a \in anchors : a.toId = x.toId /\ Sealing(a, x.rows)
<1>0. Eng /\ Files /\ Ranges(ckpts) /\ CheckpointsContiguous /\ Ledger(rows)
  BY DEF SealInv, Types
<1>1. CASE UNCHANGED <<ckpts, anchors, engineVars, sealed>>
  BY <1>1 DEF SealInv, Ranges, CheckpointsContiguous, engineVars
<1>2. CASE Recreate
  <2>1. UNCHANGED <<anchors, engineVars, sealed>>
    BY <1>2 DEF Recreate
  <2>2. Ranges(ckpts') /\ CheckpointsContiguous'
    <3>1. PICK m \in 0..ParentRows : ckpts' = IF m = 0 THEN {} ELSE {BuildAnchor(1, NoRoot, Between(Inherited, 1, m))}
      BY <1>2 DEF Recreate
    <3>2. CASE m = 0
      BY <3>1, <3>2 DEF Ranges, CheckpointsContiguous
    <3>3. CASE m # 0
      <4> DEFINE B == Between(Inherited, 1, m)
                 b == BuildAnchor(1, NoRoot, B)
      <4>1. PICK r \in Inherited : r.id = 1
        BY <3>3, InheritedIs, BoundsAssumption
      <4>2. r \in B /\ Ledger(B) /\ \A x \in B : 1 <= x.id
        <5>1. B \in SUBSET Inherited
          BY DEF Between
        <5>2. m \in Nat /\ 1 <= m
          BY <3>3, BoundsAssumption
        <5> QED BY <4>1, <5>1, <5>2, InheritedIs, LedgerSubset DEF Between
      <4> HIDE DEF B
      <4>3. Sealing(b, B)
        BY <4>2, BuildSeals
      <4>4. b.fromId = 1 /\ b.prevRoot = NoRoot
        BY DEF BuildAnchor
      <4>5. ckpts' = {b}
        BY <3>1, <3>3 DEF B
      <4> HIDE DEF b
      <4>6. b.toId \in 1..MaxSeq /\ b.fromId <= b.toId
        BY <4>3, SealingIs
      <4>7. {d \in ckpts' : d.toId < b.toId} = {}
        BY <4>5, <4>6
      <4>8. LastCkpt({}).toId = 0 /\ LastCkpt({}).root = NoRoot
        BY DEF LastCkpt
      <4>9. Ranges(ckpts')
        BY <4>4, <4>5, <4>6 DEF Ranges
      <4> QED BY <4>4, <4>5, <4>7, <4>8, <4>9 DEF CheckpointsContiguous
    <3> QED BY <3>2, <3>3
  <2> QED BY <1>0, <2>1, <2>2 DEF SealInv, engineVars, Ranges
<1>3. ASSUME NEW e \in Engines, EngineSummary(e) PROVE SealInv'
  <2>1. Eng'
    <3>1. ASSUME pc'[e] \in {"insert", "write"} PROVE Sealing(built'[e], took'[e])
      <4>1. CASE pc'[e] = "insert"
        <5>1. took'[e] = Fresh(e) /\ Fresh(e) # {} /\ built'[e] = BuildAnchor(lastTo[e] + 1, prevRoot[e], Fresh(e))
          BY <1>3, <4>1 DEF EngineSummary
        <5>2. Fresh(e) \in SUBSET rows
          BY DEF Fresh
        <5>3. Ledger(Fresh(e))
          BY <1>0, <5>2, LedgerSubset
        <5>4. lastTo[e] \in Nat
          BY DEF Types
        <5>5. \A r \in Fresh(e) : lastTo[e] + 1 <= r.id
          BY <5>3, <5>4 DEF Fresh, Ledger
        <5> QED BY <5>1, <5>3, <5>4, <5>5, BuildSeals
      <4>2. CASE pc'[e] = "write"
        <5>1. pc[e] = "insert" /\ built'[e] = built[e] /\ took'[e] = took[e]
          BY <1>3, <4>2 DEF EngineSummary
        <5> QED BY <1>0, <5>1
      <4> QED BY <3>1, <4>1, <4>2
    <3>2. ASSUME NEW o \in Engines \ {e}, pc'[o] \in {"insert", "write"} PROVE Sealing(built'[o], took'[o])
      <4>1. pc'[o] = pc[o] /\ built'[o] = built[o] /\ took'[o] = took[o]
        BY <1>3 DEF EngineSummary
      <4> QED BY <1>0, <3>2, <4>1
    <3>3. \A o \in Engines : pc'[o] \in {"insert", "write"} => Sealing(built'[o], took'[o])
      BY <3>1, <3>2
    <3> QED BY <3>3
  <2>2. Ranges(ckpts') /\ CheckpointsContiguous'
    <3>1. CASE ckpts' = ckpts
      BY <1>0, <3>1 DEF Ranges, CheckpointsContiguous
    <3>2. CASE ckpts' # ckpts
      <4>1. pc[e] = "insert" /\ Contiguous(built[e]) /\ ckpts' = ckpts \union {built[e]}
        BY <1>3, <3>2 DEF EngineSummary
      <4>2. Sealing(built[e], took[e])
        BY <1>0, <4>1
      <4>3. Ranges({built[e]})
        BY <4>2, SealingIs DEF Ranges
      <4> QED BY <1>0, <4>1, <4>3, ContiguousKept
    <3> QED BY <3>1, <3>2
  <2>3. Files'
    <3>1. CASE anchors' = anchors /\ sealed' = sealed
      BY <1>0, <3>1
    <3>2. CASE ~ (anchors' = anchors /\ sealed' = sealed)
      <4>1. pc[e] = "write" /\ anchors' = anchors \union {built[e]} /\ sealed' = sealed \union {[toId |-> built[e].toId, rows |-> took[e]]}
        BY <1>3, <3>2 DEF EngineSummary
      <4>2. Sealing(built[e], took[e])
        BY <1>0, <4>1
      <4> DEFINE y == [toId |-> built[e].toId, rows |-> took[e]]
      <4>3. y.toId = built[e].toId /\ y.rows = took[e]
        OBVIOUS
      <4> HIDE DEF y
      <4>4. \A x \in sealed' : \E a \in anchors' : a.toId = x.toId /\ Sealing(a, x.rows)
        BY <1>0, <4>1, <4>2, <4>3 DEF y
      <4> QED BY <4>4
    <3> QED BY <3>1, <3>2
  <2> QED BY <2>1, <2>2, <2>3 DEF SealInv, Ranges
<1> QED BY <1>1, <1>2, <1>3, StepCases, TamperIs DEF QuietSummary, AppendSummary

\* The types and the seals hold from the start.
LEMMA SealInit ==
  ASSUME Init
  PROVE  Types /\ SealInv
<1>1. seq = 0 /\ inflight = {} /\ rows = {} /\ ckpts = {} /\ anchors = {} /\ sealed = {} /\ audit = "idle"
      /\ pc = [e \in Engines |-> "idle"] /\ lastTo = [e \in Engines |-> 0] /\ prevRoot = [e \in Engines |-> NoRoot]
      /\ built = [e \in Engines |-> NoAnchor] /\ took = [e \in Engines |-> {}]
  BY DEF Init, LogInit
<1>2. Types
  BY <1>1, BoundsAssumption DEF Types, Ledger
<1>3. SealInv
  BY <1>1 DEF SealInv, Ranges, CheckpointsContiguous
<1> QED BY <1>2, <1>3

\* The checkpoints in the database partition the ids from 1 on and are chained by
\* root, whichever engines raced, failed or held results of a branch that has been
\* recreated since.
THEOREM CheckpointsStayContiguous == Spec => []CheckpointsContiguous
<1>1. Init => Types /\ SealInv
  BY SealInit
<1>2. Types /\ SealInv /\ [Next]_vars => Types' /\ SealInv'
  BY TypesKept, SealKept DEF SealInv
<1>3. SealInv => CheckpointsContiguous
  BY DEF SealInv
<1> QED BY <1>1, <1>2, <1>3, PTL DEF Spec

\* Rows that verify are, range by range, the rows the anchors were built from.
LEMMA VerifiedRowsAreSealed ==
  ASSUME NEW S, Ledger(S), NEW a, NEW T, Sealing(a, T), AnchorMatches(a, S)
  PROVE  Between(S, a.fromId, a.toId) = T
<1> DEFINE B == Between(S, a.fromId, a.toId)
<1>1. Ledger(B)
  BY LedgerSubset DEF Between
<1>2. Len(ById(B)) = a.count /\ rootOf(ById(B)) = a.root
  BY DEF AnchorMatches
<1>3. Ledger(T) /\ a.count = Len(ById(T)) /\ a.root = rootOf(ById(T))
  BY SealingIs DEF Sealing
<1> HIDE DEF B
<1>4. B = T
  BY <1>1, <1>2, <1>3, RootFixesRows
<1> QED BY <1>4 DEF B

\* Whatever verifies still holds, row for row, what each anchor file was built from,
\* even if the ledger and its chain were rewritten consistently.
THEOREM IntactLedgerIsUnchanged == Spec => []IntactMeansUnchanged
<1>1. Init => Types /\ SealInv
  BY SealInit
<1>2. Types /\ SealInv /\ [Next]_vars => Types' /\ SealInv'
  BY TypesKept, SealKept DEF SealInv
<1>3. Types /\ SealInv => IntactMeansUnchanged
  <2> SUFFICES ASSUME Types, SealInv, Verify(rows, anchors), NEW x \in sealed
               PROVE  \E a \in anchors : a.toId = x.toId /\ Between(rows, a.fromId, a.toId) = x.rows
    BY DEF IntactMeansUnchanged
  <2>1. PICK a \in anchors : a.toId = x.toId /\ Sealing(a, x.rows)
    BY DEF SealInv
  <2>2. AnchorMatches(a, rows) /\ Ledger(rows)
    BY DEF Verify, Types
  <2>3. Between(rows, a.fromId, a.toId) = x.rows
    BY <2>1, <2>2, VerifiedRowsAreSealed
  <2> QED BY <2>1, <2>3
<1> QED BY <1>1, <1>2, <1>3, PTL DEF Spec
-----------------------------------------------------------------------------
(* Order *)

\* The row of T with the least id above v.
LEMMA NextAbove ==
  ASSUME NEW T, Ledger(T), NEW v \in Nat, \E x \in T : v < x.id
  PROVE  \E x \in T : v < x.id /\ \A z \in T : v < z.id => x.id <= z.id
<1> DEFINE D == {x.id : x \in {z \in T : v < z.id}}
<1>1. D \in SUBSET Nat /\ D # {}
  BY DEF Ledger
<1> HIDE DEF D
<1>2. PICK d \in D : \A e \in D : d <= e
  BY <1>1, Least
<1> QED BY <1>2 DEF D

\* An intact ledger is what CheckChain asks for.
LEMMA IntactIsChecked ==
  ASSUME NEW S, Intact(S)
  PROVE  CheckChain(Genesis, S)
<1> SUFFICES ASSUME NEW r \in S, ~ \E x \in S : x.id < r.id PROVE r.prev = Genesis
  BY DEF CheckChain, Intact
<1>1. {x \in S : x.id < r.id} = {}
  OBVIOUS
<1>2. r.prev = Last({})
  BY <1>1 DEF Intact, Pred
<1> QED BY <1>2 DEF Last

\* What a checked row of T follows: the next lower one of T, or something below T's range.
LEMMA FollowsIs ==
  ASSUME NEW T, Ledger(T), NEW p, CheckChain(p, T), NEW x \in T
  PROVE  \/ x.prev \in T /\ x.prev.id < x.id /\ \A z \in T : z.id < x.id => z.id <= x.prev.id
         \/ x.prev = p /\ \A z \in T : ~ (z.id < x.id)
<1> DEFINE B == {z \in T : z.id < x.id}
<1>1. Ledger(B)
  BY LedgerSubset
<1>2. x.prev = IF \E z \in T : z.id < x.id THEN Last(B) ELSE p
  BY DEF CheckChain, Pred
<1>3. CASE \E z \in T : z.id < x.id
  <2>1. B # {} /\ x.prev = Last(B)
    BY <1>2, <1>3
  <2>2. \A z \in B : z \in T /\ z.id < x.id
    OBVIOUS
  <2>3. \A z \in T : z.id < x.id => z \in B
    OBVIOUS
  <2> HIDE DEF B
  <2>4. Last(B) \in B /\ \A z \in B : z.id <= Last(B).id
    BY <1>1, <2>1, LastIs
  <2> QED BY <2>1, <2>2, <2>3, <2>4
<1>4. CASE ~ \E z \in T : z.id < x.id
  BY <1>2, <1>4
<1> QED BY <1>3, <1>4

\* An intact ledger that has an anchor's rows has no others in its range: one that came
\* later would be between a sealed row and the one that it links to.
LEMMA IntactHasNoMore ==
  ASSUME NEW S, Ledger(S), Intact(S), NEW a, NEW T \in SUBSET S, Sealing(a, T), Chained(a, T)
  PROVE  Between(S, a.fromId, a.toId) = T
<1>1. /\ Last(T) \in T /\ a.toId = Last(T).id /\ a.fromId \in Nat
      /\ \A r \in T : a.fromId <= r.id /\ r.id <= a.toId
  BY SealingIs
<1>2. Ledger(T) /\ \A r \in S : r.id \in Nat
  BY LedgerSubset DEF Ledger
<1>3. PICK p : p.id \in Nat /\ p.id < a.fromId /\ CheckChain(p, T)
  BY DEF Chained
<1>4. ASSUME NEW r \in S, a.fromId <= r.id, r.id <= a.toId, r \notin T PROVE FALSE
  <2>0. r.id \in Nat
    BY <1>2
  <2>1. r.id < Last(T).id
    <3>1. r.id # Last(T).id
      BY <1>1, <1>4 DEF Ledger
    <3>2. Last(T).id \in Nat
      BY <1>1, <1>2
    <3> QED BY <1>1, <1>4, <2>0, <3>1, <3>2
  <2>2. PICK x \in T : r.id < x.id /\ \A z \in T : r.id < z.id => x.id <= z.id
    BY <1>1, <1>2, <2>0, <2>1, NextAbove
  <2>3. x.prev \in S /\ r.id <= x.prev.id
    <3>1. x \in S
      OBVIOUS
    <3>2. CheckChain(Genesis, S)
      BY IntactIsChecked
    <3> QED BY <2>2, <3>1, <3>2, FollowsIs
  <2>4. CASE x.prev \in T /\ x.prev.id < x.id
    <3>1. ~ (r.id < x.prev.id)
      <4>1. x.prev.id \in Nat /\ x.id \in Nat
        BY <1>2, <2>3
      <4> QED BY <2>2, <2>4, <4>1
    <3>2. x.prev.id = r.id
      BY <1>2, <2>0, <2>3, <3>1
    <3>3. x.prev = r
      BY <2>3, <3>2 DEF Ledger
    <3> QED BY <1>4, <2>4, <3>3
  <2>5. CASE x.prev = p
    BY <1>1, <1>3, <1>4, <2>0, <2>3, <2>5
  <2> QED BY <1>2, <1>3, <2>4, <2>5, FollowsIs
<1> QED BY <1>1, <1>4 DEF Between

\* If an anchor is not newer than an audit whose rows L are intact, and was built from all
\* that the audit has from there on, the audit has all that it was built from: the audit's
\* last row is sealed, and so on down the chain.
LEMMA AuditHasSealed ==
  ASSUME NEW S, Ledger(S), NEW L \in SUBSET S, Intact(L), NEW a, NEW T \in SUBSET S, Sealing(a, T), Chained(a, T),
         \A r \in L : a.fromId <= r.id => r \in T, ~ (a.toId > Last(L).id)
  PROVE  T \subseteq L
<1>1. /\ a.fromId \in Nat /\ a.toId \in Nat /\ a.toId > 0 /\ a.fromId <= a.toId
      /\ \A r \in T : a.fromId <= r.id /\ r.id <= a.toId
  BY SealingIs
<1>2. Ledger(T) /\ Ledger(L) /\ \A r \in S : r.id \in Nat /\ r.id > 0
  BY LedgerSubset DEF Ledger
<1>3. Last(L) \in L /\ Last(L) \in T /\ a.toId <= Last(L).id
  <2>1. Genesis.id = 0
    BY DEF Genesis
  <2>2. L # {}
    BY <1>1, <1>2, <2>1, LastIs
  <2>3. Last(L) \in L
    BY <1>2, <2>2, LastIs
  <2>4. Last(L).id \in Nat
    BY <1>2, <2>3
  <2>5. a.toId <= Last(L).id
    BY <1>1, <2>4
  <2> QED BY <1>1, <2>3, <2>4, <2>5
<1>4. PICK p : p.id \in Nat /\ p.id < a.fromId /\ CheckChain(p, T)
  BY DEF Chained
<1> SUFFICES ASSUME T \ L # {} PROVE FALSE
  OBVIOUS
<1> DEFINE M == T \ L
<1>5. Ledger(M)
  BY <1>2, LedgerSubset
<1>6. PICK y \in M : \A z \in M : z.id <= y.id
  BY <1>5, LastIs
<1>7. y \in T /\ y \notin L /\ y.id \in Nat /\ y.id > 0
  BY <1>2
<1>8. y.id < Last(L).id
  <2>1. y.id <= Last(L).id
    <3>1. y.id <= a.toId /\ Last(L).id \in Nat
      BY <1>1, <1>2, <1>3, <1>7
    <3> QED BY <1>1, <1>3, <1>7, <3>1
  <2>2. y.id # Last(L).id
    BY <1>3, <1>7 DEF Ledger
  <2>3. Last(L).id \in Nat
    BY <1>2, <1>3
  <2> QED BY <1>7, <2>1, <2>2, <2>3
<1>9. PICK x \in T : y.id < x.id /\ \A z \in T : y.id < z.id => x.id <= z.id
  BY <1>2, <1>3, <1>7, <1>8, NextAbove
<1>10. x \in L
  <2>1. x \in M => x.id <= y.id
    BY <1>6
  <2>2. x.id \in Nat
    BY <1>2
  <2> QED BY <1>7, <1>9, <2>1, <2>2
<1>11. x.prev = y
  <2>1. x.prev \in T /\ x.prev.id < x.id /\ y.id <= x.prev.id
    BY <1>2, <1>4, <1>7, <1>9, FollowsIs
  <2>2. x.prev.id \in Nat /\ x.id \in Nat
    BY <1>2, <2>1
  <2>3. x.prev.id = y.id
    BY <1>7, <1>9, <2>1, <2>2
  <2> QED BY <1>7, <2>1, <2>3 DEF Ledger
<1>12. x.prev \in L \/ x.prev = Genesis
  <2>1. CheckChain(Genesis, L)
    BY IntactIsChecked
  <2> QED BY <1>2, <1>10, <2>1, FollowsIs
<1> QED BY <1>7, <1>11, <1>12 DEF Genesis

\* What an anchor was built from stays where it is as rows are added and audits go on.
LEMMA SitsKept ==
  ASSUME NEW a, NEW T, NEW S, NEW L, Sits(a, T, S, L), NEW R, S \subseteq R, NEW K, K = L \/ K = S \/ K = {}
  PROVE  Sits(a, T, R, K)
<1>1. T \subseteq S /\ Chained(a, T) /\ (T \subseteq L \/ \A r \in L : a.fromId <= r.id => r \in T)
  BY DEF Sits
<1>2. T \subseteq K \/ \A r \in K : a.fromId <= r.id => r \in T
  BY <1>1
<1> QED BY <1>1, <1>2 DEF Sits

\* Every step keeps what the anchors of a ledger that is neither rewritten nor replaced
\* have to do with its rows and with the audit's.
LEMMA OrderKept ==
  ASSUME Types, SealInv, OrderInv, [Next]_vars
  PROVE  OrderInv'
<1> DEFINE Points(C, S, L) == \A c \in C : \E T : Sealing(c, T) /\ Sits(c, T, S, L)
           Files(A, C) == A \subseteq C
<1>0. Ledger(rows) /\ \A e \in Engines : pc[e] \in {"insert", "write"} => Sealing(built[e], took[e])
  BY DEF Types, SealInv
<1>1. faults \subseteq faults'
  BY StepCases, TamperIs DEF QuietSummary, AppendSummary, EngineSummary, Recreate, Fault
<1>2. SUFFICES ASSUME Calm'
               PROVE  /\ Seen' \subseteq rows' /\ Points(ckpts', rows', Seen') /\ Files(anchors', ckpts')
                      /\ \A e \in Engines : pc'[e] \in {"insert", "write"} => Sits(built'[e], took'[e], rows', Seen')
                      /\ \A e \in Engines : pc'[e] = "write" => built'[e] \in ckpts'
  BY DEF OrderInv
<1>3. Calm /\ ~ Recreate /\ \A r \in rows : ~ Tamper(r)
  BY <1>1, <1>2 DEF Calm, Happened, Recreate, Tamper, Fault
<1>4. /\ Seen \subseteq rows /\ Points(ckpts, rows, Seen) /\ Files(anchors, ckpts)
      /\ \A e \in Engines : pc[e] \in {"insert", "write"} => Sits(built[e], took[e], rows, Seen)
      /\ \A e \in Engines : pc[e] = "write" => built[e] \in ckpts
  BY <1>3 DEF OrderInv
<1> DEFINE Goal == /\ Seen' \subseteq rows' /\ Points(ckpts', rows', Seen') /\ Files(anchors', ckpts')
                   /\ \A e \in Engines : pc'[e] \in {"insert", "write"} => Sits(built'[e], took'[e], rows', Seen')
                   /\ \A e \in Engines : pc'[e] = "write" => built'[e] \in ckpts'
\* A step that leaves checkpoints and engines alone.
<1>5. ASSUME rows \subseteq rows', Seen' = Seen \/ Seen' = rows \/ Seen' = {}, UNCHANGED <<ckpts, anchors, engineVars>>
      PROVE  Goal
  <2>1. Points(ckpts', rows', Seen')
    BY <1>4, <1>5, SitsKept
  <2>2. \A e \in Engines : pc'[e] \in {"insert", "write"} => Sits(built'[e], took'[e], rows', Seen')
    BY <1>4, <1>5, SitsKept DEF engineVars
  <2> QED BY <1>4, <1>5, <2>1, <2>2 DEF engineVars
<1>6. CASE QuietSummary
  <2>1. rows' = rows /\ UNCHANGED <<ckpts, anchors, engineVars>>
    BY <1>6 DEF QuietSummary
  <2>2. Seen' = Seen \/ Seen' = rows \/ Seen' = {}
    BY <1>6 DEF QuietSummary, Seen, auditVars
  <2> QED BY <1>5, <2>1, <2>2
<1>7. ASSUME NEW n, AppendSummary(n) PROVE Goal
  <2>1. rows \subseteq rows' /\ Seen' = Seen /\ UNCHANGED <<ckpts, anchors, engineVars>>
    BY <1>7 DEF AppendSummary, Seen, auditVars
  <2> QED BY <1>5, <2>1
<1>8. ASSUME NEW e \in Engines, EngineSummary(e) PROVE Goal
  <2>1. rows' = rows /\ Seen' = Seen
    BY <1>8 DEF EngineSummary, logVars, auditVars, Seen
  <2>2. Points(ckpts', rows, Seen)
    <3>1. CASE ckpts' = ckpts
      BY <1>4, <3>1
    <3>2. CASE ckpts' # ckpts
      <4>1. pc[e] = "insert" /\ ckpts' = ckpts \union {built[e]}
        BY <1>8, <3>2 DEF EngineSummary
      <4>2. Sealing(built[e], took[e]) /\ Sits(built[e], took[e], rows, Seen)
        BY <1>0, <1>4, <4>1
      <4> QED BY <1>4, <4>1, <4>2
    <3> QED BY <3>1, <3>2
  <2>3. ASSUME NEW o \in Engines, pc'[o] \in {"insert", "write"} PROVE Sits(built'[o], took'[o], rows, Seen)
    <3>1. CASE pc'[o] = pc[o] /\ built'[o] = built[o] /\ took'[o] = took[o]
      BY <1>4, <2>3, <3>1
    <3>2. CASE o = e /\ pc'[e] = "write"
      <4>1. pc[e] = "insert" /\ built'[e] = built[e] /\ took'[e] = took[e]
        BY <1>8, <3>2 DEF EngineSummary
      <4> QED BY <1>4, <3>2, <4>1
    <3>3. CASE o = e /\ pc'[e] = "insert"
      <4> DEFINE p == Last({r \in rows : r.id <= lastTo[e]})
      <4>1. took'[e] = Fresh(e) /\ built'[e] = BuildAnchor(lastTo[e] + 1, prevRoot[e], Fresh(e)) /\ CheckChain(p, Fresh(e))
        BY <1>8, <3>3 DEF EngineSummary
      <4>2. built'[e].fromId = lastTo[e] + 1
        BY <4>1 DEF BuildAnchor
      <4>3. lastTo[e] \in Nat
        BY DEF Types
      <4>4. \A r \in rows : lastTo[e] + 1 <= r.id => r \in Fresh(e)
        BY <1>0, <4>3 DEF Fresh, Ledger
      <4>5. Fresh(e) \subseteq rows
        BY DEF Fresh
      <4>6. p.id \in Nat /\ p.id < lastTo[e] + 1
        <5> DEFINE B == {r \in rows : r.id <= lastTo[e]}
        <5>1. Ledger(B)
          BY <1>0, LedgerSubset
        <5>2. \A r \in B : r.id \in Nat /\ r.id <= lastTo[e]
          BY <1>0 DEF Ledger
        <5> HIDE DEF B
        <5>3. Last(B).id \in Nat /\ Last(B).id < lastTo[e] + 1
          <6>1. CASE B = {}
            BY <4>3, <5>1, <6>1, LastIs DEF Genesis
          <6>2. CASE B # {}
            BY <4>3, <5>1, <5>2, <6>2, LastIs
          <6> QED BY <6>1, <6>2
        <5> QED BY <5>3 DEF B
      <4> HIDE DEF p
      <4>7. Chained(built'[e], took'[e])
        BY <4>1, <4>2, <4>6 DEF Chained
      <4>8. \A r \in Seen : lastTo[e] + 1 <= r.id => r \in Fresh(e)
        BY <1>4, <4>4
      <4> QED BY <3>3, <4>1, <4>2, <4>5, <4>7, <4>8 DEF Sits
    <3> QED BY <1>8, <2>3, <3>1, <3>2, <3>3 DEF EngineSummary
  <2>4. ckpts \subseteq ckpts' /\ anchors' \subseteq ckpts'
    BY <1>4, <1>8 DEF EngineSummary
  <2>5. ASSUME NEW o \in Engines, pc'[o] = "write" PROVE built'[o] \in ckpts'
    <3>1. CASE o # e
      BY <1>4, <1>8, <2>4, <2>5, <3>1 DEF EngineSummary
    <3>2. CASE o = e
      BY <1>8, <2>5, <3>2 DEF EngineSummary
    <3> QED BY <3>1, <3>2
  <2> QED BY <1>4, <2>1, <2>2, <2>3, <2>4, <2>5
<1> QED BY <1>3, <1>6, <1>7, <1>8, StepCases

\* Rows that hold exactly what an anchor was built from match it.
LEMMA SealedRowsMatch ==
  ASSUME NEW S, NEW a, NEW T, Sealing(a, T), Between(S, a.fromId, a.toId) = T
  PROVE  AnchorMatches(a, S)
<1>1. a.count = Len(ById(T)) /\ a.root = rootOf(ById(T)) /\ a.lastRow = Last(T)
  BY SealingIs
<1>2. ById(T)[Len(ById(T))] = Last(T)
  BY ByIdEnds DEF Sealing
<1> QED BY <1>1, <1>2 DEF AnchorMatches

\* Nothing is there at first.
LEMMA OrderInit ==
  ASSUME Init
  PROVE  Types /\ SealInv /\ OrderInv /\ QuietInv
<1>1. rows = {} /\ ckpts = {} /\ anchors = {} /\ audit = "idle" /\ pc = [e \in Engines |-> "idle"]
  BY DEF Init, LogInit
<1> QED BY <1>1, SealInit DEF OrderInv, QuietInv, Seen, Intact

\* If the anchor files are those of the checkpoints, a ledger nobody touched and whose
\* rows are linked in order verifies.
THEOREM UntouchedLedgerVerifies == Spec => []OrderlyLedgerVerifies
<1>1. Init => Types /\ SealInv /\ OrderInv
  BY OrderInit
<1>2. Types /\ SealInv /\ OrderInv /\ [Next]_vars => Types' /\ SealInv' /\ OrderInv'
  BY TypesKept, SealKept, OrderKept DEF SealInv
<1>3. Types /\ SealInv /\ OrderInv => OrderlyLedgerVerifies
  <2> SUFFICES ASSUME Types, SealInv, OrderInv, Calm, anchors = ckpts, Intact(rows)
               PROVE  Verify(rows, anchors)
    BY DEF OrderlyLedgerVerifies, Calm
  <2>1. CheckChain(Genesis, rows)
    BY IntactIsChecked
  <2>2. ASSUME NEW a \in anchors PROVE AnchorContinues(a, anchors)
    BY DEF SealInv, CheckpointsContiguous, AnchorContinues
  <2>3. ASSUME NEW a \in anchors PROVE AnchorMatches(a, rows)
    <3>1. PICK T : Sealing(a, T) /\ Sits(a, T, rows, Seen)
      BY DEF OrderInv
    <3>2. Ledger(rows) /\ T \in SUBSET rows /\ Chained(a, T)
      BY <3>1 DEF Types, Sits
    <3>3. Between(rows, a.fromId, a.toId) = T
      BY <3>1, <3>2, IntactHasNoMore
    <3> QED BY <3>1, <3>3, SealedRowsMatch
  <2> QED BY <2>1, <2>2, <2>3 DEF Verify
<1> QED BY <1>1, <1>2, <1>3, PTL DEF Spec
-----------------------------------------------------------------------------
(* Audits *)

\* As long as nobody rewrites or replaces the ledger and no append links out of order,
\* rows become visible in the order of their ids, each following the one before.
LEMMA QuietKept ==
  ASSUME Types, SealInv, QuietInv, [Next]_vars
  PROVE  QuietInv'
<1> DEFINE Quiet == Calm /\ ~ Happened("reorder") /\ ~ Happened("stale")
           Under(S, I) == \A r \in S, i \in I : r.id < i
<1>0. Ledger(rows)
  BY DEF Types
<1>1. faults \subseteq faults'
  BY StepCases, TamperIs DEF QuietSummary, AppendSummary, EngineSummary, Recreate, Fault
<1>2. SUFFICES ASSUME Quiet' PROVE Intact(rows') /\ Intact(Seen') /\ Under(rows', inflight')
  <2>1. Intact(rows)' = Intact(rows') /\ Intact(Seen)' = Intact(Seen')
    BY DEF Intact, Pred, Last, Genesis
  <2> QED BY <1>2, <2>1 DEF QuietInv
<1>3. Quiet /\ ~ Recreate /\ \A r \in rows : ~ Tamper(r)
  BY <1>1, <1>2 DEF Calm, Happened, Recreate, Tamper, Fault
<1>4. Intact(rows) /\ Intact(Seen) /\ Under(rows, inflight)
  BY <1>3 DEF QuietInv
<1>5. CASE QuietSummary
  <2>1. rows' = rows
    BY <1>5 DEF QuietSummary
  <2>2. ASSUME NEW r \in rows, NEW i \in inflight' PROVE r.id < i
    <3>1. r.id <= seq /\ r.id \in Nat /\ seq \in Nat
      BY <1>0, BoundsAssumption DEF Types, Ledger
    <3>2. i \in inflight \/ i = seq + 1
      BY <1>5 DEF QuietSummary
    <3> QED BY <1>4, <3>1, <3>2
  <2>3. Seen' = Seen \/ Seen' = rows \/ Seen' = {}
    BY <1>5 DEF QuietSummary, Seen, auditVars
  <2>4. Intact({})
    BY DEF Intact
  <2> QED BY <1>4, <2>1, <2>2, <2>3, <2>4
<1>6. ASSUME NEW n, AppendSummary(n) PROVE Intact(rows') /\ Intact(Seen') /\ Under(rows', inflight')
  <2>1. /\ rows' = rows \union {n} /\ n.id \in inflight /\ inflight' = inflight \ {n.id}
        /\ UNCHANGED auditVars
        /\ n.prev = Last(rows) /\ \A j \in inflight : n.id <= j
    BY <1>2, <1>6 DEF AppendSummary, Happened
  <2>2. n.id \in Nat /\ inflight \subseteq Nat /\ \A r \in rows : r.id \in Nat /\ r.id < n.id
    BY <1>0, <1>4, <2>1 DEF Types, Ledger
  <2>3. Under(rows', inflight')
    BY <1>4, <2>1, <2>2
  <2>4. ASSUME NEW r \in rows' PROVE r.prev = Pred(r, rows')
    <3>1. CASE r \in rows
      <4>1. {x \in rows' : x.id < r.id} = {x \in rows : x.id < r.id}
        BY <2>1, <2>2, <3>1
      <4>2. Pred(r, rows') = Pred(r, rows)
        BY <4>1 DEF Pred
      <4> QED BY <1>4, <3>1, <4>2 DEF Intact
    <3>2. CASE r = n
      <4>1. {x \in rows' : x.id < n.id} = rows
        BY <2>1, <2>2
      <4> QED BY <2>1, <3>2, <4>1 DEF Pred
    <3> QED BY <2>1, <3>1, <3>2
  <2>5. Seen' = Seen
    BY <2>1 DEF Seen, auditVars
  <2> QED BY <1>4, <2>3, <2>4, <2>5 DEF Intact
<1>7. ASSUME NEW e \in Engines, EngineSummary(e) PROVE Intact(rows') /\ Intact(Seen') /\ Under(rows', inflight')
  <2>1. rows' = rows /\ inflight' = inflight /\ Seen' = Seen
    BY <1>7 DEF EngineSummary, logVars, auditVars, Seen
  <2> QED BY <1>4, <2>1
<1> QED BY <1>3, <1>5, <1>6, <1>7, StepCases

\* An audit whose rows are intact and as new as every anchor file, and that finds the
\* files of all checkpoints up to the newest, reports an intact ledger.
LEMMA OrderlyAuditIsIntact ==
  ASSUME Types, SealInv, OrderInv, Calm, audit = "rows", Intact(loaded),
         \A a \in anchors : ~ (a.toId > Last(loaded).id),
         \A c \in ckpts \ anchors, a \in anchors : ~ (c.toId < a.toId)
  PROVE  Verify(loaded, anchors)
<1>1. /\ loaded \subseteq rows /\ anchors \subseteq ckpts
      /\ \A c \in ckpts : \E T : Sealing(c, T) /\ Sits(c, T, rows, loaded)
  BY DEF OrderInv, Seen
<1>2. Ledger(rows) /\ Ledger(loaded)
  BY <1>1, LedgerSubset DEF Types
<1>3. CheckChain(Genesis, loaded)
  BY IntactIsChecked
<1>4. ASSUME NEW a \in anchors PROVE AnchorContinues(a, anchors)
  <2>1. {p \in anchors : p.toId < a.toId} = {p \in ckpts : p.toId < a.toId}
    BY <1>1
  <2> QED BY <1>1, <2>1 DEF SealInv, CheckpointsContiguous, AnchorContinues
<1>5. ASSUME NEW a \in anchors PROVE AnchorMatches(a, loaded)
  <2>1. PICK T : Sealing(a, T) /\ Sits(a, T, rows, loaded)
    BY <1>1
  <2>2. /\ T \in SUBSET rows /\ Chained(a, T)
        /\ T \subseteq loaded \/ \A r \in loaded : a.fromId <= r.id => r \in T
    BY <2>1 DEF Sits
  <2>3. T \in SUBSET loaded
    BY <1>1, <1>2, <2>1, <2>2, AuditHasSealed
  <2>4. Between(loaded, a.fromId, a.toId) = T
    BY <1>2, <2>1, <2>2, <2>3, IntactHasNoMore
  <2> QED BY <2>1, <2>4, SealedRowsMatch
<1> QED BY <1>3, <1>4, <1>5 DEF Verify

\* Appends and engines make an audit report tampering in three ways only: an anchor file
\* is newer than the rows it loaded, the file of a checkpoint is missing while that of a
\* later one is there, or an append linked out of order, which the rows show.
THEOREM AlarmsHaveACause == Spec => FalseAlarmHasACause
<1> DEFINE Alarm == audit = "rows" /\ verdict' = "TAMPERED" /\ ~ Happened("tamper") /\ ~ Happened("recreate") =>
                      \/ \E a \in anchors : a.toId > Last(loaded).id
                      \/ \E c \in ckpts \ anchors, a \in anchors : c.toId < a.toId
                      \/ (Happened("reorder") \/ Happened("stale")) /\ ~ Intact(loaded)
           Fresh0 == audit = "rows" => verdict = "none"
           Inv == Types /\ SealInv /\ OrderInv /\ QuietInv /\ Fresh0
<1>1. Init => Inv
  BY OrderInit DEF Init
<1>2. ASSUME Inv, [Next]_vars PROVE Inv' /\ [Alarm]_vars
  <2>1. Types' /\ SealInv' /\ OrderInv' /\ QuietInv'
    BY <1>2, TypesKept, SealKept, OrderKept, QuietKept DEF SealInv
  <2>2. CASE LoadRows
    BY <1>2, <2>1, <2>2 DEF LoadRows
  <2>3. CASE LoadAnchorsAndVerify
    <3>1. Fresh0'
      BY <2>3 DEF LoadAnchorsAndVerify
    <3>2. Alarm
      <4> SUFFICES ASSUME audit = "rows", verdict' = "TAMPERED", Calm,
                          \A a \in anchors : ~ (a.toId > Last(loaded).id),
                          \A c \in ckpts \ anchors, a \in anchors : ~ (c.toId < a.toId),
                          ~ ((Happened("reorder") \/ Happened("stale")) /\ ~ Intact(loaded))
                   PROVE  FALSE
        BY DEF Calm
      <4>1. ~ Verify(loaded, anchors)
        BY <2>3 DEF LoadAnchorsAndVerify
      <4>2. Intact(loaded)
        BY <1>2 DEF QuietInv, Seen
      <4> QED BY <1>2, <4>1, <4>2, OrderlyAuditIsIntact
    <3> QED BY <2>1, <3>1, <3>2
  <2>4. CASE UNCHANGED auditVars
    BY <1>2, <2>1, <2>4 DEF auditVars
  <2>5. LoadRows \/ LoadAnchorsAndVerify \/ UNCHANGED auditVars
    <3>1. CASE UNCHANGED vars
      BY <3>1 DEF vars
    <3>2. ASSUME NEW i \in inflight, AppendNext(i) \/ AppendEarly(i) \/ AppendStale(i) \/ Abandon(i) PROVE UNCHANGED auditVars
      BY <3>2 DEF AppendNext, AppendEarly, AppendStale, Abandon
    <3>3. ASSUME NEW e \in Engines, ReadLast(e) \/ Load(e) \/ Insert(e) \/ Write(e) \/ Fail(e) PROVE UNCHANGED auditVars
      BY <3>3 DEF ReadLast, Load, Insert, Write, Fail
    <3>4. ASSUME NEW r \in rows, Tamper(r) PROVE UNCHANGED auditVars
      BY <3>4 DEF Tamper
    <3>5. CASE Draw \/ Recreate
      BY <3>5 DEF Draw, Recreate
    <3> QED BY <1>2, <3>1, <3>2, <3>3, <3>4, <3>5 DEF Next
  <2> QED BY <2>2, <2>3, <2>4, <2>5
<1>3. Inv /\ [Next]_vars => Inv' /\ [Alarm]_vars
  BY <1>2
<1> HIDE DEF Inv, Alarm
<1>4. FalseAlarmHasACause <=> [][Alarm]_vars
  BY DEF FalseAlarmHasACause, Alarm
<1> QED BY <1>1, <1>3, <1>4, PTL DEF Spec
-----------------------------------------------------------------------------
(***************************************************************************)
(* Diffs.  The inductive invariant: a hash tells its row among those of    *)
(* all branches, and a row that is not committed is in one branch only; as *)
(* long as no clone straddled commits out of order, a branch has whatever  *)
(* is below a row it shares with another; and while neither of its         *)
(* branches is made anew, what a diff has read are rows of them, and all   *)
(* that they share.                                                        *)
(***************************************************************************)
Entries == [id : Nat, hash : Nat, object : Objects \union {Nothing}]

Held(n) == hist[n] \union open[n]

IsRecord(d) ==
  d = [pc |-> d.pc, a |-> d.a, b |-> d.b, rowsA |-> d.rowsA, rowsB |-> d.rowsB, common |-> d.common,
       onlyA |-> d.onlyA, onlyB |-> d.onlyB, both |-> d.both, moved |-> d.moved]

DiffTypes ==
  /\ hist \in [Names -> SUBSET Entries] /\ open \in [Names -> SUBSET Entries]
  /\ seqs \in [Names -> Nat] /\ written \in Nat
  /\ IsRecord(diff) /\ diff.pc \in {"idle", "read", "done"} /\ diff.moved \in BOOLEAN
  /\ straddled \in BOOLEAN

HashInv ==
  /\ \A n \in Names : \A r \in Held(n) : r.id \in 1..seqs[n] /\ r.hash <= written
  /\ \A n \in Names : \A r, q \in Held(n) : r.id = q.id => r = q
  /\ \A n, m \in Names : \A r \in Held(n), q \in Held(m) : r.hash = q.hash => r = q
  /\ \A n, m \in Names : open[n] \intersect hist[m] = {} /\ (n # m => open[n] \intersect open[m] = {})

PrefixInv == straddled = FALSE =>
  \A n, m \in Names : n # m =>
    \A r \in hist[n] \intersect hist[m], q \in Held(n) : q.id < r.id => q \in hist[m]

ReadInv == diff.pc \in {"read", "done"} /\ diff.moved = FALSE =>
  /\ diff.a \in Names /\ diff.b \in Names /\ diff.a # diff.b
  /\ diff.rowsA \subseteq hist[diff.a] /\ hist[diff.a] \intersect hist[diff.b] \subseteq diff.rowsA
  /\ diff.pc = "done" => diff.rowsB \subseteq hist[diff.b] /\ hist[diff.a] \intersect hist[diff.b] \subseteq diff.rowsB

\* What the diff d of the rows A and B says.
Splits(d, A, B) ==
  /\ Range(d.common) = A \intersect B
  /\ d.onlyA = A \ B /\ d.onlyB = B \ A
  /\ d.both = {o \in Objects : (\E r \in A \ B : r.object = o) /\ (\E r \in B \ A : r.object = o)}

ResultInv == diff.pc = "done" /\ diff.moved = FALSE /\ straddled = FALSE => Splits(diff, diff.rowsA, diff.rowsB)

\* A row list in id order.
Ascends(s, S) ==
  /\ Len(s) \in Nat /\ s \in Seq(S)
  /\ S = {s[i] : i \in 1..Len(s)}
  /\ \A i, j \in 1..Len(s) : i < j => s[i].id < s[j].id

\* Loading rows gives such a list.
LEMMA ByIdAscends ==
  ASSUME NEW S, Numbered(S)
  PROVE  Ascends(ById(S), S)
<1>1. /\ Sized(ById(S), Cardinality(S)) /\ Len(ById(S)) = Cardinality(S)
      /\ S = {ById(S)[i] : i \in 1..Cardinality(S)}
      /\ \A i, j \in 1..Cardinality(S) : i < j => ById(S)[i].id < ById(S)[j].id
  BY ByIdIs
<1>2. ById(S) \in Seq(S) /\ Cardinality(S) \in Nat
  BY <1>1, SizedIs DEF Sized
<1> QED BY <1>1, <1>2 DEF Ascends

\* buildDiff's common prefix ends where the rows stop being shared, if each list has
\* whatever is below a shared row.
LEMMA PrefixIs ==
  ASSUME NEW A, NEW B, Numbered(A), Numbered(B),
         NEW a, NEW b, Ascends(a, A), Ascends(b, B),
         \A r \in A, q \in B : r.hash = q.hash => r = q,
         \A r \in A \intersect B, q \in A : q.id < r.id => q \in B,
         \A r \in A \intersect B, q \in B : q.id < r.id => q \in A
  PROVE  /\ SamePrefix(a, b) \in 0..Len(a) /\ SamePrefix(a, b) <= Len(b)
         /\ \A i \in 1..Len(a) : a[i] \in B <=> i <= SamePrefix(a, b)
         /\ \A i \in 1..Len(b) : b[i] \in A <=> i <= SamePrefix(a, b)
<1> DEFINE same(k) == k <= Len(a) /\ k <= Len(b) /\ \A i \in 1..k : a[i].id = b[i].id /\ a[i].hash = b[i].hash
           n == SamePrefix(a, b)
           la == Len(a)
           lb == Len(b)
<1>0. /\ la \in Nat /\ lb \in Nat
      /\ \A i \in 1..la : a[i] \in A
      /\ \A i \in 1..lb : b[i] \in B
      /\ \A r \in A : \E i \in 1..la : a[i] = r
      /\ \A r \in B : \E i \in 1..lb : b[i] = r
      /\ \A r \in A \union B : r.id \in Nat
  BY NumberedFinite DEF Ascends
<1>1. \A r, q \in A : r.id = q.id => r = q
  BY DEF Numbered
<1>2. /\ \A i, j \in 1..la : i < j => a[i].id < a[j].id
      /\ \A i, j \in 1..lb : i < j => b[i].id < b[j].id
  BY DEF Ascends
<1>3. \E k \in 0..la : same(k) /\ ~ same(k + 1)
  <2> DEFINE Bad == {k \in Nat : ~ same(k)}
  <2>1. la + 1 \in Bad /\ Bad \in SUBSET Nat
    BY <1>0
  <2>2. PICK k \in Bad : \A j \in Bad : k <= j
    <3> HIDE DEF Bad
    <3> QED BY <2>1, Least
  <2>3. same(0)
    BY <1>0
  <2>4. k \in Nat /\ k # 0 /\ k <= la + 1 /\ ~ same(k)
    BY <2>1, <2>2, <2>3
  <2>5. k - 1 \in 0..la /\ k - 1 \notin Bad /\ k - 1 \in Nat /\ (k - 1) + 1 = k
    BY <1>0, <2>2, <2>4
  <2>6. same(k - 1)
    BY <2>5
  <2> HIDE DEF same
  <2> QED BY <2>4, <2>5, <2>6
<1>4. n = CHOOSE k \in 0..la : same(k) /\ ~ same(k + 1)
  BY DEF SamePrefix
<1>5. n \in 0..la /\ same(n) /\ ~ same(n + 1)
  <2> HIDE DEF same, n
  <2> QED BY <1>3, <1>4
<1> HIDE DEF n
<1>6. n \in Nat /\ n <= la /\ n <= lb
  BY <1>0, <1>5
<1>7. ASSUME NEW i \in 1..n PROVE a[i] = b[i]
  <2>1. a[i].hash = b[i].hash /\ i \in 1..la /\ i \in 1..lb
    BY <1>0, <1>5, <1>6
  <2> QED BY <1>0, <2>1
<1>8. \A i \in 1..n : a[i] \in B /\ b[i] \in A
  <2> SUFFICES ASSUME NEW i \in 1..n PROVE a[i] \in B /\ b[i] \in A
    OBVIOUS
  <2>1. i \in 1..la /\ i \in 1..lb
    BY <1>0, <1>6
  <2> QED BY <1>0, <1>7, <2>1
<1> HIDE DEF same, la, lb
<1>9. ASSUME NEW i \in 1..la, a[i] \in B PROVE i <= n
  <2> SUFFICES ASSUME ~ (i <= n) PROVE FALSE
    OBVIOUS
  <2> DEFINE s == n + 1
  <2>1. s \in 1..la /\ s <= i /\ i \in Nat
    BY <1>0, <1>6
  <2>2. a[s] \in A /\ a[s] \in B
    <3>1. CASE s = i
      BY <1>0, <1>9, <3>1
    <3>2. CASE s < i
      <4>1. a[s].id < a[i].id /\ a[s] \in A /\ a[i] \in A
        BY <1>0, <1>2, <2>1, <3>2
      <4> QED BY <1>9, <4>1
    <3> QED BY <1>6, <2>1, <3>1, <3>2
  <2>3. PICK j \in 1..lb : b[j] = a[s]
    BY <1>0, <2>2
  <2>4. ~ (j <= n)
    <3> SUFFICES ASSUME j <= n PROVE FALSE
      OBVIOUS
    <3>1. j \in 1..n /\ j \in 1..la /\ j < s
      BY <1>0, <1>6, <2>3
    <3>2. a[j] = a[s] /\ a[j].id < a[s].id
      BY <1>2, <1>7, <2>1, <2>3, <3>1
    <3> QED BY <1>0, <2>2, <3>2
  <2>5. s \in 1..lb /\ s <= j /\ j \in Nat
    BY <1>0, <1>6, <2>4
  <2>6. b[s] \in B /\ b[s] \in A /\ b[s].id <= a[s].id
    <3>0. b[s] \in B
      BY <1>0, <2>5
    <3>1. CASE s = j
      BY <1>0, <2>2, <2>3, <3>1
    <3>2. CASE s < j
      <4>1. b[s].id < a[s].id
        BY <1>2, <2>3, <2>5, <3>2
      <4>2. b[s] \in A
        BY <2>2, <3>0, <4>1
      <4>3. b[s].id \in Nat /\ a[s].id \in Nat
        BY <1>0, <2>2, <3>0
      <4> QED BY <3>0, <4>1, <4>2, <4>3
    <3> QED BY <1>6, <2>5, <3>1, <3>2
  <2>7. PICK k \in 1..la : a[k] = b[s]
    BY <1>0, <2>6
  <2>8. ~ (k <= n)
    <3> SUFFICES ASSUME k <= n PROVE FALSE
      OBVIOUS
    <3>1. k \in 1..n /\ k \in 1..lb /\ k < s
      BY <1>0, <1>6, <2>7
    <3>2. b[k] = b[s] /\ b[k].id < b[s].id
      BY <1>2, <1>7, <2>5, <2>7, <3>1
    <3> QED BY <1>0, <2>6, <3>2
  <2>9. a[s] = b[s]
    <3>0. k \in Nat /\ s <= k
      BY <1>0, <1>6, <2>8
    <3>1. CASE s = k
      BY <2>7, <3>1
    <3>2. CASE s < k
      <4>1. a[s].id < b[s].id /\ a[s].id \in Nat /\ b[s].id \in Nat
        BY <1>0, <1>2, <2>1, <2>2, <2>6, <2>7, <3>2
      <4> QED BY <2>6, <4>1
    <3> QED BY <1>6, <3>0, <3>1, <3>2
  <2>10. same(n + 1)
    <3>1. ASSUME NEW h \in 1..(n + 1) PROVE a[h] = b[h]
      <4>1. h \in 1..n \/ h = s
        BY <1>6
      <4> QED BY <1>7, <2>9, <4>1
    <3>2. n + 1 <= Len(a) /\ n + 1 <= Len(b)
      BY <1>0, <2>1, <2>5 DEF la, lb
    <3> QED BY <3>1, <3>2 DEF same
  <2> QED BY <1>5, <2>10
<1>10. ASSUME NEW i \in 1..lb, b[i] \in A PROVE i <= n
  <2>1. PICK k \in 1..la : a[k] = b[i]
    BY <1>0, <1>10
  <2>2. a[k] \in B
    BY <1>0, <2>1
  <2>3. k <= n
    BY <1>9, <2>2
  <2>4. k \in 1..n /\ k \in 1..lb
    BY <1>0, <1>6, <2>3
  <2>5. b[k] = b[i]
    BY <1>7, <2>1, <2>4
  <2>6. ~ (k < i)
    BY <1>0, <1>2, <2>4, <2>5
  <2> QED BY <1>0, <1>6, <2>3, <2>6
<1>11. ASSUME NEW i \in 1..la, i <= n PROVE a[i] \in B
  BY <1>0, <1>6, <1>8, <1>11
<1>12. ASSUME NEW i \in 1..lb, i <= n PROVE b[i] \in A
  BY <1>0, <1>6, <1>8, <1>12
<1> QED BY <1>5, <1>6, <1>9, <1>10, <1>11, <1>12 DEF n, la, lb

\* The elements of the two parts of a list.
LEMMA PartsAre ==
  ASSUME NEW A, NEW a, Ascends(a, A), NEW n \in 0..Len(a), NEW B,
         \A i \in 1..Len(a) : a[i] \in B <=> i <= n
  PROVE  /\ Range(SubSeq(a, 1, n)) = A \intersect B
         /\ Range(SubSeq(a, n + 1, Len(a))) = A \ B
<1> DEFINE p == SubSeq(a, 1, n)
           q == SubSeq(a, n + 1, Len(a))
           l == Len(a)
<1>0. l \in Nat /\ n \in Nat /\ n <= l /\ (\A i \in 1..l : a[i] \in A) /\ \A r \in A : \E i \in 1..l : a[i] = r
  BY DEF Ascends
<1>1. p \in Seq(A) /\ Len(p) = n /\ \A i \in 1..n : p[i] = a[i]
  <2>1. \A i \in 1..n : a[i] \in A
    BY <1>0
  <2>2. p \in Seq(A) /\ Len(p) = (IF 1 <= n THEN n - 1 + 1 ELSE 0) /\ \A i \in 1..(n - 1 + 1) : p[i] = a[1 + i - 1]
    BY <1>0, <2>1, SubSeqProperties
  <2>3. n - 1 + 1 = n /\ (IF 1 <= n THEN n - 1 + 1 ELSE 0) = n
    BY <1>0
  <2>4. \A i \in 1..n : 1 + i - 1 = i
    BY <1>0
  <2> HIDE DEF p
  <2> QED BY <2>2, <2>3, <2>4
<1>2. q \in Seq(A) /\ Len(q) = l - n /\ \A i \in 1..(l - n) : q[i] = a[n + i]
  <2>1. \A i \in (n + 1)..l : a[i] \in A
    BY <1>0
  <2>2. q \in Seq(A) /\ Len(q) = (IF n + 1 <= l THEN l - (n + 1) + 1 ELSE 0) /\ \A i \in 1..(l - (n + 1) + 1) : q[i] = a[(n + 1) + i - 1]
    BY <1>0, <2>1, SubSeqProperties
  <2>3. l - (n + 1) + 1 = l - n /\ (IF n + 1 <= l THEN l - (n + 1) + 1 ELSE 0) = l - n
    BY <1>0
  <2>4. \A i \in 1..(l - n) : (n + 1) + i - 1 = n + i
    BY <1>0
  <2> HIDE DEF q, l
  <2> QED BY <2>2, <2>3, <2>4
<1>3. DOMAIN p = 1..n /\ DOMAIN q = 1..(l - n)
  <2>1. DOMAIN p = 1..Len(p) /\ DOMAIN q = 1..Len(q)
    <3> HIDE DEF p, q
    <3> QED BY <1>1, <1>2, LenProperties
  <2> QED BY <1>1, <1>2, <2>1
<1> HIDE DEF p, q
<1>4. Range(p) = A \intersect B
  <2>1. ASSUME NEW i \in 1..n PROVE p[i] \in A \intersect B
    <3>1. i \in 1..l /\ i <= n
      BY <1>0
    <3> QED BY <1>0, <1>1, <3>1
  <2>2. ASSUME NEW r \in A \intersect B PROVE \E i \in 1..n : p[i] = r
    <3>1. PICK i \in 1..l : a[i] = r
      BY <1>0
    <3>2. i <= n
      BY <3>1
    <3>3. i \in 1..n
      BY <1>0, <3>2
    <3> QED BY <1>1, <3>1, <3>3
  <2> QED BY <1>3, <2>1, <2>2 DEF Range
<1>5. Range(q) = A \ B
  <2>1. ASSUME NEW i \in 1..(l - n) PROVE q[i] \in A \ B
    <3>1. n + i \in 1..l /\ ~ (n + i <= n)
      BY <1>0
    <3> QED BY <1>0, <1>2, <3>1
  <2>2. ASSUME NEW r \in A \ B PROVE \E i \in 1..(l - n) : q[i] = r
    <3>1. PICK i \in 1..l : a[i] = r
      BY <1>0
    <3>2. ~ (i <= n)
      BY <3>1
    <3>3. i - n \in 1..(l - n) /\ n + (i - n) = i
      BY <1>0, <3>2
    <3>4. q[i - n] = r
      BY <1>2, <3>1, <3>3
    <3> QED BY <3>3, <3>4
  <2> QED BY <1>3, <2>1, <2>2 DEF Range
<1> QED BY <1>4, <1>5 DEF p, q

\* buildDiff splits two branches' rows into the shared ones and those of one side.
LEMMA BuildSplits ==
  ASSUME NEW A \in SUBSET Entries, NEW B \in SUBSET Entries, Numbered(A), Numbered(B), IsRecord(diff),
         \A r \in A, q \in B : r.hash = q.hash => r = q,
         \A r \in A \intersect B, q \in A : q.id < r.id => q \in B,
         \A r \in A \intersect B, q \in B : q.id < r.id => q \in A
  PROVE  Splits(buildDiff(A, B), A, B)
<1> DEFINE a == ById(A)
           b == ById(B)
           n == SamePrefix(a, b)
           afterA == SubSeq(a, n + 1, Len(a))
           afterB == SubSeq(b, n + 1, Len(b))
           common == SubSeq(a, 1, n)
           d == buildDiff(A, B)
<1>1. Ascends(a, A) /\ Ascends(b, B)
  BY ByIdAscends
<1>2. d = [diff EXCEPT !.pc = "done", !.rowsB = B, !.common = common, !.onlyA = Range(afterA),
                       !.onlyB = Range(afterB), !.both = touched(afterA) \intersect touched(afterB)]
  BY DEF buildDiff
<1> HIDE DEF d, a, b
<1>3. /\ n \in 0..Len(a) /\ n <= Len(b)
      /\ \A i \in 1..Len(a) : a[i] \in B <=> i <= n
      /\ \A i \in 1..Len(b) : b[i] \in A <=> i <= n
  BY <1>1, PrefixIs
<1> HIDE DEF n
<1>4. Range(common) = A \intersect B /\ Range(afterA) = A \ B
  BY <1>1, <1>3, PartsAre
<1>5. Range(afterB) = B \ A
  <2>1. n \in 0..Len(b)
    BY <1>1, <1>3 DEF Ascends
  <2> QED BY <1>1, <1>3, <2>1, PartsAre
<1> HIDE DEF common, afterA, afterB
<1>6. touched(afterA) = {r.object : r \in A \ B} \ {Nothing} /\ touched(afterB) = {r.object : r \in B \ A} \ {Nothing}
  <2>1. ASSUME NEW s PROVE touched(s) = {r.object : r \in Range(s)} \ {Nothing}
    BY DEF touched, Range
  <2> QED BY <1>4, <1>5, <2>1
<1>7. touched(afterA) \intersect touched(afterB)
        = {o \in Objects : (\E r \in A \ B : r.object = o) /\ (\E r \in B \ A : r.object = o)}
  <2>1. \A r \in A \union B : r.object \in Objects \union {Nothing}
    BY DEF Entries
  <2> QED BY <1>6, <2>1, NamesAssumption
<1> DEFINE ra == Range(afterA)
           rb == Range(afterB)
           bo == touched(afterA) \intersect touched(afterB)
<1> HIDE DEF ra, rb, bo
<1>8. d.common = common /\ d.onlyA = ra /\ d.onlyB = rb /\ d.both = bo
  BY <1>2 DEF IsRecord, ra, rb, bo
<1> QED BY <1>4, <1>5, <1>7, <1>8 DEF Splits, d, ra, rb, bo
-----------------------------------------------------------------------------
(* Rows, clones and reads *)

\* A client draws an id: the new row's id is above those of its branch.
DrawSummary(n, row) ==
  /\ row \in Entries /\ row.id = seqs[n] + 1 /\ row.hash = written + 1
  /\ seqs' = [seqs EXCEPT ![n] = @ + 1] /\ written' = written + 1
  /\ open' = [open EXCEPT ![n] = @ \union {row}]
  /\ UNCHANGED <<hist, diff, straddled>>

\* The cases of a step.
LEMMA DiffCases ==
  ASSUME DiffTypes, [DiffNext]_diffVars
  PROVE  \/ UNCHANGED diffVars
         \/ \E n \in Names, row \in Entries : DrawSummary(n, row)
         \/ \E n \in Names : \E row \in open[n] : EndRow(n, row)
         \/ \E n, from \in Names : Clone(n, from)
         \/ \E a, b \in Names : a # b /\ ReadA(a, b)
         \/ ReadB
<1>1. ASSUME NEW n \in Names, NEW o \in Objects \union {Nothing}, DrawId(n, o) PROVE \E row \in Entries : DrawSummary(n, row)
  <2> DEFINE row == [id |-> seqs[n] + 1, hash |-> written + 1, object |-> o]
  <2>1. seqs[n] \in Nat /\ written \in Nat
    BY DEF DiffTypes
  <2>2. row \in Entries /\ row.id = seqs[n] + 1 /\ row.hash = written + 1
    BY <2>1 DEF Entries
  <2>3. DrawSummary(n, row)
    BY <1>1, <2>2 DEF DrawId, DrawSummary
  <2> QED BY <2>2, <2>3
<1> QED BY <1>1 DEF DiffNext

\* The types of a diff's state are kept.
LEMMA DiffTypesKept ==
  ASSUME DiffTypes, [DiffNext]_diffVars
  PROVE  DiffTypes'
<1>1. CASE UNCHANGED diffVars
  BY <1>1 DEF diffVars, DiffTypes, IsRecord, Entries
<1>2. ASSUME NEW n \in Names, NEW row \in Entries, DrawSummary(n, row) PROVE DiffTypes'
  BY <1>2 DEF DrawSummary, DiffTypes, IsRecord
<1>3. ASSUME NEW n \in Names, NEW row \in open[n], EndRow(n, row) PROVE DiffTypes'
  <2>1. open' = [open EXCEPT ![n] = @ \ {row}] /\ UNCHANGED <<seqs, written, diff, straddled>>
    BY <1>3 DEF EndRow
  <2>2. hist' = hist \/ hist' = [hist EXCEPT ![n] = @ \union {row}]
    BY <1>3 DEF EndRow
  <2>3. row \in Entries
    BY DEF DiffTypes
  <2>4. hist' \in [Names -> SUBSET Entries] /\ open' \in [Names -> SUBSET Entries]
    BY <2>1, <2>2, <2>3 DEF DiffTypes
  <2> QED BY <2>1, <2>4 DEF DiffTypes, IsRecord
<1>4. ASSUME NEW n \in Names, NEW from \in Names, Clone(n, from) PROVE DiffTypes'
  <2> DEFINE m == diff.moved \/ n \in {diff.a, diff.b}
             s == straddled \/ \E r \in open[from], q \in hist[from] : r.id < q.id
  <2>1. m \in BOOLEAN /\ s \in BOOLEAN
    OBVIOUS
  <2>2. diff' = [diff EXCEPT !.moved = m] /\ straddled' = s
    BY <1>4 DEF Clone
  <2> HIDE DEF m, s
  <2>3. IsRecord(diff') /\ diff'.pc = diff.pc /\ diff'.moved = m
    BY <2>2 DEF DiffTypes, IsRecord
  <2>4. /\ hist' \in [Names -> SUBSET Entries] /\ open' \in [Names -> SUBSET Entries]
        /\ seqs' \in [Names -> Nat] /\ written' \in Nat
    BY <1>4 DEF Clone, DiffTypes
  <2> QED BY <2>1, <2>2, <2>3, <2>4 DEF DiffTypes, IsRecord
<1>5. ASSUME NEW a \in Names, NEW b \in Names, ReadA(a, b) PROVE DiffTypes'
  <2>1. diff' = [NoResult EXCEPT !.pc = "read", !.a = a, !.b = b, !.rowsA = hist[a]]
    BY <1>5 DEF ReadA
  <2>2. IsRecord(diff') /\ diff'.pc = "read" /\ diff'.moved = FALSE
    BY <2>1 DEF NoResult, IsRecord
  <2> QED BY <1>5, <2>2 DEF ReadA, DiffTypes, IsRecord
<1>6. CASE ReadB
  <2>1. IsRecord(diff') /\ diff'.pc = "done" /\ diff'.moved = diff.moved
    BY <1>6 DEF ReadB, buildDiff, DiffTypes, IsRecord
  <2> QED BY <1>6, <2>1 DEF ReadB, DiffTypes, IsRecord
<1> QED BY <1>1, <1>2, <1>3, <1>4, <1>5, <1>6, DiffCases

\* Hashes and ids.
LEMMA HashKept ==
  ASSUME DiffTypes, HashInv, [DiffNext]_diffVars
  PROVE  HashInv'
<1> DEFINE H(n) == hist[n] \union open[n]
<1>0. /\ \A n \in Names : \A r \in H(n) : r \in Entries /\ r.id \in 1..seqs[n] /\ r.hash <= written
      /\ \A n \in Names : \A r, q \in H(n) : r.id = q.id => r = q
      /\ \A n, m \in Names : \A r \in H(n), q \in H(m) : r.hash = q.hash => r = q
      /\ \A n, m \in Names : open[n] \intersect hist[m] = {} /\ (n # m => open[n] \intersect open[m] = {})
  BY DEF HashInv, Held, DiffTypes
<1>1. SUFFICES /\ \A n \in Names : \A r \in H(n)' : r.id \in 1..seqs'[n] /\ r.hash <= written'
               /\ \A n \in Names : \A r, q \in H(n)' : r.id = q.id => r = q
               /\ \A n, m \in Names : \A r \in H(n)', q \in H(m)' : r.hash = q.hash => r = q
               /\ \A n, m \in Names : open'[n] \intersect hist'[m] = {} /\ (n # m => open'[n] \intersect open'[m] = {})
  BY DEF HashInv, Held
<1>2. CASE UNCHANGED <<hist, open, seqs, written>>
  BY <1>0, <1>2
<1>3. ASSUME NEW k \in Names, NEW row \in Entries, DrawSummary(k, row) PROVE HashInv'
  <2>1. /\ hist' = hist /\ written' = written + 1 /\ written \in Nat /\ seqs[k] \in Nat
        /\ seqs'[k] = seqs[k] + 1 /\ open'[k] = open[k] \union {row}
        /\ \A n \in Names \ {k} : seqs'[n] = seqs[n] /\ open'[n] = open[n]
    BY <1>3 DEF DrawSummary, DiffTypes
  <2>2. row.id = seqs[k] + 1 /\ row.hash = written + 1
    BY <1>3 DEF DrawSummary
  <2>3. \A n \in Names : \A r \in H(n) : r # row /\ r.hash # row.hash /\ r.hash \in Nat /\ r.hash <= written'
    BY <1>0, <2>1, <2>2 DEF Entries
  <2>4. \A r \in H(k) : r.id # row.id
    BY <1>0, <2>1, <2>2
  <2>5. \A n \in Names : \A r \in H(n)' : r \in H(n) \/ (n = k /\ r = row)
    BY <2>1
  <2>6. \A n \in Names : \A r \in H(n)' : r.id \in 1..seqs'[n] /\ r.hash <= written'
    <3> SUFFICES ASSUME NEW n \in Names, NEW r \in H(n)' PROVE r.id \in 1..seqs'[n] /\ r.hash <= written'
      OBVIOUS
    <3>1. CASE r = row /\ n = k
      BY <2>1, <2>2, <3>1
    <3>2. CASE r \in H(n)
      BY <1>0, <2>1, <2>3, <3>2
    <3> QED BY <2>5, <3>1, <3>2
  <2>7. \A n \in Names : \A r, q \in H(n)' : r.id = q.id => r = q
    BY <1>0, <2>4, <2>5
  <2>8. \A n, m \in Names : \A r \in H(n)', q \in H(m)' : r.hash = q.hash => r = q
    BY <1>0, <2>3, <2>5
  <2>9. \A n, m \in Names : open'[n] \intersect hist'[m] = {} /\ (n # m => open'[n] \intersect open'[m] = {})
    BY <1>0, <2>1, <2>3
  <2> QED BY <2>6, <2>7, <2>8, <2>9 DEF HashInv, Held
<1>4. ASSUME NEW k \in Names, NEW row \in open[k], EndRow(k, row) PROVE HashInv'
  <2>1. /\ open'[k] = open[k] \ {row} /\ \A n \in Names \ {k} : open'[n] = open[n] /\ hist'[n] = hist[n]
        /\ seqs' = seqs /\ written' = written
    BY <1>4 DEF EndRow, DiffTypes
  <2>2. hist'[k] = hist[k] \/ hist'[k] = hist[k] \union {row}
    BY <1>4 DEF EndRow, DiffTypes
  <2>3. \A n \in Names : H(n)' \subseteq H(n)
    BY <2>1, <2>2
  <2>4. \A n \in Names : hist'[n] = hist[n] \/ (n = k /\ hist'[n] \subseteq hist[n] \union {row})
    BY <2>1, <2>2
  <2>5. \A n \in Names : open'[n] \subseteq open[n] /\ row \notin open'[n]
    BY <1>0, <2>1
  <2>6. \A n, m \in Names : open'[n] \intersect hist'[m] = {} /\ (n # m => open'[n] \intersect open'[m] = {})
    BY <1>0, <2>4, <2>5
  <2> QED BY <1>0, <2>1, <2>3, <2>6 DEF HashInv, Held
<1>5. ASSUME NEW k \in Names, NEW from \in Names, Clone(k, from) PROVE HashInv'
  <2>1. /\ k # from /\ hist'[k] = hist[from] /\ open'[k] = {} /\ seqs'[k] = seqs[from] /\ written' = written
        /\ \A n \in Names \ {k} : hist'[n] = hist[n] /\ open'[n] = open[n] /\ seqs'[n] = seqs[n]
    BY <1>5 DEF Clone, DiffTypes
  <2>2. \A n \in Names : \E m \in Names : H(n)' \subseteq H(m) /\ seqs'[n] = seqs[m]
    BY <2>1
  <2>3. \A n, m \in Names : open'[n] \intersect hist'[m] = {} /\ (n # m => open'[n] \intersect open'[m] = {})
    BY <1>0, <2>1
  <2>4. \A n \in Names : \A r \in H(n)' : r.id \in 1..seqs'[n] /\ r.hash <= written'
    BY <1>0, <2>1, <2>2
  <2>5. \A n \in Names : \A r, q \in H(n)' : r.id = q.id => r = q
    BY <1>0, <2>2
  <2>6. \A n, m \in Names : \A r \in H(n)', q \in H(m)' : r.hash = q.hash => r = q
    BY <1>0, <2>2
  <2> QED BY <2>3, <2>4, <2>5, <2>6 DEF HashInv, Held
<1> QED BY <1>2, <1>3, <1>4, <1>5, DiffCases DEF diffVars, ReadA, ReadB, HashInv, Held

\* A branch has what is below a row that it shares.
LEMMA PrefixKept ==
  ASSUME DiffTypes, HashInv, PrefixInv, [DiffNext]_diffVars
  PROVE  PrefixInv'
<1> DEFINE H(n) == hist[n] \union open[n]
<1>0. /\ \A n \in Names : \A r \in H(n) : r.id \in 1..seqs[n]
      /\ \A n, m \in Names : open[n] \intersect hist[m] = {}
      /\ \A n \in Names : seqs[n] \in Nat
  BY DEF HashInv, Held, DiffTypes
<1>1. SUFFICES ASSUME straddled' = FALSE, NEW n \in Names, NEW m \in Names, n # m,
                      NEW r \in hist'[n] \intersect hist'[m], NEW q \in H(n)', q.id < r.id
               PROVE  q \in hist'[m]
  BY DEF PrefixInv, Held
<1>2. straddled = FALSE
  <2>1. \A k, from \in Names : Clone(k, from) => (straddled = TRUE => straddled' = TRUE)
    BY DEF Clone
  <2> QED BY <1>1, <2>1, DiffCases DEF diffVars, DrawSummary, EndRow, ReadA, ReadB, DiffTypes
<1>3. \A k, l \in Names : k # l => \A x \in hist[k] \intersect hist[l], y \in H(k) : y.id < x.id => y \in hist[l]
  BY <1>2 DEF PrefixInv, Held
<1>4. CASE UNCHANGED <<hist, open>>
  BY <1>1, <1>3, <1>4
<1>5. ASSUME NEW k \in Names, NEW row \in Entries, DrawSummary(k, row) PROVE q \in hist'[m]
  <2>1. hist' = hist /\ open'[k] = open[k] \union {row} /\ \A l \in Names \ {k} : open'[l] = open[l]
    BY <1>5 DEF DrawSummary, DiffTypes
  <2>2. row.id = seqs[k] + 1
    BY <1>5 DEF DrawSummary
  <2>3. q \in H(n) \/ (n = k /\ q = row)
    BY <2>1
  <2>4. ~ (n = k /\ q = row)
    BY <1>0, <1>1, <2>1, <2>2
  <2> QED BY <1>1, <1>3, <2>1, <2>3, <2>4
<1>6. ASSUME NEW k \in Names, NEW row \in open[k], EndRow(k, row) PROVE q \in hist'[m]
  <2>1. open'[k] = open[k] \ {row} /\ \A l \in Names \ {k} : open'[l] = open[l] /\ hist'[l] = hist[l]
    BY <1>6 DEF EndRow, DiffTypes
  <2>2. hist'[k] = hist[k] \/ hist'[k] = hist[k] \union {row}
    BY <1>6 DEF EndRow, DiffTypes
  <2>3. \A l \in Names : H(l)' \subseteq H(l) /\ hist[l] \subseteq hist'[l] /\ \A x \in hist'[l] : x \in hist[l] \/ (x = row /\ l = k)
    BY <2>1, <2>2
  <2>4. \A l \in Names : row \notin hist[l]
    BY <1>0
  <2>5. r \in hist[n] /\ r \in hist[m]
    BY <1>1, <2>3, <2>4
  <2>6. q \in hist[m]
    BY <1>1, <1>3, <2>3, <2>5
  <2> QED BY <2>3, <2>6
<1>7. ASSUME NEW k \in Names, NEW from \in Names, Clone(k, from) PROVE q \in hist'[m]
  <2>1. /\ k # from /\ hist'[k] = hist[from] /\ open'[k] = {}
        /\ \A l \in Names \ {k} : hist'[l] = hist[l] /\ open'[l] = open[l]
    BY <1>7 DEF Clone, DiffTypes
  <2>2. \A x \in open[from], y \in hist[from] : ~ (x.id < y.id)
    BY <1>1, <1>7 DEF Clone
  <2>3. CASE n = k /\ m = from
    BY <2>1, <2>3
  <2>4. CASE n = from /\ m = k
    BY <1>1, <2>1, <2>2, <2>4
  <2>5. CASE n = k /\ m # from
    BY <1>1, <1>3, <2>1, <2>5
  <2>6. CASE m = k /\ n # from
    BY <1>1, <1>3, <2>1, <2>6
  <2>7. CASE n # k /\ m # k
    BY <1>1, <1>3, <2>1, <2>7
  <2> QED BY <2>3, <2>4, <2>5, <2>6, <2>7
<1> QED BY <1>4, <1>5, <1>6, <1>7, DiffCases DEF diffVars, ReadA, ReadB

\* What a diff has read stays rows of its branches, and all that they share: a row
\* that is committed on one of them meanwhile is not on the other.
LEMMA ReadKept ==
  ASSUME DiffTypes, HashInv, ReadInv, [DiffNext]_diffVars
  PROVE  ReadInv'
<1>0. \A n, m \in Names : open[n] \intersect hist[m] = {}
  BY DEF HashInv
<1>1. SUFFICES ASSUME diff'.pc \in {"read", "done"}, diff'.moved = FALSE
               PROVE  /\ diff'.a \in Names /\ diff'.b \in Names /\ diff'.a # diff'.b
                      /\ diff'.rowsA \subseteq hist'[diff'.a] /\ hist'[diff'.a] \intersect hist'[diff'.b] \subseteq diff'.rowsA
                      /\ diff'.pc = "done" => /\ diff'.rowsB \subseteq hist'[diff'.b]
                                              /\ hist'[diff'.a] \intersect hist'[diff'.b] \subseteq diff'.rowsB
  BY DEF ReadInv
<1>2. CASE UNCHANGED <<hist, diff>>
  BY <1>1, <1>2 DEF ReadInv
<1>3. ASSUME NEW k \in Names, NEW row \in open[k], EndRow(k, row) PROVE ReadInv'
  <2>1. \A l \in Names : hist[l] \subseteq hist'[l] /\ \A x \in hist'[l] : x \in hist[l] \/ (x = row /\ l = k)
    BY <1>3 DEF EndRow, DiffTypes
  <2>2. \A l \in Names : row \notin hist[l]
    BY <1>0
  <2>3. diff' = diff
    BY <1>3 DEF EndRow
  <2>4. \A l, m \in Names : l # m => hist'[l] \intersect hist'[m] \subseteq hist[l] \intersect hist[m]
    BY <2>1, <2>2
  <2> QED BY <1>1, <2>1, <2>3, <2>4 DEF ReadInv
<1>4. ASSUME NEW k \in Names, NEW from \in Names, Clone(k, from) PROVE ReadInv'
  <2>1. diff' = [diff EXCEPT !.moved = @ \/ k \in {diff.a, diff.b}]
    BY <1>4 DEF Clone
  <2>2. diff.moved = FALSE /\ k \notin {diff.a, diff.b} /\ diff'.pc = diff.pc /\ diff'.a = diff.a /\ diff'.b = diff.b
        /\ diff'.rowsA = diff.rowsA /\ diff'.rowsB = diff.rowsB
    BY <1>1, <2>1 DEF DiffTypes, IsRecord
  <2>3. \A l \in Names \ {k} : hist'[l] = hist[l]
    BY <1>4 DEF Clone, DiffTypes
  <2> QED BY <1>1, <2>2, <2>3 DEF ReadInv
<1>5. ASSUME NEW a \in Names, NEW b \in Names, a # b, ReadA(a, b) PROVE ReadInv'
  <2>1. diff'.a = a /\ diff'.b = b /\ diff'.rowsA = hist[a] /\ diff'.pc = "read" /\ hist' = hist
    BY <1>5 DEF ReadA, NoResult
  <2> QED BY <1>5, <2>1 DEF ReadInv
<1>6. CASE ReadB
  <2>1. diff'.a = diff.a /\ diff'.b = diff.b /\ diff'.rowsA = diff.rowsA /\ diff'.rowsB = hist[diff.b]
        /\ diff'.moved = diff.moved /\ diff.pc = "read" /\ hist' = hist
    BY <1>6 DEF ReadB, buildDiff, DiffTypes, IsRecord
  <2> QED BY <1>1, <2>1 DEF ReadInv
<1>7. ReadInv' \/ UNCHANGED <<hist, diff>> \/ ReadB
  BY <1>3, <1>4, <1>5, DiffCases DEF diffVars, DrawSummary
<1> QED BY <1>1, <1>2, <1>6, <1>7 DEF ReadInv

\* The result of a diff whose branches nobody made anew.
LEMMA ResultKept ==
  ASSUME DiffTypes, HashInv, PrefixInv, ReadInv, ResultInv, [DiffNext]_diffVars
  PROVE  ResultInv'
<1>1. SUFFICES ASSUME diff'.pc = "done", diff'.moved = FALSE, straddled' = FALSE
               PROVE  Splits(diff', diff'.rowsA, diff'.rowsB)
  BY DEF ResultInv, Splits, Range
<1>2. CASE UNCHANGED <<diff, straddled>>
  BY <1>1, <1>2 DEF ResultInv
<1>3. ASSUME NEW k \in Names, NEW from \in Names, Clone(k, from) PROVE Splits(diff', diff'.rowsA, diff'.rowsB)
  <2>1. diff' = [diff EXCEPT !.moved = @ \/ k \in {diff.a, diff.b}] /\ straddled = FALSE
    BY <1>1, <1>3 DEF Clone, DiffTypes
  <2>2. /\ diff.moved = FALSE /\ diff'.pc = diff.pc /\ diff'.rowsA = diff.rowsA /\ diff'.rowsB = diff.rowsB
        /\ diff'.common = diff.common /\ diff'.onlyA = diff.onlyA /\ diff'.onlyB = diff.onlyB /\ diff'.both = diff.both
    BY <1>1, <2>1 DEF DiffTypes, IsRecord
  <2>3. Splits(diff, diff.rowsA, diff.rowsB)
    BY <1>1, <2>1, <2>2 DEF ResultInv
  <2> QED BY <2>2, <2>3 DEF Splits
<1>4. ASSUME NEW a \in Names, NEW b \in Names, ReadA(a, b) PROVE diff'.pc = "read"
  BY <1>4 DEF ReadA, NoResult
<1>5. CASE ReadB
  <2> DEFINE A == diff.rowsA
             B == hist[diff.b]
             h == hist[diff.a]
  <2>1. /\ diff' = buildDiff(A, B) /\ diff'.rowsA = A /\ diff'.rowsB = B
        /\ diff.moved = FALSE /\ diff.pc = "read" /\ straddled = FALSE
    BY <1>1, <1>5 DEF ReadB, buildDiff, DiffTypes, IsRecord
  <2>2. diff.a \in Names /\ diff.b \in Names /\ diff.a # diff.b /\ A \subseteq h /\ h \intersect B \subseteq A
    BY <2>1 DEF ReadInv
  <2>3. /\ \A r \in h, q \in B : r.hash = q.hash => r = q
        /\ \A r, q \in h : r.id = q.id => r = q
        /\ \A r, q \in B : r.id = q.id => r = q
        /\ \A r \in h : r.id \in 1..seqs[diff.a]
        /\ \A r \in B : r.id \in 1..seqs[diff.b]
    BY <2>2 DEF HashInv, Held
  <2>4. /\ \A r \in h \intersect B, q \in h : q.id < r.id => q \in B
        /\ \A r \in h \intersect B, q \in B : q.id < r.id => q \in h
    BY <2>1, <2>2 DEF PrefixInv, Held
  <2>5. A \in SUBSET Entries /\ B \in SUBSET Entries /\ seqs[diff.a] \in Nat /\ seqs[diff.b] \in Nat /\ IsRecord(diff)
    BY <2>2 DEF DiffTypes
  <2> HIDE DEF A, B, h
  <2>6. Numbered(A) /\ Numbered(B)
    BY <2>2, <2>3, <2>5 DEF Numbered
  <2>7. /\ \A r \in A, q \in B : r.hash = q.hash => r = q
        /\ \A r \in A \intersect B, q \in A : q.id < r.id => q \in B
        /\ \A r \in A \intersect B, q \in B : q.id < r.id => q \in A
    BY <2>2, <2>3, <2>4
  <2>8. Splits(buildDiff(A, B), A, B)
    BY <2>5, <2>6, <2>7, BuildSplits
  <2> QED BY <2>1, <2>8
<1> QED BY <1>1, <1>2, <1>3, <1>4, <1>5, DiffCases DEF diffVars, DrawSummary, EndRow

\* The common part of a diff is what the two branches share, the entries after it are
\* of one branch each, and an object is changed on both sides exactly if both have an
\* entry of their own that changed it: for any number of branches and rows, unless one
\* of the two was reset since or a clone straddled commits out of order.
THEOREM DiffSplitsWhereBranchesFork == DiffSpec => []DiffSplitsAtFork
<1> DEFINE Inv == DiffTypes /\ HashInv /\ PrefixInv /\ ReadInv /\ ResultInv
<1>1. DiffInit => Inv
  <2> SUFFICES ASSUME DiffInit PROVE Inv
    OBVIOUS
  <2>1. hist = [n \in Names |-> {}] /\ open = [n \in Names |-> {}] /\ seqs = [n \in Names |-> 0] /\ written = 0
        /\ diff = NoResult /\ straddled = FALSE
    BY DEF DiffInit
  <2>2. IsRecord(NoResult) /\ NoResult.pc = "idle" /\ NoResult.moved = FALSE
    BY DEF NoResult, IsRecord
  <2>3. DiffTypes
    BY <2>1, <2>2 DEF DiffTypes
  <2>4. HashInv /\ PrefixInv
    BY <2>1 DEF HashInv, PrefixInv, Held
  <2> QED BY <2>1, <2>2, <2>3, <2>4 DEF ReadInv, ResultInv
<1>2. Inv /\ [DiffNext]_diffVars => Inv'
  BY DiffTypesKept, HashKept, PrefixKept, ReadKept, ResultKept
<1>3. Inv => DiffSplitsAtFork
  <2> SUFFICES ASSUME Inv, diff.pc = "done", ~ diff.moved, ~ straddled
               PROVE  LET shared == diff.rowsA \intersect diff.rowsB IN
                      /\ Range(diff.common) = shared
                      /\ diff.onlyA = diff.rowsA \ shared /\ diff.onlyA \intersect hist[diff.b] = {}
                      /\ diff.onlyB = diff.rowsB \ shared /\ diff.onlyB \intersect hist[diff.a] = {}
                      /\ diff.both = {o \in Objects : /\ \E r \in diff.rowsA \ shared : r.object = o
                                                      /\ \E r \in diff.rowsB \ shared : r.object = o}
    BY DEF DiffSplitsAtFork
  <2>1. diff.moved = FALSE /\ straddled = FALSE
    BY DEF DiffTypes
  <2>2. /\ diff.rowsA \subseteq hist[diff.a] /\ diff.rowsB \subseteq hist[diff.b]
        /\ hist[diff.a] \intersect hist[diff.b] \subseteq diff.rowsA
        /\ hist[diff.a] \intersect hist[diff.b] \subseteq diff.rowsB
    BY <2>1 DEF ReadInv
  <2>3. Splits(diff, diff.rowsA, diff.rowsB)
    BY <2>1 DEF ResultInv
  <2> DEFINE shared == diff.rowsA \intersect diff.rowsB
  <2>4. diff.rowsA \ shared = diff.rowsA \ diff.rowsB /\ diff.rowsB \ shared = diff.rowsB \ diff.rowsA
    OBVIOUS
  <2>5. diff.onlyA \intersect hist[diff.b] = {} /\ diff.onlyB \intersect hist[diff.a] = {}
    BY <2>2, <2>3 DEF Splits
  <2> QED BY <2>3, <2>4, <2>5 DEF Splits
<1> QED BY <1>1, <1>2, <1>3, PTL DEF DiffSpec
=============================================================================
