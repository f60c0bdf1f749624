----------------------------- MODULE LedgerDiff -----------------------------
(***************************************************************************)
(* `odb blackbox diff` (diff.go): the Blackbox histories of two branches,  *)
(* read one after the other while clients go on and branches are made and  *)
(* reset, are split where they stop being identical.                       *)
(*                                                                         *)
(* A row has the id that its branch's sequence gave it and a hash of what  *)
(* it says, time included: a number that no other row has.  Ids are drawn  *)
(* before rows commit, so a clone may have a row and lack an older one that*)
(* was still uncommitted.                                                  *)
(***************************************************************************)
EXTENDS Naturals, Sequences, Functions, RowOrder

CONSTANTS Names,      \* branches
          Root,       \* main
          Objects,    \* what entries are about
          Nothing,    \* a BLOCKED entry changed no object
          NoDiff,
          MaxRows     \* bound: rows ever written

ASSUME NamesAssumption == Root \in Names /\ Nothing \notin Objects /\ MaxRows \in Nat

VARIABLES hist,       \* committed rows of each branch
          open,       \* rows that are not committed yet
          seqs,       \* last id of each branch's sequence
          written,    \* rows ever written
          diff,       \* the diff that runs, or its result
          straddled   \* history: a branch was cloned between two commits out of order

diffVars == <<hist, open, seqs, written, diff, straddled>>

NoResult == [pc |-> "idle", a |-> NoDiff, b |-> NoDiff, rowsA |-> {}, rowsB |-> {}, common |-> <<>>,
             onlyA |-> {}, onlyB |-> {}, both |-> {}, moved |-> FALSE]

DiffInit ==
  /\ hist = [n \in Names |-> {}] /\ open = [n \in Names |-> {}]
  /\ seqs = [n \in Names |-> 0] /\ written = 0
  /\ diff = NoResult /\ straddled = FALSE

\* External: a client's statement draws an id, and its row is committed or not.
DrawId(n, object) ==
  /\ written < MaxRows
  /\ written' = written + 1
  /\ seqs' = [seqs EXCEPT ![n] = @ + 1]
  /\ open' = [open EXCEPT ![n] = @ \union {[id |-> seqs[n] + 1, hash |-> written + 1, object |-> object]}]
  /\ UNCHANGED <<hist, diff, straddled>>

EndRow(n, row) ==
  /\ row \in open[n]
  /\ open' = [open EXCEPT ![n] = @ \ {row}]
  /\ hist' \in {hist, [hist EXCEPT ![n] = @ \union {row}]}
  /\ UNCHANGED <<seqs, written, diff, straddled>>

\* Create or Reset: a copy-on-write clone of what is committed, sequence included.
Clone(n, from) ==
  /\ n # Root /\ n # from
  /\ hist' = [hist EXCEPT ![n] = hist[from]]
  /\ open' = [open EXCEPT ![n] = {}]
  /\ seqs' = [seqs EXCEPT ![n] = seqs[from]]
  /\ straddled' = (straddled \/ \E r \in open[from], q \in hist[from] : r.id < q.id)
  /\ diff' = [diff EXCEPT !.moved = @ \/ n \in {diff.a, diff.b}]
  /\ UNCHANGED written

\* loadLedgerRows of the first branch, then of the second.
ReadA(a, b) ==
  /\ diff.pc = "idle"
  /\ diff' = [NoResult EXCEPT !.pc = "read", !.a = a, !.b = b, !.rowsA = hist[a]]
  /\ UNCHANGED <<hist, open, seqs, written, straddled>>

\* Mutant of SamePrefix: entries are the same if their ids are.
SamePrefixIds(a, b) ==
  LET same(n) == n <= Len(a) /\ n <= Len(b) /\ \A i \in 1..n : a[i].id = b[i].id
  IN CHOOSE n \in 0..Len(a) : same(n) /\ ~ same(n + 1)

\* The first n entries of both that have the same id and hash.
SamePrefix(a, b) ==
  LET same(n) == n <= Len(a) /\ n <= Len(b) /\ \A i \in 1..n : a[i].id = b[i].id /\ a[i].hash = b[i].hash
  IN CHOOSE n \in 0..Len(a) : same(n) /\ ~ same(n + 1)

touched(rows) == {rows[i].object : i \in DOMAIN rows} \ {Nothing}

\* buildDiff.
buildDiff(rowsA, rowsB) ==
  LET a == ById(rowsA)
      b == ById(rowsB)
      n == SamePrefix(a, b)
      afterA == SubSeq(a, n + 1, Len(a))
      afterB == SubSeq(b, n + 1, Len(b))
  IN [diff EXCEPT !.pc = "done", !.rowsB = rowsB, !.common = SubSeq(a, 1, n), !.onlyA = Range(afterA),
                  !.onlyB = Range(afterB), !.both = touched(afterA) \intersect touched(afterB)]

ReadB ==
  /\ diff.pc = "read"
  /\ diff' = buildDiff(diff.rowsA, hist[diff.b])
  /\ UNCHANGED <<hist, open, seqs, written, straddled>>

DiffNext ==
  \/ \E n \in Names, o \in Objects \union {Nothing} : DrawId(n, o)
  \/ \E n \in Names : \E row \in open[n] : EndRow(n, row)
  \/ \E n, from \in Names : Clone(n, from)
  \/ \E a, b \in Names : a # b /\ ReadA(a, b)
  \/ ReadB

DiffSpec == DiffInit /\ [][DiffNext]_diffVars
-----------------------------------------------------------------------------
\* "Everything after it happened on one side only" (diff.go): the common part of a
\* diff is what the two branches share, the entries after it are of one branch each,
\* and an object is changed on both sides exactly if both have an entry of their own
\* that changed it.  Ids alone would not tell, as a clone draws the same ones.  Exempt
\* are a branch that is reset between the two reads, and a branch that was cloned while
\* an entry older than the newest was uncommitted.
DiffSplitsAtFork ==
  diff.pc = "done" /\ ~ diff.moved /\ ~ straddled =>
    LET shared == diff.rowsA \intersect diff.rowsB IN
    /\ Range(diff.common) = shared
    /\ diff.onlyA = diff.rowsA \ shared /\ diff.onlyA \intersect hist[diff.b] = {}
    /\ diff.onlyB = diff.rowsB \ shared /\ diff.onlyB \intersect hist[diff.a] = {}
    /\ diff.both = {o \in Objects : /\ \E r \in diff.rowsA \ shared : r.object = o
                                    /\ \E r \in diff.rowsB \ shared : r.object = o}
=============================================================================
