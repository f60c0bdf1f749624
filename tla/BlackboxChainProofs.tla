------------------------ MODULE BlackboxChainProofs ------------------------
(***************************************************************************)
(* Proofs about BlackboxChain, for every set of sessions and tables, every *)
(* bound on ids and every mix of isolation levels.                         *)
(***************************************************************************)
EXTENDS BlackboxChain, WellFoundedInduction, TLAPS

(***************************************************************************)
(* The inductive invariant.  Only the lock holder has uncommitted rows; a  *)
(* session's ids grow; and an uncommitted row links into the committed     *)
(* rows or back to an earlier row of its own transaction.                  *)
(***************************************************************************)
HeldByAppender == \A s \in Sessions : pend[s] # {} => lock = s

IdsAscend == \A s \in Sessions :
  /\ pc[s] \in {"chain", "dblink"} => nid[s] \in 1..seq
  /\ pc[s] = "chain" => \A r \in pend[s] : r.id < nid[s]

LinksInside == \A s \in Sessions : \A r \in pend[s] :
  \/ r.prev = Chain!Genesis
  \/ r.prev \in rows
  \/ r.prev \in pend[s] /\ r.prev.id < r.id

ChainInv == /\ TypeOK
            /\ HeldByAppender
            /\ IdsAscend
            /\ LinksInside
            /\ LinksCommitted
            /\ NoSelfDeadlock

(***************************************************************************)
(* With read committed clients more is invariant: ids are unique and a row *)
(* whose id falls between a row and the row it links to was linked later,  *)
(* when that row was already visible, so it links at or above it.          *)
(***************************************************************************)
Linked == rows \union Uncommitted

Drawing(s) == pc[s] \in {"chain", "dblink"}

UniqueIds ==
  /\ \A r, x \in Linked : r.id = x.id => r = x
  /\ \A s \in Sessions : Drawing(s) => \A r \in Linked : r.id # nid[s]
  /\ \A s, o \in Sessions : Drawing(s) /\ Drawing(o) /\ nid[s] = nid[o] => s = o

SkippedLinkLater == \A r, x \in Linked :
  r.prev.id < x.id /\ x.id < r.id => r.id <= x.prev.id

OrderInv == /\ ChainInv
            /\ \A s \in Sessions : iso[s] = "rc"
            /\ UniqueIds
            /\ SkippedLinkLater

-----------------------------------------------------------------------------
\* A set of rows with bounded ids has a row with the greatest id, and that
\* is the row chain_row's ORDER BY id DESC LIMIT 1 finds.
LEMMA LastIsGreatest ==
  ASSUME NEW S, NEW n \in Nat, \A r \in S : r.id \in 1..n
  PROVE  \/ S = {} /\ Chain!Last(S) = Chain!Genesis
         \/ Chain!Last(S) \in S /\ \A x \in S : x.id <= Chain!Last(S).id
<1>1. CASE S = {}
  BY <1>1 DEF Chain!Last
<1>2. CASE S # {}
  <2> DEFINE D == {m \in Nat : \E r \in S : m = n - r.id}
  <2>1. D # {}
    <3>1. PICK r \in S : TRUE
      BY <1>2
    <3>2. n - r.id \in Nat
      OBVIOUS
    <3> QED BY <3>2
  <2>2. PICK m \in D : \A k \in D : m <= k
    <3>1. D \subseteq Nat
      OBVIOUS
    <3> HIDE DEF D
    <3> DEFINE R == OpToRel(<, Nat)
    <3>2. IsWellFoundedOn(R, Nat)
      BY NatLessThanWellFounded
    <3>3. \A x, y \in Nat : x < y => <<x, y>> \in R
      BY DEF OpToRel
    <3> HIDE DEF R
    <3>4. PICK m \in D : \A k \in D : ~ (<<k, m>> \in R)
      BY <2>1, <3>1, <3>2, WFMin
    <3>5. \A k \in D : m <= k
      <4> TAKE k \in D
      <4>1. m \in Nat /\ k \in Nat
        BY <3>1
      <4>2. ~ (k < m)
        BY <3>3, <3>4, <4>1
      <4> QED BY <4>1, <4>2
    <3> QED BY <3>5
  <2>3. PICK r \in S : m = n - r.id
    OBVIOUS
  <2>4. \A x \in S : x.id <= r.id
    <3> TAKE x \in S
    <3>1. n - x.id \in D
      OBVIOUS
    <3> QED BY <2>2, <2>3, <3>1
  <2> QED BY <1>2, <2>4 DEF Chain!Last
<1> QED BY <1>1, <1>2

-----------------------------------------------------------------------------
\* Ending a transaction, or undoing a part of it, keeps the invariant as long
\* as whatever the step publishes is itself well linked.
LEMMA AbortPreserves ==
  ASSUME ChainInv, NEW s \in Sessions, Abort(s), seq' = seq,
         rows \subseteq rows', \A r \in rows' : r.id \in 1..seq,
         LinksCommitted', evals' \subseteq 0..MaxId
  PROVE  ChainInv'
<1> USE SessionsAssumption, MaxIdAssumption DEF ChainInv, TypeOK, PCs
<1>1. CASE EndTx(s)
  <2> USE <1>1 DEF EndTx
  <2>1. TypeOK'
    <3>1. lock' \in Sessions \union {None} /\ tlock' \in [Tables -> Sessions \union {None}]
      OBVIOUS
    <3>2. pc' \in [Sessions -> PCs] /\ nid' \in [Sessions -> 0..MaxId]
      OBVIOUS
    <3>3. want' \in [Sessions -> Tables \union {None}] /\ gate' \in [Sessions -> {"guard", "policy"}]
      OBVIOUS
    <3>4. iso' \in [Sessions -> {"rc", "rr"}] /\ snap' \in [Sessions -> SUBSET rows']
      OBVIOUS
    <3>5. pend' = [o \in Sessions |-> pend'[o]]
      OBVIOUS
    <3>6. \A o \in Sessions : \A r \in pend'[o] : r.id \in 1..seq'
      OBVIOUS
    <3> QED BY <3>1, <3>2, <3>3, <3>4, <3>5, <3>6
  <2>2. HeldByAppender'
    BY DEF HeldByAppender
  <2>3. IdsAscend'
    BY DEF IdsAscend
  <2>4. LinksInside'
    BY DEF LinksInside
  <2>5. NoSelfDeadlock'
    BY DEF NoSelfDeadlock
  <2> QED BY <2>1, <2>2, <2>3, <2>4, <2>5
<1>2. CASE \E k \in 1..(MaxId + 1) : BackTo(s, k)
  <2> PICK k \in 1..(MaxId + 1) : BackTo(s, k)
    BY <1>2
  <2> USE DEF BackTo
  <2>1. TypeOK'
    <3>1. lock' \in Sessions \union {None} /\ tlock' \in [Tables -> Sessions \union {None}]
      OBVIOUS
    <3>2. pc' \in [Sessions -> PCs] /\ nid' \in [Sessions -> 0..MaxId]
      OBVIOUS
    <3>3. want' \in [Sessions -> Tables \union {None}] /\ gate' \in [Sessions -> {"guard", "policy"}]
      OBVIOUS
    <3>4. iso' \in [Sessions -> {"rc", "rr"}] /\ snap' \in [Sessions -> SUBSET rows']
      OBVIOUS
    <3>5. pend' = [o \in Sessions |-> pend'[o]]
      OBVIOUS
    <3>6. \A o \in Sessions : \A r \in pend'[o] : r.id \in 1..seq'
      OBVIOUS
    <3> QED BY <3>1, <3>2, <3>3, <3>4, <3>5, <3>6
  <2>2. HeldByAppender'
    BY DEF HeldByAppender
  <2>3. IdsAscend'
    BY DEF IdsAscend
  <2>4. LinksInside'
    BY DEF LinksInside
  <2>5. NoSelfDeadlock'
    BY DEF NoSelfDeadlock
  <2> QED BY <2>1, <2>2, <2>3, <2>4, <2>5
<1> QED BY <1>1, <1>2 DEF Abort

-----------------------------------------------------------------------------
\* The invariant is inductive: one step per action of the specification.
LEMMA ChainInvInductive == ChainInv /\ [Next]_vars => ChainInv'
<1> SUFFICES ASSUME ChainInv, [Next]_vars PROVE ChainInv'
  OBVIOUS
<1> USE SessionsAssumption, MaxIdAssumption, IsolationsAssumption DEF ChainInv, TypeOK, PCs
<1>1. CASE Crash
  <2>1. \E n \in Chain!Last(rows).id .. MaxId : seq' = n
    BY <1>1 DEF Crash
  <2>2. /\ Chain!Last(rows).id \in Nat
        /\ \A r \in rows : r.id <= Chain!Last(rows).id
    BY LastIsGreatest DEF Chain!Genesis
  <2>3. TypeOK'
    BY <1>1, <2>1, <2>2 DEF Crash
  <2>4. HeldByAppender' /\ IdsAscend' /\ LinksInside' /\ NoSelfDeadlock' /\ LinksCommitted'
    BY <1>1 DEF Crash, HeldByAppender, IdsAscend, LinksInside, NoSelfDeadlock, LinksCommitted
  <2> QED BY <2>3, <2>4
<1>2. ASSUME NEW s \in Sessions, NEW i \in Isolations, Begin(s, i) PROVE ChainInv'
  <2>1. TypeOK'
    BY <1>2 DEF Begin
  <2>2. HeldByAppender' /\ IdsAscend' /\ LinksInside' /\ NoSelfDeadlock' /\ LinksCommitted'
    BY <1>2 DEF Begin, HeldByAppender, IdsAscend, LinksInside, NoSelfDeadlock, LinksCommitted
  <2> QED BY <2>1, <2>2
<1>3. ASSUME NEW s \in Sessions, Commit(s) PROVE ChainInv'
  <2>1. /\ rows' = rows \union pend[s]
        /\ Abort(s) /\ seq' = seq /\ evals' = evals
    BY <1>3 DEF Commit, Abort
  <2>2. LinksCommitted'
    BY <2>1 DEF LinksCommitted, LinksInside
  <2> QED BY <2>1, <2>2, AbortPreserves
<1>4. ASSUME NEW s \in Sessions, Abort(s), UNCHANGED <<seq, rows>>, evals' \subseteq 0..MaxId
      PROVE  ChainInv'
  <2>1. LinksCommitted'
    BY <1>4 DEF LinksCommitted
  <2> QED BY <1>4, <2>1, AbortPreserves
<1>5. ASSUME NEW s \in Sessions, Rollback(s) PROVE ChainInv'
  BY <1>4, <1>5 DEF Rollback
<1>6. ASSUME NEW s \in Sessions, NEW t \in Tables, Touch(s, t) PROVE ChainInv'
  <2>1. TypeOK'
    BY <1>6 DEF Touch
  <2>2. HeldByAppender' /\ IdsAscend' /\ LinksInside' /\ NoSelfDeadlock' /\ LinksCommitted'
    BY <1>6 DEF Touch, HeldByAppender, IdsAscend, LinksInside, NoSelfDeadlock, LinksCommitted
  <2> QED BY <2>1, <2>2
<1>7. ASSUME NEW s \in Sessions, NEW t \in Tables, Alter(s, t) PROVE ChainInv'
  <2>1. TypeOK'
    BY <1>7 DEF Alter
  <2>2. HeldByAppender' /\ IdsAscend' /\ LinksInside' /\ NoSelfDeadlock' /\ LinksCommitted'
    BY <1>7 DEF Alter, HeldByAppender, IdsAscend, LinksInside, NoSelfDeadlock, LinksCommitted
  <2> QED BY <2>1, <2>2
<1>8. ASSUME NEW s \in Sessions, Create(s) PROVE ChainInv'
  <2>1. TypeOK'
    BY <1>8 DEF Create, StartInsert
  <2>2. HeldByAppender' /\ IdsAscend' /\ LinksInside' /\ NoSelfDeadlock' /\ LinksCommitted'
    BY <1>8 DEF Create, StartInsert, HeldByAppender, IdsAscend, LinksInside, NoSelfDeadlock, LinksCommitted
  <2> QED BY <2>1, <2>2
<1>9. ASSUME NEW s \in Sessions, TableGranted(s) PROVE ChainInv'
  <2>1. TypeOK'
    <3>1. seq' \in 0..MaxId /\ seq' = seq + 1
      BY <1>9 DEF TableGranted, StartInsert
    <3>2. tlock' \in [Tables -> Sessions \union {None}] /\ want' \in [Sessions -> Tables \union {None}]
      BY <1>9 DEF TableGranted
    <3>3. pc' \in [Sessions -> PCs] /\ nid' \in [Sessions -> 0..MaxId]
      BY <1>9, <3>1 DEF TableGranted, StartInsert
    <3>4. UNCHANGED <<rows, evals, lock, gate, iso, snap, pend>>
      BY <1>9 DEF TableGranted
    <3> QED BY <3>1, <3>2, <3>3, <3>4
  <2>2. HeldByAppender' /\ IdsAscend' /\ LinksInside' /\ NoSelfDeadlock' /\ LinksCommitted'
    BY <1>9 DEF TableGranted, StartInsert, HeldByAppender, IdsAscend, LinksInside, NoSelfDeadlock, LinksCommitted
  <2> QED BY <2>1, <2>2
<1>10. ASSUME NEW s \in Sessions, SequenceExhausted(s) PROVE ChainInv'
  BY <1>4, <1>10 DEF SequenceExhausted
<1>11. ASSUME NEW s \in Sessions, ChainRow(s) PROVE ChainInv'
  <2> DEFINE p == Chain!Last(Visible(s))
             row == Chain!Row(nid[s], "APPLIED", p)
  <2>1. p = Chain!Genesis \/ p \in pend[s] \/ p \in rows
    <3>1. \A r \in Visible(s) : r.id \in 1..seq /\ (r \in pend[s] \/ r \in rows)
      BY DEF Visible
    <3> QED BY <3>1, LastIsGreatest
  <2>2. row.id = nid[s] /\ row.prev = p
    BY DEF Chain!Row
  <2>3. pend' = [pend EXCEPT ![s] = @ \union {row}] /\ nid[s] \in 1..seq
    BY <1>11 DEF ChainRow, IdsAscend
  <2> HIDE DEF p, row
  <2>4. TypeOK'
    <3>1. lock' \in Sessions \union {None} /\ pc' \in [Sessions -> PCs] /\ nid' \in [Sessions -> 0..MaxId]
      BY <1>11 DEF ChainRow
    <3>2. /\ pend' = [o \in Sessions |-> pend'[o]]
          /\ \A o \in Sessions : \A r \in pend'[o] : r.id \in 1..seq
      BY <2>2, <2>3
    <3>3. UNCHANGED <<seq, rows, evals, tlock, want, gate, iso, snap>>
      BY <1>11 DEF ChainRow
    <3> QED BY <3>1, <3>2, <3>3
  <2>5. HeldByAppender' /\ NoSelfDeadlock' /\ LinksCommitted'
    BY <1>11, <2>3 DEF ChainRow, HeldByAppender, NoSelfDeadlock, LinksCommitted
  <2>6. IdsAscend'
    BY <1>11, <2>2, <2>3 DEF ChainRow, IdsAscend
  <2>7. LinksInside'
    BY <1>11, <2>1, <2>2, <2>3 DEF ChainRow, LinksInside, IdsAscend
  <2> QED BY <2>4, <2>5, <2>6, <2>7
<1>12. ASSUME NEW s \in Sessions, NEW g \in {"guard", "policy"}, RefuseUnrecorded(s, g)
       PROVE  ChainInv'
  <2>1. CASE Abort(s)
    BY <1>4, <1>12, <2>1 DEF RefuseUnrecorded
  <2>2. CASE ~ Abort(s)
    <3>1. TypeOK'
      BY <1>12, <2>2 DEF RefuseUnrecorded
    <3>2. HeldByAppender' /\ IdsAscend' /\ LinksInside' /\ NoSelfDeadlock' /\ LinksCommitted'
      BY <1>12, <2>2 DEF RefuseUnrecorded, HeldByAppender, IdsAscend, LinksInside, NoSelfDeadlock, LinksCommitted
    <3> QED BY <3>1, <3>2
  <2> QED BY <2>1, <2>2
<1>13. ASSUME NEW s \in Sessions, NEW g \in {"guard", "policy"}, RefuseRecorded(s, g)
       PROVE  ChainInv'
  <2>1. TypeOK'
    BY <1>13 DEF RefuseRecorded
  <2>2. HeldByAppender' /\ IdsAscend' /\ LinksInside' /\ NoSelfDeadlock' /\ LinksCommitted'
    BY <1>13 DEF RefuseRecorded, HoldsChainLock, HeldByAppender, IdsAscend, LinksInside, NoSelfDeadlock, LinksCommitted
  <2> QED BY <2>1, <2>2
<1>14. ASSUME NEW s \in Sessions, DblinkRecord(s) PROVE ChainInv'
  <2> DEFINE row == Chain!Row(nid[s], "BLOCKED", Chain!Last(rows))
  <2>1. rows' = rows \union {row} /\ seq' = seq /\ evals' = evals
    BY <1>14 DEF DblinkRecord
  <2>2. row.id \in 1..seq
    BY <1>14 DEF DblinkRecord, IdsAscend, Chain!Row
  <2>3. row.prev = Chain!Genesis \/ row.prev \in rows
    BY LastIsGreatest DEF Chain!Row
  <2> HIDE DEF row
  <2>4. LinksCommitted'
    BY <2>1, <2>3 DEF LinksCommitted
  <2>5. CASE Abort(s)
    BY <2>1, <2>2, <2>4, <2>5, AbortPreserves
  <2>6. CASE ~ Abort(s)
    <3>1. TypeOK'
      BY <1>14, <2>1, <2>2, <2>6 DEF DblinkRecord
    <3>2. HeldByAppender' /\ IdsAscend' /\ LinksInside' /\ NoSelfDeadlock'
      BY <1>14, <2>1, <2>6 DEF DblinkRecord, HeldByAppender, IdsAscend, LinksInside, NoSelfDeadlock
    <3> QED BY <2>4, <3>1, <3>2
  <2> QED BY <2>5, <2>6
<1>15. ASSUME NEW s \in Sessions, EvalRecord(s) PROVE ChainInv'
  BY <1>4, <1>15 DEF EvalRecord
<1>16. ASSUME NEW s \in Sessions, DblinkFail(s) PROVE ChainInv'
  BY <1>4, <1>16 DEF DblinkFail
<1>17. ASSUME NEW s \in Sessions, DeadlockAbort(s) PROVE ChainInv'
  BY <1>4, <1>17 DEF DeadlockAbort
<1>18. CASE UNCHANGED vars
  BY <1>18 DEF vars, HeldByAppender, IdsAscend, LinksInside, NoSelfDeadlock, LinksCommitted
<1> QED
  BY <1>1, <1>2, <1>3, <1>5, <1>6, <1>7, <1>8, <1>9, <1>10, <1>11, <1>12, <1>13,
     <1>14, <1>15, <1>16, <1>17, <1>18 DEF Next, SessionStep, Refuse

\* Before the first statement nobody holds the chain lock and there is no row.
LEMMA ChainInvInit == Init => ChainInv
BY SessionsAssumption, MaxIdAssumption
   DEF Init, ChainInv, TypeOK, PCs, HeldByAppender, IdsAscend, LinksInside, LinksCommitted, NoSelfDeadlock

\* Type correctness of the append path.
THEOREM TypeCorrect == Spec => []TypeOK
<1>1. ChainInv => TypeOK
  BY DEF ChainInv
<1> QED BY <1>1, ChainInvInit, ChainInvInductive, PTL DEF Spec

\* Whatever the sessions do, and whenever the server crashes, a committed
\* Blackbox row links to a committed row (or to none).
THEOREM CommittedRowsLinkToCommittedRows == Spec => []LinksCommitted
<1>1. ChainInv => LinksCommitted
  BY DEF ChainInv
<1> QED BY <1>1, ChainInvInit, ChainInvInductive, PTL DEF Spec

\* The second connection of a refused statement never waits for its own session.
THEOREM NeverWaitsForItself == Spec => []NoSelfDeadlock
<1>1. ChainInv => NoSelfDeadlock
  BY DEF ChainInv
<1> QED BY <1>1, ChainInvInit, ChainInvInductive, PTL DEF Spec
-----------------------------------------------------------------------------
(* The order of ids, for read committed clients. *)

\* Every id in the log is a positive natural and every link a natural.
LEMMA LinkedIds ==
  ASSUME ChainInv
  PROVE  \A r \in Linked : /\ r.id \in Nat \ {0} /\ r.id <= seq
                           /\ r.prev.id \in Nat
<1> USE DEF ChainInv, TypeOK, Linked, Uncommitted
<1>1. \A r \in Linked : r.id \in 1..seq
  OBVIOUS
<1>2. \A r \in Linked : r.prev = Chain!Genesis \/ r.prev \in Linked
  BY DEF LinksCommitted, LinksInside
<1> QED BY <1>1, <1>2 DEF Chain!Genesis

\* Steps that add no row and draw no id.
LEMMA OrderShrinks ==
  ASSUME OrderInv, ChainInv', Linked' \subseteq Linked,
         \A s \in Sessions : Drawing(s)' => Drawing(s) /\ nid'[s] = nid[s],
         \A s \in Sessions : iso'[s] = "rc"
  PROVE  OrderInv'
BY DEF OrderInv, UniqueIds, SkippedLinkLater

\* A session draws the next id of the sequence: it is above every other.
LEMMA OrderDraws ==
  ASSUME OrderInv, ChainInv', NEW s \in Sessions, Linked' = Linked, iso' = iso,
         nid' = [nid EXCEPT ![s] = seq + 1],
         \A o \in Sessions \ {s} : Drawing(o)' = Drawing(o)
  PROVE  OrderInv'
<1>1. \A r \in Linked : r.id \in Nat /\ r.id <= seq
  BY LinkedIds DEF OrderInv
<1>2. \A o \in Sessions : Drawing(o) => nid[o] \in 1..seq
  BY DEF OrderInv, ChainInv, IdsAscend, Drawing
<1>3. seq \in Nat /\ nid \in [Sessions -> 0..MaxId]
  BY MaxIdAssumption DEF OrderInv, ChainInv, TypeOK
<1>4. UniqueIds'
  BY <1>1, <1>2, <1>3 DEF OrderInv, UniqueIds
<1>5. SkippedLinkLater'
  BY DEF OrderInv, SkippedLinkLater
<1> QED BY <1>4, <1>5 DEF OrderInv

\* A session links its row to the greatest id of the whole log.
LEMMA OrderLinks ==
  ASSUME OrderInv, ChainInv', NEW s \in Sessions, Drawing(s),
         NEW row, row.id = nid[s], row.prev = Chain!Last(Linked),
         Linked' \subseteq Linked \union {row},
         \A o \in Sessions : Drawing(o)' => o # s /\ Drawing(o) /\ nid'[o] = nid[o],
         \A o \in Sessions : iso'[o] = "rc"
  PROVE  OrderInv'
<1>1. \A r \in Linked : r.id \in Nat \ {0} /\ r.id <= seq /\ r.prev.id \in Nat
  BY LinkedIds DEF OrderInv
<1>2. seq \in Nat /\ nid[s] \in 1..seq
  BY MaxIdAssumption DEF OrderInv, ChainInv, TypeOK, IdsAscend, Drawing
<1>3. row.prev.id \in Nat /\ \A x \in Linked : x.id <= row.prev.id
  <2>1. \A r \in Linked : r.id \in 1..seq
    BY <1>1, <1>2
  <2> QED BY <1>1, <1>2, <2>1, LastIsGreatest DEF Chain!Genesis
<1>4. UniqueIds'
  BY DEF OrderInv, UniqueIds
<1>5. SkippedLinkLater'
  <2> SUFFICES ASSUME NEW r \in Linked', NEW x \in Linked',
                      r.prev.id < x.id, x.id < r.id
               PROVE  r.id <= x.prev.id
    BY DEF SkippedLinkLater
  <2>1. CASE r \in Linked /\ x \in Linked
    BY <2>1 DEF OrderInv, SkippedLinkLater
  <2>2. CASE r \in Linked /\ x = row
    BY <1>3, <2>2
  <2>3. CASE r = row /\ x \in Linked
    BY <1>1, <1>3, <2>3
  <2>4. CASE r = row /\ x = row
    BY <1>2, <2>4
  <2> QED BY <2>1, <2>2, <2>3, <2>4
<1> QED BY <1>4, <1>5 DEF OrderInv

\* No step of read committed clients disturbs the order of ids and links, as chain_row
\* reads the tail that is committed when it has the lock.
LEMMA OrderInvInductive ==
  ASSUME Isolations \subseteq {"rc"}
  PROVE  OrderInv /\ [Next]_vars => OrderInv'
<1> SUFFICES ASSUME OrderInv, [Next]_vars PROVE OrderInv'
  OBVIOUS
<1> USE SessionsAssumption, MaxIdAssumption
<1>0. ChainInv' /\ ChainInv /\ TypeOK /\ \A s \in Sessions : iso[s] = "rc"
  BY ChainInvInductive DEF OrderInv, ChainInv
<1>1. CASE Crash
  <2>1. Linked' \subseteq Linked
    BY <1>1 DEF Crash, Linked, Uncommitted
  <2>2. \A s \in Sessions : ~ Drawing(s)' /\ iso'[s] = "rc"
    BY <1>1 DEF Crash, Drawing
  <2> QED BY <1>0, <2>1, <2>2, OrderShrinks
<1>2. ASSUME NEW s \in Sessions, NEW i \in Isolations, Begin(s, i) PROVE OrderInv'
  <2>1. Linked' = Linked
    BY <1>2 DEF Begin, Linked, Uncommitted
  <2>2. \A o \in Sessions : (Drawing(o)' => Drawing(o)) /\ nid'[o] = nid[o] /\ iso'[o] = "rc"
    BY <1>0, <1>2 DEF Begin, Drawing, TypeOK
  <2> QED BY <1>0, <2>1, <2>2, OrderShrinks
<1>3. ASSUME NEW s \in Sessions, Abort(s)
      PROVE  /\ UNION {pend'[o] : o \in Sessions} \subseteq Uncommitted
             /\ \A o \in Sessions : /\ Drawing(o)' => o # s /\ Drawing(o) /\ nid'[o] = nid[o]
                                    /\ iso'[o] = "rc"
  <2>1. \A o \in Sessions : pend'[o] \subseteq pend[o]
    BY <1>0, <1>3 DEF Abort, EndTx, BackTo, TypeOK
  <2>2. \A o \in Sessions : iso'[o] = "rc"
    BY <1>0, <1>3 DEF Abort, EndTx, BackTo, TypeOK
  <2>3. \A o \in Sessions : Drawing(o)' => o # s /\ Drawing(o) /\ nid'[o] = nid[o]
    BY <1>0, <1>3 DEF Abort, EndTx, BackTo, TypeOK, Drawing
  <2> QED BY <2>1, <2>2, <2>3 DEF Uncommitted
<1>4. ASSUME NEW s \in Sessions, Abort(s), rows' = rows PROVE OrderInv'
  <2>1. Linked' \subseteq Linked
    BY <1>3, <1>4 DEF Linked, Uncommitted
  <2> QED BY <1>0, <1>3, <1>4, <2>1, OrderShrinks
<1>5. ASSUME NEW s \in Sessions, Commit(s) PROVE OrderInv'
  <2>1. Abort(s) /\ rows' = rows \union pend[s]
    BY <1>5 DEF Commit, Abort
  <2>2. Linked' \subseteq Linked
    BY <1>3, <2>1 DEF Linked, Uncommitted
  <2> QED BY <1>0, <1>3, <2>1, <2>2, OrderShrinks
<1>6. ASSUME NEW s \in Sessions, NEW t \in Tables, Touch(s, t) \/ Alter(s, t) PROVE OrderInv'
  <2>1. Linked' = Linked
    BY <1>6 DEF Touch, Alter, Linked, Uncommitted
  <2>2. \A o \in Sessions : (Drawing(o)' => Drawing(o)) /\ nid'[o] = nid[o] /\ iso'[o] = "rc"
    BY <1>0, <1>6 DEF Touch, Alter, Drawing, TypeOK
  <2> QED BY <1>0, <2>1, <2>2, OrderShrinks
<1>7. ASSUME NEW s \in Sessions,
             \/ Create(s) \/ TableGranted(s)
             \/ \E g \in {"guard", "policy"} : RefuseRecorded(s, g)
      PROVE  OrderInv'
  <2>1. /\ UNCHANGED <<rows, pend, iso>>
        /\ nid' = [nid EXCEPT ![s] = seq + 1]
        /\ pc' = [pc EXCEPT ![s] = "chain"] \/ pc' = [pc EXCEPT ![s] = "dblink"]
    BY <1>7 DEF Create, TableGranted, StartInsert, RefuseRecorded
  <2>2. Linked' = Linked
    BY <2>1 DEF Linked, Uncommitted
  <2>3. \A o \in Sessions \ {s} : Drawing(o)' = Drawing(o)
    BY <1>0, <2>1 DEF Drawing, TypeOK
  <2> QED BY <1>0, <2>1, <2>2, <2>3, OrderDraws
<1>8. ASSUME NEW s \in Sessions, ChainRow(s) PROVE OrderInv'
  <2> DEFINE row == Chain!Row(nid[s], "APPLIED", Chain!Last(Linked))
  <2>1. Visible(s) = Linked
    <3>1. \A o \in Sessions \ {s} : pend[o] = {}
      BY <1>0, <1>8 DEF ChainRow, ChainInv, HeldByAppender
    <3>2. Uncommitted = pend[s]
      BY <3>1 DEF Uncommitted
    <3> QED BY <1>0, <3>2 DEF Visible, Linked
  <2>2. row.id = nid[s] /\ row.prev = Chain!Last(Linked)
    BY DEF Chain!Row
  <2>3. Drawing(s) /\ pend' = [pend EXCEPT ![s] = @ \union {row}] /\ rows' = rows
    BY <1>8, <2>1 DEF ChainRow, Drawing
  <2> HIDE DEF row
  <2>4. Linked' \subseteq Linked \union {row}
    BY <1>0, <2>3 DEF Linked, Uncommitted, TypeOK
  <2>5. \A o \in Sessions : (Drawing(o)' => o # s /\ Drawing(o) /\ nid'[o] = nid[o]) /\ iso'[o] = "rc"
    BY <1>0, <1>8 DEF ChainRow, Drawing, TypeOK
  <2> QED BY <1>0, <2>2, <2>3, <2>4, <2>5, OrderLinks
<1>9. ASSUME NEW s \in Sessions, NEW g \in {"guard", "policy"}, RefuseUnrecorded(s, g)
      PROVE  OrderInv'
  <2>1. CASE Abort(s)
    BY <1>4, <1>9, <2>1 DEF RefuseUnrecorded
  <2>2. CASE ~ Abort(s)
    <3>1. Linked' = Linked
      BY <1>9, <2>2 DEF RefuseUnrecorded, Linked, Uncommitted
    <3>2. \A o \in Sessions : (Drawing(o)' => Drawing(o)) /\ nid'[o] = nid[o] /\ iso'[o] = "rc"
      BY <1>0, <1>9, <2>2 DEF RefuseUnrecorded, Drawing, TypeOK
    <3> QED BY <1>0, <3>1, <3>2, OrderShrinks
  <2> QED BY <2>1, <2>2
<1>10. ASSUME NEW s \in Sessions, DblinkRecord(s) PROVE OrderInv'
  <2> DEFINE row == Chain!Row(nid[s], "BLOCKED", Chain!Last(Linked))
  <2>1. Linked = rows
    <3>1. \A o \in Sessions : pend[o] = {}
      BY <1>0, <1>10 DEF DblinkRecord, ChainInv, HeldByAppender
    <3> QED BY <3>1 DEF Linked, Uncommitted
  <2>2. row.id = nid[s] /\ row.prev = Chain!Last(Linked)
    BY DEF Chain!Row
  <2>3. Drawing(s) /\ rows' = rows \union {row}
    BY <1>10, <2>1 DEF DblinkRecord, Drawing
  <2> HIDE DEF row
  <2>4. CASE Abort(s)
    <3>1. Linked' \subseteq Linked \union {row}
      BY <1>3, <2>3, <2>4 DEF Linked, Uncommitted
    <3> QED BY <1>0, <1>3, <2>2, <2>3, <2>4, <3>1, OrderLinks
  <2>5. CASE ~ Abort(s)
    <3>1. Linked' \subseteq Linked \union {row}
      BY <1>10, <2>3, <2>5 DEF DblinkRecord, Linked, Uncommitted
    <3>2. \A o \in Sessions : (Drawing(o)' => o # s /\ Drawing(o) /\ nid'[o] = nid[o]) /\ iso'[o] = "rc"
      BY <1>0, <1>10, <2>5 DEF DblinkRecord, Drawing, TypeOK
    <3> QED BY <1>0, <2>2, <2>3, <3>1, <3>2, OrderLinks
  <2> QED BY <2>4, <2>5
<1>11. ASSUME NEW s \in Sessions,
              Rollback(s) \/ SequenceExhausted(s) \/ EvalRecord(s) \/ DblinkFail(s) \/ DeadlockAbort(s)
       PROVE  OrderInv'
  <2>1. Abort(s) /\ rows' = rows
    BY <1>11 DEF Rollback, SequenceExhausted, EvalRecord, DblinkFail, DeadlockAbort
  <2> QED BY <1>4, <2>1
<1>12. CASE UNCHANGED vars
  <2>1. Linked' = Linked /\ \A o \in Sessions : Drawing(o)' = Drawing(o) /\ nid'[o] = nid[o] /\ iso'[o] = "rc"
    BY <1>0, <1>12 DEF vars, Linked, Uncommitted, Drawing
  <2> QED BY <1>0, <2>1, OrderShrinks
<1> QED
  BY <1>1, <1>2, <1>5, <1>6, <1>7, <1>8, <1>9, <1>10, <1>11, <1>12
  DEF Next, SessionStep, Refuse

\* If no row links upwards, every row links to its predecessor.
LEMMA OrderedChainIsIntact == OrderInv => IntactUnlessReordered
<1> SUFFICES ASSUME OrderInv, \A r \in rows : r.prev.id < r.id, NEW r \in rows
             PROVE  r.prev = Chain!Pred(r, rows)
  BY DEF IntactUnlessReordered, Chain!Intact
<1> DEFINE low == {x \in rows : x.id < r.id}
<1>1. /\ rows \subseteq Linked
      /\ seq \in Nat /\ \A x \in rows : x.id \in 1..seq
      /\ r.prev = Chain!Genesis \/ r.prev \in rows
  BY MaxIdAssumption DEF OrderInv, ChainInv, TypeOK, LinksCommitted, Linked
<1>2. \A x \in rows : x.id \in Nat \ {0} /\ x.prev.id \in Nat
  BY <1>1, LinkedIds DEF OrderInv
<1>3. \A x \in low : x.id <= r.prev.id
  BY <1>1, <1>2 DEF OrderInv, SkippedLinkLater
<1>4. \/ low = {} /\ Chain!Last(low) = Chain!Genesis
      \/ Chain!Last(low) \in low /\ \A x \in low : x.id <= Chain!Last(low).id
  BY <1>1, LastIsGreatest
<1>5. CASE r.prev = Chain!Genesis
  <2>1. low = {}
    BY <1>2, <1>3, <1>5 DEF Chain!Genesis
  <2> QED BY <1>4, <1>5, <2>1 DEF Chain!Pred
<1>6. CASE r.prev \in rows
  <2>1. r.prev \in low
    BY <1>6
  <2>2. Chain!Last(low) \in low /\ Chain!Last(low).id = r.prev.id
    BY <1>2, <1>3, <1>4, <2>1
  <2>3. Chain!Last(low) = r.prev
    BY <1>1, <1>6, <2>2 DEF OrderInv, UniqueIds
  <2> QED BY <2>3 DEF Chain!Pred
<1> QED BY <1>1, <1>5, <1>6

\* The empty ledger is in order.
LEMMA OrderInvInit == Init => OrderInv
<1>1. Init => Linked = {}
  BY DEF Init, Linked, Uncommitted
<1>2. Init => \A s \in Sessions : ~ Drawing(s) /\ iso[s] = "rc"
  BY DEF Init, Drawing
<1> QED BY <1>1, <1>2, ChainInvInit DEF OrderInv, UniqueIds, SkippedLinkLater

\* With read committed clients, an honest history fails verification only if
\* two appends drew their ids in one order and linked in the other.
THEOREM IntactUnlessReorderedHolds ==
  ASSUME Isolations \subseteq {"rc"}
  PROVE  Spec => []IntactUnlessReordered
<1>1. OrderInv /\ [Next]_vars => OrderInv'
  BY OrderInvInductive
<1> QED BY <1>1, OrderInvInit, OrderedChainIsIntact, PTL DEF Spec
-----------------------------------------------------------------------------
(***************************************************************************)
(* Evaluations.  A session that records an evaluation has no id, or the id *)
(* of the record its second connection has committed.                      *)
(***************************************************************************)
Recorded(i) == \E r \in rows : r.id = i /\ r.status = "BLOCKED"

EvalIds == \A s \in Sessions :
  /\ pc[s] \in {"idle", "open", "table"} => nid[s] = 0
  /\ pc[s] = "eval" => nid[s] = 0 \/ Recorded(nid[s])

EvalInv == ChainInv /\ EvalIds /\ EvalsNameRecords

\* An error ends the evaluation of the session that has it, and no other's.
LEMMA AbortEvals ==
  ASSUME TypeOK, EvalIds, NEW s \in Sessions, Abort(s), rows \subseteq rows'
  PROVE  EvalIds'
<1>1. \A o \in Sessions : \/ o # s /\ pc'[o] = pc[o] /\ nid'[o] = nid[o]
                          \/ pc'[o] \in {"idle", "open"} /\ nid'[o] = 0
  BY DEF Abort, EndTx, BackTo, TypeOK
<1> QED BY <1>1 DEF EvalIds, Recorded

\* The policy gate writes an evaluation only after its second connection has committed
\* the record, and committed rows stay.
LEMMA EvalInvInductive == EvalInv /\ [Next]_vars => EvalInv'
<1> SUFFICES ASSUME EvalInv, [Next]_vars PROVE EvalInv'
  OBVIOUS
<1>0. ChainInv' /\ TypeOK /\ EvalIds /\ EvalsNameRecords
  BY ChainInvInductive DEF EvalInv, ChainInv
<1>1. ASSUME rows \subseteq rows', \A e \in evals' : e \in evals \/ e = 0 \/ Recorded(e)
      PROVE  EvalsNameRecords'
  BY <1>0, <1>1 DEF EvalsNameRecords, Recorded
<1>2. CASE Crash
  BY <1>0, <1>1, <1>2 DEF Crash, EvalInv, EvalIds
<1>3. ASSUME NEW s \in Sessions,
             \/ Commit(s) \/ Rollback(s) \/ SequenceExhausted(s) \/ DblinkFail(s) \/ DeadlockAbort(s)
      PROVE  EvalInv'
  <2>1. Abort(s) /\ rows \subseteq rows' /\ evals' = evals
    BY <1>3 DEF Commit, Rollback, SequenceExhausted, DblinkFail, DeadlockAbort, Abort
  <2> QED BY <1>0, <1>1, <2>1, AbortEvals DEF EvalInv
<1>4. ASSUME NEW s \in Sessions, EvalRecord(s) PROVE EvalInv'
  <2>1. Abort(s) /\ rows' = rows /\ evals' = evals \union {nid[s]}
    BY <1>4 DEF EvalRecord
  <2>2. nid[s] = 0 \/ Recorded(nid[s])
    BY <1>0, <1>4 DEF EvalRecord, EvalIds
  <2> QED BY <1>0, <1>1, <2>1, <2>2, AbortEvals DEF EvalInv
<1>5. ASSUME NEW s \in Sessions, NEW g \in {"guard", "policy"}, RefuseUnrecorded(s, g) PROVE EvalInv'
  <2>1. CASE Abort(s)
    BY <1>0, <1>1, <1>5, <2>1, AbortEvals DEF RefuseUnrecorded, EvalInv
  <2>2. CASE ~ Abort(s)
    BY <1>0, <1>1, <1>5, <2>2 DEF RefuseUnrecorded, EvalInv, EvalIds, Recorded, TypeOK
  <2> QED BY <2>1, <2>2
<1>6. ASSUME NEW s \in Sessions, DblinkRecord(s) PROVE EvalInv'
  <2>1. rows \subseteq rows' /\ evals' = evals
    BY <1>6 DEF DblinkRecord
  <2>2. CASE Abort(s)
    BY <1>0, <1>1, <2>1, <2>2, AbortEvals DEF EvalInv
  <2>3. CASE ~ Abort(s)
    <3> DEFINE row == Chain!Row(nid[s], "BLOCKED", Chain!Last(rows))
    <3>1. row \in rows' /\ row.id = nid[s] /\ row.status = "BLOCKED"
      BY <1>6 DEF DblinkRecord, Chain!Row
    <3> HIDE DEF row
    <3>2. EvalIds'
      BY <1>0, <1>6, <2>1, <2>3, <3>1 DEF DblinkRecord, EvalIds, Recorded, TypeOK
    <3> QED BY <1>0, <1>1, <2>1, <3>2 DEF EvalInv
  <2> QED BY <2>2, <2>3
<1>7. ASSUME NEW s \in Sessions,
             \/ \E i \in Isolations : Begin(s, i)
             \/ \E t \in Tables : Touch(s, t) \/ Alter(s, t)
             \/ Create(s) \/ TableGranted(s) \/ ChainRow(s)
             \/ \E g \in {"guard", "policy"} : RefuseRecorded(s, g)
      PROVE  EvalInv'
  <2>1. /\ rows' = rows /\ evals' = evals
        /\ \A o \in Sessions :
             \/ pc'[o] = pc[o] /\ nid'[o] = nid[o]
             \/ pc[o] \in {"idle", "open"} /\ pc'[o] \in {"open", "table"} /\ nid'[o] = nid[o]
             \/ pc'[o] \in {"chain", "dblink"}
             \/ pc'[o] = "open" /\ nid'[o] = 0
    BY <1>0, <1>7 DEF Begin, Touch, Alter, Create, TableGranted, StartInsert, ChainRow, RefuseRecorded, TypeOK
  <2> QED BY <1>0, <1>1, <2>1 DEF EvalInv, EvalIds, Recorded
<1>8. CASE UNCHANGED vars
  BY <1>0, <1>8 DEF vars, EvalInv, EvalIds, EvalsNameRecords, Recorded
<1> QED BY <1>2, <1>3, <1>4, <1>5, <1>6, <1>7, <1>8 DEF Next, SessionStep, Refuse

\* Whatever fails between the two calls of a refused statement, and whenever
\* the server crashes, an evaluation names a committed BLOCKED row or none.
THEOREM EvaluationsNameRecords == Spec => []EvalsNameRecords
<1>1. Init => EvalInv
  BY ChainInvInit DEF Init, EvalInv, EvalIds, EvalsNameRecords
<1>2. EvalInv => EvalsNameRecords
  BY DEF EvalInv
<1> QED BY <1>1, <1>2, EvalInvInductive, PTL DEF Spec
-----------------------------------------------------------------------------
(***************************************************************************)
(* The refinement.  For read committed clients an uncommitted row links to *)
(* the greatest id among the committed rows and the earlier rows of its    *)
(* own transaction, and stays so until it commits: nobody else commits a   *)
(* row while the lock is held.                                             *)
(***************************************************************************)
LinksToLast == \A s \in Sessions : \A r \in pend[s] :
  /\ r.prev = Chain!Last(rows \union {x \in pend[s] : x.id < r.id})
  /\ r \notin rows

RefInv == OrderInv /\ LinksToLast

\* The ids that LedgerLog counts as handed out and not visible.
InFlight == (UNION {{r.id : r \in pend[s]} : s \in Sessions})
            \union {nid[s] : s \in {x \in Sessions : pc[x] \in {"chain", "dblink"}}}

HeldIds == \A i :
  i \in InFlight <=> \/ \E s \in Sessions : \E r \in pend[s] : r.id = i
                    \/ \E s \in Sessions : Drawing(s) /\ nid[s] = i

\* An id in flight is that of a session's uncommitted row or the one it has drawn.
LEMMA InFlightIds == HeldIds
<1>1. \A i : i \in UNION {{r.id : r \in pend[s]} : s \in Sessions}
             <=> \E s \in Sessions : \E r \in pend[s] : r.id = i
  OBVIOUS
<1>2. \A i : i \in {nid[s] : s \in {x \in Sessions : pc[x] \in {"chain", "dblink"}}}
             <=> \E s \in Sessions : Drawing(s) /\ nid[s] = i
  BY DEF Drawing
<1> QED BY <1>1, <1>2 DEF InFlight, HeldIds

\* LedgerLog's variables under the refinement mapping.
LogStutter == UNCHANGED <<seq, InFlight, rows>>

\* A step that leaves what the sessions hold alone is no step of the log.
LEMMA HoldingsUnchanged ==
  ASSUME seq' = seq, rows' = rows, pend' = pend,
         \A s \in Sessions : Drawing(s)' <=> Drawing(s),
         \A s \in Sessions : Drawing(s) => nid'[s] = nid[s]
  PROVE  LogStutter
<1>1. \A i : i \in InFlight' <=> i \in InFlight
  <2>1. HeldIds /\ HeldIds'
    BY InFlightIds, PTL
  <2> QED BY <2>1 DEF HeldIds
<1> QED BY <1>1 DEF LogStutter

\* What a session holds only shrinks, and nothing is published: LedgerLog's Burn.
LEMMA HoldingsDropped ==
  ASSUME seq' = seq, rows' = rows,
         \A s \in Sessions : pend'[s] \subseteq pend[s],
         \A s \in Sessions : Drawing(s)' => Drawing(s) /\ nid'[s] = nid[s]
  PROVE  Chain!LogNext
<1>1. HeldIds /\ HeldIds'
  BY InFlightIds, PTL
<1>2. InFlight' \subseteq InFlight
  BY <1>1 DEF HeldIds
<1>3. Chain!Burn(InFlight \ InFlight')
  BY <1>2 DEF Chain!Burn, InFlight
<1> QED BY <1>3 DEF Chain!LogNext, InFlight

\* One session draws the next id: LedgerLog's Allocate.
LEMMA IdDrawn ==
  ASSUME seq \in Nat, seq' = seq + 1, rows' = rows, pend' = pend,
         NEW s \in Sessions, ~ Drawing(s), Drawing(s)', nid'[s] = seq + 1,
         \A o \in Sessions \ {s} : (Drawing(o)' <=> Drawing(o)) /\ nid'[o] = nid[o]
  PROVE  Chain!LogNext
<1>1. HeldIds /\ HeldIds'
  BY InFlightIds, PTL
<1>2. \A i : i \in InFlight' <=> i \in InFlight \/ i = seq'
  BY <1>1 DEF HeldIds
<1>3. Chain!Allocate(seq')
  BY <1>2 DEF Chain!Allocate, InFlight
<1> QED BY <1>3 DEF Chain!LogNext

\* Rows become visible and their ids are no longer in flight: LedgerLog's Publish.
LEMMA RowsPublished ==
  ASSUME NEW new, new # {}, rows' = rows \union new, new \cap rows = {}, seq' = seq,
         \A r \in new : r.id \in InFlight,
         \A r \in new : r.prev = Chain!Last(rows \union {x \in new : x.id < r.id}),
         \A i : i \in InFlight' <=> i \in InFlight /\ \A r \in new : r.id # i
  PROVE  Chain!LogNext
<1> DEFINE delta == rows' \ rows
<1>1. delta = new
  OBVIOUS
<1> HIDE DEF delta
<1>2. delta # {} /\ rows' = rows \union delta
  BY <1>1
<1>3. {r.id : r \in delta} \subseteq InFlight
  BY <1>1
<1>4. InFlight' = InFlight \ {r.id : r \in delta}
  BY <1>1
<1>5. \A r \in delta : r.prev = Chain!Last(rows \union {x \in delta : x.id < r.id})
  BY <1>1
<1>6. Chain!Publish(delta)
  BY <1>2, <1>3, <1>4, <1>5 DEF Chain!Publish, Chain!Ids, InFlight
<1> QED BY <1>6 DEF Chain!LogNext, delta

\* The facts that map a state of the ledger to one of the log are kept by every step.
LEMMA RefInvInductive ==
  ASSUME Isolations \subseteq {"rc"}
  PROVE  RefInv /\ [Next]_vars => RefInv'
<1> SUFFICES ASSUME RefInv, [Next]_vars PROVE RefInv'
  OBVIOUS
<1> USE SessionsAssumption, MaxIdAssumption
<1>0. /\ OrderInv /\ OrderInv' /\ ChainInv /\ TypeOK /\ LinksToLast
      /\ \A s \in Sessions : iso[s] = "rc"
  BY OrderInvInductive DEF RefInv, OrderInv, ChainInv
<1>1. ASSUME rows' = rows,
             \A s \in Sessions : \/ pend'[s] = pend[s]
                                 \/ \E k \in Nat : pend'[s] = {r \in pend[s] : r.id < k}
      PROVE  RefInv'
  <2> SUFFICES ASSUME NEW s \in Sessions, NEW r \in pend'[s]
               PROVE  /\ r.prev = Chain!Last(rows \union {x \in pend'[s] : x.id < r.id})
                      /\ r \notin rows
    BY <1>0, <1>1 DEF RefInv, LinksToLast
  <2>1. \A x \in pend[s] : x.id \in Nat
    BY <1>0 DEF TypeOK
  <2>2. {x \in pend'[s] : x.id < r.id} = {x \in pend[s] : x.id < r.id}
    BY <1>1, <2>1
  <2>3. r \in pend[s]
    BY <1>1
  <2> QED BY <1>0, <2>2, <2>3 DEF LinksToLast
<1>2. ASSUME \A s \in Sessions : pend'[s] = {} PROVE RefInv'
  BY <1>0, <1>2 DEF RefInv, LinksToLast
<1>3. ASSUME NEW s \in Sessions, Abort(s), rows' = rows PROVE RefInv'
  <2>1. CASE EndTx(s)
    <3>1. \A o \in Sessions : pend'[o] = IF o = s THEN {} ELSE pend[o]
      BY <1>0, <2>1 DEF EndTx, TypeOK
    <3>2. {r \in pend[s] : r.id < 0} = {}
      BY <1>0 DEF TypeOK
    <3>3. \A o \in Sessions : \/ pend'[o] = pend[o]
                              \/ \E k \in Nat : pend'[o] = {r \in pend[o] : r.id < k}
      BY <3>1, <3>2
    <3> QED BY <1>1, <1>3, <3>3
  <2>2. ASSUME NEW k \in 1..(MaxId + 1), BackTo(s, k) PROVE RefInv'
    <3>1. \A o \in Sessions : pend'[o] = IF o = s THEN {r \in pend[s] : r.id < k} ELSE pend[o]
      BY <1>0, <2>2 DEF BackTo, TypeOK
    <3>2. \A o \in Sessions : \/ pend'[o] = pend[o]
                              \/ \E m \in Nat : pend'[o] = {r \in pend[o] : r.id < m}
      <4> TAKE o \in Sessions
      <4>1. k \in Nat
        OBVIOUS
      <4>2. CASE o = s
        BY <3>1, <4>1, <4>2
      <4> QED BY <3>1, <4>2
    <3> QED BY <1>1, <1>3, <3>2
  <2> QED BY <1>3, <2>1, <2>2 DEF Abort
<1>4. ASSUME NEW s \in Sessions, Commit(s) PROVE RefInv'
  <2>1. \A o \in Sessions : pend'[o] = IF o = s THEN {} ELSE pend[o]
    BY <1>0, <1>4 DEF Commit, EndTx, TypeOK
  <2>2. CASE pend[s] = {}
    BY <1>1, <1>4, <2>1, <2>2 DEF Commit
  <2>3. CASE pend[s] # {}
    BY <1>0, <1>2, <2>1, <2>3 DEF ChainInv, HeldByAppender
  <2> QED BY <2>2, <2>3
<1>5. ASSUME NEW s \in Sessions, ChainRow(s) PROVE RefInv'
  <2> DEFINE row == Chain!Row(nid[s], "APPLIED", Chain!Last(Visible(s)))
  <2>1. /\ row.id = nid[s] /\ row.prev = Chain!Last(Visible(s))
        /\ pend' = [pend EXCEPT ![s] = @ \union {row}] /\ rows' = rows /\ lock \in {None, s}
    BY <1>5 DEF ChainRow, Chain!Row
  <2> HIDE DEF row
  <2>2. \A o \in Sessions \ {s} : pend'[o] = {}
    BY <1>0, <2>1 DEF ChainInv, HeldByAppender, TypeOK
  <2>3. pend'[s] = pend[s] \union {row}
    BY <1>0, <2>1 DEF TypeOK
  <2>4. nid[s] \in Nat /\ \A r \in pend[s] : r.id \in Nat /\ r.id < nid[s]
    BY <1>0, <1>5 DEF ChainRow, ChainInv, IdsAscend, TypeOK
  <2>5. row \notin rows
    BY <1>0, <1>5, <2>1 DEF ChainRow, OrderInv, UniqueIds, Drawing, Linked
  <2>6. \A r \in pend[s] : {x \in pend'[s] : x.id < r.id} = {x \in pend[s] : x.id < r.id}
    BY <2>1, <2>3, <2>4
  <2>7. {x \in pend'[s] : x.id < row.id} = pend[s]
    BY <2>1, <2>3, <2>4
  <2>8. row.prev = Chain!Last(rows \union {x \in pend'[s] : x.id < row.id})
    <3>1. Visible(s) = rows \union {x \in pend'[s] : x.id < row.id}
      BY <1>0, <2>7 DEF Visible
    <3> QED BY <2>1, <3>1
  <2>9. \A r \in pend'[s] : /\ r.prev = Chain!Last(rows' \union {x \in pend'[s] : x.id < r.id})
                            /\ r \notin rows'
    BY <1>0, <2>1, <2>3, <2>5, <2>6, <2>8 DEF LinksToLast
  <2> QED BY <1>0, <2>2, <2>9 DEF RefInv, LinksToLast
<1>6. ASSUME NEW s \in Sessions, DblinkRecord(s) PROVE RefInv'
  <2>1. \A o \in Sessions : pend[o] = {}
    BY <1>0, <1>6 DEF DblinkRecord, ChainInv, HeldByAppender
  <2>2. \A o \in Sessions : pend'[o] = {}
    <3>1. CASE Abort(s)
      BY <1>0, <2>1, <3>1 DEF Abort, EndTx, BackTo, TypeOK
    <3>2. CASE ~ Abort(s)
      BY <1>6, <2>1, <3>2 DEF DblinkRecord
    <3> QED BY <3>1, <3>2
  <2> QED BY <1>2, <2>2
<1>7. CASE Crash
  BY <1>2, <1>7 DEF Crash
<1>8. ASSUME NEW s \in Sessions,
             \/ Rollback(s) \/ SequenceExhausted(s) \/ EvalRecord(s) \/ DblinkFail(s) \/ DeadlockAbort(s)
      PROVE  RefInv'
  <2>1. Abort(s) /\ rows' = rows
    BY <1>8 DEF Rollback, SequenceExhausted, EvalRecord, DblinkFail, DeadlockAbort
  <2> QED BY <1>3, <2>1
<1>9. ASSUME NEW s \in Sessions, NEW g \in {"guard", "policy"}, RefuseUnrecorded(s, g) PROVE RefInv'
  <2>1. CASE Abort(s)
    BY <1>3, <1>9, <2>1 DEF RefuseUnrecorded
  <2>2. CASE ~ Abort(s)
    BY <1>1, <1>9, <2>2 DEF RefuseUnrecorded
  <2> QED BY <2>1, <2>2
<1>10. ASSUME NEW s \in Sessions,
              \/ \E i \in Isolations : Begin(s, i)
              \/ \E t \in Tables : Touch(s, t) \/ Alter(s, t)
              \/ Create(s) \/ TableGranted(s)
              \/ \E g \in {"guard", "policy"} : RefuseRecorded(s, g)
       PROVE  RefInv'
  <2>1. rows' = rows /\ pend' = pend
    BY <1>10 DEF Begin, Touch, Alter, Create, TableGranted, RefuseRecorded
  <2> QED BY <1>1, <2>1
<1>11. CASE UNCHANGED vars
  BY <1>1, <1>11 DEF vars
<1> QED
  BY <1>4, <1>5, <1>6, <1>7, <1>8, <1>9, <1>10, <1>11 DEF Next, SessionStep, Refuse

\* Every step of the sessions is a step of the log or leaves it alone.
LEMMA StepRefines ==
  ASSUME Isolations \subseteq {"rc"}
  PROVE  RefInv /\ [Next]_vars => [Chain!LogNext]_(Chain!logVars)
<1> SUFFICES ASSUME RefInv, [Next]_vars PROVE Chain!LogNext \/ LogStutter
  BY DEF LogStutter, Chain!logVars, InFlight
<1> USE SessionsAssumption, MaxIdAssumption
<1>0. OrderInv /\ ChainInv /\ TypeOK /\ LinksToLast /\ UniqueIds /\ seq \in Nat
  BY DEF RefInv, OrderInv, ChainInv, TypeOK
<1>h. HeldIds /\ HeldIds'
  BY InFlightIds, PTL
<1>1. ASSUME NEW s \in Sessions, Abort(s)
      PROVE  \A o \in Sessions : /\ pend'[o] \subseteq pend[o]
                                 /\ Drawing(o)' => o # s /\ Drawing(o) /\ nid'[o] = nid[o]
                                 /\ o # s => (Drawing(o)' <=> Drawing(o)) /\ nid'[o] = nid[o]
  BY <1>0, <1>1 DEF Abort, EndTx, BackTo, TypeOK, Drawing
<1>2. ASSUME NEW s \in Sessions, Abort(s), rows' = rows, seq' = seq PROVE Chain!LogNext
  BY <1>1, <1>2, HoldingsDropped
<1>3. CASE Crash
  <2>1. InFlight' = {} /\ rows' = rows /\ seq' >= Chain!Last(rows).id
    <3>1. \A s \in Sessions : pend'[s] = {} /\ ~ Drawing(s)'
      BY <1>3 DEF Crash, Drawing
    <3>2. Chain!Last(rows).id \in Nat
      BY <1>0, LastIsGreatest DEF TypeOK, Chain!Genesis
    <3> QED BY <1>3, <1>h, <3>1, <3>2 DEF Crash, HeldIds
  <2>2. Chain!Recover(seq')
    BY <2>1 DEF Chain!Recover, InFlight
  <2> QED BY <2>2 DEF Chain!LogNext
<1>4. ASSUME NEW s \in Sessions, Commit(s) PROVE Chain!LogNext \/ LogStutter
  <2>1. Abort(s) /\ rows' = rows \union pend[s] /\ seq' = seq /\ ~ Drawing(s)
    BY <1>4 DEF Commit, Abort, Drawing
  <2>2. CASE pend[s] = {}
    BY <1>2, <2>1, <2>2
  <2>3. CASE pend[s] # {}
    <3> DEFINE new == pend[s]
    <3>1. \A o \in Sessions : pend'[o] = {} /\ (o # s => pend[o] = {})
      BY <1>0, <1>4, <2>3 DEF Commit, EndTx, ChainInv, HeldByAppender, TypeOK
    <3>2. \A r \in new : r.id \in InFlight
      BY <1>h DEF HeldIds
    <3>3. \A r \in new : r \notin rows /\ r.prev = Chain!Last(rows \union {x \in new : x.id < r.id})
      BY <1>0 DEF LinksToLast
    <3>4. \A o \in Sessions : Drawing(o) => \A r \in new : r.id # nid[o]
      BY <1>0 DEF UniqueIds, Linked, Uncommitted
    <3>5. \A i : i \in InFlight' <=> i \in InFlight /\ \A r \in new : r.id # i
      BY <1>1, <1>h, <2>1, <3>1, <3>4 DEF HeldIds
    <3>6. new # {} /\ new \cap rows = {} /\ rows' = rows \union new
      BY <2>1, <2>3, <3>3
    <3> HIDE DEF new
    <3> QED BY <2>1, <3>2, <3>3, <3>5, <3>6, RowsPublished
  <2> QED BY <2>2, <2>3
<1>5. ASSUME NEW s \in Sessions, DblinkRecord(s) PROVE Chain!LogNext
  <2> DEFINE row == Chain!Row(nid[s], "BLOCKED", Chain!Last(rows))
  <2>1. /\ row.id = nid[s] /\ row.prev = Chain!Last(rows)
        /\ rows' = rows \union {row} /\ seq' = seq /\ Drawing(s)
    BY <1>5 DEF DblinkRecord, Chain!Row, Drawing
  <2> HIDE DEF row
  <2>2. \A o \in Sessions : pend[o] = {}
    BY <1>0, <1>5 DEF DblinkRecord, ChainInv, HeldByAppender
  <2>3. \A o \in Sessions : /\ pend'[o] = {}
                            /\ Drawing(o)' <=> o # s /\ Drawing(o)
                            /\ o # s => nid'[o] = nid[o]
    <3>1. CASE Abort(s)
      BY <1>1, <2>2, <3>1
    <3>2. CASE ~ Abort(s)
      BY <1>0, <1>5, <2>2, <3>2 DEF DblinkRecord, Drawing, TypeOK
    <3> QED BY <3>1, <3>2
  <2> DEFINE new == {row}
  <2>4. new # {} /\ new \cap rows = {} /\ rows' = rows \union new
    BY <1>0, <2>1 DEF UniqueIds, Linked
  <2>5. \A r \in new : r.id \in InFlight
    BY <1>h, <2>1 DEF HeldIds
  <2>6. \A r \in new : r.prev = Chain!Last(rows \union {x \in new : x.id < r.id})
    <3>1. {x \in new : x.id < row.id} = {}
      BY <1>0, <2>1 DEF TypeOK
    <3> QED BY <2>1, <3>1
  <2>7. \A i : i \in InFlight' <=> i \in InFlight /\ \A r \in new : r.id # i
    BY <1>0, <1>h, <2>1, <2>2, <2>3 DEF HeldIds, UniqueIds
  <2> HIDE DEF new
  <2> QED BY <2>1, <2>4, <2>5, <2>6, <2>7, RowsPublished
<1>6. ASSUME NEW s \in Sessions, ChainRow(s) PROVE LogStutter
  <2> DEFINE row == Chain!Row(nid[s], "APPLIED", Chain!Last(Visible(s)))
  <2>1. /\ row.id = nid[s] /\ pend' = [pend EXCEPT ![s] = @ \union {row}]
        /\ rows' = rows /\ seq' = seq /\ Drawing(s)
    BY <1>6 DEF ChainRow, Chain!Row, Drawing
  <2> HIDE DEF row
  <2>2. \A o \in Sessions : /\ pend'[o] = IF o = s THEN pend[s] \union {row} ELSE pend[o]
                            /\ Drawing(o)' <=> o # s /\ Drawing(o)
                            /\ o # s => nid'[o] = nid[o]
    BY <1>0, <1>6, <2>1 DEF ChainRow, Drawing, TypeOK
  <2>3. \A i : i \in InFlight' <=> i \in InFlight
    BY <1>h, <2>1, <2>2 DEF HeldIds
  <2> QED BY <2>1, <2>3 DEF LogStutter
<1>7. ASSUME NEW s \in Sessions,
             \/ Create(s) \/ TableGranted(s)
             \/ \E g \in {"guard", "policy"} : RefuseRecorded(s, g)
      PROVE  Chain!LogNext
  <2>1. /\ UNCHANGED <<rows, pend>> /\ seq' = seq + 1
        /\ nid' = [nid EXCEPT ![s] = seq + 1]
        /\ pc[s] \in {"open", "table"}
        /\ pc' = [pc EXCEPT ![s] = "chain"] \/ pc' = [pc EXCEPT ![s] = "dblink"]
    BY <1>7 DEF Create, TableGranted, StartInsert, RefuseRecorded
  <2>2. /\ ~ Drawing(s) /\ Drawing(s)' /\ nid'[s] = seq + 1
        /\ \A o \in Sessions \ {s} : (Drawing(o)' <=> Drawing(o)) /\ nid'[o] = nid[o]
    BY <1>0, <2>1 DEF Drawing, TypeOK
  <2> QED BY <1>0, <2>1, <2>2, IdDrawn
<1>8. ASSUME NEW s \in Sessions,
             \/ \E i \in Isolations : Begin(s, i)
             \/ \E t \in Tables : Touch(s, t) \/ Alter(s, t)
      PROVE  LogStutter
  <2>1. UNCHANGED <<seq, rows, pend, nid>>
    BY <1>8 DEF Begin, Touch, Alter
  <2>2. \A o \in Sessions : Drawing(o)' <=> Drawing(o)
    BY <1>0, <1>8 DEF Begin, Touch, Alter, Drawing, TypeOK
  <2> QED BY <2>1, <2>2, HoldingsUnchanged
<1>9. ASSUME NEW s \in Sessions, NEW g \in {"guard", "policy"}, RefuseUnrecorded(s, g)
      PROVE  Chain!LogNext \/ LogStutter
  <2>1. CASE Abort(s)
    BY <1>2, <1>9, <2>1 DEF RefuseUnrecorded
  <2>2. CASE ~ Abort(s)
    <3>1. UNCHANGED <<seq, rows, pend, nid>>
      BY <1>9, <2>2 DEF RefuseUnrecorded
    <3>2. \A o \in Sessions : Drawing(o)' <=> Drawing(o)
      BY <1>0, <1>9, <2>2 DEF RefuseUnrecorded, Drawing, TypeOK
    <3> QED BY <3>1, <3>2, HoldingsUnchanged
  <2> QED BY <2>1, <2>2
<1>10. ASSUME NEW s \in Sessions,
              \/ Rollback(s) \/ SequenceExhausted(s) \/ EvalRecord(s) \/ DblinkFail(s) \/ DeadlockAbort(s)
       PROVE  Chain!LogNext
  <2>1. Abort(s) /\ rows' = rows /\ seq' = seq
    BY <1>10 DEF Rollback, SequenceExhausted, EvalRecord, DblinkFail, DeadlockAbort
  <2> QED BY <1>2, <2>1
<1>11. CASE UNCHANGED vars
  BY <1>11, HoldingsUnchanged DEF vars, Drawing
<1> QED
  BY <1>3, <1>4, <1>5, <1>6, <1>7, <1>8, <1>9, <1>10, <1>11 DEF Next, SessionStep, Refuse

\* With read committed clients the sessions, their lock, their rollbacks and the
\* second connections implement the append-only log of LedgerLog.
THEOREM AppendingImplementsTheLog ==
  ASSUME Isolations \subseteq {"rc"}
  PROVE  Spec => ImplementsLog
<1>1. Init => RefInv
  <2>1. Init => OrderInv
    BY OrderInvInit
  <2> QED BY <2>1 DEF Init, RefInv, LinksToLast
<1>2. Init => Chain!LogInit
  BY DEF Init, Chain!LogInit
<1>3. RefInv /\ [Next]_vars => RefInv'
  BY RefInvInductive
<1>4. RefInv /\ [Next]_vars => [Chain!LogNext]_(Chain!logVars)
  BY StepRefines
<1> QED BY <1>1, <1>2, <1>3, <1>4, PTL DEF Spec, ImplementsLog, Chain!LogSpec
=============================================================================
