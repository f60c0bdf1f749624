----------------------------- MODULE LedgerLog -----------------------------
(***************************************************************************)
(* What the Blackbox ledger (odb.schema_ledger) promises to its readers,   *)
(* independent of sessions, locks and connections: rows are only ever      *)
(* added, they get their ids from a sequence before they become visible,   *)
(* and a row links to the row with the greatest id at the time it is       *)
(* published.                                                              *)
(*                                                                         *)
(* sha256 is taken to be injective, so the hash of a row IS the row: a     *)
(* row's prev field holds the row whose row_hash it copied.                *)
(***************************************************************************)
EXTENDS Naturals

VARIABLES seq,        \* the last value schema_ledger_id_seq has handed out
          inflight,   \* ids handed out whose rows are not yet visible
          rows        \* the visible rows

logVars == <<seq, inflight, rows>>

\* The prev_hash '' of the first row: it has no row, and no id.
Genesis == [id |-> 0]

Row(i, st, p) == [id |-> i, status |-> st, prev |-> p]

Ids(S) == {r.id : r \in S}

\* SELECT row_hash FROM odb.schema_ledger ORDER BY id DESC LIMIT 1
Last(S) == IF S = {} THEN Genesis
           ELSE CHOOSE r \in S : \A x \in S : x.id <= r.id

\* The row an honest verifier expects r to follow: the next lower id in S.
Pred(r, S) == Last({x \in S : x.id < r.id})

\* Every row is linked to the one before it (CheckChain finds nothing).
Intact(S) == \A r \in S : r.prev = Pred(r, S)
-----------------------------------------------------------------------------
LogInit == /\ seq = 0
           /\ inflight = {}
           /\ rows = {}

\* nextval of the id column's sequence; ids may also be skipped.
Allocate(i) == /\ i > seq
               /\ seq' = i
               /\ inflight' = inflight \union {i}
               /\ UNCHANGED rows

\* A transaction's rows become visible together, each linked to the greatest
\* id visible to it: the rows before the transaction and its own earlier rows.
Publish(new) == /\ new # {}
                /\ Ids(new) \subseteq inflight
                /\ \A r \in new :
                      r.prev = Last(rows \union {x \in new : x.id < r.id})
                /\ rows' = rows \union new
                /\ inflight' = inflight \ Ids(new)
                /\ UNCHANGED seq

\* Transactions roll back: their ids are never used.
Burn(S) == /\ S \subseteq inflight
           /\ inflight' = inflight \ S
           /\ UNCHANGED <<seq, rows>>

\* The server crashes: no row is lost, and the sequence resumes anywhere at
\* or above the greatest visible id (external: Postgres' WAL of a sequence).
Recover(n) == /\ n >= Last(rows).id
              /\ seq' = n
              /\ inflight' = {}
              /\ UNCHANGED rows

LogNext == \/ Allocate(seq')
           \/ Publish(rows' \ rows)
           \/ Burn(inflight \ inflight')
           \/ Recover(seq')

LogSpec == LogInit /\ [][LogNext]_logVars
=============================================================================
