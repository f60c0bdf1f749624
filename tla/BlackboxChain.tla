--------------------------- MODULE BlackboxChain ---------------------------
(***************************************************************************)
(* Appending to Blackbox inside Postgres: concurrent client transactions   *)
(* run DDL, the event triggers of ledger.sql insert one ledger row per     *)
(* command, the BEFORE INSERT trigger odb.chain_row links it under an      *)
(* advisory lock, and a refused command is recorded through a second       *)
(* connection (dblink) so the record survives the rollback.                *)
(*                                                                         *)
(* Three facts of Postgres shape the interleavings: the id's nextval runs  *)
(* before the BEFORE INSERT trigger, hence before the lock; the advisory   *)
(* lock is held to the end of the (sub)transaction; and what a SELECT in   *)
(* the trigger sees depends on the transaction's isolation level.          *)
(***************************************************************************)
EXTENDS Naturals, FiniteSets

CONSTANTS Sessions,     \* client connections
          Tables,       \* application tables a transaction may lock
          None,         \* no session, no table
          MaxId,        \* bound: ids handed out by the sequence
          Isolations    \* levels clients use: "rc" read committed,
                        \*                     "rr" repeatable read

ASSUME SessionsAssumption == None \notin Sessions /\ None \notin Tables
ASSUME MaxIdAssumption == MaxId \in Nat
ASSUME IsolationsAssumption == Isolations \subseteq {"rc", "rr"}

VARIABLES seq,     \* last id handed out
          rows,    \* committed ledger rows
          evals,   \* blackbox_id of the committed 'block' evaluations, 0 = NULL
          lock,    \* holder of pg_advisory_xact_lock(odb.schema_ledger)
          tlock,   \* holder of each table's lock
          pc,      \* what each session is doing
          nid,     \* id allocated for the row being inserted or recorded
          want,    \* table a session waits for
          gate,    \* which gate refused the statement: "guard" or "policy"
          iso,     \* isolation level of the open transaction
          snap,    \* its snapshot of the ledger (repeatable read)
          pend     \* its uncommitted ledger rows

vars == <<seq, rows, evals, lock, tlock, pc, nid, want, gate, iso, snap, pend>>

Chain == INSTANCE LedgerLog
         WITH inflight <- (UNION {{r.id : r \in pend[s]} : s \in Sessions})
                          \union {nid[s] : s \in {x \in Sessions :
                                              pc[x] \in {"chain", "dblink"}}}

PCs == {"idle",     \* no transaction
        "open",     \* in a transaction, between statements
        "table",    \* DDL waiting for its table's lock
        "chain",    \* in INSERT INTO schema_ledger: id drawn, waiting in chain_row
        "dblink",   \* refused: the second connection is inserting the record
        "eval"}     \* refused by policy: writing the evaluation row

TypeOK ==
  /\ seq \in 0..MaxId
  /\ \A r \in rows : r.id \in 1..seq
  /\ evals \subseteq 0..MaxId
  /\ lock \in Sessions \union {None}
  /\ tlock \in [Tables -> Sessions \union {None}]
  /\ pc \in [Sessions -> PCs]
  /\ nid \in [Sessions -> 0..MaxId]
  /\ want \in [Sessions -> Tables \union {None}]
  /\ gate \in [Sessions -> {"guard", "policy"}]
  /\ iso \in [Sessions -> {"rc", "rr"}]
  /\ snap \in [Sessions -> SUBSET rows]
  /\ pend = [s \in Sessions |-> pend[s]]
  /\ \A s \in Sessions : \A r \in pend[s] : r.id \in 1..seq

Init ==
  /\ seq = 0
  /\ rows = {}
  /\ evals = {}
  /\ lock = None
  /\ tlock = [t \in Tables |-> None]
  /\ pc = [s \in Sessions |-> "idle"]
  /\ nid = [s \in Sessions |-> 0]
  /\ want = [s \in Sessions |-> None]
  /\ gate = [s \in Sessions |-> "guard"]
  /\ iso = [s \in Sessions |-> "rc"]
  /\ snap = [s \in Sessions |-> {}]
  /\ pend = [s \in Sessions |-> {}]
-----------------------------------------------------------------------------
(* Transactions *)

\* BEGIN and the first statement, which fixes a repeatable read snapshot.
Begin(s, i) ==
  /\ pc[s] = "idle"
  /\ pc' = [pc EXCEPT ![s] = "open"]
  /\ iso' = [iso EXCEPT ![s] = i]
  /\ snap' = [snap EXCEPT ![s] = IF i = "rr" THEN rows ELSE {}]
  /\ UNCHANGED <<seq, rows, evals, lock, tlock, nid, want, gate, pend>>

\* The transaction ends and its locks are released.
EndTx(s) ==
  /\ pc' = [pc EXCEPT ![s] = "idle"]
  /\ nid' = [nid EXCEPT ![s] = 0]
  /\ want' = [want EXCEPT ![s] = None]
  /\ gate' = [gate EXCEPT ![s] = "guard"]
  /\ iso' = [iso EXCEPT ![s] = "rc"]
  /\ snap' = [snap EXCEPT ![s] = {}]
  /\ pend' = [pend EXCEPT ![s] = {}]
  /\ lock' = IF lock = s THEN None ELSE lock
  /\ tlock' = [t \in Tables |-> IF tlock[t] = s THEN None ELSE tlock[t]]

\* Back to a savepoint taken before id k was drawn: later rows go, and the
\* advisory lock goes with the first row that took it.
BackTo(s, k) ==
  LET kept == {r \in pend[s] : r.id < k} IN
  /\ pc' = [pc EXCEPT ![s] = "open"]
  /\ nid' = [nid EXCEPT ![s] = 0]
  /\ want' = [want EXCEPT ![s] = None]
  /\ gate' = [gate EXCEPT ![s] = "guard"]
  /\ pend' = [pend EXCEPT ![s] = kept]
  /\ lock' = IF lock = s /\ kept = {} THEN None ELSE lock
  /\ UNCHANGED <<iso, snap, tlock>>

\* An error: the whole transaction, or the part after a savepoint, is undone.
Abort(s) == EndTx(s) \/ \E k \in 1..(MaxId + 1) : BackTo(s, k)

Commit(s) ==
  /\ pc[s] = "open"
  /\ rows' = rows \union pend[s]
  /\ EndTx(s)
  /\ UNCHANGED <<seq, evals>>

\* ROLLBACK [TO], or an error, a cancel or a disconnect while waiting for a lock.
Rollback(s) ==
  /\ pc[s] \in {"open", "table", "chain"}
  /\ Abort(s)
  /\ UNCHANGED <<seq, rows, evals>>
-----------------------------------------------------------------------------
(* DDL that the gates let through: log_ddl_end, log_ddl_drop, chain_row *)

\* A statement other than DDL that locks a table (INSERT, UPDATE, LOCK ...).
Touch(s, t) ==
  /\ pc[s] = "open"
  /\ tlock[t] = None
  /\ tlock' = [tlock EXCEPT ![t] = s]
  /\ UNCHANGED <<seq, rows, evals, lock, pc, nid, want, gate, iso, snap, pend>>

\* INSERT INTO odb.schema_ledger: the id default is evaluated first.
StartInsert(s) ==
  /\ seq < MaxId
  /\ seq' = seq + 1
  /\ nid' = [nid EXCEPT ![s] = seq + 1]
  /\ pc' = [pc EXCEPT ![s] = "chain"]

\* DDL on a new object needs no table lock: it ran, and is being logged.
Create(s) ==
  /\ pc[s] = "open"
  /\ StartInsert(s)
  /\ UNCHANGED <<rows, evals, lock, tlock, want, gate, iso, snap, pend>>

\* DDL on an existing table waits for the table's lock ...
Alter(s, t) ==
  /\ pc[s] = "open"
  /\ pc' = [pc EXCEPT ![s] = "table"]
  /\ want' = [want EXCEPT ![s] = t]
  /\ UNCHANGED <<seq, rows, evals, lock, tlock, nid, gate, iso, snap, pend>>

\* ... runs once it has it, and is then logged.
TableGranted(s) ==
  /\ pc[s] = "table"
  /\ tlock[want[s]] \in {None, s}
  /\ tlock' = [tlock EXCEPT ![want[s]] = s]
  /\ want' = [want EXCEPT ![s] = None]
  /\ StartInsert(s)
  /\ UNCHANGED <<rows, evals, lock, gate, iso, snap, pend>>

\* nextval fails at the sequence's maximum: the DDL is undone.
SequenceExhausted(s) ==
  /\ pc[s] = "table"
  /\ tlock[want[s]] \in {None, s}
  /\ seq = MaxId
  /\ Abort(s)
  /\ UNCHANGED <<seq, rows, evals>>

\* The ledger rows chain_row's SELECT sees.
Visible(s) == pend[s] \union (IF iso[s] = "rr" THEN snap[s] ELSE rows)

\* Mutant of ChainRow: chain_row takes no lock.
ChainRowNoLock(s) ==
  /\ pc[s] = "chain"
  /\ pend' = [pend EXCEPT ![s] = @ \union
       {Chain!Row(nid[s], "APPLIED", Chain!Last(Visible(s)))}]
  /\ pc' = [pc EXCEPT ![s] = "open"]
  /\ nid' = [nid EXCEPT ![s] = 0]
  /\ UNCHANGED <<seq, rows, evals, lock, tlock, want, gate, iso, snap>>

\* Mutant of ChainRow: the last row_hash is kept in shared memory, outside
\* the transactions that append.
ChainRowSharedHead(s) ==
  /\ pc[s] = "chain"
  /\ pend' = [pend EXCEPT ![s] = @ \union
       {Chain!Row(nid[s], "APPLIED",
                  Chain!Last(rows \union UNION {pend[x] : x \in Sessions}))}]
  /\ pc' = [pc EXCEPT ![s] = "open"]
  /\ nid' = [nid EXCEPT ![s] = 0]
  /\ UNCHANGED <<seq, rows, evals, lock, tlock, want, gate, iso, snap>>

\* chain_row: take the lock, link to the greatest visible id, insert.
ChainRow(s) ==
  /\ pc[s] = "chain"
  /\ lock \in {None, s}
  /\ lock' = s
  /\ pend' = [pend EXCEPT ![s] = @ \union
       {Chain!Row(nid[s], "APPLIED", Chain!Last(Visible(s)))}]
  /\ pc' = [pc EXCEPT ![s] = "open"]
  /\ nid' = [nid EXCEPT ![s] = 0]
  /\ UNCHANGED <<seq, rows, evals, tlock, want, gate, iso, snap>>
-----------------------------------------------------------------------------
(* DDL that a gate refuses: guard_ddl_start, policy_ddl_start.  Both run  *)
(* before the command has locked its table.                               *)

\* Mutant of HoldsChainLock: the gates do not look for the lock.
HoldsChainLockNever(s) == FALSE

HoldsChainLock(s) == lock = s

\* This transaction already appended: no Blackbox record is attempted.  The
\* guardrail raises at once; the policy gate first writes its evaluation.
RefuseUnrecorded(s, g) ==
  /\ pc[s] = "open"
  /\ HoldsChainLock(s)
  /\ \/ /\ g = "guard"
        /\ Abort(s)
     \/ /\ g = "policy"
        /\ pc' = [pc EXCEPT ![s] = "eval"]
        /\ gate' = [gate EXCEPT ![s] = g]
        /\ UNCHANGED <<lock, tlock, nid, want, iso, snap, pend>>
  /\ UNCHANGED <<seq, rows, evals>>

\* Mutant of RefuseRecorded: the policy gate records its evaluation first.
RefuseRecordedEvalFirst(s, g) ==
  /\ pc[s] = "open"
  /\ ~ HoldsChainLock(s)
  /\ seq < MaxId
  /\ seq' = seq + 1
  /\ nid' = [nid EXCEPT ![s] = seq + 1]
  /\ gate' = [gate EXCEPT ![s] = g]
  /\ pc' = [pc EXCEPT ![s] = IF g = "policy" THEN "eval" ELSE "dblink"]
  /\ UNCHANGED <<rows, evals, lock, tlock, want, iso, snap, pend>>

\* Otherwise a second connection starts the INSERT and draws an id.
RefuseRecorded(s, g) ==
  /\ pc[s] = "open"
  /\ ~ HoldsChainLock(s)
  /\ seq < MaxId
  /\ seq' = seq + 1
  /\ nid' = [nid EXCEPT ![s] = seq + 1]
  /\ gate' = [gate EXCEPT ![s] = g]
  /\ pc' = [pc EXCEPT ![s] = "dblink"]
  /\ UNCHANGED <<rows, evals, lock, tlock, want, iso, snap, pend>>

Refuse(s, g) == RefuseUnrecorded(s, g) \/ RefuseRecorded(s, g)

\* The second connection gets the lock, links the row and autocommits; then
\* the guardrail raises, and the policy gate goes on to its evaluation row.
DblinkRecord(s) ==
  /\ pc[s] = "dblink"
  /\ lock = None
  /\ rows' = rows \union {Chain!Row(nid[s], "BLOCKED", Chain!Last(rows))}
  /\ \/ /\ gate[s] = "guard"
        /\ Abort(s)
     \/ /\ gate[s] = "policy"
        /\ pc' = [pc EXCEPT ![s] = "eval"]
        /\ UNCHANGED <<lock, tlock, nid, want, gate, iso, snap, pend>>
  /\ UNCHANGED <<seq, evals>>

\* The evaluation row is written through dblink as well, then the gate raises.
EvalRecord(s) ==
  /\ pc[s] = "eval"
  /\ evals' = evals \union {nid[s]}
  /\ Abort(s)
  /\ UNCHANGED <<seq, rows>>

\* A dblink call fails or is cancelled: the statement is refused all the same.
DblinkFail(s) ==
  /\ pc[s] \in {"dblink", "eval"}
  /\ Abort(s)
  /\ UNCHANGED <<seq, rows, evals>>
-----------------------------------------------------------------------------
(* Postgres itself (external) *)

\* Which session s waits for, as far as Postgres' lock manager can tell.
Waits(s, o) == /\ s # o
               /\ \/ pc[s] = "chain" /\ lock = o
                  \/ pc[s] = "table" /\ tlock[want[s]] = o

\* The deadlock detector cancels a member of a cycle of such waits.
DeadlockAbort(s) ==
  /\ \E C \in SUBSET Sessions :
        /\ s \in C
        /\ \A x \in C : (\E y \in C : Waits(x, y)) /\ (\E y \in C : Waits(y, x))
  /\ Abort(s)
  /\ UNCHANGED <<seq, rows, evals>>

\* The server stops and recovers: every open transaction is gone, and the
\* sequence resumes at or above the greatest committed id.
Crash ==
  /\ \E n \in Chain!Last(rows).id .. MaxId : seq' = n
  /\ lock' = None
  /\ tlock' = [t \in Tables |-> None]
  /\ pc' = [s \in Sessions |-> "idle"]
  /\ nid' = [s \in Sessions |-> 0]
  /\ want' = [s \in Sessions |-> None]
  /\ gate' = [s \in Sessions |-> "guard"]
  /\ iso' = [s \in Sessions |-> "rc"]
  /\ snap' = [s \in Sessions |-> {}]
  /\ pend' = [s \in Sessions |-> {}]
  /\ UNCHANGED <<rows, evals>>

SessionStep(s) ==
  \/ \E i \in Isolations : Begin(s, i)
  \/ Commit(s) \/ Rollback(s)
  \/ \E t \in Tables : Touch(s, t) \/ Alter(s, t)
  \/ Create(s) \/ TableGranted(s) \/ SequenceExhausted(s) \/ ChainRow(s)
  \/ \E g \in {"guard", "policy"} : Refuse(s, g)
  \/ DblinkRecord(s) \/ EvalRecord(s) \/ DblinkFail(s) \/ DeadlockAbort(s)

Next == Crash \/ \E s \in Sessions : SessionStep(s)

Spec == Init /\ [][Next]_vars

(***************************************************************************)
(* Fairness.  A lock that keeps becoming free is eventually granted        *)
(* (Postgres queues waiters first come, first served); a dblink statement  *)
(* that can run does; deadlocks Postgres can see are resolved; and a       *)
(* client that is not waiting eventually ends its transaction, without     *)
(* which the first open transaction would keep the lock for good.          *)
(***************************************************************************)
Fairness == \A s \in Sessions :
  /\ SF_vars(ChainRow(s)) /\ SF_vars(TableGranted(s)) /\ SF_vars(DblinkRecord(s))
  /\ WF_vars(EvalRecord(s)) /\ WF_vars(DeadlockAbort(s))
  /\ WF_vars(SequenceExhausted(s))
  /\ SF_vars(pc[s] = "open" /\ (Commit(s) \/ Rollback(s)) /\ pc'[s] = "idle")

FairSpec == Spec /\ Fairness
-----------------------------------------------------------------------------
(* Properties *)

Uncommitted == UNION {pend[s] : s \in Sessions}

\* A committed row never links to a row that was rolled back: whatever
\* chain_row read as the previous row is itself committed, or is no row.
\* (The advisory lock is held until commit, so nobody reads past it.)
LinksCommitted == \A r \in rows : r.prev = Chain!Genesis \/ r.prev \in rows

\* If no row links to a row with a greater id, every row links to the row
\* before it and verification succeeds.  So with read committed clients the
\* only honest history `odb ledger verify` reports as tampering is one where
\* two appends drew their ids in one order and linked in the other.
IntactUnlessReordered ==
  (\A r \in rows : r.prev.id < r.id) => Chain!Intact(rows)

\* The evaluation a refused statement leaves behind never names a Blackbox
\* entry that does not exist: blackbox_id is a committed BLOCKED row or NULL.
EvalsNameRecords ==
  \A e \in evals \ {0} : \E r \in rows : r.id = e /\ r.status = "BLOCKED"

\* The second connection never waits for the very session it serves, which
\* Postgres could not see: the hang odb._holds_chain_lock is there to prevent.
NoSelfDeadlock == \A s \in Sessions : pc[s] = "dblink" => lock # s

\* With read committed clients, appending under the lock implements the log.
ImplementsLog == Chain!LogSpec

\* A refused statement returns to its client.
RefusedReturns == \A s \in Sessions :
  pc[s] \in {"dblink", "eval"} ~> pc[s] \in {"idle", "open"}
=============================================================================
