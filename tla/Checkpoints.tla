---------------------------- MODULE Checkpoints ----------------------------
(***************************************************************************)
(* Tamper-evidence anchored outside the database (checkpoint.go,           *)
(* integrity.go, ledger_v2.sql).  Concurrent engine processes checkpoint a *)
(* branch's Blackbox while clients append to it: each reads the last       *)
(* checkpoint, loads the newer rows, records a checkpoint in the database  *)
(* and writes an anchor file.  An auditor runs `odb ledger integrity`,     *)
(* which loads the rows and then the anchor files.  Every one of those is  *)
(* a separate psql call or file operation, so all of them interleave.      *)
(***************************************************************************)
EXTENDS LedgerLog, Merkle, RowOrder

CONSTANTS Engines,  \* processes running Checkpoint (scheduler, CLI, API)
          Audits,   \* whether an auditor is part of the instance
          MaxSeq,   \* bound: ledger ids
          ParentRows, \* how many rows the ledger of a recreated branch's parent has
          Faults,   \* what may happen besides orderly work, see below
          MaxFaults \* bound: how many times any of those happens in one behaviour

\* "reorder"  appends draw their ids in one order and link in another
\* "stale"    a repeatable read client links to a row that is no longer the last
\* "fail"     a checkpoint call fails or its process dies at any step
\* "recreate" the branch is deleted and created again under its name
\* "tamper"   a superuser rewrites the ledger, with its hash chain
ASSUME FaultsAssumption ==
  Faults \subseteq {"reorder", "stale", "fail", "recreate", "tamper"}
ASSUME BoundsAssumption ==
  MaxSeq \in Nat /\ ParentRows \in 0..MaxSeq /\ MaxFaults \in Nat /\ Audits \in BOOLEAN

VARIABLES ckpts,     \* odb.ledger_checkpoints
          anchors,   \* anchor files in AnchorDir(name)
          pc,        \* step of each engine's Checkpoint call
          lastTo,    \* its lastCheckpoint: to_id ...
          prevRoot,  \* ... and merkle_root
          built,     \* the anchor it built
          audit,     \* the auditor: "idle", or "rows" once the rows are loaded
          loaded,    \* the rows the auditor loaded
          verdict,   \* what the last audit reported: "none", "intact", "TAMPERED"
          faults,    \* the kinds of faults that have happened ...
          mishaps,   \* ... and how many there were
          took,      \* history: the rows each engine built its anchor from
          sealed     \* history: the rows each anchor file was built from

engineVars == <<pc, lastTo, prevRoot, built, took>>
auditVars == <<audit, loaded, verdict>>
vars == <<logVars, ckpts, anchors, engineVars, auditVars, faults, mishaps, sealed>>

Between(S, lo, hi) == {r \in S : lo <= r.id /\ r.id <= hi}

NoAnchor == [fromId |-> 0]

\* The checkpoint with the greatest to_id, as the database sees it.
LastCkpt(C) == IF C = {} THEN [toId |-> 0, root |-> NoRoot]
               ELSE CHOOSE c \in C : \A d \in C : d.toId <= c.toId

\* Every row's link is the row_hash of the row before it; prev is the row
\* that the first one must link to.
CheckChain(prev, S) == \A r \in S :
  r.prev = IF \E x \in S : x.id < r.id THEN Pred(r, S) ELSE prev

\* Mutant of BuildAnchor: to_id is one past the last row.
BuildAnchorToNext(from, root, S) ==
  [fromId |-> from, toId |-> Last(S).id + 1, count |-> Len(ById(S)),
   lastRow |-> Last(S), root |-> rootOf(ById(S)), prevRoot |-> root]

BuildAnchor(from, root, S) ==
  [fromId |-> from, toId |-> Last(S).id, count |-> Len(ById(S)),
   lastRow |-> Last(S), root |-> rootOf(ById(S)), prevRoot |-> root]

\* Mutant of AnchorMatches: only the number of rows is compared.
AnchorMatchesCount(a, S) == Len(ById(Between(S, a.fromId, a.toId))) = a.count

\* An anchor against the rows now in its range.
AnchorMatches(a, S) ==
  LET in == ById(Between(S, a.fromId, a.toId)) IN
  /\ Len(in) = a.count
  /\ rootOf(in) = a.root
  /\ in[Len(in)] = a.lastRow

\* An anchor against the anchor file before it (none for the first).
AnchorContinues(a, A) ==
  LET before == {p \in A : p.toId < a.toId}
      p == LastCkpt(before)
  IN  before # {} => a.fromId = p.toId + 1 /\ a.prevRoot = p.root

\* Does Verify report INTACT for these rows and anchor files?
Verify(S, A) == /\ CheckChain(Genesis, S)
                /\ \A a \in A : AnchorContinues(a, A) /\ AnchorMatches(a, S)
-----------------------------------------------------------------------------
Init == /\ LogInit
        /\ ckpts = {}
        /\ anchors = {}
        /\ pc = [e \in Engines |-> "idle"]
        /\ lastTo = [e \in Engines |-> 0]
        /\ prevRoot = [e \in Engines |-> NoRoot]
        /\ built = [e \in Engines |-> NoAnchor]
        /\ took = [e \in Engines |-> {}]
        /\ audit = "idle"
        /\ loaded = {}
        /\ verdict = "none"
        /\ faults = {}
        /\ mishaps = 0
        /\ sealed = {}

Fault(f) == /\ f \in Faults
            /\ mishaps < MaxFaults
            /\ mishaps' = mishaps + 1
            /\ faults' = faults \union {f}

Happened(f) == f \in faults
-----------------------------------------------------------------------------
(* Clients append; those that read committed as LedgerLog promises. *)

Draw == /\ seq < MaxSeq
        /\ Allocate(seq + 1)
        /\ UNCHANGED <<ckpts, anchors, engineVars, auditVars, faults, mishaps, sealed>>

\* Appends commit in the order of their ids ...
AppendNext(i) == /\ \A j \in inflight : i <= j
                 /\ Publish({Row(i, "genuine", Last(rows))})
                 /\ UNCHANGED <<ckpts, anchors, engineVars, auditVars, faults, mishaps, sealed>>

\* ... or, since an id is drawn before the lock is taken, out of order.
AppendEarly(i) == /\ \E j \in inflight : j < i
                  /\ Fault("reorder")
                  /\ Publish({Row(i, "genuine", Last(rows))})
                  /\ UNCHANGED <<ckpts, anchors, engineVars, auditVars, sealed>>

\* A repeatable read client does not see what was appended since its snapshot,
\* and links to a lower row that was the last.
AppendStale(i) == /\ Fault("stale")
                  /\ \E p \in (rows \union {Genesis}) \ {Last(rows)} :
                       p.id < i /\ rows' = rows \union {Row(i, "genuine", p)}
                  /\ inflight' = inflight \ {i}
                  /\ UNCHANGED <<seq, ckpts, anchors, engineVars, auditVars, sealed>>

\* A client rolls back: its id is a gap in the ledger for good.
Abandon(i) == /\ Burn({i})
              /\ UNCHANGED <<ckpts, anchors, engineVars, auditVars, faults, mishaps, sealed>>
-----------------------------------------------------------------------------
(* Checkpoint *)

\* lastCheckpoint
ReadLast(e) ==
  /\ pc[e] = "idle"
  /\ pc' = [pc EXCEPT ![e] = "load"]
  /\ lastTo' = [lastTo EXCEPT ![e] = LastCkpt(ckpts).toId]
  /\ prevRoot' = [prevRoot EXCEPT ![e] = LastCkpt(ckpts).root]
  /\ UNCHANGED <<logVars, ckpts, anchors, built, took, auditVars, faults, mishaps, sealed>>

\* Mutant of Fresh: the last row of the last checkpoint is loaded again.
FreshInclusive(e) == {r \in rows : r.id >= lastTo[e]}

Fresh(e) == {r \in rows : r.id > lastTo[e]}

\* The checkpoint call is over.
Done(e) == /\ pc' = [pc EXCEPT ![e] = "idle"]
           /\ lastTo' = [lastTo EXCEPT ![e] = 0]
           /\ prevRoot' = [prevRoot EXCEPT ![e] = NoRoot]
           /\ built' = [built EXCEPT ![e] = NoAnchor]
           /\ took' = [took EXCEPT ![e] = {}]

\* Load the rows after the last checkpoint and the one before them, check the
\* links and build the anchor; nothing new, or a broken link, ends the call.
Load(e) ==
  LET pred == Last({r \in rows : r.id <= lastTo[e]}) IN
  /\ pc[e] = "load"
  /\ \/ /\ Fresh(e) = {} \/ ~ CheckChain(pred, Fresh(e))
        /\ Done(e)
     \/ /\ Fresh(e) # {}
        /\ CheckChain(pred, Fresh(e))
        /\ pc' = [pc EXCEPT ![e] = "insert"]
        /\ built' = [built EXCEPT ![e] = BuildAnchor(lastTo[e] + 1, prevRoot[e], Fresh(e))]
        /\ took' = [took EXCEPT ![e] = Fresh(e)]
        /\ UNCHANGED <<lastTo, prevRoot>>
  /\ UNCHANGED <<logVars, ckpts, anchors, auditVars, faults, mishaps, sealed>>

\* Mutant of Contiguous: the trigger is missing.
ContiguousUnchecked(a) == TRUE

\* The trigger odb.checkpoint_contiguous on INSERT INTO ledger_checkpoints.
Contiguous(a) == /\ a.fromId = LastCkpt(ckpts).toId + 1
                 /\ a.prevRoot = LastCkpt(ckpts).root

Insert(e) ==
  /\ pc[e] = "insert"
  /\ \/ /\ Contiguous(built[e])
        /\ ckpts' = ckpts \union {built[e]}
        /\ pc' = [pc EXCEPT ![e] = "write"]
        /\ UNCHANGED <<lastTo, prevRoot, built, took>>
     \/ /\ ~ Contiguous(built[e])
        /\ Done(e)
        /\ UNCHANGED ckpts
  /\ UNCHANGED <<logVars, anchors, auditVars, faults, mishaps, sealed>>

\* WriteAnchor names the file after to_id and never overwrites one.
Write(e) ==
  LET a == built[e] IN
  /\ pc[e] = "write"
  /\ IF \E b \in anchors : b.toId = a.toId
     THEN UNCHANGED <<anchors, sealed>>
     ELSE /\ anchors' = anchors \union {a}
          /\ sealed' = sealed \union {[toId |-> a.toId, rows |-> took[e]]}
  /\ Done(e)
  /\ UNCHANGED <<logVars, ckpts, auditVars, faults, mishaps>>

\* A psql call or the file write fails, or the process dies.
Fail(e) ==
  /\ pc[e] # "idle"
  /\ Fault("fail")
  /\ Done(e)
  /\ UNCHANGED <<logVars, ckpts, anchors, auditVars, sealed>>
-----------------------------------------------------------------------------
(* Integrity: load the rows, then the anchor files, then Verify. *)

LoadRows == /\ Audits
            /\ audit = "idle"
            /\ audit' = "rows"
            /\ loaded' = rows
            /\ verdict' = "none"
            /\ UNCHANGED <<logVars, ckpts, anchors, engineVars, faults, mishaps, sealed>>

LoadAnchorsAndVerify ==
  /\ audit = "rows"
  /\ verdict' = IF Verify(loaded, anchors) THEN "intact" ELSE "TAMPERED"
  /\ audit' = "idle"
  /\ UNCHANGED <<logVars, ckpts, anchors, engineVars, loaded, faults, mishaps, sealed>>
-----------------------------------------------------------------------------
(* What else happens to a branch *)

\* Link the rows of S anew, in id order, as chain_row would have.
Rechain(S) ==
  LET last[i \in 0..MaxSeq] ==   \* the new row with the greatest id up to i
        IF i = 0 THEN Genesis
        ELSE IF i \notin Ids(S) THEN last[i - 1]
        ELSE Row(i, (CHOOSE r \in S : r.id = i).status, last[i - 1])
  IN  {Row(r.id, r.status, last[r.id - 1]) : r \in S}

\* Delete and Create: a new database under the old name, with the ledger and the
\* checkpoints, one here, of the branch it is a clone of.  The anchor directory and
\* the engines' calls in progress know nothing of it.
Inherited == Rechain({Row(i, "inherited", Genesis) : i \in 1..ParentRows})

Recreate ==
  /\ Fault("recreate")
  /\ seq' = ParentRows
  /\ inflight' = {}
  /\ rows' = Inherited
  /\ \E m \in 0..ParentRows :
        ckpts' = IF m = 0 THEN {} ELSE {BuildAnchor(1, NoRoot, Between(Inherited, 1, m))}
  /\ UNCHANGED <<anchors, engineVars, auditVars, sealed>>

\* A superuser, with triggers disabled, deletes or edits a row and may
\* recompute the whole chain after it.
Tamper(r) ==
  /\ Fault("tamper")
  /\ \E forged \in {rows \ {r}, (rows \ {r}) \union {[r EXCEPT !.status = "forged"]}} :
        rows' \in {forged, Rechain(forged)}
  /\ UNCHANGED <<seq, inflight, ckpts, anchors, engineVars, auditVars, sealed>>

Next == \/ Draw
        \/ \E i \in inflight : AppendNext(i) \/ AppendEarly(i) \/ AppendStale(i) \/ Abandon(i)
        \/ \E e \in Engines : ReadLast(e) \/ Load(e) \/ Insert(e) \/ Write(e) \/ Fail(e)
        \/ LoadRows \/ LoadAnchorsAndVerify
        \/ Recreate
        \/ \E r \in rows : Tamper(r)

Spec == Init /\ [][Next]_vars

\* StartCheckpointer runs Checkpoint again at every tick, and transactions end.
Fairness ==
  /\ \A e \in Engines : WF_vars(ReadLast(e)) /\ WF_vars(Load(e))
                         /\ WF_vars(Insert(e)) /\ WF_vars(Write(e))
  /\ WF_vars(\E i \in inflight : AppendNext(i) \/ AppendEarly(i) \/ AppendStale(i) \/ Abandon(i))

FairSpec == Spec /\ Fairness
-----------------------------------------------------------------------------
(* Properties *)

TypeOK ==
  /\ seq \in 0..MaxSeq
  /\ inflight \subseteq 1..seq
  /\ Ids(rows) \subseteq 1..MaxSeq
  /\ pc \in [Engines -> {"idle", "load", "insert", "write"}]
  /\ lastTo \in [Engines -> 0..MaxSeq]
  /\ audit \in {"idle", "rows"}
  /\ verdict \in {"none", "intact", "TAMPERED"}
  /\ faults \subseteq Faults /\ mishaps \in 0..MaxFaults

\* The checkpoints in the database partition the ids from 1 on and are chained
\* by root, whichever engines raced, failed or held results of a branch that
\* has been recreated since: the trigger re-reads what lastCheckpoint read.
CheckpointsContiguous == \A c \in ckpts :
  LET before == {d \in ckpts : d.toId < c.toId} IN
  /\ c.fromId = LastCkpt(before).toId + 1
  /\ c.prevRoot = LastCkpt(before).root
  /\ \A d \in ckpts \ {c} : d.toId # c.toId

\* If the anchor files are those of the checkpoints, a ledger nobody touched and
\* whose rows are linked in order verifies: no race between appends and engines
\* makes a checkpoint that its own rows fail, though rows are committed late, with
\* ids in a sealed range, or linked to a stale row, and calls fail.
OrderlyLedgerVerifies ==
  /\ ~ Happened("tamper") /\ ~ Happened("recreate")
  /\ anchors = ckpts
  /\ Intact(rows)
  => Verify(rows, anchors)

\* Whatever verifies still holds, row for row, what each anchor was built
\* from, even if the ledger and its chain were rewritten consistently.
IntactMeansUnchanged ==
  Verify(rows, anchors) => \A x \in sealed :
    \E a \in anchors : /\ a.toId = x.toId
                      /\ Between(rows, a.fromId, a.toId) = x.rows

\* Appends and engines, without anybody rewriting the ledger or replacing the
\* branch, make `odb ledger integrity` report tampering in three ways.  An engine
\* sealed rows that the audit had not seen when it loaded the ledger, so that an
\* anchor file is newer than the audit's rows.  An engine is still to write the
\* anchor file of a checkpoint it recorded, or failed before it did, and that of a
\* later one is there.  Or an append linked out of order, upwards because another
\* with a higher id overtook it or downwards from a stale snapshot, and the rows
\* the audit loaded show it.
FalseAlarmHasACause == [][
  audit = "rows" /\ verdict' = "TAMPERED" /\ ~ Happened("tamper") /\ ~ Happened("recreate") =>
    \/ \E a \in anchors : a.toId > Last(loaded).id
    \/ \E c \in ckpts \ anchors, a \in anchors : c.toId < a.toId
    \/ (Happened("reorder") \/ Happened("stale")) /\ ~ Intact(loaded)]_vars

\* Every Blackbox entry is eventually covered by a checkpoint, or the ledger
\* has been rewritten, or linked out of order, or replaced.  Calls that fail,
\* MaxFaults times, and engines that overtake each other delay it, but never stop
\* it; a call that fails every time does.
EntriesGetCheckpointed == \A i \in 1..MaxSeq :
  i \in Ids(rows) ~> \/ \E c \in ckpts : c.toId >= i
                     \/ faults \cap {"tamper", "reorder", "stale", "recreate"} # {}
=============================================================================
