--------------------------- MODULE ChangesProofs ----------------------------
(***************************************************************************)
(* Proofs about Changes and Impact: for any SQL, rules, number of calls,   *)
(* rule changes and ledger rows, and for ALTER TABLE with any number of    *)
(* actions.                                                                *)
(***************************************************************************)
EXTENDS Changes, Impact, WellFoundedInduction, TLAPS

Calls == [n : Nat, pc : {"done", "previewed", "marked", "waiting", "answered"}, sql : SQLs \union {<<>>},
          preview : SUBSET RuleIds, at : Nat, marker : Nat, known : BOOLEAN,
          status : {"none", "preview", "failed", "applied", "blocked", "error"},
          by : RuleIds \union {NoRule}, kind : Kinds \union {"none"}, sure : BOOLEAN, entries : SUBSET Nat]
Runs == [n : Nat, sql : SQLs, step : Nat, ids : SUBSET Nat]
Rows == [id : Nat, call : Nat, hash : SQLs \union {<<>>}, blocked : BOOLEAN]

Types ==
  /\ version \in Nat /\ nextId \in Nat /\ nextId > 0 /\ skipped \in BOOLEAN
  /\ call \in Calls /\ running \in SUBSET Runs /\ ledger \in SUBSET Rows

\* A set of ids that has a greatest one, or none at all.
HasMax(S) == S = {} \/ \E x \in S : \A y \in S : y <= x

\* Ids come from the sequence and calls are numbered; what runs is at a statement of its SQL.
NumbersInv ==
  /\ \A r \in ledger : r.id < nextId /\ r.call <= call.n
  /\ \A s \in running : /\ \A i \in s.ids : i < nextId
                        /\ s.n > 0 /\ s.n <= call.n /\ s.step > 0 /\ s.step <= Len(s.sql) + 1
  /\ HasMax({r.id : r \in ledger}) /\ \A s \in running : HasMax(s.ids)
  /\ call.marker < nextId
  /\ call.pc # "done" \/ call.status # "none" => call.n > 0
  /\ call.n > 0 => call.sql \in SQLs
  /\ \A s \in running : s.n = call.n => s.sql = call.sql /\ call.pc \notin {"previewed", "marked"}
  /\ call.pc \in {"previewed", "marked", "waiting"} => call.status = "none"

\* E are ids of the rows of call n, and all of them but those without a call hash.
Reports(E, L, n) ==
  /\ E \subseteq {q.id : q \in {r \in L : r.call = n}}
  /\ \A q \in {r \in L : r.call = n} : q.id \in E \/ (q.blocked = FALSE /\ q.hash = <<>>)

\* While no call has given up, what runs is the SQL of the call that waits for it; the
\* rows of earlier calls are up to the marker and its own are after it.
OwnInv ==
  late = {} =>
    /\ \A s \in running : /\ call.pc = "waiting" /\ s.n = call.n /\ \A i \in s.ids : i > call.marker
                          /\ \A t \in running : t = s
    /\ call.pc \in {"previewed", "marked", "waiting"} => \A r \in ledger : r.call < call.n
    /\ call.pc \in {"marked", "waiting", "answered"} /\ call.known = TRUE =>
         \A r \in ledger : r.call > 0 /\ r.call < call.n => r.id <= call.marker
    /\ call.pc = "answered" => \A r \in ledger : r.call = call.n => r.id > call.marker /\ r.hash \in {call.sql, <<>>}
    /\ call.pc = "done" /\ call.status \in {"applied", "blocked", "error"} /\ call.known = TRUE =>
         Reports(call.entries, ledger, call.n)

\* A statement that event triggers see itself was not refused for its own text.
Unrefused(k) == Fires[k] = k => \A r \in RuleIds : ~ Blocks(r, TagOf[k], {k})

\* As long as the rules are those of the preview: it says what they say, and the
\* statements that have run are not refused by them.
PreviewInv ==
  /\ call.at <= version
  /\ call.at = version /\ call.n > 0 =>
       /\ call.preview = PolicyCheck(call.sql)
       /\ \A s \in running : s.n = call.n /\ skipped = FALSE => \A i \in 1..(s.step - 1) : Unrefused(s.sql[i])
       /\ call.status = "blocked" /\ call.sure = TRUE /\ TagOf[call.kind] = CommandTag(call.sql) => call.by \in call.preview
       /\ call.status = "applied" /\ GuessedRight(call.sql) => call.preview = {} \/ skipped = TRUE

-----------------------------------------------------------------------------
(* What the actions do to the call *)

\* The call that runs goes on: its number, SQL and preview stay.
CallGoes(pc, marker, known, status, by, kind, sure, entries) ==
  /\ call' \in Calls
  /\ call'.n = call.n /\ call'.sql = call.sql /\ call'.preview = call.preview /\ call'.at = call.at
  /\ call'.pc = pc /\ call'.marker = marker /\ call'.known = known /\ call'.status = status
  /\ call'.by = by /\ call'.kind = kind /\ call'.sure = sure /\ call'.entries = entries

\* Preview begins a call.
LEMMA PreviewIs ==
  ASSUME Types, NEW sql \in SQLs, NEW dryRun \in BOOLEAN, Preview(sql, dryRun)
  PROVE  /\ call.pc = "done" /\ call' \in Calls
         /\ call'.n = call.n + 1 /\ call'.sql = sql /\ call'.preview = PolicyCheck(sql) /\ call'.at = version
         /\ call'.pc \in {"done", "previewed"} /\ call'.marker = 0 /\ call'.known = TRUE
         /\ call'.status \in {"preview", "none"} /\ (call'.pc = "previewed" => call'.status = "none")
<1> DEFINE pc == IF dryRun THEN "done" ELSE "previewed"
           status == IF dryRun THEN "preview" ELSE "none"
           P == PolicyCheck(sql)
           c == [n |-> call.n + 1, pc |-> pc, sql |-> sql, preview |-> P, at |-> version, marker |-> 0, known |-> TRUE,
                 status |-> status, by |-> NoRule, kind |-> "none", sure |-> FALSE, entries |-> {}]
<1>1. P \in SUBSET RuleIds
  BY DEF PolicyCheck
<1>2. call.n + 1 \in Nat /\ version \in Nat
  BY DEF Types, Calls
<1>3. call' = c
  BY DEF Preview, NoCall
<1>4. pc \in {"done", "previewed"} /\ status \in {"preview", "none"} /\ (pc = "previewed" => status = "none")
  OBVIOUS
<1> HIDE DEF pc, status, P
<1>5. c \in Calls
  BY <1>1, <1>2, <1>4 DEF Calls
<1>6. /\ c.n = call.n + 1 /\ c.sql = sql /\ c.preview = P /\ c.at = version
      /\ c.pc = pc /\ c.marker = 0 /\ c.known = TRUE /\ c.status = status
  OBVIOUS
<1> HIDE DEF c
<1>7. call.pc = "done"
  BY DEF Preview
<1>8. call'.preview = PolicyCheck(sql)
  BY <1>3, <1>6 DEF P
<1> QED BY <1>3, <1>4, <1>5, <1>6, <1>7, <1>8

\* The other changes of the call.
LEMMA CallIs ==
  ASSUME Types
  PROVE  /\ \A s \in {"marked", "waiting"} :
              SetCall(s) => CallGoes(s, call.marker, call.known, call.status, call.by, call.kind, call.sure, call.entries)
         /\ End => CallGoes("done", call.marker, call.known, "failed", call.by, call.kind, call.sure, call.entries)
         /\ \A m \in Nat : call' = [call EXCEPT !.pc = "marked", !.marker = m]
              => CallGoes("marked", m, call.known, call.status, call.by, call.kind, call.sure, call.entries)
         /\ \A s \in {"marked", "done"} : call' = [call EXCEPT !.pc = s, !.known = FALSE]
              => CallGoes(s, call.marker, FALSE, call.status, call.by, call.kind, call.sure, call.entries)
         /\ \A E \in SUBSET Nat : call' = [call EXCEPT !.pc = "done", !.entries = E]
              => CallGoes("done", call.marker, call.known, call.status, call.by, call.kind, call.sure, E)
         /\ \A t \in {"applied", "blocked", "error"}, r \in RuleIds \union {NoRule}, k \in Kinds \union {"none"}, w \in BOOLEAN :
              call' = [call EXCEPT !.pc = "answered", !.status = t, !.by = r, !.kind = k, !.sure = w]
              => CallGoes("answered", call.marker, call.known, t, r, k, w, call.entries)
<1> USE DEF Calls, CallGoes
<1>0. call \in Calls
  BY DEF Types
<1>1. \A s \in {"marked", "waiting"} :
        SetCall(s) => CallGoes(s, call.marker, call.known, call.status, call.by, call.kind, call.sure, call.entries)
  BY <1>0 DEF SetCall
<1>2. End => CallGoes("done", call.marker, call.known, "failed", call.by, call.kind, call.sure, call.entries)
  BY <1>0 DEF End
<1>3. \A m \in Nat : call' = [call EXCEPT !.pc = "marked", !.marker = m]
        => CallGoes("marked", m, call.known, call.status, call.by, call.kind, call.sure, call.entries)
  BY <1>0
<1>4. \A s \in {"marked", "done"} : call' = [call EXCEPT !.pc = s, !.known = FALSE]
        => CallGoes(s, call.marker, FALSE, call.status, call.by, call.kind, call.sure, call.entries)
  BY <1>0
<1>5. \A E \in SUBSET Nat : call' = [call EXCEPT !.pc = "done", !.entries = E]
        => CallGoes("done", call.marker, call.known, call.status, call.by, call.kind, call.sure, E)
  BY <1>0
<1>6. \A t \in {"applied", "blocked", "error"}, r \in RuleIds \union {NoRule}, k \in Kinds \union {"none"}, w \in BOOLEAN :
        call' = [call EXCEPT !.pc = "answered", !.status = t, !.by = r, !.kind = k, !.sure = w]
        => CallGoes("answered", call.marker, call.known, t, r, k, w, call.entries)
  <2> SUFFICES ASSUME NEW t \in {"applied", "blocked", "error"}, NEW r \in RuleIds \union {NoRule}, NEW k \in Kinds \union {"none"}, NEW w \in BOOLEAN,
                      call' = [call EXCEPT !.pc = "answered", !.status = t, !.by = r, !.kind = k, !.sure = w]
               PROVE  CallGoes("answered", call.marker, call.known, t, r, k, w, call.entries)
    OBVIOUS
  <2> DEFINE c == [call EXCEPT !.pc = "answered", !.status = t, !.by = r, !.kind = k, !.sure = w]
  <2>1. c \in Calls
    BY <1>0
  <2>2. c.n = call.n /\ c.sql = call.sql /\ c.preview = call.preview /\ c.at = call.at /\ c.marker = call.marker
    BY <1>0
  <2>3. c.known = call.known /\ c.entries = call.entries /\ c.pc = "answered"
    BY <1>0
  <2>4. c.status = t /\ c.by = r /\ c.kind = k /\ c.sure = w
    BY <1>0
  <2>5. call' = c
    OBVIOUS
  <2> HIDE DEF c
  <2> QED BY <2>1, <2>2, <2>3, <2>4, <2>5
<1> QED BY <1>1, <1>2, <1>3, <1>4, <1>5, <1>6

\* The newest id is one, or 0.
LEMMA MarkerIs ==
  ASSUME Types, NumbersInv
  PROVE  Marker \in Nat /\ Marker < nextId /\ \A r \in ledger : r.id <= Marker
<1> DEFINE S == {r.id : r \in ledger} \union {0}
<1>1. S \subseteq Nat /\ \A x \in S : x < nextId
  BY DEF Types, NumbersInv, Rows
<1>2. \E x \in S : \A y \in S : x >= y
  <2>1. CASE ledger = {}
    BY <2>1
  <2>2. CASE ledger # {}
    <3>1. PICK x \in {r.id : r \in ledger} : \A y \in {r.id : r \in ledger} : y <= x
      BY <2>2 DEF NumbersInv, HasMax
    <3>2. x \in S /\ \A y \in S : x >= y
      BY <1>1, <3>1
    <3> QED BY <3>2
  <2> QED BY <2>1, <2>2
<1>3. Marker \in S /\ \A y \in S : Marker >= y
  BY <1>2 DEF Marker, Max
<1>4. \A r \in ledger : r.id \in S
  OBVIOUS
<1> HIDE DEF S
<1> QED BY <1>1, <1>3, <1>4

\* The answer to SQL that is over.
LEMMA AnswerIs ==
  ASSUME Types, NEW s, NEW t \in {"applied", "blocked", "error"}, NEW r \in RuleIds \union {NoRule},
         NEW k \in Kinds \union {"none"}, NEW w \in BOOLEAN, Answer(s, t, r, k, w)
  PROVE  /\ running' = running \ {s}
         /\ call.pc = "waiting" /\ call.n = s.n => CallGoes("answered", call.marker, call.known, t, r, k, w, call.entries)
         /\ ~ (call.pc = "waiting" /\ call.n = s.n) => call' = call
<1>1. CASE call.pc = "waiting" /\ call.n = s.n
  <2>1. running' = running \ {s} /\ call' = [call EXCEPT !.pc = "answered", !.status = t, !.by = r, !.kind = k, !.sure = w]
    BY <1>1 DEF Answer
  <2> QED BY <1>1, <2>1, CallIs
<1>2. CASE ~ (call.pc = "waiting" /\ call.n = s.n)
  BY <1>2 DEF Answer
<1> QED BY <1>1, <1>2

\* Sets of ids with a greatest one.
LEMMA MaxUnion ==
  ASSUME NEW S \in SUBSET Nat, NEW T \in SUBSET Nat, HasMax(S), HasMax(T)
  PROVE  HasMax(S \union T)
<1>1. CASE S = {} \/ T = {}
  <2>1. S \union T = S \/ S \union T = T
    BY <1>1
  <2> QED BY <2>1
<1>2. CASE S # {} /\ T # {}
  <2>1. PICK x \in S : \A y \in S : y <= x
    BY <1>2 DEF HasMax
  <2>2. PICK z \in T : \A y \in T : y <= z
    BY <1>2 DEF HasMax
  <2>3. CASE x <= z
    <3>1. \A y \in S \union T : y <= z
      BY <2>1, <2>2, <2>3
    <3> QED BY <3>1 DEF HasMax
  <2>4. CASE ~ (x <= z)
    <3>1. \A y \in S \union T : y <= x
      BY <2>1, <2>2, <2>4
    <3> QED BY <3>1 DEF HasMax
  <2> QED BY <2>3, <2>4
<1> QED BY <1>1, <1>2

\* What the SQL of a call does, one statement or its end at a time: rows N are added to
\* the ledger, which are of its call and after every id it had no part in.
RunAdds(s, N) ==
  /\ ledger' = ledger \union N /\ N \in SUBSET Rows /\ HasMax({r.id : r \in N})
  /\ nextId' \in Nat /\ nextId' >= nextId
  /\ \A r \in N : /\ r.call = s.n /\ r.id < nextId' /\ r.hash \in {s.sql, <<>>}
                  /\ r.id \in s.ids \/ r.id >= nextId

\* Each step of the SQL adds such rows, and answers its call as the gate or the
\* database decided.
LEMMA RunIs ==
  ASSUME Types, NumbersInv, NEW s \in running
  PROVE  /\ RunRefused(s) \/ RunFails(s) \/ RunCommits(s) => \E N : RunAdds(s, N)
         /\ RunRefused(s) =>
              /\ Fired(s) \in Kinds /\ s.step \in 1..Len(s.sql)
              /\ \E w \in BOOLEAN : /\ w = TRUE => Certain(s)
                                   /\ \/ Answer(s, "error", NoRule, Fired(s), w)
                                      \/ \E r \in Refusing(s, w) : Answer(s, "blocked", r, Fired(s), w)
<1>0. /\ s \in Runs /\ ledger \in SUBSET Rows /\ nextId \in Nat /\ s.ids \in SUBSET Nat /\ HasMax(s.ids) /\ \A i \in s.ids : i < nextId
      /\ s.step > 0 /\ s.step \in Nat /\ s.sql \in SQLs /\ s.sql \in Seq(Kinds) /\ s.n \in Nat
  BY ChangesAssumption DEF Types, Runs, NumbersInv
<1>1. ASSUME UNCHANGED <<ledger, nextId>> PROVE RunAdds(s, {})
  BY <1>0, <1>1 DEF RunAdds, HasMax
<1>2. ASSUME RunRefused(s) PROVE \E N : RunAdds(s, N)
  <2>1. CASE UNCHANGED <<ledger, nextId>>
    BY <1>1, <2>1
  <2>2. CASE ledger' = ledger \union {Row(nextId, s, TRUE, <<>>)} /\ nextId' = nextId + 1
    <3> DEFINE w == Row(nextId, s, TRUE, <<>>)
    <3>1. w \in Rows /\ w.id = nextId /\ w.call = s.n /\ w.hash = <<>>
      BY <1>0 DEF Row, Rows
    <3> HIDE DEF w
    <3>2. {r.id : r \in {w}} = {nextId}
      BY <3>1
    <3>3. HasMax({r.id : r \in {w}})
      BY <1>0, <3>2 DEF HasMax
    <3>4. ledger' = ledger \union {w} /\ {w} \in SUBSET Rows /\ nextId' \in Nat /\ nextId' >= nextId /\ nextId < nextId'
      <4>1. ledger' = ledger \union {w}
        BY <2>2 DEF w
      <4>2. nextId' \in Nat /\ nextId' >= nextId /\ nextId < nextId'
        BY <1>0, <2>2
      <4> QED BY <3>1, <4>1, <4>2
    <3>5. \A r \in {w} : r = w
      OBVIOUS
    <3>6. RunAdds(s, {w})
      BY <3>1, <3>3, <3>4, <3>5, <1>0 DEF RunAdds
    <3> QED BY <3>6
  <2> QED BY <1>2, <2>1, <2>2 DEF RunRefused
<1>3. ASSUME RunFails(s) PROVE \E N : RunAdds(s, N)
  BY <1>1, <1>3 DEF RunFails
<1>4. ASSUME RunCommits(s) PROVE \E N : RunAdds(s, N)
  <2>0. PICK cap \in SUBSET s.ids : ledger' = ledger \union {Row(i, s, FALSE, IF i \in cap THEN s.sql ELSE <<>>) : i \in s.ids}
    BY <1>4 DEF RunCommits
  <2> DEFINE w(i) == Row(i, s, FALSE, IF i \in cap THEN s.sql ELSE <<>>)
             N == {w(i) : i \in s.ids}
  <2>1. ASSUME NEW i \in s.ids PROVE w(i) \in Rows /\ w(i).id = i
    BY <1>0 DEF Row, Rows
  <2>2. ASSUME NEW i \in s.ids PROVE w(i).call = s.n /\ w(i).hash \in {s.sql, <<>>}
    BY <1>0 DEF Row, Rows
  <2>9. ledger' = ledger \union N
    BY <2>0
  <2> HIDE DEF w
  <2>3. N \in SUBSET Rows
    BY <2>1, Zenon
  <2>4. \A r \in N : r.call = s.n /\ r.id \in s.ids /\ r.hash \in {s.sql, <<>>}
    <3> SUFFICES ASSUME NEW r \in N PROVE r.call = s.n /\ r.id \in s.ids /\ r.hash \in {s.sql, <<>>}
      OBVIOUS
    <3>1. PICK i \in s.ids : r = w(i)
      OBVIOUS
    <3> QED BY <2>1, <2>2, <3>1
  <2>5. {r.id : r \in N} = s.ids
    <3>1. \A i \in s.ids : i \in {r.id : r \in N}
      BY <2>1, Zenon
    <3> QED BY <2>4, <3>1
  <2>6. ledger' = ledger \union N /\ nextId' = nextId
    BY <1>4, <2>9 DEF RunCommits
  <2> HIDE DEF N
  <2>7. RunAdds(s, N)
    <3>1. HasMax({r.id : r \in N})
      BY <1>0, <2>5
    <3>2. \A r \in N : r.id < nextId'
      BY <1>0, <2>4, <2>6
    <3>3. nextId' \in Nat /\ nextId' >= nextId
      BY <1>0, <2>6
    <3> QED BY <2>3, <2>4, <2>6, <3>1, <3>2, <3>3 DEF RunAdds
  <2> QED BY <2>7
<1>5. ASSUME RunRefused(s)
      PROVE  /\ Fired(s) \in Kinds /\ s.step \in 1..Len(s.sql)
             /\ \E w \in BOOLEAN : /\ w = TRUE => Certain(s)
                                  /\ \/ Answer(s, "error", NoRule, Fired(s), w)
                                     \/ \E r \in Refusing(s, w) : Answer(s, "blocked", r, Fired(s), w)
  <2>1. s.step \in 1..Len(s.sql) /\ Fired(s) # "none"
    BY <1>0, <1>5 DEF RunRefused
  <2>2. s.sql[s.step] \in Kinds
    BY <1>0, <2>1
  <2>3. Fired(s) \in Kinds
    BY <2>1, <2>2, ChangesAssumption DEF Fired
  <2>4. PICK w \in BOOLEAN : /\ w => Certain(s)
                            /\ IF TagOf[Fired(s)] \in Guarded THEN Answer(s, "error", NoRule, Fired(s), w)
                               ELSE \E r \in Refusing(s, w) : Answer(s, "blocked", r, Fired(s), w)
    BY <1>5 DEF RunRefused
  <2> QED BY <2>1, <2>3, <2>4
<1> QED BY <1>2, <1>3, <1>4, <1>5

\* And answers its call, if that still waits.
LEMMA RunAnswers ==
  ASSUME Types, NumbersInv, NEW s \in running, RunRefused(s) \/ RunFails(s) \/ RunCommits(s)
  PROVE  /\ running' = running \ {s}
         /\ call.pc = "waiting" /\ call.n = s.n => \E t, r, k, w : CallGoes("answered", call.marker, call.known, t, r, k, w, call.entries)
         /\ ~ (call.pc = "waiting" /\ call.n = s.n) => call' = call
<1>1. \E t \in {"applied", "blocked", "error"}, r \in RuleIds \union {NoRule}, k \in Kinds \union {"none"}, w \in BOOLEAN : Answer(s, t, r, k, w)
  <2>1. CASE RunRefused(s)
    <3>1. \A w \in BOOLEAN : Refusing(s, w) \subseteq RuleIds
      BY DEF Refusing
    <3> QED BY <2>1, <3>1, RunIs, Zenon
  <2>2. CASE RunFails(s) \/ RunCommits(s)
    BY <2>2 DEF RunFails, RunCommits
  <2> QED BY <2>1, <2>2
<1>2. PICK t \in {"applied", "blocked", "error"}, r \in RuleIds \union {NoRule}, k \in Kinds \union {"none"}, w \in BOOLEAN :
        Answer(s, t, r, k, w)
  BY <1>1, Zenon
<1>3. running' = running \ {s} /\ (~ (call.pc = "waiting" /\ call.n = s.n) => call' = call)
  BY <1>2, Zenon DEF Answer
<1>4. ASSUME call.pc = "waiting", call.n = s.n
      PROVE  CallGoes("answered", call.marker, call.known, t, r, k, w, call.entries)
  <2>1. call' = [call EXCEPT !.pc = "answered", !.status = t, !.by = r, !.kind = k, !.sure = w]
    BY <1>2, <1>4, Zenon DEF Answer
  <2> QED BY <2>1, CallIs, Zenon
<1> QED BY <1>3, <1>4, Zenon

\* One statement of SQL s runs, which leaves t.
LEMMA StatementIs ==
  ASSUME Types, NumbersInv, NEW s \in running, RunStatement(s)
  PROVE  \E t \in Runs : /\ running' = (running \ {s}) \union {t}
                         /\ t.n = s.n /\ t.sql = s.sql /\ t.step = s.step + 1
                         /\ \/ t.ids = s.ids \union {nextId} /\ nextId' = nextId + 1
                            \/ t.ids = s.ids /\ nextId' = nextId
                         /\ s.step <= Len(s.sql) /\ HasMax(t.ids)
                         /\ UNCHANGED <<rules, version, ledger, call, late>>
<1> DEFINE Y == IF nextId' = nextId THEN {} ELSE {nextId}
           t == [s EXCEPT !.step = s.step + 1, !.ids = s.ids \union Y]
<1>1. s \in Runs /\ nextId \in Nat /\ s.ids \in SUBSET Nat /\ HasMax(s.ids) /\ s.step \in Nat /\ Y \in SUBSET Nat
  BY DEF Types, Runs, NumbersInv
<1>2. t \in Runs /\ t.n = s.n /\ t.sql = s.sql /\ t.step = s.step + 1 /\ t.ids = s.ids \union Y
  <2> DEFINE I == s.ids \union Y
             k == s.step + 1
  <2>1. I \in SUBSET Nat /\ k \in Nat
    BY <1>1
  <2>2. t = [s EXCEPT !.step = k, !.ids = I]
    OBVIOUS
  <2> HIDE DEF I, k
  <2>3. [s EXCEPT !.step = k, !.ids = I] \in Runs
    BY <1>1, <2>1 DEF Runs
  <2>4. /\ [s EXCEPT !.step = k, !.ids = I].n = s.n /\ [s EXCEPT !.step = k, !.ids = I].sql = s.sql
        /\ [s EXCEPT !.step = k, !.ids = I].step = k /\ [s EXCEPT !.step = k, !.ids = I].ids = I
    BY <1>1 DEF Runs
  <2> QED BY <2>2, <2>3, <2>4 DEF I, k
<1>3. /\ running' = (running \ {s}) \union {t}
      /\ (Y = {nextId} /\ nextId' = nextId + 1) \/ (Y = {} /\ nextId' = nextId)
  <2>1. CASE running' = (running \ {s}) \union {[s EXCEPT !.step = @ + 1, !.ids = @ \union {nextId}]} /\ nextId' = nextId + 1
    <3>1. Y = {nextId}
      BY <1>1, <2>1
    <3> HIDE DEF Y
    <3> QED BY <2>1, <3>1
  <2>2. CASE running' = (running \ {s}) \union {[s EXCEPT !.step = @ + 1]} /\ nextId' = nextId
    <3>1. s.ids \union Y = s.ids /\ Y = {}
      BY <2>2
    <3>2. [s EXCEPT !.step = s.step + 1] = [s EXCEPT !.step = s.step + 1, !.ids = s.ids]
      BY <1>1 DEF Runs
    <3> HIDE DEF Y
    <3> QED BY <2>2, <3>1, <3>2
  <2> QED BY <2>1, <2>2 DEF RunStatement
<1> HIDE DEF t
<1>4. HasMax(Y)
  BY <1>1 DEF HasMax
<1> HIDE DEF Y
<1>5. HasMax(t.ids)
  <2>1. HasMax(s.ids \union Y)
    BY <1>1, <1>4, MaxUnion
  <2> QED BY <1>2, <2>1
<1>6. s.step <= Len(s.sql) /\ UNCHANGED <<rules, version, ledger, call, late>>
  BY DEF RunStatement
<1>7. (t.ids = s.ids \union {nextId} /\ nextId' = nextId + 1) \/ (t.ids = s.ids /\ nextId' = nextId)
  BY <1>2, <1>3
<1> QED BY <1>2, <1>3, <1>5, <1>6, <1>7

\* The steps of the call itself.
LEMMA CallerIs ==
  ASSUME Types, NumbersInv
  PROVE  /\ StartAgentSession => \/ CallGoes("marked", Marker, call.known, call.status, call.by, call.kind, call.sure, call.entries)
                                 \/ CallGoes("marked", call.marker, FALSE, call.status, call.by, call.kind, call.sure, call.entries)
                                 \/ CallGoes("done", call.marker, call.known, "failed", call.by, call.kind, call.sure, call.entries)
         /\ Send => \/ CallGoes("waiting", call.marker, call.known, call.status, call.by, call.kind, call.sure, call.entries)
                    \/ CallGoes("done", call.marker, call.known, "failed", call.by, call.kind, call.sure, call.entries)
         /\ TimeOut => CallGoes("done", call.marker, call.known, "failed", call.by, call.kind, call.sure, call.entries)
         /\ ReadEntries => \/ CallGoes("done", call.marker, call.known, call.status, call.by, call.kind, call.sure, Entries)
                           \/ CallGoes("done", call.marker, FALSE, call.status, call.by, call.kind, call.sure, call.entries)
<1>1. Marker \in Nat
  BY MarkerIs
<1>2. Entries \in SUBSET Nat
  BY DEF Types, Rows, Entries
<1>3. ASSUME StartAgentSession
      PROVE  \/ CallGoes("marked", Marker, call.known, call.status, call.by, call.kind, call.sure, call.entries)
             \/ CallGoes("marked", call.marker, FALSE, call.status, call.by, call.kind, call.sure, call.entries)
             \/ CallGoes("done", call.marker, call.known, "failed", call.by, call.kind, call.sure, call.entries)
  BY <1>1, <1>3, CallIs DEF StartAgentSession
<1>4. ASSUME Send
      PROVE  \/ CallGoes("waiting", call.marker, call.known, call.status, call.by, call.kind, call.sure, call.entries)
             \/ CallGoes("done", call.marker, call.known, "failed", call.by, call.kind, call.sure, call.entries)
  BY <1>4, CallIs DEF Send
<1>5. ASSUME TimeOut PROVE CallGoes("done", call.marker, call.known, "failed", call.by, call.kind, call.sure, call.entries)
  BY <1>5, CallIs DEF TimeOut
<1>6. ASSUME ReadEntries
      PROVE  \/ CallGoes("done", call.marker, call.known, call.status, call.by, call.kind, call.sure, Entries)
             \/ CallGoes("done", call.marker, FALSE, call.status, call.by, call.kind, call.sure, call.entries)
  BY <1>2, <1>6, CallIs DEF ReadEntries
<1> QED BY <1>3, <1>4, <1>5, <1>6

\* ChangesNext, action by action; the changes of the rules leave the rest.
LEMMA StepCases ==
  ASSUME [ChangesNext]_changeVars
  PROVE  \/ UNCHANGED changeVars
         \/ RuleChanged /\ UNCHANGED <<ledger, nextId, call, running, late, skipped>>
         \/ \E sql \in SQLs, dryRun \in BOOLEAN : Preview(sql, dryRun)
         \/ StartAgentSession \/ Send \/ TimeOut \/ ReadEntries \/ OtherClient
         \/ \E s \in running : RunRefused(s) \/ RunStatement(s) \/ RunFails(s) \/ RunCommits(s)
<1>1. ASSUME NEW r, NEW x, NEW y, AddPolicyRule(r, x) \/ UpdatePolicyRule(r, x, y) \/ RemovePolicyRule(r)
      PROVE  RuleChanged /\ UNCHANGED <<ledger, nextId, call, running, late, skipped>>
  BY <1>1 DEF AddPolicyRule, UpdatePolicyRule, RemovePolicyRule
<1> DEFINE Rest == \/ \E sql \in SQLs, dryRun \in BOOLEAN : Preview(sql, dryRun)
                   \/ StartAgentSession \/ Send \/ TimeOut \/ ReadEntries \/ OtherClient
                   \/ \E s \in running : RunRefused(s) \/ RunStatement(s) \/ RunFails(s) \/ RunCommits(s)
<1>2. CASE ChangesNext
  <2>1. \/ \E r, x : AddPolicyRule(r, x)
        \/ \E r, x, y : UpdatePolicyRule(r, x, y)
        \/ \E r : RemovePolicyRule(r)
        \/ Rest
    BY <1>2, Zenon DEF ChangesNext
  <2> QED BY <1>1, <2>1, Zenon
<1> QED BY <1>2

\* Every step keeps the numbers.
LEMMA NumbersKept == Types /\ NumbersInv /\ [ChangesNext]_changeVars => Types' /\ NumbersInv'
<1> SUFFICES ASSUME Types, NumbersInv, [ChangesNext]_changeVars PROVE Types' /\ NumbersInv'
  OBVIOUS
<1>0. /\ version \in Nat /\ nextId \in Nat /\ nextId > 0 /\ skipped \in BOOLEAN
      /\ call \in Calls /\ running \in SUBSET Runs /\ ledger \in SUBSET Rows
      /\ call.n \in Nat /\ call.marker \in Nat
  BY DEF Types, Calls
<1>1. ASSUME NEW N \in SUBSET Rows, ledger' = ledger \union N, HasMax({r.id : r \in N}), nextId' \in Nat, nextId' >= nextId,
             call'.n \in Nat, call'.n >= call.n, \A r \in N : r.id < nextId' /\ r.call <= call'.n
      PROVE  /\ ledger' \in SUBSET Rows /\ HasMax({r.id : r \in ledger'})
             /\ \A r \in ledger' : r.id < nextId' /\ r.call <= call'.n
  <2>1. {r.id : r \in ledger'} = {r.id : r \in ledger} \union {r.id : r \in N}
    BY <1>1
  <2>2. {r.id : r \in ledger} \in SUBSET Nat /\ {r.id : r \in N} \in SUBSET Nat
    BY <1>0, <1>1 DEF Rows
  <2>3. HasMax({r.id : r \in ledger'})
    BY <1>1, <2>1, <2>2, MaxUnion DEF NumbersInv
  <2>4. \A r \in ledger : r.id \in Nat /\ r.call \in Nat /\ r.id < nextId /\ r.call <= call.n
    BY <1>0 DEF Rows, NumbersInv
  <2>5. \A r \in ledger : r.id < nextId' /\ r.call <= call'.n
    BY <1>0, <1>1, <2>4
  <2> QED BY <1>0, <1>1, <2>3, <2>5
<1>2. ASSUME UNCHANGED ledger, nextId' \in Nat, nextId' >= nextId, call'.n \in Nat, call'.n >= call.n
      PROVE  /\ ledger' \in SUBSET Rows /\ HasMax({r.id : r \in ledger'})
             /\ \A r \in ledger' : r.id < nextId' /\ r.call <= call'.n
  <2>1. \A r \in ledger : r.id \in Nat /\ r.call \in Nat /\ r.id < nextId /\ r.call <= call.n
    BY <1>0 DEF Rows, NumbersInv
  <2> QED BY <1>0, <1>2, <2>1 DEF NumbersInv
<1> DEFINE RunOK(s) == /\ \A i \in s.ids : i < nextId'
                       /\ s.n > 0 /\ s.n <= call'.n /\ s.step > 0 /\ s.step <= Len(s.sql) + 1 /\ HasMax(s.ids)
                       /\ s.n = call'.n => s.sql = call'.sql /\ call'.pc \notin {"previewed", "marked"}
<1>3. ASSUME nextId' \in Nat, nextId' >= nextId, call'.n \in Nat, call'.n > call.n \/ (call'.n = call.n /\ call'.sql = call.sql),
             call'.pc \in {"previewed", "marked"} => call'.n > call.n \/ call.pc \in {"previewed", "marked"}
      PROVE  \A s \in running : RunOK(s)
  <2> SUFFICES ASSUME NEW s \in running PROVE RunOK(s)
    OBVIOUS
  <2>1. /\ s.n \in Nat /\ s.ids \in SUBSET Nat /\ s.n > 0 /\ s.n <= call.n /\ s.step > 0 /\ s.step <= Len(s.sql) + 1 /\ HasMax(s.ids)
        /\ \A i \in s.ids : i < nextId
        /\ s.n = call.n => s.sql = call.sql /\ call.pc \notin {"previewed", "marked"}
    BY <1>0 DEF Runs, NumbersInv
  <2>2. \A i \in s.ids : i < nextId'
    BY <1>0, <1>3, <2>1
  <2>3. s.n <= call'.n
    BY <1>0, <1>3, <2>1
  <2>4. s.n = call'.n => s.sql = call'.sql /\ call'.pc \notin {"previewed", "marked"}
    BY <1>0, <1>3, <2>1
  <2> QED BY <2>1, <2>2, <2>3, <2>4
<1> DEFINE CallOK == /\ call' \in Calls /\ call'.marker < nextId'
                     /\ call'.pc # "done" \/ call'.status # "none" => call'.n > 0
                     /\ call'.n > 0 => call'.sql \in SQLs
                     /\ call'.pc \in {"previewed", "marked", "waiting"} => call'.status = "none"
<1>4. ASSUME UNCHANGED call, nextId' \in Nat, nextId' >= nextId PROVE CallOK
  BY <1>0, <1>4 DEF NumbersInv
<1>5. ASSUME NEW pc, NEW m, NEW k, NEW st, NEW by, NEW kind, NEW w, NEW E, CallGoes(pc, m, k, st, by, kind, w, E),
             call.pc # "done", pc # "previewed", nextId' \in Nat, m < nextId', pc \in {"marked", "waiting"} => st = call.status /\ call.pc \in {"previewed", "marked"}
      PROVE  CallOK
  <2>1. call.n > 0 /\ call.sql \in SQLs /\ (call.pc \in {"previewed", "marked", "waiting"} => call.status = "none")
    BY <1>0, <1>5 DEF NumbersInv
  <2>2. pc \in {"done", "previewed", "marked", "waiting", "answered"}
    BY <1>5 DEF CallGoes, Calls
  <2> QED BY <1>5, <2>1, <2>2 DEF CallGoes
<1>6. ASSUME version' \in Nat, skipped' \in BOOLEAN, nextId' \in Nat, nextId' > 0,
             ledger' \in SUBSET Rows, HasMax({r.id : r \in ledger'}), \A r \in ledger' : r.id < nextId' /\ r.call <= call'.n,
             running' \in SUBSET Runs, \A s \in running' : RunOK(s), CallOK
      PROVE  Types' /\ NumbersInv'
  BY <1>6 DEF Types, NumbersInv
<1> HIDE DEF RunOK, CallOK
<1>7. ASSUME NEW s \in running, NEW N, RunAdds(s, N) PROVE \A r \in N : r.call <= call.n
  BY <1>7 DEF RunAdds, NumbersInv
<1>8. CASE UNCHANGED changeVars \/ (RuleChanged /\ UNCHANGED <<ledger, nextId, call, running, late, skipped>>)
  <2>1. version' \in Nat /\ UNCHANGED <<ledger, nextId, call, running, late, skipped>>
    BY <1>0, <1>8 DEF RuleChanged, changeVars
  <2> QED BY <1>0, <1>2, <1>3, <1>4, <1>6, <2>1
<1>9. ASSUME NEW sql \in SQLs, NEW dryRun \in BOOLEAN, Preview(sql, dryRun) PROVE Types' /\ NumbersInv'
  <2>1. UNCHANGED <<rules, version, ledger, nextId, running, late, skipped>>
    BY <1>9 DEF Preview
  <2>2. /\ call' \in Calls /\ call'.n = call.n + 1 /\ call'.sql = sql /\ call'.marker = 0
        /\ call'.pc \in {"done", "previewed"} /\ (call'.pc = "previewed" => call'.status = "none")
    BY <1>9, PreviewIs
  <2>3. call'.n \in Nat /\ call'.n > call.n /\ call'.n >= call.n /\ call'.n > 0
    BY <1>0, <2>2
  <2>4. CallOK
    BY <1>0, <2>1, <2>2, <2>3 DEF CallOK
  <2>5. nextId' \in Nat /\ nextId' >= nextId
    BY <1>0, <2>1
  <2> QED BY <1>0, <1>2, <1>3, <1>6, <2>1, <2>3, <2>4, <2>5
<1>10. ASSUME StartAgentSession \/ Send \/ TimeOut \/ ReadEntries PROVE Types' /\ NumbersInv'
  <2>1. UNCHANGED <<version, ledger, nextId, skipped>>
    BY <1>10 DEF StartAgentSession, Send, TimeOut, ReadEntries
  <2>2. Marker \in Nat /\ Marker < nextId
    BY MarkerIs
  <2>4. StartAgentSession => \/ CallGoes("marked", Marker, call.known, call.status, call.by, call.kind, call.sure, call.entries)
                             \/ CallGoes("marked", call.marker, FALSE, call.status, call.by, call.kind, call.sure, call.entries)
                             \/ CallGoes("done", call.marker, call.known, "failed", call.by, call.kind, call.sure, call.entries)
    BY CallerIs
  <2>5. Send => \/ CallGoes("waiting", call.marker, call.known, call.status, call.by, call.kind, call.sure, call.entries)
                \/ CallGoes("done", call.marker, call.known, "failed", call.by, call.kind, call.sure, call.entries)
    BY CallerIs
  <2>6. TimeOut => CallGoes("done", call.marker, call.known, "failed", call.by, call.kind, call.sure, call.entries)
    BY CallerIs
  <2>7. ReadEntries => \/ CallGoes("done", call.marker, call.known, call.status, call.by, call.kind, call.sure, Entries)
                       \/ CallGoes("done", call.marker, FALSE, call.status, call.by, call.kind, call.sure, call.entries)
    BY CallerIs
  <2>8. call.marker < nextId
    BY DEF NumbersInv
  <2>9. CallOK
    <3>1. CASE StartAgentSession
      BY <1>0, <1>5, <2>1, <2>2, <2>4, <2>8, <3>1 DEF StartAgentSession
    <3>2. CASE Send
      BY <1>0, <1>5, <2>1, <2>5, <2>8, <3>2 DEF Send
    <3>3. CASE TimeOut
      BY <1>0, <1>5, <2>1, <2>6, <2>8, <3>3 DEF TimeOut
    <3>4. CASE ReadEntries
      BY <1>0, <1>5, <2>1, <2>7, <2>8, <3>4 DEF ReadEntries
    <3> QED BY <1>10, <3>1, <3>2, <3>3, <3>4
  <2>10. call'.n = call.n /\ call'.sql = call.sql
    BY <1>10, <2>4, <2>5, <2>6, <2>7 DEF CallGoes
  <2>11. call'.pc \in {"previewed", "marked"} => call.pc \in {"previewed", "marked"}
    <3>1. StartAgentSession => call.pc = "previewed"
      BY DEF StartAgentSession
    <3>2. Send => call'.pc \in {"waiting", "done"}
      BY <2>5 DEF CallGoes
    <3>3. TimeOut \/ ReadEntries => call'.pc = "done"
      BY <2>6, <2>7 DEF CallGoes
    <3> QED BY <1>10, <3>1, <3>2, <3>3
  <2>12. \A s \in running : RunOK(s)
    BY <1>0, <1>3, <2>1, <2>10, <2>11
  <2>13. running' \in SUBSET Runs /\ \A s \in running' : RunOK(s)
    <3>1. CASE running' = running
      BY <1>0, <2>12, <3>1
    <3>2. CASE running' # running
      <4> DEFINE t == [n |-> call.n, sql |-> call.sql, step |-> 1, ids |-> {}]
      <4>1. SetCall("waiting") /\ running' = running \union {t} /\ call.pc = "marked"
        BY <1>10, <3>2 DEF StartAgentSession, Send, TimeOut, ReadEntries
      <4>2. call.n > 0 /\ call.sql \in SQLs /\ call.sql \in Seq(Kinds)
        BY <1>0, <4>1, ChangesAssumption DEF NumbersInv
      <4>3. t \in Runs /\ t.n = call.n /\ t.sql = call.sql /\ t.step = 1 /\ t.ids = {}
        BY <1>0, <4>2 DEF Runs
      <4>4. call'.pc = "waiting"
        BY <4>1, CallIs DEF CallGoes
      <4>5. Len(call.sql) \in Nat
        BY <4>2
      <4> HIDE DEF t
      <4>6. RunOK(t)
        BY <1>0, <2>10, <4>2, <4>3, <4>4, <4>5 DEF RunOK, HasMax
      <4> QED BY <1>0, <2>12, <4>1, <4>3, <4>6
    <3> QED BY <3>1, <3>2
  <2> QED BY <1>0, <1>2, <1>6, <2>1, <2>9, <2>10, <2>13
<1>11. ASSUME OtherClient PROVE Types' /\ NumbersInv'
  <2> DEFINE w == [id |-> nextId, call |-> 0, hash |-> <<>>, blocked |-> FALSE]
  <2>1. ledger' = ledger \union {w} /\ nextId' = nextId + 1 /\ UNCHANGED <<version, call, running, skipped>>
    BY <1>11 DEF OtherClient
  <2>2. w \in Rows /\ w.id = nextId /\ w.call = 0
    BY <1>0 DEF Rows
  <2> HIDE DEF w
  <2>3. {r.id : r \in {w}} = {nextId}
    BY <2>2
  <2>4. HasMax({r.id : r \in {w}})
    BY <1>0, <2>3 DEF HasMax
  <2>5. nextId' \in Nat /\ nextId' >= nextId /\ nextId' > 0 /\ nextId < nextId'
    BY <1>0, <2>1
  <2>6. \A r \in {w} : r.id < nextId' /\ r.call <= call'.n
    BY <1>0, <2>1, <2>2, <2>5
  <2>7. /\ ledger' \in SUBSET Rows /\ HasMax({r.id : r \in ledger'})
        /\ \A r \in ledger' : r.id < nextId' /\ r.call <= call'.n
    <3>1. {w} \in SUBSET Rows /\ call'.n \in Nat /\ call'.n >= call.n
      BY <1>0, <2>1, <2>2
    <3> QED BY <1>1, <2>1, <2>4, <2>5, <2>6, <3>1, Zenon
  <2> QED BY <1>0, <1>3, <1>4, <1>6, <2>1, <2>5, <2>7
<1>12. ASSUME NEW s \in running, RunRefused(s) \/ RunFails(s) \/ RunCommits(s) PROVE Types' /\ NumbersInv'
  <2>1. PICK N : RunAdds(s, N)
    BY <1>12, RunIs
  <2>2. running' = running \ {s} /\ (call' = call \/ \E t, r, k, w : CallGoes("answered", call.marker, call.known, t, r, k, w, call.entries) /\ call.pc = "waiting")
    BY <1>12, RunAnswers
  <2>3. nextId' \in Nat /\ nextId' >= nextId /\ nextId' > 0 /\ N \in SUBSET Rows /\ ledger' = ledger \union N
    BY <1>0, <2>1 DEF RunAdds
  <2>4. call'.n = call.n /\ call'.sql = call.sql /\ (call'.pc \in {"previewed", "marked"} => call.pc \in {"previewed", "marked"})
    BY <2>2 DEF CallGoes
  <2>5. /\ ledger' \in SUBSET Rows /\ HasMax({r.id : r \in ledger'})
        /\ \A r \in ledger' : r.id < nextId' /\ r.call <= call'.n
    <3>1. call'.n \in Nat /\ call'.n >= call.n
      BY <1>0, <2>4
    <3>2. HasMax({r.id : r \in N}) /\ \A r \in N : r.id < nextId' /\ r.call <= call'.n
      BY <1>7, <2>1, <2>4 DEF RunAdds
    <3> QED BY <1>1, <2>3, <3>1, <3>2, Zenon
  <2>6. \A t \in running : RunOK(t)
    BY <1>0, <1>3, <2>3, <2>4
  <2>7. CallOK
    <3>1. call.marker < nextId'
      BY <1>0, <2>3 DEF NumbersInv
    <3> QED BY <1>4, <1>5, <2>2, <2>3, <3>1
  <2>8. UNCHANGED <<version, skipped>>
    BY <1>12 DEF RunRefused, RunFails, RunCommits
  <2> QED BY <1>0, <1>6, <2>2, <2>3, <2>5, <2>6, <2>7, <2>8
<1>13. ASSUME NEW s \in running, RunStatement(s) PROVE Types' /\ NumbersInv'
  <2>1. PICK t \in Runs : /\ running' = (running \ {s}) \union {t}
                          /\ t.n = s.n /\ t.sql = s.sql /\ t.step = s.step + 1
                          /\ \/ t.ids = s.ids \union {nextId} /\ nextId' = nextId + 1
                             \/ t.ids = s.ids /\ nextId' = nextId
                          /\ s.step <= Len(s.sql) /\ HasMax(t.ids)
                          /\ UNCHANGED <<rules, version, ledger, call, late>>
    BY <1>13, StatementIs
  <2>2. nextId' \in Nat /\ nextId' >= nextId /\ nextId' > 0 /\ UNCHANGED call
    BY <1>0, <2>1
  <2>3. \A u \in running : RunOK(u)
    BY <1>0, <1>3, <2>2
  <2>4. RunOK(t)
    <3>1. RunOK(s) /\ s.step \in Nat /\ s.sql \in Seq(Kinds)
      BY <1>0, <2>3, ChangesAssumption DEF Runs
    <3>2. t.step > 0 /\ t.step <= Len(t.sql) + 1
      BY <2>1, <3>1 DEF RunOK
    <3>3. \A i \in t.ids : i < nextId'
      BY <1>0, <2>1, <2>2, <3>1 DEF RunOK
    <3> QED BY <2>1, <3>1, <3>2, <3>3 DEF RunOK
  <2>5. skipped' \in BOOLEAN
    BY <1>0, <1>13, Zenon DEF RunStatement, Passes
  <2>6. running' \in SUBSET Runs /\ \A u \in running' : RunOK(u)
    BY <1>0, <2>1, <2>3, <2>4
  <2> QED BY <1>0, <1>2, <1>4, <1>6, <2>1, <2>2, <2>5, <2>6
<1> QED BY <1>8, <1>9, <1>10, <1>11, <1>12, <1>13, StepCases
-----------------------------------------------------------------------------
(* The entries of a call *)

\* Every step keeps a call's rows apart from the others'.
LEMMA OwnKept == Types /\ NumbersInv /\ OwnInv /\ [ChangesNext]_changeVars => OwnInv'
<1> SUFFICES ASSUME Types, NumbersInv, OwnInv, [ChangesNext]_changeVars, late' = {} PROVE OwnInv'
  BY DEF OwnInv
<1>0. /\ nextId \in Nat /\ call \in Calls /\ running \in SUBSET Runs /\ ledger \in SUBSET Rows /\ call.n \in Nat
      /\ call.marker \in Nat /\ call.marker < nextId /\ call.known \in BOOLEAN
  BY DEF Types, Calls, NumbersInv
<1>1. \A r \in ledger : r.id \in Nat /\ r.id < nextId /\ r.call \in Nat /\ r.call <= call.n /\ r.blocked \in BOOLEAN
  BY <1>0 DEF NumbersInv, Rows
<1>2. CASE UNCHANGED <<ledger, call, running, late>>
  BY <1>2 DEF OwnInv
<1>3. ASSUME late = {}
      PROVE  /\ \A s \in running : /\ call.pc = "waiting" /\ s.n = call.n /\ \A i \in s.ids : i > call.marker
                                   /\ \A t \in running : t = s
             /\ call.pc \in {"previewed", "marked", "waiting"} => \A r \in ledger : r.call < call.n
             /\ call.pc \in {"marked", "waiting", "answered"} /\ call.known = TRUE =>
                  \A r \in ledger : r.call > 0 /\ r.call < call.n => r.id <= call.marker
             /\ call.pc = "answered" => \A r \in ledger : r.call = call.n => r.id > call.marker /\ r.hash \in {call.sql, <<>>}
             /\ call.pc = "done" /\ call.status \in {"applied", "blocked", "error"} /\ call.known = TRUE =>
                  Reports(call.entries, ledger, call.n)
  BY <1>3 DEF OwnInv
<1>4. ASSUME NEW sql \in SQLs, NEW dryRun \in BOOLEAN, Preview(sql, dryRun) PROVE OwnInv'
  <2>1. UNCHANGED <<ledger, running, late>> /\ late = {}
    BY <1>4 DEF Preview
  <2>2. /\ call.pc = "done" /\ call'.n = call.n + 1 /\ call'.pc \in {"done", "previewed"} /\ call'.status \in {"preview", "none"}
    BY <1>4, PreviewIs
  <2>3. running = {}
    BY <1>3, <2>1, <2>2
  <2>4. \A r \in ledger : r.call < call'.n
    BY <1>0, <1>1, <2>2
  <2> QED BY <2>1, <2>2, <2>3, <2>4 DEF OwnInv
<1>5. ASSUME StartAgentSession PROVE OwnInv'
  <2>1. UNCHANGED <<ledger, running, late>> /\ late = {} /\ call.pc = "previewed"
    BY <1>5 DEF StartAgentSession
  <2>2. running = {} /\ \A r \in ledger : r.call < call.n
    BY <1>3, <2>1
  <2>3. \A r \in ledger : r.id <= Marker
    BY MarkerIs
  <2>4. /\ call'.n = call.n
        /\ \/ call'.pc = "marked" /\ call'.marker = Marker
           \/ call'.pc = "marked" /\ call'.known = FALSE
           \/ call'.pc = "done" /\ call'.status = "failed"
    BY <1>5, CallerIs DEF CallGoes
  <2> QED BY <2>1, <2>2, <2>3, <2>4 DEF OwnInv
<1>6. ASSUME Send PROVE OwnInv'
  <2>1. UNCHANGED <<ledger, late>> /\ late = {} /\ call.pc = "marked"
    BY <1>6 DEF Send
  <2>2. running = {} /\ \A r \in ledger : r.call < call.n
    BY <1>3, <2>1
  <2> DEFINE t == [n |-> call.n, sql |-> call.sql, step |-> 1, ids |-> {}]
  <2>3. (SetCall("waiting") /\ running' = running \union {t}) \/ (End /\ running' = running)
    BY <1>6 DEF Send
  <2>4. t.n = call.n /\ t.ids = {}
    OBVIOUS
  <2> HIDE DEF t
  <2>5. CASE SetCall("waiting") /\ running' = running \union {t}
    <3>1. call'.pc = "waiting" /\ call'.n = call.n /\ call'.marker = call.marker /\ call'.known = call.known
      BY <2>5, CallIs DEF CallGoes
    <3>2. running' = {t}
      BY <2>2, <2>5
    <3>3. call.known = TRUE => \A r \in ledger : r.call > 0 /\ r.call < call.n => r.id <= call.marker
      BY <1>3, <2>1
    <3> QED BY <2>1, <2>2, <2>4, <3>1, <3>2, <3>3 DEF OwnInv
  <2>6. CASE End /\ running' = running
    <3>1. call'.pc = "done" /\ call'.status = "failed"
      BY <2>6, CallIs DEF CallGoes
    <3> QED BY <2>1, <2>2, <2>6, <3>1 DEF OwnInv
  <2> QED BY <2>3, <2>5, <2>6
<1>7. CASE TimeOut
  BY <1>7 DEF TimeOut
<1>8. ASSUME ReadEntries PROVE OwnInv'
  <2>1. UNCHANGED <<ledger, running, late>> /\ late = {} /\ call.pc = "answered"
    BY <1>8 DEF ReadEntries
  <2>2. running = {} /\ call.n > 0
    BY <1>3, <2>1 DEF NumbersInv
  <2>3. /\ call'.n = call.n /\ call'.pc = "done"
        /\ (call'.known = call.known /\ call'.entries = Entries) \/ call'.known = FALSE
    BY <1>8, CallerIs DEF CallGoes
  <2>4. ASSUME call.known = TRUE PROVE Reports(Entries, ledger, call.n)
    <3> DEFINE M == {q \in ledger : q.id > call.marker /\ q.call > 0 /\ (q.hash = call.sql \/ q.blocked)}
    <3>1. ASSUME NEW q \in ledger
          PROVE  /\ q \in M => q.call = call.n
                 /\ q.call = call.n => q \in M \/ (q.blocked = FALSE /\ q.hash = <<>>)
      <4>1. q.call > 0 /\ q.call < call.n => q.id <= call.marker
        BY <1>3, <2>1, <2>4
      <4>2. q.call = call.n => q.id > call.marker /\ q.hash \in {call.sql, <<>>}
        BY <1>1, <1>3, <2>1
      <4>3. q.id > call.marker /\ q.call > 0 => q.call = call.n
        BY <1>0, <1>1, <4>1
      <4>4. q.blocked \in BOOLEAN /\ call.n > 0
        BY <1>1, <2>2
      <4> QED BY <4>2, <4>3, <4>4
    <3>2. Entries = {q.id : q \in M} /\ M \subseteq ledger
      BY Zenon DEF Entries
    <3> HIDE DEF M
    <3>3. Entries \subseteq {q.id : q \in {r \in ledger : r.call = call.n}}
      BY <3>1, <3>2
    <3>4. \A q \in {r \in ledger : r.call = call.n} : q.id \in Entries \/ (q.blocked = FALSE /\ q.hash = <<>>)
      BY <3>1, <3>2
    <3> QED BY <3>3, <3>4 DEF Reports
  <2> QED BY <1>0, <2>1, <2>2, <2>3, <2>4 DEF OwnInv
<1>9. ASSUME OtherClient PROVE OwnInv'
  <2> DEFINE w == [id |-> nextId, call |-> 0, hash |-> <<>>, blocked |-> FALSE]
  <2>1. ledger' = ledger \union {w} /\ UNCHANGED <<call, running, late>> /\ late = {}
    BY <1>9 DEF OtherClient
  <2>2. w.call = 0 /\ w.id = nextId
    OBVIOUS
  <2> HIDE DEF w
  <2>3. call.pc # "done" \/ call.status # "none" => call.n > 0
    BY DEF NumbersInv
  <2>4. call.n > 0 => {q \in ledger' : q.call = call.n} = {q \in ledger : q.call = call.n}
    BY <1>0, <2>1, <2>2
  <2>a. ASSUME call.pc \in {"previewed", "marked", "waiting"} PROVE \A r \in ledger' : r.call < call.n
    <3>1. \A r \in ledger : r.call < call.n
      BY <1>3, <2>1, <2>a
    <3> QED BY <2>1, <2>2, <2>3, <2>a, <3>1
  <2>b. ASSUME call.pc \in {"marked", "waiting", "answered"}, call.known = TRUE
        PROVE  \A r \in ledger' : r.call > 0 /\ r.call < call.n => r.id <= call.marker
    <3>1. \A r \in ledger : r.call > 0 /\ r.call < call.n => r.id <= call.marker
      BY <1>3, <2>1, <2>b
    <3>2. ~ (w.call > 0)
      BY <2>2
    <3> QED BY <2>1, <3>1, <3>2
  <2>c. ASSUME call.pc = "answered"
        PROVE  \A r \in ledger' : r.call = call.n => r.id > call.marker /\ r.hash \in {call.sql, <<>>}
    <3>1. \A r \in ledger : r.call = call.n => r.id > call.marker /\ r.hash \in {call.sql, <<>>}
      BY <1>3, <2>1, <2>c
    <3>2. w.call # call.n
      BY <1>0, <2>2, <2>3, <2>c
    <3> QED BY <2>1, <3>1, <3>2
  <2>6. call.pc = "done" /\ call.status \in {"applied", "blocked", "error"} /\ call.known = TRUE =>
          Reports(call.entries, ledger', call.n)
    BY <1>3, <2>1, <2>3, <2>4 DEF Reports
  <2> QED BY <1>3, <2>1, <2>a, <2>b, <2>c, <2>6 DEF OwnInv
<1>10. ASSUME NEW s \in running, RunRefused(s) \/ RunFails(s) \/ RunCommits(s) PROVE OwnInv'
  <2>1. UNCHANGED late /\ late = {}
    BY <1>10 DEF RunRefused, RunFails, RunCommits
  <2>2. /\ call.pc = "waiting" /\ s.n = call.n /\ (\A i \in s.ids : i > call.marker) /\ running = {s}
        /\ \A r \in ledger : r.call < call.n
    BY <1>3, <2>1
  <2>3. s.ids \in SUBSET Nat /\ s.sql = call.sql
    BY <1>0, <2>2 DEF Runs, NumbersInv
  <2>4. PICK N : RunAdds(s, N)
    BY <1>10, RunIs
  <2>5. running' = {} /\ \E t, r, k, w : CallGoes("answered", call.marker, call.known, t, r, k, w, call.entries)
    BY <1>10, <2>2, RunAnswers
  <2>6. /\ call'.pc = "answered" /\ call'.n = call.n /\ call'.marker = call.marker /\ call'.known = call.known /\ call'.sql = call.sql
    BY <2>5 DEF CallGoes
  <2>7. \A r \in N : r.call = call.n /\ r.id > call.marker /\ r.hash \in {call.sql, <<>>}
    <3> SUFFICES ASSUME NEW r \in N PROVE r.call = call.n /\ r.id > call.marker /\ r.hash \in {call.sql, <<>>}
      OBVIOUS
    <3>1. r.id \in Nat /\ r.call = s.n /\ r.hash \in {s.sql, <<>>} /\ (r.id \in s.ids \/ r.id >= nextId)
      BY <2>4 DEF RunAdds, Rows
    <3>2. r.id > call.marker
      BY <1>0, <2>2, <3>1
    <3> QED BY <2>2, <2>3, <3>1, <3>2
  <2>8. ledger' = ledger \union N
    BY <2>4 DEF RunAdds
  <2>9. call.known = TRUE => \A r \in ledger : r.call > 0 /\ r.call < call.n => r.id <= call.marker
    BY <1>3, <2>1, <2>2
  <2>10. call.known = TRUE => \A r \in ledger' : r.call > 0 /\ r.call < call.n => r.id <= call.marker
    BY <1>0, <2>7, <2>8, <2>9
  <2>11. \A r \in ledger' : r.call = call.n => r.id > call.marker /\ r.hash \in {call.sql, <<>>}
    BY <1>0, <1>1, <2>2, <2>7, <2>8
  <2> QED BY <2>5, <2>6, <2>10, <2>11 DEF OwnInv
<1>11. ASSUME NEW s \in running, RunStatement(s) PROVE OwnInv'
  <2>1. PICK t \in Runs : /\ running' = (running \ {s}) \union {t}
                          /\ t.n = s.n /\ (t.ids = s.ids \union {nextId} \/ t.ids = s.ids)
                          /\ UNCHANGED <<rules, version, ledger, call, late>>
    BY <1>11, StatementIs
  <2>2. /\ call.pc = "waiting" /\ s.n = call.n /\ (\A i \in s.ids : i > call.marker) /\ running = {s} /\ late = {}
    BY <1>3, <2>1
  <2>3. running' = {t} /\ \A i \in t.ids : i > call.marker
    BY <1>0, <2>1, <2>2
  <2> QED BY <1>3, <2>1, <2>2, <2>3 DEF OwnInv
<1> QED BY <1>2, <1>4, <1>5, <1>6, <1>7, <1>8, <1>9, <1>10, <1>11, StepCases DEF changeVars

\* The entries a call reports are ones its own SQL made, neither another client's nor
\* those of an earlier call, and it leaves out only those whose call hash was not
\* captured, unless the marker or the entries could not be read or a call gave up on SQL
\* that was still running.
THEOREM ReportsItsOwnEntries == ChangesSpec => []EntriesAreItsOwn
<1>1. ChangesInit => Types /\ NumbersInv /\ OwnInv
  <2> SUFFICES ASSUME ChangesInit PROVE Types /\ NumbersInv /\ OwnInv
    OBVIOUS
  <2>1. NoCall \in Calls /\ NoCall.n = 0 /\ NoCall.pc = "done" /\ NoCall.status = "none" /\ NoCall.marker = 0
    BY DEF NoCall, Calls
  <2>2. call = NoCall /\ running = {} /\ ledger = {} /\ nextId = 1 /\ version = 0 /\ skipped = FALSE
    BY DEF ChangesInit
  <2>3. Types
    <3>1. 0 \in Nat /\ 1 \in Nat /\ 1 > 0 /\ {} \in SUBSET Runs /\ {} \in SUBSET Rows
      OBVIOUS
    <3> QED BY <2>1, <2>2, <3>1 DEF Types
  <2>4. {r.id : r \in ledger} = {}
    BY <2>2
  <2>5. NumbersInv
    BY <2>1, <2>2, <2>4 DEF NumbersInv, HasMax
  <2>6. OwnInv
    BY <2>1, <2>2 DEF OwnInv
  <2> QED BY <2>3, <2>5, <2>6
<1>2. Types /\ NumbersInv /\ OwnInv /\ [ChangesNext]_changeVars => Types' /\ NumbersInv' /\ OwnInv'
  BY NumbersKept, OwnKept
<1>3. Types /\ OwnInv => EntriesAreItsOwn
  <2> SUFFICES ASSUME Types, OwnInv, call.pc = "done", call.status \in {"applied", "blocked", "error"}, call.known, late = {}
               PROVE  LET own == {q \in ledger : q.call = call.n} IN
                      /\ call.entries \subseteq {q.id : q \in own}
                      /\ \A q \in own : q.id \in call.entries \/ (~ q.blocked /\ q.hash = <<>>)
    BY DEF EntriesAreItsOwn
  <2>1. call.known = TRUE
    BY DEF Types, Calls
  <2>2. Reports(call.entries, ledger, call.n)
    BY <2>1 DEF OwnInv
  <2> QED BY <2>2 DEF Reports
<1> QED BY <1>1, <1>2, <1>3, PTL DEF ChangesSpec
-----------------------------------------------------------------------------
(* The preview and the gate *)

\* The preview finds every rule that blocks a statement that carries the tag guessed.
LEMMA CheckCovers ==
  ASSUME NEW q, NEW i \in DOMAIN q, NEW r \in RuleIds, CommandTag(q) \in Carries[q[i]], Blocks(r, CommandTag(q), {q[i]})
  PROVE  r \in PolicyCheck(q)
<1> DEFINE C == {q[k] : k \in {j \in DOMAIN q : CommandTag(q) \in Carries[q[j]]}}
<1>1. q[i] \in C
  OBVIOUS
<1>2. Blocks(r, CommandTag(q), C)
  BY <1>1 DEF Blocks
<1> QED BY <1>2, Zenon DEF PolicyCheck

\* And no other, if the guess is right: SQL of which no statement is refused has an
\* empty preview.
LEMMA CheckExact ==
  ASSUME NEW q, GuessedRight(q), \A i \in DOMAIN q : Unrefused(q[i])
  PROVE  PolicyCheck(q) = {}
<1> SUFFICES ASSUME NEW r \in PolicyCheck(q) PROVE FALSE
  OBVIOUS
<1> DEFINE C == {q[k] : k \in {j \in DOMAIN q : CommandTag(q) \in Carries[q[j]]}}
<1>1. r \in RuleIds /\ Blocks(r, CommandTag(q), C)
  BY Zenon DEF PolicyCheck
<1>2. PICK k \in C : k \in rules[r].pattern
  BY <1>1 DEF Blocks
<1>3. PICK i \in DOMAIN q : k = q[i] /\ CommandTag(q) \in Carries[q[i]]
  BY <1>2
<1>4. Fires[q[i]] = q[i] /\ TagOf[q[i]] = CommandTag(q)
  BY <1>3 DEF GuessedRight
<1>5. Blocks(r, TagOf[q[i]], {q[i]})
  BY <1>1, <1>2, <1>3, <1>4 DEF Blocks
<1> QED BY <1>1, <1>4, <1>5 DEF Unrefused

\* Every step keeps the preview true, as long as the rules are those it was made with.
LEMMA PreviewKept == Types /\ NumbersInv /\ PreviewInv /\ [ChangesNext]_changeVars => PreviewInv'
<1> SUFFICES ASSUME Types, NumbersInv, PreviewInv, [ChangesNext]_changeVars PROVE PreviewInv'
  OBVIOUS
<1>0. /\ version \in Nat /\ call \in Calls /\ running \in SUBSET Runs /\ call.n \in Nat /\ call.at \in Nat /\ call.at <= version
      /\ skipped \in BOOLEAN
  BY DEF Types, Calls, PreviewInv
<1> DEFINE Ran(s) == \A i \in 1..(s.step - 1) : Unrefused(s.sql[i])
<1>1. ASSUME call.at = version, call.n > 0
      PROVE  /\ call.preview = PolicyCheck(call.sql)
             /\ \A s \in running : s.n = call.n /\ skipped = FALSE => Ran(s)
             /\ call.status = "blocked" /\ call.sure = TRUE /\ TagOf[call.kind] = CommandTag(call.sql) => call.by \in call.preview
             /\ call.status = "applied" /\ GuessedRight(call.sql) => call.preview = {} \/ skipped = TRUE
  BY <1>1 DEF PreviewInv
<1>3. ASSUME UNCHANGED <<rules, version>>, call'.at \in Nat, call'.at <= version,
             call'.at = version /\ call'.n > 0 =>
               /\ call'.preview = PolicyCheck(call'.sql)
               /\ \A s \in running' : s.n = call'.n /\ skipped' = FALSE => Ran(s)
               /\ call'.status = "blocked" /\ call'.sure = TRUE /\ TagOf[call'.kind] = CommandTag(call'.sql) => call'.by \in call'.preview
               /\ call'.status = "applied" /\ GuessedRight(call'.sql) => call'.preview = {} \/ skipped' = TRUE
      PROVE  PreviewInv'
  <2>1. call'.at <= version' /\ (call'.at = version' <=> call'.at = version)
    BY <1>3
  <2>2. ASSUME NEW q, q = call'.sql PROVE PolicyCheck(call.sql)' = PolicyCheck(q)
    BY <1>3, <2>2 DEF PolicyCheck, Blocks
  <2>3. PolicyCheck(call.sql)' = PolicyCheck(call'.sql)
    BY <2>2
  <2>4. CommandTag(call.sql)' = CommandTag(call'.sql)
    BY DEF CommandTag
  <2>5. ASSUME NEW s \in running', NEW i \in 1..(s.step - 1) PROVE Unrefused(s.sql[i])' <=> Unrefused(s.sql[i])
    BY <1>3 DEF Unrefused, Blocks
  <2>6. GuessedRight(call.sql)' <=> GuessedRight(call'.sql)
    BY DEF GuessedRight, CommandTag
  <2> QED BY <1>3, <2>1, <2>3, <2>4, <2>5, <2>6 DEF PreviewInv
<1>4. CASE UNCHANGED <<rules, version, call, running, skipped>>
  BY <1>0, <1>1, <1>3, <1>4
<1>5. CASE RuleChanged /\ UNCHANGED <<ledger, nextId, call, running, late, skipped>>
  <2>1. version' = version + 1 /\ call' = call
    BY <1>5 DEF RuleChanged
  <2>2. call'.at <= version' /\ call'.at # version'
    BY <1>0, <2>1
  <2> QED BY <2>2 DEF PreviewInv
<1>6. ASSUME NEW sql \in SQLs, NEW dryRun \in BOOLEAN, Preview(sql, dryRun) PROVE PreviewInv'
  <2>1. UNCHANGED <<rules, version, running, skipped>>
    BY <1>6 DEF Preview
  <2>2. /\ call'.n = call.n + 1 /\ call'.sql = sql /\ call'.preview = PolicyCheck(sql) /\ call'.at = version
        /\ call'.status \in {"preview", "none"}
    BY <1>6, PreviewIs
  <2>3. \A s \in running' : s.n # call'.n
    BY <1>0, <2>1, <2>2 DEF NumbersInv, Runs
  <2>4. call'.preview = PolicyCheck(call'.sql) /\ call'.at \in Nat /\ call'.at <= version
    BY <1>0, <2>2
  <2>5. call'.status \notin {"blocked", "applied"}
    BY <2>2
  <2> HIDE DEF Ran
  <2> QED BY <1>3, <2>1, <2>3, <2>4, <2>5
<1>7. ASSUME NEW pc, NEW m, NEW k, NEW st, NEW E, CallGoes(pc, m, k, st, call.by, call.kind, call.sure, E),
             UNCHANGED <<rules, version, skipped>>, st \in {call.status, "failed"}, \A s \in running' : s \in running \/ s.step = 1
      PROVE  PreviewInv'
  <2>1. /\ call'.n = call.n /\ call'.sql = call.sql /\ call'.preview = call.preview /\ call'.at = call.at
        /\ call'.by = call.by /\ call'.kind = call.kind /\ call'.sure = call.sure /\ call'.status \in {call.status, "failed"}
    BY <1>7 DEF CallGoes
  <2>2. ASSUME call.at = version, call.n > 0, skipped' = FALSE PROVE \A s \in running' : s.n = call'.n => Ran(s)
    <3>1. \A s \in running : s.n = call.n => Ran(s)
      BY <1>1, <1>7, <2>2
    <3>2. ASSUME NEW s, s.step = 1 PROVE Ran(s)
      BY <3>2
    <3> HIDE DEF Ran
    <3> QED BY <1>7, <2>1, <3>1, <3>2
  <2>3. call'.at \in Nat /\ call'.at <= version
    BY <1>0, <2>1
  <2>4. ASSUME call'.at = version, call'.n > 0
        PROVE  /\ call'.preview = PolicyCheck(call'.sql)
               /\ \A s \in running' : s.n = call'.n /\ skipped' = FALSE => Ran(s)
               /\ call'.status = "blocked" /\ call'.sure = TRUE /\ TagOf[call'.kind] = CommandTag(call'.sql) => call'.by \in call'.preview
               /\ call'.status = "applied" /\ GuessedRight(call'.sql) => call'.preview = {} \/ skipped' = TRUE
    <3>1. call.at = version /\ call.n > 0
      BY <2>1, <2>4
    <3>2. call'.preview = PolicyCheck(call'.sql)
      BY <1>1, <2>1, <3>1
    <3>3. call'.status \in {"blocked", "applied"} => call'.status = call.status
      BY <2>1
    <3> QED BY <1>1, <1>7, <2>1, <2>2, <3>1, <3>2, <3>3
  <2> HIDE DEF Ran
  <2> QED BY <1>3, <1>7, <2>3, <2>4
<1>8. CASE StartAgentSession \/ TimeOut \/ ReadEntries
  <2>1. UNCHANGED <<rules, version, skipped, running>>
    BY <1>8 DEF StartAgentSession, TimeOut, ReadEntries
  <2>2. \E pc, m, k, st, E : CallGoes(pc, m, k, st, call.by, call.kind, call.sure, E) /\ st \in {call.status, "failed"}
    <3>1. StartAgentSession => \E pc, m, k, st : CallGoes(pc, m, k, st, call.by, call.kind, call.sure, call.entries) /\ st \in {call.status, "failed"}
      BY CallerIs
    <3>2. TimeOut => \E pc, m, k, st : CallGoes(pc, m, k, st, call.by, call.kind, call.sure, call.entries) /\ st \in {call.status, "failed"}
      BY CallerIs
    <3>3. ReadEntries => \E pc, m, k, st, E : CallGoes(pc, m, k, st, call.by, call.kind, call.sure, E) /\ st \in {call.status, "failed"}
      BY CallerIs
    <3> QED BY <1>8, <3>1, <3>2, <3>3
  <2> QED BY <1>7, <2>1, <2>2
<1>9. CASE Send
  <2>1. UNCHANGED <<rules, version, skipped>> /\ \A s \in running' : s \in running \/ s.step = 1
    BY <1>9 DEF Send
  <2>2. \E pc, m, k, st, E : CallGoes(pc, m, k, st, call.by, call.kind, call.sure, E) /\ st \in {call.status, "failed"}
    BY <1>9, CallerIs
  <2> QED BY <1>7, <2>1, <2>2
<1>10. CASE OtherClient
  BY <1>4, <1>10 DEF OtherClient
<1>11. ASSUME NEW s \in running, NEW t \in {"applied", "blocked", "error"}, NEW r \in RuleIds \union {NoRule},
              NEW k \in Kinds \union {"none"}, NEW w \in BOOLEAN, Answer(s, t, r, k, w), UNCHANGED <<rules, version, skipped>>,
              call.at = version /\ s.sql = call.sql /\ call.n > 0 /\ s.n = call.n /\ call.preview = PolicyCheck(s.sql) =>
                /\ t = "blocked" /\ w = TRUE /\ TagOf[k] = CommandTag(s.sql) => r \in PolicyCheck(s.sql)
                /\ t = "applied" /\ GuessedRight(s.sql) => PolicyCheck(s.sql) = {} \/ skipped = TRUE
       PROVE  PreviewInv'
  <2>1. /\ running' = running \ {s}
        /\ call.pc = "waiting" /\ call.n = s.n => CallGoes("answered", call.marker, call.known, t, r, k, w, call.entries)
        /\ ~ (call.pc = "waiting" /\ call.n = s.n) => call' = call
    BY <1>11, AnswerIs
  <2>2. ASSUME call.at = version, call.n > 0, skipped' = FALSE PROVE \A u \in running' : u.n = call.n => Ran(u)
    BY <1>1, <1>11, <2>1, <2>2
  <2>3. CASE ~ (call.pc = "waiting" /\ call.n = s.n)
    BY <1>0, <1>1, <1>3, <1>11, <2>1, <2>2, <2>3
  <2>4. CASE call.pc = "waiting" /\ call.n = s.n
    <3>1. /\ call'.n = call.n /\ call'.sql = call.sql /\ call'.preview = call.preview /\ call'.at = call.at
          /\ call'.by = r /\ call'.kind = k /\ call'.sure = w /\ call'.status = t
      BY <2>1, <2>4 DEF CallGoes
    <3>2. s.sql = call.sql
      BY <2>4 DEF NumbersInv
    <3>3. ASSUME call.at = version, call.n > 0
          PROVE  /\ t = "blocked" /\ w = TRUE /\ TagOf[k] = CommandTag(call.sql) => r \in call.preview
                 /\ t = "applied" /\ GuessedRight(call.sql) => call.preview = {} \/ skipped = TRUE
      BY <1>1, <1>11, <2>4, <3>2, <3>3
    <3>4. call.at = version /\ call.n > 0 => call.preview = PolicyCheck(call.sql)
      BY <1>1
    <3> QED BY <1>0, <1>3, <1>11, <2>2, <3>1, <3>3, <3>4
  <2> QED BY <2>3, <2>4
<1>12. ASSUME NEW s \in running, RunRefused(s) PROVE PreviewInv'
  <2>1. Fired(s) \in Kinds /\ s.step \in 1..Len(s.sql)
    BY <1>12, RunIs
  <2>5. PICK w \in BOOLEAN : /\ w = TRUE => Certain(s)
                            /\ \/ Answer(s, "error", NoRule, Fired(s), w)
                               \/ \E r \in Refusing(s, w) : Answer(s, "blocked", r, Fired(s), w)
    BY <1>12, RunIs
  <2>2. UNCHANGED <<rules, version, skipped>> /\ s.step \in DOMAIN s.sql
    <3>1. s.sql \in Seq(Kinds)
      BY <1>0, ChangesAssumption DEF Runs
    <3> QED BY <1>12, <2>1, <3>1 DEF RunRefused
  <2>3. CASE Answer(s, "error", NoRule, Fired(s), w)
    BY <1>11, <2>1, <2>2, <2>3
  <2>4. ASSUME NEW r \in Refusing(s, w), Answer(s, "blocked", r, Fired(s), w) PROVE PreviewInv'
    <3>1. ASSUME w = TRUE, TagOf[Fired(s)] = CommandTag(s.sql) PROVE r \in PolicyCheck(s.sql)
      <4>1. Fired(s) = s.sql[s.step] /\ TagOf[Fired(s)] \in Carries[Fired(s)]
        BY <2>5, <3>1 DEF Certain
      <4>2. r \in RuleIds /\ Blocks(r, TagOf[Fired(s)], {Fired(s)})
        BY <2>4, <3>1 DEF Refusing, Texts
      <4> QED BY <2>2, <3>1, <4>1, <4>2, CheckCovers
    <3>2. r \in RuleIds
      BY <2>4 DEF Refusing
    <3> QED BY <1>11, <2>1, <2>2, <2>4, <3>1, <3>2
  <2> QED BY <2>3, <2>4, <2>5
<1>13. ASSUME NEW s \in running, RunFails(s) PROVE PreviewInv'
  BY <1>11, <1>13 DEF RunFails
<1>14. ASSUME NEW s \in running, RunCommits(s) PROVE PreviewInv'
  <2>1. Answer(s, "applied", NoRule, "none", FALSE) /\ UNCHANGED <<rules, version, skipped>> /\ s.step > Len(s.sql)
    BY <1>14 DEF RunCommits
  <2>2. s.sql \in Seq(Kinds) /\ s.step \in Nat
    BY <1>0, ChangesAssumption DEF Runs
  <2>3. ASSUME call.at = version, call.n > 0, s.n = call.n, skipped = FALSE, GuessedRight(s.sql) PROVE PolicyCheck(s.sql) = {}
    <3>1. \A i \in DOMAIN s.sql : i \in 1..(s.step - 1)
      BY <2>1, <2>2
    <3>2. Ran(s)
      BY <1>1, <2>3
    <3>3. \A i \in DOMAIN s.sql : Unrefused(s.sql[i])
      BY <3>1, <3>2
    <3> QED BY <2>3, <3>3, CheckExact
  <2> QED BY <1>0, <1>11, <2>1, <2>3
<1>15. ASSUME NEW s \in running, RunStatement(s) PROVE PreviewInv'
  <2>1. PICK t \in Runs : /\ running' = (running \ {s}) \union {t}
                          /\ t.n = s.n /\ t.sql = s.sql /\ t.step = s.step + 1
                          /\ UNCHANGED <<rules, version, ledger, call, late>>
    BY <1>15, StatementIs
  <2>3. s.step \in Nat /\ s.sql[s.step] \in Kinds
    <3>1. s.step \in Nat /\ s.step > 0 /\ s.sql \in Seq(Kinds)
      BY <1>0, ChangesAssumption DEF Runs, NumbersInv
    <3> QED BY <1>15, <3>1 DEF RunStatement
  <2>2. (skipped' = skipped /\ Unrefused(s.sql[s.step])) \/ skipped' = TRUE
    <3>1. CASE Fired(s) = "none" /\ UNCHANGED skipped
      <4>1. Fires[s.sql[s.step]] # s.sql[s.step]
        BY <2>3, <3>1, ChangesAssumption DEF Fired
      <4> QED BY <3>1, <4>1 DEF Unrefused
    <3>2. ASSUME NEW sure \in BOOLEAN, skipped' = (skipped \/ Refusing(s, sure) # {}), skipped' # TRUE
          PROVE  skipped' = skipped /\ Unrefused(s.sql[s.step])
      <4>1. skipped' = skipped /\ Refusing(s, sure) = {}
        BY <1>0, <3>2
      <4>2. ASSUME NEW r \in RuleIds, Fires[s.sql[s.step]] = s.sql[s.step], Blocks(r, TagOf[s.sql[s.step]], {s.sql[s.step]}) PROVE FALSE
        <5>1. Fired(s) = s.sql[s.step] /\ Fired(s) \in Texts(s, sure)
          BY <4>2 DEF Fired, Texts
        <5>2. Blocks(r, TagOf[Fired(s)], Texts(s, sure))
          BY <4>2, <5>1 DEF Blocks
        <5> QED BY <4>1, <5>2 DEF Refusing
      <4> QED BY <4>1, <4>2 DEF Unrefused
    <3>3. \/ Fired(s) = "none" /\ UNCHANGED skipped
          \/ \E sure \in BOOLEAN : skipped' = (skipped \/ Refusing(s, sure) # {})
      BY <1>15 DEF RunStatement, Passes
    <3> QED BY <3>1, <3>2, <3>3
  <2>4. ASSUME call.at = version, call.n > 0, skipped' = FALSE, s.n = call.n PROVE Ran(t)
    <3>1. Ran(s) /\ Unrefused(s.sql[s.step])
      BY <1>1, <2>2, <2>4
    <3>2. \A i \in 1..(t.step - 1) : i \in 1..(s.step - 1) \/ i = s.step
      BY <2>1, <2>3
    <3> QED BY <2>1, <3>1, <3>2
  <2>5. ASSUME call.at = version, call.n > 0, skipped' = FALSE PROVE \A u \in running' : u.n = call.n => Ran(u)
    <3>1. skipped = FALSE
      BY <2>2, <2>5
    <3>2. \A u \in running : u.n = call.n => Ran(u)
      BY <1>1, <2>5, <3>1
    <3> HIDE DEF Ran
    <3> QED BY <2>1, <2>4, <2>5, <3>2
  <2>6. skipped = TRUE => skipped' = TRUE
    BY <2>2
  <2> HIDE DEF Ran
  <2> QED BY <1>0, <1>1, <1>3, <2>1, <2>5, <2>6
<1> QED BY <1>4, <1>5, <1>6, <1>8, <1>9, <1>10, <1>12, <1>13, <1>14, <1>15, StepCases DEF changeVars

\* As long as the rules did not change: a call whose blocked command has the tag that was
\* guessed and a text the gate could tell is blocked by a rule its preview named, and one
\* that was previewed as blocked, with a guess that was right, is not applied unless the
\* gate failed.
THEOREM PreviewAgreesWithTheGate == ChangesSpec => []PreviewHonest
<1>1. ChangesInit => Types /\ NumbersInv /\ PreviewInv
  <2> SUFFICES ASSUME ChangesInit PROVE Types /\ NumbersInv /\ PreviewInv
    OBVIOUS
  <2>1. NoCall \in Calls /\ NoCall.n = 0 /\ NoCall.pc = "done" /\ NoCall.status = "none" /\ NoCall.marker = 0 /\ NoCall.at = 0
    BY DEF NoCall, Calls
  <2>2. call = NoCall /\ running = {} /\ ledger = {} /\ nextId = 1 /\ version = 0 /\ skipped = FALSE
    BY DEF ChangesInit
  <2>3. Types
    <3>1. 0 \in Nat /\ 1 \in Nat /\ 1 > 0 /\ {} \in SUBSET Runs /\ {} \in SUBSET Rows
      OBVIOUS
    <3> QED BY <2>1, <2>2, <3>1 DEF Types
  <2>4. {r.id : r \in ledger} = {}
    BY <2>2
  <2>5. NumbersInv
    BY <2>1, <2>2, <2>4 DEF NumbersInv, HasMax
  <2>6. PreviewInv
    BY <2>1, <2>2 DEF PreviewInv
  <2> QED BY <2>3, <2>5, <2>6
<1>2. Types /\ NumbersInv /\ PreviewInv /\ [ChangesNext]_changeVars => Types' /\ NumbersInv' /\ PreviewInv'
  BY NumbersKept, PreviewKept
<1>3. Types /\ NumbersInv /\ PreviewInv => PreviewHonest
  <2> SUFFICES ASSUME Types, NumbersInv, PreviewInv, call.pc = "done", call.at = version, call.status \in {"blocked", "applied"}
               PROVE  /\ call.status = "blocked" /\ call.sure /\ TagOf[call.kind] = CommandTag(call.sql) => call.by \in call.preview
                      /\ call.status = "applied" /\ GuessedRight(call.sql) => call.preview = {} \/ skipped
    BY DEF PreviewHonest
  <2>1. call.n > 0
    BY DEF NumbersInv
  <2>2. call.sure \in BOOLEAN
    BY DEF Types, Calls
  <2> QED BY <2>1, <2>2 DEF PreviewInv
<1> QED BY <1>1, <1>2, <1>3, PTL DEF ChangesSpec
-----------------------------------------------------------------------------
(* Impact *)

\* The statements and circumstances of Impact without its bounds: ALTER TABLE with any
\* number of actions, of which any number is read, and any numbers of dependents, rows,
\* branches and rules.
AnyStatements ==
  {s \in [verb : {"alter"}, acts : Seq(AlterActions), read : Nat] : s.read <= Len(s.acts)}
  \union [verb : {"alter"}, acts : Alone, read : {1}]
  \union [verb : OtherVerbs, acts : {<<>>}, read : {0}]

AnyCircumstances ==
  [found : BOOLEAN, heavy : Nat, medium : Nat, light : Nat, truncated : BOOLEAN,
   rows : Nat, present : Nat, blocks : Nat, warns : Nat]

\* A set of numbers that is not empty has a least one.
LEMMA LeastNumber ==
  ASSUME NEW S \in SUBSET Nat, S # {}
  PROVE  Min(S) \in S /\ \A y \in S : Min(S) <= y
<1> DEFINE R == OpToRel(<, Nat)
<1>1. \A x, y \in Nat : <<y, x>> \in R <=> y < x
  BY DEF OpToRel
<1>2. IsWellFoundedOn(R, Nat)
  BY NatLessThanWellFounded
<1> HIDE DEF R
<1>3. PICK x \in S : \A y \in S : ~ (<<y, x>> \in R)
  BY <1>2, WFMin
<1>4. ASSUME NEW y \in S PROVE x <= y
  <2>1. ~ (<<y, x>> \in R)
    BY <1>3
  <2>2. ~ (y < x)
    BY <1>1, <2>1
  <2> QED BY <2>2
<1> QED BY <1>4 DEF Min

\* A destructive action scores at least 5.
LEMMA DestructiveScores ==
  ASSUME NEW a, Destructive(a), NEW c \in AnyCircumstances, c.found
  PROVE  scoreImpact(a, c) \in Nat /\ scoreImpact(a, c) >= 5
<1> DEFINE p == IF c.present > 5 THEN 5 ELSE c.present
           w == IF c.rows >= 1000000 THEN 3 ELSE IF c.rows >= 10000 THEN 1 ELSE 0
           u == IF c.truncated THEN 3 ELSE 0
<1>1. /\ c.heavy \in Nat /\ c.medium \in Nat /\ c.light \in Nat /\ c.rows \in Nat /\ c.present \in Nat
      /\ c.blocks \in Nat /\ c.warns \in Nat
  BY DEF AnyCircumstances
<1>2. p \in Nat /\ w \in Nat /\ u \in Nat
  BY <1>1
<1>3. scoreImpact(a, c) = 5 + 3 * c.heavy + 2 * c.medium + c.light + u + w + p + 5 * c.blocks + 2 * c.warns
  BY DEF scoreImpact
<1> HIDE DEF p, w, u
<1> QED BY <1>1, <1>2, <1>3

\* A statement that drops a column or changes its type, wherever in the statement and
\* among however many actions it does, is at least a medium change, if the tokenizer
\* gets to the action and none before it reads as another change.
THEOREM EveryDropIsFlagged ==
  ASSUME change.s \in AnyStatements, change.c \in AnyCircumstances
  PROVE  DropsAreFlagged
<1> DEFINE s == change.s
           c == change.c
           Hides(act) == act \in {"alter-column", "alter-constraint", "add-words"}
           flagged == {i \in 1..s.read : /\ s.acts[i] \in {"drop-column", "alter-column-type"}
                                         /\ \A k \in 1..i : ~ Hides(s.acts[k])}
           deciding == {i \in 1..s.read : reads(s.acts[i]) # "nothing"}
<1> SUFFICES ASSUME c.found, s.verb = "alter", flagged # {}
             PROVE  Report(s, c) \in {"medium", "high"}
  BY DEF DropsAreFlagged
<1>1. PICK f \in flagged : TRUE
  OBVIOUS
<1>2. f \in 1..s.read /\ s.acts[f] \in {"drop-column", "alter-column-type"} /\ \A k \in 1..f : ~ Hides(s.acts[k])
  BY <1>1
<1>3. s.read \in Nat /\ s.acts \in Seq(AlterActions) /\ s.read <= Len(s.acts)
  <2>1. CASE s \in [verb : {"alter"}, acts : Alone, read : {1}]
    <3>1. f = 1 /\ s.acts \in Alone
      BY <1>2, <2>1
    <3> QED BY <1>2, <3>1 DEF Alone
  <2>2. CASE s \in [verb : OtherVerbs, acts : {<<>>}, read : {0}]
    BY <1>2, <2>2
  <2> QED BY <2>1, <2>2 DEF AnyStatements
<1>4. f \in deciding
  BY <1>2 DEF reads
<1>5. deciding \in SUBSET Nat
  BY <1>3
<1> DEFINE d == Min(deciding)
<1>6. d \in deciding /\ d <= f
  BY <1>4, <1>5, LeastNumber
<1> DEFINE act == s.acts[d]
<1>7. d \in 1..f /\ act \in AlterActions /\ reads(act) # "nothing"
  <2>1. d \in 1..s.read /\ reads(act) # "nothing"
    BY <1>6
  <2>2. d <= f
    BY <1>6
  <2> HIDE DEF d, flagged, deciding
  <2>3. d \in 1..f /\ d \in 1..Len(s.acts)
    BY <1>2, <1>3, <2>1, <2>2
  <2>4. act \in AlterActions
    BY <1>3, <2>3
  <2> QED BY <2>1, <2>3, <2>4
<1>8. act \in {"drop-column", "alter-column-type"} /\ reads(act) = act
  <2>1. ~ Hides(act)
    BY <1>2, <1>7
  <2> HIDE DEF act
  <2> QED BY <1>7, <2>1 DEF AlterActions, reads
<1>9. ParseTarget(s) = act
  BY <1>4, <1>8 DEF ParseTarget
<1>10. Destructive(act) /\ act # Unrecognised
  BY <1>8 DEF Destructive, Unrecognised
<1>11. scoreImpact(act, c) \in Nat /\ scoreImpact(act, c) >= 5
  BY <1>10, DestructiveScores
<1> HIDE DEF act, s, c
<1>12. level(scoreImpact(act, c), c) \in {"medium", "high"}
  BY <1>11 DEF level
<1> QED BY <1>9, <1>10, <1>12 DEF Report
=============================================================================
