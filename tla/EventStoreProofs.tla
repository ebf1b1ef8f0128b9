--------------------------- MODULE EventStoreProofs ---------------------------
(***************************************************************************)
(* The event table is numbered without gaps, stamped in order and handed   *)
(* to the bus in that order, for every set of sessions and writers, every  *)
(* clock and every bound.                                                  *)
(*                                                                         *)
(* The inductive invariant adds to the properties of EventStore what makes *)
(* them stable: who may be between BEGIN and the return (LockInv), what    *)
(* the open transaction holds (TxnInv) and that the row a writer is about  *)
(* to insert is the next one of its session (NextRowInv).                  *)
(***************************************************************************)
EXTENDS EventStore, TLAPS

Inside == {"begun", "selected", "inserted", "committed"}

LockInv ==
  /\ \A w \in EventWriters : writer[w].pc \in Inside <=> lock = w
  /\ \A p \in RowWriters : rowPc[p] = "executing" <=> lock = p
  /\ \A w \in EventWriters : writer[w].pc # "idle" => writer[w].sid \in Sessions

TxnInv ==
  /\ \A w \in EventWriters : writer[w].pc \in {"begun", "selected", "inserted"} => open
  /\ \A w \in EventWriters :
       writer[w].pc = "inserted" => pending = {RowFor(writer[w])}
  /\ (\A w \in EventWriters : writer[w].pc # "inserted") => pending = {}

(* The seqs of a session are an initial segment of 1, 2, 3, ... *)
SegmentInv ==
  \A s \in Sessions :
    /\ MaxSeq(table, s) \in Nat
    /\ {r.seq : r \in RowsOf(table, s)} = 1..MaxSeq(table, s)

UniqueInv ==
  \A q, r \in table : q.sid = r.sid /\ q.seq = r.seq => q = r

NextRowInv ==
  \A w \in EventWriters :
    /\ writer[w].pc \in {"selected", "inserted"} =>
         /\ writer[w].seq = MaxSeq(table, writer[w].sid) + 1
         /\ \A r \in RowsOf(table, writer[w].sid) : r.ts < writer[w].ts
    /\ writer[w].pc = "committed" => writer[w].seq = MaxSeq(table, writer[w].sid)

IInv ==
  /\ TypeOK
  /\ LockInv
  /\ TxnInv
  /\ SegmentInv
  /\ UniqueInv
  /\ TsFollowsSeq
  /\ NextRowInv
  /\ FeedFollowsLog

-------------------------------------------------------------------------------
(* The maximum of a set that has one is what Largest chooses. *)
LEMMA LargestIs ==
  ASSUME NEW S \in SUBSET Nat, NEW n \in S \cup {0}, \A m \in S : m <= n
  PROVE  Largest(S) = n
<1>1. n \in Nat
  OBVIOUS
<1>2. \A k \in S \cup {0} : (\A m \in S : m <= k) => k = n
  BY <1>1
<1>. QED
  BY <1>2 DEF Largest

(* In a table whose seqs are a segment and whose stamps follow them, the    *)
(* SELECT finds the largest stamp of the session (0 if it has no row).      *)
LEMMA MaxTsBounds ==
  ASSUME table \in SUBSET Row, SegmentInv, UniqueInv, TsFollowsSeq,
         NEW s \in Sessions
  PROVE  /\ MaxTs(table, s) \in Nat
         /\ \A r \in RowsOf(table, s) : r.ts <= MaxTs(table, s)
<1>. DEFINE S == {r.ts : r \in RowsOf(table, s)}
            n == MaxSeq(table, s)
<1>1. S \in SUBSET Nat
  BY DEF RowsOf, Row
<1>2. n \in Nat /\ {r.seq : r \in RowsOf(table, s)} = 1..n
  BY DEF SegmentInv
<1>. HIDE DEF n
<1>3. CASE n = 0
  <2>1. RowsOf(table, s) = {}
    <3>1. \A r \in RowsOf(table, s) : r.seq \in {q.seq : q \in RowsOf(table, s)}
      OBVIOUS
    <3>2. 1..n = {}
      BY <1>3
    <3>. QED
      BY <1>2, <3>1, <3>2
  <2>2. S = {}
    BY <2>1
  <2>3. Largest(S) = 0
    BY <2>2, LargestIs
  <2>. QED
    BY <2>1, <2>3 DEF MaxTs
<1>4. CASE n > 0
  <2>1. n \in {r.seq : r \in RowsOf(table, s)}
    BY <1>2, <1>4
  <2>2. PICK top \in RowsOf(table, s) : top.seq = n
    BY <2>1
  <2>3. \A q \in RowsOf(table, s) : q.ts <= top.ts
    <3>. SUFFICES ASSUME NEW q \in RowsOf(table, s)
                  PROVE  q.ts <= top.ts
      OBVIOUS
    <3>1. q \in Row /\ top \in Row /\ q.sid = top.sid /\ q \in table /\ top \in table
      BY DEF RowsOf
    <3>2. q.seq \in 1..n
      BY <1>2
    <3>3. CASE q.seq = n
      BY <2>2, <3>1, <3>3 DEF UniqueInv, Row
    <3>4. CASE q.seq < n
      BY <2>2, <3>1, <3>4 DEF TsFollowsSeq, Row
    <3>. QED
      BY <1>2, <3>2, <3>3, <3>4
  <2>4. top.ts \in S /\ top.ts \in Nat
    BY DEF RowsOf, Row
  <2>5. Largest(S) = top.ts
    BY <1>1, <2>3, <2>4, LargestIs
  <2>. QED
    BY <2>3, <2>4, <2>5 DEF MaxTs
<1>. QED
  BY <1>2, <1>3, <1>4

(* The next row of a session extends its segment by one and leaves the      *)
(* other sessions alone.                                                    *)
LEMMA AddNextRow ==
  ASSUME table \in SUBSET Row, SegmentInv, UniqueInv, TsFollowsSeq,
         NEW x \in Row, table' = table \cup {x},
         x.seq = MaxSeq(table, x.sid) + 1,
         \A r \in RowsOf(table, x.sid) : r.ts < x.ts
  PROVE  /\ SegmentInv'
         /\ UniqueInv'
         /\ TsFollowsSeq'
         /\ MaxSeq(table', x.sid) = x.seq
         /\ \A s \in Sessions \ {x.sid} : MaxSeq(table', s) = MaxSeq(table, s)
<1>. DEFINE n == MaxSeq(table, x.sid)
            S == {r.seq : r \in RowsOf(table', x.sid)}
<1>1. x.sid \in Sessions /\ x.seq \in Nat /\ x.ts \in Nat
  BY DEF Row
<1>2. n \in Nat /\ {r.seq : r \in RowsOf(table, x.sid)} = 1..n
  BY <1>1 DEF SegmentInv
<1>. HIDE DEF n
<1>3. x.seq = n + 1
  BY DEF n
<1>4. RowsOf(table', x.sid) = RowsOf(table, x.sid) \cup {x}
  BY DEF RowsOf
<1>5. S = 1..(n + 1)
  <2>1. S = {r.seq : r \in RowsOf(table, x.sid)} \cup {x.seq}
    BY <1>4
  <2>2. 1..(n + 1) = 1..n \cup {n + 1}
    BY <1>2
  <2>. QED
    BY <1>2, <1>3, <2>1, <2>2
<1>6. MaxSeq(table', x.sid) = x.seq
  <2>1. n + 1 \in Nat /\ 1..(n + 1) \in SUBSET Nat /\ \A m \in 1..(n + 1) : m <= n + 1
    BY <1>2
  <2>2. n + 1 \in 1..(n + 1) \cup {0}
    BY <1>2
  <2>3. Largest(1..(n + 1)) = n + 1
    BY <2>1, <2>2, LargestIs
  <2>4. MaxSeq(table', x.sid) = Largest(S)
    BY DEF MaxSeq
  <2>. QED
    BY <1>3, <1>5, <2>3, <2>4
<1>7. \A s \in Sessions \ {x.sid} : RowsOf(table', s) = RowsOf(table, s)
  BY DEF RowsOf
<1>8. \A s \in Sessions \ {x.sid} : MaxSeq(table', s) = MaxSeq(table, s)
  BY <1>7 DEF MaxSeq
<1>9. SegmentInv'
  <2>. SUFFICES ASSUME NEW s \in Sessions
                PROVE  /\ MaxSeq(table', s) \in Nat
                       /\ {r.seq : r \in RowsOf(table', s)} = 1..MaxSeq(table', s)
    BY DEF SegmentInv
  <2>1. CASE s = x.sid
    <3>1. MaxSeq(table', s) = n + 1
      BY <1>3, <1>6, <2>1
    <3>2. {r.seq : r \in RowsOf(table', s)} = 1..(n + 1)
      BY <1>5, <2>1
    <3>3. n + 1 \in Nat
      BY <1>2
    <3>. QED
      BY <3>1, <3>2, <3>3
  <2>2. CASE s # x.sid
    <3>1. RowsOf(table', s) = RowsOf(table, s) /\ MaxSeq(table', s) = MaxSeq(table, s)
      BY <1>7, <1>8, <2>2
    <3>2. MaxSeq(table, s) \in Nat /\ {r.seq : r \in RowsOf(table, s)} = 1..MaxSeq(table, s)
      BY DEF SegmentInv
    <3>3. {r.seq : r \in RowsOf(table', s)} = {r.seq : r \in RowsOf(table, s)}
      BY <3>1
    <3>4. 1..MaxSeq(table', s) = 1..MaxSeq(table, s)
      BY <3>1
    <3>. QED
      BY <3>1, <3>2, <3>3, <3>4, Zenon
  <2>. QED
    BY <2>1, <2>2
<1>10. \A r \in RowsOf(table, x.sid) : r.seq < x.seq
  BY <1>2, <1>3
<1>11. UniqueInv'
  <2>1. \A q \in table : q.sid = x.sid => q.seq < x.seq
    BY <1>10 DEF RowsOf
  <2>2. \A q \in table : q.seq \in Nat
    BY DEF Row
  <2>. QED
    BY <1>1, <2>1, <2>2 DEF UniqueInv
<1>12. TsFollowsSeq'
  <2>1. \A q \in table : q.sid = x.sid => q.seq < x.seq /\ q.ts < x.ts
    BY <1>10 DEF RowsOf
  <2>2. \A q \in table : q.seq \in Nat /\ q.ts \in Nat
    BY DEF Row
  <2>. QED
    BY <1>1, <2>1, <2>2 DEF TsFollowsSeq
<1>. QED
  BY <1>6, <1>8, <1>9, <1>11, <1>12

-------------------------------------------------------------------------------
(* The initial states satisfy the inductive invariant. *)
LEMMA InitIInv == Init => IInv
<1>. SUFFICES ASSUME Init PROVE IInv
  OBVIOUS
<1>. USE DEF Init, IdleLocal
<1>1. \A s \in Sessions : RowsOf(table, s) = {} /\ MaxSeq(table, s) = 0
  <2>. SUFFICES ASSUME NEW s \in Sessions
                PROVE  RowsOf(table, s) = {} /\ MaxSeq(table, s) = 0
    OBVIOUS
  <2>1. RowsOf(table, s) = {}
    BY DEF RowsOf
  <2>2. {r.seq : r \in RowsOf(table, s)} = {}
    BY <2>1
  <2>3. Largest({}) = 0
    BY LargestIs
  <2>. QED
    BY <2>1, <2>2, <2>3 DEF MaxSeq
<1>2. TypeOK
  <2>1. writer \in [EventWriters -> Local]
    BY StoreAssumption DEF Local
  <2>2. feed \in [Sessions -> Seq(Nat)] /\ base \in [Sessions -> Nat]
    OBVIOUS
  <2>. QED
    BY <2>1, <2>2 DEF TypeOK
<1>3. LockInv
  BY StoreAssumption DEF LockInv, Inside
<1>4. TxnInv
  BY DEF TxnInv
<1>5. SegmentInv
  BY <1>1 DEF SegmentInv
<1>6. UniqueInv /\ TsFollowsSeq
  BY DEF UniqueInv, TsFollowsSeq
<1>7. NextRowInv
  BY DEF NextRowInv
<1>8. FeedFollowsLog
  <2>. SUFFICES ASSUME NEW s \in Sessions
                PROVE  /\ feed[s] = [i \in 1..Len(feed[s]) |-> base[s] + i]
                       /\ MaxSeq(table, s) =
                            base[s] + Len(feed[s]) + IF InFlight(s) = {} THEN 0 ELSE 1
    BY DEF FeedFollowsLog
  <2>1. feed[s] = <<>> /\ base[s] = 0
    OBVIOUS
  <2>2. InFlight(s) = {}
    BY DEF InFlight
  <2>. QED
    BY <1>1, <2>1, <2>2
<1>. QED
  BY <1>2, <1>3, <1>4, <1>5, <1>6, <1>7, <1>8 DEF IInv

(* Nothing the invariant says of the table and the feed is disturbed by a   *)
(* step that changes neither, and no writer's commit.                       *)
LEMMA TableFrame ==
  ASSUME SegmentInv, UniqueInv, TsFollowsSeq, FeedFollowsLog,
         UNCHANGED <<table, feed, base>>,
         \A w \in EventWriters :
           /\ writer'[w].pc = "committed" <=> writer[w].pc = "committed"
           /\ writer[w].pc = "committed" => writer'[w].sid = writer[w].sid
  PROVE  SegmentInv' /\ UniqueInv' /\ TsFollowsSeq' /\ FeedFollowsLog'
<1>1. SegmentInv' /\ UniqueInv' /\ TsFollowsSeq'
  BY DEF SegmentInv, UniqueInv, TsFollowsSeq
<1>2. \A s \in Sessions : InFlight(s)' = InFlight(s)
  BY DEF InFlight
<1>3. FeedFollowsLog'
  BY <1>2 DEF FeedFollowsLog
<1>. QED
  BY <1>1, <1>3

(* A write starts. *)
LEMMA StartWriteIInv ==
  ASSUME NEW w \in EventWriters, NEW s \in Sessions, StartWrite(w, s), IInv
  PROVE  IInv'
<1>. USE DEF IInv
<1>1. TypeOK'
  <2>1. PICK t \in WallClock :
          writer' = [writer EXCEPT ![w] =
            [pc |-> "waiting", sid |-> s, now |-> t, attempt |-> 0, seq |-> 0, ts |-> 0]]
    BY DEF StartWrite
  <2>2. [pc |-> "waiting", sid |-> s, now |-> t, attempt |-> 0, seq |-> 0, ts |-> 0] \in Local
    BY StoreAssumption DEF Local
  <2>3. writer' \in [EventWriters -> Local]
    BY <2>1, <2>2 DEF TypeOK
  <2>. QED
    BY <2>3 DEF TypeOK, StartWrite
<1>2. LockInv'
  BY StoreAssumption, SMTT(20) DEF LockInv, Inside, TypeOK, Local, StartWrite, IdleLocal
<1>3. TxnInv'
  BY DEF TxnInv, LockInv, Inside, RowFor, TypeOK, Local, StartWrite, IdleLocal
<1>4. SegmentInv' /\ UniqueInv' /\ TsFollowsSeq' /\ FeedFollowsLog'
  BY TableFrame DEF TypeOK, Local, StartWrite, IdleLocal
<1>5. NextRowInv'
  BY DEF NextRowInv, TypeOK, Local, StartWrite, IdleLocal
<1>. QED
  BY <1>1, <1>2, <1>3, <1>4, <1>5

(* A write retries after its back-off. *)
LEMMA RetryWriteIInv ==
  ASSUME NEW w \in EventWriters, RetryWrite(w), IInv
  PROVE  IInv'
<1>. USE DEF IInv
<1>1. TypeOK'
  <2>1. PICK t \in WallClock :
          writer' = [writer EXCEPT ![w].pc = "waiting", ![w].now = t]
    BY DEF RetryWrite
  <2>2. writer[w] \in Local /\ t \in Nat
    BY StoreAssumption DEF TypeOK
  <2>3. [writer[w] EXCEPT !.pc = "waiting", !.now = t] \in Local
    BY <2>2 DEF Local
  <2>4. writer' = [writer EXCEPT ![w] = [writer[w] EXCEPT !.pc = "waiting", !.now = t]]
    BY <2>1 DEF TypeOK
  <2>5. writer' \in [EventWriters -> Local]
    BY <2>3, <2>4 DEF TypeOK
  <2>. QED
    BY <2>5 DEF TypeOK, RetryWrite
<1>2. LockInv'
  <2>1. \A v \in EventWriters :
          /\ writer'[v].pc = IF v = w THEN "waiting" ELSE writer[v].pc
          /\ writer'[v].sid = writer[v].sid
    BY DEF TypeOK, Local, RetryWrite
  <2>. QED
    BY <2>1 DEF LockInv, Inside, RetryWrite
<1>3. TxnInv'
  BY ZenonT(30) DEF TxnInv, LockInv, Inside, RowFor, TypeOK, Local, RetryWrite
<1>4. SegmentInv' /\ UniqueInv' /\ TsFollowsSeq' /\ FeedFollowsLog'
  BY TableFrame DEF TypeOK, Local, RetryWrite
<1>5. NextRowInv'
  BY DEF NextRowInv, TypeOK, Local, RetryWrite
<1>. QED
  BY <1>1, <1>2, <1>3, <1>4, <1>5

(* BEGIN IMMEDIATE succeeds. *)
LEMMA BeginImmediateIInv ==
  ASSUME NEW w \in EventWriters, BeginImmediate(w), IInv
  PROVE  IInv'
<1>. USE DEF IInv
<1>1. TypeOK'
  BY StoreAssumption, ZenonT(30) DEF TypeOK, Local, Row, BeginImmediate
<1>2. LockInv'
  BY StoreAssumption DEF LockInv, Inside, TypeOK, Local, BeginImmediate
<1>3. TxnInv'
  BY DEF TxnInv, LockInv, Inside, RowFor, TypeOK, Local, BeginImmediate
<1>4. SegmentInv' /\ UniqueInv' /\ TsFollowsSeq' /\ FeedFollowsLog'
  BY TableFrame DEF TypeOK, Local, BeginImmediate
<1>5. NextRowInv'
  BY DEF NextRowInv, TypeOK, Local, BeginImmediate
<1>. QED
  BY <1>1, <1>2, <1>3, <1>4, <1>5

(* BEGIN IMMEDIATE finds the file locked. *)
LEMMA BeginLockedIInv ==
  ASSUME NEW w \in EventWriters, BeginLocked(w), IInv
  PROVE  IInv'
<1>. USE DEF IInv
<1>0. /\ writer[w].pc = "waiting"
      /\ \A v \in EventWriters \ {w} : writer'[v] = writer[v]
      /\ \/ writer'[w].pc = "backoff" /\ writer'[w].sid = writer[w].sid
         \/ writer'[w].pc = "idle"
      /\ UNCHANGED <<table, open, pending, lock, rowPc, feed, base>>
  BY DEF TypeOK, Local, IdleLocal, BeginLocked
<1>1. TypeOK'
  <2>1. writer[w] \in Local
    BY DEF TypeOK
  <2>2. CASE /\ writer[w].attempt < MaxRetries
             /\ writer' = [writer EXCEPT ![w].pc = "backoff", ![w].attempt = @ + 1]
    <3>1. writer[w].attempt + 1 \in 0..MaxRetries
      BY <2>1, <2>2, StoreAssumption DEF Local
    <3>2. writer' \in [EventWriters -> Local]
      BY <2>1, <2>2, <3>1 DEF TypeOK, Local
    <3>. QED
      BY <3>2 DEF TypeOK, BeginLocked
  <2>3. CASE writer' = [writer EXCEPT ![w] = IdleLocal]
    <3>1. IdleLocal \in Local
      BY StoreAssumption DEF IdleLocal, Local
    <3>2. writer' \in [EventWriters -> Local]
      BY <2>3, <3>1 DEF TypeOK
    <3>. QED
      BY <3>2 DEF TypeOK, BeginLocked
  <2>. QED
    BY <2>2, <2>3 DEF BeginLocked
<1>2. LockInv'
  BY <1>0, StoreAssumption DEF LockInv, Inside
<1>3. TxnInv'
  BY <1>0 DEF TxnInv, LockInv, Inside, RowFor, TypeOK, Local
<1>4. SegmentInv' /\ UniqueInv' /\ TsFollowsSeq' /\ FeedFollowsLog'
  BY <1>0, TableFrame DEF TypeOK, Local
<1>5. NextRowInv'
  BY <1>0 DEF NextRowInv, TypeOK, Local
<1>. QED
  BY <1>1, <1>2, <1>3, <1>4, <1>5

(* BEGIN IMMEDIATE finds an open transaction. *)
LEMMA BeginNestedIInv ==
  ASSUME NEW w \in EventWriters, BeginNested(w), IInv
  PROVE  IInv'
<1>. USE DEF IInv
<1>1. TypeOK'
  BY StoreAssumption DEF TypeOK, Local, Row, BeginNested, IdleLocal
<1>2. LockInv'
  BY StoreAssumption DEF LockInv, Inside, TypeOK, Local, BeginNested, IdleLocal
<1>3. TxnInv'
  BY DEF TxnInv, LockInv, Inside, RowFor, TypeOK, Local, BeginNested, IdleLocal
<1>4. SegmentInv' /\ UniqueInv' /\ TsFollowsSeq' /\ FeedFollowsLog'
  BY TableFrame DEF TypeOK, Local, BeginNested, IdleLocal
<1>5. NextRowInv'
  BY DEF NextRowInv, TypeOK, Local, BeginNested, IdleLocal
<1>. QED
  BY <1>1, <1>2, <1>3, <1>4, <1>5

(* The row is inserted. *)
LEMMA InsertRowIInv ==
  ASSUME NEW w \in EventWriters, InsertRow(w), IInv
  PROVE  IInv'
<1>. USE DEF IInv
<1>1. TypeOK'
  <2>1. writer[w] \in Local /\ writer[w].sid \in Sessions
    BY DEF TypeOK, LockInv, InsertRow
  <2>2. writer[w].seq \in Nat \ {0}
    BY <2>1 DEF NextRowInv, SegmentInv, InsertRow
  <2>3. RowFor(writer[w]) \in Row
    BY <2>1, <2>2 DEF RowFor, Row, Local
  <2>4. writer' \in [EventWriters -> Local]
    BY ZenonT(30) DEF TypeOK, Local, InsertRow
  <2>. QED
    BY <2>3, <2>4 DEF TypeOK, InsertRow
<1>2. LockInv'
  BY StoreAssumption DEF LockInv, Inside, TypeOK, Local, InsertRow
<1>3. TxnInv'
  BY DEF TxnInv, LockInv, Inside, RowFor, TypeOK, Local, InsertRow
<1>4. SegmentInv' /\ UniqueInv' /\ TsFollowsSeq' /\ FeedFollowsLog'
  BY TableFrame DEF TypeOK, Local, InsertRow
<1>5. NextRowInv'
  BY DEF NextRowInv, TypeOK, Local, InsertRow
<1>. QED
  BY <1>1, <1>2, <1>3, <1>4, <1>5

(* The transaction is rolled back. *)
LEMMA StatementFailsIInv ==
  ASSUME NEW w \in EventWriters, StatementFails(w), IInv
  PROVE  IInv'
<1>. USE DEF IInv
<1>1. writer[w] \in Local /\ writer[w].pc \in {"begun", "selected", "inserted"}
  BY DEF TypeOK, StatementFails
<1>2. PICK l \in Local :
        /\ writer' = [writer EXCEPT ![w] = l]
        /\ l.pc \in {"idle", "backoff"}
        /\ l.pc = "backoff" => l.sid = writer[w].sid
  <2>1. CASE writer' = [writer EXCEPT ![w] = IdleLocal]
    <3>1. IdleLocal \in Local /\ IdleLocal.pc = "idle"
      BY StoreAssumption DEF IdleLocal, Local
    <3>. QED
      BY <2>1, <3>1
  <2>2. CASE /\ writer[w].attempt < MaxRetries
             /\ writer' = [writer EXCEPT ![w].pc = "backoff", ![w].attempt = @ + 1,
                                         ![w].seq = 0, ![w].ts = 0]
    <3> DEFINE m == [writer[w] EXCEPT !.pc = "backoff", !.attempt = @ + 1, !.seq = 0, !.ts = 0]
    <3>1. writer[w].attempt + 1 \in 0..MaxRetries
      BY <1>1, <2>2, StoreAssumption DEF Local
    <3>2. m \in Local /\ m.pc = "backoff" /\ m.sid = writer[w].sid
      BY <1>1, <3>1 DEF Local
    <3>3. writer' = [writer EXCEPT ![w] = m]
      BY <2>2 DEF TypeOK
    <3>. QED
      BY <3>2, <3>3
  <2>. QED
    BY <2>1, <2>2 DEF StatementFails
<1>3. /\ writer'[w] = l /\ \A v \in EventWriters \ {w} : writer'[v] = writer[v]
      /\ writer' \in [EventWriters -> Local]
      /\ pending' = {} /\ open' = FALSE /\ lock' = None /\ UNCHANGED <<table, rowPc, feed, base>>
  BY <1>2 DEF TypeOK, StatementFails
<1>4. TypeOK'
  BY <1>3 DEF TypeOK
<1>5. lock = w /\ \A v \in EventWriters \ {w} : writer[v].pc \notin Inside
  BY <1>1 DEF LockInv, Inside
<1>6. LockInv'
  BY <1>1, <1>2, <1>3, <1>5, StoreAssumption DEF LockInv, Inside
<1>7. TxnInv'
  BY <1>2, <1>3, <1>5 DEF TxnInv, Inside
<1>8. SegmentInv' /\ UniqueInv' /\ TsFollowsSeq' /\ FeedFollowsLog'
  BY <1>1, <1>2, <1>3, TableFrame
<1>9. NextRowInv'
  BY <1>2, <1>3 DEF NextRowInv
<1>. QED
  BY <1>4, <1>6, <1>7, <1>8, <1>9

(* The SELECT computes the next row of the session. *)
LEMMA SelectMaxIInv ==
  ASSUME NEW w \in EventWriters, SelectMax(w), IInv
  PROVE  IInv'
<1>. USE DEF IInv
<1>. DEFINE sid == writer[w].sid
            seq == MaxSeq(table, sid) + 1
            stamp == MaxTs(table, sid) + 1
            ts == IF writer[w].now > stamp THEN writer[w].now ELSE stamp
<1>1. pending = {} /\ sid \in Sessions /\ writer[w].now \in Nat /\ writer[w].pc = "begun"
  BY DEF TxnInv, LockInv, Inside, TypeOK, Local, SelectMax
<1>2. table \cup pending = table
  BY <1>1
<1>3. /\ MaxSeq(table, sid) \in Nat
      /\ MaxTs(table, sid) \in Nat
      /\ \A r \in RowsOf(table, sid) : r.ts <= MaxTs(table, sid)
  BY <1>1, MaxTsBounds DEF TypeOK, SegmentInv
<1>4. writer' = [writer EXCEPT ![w].pc = "selected", ![w].seq = seq, ![w].ts = ts]
  BY <1>2, Zenon DEF SelectMax
<1>5. seq \in Nat /\ ts \in Nat /\ \A r \in RowsOf(table, sid) : r.ts < ts
  <2>1. \A r \in RowsOf(table, sid) : r.ts \in Nat
    BY DEF RowsOf, TypeOK, Row
  <2>. QED
    BY <1>1, <1>3, <2>1
<1>6. UNCHANGED <<table, open, pending, lock, rowPc, feed, base>>
  BY DEF SelectMax
<1>. HIDE DEF seq, ts
<1>7. \A v \in EventWriters :
        /\ v # w => writer'[v] = writer[v]
        /\ v = w => /\ writer'[v].pc = "selected"
                    /\ writer'[v].sid = sid
                    /\ writer'[v].seq = seq
                    /\ writer'[v].ts = ts
  BY <1>4 DEF TypeOK, Local
<1>8. TypeOK'
  <2>1. [writer[w] EXCEPT !.pc = "selected", !.seq = seq, !.ts = ts] \in Local
    <3>1. writer[w] \in Local
      BY DEF TypeOK
    <3> HIDE DEF TypeOK
    <3> QED
      BY <1>5, <3>1 DEF Local
  <2>2. writer' = [writer EXCEPT
           ![w] = [writer[w] EXCEPT !.pc = "selected", !.seq = seq, !.ts = ts]]
    BY <1>4 DEF TypeOK
  <2>3. writer' \in [EventWriters -> Local]
    BY <2>1, <2>2 DEF TypeOK
  <2>. QED
    BY <1>6, <2>3 DEF TypeOK
<1>9. LockInv'
  BY <1>1, <1>6, <1>7 DEF LockInv, Inside
<1>10. TxnInv'
  BY <1>1, <1>6, <1>7 DEF TxnInv
<1>11. SegmentInv' /\ UniqueInv' /\ TsFollowsSeq' /\ FeedFollowsLog'
  BY <1>1, <1>6, <1>7, TableFrame
<1>12. NextRowInv'
  <2>1. seq = MaxSeq(table, sid) + 1
    BY DEF seq
  <2>. QED
    BY <1>1, <1>5, <1>6, <1>7, <2>1 DEF NextRowInv
<1>. QED
  BY <1>8, <1>9, <1>10, <1>11, <1>12

(* The COMMIT adds the inserted row to the table. *)
LEMMA CommitEventIInv ==
  ASSUME NEW w \in EventWriters, CommitEvent(w), IInv
  PROVE  IInv'
<1>. USE DEF IInv
<1>. DEFINE x == RowFor(writer[w])
<1>1. /\ writer[w].pc = "inserted"
      /\ lock = w
      /\ writer[w].sid \in Sessions
      /\ pending = {x}
      /\ \A v \in EventWriters \ {w} : writer[v].pc \notin Inside
      /\ \A p \in RowWriters : rowPc[p] # "executing"
  BY StoreAssumption DEF CommitEvent, LockInv, TxnInv, Inside
<1>2. x \in Row /\ x.sid = writer[w].sid /\ x.seq = writer[w].seq /\ x.ts = writer[w].ts
  BY <1>1 DEF TypeOK, RowFor, Row
<1>3. /\ x.seq = MaxSeq(table, x.sid) + 1
      /\ \A r \in RowsOf(table, x.sid) : r.ts < x.ts
  BY <1>1, <1>2 DEF NextRowInv
<1>. HIDE DEF x
<1>4. /\ table' = table \cup {x}
      /\ pending' = {} /\ open' = FALSE
      /\ UNCHANGED <<lock, rowPc, feed, base>>
      /\ \A v \in EventWriters \ {w} : writer'[v] = writer[v]
      /\ writer'[w].pc = "committed"
      /\ writer'[w].sid = writer[w].sid /\ writer'[w].seq = writer[w].seq
  BY <1>1 DEF CommitEvent, CommitTransaction, TypeOK, Local
<1>5. /\ SegmentInv' /\ UniqueInv' /\ TsFollowsSeq'
      /\ MaxSeq(table', x.sid) = x.seq
      /\ \A s \in Sessions \ {x.sid} : MaxSeq(table', s) = MaxSeq(table, s)
  BY <1>2, <1>3, <1>4, AddNextRow DEF TypeOK
<1>6. TypeOK'
  <2>1. writer' \in [EventWriters -> Local]
    BY ZenonT(30) DEF TypeOK, Local, CommitEvent
  <2>. QED
    BY <1>2, <1>4, <2>1 DEF TypeOK
<1>7. LockInv'
  BY <1>1, <1>4 DEF LockInv, Inside
<1>8. TxnInv'
  BY <1>1, <1>4 DEF TxnInv, Inside
<1>9. NextRowInv'
  <2>. SUFFICES ASSUME NEW v \in EventWriters
                PROVE  /\ writer'[v].pc \in {"selected", "inserted"} =>
                            /\ writer'[v].seq = MaxSeq(table', writer'[v].sid) + 1
                            /\ \A r \in RowsOf(table', writer'[v].sid) : r.ts < writer'[v].ts
                       /\ writer'[v].pc = "committed" =>
                            writer'[v].seq = MaxSeq(table', writer'[v].sid)
    BY DEF NextRowInv
  <2>1. CASE v = w
    BY <1>2, <1>4, <1>5, <2>1
  <2>2. CASE v # w
    BY <1>1, <1>4, <2>2 DEF Inside
  <2>. QED
    BY <2>1, <2>2
<1>10. FeedFollowsLog'
  <2>. SUFFICES ASSUME NEW s \in Sessions
                PROVE  /\ feed'[s] = [i \in 1..Len(feed'[s]) |-> base'[s] + i]
                       /\ MaxSeq(table', s) =
                            base'[s] + Len(feed'[s]) + IF InFlight(s)' = {} THEN 0 ELSE 1
    BY DEF FeedFollowsLog
  <2>1. /\ feed[s] = [i \in 1..Len(feed[s]) |-> base[s] + i]
        /\ MaxSeq(table, s) = base[s] + Len(feed[s]) + IF InFlight(s) = {} THEN 0 ELSE 1
    BY DEF FeedFollowsLog
  <2>2. InFlight(s) = {}
    BY <1>1 DEF InFlight, Inside
  <2>3. base[s] \in Nat /\ Len(feed[s]) \in Nat
    BY DEF TypeOK
  <2>4. CASE s = x.sid
    <3>1. w \in InFlight(s)'
      BY <1>2, <1>4, <2>4 DEF InFlight
    <3>. QED
      BY <1>3, <1>4, <1>5, <2>1, <2>2, <2>3, <2>4, <3>1
  <2>5. CASE s # x.sid
    <3>1. InFlight(s)' = {}
      BY <1>1, <1>2, <1>4, <2>5 DEF InFlight, Inside
    <3>. QED
      BY <1>4, <1>5, <2>1, <2>2, <2>5, <3>1
  <2>. QED
    BY <2>4, <2>5
<1>. QED
  BY <1>5, <1>6, <1>7, <1>8, <1>9, <1>10

(* The event is published: the feed catches up with the log. *)
LEMMA ReturnAndPublishIInv ==
  ASSUME NEW w \in EventWriters, ReturnAndPublish(w), IInv
  PROVE  IInv'
<1>. USE DEF IInv
<1>. DEFINE t == writer[w].sid
<1>1. /\ writer[w].pc = "committed"
      /\ lock = w
      /\ t \in Sessions
      /\ \A v \in EventWriters \ {w} : writer[v].pc \notin Inside
      /\ \A p \in RowWriters : rowPc[p] # "executing"
      /\ writer[w].seq = MaxSeq(table, t)
  BY StoreAssumption DEF ReturnAndPublish, LockInv, Inside, NextRowInv
<1>2. /\ lock' = None
      /\ feed' = [feed EXCEPT ![t] = Append(feed[t], writer[w].seq)]
      /\ \A v \in EventWriters \ {w} : writer'[v] = writer[v]
      /\ writer'[w].pc = "idle"
      /\ UNCHANGED <<table, open, pending, rowPc, base>>
  BY DEF ReturnAndPublish, TypeOK, IdleLocal
<1>3. /\ MaxSeq(table, t) = base[t] + Len(feed[t]) + 1
      /\ base[t] \in Nat /\ Len(feed[t]) \in Nat /\ feed[t] \in Seq(Nat)
  <2>1. w \in InFlight(t)
    BY <1>1 DEF InFlight
  <2>2. MaxSeq(table, t) = base[t] + Len(feed[t]) + IF InFlight(t) = {} THEN 0 ELSE 1
    BY <1>1 DEF FeedFollowsLog
  <2>3. base[t] \in Nat /\ Len(feed[t]) \in Nat /\ feed[t] \in Seq(Nat)
    BY <1>1 DEF TypeOK
  <2>. HIDE DEF t
  <2>. QED
    BY <2>1, <2>2, <2>3
<1>4. TypeOK'
  <2>1. writer' \in [EventWriters -> Local]
    <3>1. IdleLocal \in Local
      BY StoreAssumption DEF IdleLocal, Local
    <3>. QED
      BY <3>1 DEF TypeOK, ReturnAndPublish
  <2>2. Append(feed[t], writer[w].seq) \in Seq(Nat)
    BY <1>3 DEF TypeOK, Local
  <2>3. feed' \in [Sessions -> Seq(Nat)]
    BY <1>2, <2>2 DEF TypeOK
  <2>. QED
    BY <1>2, <2>1, <2>3 DEF TypeOK
<1>5. LockInv'
  BY <1>1, <1>2, StoreAssumption DEF LockInv, Inside
<1>6. TxnInv'
  BY <1>1, <1>2 DEF TxnInv, Inside
<1>7. SegmentInv' /\ UniqueInv' /\ TsFollowsSeq'
  BY <1>2 DEF SegmentInv, UniqueInv, TsFollowsSeq
<1>8. NextRowInv'
  BY <1>1, <1>2 DEF NextRowInv, Inside
<1>9. FeedFollowsLog'
  <2>. SUFFICES ASSUME NEW s \in Sessions
                PROVE  /\ feed'[s] = [i \in 1..Len(feed'[s]) |-> base'[s] + i]
                       /\ MaxSeq(table', s) =
                            base'[s] + Len(feed'[s]) + IF InFlight(s)' = {} THEN 0 ELSE 1
    BY DEF FeedFollowsLog
  <2>1. /\ feed[s] = [i \in 1..Len(feed[s]) |-> base[s] + i]
        /\ MaxSeq(table, s) = base[s] + Len(feed[s]) + IF InFlight(s) = {} THEN 0 ELSE 1
    BY DEF FeedFollowsLog
  <2>2. InFlight(s)' = {}
    BY <1>1, <1>2 DEF InFlight, Inside
  <2>3. CASE s = t
    <3>. DEFINE n == Len(feed[t])
                f == feed[t]
                b == base[t]
    <3>1. feed'[s] = Append(f, b + n + 1)
      BY <1>1, <1>2, <1>3, <2>3 DEF TypeOK
    <3>2. f \in Seq(Nat) /\ n \in Nat /\ n = Len(f) /\ b \in Nat
      BY <1>3
    <3>3. f = [i \in 1..n |-> b + i]
      BY <2>1, <2>3
    <3>4. base'[s] = b /\ MaxSeq(table', s) = b + n + 1
      BY <1>2, <1>3, <2>3
    <3>. HIDE DEF n, f, b
    <3>5. Len(feed'[s]) = n + 1
      BY <3>1, <3>2
    <3>6. \A i \in 1..(n + 1) : Append(f, b + n + 1)[i] = b + i
      <4>. SUFFICES ASSUME NEW i \in 1..(n + 1)
                    PROVE  Append(f, b + n + 1)[i] = b + i
        OBVIOUS
      <4>1. CASE i = n + 1
        BY <3>2, <4>1
      <4>2. CASE i \in 1..n
        <5>1. Append(f, b + n + 1)[i] = f[i]
          BY <3>2, <4>2
        <5>. QED
          BY <3>3, <4>2, <5>1
      <4>. QED
        BY <3>2, <4>1, <4>2
    <3>7. Append(f, b + n + 1) = [i \in 1..(n + 1) |-> b + i]
      BY <3>2, <3>6
    <3>8. feed'[s] = [i \in 1..(n + 1) |-> base'[s] + i]
      BY <3>1, <3>4, <3>7
    <3>9. feed'[s] = [i \in 1..Len(feed'[s]) |-> base'[s] + i]
      BY <3>5, <3>8
    <3>10. MaxSeq(table', s) = base'[s] + Len(feed'[s]) + 0
      BY <3>2, <3>4, <3>5
    <3>. QED
      BY <2>2, <3>9, <3>10
  <2>4. CASE s # t
    <3>1. feed'[s] = feed[s]
      BY <1>2, <2>4 DEF TypeOK
    <3>2. InFlight(s) = {}
      BY <1>1, <2>4 DEF InFlight, Inside
    <3>. QED
      BY <1>2, <2>1, <2>2, <3>1, <3>2
  <2>. QED
    BY <2>3, <2>4
<1>. QED
  BY <1>4, <1>5, <1>6, <1>7, <1>8, <1>9

(* The steps of the other tables' writers touch the lock and the            *)
(* transaction, never the event rows.                                      *)
LEMMA RowWriterIInv ==
  ASSUME NEW p \in RowWriters, IInv,
         ExecuteRow(p) \/ ExecuteRowFails(p) \/ RowStep(p)
  PROVE  IInv'
<1>. USE DEF IInv
<1>1. UNCHANGED <<table, writer, feed, base>> /\ pending' = pending
  <2>1. rowPc[p] = "executing" => pending = {}
    BY StoreAssumption DEF LockInv, TxnInv, Inside
  <2>. QED
    BY <2>1 DEF ExecuteRow, ExecuteRowFails, RowStep, CommitRow, CancelRow, CommitTransaction
<1>2. TypeOK'
  BY <1>1 DEF TypeOK, ExecuteRow, ExecuteRowFails, RowStep, CommitRow, CancelRow,
              CommitTransaction
<1>3. LockInv'
  BY <1>1, StoreAssumption
     DEF LockInv, Inside, TypeOK, ExecuteRow, ExecuteRowFails, RowStep, CommitRow, CancelRow
<1>4. TxnInv'
  <2>1. rowPc[p] = "executing" \/ lock = None =>
          \A w \in EventWriters : writer[w].pc \notin Inside
    BY StoreAssumption DEF LockInv, Inside
  <2>. QED
    BY <1>1, <2>1 DEF TxnInv, Inside, ExecuteRow, ExecuteRowFails, RowStep, CommitRow, CancelRow
<1>5. SegmentInv' /\ UniqueInv' /\ TsFollowsSeq' /\ FeedFollowsLog'
  BY <1>1, TableFrame
<1>6. NextRowInv'
  BY <1>1 DEF NextRowInv
<1>. QED
  BY <1>2, <1>3, <1>4, <1>5, <1>6

(* The process restarts: the feed starts over after the last committed row. *)
LEMMA RestartIInv ==
  ASSUME Restart, IInv
  PROVE  IInv'
<1>. USE DEF IInv
<1>1. \A w \in EventWriters : writer'[w].pc = "idle"
  BY DEF Restart, IdleLocal
<1>2. TypeOK'
  <2>1. writer' \in [EventWriters -> Local]
    <3>1. IdleLocal \in Local
      BY StoreAssumption DEF IdleLocal, Local
    <3>. QED
      BY <3>1 DEF Restart
  <2>2. base' \in [Sessions -> Nat]
    BY DEF Restart, SegmentInv
  <2>3. feed' \in [Sessions -> Seq(Nat)]
    BY DEF Restart
  <2>. QED
    BY <2>1, <2>2, <2>3 DEF TypeOK, Restart
<1>3. LockInv'
  BY <1>1, StoreAssumption DEF LockInv, Inside, Restart
<1>4. TxnInv'
  BY <1>1 DEF TxnInv, Restart
<1>5. SegmentInv' /\ UniqueInv' /\ TsFollowsSeq'
  BY DEF SegmentInv, UniqueInv, TsFollowsSeq, Restart
<1>6. NextRowInv'
  BY <1>1 DEF NextRowInv
<1>7. FeedFollowsLog'
  <2>. SUFFICES ASSUME NEW s \in Sessions
                PROVE  /\ feed'[s] = [i \in 1..Len(feed'[s]) |-> base'[s] + i]
                       /\ MaxSeq(table', s) =
                            base'[s] + Len(feed'[s]) + IF InFlight(s)' = {} THEN 0 ELSE 1
    BY DEF FeedFollowsLog
  <2>1. feed'[s] = <<>> /\ base'[s] = MaxSeq(table, s) /\ table' = table
    BY DEF Restart
  <2>2. InFlight(s)' = {}
    BY <1>1 DEF InFlight
  <2>3. MaxSeq(table, s) \in Nat
    BY DEF SegmentInv
  <2>. QED
    BY <2>1, <2>2, <2>3
<1>. QED
  BY <1>2, <1>3, <1>4, <1>5, <1>6, <1>7

-------------------------------------------------------------------------------
(* Every step preserves the inductive invariant. *)
LEMMA NextIInv == IInv /\ [Next]_vars => IInv'
<1>. SUFFICES ASSUME IInv, [Next]_vars PROVE IInv'
  OBVIOUS
<1>1. ASSUME NEW w \in EventWriters, NEW s \in Sessions, StartWrite(w, s)
      PROVE  IInv'
  BY <1>1, StartWriteIInv
<1>2. ASSUME NEW w \in EventWriters, WriteStep(w)
      PROVE  IInv'
  BY <1>2, RetryWriteIInv, BeginImmediateIInv, BeginLockedIInv, BeginNestedIInv,
     SelectMaxIInv, InsertRowIInv, StatementFailsIInv, CommitEventIInv,
     ReturnAndPublishIInv DEF WriteStep
<1>3. ASSUME NEW p \in RowWriters, ExecuteRow(p) \/ ExecuteRowFails(p) \/ RowStep(p)
      PROVE  IInv'
  BY <1>3, RowWriterIInv
<1>4. CASE Restart
  BY <1>4, RestartIInv
<1>5. CASE UNCHANGED vars
  <2>1. \A s \in Sessions : InFlight(s)' = InFlight(s)
    BY <1>5 DEF InFlight, vars
  <2>. QED
    BY <1>5, <2>1, ZenonT(30) DEF IInv, TypeOK, LockInv, TxnInv, SegmentInv, UniqueInv, TsFollowsSeq,
                      NextRowInv, FeedFollowsLog, vars
<1>. QED
  BY <1>1, <1>2, <1>3, <1>4, <1>5 DEF Next

(* The inductive invariant holds in every reachable state. *)
THEOREM StoreInvariant == Spec => []IInv
BY InitIInv, NextIInv, PTL DEF Spec

(* The state of the store always has its type. *)
THEOREM StoreTyped == Spec => []TypeOK
<1>1. IInv => TypeOK
  BY DEF IInv
<1>. QED
  BY <1>1, StoreInvariant, PTL

(* EventLogger.write numbers the events of a session 1, 2, 3, ... with no   *)
(* gap and no duplicate, whatever fails, is cancelled or restarts.          *)
THEOREM StoreSeqDense == Spec => []SeqDense
<1>1. IInv => SeqDense
  <2>. SUFFICES ASSUME IInv, NEW r \in table
                PROVE  /\ \A q \in RowsOf(table, r.sid) : q.seq = r.seq => q = r
                       /\ \A k \in 1..r.seq : \E q \in RowsOf(table, r.sid) : q.seq = k
    BY DEF SeqDense
  <2>1. r.sid \in Sessions /\ r \in RowsOf(table, r.sid)
    BY DEF IInv, TypeOK, Row, RowsOf
  <2>. DEFINE n == MaxSeq(table, r.sid)
  <2>2. n \in Nat /\ {q.seq : q \in RowsOf(table, r.sid)} = 1..n
    BY <2>1 DEF IInv, SegmentInv
  <2>. HIDE DEF n
  <2>3. r.seq \in 1..n
    BY <2>1, <2>2
  <2>4. \A k \in 1..r.seq : k \in 1..n
    BY <2>2, <2>3
  <2>5. \A k \in 1..r.seq : k \in {q.seq : q \in RowsOf(table, r.sid)}
    BY <2>2, <2>4
  <2>6. \A q \in RowsOf(table, r.sid) : q.seq = r.seq => q = r
    BY DEF IInv, UniqueInv, RowsOf
  <2>. QED
    BY <2>5, <2>6
<1>. QED
  BY <1>1, StoreInvariant, PTL

(* Stamps follow seqs, whatever the wall clock does. *)
THEOREM StoreTsFollowsSeq == Spec => []TsFollowsSeq
<1>1. IInv => TsFollowsSeq
  BY DEF IInv
<1>. QED
  BY <1>1, StoreInvariant, PTL

(* The bus is given every event persisted since the start, once, in seq     *)
(* order and after its commit.                                              *)
THEOREM StoreFeedFollowsLog == Spec => []FeedFollowsLog
<1>1. IInv => FeedFollowsLog
  BY DEF IInv
<1>. QED
  BY <1>1, StoreInvariant, PTL
-------------------------------------------------------------------------------
(* TableLog of any set of rows. *)
LogOf(rows, s) ==
  [i \in 1..MaxSeq(rows, s) |-> (CHOOSE r \in RowsOf(rows, s) : r.seq = i).ts]

LEMMA TableLogIs ==
  \A s \in Sessions : TableLog(s) = LogOf(table, s) /\ TableLog(s)' = LogOf(table', s)
BY DEF TableLog, LogOf

(* Read by seq, rows whose seqs are a segment give back the stamp of each.  *)
LEMMA LogReadsRows ==
  ASSUME NEW rows, NEW s, NEW n \in Nat, MaxSeq(rows, s) = n,
         {r.seq : r \in RowsOf(rows, s)} = 1..n,
         \A q, r \in RowsOf(rows, s) : q.seq = r.seq => q = r
  PROVE  /\ DOMAIN LogOf(rows, s) = 1..n
         /\ Len(LogOf(rows, s)) = n
         /\ \A r \in RowsOf(rows, s) : r.seq \in 1..n /\ LogOf(rows, s)[r.seq] = r.ts
         /\ \A i \in 1..n : \E r \in RowsOf(rows, s) : r.seq = i /\ LogOf(rows, s)[i] = r.ts
<1>1. LogOf(rows, s) = [i \in 1..n |-> (CHOOSE r \in RowsOf(rows, s) : r.seq = i).ts]
  BY DEF LogOf
<1>2. DOMAIN LogOf(rows, s) = 1..n /\ Len(LogOf(rows, s)) = n
  BY <1>1
<1>3. ASSUME NEW r \in RowsOf(rows, s) PROVE r.seq \in 1..n /\ LogOf(rows, s)[r.seq] = r.ts
  <2>1. r.seq \in {q.seq : q \in RowsOf(rows, s)}
    OBVIOUS
  <2>2. r.seq \in 1..n
    BY <2>1
  <2>3. (CHOOSE q \in RowsOf(rows, s) : q.seq = r.seq) = r
    OBVIOUS
  <2> QED
    BY <1>1, <2>2, <2>3
<1>4. ASSUME NEW i \in 1..n
      PROVE  \E r \in RowsOf(rows, s) : r.seq = i /\ LogOf(rows, s)[i] = r.ts
  <2>1. i \in {q.seq : q \in RowsOf(rows, s)}
    OBVIOUS
  <2>2. PICK r \in RowsOf(rows, s) : r.seq = i
    BY <2>1
  <2> QED
    BY <1>3, <2>2
<1> QED
  BY <1>2, <1>3, <1>4

LEMMA TableReads ==
  ASSUME IInv, NEW s \in Sessions
  PROVE  /\ MaxSeq(table, s) \in Nat
         /\ DOMAIN TableLog(s) = 1..MaxSeq(table, s)
         /\ Len(TableLog(s)) = MaxSeq(table, s)
         /\ \A r \in RowsOf(table, s) :
              r.seq \in 1..MaxSeq(table, s) /\ TableLog(s)[r.seq] = r.ts
         /\ \A i \in 1..MaxSeq(table, s) :
              \E r \in RowsOf(table, s) : r.seq = i /\ TableLog(s)[i] = r.ts
<1>1. MaxSeq(table, s) \in Nat /\ {r.seq : r \in RowsOf(table, s)} = 1..MaxSeq(table, s)
  BY DEF IInv, SegmentInv
<1>2. \A q, r \in RowsOf(table, s) : q.seq = r.seq => q = r
  BY DEF IInv, UniqueInv, RowsOf
<1>3. TableLog(s) = LogOf(table, s)
  BY TableLogIs
<1> QED
  BY <1>1, <1>2, <1>3, LogReadsRows

(* The initial table and feed are an empty log. *)
LEMMA LogInit == Init /\ IInv => Log!Init
<1> SUFFICES ASSUME Init, IInv PROVE Log!Init
  OBVIOUS
<1>1. ASSUME NEW s \in Sessions PROVE TableLog(s) = <<>> /\ base[s] + Len(feed[s]) = 0
  <2>1. feed[s] = <<>> /\ base[s] = 0
    BY DEF Init
  <2>2. {r.seq : r \in RowsOf(table, s)} = {}
    BY DEF Init, RowsOf
  <2>3. MaxSeq(table, s) = 0
    BY <2>2, LargestIs DEF MaxSeq
  <2>4. TableLog(s) = <<>>
    BY <2>3 DEF TableLog
  <2> QED
    BY <2>1, <2>4
<1> QED
  BY <1>1 DEF Log!Init

(* A step that leaves the table and the feed alone is a stutter. *)
LEMMA LogStutters == UNCHANGED <<table, feed, base>> => UNCHANGED Log!vars
<1> SUFFICES ASSUME UNCHANGED <<table, feed, base>> PROVE UNCHANGED Log!vars
  OBVIOUS
<1>1. \A s \in Sessions : TableLog(s)' = TableLog(s)
  BY TableLogIs
<1> QED
  BY <1>1 DEF Log!vars

(* A commit appends the row of the writer to its session's log. *)
LEMMA LogAppends ==
  ASSUME IInv, NEW w \in EventWriters, CommitEvent(w)
  PROVE  Log!Next
<1>0. PICK s \in Sessions : s = writer[w].sid
  BY DEF IInv, LockInv, CommitEvent
<1> DEFINE x == RowFor(writer[w])
           n == MaxSeq(table, s)
<1>1. /\ writer[w].pc = "inserted"
      /\ pending = {x}
      /\ \A v \in EventWriters : writer[v].pc # "committed"
  BY StoreAssumption DEF IInv, CommitEvent, LockInv, TxnInv, Inside
<1>2. x \in Row /\ x.sid = s /\ x.seq = writer[w].seq /\ x.ts = writer[w].ts
  BY <1>0, <1>1 DEF IInv, TypeOK, RowFor, Row
<1>3. /\ x.seq = n + 1
      /\ \A r \in RowsOf(table, s) : r.ts < x.ts
  BY <1>0, <1>1, <1>2 DEF IInv, NextRowInv
<1> HIDE DEF x
<1>4. table' = table \cup {x} /\ UNCHANGED <<feed, base>>
  BY <1>1 DEF CommitEvent, CommitTransaction
<1>5. /\ SegmentInv' /\ UniqueInv'
      /\ MaxSeq(table', s) = n + 1
      /\ \A r \in Sessions \ {s} : MaxSeq(table', r) = MaxSeq(table, r)
  BY <1>2, <1>3, <1>4, AddNextRow DEF IInv, TypeOK
<1>6. /\ n \in Nat /\ DOMAIN TableLog(s) = 1..n /\ Len(TableLog(s)) = n
      /\ \A i \in 1..n : \E r \in RowsOf(table, s) : r.seq = i /\ TableLog(s)[i] = r.ts
  BY <1>1, TableReads
<1>7. /\ Len(LogOf(table', s)) = n + 1
      /\ \A r \in RowsOf(table', s) : LogOf(table', s)[r.seq] = r.ts
  <2>1. n + 1 \in Nat
    BY <1>6
  <2>2. {r.seq : r \in RowsOf(table', s)} = 1..(n + 1)
    BY <1>1, <1>5 DEF SegmentInv
  <2>3. \A q, r \in RowsOf(table', s) : q.seq = r.seq => q = r
    BY <1>5 DEF UniqueInv, RowsOf
  <2> HIDE DEF n
  <2> QED
    BY <1>5, <2>1, <2>2, <2>3, LogReadsRows
<1>8. RowsOf(table, s) \subseteq RowsOf(table', s) /\ x \in RowsOf(table', s)
  BY <1>2, <1>4 DEF RowsOf
<1>9. ASSUME NEW r \in Sessions \ {s} PROVE TableLog(r)' = TableLog(r)
  <2>1. RowsOf(table', r) = RowsOf(table, r)
    BY <1>2, <1>4 DEF RowsOf
  <2>2. LogOf(table', r) = LogOf(table, r)
    BY <1>5, <2>1 DEF LogOf
  <2> QED
    BY <2>2, TableLogIs
<1>10. TableLog(s)' = LogOf(table', s)
  BY <1>1, TableLogIs
<1>11. \A i \in 1..n : TableLog(s)'[i] = TableLog(s)[i]
  BY <1>6, <1>7, <1>8, <1>10
<1>12. n > 0 => TableLog(s)'[n + 1] > TableLog(s)[n]
  <2>1. TableLog(s)'[n + 1] = x.ts
    BY <1>3, <1>7, <1>8, <1>10
  <2>2. \A i \in 1..n : TableLog(s)[i] < x.ts /\ TableLog(s)[i] \in Nat
    <3>1. \A r \in RowsOf(table, s) : r.ts \in Nat
      BY DEF IInv, TypeOK, Row, RowsOf
    <3> QED
      BY <1>3, <1>6, <3>1
  <2>3. x.ts \in Nat
    BY <1>2 DEF Row
  <2>4. n > 0 => n \in 1..n
    BY <1>6
  <2> QED
    BY <2>1, <2>2, <2>3, <2>4
<1>13. \A r \in Sessions : base[r] + Len(feed[r]) = Len(TableLog(r))
  <2> SUFFICES ASSUME NEW r \in Sessions PROVE base[r] + Len(feed[r]) = Len(TableLog(r))
    OBVIOUS
  <2>1. InFlight(r) = {}
    BY <1>1 DEF InFlight
  <2>2. MaxSeq(table, r) = base[r] + Len(feed[r]) + IF InFlight(r) = {} THEN 0 ELSE 1
    BY DEF IInv, FeedFollowsLog
  <2>3. base[r] \in Nat /\ Len(feed[r]) \in Nat
    BY DEF IInv, TypeOK
  <2> QED
    BY <2>1, <2>2, <2>3, TableReads
<1>14. Len(TableLog(s)') = n + 1
  BY <1>7, <1>10
<1> HIDE DEF n
<1>15. Log!Append1(s)
  <2>1. Log!Quiet
    BY <1>13 DEF Log!Quiet
  <2> QED
    BY <1>1, <1>4, <1>6, <1>9, <1>11, <1>12, <1>14, <2>1 DEF Log!Append1
<1> QED
  BY <1>1, <1>15 DEF Log!Next

(* A return offers the row to the bus. *)
LEMMA LogOffers ==
  ASSUME IInv, NEW w \in EventWriters, ReturnAndPublish(w)
  PROVE  Log!Next
<1>0. PICK s \in Sessions : s = writer[w].sid
  BY DEF IInv, LockInv, ReturnAndPublish
<1>1. w \in InFlight(s)
  BY <1>0 DEF ReturnAndPublish, InFlight
<1>2. /\ feed' = [feed EXCEPT ![s] = Append(feed[s], writer[w].seq)]
      /\ UNCHANGED <<table, base>>
  BY <1>0 DEF ReturnAndPublish
<1>3. writer[w].seq \in Nat
  BY DEF IInv, TypeOK, Local
<1>4. feed \in [Sessions -> Seq(Nat)] /\ base \in [Sessions -> Nat]
  BY DEF IInv, TypeOK
<1>5. \A r \in Sessions : Len(feed'[r]) = IF r = s THEN Len(feed[r]) + 1 ELSE Len(feed[r])
  BY <1>1, <1>2, <1>3, <1>4
<1>6. \A r \in Sessions : base[r] + Len(feed'[r]) =
        IF r = s THEN base[r] + Len(feed[r]) + 1 ELSE base[r] + Len(feed[r])
  <2> SUFFICES ASSUME NEW r \in Sessions
               PROVE  base[r] + Len(feed'[r]) =
                        IF r = s THEN base[r] + Len(feed[r]) + 1 ELSE base[r] + Len(feed[r])
    OBVIOUS
  <2>1. base[r] \in Nat /\ Len(feed[r]) \in Nat
    BY <1>4
  <2>2. r = s => Len(feed'[r]) = Len(feed[r]) + 1
    BY <1>5
  <2>3. r # s => Len(feed'[r]) = Len(feed[r])
    BY <1>5
  <2> QED
    BY <2>1, <2>2, <2>3
<1>7. base[s] + Len(feed[s]) < Len(TableLog(s))
  <2>1. MaxSeq(table, s) = base[s] + Len(feed[s]) + IF InFlight(s) = {} THEN 0 ELSE 1
    BY <1>1 DEF IInv, FeedFollowsLog
  <2>2. base[s] \in Nat /\ Len(feed[s]) \in Nat
    BY <1>1, <1>4
  <2> QED
    BY <1>1, <2>1, <2>2, TableReads
<1>8. \A r \in Sessions : TableLog(r)' = TableLog(r)
  BY <1>2, TableLogIs
<1>9. Log!Offer(s)
  BY <1>1, <1>2, <1>6, <1>7, <1>8 DEF Log!Offer
<1> QED
  BY <1>1, <1>9 DEF Log!Next

(* A restart moves the cursor past what was never offered. *)
LEMMA LogReboots ==
  ASSUME IInv, Restart
  PROVE  Log!Next
<1>1. \A s \in Sessions : TableLog(s)' = TableLog(s)
  BY TableLogIs DEF Restart
<1>2. ASSUME NEW s \in Sessions PROVE base'[s] + Len(feed'[s]) = Len(TableLog(s))
  <2>1. base'[s] = MaxSeq(table, s) /\ feed'[s] = <<>>
    BY DEF Restart
  <2>2. Len(<<>>) = 0
    OBVIOUS
  <2> QED
    BY <2>1, <2>2, TableReads
<1>3. Log!Reboot
  BY <1>1, <1>2 DEF Log!Reboot
<1> QED
  BY <1>3 DEF Log!Next

(* Every step of the store is a step of the log or a stutter. *)
LEMMA LogNext == IInv /\ [Next]_vars => [Log!Next]_(Log!vars)
<1> SUFFICES ASSUME IInv, [Next]_vars PROVE Log!Next \/ UNCHANGED Log!vars
  OBVIOUS
<1>1. ASSUME NEW w \in EventWriters, NEW s \in Sessions, StartWrite(w, s)
      PROVE  UNCHANGED Log!vars
  BY <1>1, LogStutters DEF StartWrite
<1>2. ASSUME NEW w \in EventWriters, WriteStep(w)
      PROVE  Log!Next \/ UNCHANGED Log!vars
  <2>1. CASE CommitEvent(w)
    BY <2>1, LogAppends
  <2>2. CASE ReturnAndPublish(w)
    BY <2>2, LogOffers
  <2>3. CASE \/ RetryWrite(w) \/ BeginImmediate(w) \/ BeginLocked(w) \/ BeginNested(w)
             \/ SelectMax(w) \/ InsertRow(w) \/ StatementFails(w)
    <3>1. UNCHANGED <<table, feed, base>>
      BY <2>3 DEF RetryWrite, BeginImmediate, BeginLocked, BeginNested, SelectMax, InsertRow,
                  StatementFails
    <3> QED
      BY <3>1, LogStutters
  <2> QED
    BY <1>2, <2>1, <2>2, <2>3 DEF WriteStep
<1>3. ASSUME NEW p \in RowWriters, ExecuteRow(p) \/ ExecuteRowFails(p) \/ RowStep(p)
      PROVE  UNCHANGED Log!vars
  <2>1. rowPc[p] = "executing" => pending = {}
    BY StoreAssumption DEF IInv, LockInv, TxnInv, Inside
  <2>2. UNCHANGED <<table, feed, base>>
    BY <1>3, <2>1 DEF ExecuteRow, ExecuteRowFails, RowStep, CommitRow, CancelRow, CommitTransaction
  <2> QED
    BY <2>2, LogStutters
<1>4. CASE Restart
  BY <1>4, LogReboots
<1>5. CASE UNCHANGED vars
  BY <1>5, LogStutters DEF vars
<1> QED
  BY <1>1, <1>2, <1>3, <1>4, <1>5 DEF Next

(* The table, the transaction and the lock implement the append-only log    *)
(* with its feed, for every set of sessions and writers and every clock.    *)
THEOREM StoreImplementsLog == Spec => ImplementsLog
<1>1. Init => Log!Init
  BY InitIInv, LogInit
<1> QED
  BY <1>1, LogNext, StoreInvariant, PTL DEF Spec, ImplementsLog, Log!Spec
================================================================================
