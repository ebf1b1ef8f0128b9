------------------------------ MODULE EventStore ------------------------------
(***************************************************************************)
(* The event table and the one connection that writes it: app/storage/db.py *)
(* and app/storage/events.py, with the hand-over of a persisted event to   *)
(* the bus (app/ws/candidate.py _emit, app/main.py create_session).         *)
(*                                                                         *)
(* EventWriters are the coroutines inside EventLogger.write (a candidate   *)
(* socket's handler, the POST /api/session handler).  RowWriters are the   *)
(* coroutines that write any other table through the same connection:      *)
(* record_llm_call, ScoreStore.upsert, the session row helpers.  These run *)
(* one statement and commit, with no rollback on the way out.              *)
(*                                                                         *)
(* A step of the model is what one coroutine does between two suspension   *)
(* points; a statement takes effect in the connection's thread when it is  *)
(* submitted, whether or not the coroutine that awaits it is cancelled.    *)
(***************************************************************************)
EXTENDS Integers, Sequences, FiniteSets

CONSTANTS
  Sessions,      \* session ids
  EventWriters,  \* coroutines that write events
  RowWriters,    \* coroutines that write rows of other tables
  None,          \* nobody, or no session
  WallClock,     \* readings of time.time() in ms; any reading at any moment
  MaxRetries,    \* Len(_RETRY_BACKOFF_S)
  MaxEvents      \* bound: a write starts only while its session has fewer rows

ASSUME StoreAssumption ==
  /\ None \notin EventWriters \cup RowWriters \cup Sessions
  /\ EventWriters \cap RowWriters = {}
  /\ WallClock \subseteq Nat
  /\ MaxRetries \in Nat
  /\ MaxEvents \in Nat

VARIABLES
  table,    \* the committed rows of events
  open,     \* the write connection is inside a transaction
  pending,  \* the event rows inserted by that transaction
  lock,     \* who holds the asyncio.Lock of Database
  writer,   \* writer[w]: the locals of w's call of EventLogger.write
  rowPc,    \* rowPc[p]: "idle", or "executing" its statement under the lock
  feed,     \* feed[s]: the seqs published since the process started
  base      \* base[s]: MAX(seq) of s when the process started

vars == <<table, open, pending, lock, writer, rowPc, feed, base>>

Row == [sid : Sessions, seq : Nat \ {0}, ts : Nat]

Local ==
  [pc : {"idle", "waiting", "backoff", "begun", "selected", "inserted", "committed"},
   sid : Sessions \cup {None}, now : Nat, attempt : 0..MaxRetries, seq : Nat, ts : Nat]

(* SELECT COALESCE(MAX(seq), 0), COALESCE(MAX(ts), 0) ... WHERE session_id = s *)
Largest(S) == CHOOSE n \in S \cup {0} : \A m \in S : m <= n
RowsOf(rows, s) == {r \in rows : r.sid = s}
(* Fault: the WHERE clause is dropped. *)
MaxSeqOfAllSessions(rows, s) == Largest({r.seq : r \in rows})
MaxSeq(rows, s) == Largest({r.seq : r \in RowsOf(rows, s)})
MaxTs(rows, s) == Largest({r.ts : r \in RowsOf(rows, s)})

IdleLocal ==
  [pc |-> "idle", sid |-> None, now |-> 0, attempt |-> 0, seq |-> 0, ts |-> 0]

Init ==
  /\ table = {}
  /\ open = FALSE
  /\ pending = {}
  /\ lock = None
  /\ writer = [w \in EventWriters |-> IdleLocal]
  /\ rowPc = [p \in RowWriters |-> "idle"]
  /\ feed = [s \in Sessions |-> <<>>]
  /\ base = [s \in Sessions |-> 0]

-------------------------------------------------------------------------------
(* EventLogger.write *)

(* The call starts: the clock is read before the lock is waited for. *)
StartWrite(w, s) ==
  /\ writer[w].pc = "idle"
  /\ MaxSeq(table, s) < MaxEvents
  /\ \E t \in WallClock :
       writer' = [writer EXCEPT ![w] =
         [pc |-> "waiting", sid |-> s, now |-> t, attempt |-> 0, seq |-> 0, ts |-> 0]]
  /\ UNCHANGED <<table, open, pending, lock, rowPc, feed, base>>

(* The back-off ends: _write_once is called again and reads the clock again. *)
RetryWrite(w) ==
  /\ writer[w].pc = "backoff"
  /\ \E t \in WallClock : writer' = [writer EXCEPT ![w].pc = "waiting", ![w].now = t]
  /\ UNCHANGED <<table, open, pending, lock, rowPc, feed, base>>

(* The lock is granted and BEGIN IMMEDIATE opens the transaction. *)
BeginImmediate(w) ==
  /\ writer[w].pc = "waiting"
  /\ lock = None
  /\ ~open
  /\ lock' = w
  /\ open' = TRUE
  /\ writer' = [writer EXCEPT ![w].pc = "begun"]
  /\ UNCHANGED <<table, pending, rowPc, feed, base>>

(* Fault: one retry too many. *)
BeginLockedOnceMore(w) ==
  /\ writer[w].pc = "waiting"
  /\ lock = None
  /\ ~open
  /\ \/ /\ writer[w].attempt <= MaxRetries
        /\ writer' = [writer EXCEPT ![w].pc = "backoff", ![w].attempt = @ + 1]
     \/ /\ writer[w].attempt = MaxRetries
        /\ writer' = [writer EXCEPT ![w] = IdleLocal]
  /\ UNCHANGED <<table, open, pending, lock, rowPc, feed, base>>

(* BEGIN IMMEDIATE fails, the lock is released.  Another process holds the *)
(* file ("database is locked"): back off, or raise after the last retry.   *)
BeginLocked(w) ==
  /\ writer[w].pc = "waiting"
  /\ lock = None
  /\ ~open
  /\ \/ /\ writer[w].attempt < MaxRetries
        /\ writer' = [writer EXCEPT ![w].pc = "backoff", ![w].attempt = @ + 1]
     \/ /\ writer[w].attempt = MaxRetries
        /\ writer' = [writer EXCEPT ![w] = IdleLocal]
  /\ UNCHANGED <<table, open, pending, lock, rowPc, feed, base>>

(* BEGIN IMMEDIATE fails because the connection is already inside a         *)
(* transaction.  That error is not retried: the write raises.              *)
BeginNested(w) ==
  /\ writer[w].pc = "waiting"
  /\ lock = None
  /\ open
  /\ writer' = [writer EXCEPT ![w] = IdleLocal]
  /\ UNCHANGED <<table, open, pending, lock, rowPc, feed, base>>

(* Fault: ts is the clock, not forced past the last ts. *)
SelectMaxClockOnly(w) ==
  /\ writer[w].pc = "begun"
  /\ writer' = [writer EXCEPT
       ![w].pc = "selected",
       ![w].seq = MaxSeq(table \cup pending, writer[w].sid) + 1,
       ![w].ts = writer[w].now]
  /\ UNCHANGED <<table, open, pending, lock, rowPc, feed, base>>

SelectMax(w) ==
  LET l == writer[w]
      rows == table \cup pending
      stamp == MaxTs(rows, l.sid) + 1
  IN  /\ l.pc = "begun"
      /\ writer' = [writer EXCEPT
           ![w].pc = "selected",
           ![w].seq = MaxSeq(rows, l.sid) + 1,
           ![w].ts = IF l.now > stamp THEN l.now ELSE stamp]
      /\ UNCHANGED <<table, open, pending, lock, rowPc, feed, base>>

RowFor(l) == [sid |-> l.sid, seq |-> l.seq, ts |-> l.ts]

(* The INSERT passes the unique index on (session_id, seq). *)
InsertRow(w) ==
  /\ writer[w].pc = "selected"
  /\ \A r \in table \cup pending :
       ~ (r.sid = writer[w].sid /\ r.seq = writer[w].seq)
  /\ pending' = pending \cup {RowFor(writer[w])}
  /\ writer' = [writer EXCEPT ![w].pc = "inserted"]
  /\ UNCHANGED <<table, open, lock, rowPc, feed, base>>

(* Fault: no rollback on the error path. *)
StatementFailsNoRollback(w) ==
  /\ writer[w].pc \in {"begun", "selected", "inserted"}
  /\ lock' = None
  /\ writer' = [writer EXCEPT ![w] = IdleLocal]
  /\ UNCHANGED <<table, open, pending, rowPc, feed, base>>

(* A statement inside the transaction raises: roll back, release, re-raise. *)
(* write backs off if the error was "database is locked" and retries are    *)
(* left; otherwise it raises.                                               *)
StatementFails(w) ==
  /\ writer[w].pc \in {"begun", "selected", "inserted"}
  /\ pending' = {}
  /\ open' = FALSE
  /\ lock' = None
  /\ \/ /\ writer[w].attempt < MaxRetries
        /\ writer' = [writer EXCEPT ![w].pc = "backoff", ![w].attempt = @ + 1,
                                    ![w].seq = 0, ![w].ts = 0]
     \/ writer' = [writer EXCEPT ![w] = IdleLocal]
  /\ UNCHANGED <<table, rowPc, feed, base>>

CommitTransaction ==
  /\ table' = table \cup pending
  /\ pending' = {}
  /\ open' = FALSE

(* Fault: the lock is released before the event is returned and published. *)
CommitEventUnlocks(w) ==
  /\ writer[w].pc = "inserted"
  /\ CommitTransaction
  /\ lock' = None
  /\ writer' = [writer EXCEPT ![w].pc = "committed"]
  /\ UNCHANGED <<rowPc, feed, base>>

(* COMMIT takes effect in the connection's thread; the coroutine that       *)
(* awaits it still holds the lock.                                          *)
CommitEvent(w) ==
  /\ writer[w].pc = "inserted"
  /\ CommitTransaction
  /\ writer' = [writer EXCEPT ![w].pc = "committed"]
  /\ UNCHANGED <<lock, rowPc, feed, base>>

(* Fault: the lock is not released. *)
ReturnHoldingLock(w) ==
  /\ writer[w].pc = "committed"
  /\ feed' = [feed EXCEPT ![writer[w].sid] = Append(@, writer[w].seq)]
  /\ writer' = [writer EXCEPT ![w] = IdleLocal]
  /\ UNCHANGED <<table, open, pending, lock, rowPc, base>>

(* The coroutine resumes: it releases the lock, returns the event and       *)
(* publishes it, with no suspension point in between.                       *)
ReturnAndPublish(w) ==
  /\ writer[w].pc = "committed"
  /\ lock' = None
  /\ feed' = [feed EXCEPT ![writer[w].sid] = Append(@, writer[w].seq)]
  /\ writer' = [writer EXCEPT ![w] = IdleLocal]
  /\ UNCHANGED <<table, open, pending, rowPc, base>>

-------------------------------------------------------------------------------
(* The writers of the other tables *)

(* The driver opens a transaction before the statement if none is open. *)
ExecuteRow(p) ==
  /\ rowPc[p] = "idle"
  /\ lock = None
  /\ lock' = p
  /\ open' = TRUE
  /\ rowPc' = [rowPc EXCEPT ![p] = "executing"]
  /\ UNCHANGED <<table, pending, writer, feed, base>>

(* The statement raises (another process holds the file): the transaction   *)
(* the driver opened for it stays open, the lock is released.              *)
ExecuteRowFails(p) ==
  /\ rowPc[p] = "idle"
  /\ lock = None
  /\ open' = TRUE
  /\ UNCHANGED <<table, pending, lock, writer, rowPc, feed, base>>

CommitRow(p) ==
  /\ rowPc[p] = "executing"
  /\ CommitTransaction
  /\ lock' = None
  /\ rowPc' = [rowPc EXCEPT ![p] = "idle"]
  /\ UNCHANGED <<writer, feed, base>>

(* The coroutine is cancelled while it awaits its statement (the 120 s      *)
(* limit on scoring): the lock is released, nothing commits or rolls back. *)
CancelRow(p) ==
  /\ rowPc[p] = "executing"
  /\ lock' = None
  /\ rowPc' = [rowPc EXCEPT ![p] = "idle"]
  /\ UNCHANGED <<table, open, pending, writer, feed, base>>

-------------------------------------------------------------------------------
(* The process dies and starts again: the open transaction is rolled back,  *)
(* the lock and the bus are new.                                            *)
Restart ==
  /\ open' = FALSE
  /\ pending' = {}
  /\ lock' = None
  /\ writer' = [w \in EventWriters |-> IdleLocal]
  /\ rowPc' = [p \in RowWriters |-> "idle"]
  /\ feed' = [s \in Sessions |-> <<>>]
  /\ base' = [s \in Sessions |-> MaxSeq(table, s)]
  /\ UNCHANGED table

WriteStep(w) ==
  \/ RetryWrite(w)
  \/ BeginImmediate(w)
  \/ BeginLocked(w)
  \/ BeginNested(w)
  \/ SelectMax(w)
  \/ InsertRow(w)
  \/ StatementFails(w)
  \/ CommitEvent(w)
  \/ ReturnAndPublish(w)

RowStep(p) == CommitRow(p) \/ CancelRow(p)

Next ==
  \/ \E w \in EventWriters : \E s \in Sessions : StartWrite(w, s)
  \/ \E w \in EventWriters : WriteStep(w)
  \/ \E p \in RowWriters : ExecuteRow(p) \/ ExecuteRowFails(p) \/ RowStep(p)
  \/ Restart

(* The event loop runs every coroutine that can run, and asyncio.Lock wakes *)
(* its waiters in order of arrival, so a waiting write is not overtaken for *)
(* ever: strong fairness.  Whether a write or a restart happens is free.    *)
Fairness ==
  /\ \A w \in EventWriters : SF_vars(WriteStep(w))
  /\ \A p \in RowWriters : WF_vars(RowStep(p))

Spec == Init /\ [][Next]_vars /\ Fairness

-------------------------------------------------------------------------------
TypeOK ==
  /\ table \in SUBSET Row
  /\ open \in BOOLEAN
  /\ pending \in SUBSET Row
  /\ lock \in EventWriters \cup RowWriters \cup {None}
  /\ writer \in [EventWriters -> Local]
  /\ rowPc \in [RowWriters -> {"idle", "executing"}]
  /\ feed \in [Sessions -> Seq(Nat)]
  /\ base \in [Sessions -> Nat]

(* The seqs of a session are 1, 2, 3, ... with no gap and no duplicate,     *)
(* whatever fails, retries or restarts between the SELECT and the COMMIT of *)
(* EventLogger._write_once: scoring orders events by seq alone.             *)
SeqDense ==
  \A r \in table :
    /\ \A q \in RowsOf(table, r.sid) : q.seq = r.seq => q = r
    /\ \A k \in 1..r.seq : \E q \in RowsOf(table, r.sid) : q.seq = k

(* ts increases strictly with seq although the wall clock, which is read    *)
(* before the lock is granted, may stand still or go back.                  *)
TsFollowsSeq ==
  \A q, r \in table : q.sid = r.sid /\ q.seq < r.seq => q.ts < r.ts

InFlight(s) == {w \in EventWriters : writer[w].pc = "committed" /\ writer[w].sid = s}

(* Since the process started, the bus was given exactly the persisted       *)
(* events of each session, once each and in seq order; the log is ahead by  *)
(* at most the one event whose commit has not returned yet.                 *)
FeedFollowsLog ==
  \A s \in Sessions :
    /\ feed[s] = [i \in 1..Len(feed[s]) |-> base[s] + i]
    /\ MaxSeq(table, s) =
         base[s] + Len(feed[s]) + IF InFlight(s) = {} THEN 0 ELSE 1

(* Every EventLogger.write returns or raises. *)
WriteSettles ==
  \A w \in EventWriters : writer[w].pc # "idle" ~> writer[w].pc = "idle"

(* The write connection is inside a transaction only while some coroutine   *)
(* holds the write lock.  (Not so: see CancelRow and ExecuteRowFails.)      *)
LockGuardsTransaction == open => lock # None

(* The table, read in seq order, is the log; the feed is the cursor. *)
TableLog(s) ==
  [i \in 1..MaxSeq(table, s) |-> (CHOOSE r \in RowsOf(table, s) : r.seq = i).ts]

Log == INSTANCE AppendLog WITH
  log <- [s \in Sessions |-> TableLog(s)],
  cursor <- [s \in Sessions |-> base[s] + Len(feed[s])]

(* EventStore implements the append-only log of AppendLog. *)
ImplementsLog == Log!Spec
================================================================================
