--------------------------- MODULE CandidateSession ---------------------------
(***************************************************************************)
(* The life of one session: app/ws/candidate.py (CandidateSession.run and  *)
(* the handlers of hello, task.submit and session.end), the row helpers of *)
(* app/storage/sessions.py, the skeleton of app/scoring/posthoc.py and the *)
(* start-up sweep of app/storage/db.py.                                    *)
(*                                                                         *)
(* Several sockets may be open on the session at once (a second tab, a     *)
(* reload whose old handler still runs); each handles its own messages one *)
(* at a time.  A step is what one handler does up to its next read or      *)
(* write of the database.  The event table is abstracted to how many       *)
(* events each task has and how many submits and ends there are.           *)
(***************************************************************************)
EXTENDS Naturals, Sequences, FiniteSets, SequencesExt

CONSTANTS
  Sockets,       \* candidate WebSocket connections
  TaskSequence,  \* the task ids of the session, in order
  None,          \* no task presented yet on this socket
  MaxSubmits,    \* bound: TASK_SUBMITTED events
  MaxEnds,       \* bound: SESSION_ENDED events
  MaxWeight      \* bound: a handler starts only below this many events of its task

Tasks == ToSet(TaskSequence)

ASSUME SessionAssumption ==
  /\ IsFiniteSet(Sockets)
  /\ TaskSequence \in Seq(Tasks)
  /\ TaskSequence # <<>>
  /\ None \notin Tasks
  /\ MaxSubmits \in Nat
  /\ MaxEnds \in Nat
  /\ MaxWeight \in Nat

VARIABLES
  status,      \* sessions.status
  idx,         \* sessions.current_task_idx
  weight,      \* weight[t]: events tagged with task t
  submits,     \* TASK_SUBMITTED events
  ends,        \* SESSION_ENDED events
  atEnd,       \* history: weight when the first SESSION_ENDED was persisted
  finals,      \* finals[t]: events behind t's row of phase 'final', or 0
  aggregates,  \* session-level rows (task_id NULL) of phase 'final', per dimension
  sock         \* sock[k]: where the handler of k is, and its locals

row == <<status, idx>>
events == <<weight, submits, ends, atEnd>>
scores == <<finals, aggregates>>
vars == <<row, events, scores, sock>>

Statuses == {"active", "ended", "scored", "abandoned"}

(* Where a handler that is not between two messages ("ready") is: inside    *)
(* hello or task.submit, _end_session, or PostHocScorer._score_session.     *)
Taking == {"reading", "presenting", "advancing", "storing"}
Ending == {"ending", "marking"}
Scoring == {"snapshotting", "scoring", "finishing"}

Pcs == {"ready"} \cup Taking \cup Ending \cup Scoring

Nothing == [t \in Tasks |-> 0]

Local ==
  [pc : Pcs, task : Tasks \cup {None},
   next : Nat, leave : BOOLEAN, snap : [Tasks -> Nat], todo : SUBSET Tasks]

(* A new connection; also where no client is connected at the moment. *)
Fresh ==
  [pc |-> "ready", task |-> None, next |-> 0, leave |-> FALSE,
   snap |-> Nothing, todo |-> {}]

Init ==
  /\ status = "active"
  /\ idx = 0
  /\ weight = Nothing
  /\ submits = 0
  /\ ends = 0
  /\ atEnd = Nothing
  /\ finals = Nothing
  /\ aggregates = 0
  /\ sock = [k \in Sockets |-> Fresh]

Becomes(k, l) == sock' = [sock EXCEPT ![k] = l]
Goto(k, pc) == Becomes(k, [sock[k] EXCEPT !.pc = pc])
At(k, pc) == sock[k].pc = pc

(* An event is persisted with the task tag of socket k. *)
Tag(k) ==
  weight' = IF sock[k].task = None THEN weight
            ELSE [weight EXCEPT ![sock[k].task] = @ + 1]

Room(k) == sock[k].task # None => weight[sock[k].task] < MaxWeight

-------------------------------------------------------------------------------
(* Connections *)

(* The client goes away; the next connection starts with no task. *)
Disconnect(k) ==
  /\ At(k, "ready")
  /\ sock[k].task # None
  /\ Becomes(k, Fresh)
  /\ UNCHANGED <<row, events, scores>>

(* A write raises, a send finds the socket gone, or closing the bus raises  *)
(* the cancellation of its consumer task: the handler ends.                 *)
HandlerDies(k) ==
  /\ sock[k].pc # "ready"
  /\ Becomes(k, Fresh)
  /\ UNCHANGED <<row, events, scores>>

(* editor.snapshot, editor.paste, chat.send, code.run: a tagged event. *)
Work(k) ==
  /\ At(k, "ready")
  /\ sock[k].task # None /\ Room(k)
  /\ Tag(k)
  /\ UNCHANGED <<row, submits, ends, atEnd, scores, sock>>

-------------------------------------------------------------------------------
(* hello and _present_current_task *)

(* Fault: the index of the task is kept, not its id. *)
PresentByIndex(k) ==
  /\ \/ /\ idx >= Len(TaskSequence)
        /\ Goto(k, "ready")
     \/ /\ idx < Len(TaskSequence)
        /\ Becomes(k, [sock[k] EXCEPT !.pc = "presenting", !.task = idx])
     \/ /\ idx < Len(TaskSequence)
        /\ Goto(k, "ready")
  /\ UNCHANGED <<row, events, scores>>

(* The row is read: past the last task the client is told it is done;       *)
(* otherwise the task and the per-task state are set.  The tasks exist when *)
(* the session is created; a process that starts later may have loaded      *)
(* others and not know the task: the client is told so, the socket keeps    *)
(* its task.                                                                *)
Present(k) ==
  /\ \/ /\ idx >= Len(TaskSequence)
        /\ Goto(k, "ready")
     \/ /\ idx < Len(TaskSequence)
        /\ Becomes(k, [sock[k] EXCEPT !.pc = "presenting", !.task = TaskSequence[idx + 1]])
     \/ /\ idx < Len(TaskSequence)
        /\ Goto(k, "ready")
  /\ UNCHANGED <<row, events, scores>>

Hello(k) == At(k, "ready") /\ Present(k)
PresentNext(k) == At(k, "reading") /\ Present(k)

EmitPresented(k) ==
  /\ At(k, "presenting") /\ Room(k)
  /\ Tag(k)
  /\ Goto(k, "ready")
  /\ UNCHANGED <<row, submits, ends, atEnd, scores>>

-------------------------------------------------------------------------------
(* task.submit: _on_submit, from the emit of TASK_SUBMITTED on *)

(* Fault: no event is emitted when no task was presented on the socket. *)
SubmitTaskOnly(k) ==
  /\ At(k, "ready") /\ Room(k)
  /\ submits < MaxSubmits
  /\ Tag(k)
  /\ submits' = IF sock[k].task = None THEN submits ELSE submits + 1
  /\ Goto(k, "advancing")
  /\ UNCHANGED <<row, ends, atEnd, scores>>

Submit(k) ==
  /\ At(k, "ready") /\ Room(k)
  /\ submits < MaxSubmits
  /\ Tag(k)
  /\ submits' = submits + 1
  /\ Goto(k, "advancing")
  /\ UNCHANGED <<row, ends, atEnd, scores>>

ReadIdx(k) ==
  /\ At(k, "advancing")
  /\ Becomes(k, [sock[k] EXCEPT !.pc = "storing", !.next = idx + 1])
  /\ UNCHANGED <<row, events, scores>>

(* set_current_task_idx, then on to the next task or to the end. *)
StoreIdx(k) ==
  /\ At(k, "storing")
  /\ idx' = sock[k].next
  /\ \/ /\ sock[k].next < Len(TaskSequence)
        /\ Becomes(k, [sock[k] EXCEPT !.pc = "reading", !.next = 0])
     \/ /\ sock[k].next >= Len(TaskSequence)
        /\ Becomes(k, [sock[k] EXCEPT !.pc = "ending", !.next = 0])
  /\ UNCHANGED <<status, events, scores>>

-------------------------------------------------------------------------------
(* _end_session: from the last submit, or from session.end, which also      *)
(* leaves the receive loop.                                                 *)

(* Fault: the row is marked before the event is emitted. *)
EmitEndedAfterMark ==
  /\ ends < MaxEnds
  /\ \/ /\ status = "active"
        /\ status' = "ended"
        /\ UNCHANGED events
     \/ /\ status # "active"
        /\ ends' = ends + 1
        /\ atEnd' = IF ends = 0 THEN weight ELSE atEnd
        /\ UNCHANGED <<status, weight, submits>>
  /\ UNCHANGED <<idx, scores>>

EmitEnded ==
  /\ ends < MaxEnds
  /\ ends' = ends + 1
  /\ atEnd' = IF ends = 0 THEN weight ELSE atEnd
  /\ UNCHANGED <<row, weight, submits, scores>>

EndAfterSubmit(k) ==
  /\ At(k, "ending")
  /\ EmitEnded
  /\ Goto(k, "marking")

End(k) ==
  /\ At(k, "ready")
  /\ EmitEnded
  /\ Becomes(k, [sock[k] EXCEPT !.pc = "marking", !.leave = TRUE])

(* Fault: the status guard of the UPDATE is dropped. *)
MarkEndedAlways(k) ==
  /\ At(k, "marking")
  /\ status' = "ended"
  /\ Goto(k, "snapshotting")
  /\ UNCHANGED <<idx, events, scores>>

(* sessions.end_session: only an active row changes. *)
MarkEnded(k) ==
  /\ At(k, "marking")
  /\ \/ /\ status = "active"
        /\ status' = "ended"
     \/ /\ status # "active"
        /\ UNCHANGED status
  /\ Goto(k, "snapshotting")
  /\ UNCHANGED <<idx, events, scores>>

(* The handler goes on after _end_session. *)
Resume(k) ==
  \/ sock[k].leave /\ Becomes(k, Fresh)
  \/ ~sock[k].leave /\ Becomes(k, [sock[k] EXCEPT !.pc = "ready", !.snap = Nothing, !.todo = {}])

-------------------------------------------------------------------------------
(* PostHocScorer.score_session, awaited under the 120 s limit *)

(* All events of the session are read once. *)
Snapshot(k) ==
  /\ At(k, "snapshotting")
  /\ Becomes(k, [sock[k] EXCEPT !.pc = "scoring", !.snap = weight,
                                !.todo = {t \in Tasks : weight[t] > 0}])
  /\ UNCHANGED <<row, events, scores>>

(* _score_task: judges, then the upserts of the task's rows, of which the   *)
(* model keeps one value for all dimensions.                                *)
ScoreTask(k) ==
  /\ At(k, "scoring")
  /\ \E t \in sock[k].todo :
       /\ finals' = [finals EXCEPT ![t] = sock[k].snap[t]]
       /\ Becomes(k, [sock[k] EXCEPT !.todo = @ \ {t}])
  /\ UNCHANGED <<row, events, aggregates>>

(* Fault: the aggregate does not wait for every task. *)
AggregateEarly(k) ==
  /\ At(k, "scoring")
  /\ aggregates' = IF sock[k].snap = Nothing THEN aggregates ELSE aggregates + 1
  /\ Becomes(k, [sock[k] EXCEPT !.pc = "finishing", !.snap = Nothing, !.todo = {}])
  /\ UNCHANGED <<row, events, finals>>

(* _write_session_aggregate, when every task is done: the upsert does not   *)
(* recognise an earlier row with a NULL task_id, so it inserts; a session   *)
(* without task events gets no row.                                         *)
Aggregate(k) ==
  /\ At(k, "scoring")
  /\ sock[k].todo = {}
  /\ aggregates' = IF sock[k].snap = Nothing THEN aggregates ELSE aggregates + 1
  /\ Becomes(k, [sock[k] EXCEPT !.pc = "finishing", !.snap = Nothing])
  /\ UNCHANGED <<row, events, finals>>

(* sessions.mark_scored: whatever the status was. *)
MarkScored(k) ==
  /\ At(k, "finishing")
  /\ status' = "scored"
  /\ Resume(k)
  /\ UNCHANGED <<idx, events, scores>>

(* The limit expires, or scoring raises (caught and logged): it stops       *)
(* where it is, and the handler goes on.                                    *)
ScoringStops(k) ==
  /\ sock[k].pc \in Scoring
  /\ Resume(k)
  /\ UNCHANGED <<row, events, scores>>

-------------------------------------------------------------------------------
(* The process dies and starts again; _abandon_stale_sessions marks the     *)
(* session if it is still active and started long enough ago.               *)
Restart ==
  /\ sock' = [k \in Sockets |-> Fresh]
  /\ \/ status = "active" /\ status' = "abandoned"
     \/ UNCHANGED status
  /\ UNCHANGED <<idx, events, scores>>

TakeStep(k) == EmitPresented(k) \/ ReadIdx(k) \/ StoreIdx(k) \/ PresentNext(k)
EndStep(k) ==
  \/ EndAfterSubmit(k) \/ MarkEnded(k)
  \/ Snapshot(k) \/ ScoreTask(k) \/ Aggregate(k) \/ MarkScored(k) \/ ScoringStops(k)

Next ==
  \/ \E k \in Sockets :
       \/ Disconnect(k) \/ HandlerDies(k)
       \/ Hello(k) \/ Work(k) \/ Submit(k) \/ End(k)
       \/ TakeStep(k) \/ EndStep(k)
  \/ Restart

Spec == Init /\ [][Next]_vars

-------------------------------------------------------------------------------
TypeOK ==
  /\ status \in Statuses
  /\ idx \in Nat
  /\ weight \in [Tasks -> Nat]
  /\ submits \in Nat
  /\ ends \in Nat
  /\ atEnd \in [Tasks -> Nat]
  /\ finals \in [Tasks -> Nat]
  /\ aggregates \in Nat
  /\ sock \in [Sockets -> Local]

(* A row says ended or scored only after SESSION_ENDED is in the log, so a  *)
(* crash between the two never leaves a session ended without its event.    *)
EndIsLogged == status \in {"ended", "scored"} => ends > 0

(* A session marked scored has a final row for every task that had events   *)
(* when it ended, computed from at least those events - whichever of two    *)
(* concurrent scoring runs wrote last, and whatever timed out in between.   *)
ScoredIsComplete ==
  status = "scored" => \A t \in Tasks : finals[t] >= atEnd[t]

(* current_task_idx is backed by durable submits: it never runs ahead of    *)
(* them, whatever two sockets, failures and restarts do to the updates.     *)
IdxBackedBySubmits == idx <= submits

(* So the row never says more than the log: neither an end nor progress     *)
(* that no durable event backs.                                             *)
RowFollowsLog == EndIsLogged /\ IdxBackedBySubmits

(* status only moves forward: nothing returns to active, a scored session   *)
(* stays scored, and only an active one is ended or abandoned.              *)
StatusForward ==
  [][status' # status =>
       \/ status = "active" /\ status' \in {"ended", "abandoned"}
       \/ status \in {"ended", "abandoned"} /\ status' = "scored"]_vars

(* A session is scored at most once.  (Not so: two _end_session calls.) *)
ScoredOnce == aggregates <= 1
================================================================================
