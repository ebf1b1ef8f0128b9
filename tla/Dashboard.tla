------------------------------- MODULE Dashboard -------------------------------
(***************************************************************************)
(* What a dashboard shows of one session: the socket handler of            *)
(* app/ws/dashboard.py with app/ws/manager.py, the page of                 *)
(* static/dashboard.js, and those who send to it: the two handlers of the  *)
(* bus (app/scoring/live.py and the forwarder of app/main.py) and the      *)
(* scoring run of app/scoring/posthoc.py.                                  *)
(*                                                                         *)
(* Events are numbered by seq and told apart by their task; of the three   *)
(* dimensions the model has one.  A row of scores is worth the events it   *)
(* was computed from: the largest seq among them.  Sends to one socket     *)
(* arrive in the order in which they are made.  The channel of the bus is  *)
(* long enough, there is one scoring run (EventBus and CandidateSession    *)
(* have the rest), and the process does not restart, which would close     *)
(* every dashboard.                                                        *)
(***************************************************************************)
EXTENDS Naturals, Sequences, SequencesExt

CONSTANTS
  Dashboards,  \* dashboard pages
  Tasks,       \* number of tasks; task ids are ordered like the numbers
  MaxEvents    \* bound: events of the session

ASSUME DashboardAssumption == Tasks \in Nat \ {0} /\ MaxEvents \in Nat

(* 0 stands for no task: of an event before any task, of the session's row. *)
TaskIds == 1..Tasks
Keys == 0..Tasks

VARIABLES
  log,      \* log[n]: the task of the event with seq n
  handled,  \* events the consumer of the bus is done with
  fan,      \* where the consumer is with the next event
  live,     \* live[t]: the row of task t and phase 'live', or 0
  final,    \* final[t]: the row of phase 'final' of task t or the session, or 0
  scorer,   \* where the scoring run is, and its locals
  page      \* page[d]: where the handler of d is, and what d shows

vars == <<log, handled, fan, live, final, scorer, page>>

NoRows == [t \in Keys |-> 0]
NoBar == [phase |-> "none", task |-> 0, upto |-> 0]

(* finals, a history: the final rows d was sent. *)
Page ==
  [pc : {"away", "connected", "listing", "showing", "between", "finishing", "watching"},
   read : 0..MaxEvents, rows : [Keys -> Nat],
   events : SUBSET (1..MaxEvents), finals : SUBSET Keys,
   bar : [phase : {"none", "live", "final"}, task : Keys, upto : Nat]]

Away ==
  [pc |-> "away", read |-> 0, rows |-> NoRows, events |-> {}, finals |-> {}, bar |-> NoBar]

Run ==
  [pc : {"idle", "scoring", "pushing", "marking", "closing", "closed"},
   todo : SUBSET TaskIds, at : Keys, upto : 0..MaxEvents, scored : BOOLEAN]

Init ==
  /\ log = <<>>
  /\ handled = 0
  /\ fan = "idle"
  /\ live = NoRows
  /\ final = NoRows
  /\ scorer = [pc |-> "idle", todo |-> {}, at |-> 0, upto |-> 0, scored |-> FALSE]
  /\ page = [d \in Dashboards |-> Away]

(* An event is persisted and published; other sockets may still work on the *)
(* session after it was scored.                                             *)
Emit(t) ==
  /\ Len(log) < MaxEvents
  /\ log' = Append(log, t)
  /\ UNCHANGED <<handled, fan, live, final, scorer, page>>

-------------------------------------------------------------------------------
(* WSManager.broadcast_dashboard, and handleMessage of the page *)

(* Fault: a dashboard is registered when its replay is over. *)
RegisteredLate(d) == page[d].pc = "watching"

(* The socket was connected to the manager when it was accepted. *)
Registered(d) == page[d].pc # "away"

(* A score.update sets the bar of its dimension, whichever task it is of. *)
WithScore(p, phase, t, n) ==
  [p EXCEPT !.bar = [phase |-> phase, task |-> t, upto |-> n],
            !.finals = IF phase = "final" THEN @ \cup {t} ELSE @]

WithEvents(p, S) == [p EXCEPT !.events = @ \cup S]

Push(phase, t, n) ==
  page' = [d \in Dashboards |->
             IF Registered(d) THEN WithScore(page[d], phase, t, n) ELSE page[d]]

-------------------------------------------------------------------------------
(* The handlers of the bus, one event after the other *)

This == handled + 1

(* LiveScorer.handle_event: an event of a task is scored, or it is not a    *)
(* trigger or is debounced.                                                 *)
Take ==
  /\ fan = "idle" /\ handled < Len(log)
  /\ \/ log[This] # 0 /\ fan' = "scoring"
     \/ fan' = "forwarding"
  /\ UNCHANGED <<log, handled, live, final, scorer, page>>

WriteLive ==
  /\ fan = "scoring"
  /\ live' = [live EXCEPT ![log[This]] = This]
  /\ fan' = "pushing"
  /\ UNCHANGED <<log, handled, final, scorer, page>>

(* Fault: an exception in the live scorer is not kept from the forwarder. *)
LiveFailsAll ==
  /\ fan = "scoring"
  /\ fan' = "idle"
  /\ handled' = This
  /\ UNCHANGED <<log, live, final, scorer, page>>

(* The upsert raises; the bus logs it and goes on to the next handler. *)
LiveFails ==
  /\ fan = "scoring"
  /\ fan' = "forwarding"
  /\ UNCHANGED <<log, handled, live, final, scorer, page>>

PushLive ==
  /\ fan = "pushing"
  /\ Push("live", log[This], This)
  /\ fan' = "forwarding"
  /\ UNCHANGED <<log, handled, live, final, scorer>>

(* The forwarder. *)
Forward ==
  /\ fan = "forwarding"
  /\ page' = [d \in Dashboards |->
                IF Registered(d) THEN WithEvents(page[d], {This}) ELSE page[d]]
  /\ handled' = This
  /\ fan' = "idle"
  /\ UNCHANGED <<log, live, final, scorer>>

-------------------------------------------------------------------------------
(* PostHocScorer.score_session *)

(* The log is read; it is scored task by task. *)
BeginScoring ==
  /\ scorer.pc = "idle"
  /\ scorer' = [scorer EXCEPT !.pc = "scoring", !.upto = Len(log),
                              !.todo = {t \in TaskIds : t \in ToSet(log)}]
  /\ UNCHANGED <<log, handled, fan, live, final, page>>

(* A final row is written: of a task, or after all tasks of the session. *)
WriteFinal ==
  /\ scorer.pc = "scoring"
  /\ \E t \in Keys :
       /\ t \in scorer.todo \/ (scorer.todo = {} /\ t = 0 /\ \E k \in TaskIds : final[k] # 0)
       /\ final' = [final EXCEPT ![t] = scorer.upto]
       /\ scorer' = [scorer EXCEPT !.pc = "pushing", !.at = t, !.todo = @ \ {t}]
  /\ UNCHANGED <<log, handled, fan, live, page>>

PushFinal ==
  /\ scorer.pc = "pushing"
  /\ Push("final", scorer.at, scorer.upto)
  /\ scorer' = [scorer EXCEPT !.pc = IF scorer.at = 0 THEN "marking" ELSE "scoring", !.at = 0]
  /\ UNCHANGED <<log, handled, fan, live, final>>

Closing(scored) ==
  scorer' = [pc |-> "closing", todo |-> {}, at |-> 0, upto |-> 0, scored |-> scored]

(* The row says scored; a session without task events has no final rows.    *)
MarkScored ==
  /\ \/ scorer.pc = "marking"
     \/ scorer.pc = "scoring" /\ scorer.todo = {} /\ final = NoRows
  /\ Closing(TRUE)
  /\ UNCHANGED <<log, handled, fan, live, final, page>>

(* The 120 s limit, or an exception: on to close_session. *)
StopScoring ==
  /\ scorer.pc \in {"scoring", "pushing", "marking"}
  /\ Closing(FALSE)
  /\ UNCHANGED <<log, handled, fan, live, final, page>>

(* close_session: the channel is drained, the consumer ends, and the        *)
(* session has no handlers any more.                                        *)
CloseBus ==
  /\ scorer.pc = "closing"
  /\ fan = "idle" /\ handled = Len(log)
  /\ fan' = "ended"
  /\ scorer' = [scorer EXCEPT !.pc = "closed"]
  /\ UNCHANGED <<log, handled, live, final, page>>

(* The limit expires during close_session, which cancels the consumer too.  *)
CloseCancelled ==
  /\ scorer.pc = "closing"
  /\ fan' = "cancelled"
  /\ scorer' = [scorer EXCEPT !.pc = "closed"]
  /\ UNCHANGED <<log, handled, live, final, page>>

-------------------------------------------------------------------------------
(* DashboardSession, and the page that talks to it *)

Becomes(d, p) == page' = [page EXCEPT ![d] = p]

(* The page selects the session and starts from nothing. *)
Connect(d) ==
  /\ page[d].pc = "away"
  /\ Becomes(d, [Away EXCEPT !.pc = "connected"])
  /\ UNCHANGED <<log, handled, fan, live, final, scorer>>

(* The page selects another session, or a send to it fails. *)
Leave(d) ==
  /\ page[d].pc # "away"
  /\ Becomes(d, Away)
  /\ UNCHANGED <<log, handled, fan, live, final, scorer>>

(* Fault: one event too many counts as read. *)
ReadEventsNext(d) ==
  /\ page[d].pc = "connected"
  /\ Becomes(d, [page[d] EXCEPT !.pc = "listing", !.read = Len(log) + 1])
  /\ UNCHANGED <<log, handled, fan, live, final, scorer>>

(* hello, sent when the socket opens: the log is read. *)
ReadEvents(d) ==
  /\ page[d].pc = "connected"
  /\ Becomes(d, [page[d] EXCEPT !.pc = "listing", !.read = Len(log)])
  /\ UNCHANGED <<log, handled, fan, live, final, scorer>>

(* The events read are sent, then the live rows are read. *)
SendEvents(d) ==
  /\ page[d].pc = "listing"
  /\ Becomes(d, [WithEvents(page[d], 1..page[d].read) EXCEPT
                   !.pc = "showing", !.read = 0, !.rows = live])
  /\ UNCHANGED <<log, handled, fan, live, final, scorer>>

(* Rows come in the order of the primary key, where no task is first.       *)
SendRows(p, phase) ==
  LET sent == {t \in Keys : p.rows[t] # 0}
      last == CHOOSE t \in sent : \A u \in sent : u <= t
      shown == IF sent = {} THEN p ELSE WithScore(p, phase, last, p.rows[last])
  IN  [shown EXCEPT !.rows = NoRows, !.finals = IF phase = "final" THEN @ \cup sent ELSE @]

SendLive(d) ==
  /\ page[d].pc = "showing"
  /\ Becomes(d, [SendRows(page[d], "live") EXCEPT !.pc = "between"])
  /\ UNCHANGED <<log, handled, fan, live, final, scorer>>

ReadFinal(d) ==
  /\ page[d].pc = "between"
  /\ Becomes(d, [page[d] EXCEPT !.pc = "finishing", !.rows = final])
  /\ UNCHANGED <<log, handled, fan, live, final, scorer>>

(* Fault: the replay ends with the live rows. *)
SendNoFinal(d) ==
  /\ page[d].pc = "finishing"
  /\ Becomes(d, [page[d] EXCEPT !.pc = "watching", !.rows = NoRows])
  /\ UNCHANGED <<log, handled, fan, live, final, scorer>>

SendFinal(d) ==
  /\ page[d].pc = "finishing"
  /\ Becomes(d, [SendRows(page[d], "final") EXCEPT !.pc = "watching"])
  /\ UNCHANGED <<log, handled, fan, live, final, scorer>>

-------------------------------------------------------------------------------
Consume == Take \/ WriteLive \/ LiveFails \/ PushLive \/ Forward
Replay(d) == ReadEvents(d) \/ SendEvents(d) \/ SendLive(d) \/ ReadFinal(d) \/ SendFinal(d)

Next ==
  \/ \E t \in Keys : Emit(t)
  \/ Consume
  \/ BeginScoring \/ WriteFinal \/ PushFinal \/ MarkScored \/ StopScoring
  \/ CloseBus \/ CloseCancelled
  \/ \E d \in Dashboards : Connect(d) \/ Leave(d) \/ Replay(d)

(* The event loop runs the consumer and the handler of a socket whenever    *)
(* they can run; the page sends hello when its socket opens.                *)
Fairness ==
  /\ WF_vars(Consume)
  /\ \A d \in Dashboards : WF_vars(Replay(d))

Spec == Init /\ [][Next]_vars /\ Fairness

-------------------------------------------------------------------------------
TypeOK ==
  /\ log \in Seq(Keys) /\ Len(log) <= MaxEvents
  /\ handled \in 0..Len(log)
  /\ fan \in {"idle", "scoring", "pushing", "forwarding", "ended", "cancelled"}
  /\ live \in [Keys -> 0..Len(log)]
  /\ final \in [Keys -> 0..Len(log)]
  /\ scorer \in Run
  /\ page \in [Dashboards -> Page]
  /\ \A d \in Dashboards : page[d].read <= Len(log)

(* Once its replay is over a dashboard has every event the bus has handled: *)
(* between the log it was replayed and the live events nothing is missing.  *)
NoEventMissed ==
  \A d \in Dashboards : page[d].pc = "watching" => 1..handled \subseteq page[d].events

(* Of a session that is marked scored, every dashboard whose replay is over *)
(* was sent every final row, whether it came before, during or after the    *)
(* scoring run.                                                             *)
FinalReaches ==
  scorer.scored =>
    \A d \in Dashboards : page[d].pc = "watching" =>
      {t \in Keys : final[t] # 0} \subseteq page[d].finals

(* The events behind what the bar of a dashboard shows. *)
Cited(d) ==
  LET bar == page[d].bar
  IN  {n \in 1..bar.upto : IF bar.task = 0 THEN log[n] # 0 ELSE log[n] = bar.task}

(* A score may arrive before the events it cites; they follow, so that a    *)
(* citation can be clicked, unless the consumer was cancelled.              *)
CitedIsShown ==
  \A d \in Dashboards : \A n \in 1..MaxEvents :
    n \in Cited(d) ~> \/ n \in page[d].events
                      \/ page[d].pc = "away"
                      \/ fan = "cancelled"

(* Of a scored session a dashboard shows the score of the session, once its *)
(* replay is over and the bus is drained.  (Not so: the replay sends the    *)
(* row of the session before those of its tasks.)                           *)
HeadlineIsSession ==
  scorer.scored /\ final[0] # 0 /\ fan = "ended" =>
    \A d \in Dashboards : page[d].pc = "watching" => page[d].bar.task = 0
================================================================================
