------------------------------- MODULE Admission -------------------------------
(***************************************************************************)
(* The life of a session in the process: POST /api/session of app/main.py  *)
(* with the daily cap, the candidate sockets that use the id it hands out, *)
(* each message of which passes a limiter (SlidingWindow), and the end,    *)
(* whose scoring run closes the bus for the session.                       *)
(*                                                                         *)
(* Requests of several visitors interleave at their awaits.  A session is  *)
(* known by the number of its row.  Candidates use the ids they were given *)
(* by this process or an earlier one.  What a message of theirs does is in *)
(* CandidateSession and SessionBudget; here it writes one event.  Whether  *)
(* an event in a channel reaches the handlers is EventBus's subject; here  *)
(* the question is whether there are any handlers to reach.                *)
(***************************************************************************)
EXTENDS SlidingWindow, FiniteSets

CONSTANTS
  Workers,      \* requests served at a time
  Cap,          \* settings.global_max_sessions_per_day
  DayLength,    \* _MS_PER_DAY
  MaxSessions,  \* bound: rows
  MaxTime,      \* bound: the clock
  MaxMessages,  \* bound: messages of an address since the last restart, and
                \* ends of sessions
  MaxRestarts   \* bound: restarts

ASSUME AdmissionAssumption ==
  /\ IsFiniteSet(Workers) /\ Workers # {}
  /\ Cap \in Nat \ {0}
  /\ DayLength \in Nat \ {0}
  /\ MaxSessions \in Nat

VARIABLES
  rows,      \* rows[i]: started_at of session i, in the database
  log,       \* log[i]: the types of its events, in the database
  subs,      \* subs[i]: the handlers the bus calls, in this process
  req,       \* req[w]: the request worker w serves, and those of its locals it will
             \* still read
  scoring,   \* scoring[i]: the scoring runs of session i under way
  handed,    \* ids handed out, by any process
  ours,      \* those handed out by this process
  unheard,   \* history: unheard[i], where in log[i] the events are that were
             \* published to no handler
  restarts   \* number of restarts

vars == <<now, limiterVars, rows, log, subs, req, scoring, handed, ours, unheard, restarts>>

Sessions == 1..MaxSessions
Day(t) == t \div DayLength
DayStart(t) == t - (t % DayLength)
Wired == <<"live scorer", "dashboard forwarder">>
Idle == [pc |-> "idle", since |-> 0, count |-> 0, stamp |-> 0, id |-> 0]

Init ==
  /\ now = 0
  /\ LimiterInit
  /\ rows = <<>>
  /\ log = [i \in Sessions |-> <<>>]
  /\ subs = [i \in Sessions |-> <<>>]
  /\ req = [w \in Workers |-> Idle]
  /\ scoring = [i \in Sessions |-> 0]
  /\ handed = {}
  /\ ours = {}
  /\ unheard = [i \in Sessions |-> {}]
  /\ restarts = 0

Tick ==
  /\ now < MaxTime
  /\ now' = now + 1
  /\ UNCHANGED <<limiterVars, rows, log, subs, req, scoring, handed, ours, unheard, restarts>>

-------------------------------------------------------------------------------
(* POST /api/session *)

SameButRequest == UNCHANGED <<now, limiterVars, rows, log, subs, scoring, handed, ours, unheard, restarts>>

(* The health check passes and global_sessions_today reads the clock. *)
Begin(w) ==
  /\ req[w].pc = "idle"
  /\ req' = [req EXCEPT ![w] = [Idle EXCEPT !.pc = "counting", !.since = DayStart(now)]]
  /\ SameButRequest

(* Its query runs. *)
Count(w) ==
  /\ req[w].pc = "counting"
  /\ req' = [req EXCEPT ![w] = [Idle EXCEPT !.pc = "counted",
             !.count = Cardinality({i \in DOMAIN rows : rows[i] >= req[w].since})]]
  /\ SameButRequest

(* Fault: the cap is compared off by one. *)
StampOneMore(w) ==
  /\ req[w].pc = "counted"
  /\ req[w].count <= Cap
  /\ req' = [req EXCEPT ![w] = [Idle EXCEPT !.pc = "inserting", !.stamp = now]]
  /\ SameButRequest

(* There is room and the tasks exist: create_session reads the clock.       *)
Stamp(w) ==
  /\ req[w].pc = "counted"
  /\ req[w].count < Cap
  /\ req' = [req EXCEPT ![w] = [Idle EXCEPT !.pc = "inserting", !.stamp = now]]
  /\ SameButRequest

(* The day is full (429) or a task is unknown (400), or a statement of the  *)
(* request raises (500).                                                    *)
Refused(w) ==
  /\ req[w].pc \in {"counting", "counted", "inserting", "writing"}
  /\ req' = [req EXCEPT ![w] = Idle]
  /\ SameButRequest

(* The INSERT is committed. *)
Insert(w) ==
  /\ req[w].pc = "inserting"
  /\ Len(rows) < MaxSessions
  /\ rows' = Append(rows, req[w].stamp)
  /\ req' = [req EXCEPT ![w] = [Idle EXCEPT !.pc = "inserted", !.id = Len(rows) + 1]]
  /\ UNCHANGED <<now, limiterVars, log, subs, scoring, handed, ours, unheard, restarts>>

(* Fault: the forwarder is not subscribed. *)
WireLiveOnly(w) ==
  /\ req[w].pc = "inserted"
  /\ subs' = [subs EXCEPT ![req[w].id] = <<"live scorer">>]
  /\ req' = [req EXCEPT ![w].pc = "writing"]
  /\ UNCHANGED <<now, limiterVars, rows, log, scoring, handed, ours, unheard, restarts>>

(* The coroutine resumes and subscribes both handlers. *)
Wire(w) ==
  /\ req[w].pc = "inserted"
  /\ subs' = [subs EXCEPT ![req[w].id] = Wired]
  /\ req' = [req EXCEPT ![w].pc = "writing"]
  /\ UNCHANGED <<now, limiterVars, rows, log, scoring, handed, ours, unheard, restarts>>

(* SESSION_STARTED is committed. *)
WriteStarted(w) ==
  /\ req[w].pc = "writing"
  /\ log' = [log EXCEPT ![req[w].id] = Append(@, "session.started")]
  /\ req' = [req EXCEPT ![w].pc = "publishing"]
  /\ UNCHANGED <<now, limiterVars, rows, subs, scoring, handed, ours, unheard, restarts>>

(* The last event of log' goes into the channel of the session.  It reaches *)
(* no handler when none is subscribed, and perhaps none when a scoring run  *)
(* is closing that channel.                                                 *)
Publish(i) ==
  \/ subs[i] # <<>> /\ UNCHANGED unheard
  \/ /\ subs[i] = <<>> \/ scoring[i] > 0
     /\ unheard' = [unheard EXCEPT ![i] = @ \cup {Len(log'[i])}]

(* The event is published and the visitor gets the id. *)
HandOut(w) ==
  LET i == req[w].id
  IN  /\ req[w].pc = "publishing"
      /\ UNCHANGED <<now, limiterVars, rows, log, subs, scoring, restarts>>
      /\ Publish(i)
      /\ handed' = handed \cup {i}
      /\ ours' = ours \cup {i}
      /\ req' = [req EXCEPT ![w] = Idle]

-------------------------------------------------------------------------------
(* The candidate socket: chat.send and code.run *)

EndEvents ==
  {p \in UNION {{i} \X DOMAIN log[i] : i \in Sessions} : log[p[1]][p[2]] = "session.ended"}

Messages(k) == Len(admitted[k]) + refused[k] + Cardinality(EndEvents)

MessageAllowed(k, i) ==
  /\ Messages(k) < MaxMessages
  /\ i \in handed
  /\ Allow(k)
  /\ log' = [log EXCEPT ![i] = Append(@, "work")]
  /\ Publish(i)
  /\ UNCHANGED <<now, rows, subs, req, scoring, handed, ours, restarts>>

MessageLimited(k, i) ==
  /\ Messages(k) < MaxMessages
  /\ i \in handed
  /\ Deny(k)
  /\ UNCHANGED <<now, rows, log, subs, req, scoring, handed, ours, unheard, restarts>>

-------------------------------------------------------------------------------
(* The end of a session: session.end or the last task.submit of any socket, *)
(* which no limiter holds back, also of a session that has ended before.    *)

(* Fault: the session is scored before its end is in the log. *)
EndUnlogged(i) ==
  /\ i \in handed
  /\ scoring[i] < MaxMessages
  /\ scoring' = [scoring EXCEPT ![i] = @ + 1]
  /\ UNCHANGED <<now, limiterVars, rows, log, subs, req, handed, ours, unheard, restarts>>

(* SESSION_ENDED is committed and published; then the handler scores.       *)
End(i) ==
  /\ i \in handed
  /\ \A k \in Keys : Messages(k) < MaxMessages
  /\ log' = [log EXCEPT ![i] = Append(@, "session.ended")]
  /\ Publish(i)
  /\ scoring' = [scoring EXCEPT ![i] = @ + 1]
  /\ UNCHANGED <<now, limiterVars, rows, subs, req, handed, ours, restarts>>

(* Whatever became of the scoring, close_session has drained the channel    *)
(* and takes the handlers out.                                              *)
Close(i) ==
  /\ scoring[i] > 0
  /\ scoring' = [scoring EXCEPT ![i] = @ - 1]
  /\ subs' = [subs EXCEPT ![i] = <<>>]
  /\ UNCHANGED <<now, limiterVars, rows, log, req, handed, ours, unheard, restarts>>

(* The handler dies before it scores, or close_session is cancelled.        *)
CloseFails(i) ==
  /\ scoring[i] > 0
  /\ scoring' = [scoring EXCEPT ![i] = @ - 1]
  /\ UNCHANGED <<now, limiterVars, rows, log, subs, req, handed, ours, unheard, restarts>>

(* The process dies and starts again: the database is what it was.          *)
Restart ==
  /\ restarts < MaxRestarts
  /\ restarts' = restarts + 1
  /\ Forget
  /\ subs' = [i \in Sessions |-> <<>>]
  /\ req' = [w \in Workers |-> Idle]
  /\ scoring' = [i \in Sessions |-> 0]
  /\ ours' = {}
  /\ UNCHANGED <<now, rows, log, handed, unheard>>

Next ==
  \/ Tick
  \/ Restart
  \/ \E w \in Workers :
       \/ Begin(w) \/ Count(w) \/ Stamp(w) \/ Refused(w)
       \/ Insert(w) \/ Wire(w) \/ WriteStarted(w) \/ HandOut(w)
  \/ \E k \in Keys, i \in Sessions : MessageAllowed(k, i) \/ MessageLimited(k, i)
  \/ \E i \in Sessions : End(i) \/ Close(i) \/ CloseFails(i)

Spec == Init /\ [][Next]_vars

-------------------------------------------------------------------------------
Request ==
  [pc : {"idle", "counting", "counted", "inserting", "inserted", "writing", "publishing"},
   since : Nat, count : Nat, stamp : Nat, id : Nat]

EventTypes == {"session.started", "work", "session.ended"}

TypeOK ==
  /\ now \in Nat
  /\ hits \in [Keys -> Seq(Nat)] /\ \A k \in Keys : Len(hits[k]) <= Limit
  /\ admitted \in [Keys -> Seq(Nat)] /\ refused \in [Keys -> Nat]
  /\ rows \in Seq(Nat) /\ Len(rows) <= MaxSessions
  /\ log \in [Sessions -> Seq(EventTypes)]
  /\ subs \in [Sessions -> {<<>>, Wired}]
  /\ req \in [Workers -> Request]
  /\ \A w \in Workers : req[w].pc \in {"inserted", "writing", "publishing"} => req[w].id \in DOMAIN rows
  /\ scoring \in [Sessions -> Nat]
  /\ ours \subseteq handed /\ handed \subseteq DOMAIN rows
  /\ unheard \in [Sessions -> SUBSET Nat]
  /\ restarts \in Nat

StartedOn(d) == {i \in DOMAIN rows : Day(rows[i]) = d}

(* The daily cap of README.md, 50 sessions in total, holds up to the other  *)
(* requests served at that moment: the rows are counted before the own one  *)
(* is inserted, and a request that starts before midnight may be stamped    *)
(* after it.                                                                *)
DailyOvershoot ==
  \A d \in 0..Day(now) : Cardinality(StartedOn(d)) < Cap + Cardinality(Workers)

EndedBefore(evs, n) == \E m \in 1..(n - 1) : evs[m] = "session.ended"

(* An id a visitor got from this process has both handlers, in their order, *)
(* until its session.ended is in the log and a scoring run has closed the   *)
(* bus for it; only events after that one go to no handler.  Its log starts *)
(* with session.started, which comes once.  A session of an earlier process *)
(* has no handlers: it is used without live scores.                         *)
HeardUntilEnded ==
  /\ \A i \in ours : /\ subs[i] = Wired \/ EndedBefore(log[i], Len(log[i]) + 1)
                     /\ \A n \in unheard[i] : EndedBefore(log[i], n)
  /\ \A i \in handed : /\ log[i] # <<>> /\ log[i][1] = "session.started"
                       /\ \A n \in DOMAIN log[i] : log[i][n] = "session.started" => n = 1
  /\ \A i \in handed \ ours : subs[i] = <<>>
================================================================================
