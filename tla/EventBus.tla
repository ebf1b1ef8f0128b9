------------------------------- MODULE EventBus -------------------------------
(***************************************************************************)
(* The event bus of one session: app/bus.py.                               *)
(*                                                                         *)
(* Publish stands for EventBus.publish, which runs to its end without a    *)
(* suspension point; the consumer task of a channel, the handlers it       *)
(* awaits and the coroutines inside close_session interleave with it.      *)
(* Events arrive in seq order (EventStore: FeedFollowsLog).                *)
(*                                                                         *)
(* A channel outlives its entry in the dictionary of channels, so channels *)
(* are numbered in the order they are created; 0 stands for no entry.      *)
(***************************************************************************)
EXTENDS Naturals, Sequences, FiniteSets, SequencesExt

CONSTANTS
  Handlers,     \* the handlers create_session subscribes, in order
  QueueMax,     \* maxsize of a channel
  Closers,      \* calls of close_session
  MaxEvents,    \* bound: events published
  MaxChannels   \* bound: channels created

ASSUME BusAssumption ==
  /\ Handlers \in Seq(ToSet(Handlers)) /\ IsInjective(Handlers)
  /\ QueueMax \in Nat \ {0}
  /\ MaxEvents \in Nat
  /\ MaxChannels \in Nat \ {0}

(* The two droppable event types, and all the others. *)
Kinds == {"snapshot", "paste", "kept"}

Event == [seq : Nat \ {0}, kind : Kinds]
Channels == 1..MaxChannels

VARIABLES
  current,      \* the session's entry in _channels and in _tasks, or 0
  subscribers,  \* the session's entry in _subscribers, a sequence of handlers
  items,        \* items[c]: the deque of channel c
  closed,       \* closed[c]
  dropped,      \* dropped[c]
  consumer,     \* consumer[c]: state of the consumer task of channel c
  hand,         \* hand[c]: <<the event being fanned out>>, or <<>>
  todo,         \* todo[c]: the handlers still to be called on it
  closer,       \* closer[k]: where the call k of close_session is
  published,    \* number of events published: the seq of the last one
  put,          \* history: put[c], the events given to channel c
  taken,        \* history: taken[c], the events the consumer took from it
  handed        \* history: handed[h], the events handler h was called with

channelVars == <<items, closed, dropped, consumer, hand, todo, put, taken>>
vars == <<current, subscribers, channelVars, closer, published, handed>>

Kept(e) == e.kind = "kept"

Init ==
  /\ current = 0
  /\ subscribers \in {Handlers, <<>>}   \* none after a restart of the process
  /\ items = [c \in Channels |-> <<>>]
  /\ closed = [c \in Channels |-> FALSE]
  /\ dropped = [c \in Channels |-> 0]
  /\ consumer = [c \in Channels |-> "none"]
  /\ hand = [c \in Channels |-> <<>>]
  /\ todo = [c \in Channels |-> <<>>]
  /\ closer = [k \in Closers |-> [pc |-> "idle", on |-> 0]]
  /\ published = 0
  /\ put = [c \in Channels |-> {}]
  /\ taken = [c \in Channels |-> <<>>]
  /\ handed = [h \in ToSet(Handlers) |-> <<>>]

-------------------------------------------------------------------------------
(* _SessionChannel *)

FirstOf(s, kind) == SelectInSeq(s, LAMBDA e : e.kind = kind)

(* Fault: with nothing droppable queued the oldest event goes. *)
VictimOrOldest(s) ==
  CASE FirstOf(s, "snapshot") # 0 -> FirstOf(s, "snapshot")
    [] FirstOf(s, "paste") # 0    -> FirstOf(s, "paste")
    [] OTHER                      -> 1

(* Fault: the drop order is reversed. *)
VictimPasteFirst(s) ==
  IF FirstOf(s, "paste") # 0 THEN FirstOf(s, "paste") ELSE FirstOf(s, "snapshot")

(* The position _evict_one_droppable deletes: the first snapshot, or else   *)
(* the first paste, or 0 when nothing queued is droppable.                  *)
Victim(s) ==
  IF FirstOf(s, "snapshot") # 0 THEN FirstOf(s, "snapshot") ELSE FirstOf(s, "paste")

(* Fault: the event takes the place of the one it evicts. *)
AfterPutInPlace(s, e) ==
  CASE Len(s) < QueueMax                   -> Append(s, e)
    [] Len(s) >= QueueMax /\ Victim(s) # 0 -> [s EXCEPT ![Victim(s)] = e]
    [] OTHER                               -> IF Kept(e) THEN Append(s, e) ELSE s

(* What put makes of the deque s when event e arrives. *)
AfterPut(s, e) ==
  CASE Len(s) < QueueMax                   -> Append(s, e)
    [] Len(s) >= QueueMax /\ Victim(s) # 0 -> Append(RemoveAt(s, Victim(s)), e)
    [] OTHER                               -> IF Kept(e) THEN Append(s, e) ELSE s

(* Every branch that evicts or refuses an event counts one drop. *)
Drops(s, e) == IF Len(s) >= QueueMax /\ (Victim(s) # 0 \/ ~Kept(e)) THEN 1 ELSE 0

PutIn(c, e) ==
  /\ items' = [items EXCEPT ![c] = AfterPut(@, e)]
  /\ dropped' = [dropped EXCEPT ![c] = @ + Drops(items[c], e)]
  /\ put' = [put EXCEPT ![c] = @ \cup {e}]

-------------------------------------------------------------------------------
(* EventBus.publish *)

(* The number of the next channel to be created. *)
Fresh(c) == c \in Channels /\ consumer[c] = "none" /\ \A b \in 1..(c - 1) : consumer[b] # "none"

Publish(kind) ==
  LET e == [seq |-> published + 1, kind |-> kind]
  IN  /\ published < MaxEvents
      /\ published' = published + 1
      /\ \/ /\ current # 0
            /\ PutIn(current, e)
            /\ UNCHANGED <<current, consumer>>
         \/ /\ current = 0
            /\ \E c \in Channels :
                 /\ Fresh(c)
                 /\ current' = c
                 /\ consumer' = [consumer EXCEPT ![c] = "getting"]
                 /\ PutIn(c, e)
      /\ UNCHANGED <<subscribers, closed, hand, todo, closer, taken, handed>>

-------------------------------------------------------------------------------
(* EventBus._consume *)

(* get returns the oldest event; the list of subscribers is read once per   *)
(* event, and with no subscriber the event is discarded.                    *)
Take(c) ==
  /\ consumer[c] = "getting"
  /\ items[c] # <<>>
  /\ items' = [items EXCEPT ![c] = Tail(@)]
  /\ taken' = [taken EXCEPT ![c] = Append(@, Head(items[c]))]
  /\ \/ /\ subscribers # <<>>
        /\ hand' = [hand EXCEPT ![c] = <<Head(items[c])>>]
        /\ todo' = [todo EXCEPT ![c] = subscribers]
        /\ consumer' = [consumer EXCEPT ![c] = "handling"]
     \/ /\ subscribers = <<>>
        /\ UNCHANGED <<hand, todo, consumer>>
  /\ UNCHANGED <<current, subscribers, closed, dropped, put, closer, published, handed>>

(* One handler was called with the event and has returned or raised. *)
Hand(c) ==
  /\ consumer[c] = "handling"
  /\ handed' = [handed EXCEPT ![Head(todo[c])] = Append(@, Head(hand[c]))]
  /\ todo' = [todo EXCEPT ![c] = Tail(@)]
  /\ \/ /\ Len(todo[c]) > 1
        /\ UNCHANGED <<hand, consumer>>
     \/ /\ Len(todo[c]) = 1
        /\ hand' = [hand EXCEPT ![c] = <<>>]
        /\ consumer' = [consumer EXCEPT ![c] = "getting"]
  /\ UNCHANGED <<current, subscribers, items, closed, dropped, put, taken, closer, published>>

(* Fault: a closed channel is not drained before the task ends. *)
FinishUndrained(c) ==
  /\ consumer[c] = "getting"
  /\ closed[c]
  /\ consumer' = [consumer EXCEPT ![c] = "done"]
  /\ UNCHANGED <<current, subscribers, items, closed, dropped, hand, todo, put, taken,
                 closer, published, handed>>

(* get finds the channel closed and fully drained: the task ends. *)
Finish(c) ==
  /\ consumer[c] = "getting"
  /\ closed[c]
  /\ items[c] = <<>>
  /\ consumer' = [consumer EXCEPT ![c] = "done"]
  /\ UNCHANGED <<current, subscribers, items, closed, dropped, hand, todo, put, taken,
                 closer, published, handed>>

-------------------------------------------------------------------------------
(* EventBus.close_session *)

(* Fault: one handler is unsubscribed, not the list. *)
PopOneHandler ==
  /\ current' = 0
  /\ subscribers' = SubSeq(subscribers, 2, Len(subscribers))

(* The three dictionaries lose their entry for the session. *)
PopSession ==
  /\ current' = 0
  /\ subscribers' = <<>>

(* Fault: the consumer is awaited without closing its channel. *)
CloseSessionAwaitsOnly(k) ==
  /\ closer[k].pc = "idle"
  /\ current # 0 /\ consumer[current] \in {"getting", "handling"}
  /\ closer' = [closer EXCEPT ![k] = [pc |-> "awaiting", on |-> current]]
  /\ UNCHANGED <<current, subscribers, items, closed, dropped, consumer, hand, todo, put,
                 taken, published, handed>>

(* The call closes the channel; a consumer task that still runs is awaited. *)
CloseSession(k) ==
  /\ closer[k].pc = "idle"
  /\ current # 0 /\ consumer[current] \in {"getting", "handling"}
  /\ closed' = [closed EXCEPT ![current] = TRUE]
  /\ closer' = [closer EXCEPT ![k] = [pc |-> "awaiting", on |-> current]]
  /\ UNCHANGED <<current, subscribers, items, dropped, consumer, hand, todo, put, taken,
                 published, handed>>

(* There is no task to await, or it has returned: the call pops at once. *)
CloseAtOnce(k) ==
  /\ closer[k].pc = "idle"
  /\ current # 0 => consumer[current] = "done"
  /\ PopSession
  /\ closer' = [closer EXCEPT ![k] = [pc |-> "returned", on |-> 0]]
  /\ UNCHANGED <<channelVars, published, handed>>

(* The task was cancelled: awaiting it raises CancelledError, nothing pops. *)
CloseRaises(k) ==
  /\ \/ closer[k].pc = "idle" /\ current # 0 /\ consumer[current] = "cancelled"
     \/ closer[k].pc = "awaiting" /\ consumer[closer[k].on] = "cancelled"
  /\ closer' = [closer EXCEPT ![k] = [pc |-> "raised", on |-> 0]]
  /\ UNCHANGED <<current, subscribers, channelVars, published, handed>>

(* The awaited task has returned: the call resumes and pops. *)
CloseReturns(k) ==
  /\ closer[k].pc = "awaiting"
  /\ consumer[closer[k].on] = "done"
  /\ PopSession
  /\ closer' = [closer EXCEPT ![k] = [pc |-> "returned", on |-> 0]]
  /\ UNCHANGED <<channelVars, published, handed>>

(* The 120 s limit on scoring cancels the call while it awaits the task,    *)
(* and with it the task itself: the event in its hand is not fanned out.    *)
CloseCancelled(k) ==
  LET c == closer[k].on
  IN  /\ closer[k].pc = "awaiting"
      /\ consumer[c] \in {"getting", "handling"}
      /\ consumer' = [consumer EXCEPT ![c] = "cancelled"]
      /\ hand' = [hand EXCEPT ![c] = <<>>]
      /\ todo' = [todo EXCEPT ![c] = <<>>]
      /\ closer' = [closer EXCEPT ![k] = [pc |-> "raised", on |-> 0]]
      /\ UNCHANGED <<current, subscribers, items, closed, dropped, put, taken,
                     published, handed>>

-------------------------------------------------------------------------------
Consume(c) == Take(c) \/ Hand(c) \/ Finish(c)
Resume(k) == CloseReturns(k) \/ (closer[k].pc = "awaiting" /\ CloseRaises(k))

Next ==
  \/ \E kind \in Kinds : Publish(kind)
  \/ \E c \in Channels : Consume(c)
  \/ \E k \in Closers :
       CloseSession(k) \/ CloseAtOnce(k) \/ CloseRaises(k) \/ CloseReturns(k) \/ CloseCancelled(k)

(* The event loop runs every task that is ready, and handlers return: they  *)
(* write a row and send to sockets whose sends fail when a client is gone.  *)
Fairness ==
  /\ \A c \in Channels : WF_vars(Consume(c))
  /\ \A k \in Closers : WF_vars(Resume(k))

Spec == Init /\ [][Next]_vars /\ Fairness

-------------------------------------------------------------------------------
TypeOK ==
  /\ current \in Channels \cup {0}
  /\ subscribers \in {Handlers, <<>>}
  /\ items \in [Channels -> Seq(Event)]
  /\ closed \in [Channels -> BOOLEAN]
  /\ dropped \in [Channels -> Nat]
  /\ consumer \in [Channels -> {"none", "getting", "handling", "done", "cancelled"}]
  /\ hand \in [Channels -> Seq(Event)]
  /\ todo \in [Channels -> Seq(ToSet(Handlers))]
  /\ closer \in [Closers -> [pc : {"idle", "awaiting", "returned", "raised"},
                             on : Channels \cup {0}]]
  /\ published \in Nat
  /\ put \in [Channels -> SUBSET Event]
  /\ taken \in [Channels -> Seq(Event)]
  /\ handed \in [ToSet(Handlers) -> Seq(Event)]

(* Backpressure never costs a scoring event: an event that is neither a     *)
(* snapshot nor a paste and was put in a channel is still queued there or   *)
(* was taken by the consumer.                                               *)
KeptNeverDropped ==
  \A c \in Channels : \A e \in put[c] :
    Kept(e) => e \in ToSet(items[c]) \cup ToSet(taken[c])

(* A channel grows past its bound only by scoring events: as long as it is  *)
(* over the bound nothing in it could have been evicted.                    *)
OverflowOnlyKept ==
  \A c \in Channels : Len(items[c]) > QueueMax => \A e \in ToSet(items[c]) : Kept(e)

Increasing(s) == \A i, j \in 1..Len(s) : i < j => s[i].seq < s[j].seq

(* Whatever is evicted between them, the events a handler is called with    *)
(* come in seq order and none comes twice, also across the channels of a    *)
(* session that was closed and published to again.                          *)
HandedInOrder ==
  /\ \A c \in Channels : Increasing(taken[c] \o items[c])
  /\ \A h \in ToSet(Handlers) : Increasing(handed[h])

(* The drop counter accounts for every event that was put and is neither    *)
(* queued nor taken.                                                        *)
DropsCounted ==
  \A c \in Channels : Cardinality(put[c]) = dropped[c] + Len(items[c]) + Len(taken[c])

Lost(c) == put[c] \ (ToSet(items[c]) \cup ToSet(taken[c]))

(* A queued paste is evicted, or an arriving paste refused, only when no    *)
(* snapshot was queued at that moment.                                      *)
PasteOutlivesQueuedSnapshot ==
  [][\A c \in Channels :
       (\E e \in Lost(c)' \ Lost(c) : e.kind = "paste") =>
          \A e \in ToSet(items[c]) : e.kind # "snapshot"]_vars

(* Every call of close_session returns or raises. *)
CloseTerminates ==
  \A k \in Closers : closer[k].pc = "awaiting" ~> closer[k].pc \in {"returned", "raised"}

(* A scoring event that was published before the session is closed reaches  *)
(* every handler, in spite of evictions around it and of the close, unless  *)
(* the consumer is cancelled.                                               *)
KeptIsHanded ==
  \A n \in 1..MaxEvents :
    LET e == [seq |-> n, kind |-> "kept"]
    IN  (e \in put[1] /\ ~closed[1] /\ subscribers = Handlers) ~>
          \/ \A h \in ToSet(Handlers) : e \in ToSet(handed[h])
          \/ consumer[1] = "cancelled"
================================================================================
