---------------------------- MODULE EventBusProofs ----------------------------
(***************************************************************************)
(* Proofs about EventBus for any channel size, any handlers, any number of *)
(* events, channels and calls of close_session.                            *)
(***************************************************************************)
EXTENDS EventBus, FiniteSetTheorems, WellFoundedInduction, TLAPS

USE BusAssumption

(* The prover's view of an index SelectInSeq chooses.                       *)
LEMMA FirstOfIndex ==
  ASSUME NEW s \in Seq(Event), NEW kind
  PROVE  /\ FirstOf(s, kind) \in 0..Len(s)
         /\ FirstOf(s, kind) # 0 => s[FirstOf(s, kind)].kind = kind
         /\ FirstOf(s, kind) = 0 => \A i \in 1..Len(s) : s[i].kind # kind
<1> DEFINE I == {i \in 1..Len(s) : s[i].kind = kind}
<1>1. FirstOf(s, kind) = IF I # {} THEN Min(I) ELSE 0
  BY DEF FirstOf, SelectInSeq
<1>2. I # {} => \E x \in I : \A y \in I : x <= y
  <2> SUFFICES ASSUME I # {} PROVE \E x \in I : \A y \in I : x <= y
    OBVIOUS
  <2>1. I \subseteq Nat
    OBVIOUS
  <2> HIDE DEF I
  <2>2. PICK x \in I : \A y \in I : ~(<<y, x>> \in OpToRel(<, Nat))
    BY <2>1, NatLessThanWellFounded, WFMin
  <2>3. \A y \in I : ~(y < x)
    BY <2>1, <2>2 DEF OpToRel
  <2> QED
    BY <2>1, <2>3
<1>3. I # {} => Min(I) \in I
  <2> HIDE DEF I
  <2> QED
    BY <1>2 DEF Min
<1>4. Len(s) \in Nat
  OBVIOUS
<1> QED
  BY <1>1, <1>3, <1>4

(* What an eviction takes is droppable, and it takes something if it can.   *)
LEMMA VictimIsDroppable ==
  ASSUME NEW s \in Seq(Event)
  PROVE  /\ Victim(s) \in 0..Len(s)
         /\ Victim(s) # 0 => ~Kept(s[Victim(s)])
         /\ Victim(s) = 0 => \A i \in 1..Len(s) : Kept(s[i])
<1>0. \A i \in 1..Len(s) : s[i] \in Event
  OBVIOUS
<1>1. \A i \in 1..Len(s) : s[i].kind \in Kinds
  BY <1>0 DEF Event
<1>2. "snapshot" # "kept" /\ "paste" # "kept"
  OBVIOUS
<1>3. CASE FirstOf(s, "snapshot") # 0
  BY <1>2, <1>3, FirstOfIndex DEF Victim, Kept
<1>4. CASE FirstOf(s, "snapshot") = 0
  <2>1. Victim(s) = FirstOf(s, "paste")
    BY <1>4 DEF Victim
  <2>2. \A i \in 1..Len(s) : s[i].kind # "snapshot"
    BY <1>4, FirstOfIndex
  <2> QED
    BY <1>1, <1>2, <2>1, <2>2, FirstOfIndex DEF Kept, Kinds
<1> QED
  BY <1>3, <1>4

LEMMA RemoveAtElements ==
  ASSUME NEW S, NEW s \in Seq(S), NEW v \in 1..Len(s)
  PROVE  /\ RemoveAt(s, v) \in Seq(S)
         /\ Len(RemoveAt(s, v)) = Len(s) - 1
         /\ \A i \in 1..(Len(s) - 1) : RemoveAt(s, v)[i] = IF i < v THEN s[i] ELSE s[i + 1]
<1> DEFINE before == SubSeq(s, 1, v - 1)
           after == SubSeq(s, v + 1, Len(s))
<1>1. Len(s) \in Nat /\ v \in Nat /\ 1 <= v /\ v <= Len(s)
  OBVIOUS
<1>2. before \in Seq(S) /\ Len(before) = v - 1 /\ \A i \in 1..(v - 1) : before[i] = s[i]
  BY <1>1
<1>3. /\ after \in Seq(S) /\ Len(after) = Len(s) - v
      /\ \A i \in 1..(Len(s) - v) : after[i] = s[v + i]
  BY <1>1
<1>4. RemoveAt(s, v) = before \o after
  BY DEF RemoveAt
<1> HIDE DEF before, after
<1>5. RemoveAt(s, v) \in Seq(S) /\ Len(RemoveAt(s, v)) = Len(s) - 1
  BY <1>1, <1>2, <1>3, <1>4
<1>6. ASSUME NEW i \in 1..(Len(s) - 1)
      PROVE  RemoveAt(s, v)[i] = IF i < v THEN s[i] ELSE s[i + 1]
  <2>1. CASE i < v
    BY <1>1, <1>2, <1>3, <1>4, <2>1
  <2>2. CASE ~(i < v)
    <3>1. i - (v - 1) \in 1..(Len(s) - v) /\ v + (i - (v - 1)) = i + 1
      BY <1>1, <2>2
    <3>2. RemoveAt(s, v)[i] = after[i - (v - 1)]
      BY <1>1, <1>2, <1>3, <1>4, <2>2, <3>1
    <3>3. after[i - (v - 1)] = s[v + (i - (v - 1))]
      BY <1>3, <3>1
    <3> QED
      BY <2>2, <3>1, <3>2, <3>3
  <2> QED
    BY <2>1, <2>2
<1> QED
  BY <1>5, <1>6

(* put in its three outcomes: appended, appended for a droppable event that *)
(* leaves a full channel, refused.                                          *)
Appended(s, e) ==
  /\ AfterPut(s, e) = Append(s, e)
  /\ Drops(s, e) = 0
  /\ Len(s) < QueueMax \/ (Victim(s) = 0 /\ Kept(e))

Exchanged(s, e) ==
  /\ Victim(s) \in 1..Len(s) /\ ~Kept(s[Victim(s)])
  /\ AfterPut(s, e) = Append(RemoveAt(s, Victim(s)), e)
  /\ Drops(s, e) = 1

Refused(s, e) ==
  /\ AfterPut(s, e) = s
  /\ Drops(s, e) = 1
  /\ ~Kept(e)

LEMMA PutOutcome ==
  ASSUME NEW s \in Seq(Event), NEW e \in Event
  PROVE  Appended(s, e) \/ Exchanged(s, e) \/ Refused(s, e)
<1>0. Len(s) \in Nat
  OBVIOUS
<1>1. CASE Len(s) < QueueMax
  BY <1>0, <1>1 DEF Appended, AfterPut, Drops
<1>2. CASE Len(s) >= QueueMax /\ Victim(s) # 0
  BY <1>0, <1>2, VictimIsDroppable DEF Exchanged, AfterPut, Drops
<1>3. CASE Len(s) >= QueueMax /\ Victim(s) = 0
  BY <1>0, <1>3 DEF Appended, Refused, AfterPut, Drops
<1> QED
  BY <1>0, <1>1, <1>2, <1>3

LEMMA AfterPutType ==
  ASSUME NEW s \in Seq(Event), NEW e \in Event
  PROVE  AfterPut(s, e) \in Seq(Event) /\ Drops(s, e) \in Nat
<1>1. CASE Appended(s, e)
  BY <1>1 DEF Appended
<1>2. CASE Exchanged(s, e)
  <2>1. RemoveAt(s, Victim(s)) \in Seq(Event)
    BY <1>2, RemoveAtElements DEF Exchanged
  <2> QED
    BY <1>2, <2>1 DEF Exchanged
<1>3. CASE Refused(s, e)
  BY <1>3 DEF Refused
<1> QED
  BY <1>1, <1>2, <1>3, PutOutcome

-------------------------------------------------------------------------------
(* A consumer with an event in its hand still has a handler to call, and a  *)
(* call that awaits a task knows its channel.                               *)
HandlingOK ==
  \A c \in Channels : consumer[c] = "handling" => todo[c] # <<>> /\ Len(hand[c]) = 1

AwaitingOK == \A k \in Closers : closer[k].pc = "awaiting" => closer[k].on \in Channels

TypeInv == TypeOK /\ HandlingOK /\ AwaitingOK

Arriving(kind) == [seq |-> published + 1, kind |-> kind]

(* publish is a put of the next event, in a channel that is there or new.   *)
LEMMA PublishPuts ==
  ASSUME TypeInv, NEW kind \in Kinds, Publish(kind)
  PROVE  /\ Arriving(kind) \in Event
         /\ published' = published + 1
         /\ UNCHANGED <<subscribers, closed, hand, todo, closer, taken, handed>>
         /\ \E c \in Channels :
              /\ PutIn(c, Arriving(kind))
              /\ current' = c
              /\ \/ current = c /\ consumer' = consumer
                 \/ current = 0 /\ Fresh(c) /\ consumer' = [consumer EXCEPT ![c] = "getting"]
<1>1. Arriving(kind) \in Event
  BY DEF Arriving, Event, TypeInv, TypeOK
<1>2. CASE current # 0
  <2>1. current \in Channels
    BY <1>2 DEF TypeInv, TypeOK
  <2> QED
    BY <1>1, <1>2, <2>1 DEF Publish, Arriving
<1>3. CASE current = 0
  BY <1>1, <1>3 DEF Publish, Arriving
<1> QED
  BY <1>2, <1>3

LEMMA PutInType ==
  ASSUME TypeInv, NEW c \in Channels, NEW e \in Event, PutIn(c, e)
  PROVE  /\ items' \in [Channels -> Seq(Event)] /\ dropped' \in [Channels -> Nat]
         /\ put' \in [Channels -> SUBSET Event]
<1>1. items[c] \in Seq(Event) /\ dropped[c] \in Nat /\ put[c] \in SUBSET Event
  BY DEF TypeInv, TypeOK
<1>2. AfterPut(items[c], e) \in Seq(Event) /\ dropped[c] + Drops(items[c], e) \in Nat
  BY <1>1, AfterPutType
<1> QED
  BY <1>1, <1>2 DEF PutIn, TypeInv, TypeOK

LEMMA PublishType ==
  ASSUME TypeInv, NEW kind \in Kinds, Publish(kind)
  PROVE  TypeInv'
<1>1. PICK c \in Channels :
        /\ PutIn(c, Arriving(kind))
        /\ current' = c
        /\ \/ current = c /\ consumer' = consumer
           \/ current = 0 /\ Fresh(c) /\ consumer' = [consumer EXCEPT ![c] = "getting"]
  BY PublishPuts
<1>2. /\ items' \in [Channels -> Seq(Event)] /\ dropped' \in [Channels -> Nat]
      /\ put' \in [Channels -> SUBSET Event]
  BY <1>1, PublishPuts, PutInType
<1>3. /\ consumer' \in [Channels -> {"none", "getting", "handling", "done", "cancelled"}]
      /\ \A b \in Channels : consumer'[b] = "handling" => consumer[b] = "handling"
  BY <1>1 DEF TypeInv, TypeOK
<1>4. /\ published' \in Nat
      /\ UNCHANGED <<subscribers, closed, hand, todo, closer, taken, handed>>
  BY PublishPuts, SMTT(20) DEF TypeInv, TypeOK
<1>5. TypeOK'
  BY <1>1, <1>2, <1>3, <1>4 DEF TypeInv, TypeOK
<1>6. HandlingOK' /\ AwaitingOK'
  BY <1>3, <1>4 DEF TypeInv, HandlingOK, AwaitingOK
<1> QED
  BY <1>5, <1>6 DEF TypeInv

LEMMA HeadTail ==
  ASSUME NEW S, NEW s \in Seq(S), s # <<>>
  PROVE  /\ Head(s) \in S /\ Head(s) = s[1] /\ Len(s) \in Nat \ {0}
         /\ Tail(s) \in Seq(S) /\ Len(Tail(s)) = Len(s) - 1
         /\ \A i \in 1..(Len(s) - 1) : Tail(s)[i] = s[i + 1]
         /\ Len(s) > 1 => Tail(s) # <<>> /\ Len(s) # 1
<1>1. /\ Head(s) \in S /\ Head(s) = s[1] /\ Len(s) \in Nat \ {0}
      /\ Tail(s) \in Seq(S) /\ Len(Tail(s)) = Len(s) - 1
      /\ \A i \in 1..(Len(s) - 1) : Tail(s)[i] = s[i + 1]
  OBVIOUS
<1>2. Len(s) > 1 => Len(Tail(s)) # 0 /\ Len(s) # 1
  BY <1>1
<1>3. Len(<<>>) = 0
  OBVIOUS
<1> QED
  BY <1>1, <1>2, <1>3, Zenon

LEMMA TakeType ==
  ASSUME TypeInv, NEW c \in Channels, Take(c)
  PROVE  TypeInv'
<1>1. items[c] \in Seq(Event) /\ items[c] # <<>> /\ taken[c] \in Seq(Event)
  BY DEF TypeInv, TypeOK, Take
<1>2. Head(items[c]) \in Event /\ Tail(items[c]) \in Seq(Event)
  BY <1>1, HeadTail
<1>3. /\ items' \in [Channels -> Seq(Event)]
      /\ taken' \in [Channels -> Seq(Event)]
  <2>1. Append(taken[c], Head(items[c])) \in Seq(Event)
    BY <1>1, <1>2
  <2> QED
    BY <1>2, <2>1 DEF Take, TypeInv, TypeOK
<1>4. CASE subscribers # <<>>
  <2>0. /\ hand' = [hand EXCEPT ![c] = <<Head(items[c])>>]
        /\ todo' = [todo EXCEPT ![c] = subscribers]
        /\ consumer' = [consumer EXCEPT ![c] = "handling"]
    BY <1>4 DEF Take
  <2>1. /\ subscribers \in Seq(ToSet(Handlers)) /\ <<Head(items[c])>> \in Seq(Event)
        /\ Len(<<Head(items[c])>>) = 1
    <3>1. subscribers = Handlers
      BY <1>4 DEF TypeInv, TypeOK
    <3>2. <<Head(items[c])>> \in Seq(Event) /\ Len(<<Head(items[c])>>) = 1
      BY <1>2
    <3> QED
      BY <3>1, <3>2
  <2>2. /\ hand' \in [Channels -> Seq(Event)]
        /\ todo' \in [Channels -> Seq(ToSet(Handlers))]
        /\ consumer' \in [Channels -> {"none", "getting", "handling", "done", "cancelled"}]
    BY <2>0, <2>1 DEF TypeInv, TypeOK
  <2>3. ASSUME NEW b \in Channels, consumer'[b] = "handling"
        PROVE  todo'[b] # <<>> /\ Len(hand'[b]) = 1
    <3>1. CASE b = c
      BY <1>4, <2>0, <2>1, <3>1 DEF TypeInv, TypeOK
    <3>2. CASE b # c
      BY <2>0, <2>3, <3>2 DEF TypeInv, TypeOK, HandlingOK
    <3> QED
      BY <3>1, <3>2
  <2>4. TypeOK'
    BY <1>3, <2>2 DEF Take, TypeInv, TypeOK
  <2>5. HandlingOK' /\ AwaitingOK'
    BY <2>3 DEF Take, TypeInv, HandlingOK, AwaitingOK
  <2> QED
    BY <2>4, <2>5 DEF TypeInv
<1>5. CASE subscribers = <<>>
  <2>1. UNCHANGED <<hand, todo, consumer>>
    BY <1>5 DEF Take
  <2>2. TypeOK'
    BY <1>3, <2>1 DEF Take, TypeInv, TypeOK
  <2>3. HandlingOK' /\ AwaitingOK'
    BY <2>1 DEF Take, TypeInv, HandlingOK, AwaitingOK
  <2> QED
    BY <2>2, <2>3 DEF TypeInv
<1> QED
  BY <1>4, <1>5

LEMMA HandType ==
  ASSUME TypeInv, NEW c \in Channels, Hand(c)
  PROVE  TypeInv'
<1>1. /\ todo[c] \in Seq(ToSet(Handlers)) /\ todo[c] # <<>>
      /\ hand[c] \in Seq(Event) /\ hand[c] # <<>>
  BY SMTT(20) DEF TypeInv, TypeOK, HandlingOK, Hand
<1>2. Head(todo[c]) \in ToSet(Handlers) /\ Head(hand[c]) \in Event
  BY <1>1, HeadTail
<1>3. /\ Tail(todo[c]) \in Seq(ToSet(Handlers))
      /\ Len(todo[c]) > 1 => Tail(todo[c]) # <<>> /\ Len(todo[c]) # 1
  BY <1>1, HeadTail
<1>4. handed' \in [ToSet(Handlers) -> Seq(Event)]
  <2>1. handed[Head(todo[c])] \in Seq(Event)
    BY <1>2 DEF TypeInv, TypeOK
  <2>2. Append(handed[Head(todo[c])], Head(hand[c])) \in Seq(Event)
    BY <1>2, <2>1
  <2> QED
    BY <1>2, <2>2 DEF Hand, TypeInv, TypeOK
<1>5. todo' \in [Channels -> Seq(ToSet(Handlers))]
  BY <1>3 DEF Hand, TypeInv, TypeOK
<1>6. /\ hand' \in [Channels -> Seq(Event)]
      /\ consumer' \in [Channels -> {"none", "getting", "handling", "done", "cancelled"}]
      /\ \A b \in Channels : consumer'[b] = "handling" => todo'[b] # <<>> /\ Len(hand'[b]) = 1
  <2>1. CASE Len(todo[c]) > 1
    <3>1. UNCHANGED <<hand, consumer>>
      BY <1>3, <2>1 DEF Hand
    <3> QED
      BY <1>3, <2>1, <3>1 DEF Hand, TypeInv, TypeOK, HandlingOK
  <2>2. CASE Len(todo[c]) = 1
    <3>1. /\ hand' = [hand EXCEPT ![c] = <<>>]
          /\ consumer' = [consumer EXCEPT ![c] = "getting"]
      BY <1>3, <2>2 DEF Hand
    <3> QED
      BY <2>2, <3>1, SMTT(20) DEF Hand, TypeInv, TypeOK, HandlingOK
  <2> QED
    BY <2>1, <2>2 DEF Hand
<1>7. TypeOK'
  BY <1>4, <1>5, <1>6 DEF Hand, TypeInv, TypeOK
<1>8. HandlingOK' /\ AwaitingOK'
  BY <1>6 DEF Hand, TypeInv, HandlingOK, AwaitingOK
<1> QED
  BY <1>7, <1>8 DEF TypeInv

(* The steps of close_session.                                              *)
CloserStep(k) ==
  CloseSession(k) \/ CloseAtOnce(k) \/ CloseRaises(k) \/ CloseReturns(k) \/ CloseCancelled(k)

LEMMA CloserType ==
  ASSUME TypeInv, NEW k \in Closers, CloserStep(k)
  PROVE  TypeInv'
<1>1. CASE CloseSession(k)
  <2>1. current \in Channels
    BY <1>1 DEF CloseSession, TypeInv, TypeOK
  <2>2. TypeOK'
    BY <1>1, <2>1 DEF CloseSession, TypeInv, TypeOK
  <2>3. HandlingOK' /\ AwaitingOK'
    BY <1>1, <2>1 DEF CloseSession, TypeInv, TypeOK, HandlingOK, AwaitingOK
  <2> QED
    BY <2>2, <2>3 DEF TypeInv
<1>2. CASE CloseAtOnce(k) \/ CloseReturns(k)
  <2>1. /\ current' = 0 /\ subscribers' = <<>> /\ UNCHANGED <<channelVars, published, handed>>
        /\ closer' = [closer EXCEPT ![k] = [pc |-> "returned", on |-> 0]]
    BY <1>2 DEF CloseAtOnce, CloseReturns, PopSession
  <2>2. TypeOK'
    BY <2>1 DEF TypeInv, TypeOK, channelVars
  <2>3. HandlingOK' /\ AwaitingOK'
    BY <2>1 DEF TypeInv, TypeOK, HandlingOK, AwaitingOK, channelVars
  <2> QED
    BY <2>2, <2>3 DEF TypeInv
<1>3. CASE CloseRaises(k)
  <2>1. /\ UNCHANGED <<current, subscribers, channelVars, published, handed>>
        /\ closer' = [closer EXCEPT ![k] = [pc |-> "raised", on |-> 0]]
    BY <1>3 DEF CloseRaises
  <2>2. TypeOK'
    BY <2>1 DEF TypeInv, TypeOK, channelVars
  <2>3. HandlingOK' /\ AwaitingOK'
    BY <2>1 DEF TypeInv, TypeOK, HandlingOK, AwaitingOK, channelVars
  <2> QED
    BY <2>2, <2>3 DEF TypeInv
<1>4. CASE CloseCancelled(k)
  <2>1. closer[k].on \in Channels
    BY <1>4 DEF CloseCancelled, TypeInv, AwaitingOK
  <2>2. TypeOK'
    BY <1>4, <2>1, SMTT(20) DEF CloseCancelled, TypeInv, TypeOK
  <2>3. HandlingOK' /\ AwaitingOK'
    BY <1>4, <2>1 DEF CloseCancelled, TypeInv, TypeOK, HandlingOK, AwaitingOK
  <2> QED
    BY <2>2, <2>3 DEF TypeInv
<1> QED
  BY <1>1, <1>2, <1>3, <1>4 DEF CloserStep

LEMMA TypeInvariant == Spec => []TypeInv
<1>1. Init => TypeInv
  BY DEF Init, TypeInv, TypeOK, HandlingOK, AwaitingOK
<1>2. ASSUME TypeInv, [Next]_vars PROVE TypeInv'
  <2>1. CASE \E kind \in Kinds : Publish(kind)
    BY <1>2, <2>1, PublishType
  <2>2. CASE \E c \in Channels : Take(c)
    BY <1>2, <2>2, TakeType
  <2>3. CASE \E c \in Channels : Hand(c)
    BY <1>2, <2>3, HandType
  <2>4. CASE \E c \in Channels : Finish(c)
    BY <1>2, <2>4 DEF Finish, TypeInv, TypeOK, HandlingOK, AwaitingOK
  <2>5. CASE \E k \in Closers : CloserStep(k)
    BY <1>2, <2>5, CloserType
  <2>6. CASE UNCHANGED vars
    BY <1>2, <2>6 DEF vars, channelVars, TypeInv, TypeOK, HandlingOK, AwaitingOK
  <2> QED
    BY <1>2, <2>1, <2>2, <2>3, <2>4, <2>5, <2>6 DEF Next, Consume, CloserStep
<1> QED
  BY <1>1, <1>2, PTL DEF Spec

(* The state of the bus is well typed.                                      *)
THEOREM Typed == Spec => []TypeOK
<1>1. TypeInv => TypeOK
  BY DEF TypeInv
<1> QED
  BY <1>1, TypeInvariant, PTL

-------------------------------------------------------------------------------
(* What holds of a channel with queue s, from which t was taken, to which   *)
(* the events P were given and which has dropped d, when n are published.   *)
Members(s, t, P, n) ==
  /\ IsFiniteSet(P) /\ \A x \in P : x.seq <= n
  /\ \A i \in 1..Len(s) : s[i] \in P
  /\ \A i \in 1..Len(t) : t[i] \in P

Ordered(s, t) ==
  /\ Increasing(s) /\ Increasing(t)
  /\ \A i \in 1..Len(t), j \in 1..Len(s) : t[i].seq < s[j].seq

Accounted(s, t, P, d) == Cardinality(P) = d + Len(s) + Len(t)

Spared(s, t, P) ==
  \A x \in P : Kept(x) => (\E i \in 1..Len(s) : s[i] = x) \/ (\E i \in 1..Len(t) : t[i] = x)

Yielding(s) == Len(s) > QueueMax => \A i \in 1..Len(s) : Kept(s[i])

Good(s, t, P, d, n) ==
  Members(s, t, P, n) /\ Ordered(s, t) /\ Accounted(s, t, P, d) /\ Spared(s, t, P) /\ Yielding(s)

(* The new event has a seq of its own. *)
LEMMA Arrives ==
  ASSUME NEW P \in SUBSET Event, NEW n \in Nat, NEW e \in Event, e.seq = n + 1,
         IsFiniteSet(P), \A x \in P : x.seq <= n
  PROVE  /\ e \notin P /\ IsFiniteSet(P \cup {e})
         /\ Cardinality(P) \in Nat /\ Cardinality(P \cup {e}) = Cardinality(P) + 1
         /\ \A x \in P \cup {e} : x.seq <= n + 1
<1>1. \A x \in P : x.seq \in Nat
  BY DEF Event
<1>2. e \notin P
  BY <1>1
<1> QED
  BY <1>1, <1>2, FS_AddElement, FS_CardinalityType

LEMMA AppendedGood ==
  ASSUME NEW s \in Seq(Event), NEW t \in Seq(Event), NEW P \in SUBSET Event, NEW d \in Nat,
         NEW n \in Nat, NEW e \in Event, e.seq = n + 1, Good(s, t, P, d, n), Appended(s, e)
  PROVE  Good(AfterPut(s, e), t, P \cup {e}, d + Drops(s, e), n + 1)
<1> DEFINE r == Append(s, e)
<1>1. /\ e \notin P /\ IsFiniteSet(P \cup {e})
      /\ Cardinality(P) \in Nat /\ Cardinality(P \cup {e}) = Cardinality(P) + 1
      /\ \A x \in P \cup {e} : x.seq <= n + 1
  BY Arrives DEF Good, Members
<1>2. AfterPut(s, e) = r /\ Drops(s, e) = 0
  BY DEF Appended
<1>3. /\ Len(s) \in Nat /\ Len(t) \in Nat /\ r \in Seq(Event) /\ Len(r) = Len(s) + 1
      /\ r[Len(s) + 1] = e /\ \A i \in 1..Len(s) : r[i] = s[i]
  OBVIOUS
<1>4. \A i \in 1..Len(s) : s[i] \in Event /\ s[i].seq \in Nat /\ s[i].seq <= n
  BY DEF Good, Members, Event
<1>5. \A i \in 1..Len(t) : t[i] \in Event /\ t[i].seq \in Nat /\ t[i].seq <= n
  BY DEF Good, Members, Event
<1>6. \A i \in 1..Len(r) : (i \in 1..Len(s) /\ r[i] = s[i]) \/ (i = Len(s) + 1 /\ r[i] = e)
  BY <1>3
<1> HIDE DEF r
<1>7. Members(r, t, P \cup {e}, n + 1)
  BY <1>1, <1>6 DEF Good, Members
<1>8. Ordered(r, t)
  <2>1. Increasing(r)
    <3> SUFFICES ASSUME NEW i \in 1..Len(r), NEW j \in 1..Len(r), i < j
                 PROVE  r[i].seq < r[j].seq
      BY DEF Increasing
    <3>0. i \in 1..Len(s) /\ r[i] = s[i]
      BY <1>3
    <3>1. CASE j = Len(s) + 1
      BY <1>3, <1>4, <3>0, <3>1
    <3>2. CASE j \in 1..Len(s)
      <4>1. s[i].seq < s[j].seq
        BY <3>0, <3>2 DEF Good, Ordered, Increasing
      <4> QED
        BY <1>3, <3>0, <3>2, <4>1
    <3>3. j = Len(s) + 1 \/ j \in 1..Len(s)
      BY <1>6
    <3> QED
      BY <3>1, <3>2, <3>3
  <2>2. ASSUME NEW i \in 1..Len(t), NEW j \in 1..Len(r) PROVE t[i].seq < r[j].seq
    <3>1. CASE j \in 1..Len(s) /\ r[j] = s[j]
      BY <3>1 DEF Good, Ordered
    <3>2. CASE r[j] = e
      <4>1. t[i].seq \in Nat /\ t[i].seq <= n
        BY <1>5
      <4> QED
        BY <3>2, <4>1
    <3> QED
      BY <1>6, <3>1, <3>2
  <2> QED
    BY <2>1, <2>2 DEF Good, Ordered
<1>9. Accounted(r, t, P \cup {e}, d + 0)
  BY <1>1, <1>3 DEF Good, Accounted
<1>10. Spared(r, t, P \cup {e})
  <2>1. (\E i \in 1..Len(r) : r[i] = e) /\ \A i \in 1..Len(s) : i \in 1..Len(r) /\ r[i] = s[i]
    BY <1>3
  <2> QED
    BY <2>1 DEF Good, Spared
<1>11. Yielding(r)
  <2>1. CASE Len(s) < QueueMax
    BY <1>3, <2>1 DEF Yielding
  <2>2. CASE Victim(s) = 0 /\ Kept(e)
    BY <1>6, <2>2, VictimIsDroppable DEF Yielding
  <2> QED
    BY <2>1, <2>2 DEF Appended
<1> QED
  BY <1>2, <1>7, <1>8, <1>9, <1>10, <1>11 DEF Good

LEMMA ExchangedGood ==
  ASSUME NEW s \in Seq(Event), NEW t \in Seq(Event), NEW P \in SUBSET Event, NEW d \in Nat,
         NEW n \in Nat, NEW e \in Event, e.seq = n + 1, Good(s, t, P, d, n), Exchanged(s, e)
  PROVE  Good(AfterPut(s, e), t, P \cup {e}, d + Drops(s, e), n + 1)
<1> DEFINE v == Victim(s)
           q == RemoveAt(s, v)
           r == Append(q, e)
<1>1. /\ e \notin P /\ IsFiniteSet(P \cup {e})
      /\ Cardinality(P) \in Nat /\ Cardinality(P \cup {e}) = Cardinality(P) + 1
      /\ \A x \in P \cup {e} : x.seq <= n + 1
  BY Arrives DEF Good, Members
<1>2. /\ AfterPut(s, e) = r /\ Drops(s, e) = 1
      /\ v \in 1..Len(s) /\ ~Kept(s[v]) /\ Len(s) \in Nat /\ Len(t) \in Nat
  BY DEF Exchanged
<1>3. /\ q \in Seq(Event) /\ Len(q) = Len(s) - 1
      /\ \A i \in 1..(Len(s) - 1) : q[i] = IF i < v THEN s[i] ELSE s[i + 1]
  BY <1>2, RemoveAtElements
<1> HIDE DEF v, q
<1>4. /\ r \in Seq(Event) /\ Len(r) = Len(s) /\ r[Len(s)] = e
      /\ \A i \in 1..(Len(s) - 1) : r[i] = q[i]
  BY <1>2, <1>3
<1> HIDE DEF r
<1>5. \A i \in 1..Len(s) : s[i] \in Event /\ s[i].seq \in Nat /\ s[i].seq <= n
  BY DEF Good, Members, Event
<1>6. \A i \in 1..Len(t) : t[i] \in Event /\ t[i].seq \in Nat /\ t[i].seq <= n
  BY DEF Good, Members, Event
<1>7. \A i \in 1..Len(r) : \/ i \in 1..Len(s) /\ i < v /\ r[i] = s[i]
                           \/ i + 1 \in 1..Len(s) /\ ~(i < v) /\ r[i] = s[i + 1]
                           \/ i = Len(s) /\ r[i] = e
  BY <1>2, <1>3, <1>4, SMTT(20)
<1>8. Members(r, t, P \cup {e}, n + 1)
  BY <1>1, <1>7 DEF Good, Members
<1>9. Ordered(r, t)
  <2>1. Increasing(r)
    <3> SUFFICES ASSUME NEW i \in 1..Len(r), NEW j \in 1..Len(r), i < j
                 PROVE  r[i].seq < r[j].seq
      BY DEF Increasing
    <3> DEFINE at(k) == IF k < v THEN k ELSE k + 1
    <3>0. /\ v \in Nat /\ i \in Nat /\ j \in Nat
          /\ at(i) \in 1..Len(s) /\ r[i] = s[at(i)] /\ at(i) < at(j)
      <4>1. v \in 1..Len(s) /\ Len(s) \in Nat /\ Len(r) = Len(s)
        BY <1>2, <1>4
      <4>2. v \in Nat /\ i \in Nat /\ j \in Nat /\ i \in 1..(Len(s) - 1)
        BY <4>1
      <4>3. at(i) \in 1..Len(s) /\ at(i) < at(j)
        BY <4>1, <4>2
      <4>4. r[i] = s[at(i)]
        BY <1>3, <1>4, <4>2
      <4> QED
        BY <4>2, <4>3, <4>4
    <3>1. CASE j = Len(s)
      <4>1. r[j] = e /\ s[at(i)].seq \in Nat /\ s[at(i)].seq <= n
        BY <1>4, <1>5, <3>0, <3>1
      <4> QED
        BY <3>0, <4>1
    <3>2. CASE j # Len(s)
      <4>0. j \in 1..(Len(s) - 1)
        BY <1>2, <1>4, <3>2
      <4>1. at(j) \in 1..Len(s) /\ r[j] = s[at(j)]
        BY <1>2, <1>3, <1>4, <3>0, <4>0, SMTT(20)
      <4>2. s[at(i)].seq < s[at(j)].seq
        BY <3>0, <4>1 DEF Good, Ordered, Increasing
      <4> QED
        BY <3>0, <4>1, <4>2
    <3> QED
      BY <3>1, <3>2
  <2>2. ASSUME NEW i \in 1..Len(t), NEW j \in 1..Len(r)
        PROVE  t[i].seq < r[j].seq
    <3>1. \A k \in 1..Len(s) : t[i].seq < s[k].seq
      BY DEF Good, Ordered
    <3>2. t[i].seq < e.seq
      BY <1>6
    <3> QED
      BY <1>7, <3>1, <3>2
  <2> QED
    BY <2>1, <2>2 DEF Good, Ordered
<1>10. Accounted(r, t, P \cup {e}, d + 1)
  BY <1>1, <1>2, <1>4 DEF Good, Accounted
<1>11. Spared(r, t, P \cup {e})
  <2>1. \A i \in 1..Len(s) : i # v => \E j \in 1..Len(r) : r[j] = s[i]
    <3> SUFFICES ASSUME NEW i \in 1..Len(s), i # v PROVE \E j \in 1..Len(r) : r[j] = s[i]
      OBVIOUS
    <3>1. CASE i < v
      <4>1. i \in 1..(Len(s) - 1) /\ i \in 1..Len(r)
        BY <1>2, <1>4, <3>1
      <4>2. r[i] = s[i]
        BY <1>3, <1>4, <3>1, <4>1
      <4> QED
        BY <4>1, <4>2
    <3>2. CASE i > v
      <4>1. i - 1 \in 1..(Len(s) - 1) /\ ~(i - 1 < v) /\ (i - 1) + 1 = i
        BY <1>2, <3>2
      <4>2. r[i - 1] = s[i] /\ i - 1 \in 1..Len(r)
        BY <1>3, <1>4, <4>1
      <4> QED
        BY <4>2
    <3> QED
      BY <1>2, <3>1, <3>2
  <2>2. \E j \in 1..Len(r) : r[j] = e
    BY <1>2, <1>4
  <2>3. \A x \in P : Kept(x) => x # s[v]
    BY <1>2
  <2> QED
    BY <2>1, <2>2, <2>3 DEF Good, Spared
<1>12. Yielding(r)
  <2>1. Len(s) <= QueueMax
    <3>1. Len(s) > QueueMax => Kept(s[v])
      BY <1>2 DEF Good, Yielding
    <3> QED
      BY <1>2, <3>1
  <2> QED
    BY <1>2, <1>4, <2>1 DEF Yielding
<1> QED
  BY <1>2, <1>8, <1>9, <1>10, <1>11, <1>12 DEF Good

LEMMA RefusedGood ==
  ASSUME NEW s \in Seq(Event), NEW t \in Seq(Event), NEW P \in SUBSET Event, NEW d \in Nat,
         NEW n \in Nat, NEW e \in Event, e.seq = n + 1, Good(s, t, P, d, n), Refused(s, e)
  PROVE  Good(AfterPut(s, e), t, P \cup {e}, d + Drops(s, e), n + 1)
<1>1. /\ e \notin P /\ IsFiniteSet(P \cup {e})
      /\ Cardinality(P) \in Nat /\ Cardinality(P \cup {e}) = Cardinality(P) + 1
      /\ \A x \in P \cup {e} : x.seq <= n + 1
  BY Arrives DEF Good, Members
<1>2. AfterPut(s, e) = s /\ Drops(s, e) = 1 /\ ~Kept(e) /\ Len(s) \in Nat /\ Len(t) \in Nat
  BY DEF Refused
<1>3. Members(s, t, P \cup {e}, n + 1)
  BY <1>1 DEF Good, Members
<1>4. Accounted(s, t, P \cup {e}, d + 1)
  BY <1>1, <1>2 DEF Good, Accounted
<1>5. Spared(s, t, P \cup {e})
  BY <1>2 DEF Good, Spared
<1> QED
  BY <1>2, <1>3, <1>4, <1>5 DEF Good

LEMMA PutGood ==
  ASSUME NEW s \in Seq(Event), NEW t \in Seq(Event), NEW P \in SUBSET Event, NEW d \in Nat,
         NEW n \in Nat, NEW e \in Event, e.seq = n + 1, Good(s, t, P, d, n)
  PROVE  Good(AfterPut(s, e), t, P \cup {e}, d + Drops(s, e), n + 1)
BY PutOutcome, AppendedGood, ExchangedGood, RefusedGood

(* A channel is as good when another gets an event. *)
LEMMA GoodLater ==
  ASSUME NEW s, NEW t, NEW P \in SUBSET Event, NEW d, NEW n \in Nat, Good(s, t, P, d, n)
  PROVE  Good(s, t, P, d, n + 1)
<1>1. \A x \in P : x.seq \in Nat
  BY DEF Event
<1> QED
  BY <1>1 DEF Good, Members

(* The consumer takes the head of the queue. *)
LEMMA TakeGood ==
  ASSUME NEW s \in Seq(Event), s # <<>>, NEW t \in Seq(Event), NEW P \in SUBSET Event,
         NEW d \in Nat, NEW n \in Nat, Good(s, t, P, d, n)
  PROVE  Good(Tail(s), Append(t, Head(s)), P, d, n)
<1> DEFINE r == Tail(s)
           u == Append(t, Head(s))
<1>1. /\ Head(s) \in Event /\ Head(s) = s[1] /\ Len(s) \in Nat \ {0} /\ Len(t) \in Nat
      /\ r \in Seq(Event) /\ Len(r) = Len(s) - 1 /\ \A i \in 1..(Len(s) - 1) : r[i] = s[i + 1]
  BY HeadTail
<1>2. /\ u \in Seq(Event) /\ Len(u) = Len(t) + 1 /\ u[Len(t) + 1] = s[1]
      /\ \A i \in 1..Len(t) : u[i] = t[i]
  BY <1>1
<1> HIDE DEF r, u
<1>3. \A i \in 1..Len(r) : i + 1 \in 1..Len(s) /\ r[i] = s[i + 1]
  BY <1>1
<1>4. \A i \in 1..Len(u) : (i \in 1..Len(t) /\ u[i] = t[i]) \/ (i = Len(t) + 1 /\ u[i] = s[1])
  BY <1>1, <1>2
<1>5. 1 \in 1..Len(s)
  BY <1>1
<1>6. Members(r, u, P, n)
  BY <1>3, <1>4, <1>5 DEF Good, Members
<1>7. Ordered(r, u)
  <2>0. /\ \A k, l \in 1..Len(s) : k < l => s[k].seq < s[l].seq
        /\ \A k, l \in 1..Len(t) : k < l => t[k].seq < t[l].seq
        /\ \A k \in 1..Len(t), l \in 1..Len(s) : t[k].seq < s[l].seq
    BY DEF Good, Ordered, Increasing
  <2>1. Increasing(r)
    <3> SUFFICES ASSUME NEW i \in 1..Len(r), NEW j \in 1..Len(r), i < j
                 PROVE  r[i].seq < r[j].seq
      BY DEF Increasing
    <3>1. i + 1 \in 1..Len(s) /\ j + 1 \in 1..Len(s) /\ i + 1 < j + 1
      BY <1>1, <1>3
    <3>2. s[i + 1].seq < s[j + 1].seq
      BY <2>0, <3>1
    <3> QED
      BY <1>3, <3>2
  <2>2. Increasing(u)
    <3> SUFFICES ASSUME NEW i \in 1..Len(u), NEW j \in 1..Len(u), i < j
                 PROVE  u[i].seq < u[j].seq
      BY DEF Increasing
    <3>1. i \in 1..Len(t) /\ u[i] = t[i]
      BY <1>1, <1>2
    <3> QED
      BY <1>4, <1>5, <2>0, <3>1
  <2>3. ASSUME NEW i \in 1..Len(u), NEW j \in 1..Len(r)
        PROVE  u[i].seq < r[j].seq
    <3>1. j + 1 \in 1..Len(s) /\ r[j] = s[j + 1] /\ 1 < j + 1
      BY <1>1, <1>3
    <3>2. s[1].seq < s[j + 1].seq
      BY <1>5, <2>0, <3>1
    <3> QED
      BY <1>4, <2>0, <3>1, <3>2
  <2> QED
    BY <2>1, <2>2, <2>3 DEF Ordered
<1>8. Accounted(r, u, P, d)
  BY <1>1, <1>2 DEF Good, Accounted
<1>9. Spared(r, u, P)
  <2>1. \A i \in 1..Len(s) : (\E j \in 1..Len(r) : r[j] = s[i]) \/ (\E j \in 1..Len(u) : u[j] = s[i])
    <3>0. Len(t) + 1 \in 1..Len(u) /\ u[Len(t) + 1] = s[1]
      BY <1>1, <1>2
    <3> SUFFICES ASSUME NEW i \in 1..Len(s), i # 1 PROVE \E j \in 1..Len(r) : r[j] = s[i]
      BY <3>0
    <3>1. i - 1 \in 1..(Len(s) - 1) /\ (i - 1) + 1 = i
      BY <1>1
    <3>2. r[i - 1] = s[i] /\ i - 1 \in 1..Len(r)
      BY <1>1, <3>1
    <3> QED
      BY <3>2
  <2>2. \A i \in 1..Len(t) : \E j \in 1..Len(u) : u[j] = t[i]
    BY <1>1, <1>2
  <2> QED
    BY <2>1, <2>2, ZenonT(30) DEF Good, Spared
<1>10. Yielding(r)
  BY <1>1, <1>3, SMTT(20) DEF Good, Yielding
<1> QED
  BY <1>6, <1>7, <1>8, <1>9, <1>10 DEF Good, r, u

-------------------------------------------------------------------------------
(* Every channel is good.                                                   *)
ChannelInv == \A c \in Channels : Good(items[c], taken[c], put[c], dropped[c], published)

LEMMA ChannelPut ==
  ASSUME TypeInv, ChannelInv, NEW kind \in Kinds, Publish(kind)
  PROVE  ChannelInv'
<1> DEFINE e == Arriving(kind)
<1>1. PICK c \in Channels : PutIn(c, e)
  BY PublishPuts
<1>2. e \in Event /\ e.seq = published + 1 /\ published' = published + 1 /\ taken' = taken
  BY PublishPuts DEF Arriving
<1> HIDE DEF e
<1> SUFFICES ASSUME NEW b \in Channels
             PROVE  Good(items'[b], taken'[b], put'[b], dropped'[b], published')
  BY DEF ChannelInv
<1>3. /\ items[b] \in Seq(Event) /\ taken[b] \in Seq(Event) /\ put[b] \in SUBSET Event
      /\ dropped[b] \in Nat /\ published \in Nat
      /\ Good(items[b], taken[b], put[b], dropped[b], published)
  BY DEF TypeInv, TypeOK, ChannelInv
<1>4. CASE b = c
  <2>1. /\ items'[b] = AfterPut(items[b], e) /\ put'[b] = put[b] \cup {e}
        /\ dropped'[b] = dropped[b] + Drops(items[b], e)
    BY <1>1, <1>4 DEF PutIn, TypeInv, TypeOK
  <2>2. Good(AfterPut(items[b], e), taken[b], put[b] \cup {e},
             dropped[b] + Drops(items[b], e), published + 1)
    BY <1>2, <1>3, PutGood
  <2> QED
    BY <1>2, <2>1, <2>2
<1>5. CASE b # c
  <2>1. items'[b] = items[b] /\ put'[b] = put[b] /\ dropped'[b] = dropped[b]
    BY <1>1, <1>5 DEF PutIn, TypeInv, TypeOK
  <2>2. Good(items[b], taken[b], put[b], dropped[b], published + 1)
    BY <1>3, GoodLater
  <2> QED
    BY <1>2, <2>1, <2>2
<1> QED
  BY <1>4, <1>5

LEMMA ChannelTake ==
  ASSUME TypeInv, ChannelInv, NEW c \in Channels, Take(c)
  PROVE  ChannelInv'
<1> SUFFICES ASSUME NEW b \in Channels
             PROVE  Good(items'[b], taken'[b], put'[b], dropped'[b], published')
  BY DEF ChannelInv
<1>1. /\ items[b] \in Seq(Event) /\ taken[b] \in Seq(Event) /\ put[b] \in SUBSET Event
      /\ dropped[b] \in Nat /\ published \in Nat
      /\ Good(items[b], taken[b], put[b], dropped[b], published)
  BY DEF TypeInv, TypeOK, ChannelInv
<1>2. put'[b] = put[b] /\ dropped'[b] = dropped[b] /\ published' = published
  BY DEF Take
<1>3. CASE b = c
  <2>1. /\ items[b] # <<>> /\ items'[b] = Tail(items[b])
        /\ taken'[b] = Append(taken[b], Head(items[b]))
    BY <1>3 DEF Take, TypeInv, TypeOK
  <2> QED
    BY <1>1, <1>2, <2>1, TakeGood
<1>4. CASE b # c
  <2>1. items'[b] = items[b] /\ taken'[b] = taken[b]
    BY <1>4 DEF Take, TypeInv, TypeOK
  <2> QED
    BY <1>1, <1>2, <2>1
<1> QED
  BY <1>3, <1>4

LEMMA ChannelInvariant == Spec => []ChannelInv
<1>1. Init => ChannelInv
  <2>1. Good(<<>>, <<>>, {}, 0, 0)
    BY FS_EmptySet DEF Good, Members, Ordered, Increasing, Accounted, Spared, Yielding
  <2> QED
    BY <2>1 DEF Init, ChannelInv
<1>2. ASSUME TypeInv, ChannelInv, [Next]_vars PROVE ChannelInv'
  <2>1. CASE \E kind \in Kinds : Publish(kind)
    BY <1>2, <2>1, ChannelPut
  <2>2. CASE \E c \in Channels : Take(c)
    BY <1>2, <2>2, ChannelTake
  <2>3. CASE UNCHANGED <<items, taken, put, dropped, published>>
    BY <1>2, <2>3 DEF ChannelInv
  <2>4. (\E c \in Channels : Hand(c) \/ Finish(c)) => UNCHANGED <<items, taken, put, dropped, published>>
    BY DEF Hand, Finish
  <2>5. (\E k \in Closers : CloserStep(k)) => UNCHANGED <<items, taken, put, dropped, published>>
    BY DEF CloserStep, CloseSession, CloseAtOnce, CloseRaises, CloseReturns, CloseCancelled,
           channelVars
  <2> QED
    BY <1>2, <2>1, <2>2, <2>3, <2>4, <2>5 DEF Next, Consume, CloserStep, vars, channelVars
<1> QED
  BY <1>1, <1>2, TypeInvariant, PTL DEF Spec

(* Backpressure never costs a scoring event, for any size of the channel.   *)
THEOREM KeptSafe == Spec => []KeptNeverDropped
<1>1. TypeInv /\ ChannelInv => KeptNeverDropped
  <2> SUFFICES ASSUME TypeInv, ChannelInv, NEW c \in Channels, NEW e \in put[c], Kept(e)
               PROVE  e \in ToSet(items[c]) \cup ToSet(taken[c])
    BY DEF KeptNeverDropped
  <2>1. items[c] \in Seq(Event) /\ taken[c] \in Seq(Event)
    BY DEF TypeInv, TypeOK
  <2>2. (\E i \in 1..Len(items[c]) : items[c][i] = e) \/ (\E i \in 1..Len(taken[c]) : taken[c][i] = e)
    BY DEF ChannelInv, Good, Spared
  <2> QED
    BY <2>1, <2>2 DEF ToSet
<1> QED
  BY <1>1, TypeInvariant, ChannelInvariant, PTL

(* A channel is over its bound only with scoring events.                    *)
THEOREM OverflowKept == Spec => []OverflowOnlyKept
<1>1. TypeInv /\ ChannelInv => OverflowOnlyKept
  <2> SUFFICES ASSUME TypeInv, ChannelInv, NEW c \in Channels, Len(items[c]) > QueueMax,
                      NEW e \in ToSet(items[c])
               PROVE  Kept(e)
    BY DEF OverflowOnlyKept
  <2>1. items[c] \in Seq(Event)
    BY DEF TypeInv, TypeOK
  <2>2. PICK i \in 1..Len(items[c]) : e = items[c][i]
    BY <2>1 DEF ToSet
  <2> QED
    BY <2>2 DEF ChannelInv, Good, Yielding
<1> QED
  BY <1>1, TypeInvariant, ChannelInvariant, PTL

(* The drop counter misses nothing that was put and neither waits nor was   *)
(* taken.                                                                   *)
THEOREM DropsAddUp == Spec => []DropsCounted
<1>1. ChannelInv => DropsCounted
  BY DEF ChannelInv, Good, Accounted, DropsCounted
<1> QED
  BY <1>1, ChannelInvariant, PTL

-------------------------------------------------------------------------------
(* As long as the session has handlers nothing was popped, so there is no   *)
(* channel but the current one, which is the first.  Hence only the first   *)
(* channel ever has an event in its hand.                                   *)
Subscribed ==
  subscribers # <<>> => /\ current \in {0, 1}
                        /\ \A c \in Channels : c # current => consumer[c] = "none"

OneHand == \A c \in Channels : consumer[c] = "handling" => c = 1

(* The event in its hand is later than what the handlers still to be called *)
(* were called with before.                                                 *)
InHand ==
  consumer[1] = "handling" =>
    /\ \E i \in 1..Len(taken[1]) : hand[1][1] = taken[1][i]
    /\ \A i, j \in 1..Len(todo[1]) : todo[1][i] = todo[1][j] => i = j
    /\ \A i \in 1..Len(todo[1]) : \A n \in 1..Len(handed[todo[1][i]]) :
         handed[todo[1][i]][n].seq < hand[1][1].seq

HandedTaken ==
  \A h \in ToSet(Handlers) : \A n \in 1..Len(handed[h]) :
    \E i \in 1..Len(taken[1]) : handed[h][n] = taken[1][i]

HandedOrdered == \A h \in ToSet(Handlers) : Increasing(handed[h])

HandInv == Subscribed /\ OneHand /\ InHand /\ HandedTaken /\ HandedOrdered

LEMMA FirstChannel == 1 \in Channels
BY DEF Channels

LEMMA HandPublish ==
  ASSUME TypeInv, HandInv, NEW kind \in Kinds, Publish(kind)
  PROVE  HandInv'
<1>1. PICK c \in Channels :
        /\ current' = c
        /\ \/ current = c /\ consumer' = consumer
           \/ current = 0 /\ Fresh(c) /\ consumer' = [consumer EXCEPT ![c] = "getting"]
  BY PublishPuts
<1>2. UNCHANGED <<subscribers, hand, todo, taken, handed>>
  BY PublishPuts
<1>3. \A b \in Channels : consumer'[b] = "handling" => consumer[b] = "handling"
  BY <1>1 DEF TypeInv, TypeOK
<1>4. Subscribed'
  <2> SUFFICES ASSUME subscribers # <<>>
               PROVE  /\ current' \in {0, 1}
                      /\ \A b \in Channels : b # current' => consumer'[b] = "none"
    BY <1>2 DEF Subscribed
  <2>1. CASE current = c /\ consumer' = consumer
    BY <1>1, <2>1 DEF HandInv, Subscribed
  <2>2. CASE current = 0 /\ Fresh(c) /\ consumer' = [consumer EXCEPT ![c] = "getting"]
    <3>1. \A b \in Channels : consumer[b] = "none"
      BY <2>2 DEF HandInv, Subscribed, Channels
    <3>2. c = 1
      <4>1. c # 1 => 1 \in 1..(c - 1)
        BY DEF Channels
      <4> QED
        BY <2>2, <3>1, <4>1, FirstChannel DEF Fresh
    <3> QED
      BY <1>1, <2>2, <3>1, <3>2 DEF TypeInv, TypeOK
  <2> QED
    BY <1>1, <2>1, <2>2
<1>5. OneHand' /\ InHand' /\ HandedTaken' /\ HandedOrdered'
  <2>1. OneHand'
    BY <1>3 DEF HandInv, OneHand
  <2>2. consumer'[1] = "handling" => consumer[1] = "handling"
    BY <1>3, FirstChannel
  <2>3. InHand'
    BY <1>2, <2>2 DEF HandInv, InHand
  <2>4. HandedTaken'
    <3>1. taken' = taken /\ handed' = handed
      BY <1>2
    <3>2. HandedTaken
      BY DEF HandInv
    <3> QED
      BY <3>1, <3>2 DEF HandedTaken
  <2>5. HandedOrdered'
    BY <1>2 DEF HandInv, HandedOrdered, Increasing
  <2> QED
    BY <2>1, <2>3, <2>4, <2>5
<1> QED
  BY <1>4, <1>5 DEF HandInv

(* A channel that is not the first is taken from when no handler is left.   *)
LEMMA HandTake ==
  ASSUME TypeInv, ChannelInv, HandInv, NEW c \in Channels, Take(c)
  PROVE  HandInv'
<1>1. /\ items[c] \in Seq(Event) /\ items[c] # <<>> /\ taken[c] \in Seq(Event)
      /\ taken' = [taken EXCEPT ![c] = Append(@, Head(items[c]))]
      /\ consumer[c] = "getting" /\ UNCHANGED <<current, subscribers, handed>>
      /\ taken \in [Channels -> Seq(Event)]
  BY DEF TypeInv, TypeOK, Take
<1>2. Head(items[c]) \in Event /\ Head(items[c]) = items[c][1] /\ 1 \in 1..Len(items[c])
  <2>1. Len(items[c]) \in Nat \ {0}
    BY <1>1, HeadTail
  <2> QED
    BY <1>1, <2>1, HeadTail
<1>3. \A i \in 1..Len(taken[1]) : i \in 1..Len(taken'[1]) /\ taken'[1][i] = taken[1][i]
  <2>1. CASE c = 1
    BY <1>1, <1>2, <2>1
  <2>2. CASE c # 1
    BY <1>1, <2>2, FirstChannel
  <2> QED
    BY <2>1, <2>2
<1>4. HandedTaken' /\ HandedOrdered'
  BY <1>1, <1>3, SMTT(20) DEF HandInv, HandedTaken, HandedOrdered
<1>5. CASE subscribers = <<>>
  <2>1. UNCHANGED <<hand, todo, consumer>>
    BY <1>5 DEF Take
  <2>2. Subscribed' /\ OneHand'
    BY <1>1, <1>5, <2>1 DEF HandInv, Subscribed, OneHand
  <2>3. InHand'
    BY <1>1, <1>3, <2>1 DEF HandInv, InHand
  <2> QED
    BY <1>4, <2>2, <2>3 DEF HandInv
<1>6. CASE subscribers # <<>>
  <2>1. c = 1 /\ current = 1
    <3>1. consumer[c] # "none"
      BY <1>1
    <3>2. current \in {0, 1} /\ c = current
      BY <1>6, <3>1 DEF HandInv, Subscribed
    <3>3. c # 0
      BY DEF Channels
    <3> QED
      BY <3>2, <3>3
  <2>2. /\ hand' = [hand EXCEPT ![c] = <<Head(items[c])>>]
        /\ todo' = [todo EXCEPT ![c] = subscribers]
        /\ consumer' = [consumer EXCEPT ![c] = "handling"]
    BY <1>6 DEF Take
  <2>3. /\ hand'[1] = <<Head(items[1])>> /\ todo'[1] = Handlers
    BY <1>6, <2>1, <2>2 DEF TypeInv, TypeOK
  <2>4. Subscribed' /\ OneHand'
    BY <1>1, <1>6, <2>1, <2>2 DEF TypeInv, TypeOK, HandInv, Subscribed, OneHand
  <2>5. hand'[1][1] = Head(items[1])
    BY <2>3
  <2>6. \E i \in 1..Len(taken'[1]) : hand'[1][1] = taken'[1][i]
    <3>1. taken'[1] = Append(taken[1], Head(items[1]))
      BY <1>1, <2>1
    <3>2. /\ Len(taken[1]) + 1 \in 1..Len(taken'[1])
          /\ taken'[1][Len(taken[1]) + 1] = Head(items[1])
      BY <1>1, <1>2, <2>1, <3>1
    <3> QED
      BY <2>5, <3>2
  <2>7. \A i, j \in 1..Len(todo'[1]) : todo'[1][i] = todo'[1][j] => i = j
    <3>1. DOMAIN Handlers = 1..Len(Handlers)
      OBVIOUS
    <3> QED
      BY <2>3, <3>1 DEF IsInjective
  <2>8. ASSUME NEW i \in 1..Len(todo'[1]), NEW n \in 1..Len(handed'[todo'[1][i]])
        PROVE  handed'[todo'[1][i]][n].seq < hand'[1][1].seq
    <3>1. todo'[1][i] \in ToSet(Handlers)
      BY <2>3 DEF ToSet
    <3>2. PICK l \in 1..Len(taken[1]) : handed[todo'[1][i]][n] = taken[1][l]
      BY <1>1, <2>8, <3>1 DEF HandInv, HandedTaken
    <3>3. taken[1][l].seq < items[1][1].seq
      BY <1>2, <2>1, FirstChannel DEF ChannelInv, Good, Ordered
    <3> QED
      BY <1>1, <1>2, <2>1, <2>5, <3>2, <3>3
  <2>9. InHand'
    BY <2>6, <2>7, <2>8 DEF InHand
  <2> QED
    BY <1>4, <2>4, <2>9 DEF HandInv
<1> QED
  BY <1>5, <1>6

LEMMA HandHand ==
  ASSUME TypeInv, ChannelInv, HandInv, NEW c \in Channels, Hand(c)
  PROVE  HandInv'
<1> DEFINE h == todo[1][1]
           e == hand[1][1]
<1>1. c = 1 /\ consumer[1] = "handling"
  BY DEF HandInv, OneHand, Hand
<1>2. /\ todo[1] \in Seq(ToSet(Handlers)) /\ todo[1] # <<>>
      /\ hand[1] \in Seq(Event) /\ hand[1] # <<>>
  <2>1. todo[1] \in Seq(ToSet(Handlers)) /\ hand[1] \in Seq(Event)
    BY FirstChannel DEF TypeInv, TypeOK
  <2>2. todo[1] # <<>> /\ Len(hand[1]) = 1
    BY <1>1, FirstChannel DEF TypeInv, HandlingOK
  <2>3. hand[1] # <<>>
    <3>1. Len(<<>>) = 0
      OBVIOUS
    <3>2. hand[1] = <<>> => Len(hand[1]) = 0
      BY <3>1, Zenon
    <3> QED
      BY <2>2, <3>2
  <2> QED
    BY <2>1, <2>2, <2>3
<1>3. Head(todo[1]) = h /\ h \in ToSet(Handlers) /\ Head(hand[1]) = e /\ e \in Event
  BY <1>2, HeadTail
<1>4. handed[h] \in Seq(Event)
  BY <1>3 DEF TypeInv, TypeOK
<1> HIDE DEF h, e
<1>5. /\ handed' = [handed EXCEPT ![h] = Append(handed[h], e)]
      /\ UNCHANGED <<current, subscribers, taken>>
      /\ todo' = [todo EXCEPT ![1] = Tail(todo[1])]
  BY <1>1, <1>3 DEF Hand
<1>6. /\ handed'[h] = Append(handed[h], e)
      /\ \A g \in ToSet(Handlers) : g # h => handed'[g] = handed[g]
  BY <1>3, <1>5 DEF TypeInv, TypeOK
<1>7. 1 \in 1..Len(todo[1]) /\ Len(todo[1]) \in Nat \ {0}
  BY <1>2, HeadTail
<1>8. \A n \in 1..Len(handed[h]) : handed[h][n].seq < e.seq
  BY <1>1, <1>7 DEF HandInv, InHand, h, e
<1>9. PICK l \in 1..Len(taken[1]) : e = taken[1][l]
  BY <1>1 DEF HandInv, InHand, e
<1>10. /\ Len(handed[h]) \in Nat /\ Len(handed'[h]) = Len(handed[h]) + 1
       /\ handed'[h][Len(handed[h]) + 1] = e
       /\ \A n \in 1..Len(handed[h]) : handed'[h][n] = handed[h][n]
  BY <1>3, <1>4, <1>6
<1>11. \A n \in 1..Len(handed'[h]) : \/ n \in 1..Len(handed[h]) /\ handed'[h][n] = handed[h][n]
                                     \/ n = Len(handed[h]) + 1 /\ handed'[h][n] = e
  BY <1>10
<1>12. HandedTaken'
  <2> SUFFICES ASSUME NEW g \in ToSet(Handlers), NEW n \in 1..Len(handed'[g])
               PROVE  \E i \in 1..Len(taken[1]) : handed'[g][n] = taken[1][i]
    BY <1>5 DEF HandedTaken
  <2>1. CASE g = h
    BY <1>9, <1>11, <2>1, SMTT(20) DEF HandInv, HandedTaken
  <2>2. CASE g # h
    BY <1>6, <2>2 DEF HandInv, HandedTaken
  <2> QED
    BY <2>1, <2>2
<1>13. HandedOrdered'
  <2> SUFFICES ASSUME NEW g \in ToSet(Handlers) PROVE Increasing(handed'[g])
    BY DEF HandedOrdered
  <2>1. CASE g # h
    BY <1>6, <2>1 DEF HandInv, HandedOrdered
  <2>2. CASE g = h
    <3> SUFFICES ASSUME NEW i \in 1..Len(handed'[h]), NEW j \in 1..Len(handed'[h]), i < j
                 PROVE  handed'[h][i].seq < handed'[h][j].seq
      BY <2>2 DEF Increasing
    <3>1. i \in 1..Len(handed[h]) /\ handed'[h][i] = handed[h][i]
      BY <1>10
    <3>2. j \in 1..Len(handed[h]) => handed[h][i].seq < handed[h][j].seq
      BY <1>3, <3>1 DEF HandInv, HandedOrdered, Increasing
    <3> QED
      BY <1>8, <1>11, <3>1, <3>2
  <2> QED
    BY <2>1, <2>2
<1>14. \/ Len(todo[1]) > 1 /\ UNCHANGED <<hand, consumer>>
       \/ /\ Len(todo[1]) = 1
          /\ hand' = [hand EXCEPT ![1] = <<>>]
          /\ consumer' = [consumer EXCEPT ![1] = "getting"]
  BY <1>1 DEF Hand
<1>15. Subscribed' /\ OneHand'
  BY <1>1, <1>5, <1>14, FirstChannel DEF TypeInv, TypeOK, HandInv, Subscribed, OneHand
<1>16. InHand'
  <2>1. CASE Len(todo[1]) = 1
    <3>1. consumer' = [consumer EXCEPT ![1] = "getting"]
      BY <1>14, <2>1
    <3> QED
      BY <3>1, FirstChannel DEF InHand, TypeInv, TypeOK
  <2>2. CASE Len(todo[1]) > 1 /\ UNCHANGED <<hand, consumer>>
    <3>1. /\ todo'[1] = Tail(todo[1])
      BY <1>5, FirstChannel DEF TypeInv, TypeOK
    <3>2. \A i \in 1..Len(todo'[1]) : i + 1 \in 1..Len(todo[1]) /\ todo'[1][i] = todo[1][i + 1]
      <4>1. /\ Len(Tail(todo[1])) = Len(todo[1]) - 1
            /\ \A i \in 1..(Len(todo[1]) - 1) : Tail(todo[1])[i] = todo[1][i + 1]
        BY <1>2, HeadTail
      <4> QED
        BY <1>7, <3>1, <4>1
    <3>3. \A i, j \in 1..Len(todo[1]) : todo[1][i] = todo[1][j] => i = j
      BY <1>1 DEF HandInv, InHand
    <3>4. \A i, j \in 1..Len(todo'[1]) : todo'[1][i] = todo'[1][j] => i = j
      BY <3>2, <3>3
    <3>5. \A i \in 1..Len(todo'[1]) : todo'[1][i] # h /\ todo'[1][i] \in ToSet(Handlers)
      <4> SUFFICES ASSUME NEW i \in 1..Len(todo'[1])
                   PROVE  todo'[1][i] # h /\ todo'[1][i] \in ToSet(Handlers)
        OBVIOUS
      <4>1. i + 1 \in 1..Len(todo[1]) /\ todo'[1][i] = todo[1][i + 1] /\ i + 1 # 1
        BY <3>2
      <4>2. todo[1][i + 1] # todo[1][1]
        BY <1>7, <3>3, <4>1
      <4> QED
        BY <1>2, <4>1, <4>2 DEF h
    <3>6. ASSUME NEW i \in 1..Len(todo'[1]), NEW n \in 1..Len(handed'[todo'[1][i]])
          PROVE  handed'[todo'[1][i]][n].seq < hand'[1][1].seq
      <4>1. handed'[todo'[1][i]] = handed[todo[1][i + 1]] /\ i + 1 \in 1..Len(todo[1])
        BY <1>6, <3>2, <3>5
      <4>2. handed[todo[1][i + 1]][n].seq < hand[1][1].seq
        BY <1>1, <3>6, <4>1 DEF HandInv, InHand
      <4> QED
        BY <2>2, <4>1, <4>2
    <3>7. \E i \in 1..Len(taken'[1]) : hand'[1][1] = taken'[1][i]
      BY <1>5, <1>9, <2>2 DEF e
    <3> QED
      BY <3>4, <3>6, <3>7 DEF InHand
  <2> QED
    BY <1>14, <2>1, <2>2
<1> QED
  BY <1>12, <1>13, <1>15, <1>16 DEF HandInv

LEMMA HandRest ==
  ASSUME TypeInv, HandInv,
         (\E c \in Channels : Finish(c)) \/ (\E k \in Closers : CloserStep(k))
  PROVE  HandInv'
<1>1. UNCHANGED <<taken, handed>>
  BY DEF Finish, CloserStep, CloseSession, CloseAtOnce, CloseRaises, CloseReturns,
         CloseCancelled, channelVars
<1>2. HandedTaken' /\ HandedOrdered'
  BY <1>1 DEF HandInv, HandedTaken, HandedOrdered
<1>3. CASE \E c \in Channels : Finish(c)
  <2>1. PICK c \in Channels : Finish(c)
    BY <1>3
  <2>2. /\ consumer[c] = "getting" /\ consumer' = [consumer EXCEPT ![c] = "done"]
        /\ UNCHANGED <<current, subscribers, hand, todo>>
    BY <2>1 DEF Finish
  <2>3. Subscribed' /\ OneHand'
    BY <2>2 DEF TypeInv, TypeOK, HandInv, Subscribed, OneHand
  <2>4. InHand'
    BY <1>1, <2>2, FirstChannel DEF TypeInv, TypeOK, HandInv, InHand
  <2> QED
    BY <1>2, <2>3, <2>4 DEF HandInv
<1>4. CASE \E k \in Closers : CloserStep(k)
  <2>1. PICK k \in Closers : CloserStep(k)
    BY <1>4
  <2>2. CASE CloseCancelled(k)
    <3> DEFINE c == closer[k].on
    <3>1. /\ c \in Channels /\ consumer[c] \in {"getting", "handling"}
          /\ consumer' = [consumer EXCEPT ![c] = "cancelled"]
          /\ hand' = [hand EXCEPT ![c] = <<>>] /\ todo' = [todo EXCEPT ![c] = <<>>]
          /\ UNCHANGED <<current, subscribers>>
      BY <2>2 DEF CloseCancelled, TypeInv, AwaitingOK
    <3> HIDE DEF c
    <3>2. Subscribed' /\ OneHand'
      BY <3>1 DEF TypeInv, TypeOK, HandInv, Subscribed, OneHand
    <3>3. InHand'
      <4>1. CASE c = 1
        BY <3>1, <4>1 DEF TypeInv, TypeOK, InHand
      <4>2. CASE c # 1
        <5>1. consumer'[1] = consumer[1] /\ hand'[1] = hand[1] /\ todo'[1] = todo[1]
          BY <3>1, <4>2, FirstChannel DEF TypeInv, TypeOK
        <5> QED
          BY <1>1, <5>1 DEF HandInv, InHand
      <4> QED
        BY <4>1, <4>2
    <3> QED
      BY <1>2, <3>2, <3>3 DEF HandInv
  <2>3. CASE ~CloseCancelled(k)
    <3>1. /\ UNCHANGED <<hand, todo, consumer>>
          /\ UNCHANGED <<current, subscribers>> \/ subscribers' = <<>>
      BY <2>1, <2>3 DEF CloserStep, CloseSession, CloseAtOnce, CloseRaises, CloseReturns,
                        PopSession, channelVars
    <3>2. Subscribed' /\ OneHand' /\ InHand'
      BY <1>1, <3>1 DEF HandInv, Subscribed, OneHand, InHand
    <3> QED
      BY <1>2, <3>2 DEF HandInv
  <2> QED
    BY <2>2, <2>3
<1> QED
  BY <1>3, <1>4

LEMMA HandInvariant == Spec => []HandInv
<1>1. Init => HandInv
  BY FirstChannel DEF Init, HandInv, Subscribed, OneHand, InHand, HandedTaken, HandedOrdered, Increasing
<1>2. ASSUME TypeInv, ChannelInv, HandInv, [Next]_vars PROVE HandInv'
  <2>1. CASE \E kind \in Kinds : Publish(kind)
    BY <1>2, <2>1, HandPublish
  <2>2. CASE \E c \in Channels : Take(c)
    BY <1>2, <2>2, HandTake
  <2>3. CASE \E c \in Channels : Hand(c)
    BY <1>2, <2>3, HandHand
  <2>4. CASE (\E c \in Channels : Finish(c)) \/ (\E k \in Closers : CloserStep(k))
    BY <1>2, <2>4, HandRest
  <2>5. CASE UNCHANGED vars
    BY <1>2, <2>5 DEF vars, channelVars, HandInv, Subscribed, OneHand, InHand, HandedTaken,
                      HandedOrdered
  <2> QED
    BY <1>2, <2>1, <2>2, <2>3, <2>4, <2>5 DEF Next, Consume, CloserStep
<1> QED
  BY <1>1, <1>2, TypeInvariant, ChannelInvariant, PTL DEF Spec

(* Every handler is called with events in seq order and with none twice,    *)
(* for any evictions, closes and channels.                                  *)
THEOREM HandedOrder == Spec => []HandedInOrder
<1>1. TypeInv /\ ChannelInv /\ HandInv => HandedInOrder
  <2> SUFFICES ASSUME TypeInv, ChannelInv, HandInv, NEW c \in Channels
               PROVE  Increasing(taken[c] \o items[c])
    BY DEF HandedInOrder, HandInv, HandedOrdered
  <2> DEFINE t == taken[c]
             s == items[c]
  <2>1. t \in Seq(Event) /\ s \in Seq(Event)
    BY DEF TypeInv, TypeOK
  <2>2. /\ \A i, j \in 1..Len(t) : i < j => t[i].seq < t[j].seq
        /\ \A i, j \in 1..Len(s) : i < j => s[i].seq < s[j].seq
        /\ \A i \in 1..Len(t), j \in 1..Len(s) : t[i].seq < s[j].seq
    BY DEF ChannelInv, Good, Ordered, Increasing
  <2> HIDE DEF t, s
  <2>3. /\ Len(t) \in Nat /\ Len(s) \in Nat /\ Len(t \o s) = Len(t) + Len(s)
        /\ \A i \in 1..Len(t) : (t \o s)[i] = t[i]
        /\ \A i \in (Len(t) + 1)..(Len(t) + Len(s)) :
             i - Len(t) \in 1..Len(s) /\ (t \o s)[i] = s[i - Len(t)]
    BY <2>1
  <2>4. ASSUME NEW i \in 1..Len(t \o s), NEW j \in 1..Len(t \o s), i < j
        PROVE  (t \o s)[i].seq < (t \o s)[j].seq
    <3>1. CASE j <= Len(t)
      BY <2>2, <2>3, <2>4, <3>1
    <3>2. CASE i <= Len(t) /\ j > Len(t)
      BY <2>2, <2>3, <2>4, <3>2
    <3>3. CASE i > Len(t)
      <4>1. /\ i - Len(t) \in 1..Len(s) /\ j - Len(t) \in 1..Len(s) /\ i - Len(t) < j - Len(t)
            /\ (t \o s)[i] = s[i - Len(t)] /\ (t \o s)[j] = s[j - Len(t)]
        BY <2>3, <2>4, <3>3
      <4> QED
        BY <2>2, <4>1
    <3> QED
      BY <2>3, <3>1, <3>2, <3>3
  <2> QED
    BY <2>4 DEF Increasing, t, s
<1> QED
  BY <1>1, TypeInvariant, ChannelInvariant, HandInvariant, PTL

-------------------------------------------------------------------------------
(* Which events a full channel gives up.                                    *)

(* With a snapshot queued, put keeps the arriving event and every paste.    *)
LEMMA PutSparesPastes ==
  ASSUME NEW s \in Seq(Event), NEW e \in Event, FirstOf(s, "snapshot") # 0
  PROVE  /\ e \in ToSet(AfterPut(s, e))
         /\ \A i \in 1..Len(s) : s[i].kind = "paste" => s[i] \in ToSet(AfterPut(s, e))
<1> DEFINE v == FirstOf(s, "snapshot")
           r == AfterPut(s, e)
<1>0. Len(s) \in Nat /\ v \in 1..Len(s) /\ s[v].kind = "snapshot"
  BY FirstOfIndex
<1>1. Victim(s) = v
  BY DEF Victim
<1> HIDE DEF v
<1>2. CASE Len(s) < QueueMax
  <2>1. r = Append(s, e)
    BY <1>0, <1>2 DEF AfterPut
  <2> HIDE DEF r
  <2>2. /\ DOMAIN r = 1..(Len(s) + 1) /\ r[Len(s) + 1] = e
        /\ \A i \in 1..Len(s) : r[i] = s[i]
    BY <1>0, <2>1
  <2>3. e \in ToSet(r)
    BY <1>0, <2>2 DEF ToSet
  <2>4. ASSUME NEW i \in 1..Len(s) PROVE s[i] \in ToSet(r)
    <3>1. i \in DOMAIN r /\ r[i] = s[i]
      BY <1>0, <2>2
    <3> QED
      BY <3>1 DEF ToSet
  <2> QED
    BY <2>3, <2>4 DEF r
<1>3. CASE ~(Len(s) < QueueMax)
  <2> DEFINE q == RemoveAt(s, v)
  <2>1. r = Append(q, e)
    BY <1>0, <1>1, <1>3 DEF AfterPut
  <2>2. /\ q \in Seq(Event) /\ Len(q) = Len(s) - 1
        /\ \A i \in 1..(Len(s) - 1) : q[i] = IF i < v THEN s[i] ELSE s[i + 1]
    BY <1>0, RemoveAtElements
  <2> HIDE DEF r, q
  <2>3. /\ DOMAIN r = 1..Len(s) /\ r[Len(s)] = e
        /\ \A i \in 1..(Len(s) - 1) : r[i] = q[i]
    BY <1>0, <2>1, <2>2
  <2>4. ASSUME NEW i \in 1..Len(s), s[i].kind = "paste"
        PROVE  \E j \in DOMAIN r : r[j] = s[i]
    <3>1. i # v
      BY <1>0, <2>4
    <3>2. CASE i < v
      <4>1. i \in 1..(Len(s) - 1) /\ r[i] = s[i]
        BY <1>0, <2>2, <2>3, <3>2
      <4> QED
        BY <2>3, <4>1
    <3>3. CASE i > v
      <4>1. i - 1 \in 1..(Len(s) - 1) /\ ~(i - 1 < v) /\ (i - 1) + 1 = i
        BY <1>0, <3>3
      <4>2. r[i - 1] = s[i]
        BY <2>2, <2>3, <4>1
      <4> QED
        BY <2>3, <4>1, <4>2
    <3> QED
      BY <1>0, <3>1, <3>2, <3>3
  <2>5. e \in ToSet(r)
    BY <1>0, <2>3 DEF ToSet
  <2>6. \A i \in 1..Len(s) : s[i].kind = "paste" => s[i] \in ToSet(r)
    BY <2>4 DEF ToSet
  <2> QED
    BY <2>5, <2>6 DEF r
<1> QED
  BY <1>2, <1>3

(* Taking an event moves it from the queue to the events taken.             *)
LEMMA TakeLosesNothing ==
  ASSUME TypeInv, NEW c \in Channels, Take(c), NEW b \in Channels
  PROVE  /\ put'[b] = put[b]
         /\ ToSet(items[b]) \cup ToSet(taken[b]) \subseteq ToSet(items'[b]) \cup ToSet(taken'[b])
<1>1. /\ items[c] \in Seq(Event) /\ items[c] # <<>> /\ taken[c] \in Seq(Event)
      /\ items' = [items EXCEPT ![c] = Tail(items[c])]
      /\ taken' = [taken EXCEPT ![c] = Append(taken[c], Head(items[c]))]
      /\ put' = put
      /\ items \in [Channels -> Seq(Event)] /\ taken \in [Channels -> Seq(Event)]
  BY DEF TypeInv, TypeOK, Take
<1>2. CASE b # c
  BY <1>1, <1>2
<1>3. CASE b = c
  <2> DEFINE s == items[c]
             t == taken[c]
             u == taken'[c]
             r == items'[c]
  <2>1. r = Tail(s) /\ u = Append(t, Head(s)) /\ s \in Seq(Event) /\ s # <<>> /\ t \in Seq(Event)
    BY <1>1
  <2> HIDE DEF s, t, u, r
  <2>2. /\ Head(s) = s[1] /\ Len(s) \in Nat \ {0} /\ DOMAIN r = 1..(Len(s) - 1)
        /\ \A i \in 1..(Len(s) - 1) : r[i] = s[i + 1]
    BY <2>1, HeadTail
  <2>3. /\ Len(t) \in Nat /\ DOMAIN u = 1..(Len(t) + 1) /\ u[Len(t) + 1] = Head(s)
        /\ \A i \in 1..Len(t) : u[i] = t[i]
    BY <2>1
  <2>4. ASSUME NEW i \in 1..Len(s) PROVE s[i] \in ToSet(r) \cup ToSet(u)
    <3>1. CASE i = 1
      BY <2>2, <2>3, <3>1 DEF ToSet
    <3>2. CASE i # 1
      <4>1. i - 1 \in 1..(Len(s) - 1) /\ (i - 1) + 1 = i
        BY <2>2, <3>2
      <4>2. r[i - 1] = s[i]
        BY <2>2, <4>1
      <4> QED
        BY <2>2, <4>1, <4>2 DEF ToSet
    <3> QED
      BY <3>1, <3>2
  <2>5. ASSUME NEW i \in 1..Len(t) PROVE t[i] \in ToSet(u)
    BY <2>3 DEF ToSet
  <2>6. DOMAIN s = 1..Len(s) /\ DOMAIN t = 1..Len(t)
    BY <2>1
  <2>7. ToSet(s) \cup ToSet(t) \subseteq ToSet(r) \cup ToSet(u)
    BY <2>4, <2>5, <2>6 DEF ToSet
  <2> QED
    BY <1>1, <1>3, <2>7 DEF s, t, u, r
<1> QED
  BY <1>2, <1>3

(* In every state and for any channel size, a step that costs a queued or   *)
(* arriving paste finds no snapshot in the queue: snapshots go first.       *)
THEOREM PasteOutlives == Spec => PasteOutlivesQueuedSnapshot
<1> DEFINE Loses(c) == (\E e \in Lost(c)' \ Lost(c) : e.kind = "paste") =>
                          \A e \in ToSet(items[c]) : e.kind # "snapshot"
<1>1. ASSUME TypeInv, [Next]_vars, NEW c \in Channels PROVE Loses(c)
  <2> SUFFICES ASSUME NEW e \in put'[c], e \notin ToSet(items'[c]) \cup ToSet(taken'[c]),
                      e \in put[c] => e \in ToSet(items[c]) \cup ToSet(taken[c]),
                      e.kind = "paste",
                      NEW x \in ToSet(items[c]), x.kind = "snapshot"
               PROVE  FALSE
    BY DEF Lost
  <2>1. CASE \E kind \in Kinds : Publish(kind)
    <3>1. PICK kind \in Kinds : Publish(kind)
      BY <2>1
    <3>2. PICK b \in Channels : PutIn(b, Arriving(kind))
      BY <1>1, <3>1, PublishPuts
    <3>3. taken' = taken /\ Arriving(kind) \in Event
      BY <1>1, <3>1, PublishPuts
    <3>4. CASE b # c
      <4>1. items'[c] = items[c] /\ put'[c] = put[c]
        BY <1>1, <3>2, <3>4 DEF PutIn, TypeInv, TypeOK
      <4> QED
        BY <3>3, <4>1
    <3>5. CASE b = c
      <4>1. /\ items[c] \in Seq(Event) /\ items'[c] = AfterPut(items[c], Arriving(kind))
            /\ put'[c] = put[c] \cup {Arriving(kind)}
        BY <1>1, <3>2, <3>5 DEF PutIn, TypeInv, TypeOK
      <4>2. \A y \in ToSet(items[c]) : \E i \in 1..Len(items[c]) : y = items[c][i]
        BY <4>1 DEF ToSet
      <4>3. FirstOf(items[c], "snapshot") # 0
        BY <4>1, <4>2, FirstOfIndex
      <4>4. /\ Arriving(kind) \in ToSet(items'[c])
            /\ e \in ToSet(items[c]) => e \in ToSet(items'[c])
        BY <3>3, <4>1, <4>2, <4>3, PutSparesPastes
      <4> QED
        BY <3>3, <4>1, <4>4
    <3> QED
      BY <3>4, <3>5
  <2>2. CASE \E b \in Channels : Take(b)
    BY <1>1, <2>2, TakeLosesNothing
  <2>3. CASE UNCHANGED <<items, taken, put>>
    BY <2>3
  <2>4. CASE (\E b \in Channels : Hand(b) \/ Finish(b)) \/ (\E k \in Closers : CloserStep(k))
    <3>1. UNCHANGED <<items, taken, put>>
      BY <2>4 DEF Hand, Finish, CloserStep, CloseSession, CloseAtOnce, CloseRaises,
                  CloseReturns, CloseCancelled, channelVars
    <3> QED
      BY <2>3, <3>1
  <2>5. CASE UNCHANGED vars
    BY <2>3, <2>5 DEF vars, channelVars
  <2> QED
    BY <1>1, <2>1, <2>2, <2>4, <2>5 DEF Next, Consume, CloserStep
<1>2. TypeInv /\ [Next]_vars => [\A c \in Channels : Loses(c)]_vars
  BY <1>1
<1>3. TypeInv /\ [Next]_vars =>
        [\A c \in Channels :
           (\E e \in Lost(c)' \ Lost(c) : e.kind = "paste") =>
              \A e \in ToSet(items[c]) : e.kind # "snapshot"]_vars
  BY <1>2
<1> QED
  BY <1>3, TypeInvariant, PTL DEF Spec, PasteOutlivesQueuedSnapshot
================================================================================
