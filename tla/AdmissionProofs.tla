--------------------------- MODULE AdmissionProofs ---------------------------
(***************************************************************************)
(* Proofs about Admission for any number of requests, sessions, addresses  *)
(* and messages, any cap and any window.                                   *)
(***************************************************************************)
EXTENDS Admission, FiniteSetTheorems, TLAPS

USE WindowAssumption, AdmissionAssumption

(* A day starts no later than any moment of it or of a later day. *)
LEMMA DayFacts ==
  ASSUME NEW t \in Nat
  PROVE  /\ Day(t) \in Nat
         /\ DayStart(t) \in Nat
         /\ DayStart(t) = DayLength * Day(t)
         /\ DayStart(t) <= t
<1>1. t = DayLength * (t \div DayLength) + (t % DayLength)
  OBVIOUS
<1>2. t % DayLength \in 0..(DayLength - 1)
  OBVIOUS
<1>3. t \div DayLength \in Nat
  OBVIOUS
<1> QED
  BY <1>1, <1>2, <1>3 DEF Day, DayStart

LEMMA DayMonotone ==
  ASSUME NEW t \in Nat, NEW u \in Nat, t <= u
  PROVE  Day(t) <= Day(u) /\ DayStart(t) <= DayStart(u)
<1> DEFINE a == t \div DayLength
           b == u \div DayLength
<1>1. /\ a \in Nat /\ t = DayLength * a + (t % DayLength) /\ t % DayLength \in 0..(DayLength - 1)
  OBVIOUS
<1>2. /\ b \in Nat /\ u = DayLength * b + (u % DayLength) /\ u % DayLength \in 0..(DayLength - 1)
  OBVIOUS
<1>3. a <= b
  <2> SUFFICES ASSUME b + 1 <= a PROVE FALSE
    BY <1>1, <1>2
  <2>1. DayLength * (b + 1) <= DayLength * a
    BY <1>1, <1>2
  <2> QED
    BY <1>1, <1>2, <2>1
<1>4. DayLength * a <= DayLength * b
  BY <1>1, <1>2, <1>3
<1> QED
  BY <1>3, <1>4, DayFacts DEF Day

(* What is stamped today or later is counted from the start of today. *)
LEMMA LaterCounted ==
  ASSUME NEW t \in Nat, NEW u \in Nat, Day(t) <= Day(u)
  PROVE  DayStart(t) <= u
<1>1. DayLength * Day(t) <= DayLength * Day(u)
  BY DayFacts
<1> QED
  BY <1>1, DayFacts

-------------------------------------------------------------------------------
(* The deque once the expired hits are out. *)
LEMMA RestFacts ==
  ASSUME NEW dq \in Seq(Nat), NEW n \in 0..Len(dq)
  PROVE  /\ Rest(dq, n) \in Seq(Nat)
         /\ Len(Rest(dq, n)) = Len(dq) - n
         /\ \A i \in 1..(Len(dq) - n) : Rest(dq, n)[i] = dq[n + i]
<1>1. Rest(dq, n) = SubSeq(dq, n + 1, Len(dq))
  BY DEF Rest
<1>2. Len(dq) \in Nat /\ n + 1 \in 1..(Len(dq) + 1)
  OBVIOUS
<1>3. \A i \in (n + 1)..Len(dq) : dq[i] \in Nat
  OBVIOUS
<1> QED
  BY <1>1, <1>2, <1>3, SMTT(20)

(* What the limiter's step does to the types. *)
LEMMA LimiterType ==
  ASSUME TypeOK, NEW k \in Keys, Allow(k) \/ Deny(k)
  PROVE  /\ hits' \in [Keys -> Seq(Nat)] /\ \A j \in Keys : Len(hits'[j]) <= Limit
         /\ admitted' \in [Keys -> Seq(Nat)] /\ refused' \in [Keys -> Nat]
<1>1. PICK n \in 0..Len(hits[k]) :
        /\ \/ /\ Len(Rest(hits[k], n)) < Limit
              /\ hits' = [hits EXCEPT ![k] = Append(Rest(hits[k], n), now)]
              /\ admitted' = [admitted EXCEPT ![k] = Append(@, now)] /\ refused' = refused
           \/ /\ hits' = [hits EXCEPT ![k] = Rest(hits[k], n)]
              /\ refused' = [refused EXCEPT ![k] = @ + 1] /\ admitted' = admitted
  BY DEF Allow, Deny
<1>2. hits[k] \in Seq(Nat) /\ admitted[k] \in Seq(Nat) /\ now \in Nat /\ Len(hits[k]) <= Limit
  BY DEF TypeOK
<1>3. Rest(hits[k], n) \in Seq(Nat) /\ Len(Rest(hits[k], n)) <= Len(hits[k])
  BY <1>2, RestFacts
<1>4. /\ Append(Rest(hits[k], n), now) \in Seq(Nat)
      /\ Len(Append(Rest(hits[k], n), now)) = Len(Rest(hits[k], n)) + 1
      /\ Append(admitted[k], now) \in Seq(Nat)
  BY <1>2, <1>3
<1> HIDE DEF Rest
<1>5. hits' \in [Keys -> Seq(Nat)] /\ \A j \in Keys : Len(hits'[j]) <= Limit
  <2>1. ASSUME NEW h \in Seq(Nat), Len(h) <= Limit, hits' = [hits EXCEPT ![k] = h]
        PROVE  hits' \in [Keys -> Seq(Nat)] /\ \A j \in Keys : Len(hits'[j]) <= Limit
    BY <2>1 DEF TypeOK
  <2>2. CASE hits' = [hits EXCEPT ![k] = Rest(hits[k], n)]
    <3>1. Len(Rest(hits[k], n)) \in Nat /\ Len(hits[k]) \in Nat
      BY <1>2, <1>3
    <3>2. Len(Rest(hits[k], n)) <= Limit
      BY <1>2, <1>3, <3>1
    <3> QED
      BY <1>3, <2>1, <2>2, <3>2
  <2>3. CASE /\ Len(Rest(hits[k], n)) < Limit
             /\ hits' = [hits EXCEPT ![k] = Append(Rest(hits[k], n), now)]
    <3>1. Len(Append(Rest(hits[k], n), now)) <= Limit
      BY <1>3, <1>4, <2>3
    <3> QED
      BY <1>4, <2>1, <2>3, <3>1
  <2> QED
    BY <1>1, <2>2, <2>3
<1>6. admitted' \in [Keys -> Seq(Nat)] /\ refused' \in [Keys -> Nat]
  <2>1. CASE admitted' = [admitted EXCEPT ![k] = Append(@, now)] /\ refused' = refused
    BY <1>4, <2>1 DEF TypeOK
  <2>2. CASE refused' = [refused EXCEPT ![k] = @ + 1] /\ admitted' = admitted
    BY <2>2 DEF TypeOK
  <2> QED
    BY <1>1, <2>1, <2>2
<1> QED
  BY <1>5, <1>6

(* The rows that are counted are finitely many. *)
LEMMA RowsFinite ==
  ASSUME TypeOK, NEW S \in SUBSET DOMAIN rows
  PROVE  IsFiniteSet(S) /\ Cardinality(S) \in Nat
<1>1. DOMAIN rows = 1..Len(rows) /\ Len(rows) \in Nat
  BY DEF TypeOK
<1>2. IsFiniteSet(1..Len(rows))
  BY <1>1, FS_Interval
<1>3. IsFiniteSet(S)
  BY <1>1, <1>2, FS_Subset
<1> QED
  BY <1>3, FS_CardinalityType

LEMMA IdleType == Idle \in Request
BY DEF Idle, Request

LEMMA MovedType ==
  ASSUME NEW r \in Request, NEW p \in {"writing", "publishing"}
  PROVE  /\ [r EXCEPT !.pc = p] \in Request
         /\ [r EXCEPT !.pc = p].pc = p /\ [r EXCEPT !.pc = p].id = r.id
BY DEF Request

LEMMA PublishType ==
  ASSUME unheard \in [Sessions -> SUBSET Nat], NEW i, Publish(i),
         i \in Sessions => Len(log'[i]) \in Nat
  PROVE  unheard' \in [Sessions -> SUBSET Nat]
<1>1. CASE unheard' = unheard
  BY <1>1
<1>2. CASE unheard' = [unheard EXCEPT ![i] = @ \cup {Len(log'[i])}]
  <2>1. i \in Sessions => unheard[i] \cup {Len(log'[i])} \in SUBSET Nat
    OBVIOUS
  <2> QED
    BY <1>2, <2>1
<1> QED
  BY <1>1, <1>2 DEF Publish

LEMMA ScoringType ==
  ASSUME scoring \in [Sessions -> Nat], NEW i \in Sessions
  PROVE  /\ [scoring EXCEPT ![i] = @ + 1] \in [Sessions -> Nat]
         /\ scoring[i] > 0 => [scoring EXCEPT ![i] = @ - 1] \in [Sessions -> Nat]
<1>1. scoring[i] \in Nat /\ (scoring[i] > 0 => scoring[i] - 1 \in Nat)
  OBVIOUS
<1> QED
  BY <1>1

LEMMA TypeStep ==
  ASSUME TypeOK, [Next]_vars
  PROVE  TypeOK'
<1> USE DEF TypeOK, SameButRequest, limiterVars
<1>a. ASSUME NEW i \in Sessions, NEW e \in EventTypes,
             log' = [log EXCEPT ![i] = Append(@, e)], Publish(i)
      PROVE  log' \in [Sessions -> Seq(EventTypes)] /\ unheard' \in [Sessions -> SUBSET Nat]
  <2>1. Append(log[i], e) \in Seq(EventTypes)
    OBVIOUS
  <2>2. log' \in [Sessions -> Seq(EventTypes)]
    BY <1>a, <2>1
  <2>3. Len(log'[i]) \in Nat
    BY <2>2
  <2> QED
    BY <1>a, <2>2, <2>3, PublishType
<1>b. "session.started" \in EventTypes /\ "work" \in EventTypes /\ "session.ended" \in EventTypes
  BY DEF EventTypes
<1>1. CASE Tick
  BY <1>1 DEF Tick
<1>2. CASE Restart
  BY <1>2, IdleType DEF Restart, Forget, Idle
<1>3. ASSUME NEW w \in Workers, Begin(w) PROVE TypeOK'
  <2>1. req'[w] \in Request /\ req'[w].pc = "counting"
    BY <1>3, DayFacts DEF Begin, Idle, Request
  <2> QED
    BY <1>3, <2>1 DEF Begin
<1>4. ASSUME NEW w \in Workers, Count(w) PROVE TypeOK'
  <2>1. Cardinality({i \in DOMAIN rows : rows[i] >= req[w].since}) \in Nat
    BY RowsFinite
  <2>2. req'[w] \in Request /\ req'[w].pc = "counted"
    BY <1>4, <2>1 DEF Count, Idle, Request
  <2> QED
    BY <1>4, <2>2 DEF Count
<1>5. ASSUME NEW w \in Workers, Stamp(w) PROVE TypeOK'
  <2>1. req'[w] \in Request /\ req'[w].pc = "inserting"
    BY <1>5 DEF Stamp, Idle, Request
  <2> QED
    BY <1>5, <2>1 DEF Stamp
<1>6. ASSUME NEW w \in Workers, Refused(w) PROVE TypeOK'
  BY <1>6, IdleType DEF Refused, Idle
<1>7. ASSUME NEW w \in Workers, Insert(w) PROVE TypeOK'
  <2>1. req[w].stamp \in Nat
    BY DEF Request
  <2>2. /\ rows' \in Seq(Nat) /\ Len(rows') = Len(rows) + 1
        /\ DOMAIN rows' = 1..(Len(rows) + 1) /\ DOMAIN rows = 1..Len(rows)
    BY <1>7, <2>1 DEF Insert
  <2>3. req' \in [Workers -> Request]
    <3>1. Len(rows) + 1 \in Nat
      OBVIOUS
    <3>2. req'[w] \in Request
      BY <1>7, <3>1 DEF Insert, Idle, Request
    <3> QED
      BY <1>7, <3>2 DEF Insert
  <2>4. Len(rows') <= MaxSessions
    BY <1>7, <2>2 DEF Insert
  <2>5. \A v \in Workers :
          req'[v].pc \in {"inserted", "writing", "publishing"} => req'[v].id \in DOMAIN rows'
    BY <1>7, <2>2 DEF Insert, Idle
  <2>6. handed \subseteq DOMAIN rows'
    BY <2>2
  <2> QED
    BY <1>7, <2>2, <2>3, <2>4, <2>5, <2>6 DEF Insert
<1>8. ASSUME NEW w \in Workers, Wire(w) PROVE TypeOK'
  <2>1. subs' \in [Sessions -> {<<>>, Wired}]
    BY <1>8 DEF Wire
  <2>2. req' = [req EXCEPT ![w] = [req[w] EXCEPT !.pc = "writing"]]
    BY <1>8 DEF Wire
  <2>3. /\ [req[w] EXCEPT !.pc = "writing"] \in Request
        /\ [req[w] EXCEPT !.pc = "writing"].id = req[w].id
    BY MovedType
  <2>4. req' \in [Workers -> Request]
    BY <2>2, <2>3
  <2>5. \A v \in Workers :
          req'[v].pc \in {"inserted", "writing", "publishing"} => req'[v].id \in DOMAIN rows
    <3>1. req[w].pc = "inserted"
      BY <1>8 DEF Wire
    <3> QED
      BY <2>2, <2>3, <3>1
  <2> QED
    BY <1>8, <2>1, <2>4, <2>5 DEF Wire
<1>9. ASSUME NEW w \in Workers, WriteStarted(w) PROVE TypeOK'
  <2>1. req[w].id \in Sessions => Append(log[req[w].id], "session.started") \in Seq(EventTypes)
    BY <1>b
  <2>2. /\ req[w].pc = "writing"
        /\ req' = [req EXCEPT ![w] = [req[w] EXCEPT !.pc = "publishing"]]
        /\ log' = [log EXCEPT ![req[w].id] = Append(@, "session.started")]
        /\ UNCHANGED <<now, limiterVars, rows, subs, scoring, handed, ours, unheard, restarts>>
    BY <1>9 DEF WriteStarted
  <2>3. /\ [req[w] EXCEPT !.pc = "publishing"] \in Request
        /\ [req[w] EXCEPT !.pc = "publishing"].id = req[w].id
    BY MovedType
  <2>4. req' \in [Workers -> Request]
    BY <2>2, <2>3
  <2>5. \A v \in Workers :
          req'[v].pc \in {"inserted", "writing", "publishing"} => req'[v].id \in DOMAIN rows
    BY <2>2, <2>3
  <2>6. log' \in [Sessions -> Seq(EventTypes)]
    BY <2>1, <2>2
  <2> QED
    BY <2>2, <2>4, <2>5, <2>6
<1>10. ASSUME NEW w \in Workers, HandOut(w) PROVE TypeOK'
  <2>1. log' = log /\ Publish(req[w].id)
    BY <1>10 DEF HandOut
  <2>2. unheard' \in [Sessions -> SUBSET Nat]
    BY <2>1, PublishType
  <2> QED
    BY <1>10, <2>2, IdleType DEF HandOut, Idle
<1>11. ASSUME NEW k \in Keys, NEW i \in Sessions, MessageAllowed(k, i) PROVE TypeOK'
  <2>1. log' \in [Sessions -> Seq(EventTypes)] /\ unheard' \in [Sessions -> SUBSET Nat]
    BY <1>11, <1>a, <1>b DEF MessageAllowed
  <2> QED
    BY <1>11, <2>1, LimiterType DEF MessageAllowed
<1>12. ASSUME NEW k \in Keys, NEW i \in Sessions, MessageLimited(k, i) PROVE TypeOK'
  BY <1>12, LimiterType DEF MessageLimited
<1>13. CASE UNCHANGED vars
  BY <1>13 DEF vars
<1>14. ASSUME NEW i \in Sessions, End(i) PROVE TypeOK'
  <2>1. log' \in [Sessions -> Seq(EventTypes)] /\ unheard' \in [Sessions -> SUBSET Nat]
    BY <1>14, <1>a, <1>b DEF End
  <2>2. scoring' \in [Sessions -> Nat]
    BY <1>14, ScoringType DEF End
  <2>3. UNCHANGED <<now, limiterVars, rows, subs, req, handed, ours, restarts>>
    BY <1>14 DEF End
  <2> QED
    BY <2>1, <2>2, <2>3
<1>15. ASSUME NEW i \in Sessions, Close(i) \/ CloseFails(i) PROVE TypeOK'
  <2>1. scoring' \in [Sessions -> Nat]
    <3>1. scoring[i] > 0 /\ scoring' = [scoring EXCEPT ![i] = @ - 1]
      BY <1>15 DEF Close, CloseFails
    <3> QED
      BY <3>1, ScoringType
  <2>2. subs' \in [Sessions -> {<<>>, Wired}]
    BY <1>15 DEF Close, CloseFails
  <2> QED
    BY <1>15, <2>1, <2>2 DEF Close, CloseFails
<1> QED
  BY <1>1, <1>2, <1>3, <1>4, <1>5, <1>6, <1>7, <1>8, <1>9, <1>10, <1>11, <1>12, <1>13, <1>14, <1>15
     DEF Next

(* The state keeps its types, and the deque of an address never grows past  *)
(* the limit.                                                               *)
THEOREM Typed == Spec => []TypeOK
<1>1. Init => TypeOK
  BY IdleType DEF Init, LimiterInit, TypeOK, Idle
<1> QED
  BY <1>1, TypeStep, PTL DEF Spec

-------------------------------------------------------------------------------
(* The daily cap.  Who may still add a row to day d: a request that has      *)
(* counted fewer rows than the cap and is not past d, and one that is about  *)
(* to insert a row stamped on d.  Each had room when it counted, so the rows *)
(* of d and the pending requests together stay below the cap and the         *)
(* requests served.                                                          *)
Pending(d) ==
  {w \in Workers : \/ req[w].pc = "counted" /\ req[w].count < Cap /\ Day(now) <= d
                   \/ req[w].pc = "inserting" /\ Day(req[w].stamp) = d}

RoomOn(d) == Cardinality(StartedOn(d)) + Cardinality(Pending(d)) < Cap + Cardinality(Workers)

CapInv ==
  /\ \A w \in Workers : req[w].pc = "counting" => req[w].since <= DayStart(now)
  /\ \A d \in Nat : RoomOn(d)

LEMMA PendingFinite ==
  ASSUME NEW S \in SUBSET Workers
  PROVE  IsFiniteSet(S) /\ Cardinality(S) \in Nat /\ Cardinality(S) <= Cardinality(Workers)
         /\ Cardinality(Workers) \in Nat
BY FS_Subset, FS_CardinalityType

(* Less of both leaves room. *)
LEMMA RoomShrinks ==
  ASSUME TypeOK, TypeOK', NEW d \in Nat, RoomOn(d),
         StartedOn(d)' \subseteq StartedOn(d), Pending(d)' \subseteq Pending(d)
  PROVE  RoomOn(d)'
<1>1. /\ IsFiniteSet(StartedOn(d)) /\ Cardinality(StartedOn(d)) \in Nat
  BY RowsFinite DEF StartedOn
<1>2. /\ IsFiniteSet(Pending(d)) /\ Cardinality(Pending(d)) \in Nat
      /\ Cardinality(Workers) \in Nat
  BY PendingFinite DEF Pending
<1>3. /\ Cardinality(StartedOn(d)') <= Cardinality(StartedOn(d))
      /\ Cardinality(StartedOn(d)') \in Nat
  BY <1>1, FS_Subset, FS_CardinalityType
<1>4. /\ Cardinality(Pending(d)') <= Cardinality(Pending(d))
      /\ Cardinality(Pending(d)') \in Nat
  BY <1>2, FS_Subset, FS_CardinalityType
<1>5. \A a, b, x, y, n \in Nat : x <= a /\ y <= b /\ a + b < n => x + y < n
  OBVIOUS
<1>6. Cap + Cardinality(Workers) \in Nat
  BY <1>2
<1> QED
  BY <1>1, <1>2, <1>3, <1>4, <1>5, <1>6 DEF RoomOn

LEMMA CapStep ==
  ASSUME TypeOK, TypeOK', CapInv, [Next]_vars
  PROVE  CapInv'
<1> USE DEF CapInv, SameButRequest, limiterVars
<1>t. now \in Nat /\ \A w \in Workers : req[w] \in Request
  BY DEF TypeOK
<1>a. ASSUME UNCHANGED <<now, rows>>, NEW w \in Workers, NEW r, req' = [req EXCEPT ![w] = r],
             r.pc = "counting" => r.since <= DayStart(now),
             r.pc = "inserting" => w \in Pending(Day(r.stamp)),
             r.pc # "counted"
      PROVE  CapInv'
  <2>1. \A v \in Workers : req'[v].pc = "counting" => req'[v].since <= DayStart(now)'
    BY <1>a DEF TypeOK, DayStart
  <2>2. ASSUME NEW d \in Nat PROVE RoomOn(d)'
    <3>1. StartedOn(d)' \subseteq StartedOn(d)
      BY <1>a DEF StartedOn
    <3>2. Pending(d)' \subseteq Pending(d)
      BY <1>a DEF Pending, TypeOK
    <3> QED
      BY <3>1, <3>2, RoomShrinks
  <2> QED
    BY <2>1, <2>2
<1>1. CASE Tick
  <2>1. now' \in Nat /\ now <= now'
    BY <1>1, <1>t DEF Tick
  <2>2. Day(now) \in Nat /\ Day(now') \in Nat /\ Day(now) <= Day(now') /\ DayStart(now) <= DayStart(now')
        /\ DayStart(now) \in Nat /\ DayStart(now') \in Nat
    BY <2>1, <1>t, DayFacts, DayMonotone
  <2>3. ASSUME NEW d \in Nat PROVE RoomOn(d)'
    <3>1. StartedOn(d)' \subseteq StartedOn(d)
      BY <1>1 DEF Tick, StartedOn
    <3>2. Pending(d)' \subseteq Pending(d)
      BY <1>1, <2>2 DEF Tick, Pending, Day
    <3> QED
      BY <3>1, <3>2, RoomShrinks
  <2>4. \A w \in Workers : req'[w].pc = "counting" => req'[w].since <= DayStart(now')
    BY <1>1, <1>t, <2>2 DEF Tick, Request
  <2> QED
    BY <2>3, <2>4 DEF DayStart
<1>2. CASE Restart
  <2>1. ASSUME NEW d \in Nat PROVE RoomOn(d)'
    <3>1. StartedOn(d)' \subseteq StartedOn(d)
      BY <1>2 DEF Restart, StartedOn
    <3>2. Pending(d)' \subseteq Pending(d)
      BY <1>2 DEF Restart, Pending, Idle
    <3> QED
      BY <3>1, <3>2, RoomShrinks
  <2> QED
    BY <1>2, <2>1 DEF Restart, Idle
<1>3. ASSUME NEW w \in Workers, Begin(w) PROVE CapInv'
  <2> DEFINE r == [Idle EXCEPT !.pc = "counting", !.since = DayStart(now)]
  <2>1. r.pc = "counting" /\ r.since <= DayStart(now)
    BY <1>t, DayFacts DEF Idle
  <2> QED
    BY <1>3, <1>a, <2>1 DEF Begin
<1>4. ASSUME NEW w \in Workers, Count(w) PROVE CapInv'
  <2> DEFINE seen == {i \in DOMAIN rows : rows[i] >= req[w].since}
  <2>1. IsFiniteSet(seen) /\ Cardinality(seen) \in Nat
    BY RowsFinite
  <2>2. req'[w].pc = "counted" /\ req'[w].count = Cardinality(seen)
        /\ \A v \in Workers \ {w} : req'[v] = req[v]
    BY <1>4 DEF Count, TypeOK, Idle
  <2>3. ASSUME NEW d \in Nat PROVE RoomOn(d)'
    <3>1. StartedOn(d)' = StartedOn(d)
      BY <1>4 DEF Count, StartedOn
    <3>2. CASE Cardinality(seen) < Cap /\ Day(now) <= d
      <4>1. StartedOn(d) \subseteq seen
        <5> SUFFICES ASSUME NEW i \in DOMAIN rows, Day(rows[i]) = d PROVE rows[i] >= req[w].since
          BY DEF StartedOn
        <5>1. rows[i] \in Nat /\ DayStart(now) \in Nat /\ req[w].since \in Nat
          <6>1. rows[i] \in Nat
            BY DEF TypeOK
          <6>2. req[w].since \in Nat
            BY <1>t DEF Request
          <6> QED
            BY <1>t, <6>1, <6>2, DayFacts
        <5>2. DayStart(now) <= rows[i]
          BY <1>t, <3>2, <5>1, LaterCounted
        <5>3. req[w].since <= DayStart(now)
          BY <1>4 DEF Count
        <5> QED
          BY <5>1, <5>2, <5>3
      <4>2. Cardinality(StartedOn(d)) \in Nat /\ Cardinality(StartedOn(d)) <= Cardinality(seen)
        BY <2>1, <4>1, FS_Subset, FS_CardinalityType
      <4>3. /\ Cardinality(Pending(d)') \in Nat /\ Cardinality(Workers) \in Nat
            /\ Cardinality(Pending(d)') <= Cardinality(Workers)
        BY PendingFinite DEF Pending
      <4>4. Cardinality(StartedOn(d)') + Cardinality(Pending(d)') < Cap + Cardinality(Workers)
        BY <2>1, <3>1, <3>2, <4>2, <4>3
      <4> QED
        BY <4>4 DEF RoomOn
    <3>3. CASE ~(Cardinality(seen) < Cap /\ Day(now) <= d)
      <4>1. Pending(d)' \subseteq Pending(d)
        BY <1>4, <2>2, <3>3 DEF Count, Pending, Day
      <4> QED
        BY <3>1, <4>1, RoomShrinks
    <3> QED
      BY <3>2, <3>3
  <2>4. \A v \in Workers : req'[v].pc = "counting" => req'[v].since <= DayStart(now)'
    BY <1>4, <2>2 DEF Count, DayStart
  <2> QED
    BY <2>3, <2>4
<1>5. ASSUME NEW w \in Workers, Stamp(w) PROVE CapInv'
  <2> DEFINE r == [Idle EXCEPT !.pc = "inserting", !.stamp = now]
  <2>1. r.pc = "inserting" /\ r.stamp = now /\ req' = [req EXCEPT ![w] = r]
    BY <1>5, <1>t DEF Stamp, Idle
  <2>2. w \in Pending(Day(now))
    BY <1>5, <1>t, DayFacts DEF Stamp, Pending
  <2> QED
    BY <1>5, <1>a, <2>1, <2>2 DEF Stamp
<1>6. ASSUME NEW w \in Workers, Refused(w) PROVE CapInv'
  <2>1. Idle.pc = "idle"
    BY DEF Idle
  <2> QED
    BY <1>6, <1>a, <2>1 DEF Refused
<1>7. ASSUME NEW w \in Workers, Insert(w) PROVE CapInv'
  <2>0. /\ req'[w].pc = "inserted" /\ \A v \in Workers \ {w} : req'[v] = req[v]
    BY <1>7 DEF Insert, TypeOK, Idle
  <2>1. /\ Len(rows) \in Nat /\ DOMAIN rows = 1..Len(rows)
        /\ DOMAIN rows' = 1..(Len(rows) + 1)
        /\ rows'[Len(rows) + 1] = req[w].stamp /\ \A i \in DOMAIN rows : rows'[i] = rows[i]
    <3>1. rows \in Seq(Nat)
      BY DEF TypeOK
    <3>2. req[w].stamp \in Nat
      BY <1>t DEF Request
    <3>3. rows' = Append(rows, req[w].stamp)
      BY <1>7 DEF Insert
    <3> HIDE DEF CapInv
    <3> QED
      BY <3>1, <3>2, <3>3
  <2>2. ASSUME NEW d \in Nat PROVE RoomOn(d)'
    <3>1. CASE Day(req[w].stamp) = d
      <4>1. StartedOn(d)' = StartedOn(d) \cup {Len(rows) + 1} /\ Len(rows) + 1 \notin StartedOn(d)
        BY <2>1, <3>1 DEF StartedOn, Day
      <4>2. IsFiniteSet(StartedOn(d)) /\ Cardinality(StartedOn(d)) \in Nat
        BY RowsFinite DEF StartedOn
      <4>3. Cardinality(StartedOn(d)') = Cardinality(StartedOn(d)) + 1
        BY <4>1, <4>2, FS_AddElement
      <4>4. w \in Pending(d) /\ Pending(d)' \subseteq Pending(d) \ {w}
        BY <1>7, <2>0, <3>1 DEF Insert, Pending, Day
      <4>5. IsFiniteSet(Pending(d)) /\ Cardinality(Pending(d)) \in Nat /\ Cardinality(Workers) \in Nat
        BY PendingFinite DEF Pending
      <4>6. /\ IsFiniteSet(Pending(d) \ {w})
            /\ Cardinality(Pending(d) \ {w}) = Cardinality(Pending(d)) - 1
        BY <4>4, <4>5, FS_RemoveElement
      <4>7. Cardinality(Pending(d)') \in Nat /\ Cardinality(Pending(d)') <= Cardinality(Pending(d)) - 1
        BY <4>4, <4>6, FS_Subset, FS_CardinalityType
      <4>8. Cardinality(StartedOn(d)) + Cardinality(Pending(d)) < Cap + Cardinality(Workers)
        BY DEF RoomOn
      <4>9. Cardinality(StartedOn(d)') + Cardinality(Pending(d)') < Cap + Cardinality(Workers)
        BY <4>2, <4>3, <4>5, <4>7, <4>8
      <4> QED
        BY <4>9 DEF RoomOn
    <3>2. CASE Day(req[w].stamp) # d
      <4>1. StartedOn(d)' \subseteq StartedOn(d)
        BY <2>1, <3>2 DEF StartedOn, Day
      <4>2. Pending(d)' \subseteq Pending(d)
        BY <1>7, <2>0, <3>2 DEF Insert, Pending, Day
      <4> QED
        BY <4>1, <4>2, RoomShrinks
    <3> QED
      BY <3>1, <3>2
  <2>3. \A v \in Workers : req'[v].pc = "counting" => req'[v].since <= DayStart(now)'
    BY <1>7, <2>0 DEF Insert, DayStart
  <2> QED
    BY <2>2, <2>3
<1>8. ASSUME NEW w \in Workers, Wire(w) PROVE CapInv'
  <2> DEFINE r == [req[w] EXCEPT !.pc = "writing"]
  <2>1. r.pc = "writing" /\ req' = [req EXCEPT ![w] = r]
    BY <1>8, <1>t DEF Wire, Request
  <2> QED
    BY <1>8, <1>a, <2>1 DEF Wire
<1>9. ASSUME NEW w \in Workers, WriteStarted(w) PROVE CapInv'
  <2> DEFINE r == [req[w] EXCEPT !.pc = "publishing"]
  <2>1. r.pc = "publishing" /\ req' = [req EXCEPT ![w] = r]
    BY <1>9, <1>t DEF WriteStarted, Request
  <2> QED
    BY <1>9, <1>a, <2>1 DEF WriteStarted
<1>10. ASSUME NEW w \in Workers, HandOut(w) PROVE CapInv'
  <2>1. Idle.pc = "idle"
    BY DEF Idle
  <2> QED
    BY <1>10, <1>a, <2>1 DEF HandOut
<1>b. ASSUME UNCHANGED <<now, rows, req>> PROVE CapInv'
  BY <1>b DEF RoomOn, StartedOn, Pending, DayStart, Day
<1>11. ASSUME NEW k \in Keys, NEW i \in Sessions, MessageAllowed(k, i) PROVE CapInv'
  BY <1>11, <1>b DEF MessageAllowed
<1>12. ASSUME NEW k \in Keys, NEW i \in Sessions, MessageLimited(k, i) PROVE CapInv'
  BY <1>12, <1>b DEF MessageLimited
<1>13. CASE UNCHANGED vars
  BY <1>13, <1>b DEF vars
<1>14. ASSUME NEW i \in Sessions, End(i) \/ Close(i) \/ CloseFails(i) PROVE CapInv'
  BY <1>14, <1>b DEF End, Close, CloseFails
<1> QED
  BY <1>1, <1>2, <1>3, <1>4, <1>5, <1>6, <1>7, <1>8, <1>9, <1>10, <1>11, <1>12, <1>13, <1>14 DEF Next

(* No day gets more rows than the cap and the other requests served at a    *)
(* time, wherever midnight falls between their steps.                       *)
THEOREM CapHolds == Spec => []DailyOvershoot
<1>1. Init => CapInv
  <2> SUFFICES ASSUME Init PROVE CapInv
    OBVIOUS
  <2>1. \A w \in Workers : req[w].pc = "idle"
    BY DEF Init, Idle
  <2>2. ASSUME NEW d \in Nat PROVE StartedOn(d) = {} /\ Pending(d) = {}
    BY <2>1 DEF Init, StartedOn, Pending
  <2>3. Cardinality({}) = 0 /\ Cardinality(Workers) \in Nat
    BY FS_EmptySet, FS_CardinalityType
  <2>4. \A d \in Nat : RoomOn(d)
    BY <2>2, <2>3 DEF RoomOn
  <2> QED
    BY <2>1, <2>4 DEF CapInv
<1>2. TypeOK /\ CapInv => DailyOvershoot
  <2> SUFFICES ASSUME TypeOK, CapInv, NEW d \in 0..Day(now)
               PROVE  Cardinality(StartedOn(d)) < Cap + Cardinality(Workers)
    BY DEF DailyOvershoot
  <2>1. d \in Nat
    BY DayFacts DEF TypeOK
  <2>2. Cardinality(StartedOn(d)) \in Nat
    BY RowsFinite DEF StartedOn
  <2>3. Cardinality(Pending(d)) \in Nat /\ Cardinality(Workers) \in Nat
    BY PendingFinite DEF Pending
  <2>4. Cardinality(StartedOn(d)) + Cardinality(Pending(d)) < Cap + Cardinality(Workers)
    BY <2>1 DEF CapInv, RoomOn
  <2> QED
    BY <2>2, <2>3, <2>4
<1> QED
  BY <1>1, <1>2, CapStep, Typed, PTL DEF Spec

-------------------------------------------------------------------------------
(* Sessions that are handed out.  A row a request holds is its own and has  *)
(* not been handed out; it is wired before its first event is written, and  *)
(* that is its only event until the visitor has the id.  The handlers go    *)
(* with a scoring run only, and there is one only after session.ended.      *)
Holds(w) == req[w].pc \in {"inserted", "writing", "publishing"}

Opened(evs) == /\ evs # <<>> /\ evs[1] = "session.started"
               /\ \A n \in DOMAIN evs : evs[n] = "session.started" => n = 1

HeldApart ==
  \A w \in Workers : Holds(w) =>
    /\ req[w].id \notin handed
    /\ \A v \in Workers \ {w} : Holds(v) => req[v].id # req[w].id

HeldReady ==
  \A w \in Workers :
    /\ req[w].pc \in {"inserted", "writing"} => log[req[w].id] = <<>>
    /\ req[w].pc = "publishing" => log[req[w].id] = <<"session.started">>
    /\ req[w].pc \in {"writing", "publishing"} => subs[req[w].id] = Wired

FreeIsBlank == \A i \in Sessions : i > Len(rows) => log[i] = <<>>

Ended(i) == EndedBefore(log[i], Len(log[i]) + 1)

OursHeard ==
  \A i \in ours : /\ subs[i] = Wired \/ Ended(i)
                  /\ \A n \in unheard[i] : n \in DOMAIN log[i] /\ EndedBefore(log[i], n)

ScoredIsEnded == \A i \in Sessions : scoring[i] > 0 => i \in handed /\ Ended(i)

OthersUnheardOf == \A i \in Sessions \ handed : unheard[i] = {}

HeardInv ==
  /\ OursHeard /\ ScoredIsEnded /\ OthersUnheardOf
  /\ \A i \in handed : Opened(log[i])
  /\ \A i \in handed \ ours : subs[i] = <<>>
  /\ HeldApart /\ HeldReady /\ FreeIsBlank

LEMMA OpenedGrows ==
  ASSUME NEW evs \in Seq(EventTypes), Opened(evs), NEW e \in {"work", "session.ended"}
  PROVE  Opened(Append(evs, e))
BY DEF Opened

(* What was ended stays ended, and an event after the end comes after it.   *)
LEMMA EndedGrows ==
  ASSUME NEW evs \in Seq(EventTypes), NEW e \in EventTypes
  PROVE  /\ \A n \in 1..(Len(evs) + 1) : EndedBefore(evs, n) => EndedBefore(Append(evs, e), n)
         /\ EndedBefore(evs, Len(evs) + 1) => EndedBefore(Append(evs, e), Len(evs) + 2)
         /\ e = "session.ended" => EndedBefore(Append(evs, e), Len(evs) + 2)
         /\ Len(Append(evs, e)) = Len(evs) + 1
BY DEF EndedBefore

LEMMA WiredIsSome == Wired # <<>>
BY DEF Wired

LEMMA HeardStep ==
  ASSUME TypeOK, TypeOK', HeardInv, [Next]_vars
  PROVE  HeardInv'
<1> USE DEF SameButRequest, limiterVars
<1>t. /\ rows \in Seq(Nat) /\ Len(rows) \in Nat /\ DOMAIN rows = 1..Len(rows) /\ Len(rows) <= MaxSessions
      /\ req \in [Workers -> Request]
      /\ log \in [Sessions -> Seq(EventTypes)]
      /\ subs \in [Sessions -> {<<>>, Wired}] /\ scoring \in [Sessions -> Nat]
      /\ unheard \in [Sessions -> SUBSET Nat]
      /\ ours \subseteq handed /\ handed \subseteq DOMAIN rows
      /\ \A w \in Workers : Holds(w) => req[w].id \in DOMAIN rows
      /\ DOMAIN rows \subseteq Sessions
  <2>1. rows \in Seq(Nat) /\ Len(rows) <= MaxSessions
    BY DEF TypeOK
  <2>2. Len(rows) \in Nat /\ DOMAIN rows = 1..Len(rows) /\ DOMAIN rows \subseteq Sessions
    BY <2>1 DEF Sessions
  <2>3. \A w \in Workers : Holds(w) => req[w].id \in DOMAIN rows
    BY DEF TypeOK, Holds
  <2>4. /\ req \in [Workers -> Request] /\ log \in [Sessions -> Seq(EventTypes)]
        /\ subs \in [Sessions -> {<<>>, Wired}] /\ scoring \in [Sessions -> Nat]
        /\ unheard \in [Sessions -> SUBSET Nat]
        /\ ours \subseteq handed /\ handed \subseteq DOMAIN rows
    BY DEF TypeOK
  <2> QED
    BY <2>1, <2>2, <2>3, <2>4
(* A request that does not come to hold a row. *)
<1>a. ASSUME UNCHANGED <<rows, log, subs, scoring, handed, ours, unheard>>, NEW w \in Workers,
             \A v \in Workers \ {w} : req'[v] = req[v], ~Holds(w)'
      PROVE  HeardInv'
  <2>1. HeldApart'
    BY <1>a DEF HeardInv, HeldApart, Holds
  <2>2. HeldReady'
    BY <1>a DEF HeardInv, HeldReady, Holds
  <2> QED
    BY <1>a, <2>1, <2>2 DEF HeardInv, FreeIsBlank, OursHeard, ScoredIsEnded, OthersUnheardOf, Ended
<1>1. ASSUME UNCHANGED <<rows, log, subs, scoring, handed, ours, unheard, req>> PROVE HeardInv'
  BY <1>1 DEF HeardInv, HeldApart, HeldReady, FreeIsBlank, Holds, OursHeard, ScoredIsEnded,
              OthersUnheardOf, Ended
(* A handed out session gets an event, perhaps its end. *)
<1>b. ASSUME NEW i \in Sessions, i \in handed, NEW e \in {"work", "session.ended"},
             log' = [log EXCEPT ![i] = Append(@, e)], Publish(i),
             UNCHANGED <<rows, subs, req, handed, ours>>,
             \/ scoring' = scoring
             \/ e = "session.ended" /\ scoring' = [scoring EXCEPT ![i] = @ + 1]
      PROVE  HeardInv'
  <2>1. log'[i] = Append(log[i], e) /\ \A j \in Sessions \ {i} : log'[j] = log[j]
    BY <1>b, <1>t
  <2>2. e \in EventTypes /\ log[i] \in Seq(EventTypes) /\ Len(log[i]) \in Nat
    BY <1>b, <1>t DEF EventTypes
  <2>3. /\ \A n \in 1..(Len(log[i]) + 1) : EndedBefore(log[i], n) => EndedBefore(log'[i], n)
        /\ Ended(i) => Ended(i)'
        /\ e = "session.ended" => Ended(i)'
        /\ Len(log'[i]) = Len(log[i]) + 1
        /\ DOMAIN log[i] = 1..Len(log[i]) /\ DOMAIN log'[i] = 1..(Len(log[i]) + 1)
    <3>1. Len(log[i]) + 1 + 1 = Len(log[i]) + 2
      BY <2>2
    <3> QED
      BY <2>1, <2>2, <3>1, EndedGrows DEF Ended
  <2>4. \A j \in Sessions \ {i} : (Ended(j)' <=> Ended(j)) /\ scoring'[j] = scoring[j] /\ unheard'[j] = unheard[j]
    BY <1>b, <1>t, <2>1 DEF Ended, Publish
  <2>5. Publish(i) => \/ unheard'[i] = unheard[i]
                      \/ /\ subs[i] = <<>> \/ scoring[i] > 0
                         /\ unheard'[i] = unheard[i] \cup {Len(log[i]) + 1}
    BY <1>t, <2>3 DEF Publish
  <2>6. OursHeard'
    <3>1. ASSUME NEW j \in ours, j # i
          PROVE  /\ subs'[j] = Wired \/ Ended(j)'
                 /\ \A n \in unheard'[j] : n \in DOMAIN log'[j] /\ EndedBefore(log'[j], n)
      BY <1>b, <1>t, <2>1, <2>4, <3>1 DEF HeardInv, OursHeard
    <3>2. ASSUME i \in ours
          PROVE  /\ subs'[i] = Wired \/ Ended(i)'
                 /\ \A n \in unheard'[i] : n \in DOMAIN log'[i] /\ EndedBefore(log'[i], n)
      <4>1. \A n \in unheard[i] : n \in DOMAIN log'[i] /\ EndedBefore(log'[i], n)
        BY <2>2, <2>3, <3>2 DEF HeardInv, OursHeard
      <4>2. subs[i] = Wired \/ Ended(i)
        BY <3>2 DEF HeardInv, OursHeard
      <4>3. ASSUME subs[i] = <<>> \/ scoring[i] > 0 PROVE Ended(i)
        BY <4>2, <4>3, WiredIsSome DEF HeardInv, ScoredIsEnded
      <4>4. Ended(i) => EndedBefore(log'[i], Len(log[i]) + 1) /\ Len(log[i]) + 1 \in DOMAIN log'[i]
        BY <2>2, <2>3 DEF Ended
      <4> QED
        BY <1>b, <2>3, <2>5, <4>1, <4>2, <4>3, <4>4
    <3> QED
      BY <1>b, <3>1, <3>2 DEF OursHeard, Ended
  <2>7. ScoredIsEnded'
    <3>1. ASSUME NEW j \in Sessions, j # i, scoring'[j] > 0 PROVE j \in handed /\ Ended(j)'
      BY <2>4, <3>1 DEF HeardInv, ScoredIsEnded
    <3>2. ASSUME scoring'[i] > 0 PROVE Ended(i)'
      BY <1>b, <2>3, <3>2 DEF HeardInv, ScoredIsEnded
    <3> QED
      BY <1>b, <3>1, <3>2 DEF ScoredIsEnded, Ended
  <2>8. OthersUnheardOf'
    BY <1>b, <2>4 DEF HeardInv, OthersUnheardOf
  <2>9. \A j \in handed : Opened(log'[j])
    BY <1>b, <1>t, <2>1, <2>2, OpenedGrows DEF HeardInv
  <2>10. \A w \in Workers : Holds(w) => req[w].id \in Sessions /\ log'[req[w].id] = log[req[w].id]
    BY <1>b, <1>t, <2>1 DEF HeardInv, HeldApart
  <2>11. HeldApart' /\ HeldReady'
    <3>1. \A w \in Workers : Holds(w)' <=> Holds(w)
      BY <1>b DEF Holds
    <3>2. HeldApart'
      BY <1>b, <3>1 DEF HeardInv, HeldApart
    <3>3. \A w \in Workers : req[w].pc \in {"inserted", "writing", "publishing"}
                              => log'[req[w].id] = log[req[w].id]
      BY <2>10 DEF Holds
    <3> QED
      BY <1>b, <3>2, <3>3 DEF HeardInv, HeldReady
  <2>12. FreeIsBlank'
    <3>1. ASSUME NEW j \in Sessions, j > Len(rows) PROVE log'[j] = <<>>
      <4>1. j # i
        BY <1>b, <1>t, <3>1
      <4>2. log[j] = <<>>
        BY <3>1 DEF HeardInv, FreeIsBlank
      <4> QED
        BY <2>1, <4>1, <4>2
    <3> QED
      BY <1>b, <3>1 DEF FreeIsBlank
  <2> QED
    BY <1>b, <2>6, <2>7, <2>8, <2>9, <2>11, <2>12 DEF HeardInv
<1>2. CASE Tick
  BY <1>2, <1>1 DEF Tick
<1>3. CASE Restart
  <2>1. /\ UNCHANGED <<rows, log, handed, unheard>> /\ ours' = {} /\ scoring' = [i \in Sessions |-> 0]
        /\ subs' = [i \in Sessions |-> <<>>]
        /\ \A w \in Workers : req'[w].pc = "idle"
    BY <1>3 DEF Restart, Idle
  <2>2. HeldApart' /\ HeldReady'
    BY <2>1 DEF HeldApart, HeldReady, Holds
  <2>3. \A i \in handed' \ ours' : subs'[i] = <<>>
    BY <2>1, <1>t
  <2>4. OursHeard' /\ ScoredIsEnded' /\ OthersUnheardOf'
    BY <2>1 DEF HeardInv, OursHeard, ScoredIsEnded, OthersUnheardOf
  <2> QED
    BY <2>1, <2>2, <2>3, <2>4 DEF HeardInv, FreeIsBlank
<1>4. ASSUME NEW w \in Workers, Begin(w) PROVE HeardInv'
  BY <1>4, <1>a, <1>t DEF Begin, Holds, Idle
<1>5. ASSUME NEW w \in Workers, Count(w) PROVE HeardInv'
  BY <1>5, <1>a, <1>t DEF Count, Holds, Idle
<1>6. ASSUME NEW w \in Workers, Stamp(w) PROVE HeardInv'
  BY <1>6, <1>a, <1>t DEF Stamp, Holds, Idle
<1>7. ASSUME NEW w \in Workers, Refused(w) PROVE HeardInv'
  BY <1>7, <1>a, <1>t DEF Refused, Holds, Idle
<1>8. ASSUME NEW w \in Workers, Insert(w) PROVE HeardInv'
  <2>1. /\ req'[w].pc = "inserted" /\ req'[w].id = Len(rows) + 1 /\ Len(rows) + 1 \in Sessions
        /\ \A v \in Workers \ {w} : req'[v] = req[v]
        /\ UNCHANGED <<log, subs, scoring, handed, ours, unheard>>
    BY <1>8, <1>t DEF Insert, Idle, Sessions
  <2>2. Len(rows') = Len(rows) + 1
    <3>1. req[w].stamp \in Nat
      BY <1>t DEF Request
    <3> QED
      BY <1>8, <1>t, <3>1 DEF Insert
  <2>3. Len(rows) + 1 \notin DOMAIN rows
    BY <1>t
  <2>4. HeldApart'
    <3>1. Len(rows) + 1 \notin handed
      BY <1>t, <2>3
    <3>2. \A v \in Workers : Holds(v) => req[v].id # Len(rows) + 1
      BY <1>t, <2>3
    <3>3. \A v \in Workers : Holds(v)' <=> v = w \/ Holds(v)
      BY <2>1 DEF Holds
    <3> QED
      BY <2>1, <3>1, <3>2, <3>3 DEF HeardInv, HeldApart
  <2>5. HeldReady'
    <3>1. log[Len(rows) + 1] = <<>>
      BY <1>t, <2>1 DEF HeardInv, FreeIsBlank
    <3> QED
      BY <2>1, <3>1 DEF HeardInv, HeldReady
  <2>6. FreeIsBlank'
    BY <1>t, <2>1, <2>2 DEF HeardInv, FreeIsBlank, Sessions
  <2> QED
    BY <2>1, <2>4, <2>5, <2>6 DEF HeardInv, OursHeard, ScoredIsEnded, OthersUnheardOf, Ended
<1>9. ASSUME NEW w \in Workers, Wire(w) PROVE HeardInv'
  <2> DEFINE i == req[w].id
  <2>1. /\ req[w].pc = "inserted" /\ req'[w].pc = "writing" /\ req'[w].id = i
        /\ \A v \in Workers \ {w} : req'[v] = req[v]
        /\ UNCHANGED <<rows, log, scoring, handed, ours, unheard>>
    BY <1>9, <1>t DEF Wire, Request
  <2>2. i \in Sessions /\ i \notin handed /\ \A v \in Workers \ {w} : Holds(v) => req[v].id # i
    BY <1>t, <2>1 DEF HeardInv, HeldApart, Holds
  <2>3. subs'[i] = Wired /\ \A j \in Sessions \ {i} : subs'[j] = subs[j]
    BY <1>9, <1>t, <2>2 DEF Wire
  <2>4. HeldApart'
    BY <2>1 DEF HeardInv, HeldApart, Holds
  <2>5. HeldReady'
    <3>1. ASSUME NEW v \in Workers \ {w}, req[v].pc \in {"writing", "publishing"}
          PROVE  subs'[req[v].id] = Wired
      BY <1>t, <2>2, <2>3, <3>1 DEF HeardInv, HeldReady, Holds
    <3> QED
      BY <2>1, <2>3, <3>1 DEF HeardInv, HeldReady
  <2>6. \A j \in handed : subs'[j] = subs[j]
    BY <1>t, <2>2, <2>3
  <2>7. OursHeard'
    BY <1>t, <2>1, <2>6 DEF HeardInv, OursHeard, Ended
  <2> QED
    BY <1>t, <2>1, <2>4, <2>5, <2>6, <2>7 DEF HeardInv, FreeIsBlank, ScoredIsEnded, OthersUnheardOf,
                                              Ended
<1>10. ASSUME NEW w \in Workers, WriteStarted(w) PROVE HeardInv'
  <2> DEFINE i == req[w].id
  <2>1. /\ req[w].pc = "writing" /\ req'[w].pc = "publishing" /\ req'[w].id = i
        /\ \A v \in Workers \ {w} : req'[v] = req[v]
        /\ UNCHANGED <<rows, subs, scoring, handed, ours, unheard>>
    BY <1>10, <1>t DEF WriteStarted, Request
  <2>2. /\ i \in Sessions /\ i \in DOMAIN rows /\ i \notin handed
        /\ \A v \in Workers \ {w} : Holds(v) => req[v].id # i
    BY <1>t, <2>1 DEF HeardInv, HeldApart, Holds
  <2>3. /\ log'[i] = <<"session.started">> /\ \A j \in Sessions \ {i} : log'[j] = log[j]
    <3>1. log[i] = <<>>
      BY <2>1 DEF HeardInv, HeldReady
    <3> QED
      BY <1>10, <1>t, <2>2, <3>1 DEF WriteStarted
  <2>4. HeldApart'
    BY <2>1 DEF HeardInv, HeldApart, Holds
  <2>5. HeldReady'
    <3>1. ASSUME NEW v \in Workers \ {w}, Holds(v) PROVE log'[req[v].id] = log[req[v].id]
      BY <1>t, <2>2, <2>3, <3>1
    <3>2. subs[i] = Wired
      BY <2>1 DEF HeardInv, HeldReady
    <3>3. HeldReady
      BY DEF HeardInv
    <3>4. \A v \in Workers \ {w} :
            req[v].pc \in {"inserted", "writing", "publishing"} => log'[req[v].id] = log[req[v].id]
      BY <3>1 DEF Holds
    <3>5. ASSUME NEW v \in Workers \ {w}
          PROVE  /\ req'[v].pc \in {"inserted", "writing"} => log'[req'[v].id] = <<>>
                 /\ req'[v].pc = "publishing" => log'[req'[v].id] = <<"session.started">>
                 /\ req'[v].pc \in {"writing", "publishing"} => subs'[req'[v].id] = Wired
      BY <2>1, <3>3, <3>4 DEF HeldReady
    <3> HIDE DEF i
    <3> QED
      BY <2>1, <2>3, <3>2, <3>5 DEF HeldReady
  <2>6. \A j \in handed : log'[j] = log[j]
    BY <1>t, <2>2, <2>3
  <2>7. FreeIsBlank'
    <3>1. i <= Len(rows)
      BY <1>t, <2>2
    <3>2. ASSUME NEW j \in Sessions, j > Len(rows) PROVE log'[j] = <<>>
      <4>1. j # i
        BY <1>t, <2>2, <3>1, <3>2 DEF Sessions
      <4>2. log[j] = <<>>
        BY <3>2 DEF HeardInv, FreeIsBlank
      <4> QED
        BY <2>3, <4>1, <4>2
    <3> QED
      BY <2>1, <3>2 DEF FreeIsBlank
  <2>8. OursHeard' /\ ScoredIsEnded' /\ OthersUnheardOf'
    <3>1. \A j \in handed : Ended(j)' <=> Ended(j)
      BY <2>6 DEF Ended
    <3> QED
      BY <1>t, <2>1, <2>6, <3>1 DEF HeardInv, OursHeard, ScoredIsEnded, OthersUnheardOf
  <2> QED
    BY <2>1, <2>4, <2>5, <2>6, <2>7, <2>8 DEF HeardInv
<1>11. ASSUME NEW w \in Workers, HandOut(w) PROVE HeardInv'
  <2> DEFINE i == req[w].id
  <2>1. /\ req[w].pc = "publishing" /\ req'[w].pc = "idle"
        /\ \A v \in Workers \ {w} : req'[v] = req[v]
        /\ handed' = handed \cup {i} /\ ours' = ours \cup {i}
        /\ UNCHANGED <<rows, log, subs, scoring>>
    BY <1>11, <1>t DEF HandOut, Idle
  <2>2. /\ i \in Sessions /\ i \notin handed
        /\ \A v \in Workers \ {w} : Holds(v) => req[v].id # i
        /\ log[i] = <<"session.started">> /\ subs[i] = Wired
    BY <1>t, <2>1 DEF HeardInv, HeldApart, HeldReady, Holds
  <2>3. unheard' = unheard
    <3>1. ~(scoring[i] > 0)
      BY <2>2 DEF HeardInv, ScoredIsEnded
    <3> QED
      BY <1>11, <2>2, <3>1, WiredIsSome DEF HandOut, Publish
  <2>4. Opened(log[i])
    BY <2>2 DEF Opened
  <2>5. HeldApart' /\ HeldReady'
    <3>1. HeldApart'
      BY <2>1, <2>2 DEF HeardInv, HeldApart, Holds
    <3>2. HeldReady'
      BY <2>1, <2>2 DEF HeardInv, HeldReady
    <3> QED
      BY <3>1, <3>2
  <2>6. OursHeard' /\ ScoredIsEnded' /\ OthersUnheardOf'
    BY <2>1, <2>2, <2>3 DEF HeardInv, OursHeard, ScoredIsEnded, OthersUnheardOf, Ended
  <2> QED
    BY <1>t, <2>1, <2>2, <2>3, <2>4, <2>5, <2>6 DEF HeardInv, FreeIsBlank
<1>12. ASSUME NEW k \in Keys, NEW i \in Sessions, MessageAllowed(k, i) PROVE HeardInv'
  BY <1>12, <1>b DEF MessageAllowed
<1>13. ASSUME NEW k \in Keys, NEW i \in Sessions, MessageLimited(k, i) PROVE HeardInv'
  BY <1>13, <1>1 DEF MessageLimited
<1>14. CASE UNCHANGED vars
  BY <1>14, <1>1 DEF vars
<1>15. ASSUME NEW i \in Sessions, End(i) PROVE HeardInv'
  BY <1>15, <1>b DEF End
<1>16. ASSUME NEW i \in Sessions, Close(i) PROVE HeardInv'
  <2>1. /\ i \in handed /\ Ended(i) /\ UNCHANGED <<rows, log, req, handed, ours, unheard>>
        /\ subs' = [subs EXCEPT ![i] = <<>>] /\ scoring' = [scoring EXCEPT ![i] = @ - 1]
    BY <1>16, <1>t DEF Close, HeardInv, ScoredIsEnded
  <2>2. HeldApart'
    BY <2>1 DEF HeardInv, HeldApart, Holds
  <2>3. HeldReady'
    <3>1. \A w \in Workers : Holds(w) => subs'[req[w].id] = subs[req[w].id]
      BY <1>t, <2>1 DEF HeardInv, HeldApart
    <3> QED
      BY <2>1, <3>1 DEF HeardInv, HeldReady, Holds
  <2>4. OursHeard'
    BY <1>t, <2>1 DEF HeardInv, OursHeard, Ended
  <2>5. ScoredIsEnded'
    BY <1>t, <2>1 DEF HeardInv, ScoredIsEnded, Ended
  <2>6. \A j \in handed \ ours : subs'[j] = <<>>
    BY <1>t, <2>1 DEF HeardInv
  <2> QED
    BY <2>1, <2>2, <2>3, <2>4, <2>5, <2>6 DEF HeardInv, FreeIsBlank, OthersUnheardOf
<1>17. ASSUME NEW i \in Sessions, CloseFails(i) PROVE HeardInv'
  <2>1. /\ UNCHANGED <<rows, log, subs, req, handed, ours, unheard>>
        /\ scoring' = [scoring EXCEPT ![i] = @ - 1]
    BY <1>17 DEF CloseFails
  <2>2. \A j \in Sessions : scoring'[j] > 0 => scoring[j] > 0
    BY <1>17, <1>t DEF CloseFails
  <2> QED
    BY <2>1, <2>2 DEF HeardInv, HeldApart, HeldReady, FreeIsBlank, Holds, OursHeard, ScoredIsEnded,
                      OthersUnheardOf, Ended
<1> QED
  BY <1>2, <1>3, <1>4, <1>5, <1>6, <1>7, <1>8, <1>9, <1>10, <1>11, <1>12, <1>13, <1>14, <1>15, <1>16,
     <1>17 DEF Next

(* However requests, messages, scoring runs and restarts interleave, an id  *)
(* is handed out only once both handlers listen and session.started is in   *)
(* the log, and the handlers hear every event of it until its session.ended *)
(* is there; only a restart leaves it without them before.                  *)
THEOREM HandedOutHeard == Spec => []HeardUntilEnded
<1>1. Init => HeardInv
  BY DEF Init, HeardInv, HeldApart, HeldReady, FreeIsBlank, Holds, Idle, OursHeard, ScoredIsEnded,
         OthersUnheardOf
<1>2. HeardInv => HeardUntilEnded
  BY DEF HeardInv, HeardUntilEnded, Opened, OursHeard, Ended
<1> QED
  BY <1>1, <1>2, HeardStep, Typed, PTL DEF Spec

-------------------------------------------------------------------------------
(* The limiter.  The deque of an address is the end of the list of all its  *)
(* admitted calls, and the calls it has let go are a window old.            *)
IsEnd(h, a, t) ==
  /\ Len(h) <= Len(a)
  /\ \A i \in 1..Len(h) : h[i] = a[Len(a) - Len(h) + i]
  /\ \A i \in 1..(Len(a) - Len(h)) : a[i] <= t - Window
  /\ \A i, j \in 1..Len(a) : i <= j => a[i] <= a[j]
  /\ \A i \in 1..Len(a) : a[i] <= t

WindowInv == \A k \in Keys : IsEnd(hits[k], admitted[k], now)

(* The split of the list a by the cutoff c, seen from its end h, of which    *)
(* the first n are taken out.                                               *)
LEMMA Split ==
  ASSUME NEW la \in Nat, NEW lh \in 0..la, NEW n \in 0..lh, NEW c \in Int,
         NEW a \in [1..la -> Nat], NEW h \in [1..lh -> Nat],
         \A i \in 1..lh : h[i] = a[la - lh + i],
         \A i \in 1..(la - lh) : a[i] <= c,
         \A i, j \in 1..la : i <= j => a[i] <= a[j],
         \A i \in 1..n : h[i] <= c,
         n < lh => h[n + 1] > c
  PROVE  /\ \A i \in 1..(la - (lh - n)) : a[i] <= c
         /\ \A i \in (la - (lh - n) + 1)..la : a[i] > c
         /\ \A i \in 1..(lh - n) : h[n + i] = a[la - (lh - n) + i]
<1>1. ASSUME NEW i \in 1..(la - (lh - n)) PROVE a[i] <= c
  <2>1. CASE i <= la - lh
    BY <2>1
  <2>2. CASE i > la - lh
    <3>1. i - (la - lh) \in 1..n /\ i - (la - lh) \in 1..lh
      BY <2>2
    <3>2. h[i - (la - lh)] = a[la - lh + (i - (la - lh))]
      BY <3>1
    <3>3. la - lh + (i - (la - lh)) = i
      OBVIOUS
    <3> QED
      BY <3>1, <3>2, <3>3
  <2> QED
    BY <2>1, <2>2
<1>2. ASSUME NEW i \in (la - (lh - n) + 1)..la PROVE a[i] > c
  <2>1. n < lh /\ n + 1 \in 1..lh /\ la - lh + (n + 1) \in 1..la /\ i \in 1..la /\ la - lh + (n + 1) <= i
    OBVIOUS
  <2>2. h[n + 1] = a[la - lh + (n + 1)]
    BY <2>1
  <2>3. a[la - lh + (n + 1)] <= a[i]
    BY <2>1
  <2>4. a[la - lh + (n + 1)] \in Nat /\ a[i] \in Nat
    BY <2>1
  <2> QED
    BY <2>1, <2>2, <2>3, <2>4
<1>3. ASSUME NEW i \in 1..(lh - n) PROVE h[n + i] = a[la - (lh - n) + i]
  <2>1. n + i \in 1..lh /\ la - lh + (n + i) = la - (lh - n) + i
    OBVIOUS
  <2> QED
    BY <2>1
<1> QED
  BY <1>1, <1>2, <1>3

(* What the loop of allow leaves is the end of the list of all calls, cut   *)
(* at the window.                                                           *)
LEMMA RestIsEnd ==
  ASSUME TypeOK, WindowInv, NEW k \in Keys, NEW n \in 0..Len(hits[k]), Evicted(hits[k], n)
  PROVE  /\ Rest(hits[k], n) \in Seq(Nat) /\ Len(Rest(hits[k], n)) \in 0..Len(admitted[k])
         /\ \A i \in 1..Len(Rest(hits[k], n)) :
              Rest(hits[k], n)[i] = admitted[k][Len(admitted[k]) - Len(Rest(hits[k], n)) + i]
         /\ \A i \in 1..(Len(admitted[k]) - Len(Rest(hits[k], n))) : admitted[k][i] <= now - Window
         /\ \A i \in (Len(admitted[k]) - Len(Rest(hits[k], n)) + 1)..Len(admitted[k]) :
              admitted[k][i] > now - Window
<1> DEFINE a == admitted[k]
           h == hits[k]
           la == Len(a)
           lh == Len(h)
           c == now - Window
<1>1. a \in Seq(Nat) /\ h \in Seq(Nat) /\ now \in Nat /\ lh <= la
  <2>1. lh <= la
    BY DEF WindowInv, IsEnd
  <2> QED
    BY <2>1 DEF TypeOK
<1>2. /\ la \in Nat /\ lh \in 0..la /\ c \in Int /\ n \in 0..lh
      /\ a \in [1..la -> Nat] /\ h \in [1..lh -> Nat]
  BY <1>1
<1>3. /\ \A i \in 1..lh : h[i] = a[la - lh + i]
      /\ \A i \in 1..(la - lh) : a[i] <= c
      /\ \A i, j \in 1..la : i <= j => a[i] <= a[j]
  BY DEF WindowInv, IsEnd
<1>4. /\ \A i \in 1..n : h[i] <= c
      /\ n < lh => h[n + 1] > c
  BY DEF Evicted
<1>5. /\ Rest(h, n) \in Seq(Nat) /\ Len(Rest(h, n)) = lh - n
      /\ \A i \in 1..(lh - n) : Rest(h, n)[i] = h[n + i]
  BY <1>1, <1>2, RestFacts
<1> HIDE DEF a, h, la, lh, c
<1>6. /\ \A i \in 1..(la - (lh - n)) : a[i] <= c
      /\ \A i \in (la - (lh - n) + 1)..la : a[i] > c
      /\ \A i \in 1..(lh - n) : h[n + i] = a[la - (lh - n) + i]
  BY <1>2, <1>3, <1>4, Split, SMTT(60)
<1>7. lh - n \in 0..la
  BY <1>2
<1> QED
  BY <1>5, <1>6, <1>7 DEF a, h, la, lh, c

(* Counting what is left in the deque is as good as looking at all calls.   *)
LEMMA RestTellsFull ==
  ASSUME TypeOK, WindowInv, NEW k \in Keys, NEW n \in 0..Len(hits[k]), Evicted(hits[k], n)
  PROVE  Len(Rest(hits[k], n)) >= Limit <=> Quota!Full(k)
<1> DEFINE a == admitted[k]
           la == Len(a)
           lr == Len(Rest(hits[k], n))
<1>1. /\ lr \in 0..la /\ \A i \in 1..(la - lr) : a[i] <= now - Window
      /\ \A i \in (la - lr + 1)..la : a[i] > now - Window
  BY RestIsEnd
<1>2. a \in Seq(Nat) /\ la \in Nat /\ now - Window \in Int /\ Limit \in Nat /\ Limit > 0
      /\ \A i \in 1..la : a[i] \in Nat
  BY SMTT(20) DEF TypeOK
<1>3. Quota!Full(k) <=> la >= Limit /\ \A i \in (la - Limit + 1)..la : a[i] > now - Window
  BY DEF Quota!Full
<1> HIDE DEF a, la, lr
<1>4. CASE lr >= Limit
  <2>1. la >= Limit /\ \A i \in (la - Limit + 1)..la : i \in (la - lr + 1)..la
    BY <1>1, <1>2, <1>4
  <2>2. \A i \in (la - Limit + 1)..la : a[i] > now - Window
    BY <1>1, <2>1
  <2> QED
    BY <1>3, <1>4, <2>1, <2>2 DEF lr
<1>5. CASE ~(lr >= Limit)
  <2>1. ASSUME la >= Limit PROVE ~(a[la - Limit + 1] > now - Window)
    <3>1. la - Limit + 1 \in 1..(la - lr) /\ la - Limit + 1 \in 1..la
      BY <1>1, <1>2, <1>5, <2>1
    <3>2. a[la - Limit + 1] <= now - Window /\ a[la - Limit + 1] \in Nat
      BY <1>1, <1>2, <3>1
    <3> QED
      BY <1>2, <3>2
  <2>2. la - Limit + 1 \in (la - Limit + 1)..la
    BY <1>2
  <2>3. ~Quota!Full(k)
    BY <1>3, <2>1, <2>2
  <2> QED
    BY <1>5, <2>3 DEF lr
<1> QED
  BY <1>4, <1>5

(* A call that is admitted enters both the deque and the list.              *)
LEMMA AllowKeepsEnd ==
  ASSUME TypeOK, WindowInv, NEW k \in Keys, Allow(k), now' = now
  PROVE  WindowInv' /\ Quota!Admit(k)
<1>1. PICK n \in 0..Len(hits[k]) :
        /\ Evicted(hits[k], n) /\ Len(Rest(hits[k], n)) < Limit
        /\ hits' = [hits EXCEPT ![k] = Append(Rest(hits[k], n), now)]
        /\ admitted' = [admitted EXCEPT ![k] = Append(@, now)] /\ refused' = refused
  BY DEF Allow
<1> DEFINE a == admitted[k]
           r == Rest(hits[k], n)
           la == Len(a)
           lr == Len(r)
<1>2. a \in Seq(Nat) /\ now \in Nat /\ hits \in [Keys -> Seq(Nat)] /\ admitted \in [Keys -> Seq(Nat)]
  BY DEF TypeOK
<1>3. /\ r \in Seq(Nat) /\ lr \in 0..la
      /\ \A i \in 1..lr : r[i] = a[la - lr + i]
      /\ \A i \in 1..(la - lr) : a[i] <= now - Window
  BY <1>1, RestIsEnd
<1>4. /\ \A i, j \in 1..la : i <= j => a[i] <= a[j]
      /\ \A i \in 1..la : a[i] <= now
  BY DEF WindowInv, IsEnd
<1> DEFINE a2 == Append(a, now)
           r2 == Append(r, now)
<1>5. /\ hits'[k] = r2 /\ admitted'[k] = a2
      /\ \A j \in Keys \ {k} : hits'[j] = hits[j] /\ admitted'[j] = admitted[j]
  BY <1>1, <1>2
<1>6. /\ la \in Nat /\ lr \in Nat /\ Len(a2) = la + 1 /\ Len(r2) = lr + 1
      /\ a2[la + 1] = now /\ \A i \in 1..la : a2[i] = a[i]
      /\ r2[lr + 1] = now /\ \A i \in 1..lr : r2[i] = r[i]
  BY <1>2, <1>3
<1> HIDE DEF a, r, la, lr, a2, r2
<1>7. /\ lr + 1 <= la + 1 /\ (la + 1) - (lr + 1) = la - lr
      /\ \A i \in 1..(lr + 1) : r2[i] = a2[la - lr + i]
      /\ \A i \in 1..(la - lr) : a2[i] <= now - Window
      /\ \A i, j \in 1..(la + 1) : i <= j => a2[i] <= a2[j]
      /\ \A i \in 1..(la + 1) : a2[i] <= now
  <2>1. lr + 1 <= la + 1 /\ (la + 1) - (lr + 1) = la - lr
    BY <1>3, <1>6
  <2>2. ASSUME NEW i \in 1..(lr + 1) PROVE r2[i] = a2[la - lr + i]
    <3>1. CASE i \in 1..lr
      <4>1. la - lr + i \in 1..la
        BY <1>3, <1>6, <3>1
      <4> QED
        BY <1>3, <1>6, <3>1, <4>1
    <3>2. CASE i = lr + 1
      <4>1. la - lr + i = la + 1
        BY <1>6, <3>2
      <4> QED
        BY <1>6, <3>2, <4>1
    <3> QED
      BY <1>6, <3>1, <3>2
  <2>3. ASSUME NEW i \in 1..(la - lr) PROVE a2[i] <= now - Window
    <3>1. i \in 1..la
      BY <1>3, <1>6
    <3> QED
      BY <1>3, <1>6, <3>1
  <2>4. ASSUME NEW i \in 1..(la + 1) PROVE a2[i] <= now
    <3>1. CASE i \in 1..la
      BY <1>4, <1>6, <3>1
    <3>2. CASE i = la + 1
      BY <1>2, <1>6, <3>2
    <3> QED
      BY <1>6, <3>1, <3>2
  <2>5. ASSUME NEW i \in 1..(la + 1), NEW j \in 1..(la + 1), i <= j PROVE a2[i] <= a2[j]
    <3>1. CASE j = la + 1
      BY <1>6, <2>4, <3>1
    <3>2. CASE j \in 1..la
      <4>1. i \in 1..la
        BY <1>6, <2>5, <3>2
      <4> QED
        BY <1>4, <1>6, <2>5, <3>2, <4>1
    <3> QED
      BY <1>6, <3>1, <3>2
  <2> QED
    BY <2>1, <2>2, <2>3, <2>4, <2>5
<1>8. WindowInv'
  <2>1. IsEnd(r2, a2, now)
    BY <1>6, <1>7 DEF IsEnd
  <2> QED
    BY <1>5, <2>1 DEF WindowInv
<1>9. ~Quota!Full(k)
  <2>1. ~(Len(Rest(hits[k], n)) >= Limit)
    BY <1>1, <1>3, <1>6 DEF lr, r
  <2> QED
    BY <1>1, <2>1, RestTellsFull
<1> QED
  BY <1>1, <1>8, <1>9 DEF Quota!Admit

(* One that is refused leaves the list alone; the deque may get shorter.    *)
LEMMA DenyKeepsEnd ==
  ASSUME TypeOK, WindowInv, NEW k \in Keys, Deny(k), now' = now
  PROVE  WindowInv' /\ Quota!Refuse(k)
<1>1. PICK n \in 0..Len(hits[k]) :
        /\ Evicted(hits[k], n) /\ Len(Rest(hits[k], n)) >= Limit
        /\ hits' = [hits EXCEPT ![k] = Rest(hits[k], n)]
        /\ refused' = [refused EXCEPT ![k] = @ + 1] /\ admitted' = admitted
  BY DEF Deny
<1> DEFINE r == Rest(hits[k], n)
           la == Len(admitted[k])
           lr == Len(r)
<1>2. /\ r \in Seq(Nat) /\ lr \in 0..la
      /\ \A i \in 1..lr : r[i] = admitted[k][la - lr + i]
      /\ \A i \in 1..(la - lr) : admitted[k][i] <= now - Window
  BY <1>1, RestIsEnd
<1>3. /\ hits'[k] = r /\ \A j \in Keys \ {k} : hits'[j] = hits[j]
  BY <1>1 DEF TypeOK
<1>4. lr <= la
  BY <1>2
<1>5. IsEnd(r, admitted[k], now)
  <2>1. IsEnd(hits[k], admitted[k], now)
    BY DEF WindowInv
  <2> HIDE DEF r
  <2> QED
    BY <1>2, <1>4, <2>1 DEF IsEnd
<1>6. WindowInv'
  BY <1>1, <1>3, <1>5 DEF WindowInv
<1>7. Quota!Full(k)
  BY <1>1, RestTellsFull
<1> QED
  BY <1>1, <1>6, <1>7 DEF Quota!Refuse

LEMMA EmptyIsEnd == \A t : IsEnd(<<>>, <<>>, t)
BY DEF IsEnd

LEMMA WindowStep ==
  ASSUME TypeOK, TypeOK', WindowInv, [Next]_vars
  PROVE  WindowInv' /\ [Quota!Next]_(Quota!vars)
<1> USE DEF SameButRequest, limiterVars
<1>1. CASE Tick
  <2>1. now \in Nat /\ now' = now + 1 /\ hits' = hits /\ admitted' = admitted /\ refused' = refused
    BY <1>1 DEF Tick, TypeOK
  <2>2. ASSUME NEW k \in Keys PROVE IsEnd(hits[k], admitted[k], now')
    <3> DEFINE a == admitted[k]
               la == Len(a)
               lh == Len(hits[k])
    <3>1. a \in Seq(Nat) /\ hits[k] \in Seq(Nat)
      BY DEF TypeOK
    <3>2. la \in Nat /\ lh \in Nat /\ \A i \in 1..la : a[i] \in Nat
      BY <3>1
    <3>3. IsEnd(hits[k], a, now)
      BY DEF WindowInv
    <3>4. /\ \A i \in 1..(la - lh) : a[i] <= now - Window
          /\ \A i \in 1..la : a[i] <= now
      BY <3>3 DEF IsEnd
    <3> HIDE DEF a, la, lh
    <3>5. /\ \A i \in 1..(la - lh) : i \in 1..la
          /\ \A x \in Nat : x <= now => x <= now'
          /\ \A x \in Nat : x <= now - Window => x <= now' - Window
      BY <2>1, <3>2
    <3>6. /\ \A i \in 1..(la - lh) : a[i] <= now' - Window
          /\ \A i \in 1..la : a[i] <= now'
      BY <3>2, <3>4, <3>5
    <3> QED
      BY <3>3, <3>6 DEF IsEnd, a, la, lh
  <2>3. WindowInv'
    BY <2>1, <2>2 DEF WindowInv
  <2> QED
    BY <2>1, <2>3 DEF Quota!Next, Quota!Tick
<1>2. CASE Restart
  <2>1. /\ hits' = [k \in Keys |-> <<>>] /\ admitted' = [k \in Keys |-> <<>>]
        /\ refused' = [k \in Keys |-> 0] /\ now' = now
    BY <1>2 DEF Restart, Forget
  <2>2. WindowInv'
    BY <2>1, EmptyIsEnd DEF WindowInv
  <2> QED
    BY <2>1, <2>2 DEF Quota!Next, Quota!Forget
<1>3. ASSUME UNCHANGED <<now, hits, admitted, refused>>
      PROVE  WindowInv' /\ [Quota!Next]_(Quota!vars)
  <2>1. WindowInv'
    BY <1>3 DEF WindowInv
  <2> QED
    BY <1>3, <2>1 DEF Quota!vars
<1>4. ASSUME NEW w \in Workers,
             \/ Begin(w) \/ Count(w) \/ Stamp(w) \/ Refused(w)
             \/ Insert(w) \/ Wire(w) \/ WriteStarted(w) \/ HandOut(w)
      PROVE  WindowInv' /\ [Quota!Next]_(Quota!vars)
  BY <1>3, <1>4 DEF Begin, Count, Stamp, Refused, Insert, Wire, WriteStarted, HandOut
<1>5. ASSUME NEW k \in Keys, NEW i \in Sessions, MessageAllowed(k, i)
      PROVE  WindowInv' /\ [Quota!Next]_(Quota!vars)
  BY <1>5, AllowKeepsEnd DEF MessageAllowed, Quota!Next
<1>6. ASSUME NEW k \in Keys, NEW i \in Sessions, MessageLimited(k, i)
      PROVE  WindowInv' /\ [Quota!Next]_(Quota!vars)
  BY <1>6, DenyKeepsEnd DEF MessageLimited, Quota!Next
<1>7. CASE UNCHANGED vars
  BY <1>3, <1>7 DEF vars
<1>8. ASSUME NEW i \in Sessions, End(i) \/ Close(i) \/ CloseFails(i)
      PROVE  WindowInv' /\ [Quota!Next]_(Quota!vars)
  BY <1>3, <1>8 DEF End, Close, CloseFails
<1> QED
  BY <1>1, <1>2, <1>4, <1>5, <1>6, <1>7, <1>8 DEF Next

(* The limiter that keeps only the last window decides as one that knows    *)
(* every call it ever admitted.                                             *)
THEOREM LimiterIsQuota == Spec => ImplementsQuota
<1>1. Init => WindowInv
  <2>1. Init => \A k \in Keys : hits[k] = <<>> /\ admitted[k] = <<>>
    BY DEF Init, LimiterInit
  <2> QED
    BY <2>1, EmptyIsEnd DEF WindowInv
<1>2. Init => Quota!Init
  BY DEF Init, LimiterInit, Quota!Init
<1> QED
  BY <1>1, <1>2, WindowStep, Typed, PTL DEF Spec, ImplementsQuota, Quota!Spec
================================================================================
