--------------------------- MODULE DashboardProofs ---------------------------
(***************************************************************************)
(* Proofs about Dashboard for any number of dashboards, tasks and events.  *)
(***************************************************************************)
EXTENDS Dashboard, WellFoundedInduction, TLAPS

USE DashboardAssumption

(* A set of task ids that is not empty has a last one.                      *)
LEMMA Greatest ==
  ASSUME NEW n \in Nat, NEW S \in SUBSET (0..n), S # {}
  PROVE  \E x \in S : \A y \in S : y <= x
<1> DEFINE T == {x \in 0..n : n - x \in S}
<1>1. T \subseteq Nat /\ T # {}
  <2>1. PICK s \in S : TRUE
    OBVIOUS
  <2>2. n - s \in 0..n /\ n - (n - s) = s
    OBVIOUS
  <2>3. n - s \in T
    BY <2>1, <2>2
  <2>4. T \subseteq Nat
    OBVIOUS
  <2> HIDE DEF T
  <2> QED
    BY <2>3, <2>4
<1>2. \E x \in T : \A y \in T : ~(<<y, x>> \in OpToRel(<, Nat))
  <2> HIDE DEF T
  <2> QED
    BY <1>1, NatLessThanWellFounded, WFMin
<1>3. PICK x \in T : \A y \in T : ~(y < x)
  BY <1>1, <1>2 DEF OpToRel
<1>4. ASSUME NEW y \in S PROVE y <= n - x
  <2>0. n - y \in 0..n /\ n - (n - y) = y
    OBVIOUS
  <2>1. n - y \in T
    BY <2>0
  <2>2. ~(n - y < x)
    BY <1>3, <2>1
  <2> QED
    BY <2>2
<1> QED
  BY <1>4

-------------------------------------------------------------------------------
(* What is sent to a page. *)

LEMMA WithScoreType ==
  ASSUME NEW p \in Page, NEW phase \in {"live", "final"}, NEW t \in Keys, NEW n \in Nat
  PROVE  /\ WithScore(p, phase, t, n) \in Page
         /\ WithScore(p, phase, t, n).pc = p.pc
         /\ WithScore(p, phase, t, n).read = p.read
         /\ WithScore(p, phase, t, n).rows = p.rows
         /\ WithScore(p, phase, t, n).events = p.events
         /\ WithScore(p, phase, t, n).finals = IF phase = "final" THEN p.finals \cup {t} ELSE p.finals
BY DEF WithScore, Page

LEMMA WithEventsType ==
  ASSUME NEW p \in Page, NEW S \in SUBSET (1..MaxEvents)
  PROVE  /\ WithEvents(p, S) \in Page
         /\ WithEvents(p, S) = [p EXCEPT !.events = p.events \cup S]
BY DEF WithEvents, Page

LEMMA SendRowsType ==
  ASSUME NEW p \in Page, NEW phase \in {"live", "final"}
  PROVE  /\ SendRows(p, phase) \in Page
         /\ SendRows(p, phase).read = p.read
         /\ SendRows(p, phase).events = p.events
         /\ phase = "live" => SendRows(p, phase).finals = p.finals
         /\ phase = "final" => SendRows(p, phase).finals = p.finals \cup {t \in Keys : p.rows[t] # 0}
<1> DEFINE sent == {t \in Keys : p.rows[t] # 0}
           last == CHOOSE t \in sent : \A u \in sent : u <= t
           shown == IF sent = {} THEN p ELSE WithScore(p, phase, last, p.rows[last])
<1>1. SendRows(p, phase)
        = [shown EXCEPT !.rows = NoRows, !.finals = IF phase = "final" THEN @ \cup sent ELSE @]
  BY DEF SendRows
<1>2. sent # {} => last \in sent
  <2>1. sent \in SUBSET (0..Tasks) /\ Tasks \in Nat
    BY DEF Keys
  <2>2. sent # {} => \E t \in sent : \A u \in sent : u <= t
    BY <2>1, Greatest
  <2> QED
    BY <2>2
<1>3. /\ shown \in Page /\ shown.read = p.read /\ shown.events = p.events
      /\ p.finals \subseteq shown.finals
      /\ phase = "live" => shown.finals = p.finals
      /\ shown.finals \subseteq p.finals \cup sent
  <2>1. CASE sent = {}
    BY <2>1
  <2>2. CASE sent # {}
    <3>1. last \in Keys /\ last \in sent /\ p.rows[last] \in Nat
      BY <1>2, <2>2 DEF Page
    <3> HIDE DEF last, sent
    <3>2. shown = WithScore(p, phase, last, p.rows[last])
      BY <2>2
    <3> QED
      BY <3>1, <3>2, WithScoreType
  <2> QED
    BY <2>1, <2>2
<1>4. NoRows \in [Keys -> Nat] /\ sent \subseteq Keys
  BY DEF NoRows
<1> HIDE DEF shown, sent
<1>5. SendRows(p, phase) \in Page
  BY <1>1, <1>3, <1>4, ZenonT(30) DEF Page
<1>6. /\ SendRows(p, phase).read = p.read /\ SendRows(p, phase).events = p.events
      /\ SendRows(p, phase).finals = IF phase = "final" THEN shown.finals \cup sent ELSE shown.finals
  BY <1>1, <1>3 DEF Page
<1>7. /\ phase = "live" => SendRows(p, phase).finals = p.finals
      /\ phase = "final" => SendRows(p, phase).finals = p.finals \cup sent
  BY <1>3, <1>6
<1> QED
  BY <1>5, <1>6, <1>7 DEF sent

-------------------------------------------------------------------------------
LEMMA AwayType == Away \in Page
BY DEF Away, Page, NoRows, NoBar, Keys

(* The type invariant in three parts.  What the consumer works on and what  *)
(* the scoring run has read are in the log.                                 *)
PagesOK == page \in [Dashboards -> Page] /\ \A d \in Dashboards : page[d].read <= Len(log)

RowsOK ==
  /\ log \in Seq(Keys) /\ Len(log) <= MaxEvents
  /\ live \in [Keys -> 0..Len(log)] /\ final \in [Keys -> 0..Len(log)]

TasksOK ==
  /\ handled \in 0..Len(log)
  /\ fan \in {"idle", "scoring", "pushing", "forwarding", "ended", "cancelled"}
  /\ fan \in {"scoring", "pushing", "forwarding"} => handled < Len(log)
  /\ scorer \in Run /\ scorer.upto <= Len(log)

TypeInv == PagesOK /\ RowsOK /\ TasksOK

LEMMA TypeFacts ==
  ASSUME TypeInv
  PROVE  /\ log \in Seq(Keys) /\ Len(log) \in Nat /\ Len(log) <= MaxEvents
         /\ handled \in Nat /\ handled <= Len(log)
         /\ fan \in {"scoring", "pushing", "forwarding"} => This \in 1..Len(log) /\ log[This] \in Keys
         /\ live \in [Keys -> Nat] /\ final \in [Keys -> Nat]
         /\ scorer \in Run /\ scorer.upto \in 0..Len(log)
         /\ page \in [Dashboards -> Page]
         /\ \A d \in Dashboards : page[d] \in Page /\ page[d].read <= Len(log)
<1>1. /\ log \in Seq(Keys) /\ Len(log) \in Nat /\ Len(log) <= MaxEvents
      /\ handled \in Nat /\ handled <= Len(log)
  BY DEF TypeInv, RowsOK, TasksOK
<1>2. fan \in {"scoring", "pushing", "forwarding"} => This \in 1..Len(log) /\ log[This] \in Keys
  <2>1. fan \in {"scoring", "pushing", "forwarding"} => This \in 1..Len(log)
    BY <1>1 DEF TypeInv, TasksOK, This
  <2> QED
    BY <1>1, <2>1
<1>3. live \in [Keys -> Nat] /\ final \in [Keys -> Nat]
  BY <1>1 DEF TypeInv, RowsOK
<1>4. scorer \in Run /\ scorer.upto \in 0..Len(log)
  BY <1>1 DEF TypeInv, TasksOK, Run
<1> QED
  BY <1>1, <1>2, <1>3, <1>4 DEF TypeInv, PagesOK

LEMMA PushedPages ==
  ASSUME TypeInv, NEW phase \in {"live", "final"}, NEW t \in Keys, NEW n \in Nat, Push(phase, t, n)
  PROVE  /\ page' \in [Dashboards -> Page]
         /\ \A d \in Dashboards :
              /\ page'[d].pc = page[d].pc /\ page'[d].read = page[d].read
              /\ page'[d].rows = page[d].rows /\ page'[d].events = page[d].events
              /\ page'[d].finals = IF Registered(d) /\ phase = "final" THEN page[d].finals \cup {t}
                                   ELSE page[d].finals
<1>1. \A d \in Dashboards :
        /\ WithScore(page[d], phase, t, n) \in Page
        /\ WithScore(page[d], phase, t, n).pc = page[d].pc
        /\ WithScore(page[d], phase, t, n).read = page[d].read
        /\ WithScore(page[d], phase, t, n).rows = page[d].rows
        /\ WithScore(page[d], phase, t, n).events = page[d].events
        /\ WithScore(page[d], phase, t, n).finals
             = IF phase = "final" THEN page[d].finals \cup {t} ELSE page[d].finals
  <2> SUFFICES ASSUME NEW d \in Dashboards
      PROVE  /\ WithScore(page[d], phase, t, n) \in Page
             /\ WithScore(page[d], phase, t, n).pc = page[d].pc
             /\ WithScore(page[d], phase, t, n).read = page[d].read
             /\ WithScore(page[d], phase, t, n).rows = page[d].rows
             /\ WithScore(page[d], phase, t, n).events = page[d].events
             /\ WithScore(page[d], phase, t, n).finals
                  = IF phase = "final" THEN page[d].finals \cup {t} ELSE page[d].finals
    OBVIOUS
  <2>1. page[d] \in Page
    BY TypeFacts
  <2> QED
    BY <2>1 DEF WithScore, Page
<1>2. page' = [d \in Dashboards |->
                IF Registered(d) THEN WithScore(page[d], phase, t, n) ELSE page[d]]
  BY DEF Push
<1>3. \A d \in Dashboards : page'[d] = IF Registered(d) THEN WithScore(page[d], phase, t, n) ELSE page[d]
  BY <1>2
<1>4. page' \in [Dashboards -> Page]
  BY <1>1, <1>2, TypeFacts
<1> QED
  BY <1>1, <1>3, <1>4

(* The steps of a page change that page alone. *)
LEMMA PageStep ==
  ASSUME TypeInv, NEW d \in Dashboards, Connect(d) \/ Leave(d) \/ Replay(d)
  PROVE  /\ UNCHANGED <<log, handled, fan, live, final, scorer>>
         /\ \E p \in Page : page' = [page EXCEPT ![d] = p] /\ p.read <= Len(log)
<1> USE DEF Becomes
<1>t. /\ page[d] \in Page /\ page[d].read <= Len(log) /\ Len(log) \in 0..MaxEvents
      /\ live \in [Keys -> Nat] /\ final \in [Keys -> Nat] /\ NoRows \in [Keys -> Nat] /\ 0 <= Len(log)
  BY TypeFacts DEF NoRows
<1>1. CASE Connect(d)
  <2>1. [Away EXCEPT !.pc = "connected"] \in Page /\ [Away EXCEPT !.pc = "connected"].read = 0
    BY AwayType DEF Page, Away
  <2> QED
    BY <1>1, <1>t, <2>1 DEF Connect
<1>2. CASE Leave(d)
  <2>1. Away.read = 0
    BY DEF Away
  <2> QED
    BY <1>2, <1>t, <2>1, AwayType DEF Leave
<1>3. CASE ReadEvents(d)
  <2> DEFINE p == [page[d] EXCEPT !.pc = "listing", !.read = Len(log)]
  <2>1. p \in Page /\ p.read = Len(log)
    BY <1>t DEF Page
  <2>2. /\ page' = [page EXCEPT ![d] = p]
        /\ UNCHANGED <<log, handled, fan, live, final, scorer>>
    BY <1>3 DEF ReadEvents
  <2>3. p.read <= Len(log)
    BY <1>t, <2>1
  <2> HIDE DEF p
  <2> QED
    BY <2>1, <2>2, <2>3
<1>4. CASE SendEvents(d)
  <2> DEFINE e == page[d].events \cup (1..page[d].read)
             p == [page[d] EXCEPT !.events = e, !.pc = "showing", !.read = 0, !.rows = live]
  <2>1. e \in SUBSET (1..MaxEvents)
    BY <1>t DEF Page
  <2> HIDE DEF e
  <2>2. p \in Page /\ p.read = 0
    <3>1. 0 \in 0..MaxEvents
      OBVIOUS
    <3> QED
      BY <1>t, <2>1, <3>1 DEF Page
  <2>3. p = [WithEvents(page[d], 1..page[d].read) EXCEPT !.pc = "showing", !.read = 0, !.rows = live]
    BY <1>t DEF WithEvents, Page, e
  <2> HIDE DEF p
  <2> QED
    BY <1>4, <1>t, <2>2, <2>3 DEF SendEvents
<1>5. CASE SendLive(d)
  <2> DEFINE p == [SendRows(page[d], "live") EXCEPT !.pc = "between"]
  <2>1. SendRows(page[d], "live") \in Page /\ SendRows(page[d], "live").read = page[d].read
    BY <1>t, SendRowsType
  <2>2. p \in Page /\ p.read = page[d].read
    BY <2>1 DEF Page
  <2> HIDE DEF p
  <2> QED
    BY <1>5, <1>t, <2>2 DEF SendLive, p
<1>6. CASE ReadFinal(d)
  <2> DEFINE p == [page[d] EXCEPT !.pc = "finishing", !.rows = final]
  <2>1. p \in Page /\ p.read = page[d].read
    BY <1>t DEF Page
  <2> HIDE DEF p
  <2> QED
    BY <1>6, <1>t, <2>1 DEF ReadFinal, p
<1>7. CASE SendFinal(d)
  <2> DEFINE p == [SendRows(page[d], "final") EXCEPT !.pc = "watching"]
  <2>1. SendRows(page[d], "final") \in Page /\ SendRows(page[d], "final").read = page[d].read
    BY <1>t, SendRowsType
  <2>2. p \in Page /\ p.read = page[d].read
    BY <2>1 DEF Page
  <2> HIDE DEF p
  <2> QED
    BY <1>7, <1>t, <2>2 DEF SendFinal, p
<1> QED
  BY <1>1, <1>2, <1>3, <1>4, <1>5, <1>6, <1>7 DEF Replay

LEMMA TypeStep ==
  ASSUME TypeInv, [Next]_vars
  PROVE  TypeInv'
<1>a. UNCHANGED <<page, log>> => PagesOK'
  BY DEF TypeInv, PagesOK
<1>b. UNCHANGED <<log, live, final>> => RowsOK'
  BY DEF TypeInv, RowsOK
<1>c. UNCHANGED <<log, handled, fan, scorer>> => TasksOK'
  BY DEF TypeInv, TasksOK
<1>u. ASSUME UNCHANGED <<log, handled>>, fan' = fan \/ fan' \in {"idle", "ended", "cancelled"},
             scorer' \in Run, scorer'.upto <= Len(log)
      PROVE  TasksOK'
  BY <1>u DEF TypeInv, TasksOK
<1>t. Len(log) \in Nat /\ handled \in Nat /\ handled <= Len(log) /\ Len(log) <= MaxEvents
      /\ scorer \in Run /\ scorer.upto <= Len(log)
  BY TypeFacts
<1>1. ASSUME NEW t \in Keys, Emit(t) PROVE TypeInv'
  <2>1. /\ log' \in Seq(Keys) /\ Len(log') = Len(log) + 1 /\ Len(log) < MaxEvents
        /\ UNCHANGED <<handled, fan, live, final, scorer, page>>
    BY <1>1, TypeFacts DEF Emit
  <2>2. /\ \A n : n \in 0..Len(log) => n \in 0..Len(log')
        /\ \A n \in Nat : n <= Len(log) => n <= Len(log')
        /\ Len(log) < Len(log') /\ Len(log') <= MaxEvents
    BY <1>t, <2>1
  <2>3. RowsOK'
    BY <2>1, <2>2 DEF TypeInv, RowsOK
  <2>4. scorer.upto \in Nat
    BY TypeFacts
  <2>5. TasksOK'
    BY <1>t, <2>1, <2>2, <2>4 DEF TypeInv, TasksOK
  <2>6. \A d \in Dashboards : page[d].read \in Nat
    BY TypeFacts DEF Page
  <2>7. PagesOK'
    BY <2>1, <2>2, <2>6 DEF TypeInv, PagesOK
  <2> QED
    BY <2>3, <2>5, <2>7 DEF TypeInv
<1>2. CASE Take
  <2>1. TasksOK'
    BY <1>2, <1>t DEF Take, TypeInv, TasksOK
  <2> QED
    BY <1>2, <1>a, <1>b, <2>1 DEF Take, TypeInv
<1>3. CASE WriteLive
  <2>1. This \in 0..Len(log)
    BY <1>3, <1>t, TypeFacts DEF WriteLive
  <2>2. RowsOK'
    BY <1>3, <2>1 DEF WriteLive, TypeInv, RowsOK
  <2>3. TasksOK'
    BY <1>3 DEF WriteLive, TypeInv, TasksOK
  <2> QED
    BY <1>3, <1>a, <2>2, <2>3 DEF WriteLive, TypeInv
<1>4. CASE LiveFails
  <2>1. TasksOK'
    BY <1>4 DEF LiveFails, TypeInv, TasksOK
  <2> QED
    BY <1>4, <1>a, <1>b, <2>1 DEF LiveFails, TypeInv
<1>5. CASE PushLive
  <2>1. /\ Push("live", log[This], This) /\ fan = "pushing" /\ fan' = "forwarding"
        /\ UNCHANGED <<log, handled, live, final, scorer>>
    BY <1>5 DEF PushLive
  <2>2. PagesOK'
    <3>1. log[This] \in Keys /\ This \in Nat
      BY <1>t, <2>1, TypeFacts
    <3>2. page' \in [Dashboards -> Page] /\ \A d \in Dashboards : page'[d].read = page[d].read
      BY <2>1, <3>1, PushedPages
    <3> QED
      BY <2>1, <3>2 DEF TypeInv, PagesOK
  <2>3. TasksOK'
    BY <2>1 DEF TypeInv, TasksOK
  <2> QED
    BY <1>b, <2>1, <2>2, <2>3 DEF TypeInv
<1>6. CASE Forward
  <2>1. /\ fan = "forwarding" /\ handled' = This /\ fan' = "idle"
        /\ UNCHANGED <<log, live, final, scorer>>
        /\ page' = [d \in Dashboards |-> IF Registered(d) THEN WithEvents(page[d], {This}) ELSE page[d]]
    BY <1>6 DEF Forward
  <2>2. This \in 1..Len(log) /\ {This} \in SUBSET (1..MaxEvents)
    BY <1>t, <2>1, TypeFacts
  <2>3. PagesOK'
    <3>1. \A d \in Dashboards : /\ page[d] \in Page /\ page[d].read <= Len(log)
                                /\ WithEvents(page[d], {This}) \in Page
                                /\ WithEvents(page[d], {This}).read = page[d].read
      <4> TAKE d \in Dashboards
      <4>1. page[d] \in Page /\ page[d].read <= Len(log)
        BY TypeFacts
      <4>2. WithEvents(page[d], {This}) \in Page
            /\ WithEvents(page[d], {This}) = [page[d] EXCEPT !.events = page[d].events \cup {This}]
        BY <2>2, <4>1, WithEventsType
      <4>3. WithEvents(page[d], {This}).read = page[d].read
        BY <4>1, <4>2 DEF Page
      <4> QED
        BY <4>1, <4>2, <4>3
    <3> QED
      BY <2>1, <3>1 DEF PagesOK
  <2>4. TasksOK'
    BY <1>t, <2>1, <2>2 DEF TypeInv, TasksOK
  <2> QED
    BY <1>b, <2>1, <2>3, <2>4 DEF TypeInv
<1>7. CASE BeginScoring
  <2>1. scorer' \in Run /\ scorer'.upto <= Len(log)
    <3>1. Len(log) \in 0..MaxEvents /\ Len(log) <= Len(log)
      BY <1>t
    <3>2. scorer' = [scorer EXCEPT !.pc = "scoring", !.upto = Len(log),
                                   !.todo = {t \in TaskIds : t \in ToSet(log)}]
      BY <1>7 DEF BeginScoring
    <3> QED
      BY <1>t, <3>1, <3>2 DEF Run
  <2> QED
    BY <1>7, <1>a, <1>b, <1>u, <2>1 DEF BeginScoring, TypeInv
<1>8. CASE WriteFinal
  <2>1. scorer \in Run /\ scorer.upto \in 0..Len(log)
    BY TypeFacts
  <2>2. /\ \E t \in Keys : /\ final' = [final EXCEPT ![t] = scorer.upto]
                           /\ scorer' = [scorer EXCEPT !.pc = "pushing", !.at = t, !.todo = @ \ {t}]
        /\ UNCHANGED <<log, handled, fan, live, page>>
    BY <1>8 DEF WriteFinal
  <2>3. scorer' \in Run /\ scorer'.upto = scorer.upto
    BY <2>1, <2>2, ZenonT(30) DEF Run
  <2>4. RowsOK'
    BY <2>1, <2>2 DEF TypeInv, RowsOK
  <2> QED
    BY <1>a, <1>u, <2>1, <2>2, <2>3, <2>4 DEF TypeInv
<1>9. CASE PushFinal
  <2>1. /\ Push("final", scorer.at, scorer.upto)
        /\ scorer' = [scorer EXCEPT !.pc = IF scorer.at = 0 THEN "marking" ELSE "scoring", !.at = 0]
        /\ UNCHANGED <<log, handled, fan, live, final>>
    BY <1>9 DEF PushFinal
  <2>2. scorer.at \in Keys /\ scorer.upto \in Nat
    BY TypeFacts DEF Run
  <2>3. page' \in [Dashboards -> Page] /\ \A d \in Dashboards : page'[d].read = page[d].read
    BY <2>1, <2>2, PushedPages
  <2>4. PagesOK'
    BY <2>1, <2>3 DEF TypeInv, PagesOK
  <2>5. scorer' \in Run /\ scorer'.upto = scorer.upto
    <3>1. PICK q \in {"marking", "scoring"} : scorer' = [scorer EXCEPT !.pc = q, !.at = 0]
      BY <2>1
    <3>2. 0 \in Keys
      BY DEF Keys
    <3> QED
      BY <1>t, <3>1, <3>2 DEF Run
  <2>6. TasksOK'
    BY <1>u, <2>1, <2>5, TypeFacts
  <2> QED
    BY <1>b, <2>1, <2>4, <2>6 DEF TypeInv
<1>d. ASSUME NEW b \in BOOLEAN, Closing(b) PROVE scorer' \in Run /\ scorer'.upto = 0
  BY <1>d DEF Closing, Run, Keys
<1>10. CASE MarkScored
  <2>1. scorer' \in Run /\ scorer'.upto <= Len(log)
    <3>1. scorer' \in Run /\ scorer'.upto = 0
      BY <1>10, <1>d DEF MarkScored
    <3> QED
      BY <1>t, <3>1
  <2>2. UNCHANGED <<log, handled, fan, live, final, page>>
    BY <1>10 DEF MarkScored
  <2> QED
    BY <1>a, <1>b, <1>u, <2>1, <2>2 DEF TypeInv
<1>11. CASE StopScoring
  <2>1. scorer' \in Run /\ scorer'.upto <= Len(log)
    <3>1. scorer' \in Run /\ scorer'.upto = 0
      BY <1>11, <1>d DEF StopScoring
    <3> QED
      BY <1>t, <3>1
  <2>2. UNCHANGED <<log, handled, fan, live, final, page>>
    BY <1>11 DEF StopScoring
  <2> QED
    BY <1>a, <1>b, <1>u, <2>1, <2>2 DEF TypeInv
<1>12. CASE CloseBus
  <2>1. scorer' \in Run /\ scorer'.upto <= Len(log)
    BY <1>12, <1>t DEF CloseBus, Run
  <2> QED
    BY <1>12, <1>a, <1>b, <1>u, <2>1 DEF CloseBus, TypeInv
<1>13. CASE CloseCancelled
  <2>1. scorer' \in Run /\ scorer'.upto <= Len(log)
    BY <1>13, <1>t DEF CloseCancelled, Run
  <2> QED
    BY <1>13, <1>a, <1>b, <1>u, <2>1 DEF CloseCancelled, TypeInv
<1>14. ASSUME NEW d \in Dashboards, Connect(d) \/ Leave(d) \/ Replay(d) PROVE TypeInv'
  <2>1. /\ UNCHANGED <<log, handled, fan, live, final, scorer>>
        /\ \E p \in Page : page' = [page EXCEPT ![d] = p] /\ p.read <= Len(log)
    BY <1>14, PageStep
  <2>2. PagesOK'
    BY <2>1 DEF TypeInv, PagesOK
  <2> QED
    BY <1>b, <1>c, <2>1, <2>2 DEF TypeInv
<1>15. CASE UNCHANGED vars
  BY <1>15, <1>a, <1>b, <1>c DEF vars, TypeInv
<1> QED
  BY <1>1, <1>2, <1>3, <1>4, <1>5, <1>6, <1>7, <1>8, <1>9, <1>10, <1>11, <1>12, <1>13,
     <1>14, <1>15 DEF Next, Consume

LEMMA TypeInvariant == Spec => []TypeInv
<1>1. Init => TypeInv
  BY AwayType DEF Init, TypeInv, TypeOK, PagesOK, RowsOK, TasksOK, Away, NoRows, Run, Keys
<1> QED
  BY <1>1, TypeStep, PTL DEF Spec

(* The state keeps its types: no page has read past the log, and no row is  *)
(* worth an event that does not exist.                                      *)
THEOREM Typed == Spec => []TypeOK
<1>1. TypeInv => TypeOK
  BY DEF TypeInv, TypeOK, PagesOK, RowsOK, TasksOK
<1> QED
  BY <1>1, TypeInvariant, PTL

-------------------------------------------------------------------------------
(* No event is missed: a page that has read the log but not sent it has     *)
(* what was handled since among the live events, and the rest among what it *)
(* read.                                                                    *)
Past == {"showing", "between", "finishing", "watching"}

Covered(p) ==
  /\ p.pc = "listing" => 1..handled \subseteq p.events \cup (1..p.read)
  /\ p.pc \in Past => 1..handled \subseteq p.events

EventsInv == \A d \in Dashboards : Covered(page[d])

(* What a step of a page makes of it. *)
LEMMA PageCovered ==
  ASSUME TypeInv, EventsInv, NEW d \in Dashboards, Connect(d) \/ Leave(d) \/ Replay(d)
  PROVE  Covered(page'[d]) /\ handled' = handled
<1> USE DEF Becomes
<1>t. /\ page \in [Dashboards -> Page] /\ page[d] \in Page /\ page[d].read <= Len(log) /\ Len(log) \in Nat
      /\ handled \in Nat /\ handled <= Len(log)
  BY TypeFacts
<1>h. handled' = handled
  BY PageStep
<1>e. Covered(page[d])
  BY DEF EventsInv
<1>1. CASE Connect(d)
  BY <1>1, <1>t DEF Connect, Covered, Past, Away
<1>2. CASE Leave(d)
  BY <1>2, <1>t DEF Leave, Covered, Past, Away
<1>3. CASE ReadEvents(d)
  <2>1. page'[d].pc = "listing" /\ page'[d].read = Len(log)
    BY <1>3, <1>t DEF ReadEvents, Page
  <2>2. 1..handled \subseteq 1..Len(log)
    BY <1>t
  <2> QED
    BY <1>h, <2>1, <2>2 DEF Covered, Past
<1>4. CASE SendEvents(d)
  <2>1. page[d].pc = "listing" /\ page'[d].pc = "showing"
        /\ page'[d].events = page[d].events \cup (1..page[d].read)
    BY <1>4, <1>t DEF SendEvents, WithEvents, Page
  <2> QED
    BY <1>e, <1>h, <2>1 DEF Covered, Past
<1>5. CASE SendLive(d)
  <2>1. SendRows(page[d], "live") \in Page /\ SendRows(page[d], "live").events = page[d].events
    BY <1>t, SendRowsType
  <2>2. page[d].pc = "showing" /\ page'[d].pc = "between" /\ page'[d].events = page[d].events
    BY <1>5, <1>t, <2>1 DEF SendLive, Page
  <2> QED
    BY <1>e, <1>h, <2>2 DEF Covered, Past
<1>6. CASE ReadFinal(d)
  <2>1. page[d].pc = "between" /\ page'[d].pc = "finishing" /\ page'[d].events = page[d].events
    BY <1>6, <1>t DEF ReadFinal, Page
  <2> QED
    BY <1>e, <1>h, <2>1 DEF Covered, Past
<1>7. CASE SendFinal(d)
  <2>1. SendRows(page[d], "final") \in Page /\ SendRows(page[d], "final").events = page[d].events
    BY <1>t, SendRowsType
  <2>2. page[d].pc = "finishing" /\ page'[d].pc = "watching" /\ page'[d].events = page[d].events
    BY <1>7, <1>t, <2>1 DEF SendFinal, Page
  <2> QED
    BY <1>e, <1>h, <2>2 DEF Covered, Past
<1> QED
  BY <1>h, <1>1, <1>2, <1>3, <1>4, <1>5, <1>6, <1>7 DEF Replay

LEMMA EventsStep ==
  ASSUME TypeInv, EventsInv, [Next]_vars
  PROVE  EventsInv'
<1>1. ASSUME UNCHANGED <<handled, page>> PROVE EventsInv'
  BY <1>1 DEF EventsInv, Covered
<1>2. ASSUME NEW phase \in {"live", "final"}, NEW t \in Keys, NEW n \in Nat,
             Push(phase, t, n), handled' = handled
      PROVE  EventsInv'
  <2>1. \A d \in Dashboards : /\ page'[d].pc = page[d].pc /\ page'[d].read = page[d].read
                              /\ page'[d].events = page[d].events
    BY <1>2, PushedPages
  <2> QED
    BY <1>2, <2>1 DEF EventsInv, Covered
<1>3. ASSUME NEW t \in Keys, Emit(t) PROVE EventsInv'
  BY <1>1, <1>3 DEF Emit
<1>4. CASE Take \/ WriteLive \/ LiveFails
  BY <1>1, <1>4 DEF Take, WriteLive, LiveFails
<1>5. CASE PushLive
  <2>1. fan = "pushing" /\ Push("live", log[This], This) /\ handled' = handled
    BY <1>5 DEF PushLive
  <2>2. log[This] \in Keys /\ This \in Nat
    BY <2>1, TypeFacts
  <2> QED
    BY <1>2, <2>1, <2>2
<1>6. CASE Forward
  <2>1. /\ fan = "forwarding" /\ handled' = This
        /\ page' = [d \in Dashboards |-> IF Registered(d) THEN WithEvents(page[d], {This}) ELSE page[d]]
    BY <1>6 DEF Forward
  <2>2. This \in 1..Len(log) /\ {This} \in SUBSET (1..MaxEvents) /\ handled \in Nat
    BY <2>1, TypeFacts
  <2>3. 1..handled' \subseteq (1..handled) \cup {This}
    BY <2>1, <2>2 DEF This
  <2>4. ASSUME NEW d \in Dashboards PROVE Covered(page[d])'
    <3>1. page[d] \in Page
      BY TypeFacts
    <3>2. CASE Registered(d)
      <4>1. page'[d] = [page[d] EXCEPT !.events = page[d].events \cup {This}]
        BY <2>1, <2>2, <3>1, <3>2, WithEventsType
      <4>2. /\ page'[d].pc = page[d].pc /\ page'[d].read = page[d].read
            /\ page'[d].events = page[d].events \cup {This}
        BY <3>1, <4>1 DEF Page
      <4> QED
        BY <2>3, <4>2 DEF EventsInv, Covered
    <3>3. CASE ~Registered(d)
      <4>1. page'[d].pc = "away"
        BY <2>1, <3>3 DEF Registered
      <4> QED
        BY <4>1 DEF Covered, Past
    <3> QED
      BY <3>2, <3>3
  <2> QED
    BY <2>4 DEF EventsInv
<1>7. CASE PushFinal
  <2>1. Push("final", scorer.at, scorer.upto) /\ handled' = handled
    BY <1>7 DEF PushFinal
  <2>2. scorer.at \in Keys /\ scorer.upto \in Nat
    BY TypeFacts DEF Run
  <2> QED
    BY <1>2, <2>1, <2>2
<1>8. CASE BeginScoring \/ WriteFinal \/ MarkScored \/ StopScoring \/ CloseBus \/ CloseCancelled
  BY <1>1, <1>8 DEF BeginScoring, WriteFinal, MarkScored, StopScoring, CloseBus, CloseCancelled
<1>9. ASSUME NEW d \in Dashboards, Connect(d) \/ Leave(d) \/ Replay(d) PROVE EventsInv'
  <2>1. Covered(page'[d]) /\ handled' = handled
    BY <1>9, PageCovered
  <2>2. \A c \in Dashboards \ {d} : page'[c] = page[c]
    BY <1>9, TypeFacts, PageStep
  <2> QED
    BY <2>1, <2>2 DEF EventsInv, Covered
<1>10. CASE UNCHANGED vars
  BY <1>1, <1>10 DEF vars
<1> QED
  BY <1>3, <1>4, <1>5, <1>6, <1>7, <1>8, <1>9, <1>10 DEF Next, Consume

(* Whenever a dashboard connects, the replay and the live events together   *)
(* leave no gap.                                                            *)
THEOREM NothingMissed == Spec => []NoEventMissed
<1>1. Init => EventsInv
  BY DEF Init, EventsInv, Covered, Past, Away
<1>2. EventsInv => NoEventMissed
  BY DEF EventsInv, Covered, Past, NoEventMissed
<1> QED
  BY <1>1, <1>2, EventsStep, TypeInvariant, PTL DEF Spec

-------------------------------------------------------------------------------
(* Final rows.  While the run goes on, or once it has marked the session    *)
(* scored, a page whose replay is over was sent every final row but the one *)
(* the run is about to push, and a page that is about to send the final     *)
(* rows it read lacks no others.                                            *)
Finals == {t \in Keys : final[t] # 0}
Pending == IF scorer.pc = "pushing" THEN {scorer.at} ELSE {}
Going == scorer.pc \in {"idle", "scoring", "pushing", "marking"} \/ scorer.scored

Served(p) ==
  /\ p.pc = "watching" => Finals \ Pending \subseteq p.finals
  /\ p.pc = "finishing" => Finals \ Pending \subseteq p.finals \cup {t \in Keys : p.rows[t] # 0}

FinalsInv ==
  /\ scorer.scored => scorer.pc \in {"closing", "closed"}
  /\ Going => \A d \in Dashboards : Served(page[d])

LEMMA PageServed ==
  ASSUME TypeInv, NEW d \in Dashboards, Served(page[d]), Connect(d) \/ Leave(d) \/ Replay(d)
  PROVE  Served(page[d])'
<1> USE DEF Becomes
<1>t. page \in [Dashboards -> Page] /\ page[d] \in Page
  BY TypeFacts
<1>h. final' = final /\ scorer' = scorer
  BY PageStep
<1>s. Finals' = Finals /\ Pending' = Pending
  BY <1>h DEF Finals, Pending
<1>1. CASE page'[d].pc \notin {"finishing", "watching"}
  BY <1>1 DEF Served
<1>2. CASE ReadFinal(d)
  <2>1. page'[d].pc = "finishing" /\ page'[d].rows = final
    BY <1>2, <1>t DEF ReadFinal, Page
  <2> QED
    BY <1>s, <2>1 DEF Served, Finals
<1>3. CASE SendFinal(d)
  <2>1. /\ SendRows(page[d], "final") \in Page
        /\ SendRows(page[d], "final").finals = page[d].finals \cup {t \in Keys : page[d].rows[t] # 0}
    BY <1>t, SendRowsType
  <2>2. page[d].pc = "finishing" /\ page'[d].pc = "watching"
        /\ page'[d].finals = page[d].finals \cup {t \in Keys : page[d].rows[t] # 0}
    BY <1>3, <1>t, <2>1 DEF SendFinal, Page
  <2> QED
    BY <1>s, <2>2 DEF Served
<1>4. CASE SendLive(d)
  <2>1. SendRows(page[d], "live") \in Page
    BY <1>t, SendRowsType
  <2>2. page'[d].pc = "between"
    BY <1>4, <1>t, <2>1 DEF SendLive, Page
  <2> QED
    BY <1>1, <2>2
<1>5. CASE SendEvents(d)
  <2>1. page'[d].pc = "showing"
    BY <1>5, <1>t DEF SendEvents, WithEvents, Page
  <2> QED
    BY <1>1, <2>1
<1>6. CASE Connect(d) \/ Leave(d) \/ ReadEvents(d)
  <2>1. page'[d].pc \in {"connected", "away", "listing"}
    <3>1. CASE Connect(d) \/ Leave(d)
      BY <1>t, <3>1 DEF Connect, Leave, Away
    <3>2. CASE ReadEvents(d)
      BY <1>t, <3>2 DEF ReadEvents, Page
    <3> QED
      BY <1>6, <3>1, <3>2
  <2> QED
    BY <1>1, <2>1
<1> QED
  BY <1>2, <1>3, <1>4, <1>5, <1>6 DEF Replay

LEMMA FinalsStep ==
  ASSUME TypeInv, FinalsInv, [Next]_vars
  PROVE  FinalsInv'
<1>t. scorer \in Run /\ page \in [Dashboards -> Page] /\ final \in [Keys -> Nat]
  BY TypeFacts
(* The pages keep where they are and what they have of the final rows.      *)
<1>a. ASSUME UNCHANGED <<final, scorer>>,
             \A d \in Dashboards : /\ page'[d].pc = page[d].pc /\ page'[d].rows = page[d].rows
                                   /\ page'[d].finals = page[d].finals
      PROVE  FinalsInv'
  BY <1>a DEF FinalsInv, Going, Served, Finals, Pending
<1>1. ASSUME NEW t \in Keys, Emit(t) PROVE FinalsInv'
  BY <1>1, <1>a DEF Emit
<1>2. CASE Take \/ WriteLive \/ LiveFails
  BY <1>2, <1>a DEF Take, WriteLive, LiveFails
<1>3. CASE PushLive
  <2>1. fan = "pushing" /\ Push("live", log[This], This) /\ UNCHANGED <<final, scorer>>
    BY <1>3 DEF PushLive
  <2>2. log[This] \in Keys /\ This \in Nat
    BY <2>1, TypeFacts
  <2>3. \A d \in Dashboards : /\ page'[d].pc = page[d].pc /\ page'[d].rows = page[d].rows
                              /\ page'[d].finals = page[d].finals
    BY <2>1, <2>2, PushedPages
  <2> QED
    BY <1>a, <2>1, <2>3
<1>4. CASE Forward
  <2>1. /\ fan = "forwarding" /\ UNCHANGED <<final, scorer>>
        /\ page' = [d \in Dashboards |-> IF Registered(d) THEN WithEvents(page[d], {This}) ELSE page[d]]
    BY <1>4 DEF Forward
  <2>2. ASSUME NEW d \in Dashboards
        PROVE  /\ page'[d].pc = page[d].pc /\ page'[d].rows = page[d].rows
               /\ page'[d].finals = page[d].finals
    <3>1. page[d] \in Page
      BY TypeFacts
    <3>2. page'[d] = WithEvents(page[d], {This}) \/ page'[d] = page[d]
      BY <2>1
    <3> QED
      BY <3>1, <3>2 DEF WithEvents, Page
  <2> QED
    BY <1>a, <2>1, <2>2
<1>5. CASE BeginScoring
  <2>1. scorer.pc = "idle" /\ scorer'.pc = "scoring" /\ scorer'.scored = scorer.scored
        /\ UNCHANGED <<final, page>>
    BY <1>5, <1>t DEF BeginScoring, Run
  <2> QED
    BY <2>1 DEF FinalsInv, Going, Served, Finals, Pending
<1>6. CASE WriteFinal
  <2>1. PICK t \in Keys : /\ final' = [final EXCEPT ![t] = scorer.upto]
                          /\ scorer' = [scorer EXCEPT !.pc = "pushing", !.at = t, !.todo = @ \ {t}]
    BY <1>6 DEF WriteFinal
  <2>2. scorer.pc = "scoring" /\ page' = page
    BY <1>6 DEF WriteFinal
  <2>3. scorer'.pc = "pushing" /\ scorer'.at = t /\ scorer'.scored = scorer.scored
    BY <1>t, <2>1 DEF Run
  <2>4. \A u \in Keys \ {t} : final'[u] = final[u]
    BY <1>t, <2>1
  <2>5. Finals' \ Pending' \subseteq Finals \ Pending
    BY <2>2, <2>3, <2>4 DEF Finals, Pending
  <2> QED
    BY <2>2, <2>3, <2>5 DEF FinalsInv, Going, Served
<1>7. CASE PushFinal
  <2>1. /\ scorer.pc = "pushing" /\ Push("final", scorer.at, scorer.upto)
        /\ scorer' = [scorer EXCEPT !.pc = IF scorer.at = 0 THEN "marking" ELSE "scoring", !.at = 0]
        /\ UNCHANGED <<log, handled, fan, live, final>>
    BY <1>7 DEF PushFinal
  <2>2. scorer.at \in Keys /\ scorer.upto \in Nat
    BY <1>t, TypeFacts DEF Run
  <2>3. scorer'.pc \in {"marking", "scoring"} /\ scorer'.scored = scorer.scored
    <3>1. PICK q \in {"marking", "scoring"} : scorer' = [scorer EXCEPT !.pc = q, !.at = 0]
      BY <2>1
    <3> QED
      BY <1>t, <3>1 DEF Run
  <2>4. ASSUME NEW d \in Dashboards PROVE Served(page[d])'
    <3>1. /\ page'[d].pc = page[d].pc /\ page'[d].rows = page[d].rows
          /\ page'[d].finals = IF Registered(d) THEN page[d].finals \cup {scorer.at} ELSE page[d].finals
      BY <2>1, <2>2, PushedPages
    <3>2. page[d].pc \in {"finishing", "watching"} => Registered(d)
      BY DEF Registered
    <3>3. Served(page[d]) /\ Pending = {scorer.at} /\ Pending' = {} /\ Finals' = Finals
      BY <2>1, <2>3 DEF FinalsInv, Going, Pending, Finals
    <3> QED
      BY <3>1, <3>2, <3>3 DEF Served
  <2> QED
    BY <2>1, <2>3, <2>4 DEF FinalsInv
<1>8. CASE MarkScored
  <2>1. /\ scorer.pc \in {"marking", "scoring"} /\ scorer'.pc = "closing" /\ UNCHANGED <<final, page>>
    BY <1>8 DEF MarkScored, Closing
  <2> QED
    BY <2>1 DEF FinalsInv, Going, Served, Finals, Pending
<1>9. CASE StopScoring
  <2>1. scorer'.pc = "closing" /\ scorer'.scored = FALSE
    BY <1>9 DEF StopScoring, Closing
  <2> QED
    BY <2>1 DEF FinalsInv, Going
<1>10. CASE CloseBus \/ CloseCancelled
  <2>1. scorer.pc = "closing" /\ scorer' = [scorer EXCEPT !.pc = "closed"] /\ UNCHANGED <<final, page>>
    BY <1>10 DEF CloseBus, CloseCancelled
  <2>2. scorer'.pc = "closed" /\ scorer'.scored = scorer.scored
    BY <1>t, <2>1 DEF Run
  <2> QED
    BY <2>1, <2>2 DEF FinalsInv, Going, Served, Finals, Pending
<1>11. ASSUME NEW d \in Dashboards, Connect(d) \/ Leave(d) \/ Replay(d) PROVE FinalsInv'
  <2>1. /\ UNCHANGED <<final, scorer>> /\ \A c \in Dashboards \ {d} : page'[c] = page[c]
    BY <1>11, <1>t, PageStep
  <2>2. Going => Served(page[d])'
    BY <1>11, PageServed DEF FinalsInv
  <2> QED
    BY <2>1, <2>2 DEF FinalsInv, Going, Served, Finals, Pending
<1>12. CASE UNCHANGED vars
  BY <1>12, <1>a DEF vars
<1> QED
  BY <1>1, <1>2, <1>3, <1>4, <1>5, <1>6, <1>7, <1>8, <1>9, <1>10, <1>11, <1>12 DEF Next, Consume

(* However replay, push and scoring run interleave, a dashboard that is     *)
(* through with its replay has every final row of a scored session.         *)
THEOREM FinalsReach == Spec => []FinalReaches
<1>1. Init => FinalsInv
  BY DEF Init, FinalsInv, Going, Served, Away
<1>2. FinalsInv => FinalReaches
  <2> SUFFICES ASSUME FinalsInv, scorer.scored, NEW d \in Dashboards, page[d].pc = "watching"
               PROVE  {t \in Keys : final[t] # 0} \subseteq page[d].finals
    BY DEF FinalReaches
  <2> QED
    BY DEF FinalsInv, Going, Served, Finals, Pending
<1> QED
  BY <1>1, <1>2, FinalsStep, TypeInvariant, PTL DEF Spec
================================================================================
