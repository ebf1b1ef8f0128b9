------------------------- MODULE SessionBudgetProofs -------------------------
(***************************************************************************)
(* The executions and the chat tokens of a session are metered budgets:     *)
(* SessionBudget implements CappedMeter twice, and one argument about       *)
(* metered budgets bounds how far a session passes either cap.             *)
(***************************************************************************)
EXTENDS SessionBudget, FiniteSetTheorems, TLAPS

USE BudgetAssumption

(* A handler's locals stay in range. *)
LEMMA LocalTyped ==
  ASSUME NEW l \in Local
  PROVE  /\ Fresh \in Local
         /\ \A p \in {"ready", "running"} \cup Chatting : [l EXCEPT !.pc = p] \in Local
         /\ \A p \in {"ready", "running"} \cup Chatting, h \in Seq(Roles) :
              [l EXCEPT !.pc = p, !.history = h] \in Local
         /\ \A p \in {"ready", "running"} \cup Chatting, n \in 0..MaxPrompt :
              [l EXCEPT !.pc = p, !.used = n] \in Local
<1>1. <<>> \in Seq(Roles) /\ 0 \in 0..MaxPrompt
  OBVIOUS
<1> QED
  BY <1>1 DEF Local, Fresh

(* What the handlers make of a history is one. *)
LEMMA HistoryTyped ==
  ASSUME NEW h \in Seq(Roles)
  PROVE  /\ Append(h, "assistant") \in Seq(Roles)
         /\ Trim(Append(h, "user")) \in Seq(Roles)
         /\ SubSeq(h, 1, Len(h) - 1) \in Seq(Roles)
<1>1. \A r \in Roles : Append(h, r) \in Seq(Roles)
  OBVIOUS
<1>2. \A g \in Seq(Roles) : Trim(g) \in Seq(Roles)
  <2> TAKE g \in Seq(Roles)
  <2>1. CASE Len(g) <= MaxHistory
    BY <2>1 DEF Trim
  <2>2. CASE Len(g) > MaxHistory
    <3>1. Len(g) \in Nat /\ Len(g) - MaxHistory + 1 \in 1..(Len(g) + 1)
      BY <2>2
    <3>2. SubSeq(g, Len(g) - MaxHistory + 1, Len(g)) \in Seq(Roles)
      BY <3>1
    <3> QED
      BY <2>2, <3>1, <3>2 DEF Trim
  <2> QED
    <3>1. Len(g) \in Nat /\ MaxHistory \in Nat
      OBVIOUS
    <3> QED
      BY <3>1, <2>1, <2>2
<1>3. SubSeq(h, 1, Len(h) - 1) \in Seq(Roles)
  <2>1. Len(h) \in Nat
    OBVIOUS
  <2>2. \A i \in 1..(Len(h) - 1) : h[i] \in Roles
    BY <2>1
  <2> QED
    BY <2>1, <2>2
<1> QED
  BY <1>1, <1>2, <1>3 DEF Roles

(* Every step keeps the types. *)
LEMMA StepTyped == TypeOK /\ [Next]_vars => TypeOK'
<1> SUFFICES ASSUME TypeOK, [Next]_vars PROVE TypeOK'
  OBVIOUS
<1> USE DEF TypeOK, turns
<1>a. {"ready", "running", "prompting", "streaming", "billing", "answering", "failing",
       "charging", "dropping"} = {"ready", "running"} \cup Chatting
  BY DEF Chatting
<1>b. ASSUME NEW k \in Sockets, NEW l \in Local, sock' = [sock EXCEPT ![k] = l]
      PROVE  sock' \in [Sockets -> Local]
  BY <1>b
<1>c. \A k \in Sockets : sock[k] \in Local
  OBVIOUS
<1>d. ASSUME NEW k \in Sockets, NEW p \in {"ready", "running"} \cup Chatting, Goto(k, p)
      PROVE  sock' \in [Sockets -> Local]
  <2>1. [sock[k] EXCEPT !.pc = p] \in Local
    BY <1>c, LocalTyped
  <2> QED
    BY <1>d, <1>b, <2>1 DEF Goto
<1>e. ASSUME NEW k \in Sockets
      PROVE  sock[k].history \in Seq(Roles) /\ sock[k].used \in 0..MaxPrompt
  BY <1>c DEF Local
<1>1. ASSUME NEW k \in Sockets, CheckRun(k) PROVE TypeOK'
  BY <1>1, <1>a, <1>d DEF CheckRun
<1>2. ASSUME NEW k \in Sockets, EmitExecuted(k) PROVE TypeOK'
  BY <1>2, <1>a, <1>d DEF EmitExecuted
<1>3. ASSUME NEW k \in Sockets, CheckChat(k) PROVE TypeOK'
  BY <1>3, <1>a, <1>d DEF CheckChat
<1>4. ASSUME NEW k \in Sockets, EmitPrompt(k) PROVE TypeOK'
  <2> DEFINE h == Trim(Append(sock[k].history, "user"))
  <2>1. [sock[k] EXCEPT !.pc = "streaming", !.history = h] \in Local
    <3>1. h \in Seq(Roles)
      BY <1>e, HistoryTyped
    <3> HIDE DEF h
    <3> QED
      BY <3>1, <1>a, <1>c, LocalTyped
  <2>2. sock' = [sock EXCEPT ![k] = [sock[k] EXCEPT !.pc = "streaming", !.history = h]]
    BY <1>4 DEF EmitPrompt
  <2>3. sock' \in [Sockets -> Local]
    BY <2>1, <2>2, <1>b
  <2> QED
    BY <1>4, <2>3 DEF EmitPrompt
<1>5. ASSUME NEW k \in Sockets, NEW p \in {"billing", "failing"}, NEW n \in 0..MaxPrompt,
             sock' = [sock EXCEPT ![k].pc = p, ![k].used = n]
      PROVE  sock' \in [Sockets -> Local]
  <2>1. [sock[k] EXCEPT !.pc = p, !.used = n] \in Local
    BY <1>a, <1>c, LocalTyped
  <2> QED
    BY <1>5, <2>1, <1>b
<1>6. ASSUME NEW k \in Sockets, StreamEnds(k) PROVE TypeOK'
  BY <1>5, <1>6 DEF StreamEnds
<1>7. ASSUME NEW k \in Sockets, StreamFails(k) PROVE TypeOK'
  BY <1>5, <1>7 DEF StreamFails
<1>8. ASSUME NEW k \in Sockets, Record(k) PROVE TypeOK'
  <2> DEFINE h == Append(sock[k].history, "assistant")
  <2>1. [sock[k] EXCEPT !.pc = "answering", !.used = 0, !.history = h] \in Local
    <3>1. h \in Seq(Roles) /\ 0 \in 0..MaxPrompt
      BY <1>e, HistoryTyped
    <3> HIDE DEF h
    <3> QED
      BY <3>1, <1>a, <1>c DEF Local
  <2>2. sock' = [sock EXCEPT ![k] = [sock[k] EXCEPT !.pc = "answering", !.used = 0, !.history = h]]
    BY <1>8 DEF Record
  <2>3. sock' \in [Sockets -> Local]
    BY <2>1, <2>2, <1>b
  <2>4. tokens' \in Nat /\ calls' \in [ok : Nat, error : Nat]
    <3>1. sock[k].used \in Nat /\ tokens \in Nat
      BY <1>e
    <3>2. tokens' = tokens + sock[k].used /\ calls' = [calls EXCEPT !.ok = @ + 1]
      BY <1>8 DEF Record
    <3>3. calls \in [ok : Nat, error : Nat]
      OBVIOUS
    <3>4. calls' \in [ok : Nat, error : Nat]
      BY <3>2, <3>3
    <3> QED
      BY <3>1, <3>2, <3>4
  <2> QED
    BY <1>8, <2>3, <2>4 DEF Record
<1>9. ASSUME NEW k \in Sockets, EmitResponse(k) PROVE TypeOK'
  BY <1>9, <1>a, <1>d DEF EmitResponse
<1>10. ASSUME NEW k \in Sockets, EmitError(k) PROVE TypeOK'
  BY <1>10, <1>a, <1>d DEF EmitError
<1>11. ASSUME NEW k \in Sockets, RecordError(k) PROVE TypeOK'
  <2>1. [sock[k] EXCEPT !.pc = "dropping", !.used = 0] \in Local
    BY <1>a, <1>c, 0 \in 0..MaxPrompt, LocalTyped
  <2>2. sock' \in [Sockets -> Local]
    <3>1. sock' = [sock EXCEPT ![k] = [sock[k] EXCEPT !.pc = "dropping", !.used = 0]]
      BY <1>11 DEF RecordError
    <3> QED
      BY <2>1, <3>1, <1>b
  <2>3. tokens' \in Nat /\ calls' \in [ok : Nat, error : Nat]
    <3>1. sock[k].used \in Nat /\ tokens \in Nat
      BY <1>e
    <3>2. tokens' = tokens + sock[k].used /\ calls' = [calls EXCEPT !.error = @ + 1]
      BY <1>11 DEF RecordError
    <3>3. calls \in [ok : Nat, error : Nat]
      OBVIOUS
    <3>4. calls' \in [ok : Nat, error : Nat]
      BY <3>2, <3>3
    <3> QED
      BY <3>1, <3>2, <3>4
  <2> QED
    BY <1>11, <2>2, <2>3 DEF RecordError
<1>12. ASSUME NEW k \in Sockets, DropTurn(k) PROVE TypeOK'
  <2> DEFINE h == SubSeq(sock[k].history, 1, Len(sock[k].history) - 1)
  <2>1. [sock[k] EXCEPT !.pc = "ready", !.history = h] \in Local
    <3>1. h \in Seq(Roles)
      BY <1>e, HistoryTyped
    <3> HIDE DEF h
    <3> QED
      BY <3>1, <1>a, <1>c, LocalTyped
  <2>2. sock' = [sock EXCEPT ![k] = [sock[k] EXCEPT !.pc = "ready", !.history = h]]
    BY <1>12 DEF DropTurn
  <2>3. sock' \in [Sockets -> Local]
    BY <2>1, <2>2, <1>b
  <2> QED
    BY <1>12, <2>3 DEF DropTurn
<1>13. ASSUME NEW k \in Sockets, Renew(k) PROVE TypeOK'
  BY <1>13, <1>b, <1>c, LocalTyped DEF Renew
<1>14. ASSUME NEW k \in Sockets, HandlerDies(k) PROVE TypeOK'
  BY <1>14, <1>b, <1>c, LocalTyped DEF HandlerDies
<1>15. ASSUME Restart PROVE TypeOK'
  <2>1. ASSUME NEW k \in Sockets PROVE Fresh \in Local
    BY <1>c, LocalTyped
  <2> QED
    BY <1>15, <2>1 DEF Restart
<1>16. CASE UNCHANGED vars
  BY <1>16 DEF vars
<1> QED
  BY <1>1, <1>2, <1>3, <1>4, <1>6, <1>7, <1>8, <1>9, <1>10, <1>11, <1>12, <1>13, <1>14,
     <1>15, <1>16 DEF Next, Run, Chat

(* Type correctness of the budgets and of every handler's locals. *)
THEOREM BudgetTyped == Spec => []TypeOK
<1>1. Init => TypeOK
  <2> SUFFICES ASSUME Init PROVE TypeOK
    OBVIOUS
  <2>1. Fresh \in Local
    <3>1. <<>> \in Seq(Roles) /\ 0 \in 0..MaxPrompt
      OBVIOUS
    <3> QED
      BY <3>1 DEF Fresh, Local
  <2> QED
    BY <2>1 DEF Init, TypeOK
<1> QED
  BY <1>1, StepTyped, PTL DEF Spec

-------------------------------------------------------------------------------
(* The executions implement the metered budget. *)

(* Every step admits one execution, records one, or forgets some. *)
LEMMA RunStep ==
  TypeOK /\ [Next]_vars =>
    \/ \E k \in Sockets :
         \/ /\ k \notin Running /\ executed < RunCap
            /\ Running' = Running \cup {k} /\ executed' = executed
         \/ /\ k \in Running
            /\ Running' = Running \ {k} /\ executed' = executed + 1
    \/ Running' \in SUBSET Running /\ executed' = executed
<1> SUFFICES ASSUME TypeOK, [Next]_vars
             PROVE  \/ \E k \in Sockets :
                         \/ /\ k \notin Running /\ executed < RunCap
                            /\ Running' = Running \cup {k} /\ executed' = executed
                         \/ /\ k \in Running
                            /\ Running' = Running \ {k} /\ executed' = executed + 1
                    \/ Running' \in SUBSET Running /\ executed' = executed
  OBVIOUS
<1> USE DEF Running, At, Local, Chatting
<1>a. sock \in [Sockets -> Local]
  BY DEF TypeOK
<1>1. ASSUME NEW k \in Sockets, CheckRun(k)
      PROVE  /\ k \notin Running /\ executed < RunCap
             /\ Running' = Running \cup {k} /\ executed' = executed
  BY <1>1, <1>a DEF CheckRun, Goto
<1>2. ASSUME NEW k \in Sockets, EmitExecuted(k)
      PROVE  /\ k \in Running
             /\ Running' = Running \ {k} /\ executed' = executed + 1
  BY <1>2, <1>a DEF EmitExecuted, Goto
<1>3. ASSUME NEW k \in Sockets, Chat(k) PROVE Running' \in SUBSET Running /\ executed' = executed
  <2>1. sock'[k].pc # "running" /\ \A j \in Sockets \ {k} : sock'[j] = sock[j]
    BY <1>3, <1>a DEF Chat, CheckChat, EmitPrompt, StreamEnds, Record, EmitResponse, StreamFails,
                      EmitError, RecordError, DropTurn, Goto
  <2>2. executed' = executed
    BY <1>3 DEF Chat, CheckChat, EmitPrompt, StreamEnds, Record, EmitResponse, StreamFails,
                EmitError, RecordError, DropTurn
  <2> QED
    BY <2>1, <2>2
<1>4. ASSUME NEW k \in Sockets, Renew(k) \/ HandlerDies(k)
      PROVE  Running' \in SUBSET Running /\ executed' = executed
  <2>1. sock' = [sock EXCEPT ![k] = Fresh] /\ executed' = executed
    BY <1>4 DEF Renew, HandlerDies
  <2>2. sock'[k].pc # "running" /\ \A j \in Sockets \ {k} : sock'[j] = sock[j]
    BY <2>1, <1>a DEF Fresh
  <2> QED
    BY <2>1, <2>2
<1>5. ASSUME Restart PROVE Running' \in SUBSET Running /\ executed' = executed
  BY <1>5 DEF Restart, Fresh
<1>6. CASE UNCHANGED vars
  BY <1>6 DEF vars
<1> QED
  BY <1>1, <1>2, <1>3, <1>4, <1>5, <1>6 DEF Next, Run

(* The executions of a session are a metered budget, for any number of       *)
(* sockets, reconnects and restarts: the session implements CappedMeter.    *)
THEOREM SessionRunsMetered == Spec => RunsMetered
<1>1. Init => RunMeter!Init
  BY DEF Init, RunMeter!Init, Running, At, Fresh
<1>2. TypeOK /\ [Next]_vars => [RunMeter!Next]_(RunMeter!vars)
  <2> SUFFICES ASSUME TypeOK, [Next]_vars PROVE RunMeter!Next
    OBVIOUS
  <2>1. 1 \in 0..1 /\ Running \in SUBSET Sockets
    BY DEF Running
  <2> QED
    BY <2>1, RunStep DEF RunMeter!Next, RunMeter!Admit, RunMeter!Charge, RunMeter!Forget
<1> QED
  BY <1>1, <1>2, BudgetTyped, PTL DEF Spec, RunsMetered, RunMeter!Spec

-------------------------------------------------------------------------------
(* A total that is checked before a use and charged after it: the argument, *)
(* for the executions and for the chat tokens at once.                      *)

(* What is recorded and what the admitted uses may still add.  A use is     *)
(* admitted below the cap, beside at most all the other sockets.            *)
Committed(Cap, MaxCharge, total, busy) ==
  total + MaxCharge * Cardinality(busy) < Cap + MaxCharge * Cardinality(Sockets)

(* A use is admitted below the cap, or charged, or uses are forgotten.      *)
MeterStep(Cap, MaxCharge, total, busy, total2, busy2) ==
  \/ \E k \in Sockets :
       \/ k \notin busy /\ total < Cap /\ busy2 = busy \cup {k} /\ total2 = total
       \/ k \in busy /\ busy2 = busy \ {k} /\ \E n \in 0..MaxCharge : total2 = total + n
  \/ busy2 \in SUBSET busy /\ total2 = total

(* Sets of sockets are finite and have at most as many elements as Sockets. *)
LEMMA BusyFinite ==
  ASSUME NEW B \in SUBSET Sockets
  PROVE  /\ IsFiniteSet(B)
         /\ Cardinality(B) \in Nat
         /\ Cardinality(Sockets) \in Nat
         /\ Cardinality(B) <= Cardinality(Sockets)
BY FS_Subset, FS_CardinalityType

(* A charge times a cardinality is a natural number that grows with it. *)
LEMMA Scaled ==
  ASSUME NEW c \in Nat, NEW m \in Nat, NEW n \in Nat, m <= n
  PROVE  /\ c * m \in Nat
         /\ c * n \in Nat
         /\ c * m <= c * n
         /\ c * (m + 1) = c * m + c
BY Z3

(* No use is under way and nothing is recorded at the start. *)
LEMMA MeterStarts ==
  ASSUME NEW Cap \in Nat \ {0}, NEW c \in Nat
  PROVE  Committed(Cap, c, 0, {})
<1>1. Cardinality({}) = 0 /\ Cardinality(Sockets) \in Nat
  BY FS_EmptySet, FS_CardinalityType
<1>2. c * Cardinality(Sockets) \in Nat /\ c * 0 = 0
  BY <1>1
<1> QED
  BY <1>1, <1>2 DEF Committed

(* What is recorded is less than what is committed. *)
LEMMA MeterBounded ==
  ASSUME NEW Cap \in Nat \ {0}, NEW c \in Nat, NEW total \in Nat,
         NEW busy \in SUBSET Sockets, Committed(Cap, c, total, busy)
  PROVE  total < Cap + c * Cardinality(Sockets)
<1>1. /\ Cardinality(busy) \in Nat /\ Cardinality(Sockets) \in Nat
      /\ Cardinality(busy) <= Cardinality(Sockets)
  BY BusyFinite
<1>2. c * Cardinality(busy) \in Nat /\ c * Cardinality(Sockets) \in Nat
  BY <1>1, Scaled
<1> QED
  BY <1>2 DEF Committed

(* An admission adds one charge, a record turns a charge into a part of the *)
(* total, a use that is forgotten takes its charge with it.                 *)
LEMMA MeterCommitted ==
  ASSUME NEW Cap \in Nat \ {0}, NEW c \in Nat, NEW total \in Nat, NEW total2,
         NEW busy \in SUBSET Sockets, NEW busy2 \in SUBSET Sockets,
         Committed(Cap, c, total, busy), MeterStep(Cap, c, total, busy, total2, busy2)
  PROVE  Committed(Cap, c, total2, busy2)
<1> DEFINE N == Cardinality(Sockets)
           b == Cardinality(busy)
           b2 == Cardinality(busy2)
<1>0. /\ IsFiniteSet(busy) /\ b \in Nat /\ b2 \in Nat /\ N \in Nat
      /\ b <= N /\ b2 <= N
  BY BusyFinite
<1>n. c * b \in Nat /\ c * b2 \in Nat /\ c * N \in Nat /\ c * b2 <= c * N
  BY <1>0, Scaled
<1>c. total + c * b < Cap + c * N
  BY DEF Committed
<1>1. ASSUME total < Cap, total2 = total PROVE Committed(Cap, c, total2, busy2)
  <2> HIDE DEF N, b, b2
  <2>1. total2 + c * b2 < Cap + c * N
    BY <1>n, <1>1
  <2> QED
    BY <2>1 DEF Committed, N, b2
<1>2. ASSUME NEW k \in busy, busy2 = busy \ {k}, NEW n \in 0..c, total2 = total + n
      PROVE  Committed(Cap, c, total2, busy2)
  <2>1. b2 = b - 1
    BY <1>0, <1>2, FS_RemoveElement
  <2> HIDE DEF N, b, b2
  <2>2. c * b = c * b2 + c
    <3>1. b = b2 + 1 /\ b2 <= b
      BY <1>0, <2>1
    <3> QED
      BY <1>0, <3>1, Scaled
  <2>3. total2 + c * b2 < Cap + c * N
    BY <1>n, <1>c, <1>2, <2>2
  <2> QED
    BY <2>3 DEF Committed, N, b2
<1>3. ASSUME busy2 \in SUBSET busy, total2 = total
      PROVE  Committed(Cap, c, total2, busy2)
  <2>1. b2 <= b
    BY <1>0, <1>3, FS_Subset
  <2> HIDE DEF N, b, b2
  <2>2. c * b2 <= c * b
    BY <1>0, <2>1, Scaled
  <2>3. total2 + c * b2 < Cap + c * N
    BY <1>n, <1>c, <1>3, <2>2
  <2> QED
    BY <2>3 DEF Committed, N, b2
<1> QED
  BY <1>1, <1>2, <1>3 DEF MeterStep

(* So it is for the executions, which are charged one each. *)
LEMMA RunsStepCommitted ==
  TypeOK /\ Committed(RunCap, 1, executed, Running) /\ [Next]_vars =>
    Committed(RunCap, 1, executed, Running)'
<1> SUFFICES ASSUME TypeOK, Committed(RunCap, 1, executed, Running), [Next]_vars
             PROVE  Committed(RunCap, 1, executed', Running')
  BY DEF Committed
<1>1. executed \in Nat /\ Running \in SUBSET Sockets /\ Running' \in SUBSET Sockets
  BY DEF TypeOK, Running
<1>2. MeterStep(RunCap, 1, executed, Running, executed', Running')
  BY 1 \in 0..1, RunStep DEF MeterStep
<1> QED
  BY <1>1, <1>2, MeterCommitted

(* With N sockets open fewer than N executions pass the cap, for any N.     *)
THEOREM SessionRunOvershoot == Spec => []RunOvershoot
<1>1. Init => Committed(RunCap, 1, executed, Running)
  <2> SUFFICES ASSUME Init PROVE Committed(RunCap, 1, executed, Running)
    OBVIOUS
  <2>1. Running = {} /\ executed = 0
    BY DEF Init, Running, At, Fresh
  <2> QED
    BY <2>1, MeterStarts
<1>2. TypeOK /\ Committed(RunCap, 1, executed, Running) => RunOvershoot
  <2> SUFFICES ASSUME TypeOK, Committed(RunCap, 1, executed, Running) PROVE RunOvershoot
    OBVIOUS
  <2>1. executed \in Nat /\ Running \in SUBSET Sockets
    BY DEF TypeOK, Running
  <2>2. executed < RunCap + 1 * Cardinality(Sockets)
    BY <2>1, MeterBounded
  <2>3. Cardinality(Sockets) \in Nat
    BY FS_CardinalityType
  <2> QED
    BY <2>2, <2>3 DEF RunOvershoot
<1> QED
  BY <1>1, <1>2, RunsStepCommitted, BudgetTyped, PTL DEF Spec

-------------------------------------------------------------------------------
(* The chat tokens implement the metered budget. *)

(* Every step admits one chat call, records one, or forgets some. *)
LEMMA ChatStep ==
  TypeOK /\ [Next]_vars =>
    \/ \E k \in Sockets :
         \/ /\ k \notin Spending /\ tokens < TokenCap
            /\ Spending' = Spending \cup {k} /\ tokens' = tokens
         \/ /\ k \in Spending
            /\ Spending' = Spending \ {k}
            /\ \E n \in 0..MaxPrompt : tokens' = tokens + n
    \/ Spending' \in SUBSET Spending /\ tokens' = tokens
<1> SUFFICES ASSUME TypeOK, [Next]_vars
             PROVE  \/ \E k \in Sockets :
                         \/ /\ k \notin Spending /\ tokens < TokenCap
                            /\ Spending' = Spending \cup {k} /\ tokens' = tokens
                         \/ /\ k \in Spending
                            /\ Spending' = Spending \ {k}
                            /\ \E n \in 0..MaxPrompt : tokens' = tokens + n
                    \/ Spending' \in SUBSET Spending /\ tokens' = tokens
  OBVIOUS
<1> USE DEF Spending, At, Local, Chatting
<1>a. sock \in [Sockets -> Local]
  BY DEF TypeOK
<1>b. ASSUME NEW k \in Sockets, \A j \in Sockets \ {k} : sock'[j] = sock[j],
             tokens' = tokens, k \in Spending' => k \in Spending
      PROVE  Spending' \in SUBSET Spending /\ tokens' = tokens
  BY <1>b
<1>1. ASSUME NEW k \in Sockets, CheckChat(k)
      PROVE  /\ k \notin Spending /\ tokens < TokenCap
             /\ Spending' = Spending \cup {k} /\ tokens' = tokens
  BY <1>1, <1>a DEF CheckChat, Goto
<1>2. ASSUME NEW k \in Sockets, Record(k) \/ RecordError(k)
      PROVE  /\ k \in Spending
             /\ Spending' = Spending \ {k}
             /\ \E n \in 0..MaxPrompt : tokens' = tokens + n
  <2>1. /\ sock[k].pc \in {"billing", "charging"}
        /\ sock'[k].pc \in {"answering", "dropping"}
        /\ \A j \in Sockets \ {k} : sock'[j] = sock[j]
    BY <1>2, <1>a DEF Record, RecordError
  <2>2. tokens' = tokens + sock[k].used /\ sock[k].used \in 0..MaxPrompt
    BY <1>2, <1>a DEF Record, RecordError
  <2> QED
    BY <2>1, <2>2
<1>3. ASSUME NEW k \in Sockets, EmitPrompt(k) \/ StreamEnds(k) \/ StreamFails(k) \/ EmitError(k)
      PROVE  Spending' \in SUBSET Spending /\ tokens' = tokens
  <2>1. /\ sock[k].pc \in {"prompting", "streaming", "failing"}
        /\ \A j \in Sockets \ {k} : sock'[j] = sock[j]
        /\ tokens' = tokens
    BY <1>3, <1>a DEF EmitPrompt, StreamEnds, StreamFails, EmitError, Goto
  <2> QED
    BY <2>1, <1>b
<1>4. ASSUME NEW k \in Sockets, EmitResponse(k) \/ DropTurn(k) \/ CheckRun(k) \/ EmitExecuted(k)
      PROVE  Spending' \in SUBSET Spending /\ tokens' = tokens
  <2>1. /\ sock'[k].pc \in {"ready", "running"}
        /\ \A j \in Sockets \ {k} : sock'[j] = sock[j]
        /\ tokens' = tokens
    BY <1>4, <1>a DEF EmitResponse, DropTurn, CheckRun, EmitExecuted, Goto
  <2> QED
    BY <2>1, <1>b
<1>5. ASSUME NEW k \in Sockets, Renew(k) \/ HandlerDies(k)
      PROVE  Spending' \in SUBSET Spending /\ tokens' = tokens
  <2>1. sock' = [sock EXCEPT ![k] = Fresh] /\ tokens' = tokens
    BY <1>5 DEF Renew, HandlerDies
  <2>2. sock'[k].pc = "ready" /\ \A j \in Sockets \ {k} : sock'[j] = sock[j]
    BY <2>1, <1>a DEF Fresh
  <2> QED
    BY <2>1, <2>2, <1>b
<1>6. ASSUME Restart PROVE Spending' \in SUBSET Spending /\ tokens' = tokens
  BY <1>6 DEF Restart, Fresh
<1>7. CASE UNCHANGED vars
  BY <1>7 DEF vars
<1> QED
  BY <1>1, <1>2, <1>3, <1>4, <1>5, <1>6, <1>7 DEF Next, Run, Chat

(* The prompt tokens of a session are a metered budget, for any number of    *)
(* sockets: every call is admitted below the cap and recorded at most once. *)
THEOREM SessionChatsMetered == Spec => ChatsMetered
<1>1. Init => ChatMeter!Init
  BY DEF Init, ChatMeter!Init, Spending, Chatting, Fresh
<1>2. TypeOK /\ [Next]_vars => [ChatMeter!Next]_(ChatMeter!vars)
  <2> SUFFICES ASSUME TypeOK, [Next]_vars PROVE ChatMeter!Next
    OBVIOUS
  <2>1. Spending \in SUBSET Sockets
    BY DEF Spending
  <2> QED
    BY <2>1, ChatStep DEF ChatMeter!Next, ChatMeter!Admit, ChatMeter!Charge, ChatMeter!Forget
<1> QED
  BY <1>1, <1>2, BudgetTyped, PTL DEF Spec, ChatsMetered, ChatMeter!Spec

(* What is recorded and what the calls under way may still add stay below   *)
(* the cap and one call of every socket.                                    *)
LEMMA ChatsStepCommitted ==
  TypeOK /\ Committed(TokenCap, MaxPrompt, tokens, Spending) /\ [Next]_vars =>
    Committed(TokenCap, MaxPrompt, tokens, Spending)'
<1> SUFFICES ASSUME TypeOK, Committed(TokenCap, MaxPrompt, tokens, Spending), [Next]_vars
             PROVE  Committed(TokenCap, MaxPrompt, tokens', Spending')
  BY DEF Committed
<1>1. tokens \in Nat /\ Spending \in SUBSET Sockets /\ Spending' \in SUBSET Sockets
  BY DEF TypeOK, Spending
<1>2. MeterStep(TokenCap, MaxPrompt, tokens, Spending, tokens', Spending')
  BY ChatStep DEF MeterStep
<1> QED
  BY <1>1, <1>2, MeterCommitted

(* The tokens pass the cap by less than one call of every socket.           *)
THEOREM SessionTokenOvershoot == Spec => []TokenOvershoot
<1>1. Init => Committed(TokenCap, MaxPrompt, tokens, Spending)
  <2> SUFFICES ASSUME Init PROVE Committed(TokenCap, MaxPrompt, tokens, Spending)
    OBVIOUS
  <2>1. Spending = {} /\ tokens = 0
    BY DEF Init, Spending, At, Fresh, Chatting
  <2> QED
    BY <2>1, MeterStarts
<1>2. TypeOK /\ Committed(TokenCap, MaxPrompt, tokens, Spending) => TokenOvershoot
  <2> SUFFICES ASSUME TypeOK, Committed(TokenCap, MaxPrompt, tokens, Spending)
               PROVE  TokenOvershoot
    OBVIOUS
  <2>1. tokens \in Nat /\ Spending \in SUBSET Sockets
    BY DEF TypeOK, Spending
  <2> QED
    BY <2>1, MeterBounded DEF TokenOvershoot
<1> QED
  BY <1>1, <1>2, ChatsStepCommitted, BudgetTyped, PTL DEF Spec

-------------------------------------------------------------------------------
(* The chat history is a dialogue. *)

Alternates(h) == \A i \in 1..(Len(h) - 1) : h[i] # h[i + 1]

(* The next speaker is not the last one. *)
LEMMA AppendAlternates ==
  ASSUME NEW h \in Seq(Roles), NEW r \in Roles, Alternates(h), h # <<>> => h[Len(h)] # r
  PROVE  LET g == Append(h, r)
         IN  /\ Alternates(g) /\ g # <<>> /\ g[Len(g)] = r /\ Len(g) = Len(h) + 1
<1> DEFINE g == Append(h, r)
<1>1. /\ Len(h) \in Nat /\ Len(g) = Len(h) + 1 /\ g[Len(h) + 1] = r
      /\ \A i \in 1..Len(h) : g[i] = h[i]
  OBVIOUS
<1>2. Len(h) # 0 => h # <<>>
  OBVIOUS
<1> HIDE DEF g
<1>3. Alternates(g)
  BY <1>1, <1>2 DEF Alternates
<1>4. g # <<>>
  BY <1>1
<1> QED
  BY <1>1, <1>3, <1>4 DEF g

(* Trimming cuts off the front only. *)
LEMMA TrimAlternates ==
  ASSUME NEW h \in Seq(Roles), Alternates(h), h # <<>>
  PROVE  LET g == Trim(h)
         IN  Alternates(g) /\ g # <<>> /\ g[Len(g)] = h[Len(h)] /\ Len(g) <= MaxHistory
<1> DEFINE g == Trim(h)
<1> DEFINE m == Len(h) - MaxHistory
<1>0. Len(h) \in Nat /\ MaxHistory \in Nat /\ MaxHistory > 0
  OBVIOUS
<1>1. CASE Len(h) <= MaxHistory
  BY <1>1 DEF Trim
<1>2. CASE Len(h) > MaxHistory
  <2>1. g = SubSeq(h, m + 1, Len(h)) /\ m \in Nat
    BY <1>0, <1>2 DEF Trim
  <2>2. /\ Len(g) = MaxHistory
        /\ \A i \in 1..MaxHistory : g[i] = h[m + i]
    <3>1. Len(g) = MaxHistory
      BY <1>0, <1>2, <2>1
    <3>2. \A i \in 1..MaxHistory : m + i \in 1..Len(h)
      BY <1>0, <2>1
    <3> QED
      BY <1>0, <2>1, <3>1, <3>2
  <2>3. Alternates(g)
    <3> SUFFICES ASSUME NEW i \in 1..(MaxHistory - 1) PROVE g[i] # g[i + 1]
      BY <2>2 DEF Alternates
    <3>1. /\ m + i \in 1..(Len(h) - 1) /\ i \in 1..MaxHistory /\ i + 1 \in 1..MaxHistory
          /\ m + (i + 1) = (m + i) + 1
      BY <1>0, <2>1
    <3>2. h[m + i] # h[(m + i) + 1]
      BY <3>1 DEF Alternates
    <3>3. g[i] = h[m + i] /\ g[i + 1] = h[m + (i + 1)]
      BY <3>1, <2>2
    <3> HIDE DEF g, m
    <3> QED
      BY <3>1, <3>2, <3>3
  <2>4. g[Len(g)] = h[Len(h)]
    <3>1. MaxHistory \in 1..MaxHistory /\ m + MaxHistory = Len(h)
      BY <1>0
    <3>2. g[MaxHistory] = h[m + MaxHistory]
      BY <3>1, <2>2
    <3> HIDE DEF g, m
    <3> QED
      BY <2>2, <3>1, <3>2
  <2>5. g # <<>>
    <3> HIDE DEF g
    <3> QED
      BY <1>0, <2>2
  <2> QED
    BY <1>0, <2>2, <2>3, <2>4, <2>5
<1> QED
  BY <1>0, <1>1, <1>2

(* Without its last entry a dialogue ends with the other speaker. *)
LEMMA FrontAlternates ==
  ASSUME NEW h \in Seq(Roles), Alternates(h), h # <<>>, h[Len(h)] = "user"
  PROVE  LET g == SubSeq(h, 1, Len(h) - 1)
         IN  /\ Alternates(g) /\ Len(g) = Len(h) - 1
             /\ g # <<>> => g[Len(g)] = "assistant"
<1> DEFINE n == Len(h) - 1
<1> DEFINE g == SubSeq(h, 1, n)
<1>1. n \in Nat /\ Len(h) = n + 1 /\ Len(h) \in Nat
  OBVIOUS
<1>2. Len(g) = n /\ \A i \in 1..n : g[i] = h[i]
  BY <1>1
<1> HIDE DEF g, n
<1>3. Alternates(g)
  BY <1>1, <1>2 DEF Alternates
<1>4. ASSUME g # <<>> PROVE g[Len(g)] = "assistant"
  <2>1. n # 0
    <3>1. g \in Seq(Roles)
      BY <1>1 DEF g
    <3> QED
      BY <1>2, <1>4, <3>1
  <2>2. n \in 1..n /\ n \in 1..(Len(h) - 1)
    BY <1>1, <2>1
  <2>3. h[n] # h[n + 1] /\ h[n] \in Roles
    BY <1>1, <2>2 DEF Alternates
  <2>4. g[n] = h[n] /\ h[n + 1] = "user"
    BY <1>1, <1>2, <2>2
  <2> QED
    BY <1>2, <2>3, <2>4 DEF Roles
<1>5. Len(g) = Len(h) - 1
  BY <1>1, <1>2
<1> QED
  BY <1>3, <1>4, <1>5 DEF g, n

(* Dialogue, of one handler's locals. *)
Speaks(l) ==
  /\ Alternates(l.history)
  /\ l.pc \in Open => l.history # <<>>
  /\ l.history # <<>> =>
       l.history[Len(l.history)] = IF l.pc \in Open THEN "user" ELSE "assistant"
  /\ Len(l.history) <= IF l.pc \in Open THEN MaxHistory ELSE MaxHistory + 1

LEMMA DialogueSpeaks == \A k : Dialogue(k) <=> Speaks(sock[k])
BY DEF Dialogue, Speaks, Alternates

(* Every step keeps every history a dialogue. *)
LEMMA StepDialogue == TypeOK /\ HistoryIsDialogue /\ [Next]_vars => HistoryIsDialogue'
<1> SUFFICES ASSUME TypeOK, HistoryIsDialogue, [Next]_vars PROVE HistoryIsDialogue'
  OBVIOUS
<1>a. /\ sock \in [Sockets -> Local]
      /\ \A k \in Sockets : Speaks(sock[k])
  BY DialogueSpeaks DEF TypeOK, HistoryIsDialogue
<1>b. (\A k \in Sockets : Speaks(sock'[k])) => HistoryIsDialogue'
  <2>1. \A k : Dialogue(k)' <=> Speaks(sock'[k])
    BY DEF Dialogue, Speaks, Alternates
  <2> QED
    BY <2>1 DEF HistoryIsDialogue
<1>c. ASSUME NEW k \in Sockets, NEW l, Speaks(l), sock' = [sock EXCEPT ![k] = l]
      PROVE  HistoryIsDialogue'
  <2>1. \A j \in Sockets : sock'[j] = IF j = k THEN l ELSE sock[j]
    BY <1>a, <1>c
  <2> QED
    BY <1>a, <1>b, <1>c, <2>1
<1>d. Speaks(Fresh)
  BY DEF Speaks, Fresh, Alternates, Open
<1>e. ASSUME NEW k \in Sockets, NEW p, NEW n,
             (p \in Open) = (sock[k].pc \in Open)
      PROVE  /\ Speaks([sock[k] EXCEPT !.pc = p])
             /\ Speaks([sock[k] EXCEPT !.pc = p, !.used = n])
  <2>1. /\ [sock[k] EXCEPT !.pc = p].history = sock[k].history
        /\ [sock[k] EXCEPT !.pc = p].pc = p
        /\ [sock[k] EXCEPT !.pc = p, !.used = n].history = sock[k].history
        /\ [sock[k] EXCEPT !.pc = p, !.used = n].pc = p
    BY <1>a DEF Local
  <2>2. Speaks(sock[k])
    BY <1>a
  <2> QED
    BY <1>e, <2>1, <2>2 DEF Speaks
<1>f. ASSUME NEW k \in Sockets, NEW q, NEW p, At(k, q), Goto(k, p), (p \in Open) = (q \in Open)
      PROVE  HistoryIsDialogue'
  <2>1. Speaks([sock[k] EXCEPT !.pc = p])
    BY <1>e, <1>f DEF At
  <2>2. sock' = [sock EXCEPT ![k] = [sock[k] EXCEPT !.pc = p]]
    BY <1>f DEF Goto
  <2> QED
    BY <1>c, <2>1, <2>2
<1>1. ASSUME NEW k \in Sockets, CheckRun(k) PROVE HistoryIsDialogue'
  BY <1>1, <1>f DEF CheckRun, Open
<1>2. ASSUME NEW k \in Sockets, EmitExecuted(k) PROVE HistoryIsDialogue'
  BY <1>2, <1>f DEF EmitExecuted, Open
<1>3. ASSUME NEW k \in Sockets, CheckChat(k) PROVE HistoryIsDialogue'
  BY <1>3, <1>f DEF CheckChat, Open
<1>4. ASSUME NEW k \in Sockets, EmitPrompt(k) PROVE HistoryIsDialogue'
  <2> DEFINE h == sock[k].history
  <2> DEFINE g == Append(h, "user")
  <2> DEFINE l == [sock[k] EXCEPT !.pc = "streaming", !.history = Trim(g)]
  <2>1. /\ h \in Seq(Roles) /\ Alternates(h)
        /\ h # <<>> => h[Len(h)] = "assistant"
    BY <1>a, <1>4 DEF Local, Speaks, EmitPrompt, At, Open
  <2>2. Alternates(g) /\ g # <<>> /\ g[Len(g)] = "user" /\ g \in Seq(Roles)
    <3>1. "user" \in Roles /\ "user" # "assistant"
      BY DEF Roles
    <3> HIDE DEF h
    <3> QED
      BY <2>1, <3>1, AppendAlternates
  <2>3. LET t == Trim(g)
        IN  Alternates(t) /\ t # <<>> /\ t[Len(t)] = "user" /\ Len(t) <= MaxHistory /\ t \in Seq(Roles)
    <3>1. Trim(g) \in Seq(Roles)
      BY <2>1, HistoryTyped
    <3> HIDE DEF g
    <3> QED
      BY <2>2, <3>1, TrimAlternates
  <2>4. l.pc = "streaming" /\ l.history = Trim(g)
    BY <1>a DEF Local
  <2>5. sock' = [sock EXCEPT ![k] = l]
    BY <1>4 DEF EmitPrompt
  <2>6. Len(Trim(g)) \in Nat
    BY <2>3
  <2> HIDE DEF l, g
  <2>7. Speaks(l)
    BY <2>3, <2>4, <2>6 DEF Speaks, Open
  <2> QED
    BY <1>c, <2>5, <2>7
<1>5. ASSUME NEW k \in Sockets, StreamEnds(k) \/ StreamFails(k) PROVE HistoryIsDialogue'
  <2>1. PICK p \in {"billing", "failing"}, n \in 0..MaxPrompt :
          sock' = [sock EXCEPT ![k] = [sock[k] EXCEPT !.pc = p, !.used = n]]
    BY <1>5 DEF StreamEnds, StreamFails
  <2>2. (p \in Open) = (sock[k].pc \in Open)
    BY <1>5 DEF StreamEnds, StreamFails, At, Open
  <2> QED
    BY <1>c, <1>e, <2>1, <2>2
<1>6. ASSUME NEW k \in Sockets, Record(k) PROVE HistoryIsDialogue'
  <2> DEFINE h == sock[k].history
  <2> DEFINE g == Append(h, "assistant")
  <2> DEFINE l == [sock[k] EXCEPT !.pc = "answering", !.used = 0, !.history = g]
  <2>1. /\ h \in Seq(Roles) /\ Alternates(h) /\ h # <<>> /\ h[Len(h)] = "user"
        /\ Len(h) <= MaxHistory
    BY <1>a, <1>6 DEF Local, Speaks, Record, At, Open
  <2>3. Alternates(g) /\ g # <<>> /\ g[Len(g)] = "assistant" /\ Len(g) = Len(h) + 1
    <3>1. "assistant" \in Roles /\ "user" # "assistant"
      BY DEF Roles
    <3> HIDE DEF h
    <3> QED
      BY <2>1, <3>1, AppendAlternates
  <2>4. l.pc = "answering" /\ l.history = g
    BY <1>a DEF Local
  <2>5. sock' = [sock EXCEPT ![k] = l]
    BY <1>6 DEF Record
  <2>7. Len(g) <= MaxHistory + 1
    <3>1. Len(h) \in Nat
      BY <2>1
    <3> QED
      BY <2>1, <2>3, <3>1
  <2> HIDE DEF l, g
  <2>8. Speaks(l)
    BY <2>3, <2>4, <2>7 DEF Speaks, Open
  <2> QED
    BY <1>c, <2>5, <2>8
<1>7. ASSUME NEW k \in Sockets, EmitResponse(k) PROVE HistoryIsDialogue'
  BY <1>7, <1>f DEF EmitResponse, Open
<1>8. ASSUME NEW k \in Sockets, EmitError(k) PROVE HistoryIsDialogue'
  BY <1>8, <1>f DEF EmitError, Open
<1>9. ASSUME NEW k \in Sockets, RecordError(k) PROVE HistoryIsDialogue'
  <2>1. ("dropping" \in Open) = (sock[k].pc \in Open)
    BY <1>9 DEF RecordError, At, Open
  <2>2. sock' = [sock EXCEPT ![k] = [sock[k] EXCEPT !.pc = "dropping", !.used = 0]]
    BY <1>9 DEF RecordError
  <2> QED
    BY <1>c, <1>e, <2>1, <2>2
<1>10. ASSUME NEW k \in Sockets, DropTurn(k) PROVE HistoryIsDialogue'
  <2> DEFINE h == sock[k].history
  <2> DEFINE g == SubSeq(h, 1, Len(h) - 1)
  <2> DEFINE l == [sock[k] EXCEPT !.pc = "ready", !.history = g]
  <2>1. /\ h \in Seq(Roles) /\ Alternates(h) /\ h # <<>> /\ h[Len(h)] = "user"
        /\ Len(h) <= MaxHistory
    BY <1>a, <1>10 DEF Local, Speaks, DropTurn, At, Open
  <2>2. /\ Alternates(g) /\ Len(g) = Len(h) - 1
        /\ g # <<>> => g[Len(g)] = "assistant"
    <3> HIDE DEF h
    <3> QED
      BY <2>1, FrontAlternates
  <2>3. l.pc = "ready" /\ l.history = g
    BY <1>a DEF Local
  <2>4. sock' = [sock EXCEPT ![k] = l]
    BY <1>10 DEF DropTurn
  <2>5. Len(g) <= MaxHistory + 1
    <3>1. Len(h) \in Nat
      BY <2>1
    <3> QED
      BY <2>1, <2>2, <3>1
  <2> HIDE DEF l, g
  <2>6. Speaks(l)
    BY <2>2, <2>3, <2>5 DEF Speaks, Open
  <2> QED
    BY <1>c, <2>4, <2>6
<1>11. ASSUME NEW k \in Sockets, Renew(k) \/ HandlerDies(k) PROVE HistoryIsDialogue'
  BY <1>11, <1>c, <1>d DEF Renew, HandlerDies
<1>12. ASSUME Restart PROVE HistoryIsDialogue'
  BY <1>12, <1>b, <1>d DEF Restart
<1>13. CASE UNCHANGED vars
  BY <1>13, <1>a, <1>b DEF vars
<1> QED
  BY <1>1, <1>2, <1>3, <1>4, <1>5, <1>6, <1>7, <1>8, <1>9, <1>10, <1>11, <1>12, <1>13
     DEF Next, Run, Chat

(* What is sent to the model is a bounded dialogue that ends with the open   *)
(* prompt, whatever calls failed and whatever was trimmed before, for any   *)
(* number of sockets and any bound on the history.                          *)
THEOREM SessionHistoryIsDialogue == Spec => []HistoryIsDialogue
<1>1. Init => HistoryIsDialogue
  BY DEF Init, HistoryIsDialogue, Dialogue, Fresh, Open
<1> QED
  BY <1>1, StepDialogue, BudgetTyped, PTL DEF Spec
-------------------------------------------------------------------------------
(* LogAndBillAgree is not inductive: between the record of a call and the   *)
(* reply in the log, and between the error in the log and its record, one   *)
(* side is ahead by the handlers that are just there.                       *)
Answering == {k \in Sockets : At(k, "answering")}
Charging == {k \in Sockets : At(k, "charging")}

Billed ==
  /\ responses + Cardinality(Answering) <= calls.ok
  /\ calls.error + Cardinality(Charging) <= errors

(* How the number of handlers at a place changes when one of them moves.    *)
LEMMA OneMoves ==
  ASSUME NEW S \in SUBSET Sockets, NEW T \in SUBSET Sockets, NEW k \in Sockets
  PROVE  /\ Cardinality(S) \in Nat /\ Cardinality(T) \in Nat
         /\ T \subseteq S => Cardinality(T) <= Cardinality(S)
         /\ T \subseteq S \cup {k} => Cardinality(T) <= Cardinality(S) + 1
         /\ k \in S /\ T \subseteq S \ {k} => Cardinality(T) + 1 <= Cardinality(S)
<1>1. IsFiniteSet(S) /\ IsFiniteSet(T)
  BY FS_Subset
<1>2. Cardinality(S) \in Nat /\ Cardinality(T) \in Nat
  BY <1>1, FS_CardinalityType
<1>3. T \subseteq S => Cardinality(T) <= Cardinality(S)
  BY <1>1, FS_Subset
<1>4. T \subseteq S \cup {k} => Cardinality(T) <= Cardinality(S) + 1
  <2>1. IsFiniteSet(S \cup {k}) /\ Cardinality(S \cup {k}) <= Cardinality(S) + 1
    <3>1. /\ IsFiniteSet(S \cup {k})
          /\ Cardinality(S \cup {k}) = IF k \in S THEN Cardinality(S) ELSE Cardinality(S) + 1
      BY <1>1, FS_AddElement, Zenon
    <3> QED
      BY <1>2, <3>1
  <2>2. T \subseteq S \cup {k} => Cardinality(T) <= Cardinality(S \cup {k})
    BY <2>1, FS_Subset
  <2>3. Cardinality(S \cup {k}) \in Nat
    BY <2>1, FS_CardinalityType
  <2> QED
    BY <1>2, <2>1, <2>2, <2>3
<1>5. k \in S /\ T \subseteq S \ {k} => Cardinality(T) + 1 <= Cardinality(S)
  <2>1. IsFiniteSet(S \ {k}) /\ (k \in S => Cardinality(S \ {k}) = Cardinality(S) - 1)
    BY <1>1, FS_RemoveElement
  <2>2. T \subseteq S \ {k} => Cardinality(T) <= Cardinality(S \ {k})
    BY <2>1, FS_Subset
  <2>3. Cardinality(S \ {k}) \in Nat
    BY <2>1, FS_CardinalityType
  <2> QED
    BY <1>2, <2>1, <2>2, <2>3
<1> QED
  BY <1>2, <1>3, <1>4, <1>5

(* Every step keeps the bill ahead of the replies and behind the errors.    *)
LEMMA StepBilled == TypeOK /\ Billed /\ [Next]_vars => Billed'
<1> SUFFICES ASSUME TypeOK, Billed, [Next]_vars PROVE Billed'
  OBVIOUS
<1>0. /\ Answering \subseteq Sockets /\ Charging \subseteq Sockets
      /\ Answering' \subseteq Sockets /\ Charging' \subseteq Sockets
  BY DEF Answering, Charging
<1>t. /\ responses \in Nat /\ errors \in Nat /\ calls.ok \in Nat /\ calls.error \in Nat
      /\ calls \in [ok : Nat, error : Nat]
  BY DEF TypeOK
<1>s. sock \in [Sockets -> Local]
  BY DEF TypeOK
<1>u. ASSUME UNCHANGED <<responses, errors, calls>>, Answering' \subseteq Answering,
             Charging' \subseteq Charging
      PROVE  Billed'
  <2>1. \A k \in Sockets : /\ Cardinality(Answering') <= Cardinality(Answering)
                           /\ Cardinality(Charging') <= Cardinality(Charging)
                           /\ Cardinality(Answering) \in Nat /\ Cardinality(Answering') \in Nat
                           /\ Cardinality(Charging) \in Nat /\ Cardinality(Charging') \in Nat
    BY <1>0, <1>u, OneMoves
  <2>2. CASE Sockets = {}
    <3>1. Answering' = Answering /\ Charging' = Charging
      BY <1>0, <2>2
    <3> QED
      BY <1>u, <3>1 DEF Billed
  <2>3. CASE Sockets # {}
    <3>1. PICK k \in Sockets : TRUE
      BY <2>3
    <3> QED
      BY <1>t, <1>u, <2>1, <3>1 DEF Billed
  <2> QED
    BY <2>2, <2>3
<1>1. ASSUME NEW k \in Sockets, CheckRun(k) \/ EmitExecuted(k) \/ CheckChat(k) \/ EmitPrompt(k)
                                  \/ StreamEnds(k) \/ StreamFails(k) \/ DropTurn(k)
                                  \/ Renew(k) \/ HandlerDies(k)
      PROVE  Billed'
  <2>1. UNCHANGED <<responses, errors, calls>>
    BY <1>1 DEF CheckRun, EmitExecuted, CheckChat, EmitPrompt, StreamEnds, StreamFails, DropTurn,
                Renew, HandlerDies, turns
  <2>2. /\ sock'[k].pc \notin {"answering", "charging"}
        /\ \A j \in Sockets : j # k => sock'[j] = sock[j]
    BY <1>1, <1>s DEF CheckRun, EmitExecuted, CheckChat, EmitPrompt, StreamEnds, StreamFails,
                DropTurn, Renew, HandlerDies, Goto, Fresh, Local
  <2>3. Answering' \subseteq Answering /\ Charging' \subseteq Charging
    BY <2>2 DEF Answering, Charging, At
  <2> QED
    BY <1>u, <2>1, <2>3
<1>2. ASSUME NEW k \in Sockets, Record(k) PROVE Billed'
  <2>1. /\ calls'.ok = calls.ok + 1 /\ calls'.error = calls.error
        /\ responses' = responses /\ errors' = errors
    BY <1>2, <1>t DEF Record, turns
  <2>2. /\ \A j \in Sockets : j # k => sock'[j] = sock[j]
        /\ sock'[k].pc = "answering"
    BY <1>2, <1>s DEF Record, Local
  <2>3. Answering' \subseteq Answering \cup {k} /\ Charging' \subseteq Charging
    BY <2>2 DEF Answering, Charging, At
  <2>4. /\ Cardinality(Answering') <= Cardinality(Answering) + 1
        /\ Cardinality(Charging') <= Cardinality(Charging)
        /\ Cardinality(Answering) \in Nat /\ Cardinality(Answering') \in Nat
        /\ Cardinality(Charging) \in Nat /\ Cardinality(Charging') \in Nat
    BY <1>0, <2>3, OneMoves
  <2> QED
    BY <1>t, <2>1, <2>4 DEF Billed
<1>3. ASSUME NEW k \in Sockets, EmitResponse(k) PROVE Billed'
  <2>1. responses' = responses + 1 /\ UNCHANGED <<errors, calls>>
    BY <1>3 DEF EmitResponse
  <2>2. /\ \A j \in Sockets : j # k => sock'[j] = sock[j]
        /\ sock[k].pc = "answering" /\ sock'[k].pc = "ready"
    BY <1>3, <1>s DEF EmitResponse, At, Goto, Local
  <2>3. k \in Answering /\ Answering' \subseteq Answering \ {k} /\ Charging' \subseteq Charging
    BY <2>2 DEF Answering, Charging, At
  <2>4. /\ Cardinality(Answering') + 1 <= Cardinality(Answering)
        /\ Cardinality(Charging') <= Cardinality(Charging)
        /\ Cardinality(Answering) \in Nat /\ Cardinality(Answering') \in Nat
        /\ Cardinality(Charging) \in Nat /\ Cardinality(Charging') \in Nat
    BY <1>0, <2>3, OneMoves
  <2> QED
    BY <1>t, <2>1, <2>4 DEF Billed
<1>4. ASSUME NEW k \in Sockets, EmitError(k) PROVE Billed'
  <2>1. errors' = errors + 1 /\ UNCHANGED <<responses, calls>>
    BY <1>4 DEF EmitError
  <2>2. /\ \A j \in Sockets : j # k => sock'[j] = sock[j]
        /\ sock'[k].pc = "charging"
    BY <1>4, <1>s DEF EmitError, Goto, Local
  <2>3. Charging' \subseteq Charging \cup {k} /\ Answering' \subseteq Answering
    BY <2>2 DEF Answering, Charging, At
  <2>4. /\ Cardinality(Charging') <= Cardinality(Charging) + 1
        /\ Cardinality(Answering') <= Cardinality(Answering)
        /\ Cardinality(Answering) \in Nat /\ Cardinality(Answering') \in Nat
        /\ Cardinality(Charging) \in Nat /\ Cardinality(Charging') \in Nat
    BY <1>0, <2>3, OneMoves
  <2> QED
    BY <1>t, <2>1, <2>4 DEF Billed
<1>5. ASSUME NEW k \in Sockets, RecordError(k) PROVE Billed'
  <2>1. /\ calls'.error = calls.error + 1 /\ calls'.ok = calls.ok
        /\ responses' = responses /\ errors' = errors
    BY <1>5, <1>t DEF RecordError, turns
  <2>2. /\ \A j \in Sockets : j # k => sock'[j] = sock[j]
        /\ sock[k].pc = "charging" /\ sock'[k].pc = "dropping"
    BY <1>5, <1>s DEF RecordError, At, Local
  <2>3. k \in Charging /\ Charging' \subseteq Charging \ {k} /\ Answering' \subseteq Answering
    BY <2>2 DEF Answering, Charging, At
  <2>4. /\ Cardinality(Charging') + 1 <= Cardinality(Charging)
        /\ Cardinality(Answering') <= Cardinality(Answering)
        /\ Cardinality(Answering) \in Nat /\ Cardinality(Answering') \in Nat
        /\ Cardinality(Charging) \in Nat /\ Cardinality(Charging') \in Nat
    BY <1>0, <2>3, OneMoves
  <2> QED
    BY <1>t, <2>1, <2>4 DEF Billed
<1>6. CASE Restart
  <2>1. UNCHANGED <<responses, errors, calls>>
    BY <1>6 DEF Restart, turns
  <2>2. Answering' \subseteq Answering /\ Charging' \subseteq Charging
    BY <1>6 DEF Restart, Answering, Charging, At, Fresh
  <2> QED
    BY <1>u, <2>1, <2>2
<1>7. CASE UNCHANGED vars
  <2>1. UNCHANGED <<responses, errors, calls>> /\ sock' = sock
    BY <1>7 DEF vars, turns
  <2>2. Answering' \subseteq Answering /\ Charging' \subseteq Charging
    BY <2>1 DEF Answering, Charging, At
  <2> QED
    BY <1>u, <2>1, <2>2
<1> QED
  BY <1>1, <1>2, <1>3, <1>4, <1>5, <1>6, <1>7 DEF Next, Run, Chat

(* Every reply in the log was billed and every failed call on the bill is in *)
(* the log, wherever handlers died, for any number of sockets.              *)
THEOREM SessionLogAndBill == Spec => []LogAndBillAgree
<1>1. Init => Billed
  <2> SUFFICES ASSUME Init PROVE Billed
    OBVIOUS
  <2>1. Answering = {} /\ Charging = {}
    BY DEF Init, Answering, Charging, At, Fresh
  <2> QED
    BY <2>1, FS_EmptySet DEF Init, Billed
<1>2. TypeOK /\ Billed => LogAndBillAgree
  <2> SUFFICES ASSUME TypeOK, Billed PROVE LogAndBillAgree
    OBVIOUS
  <2>1. IsFiniteSet(Answering) /\ IsFiniteSet(Charging)
    BY FS_Subset DEF Answering, Charging
  <2>2. Cardinality(Answering) \in Nat /\ Cardinality(Charging) \in Nat
    BY <2>1, FS_CardinalityType
  <2> QED
    BY <2>2 DEF TypeOK, Billed, LogAndBillAgree
<1> QED
  BY <1>1, <1>2, StepBilled, BudgetTyped, PTL DEF Spec
==============================================================================
