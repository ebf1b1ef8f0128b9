------------------------ MODULE CandidateSessionProofs ------------------------
(***************************************************************************)
(* Proofs about CandidateSession for any number of sockets and tasks.      *)
(***************************************************************************)
EXTENDS CandidateSession, FiniteSetTheorems, TLAPS

(* The handlers between the emit of TASK_SUBMITTED and the store of the     *)
(* index: each owes the row one step forward.                               *)
Advancing == {k \in Sockets : sock[k].pc \in {"advancing", "storing"}}

BackedInv ==
  /\ idx + Cardinality(Advancing) <= submits
  /\ \A k \in Sockets :
       sock[k].pc = "storing" => sock[k].next + Cardinality(Advancing) <= submits + 1

EndedInv ==
  /\ EndIsLogged
  /\ \A k \in Sockets : sock[k].pc \in Scoring \cup {"marking"} => ends > 0
  /\ \A k \in Sockets : sock[k].pc \in Scoring => status # "active"

(* What each scoring run has read and written covers what the session had   *)
(* when it ended.                                                           *)
CompleteInv ==
  /\ ends > 0 => \A t \in Tasks : atEnd[t] <= weight[t]
  /\ \A k \in Sockets : sock[k].pc = "scoring" =>
       \A t \in Tasks : /\ atEnd[t] <= sock[k].snap[t]
                        /\ t \notin sock[k].todo => atEnd[t] <= finals[t]
  /\ \A k \in Sockets : sock[k].pc = "finishing" => \A t \in Tasks : atEnd[t] <= finals[t]
  /\ ScoredIsComplete

IInv == TypeOK /\ BackedInv /\ EndedInv /\ CompleteInv

USE SessionAssumption

(* The counter of owing handlers is a number. *)
LEMMA AdvancingFinite ==
  IsFiniteSet(Advancing) /\ Cardinality(Advancing) \in Nat
BY FS_Subset, FS_CardinalityType DEF Advancing

(* A new connection's locals are typed. *)
LEMMA FreshTyped == Fresh \in Local
BY DEF Local, Fresh, Nothing, Pcs

(* The initial states satisfy the invariant. *)
LEMMA InitInv == Init => IInv
<1> SUFFICES ASSUME Init PROVE IInv
  OBVIOUS
<1>1. TypeOK
  BY FreshTyped DEF Init, TypeOK, Statuses, Nothing
<1>2. BackedInv
  <2>1. Advancing = {}
    BY DEF Init, Advancing, Fresh
  <2>2. Cardinality(Advancing) = 0
    BY <2>1, FS_EmptySet
  <2> QED
    BY <2>2 DEF Init, BackedInv, Fresh
<1>3. EndedInv
  BY DEF Init, EndedInv, EndIsLogged, Scoring, Fresh
<1>4. CompleteInv
  BY DEF Init, CompleteInv, ScoredIsComplete, Fresh
<1> QED
  BY <1>1, <1>2, <1>3, <1>4 DEF IInv

(* The updates the handlers make to their locals stay in range. *)
LEMMA UpdateTyped ==
  ASSUME NEW l \in Local
  PROVE  /\ \A p \in Pcs : [l EXCEPT !.pc = p] \in Local
         /\ \A p \in Pcs, t \in Tasks : [l EXCEPT !.pc = p, !.task = t] \in Local
         /\ \A p \in Pcs, n \in Nat : [l EXCEPT !.pc = p, !.next = n] \in Local
         /\ \A p \in Pcs : [l EXCEPT !.pc = p, !.leave = TRUE] \in Local
         /\ \A p \in Pcs, f \in [Tasks -> Nat] : [l EXCEPT !.pc = p, !.snap = f] \in Local
         /\ \A p \in Pcs, f \in [Tasks -> Nat], T \in SUBSET Tasks :
              [l EXCEPT !.pc = p, !.snap = f, !.todo = T] \in Local
         /\ \A t \in Tasks : [l EXCEPT !.todo = @ \ {t}] \in Local
BY DEF Local

(* Every step keeps the types: no handler's locals leave their range. *)
LEMMA StepTyped == TypeOK /\ [Next]_vars => TypeOK'
<1> SUFFICES ASSUME TypeOK, [Next]_vars PROVE TypeOK'
  OBVIOUS
<1> USE DEF TypeOK, row, events, scores
<1>a. {"ready", "reading", "presenting", "advancing", "storing", "ending", "marking",
      "snapshotting", "scoring", "finishing"} \subseteq Pcs
  BY DEF Pcs, Taking, Ending, Scoring
<1>b. ASSUME NEW k \in Sockets, NEW l \in Local, Becomes(k, l)
     PROVE  sock' \in [Sockets -> Local]
  BY <1>b DEF Becomes
<1>c. \A k \in Sockets : sock[k] \in Local
  OBVIOUS
<1>d. ASSUME NEW k \in Sockets, NEW p \in Pcs, Goto(k, p)
     PROVE  sock' \in [Sockets -> Local]
  BY <1>b, <1>c, <1>d, UpdateTyped DEF Goto
<1>1. ASSUME NEW k \in Sockets, Tag(k) PROVE weight' \in [Tasks -> Nat]
  BY <1>1, <1>c, SMTT(20) DEF Tag, Local
<1>e. Nothing \in [Tasks -> Nat]
  BY DEF Nothing
<1>2. ASSUME NEW k \in Sockets, Resume(k) PROVE sock' \in [Sockets -> Local]
  <2>1. [sock[k] EXCEPT !.pc = "ready", !.snap = Nothing, !.todo = {}] \in Local
    BY <1>a, <1>c, <1>e, UpdateTyped
  <2> QED
    BY <1>2, <1>b, <2>1, FreshTyped DEF Resume
<1>3. ASSUME NEW k \in Sockets, Disconnect(k) PROVE TypeOK'
  BY <1>3, <1>b, FreshTyped DEF Disconnect
<1>4. ASSUME NEW k \in Sockets, HandlerDies(k) PROVE TypeOK'
  BY <1>4, <1>b, FreshTyped DEF HandlerDies
<1>5. ASSUME NEW k \in Sockets, Present(k) PROVE TypeOK'
  <2>1. CASE Goto(k, "ready")
    BY <1>5, <2>1, <1>a, <1>d DEF Present
  <2>2. CASE /\ idx < Len(TaskSequence)
             /\ Becomes(k, [sock[k] EXCEPT !.pc = "presenting", !.task = TaskSequence[idx + 1]])
    <3>1. TaskSequence[idx + 1] \in Tasks
      <4>1. TaskSequence \in Seq(Tasks) /\ idx \in Nat /\ idx < Len(TaskSequence)
        BY <2>2
      <4>2. Len(TaskSequence) \in Nat /\ idx + 1 \in 1..Len(TaskSequence)
        BY <4>1
      <4> QED
        BY <4>1, <4>2
    <3>2. [sock[k] EXCEPT !.pc = "presenting", !.task = TaskSequence[idx + 1]] \in Local
      BY <3>1, <1>a, <1>c, UpdateTyped
    <3> QED
      BY <1>5, <2>2, <3>2, <1>b DEF Present
  <2> QED
    BY <1>5, <2>1, <2>2 DEF Present
<1>6. ASSUME NEW k \in Sockets, Work(k) PROVE TypeOK'
  BY <1>6, <1>1 DEF Work
<1>7. ASSUME NEW k \in Sockets, EmitPresented(k) PROVE TypeOK'
  BY <1>7, <1>1, <1>a, <1>d DEF EmitPresented
<1>8. ASSUME NEW k \in Sockets, Submit(k) PROVE TypeOK'
  BY <1>8, <1>1, <1>a, <1>d DEF Submit
<1>9. ASSUME NEW k \in Sockets, ReadIdx(k) PROVE TypeOK'
  <2>1. [sock[k] EXCEPT !.pc = "storing", !.next = idx + 1] \in Local
    <3>1. DEFINE n == idx + 1
    <3>2. n \in Nat /\ "storing" \in Pcs /\ sock[k] \in Local
      BY <1>a, <1>c
    <3> HIDE DEF n
    <3>3. [sock[k] EXCEPT !.pc = "storing", !.next = n] \in Local
      BY <3>2, UpdateTyped
    <3> QED
      BY <3>3 DEF n
  <2> QED
    BY <1>9, <2>1, <1>b DEF ReadIdx
<1>10. ASSUME NEW k \in Sockets, StoreIdx(k) PROVE TypeOK'
  <2>1. /\ [sock[k] EXCEPT !.pc = "reading", !.next = 0] \in Local
        /\ [sock[k] EXCEPT !.pc = "ending", !.next = 0] \in Local
    BY <1>a, <1>c, UpdateTyped, 0 \in Nat
  <2>2. sock[k].next \in Nat
    BY <1>c DEF Local
  <2>3. sock' \in [Sockets -> Local]
    <3>1. CASE Becomes(k, [sock[k] EXCEPT !.pc = "reading", !.next = 0])
      BY <2>1, <3>1, <1>b
    <3>2. CASE Becomes(k, [sock[k] EXCEPT !.pc = "ending", !.next = 0])
      BY <2>1, <3>2, <1>b
    <3> QED
      BY <1>10, <3>1, <3>2 DEF StoreIdx
  <2> QED
    BY <1>10, <2>2, <2>3 DEF StoreIdx
<1>11. ASSUME NEW k \in Sockets, End(k) PROVE TypeOK'
  <2>1. [sock[k] EXCEPT !.pc = "marking", !.leave = TRUE] \in Local
    BY <1>a, <1>c, UpdateTyped
  <2>2. sock' \in [Sockets -> Local]
    BY <1>11, <2>1, <1>b, Zenon DEF End
  <2>3. EmitEnded
    BY <1>11, Zenon DEF End
  <2> QED
    BY <2>2, <2>3 DEF EmitEnded
<1>12. ASSUME NEW k \in Sockets, EndAfterSubmit(k) PROVE TypeOK'
  BY <1>12, <1>a, <1>d DEF EndAfterSubmit, EmitEnded
<1>13. ASSUME NEW k \in Sockets, MarkEnded(k) PROVE TypeOK'
  BY <1>13, <1>a, <1>d DEF MarkEnded, Statuses
<1>14. ASSUME NEW k \in Sockets, Snapshot(k) PROVE TypeOK'
  <2>1. [sock[k] EXCEPT !.pc = "scoring", !.snap = weight,
                        !.todo = {t \in Tasks : weight[t] > 0}] \in Local
    BY <1>a, <1>c, UpdateTyped
  <2> QED
    BY <1>14, <2>1, <1>b DEF Snapshot
<1>15. ASSUME NEW k \in Sockets, ScoreTask(k) PROVE TypeOK'
  <2>1. PICK t \in sock[k].todo :
          /\ finals' = [finals EXCEPT ![t] = sock[k].snap[t]]
          /\ Becomes(k, [sock[k] EXCEPT !.todo = @ \ {t}])
    BY <1>15 DEF ScoreTask
  <2>2. t \in Tasks /\ sock[k].snap[t] \in Nat
    BY <1>c DEF Local
  <2>3. [sock[k] EXCEPT !.todo = @ \ {t}] \in Local
    BY <2>2, <1>c, UpdateTyped
  <2> QED
    BY <1>15, <2>1, <2>2, <2>3, <1>b DEF ScoreTask
<1>16. ASSUME NEW k \in Sockets, Aggregate(k) PROVE TypeOK'
  <2>1. [sock[k] EXCEPT !.pc = "finishing", !.snap = Nothing] \in Local
    BY <1>a, <1>c, <1>e, UpdateTyped
  <2>2. sock' \in [Sockets -> Local]
    BY <1>16, <2>1, <1>b, Zenon DEF Aggregate
  <2>3. aggregates' \in Nat
    BY <1>16 DEF Aggregate
  <2>4. UNCHANGED <<row, events, finals>>
    BY <1>16, Zenon DEF Aggregate
  <2> QED
    BY <2>2, <2>3, <2>4
<1>17. ASSUME NEW k \in Sockets, MarkScored(k) PROVE TypeOK'
  BY <1>17, <1>2 DEF MarkScored, Statuses
<1>18. ASSUME NEW k \in Sockets, ScoringStops(k) PROVE TypeOK'
  BY <1>18, <1>2 DEF ScoringStops
<1>19. ASSUME Restart PROVE TypeOK'
  BY <1>19, FreshTyped DEF Restart, Statuses
<1>20. CASE UNCHANGED vars
  BY <1>20 DEF vars
<1> QED
  BY <1>3, <1>4, <1>5, <1>6, <1>7, <1>8, <1>9, <1>10, <1>11, <1>12, <1>13, <1>14, <1>15,
     <1>16, <1>17, <1>18, <1>19, <1>20 DEF Next, TakeStep, EndStep, Hello, PresentNext

-------------------------------------------------------------------------------
(* current_task_idx and the submits behind it *)

(* A step that changes neither count, and leaves a handler inside           *)
(* _on_submit only as it found it, keeps the bound.                         *)
LEMMA BackedFrame ==
  ASSUME TypeOK, TypeOK', BackedInv, UNCHANGED <<idx, submits>>,
         \A j \in Sockets : sock'[j].pc \in {"advancing", "storing"} => sock'[j] = sock[j]
  PROVE  BackedInv'
<1>1. Advancing' \subseteq Advancing
  BY DEF Advancing
<1>2. Cardinality(Advancing') \in Nat /\ Cardinality(Advancing') <= Cardinality(Advancing)
  BY <1>1, AdvancingFinite, FS_Subset, FS_CardinalityType
<1>3. idx' + Cardinality(Advancing') <= submits'
  BY <1>2, AdvancingFinite DEF BackedInv, TypeOK
<1>4. ASSUME NEW j \in Sockets, sock'[j].pc = "storing"
      PROVE  sock'[j].next + Cardinality(Advancing') <= submits' + 1
  <2>1. sock'[j] = sock[j] /\ sock[j].next \in Nat
    BY <1>4 DEF TypeOK, Local
  <2>2. sock[j].next + Cardinality(Advancing) <= submits + 1
    BY <1>4, <2>1 DEF BackedInv
  <2>3. submits \in Nat
    BY DEF TypeOK
  <2> QED
    BY <1>2, <2>1, <2>2, <2>3, AdvancingFinite
<1> QED
  BY <1>3, <1>4 DEF BackedInv, Advancing

(* TASK_SUBMITTED: one more submit, one more handler that owes a step. *)
LEMMA SubmitBacked ==
  ASSUME TypeOK, BackedInv, NEW k \in Sockets, Submit(k)
  PROVE  BackedInv'
<1>1. sock[k] \in Local /\ sock[k].pc = "ready"
  BY DEF TypeOK, Submit, At
<1>2. sock'[k].pc = "advancing" /\ \A j \in Sockets \ {k} : sock'[j] = sock[j]
  BY <1>1 DEF TypeOK, Submit, Goto, Becomes, Local
<1>3. Advancing' = Advancing \cup {k} /\ k \notin Advancing
  BY <1>1, <1>2 DEF Advancing
<1>4. Cardinality(Advancing') = Cardinality(Advancing) + 1
  BY <1>3, AdvancingFinite, FS_AddElement
<1>5. idx' = idx /\ submits' = submits + 1
  BY DEF Submit, row
<1>6. idx' + Cardinality(Advancing') <= submits'
  BY <1>4, <1>5, AdvancingFinite DEF BackedInv, TypeOK
<1>7. ASSUME NEW j \in Sockets, sock'[j].pc = "storing"
      PROVE  sock'[j].next + Cardinality(Advancing') <= submits' + 1
  <2>1. sock'[j] = sock[j] /\ sock[j].next \in Nat
    BY <1>2, <1>7 DEF TypeOK, Local
  <2>2. sock[j].next + Cardinality(Advancing) <= submits + 1
    BY <1>7, <2>1 DEF BackedInv
  <2>3. submits \in Nat
    BY DEF TypeOK
  <2> QED
    BY <1>4, <1>5, <2>1, <2>2, <2>3, AdvancingFinite
<1> QED
  BY <1>6, <1>7 DEF BackedInv, Advancing

(* get_session: the handler holds idx + 1, which its own submit backs. *)
LEMMA ReadIdxBacked ==
  ASSUME TypeOK, BackedInv, NEW k \in Sockets, ReadIdx(k)
  PROVE  BackedInv'
<1>1. sock[k] \in Local /\ sock[k].pc = "advancing"
  BY DEF TypeOK, ReadIdx, At
<1>2. /\ sock'[k].pc = "storing" /\ sock'[k].next = idx + 1
      /\ \A j \in Sockets \ {k} : sock'[j] = sock[j]
  BY <1>1 DEF TypeOK, ReadIdx, Becomes, Local
<1>3. Advancing' = Advancing
  BY <1>1, <1>2 DEF Advancing
<1>4. idx' = idx /\ submits' = submits
  BY DEF ReadIdx, row, events
<1>5. idx + Cardinality(Advancing) <= submits
  BY DEF BackedInv
<1>6. ASSUME NEW j \in Sockets, sock'[j].pc = "storing"
      PROVE  sock'[j].next + Cardinality(Advancing) <= submits + 1
  <2>1. CASE j = k
    BY <1>2, <1>5, <2>1, AdvancingFinite DEF TypeOK
  <2>2. CASE j # k
    BY <1>2, <1>6, <2>2 DEF BackedInv
  <2> QED
    BY <2>1, <2>2
<1> QED
  BY <1>3, <1>4, <1>5, <1>6 DEF BackedInv, Advancing

(* set_current_task_idx: a possibly stale index is stored, and one handler  *)
(* fewer owes a step.                                                       *)
LEMMA StoreIdxBacked ==
  ASSUME TypeOK, BackedInv, NEW k \in Sockets, StoreIdx(k)
  PROVE  BackedInv'
<1>1. sock[k] \in Local /\ sock[k].pc = "storing"
  BY DEF TypeOK, StoreIdx, At
<1>2. /\ sock'[k].pc \in {"reading", "ending"}
      /\ \A j \in Sockets \ {k} : sock'[j] = sock[j]
  <2>1. ASSUME NEW p \in {"reading", "ending"},
               Becomes(k, [sock[k] EXCEPT !.pc = p, !.next = 0])
        PROVE  /\ sock'[k].pc = p
               /\ \A j \in Sockets \ {k} : sock'[j] = sock[j]
    BY <1>1, <2>1 DEF TypeOK, Becomes, Local
  <2>2. CASE Becomes(k, [sock[k] EXCEPT !.pc = "reading", !.next = 0])
    BY <2>1, <2>2
  <2>3. CASE Becomes(k, [sock[k] EXCEPT !.pc = "ending", !.next = 0])
    BY <2>1, <2>3
  <2> QED
    BY <2>2, <2>3 DEF StoreIdx
<1>3. Advancing' = Advancing \ {k} /\ k \in Advancing
  BY <1>1, <1>2 DEF Advancing
<1>4. Cardinality(Advancing') = Cardinality(Advancing) - 1
  BY <1>3, AdvancingFinite, FS_RemoveElement
<1>5. idx' = sock[k].next /\ submits' = submits /\ sock[k].next \in Nat
  BY <1>1 DEF StoreIdx, events, Local
<1>6. idx' + Cardinality(Advancing') <= submits'
  BY <1>1, <1>4, <1>5, AdvancingFinite, SMTT(20) DEF BackedInv, TypeOK
<1>7. ASSUME NEW j \in Sockets, sock'[j].pc = "storing"
      PROVE  sock'[j].next + Cardinality(Advancing') <= submits' + 1
  <2>1. sock'[j] = sock[j] /\ sock[j].next \in Nat
    BY <1>2, <1>7 DEF TypeOK, Local
  <2>2. sock[j].next + Cardinality(Advancing) <= submits + 1
    BY <1>7, <2>1 DEF BackedInv
  <2>3. submits \in Nat
    BY DEF TypeOK
  <2> QED
    BY <1>4, <1>5, <2>1, <2>2, <2>3, AdvancingFinite
<1> QED
  BY <1>6, <1>7 DEF BackedInv, Advancing

(* What every other step does to the handlers: one of them moves, to a      *)
(* place outside _on_submit, or none does.                                  *)
LEMMA BackedMove ==
  ASSUME TypeOK, TypeOK', BackedInv, NEW k \in Sockets, NEW l, Becomes(k, l),
         UNCHANGED <<idx, submits>>, l.pc \notin {"advancing", "storing"}
  PROVE  BackedInv'
<1>1. sock'[k] = l /\ \A j \in Sockets \ {k} : sock'[j] = sock[j]
  BY DEF Becomes, TypeOK
<1>2. \A j \in Sockets : sock'[j].pc \in {"advancing", "storing"} => sock'[j] = sock[j]
  BY <1>1
<1> QED
  BY <1>2, BackedFrame

(* No other step moves the index, the submits or a handler that owes. *)
LEMMA StepBacked == TypeOK /\ BackedInv /\ [Next]_vars => BackedInv'
<1> SUFFICES ASSUME TypeOK, BackedInv, [Next]_vars PROVE BackedInv'
  OBVIOUS
<1> USE DEF row, events, scores
<1>a. TypeOK'
  BY StepTyped
<1>b. \A k \in Sockets : sock[k] \in Local
  BY DEF TypeOK
<1>c. ASSUME NEW k \in Sockets, NEW p \in Pcs \ {"advancing", "storing"}, Goto(k, p),
             UNCHANGED <<idx, submits>>
      PROVE  BackedInv'
  <2>1. [sock[k] EXCEPT !.pc = p].pc = p
    BY <1>b DEF Local
  <2> QED
    BY <1>a, <1>c, <2>1, BackedMove DEF Goto
<1>d. {"ready", "reading", "presenting", "ending", "marking", "snapshotting", "scoring",
       "finishing"} \subseteq Pcs \ {"advancing", "storing"}
  BY DEF Pcs, Taking, Ending, Scoring
<1>e. ASSUME NEW k \in Sockets, Becomes(k, Fresh), UNCHANGED <<idx, submits>> PROVE BackedInv'
  BY <1>a, <1>e, BackedMove DEF Fresh
<1>f. ASSUME NEW k \in Sockets, Resume(k), UNCHANGED <<idx, submits>> PROVE BackedInv'
  <2>1. [sock[k] EXCEPT !.pc = "ready", !.snap = Nothing, !.todo = {}].pc = "ready"
    BY <1>b DEF Local
  <2>2. CASE Becomes(k, [sock[k] EXCEPT !.pc = "ready", !.snap = Nothing, !.todo = {}])
    BY <1>a, <1>f, <2>1, <2>2, BackedMove
  <2> QED
    BY <1>f, <1>e, <2>2 DEF Resume
<1>3. ASSUME NEW k \in Sockets, Disconnect(k) PROVE BackedInv'
  BY <1>3, <1>e DEF Disconnect
<1>4. ASSUME NEW k \in Sockets, HandlerDies(k) PROVE BackedInv'
  BY <1>4, <1>e DEF HandlerDies
<1>5. ASSUME NEW k \in Sockets, Present(k) PROVE BackedInv'
  <2>1. [sock[k] EXCEPT !.pc = "presenting", !.task = TaskSequence[idx + 1]].pc = "presenting"
    BY <1>b DEF Local
  <2>2. CASE Becomes(k, [sock[k] EXCEPT !.pc = "presenting", !.task = TaskSequence[idx + 1]])
    BY <1>5, <1>a, <2>1, <2>2, BackedMove DEF Present
  <2> QED
    BY <1>5, <1>c, <1>d, <2>2 DEF Present
<1>6. ASSUME NEW k \in Sockets, Work(k) PROVE BackedInv'
  BY <1>6, <1>a, BackedFrame DEF Work
<1>7. ASSUME NEW k \in Sockets, EmitPresented(k) PROVE BackedInv'
  BY <1>7, <1>c, <1>d DEF EmitPresented
<1>8. ASSUME NEW k \in Sockets, End(k) PROVE BackedInv'
  <2>1. [sock[k] EXCEPT !.pc = "marking", !.leave = TRUE].pc = "marking"
    BY <1>b DEF Local
  <2>2. Becomes(k, [sock[k] EXCEPT !.pc = "marking", !.leave = TRUE]) /\ EmitEnded
    BY <1>8, Zenon DEF End
  <2>3. UNCHANGED <<idx, submits>>
    BY <2>2 DEF EmitEnded
  <2> QED
    BY <1>a, <2>1, <2>2, <2>3, BackedMove, Zenon
<1>9. ASSUME NEW k \in Sockets, EndAfterSubmit(k) PROVE BackedInv'
  BY <1>9, <1>c, <1>d DEF EndAfterSubmit, EmitEnded
<1>10. ASSUME NEW k \in Sockets, MarkEnded(k) PROVE BackedInv'
  BY <1>10, <1>c, <1>d DEF MarkEnded
<1>11. ASSUME NEW k \in Sockets, Snapshot(k) PROVE BackedInv'
  <2> DEFINE l == [sock[k] EXCEPT !.pc = "scoring", !.snap = weight,
                                  !.todo = {t \in Tasks : weight[t] > 0}]
  <2>1. l.pc = "scoring"
    BY <1>b DEF Local
  <2>2. Becomes(k, l) /\ UNCHANGED <<idx, submits>>
    BY <1>11 DEF Snapshot
  <2> QED
    BY <1>a, <2>1, <2>2, BackedMove
<1>12. ASSUME NEW k \in Sockets, ScoreTask(k) PROVE BackedInv'
  <2>1. PICK t \in sock[k].todo : Becomes(k, [sock[k] EXCEPT !.todo = @ \ {t}])
    BY <1>12 DEF ScoreTask
  <2>2. [sock[k] EXCEPT !.todo = @ \ {t}].pc = "scoring"
    BY <1>12, <1>b DEF ScoreTask, At, Local
  <2>3. UNCHANGED <<idx, submits>>
    BY <1>12 DEF ScoreTask
  <2> QED
    BY <1>a, <2>1, <2>2, <2>3, BackedMove
<1>13. ASSUME NEW k \in Sockets, Aggregate(k) PROVE BackedInv'
  <2>1. [sock[k] EXCEPT !.pc = "finishing", !.snap = Nothing].pc = "finishing"
    BY <1>b DEF Local
  <2> QED
    BY <1>13, <1>a, <2>1, BackedMove DEF Aggregate
<1>14. ASSUME NEW k \in Sockets, MarkScored(k) PROVE BackedInv'
  BY <1>14, <1>f DEF MarkScored
<1>15. ASSUME NEW k \in Sockets, ScoringStops(k) PROVE BackedInv'
  BY <1>15, <1>f DEF ScoringStops
<1>16. ASSUME Restart PROVE BackedInv'
  <2>1. \A j \in Sockets : sock'[j].pc = "ready"
    BY <1>16 DEF Restart, Fresh
  <2> QED
    BY <1>16, <1>a, <2>1, BackedFrame DEF Restart
<1>17. CASE UNCHANGED vars
  BY <1>17, <1>a, BackedFrame DEF vars
<1> QED
  BY <1>3, <1>4, <1>5, <1>6, <1>7, <1>8, <1>9, <1>10, <1>11, <1>12, <1>13, <1>14, <1>15,
     <1>16, <1>17, SubmitBacked, ReadIdxBacked, StoreIdxBacked
     DEF Next, TakeStep, EndStep, Hello, PresentNext

-------------------------------------------------------------------------------
(* SESSION_ENDED before the row, the row before the scoring *)

(* After the scoring the handler is between two messages, or gone. *)
LEMMA ResumeMoves ==
  ASSUME TypeOK, NEW k \in Sockets, Resume(k)
  PROVE  sock'[k].pc = "ready" /\ \A j \in Sockets \ {k} : sock'[j] = sock[j]
<1>1. CASE Becomes(k, Fresh)
  BY <1>1 DEF Becomes, Fresh, TypeOK
<1>2. CASE Becomes(k, [sock[k] EXCEPT !.pc = "ready", !.snap = Nothing, !.todo = {}])
  <2>1. [sock[k] EXCEPT !.pc = "ready", !.snap = Nothing, !.todo = {}].pc = "ready"
    BY DEF TypeOK, Local
  <2> QED
    BY <1>2, <2>1 DEF Becomes, TypeOK
<1> QED
  BY <1>1, <1>2 DEF Resume

(* One handler moves; if it moves into the ending of the session, the event *)
(* (and for the scoring, the row) is there.                                 *)
LEMMA EndedMove ==
  ASSUME TypeOK, EndedInv, NEW k \in Sockets, NEW l, Becomes(k, l),
         UNCHANGED <<status, ends>>,
         l.pc \in Scoring \cup {"marking"} => ends > 0,
         l.pc \in Scoring => status # "active"
  PROVE  EndedInv'
<1>1. sock'[k] = l /\ \A j \in Sockets \ {k} : sock'[j] = sock[j]
  BY DEF Becomes, TypeOK
<1>2. ASSUME NEW j \in Sockets
      PROVE  /\ sock'[j].pc \in Scoring \cup {"marking"} => ends > 0
             /\ sock'[j].pc \in Scoring => status # "active"
  <2>1. CASE j = k
    BY <1>1, <2>1
  <2>2. CASE j # k
    BY <1>1, <2>2 DEF EndedInv
  <2> QED
    BY <2>1, <2>2
<1> QED
  BY <1>2 DEF EndedInv, EndIsLogged, Scoring

(* EventLogger.write of SESSION_ENDED only adds to what is known. *)
LEMMA EmitEndedKeeps ==
  ASSUME TypeOK, EndedInv, EmitEnded, NEW k \in Sockets, NEW l, Becomes(k, l),
         l.pc = "marking"
  PROVE  EndedInv'
<1>1. sock'[k] = l /\ \A j \in Sockets \ {k} : sock'[j] = sock[j]
  BY DEF Becomes, TypeOK
<1>2. ends' > 0 /\ status' = status
  BY DEF EmitEnded, TypeOK, row
<1>3. ASSUME NEW j \in Sockets, sock'[j].pc \in Scoring PROVE status # "active"
  <2>1. j # k
    BY <1>1, <1>3 DEF Scoring
  <2> QED
    BY <1>1, <1>3, <2>1 DEF EndedInv
<1> QED
  BY <1>2, <1>3 DEF EndedInv, EndIsLogged, Scoring

(* Every step keeps the order of the event, the row and the scoring. *)
LEMMA StepEnded == TypeOK /\ EndedInv /\ [Next]_vars => EndedInv'
<1> SUFFICES ASSUME TypeOK, EndedInv, [Next]_vars PROVE EndedInv'
  OBVIOUS
<1> USE DEF row, events, scores
<1>b. \A k \in Sockets : sock[k] \in Local
  BY DEF TypeOK
<1>c. ASSUME NEW k \in Sockets, NEW p \in Pcs \ (Scoring \cup {"marking"}), Goto(k, p),
             UNCHANGED <<status, ends>>
      PROVE  EndedInv'
  <2>1. [sock[k] EXCEPT !.pc = p].pc = p
    BY <1>b DEF Local
  <2> QED
    BY <1>c, <2>1, EndedMove DEF Goto
<1>d. {"ready", "reading", "presenting", "advancing", "storing", "ending"}
        \subseteq Pcs \ (Scoring \cup {"marking"})
  BY DEF Pcs, Taking, Ending, Scoring
<1>e. ASSUME NEW k \in Sockets, Becomes(k, Fresh), UNCHANGED <<status, ends>> PROVE EndedInv'
  <2>1. Fresh.pc \notin Scoring \cup {"marking"}
    BY DEF Fresh, Scoring
  <2> QED
    BY <1>e, <2>1, EndedMove
<1>3. ASSUME NEW k \in Sockets, Disconnect(k) PROVE EndedInv'
  BY <1>3, <1>e DEF Disconnect
<1>4. ASSUME NEW k \in Sockets, HandlerDies(k) PROVE EndedInv'
  BY <1>4, <1>e DEF HandlerDies
<1>5. ASSUME NEW k \in Sockets, Present(k) PROVE EndedInv'
  <2> DEFINE l == [sock[k] EXCEPT !.pc = "presenting", !.task = TaskSequence[idx + 1]]
  <2>1. l.pc \notin Scoring \cup {"marking"}
    BY <1>b DEF Local, Scoring
  <2>2. CASE Becomes(k, l)
    BY <1>5, <2>1, <2>2, EndedMove DEF Present
  <2> QED
    BY <1>5, <1>c, <1>d, <2>2 DEF Present
<1>6. ASSUME NEW k \in Sockets, Work(k) PROVE EndedInv'
  BY <1>6 DEF Work, EndedInv, EndIsLogged
<1>7. ASSUME NEW k \in Sockets, EmitPresented(k) PROVE EndedInv'
  BY <1>7, <1>c, <1>d DEF EmitPresented
<1>8. ASSUME NEW k \in Sockets, Submit(k) PROVE EndedInv'
  BY <1>8, <1>c, <1>d DEF Submit
<1>9. ASSUME NEW k \in Sockets, ReadIdx(k) PROVE EndedInv'
  <2> DEFINE l == [sock[k] EXCEPT !.pc = "storing", !.next = idx + 1]
  <2>1. l.pc \notin Scoring \cup {"marking"}
    BY <1>b DEF Local, Scoring
  <2> QED
    BY <1>9, <2>1, EndedMove DEF ReadIdx
<1>10. ASSUME NEW k \in Sockets, StoreIdx(k) PROVE EndedInv'
  <2>1. ASSUME NEW p \in {"reading", "ending"}
        PROVE  [sock[k] EXCEPT !.pc = p, !.next = 0].pc \notin Scoring \cup {"marking"}
    BY <1>b DEF Local, Scoring
  <2>2. UNCHANGED <<status, ends>>
    BY <1>10 DEF StoreIdx
  <2>3. CASE Becomes(k, [sock[k] EXCEPT !.pc = "reading", !.next = 0])
    BY <2>1, <2>2, <2>3, EndedMove
  <2>4. CASE Becomes(k, [sock[k] EXCEPT !.pc = "ending", !.next = 0])
    BY <2>1, <2>2, <2>4, EndedMove
  <2> QED
    BY <1>10, <2>3, <2>4 DEF StoreIdx
<1>11. ASSUME NEW k \in Sockets, End(k) PROVE EndedInv'
  <2>1. [sock[k] EXCEPT !.pc = "marking", !.leave = TRUE].pc = "marking"
    BY <1>b DEF Local
  <2>2. Becomes(k, [sock[k] EXCEPT !.pc = "marking", !.leave = TRUE]) /\ EmitEnded
    BY <1>11, Zenon DEF End
  <2> QED
    BY <2>1, <2>2, EmitEndedKeeps, Zenon
<1>12. ASSUME NEW k \in Sockets, EndAfterSubmit(k) PROVE EndedInv'
  <2>1. [sock[k] EXCEPT !.pc = "marking"].pc = "marking"
    BY <1>b DEF Local
  <2> QED
    BY <1>12, <2>1, EmitEndedKeeps DEF EndAfterSubmit, Goto
<1>13. ASSUME NEW k \in Sockets, MarkEnded(k) PROVE EndedInv'
  <2>1. status' # "active" /\ ends' = ends /\ status' \in {"ended", status}
    BY <1>13 DEF MarkEnded
  <2>2. ends > 0
    BY <1>13 DEF MarkEnded, At, EndedInv
  <2> QED
    BY <2>1, <2>2 DEF EndedInv, EndIsLogged
<1>14. ASSUME NEW k \in Sockets, Snapshot(k) PROVE EndedInv'
  <2> DEFINE l == [sock[k] EXCEPT !.pc = "scoring", !.snap = weight,
                                  !.todo = {t \in Tasks : weight[t] > 0}]
  <2>1. Becomes(k, l) /\ UNCHANGED <<status, ends>>
    BY <1>14 DEF Snapshot
  <2>2. ends > 0 /\ status # "active"
    BY <1>14 DEF Snapshot, At, EndedInv, Scoring
  <2> QED
    BY <2>1, <2>2, EndedMove
<1>15. ASSUME NEW k \in Sockets, ScoreTask(k) PROVE EndedInv'
  <2>1. PICK t \in sock[k].todo : Becomes(k, [sock[k] EXCEPT !.todo = @ \ {t}])
    BY <1>15 DEF ScoreTask
  <2>2. UNCHANGED <<status, ends>> /\ ends > 0 /\ status # "active"
    BY <1>15 DEF ScoreTask, At, EndedInv, Scoring
  <2> QED
    BY <2>1, <2>2, EndedMove
<1>16. ASSUME NEW k \in Sockets, Aggregate(k) PROVE EndedInv'
  <2>1. UNCHANGED <<status, ends>> /\ ends > 0 /\ status # "active"
    BY <1>16 DEF Aggregate, At, EndedInv, Scoring
  <2> QED
    BY <1>16, <2>1, EndedMove DEF Aggregate
<1>17. ASSUME NEW k \in Sockets, MarkScored(k) PROVE EndedInv'
  <2>1. ends > 0 /\ ends' = ends /\ status' = "scored"
    BY <1>17 DEF MarkScored, At, EndedInv, Scoring
  <2> QED
    BY <2>1 DEF EndedInv, EndIsLogged
<1>18. ASSUME NEW k \in Sockets, ScoringStops(k) PROVE EndedInv'
  <2>1. sock'[k].pc = "ready" /\ \A j \in Sockets \ {k} : sock'[j] = sock[j]
    BY <1>18, ResumeMoves DEF ScoringStops
  <2> QED
    BY <1>18, <2>1 DEF ScoringStops, EndedInv, EndIsLogged, Scoring
<1>19. ASSUME Restart PROVE EndedInv'
  <2>1. \A j \in Sockets : sock'[j].pc = "ready"
    BY <1>19 DEF Restart, Fresh
  <2> QED
    BY <1>19, <2>1 DEF Restart, EndedInv, EndIsLogged, Scoring
<1>20. CASE UNCHANGED vars
  BY <1>20 DEF vars, EndedInv, EndIsLogged
<1> QED
  BY <1>3, <1>4, <1>5, <1>6, <1>7, <1>8, <1>9, <1>10, <1>11, <1>12, <1>13, <1>14, <1>15,
     <1>16, <1>17, <1>18, <1>19, <1>20 DEF Next, TakeStep, EndStep, Hello, PresentNext

-------------------------------------------------------------------------------
(* The final rows of a scored session *)

(* Events are only added, and a handler that is inside the scoring has not  *)
(* moved.                                                                   *)
LEMMA CompleteFrame ==
  ASSUME TypeOK, TypeOK', CompleteInv, UNCHANGED <<ends, atEnd, finals>>,
         \A t \in Tasks : weight[t] <= weight'[t],
         status' = "scored" => status = "scored",
         \A j \in Sockets : sock'[j].pc \in {"scoring", "finishing"} => sock'[j] = sock[j]
  PROVE  CompleteInv'
<1>1. ends' > 0 => \A t \in Tasks : atEnd'[t] <= weight'[t]
  <2> SUFFICES ASSUME ends > 0, NEW t \in Tasks PROVE atEnd[t] <= weight'[t]
    OBVIOUS
  <2>1. atEnd[t] <= weight[t] /\ weight[t] <= weight'[t]
    BY DEF CompleteInv
  <2>2. atEnd[t] \in Nat /\ weight[t] \in Nat /\ weight'[t] \in Nat
    BY DEF TypeOK
  <2> QED
    BY <2>1, <2>2
<1>2. ASSUME NEW j \in Sockets, sock'[j].pc = "scoring", NEW t \in Tasks
      PROVE  /\ atEnd'[t] <= sock'[j].snap[t]
             /\ t \notin sock'[j].todo => atEnd'[t] <= finals'[t]
  <2>1. sock'[j] = sock[j] /\ sock[j].pc = "scoring"
    BY <1>2
  <2> QED
    BY <2>1 DEF CompleteInv
<1>3. ASSUME NEW j \in Sockets, sock'[j].pc = "finishing", NEW t \in Tasks
      PROVE  atEnd'[t] <= finals'[t]
  <2>1. sock'[j] = sock[j] /\ sock[j].pc = "finishing"
    BY <1>3
  <2> QED
    BY <2>1 DEF CompleteInv
<1>4. ScoredIsComplete'
  BY DEF CompleteInv, ScoredIsComplete
<1> QED
  BY <1>1, <1>2, <1>3, <1>4 DEF CompleteInv

(* A handler moves to a place outside the scoring. *)
LEMMA CompleteMove ==
  ASSUME TypeOK, TypeOK', CompleteInv, NEW k \in Sockets, NEW l, Becomes(k, l),
         UNCHANGED <<ends, atEnd, finals>>,
         \A t \in Tasks : weight[t] <= weight'[t],
         status' = "scored" => status = "scored",
         l.pc \notin {"scoring", "finishing"}
  PROVE  CompleteInv'
<1>1. sock'[k] = l /\ \A j \in Sockets \ {k} : sock'[j] = sock[j]
  BY DEF Becomes, TypeOK
<1>2. \A j \in Sockets : sock'[j].pc \in {"scoring", "finishing"} => sock'[j] = sock[j]
  BY <1>1
<1> QED
  BY <1>2, CompleteFrame

(* The first SESSION_ENDED fixes what a final row must cover, before any    *)
(* scoring has begun; a later one leaves that alone.                        *)
LEMMA EmitEndedComplete ==
  ASSUME TypeOK, TypeOK', EndedInv, CompleteInv, EmitEnded,
         NEW k \in Sockets, NEW l, Becomes(k, l), l.pc = "marking"
  PROVE  CompleteInv'
<1>0. /\ weight' = weight /\ finals' = finals /\ status' = status
      /\ \A t \in Tasks : weight[t] \in Nat
  BY DEF EmitEnded, row, scores, TypeOK
<1>1. CASE ends = 0
  <2>1. atEnd' = weight
    BY <1>1 DEF EmitEnded
  <2>2. sock'[k] = l /\ \A j \in Sockets \ {k} : sock'[j] = sock[j]
    BY DEF Becomes, TypeOK
  <2>3. ~(ends > 0)
    BY <1>1
  <2>4. \A j \in Sockets : sock'[j].pc \notin {"scoring", "finishing"}
    BY <2>2, <2>3 DEF EndedInv, Scoring
  <2>5. status # "scored"
    BY <2>3 DEF EndedInv, EndIsLogged
  <2>6. \A t \in Tasks : atEnd'[t] <= weight'[t]
    BY <1>0, <2>1
  <2> QED
    BY <1>0, <2>4, <2>5, <2>6 DEF CompleteInv, ScoredIsComplete
<1>2. CASE ends # 0
  <2>1. atEnd' = atEnd /\ ends > 0 /\ ends' > 0
    BY <1>2 DEF EmitEnded, TypeOK
  <2>2. sock'[k] = l /\ \A j \in Sockets \ {k} : sock'[j] = sock[j]
    BY DEF Becomes, TypeOK
  <2>3. \A j \in Sockets : sock'[j].pc \in {"scoring", "finishing"} => sock'[j] = sock[j]
    BY <2>2
  <2>4. ends' > 0 => \A t \in Tasks : atEnd'[t] <= weight'[t]
    BY <1>0, <2>1 DEF CompleteInv
  <2>5. ASSUME NEW j \in Sockets, sock'[j].pc = "scoring", NEW t \in Tasks
        PROVE  /\ atEnd'[t] <= sock'[j].snap[t]
               /\ t \notin sock'[j].todo => atEnd'[t] <= finals'[t]
    <3>1. sock'[j] = sock[j] /\ sock[j].pc = "scoring"
      BY <2>3, <2>5
    <3> QED
      BY <1>0, <2>1, <3>1 DEF CompleteInv
  <2>6. ASSUME NEW j \in Sockets, sock'[j].pc = "finishing", NEW t \in Tasks
        PROVE  atEnd'[t] <= finals'[t]
    <3>1. sock'[j] = sock[j] /\ sock[j].pc = "finishing"
      BY <2>3, <2>6
    <3> QED
      BY <1>0, <2>1, <3>1 DEF CompleteInv
  <2>7. ScoredIsComplete'
    BY <1>0, <2>1 DEF CompleteInv, ScoredIsComplete
  <2> QED
    BY <2>4, <2>5, <2>6, <2>7 DEF CompleteInv
<1> QED
  BY <1>1, <1>2

(* get_session_events: the snapshot has what the session had at its end,    *)
(* and a task without events has nothing to score.                          *)
LEMMA SnapshotComplete ==
  ASSUME TypeOK, EndedInv, CompleteInv, NEW k \in Sockets, Snapshot(k)
  PROVE  CompleteInv'
<1> DEFINE T == {t \in Tasks : weight[t] > 0}
           l == [sock[k] EXCEPT !.pc = "scoring", !.snap = weight, !.todo = T]
<1>1. sock[k] \in Local /\ sock[k].pc = "snapshotting"
  BY DEF Snapshot, At, TypeOK
<1>2. l.pc = "scoring" /\ l.snap = weight /\ l.todo = T
  BY <1>1 DEF Local
<1>3. sock'[k] = l /\ \A j \in Sockets \ {k} : sock'[j] = sock[j]
  BY DEF Snapshot, Becomes, TypeOK
<1> HIDE DEF l
<1>4. /\ status' = status /\ ends' = ends /\ atEnd' = atEnd /\ weight' = weight
      /\ finals' = finals
  BY DEF Snapshot, row, events, scores
<1>5. \A t \in Tasks : atEnd[t] <= weight[t]
  BY <1>1 DEF EndedInv, CompleteInv, Scoring
<1>6. ASSUME NEW t \in Tasks, t \notin T PROVE atEnd[t] <= finals[t]
  <2>1. weight[t] \in Nat /\ atEnd[t] \in Nat /\ finals[t] \in Nat
    BY DEF TypeOK
  <2>2. atEnd[t] <= weight[t] /\ ~(weight[t] > 0)
    BY <1>5, <1>6
  <2> QED
    BY <2>1, <2>2
<1>7. ASSUME NEW j \in Sockets, sock'[j].pc = "scoring", NEW t \in Tasks
      PROVE  /\ atEnd[t] <= sock'[j].snap[t]
             /\ t \notin sock'[j].todo => atEnd[t] <= finals[t]
  <2>1. CASE j = k
    BY <1>2, <1>3, <1>5, <1>6, <2>1
  <2>2. CASE j # k
    BY <1>3, <1>7, <2>2 DEF CompleteInv
  <2> QED
    BY <2>1, <2>2
<1>8. ASSUME NEW j \in Sockets, sock'[j].pc = "finishing", NEW t \in Tasks
      PROVE  atEnd[t] <= finals[t]
  <2>1. j # k
    BY <1>2, <1>3, <1>8
  <2> QED
    BY <1>3, <1>8, <2>1 DEF CompleteInv
<1> QED
  BY <1>4, <1>5, <1>7, <1>8 DEF CompleteInv, ScoredIsComplete

(* upsert: a row written from a snapshot covers the end, whichever run      *)
(* writes it and whatever it overwrites.                                    *)
LEMMA ScoreTaskComplete ==
  ASSUME TypeOK, CompleteInv, NEW k \in Sockets, ScoreTask(k)
  PROVE  CompleteInv'
<1>1. sock[k] \in Local /\ sock[k].pc = "scoring"
  BY DEF ScoreTask, At, TypeOK
<1>2. PICK u \in sock[k].todo :
        /\ finals' = [finals EXCEPT ![u] = sock[k].snap[u]]
        /\ Becomes(k, [sock[k] EXCEPT !.todo = @ \ {u}])
  BY DEF ScoreTask
<1> DEFINE l == [sock[k] EXCEPT !.todo = @ \ {u}]
<1>3. u \in Tasks
  BY <1>1 DEF Local
<1>4. l.pc = "scoring" /\ l.snap = sock[k].snap /\ l.todo = sock[k].todo \ {u}
  BY <1>1 DEF Local
<1>5. sock'[k] = l /\ \A j \in Sockets \ {k} : sock'[j] = sock[j]
  BY <1>2 DEF Becomes, TypeOK
<1> HIDE DEF l
<1>6. /\ status' = status /\ ends' = ends /\ atEnd' = atEnd /\ weight' = weight
  BY DEF ScoreTask, row, events
<1>7. /\ finals'[u] = sock[k].snap[u]
      /\ \A t \in Tasks \ {u} : finals'[t] = finals[t]
  BY <1>2, <1>3 DEF TypeOK
<1>8. \A t \in Tasks : /\ atEnd[t] <= sock[k].snap[t]
                       /\ t \notin sock[k].todo => atEnd[t] <= finals[t]
  BY <1>1 DEF CompleteInv
<1>9. ASSUME NEW t \in Tasks, atEnd[t] <= finals[t] PROVE atEnd[t] <= finals'[t]
  BY <1>7, <1>8, <1>9
<1>10. atEnd[u] <= finals'[u]
  BY <1>3, <1>7, <1>8
<1>11. ASSUME NEW j \in Sockets, sock'[j].pc = "scoring", NEW t \in Tasks
       PROVE  /\ atEnd[t] <= sock'[j].snap[t]
              /\ t \notin sock'[j].todo => atEnd[t] <= finals'[t]
  <2>1. CASE j = k
    BY <1>4, <1>5, <1>8, <1>9, <1>10, <2>1
  <2>2. CASE j # k
    <3>1. sock'[j] = sock[j] /\ sock[j].pc = "scoring"
      BY <1>5, <1>11, <2>2
    <3>2. /\ atEnd[t] <= sock[j].snap[t]
          /\ t \notin sock[j].todo => atEnd[t] <= finals[t]
      BY <3>1 DEF CompleteInv
    <3> QED
      BY <1>9, <3>1, <3>2
  <2> QED
    BY <2>1, <2>2
<1>12. ASSUME NEW j \in Sockets, sock'[j].pc = "finishing", NEW t \in Tasks
       PROVE  atEnd[t] <= finals'[t]
  <2>1. j # k
    BY <1>4, <1>5, <1>12
  <2>2. atEnd[t] <= finals[t]
    BY <1>5, <1>12, <2>1 DEF CompleteInv
  <2> QED
    BY <1>9, <2>2
<1>13. ScoredIsComplete'
  <2> SUFFICES ASSUME status = "scored", NEW t \in Tasks PROVE finals'[t] >= atEnd[t]
    BY <1>6 DEF ScoredIsComplete
  <2>1. finals[t] >= atEnd[t]
    BY DEF CompleteInv, ScoredIsComplete
  <2>2. finals[t] \in Nat /\ atEnd[t] \in Nat
    BY DEF TypeOK
  <2>3. atEnd[t] <= finals'[t]
    BY <1>9, <2>1, <2>2
  <2>4. finals'[t] \in Nat
    BY <1>1, <1>7, <2>2 DEF Local
  <2> QED
    BY <2>2, <2>3, <2>4
<1> QED
  BY <1>6, <1>11, <1>12, <1>13 DEF CompleteInv

(* _write_session_aggregate: no task is left, so every row is written. *)
LEMMA AggregateComplete ==
  ASSUME TypeOK, CompleteInv, NEW k \in Sockets, Aggregate(k)
  PROVE  CompleteInv'
<1> DEFINE l == [sock[k] EXCEPT !.pc = "finishing", !.snap = Nothing]
<1>1. sock[k] \in Local /\ sock[k].pc = "scoring" /\ sock[k].todo = {}
  BY DEF Aggregate, At, TypeOK
<1>2. l.pc = "finishing"
  BY <1>1 DEF Local
<1>3. sock'[k] = l /\ \A j \in Sockets \ {k} : sock'[j] = sock[j]
  BY DEF Aggregate, Becomes, TypeOK
<1> HIDE DEF l
<1>4. /\ status' = status /\ ends' = ends /\ atEnd' = atEnd /\ weight' = weight
      /\ finals' = finals
  BY DEF Aggregate, row, events
<1>5. \A t \in Tasks : atEnd[t] <= finals[t]
  BY <1>1 DEF CompleteInv
<1>6. ASSUME NEW j \in Sockets, sock'[j].pc = "scoring", NEW t \in Tasks
      PROVE  /\ atEnd[t] <= sock'[j].snap[t]
             /\ t \notin sock'[j].todo => atEnd[t] <= finals[t]
  <2>1. j # k
    BY <1>2, <1>3, <1>6
  <2> QED
    BY <1>3, <1>6, <2>1 DEF CompleteInv
<1> QED
  BY <1>4, <1>5, <1>6 DEF CompleteInv, ScoredIsComplete

(* mark_scored: the run that marks the row has covered every task. *)
LEMMA MarkScoredComplete ==
  ASSUME TypeOK, TypeOK', CompleteInv, NEW k \in Sockets, MarkScored(k)
  PROVE  CompleteInv'
<1>1. sock'[k].pc = "ready" /\ \A j \in Sockets \ {k} : sock'[j] = sock[j]
  BY ResumeMoves DEF MarkScored
<1>2. ends' = ends /\ atEnd' = atEnd /\ weight' = weight /\ finals' = finals
  BY DEF MarkScored, events, scores
<1>3. \A t \in Tasks : atEnd[t] <= finals[t]
  BY DEF MarkScored, At, CompleteInv
<1>4. \A t \in Tasks : finals[t] \in Nat /\ atEnd[t] \in Nat
  BY DEF TypeOK
<1>5. ASSUME NEW j \in Sockets, sock'[j].pc = "scoring", NEW t \in Tasks
      PROVE  /\ atEnd[t] <= sock'[j].snap[t]
             /\ t \notin sock'[j].todo => atEnd[t] <= finals[t]
  <2>1. j # k
    BY <1>1, <1>5
  <2> QED
    BY <1>1, <1>5, <2>1 DEF CompleteInv
<1>6. ScoredIsComplete'
  BY <1>2, <1>3, <1>4 DEF ScoredIsComplete
<1> QED
  BY <1>2, <1>3, <1>5, <1>6 DEF CompleteInv

(* Every step keeps the final rows complete. *)
LEMMA StepComplete ==
  TypeOK /\ EndedInv /\ CompleteInv /\ [Next]_vars => CompleteInv'
<1> SUFFICES ASSUME TypeOK, EndedInv, CompleteInv, [Next]_vars PROVE CompleteInv'
  OBVIOUS
<1> USE DEF row, events, scores
<1>a. TypeOK'
  BY StepTyped
<1>b. \A k \in Sockets : sock[k] \in Local
  BY DEF TypeOK
<1>w. ASSUME weight' = weight PROVE \A t \in Tasks : weight[t] <= weight'[t]
  BY <1>w DEF TypeOK
<1>t. ASSUME NEW k \in Sockets, Tag(k) PROVE \A t \in Tasks : weight[t] <= weight'[t]
  <2>1. weight \in [Tasks -> Nat] /\ sock[k].task \in Tasks \cup {None}
    BY <1>b DEF TypeOK, Local
  <2> QED
    BY <1>t, <2>1 DEF Tag
<1>c. ASSUME NEW k \in Sockets, NEW p \in Pcs \ {"scoring", "finishing"}, Goto(k, p),
             UNCHANGED <<ends, atEnd, finals>>,
             \A t \in Tasks : weight[t] <= weight'[t],
             status' = "scored" => status = "scored"
      PROVE  CompleteInv'
  <2>1. [sock[k] EXCEPT !.pc = p].pc = p
    BY <1>b DEF Local
  <2> QED
    BY <1>a, <1>c, <2>1, CompleteMove DEF Goto
<1>d. {"ready", "reading", "presenting", "advancing", "storing", "ending", "marking",
       "snapshotting"} \subseteq Pcs \ {"scoring", "finishing"}
  BY DEF Pcs, Taking, Ending, Scoring
<1>e. ASSUME NEW k \in Sockets, Becomes(k, Fresh), UNCHANGED <<row, events, scores>>
      PROVE  CompleteInv'
  BY <1>a, <1>e, <1>w, CompleteMove DEF Fresh
<1>3. ASSUME NEW k \in Sockets, Disconnect(k) PROVE CompleteInv'
  BY <1>3, <1>e DEF Disconnect
<1>4. ASSUME NEW k \in Sockets, HandlerDies(k) PROVE CompleteInv'
  BY <1>4, <1>e DEF HandlerDies
<1>5. ASSUME NEW k \in Sockets, Present(k) PROVE CompleteInv'
  <2> DEFINE l == [sock[k] EXCEPT !.pc = "presenting", !.task = TaskSequence[idx + 1]]
  <2>1. l.pc \notin {"scoring", "finishing"}
    BY <1>b DEF Local
  <2>2. CASE Becomes(k, l)
    BY <1>5, <1>a, <1>w, <2>1, <2>2, CompleteMove DEF Present
  <2>3. CASE Goto(k, "ready")
    BY <1>5, <1>c, <1>d, <1>w, <2>3 DEF Present
  <2> QED
    BY <1>5, <2>2, <2>3 DEF Present
<1>6. ASSUME NEW k \in Sockets, Work(k) PROVE CompleteInv'
  BY <1>6, <1>a, <1>t, CompleteFrame DEF Work
<1>7. ASSUME NEW k \in Sockets, EmitPresented(k) PROVE CompleteInv'
  BY <1>7, <1>c, <1>d, <1>t DEF EmitPresented
<1>8. ASSUME NEW k \in Sockets, Submit(k) PROVE CompleteInv'
  BY <1>8, <1>c, <1>d, <1>t DEF Submit
<1>9. ASSUME NEW k \in Sockets, ReadIdx(k) PROVE CompleteInv'
  <2> DEFINE l == [sock[k] EXCEPT !.pc = "storing", !.next = idx + 1]
  <2>1. l.pc \notin {"scoring", "finishing"}
    BY <1>b DEF Local
  <2> QED
    BY <1>9, <1>a, <1>w, <2>1, CompleteMove DEF ReadIdx
<1>10. ASSUME NEW k \in Sockets, StoreIdx(k) PROVE CompleteInv'
  <2>1. ASSUME NEW p \in {"reading", "ending"}
        PROVE  [sock[k] EXCEPT !.pc = p, !.next = 0].pc \notin {"scoring", "finishing"}
    BY <1>b DEF Local
  <2>2. /\ UNCHANGED <<ends, atEnd, finals, status>>
        /\ \A t \in Tasks : weight[t] <= weight'[t]
    BY <1>10, <1>w DEF StoreIdx
  <2>3. CASE Becomes(k, [sock[k] EXCEPT !.pc = "reading", !.next = 0])
    BY <1>a, <2>1, <2>2, <2>3, CompleteMove
  <2>4. CASE Becomes(k, [sock[k] EXCEPT !.pc = "ending", !.next = 0])
    BY <1>a, <2>1, <2>2, <2>4, CompleteMove
  <2> QED
    BY <1>10, <2>3, <2>4 DEF StoreIdx
<1>11. ASSUME NEW k \in Sockets, End(k) PROVE CompleteInv'
  <2>1. [sock[k] EXCEPT !.pc = "marking", !.leave = TRUE].pc = "marking"
    BY <1>b DEF Local
  <2>2. Becomes(k, [sock[k] EXCEPT !.pc = "marking", !.leave = TRUE]) /\ EmitEnded
    BY <1>11, Zenon DEF End
  <2> QED
    BY <1>a, <2>1, <2>2, EmitEndedComplete, Zenon
<1>12. ASSUME NEW k \in Sockets, EndAfterSubmit(k) PROVE CompleteInv'
  <2>1. [sock[k] EXCEPT !.pc = "marking"].pc = "marking"
    BY <1>b DEF Local
  <2> QED
    BY <1>12, <1>a, <2>1, EmitEndedComplete DEF EndAfterSubmit, Goto
<1>13. ASSUME NEW k \in Sockets, MarkEnded(k) PROVE CompleteInv'
  BY <1>13, <1>c, <1>d, <1>w DEF MarkEnded
<1>14. ASSUME NEW k \in Sockets, ScoringStops(k) PROVE CompleteInv'
  <2>1. sock'[k].pc = "ready" /\ \A j \in Sockets \ {k} : sock'[j] = sock[j]
    BY <1>14, ResumeMoves DEF ScoringStops
  <2>2. \A j \in Sockets : sock'[j].pc \in {"scoring", "finishing"} => sock'[j] = sock[j]
    BY <2>1
  <2> QED
    BY <1>14, <1>a, <1>w, <2>2, CompleteFrame DEF ScoringStops
<1>15. ASSUME Restart PROVE CompleteInv'
  <2>1. \A j \in Sockets : sock'[j].pc = "ready"
    BY <1>15 DEF Restart, Fresh
  <2> QED
    BY <1>15, <1>a, <1>w, <2>1, CompleteFrame DEF Restart
<1>16. CASE UNCHANGED vars
  BY <1>16, <1>a, <1>w, CompleteFrame DEF vars
<1> QED
  BY <1>a, <1>3, <1>4, <1>5, <1>6, <1>7, <1>8, <1>9, <1>10, <1>11, <1>12, <1>13, <1>14, <1>15,
     <1>16, SnapshotComplete, ScoreTaskComplete, AggregateComplete, MarkScoredComplete
     DEF Next, TakeStep, EndStep, Hello, PresentNext

-------------------------------------------------------------------------------
(* Theorems *)

(* The inductive invariant holds in every reachable state. *)
THEOREM SessionInvariant == Spec => []IInv
<1>1. Init => IInv
  BY InitInv
<1>2. IInv /\ [Next]_vars => IInv'
  BY StepTyped, StepBacked, StepEnded, StepComplete DEF IInv
<1> QED
  BY <1>1, <1>2, PTL DEF Spec

(* Type correctness of the session row, the events and the handlers. *)
THEOREM SessionTyped == Spec => []TypeOK
<1>1. IInv => TypeOK
  BY DEF IInv
<1> QED
  BY <1>1, SessionInvariant, PTL

(* For any number of sockets, submits, failures and restarts the index of   *)
(* the current task stays within the durable submits.                       *)
THEOREM SessionIdxBacked == Spec => []IdxBackedBySubmits
<1>1. IInv => IdxBackedBySubmits
  <2> SUFFICES ASSUME TypeOK, BackedInv PROVE idx <= submits
    BY DEF IInv, IdxBackedBySubmits
  <2>1. idx + Cardinality(Advancing) <= submits
    BY DEF BackedInv
  <2> QED
    BY <2>1, AdvancingFinite DEF TypeOK
<1> QED
  BY <1>1, SessionInvariant, PTL

(* A row says ended or scored only behind a durable SESSION_ENDED. *)
THEOREM SessionEndIsLogged == Spec => []EndIsLogged
<1>1. IInv => EndIsLogged
  BY DEF IInv, EndedInv
<1> QED
  BY <1>1, SessionInvariant, PTL

(* The row of a session says nothing that its log does not. *)
THEOREM SessionRowFollowsLog == Spec => []RowFollowsLog
<1>1. EndIsLogged /\ IdxBackedBySubmits => RowFollowsLog
  BY DEF RowFollowsLog
<1> QED
  BY <1>1, SessionIdxBacked, SessionEndIsLogged, PTL

(* A scored session has final rows that cover everything it had when it     *)
(* ended, for any number of concurrent, repeated and broken off scorings.   *)
THEOREM SessionScoredIsComplete == Spec => []ScoredIsComplete
<1>1. IInv => ScoredIsComplete
  BY DEF IInv, CompleteInv
<1> QED
  BY <1>1, SessionInvariant, PTL

(* The status of the session only moves forward. *)
THEOREM SessionStatusForward == Spec => StatusForward
<1> DEFINE Forward ==
      status' # status =>
        \/ status = "active" /\ status' \in {"ended", "abandoned"}
        \/ status \in {"ended", "abandoned"} /\ status' = "scored"
<1>1. IInv /\ [Next]_vars => [Forward]_vars
  <2> SUFFICES ASSUME IInv, Next PROVE Forward
    BY DEF vars
  <2> USE DEF row, events, scores
  <2>1. ASSUME NEW k \in Sockets, MarkScored(k) PROVE Forward
    BY <2>1 DEF MarkScored, At, IInv, EndedInv, Scoring, TypeOK, Statuses
  <2>2. ASSUME NEW k \in Sockets, MarkEnded(k) PROVE Forward
    BY <2>2 DEF MarkEnded
  <2>3. CASE Restart
    BY <2>3 DEF Restart
  <2>4. ASSUME NEW k \in Sockets, End(k) PROVE status' = status
    <3>1. EmitEnded
      BY <2>4, Zenon DEF End
    <3> QED
      BY <3>1 DEF EmitEnded
  <2>5. ASSUME NEW k \in Sockets, EndAfterSubmit(k) PROVE status' = status
    BY <2>5 DEF EndAfterSubmit, EmitEnded
  <2>6. ASSUME NEW k \in Sockets,
               \/ Disconnect(k) \/ HandlerDies(k) \/ Hello(k) \/ Work(k) \/ Submit(k)
               \/ TakeStep(k) \/ Snapshot(k) \/ ScoreTask(k) \/ Aggregate(k)
               \/ ScoringStops(k)
        PROVE  status' = status
    BY <2>6 DEF Disconnect, HandlerDies, Hello, Work, Submit, TakeStep, PresentNext, Present,
                EmitPresented, ReadIdx, StoreIdx, Snapshot, ScoreTask, Aggregate, ScoringStops
  <2> QED
    BY <2>1, <2>2, <2>3, <2>4, <2>5, <2>6 DEF Next, EndStep
<1>2. Spec => [][Forward]_vars
  BY <1>1, SessionInvariant, PTL DEF Spec
<1> QED
  BY <1>2 DEF StatusForward
================================================================================
