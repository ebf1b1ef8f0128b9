--------------------------- MODULE LiveScorerProofs ---------------------------
(***************************************************************************)
(* Proofs about LiveScorer for any prompts, any outcomes of runs, any      *)
(* length of the log and any thresholds.                                   *)
(***************************************************************************)
EXTENDS LiveScorer, FiniteSetTheorems, WellFoundedInduction, TLAPS

(* Every event there may be. *)
Sent == {Stamped(w, q, t) : w \in Content, q \in Nat, t \in Nat}

FailedIn(s) == {e \in ToSet(s) : Failed(e)}
End == Len(log) + 1

LogInv ==
  /\ log \in Seq(Sent)
  /\ \A i \in 1..Len(log) : log[i].seq = i

(* What the scorer carries from event to event is what the log says of its  *)
(* past: the last prompt, and the last failed run.                          *)
CarryInv ==
  /\ prev = PrevTokens(log, [seq |-> End])
  /\ error = {ErrorOf(e) : e \in LastBefore(FailedIn(log), End)}
  /\ \A e \in LastBefore(FailedIn(log), End) : e.ts = errorAt

ScoreInv ==
  /\ scores = PromptScores(log)
  /\ "prompt_quality" \in DOMAIN rows
  /\ DOMAIN scores # {} /\ "prompt_quality" \notin stale =>
       rows["prompt_quality"].score = Mean(scores)

IInv == LogInv /\ CarryInv /\ ScoreInv

USE LiveAssumption, HeuristicsAssumption

(* The envelope of an event. *)
LEMMA Envelope ==
  ASSUME NEW w \in Content, NEW q, NEW t
  PROVE  /\ w.type \in Types
         /\ Stamped(w, q, t).seq = q
         /\ Stamped(w, q, t).ts = t
         /\ Stamped(w, q, t).type = w.type
<1>1. "type" \in DOMAIN w /\ w.type \in Types
  BY DEF Content, Run, Types
<1> QED
  BY <1>1 DEF Stamped

LEMMA SentType ==
  ASSUME NEW e \in Sent
  PROVE  e.seq \in Nat /\ e.ts \in Nat /\ e.type \in Types
BY Envelope DEF Sent

(* The tokens of a prompt are finitely many. *)
LEMMA SentTokens ==
  ASSUME NEW e \in Sent, e.type = "prompt"
  PROVE  IsFiniteSet(e.tokens)
<1>1. PICK w \in Content, q \in Nat, t \in Nat : e = Stamped(w, q, t)
  BY DEF Sent
<1>2. w.type = "prompt"
  BY <1>1, Envelope
<1>3. w \in Written
  BY <1>2 DEF Content, Run
<1>4. "tokens" \in DOMAIN w /\ IsFiniteSet(w.tokens)
  BY <1>2, <1>3
<1>5. e.tokens = w.tokens
  BY <1>1, <1>4 DEF Stamped
<1> QED
  BY <1>4, <1>5

(* A new event comes after all others. *)
LEMMA ArrivalType ==
  ASSUME LogInv, NEW e \in Arrivals
  PROVE  e \in Sent /\ e.seq = Len(log) + 1
<1>1. PICK w \in Content : \E g \in Gaps[w.type] : e = Stamped(w, Len(log) + 1, Now + g)
  BY DEF Arrivals
<1>2. PICK g \in Gaps[w.type] : e = Stamped(w, Len(log) + 1, Now + g)
  BY <1>1
<1>3. g \in Nat
  BY <1>2, Envelope
<1>4. Now \in Nat
  <2>1. CASE log = <<>>
    BY <2>1 DEF Now
  <2>2. CASE log # <<>>
    BY <2>2, SentType DEF Now, LogInv, Last
  <2> QED
    BY <2>1, <2>2
<1>5. Len(log) + 1 \in Nat /\ Now + g \in Nat
  BY <1>3, <1>4 DEF LogInv
<1>6. e \in Sent
  BY <1>2, <1>5 DEF Sent
<1> QED
  BY <1>2, <1>6, Envelope

LEMMA AppendSet ==
  ASSUME NEW S, NEW t \in Seq(S), NEW e \in S
  PROVE  Append(t, e) \in Seq(S) /\ ToSet(Append(t, e)) = ToSet(t) \cup {e}
<1>1. /\ Append(t, e) \in Seq(S) /\ DOMAIN Append(t, e) = 1..(Len(t) + 1)
      /\ Append(t, e)[Len(t) + 1] = e /\ \A i \in DOMAIN t : Append(t, e)[i] = t[i]
      /\ DOMAIN t = 1..Len(t) /\ Len(t) \in Nat
  OBVIOUS
<1>2. DOMAIN Append(t, e) = DOMAIN t \cup {Len(t) + 1}
  BY <1>1
<1> QED
  BY <1>1, <1>2 DEF ToSet

LEMMA InLog ==
  ASSUME LogInv, NEW x \in ToSet(log)
  PROVE  x \in Sent /\ x.seq \in 1..Len(log) /\ x.seq \in Nat
<1>1. PICK i \in 1..Len(log) : x = log[i]
  BY DEF ToSet, LogInv
<1> QED
  BY <1>1 DEF LogInv

(* What the log is after one more event. *)
LEMMA Grown ==
  ASSUME LogInv, NEW e \in Sent, e.seq = Len(log) + 1
  PROVE  /\ Append(log, e) \in Seq(Sent)
         /\ ToSet(Append(log, e)) = ToSet(log) \cup {e}
         /\ \A x \in ToSet(log) : x \in Sent /\ x.seq \in 1..Len(log) /\ log[x.seq] = x
         /\ \A i \in 1..(Len(log) + 1) : Append(log, e)[i].seq = i
         /\ \A q \in 1..Len(log) : Append(log, e)[q] = log[q]
         /\ Append(log, e)[Len(log) + 1] = e
         /\ Len(Append(log, e)) = Len(log) + 1
<1>1. log \in Seq(Sent) /\ \A i \in 1..Len(log) : log[i].seq = i
  BY DEF LogInv
<1>2. Append(log, e) \in Seq(Sent) /\ ToSet(Append(log, e)) = ToSet(log) \cup {e}
  BY <1>1, AppendSet
<1>3. /\ Len(log) \in Nat /\ Len(Append(log, e)) = Len(log) + 1
      /\ \A q \in 1..Len(log) : Append(log, e)[q] = log[q]
      /\ Append(log, e)[Len(log) + 1] = e
  BY <1>1
<1>4. ASSUME NEW i \in 1..(Len(log) + 1) PROVE Append(log, e)[i].seq = i
  <2>1. CASE i \in 1..Len(log)
    BY <1>1, <1>3, <2>1
  <2>2. CASE i = Len(log) + 1
    BY <1>3, <2>2
  <2> QED
    BY <1>3, <2>1, <2>2
<1>5. ASSUME NEW x \in ToSet(log)
      PROVE  x \in Sent /\ x.seq \in 1..Len(log) /\ log[x.seq] = x
  <2>1. PICK i \in 1..Len(log) : x = log[i]
    BY <1>1, <1>5 DEF ToSet
  <2> QED
    BY <1>1, <2>1
<1> QED
  BY <1>2, <1>3, <1>4, <1>5

(* An event changes nothing about what lies before an earlier one. *)
LEMMA PastKept ==
  ASSUME NEW S, NEW e, NEW q \in Nat, e.seq \in Nat, q <= e.seq
  PROVE  LastBefore(S \cup {e}, q) = LastBefore(S, q)
BY DEF LastBefore

(* Nothing lies between the last events of a log and its end. *)
LEMMA EndKept ==
  ASSUME NEW S, NEW q \in Nat, \A x \in S : x.seq \in Nat /\ x.seq < q
  PROVE  LastBefore(S, q + 1) = LastBefore(S, q)
BY DEF LastBefore

(* An event at the end is the last of its kind. *)
LEMMA EndIsLast ==
  ASSUME NEW S, NEW e, e.seq \in Nat, \A x \in S : x.seq \in Nat /\ x.seq < e.seq
  PROVE  LastBefore(S \cup {e}, e.seq + 1) = {e}
BY DEF LastBefore
-------------------------------------------------------------------------------
(* What an event of the log was held against stays as it is. *)
LEMMA EarlierKept ==
  ASSUME LogInv, NEW e \in Sent, e.seq = Len(log) + 1, NEW p \in ToSet(log)
  PROVE  /\ RecentError(Append(log, e), p) = RecentError(log, p)
         /\ PrevTokens(Append(log, e), p) = PrevTokens(log, p)
<1> DEFINE s == Append(log, e)
<1>1. p.seq \in Nat /\ p.seq <= e.seq /\ e.seq \in Nat /\ ToSet(s) = ToSet(log) \cup {e}
  BY Grown DEF LogInv
<1>2. LastBefore(FailedIn(s), p.seq) = LastBefore(FailedIn(log), p.seq)
  <2>1. FailedIn(s) = FailedIn(log) \cup {e} \/ FailedIn(s) = FailedIn(log)
    BY <1>1 DEF FailedIn
  <2>2. LastBefore(FailedIn(log) \cup {e}, p.seq) = LastBefore(FailedIn(log), p.seq)
    BY <1>1, PastKept
  <2> QED
    BY <2>1, <2>2
<1>3. LastBefore(EventsOf(s, "prompt"), p.seq) = LastBefore(EventsOf(log, "prompt"), p.seq)
  <2>1. \/ EventsOf(s, "prompt") = EventsOf(log, "prompt") \cup {e}
        \/ EventsOf(s, "prompt") = EventsOf(log, "prompt")
    BY <1>1 DEF EventsOf
  <2>2. LastBefore(EventsOf(log, "prompt") \cup {e}, p.seq)
          = LastBefore(EventsOf(log, "prompt"), p.seq)
    BY <1>1, PastKept
  <2> QED
    BY <2>1, <2>2
<1> QED
  BY <1>2, <1>3 DEF RecentError, PrevTokens, FailedIn

(* A new prompt is held against what the scorer carries. *)
LEMMA HeldAgainst ==
  ASSUME LogInv, CarryInv, NEW e \in Sent, e.seq = Len(log) + 1, e.type = "prompt"
  PROVE  /\ RecentError(Append(log, e), e) = Recent(e)
         /\ PrevTokens(Append(log, e), e) = prev
<1> DEFINE s == Append(log, e)
<1>1. e.seq \in Nat /\ ToSet(s) = ToSet(log) \cup {e}
  BY Grown DEF LogInv
<1>2. ~Failed(e)
  BY DEF Failed
<1>3. FailedIn(s) = FailedIn(log)
  BY <1>1, <1>2 DEF FailedIn
<1>4. RecentError(s, e) = Recent(e)
  <2> DEFINE L == LastBefore(FailedIn(log), End)
  <2>1. RecentError(s, e) = {ErrorOf(x) : x \in {y \in L : e.ts - y.ts <= RecentWindow}}
    BY <1>3 DEF RecentError, FailedIn, End
  <2>2. error = {ErrorOf(x) : x \in L} /\ \A x \in L : x.ts = errorAt
    BY DEF CarryInv
  <2>3. CASE e.ts - errorAt <= RecentWindow
    <3>1. {y \in L : e.ts - y.ts <= RecentWindow} = L
      BY <2>2, <2>3
    <3> QED
      BY <2>1, <2>2, <2>3, <3>1 DEF Recent
  <2>4. CASE ~(e.ts - errorAt <= RecentWindow)
    <3>1. {y \in L : e.ts - y.ts <= RecentWindow} = {}
      BY <2>2, <2>4
    <3> QED
      BY <2>1, <2>4, <3>1 DEF Recent
  <2> QED
    BY <2>3, <2>4
<1>5. PrevTokens(s, e) = prev
  <2>1. EventsOf(s, "prompt") = EventsOf(log, "prompt") \cup {e}
    BY <1>1 DEF EventsOf
  <2>2. LastBefore(EventsOf(log, "prompt") \cup {e}, e.seq)
          = LastBefore(EventsOf(log, "prompt"), e.seq)
    BY <1>1 DEF LastBefore
  <2> QED
    BY <2>1, <2>2 DEF PrevTokens, CarryInv, End
<1> QED
  BY <1>4, <1>5

(* A log that grows by an event that is no prompt has the scores it had. *)
LEMMA ScoresKept ==
  ASSUME LogInv, NEW e \in Sent, e.seq = Len(log) + 1, e.type # "prompt"
  PROVE  PromptScores(Append(log, e)) = PromptScores(log)
<1> DEFINE s == Append(log, e)
           Q == {x.seq : x \in EventsOf(log, "prompt")}
<1>1. EventsOf(s, "prompt") = EventsOf(log, "prompt")
  BY Grown DEF EventsOf
<1>2. \A q \in Q : s[q] = log[q] /\ log[q] \in ToSet(log)
  BY Grown DEF EventsOf
<1>3. \A q \in Q : PromptPoints(s[q], RecentError(s, s[q]), PrevTokens(s, s[q]))
                    = PromptPoints(log[q], RecentError(log, log[q]), PrevTokens(log, log[q]))
  BY <1>2, EarlierKept
<1> QED
  BY <1>1, <1>3 DEF PromptScores

(* A prompt adds its own score and leaves the others. *)
LEMMA ScoreAdded ==
  ASSUME LogInv, CarryInv, scores = PromptScores(log),
         NEW e \in Sent, e.seq = Len(log) + 1, e.type = "prompt"
  PROVE  PromptScores(Append(log, e)) = Score(e)
<1> DEFINE s == Append(log, e)
           Q == {x.seq : x \in EventsOf(log, "prompt")}
           P(t, q) == PromptPoints(t[q], RecentError(t, t[q]), PrevTokens(t, t[q]))
<1>1. {x.seq : x \in EventsOf(s, "prompt")} = Q \cup {e.seq}
  <2>1. EventsOf(s, "prompt") = EventsOf(log, "prompt") \cup {e}
    BY Grown DEF EventsOf
  <2> QED
    BY <2>1
<1>2. \A q \in Q : q # e.seq /\ s[q] = log[q] /\ log[q] \in ToSet(log)
  BY Grown DEF EventsOf, LogInv
<1>3. \A q \in Q : P(s, q) = P(log, q)
  BY <1>2, EarlierKept
<1>4. P(s, e.seq) = PromptPoints(e, Recent(e), prev)
  BY Grown, HeldAgainst
<1>5. DOMAIN scores = Q /\ \A q \in Q : scores[q] = P(log, q)
  BY DEF PromptScores
<1>6. PromptScores(s) = [q \in Q \cup {e.seq} |-> P(s, q)]
  BY <1>1 DEF PromptScores
<1>7. Score(e) = [q \in Q \cup {e.seq} |-> P(s, q)]
  <2>1. \A q \in Q \cup {e.seq} :
          P(s, q) = IF q = e.seq THEN PromptPoints(e, Recent(e), prev) ELSE scores[q]
    BY <1>2, <1>3, <1>4, <1>5
  <2> HIDE DEF P
  <2> QED
    BY <1>5, <2>1 DEF Score
<1> QED
  BY <1>6, <1>7

-------------------------------------------------------------------------------
LEMMA InitInv == Init => IInv
<1> SUFFICES ASSUME Init PROVE IInv
  OBVIOUS
<1>1. log = <<>> /\ ToSet(log) = {}
  BY DEF Init, ToSet
<1>2. LogInv
  BY <1>1 DEF LogInv
<1>3. CarryInv
  BY <1>1 DEF Init, CarryInv, PrevTokens, EventsOf, FailedIn, LastBefore
<1>4. ScoreInv
  <2>1. PromptScores(log) = [q \in {} |-> 0]
    BY <1>1 DEF PromptScores, EventsOf
  <2> QED
    BY <2>1 DEF Init, ScoreInv, Dims
<1> QED
  BY <1>2, <1>3, <1>4 DEF IInv

(* The log grows by one event in every step. *)
LEMMA LogStep ==
  ASSUME LogInv, NEW e \in Sent, e.seq = Len(log) + 1, log' = Append(log, e)
  PROVE  LogInv' /\ End' = End + 1 /\ End \in Nat
BY Grown DEF LogInv, End

(* An event that is neither a prompt nor a failed run changes nothing that  *)
(* is carried.                                                              *)
LEMMA CarryKept ==
  ASSUME LogInv, CarryInv, NEW e \in Sent, e.seq = Len(log) + 1, log' = Append(log, e),
         UNCHANGED <<prev, error, errorAt>>, e.type # "prompt", ~Failed(e)
  PROVE  CarryInv'
<1>1. End' = End + 1 /\ End \in Nat /\ ToSet(log') = ToSet(log) \cup {e}
  BY LogStep, Grown
<1>2. \A x \in ToSet(log) : x.seq \in Nat /\ x.seq < End
  BY Grown DEF End, LogInv
<1>3. FailedIn(log)' = FailedIn(log) /\ EventsOf(log', "prompt") = EventsOf(log, "prompt")
  BY <1>1 DEF FailedIn, EventsOf
<1>4. LastBefore(FailedIn(log), End + 1) = LastBefore(FailedIn(log), End)
  BY <1>1, <1>2, EndKept DEF FailedIn
<1>5. LastBefore(EventsOf(log, "prompt"), End + 1) = LastBefore(EventsOf(log, "prompt"), End)
  BY <1>1, <1>2, EndKept DEF EventsOf
<1> QED
  BY <1>1, <1>3, <1>4, <1>5 DEF CarryInv, PrevTokens

(* A prompt becomes the previous one, and the error stays. *)
LEMMA CarryPrompt ==
  ASSUME LogInv, CarryInv, NEW e \in Sent, e.seq = Len(log) + 1, log' = Append(log, e),
         UNCHANGED <<error, errorAt>>, e.type = "prompt", prev' = e.tokens
  PROVE  CarryInv'
<1>1. End' = End + 1 /\ End \in Nat /\ ToSet(log') = ToSet(log) \cup {e} /\ e.seq = End
  BY LogStep, Grown DEF End
<1>2. \A x \in ToSet(log) : x.seq \in Nat /\ x.seq < End
  BY Grown DEF End, LogInv
<1>3. /\ FailedIn(log)' = FailedIn(log)
      /\ EventsOf(log', "prompt") = EventsOf(log, "prompt") \cup {e}
  BY <1>1 DEF FailedIn, EventsOf, Failed
<1>4. LastBefore(FailedIn(log), End + 1) = LastBefore(FailedIn(log), End)
  BY <1>1, <1>2, EndKept DEF FailedIn
<1>5. LastBefore(EventsOf(log, "prompt") \cup {e}, End + 1) = {e}
  BY <1>1, <1>2, EndIsLast DEF EventsOf
<1>6. PrevTokens(log', [seq |-> End + 1]) = e.tokens
  BY <1>3, <1>5 DEF PrevTokens
<1> QED
  BY <1>1, <1>3, <1>4, <1>6 DEF CarryInv

(* A failed run becomes the recent error, and the previous prompt stays. *)
LEMMA CarryFailed ==
  ASSUME LogInv, CarryInv, NEW e \in Sent, e.seq = Len(log) + 1, log' = Append(log, e),
         UNCHANGED prev, Failed(e), error' = {ErrorOf(e)}, errorAt' = e.ts
  PROVE  CarryInv'
<1>1. End' = End + 1 /\ End \in Nat /\ ToSet(log') = ToSet(log) \cup {e} /\ e.seq = End
  BY LogStep, Grown DEF End
<1>2. \A x \in ToSet(log) : x.seq \in Nat /\ x.seq < End
  BY Grown DEF End, LogInv
<1>3. /\ FailedIn(log)' = FailedIn(log) \cup {e}
      /\ EventsOf(log', "prompt") = EventsOf(log, "prompt")
  BY <1>1 DEF FailedIn, EventsOf, Failed
<1>4. LastBefore(FailedIn(log) \cup {e}, End + 1) = {e}
  BY <1>1, <1>2, EndIsLast DEF FailedIn
<1>5. LastBefore(EventsOf(log, "prompt"), End + 1) = LastBefore(EventsOf(log, "prompt"), End)
  BY <1>1, <1>2, EndKept DEF EventsOf
<1> QED
  BY <1>1, <1>3, <1>4, <1>5 DEF CarryInv, PrevTokens

(* Every action keeps the invariant. *)
LEMMA PromptInv ==
  ASSUME IInv, NEW e \in Arrivals, HandlePrompt(e)
  PROVE  IInv'
<1>1. e \in Sent /\ e.seq = Len(log) + 1 /\ e.type = "prompt" /\ log' = Append(log, e)
  BY ArrivalType DEF IInv, HandlePrompt
<1>2. LogInv' /\ CarryInv'
  BY <1>1, LogStep, CarryPrompt DEF IInv, HandlePrompt
<1>3. scores' = PromptScores(log)'
  BY <1>1, ScoreAdded DEF IInv, ScoreInv, HandlePrompt
<1>4. ScoreInv'
  BY <1>3 DEF IInv, ScoreInv, HandlePrompt, Live, Blend
<1> QED
  BY <1>2, <1>4 DEF IInv

LEMMA TriggerInv ==
  ASSUME IInv, NEW e \in Arrivals, HandleTrigger(e)
  PROVE  IInv'
<1>1. e \in Sent /\ e.seq = Len(log) + 1 /\ e.type # "prompt" /\ log' = Append(log, e)
  BY ArrivalType DEF IInv, HandleTrigger
<1>2. LogInv' /\ CarryInv'
  BY <1>1, LogStep, CarryKept, CarryFailed DEF IInv, HandleTrigger
<1>3. scores' = PromptScores(log)'
  BY <1>1, ScoresKept DEF IInv, ScoreInv, HandleTrigger
<1>4. /\ "prompt_quality" \in DOMAIN rows'
      /\ rows'["prompt_quality"] = rows["prompt_quality"]
      /\ "prompt_quality" \notin stale' => "prompt_quality" \notin stale
  BY DEF HandleTrigger, Scored, Mixed, Dims
<1>5. ScoreInv'
  BY <1>3, <1>4 DEF IInv, ScoreInv, HandleTrigger
<1> QED
  BY <1>2, <1>5 DEF IInv

LEMMA QuietInv ==
  ASSUME IInv, NEW e \in Arrivals, HandleSnapshot(e) \/ Lose(e)
  PROVE  IInv'
<1>1. /\ e \in Sent /\ e.seq = Len(log) + 1 /\ log' = Append(log, e)
      /\ e.type # "prompt" /\ ~Failed(e)
      /\ UNCHANGED <<prev, error, errorAt, scores, written>>
  BY ArrivalType DEF IInv, HandleSnapshot, Lose, Failed, state
<1>2. LogInv' /\ CarryInv'
  BY <1>1, LogStep, CarryKept DEF IInv
<1>3. scores' = PromptScores(log)'
  BY <1>1, ScoresKept DEF IInv, ScoreInv
<1>4. ScoreInv'
  BY <1>1, <1>3 DEF IInv, ScoreInv, written
<1> QED
  BY <1>2, <1>4 DEF IInv

LEMMA StepInv == IInv /\ [Next]_vars => IInv'
<1> SUFFICES ASSUME IInv, [Next]_vars PROVE IInv'
  OBVIOUS
<1>1. CASE Next
  BY <1>1, PromptInv, TriggerInv, QuietInv DEF Next
<1>2. CASE UNCHANGED vars
  BY <1>2 DEF vars, state, written, IInv, LogInv, CarryInv, ScoreInv, End
<1> QED
  BY <1>1, <1>2

LEMMA Invariance == Spec => []IInv
BY InitInv, StepInv, PTL DEF Spec

(* Live and post-hoc scoring hold every prompt of a task against the same   *)
(* error and the same earlier prompt, and so agree on prompt_quality: the   *)
(* incremental state of live.py is what posthoc.py finds in the log.        *)
THEOREM LiveAgrees == Spec => []LivePromptIsFinal
<1>1. IInv => LivePromptIsFinal
  <2> SUFFICES ASSUME IInv PROVE LivePromptIsFinal
    OBVIOUS
  <2>1. DOMAIN scores # {} => EventsOf(log, "prompt") # {}
    BY DEF IInv, ScoreInv, PromptScores
  <2> QED
    BY <2>1 DEF IInv, ScoreInv, LivePromptIsFinal, PromptMean
<1> QED
  BY <1>1, Invariance, PTL

-------------------------------------------------------------------------------
(* What clamping does, and that it keeps the order. *)
LEMMA ClampIs ==
  ASSUME NEW x \in Int, NEW lo \in Int, NEW hi \in Int, lo <= hi
  PROVE  Clamp(x, lo, hi) = IF x < lo THEN lo ELSE IF hi < x THEN hi ELSE x
<1> DEFINE m == Min({hi, x})
<1>1. m \in {hi, x} /\ m <= hi /\ m <= x
  <2>1. \E y \in {hi, x} : \A z \in {hi, x} : y =< z
    <3>1. CASE x <= hi
      BY <3>1
    <3>2. CASE ~(x <= hi)
      BY <3>2
    <3> QED
      BY <3>1, <3>2
  <2> QED
    BY <2>1 DEF Min
<1>2. Max({lo, m}) \in {lo, m} /\ Max({lo, m}) >= lo /\ Max({lo, m}) >= m
  <2> HIDE DEF m
  <2>1. \E y \in {lo, m} : \A z \in {lo, m} : y >= z
    <3>1. CASE m <= lo
      BY <3>1
    <3>2. CASE ~(m <= lo)
      BY <1>1, <3>2
    <3> QED
      BY <3>1, <3>2
  <2> QED
    BY <2>1 DEF Max
<1>3. Clamp(x, lo, hi) = Max({lo, m})
  BY DEF Clamp
<1> HIDE DEF m
<1> QED
  BY <1>1, <1>2, <1>3

(* A prompt is worth 0 to 100 points, whatever is in it. *)
LEMMA PointsBounds ==
  ASSUME NEW e, NEW errors, NEW before
  PROVE  PromptPoints(e, errors, before) \in 0..100
<1>1. LengthPoints(e.words) \in Int
  BY DEF LengthPoints
<1>2. ErrorPoints(e, errors) \in Int
  BY DEF ErrorPoints
<1> DEFINE sum ==
     50 + LengthPoints(e.words) + (IF e.code THEN 10 ELSE 0) + (IF e.block THEN 5 ELSE 0)
        + ErrorPoints(e, errors) + (IF e.asks THEN 5 ELSE 0)
        - (IF Similar(e.tokens, before, 85) THEN 20 ELSE 0)
<1>3. sum \in Int /\ PromptPoints(e, errors, before) = Clamp(sum, 0, 100)
  BY <1>1, <1>2 DEF PromptPoints
<1> HIDE DEF sum
<1>4. Clamp(sum, 0, 100) \in 0..100
  <2>1. Clamp(sum, 0, 100) = IF sum < 0 THEN 0 ELSE IF 100 < sum THEN 100 ELSE sum
    BY <1>3, ClampIs
  <2> QED
    BY <1>3, <2>1
<1> QED
  BY <1>3, <1>4

SeenInv ==
  /\ known \in BOOLEAN
  /\ Len(log) <= MaxEvents
  /\ seen \in Seq(Sent)
  /\ ToSet(seen) \subseteq ToSet(log)
  /\ DOMAIN rows = Dims
  /\ wrote \subseteq Dims /\ stale \subseteq Dims

LEMMA SeenStep ==
  ASSUME IInv, SeenInv, [Next]_vars
  PROVE  SeenInv'
<1>1. CASE Next
  <2>1. PICK e \in Arrivals : HandlePrompt(e) \/ HandleTrigger(e) \/ HandleSnapshot(e) \/ Lose(e)
    BY <1>1 DEF Next
  <2>2. e \in Sent /\ Len(log) < MaxEvents /\ Len(log) \in Nat
    BY ArrivalType DEF Arrivals, IInv, LogInv
  <2>3. log' = Append(log, e) /\ (seen' = Append(seen, e) \/ seen' = seen)
    BY <2>1 DEF HandlePrompt, HandleTrigger, HandleSnapshot, Lose, state
  <2>4. Len(log') <= MaxEvents
    BY <2>2, <2>3 DEF IInv, LogInv
  <2>5. seen' \in Seq(Sent) /\ ToSet(seen') \subseteq ToSet(log')
    <3>1. ToSet(log') = ToSet(log) \cup {e}
      BY <2>3, ArrivalType, Grown DEF IInv
    <3>2. ToSet(Append(seen, e)) = ToSet(seen) \cup {e} /\ Append(seen, e) \in Seq(Sent)
      BY <2>2, AppendSet DEF SeenInv
    <3> QED
      BY <2>3, <3>1, <3>2 DEF SeenInv
  <2>6. DOMAIN rows' = Dims /\ wrote' \subseteq Dims /\ stale' \subseteq Dims
    BY <2>1 DEF SeenInv, HandlePrompt, HandleTrigger, HandleSnapshot, Lose, written, Due, Dims, Scored, Mixed
  <2>7. known' = known
    BY <1>1 DEF Next
  <2> QED
    BY <2>4, <2>5, <2>6, <2>7 DEF SeenInv
<1>2. CASE UNCHANGED vars
  BY <1>2 DEF vars, state, written, SeenInv
<1> QED
  BY <1>1, <1>2

(* The scorer keeps its types: its events are events of the log, each       *)
(* prompt of the log has a score and every score is a number of points.     *)
THEOREM Typed == Spec => []TypeOK
<1>1. Init => SeenInv
  BY DEF Init, SeenInv, ToSet, Dims
<1>2. IInv /\ SeenInv /\ [Next]_vars => SeenInv'
  BY SeenStep
<1>3. IInv /\ SeenInv => TypeOK
  BY PointsBounds DEF IInv, SeenInv, ScoreInv, TypeOK, PromptScores
<1> QED
  BY <1>1, <1>2, <1>3, Invariance, PTL DEF Spec

(* Sandbox.run_python never reports a failure without a text, so that the   *)
(* "execution error" both scorers fall back on is never what a prompt is    *)
(* held against.                                                            *)
THEOREM FailureHasText ==
  ASSUME "" \notin Texts, NEW o \in Outcomes, RunPython(o).exit # 0
  PROVE  RunPython(o).stderr # ""
<1>1. CASE o.kind = "answer"
  BY <1>1 DEF RunPython, ExitCode, ErrorText, FirstText, Outcomes, Statuses
<1>2. CASE o.kind # "answer"
  BY <1>2 DEF RunPython, Outcomes
<1> QED
  BY <1>1, <1>2

-------------------------------------------------------------------------------
(***************************************************************************)
(* The first event after another, and what a longer log makes of it.       *)
(***************************************************************************)

(* A set of numbers has a least element. *)
LEMMA LeastOf ==
  ASSUME NEW S \in SUBSET Nat, S # {}
  PROVE  Min(S) \in S /\ \A y \in S : Min(S) <= y
<1>1. PICK m \in S : \A y \in S : ~(<<y, m>> \in OpToRel(<, Nat))
  BY NatLessThanWellFounded, WFMin
<1>2. \A y \in S : m <= y
  <2>1. \A y \in S : ~(y < m)
    BY <1>1 DEF OpToRel
  <2> QED
    BY <2>1
<1>3. \E x \in S : \A y \in S : x =< y
  BY <1>2
<1> QED
  BY <1>3 DEF Min

LEMMA NeverType == Never \in Nat
BY SMT DEF Never

(* The events after q of certain types, as their seqs. *)
Later(s, q, types) == {e.seq : e \in {x \in ToSet(s) : x.seq > q /\ x.type \in types}}

(* first_event_after finds the earliest one, or nothing if there is none. *)
LEMMA FirstIs ==
  ASSUME NEW s, NEW q \in Nat, NEW types,
         \A x \in ToSet(s) : x.seq \in Nat /\ x.seq < Never
  PROVE  /\ FirstAfter(s, q, types) \in Nat /\ FirstAfter(s, q, types) <= Never
         /\ \A n \in Later(s, q, types) : FirstAfter(s, q, types) <= n
         /\ FirstAfter(s, q, types) # Never => FirstAfter(s, q, types) \in Later(s, q, types)
         /\ FirstAfter(s, q, types) = Never => Later(s, q, types) = {}
<1> DEFINE L == Later(s, q, types)
           S == L \cup {Never}
<1>1. L \in SUBSET Nat /\ \A n \in L : n < Never
  BY DEF Later
<1>2. Never \in Nat
  BY NeverType
<1>3. FirstAfter(s, q, types) = Min(S)
  BY DEF FirstAfter, Later
<1> HIDE DEF L
<1>4. Min(S) \in S /\ \A y \in S : Min(S) <= y
  BY <1>1, <1>2, LeastOf
<1>5. Min(S) = Never => L = {}
  <2> SUFFICES ASSUME Min(S) = Never, NEW n \in L PROVE FALSE
    OBVIOUS
  <2>1. n < Never /\ Never <= n /\ n \in Nat
    BY <1>1, <1>4
  <2> QED
    BY <1>2, <2>1
<1> QED
  BY <1>1, <1>2, <1>3, <1>4, <1>5 DEF L

(* One more event at the end: what was found is still found, and what was   *)
(* not may only be the new event.                                           *)
LEMMA FirstKept ==
  ASSUME LogInv, Len(log) + 1 < Never, NEW e \in Sent, e.seq = Len(log) + 1,
         NEW q \in Nat, NEW types
  PROVE  LET before == FirstAfter(log, q, types)
             after == FirstAfter(Append(log, e), q, types)
         IN  /\ before # Never => after = before
             /\ before = Never /\ e.type \in types /\ q < e.seq => after = e.seq
             /\ before = Never /\ ~(e.type \in types /\ q < e.seq) => after = Never
<1> DEFINE s == Append(log, e)
           before == FirstAfter(log, q, types)
           after == FirstAfter(s, q, types)
           old == Later(log, q, types)
           new == Later(s, q, types)
<1>1. /\ Len(log) \in Nat /\ ToSet(s) = ToSet(log) \cup {e}
      /\ \A x \in ToSet(log) : x.seq \in Nat /\ x.seq < e.seq
      /\ e.seq \in Nat /\ e.seq < Never /\ Never \in Nat
  BY Grown, NeverType DEF LogInv
<1>2. /\ \A x \in ToSet(log) : x.seq \in Nat /\ x.seq < Never
      /\ \A x \in ToSet(s) : x.seq \in Nat /\ x.seq < Never
  BY <1>1
<1>3. new = IF e.type \in types /\ q < e.seq THEN old \cup {e.seq} ELSE old
  BY <1>1 DEF Later
<1>4. \A n \in old : n \in Nat /\ n < e.seq
  BY <1>1 DEF Later
<1>5. /\ before \in Nat /\ before <= Never
      /\ \A n \in old : before <= n
      /\ before # Never => before \in old
      /\ before = Never => old = {}
  BY <1>2, FirstIs
<1>6. /\ after \in Nat /\ after <= Never
      /\ \A n \in new : after <= n
      /\ after # Never => after \in new
      /\ after = Never => new = {}
  BY <1>2, FirstIs
<1> HIDE DEF s, before, after, old, new
<1>7. ASSUME before # Never PROVE after = before
  <2>1. before \in old /\ before \in new /\ before < e.seq /\ after <= before
    BY <1>3, <1>4, <1>5, <1>6, <1>7
  <2>2. after # Never /\ after \in new
    BY <2>1, <1>6
  <2>3. after \in old
    BY <1>1, <1>3, <1>4, <1>5, <1>6, <2>1, <2>2
  <2> QED
    BY <1>5, <1>6, <2>1, <2>3
<1>8. ASSUME before = Never, e.type \in types, q < e.seq PROVE after = e.seq
  <2>1. new = {e.seq}
    BY <1>3, <1>5, <1>8
  <2> QED
    BY <1>6, <2>1
<1>9. ASSUME before = Never, ~(e.type \in types /\ q < e.seq) PROVE after = Never
  <2>1. new = {}
    BY <1>3, <1>5, <1>9
  <2> QED
    BY <1>6, <2>1
<1> QED
  BY <1>7, <1>8, <1>9 DEF before, after, s

(***************************************************************************)
(* What a log asks for is asked for by every longer one.                   *)
(***************************************************************************)
LEMMA EventsGrow ==
  ASSUME LogInv, NEW e \in Sent, e.seq = Len(log) + 1, NEW t
  PROVE  /\ EventsOf(log, t) \subseteq EventsOf(Append(log, e), t)
         /\ EventsOf(Append(log, e), t) = EventsOf(log, t) \cup (IF e.type = t THEN {e} ELSE {})
         /\ \A x \in EventsOf(log, t) : /\ x \in ToSet(log) /\ x \in Sent /\ x.type = t
                                       /\ x.seq \in Nat /\ x.seq < e.seq
         /\ e.seq \in Nat
BY Grown DEF EventsOf, LogInv

LEMMA CreditKept ==
  ASSUME LogInv, Len(log) + 1 < Never, NEW e \in Sent, e.seq = Len(log) + 1
  PROVE  Credited(log) \subseteq Credited(Append(log, e))
<1> DEFINE s == Append(log, e)
<1> SUFFICES ASSUME NEW r \in Credited(log) PROVE r \in Credited(s)
  OBVIOUS
<1>1. r \in CodeResponses(log) /\ r \in CodeResponses(s) /\ r.seq \in Nat /\ r.seq < e.seq
  BY EventsGrow DEF Credited, CodeResponses
<1>2. PICK x \in EventsOf(log, "run") : r.seq < x.seq /\ x.seq < Boundary(log, r)
  BY DEF Credited
<1>3. x \in EventsOf(s, "run") /\ x.seq \in Nat /\ x.seq < e.seq /\ e.seq < Never
  BY EventsGrow
<1> DEFINE before == FirstAfter(log, r.seq, {"prompt", "submit"})
           after == FirstAfter(s, r.seq, {"prompt", "submit"})
<1>4. /\ before # Never => after = before
      /\ before = Never => after = e.seq \/ after = Never
  BY <1>1, FirstKept
<1>5. x.seq < before /\ before = Boundary(log, r) /\ after = Boundary(s, r)
  BY <1>2 DEF Boundary
<1> HIDE DEF before, after
<1>6. x.seq < Boundary(s, r)
  BY <1>3, <1>4, <1>5
<1> QED
  BY <1>1, <1>2, <1>3, <1>6 DEF Credited

(* Whether an error came shortly before a prompt is settled with the prompt. *)
LEMMA PriorKept ==
  ASSUME LogInv, NEW e \in Sent, e.seq = Len(log) + 1, NEW p \in ToSet(log),
         ErrorAmongPrior(log, p)
  PROVE  ErrorAmongPrior(Append(log, e), p)
<1> DEFINE s == Append(log, e)
<1>1. ToSet(s) = ToSet(log) \cup {e} /\ p.seq \in Nat /\ p.seq < e.seq
  BY Grown DEF LogInv
<1>2. PICK x \in ToSet(log) :
        /\ Failed(x) /\ x.seq < p.seq
        /\ Cardinality({y \in ToSet(log) : x.seq <= y.seq /\ y.seq < p.seq}) <= PriorEvents
  BY DEF ErrorAmongPrior
<1>3. {y \in ToSet(s) : x.seq <= y.seq /\ y.seq < p.seq}
        = {y \in ToSet(log) : x.seq <= y.seq /\ y.seq < p.seq}
  <2>1. ~(e.seq < p.seq)
    BY <1>1, Grown DEF LogInv
  <2> QED
    BY <1>1, <2>1
<1> QED
  BY <1>1, <1>2, <1>3 DEF ErrorAmongPrior

(* Every kind of question. *)
LEMMA QuestionsKept ==
  ASSUME LogInv, Len(log) + 1 < Never, NEW e \in Sent, e.seq = Len(log) + 1
  PROVE  Questions(log) \subseteq Questions(Append(log, e))
<1> DEFINE s == Append(log, e)
           Asked(t) == EventsOf(t, "prompt")
           Hit(t) == {p \in Asked(t) : ErrorAmongPrior(t, p)}
           Ran(t) == {r \in CodeResponses(t) : \E x \in EventsOf(t, "run") :
                        r.seq < x.seq /\ x.seq < Boundary(t, r)}
           Followed(t) == {x \in EventsOf(t, "run") : FirstAfter(t, x.seq, {"prompt"}) # Never}
           Again(t) == {p \in Asked(t) : \E x \in Asked(t) : x.seq < p.seq}
           Replied(t) == {r \in EventsOf(t, "response") :
                            \E p \in Asked(t) : p.seq = FirstAfter(t, r.seq, {"prompt"})
                                               /\ p.ts - r.ts <= RecentWindow}
<1>1. Asked(log) \subseteq Asked(s) /\ CodeResponses(log) \subseteq CodeResponses(s)
  BY EventsGrow DEF CodeResponses
<1>2. Hit(log) \subseteq Hit(s)
  BY <1>1, PriorKept, EventsGrow
<1>3. Ran(log) \subseteq Ran(s)
  BY CreditKept DEF Credited
<1>4. Followed(log) \subseteq Followed(s)
  <2> SUFFICES ASSUME NEW x \in Followed(log) PROVE x \in Followed(s)
    OBVIOUS
  <2>1. x \in EventsOf(s, "run") /\ x.seq \in Nat
    BY EventsGrow
  <2>2. FirstAfter(s, x.seq, {"prompt"}) = FirstAfter(log, x.seq, {"prompt"})
    BY <2>1, FirstKept
  <2> QED
    BY <2>1, <2>2
<1>5. Again(log) \subseteq Again(s)
  BY <1>1
<1>6. Replied(log) \subseteq Replied(s)
  <2> SUFFICES ASSUME NEW r \in Replied(log) PROVE r \in Replied(s)
    OBVIOUS
  <2>1. r \in EventsOf(s, "response") /\ r.seq \in Nat
    BY EventsGrow
  <2>2. PICK p \in Asked(log) :
          p.seq = FirstAfter(log, r.seq, {"prompt"}) /\ p.ts - r.ts <= RecentWindow
    OBVIOUS
  <2>3. p.seq # Never /\ p \in Asked(s)
    <3>1. p.seq \in Nat /\ p.seq < e.seq /\ e.seq \in Nat /\ e.seq < Never /\ p \in Asked(s)
      BY <1>1, EventsGrow
    <3> QED
      BY <3>1, NeverType
  <2>4. FirstAfter(s, r.seq, {"prompt"}) = FirstAfter(log, r.seq, {"prompt"})
    BY <2>1, <2>2, <2>3, FirstKept
  <2> QED
    BY <2>1, <2>2, <2>3, <2>4
<1>7. \A q, S, T : S \subseteq T => About(q, S) \subseteq About(q, T)
  BY DEF About
<1>8. \A t : Questions(t) = About("PQ1", Asked(t)) \cup About("PQ4", Asked(t))
        \cup About("PQ3", Asked(t)) \cup About("PQ2", Hit(t))
        \cup About("VB1", CodeResponses(t)) \cup About("VB3", Ran(t))
        \cup About("VB2", Followed(t)) \cup About("IE1", Again(t)) \cup About("IE2", Replied(t))
  BY DEF Questions
<1> HIDE DEF s, Asked, Hit, Ran, Followed, Again, Replied
<1>9. Questions(log) \subseteq Questions(s)
  BY <1>1, <1>2, <1>3, <1>4, <1>5, <1>6, <1>7, <1>8
<1> QED
  BY <1>9 DEF s

(* What every step appends. *)
LEMMA Appended ==
  ASSUME IInv, SeenInv, Next
  PROVE  \E e \in Arrivals : /\ HandlePrompt(e) \/ HandleTrigger(e) \/ HandleSnapshot(e) \/ Lose(e)
                            /\ e \in Sent /\ e.seq = Len(log) + 1 /\ log' = Append(log, e)
                            /\ Len(log) + 1 < Never
<1>1. PICK e \in Arrivals : HandlePrompt(e) \/ HandleTrigger(e) \/ HandleSnapshot(e) \/ Lose(e)
  BY DEF Next
<1>2. e \in Sent /\ e.seq = Len(log) + 1 /\ LogInv
  BY ArrivalType DEF IInv
<1>3. log' = Append(log, e)
  BY <1>1 DEF HandlePrompt, HandleTrigger, HandleSnapshot, Lose
<1>4. Len(log) < MaxEvents /\ Len(log) \in Nat /\ MaxEvents < Never /\ MaxEvents \in Nat
  <2>1. Arrivals # {} /\ Len(log) \in Nat
    BY <1>2 DEF LogInv
  <2>2. Len(log) < MaxEvents
    BY <2>1 DEF Arrivals
  <2> QED
    BY <2>1, <2>2, BoundAssumption
<1>5. Len(log) + 1 < Never
  BY <1>4, NeverType
<1> QED
  BY <1>1, <1>2, <1>3, <1>5

LEMMA Seen == Spec => []SeenInv
<1>1. Init => SeenInv
  BY DEF Init, SeenInv, ToSet, Dims
<1>2. IInv /\ SeenInv /\ [Next]_vars => SeenInv'
  BY SeenStep
<1> QED
  BY <1>1, <1>2, Invariance, PTL DEF Spec

(* A later event withdraws no credit and no question: of two scoring runs   *)
(* of a session, the one that read the shorter log asks nothing the other   *)
(* does not, so that no answer is paid for that the final scores ignore.    *)
THEOREM Standing == Spec => QuestionsStand
<1> DEFINE A == Credited(log) \subseteq Credited(log') /\ Questions(log) \subseteq Questions(log')
<1>1. IInv /\ SeenInv /\ [Next]_vars => [A]_log
  <2> SUFFICES ASSUME IInv, SeenInv, Next PROVE A
    BY DEF vars
  <2>1. PICK e \in Sent : e.seq = Len(log) + 1 /\ log' = Append(log, e) /\ Len(log) + 1 < Never
    BY Appended
  <2> QED
    BY <2>1, CreditKept, QuestionsKept DEF IInv
<1> QED
  BY <1>1, Invariance, Seen, PTL DEF Spec, QuestionsStand

-------------------------------------------------------------------------------
(***************************************************************************)
(* What the scorer has seen and what the log says.                         *)
(***************************************************************************)

(* What the bus never drops. *)
Kept == {"prompt", "response", "submit", "run"}

(* The scorer has seen all of that, and the rows of a submission that was   *)
(* handled last are those of what it has seen.                              *)
SettleInv ==
  /\ \A t \in Kept : EventsOf(seen, t) = EventsOf(log, t)
  /\ log # <<>> /\ Last(log).type = "submit" =>
       \A d \in Scored \ stale : rows[d] = Live(Heuristic(d, seen), seen)

(* Where two logs have the same events of some types, they have the same    *)
(* first event of them.                                                     *)
LEMMA SameFirst ==
  ASSUME NEW s, NEW u, NEW q, NEW types, \A t \in types : EventsOf(s, t) = EventsOf(u, t)
  PROVE  FirstAfter(s, q, types) = FirstAfter(u, q, types)
<1>1. {x \in ToSet(s) : x.seq > q /\ x.type \in types}
        = {x \in ToSet(u) : x.seq > q /\ x.type \in types}
  BY DEF EventsOf
<1> QED
  BY <1>1 DEF FirstAfter

(* Two logs that differ in snapshots and pastes have the same iteration and *)
(* coverage, and if they have the same pastes from the chat the same        *)
(* verification.                                                            *)
LEMMA SameScores ==
  ASSUME NEW s, NEW u, \A t \in Kept : EventsOf(s, t) = EventsOf(u, t)
  PROVE  /\ Coverage(s) = Coverage(u)
         /\ Iteration(s) = Iteration(u)
         /\ {p \in EventsOf(s, "paste") : p.chat} = {p \in EventsOf(u, "paste") : p.chat}
              => Verification(s) = Verification(u)
<1>1. /\ EventsOf(s, "prompt") = EventsOf(u, "prompt")
      /\ EventsOf(s, "response") = EventsOf(u, "response")
      /\ EventsOf(s, "submit") = EventsOf(u, "submit")
      /\ EventsOf(s, "run") = EventsOf(u, "run")
  BY DEF Kept
<1>2. Coverage(s) = Coverage(u)
  BY <1>1 DEF Coverage
<1>3. \A p : PrevTokens(s, p) = PrevTokens(u, p)
  BY <1>1 DEF PrevTokens
<1>4. Iteration(s) = Iteration(u)
  <2>1. Redundant(s) = Redundant(u)
    BY <1>1, <1>3 DEF Redundant
  <2> QED
    BY <1>1, <2>1 DEF Iteration
<1>5. CodeResponses(s) = CodeResponses(u)
  BY <1>1 DEF CodeResponses
<1>6. Credited(s) = Credited(u)
  <2>1. \A r : Boundary(s, r) = Boundary(u, r)
    BY <1>1, SameFirst DEF Boundary
  <2> QED
    BY <1>1, <1>5, <2>1 DEF Credited
<1>7. \A p : PastePoints(s, p) = PastePoints(u, p)
  <2> TAKE p
  <2>1. FirstAfter(s, p.seq, {"run"}) = FirstAfter(u, p.seq, {"run"})
    BY <1>1, SameFirst
  <2>2. NextRun(s, p) = NextRun(u, p)
    BY <1>1, <2>1 DEF NextRun
  <2> QED
    BY <2>2 DEF PastePoints
<1>8. ASSUME {p \in EventsOf(s, "paste") : p.chat} = {p \in EventsOf(u, "paste") : p.chat}
      PROVE  Verification(s) = Verification(u)
  <2>1. \A n : PastesWorth(s, n) = PastesWorth(u, n)
    BY <1>7, <1>8 DEF PastesWorth
  <2>2. PasteRunScore(s) = PasteRunScore(u)
    BY <2>1 DEF PasteRunScore
  <2> QED
    BY <1>1, <1>5, <1>6, <2>2 DEF Verification
<1> QED
  BY <1>2, <1>4, <1>8

(* The scorer sees one more event. *)
LEMMA SeenGrows ==
  ASSUME seen \in Seq(Sent), NEW e \in Sent, NEW t
  PROVE  EventsOf(Append(seen, e), t) = EventsOf(seen, t) \cup (IF e.type = t THEN {e} ELSE {})
BY AppendSet DEF EventsOf

LEMMA SettleStep ==
  ASSUME IInv, SeenInv, SettleInv, [Next]_vars
  PROVE  SettleInv'
<1>1. CASE Next
  <2>1. PICK e \in Arrivals :
          /\ HandlePrompt(e) \/ HandleTrigger(e) \/ HandleSnapshot(e) \/ Lose(e)
          /\ e \in Sent /\ e.seq = Len(log) + 1 /\ log' = Append(log, e)
    BY <1>1, Appended
  <2>2. ASSUME NEW t \in Kept PROVE EventsOf(seen', t) = EventsOf(log', t)
    <3>1. EventsOf(log', t) = EventsOf(log, t) \cup (IF e.type = t THEN {e} ELSE {})
      BY <2>1, EventsGrow DEF IInv
    <3>2. EventsOf(Append(seen, e), t) = EventsOf(seen, t) \cup (IF e.type = t THEN {e} ELSE {})
      BY <2>1, SeenGrows DEF SeenInv
    <3>3. EventsOf(seen, t) = EventsOf(log, t)
      BY DEF SettleInv
    <3>4. seen' = Append(seen, e) \/ (seen' = seen /\ e.type # t)
      BY <2>1 DEF HandlePrompt, HandleTrigger, HandleSnapshot, Lose, state, Kept
    <3> QED
      BY <3>1, <3>2, <3>3, <3>4
  <2>3. Last(log') = e
    BY <2>1 DEF Last, IInv, LogInv
  <2>k. known' = known
    BY <1>1 DEF Next
  <2>4. ASSUME e.type = "submit", NEW d \in Scored' \ stale'
        PROVE  rows'[d] = Live(Heuristic(d, seen'), seen')
    <3>1. HandleTrigger(e)
      BY <2>1, <2>4 DEF HandlePrompt, HandleSnapshot, Lose
    <3> DEFINE s == Append(seen, e)
               new == [x \in Mixed |-> Live(Heuristic(x, s), s)]
               Cut(failed) == IF "verification" \in failed THEN {"iteration"} ELSE {}
    <3>2. PICK tried \in SUBSET Scored, failed \in SUBSET Scored :
            /\ Due(e) \subseteq tried \cup Cut(failed)
            /\ rows' = [x \in Dims |-> IF x \in tried \ failed THEN new[x] ELSE rows[x]]
            /\ stale' = (stale \ tried) \cup failed \cup (Due(e) \cap Cut(failed))
      BY <3>1 DEF HandleTrigger
    <3>3. Due(e) = Scored /\ Scored' = Scored /\ Scored \subseteq Mixed
      BY <2>4, <2>k DEF Due, Scored, Mixed
    <3>4. d \in tried \ failed
      BY <2>4, <3>2, <3>3
    <3>5. rows'[d] = new[d] /\ seen' = s
      BY <3>1, <3>2, <3>3, <3>4 DEF Dims, HandleTrigger
    <3> QED
      BY <2>4, <3>3, <3>5
  <2>5. \A d : Heuristic(d, seen)' = Heuristic(d, seen')
    BY <2>k DEF Heuristic
  <2> QED
    BY <2>2, <2>3, <2>4, <2>5 DEF SettleInv
<1>2. CASE UNCHANGED vars
  BY <1>2 DEF vars, state, written, SettleInv, Scored, Heuristic
<1> QED
  BY <1>1, <1>2

(* What a submission leaves in the rows is what post-hoc scoring writes     *)
(* when the judge says nothing: no debounce is left open and no event but a *)
(* dropped paste is missing from what the scorer has seen.                  *)
THEOREM Settles == Spec => []SubmitSettlesLive
<1>1. Init => SettleInv
  BY DEF Init, SettleInv
<1>2. IInv /\ SeenInv /\ SettleInv /\ [Next]_vars => SettleInv'
  BY SettleStep
<1>3. SeenInv /\ SettleInv => SubmitSettlesLive
  <2> SUFFICES ASSUME SeenInv, SettleInv, log # <<>>, Last(log).type = "submit", NEW d \in Scored \ stale
               PROVE  (d = "verification" /\ ChatPasteLost)
                        \/ rows[d] = Blend(Heuristic(d, log), 0, 0, 0, log)
    BY DEF SubmitSettlesLive
  <2>1. rows[d] = Blend(Heuristic(d, seen), 0, 0, 0, seen)
    BY DEF SettleInv, Live
  <2>2. \A t \in Kept : EventsOf(seen, t) = EventsOf(log, t)
    BY DEF SettleInv
  <2>3. Coverage(seen) = Coverage(log) /\ Iteration(seen) = Iteration(log)
    BY <2>2, SameScores
  <2>4. ASSUME ~ChatPasteLost PROVE Verification(seen) = Verification(log)
    <3>1. {p \in EventsOf(seen, "paste") : p.chat} = {p \in EventsOf(log, "paste") : p.chat}
      BY <2>4 DEF ChatPasteLost, EventsOf, SeenInv
    <3> QED
      BY <2>2, <3>1, SameScores
  <2>5. (d = "verification" /\ ChatPasteLost) \/ Heuristic(d, seen) = Heuristic(d, log)
    BY <2>3, <2>4 DEF Heuristic, Scored, Mixed
  <2> QED
    BY <2>1, <2>3, <2>5 DEF Blend
<1> QED
  BY <1>1, <1>2, <1>3, Invariance, Seen, PTL DEF Spec

-------------------------------------------------------------------------------
(***************************************************************************)
(* The heuristics in numbers.                                              *)
(***************************************************************************)

Events(s) == s \in Seq(Sent)

(* A log has finitely many events, and so of every kind. *)
LEMMA Finitely ==
  ASSUME NEW s, Events(s), NEW S, S \subseteq ToSet(s)
  PROVE  IsFiniteSet(S) /\ Cardinality(S) \in Nat
<1>1. Len(s) \in Nat /\ DOMAIN s = 1..Len(s)
  BY DEF Events
<1>2. s \in Surjection(1..Len(s), ToSet(s))
  BY <1>1 DEF Surjection, ToSet, Events
<1>3. IsFiniteSet(1..Len(s))
  BY <1>1, FS_Interval
<1>4. IsFiniteSet(ToSet(s))
  BY <1>2, <1>3, FS_Surjection
<1> QED
  BY <1>4, FS_Subset, FS_CardinalityType

LEMMA PairsIs ==
  ASSUME NEW n \in Nat
  PROVE  Pairs(n) = (IF n <= 1 THEN 1 ELSE n - 1)
<1>1. \E y \in {1, n - 1} : \A z \in {1, n - 1} : y >= z
  <2>1. CASE n <= 1
    BY <2>1
  <2>2. CASE ~(n <= 1)
    BY <2>2
  <2> QED
    BY <2>1, <2>2
<1>2. Max({1, n - 1}) \in {1, n - 1} /\ \A z \in {1, n - 1} : Max({1, n - 1}) >= z
  BY <1>1 DEF Max
<1> QED
  BY <1>2 DEF Pairs

(* The part of verification that does not depend on the credit. *)
Rest(s) ==
  Clamp(20 + PasteRunScore(s), 0, 40) + (IF \E e \in EventsOf(s, "run") : e.test THEN 20 ELSE 0)

LEMMA VerificationIs ==
  ASSUME NEW s
  PROVE  LET n == Cardinality(CodeResponses(s))
         IN  /\ EventsOf(s, "response") = {} => Verification(s) = Over(60, 1)
             /\ EventsOf(s, "response") # {} /\ n = 0 => Verification(s) = Over(40 + Rest(s), 1)
             /\ EventsOf(s, "response") # {} /\ n # 0 =>
                  Verification(s) = Over(40 * Cardinality(Credited(s)) + n * Rest(s), n)
BY DEF Verification, Rest

LEMMA VerificationParts ==
  ASSUME NEW s, Events(s)
  PROVE  /\ Cardinality(CodeResponses(s)) \in Nat
         /\ Cardinality(Credited(s)) \in Nat
         /\ Cardinality(Credited(s)) <= Cardinality(CodeResponses(s))
         /\ PasteRunScore(s) \in Int
         /\ Rest(s) \in 0..60
<1>1. IsFiniteSet(CodeResponses(s)) /\ Cardinality(CodeResponses(s)) \in Nat
  BY Finitely DEF CodeResponses, EventsOf
<1>2. Credited(s) \in SUBSET CodeResponses(s)
  BY DEF Credited
<1>3. Cardinality(Credited(s)) \in Nat /\ Cardinality(Credited(s)) <= Cardinality(CodeResponses(s))
  BY <1>1, <1>2, FS_Subset, FS_CardinalityType
<1>4. /\ Cardinality(PastesWorth(s, 5)) \in Nat /\ Cardinality(PastesWorth(s, 3)) \in Nat
      /\ Cardinality(PastesWorth(s, -5)) \in Nat
  BY Finitely DEF PastesWorth, EventsOf
<1>5. PasteRunScore(s) \in Int
  BY <1>4 DEF PasteRunScore
<1>6. Clamp(20 + PasteRunScore(s), 0, 40) \in 0..40
  <2> DEFINE x == 20 + PasteRunScore(s)
  <2>1. x \in Int
    BY <1>5
  <2> HIDE DEF x
  <2>2. Clamp(x, 0, 40) = IF x < 0 THEN 0 ELSE IF 40 < x THEN 40 ELSE x
    BY <2>1, ClampIs
  <2>3. Clamp(x, 0, 40) \in 0..40
    BY <2>1, <2>2
  <2> QED
    BY <2>3 DEF x
<1>7. Rest(s) \in 0..60
  BY <1>6 DEF Rest
<1> QED
  BY <1>1, <1>3, <1>5, <1>7

(* The first prompt repeats nothing, so that there are no more repetitions  *)
(* than pairs.                                                              *)
LEMMA FirstIsNew ==
  ASSUME LogInv, EventsOf(log, "prompt") # {}
  PROVE  /\ Cardinality(Redundant(log)) \in Nat
         /\ Cardinality(Redundant(log)) <= Cardinality(EventsOf(log, "prompt")) - 1
<1> DEFINE P == EventsOf(log, "prompt")
           Q == {p.seq : p \in P}
<1>1. \A p \in P : p \in Sent /\ p.seq \in Nat /\ p.type = "prompt"
  BY InLog DEF EventsOf
<1>2. Q \in SUBSET Nat /\ Q # {}
  BY <1>1
<1>3. PICK p \in P : \A x \in P : p.seq <= x.seq
  <2>1. Min(Q) \in Q /\ \A y \in Q : Min(Q) <= y
    BY <1>2, LeastOf
  <2>2. PICK p \in P : p.seq = Min(Q)
    BY <2>1
  <2> QED
    BY <2>1, <2>2
<1>4. LastBefore(P, p.seq) = {}
  BY <1>1, <1>3 DEF LastBefore
<1>5. PrevTokens(log, p) = {}
  BY <1>4 DEF PrevTokens
<1>6. IsFiniteSet(p.tokens)
  BY <1>1, <1>3, SentTokens
<1>7. ~Similar(p.tokens, PrevTokens(log, p), 70)
  <2>1. p.tokens \cap {} = {} /\ p.tokens \cup {} = p.tokens
    OBVIOUS
  <2>2. Cardinality({}) = 0 /\ Cardinality(p.tokens) \in Nat
    BY <1>6, FS_EmptySet, FS_CardinalityType
  <2>3. ~(100 * 0 > 70 * Cardinality(p.tokens))
    BY <2>2
  <2> QED
    BY <1>5, <2>1, <2>2, <2>3 DEF Similar
<1>8. Redundant(log) \in SUBSET (P \ {p})
  BY <1>7 DEF Redundant
<1>9. IsFiniteSet(P) /\ Cardinality(P) \in Nat
  BY Finitely DEF EventsOf, LogInv, Events
<1>10. IsFiniteSet(P \ {p}) /\ Cardinality(P \ {p}) = Cardinality(P) - 1
  BY <1>3, <1>9, FS_RemoveElement
<1> QED
  BY <1>8, <1>10, FS_Subset, FS_CardinalityType

LEMMA IterationParts ==
  ASSUME LogInv
  PROVE  LET n == Cardinality(EventsOf(log, "prompt"))
             rest == CountPoints(n) + (IF EventsOf(log, "submit") # {} THEN 30 ELSE 0)
         IN  /\ n \in Nat /\ rest \in 0..60
             /\ n = 0 => Iteration(log) = Over(70, 1)
             /\ n # 0 =>
                  /\ Pairs(n) \in Nat \ {0} /\ Cardinality(Redundant(log)) \in 0..Pairs(n)
                  /\ Iteration(log) =
                       Over(40 * (Pairs(n) - Cardinality(Redundant(log))) + Pairs(n) * rest, Pairs(n))
<1> DEFINE n == Cardinality(EventsOf(log, "prompt"))
           rest == CountPoints(n) + (IF EventsOf(log, "submit") # {} THEN 30 ELSE 0)
<1>1. n \in Nat /\ (n # 0 => EventsOf(log, "prompt") # {})
  BY Finitely, FS_EmptySet DEF EventsOf, LogInv, Events
<1>2. CountPoints(n) \in 0..30
  BY <1>1 DEF CountPoints
<1>3. rest \in 0..60
  BY <1>2
<1>4. ASSUME n # 0
      PROVE  Pairs(n) \in Nat \ {0} /\ Cardinality(Redundant(log)) \in 0..Pairs(n)
  <2>1. Cardinality(Redundant(log)) \in Nat /\ Cardinality(Redundant(log)) <= n - 1
    BY <1>1, <1>4, FirstIsNew
  <2> HIDE DEF n
  <2> QED
    BY <1>1, <1>4, <2>1, PairsIs
<1>5. /\ n = 0 => Iteration(log) = Over(70, 1)
      /\ n # 0 => Iteration(log) =
           Over(40 * (Pairs(n) - Cardinality(Redundant(log))) + Pairs(n) * rest, Pairs(n))
  BY DEF Iteration
<1> HIDE DEF n, rest
<1>6. /\ n \in Nat /\ rest \in 0..60
      /\ n = 0 => Iteration(log) = Over(70, 1)
      /\ n # 0 =>
           /\ Pairs(n) \in Nat \ {0} /\ Cardinality(Redundant(log)) \in 0..Pairs(n)
           /\ Iteration(log) =
                Over(40 * (Pairs(n) - Cardinality(Redundant(log))) + Pairs(n) * rest, Pairs(n))
  BY <1>1, <1>3, <1>4, <1>5
<1> QED
  BY <1>6 DEF n, rest

LEMMA Times ==
  ASSUME NEW n \in Nat, NEW x \in Int, NEW y \in Int, x <= y
  PROVE  n * x \in Int /\ n * y \in Int /\ n * x <= n * y
<1>1. y - x \in Nat
  OBVIOUS
<1>2. n * (y - x) >= 0
  BY <1>1
<1>3. n * (y - x) = n * y - n * x
  OBVIOUS
<1> QED
  BY <1>2, <1>3

(* A score of 0 to 100: the last clamp of each heuristic has nothing to do, *)
(* and no fraction is over zero.                                            *)
InRange(h) ==
  /\ h.num \in Int /\ h.den \in Nat \ {0}
  /\ AtMost(Over(0, 1), h) /\ AtMost(h, Over(100, 1))

LEMMA InRangeIs ==
  ASSUME NEW n \in Int, NEW d \in Nat \ {0}, 0 <= n, n <= 100 * d
  PROVE  InRange(Over(n, d))
BY DEF InRange, Over, AtMost

LEMMA HeuristicInRange ==
  ASSUME LogInv, NEW d \in Mixed
  PROVE  InRange(Heuristic(d, log))
<1>1. InRange(Verification(log))
  <2> DEFINE n == Cardinality(CodeResponses(log))
             c == Cardinality(Credited(log))
  <2>1. n \in Nat /\ c \in Nat /\ c <= n /\ Rest(log) \in 0..60
    BY VerificationParts DEF LogInv, Events
  <2>2. InRange(Over(60, 1)) /\ InRange(Over(40 + Rest(log), 1))
    BY <2>1, InRangeIs
  <2>3. ASSUME n # 0 PROVE InRange(Over(40 * c + n * Rest(log), n))
    <3> DEFINE m == n * Rest(log)
    <3>1. n * 0 <= m /\ m <= n * 60 /\ m \in Int
      BY <2>1, Times
    <3> HIDE DEF m, n, c
    <3>2. 0 <= 40 * c + m /\ 40 * c + m <= 100 * n /\ 40 * c + m \in Int
      BY <2>1, <3>1
    <3> QED
      BY <2>1, <2>3, <3>2, InRangeIs DEF m
  <2> QED
    BY <2>2, <2>3, VerificationIs
<1>2. InRange(Iteration(log))
  <2> DEFINE n == Cardinality(EventsOf(log, "prompt"))
             rest == CountPoints(n) + (IF EventsOf(log, "submit") # {} THEN 30 ELSE 0)
             p == Pairs(n)
             r == Cardinality(Redundant(log))
  <2>1. /\ n \in Nat /\ rest \in 0..60
        /\ n = 0 => Iteration(log) = Over(70, 1)
        /\ n # 0 => /\ p \in Nat \ {0} /\ r \in 0..p
                    /\ Iteration(log) = Over(40 * (p - r) + p * rest, p)
    BY IterationParts
  <2>2. InRange(Over(70, 1))
    BY InRangeIs
  <2> HIDE DEF n, rest, p, r
  <2>3. ASSUME n # 0 PROVE InRange(Over(40 * (p - r) + p * rest, p))
    <3> DEFINE m == p * rest
    <3>0. p \in Nat /\ rest \in Int /\ 0 <= rest /\ rest <= 60
      BY <2>1, <2>3
    <3>1. p * 0 <= m /\ m <= p * 60 /\ m \in Int
      BY <3>0, Times
    <3> HIDE DEF m
    <3>2. 0 <= 40 * (p - r) + m /\ 40 * (p - r) + m <= 100 * p /\ 40 * (p - r) + m \in Int
      BY <2>1, <2>3, <3>1
    <3> QED
      BY <2>1, <2>3, <3>2, InRangeIs DEF m
  <2> QED
    BY <2>1, <2>2, <2>3
<1>3. InRange(Over(70, 1))
  BY InRangeIs
<1> QED
  BY <1>1, <1>2, <1>3 DEF Mixed, Heuristic

(* However long the log, every heuristic of it is a score of 0 to 100.      *)
ScoresInRange == \A d \in Mixed : InRange(Heuristic(d, log))

(* The outer clamp of verification_heuristic and iteration_heuristic never  *)
(* bites, and neither divides by zero.                                      *)
THEOREM Ranges == Spec => []ScoresInRange
<1>1. IInv => ScoresInRange
  BY HeuristicInRange DEF IInv, ScoresInRange
<1> QED
  BY <1>1, Invariance, PTL

-------------------------------------------------------------------------------
(***************************************************************************)
(* The blend.                                                              *)
(***************************************************************************)
LEMMA CoverageIs == ASSUME LogInv PROVE Coverage(log) \in Nat
<1> DEFINE n == Cardinality(EventsOf(log, "prompt"))
<1>1. n \in Nat
  BY Finitely DEF EventsOf, LogInv, Events
<1>2. Min({3, n}) \in Nat
  BY <1>1, LeastOf
<1> QED
  BY <1>2 DEF Coverage

(* What Blend computes when v of n answers were clear and y of them YES.    *)
Mixture(h, y, v) == Over(4 * h.num * v + 600 * y * h.den, 10 * h.den * v)
Sureness(n, v, c) == Over(30 * n + 40 * v + 5 * n * c, 100 * n)
Capped(n, v, c) ==
  IF AtMost(Sureness(n, v, c), Over(95, 100)) THEN Sureness(n, v, c) ELSE Over(95, 100)

LEMMA BlendIs ==
  ASSUME NEW h, NEW y, NEW v, NEW n, v # 0
  PROVE  /\ Blend(h, y, v, n, log).score = Mixture(h, y, v)
         /\ Blend(h, y, v, n, log).confidence = Capped(n, v, Coverage(log))
BY DEF Blend, Mixture, Capped, Sureness

(* Four parts of the heuristic and six of the judge lie between the two:    *)
(* a and b are the scores over a common denominator.                        *)
LEMMA Between ==
  ASSUME NEW h, h.num \in Int, h.den \in Nat \ {0}, NEW v \in Nat \ {0}, NEW y \in Nat
  PROVE  \/ AtMost(h, Mixture(h, y, v)) /\ AtMost(Mixture(h, y, v), Over(100 * y, v))
         \/ AtMost(Over(100 * y, v), Mixture(h, y, v)) /\ AtMost(Mixture(h, y, v), h)
<1> DEFINE m == h.num
           k == h.den
           a == m * v
           b == 100 * (y * k)
           s == 4 * m * v + 600 * y * k
           z == 10 * k * v
<1>1. a \in Int /\ b \in Int /\ s = 4 * a + 6 * b
  OBVIOUS
<1>2. m * z = k * (10 * a) /\ (100 * y) * z = v * (10 * b)
  OBVIOUS
<1>3. s * k = k * s /\ s * v = v * s /\ s \in Int
  OBVIOUS
<1>4. k \in Nat /\ v \in Nat
  OBVIOUS
<1> HIDE DEF m, k, a, b, s, z
<1>5. CASE a <= b
  <2>1. 10 * a <= s /\ s <= 10 * b /\ 10 * a \in Int /\ 10 * b \in Int
    BY <1>1, <1>5
  <2>2. k * (10 * a) <= k * s /\ v * s <= v * (10 * b)
    BY <1>3, <1>4, <2>1, Times
  <2>3. m * z <= s * k /\ s * v <= (100 * y) * z
    BY <1>2, <1>3, <2>2
  <2> QED
    BY <2>3 DEF AtMost, Over, Mixture, m, k, s, z
<1>6. CASE ~(a <= b)
  <2>1. 10 * b <= s /\ s <= 10 * a /\ 10 * a \in Int /\ 10 * b \in Int
    BY <1>1, <1>6
  <2>2. v * (10 * b) <= v * s /\ k * s <= k * (10 * a)
    BY <1>3, <1>4, <2>1, Times
  <2>3. (100 * y) * z <= s * v /\ s * k <= m * z
    BY <1>2, <1>3, <2>2
  <2> QED
    BY <2>3 DEF AtMost, Over, Mixture, m, k, s, z
<1> QED
  BY <1>5, <1>6

(* The confidence of at most two answers, of which v were clear. *)
LEMMA Confidence ==
  ASSUME NEW c \in Nat, NEW a \in 1..2, NEW v \in 1..a
  PROVE  AtMost(Capped(a, v, c), Capped(v, v, c)) /\ AtMost(Capped(a, v, c), Over(95, 100))
<1>1. (a = 1 /\ v = 1) \/ (a = 2 /\ v = 1) \/ (a = 2 /\ v = 2)
  OBVIOUS
<1>2. CASE a = 1 /\ v = 1
  BY <1>2 DEF AtMost, Over, Capped, Sureness
<1>3. CASE a = 2 /\ v = 1
  BY <1>3 DEF AtMost, Over, Capped, Sureness
<1>4. CASE a = 2 /\ v = 2
  BY <1>4 DEF AtMost, Over, Capped, Sureness
<1> QED
  BY <1>1, <1>2, <1>3, <1>4

(* However the judge answers, the final score lies between the heuristic    *)
(* and the judge's share of YES, and an UNCLEAR lowers the confidence only. *)
THEOREM Blends == Spec => []BlendIsBetween
<1>1. IInv => BlendIsBetween
  <2> SUFFICES ASSUME IInv, NEW d \in Mixed, NEW asked \in 1..2, NEW valid \in 1..asked,
                      NEW yes \in 0..valid
               PROVE  LET h == Heuristic(d, log)
                          share == Over(100 * yes, valid)
                          blend == Blend(h, yes, valid, asked, log)
                          clear == Blend(h, yes, valid, valid, log)
                      IN  /\ \/ AtMost(h, blend.score) /\ AtMost(blend.score, share)
                             \/ AtMost(share, blend.score) /\ AtMost(blend.score, h)
                          /\ blend.score = clear.score
                          /\ AtMost(blend.confidence, clear.confidence)
                          /\ AtMost(blend.confidence, Over(95, 100))
    BY Zenon DEF BlendIsBetween
  <2> DEFINE h == Heuristic(d, log)
             share == Over(100 * yes, valid)
             blend == Blend(h, yes, valid, asked, log)
             clear == Blend(h, yes, valid, valid, log)
  <2>1. h.num \in Int /\ h.den \in Nat \ {0} /\ Coverage(log) \in Nat
    BY HeuristicInRange, CoverageIs DEF IInv, InRange
  <2>2. valid # 0 /\ valid \in Nat \ {0} /\ yes \in Nat
    OBVIOUS
  <2> HIDE DEF h
  <2>3. /\ blend.score = Mixture(h, yes, valid) /\ clear.score = Mixture(h, yes, valid)
        /\ blend.confidence = Capped(asked, valid, Coverage(log))
        /\ clear.confidence = Capped(valid, valid, Coverage(log))
    BY <2>2, BlendIs
  <2> HIDE DEF share, blend, clear
  <2>4. \/ AtMost(h, blend.score) /\ AtMost(blend.score, share)
        \/ AtMost(share, blend.score) /\ AtMost(blend.score, h)
    BY <2>1, <2>2, <2>3, Between DEF share
  <2>5. AtMost(blend.confidence, clear.confidence) /\ AtMost(blend.confidence, Over(95, 100))
    BY <2>1, <2>3, Confidence
  <2> QED
    BY <2>3, <2>4, <2>5 DEF h, share, blend, clear
<1> QED
  BY <1>1, Invariance, PTL

-------------------------------------------------------------------------------
(***************************************************************************)
(* One more run.                                                           *)
(***************************************************************************)

(* A run is the next run of the pastes that had none, and leaves those that *)
(* had one what they were worth.                                            *)
LEMMA PastesKept ==
  ASSUME LogInv, Len(log) + 1 < Never, NEW e \in Sent, e.seq = Len(log) + 1, e.type = "run"
  PROVE  LET s == Append(log, e)
         IN  /\ PastesWorth(log, 5) \subseteq PastesWorth(s, 5)
             /\ PastesWorth(log, 3) \subseteq PastesWorth(s, 3)
             /\ PastesWorth(s, -5) \subseteq PastesWorth(log, -5)
<1> DEFINE s == Append(log, e)
<1>1. EventsOf(s, "paste") = EventsOf(log, "paste")
  BY Grown DEF EventsOf
<1>2. ASSUME NEW p \in EventsOf(log, "paste")
      PROVE  PastePoints(log, p) = -5 \/ PastePoints(s, p) = PastePoints(log, p)
  <2> DEFINE before == FirstAfter(log, p.seq, {"run"})
             after == FirstAfter(s, p.seq, {"run"})
  <2>1. p.seq \in Nat
    BY EventsGrow
  <2>2. /\ EventsOf(s, "run") = EventsOf(log, "run") \cup {e}
        /\ \A x \in EventsOf(log, "run") : x.seq \in Nat /\ x.seq < e.seq
        /\ e.seq \in Nat /\ e.seq < Never
    BY EventsGrow
  <2>3. CASE before = Never
    <3>1. NextRun(log, p) = {}
      BY <2>2, <2>3, NeverType DEF NextRun
    <3> QED
      BY <3>1 DEF PastePoints
  <2>4. CASE before # Never
    <3>1. after = before
      BY <2>1, <2>4, FirstKept
    <3>2. before < e.seq /\ before \in Nat
      <4>1. \A x \in ToSet(log) : x.seq \in Nat /\ x.seq < Never /\ x.seq < e.seq
        <5>1. Len(log) \in Nat
          BY DEF LogInv
        <5> QED
          BY <5>1, InLog, NeverType
      <4>2. before \in Later(log, p.seq, {"run"})
        BY <2>1, <2>4, <4>1, FirstIs
      <4> QED
        BY <4>1, <4>2 DEF Later
    <3>3. NextRun(s, p) = NextRun(log, p)
      BY <2>2, <3>1, <3>2 DEF NextRun
    <3> QED
      BY <3>3 DEF PastePoints
  <2> QED
    BY <2>3, <2>4
<1>3. 5 # -5 /\ 3 # -5
  OBVIOUS
<1> HIDE DEF s
<1>4. /\ PastesWorth(log, 5) \subseteq PastesWorth(s, 5)
      /\ PastesWorth(log, 3) \subseteq PastesWorth(s, 3)
      /\ PastesWorth(s, -5) \subseteq PastesWorth(log, -5)
  BY <1>1, <1>2, <1>3 DEF PastesWorth
<1> QED
  BY <1>4 DEF s

(* No run lowers the score of the pastes, and none the rest of the points. *)
LEMMA RestGrows ==
  ASSUME LogInv, Len(log) + 1 < Never, NEW e \in Sent, e.seq = Len(log) + 1,
         e.type = "run", log' = Append(log, e)
  PROVE  Rest(log) <= Rest(log')
<1> DEFINE w5 == Cardinality(PastesWorth(log, 5))
           w3 == Cardinality(PastesWorth(log, 3))
           wm == Cardinality(PastesWorth(log, -5))
           x5 == Cardinality(PastesWorth(log', 5))
           x3 == Cardinality(PastesWorth(log', 3))
           xm == Cardinality(PastesWorth(log', -5))
           before == PasteRunScore(log)
           after == PasteRunScore(log')
<1>1. /\ PastesWorth(log, 5) \subseteq PastesWorth(log', 5)
      /\ PastesWorth(log, 3) \subseteq PastesWorth(log', 3)
      /\ PastesWorth(log', -5) \subseteq PastesWorth(log, -5)
  BY PastesKept
<1>2. Events(log) /\ Events(log')
  BY Grown DEF LogInv, Events
<1>3. \A n : /\ IsFiniteSet(PastesWorth(log, n)) /\ Cardinality(PastesWorth(log, n)) \in Nat
            /\ IsFiniteSet(PastesWorth(log', n)) /\ Cardinality(PastesWorth(log', n)) \in Nat
  BY <1>2, Finitely DEF PastesWorth, EventsOf
<1>4. /\ w5 <= x5 /\ w3 <= x3 /\ xm <= wm
      /\ w5 \in Nat /\ w3 \in Nat /\ wm \in Nat /\ x5 \in Nat /\ x3 \in Nat /\ xm \in Nat
  BY <1>1, <1>3, FS_Subset
<1>5. before \in Int /\ after \in Int /\ before <= after
  <2>1. before = 5 * w5 + 3 * w3 - 5 * wm /\ after = 5 * x5 + 3 * x3 - 5 * xm
    BY DEF PasteRunScore
  <2> HIDE DEF w5, w3, wm, x5, x3, xm, before, after
  <2> QED
    BY <1>4, <2>1
<1> HIDE DEF w5, w3, wm, x5, x3, xm, before, after
<1>6. /\ Clamp(20 + before, 0, 40) <= Clamp(20 + after, 0, 40)
      /\ Clamp(20 + before, 0, 40) \in Int /\ Clamp(20 + after, 0, 40) \in Int
  <2>1. /\ Clamp(20 + before, 0, 40)
             = IF 20 + before < 0 THEN 0 ELSE IF 40 < 20 + before THEN 40 ELSE 20 + before
        /\ Clamp(20 + after, 0, 40)
             = IF 20 + after < 0 THEN 0 ELSE IF 40 < 20 + after THEN 40 ELSE 20 + after
    BY <1>5, ClampIs
  <2> QED
    BY <1>5, <2>1
<1>7. (\E x \in EventsOf(log, "run") : x.test) => \E x \in EventsOf(log', "run") : x.test
  BY EventsGrow
<1> QED
  BY <1>6, <1>7 DEF Rest, before, after

(* Neither does it take a response's credit, nor add a response. *)
LEMMA RunPays ==
  ASSUME LogInv, Len(log) + 1 < Never, NEW e \in Sent, e.seq = Len(log) + 1,
         e.type = "run", log' = Append(log, e)
  PROVE  AtMost(Verification(log), Verification(log'))
<1>1. EventsOf(log', "response") = EventsOf(log, "response")
  BY Grown DEF EventsOf
<1>2. CodeResponses(log') = CodeResponses(log)
  BY <1>1 DEF CodeResponses
<1> DEFINE n == Cardinality(CodeResponses(log))
           c == Cardinality(Credited(log))
           d == Cardinality(Credited(log'))
           r == Rest(log)
           t == Rest(log')
<1>3. n \in Nat /\ c \in Nat /\ r \in 0..60
  <2>1. Events(log)
    BY DEF LogInv, Events
  <2> QED
    BY <2>1, VerificationParts, ZenonT(20)
<1>4. t \in 0..60
  <2>1. Events(log')
    BY Grown DEF Events
  <2> QED
    BY <2>1, VerificationParts, ZenonT(20)
<1>5. d \in Nat /\ c <= d
  <2>1. Credited(log) \in SUBSET Credited(log')
    BY CreditKept
  <2>2. Credited(log') \subseteq CodeResponses(log)
    BY <1>2 DEF Credited
  <2>3. IsFiniteSet(CodeResponses(log))
    BY Finitely DEF CodeResponses, EventsOf, LogInv, Events
  <2>4. IsFiniteSet(Credited(log'))
    BY <2>2, <2>3, FS_Subset
  <2> QED
    BY <2>1, <2>4, FS_Subset, FS_CardinalityType
<1>6. r <= t
  BY RestGrows
<1> HIDE DEF n, c, d, r, t
<1>7. CASE EventsOf(log, "response") = {}
  <2>1. Verification(log) = Over(60, 1) /\ Verification(log') = Over(60, 1)
    BY <1>1, <1>7, VerificationIs
  <2> QED
    BY <2>1 DEF AtMost, Over
<1>8. CASE EventsOf(log, "response") # {} /\ n = 0
  <2>1. Verification(log) = Over(40 + r, 1) /\ Verification(log') = Over(40 + t, 1)
    BY <1>1, <1>2, <1>8, VerificationIs DEF n, r, t
  <2> QED
    BY <1>3, <1>4, <1>6, <2>1 DEF AtMost, Over
<1>9. CASE EventsOf(log, "response") # {} /\ n # 0
  <2> DEFINE x == 40 * c + n * r
             y == 40 * d + n * t
  <2>1. Verification(log) = Over(x, n) /\ Verification(log') = Over(y, n)
    BY <1>1, <1>2, <1>9, VerificationIs DEF n, c, d, r, t
  <2>2. n * r \in Int /\ n * t \in Int /\ n * r <= n * t
    BY <1>3, <1>4, <1>6, Times
  <2>3. x \in Int /\ y \in Int /\ x <= y
    BY <1>3, <1>5, <2>2
  <2> HIDE DEF x, y
  <2>4. n * x <= n * y /\ n * x = x * n /\ n * y = y * n
    BY <1>3, <2>3, Times
  <2> QED
    BY <2>1, <2>4 DEF AtMost, Over
<1> QED
  BY <1>7, <1>8, <1>9

(* Running code never lowers the verification score, whatever the log and   *)
(* the thresholds: nobody is better off by not running what the AI wrote.   *)
THEOREM RunsPay == Spec => RunNeverCosts
<1> DEFINE A == Last(log').type = "run" => AtMost(Verification(log), Verification(log'))
<1>1. IInv /\ SeenInv /\ [Next]_vars => [A]_log
  <2> SUFFICES ASSUME IInv, SeenInv, Next, Last(log').type = "run"
               PROVE  AtMost(Verification(log), Verification(log'))
    BY DEF vars
  <2>1. PICK e \in Sent : e.seq = Len(log) + 1 /\ log' = Append(log, e) /\ Len(log) + 1 < Never
    BY Appended
  <2>2. Last(log') = e
    BY <2>1 DEF Last, IInv, LogInv
  <2> QED
    BY <2>1, <2>2, RunPays DEF IInv
<1> QED
  BY <1>1, Invariance, Seen, PTL DEF Spec, RunNeverCosts
===============================================================================
