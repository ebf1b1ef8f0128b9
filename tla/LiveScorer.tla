------------------------------ MODULE LiveScorer ------------------------------
(***************************************************************************)
(* The live scores of one task: LiveScorer of app/scoring/live.py, beside  *)
(* what post-hoc scoring makes of the same log (Heuristics).               *)
(*                                                                         *)
(* The log holds the events of the task the bus is done with: it has       *)
(* called the scorer with them, in seq order and one at a time, or has     *)
(* dropped a snapshot or a paste (EventBus: HandedInOrder, KeptIsHanded).  *)
(* How far the scorer is behind the writers makes no difference to what it *)
(* computes: it reads nothing but the events it was called with.  One      *)
(* action is one call of handle_event: only the upserts suspend it, and    *)
(* nobody else touches its state.                                          *)
(***************************************************************************)
EXTENDS Heuristics, Sandbox

CONSTANTS
  Written,     \* what candidates send, but for runs: events without seq and ts
  RunOutcomes, \* what becomes of a submission to the sandbox, with: does the code test
  Gaps,        \* Gaps[t]: how much ts may grow to an event of type t
  MaxEvents,   \* bound: length of the log
  MaxMissed    \* bound: live writes that are skipped or fail

(* A task.presented or chat.error does what a snapshot does, that is seen. *)
Types == {"prompt", "response", "paste", "snapshot", "submit", "run"}

ASSUME LiveAssumption ==
  /\ \A w \in Written :
       /\ "type" \in DOMAIN w /\ w.type \in Types \ {"run"}
       /\ w.type = "prompt" => "tokens" \in DOMAIN w /\ IsFiniteSet(w.tokens)
  /\ RunOutcomes \subseteq Outcomes \X BOOLEAN
  /\ Gaps \in [Types -> SUBSET (Nat \ {0})]
  /\ MaxEvents \in Nat
  /\ MaxMissed \in Nat

ASSUME BoundAssumption == MaxEvents < Never

VARIABLES
  known,    \* the TaskStore of this process has the task
  log,      \* the events of the task
  seen,     \* st.events: those the scorer was called with
  scores,   \* st.prompt_scores, by the seq of the prompt
  prev,     \* st.prev_prompt_text: the tokens of it
  error,    \* st.recent_error, {} for None
  errorAt,  \* st.recent_error_ts
  rows,     \* the rows of phase 'live'
  wrote,    \* the dimensions last_write_ms has an entry for
  stale,    \* history: the dimensions whose last due write did not go through
  missed    \* history: live writes skipped or failed so far

state == <<seen, scores, prev, error, errorAt>>
written == <<rows, wrote, stale, missed>>
vars == <<known, log, state, written>>

Mixed == {"verification", "iteration"}
Dims == {"prompt_quality"} \cup Mixed
(* Nothing is written live of the iteration of a task that is not known.    *)
Scored == IF known THEN Mixed ELSE {"verification"}

NoRow == [score |-> Over(0, 1), confidence |-> Over(0, 1)]

Init ==
  /\ known \in BOOLEAN
  /\ log = <<>>
  /\ seen = <<>>
  /\ scores = [q \in {} |-> 0]
  /\ prev = {}
  /\ error = {}
  /\ errorAt = 0
  /\ rows = [d \in Dims |-> NoRow]
  /\ wrote = {}
  /\ stale = {}
  /\ missed = 0

Run(o) ==
  [type |-> "run", test |-> o[2], exit |-> RunPython(o[1]).exit, stderr |-> RunPython(o[1]).stderr]

Content == Written \cup {Run(o) : o \in RunOutcomes}

Stamped(w, q, t) ==
  [f \in DOMAIN w \cup {"seq", "ts"} |-> CASE f = "seq" -> q [] f = "ts" -> t [] OTHER -> w[f]]

(* The next events of the log: seq is dense and ts grows (EventStore).      *)
Now == IF log = <<>> THEN 0 ELSE Last(log).ts
Arrivals ==
  IF Len(log) >= MaxEvents THEN {}
  ELSE UNION {{Stamped(w, Len(log) + 1, Now + g) : g \in Gaps[w.type]} : w \in Content}

-------------------------------------------------------------------------------
(* A live row is the heuristic alone: no answer of the judge is in it. *)
Live(h, s) == Blend(h, 0, 0, 0, s)

(* Fault: the time of the error is not looked at. *)
RecentAlways(e) == error

(* _score_prompt: the error the prompt is held against. *)
Recent(e) == IF e.ts - errorAt <= RecentWindow THEN error ELSE {}

Score(e) == [q \in DOMAIN scores \cup {e.seq} |->
               IF q = e.seq THEN PromptPoints(e, Recent(e), prev) ELSE scores[q]]

(* A prompt is scored and the row of prompt_quality written at once; the    *)
(* write may fail, when the score has already been taken in.                *)
HandlePrompt(e) ==
  /\ e.type = "prompt"
  /\ log' = Append(log, e)
  /\ seen' = Append(seen, e)
  /\ scores' = Score(e)
  /\ prev' = e.tokens
  /\ wrote' = wrote \cup {"prompt_quality"}
  /\ \/ /\ rows' = [rows EXCEPT !["prompt_quality"] = Live(Mean(Score(e)), Append(seen, e))]
        /\ stale' = stale \ {"prompt_quality"}
        /\ UNCHANGED missed
     \/ /\ stale' = stale \cup {"prompt_quality"}
        /\ missed' = missed + 1
        /\ UNCHANGED rows
  /\ UNCHANGED <<error, errorAt>>

(* Post-hoc scoring takes 70 for the iteration of a task it does not know.  *)
Heuristic(d, s) ==
  CASE d = "verification" -> Verification(s)
    [] d = "iteration" -> IF known THEN Iteration(s) ELSE Over(70, 1)

(* Fault: a submission is debounced like any other event. *)
DueUnforced(e) == Scored \ wrote

(* The writes no debounce may skip: all on submission, and the first of each. *)
Due(e) == IF e.type = "submit" THEN Scored ELSE Scored \ wrote

(* A failed run is remembered; verification and then iteration are written, *)
(* unless the debounce skips the write.  A write that raises ends the call. *)
HandleTrigger(e) ==
  /\ e.type \in {"response", "run", "paste", "submit"}
  /\ e.type = "response" =>   \* it answers a prompt of the task
       Cardinality(EventsOf(log, "response")) < Cardinality(EventsOf(log, "prompt"))
  /\ log' = Append(log, e)
  /\ seen' = Append(seen, e)
  /\ \/ /\ Failed(e)
        /\ error' = {ErrorOf(e)}
        /\ errorAt' = e.ts
     \/ /\ ~Failed(e)
        /\ UNCHANGED <<error, errorAt>>
  /\ LET s == Append(seen, e)
         new == [d \in Mixed |-> Live(Heuristic(d, s), s)]
     IN  \E tried \in SUBSET Scored, failed \in SUBSET Scored :
           LET cut == IF "verification" \in failed THEN {"iteration"} ELSE {}
           IN  /\ failed \subseteq tried
               /\ tried \cap cut = {}
               /\ Due(e) \subseteq tried \cup cut
               /\ rows' = [d \in Dims |-> IF d \in tried \ failed THEN new[d] ELSE rows[d]]
               /\ wrote' = wrote \cup tried
               /\ stale' = (stale \ tried) \cup failed \cup (Due(e) \cap cut)
               /\ missed' = missed + Cardinality(Scored \ (tried \ failed))
  /\ UNCHANGED <<scores, prev>>

(* A snapshot is taken in and moves no score. *)
HandleSnapshot(e) ==
  /\ e.type = "snapshot"
  /\ log' = Append(log, e)
  /\ seen' = Append(seen, e)
  /\ UNCHANGED <<scores, prev, error, errorAt, written>>

(* The bus drops a snapshot or a paste: the scorer never sees it. *)
Lose(e) ==
  /\ e.type \in {"snapshot", "paste"}
  /\ log' = Append(log, e)
  /\ UNCHANGED <<state, written>>

Next ==
  \E e \in Arrivals :
    /\ HandlePrompt(e) \/ HandleTrigger(e) \/ HandleSnapshot(e) \/ Lose(e)
    /\ missed' <= MaxMissed
    /\ UNCHANGED known

Spec == Init /\ [][Next]_vars

-------------------------------------------------------------------------------
TypeOK ==
  /\ known \in BOOLEAN
  /\ Len(log) <= MaxEvents
  /\ ToSet(seen) \subseteq ToSet(log)
  /\ DOMAIN scores = {e.seq : e \in EventsOf(log, "prompt")}
  /\ \A q \in DOMAIN scores : scores[q] \in 0..100
  /\ DOMAIN rows = Dims
  /\ wrote \subseteq Dims /\ stale \subseteq Dims

(* Whatever the bus dropped, the live prompt_quality score is the one that  *)
(* post-hoc scoring computes from the log, which has every event: each      *)
(* prompt was held against the same error and the same earlier prompt.      *)
LivePromptIsFinal ==
  /\ scores = PromptScores(log)
  /\ DOMAIN scores # {} /\ "prompt_quality" \notin stale =>
       rows["prompt_quality"].score = PromptMean(log)

ChatPasteLost == \E e \in EventsOf(log, "paste") : e.chat /\ e \notin ToSet(seen)

(* A submission settles the debounced rows: when it was handled, and the    *)
(* writes went through, they are what post-hoc scoring writes when the      *)
(* judge answers nothing.  Only a dropped paste may part verification.      *)
SubmitSettlesLive ==
  log # <<>> /\ Last(log).type = "submit" =>
    \A d \in Scored \ stale :
      (d = "verification" /\ ChatPasteLost) \/ rows[d] = Blend(Heuristic(d, log), 0, 0, 0, log)

(* Running code never lowers the verification score, however late the run   *)
(* comes after a paste and whatever was asked in between.                   *)
RunNeverCosts ==
  [][Last(log').type = "run" => AtMost(Verification(log), Verification(log'))]_log

(* A later event withdraws nothing: a response that was credited stays so,  *)
(* and every question to the judge still stands, so that of two scoring     *)
(* runs the one with the older log asks no question the other does not.     *)
QuestionsStand ==
  [][Credited(log) \subseteq Credited(log') /\ Questions(log) \subseteq Questions(log')]_log

(* However the judge answers, the final score lies between the heuristic    *)
(* and the judge's share of YES, answers that are UNCLEAR lower nothing but *)
(* the confidence, and that is at most 0.95.                                *)
BlendIsBetween ==
  \A d \in Mixed :
    LET h == Heuristic(d, log)
    IN  \A asked \in 1..2 : \A valid \in 1..asked : \A yes \in 0..valid :
          LET share == Over(100 * yes, valid)
              blend == Blend(h, yes, valid, asked, log)
              clear == Blend(h, yes, valid, valid, log)
          IN  /\ \/ AtMost(h, blend.score) /\ AtMost(blend.score, share)
                 \/ AtMost(share, blend.score) /\ AtMost(blend.score, h)
              /\ blend.score = clear.score
              /\ AtMost(blend.confidence, clear.confidence)
              /\ AtMost(blend.confidence, Over(95, 100))
================================================================================
