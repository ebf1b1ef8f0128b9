------------------------------ MODULE Heuristics ------------------------------
(***************************************************************************)
(* The scores of one task as functions of its events: the heuristics of    *)
(* app/scoring/heuristics.py, what app/scoring/posthoc.py makes of a log   *)
(* (the mean of the prompts and the questions to the judge), and the blend *)
(* of the two in app/scoring/aggregation.py.                               *)
(*                                                                         *)
(* A log is a sequence of events in seq order; seq counts the events of    *)
(* the task.  A prompt is reduced to what the formulas look at: its tokens *)
(* of three letters and more, the number of its words, and which error     *)
(* texts it and its attached output quote.  A fraction is a numerator over *)
(* a denominator.                                                          *)
(***************************************************************************)
EXTENDS Integers, Sequences, FiniteSets, SequencesExt, FiniteSetsExt

CONSTANTS
  Baseline,      \* task.baseline_prompts
  RecentWindow,  \* _RECENT_ERROR_WINDOW_MS
  RunSoon,       \* 30_000 in verification_heuristic
  RunLate,       \* 120_000 in verification_heuristic
  PriorEvents    \* 5 in _recent_error_before

ASSUME HeuristicsAssumption ==
  /\ Baseline \in Nat
  /\ RecentWindow \in Nat
  /\ RunSoon \in Nat
  /\ RunLate \in Nat
  /\ PriorEvents \in Nat

Over(n, d) == [num |-> n, den |-> d]
AtMost(a, b) == a.num * b.den <= b.num * a.den
Clamp(x, lo, hi) == Max({lo, Min({hi, x})})

(* No event has this seq: where the code has no event to stop at, it stops *)
(* there.                                                                  *)
Never == 1000000000

EventsOf(s, type) == {e \in ToSet(s) : e.type = type}

(* Fault: the log is searched from its end. *)
LastAfter(s, q, types) ==
  LET later == {e.seq : e \in {x \in ToSet(s) : x.seq > q /\ x.type \in types}}
  IN  IF later = {} THEN Never ELSE Max(later)

(* The seq of first_event_after(s, q, types), or Never. *)
FirstAfter(s, q, types) ==
  Min({e.seq : e \in {x \in ToSet(s) : x.seq > q /\ x.type \in types}} \cup {Never})

Failed(e) == e.type = "run" /\ (e.exit # 0 \/ e.stderr # "")
ErrorOf(e) == IF e.stderr # "" THEN e.stderr ELSE "execution error"

-------------------------------------------------------------------------------
(* Prompt quality *)

(* jaccard_words(a, b) > pct / 100; two empty sets of tokens are not similar. *)
Similar(a, b, pct) == 100 * Cardinality(a \cap b) > pct * Cardinality(a \cup b)

LengthPoints(words) ==
  CASE words < 5              -> -25
    [] words \in 5..14        -> -10
    [] words \in 15..300      -> 0
    [] words \in 301..600     -> -5
    [] OTHER                  -> -15

ErrorPoints(e, errors) ==
  CASE errors = {}                                           -> 0
    [] errors \cap e.quotes # {}                             -> 20
    [] errors \cap e.quotes = {} /\ errors \cap e.output # {} -> 15
    [] OTHER                                                 -> -10

(* Fault: the sum is not clamped. *)
PromptPointsRaw(e, errors, prev) ==
  50 + LengthPoints(e.words) + (IF e.code THEN 10 ELSE 0) + (IF e.block THEN 5 ELSE 0)
     + ErrorPoints(e, errors) + (IF e.asks THEN 5 ELSE 0)
     - (IF Similar(e.tokens, prev, 85) THEN 20 ELSE 0)

(* prompt_quality_heuristic: errors holds the recent error, if there is     *)
(* one, and prev the tokens of the prompt before, {} for the first.         *)
PromptPoints(e, errors, prev) ==
  Clamp(50 + LengthPoints(e.words) + (IF e.code THEN 10 ELSE 0) + (IF e.block THEN 5 ELSE 0)
           + ErrorPoints(e, errors) + (IF e.asks THEN 5 ELSE 0)
           - (IF Similar(e.tokens, prev, 85) THEN 20 ELSE 0), 0, 100)

(* The last event of S before seq q, as a set. *)
LastBefore(S, q) == {e \in S : e.seq < q /\ \A x \in S : x.seq < q => x.seq <= e.seq}

(* What prompt p is held against: the last failed run, if it is recent, and *)
(* the prompt before.                                                       *)
RecentError(s, p) ==
  {ErrorOf(e) : e \in {x \in LastBefore({y \in ToSet(s) : Failed(y)}, p.seq) :
                         p.ts - x.ts <= RecentWindow}}

PrevTokens(s, p) == UNION {e.tokens : e \in LastBefore(EventsOf(s, "prompt"), p.seq)}

(* The mean of a function of numbers. *)
Mean(f) == Over(MapThenSumSet(LAMBDA q : f[q], DOMAIN f), Cardinality(DOMAIN f))

(* _prompt_quality_mean: the points of every prompt of a log that has every *)
(* event of the task, so that s[q] is the one of seq q; and their mean.     *)
PromptScores(s) ==
  [q \in {e.seq : e \in EventsOf(s, "prompt")} |->
     PromptPoints(s[q], RecentError(s, s[q]), PrevTokens(s, s[q]))]

PromptMean(s) == IF EventsOf(s, "prompt") = {} THEN Over(50, 1) ELSE Mean(PromptScores(s))

-------------------------------------------------------------------------------
(* Verification *)

CodeResponses(s) == {r \in EventsOf(s, "response") : r.code}

(* Where the reach of a response ends. *)
Boundary(s, r) == FirstAfter(s, r.seq, {"prompt", "submit"})

(* Fault: a run that fails takes the credit back. *)
CreditedPassing(s) ==
  {r \in CodeResponses(s) :
     LET within == {e \in EventsOf(s, "run") : r.seq < e.seq /\ e.seq < Boundary(s, r)}
     IN  within # {} /\ \A e \in within : ~Failed(e)}

(* The responses that runs_after counts. *)
Credited(s) ==
  {r \in CodeResponses(s) : \E e \in EventsOf(s, "run") : r.seq < e.seq /\ e.seq < Boundary(s, r)}

(* The next run after a paste, as a set, and what it makes the paste worth. *)
NextRun(s, p) == {e \in EventsOf(s, "run") : e.seq = FirstAfter(s, p.seq, {"run"})}

LatencyPoints(dt) == CASE dt < RunSoon -> 5 [] dt >= RunSoon /\ dt < RunLate -> 3 [] OTHER -> 0

PastePoints(s, p) ==
  IF NextRun(s, p) = {} THEN -5
  ELSE LatencyPoints((CHOOSE e \in NextRun(s, p) : TRUE).ts - p.ts)

(* The pastes from the chat that are worth n points. *)
PastesWorth(s, n) == {p \in EventsOf(s, "paste") : p.chat /\ PastePoints(s, p) = n}

PasteRunScore(s) ==
  5 * Cardinality(PastesWorth(s, 5)) + 3 * Cardinality(PastesWorth(s, 3))
    - 5 * Cardinality(PastesWorth(s, -5))

Verification(s) ==
  LET n == Cardinality(CodeResponses(s))
      rest == Clamp(20 + PasteRunScore(s), 0, 40) + (IF \E e \in EventsOf(s, "run") : e.test THEN 20 ELSE 0)
  IN  CASE EventsOf(s, "response") = {} -> Over(60, 1)
        [] EventsOf(s, "response") # {} /\ n = 0 -> Over(40 + rest, 1)
        [] OTHER -> Over(40 * Cardinality(Credited(s)) + n * rest, n)

-------------------------------------------------------------------------------
(* Iteration and coverage *)

(* The prompts that repeat the one before, and the pairs of neighbours. *)
Redundant(s) == {p \in EventsOf(s, "prompt") : Similar(p.tokens, PrevTokens(s, p), 70)}
Pairs(n) == Max({1, n - 1})

CountPoints(n) ==
  CASE n <= Baseline                           -> 30
    [] n > Baseline /\ n <= 2 * Baseline       -> 20
    [] n > 2 * Baseline /\ n <= 3 * Baseline   -> 10
    [] OTHER                                   -> 0

Iteration(s) ==
  LET n == Cardinality(EventsOf(s, "prompt"))
      rest == CountPoints(n) + (IF EventsOf(s, "submit") # {} THEN 30 ELSE 0)
  IN  IF n = 0 THEN Over(70, 1)
      ELSE Over(40 * (Pairs(n) - Cardinality(Redundant(s))) + Pairs(n) * rest, Pairs(n))

(* heuristic_coverage in sixths *)
Coverage(s) ==
  Min({3, Cardinality(EventsOf(s, "prompt"))}) + (IF EventsOf(s, "run") # {} THEN 3 ELSE 0)

-------------------------------------------------------------------------------
(* The questions to the judge *)

(* _recent_error_before: a failed run among the last events before p. *)
ErrorAmongPrior(s, p) ==
  \E e \in ToSet(s) : /\ Failed(e)
                      /\ e.seq < p.seq
                      /\ Cardinality({x \in ToSet(s) : e.seq <= x.seq /\ x.seq < p.seq}) <= PriorEvents

About(qid, S) == {<<qid, e.seq>> : e \in S}

(* What _run_judges schedules for a task when the budgets leave room. *)
Questions(s) ==
  LET prompts == EventsOf(s, "prompt")
      replied == {r \in EventsOf(s, "response") :
                    \E p \in prompts : p.seq = FirstAfter(s, r.seq, {"prompt"})
                                       /\ p.ts - r.ts <= RecentWindow}
  IN  About("PQ1", prompts) \cup About("PQ4", prompts) \cup About("PQ3", prompts)
        \cup About("PQ2", {p \in prompts : ErrorAmongPrior(s, p)})
        \cup About("VB1", CodeResponses(s))
        \cup About("VB3", {r \in CodeResponses(s) : \E e \in EventsOf(s, "run") :
                             r.seq < e.seq /\ e.seq < Boundary(s, r)})
        \cup About("VB2", {e \in EventsOf(s, "run") : FirstAfter(s, e.seq, {"prompt"}) # Never})
        \cup About("IE1", {p \in prompts : \E x \in prompts : x.seq < p.seq})
        \cup About("IE2", replied)
-------------------------------------------------------------------------------
(* Fault: an unclear answer counts as a NO. *)
BlendUnclear(h, yes, valid, asked, s) ==
  LET confidence == Over(30 * asked + 40 * valid + 5 * asked * Coverage(s), 100 * asked)
  IN  IF valid = 0 THEN [score |-> h, confidence |-> Over(Coverage(s), 12)]
      ELSE [score      |-> Over(4 * h.num * asked + 600 * yes * h.den, 10 * h.den * asked),
            confidence |-> IF AtMost(confidence, Over(95, 100)) THEN confidence ELSE Over(95, 100)]

(* aggregate: of the answers asked for, valid were not UNCLEAR and yes were *)
(* YES; h is the heuristic score.                                           *)
Blend(h, yes, valid, asked, s) ==
  LET confidence == Over(30 * asked + 40 * valid + 5 * asked * Coverage(s), 100 * asked)
  IN  IF valid = 0 THEN [score |-> h, confidence |-> Over(Coverage(s), 12)]
      ELSE [score      |-> Over(4 * h.num * valid + 600 * yes * h.den, 10 * h.den * valid),
            confidence |-> IF AtMost(confidence, Over(95, 100)) THEN confidence ELSE Over(95, 100)]
================================================================================
