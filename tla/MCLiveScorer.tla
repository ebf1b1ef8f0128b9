----------------------------- MODULE MCLiveScorer -----------------------------
(* LiveScorer with two prompts that differ in one token and in what they    *)
(* attach, a run that passes a test and one that fails, and steps of time   *)
(* on either side of every threshold.                                       *)
EXTENDS LiveScorer

MCWritten ==
  {[type |-> "prompt", tokens |-> {"a", "b", "c"}, words |-> 3, code |-> FALSE,
    block |-> FALSE, asks |-> FALSE, quotes |-> {}, output |-> {}],
   [type |-> "prompt", tokens |-> {"a", "b", "c", "d"}, words |-> 20,
    code |-> TRUE, block |-> TRUE, asks |-> TRUE, quotes |-> {}, output |-> {"oops"}],
   [type |-> "response", code |-> TRUE],
   [type |-> "paste", chat |-> TRUE],
   [type |-> "snapshot"],
   [type |-> "submit"]}

MCRunOutcomes ==
  {<<[kind |-> "answer", status |-> "accepted", stderr |-> "", compile |-> "", message |-> "",
      code |-> NoCode, signal |-> 0], TRUE>>,
   <<[kind |-> "answer", status |-> "runtime error", stderr |-> "oops", compile |-> "",
      message |-> "", code |-> 1, signal |-> 0], FALSE>>}

MCGaps ==
  [t \in Types |-> IF t \in {"prompt", "run"} THEN {1, 3} ELSE {1}]
================================================================================
