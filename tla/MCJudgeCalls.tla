----------------------------- MODULE MCJudgeCalls -----------------------------
(* JudgeCalls with two runs of one or two sessions of two tasks, a session  *)
(* budget of two calls, a day's budget of three, two attempts per call and  *)
(* up to MaxWanted questions per task.                                      *)
EXTENDS JudgeCalls
===============================================================================
