---------------------------- MODULE MCSessionBudget ----------------------------
(* SessionBudget with two sockets, two executions, two prompt tokens and a  *)
(* history of two entries.                                                  *)
EXTENDS SessionBudget
================================================================================
