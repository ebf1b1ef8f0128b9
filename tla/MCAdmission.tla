------------------------------ MODULE MCAdmission ------------------------------
(* Admission with two requests at a time, a cap of one session in days of   *)
(* two ticks, and one address with room for one message in two ticks.  Two  *)
(* messages between restarts, of which ends of sessions are some: two calls *)
(* of the limiter, a message before or after an end, or a second end.       *)
EXTENDS Admission, TLC

Interchangeable == Permutations(Workers)
================================================================================
