----------------------------- MODULE MCEventStore -----------------------------
(* EventStore on a small instance: two sessions, two event writers, one row *)
(* writer, a clock with two readings and one retry.                         *)
EXTENDS EventStore
================================================================================
