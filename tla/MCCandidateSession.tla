-------------------------- MODULE MCCandidateSession --------------------------
(* CandidateSession with two sockets and two tasks. *)
EXTENDS CandidateSession

CONSTANTS t1, t2

MCTaskSequence == <<t1, t2>>
================================================================================
