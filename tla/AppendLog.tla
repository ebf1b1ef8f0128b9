------------------------------- MODULE AppendLog -------------------------------
(***************************************************************************)
(* What the event storage promises the rest of the program: one            *)
(* append-only log per session, numbered without gaps by position and      *)
(* stamped with strictly increasing times, and a feed that offers each     *)
(* entry to the event bus once, in log order, after it was appended.       *)
(* EventStore implements it over a table, a transaction and a lock.        *)
(***************************************************************************)
EXTENDS Naturals, Sequences

CONSTANT Sessions

VARIABLES
  log,     \* log[s]: the stamps of the session's entries; entry i has seq i
  cursor   \* cursor[s]: seq of the last entry that was offered to the bus

vars == <<log, cursor>>

Init ==
  /\ log = [s \in Sessions |-> <<>>]
  /\ cursor = [s \in Sessions |-> 0]

(* Every appended entry has been offered. *)
Quiet == \A s \in Sessions : cursor[s] = Len(log[s])

(* One entry is appended to one log, stamped later than the entry before it. *)
(* No log runs ahead of the feed by more than this one entry.               *)
Append1(s) ==
  /\ Quiet
  /\ DOMAIN log' = Sessions
  /\ \A r \in Sessions \ {s} : log'[r] = log[r]
  /\ LET n == Len(log[s])
     IN  /\ Len(log'[s]) = n + 1
         /\ \A i \in 1..n : log'[s][i] = log[s][i]
         /\ n > 0 => log'[s][n + 1] > log[s][n]
  /\ UNCHANGED cursor

(* The next entry of s is offered to the bus. *)
Offer(s) ==
  /\ cursor[s] < Len(log[s])
  /\ cursor' = [cursor EXCEPT ![s] = @ + 1]
  /\ UNCHANGED log

(* The process restarts: the log survives, an entry not yet offered never is. *)
Reboot ==
  /\ cursor' = [s \in Sessions |-> Len(log[s])]
  /\ UNCHANGED log

Next ==
  \/ \E s \in Sessions : Append1(s) \/ Offer(s)
  \/ Reboot

Spec == Init /\ [][Next]_vars
================================================================================
