----------------------------- MODULE SlidingWindow -----------------------------
(***************************************************************************)
(* A limiter of the candidate socket: SlidingWindowLimiter of              *)
(* app/ratelimit.py, with the calls of allow as its actions.  allow has no *)
(* suspension point.                                                       *)
(***************************************************************************)
EXTENDS Integers, Sequences

CONSTANTS
  Keys,    \* the client addresses
  Limit,   \* settings.ratelimit_chat_per_minute, or _runs_per_minute
  Window   \* window_s

ASSUME WindowAssumption == Limit \in Nat \ {0} /\ Window \in Nat \ {0}

VARIABLES
  now,       \* time.monotonic()
  hits,      \* hits[k]: the deque of key k
  admitted,  \* history: admitted[k], when the calls of k were admitted
  refused    \* history: refused[k], how many calls of k were refused

limiterVars == <<hits, admitted, refused>>

LimiterInit ==
  /\ hits = [k \in Keys |-> <<>>]
  /\ admitted = [k \in Keys |-> <<>>]
  /\ refused = [k \in Keys |-> 0]

(* Fault: a call that is a whole window old still counts. *)
EvictedKeepsEdge(dq, n) ==
  /\ \A i \in 1..n : dq[i] < now - Window
  /\ n < Len(dq) => dq[n + 1] >= now - Window

(* The loop of allow takes the first n hits of dq out: those up to the      *)
(* cutoff.                                                                  *)
Evicted(dq, n) ==
  /\ \A i \in 1..n : dq[i] <= now - Window
  /\ n < Len(dq) => dq[n + 1] > now - Window

Rest(dq, n) == SubSeq(dq, n + 1, Len(dq))

Allow(k) ==
  \E n \in 0..Len(hits[k]) :
    /\ Evicted(hits[k], n)
    /\ Len(Rest(hits[k], n)) < Limit
    /\ hits' = [hits EXCEPT ![k] = Append(Rest(hits[k], n), now)]
    /\ admitted' = [admitted EXCEPT ![k] = Append(@, now)]
    /\ UNCHANGED refused

(* Fault: a refused call is recorded as well. *)
DenyRecords(k) ==
  \E n \in 0..Len(hits[k]) :
    /\ Evicted(hits[k], n)
    /\ Len(Rest(hits[k], n)) >= Limit
    /\ hits' = [hits EXCEPT ![k] = Append(Rest(hits[k], n), now)]
    /\ refused' = [refused EXCEPT ![k] = @ + 1]
    /\ UNCHANGED admitted

Deny(k) ==
  \E n \in 0..Len(hits[k]) :
    /\ Evicted(hits[k], n)
    /\ Len(Rest(hits[k], n)) >= Limit
    /\ hits' = [hits EXCEPT ![k] = Rest(hits[k], n)]
    /\ refused' = [refused EXCEPT ![k] = @ + 1]
    /\ UNCHANGED admitted

(* The deques live in the process. *)
Forget ==
  /\ hits' = [k \in Keys |-> <<>>]
  /\ admitted' = [k \in Keys |-> <<>>]
  /\ refused' = [k \in Keys |-> 0]

Quota == INSTANCE WindowQuota

(* The limiter keeps only the hits of the last window and is as good as one *)
(* that remembers every call.                                               *)
ImplementsQuota == Quota!Spec
================================================================================
