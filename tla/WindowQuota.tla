------------------------------ MODULE WindowQuota ------------------------------
(***************************************************************************)
(* What a rate limit promises a key: a call is admitted exactly when not   *)
(* all of the last Limit admitted calls lie within the window that ends    *)
(* now.  Calls that are refused do not count, and a call that is a whole   *)
(* window old does not either.  A restart of the process forgets.          *)
(***************************************************************************)
EXTENDS Integers, Sequences

CONSTANTS
  Keys,    \* the client addresses
  Limit,   \* calls a window has room for
  Window   \* its length

VARIABLES
  now,       \* the clock
  admitted,  \* admitted[k]: when the calls of k were admitted, oldest first
  refused    \* refused[k]: how many calls of k were refused

vars == <<now, admitted, refused>>

Full(k) ==
  LET n == Len(admitted[k])
  IN  n >= Limit /\ \A i \in (n - Limit + 1)..n : admitted[k][i] > now - Window

Init ==
  /\ now = 0
  /\ admitted = [k \in Keys |-> <<>>]
  /\ refused = [k \in Keys |-> 0]

Tick == now' = now + 1 /\ UNCHANGED <<admitted, refused>>

Admit(k) ==
  /\ ~Full(k)
  /\ admitted' = [admitted EXCEPT ![k] = Append(@, now)]
  /\ UNCHANGED <<now, refused>>

Refuse(k) ==
  /\ Full(k)
  /\ refused' = [refused EXCEPT ![k] = @ + 1]
  /\ UNCHANGED <<now, admitted>>

Forget ==
  /\ admitted' = [k \in Keys |-> <<>>]
  /\ refused' = [k \in Keys |-> 0]
  /\ UNCHANGED now

Next == Tick \/ Forget \/ \E k \in Keys : Admit(k) \/ Refuse(k)

Spec == Init /\ [][Next]_vars
================================================================================
