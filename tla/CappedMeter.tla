----------------------------- MODULE CappedMeter -----------------------------
(***************************************************************************)
(* What the budget checks of the program amount to: a use is admitted when *)
(* the recorded total is below the cap, and recorded when it is over.      *)
(* Nothing is reserved in between, so the total may pass the cap, by no    *)
(* more than what the users who can be at it at the same time may charge.  *)
(***************************************************************************)
EXTENDS Naturals, FiniteSets

CONSTANTS
  Users,     \* those who can have a use under way, one each
  Cap,       \* no use is admitted once the total has reached it
  MaxCharge  \* the most a single use is recorded with

VARIABLES
  total,  \* recorded so far
  busy    \* the users with an admitted use that is not recorded yet

vars == <<total, busy>>

Init == total = 0 /\ busy = {}

Admit(u) ==
  /\ u \notin busy
  /\ total < Cap
  /\ busy' = busy \cup {u}
  /\ UNCHANGED total

Charge(u) ==
  /\ u \in busy
  /\ \E n \in 0..MaxCharge : total' = total + n
  /\ busy' = busy \ {u}

(* Uses that end without a record: a user fails, or all of them do. *)
Forget ==
  /\ busy' \in SUBSET busy
  /\ UNCHANGED total

Next ==
  \/ \E u \in Users : Admit(u) \/ Charge(u)
  \/ Forget

Spec == Init /\ [][Next]_vars
==============================================================================
