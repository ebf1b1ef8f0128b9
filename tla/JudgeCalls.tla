------------------------------ MODULE JudgeCalls ------------------------------
(***************************************************************************)
(* The judge calls of post-hoc scoring: PostHocScorer._run_judges of        *)
(* app/scoring/posthoc.py with its budgets, and AnthropicJudgeClient.judge  *)
(* of app/llm/judge_client.py with its attempts and its cost row.           *)
(*                                                                         *)
(* A run scores one session, task by task.  For each task it reads how many *)
(* judge calls are on record, schedules what the budgets leave room for and *)
(* makes the calls, a few at a time.  Runs of several sessions, or two of   *)
(* one session, interleave.  Questions differ in nothing but their order;   *)
(* an answer of the service costs one unit of usage.                        *)
(***************************************************************************)
EXTENDS Naturals, FiniteSets, Functions

CONSTANTS
  Runs,         \* scoring runs
  Sessions,     \* session ids
  None,         \* no session
  OverChat,     \* sessions whose chat tokens are over session_max_chat_tokens_in
  Tasks,        \* number of tasks of a session
  SessionCap,   \* settings.session_max_judge_calls
  GlobalCap,    \* settings.global_max_judge_calls_per_day
  Concurrency,  \* _JUDGE_CONCURRENCY
  Attempts,     \* Len(_BACKOFF_S)
  MaxWanted     \* bound: questions the events of a task raise

ASSUME JudgeAssumption ==
  /\ IsFiniteSet(Runs)
  /\ IsFiniteSet(Sessions)
  /\ None \notin Sessions
  /\ OverChat \subseteq Sessions
  /\ Tasks \in Nat \ {0}
  /\ SessionCap \in Nat
  /\ GlobalCap \in Nat
  /\ Concurrency \in Nat \ {0}
  /\ Attempts \in Nat \ {0}
  /\ MaxWanted \in Nat

VARIABLES
  judged,    \* judged[s]: rows of llm_calls with a judge purpose
  unbilled,  \* history: usage the service answered and no row accounts for
  run,       \* run[r]: where run r is, and its locals
  call,      \* call[r][i]: the i-th scheduled call of r's task
  wrote      \* history: wrote[r], the rows r wrote

ledger == <<judged, wrote>>
vars == <<ledger, unbilled, run, call>>

(* All rows of the day; the model covers one day. *)
Today == SumFunction(judged)

Call ==
  [pc : {"queued", "asking", "recording", "done"}, tries : 0..Attempts, usage : 0..Attempts,
   status : {"ok", "rate_limited", "error"}, verdict : BOOLEAN]

Queued == [pc |-> "queued", tries |-> 0, usage |-> 0, status |-> "ok", verdict |-> FALSE]

(* due, a history: a reason to set cost_capped was met. *)
Local ==
  [pc : {"idle", "counting", "scheduling", "judging", "finished", "stopped"},
   session : Sessions \cup {None}, task : 1..Tasks, counted : Nat,
   capped : BOOLEAN, due : BOOLEAN]

Idle ==
  [pc |-> "idle", session |-> None, task |-> 1, counted |-> 0,
   capped |-> FALSE, due |-> FALSE]

(* The outcome of a call that has returned is not looked at any more here. *)
Done == [Queued EXCEPT !.pc = "done"]

NoCalls == [i \in {} |-> Queued]

Init ==
  /\ judged = [s \in Sessions |-> 0]
  /\ unbilled = 0
  /\ run = [r \in Runs |-> Idle]
  /\ call = [r \in Runs |-> NoCalls]
  /\ wrote = [r \in Runs |-> 0]

Jobs(r) == DOMAIN call[r]
Active(r) == {i \in Jobs(r) : call[r][i].pc \in {"asking", "recording"}}

-------------------------------------------------------------------------------
(* PostHocScorer *)

(* A run starts; cost_capped is set already if the session's chat is over   *)
(* its cap, which no step of a run changes.                                 *)
Begin(r) ==
  /\ run[r].pc = "idle"
  /\ \E s \in Sessions :
       run' = [run EXCEPT ![r] = [@ EXCEPT !.pc = "counting", !.session = s,
                                           !.capped = s \in OverChat,
                                           !.due = s \in OverChat]]
  /\ UNCHANGED <<ledger, unbilled, call>>

(* The rows of the session are counted. *)
CountSession(r) ==
  /\ run[r].pc = "counting"
  /\ run' = [run EXCEPT ![r].pc = "scheduling", ![r].counted = judged[run[r].session]]
  /\ UNCHANGED <<ledger, unbilled, call>>

(* Fault: the session's budget is not looked at. *)
RoomGlobalOnly(r, n) == Today + n < GlobalCap

(* schedule: one more call fits in both budgets when n are scheduled. *)
Room(r, n) == run[r].counted + n < SessionCap /\ Today + n < GlobalCap

(* Fault: cost_capped starts afresh with every task. *)
ScheduleAfresh(r) ==
  /\ run[r].pc = "scheduling"
  /\ \E wanted \in 0..MaxWanted :
       LET jobs == {n \in 1..wanted : Room(r, n - 1)}
           skips == Cardinality(jobs) < wanted
       IN  /\ call' = [call EXCEPT ![r] = [i \in jobs |-> Queued]]
           /\ run' = [run EXCEPT ![r].pc = "judging", ![r].counted = 0, ![r].capped = skips,
                                 ![r].due = @ \/ skips]
  /\ UNCHANGED <<ledger, unbilled>>

(* The rows of the day are counted, and the questions of the task are       *)
(* scheduled in order as long as there is room; a skipped one is flagged.   *)
Schedule(r) ==
  /\ run[r].pc = "scheduling"
  /\ \E wanted \in 0..MaxWanted :
       LET jobs == {n \in 1..wanted : Room(r, n - 1)}
           skips == Cardinality(jobs) < wanted
       IN  /\ call' = [call EXCEPT ![r] = [i \in jobs |-> Queued]]
           /\ run' = [run EXCEPT ![r].pc = "judging", ![r].counted = 0, ![r].capped = @ \/ skips,
                                 ![r].due = @ \/ skips]
  /\ UNCHANGED <<ledger, unbilled>>

(* Every call has returned; the rows of the task are written, and after the *)
(* last task the aggregate, with cost_capped as it is by then.              *)
FinishTask(r) ==
  /\ run[r].pc = "judging"
  /\ \A i \in Jobs(r) : call[r][i].pc = "done"
  /\ \/ /\ run[r].task < Tasks
        /\ run' = [run EXCEPT ![r].pc = "counting", ![r].task = @ + 1]
     \/ /\ run[r].task = Tasks
        /\ run' = [run EXCEPT ![r].pc = "finished", ![r].session = None]
  /\ call' = [call EXCEPT ![r] = NoCalls]
  /\ UNCHANGED <<ledger, unbilled>>

Unrecorded(r) == {i \in Jobs(r) : call[r][i].pc # "done"}
UsageOf(r) == SumFunction([i \in Unrecorded(r) |-> call[r][i].usage])

(* The 120 s limit, or the end of the process: the calls under way are      *)
(* cancelled and leave no row.                                              *)
Stop(r) ==
  /\ run[r].pc \in {"counting", "scheduling", "judging"}
  /\ unbilled' = unbilled - UsageOf(r)
  /\ run' = [run EXCEPT ![r] = [Idle EXCEPT !.pc = "stopped"]]
  /\ call' = [call EXCEPT ![r] = NoCalls]
  /\ UNCHANGED ledger

-------------------------------------------------------------------------------
(* AnthropicJudgeClient.judge *)

Set(r, i, c) == call' = [call EXCEPT ![r][i] = c]

(* The semaphore admits the next call in order; its first attempt starts.   *)
Ask(r, i) ==
  /\ call[r][i].pc = "queued"
  /\ \A j \in Jobs(r) : call[r][j].pc = "queued" => i <= j
  /\ Cardinality(Active(r)) < Concurrency
  /\ Set(r, i, [call[r][i] EXCEPT !.pc = "asking", !.tries = 1])
  /\ UNCHANGED <<ledger, unbilled, run>>

(* An attempt brought the verdict: the loop is left. *)
Answer(r, i) ==
  /\ call[r][i].pc = "asking"
  /\ unbilled' = unbilled + 1
  /\ Set(r, i, [call[r][i] EXCEPT !.pc = "recording", !.usage = @ + 1, !.verdict = TRUE])
  /\ UNCHANGED <<ledger, run>>

(* Fault: a call that never brought a verdict keeps the status ok. *)
NextAttemptKeepsOk(c) ==
  IF c.tries < Attempts THEN [c EXCEPT !.tries = @ + 1] ELSE [c EXCEPT !.pc = "recording"]

(* Fault: the attempts are counted one too far. *)
NextAttemptTooMany(c) ==
  IF c.tries <= Attempts THEN [c EXCEPT !.tries = @ + 1]
  ELSE [c EXCEPT !.pc = "recording", !.status = IF @ = "ok" THEN "error" ELSE @]

(* The next attempt, or after the last one UNCLEAR, which is never ok. *)
NextAttempt(c) ==
  IF c.tries < Attempts THEN [c EXCEPT !.tries = @ + 1]
  ELSE [c EXCEPT !.pc = "recording", !.status = IF @ = "ok" THEN "error" ELSE @]

(* Fault: the usage of an answer without verdict is not added. *)
InvalidForFree(r, i) ==
  /\ call[r][i].pc = "asking"
  /\ unbilled' = unbilled + 1
  /\ Set(r, i, NextAttempt(call[r][i]))
  /\ UNCHANGED <<ledger, run>>

(* The answer has no tool_use block, or an invalid one. *)
Invalid(r, i) ==
  /\ call[r][i].pc = "asking"
  /\ unbilled' = unbilled + 1
  /\ Set(r, i, NextAttempt([call[r][i] EXCEPT !.usage = @ + 1]))
  /\ UNCHANGED <<ledger, run>>

(* Fault: the attempts start over when the last one is limited too. *)
LimitedAgain(r, i) ==
  /\ call[r][i].pc = "asking"
  /\ Set(r, i, [call[r][i] EXCEPT !.status = "rate_limited", !.tries = (@ % Attempts) + 1])
  /\ UNCHANGED <<ledger, unbilled, run>>

(* Rate limit or overload. *)
Limited(r, i) ==
  /\ call[r][i].pc = "asking"
  /\ Set(r, i, NextAttempt([call[r][i] EXCEPT !.status = "rate_limited"]))
  /\ UNCHANGED <<ledger, unbilled, run>>

(* Any other failure ends the attempts. *)
Fails(r, i) ==
  /\ call[r][i].pc = "asking"
  /\ Set(r, i, [call[r][i] EXCEPT !.pc = "recording", !.status = "error"])
  /\ UNCHANGED <<ledger, unbilled, run>>

(* The one cost row of the call is written, and the semaphore released.     *)
Record(r, i) ==
  /\ call[r][i].pc = "recording"
  /\ judged' = [judged EXCEPT ![run[r].session] = @ + 1]
  /\ unbilled' = unbilled - call[r][i].usage
  /\ wrote' = [wrote EXCEPT ![r] = @ + 1]
  /\ Set(r, i, Done)
  /\ UNCHANGED run

(* The row cannot be written; that is logged and the verdict returned.      *)
SinkFails(r, i) ==
  /\ call[r][i].pc = "recording"
  /\ unbilled' = unbilled - call[r][i].usage
  /\ Set(r, i, Done)
  /\ UNCHANGED <<ledger, run>>

-------------------------------------------------------------------------------
CallStep(r, i) ==
  \/ Ask(r, i) \/ Answer(r, i) \/ Invalid(r, i) \/ Limited(r, i) \/ Fails(r, i)
  \/ Record(r, i) \/ SinkFails(r, i)

RunStep(r) ==
  \/ CountSession(r) \/ Schedule(r) \/ FinishTask(r)
  \/ \E i \in Jobs(r) : CallStep(r, i)

Next == \E r \in Runs : Begin(r) \/ RunStep(r) \/ Stop(r)

(* The event loop runs what can run, and an attempt returns or times out:   *)
(* the client has a timeout for each.                                       *)
Fairness == \A r \in Runs : WF_vars(RunStep(r))

Spec == Init /\ [][Next]_vars /\ Fairness

-------------------------------------------------------------------------------
TypeOK ==
  /\ judged \in [Sessions -> Nat]
  /\ unbilled \in Nat
  /\ run \in [Runs -> Local]
  /\ \A r \in Runs : \A i \in Jobs(r) : call[r][i] \in Call
  /\ wrote \in [Runs -> Nat]

(* No run writes more rows than either budget allows, over all its tasks:   *)
(* the counts it schedules from include every call it made before.          *)
RunWithinCaps ==
  \A r \in Runs : wrote[r] <= SessionCap /\ wrote[r] <= GlobalCap

(* The rows of the day pass the global budget by no more than the questions *)
(* of one task of every other run: a run counts what is recorded, and not   *)
(* what the others have scheduled.                                          *)
DayOvershoot ==
  \A r \in Runs : Today <= GlobalCap + MaxWanted * Cardinality(Runs \ {r})

(* What the budgets come to when runs interleave. *)
WithinBudgets == RunWithinCaps /\ DayOvershoot

(* What the service answered is billed, except for calls that were          *)
(* cancelled or whose row failed: the usage of repeated attempts adds up in *)
(* the one row of the call.                                                 *)
UsageAccounted == unbilled = SumFunction([r \in Runs |-> UsageOf(r)])

(* The aggregate of a run carries cost_capped exactly if the chat was over  *)
(* its cap or some question of some task was skipped for the budgets.       *)
CappedIsTold == \A r \in Runs : run[r].pc = "finished" => (run[r].capped <=> run[r].due)

(* A row says ok only of a call that brought a verdict, and error only of   *)
(* one that did not, in whatever order attempts failed.                     *)
VerdictIsTold ==
  \A r \in Runs : \A i \in Jobs(r) :
    call[r][i].pc = "recording" =>
      /\ call[r][i].status = "ok" => call[r][i].verdict
      /\ call[r][i].status = "error" => ~call[r][i].verdict

(* A scoring run reports what happened to it, although the flag is handed   *)
(* through all its tasks and a call keeps one status through its attempts.  *)
ReportedAsHappened == CappedIsTold /\ VerdictIsTold

(* A run that starts ends, also without the 120 s limit: attempts, retries  *)
(* and the semaphore never leave a call behind.                             *)
RunSettles ==
  \A r \in Runs : run[r].pc = "counting" ~> run[r].pc \in {"finished", "stopped"}

(* The judge calls of a day never pass the global ceiling.  (Not so: two    *)
(* runs that count before either has recorded share the same room.)         *)
GlobalCeiling == Today <= GlobalCap
===============================================================================
