---------------------------- MODULE SessionBudget ----------------------------
(***************************************************************************)
(* The costly messages of a session, code.run and chat.send: the handlers  *)
(* _on_run and _on_chat of app/ws/candidate.py, their caps, the rows of    *)
(* llm_calls they write and the chat history they keep.                    *)
(*                                                                         *)
(* Several sockets may be open on the session; each handles its messages   *)
(* one at a time.  A cap is read from the database, which a client cannot  *)
(* reset by reconnecting; the chat history is the socket's own.  A message *)
(* that a cap refuses changes nothing.  A step is what a handler does up   *)
(* to its next database access or call of a service.                       *)
(***************************************************************************)
EXTENDS Naturals, Sequences, FiniteSets

CONSTANTS
  Sockets,     \* candidate WebSocket connections
  RunCap,      \* settings.session_max_code_executions
  TokenCap,    \* settings.session_max_chat_tokens_in
  MaxPrompt,   \* the most prompt tokens one chat call is recorded with
  MaxHistory,  \* settings.openai_chat_max_history_messages
  MaxPrompts   \* bound: CHAT_PROMPT_SENT events

ASSUME BudgetAssumption ==
  /\ IsFiniteSet(Sockets)
  /\ RunCap \in Nat \ {0}
  /\ TokenCap \in Nat \ {0}
  /\ MaxPrompt \in Nat
  /\ MaxHistory \in Nat \ {0}
  /\ MaxPrompts \in Nat

VARIABLES
  executed,   \* CODE_EXECUTED events of the session
  tokens,     \* SUM(prompt_tokens) of its rows in llm_calls with purpose 'chat'
  prompts,    \* CHAT_PROMPT_SENT events
  responses,  \* CHAT_RESPONSE_RECEIVED events
  errors,     \* CHAT_ERROR events
  calls,      \* rows in llm_calls with purpose 'chat', by status
  sock        \* sock[k]: where the handler of k is, and its locals

turns == <<prompts, responses, errors>>
vars == <<executed, tokens, turns, calls, sock>>

(* A chat is checked, prompted and streamed; then it is billed and answered, *)
(* or it fails, is billed as an error and its turn is dropped.              *)
Chatting == {"prompting", "streaming", "billing", "answering", "failing", "charging", "dropping"}

Roles == {"user", "assistant"}

(* history leaves the system message out. *)
Local ==
  [pc : {"ready", "running"} \cup Chatting, history : Seq(Roles), used : 0..MaxPrompt]

Fresh == [pc |-> "ready", history |-> <<>>, used |-> 0]

Init ==
  /\ executed = 0
  /\ tokens = 0
  /\ prompts = 0
  /\ responses = 0
  /\ errors = 0
  /\ calls = [ok |-> 0, error |-> 0]
  /\ sock = [k \in Sockets |-> Fresh]

At(k, pc) == sock[k].pc = pc
Goto(k, pc) == sock' = [sock EXCEPT ![k].pc = pc]

-------------------------------------------------------------------------------
(* code.run *)

(* Fault: an execution is admitted at the cap as well. *)
CheckRunAtCap(k) ==
  /\ At(k, "ready")
  /\ executed <= RunCap
  /\ Goto(k, "running")
  /\ UNCHANGED <<executed, tokens, turns, calls>>

(* The CODE_EXECUTED events of the session are counted and are below the cap. *)
CheckRun(k) ==
  /\ At(k, "ready")
  /\ executed < RunCap
  /\ Goto(k, "running")
  /\ UNCHANGED <<executed, tokens, turns, calls>>

(* The sandbox has returned; its result is persisted, whatever it is. *)
EmitExecuted(k) ==
  /\ At(k, "running")
  /\ executed' = executed + 1
  /\ Goto(k, "ready")
  /\ UNCHANGED <<tokens, turns, calls>>

-------------------------------------------------------------------------------
(* chat.send *)

(* The tokens spent on chat are summed up and are below the cap. *)
CheckChat(k) ==
  /\ At(k, "ready")
  /\ tokens < TokenCap
  /\ prompts < MaxPrompts
  /\ Goto(k, "prompting")
  /\ UNCHANGED <<executed, tokens, turns, calls>>

(* _trim_history: the newest MaxHistory entries stay. *)
Trim(h) == IF Len(h) <= MaxHistory THEN h ELSE SubSeq(h, Len(h) - MaxHistory + 1, Len(h))

(* The prompt is persisted, then joins the history that goes to the model. *)
EmitPrompt(k) ==
  /\ At(k, "prompting")
  /\ prompts' = prompts + 1
  /\ sock' = [sock EXCEPT ![k].pc = "streaming", ![k].history = Trim(Append(@, "user"))]
  /\ UNCHANGED <<executed, tokens, responses, errors, calls>>

(* Fault: the usage is summed up over the chunks. *)
StreamEndsSumming(k) ==
  /\ At(k, "streaming")
  /\ \E n, m \in 0..MaxPrompt : sock' = [sock EXCEPT ![k].pc = "billing", ![k].used = n + m]
  /\ UNCHANGED <<executed, tokens, turns, calls>>

(* The stream ends; its last chunk brings the usage. *)
StreamEnds(k) ==
  /\ At(k, "streaming")
  /\ \E n \in 0..MaxPrompt : sock' = [sock EXCEPT ![k].pc = "billing", ![k].used = n]
  /\ UNCHANGED <<executed, tokens, turns, calls>>

(* The service fails, or a token cannot be sent on: before the usage is     *)
(* known, or after.                                                         *)
StreamFails(k) ==
  /\ At(k, "streaming")
  /\ \E n \in 0..MaxPrompt : sock' = [sock EXCEPT ![k].pc = "failing", ![k].used = n]
  /\ UNCHANGED <<executed, tokens, turns, calls>>

(* Fault: the reply is persisted before the call is recorded. *)
RecordAfterReply(k) ==
  /\ \/ /\ At(k, "billing")
        /\ responses' = responses + 1
        /\ sock' = [sock EXCEPT ![k].pc = "answering", ![k].history = Append(@, "assistant")]
        /\ UNCHANGED <<tokens, calls>>
     \/ /\ At(k, "answering") /\ sock[k].used > 0
        /\ tokens' = tokens + sock[k].used
        /\ calls' = [calls EXCEPT !.ok = @ + 1]
        /\ sock' = [sock EXCEPT ![k].pc = "ready", ![k].used = 0]
        /\ UNCHANGED responses
  /\ UNCHANGED <<executed, prompts, errors>>

(* record_llm_call; then the reply joins the history. *)
Record(k) ==
  /\ At(k, "billing")
  /\ tokens' = tokens + sock[k].used
  /\ calls' = [calls EXCEPT !.ok = @ + 1]
  /\ sock' = [sock EXCEPT ![k].pc = "answering", ![k].used = 0,
                          ![k].history = Append(@, "assistant")]
  /\ UNCHANGED <<executed, turns>>

EmitResponse(k) ==
  /\ At(k, "answering")
  /\ responses' = responses + 1
  /\ Goto(k, "ready")
  /\ UNCHANGED <<executed, tokens, prompts, errors, calls>>

EmitError(k) ==
  /\ At(k, "failing")
  /\ errors' = errors + 1
  /\ Goto(k, "charging")
  /\ UNCHANGED <<executed, tokens, prompts, responses, calls>>

(* record_llm_call with what is known of the usage. *)
RecordError(k) ==
  /\ At(k, "charging")
  /\ tokens' = tokens + sock[k].used
  /\ calls' = [calls EXCEPT !.error = @ + 1]
  /\ sock' = [sock EXCEPT ![k].pc = "dropping", ![k].used = 0]
  /\ UNCHANGED <<executed, turns>>

(* Fault: the unanswered prompt stays in the history. *)
DropNoTurn(k) ==
  /\ At(k, "dropping")
  /\ Goto(k, "ready")
  /\ UNCHANGED <<executed, tokens, turns, calls>>

(* The client is told, and the unanswered prompt leaves the history. *)
DropTurn(k) ==
  /\ At(k, "dropping")
  /\ sock' = [sock EXCEPT ![k].pc = "ready", ![k].history = SubSeq(@, 1, Len(@) - 1)]
  /\ UNCHANGED <<executed, tokens, turns, calls>>

-------------------------------------------------------------------------------
(* Connections *)

(* hello presents a task with an empty history; a new connection has one.   *)
Renew(k) ==
  /\ At(k, "ready")
  /\ sock[k].history # <<>>
  /\ sock' = [sock EXCEPT ![k] = Fresh]
  /\ UNCHANGED <<executed, tokens, turns, calls>>

(* A write, the sandbox or a send raises: the handler ends where it is.     *)
HandlerDies(k) ==
  /\ ~At(k, "ready")
  /\ sock' = [sock EXCEPT ![k] = Fresh]
  /\ UNCHANGED <<executed, tokens, turns, calls>>

(* Fault: the tokens are counted in memory. *)
RestartForgets ==
  /\ sock' = [k \in Sockets |-> Fresh]
  /\ tokens' = 0
  /\ UNCHANGED <<executed, turns, calls>>

(* The process dies and starts again: what was persisted still counts.      *)
Restart ==
  /\ sock' = [k \in Sockets |-> Fresh]
  /\ UNCHANGED <<executed, tokens, turns, calls>>

Run(k) == CheckRun(k) \/ EmitExecuted(k)
Chat(k) ==
  \/ CheckChat(k) \/ EmitPrompt(k) \/ StreamEnds(k) \/ Record(k) \/ EmitResponse(k)
  \/ StreamFails(k) \/ EmitError(k) \/ RecordError(k) \/ DropTurn(k)

Next ==
  \/ \E k \in Sockets : Run(k) \/ Chat(k) \/ Renew(k) \/ HandlerDies(k)
  \/ Restart

Spec == Init /\ [][Next]_vars

-------------------------------------------------------------------------------
TypeOK ==
  /\ executed \in Nat
  /\ tokens \in Nat
  /\ prompts \in Nat
  /\ responses \in Nat
  /\ errors \in Nat
  /\ calls \in [ok : Nat, error : Nat]
  /\ sock \in [Sockets -> Local]

Running == {k \in Sockets : At(k, "running")}
RunMeter == INSTANCE CappedMeter WITH
  Users <- Sockets, Cap <- RunCap, MaxCharge <- 1, total <- executed, busy <- Running
(* The executions of a session are a metered budget: each is admitted below *)
(* the cap and then counted, and no reconnect or restart resets the count.  *)
RunsMetered == RunMeter!Spec

(* So with N sockets open fewer than N executions pass the cap.             *)
RunOvershoot == executed < RunCap + Cardinality(Sockets)

Spending == {k \in Sockets : sock[k].pc \in Chatting \ {"answering", "dropping"}}
ChatMeter == INSTANCE CappedMeter WITH
  Users <- Sockets, Cap <- TokenCap, MaxCharge <- MaxPrompt, total <- tokens, busy <- Spending
(* So are the prompt tokens spent on chat, from the check to the record of  *)
(* the call, also of a call that failed.                                    *)
ChatsMetered == ChatMeter!Spec

(* So what passes the cap is less than one call of every socket.            *)
TokenOvershoot == tokens < TokenCap + MaxPrompt * Cardinality(Sockets)

(* What the model is sent is a dialogue: prompts and replies take turns,    *)
(* only the prompt being answered is open, and the history is bounded,      *)
(* whatever calls failed and whatever was trimmed before.                   *)
Open == {"streaming", "billing", "failing", "charging", "dropping"}
Dialogue(k) ==
  LET h == sock[k].history
  IN  /\ \A i \in 1..(Len(h) - 1) : h[i] # h[i + 1]
      /\ sock[k].pc \in Open => h # <<>>
      /\ h # <<>> => h[Len(h)] = IF sock[k].pc \in Open THEN "user" ELSE "assistant"
      /\ Len(h) <= IF sock[k].pc \in Open THEN MaxHistory ELSE MaxHistory + 1
HistoryIsDialogue == \A k \in Sockets : Dialogue(k)

(* No reply is in the log whose call is not on the bill, and no failed call *)
(* is on the bill whose error is not in the log - a crash or a failing      *)
(* write between the two included.                                          *)
LogAndBillAgree == responses <= calls.ok /\ calls.error <= errors
==============================================================================
