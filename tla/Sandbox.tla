-------------------------------- MODULE Sandbox --------------------------------
(***************************************************************************)
(* What a run of the candidate's code comes to: Sandbox.run_python of      *)
(* app/sandbox/runner.py, from the answer of Judge0 (external) to the two  *)
(* fields of an ExecResult that the scoring reads.                         *)
(*                                                                         *)
(* A text is a member of a small set, "" is the empty one; a text the      *)
(* runner composes itself is named after its reason.  Judge0 sends null or *)
(* no field at all where an answer has "" or NoCode.  Clipping a text to   *)
(* the output limit leaves it non-empty.                                   *)
(***************************************************************************)
EXTENDS Integers

CONSTANTS
  Texts,   \* what Judge0 may put in stderr, in compile_output or in message
  NoCode   \* exit_code is null

Statuses == {"accepted", "tle", "compile error", "runtime error", "any other"}

(* What becomes of a submission: refused before the call, failed, answered. *)
Outcomes ==
  [kind : {"code too large", "stdin too large", "request failed", "HTTP error", "not JSON"}]
    \cup [kind : {"answer"}, status : Statuses, stderr : Texts \cup {""},
          compile : Texts \cup {""}, message : Texts \cup {""}, code : {0, 1, NoCode},
          signal : {0, 9}]

FirstText(a, b, c) == CASE a # "" -> a [] a = "" /\ b # "" -> b [] OTHER -> c

(* _map_response: stderr of an answer. *)
ErrorText(o) ==
  CASE o.status = "accepted"      -> o.stderr
    [] o.status = "tle"           -> FirstText(o.stderr, o.message, "Time limit exceeded")
    [] o.status = "compile error" -> FirstText(o.compile, o.message, "Compilation error")
    [] o.status = "runtime error" -> FirstText(o.stderr, o.message, "Runtime error")
    [] o.status = "any other"     -> "Judge0 status"

(* _map_response: exit_code of an answer. *)
ExitCode(o) ==
  CASE o.status = "accepted"      -> 0
    [] o.status = "tle"           -> 124
    [] o.status = "compile error" -> 1
    [] o.status = "runtime error" -> CASE o.code # NoCode -> o.code
                                       [] o.code = NoCode /\ o.signal # 0 -> 128 + o.signal
                                       [] OTHER -> 1
    [] o.status = "any other"     -> -1

RunPython(o) ==
  IF o.kind = "answer" THEN [exit |-> ExitCode(o), stderr |-> ErrorText(o)]
  ELSE [exit |-> -1, stderr |-> o.kind]
================================================================================
