-------------------------- MODULE RequestLifecycle --------------------------
(***************************************************************************)
(* What the chat service promises of one request, whoever answers it: its  *)
(* scope opens at most once and closes as ok or as error; a complete       *)
(* answer is only ever given by a scope that closed as ok; an error turns  *)
(* into a refusal or leaves the answer partial for good.                   *)
(* AgentService implements it (AgentService!ImplementsLifecycle).          *)
(***************************************************************************)
CONSTANT Requests

VARIABLES
  scope,    (* "unopened", "open", "ok" or "error" *)
  answer    (* "none", "partial", "complete" or "refused" *)

vars == <<scope, answer>>

Init ==
  /\ scope = [r \in Requests |-> "unopened"]
  /\ answer = [r \in Requests |-> "none"]

Set(r, state, reply) ==
  /\ scope' = [scope EXCEPT ![r] = state]
  /\ answer' = [answer EXCEPT ![r] = reply]

(* The request is turned down before its scope opens. *)
Refuse(r) ==
  /\ scope[r] = "unopened" /\ answer[r] = "none"
  /\ Set(r, "unopened", "refused")

Open(r) ==
  /\ scope[r] = "unopened" /\ answer[r] # "refused"
  /\ Set(r, "open", answer[r])

(* Part of a streamed answer: before, while or after the agent runs. *)
Emit(r) ==
  /\ scope[r] # "error" /\ answer[r] \in {"none", "partial"}
  /\ Set(r, scope[r], "partial")

(* The agent is done; an answer in one piece is given at once. *)
Succeed(r) ==
  /\ scope[r] = "open"
  /\ \E reply \in {answer[r], "complete"} : Set(r, "ok", reply)

(* The agent failed, or could not be built at all; what was sent stays sent. *)
Fail(r) ==
  /\ scope[r] \in {"unopened", "open"} /\ answer[r] # "refused"
  /\ \/ Set(r, "error", answer[r])
     \/ answer[r] = "none" /\ Set(r, "error", "refused")

Complete(r) ==
  /\ scope[r] = "ok" /\ answer[r] = "partial"
  /\ Set(r, "ok", "complete")

Next ==
  \E r \in Requests :
    Refuse(r) \/ Open(r) \/ Emit(r) \/ Succeed(r) \/ Fail(r) \/ Complete(r)

Spec == Init /\ [][Next]_vars
=============================================================================
