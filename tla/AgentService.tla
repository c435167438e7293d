---------------------------- MODULE AgentService ----------------------------
(***************************************************************************)
(* One chat request from its arrival at POST /v1/chat/completions to its   *)
(* answer: backend/app/routes/chat.py, app/services/openai_io.py,          *)
(* src/agent.py, src/tools.py and src/core/agent_activity_log.py.          *)
(*                                                                         *)
(* Requests run as tasks of one event loop, so a step below is the code    *)
(* between two awaits (or yields).  Tool calls of one LLM turn run         *)
(* concurrently.  The OpenAI client and the function-calling loop of       *)
(* agent_framework are external: a chat call returns or raises, a reply    *)
(* brings text or a batch of tool calls, and after MaxTurns turns with     *)
(* tools the framework asks once more without tools.                       *)
(*                                                                         *)
(* The activity log is kept per request, each line with the context whose  *)
(* id log_activity prefixes to it.                                         *)
(***************************************************************************)
EXTENDS Naturals, Sequences, FiniteSets

CONSTANTS
  Requests,
  MaxTurns,    (* AGENT_MAX_TOOL_ITERATIONS *)
  MaxBatch,    (* tool calls in one LLM reply (bound of the model) *)
  MaxPieces,   (* text updates of one answer (bound of the model) *)
  NoRequest    (* the context variable is None *)

ASSUME ServiceAssumption ==
  /\ MaxTurns \in Nat \ {0} /\ MaxBatch \in Nat \ {0} /\ MaxPieces \in Nat \ {0}
  /\ NoRequest \notin Requests

VARIABLES
  pc,          (* where the request's handler is suspended *)
  kind,        (* "stream": SSE agent answer; "full": agent answer in one
                  piece; "task": Open WebUI background task, answered at once;
                  "taskStream": the same, sent as SSE frames *)
  agentBuilt,  (* the process-wide client and agents exist *)
  context,     (* the request's context variable _CTX *)
  turn,        (* RequestContext.llm_loop_turn *)
  tools,       (* RequestContext.tool_count *)
  pending,     (* tool tasks of the batch that have not started *)
  running,     (* tool calls in a worker thread *)
  log,         (* the request's lines of the activity log *)
  frames,      (* SSE frames sent *)
  pieces,      (* text updates so far *)
  http,        (* status of a non-streaming answer *)
  connected    (* the client is still there *)

vars == <<pc, kind, agentBuilt, context, turn, tools, pending, running, log,
          frames, pieces, http, connected>>

Kinds == {"stream", "full", "task", "taskStream"}
Places == {"new", "role", "start", "llm", "reply", "sending", "tools", "ended",
           "stop", "answered", "broken", "orphan", "gone"}

Line(what, n, ctx) == [what |-> what, n |-> n, ctx |-> ctx]
Lines(r) == {log[r][i] : i \in 1..Len(log[r])}

Init ==
  /\ pc = [r \in Requests |-> "new"]
  /\ kind = [r \in Requests |-> "full"]
  /\ agentBuilt = FALSE
  /\ context = [r \in Requests |-> NoRequest]
  /\ turn = [r \in Requests |-> 0]
  /\ tools = [r \in Requests |-> 0]
  /\ pending = [r \in Requests |-> 0]
  /\ running = [r \in Requests |-> {}]
  /\ log = [r \in Requests |-> <<>>]
  /\ frames = [r \in Requests |-> <<>>]
  /\ pieces = [r \in Requests |-> 0]
  /\ http = [r \in Requests |-> 0]
  /\ connected = [r \in Requests |-> TRUE]

-----------------------------------------------------------------------------
Goto(r, place) == pc' = [pc EXCEPT ![r] = place]
Streams(r) == kind[r] \in {"stream", "taskStream"}

LogIn(r, line) == log' = [log EXCEPT ![r] = Append(@, line)]

(* request_scope's finally block and detach, in the request's own task. *)
CloseScope(r, status) ==
  /\ LogIn(r, Line(status, tools[r], context[r]))
  /\ context' = [context EXCEPT ![r] = NoRequest]

FailSilently(r) ==
  /\ CloseScope(r, "END_error")
  /\ Goto(r, IF kind[r] = "stream" THEN "ended" ELSE "broken")
  /\ http' = IF kind[r] = "stream" THEN http ELSE [http EXCEPT ![r] = 500]

(* An exception leaves the handler: a stream just stops, a plain request is *)
(* answered with 500.                                                       *)
Fail(r) ==
  /\ CloseScope(r, "END_error")
  /\ Goto(r, "broken")
  /\ http' = IF kind[r] = "stream" THEN http ELSE [http EXCEPT ![r] = 500]

(* chat_completions up to its first await: reject an empty message, else    *)
(* choose how the request is answered.                                      *)
Arrive(r) ==
  /\ pc[r] = "new"
  /\ \/ Goto(r, "answered") /\ http' = [http EXCEPT ![r] = 400] /\ UNCHANGED kind
     \/ \E k \in Kinds :
          /\ kind' = [kind EXCEPT ![r] = k]
          /\ Goto(r, IF k = "stream" THEN "role" ELSE "start")
          /\ UNCHANGED http
  /\ UNCHANGED <<agentBuilt, context, turn, tools, pending, running, log, frames,
                 pieces, connected>>

Send(r, frame) == frames' = [frames EXCEPT ![r] = Append(@, frame)]

(* The first frame of sse_from_stream. *)
SendRole(r) ==
  /\ pc[r] = "role"
  /\ Send(r, "role")
  /\ Goto(r, IF kind[r] = "stream" THEN "start" ELSE "sending")
  /\ UNCHANGED <<kind, agentBuilt, context, turn, tools, pending, running, log,
                 pieces, http, connected>>

StartGlobalContext(r) ==
  /\ pc[r] = "start"
  /\ Goto(r, "llm")
  /\ LogIn(r, Line("START", 0, context[r]))
  /\ context' = [q \in Requests |-> r]
  /\ agentBuilt' = TRUE
  /\ turn' = [turn EXCEPT ![r] = 1]
  /\ UNCHANGED <<http, kind, tools, pending, running, frames, pieces, connected>>

(* Entering request_scope: the START line precedes attach, so it carries no *)
(* prefix.  Then the agent is built, which fails while the client cannot be *)
(* constructed, and the first chat call begins.                             *)
Start(r) ==
  /\ pc[r] = "start"
  /\ \/ /\ Goto(r, "llm")
        /\ LogIn(r, Line("START", 0, context[r]))
        /\ context' = [context EXCEPT ![r] = r]
        /\ agentBuilt' = TRUE
        /\ turn' = [turn EXCEPT ![r] = 1]
        /\ UNCHANGED http
     \/ /\ ~agentBuilt
        /\ log' = [log EXCEPT ![r] = @ \o <<Line("START", 0, context[r]),
                                            Line("END_error", 0, r)>>]
        /\ Goto(r, "broken")
        /\ http' = IF kind[r] = "stream" THEN http ELSE [http EXCEPT ![r] = 500]
        /\ UNCHANGED <<agentBuilt, context, turn>>
  /\ UNCHANGED <<kind, tools, pending, running, frames, pieces, connected>>

-----------------------------------------------------------------------------
(* The agent loop.  The middleware numbers a call when it begins and logs   *)
(* it when call_next has returned; a call that raises is not logged.        *)

CallReturns(r) ==
  /\ pc[r] = "llm"
  /\ LogIn(r, Line("LLM_CALL", turn[r], context[r]))
  /\ Goto(r, "reply")
  /\ UNCHANGED <<kind, agentBuilt, context, turn, tools, pending, running, frames,
                 pieces, http, connected>>

CallFails(r) ==
  /\ pc[r] = "llm"
  /\ Fail(r)
  /\ UNCHANGED <<kind, agentBuilt, turn, tools, pending, running, frames, pieces,
                 connected>>

(* The streamed reply breaks off after call_next has returned. *)
ReplyBreaks(r) ==
  /\ pc[r] = "reply" /\ kind[r] = "stream"
  /\ Fail(r)
  /\ UNCHANGED <<kind, agentBuilt, turn, tools, pending, running, frames, pieces,
                 connected>>

(* A text update reaches sse_from_stream, which yields a frame. *)
SendPiece(r) ==
  /\ pc[r] = "reply" /\ kind[r] = "stream"
  /\ pieces[r] < MaxPieces
  /\ pieces' = [pieces EXCEPT ![r] = @ + 1]
  /\ Send(r, "piece")
  /\ Goto(r, "sending")
  /\ UNCHANGED <<kind, agentBuilt, context, turn, tools, pending, running, log,
                 http, connected>>

RequestToolsForever(r) ==
  /\ pc[r] = "reply"
  /\ kind[r] \in {"stream", "full"}
  /\ turn[r] <= MaxTurns + 1
  /\ \E n \in 1..MaxBatch : pending' = [pending EXCEPT ![r] = n]
  /\ Goto(r, "tools")
  /\ UNCHANGED <<kind, agentBuilt, context, turn, tools, running, log, frames,
                 pieces, http, connected>>

(* The reply asks for tools; the agent of background tasks has none. *)
RequestTools(r) ==
  /\ pc[r] = "reply"
  /\ kind[r] \in {"stream", "full"}
  /\ turn[r] <= MaxTurns
  /\ \E n \in 1..MaxBatch : pending' = [pending EXCEPT ![r] = n]
  /\ Goto(r, "tools")
  /\ UNCHANGED <<kind, agentBuilt, context, turn, tools, running, log, frames,
                 pieces, http, connected>>

StartToolReusesNumber(r) ==
  /\ pc[r] = "tools" /\ pending[r] > 0
  /\ tools' = [tools EXCEPT ![r] = @ + 1]
  /\ pending' = [pending EXCEPT ![r] = @ - 1]
  /\ running' = [running EXCEPT ![r] = @ \union {Cardinality(running[r]) + 1}]
  /\ UNCHANGED <<pc, kind, agentBuilt, context, turn, log, frames, pieces, http,
                 connected>>

(* _run_tool takes its number and hands its body to a worker thread. *)
StartTool(r) ==
  /\ pc[r] = "tools" /\ pending[r] > 0
  /\ tools' = [tools EXCEPT ![r] = @ + 1]
  /\ pending' = [pending EXCEPT ![r] = @ - 1]
  /\ running' = [running EXCEPT ![r] = @ \union {tools[r] + 1}]
  /\ UNCHANGED <<pc, kind, agentBuilt, context, turn, log, frames, pieces, http,
                 connected>>

(* The body returned or raised: both leave one line with the call's number. *)
FinishTool(r) ==
  /\ pc[r] = "tools"
  /\ \E n \in running[r] :
       /\ running' = [running EXCEPT ![r] = @ \ {n}]
       /\ LogIn(r, Line("TOOL", n, context[r]))
  /\ UNCHANGED <<pc, kind, agentBuilt, context, turn, tools, pending, frames,
                 pieces, http, connected>>

NextTurnAfterFullBatch(r) ==
  /\ pc[r] = "tools"
  /\ pending[r] = 0 /\ running[r] = {}
  /\ tools[r] = turn[r] * MaxBatch
  /\ turn' = [turn EXCEPT ![r] = @ + 1]
  /\ Goto(r, "llm")
  /\ UNCHANGED <<kind, agentBuilt, context, tools, pending, running, log, frames,
                 pieces, http, connected>>

NextTurnEarly(r) ==
  /\ pc[r] = "tools"
  /\ pending[r] = 0
  /\ turn' = [turn EXCEPT ![r] = @ + 1]
  /\ Goto(r, "llm")
  /\ UNCHANGED <<kind, agentBuilt, context, tools, pending, running, log, frames,
                 pieces, http, connected>>

(* All results are in: the next chat call begins. *)
NextTurn(r) ==
  /\ pc[r] = "tools"
  /\ pending[r] = 0 /\ running[r] = {}
  /\ turn' = [turn EXCEPT ![r] = @ + 1]
  /\ Goto(r, "llm")
  /\ UNCHANGED <<kind, agentBuilt, context, tools, pending, running, log, frames,
                 pieces, http, connected>>

FinishReplyLeavesScopeOpen(r) ==
  /\ pc[r] = "reply"
  /\ Goto(r, CASE kind[r] = "stream"     -> "ended"
               [] kind[r] = "taskStream" -> "role"
               [] OTHER                  -> "answered")
  /\ http' = IF Streams(r) THEN http ELSE [http EXCEPT ![r] = 200]
  /\ UNCHANGED <<kind, agentBuilt, context, turn, tools, pending, running, log,
                 frames, pieces, connected>>

(* The reply was the answer: the request scope closes. *)
FinishReply(r) ==
  /\ pc[r] = "reply"
  /\ CloseScope(r, "END_ok")
  /\ Goto(r, CASE kind[r] = "stream"     -> "ended"
               [] kind[r] = "taskStream" -> "role"
               [] OTHER                  -> "answered")
  /\ http' = IF Streams(r) THEN http ELSE [http EXCEPT ![r] = 200]
  /\ UNCHANGED <<kind, agentBuilt, turn, tools, pending, running, frames, pieces,
                 connected>>

-----------------------------------------------------------------------------
(* The frames after the answer, and what a send that has completed resumes. *)

(* The frame has been sent: sse_from_stream asks for the next update.  The  *)
(* text of a background task is one update.                                 *)
Resume(r) ==
  /\ pc[r] = "sending"
  /\ IF kind[r] = "stream"
       THEN Goto(r, "reply") /\ UNCHANGED <<frames, pieces>>
       ELSE /\ Goto(r, "ended")
            /\ \/ Send(r, "piece") /\ pieces' = [pieces EXCEPT ![r] = 1]
               \/ UNCHANGED <<frames, pieces>>
  /\ UNCHANGED <<kind, agentBuilt, context, turn, tools, pending, running, log,
                 http, connected>>

SendStopWithoutDone(r) ==
  /\ pc[r] = "ended"
  /\ Send(r, "stop")
  /\ Goto(r, "answered")
  /\ UNCHANGED <<kind, agentBuilt, context, turn, tools, pending, running, log,
                 pieces, http, connected>>

SendStop(r) ==
  /\ pc[r] = "ended"
  /\ Send(r, "stop")
  /\ Goto(r, "stop")
  /\ UNCHANGED <<kind, agentBuilt, context, turn, tools, pending, running, log,
                 pieces, http, connected>>

SendDone(r) ==
  /\ pc[r] = "stop"
  /\ Send(r, "DONE")
  /\ Goto(r, "answered")
  /\ UNCHANGED <<kind, agentBuilt, context, turn, tools, pending, running, log,
                 pieces, http, connected>>

-----------------------------------------------------------------------------
(* A client that goes away.  Only a StreamingResponse notices: the server   *)
(* cancels the task that iterates its body.                                 *)

Disconnect(r) ==
  /\ connected[r]
  /\ pc[r] \notin {"new", "answered", "broken"}
  /\ connected' = [connected EXCEPT ![r] = FALSE]
  /\ UNCHANGED <<pc, kind, agentBuilt, context, turn, tools, pending, running, log,
                 frames, pieces, http>>

Cancellable(r) == ~connected[r] /\ Streams(r)

CancelKeepsTools(r) ==
  /\ Cancellable(r) /\ kind[r] = "stream"
  /\ pc[r] \in {"llm", "reply", "tools"}
  /\ CloseScope(r, "END_error")
  /\ Goto(r, IF running[r] = {} THEN "gone" ELSE "tools")
  /\ pending' = [pending EXCEPT ![r] = 0]
  /\ UNCHANGED <<kind, agentBuilt, turn, tools, running, frames, pieces, http,
                 connected>>

(* The task is cancelled inside the agent's run: the tool tasks are         *)
(* cancelled with it and leave no line, then the scope closes.              *)
CancelRun(r) ==
  /\ Cancellable(r) /\ kind[r] = "stream"
  /\ pc[r] \in {"llm", "reply", "tools"}
  /\ CloseScope(r, "END_error")
  /\ Goto(r, "gone")
  /\ pending' = [pending EXCEPT ![r] = 0]
  /\ running' = [running EXCEPT ![r] = {}]
  /\ UNCHANGED <<kind, agentBuilt, turn, tools, frames, pieces, http, connected>>

(* The task is cancelled while it sends a frame: stream_reply stays         *)
(* suspended at its yield with the scope open.                              *)
CancelSend(r) ==
  /\ Cancellable(r)
  /\ \/ /\ pc[r] = "sending" /\ kind[r] = "stream"
        /\ Goto(r, "orphan")
     \/ /\ \/ pc[r] \in {"role", "ended", "stop"}
           \/ pc[r] = "start" /\ kind[r] = "stream"
           \/ pc[r] = "sending" /\ kind[r] = "taskStream"
        /\ Goto(r, "gone")
  /\ UNCHANGED <<kind, agentBuilt, context, turn, tools, pending, running, log,
                 frames, pieces, http, connected>>

(* The contexts the garbage collector may run in: none, the request's own   *)
(* while its task unwinds, or that of a request being served.               *)
CollectorContexts(r) ==
  {NoRequest, r} \union
  {context[q] : q \in {x \in Requests : pc[x] \in {"llm", "reply", "sending", "tools"}}}

(* The garbage collector finds the generator: the loop closes it in a new   *)
(* task, whose context is a copy of whatever context the collector ran in.  *)
Finalize(r) ==
  /\ pc[r] = "orphan"
  /\ \E ctx \in CollectorContexts(r) :
       LogIn(r, Line("END_error", tools[r], ctx))
  /\ context' = [context EXCEPT ![r] = NoRequest]
  /\ Goto(r, "gone")
  /\ UNCHANGED <<kind, agentBuilt, turn, tools, pending, running, frames,
                 pieces, http, connected>>

-----------------------------------------------------------------------------
(* The steps the event loop, the LLM client and the tool threads take. *)
Proceed(r) ==
  \/ SendRole(r) \/ Start(r)
  \/ CallReturns(r) \/ CallFails(r) \/ ReplyBreaks(r) \/ SendPiece(r)
  \/ RequestTools(r) \/ StartTool(r) \/ FinishTool(r) \/ NextTurn(r)
  \/ FinishReply(r) \/ Resume(r) \/ SendStop(r) \/ SendDone(r)

Cancel(r) == CancelRun(r) \/ CancelSend(r)

Next ==
  \E r \in Requests :
    Arrive(r) \/ Proceed(r) \/ Disconnect(r) \/ Cancel(r) \/ Finalize(r)

Spec == Init /\ [][Next]_vars

(* The event loop runs every ready task, chat calls and tool bodies end     *)
(* (client and driver time-outs), and a cancellation that was requested is  *)
(* delivered.  Clients and the garbage collector are not fair.              *)
FairSpec ==
  Spec /\ \A r \in Requests : WF_vars(Proceed(r) \/ Cancel(r))
-----------------------------------------------------------------------------
Ends == {"END_ok", "END_error"}
LineKinds == Ends \union {"START", "LLM_CALL", "TOOL"}
LineType == [what : LineKinds, n : Nat, ctx : Requests \union {NoRequest}]
FrameKinds == {"role", "piece", "stop", "DONE"}
Left(r) == pc[r] \in {"answered", "broken", "gone"}
Closed(r, status) == log[r] # <<>> /\ log[r][Len(log[r])].what = status
HasSent(r, frame) == \E i \in 1..Len(frames[r]) : frames[r][i] = frame
Numbers(r, what) == {l.n : l \in {x \in Lines(r) : x.what = what}}
LinesOf(r, what) == {i \in 1..Len(log[r]) : log[r][i].what = what}

(* Every variable has its type. *)
TypeOK ==
  /\ pc \in [Requests -> Places]
  /\ kind \in [Requests -> Kinds]
  /\ agentBuilt \in BOOLEAN
  /\ context \in [Requests -> Requests \union {NoRequest}]
  /\ turn \in [Requests -> 0..MaxTurns + 1]
  /\ tools \in [Requests -> Nat]
  /\ pending \in [Requests -> 0..MaxBatch]
  /\ running \in [Requests -> SUBSET Nat]
  /\ log \in [Requests -> Seq(LineType)]
  /\ frames \in [Requests -> Seq(FrameKinds)]
  /\ pieces \in [Requests -> 0..MaxPieces]
  /\ http \in [Requests -> {0, 200, 400, 500}]
  /\ connected \in [Requests -> BOOLEAN]

(* The log of a request is START, its calls, END: no tool thread writes      *)
(* after the END line and a request that has left has written it, whichever *)
(* way it left (request_scope, agent.py:225-252).                            *)
LogIsWellFormed ==
  \A r \in Requests :
    /\ \A i \in 1..Len(log[r]) :
         /\ log[r][i].what = "START" <=> i = 1
         /\ log[r][i].what \in Ends => i = Len(log[r])
    /\ Left(r) /\ log[r] # <<>> => log[r][Len(log[r])].what \in Ends

(* Parallel tool calls of one request never share a number.                 *)
(* A request that ended well has a line for each of its LLM calls and for   *)
(* each of the tools_called its END line counts.  One that ended in error   *)
(* lacks at most the line of the LLM call that raised or was cancelled, and *)
(* tool lines only if its client went away while they ran                   *)
(* (agent.py:98-108, tools.py:38-46, agent_activity_log.py:67-69).          *)
TraceIsComplete ==
  \A r \in Requests :
    LET calls == Numbers(r, "LLM_CALL")
        done == Numbers(r, "TOOL")
    IN /\ Cardinality(done) = Cardinality(LinesOf(r, "TOOL"))
       /\ Closed(r, "END_ok") => calls = 1..turn[r] /\ done = 1..tools[r]
       /\ Closed(r, "END_error") /\ turn[r] > 0 =>
            /\ calls \in {1..turn[r], 1..(turn[r] - 1)}
            /\ connected[r] => done = 1..tools[r]
       /\ Closed(r, "END_ok") \/ Closed(r, "END_error") =>
            log[r][Len(log[r])].n = tools[r]

(* LLM and tool lines carry the id of their own request, however requests   *)
(* and their tool tasks interleave on the loop; so does the END line, if    *)
(* the client stayed (agent_activity_log.py:24, 143-148).                   *)
LinesCarryOwnId ==
  \A r \in Requests : \A l \in Lines(r) :
    \/ l.what \in {"LLM_CALL", "TOOL"}
    \/ l.what \in Ends /\ connected[r]
    => l.ctx = r

(* What the client sees agrees with how the request ended: frames come in   *)
(* the order of the OpenAI stream format, and neither the stop frame, nor   *)
(* [DONE], nor a 200 follows a failure.                                     *)
AnswerMatchesEnd ==
  \A r \in Requests :
    /\ \A i \in 1..Len(frames[r]) :
         /\ frames[r][i] = "role" <=> i = 1
         /\ frames[r][i] = "DONE" => i = Len(frames[r]) /\ frames[r][i - 1] = "stop"
         /\ frames[r][i] = "stop" => i >= Len(frames[r]) - 1 /\ Closed(r, "END_ok")
    /\ http[r] = 200 => Closed(r, "END_ok")
    /\ http[r] = 500 => Closed(r, "END_error")

(* Every accepted request ends: it is answered, it breaks off, or its       *)
(* client has gone (and then its generator may wait for the collector).     *)
(* A streamed answer whose agent has ended is completed by [DONE], unless   *)
(* its client leaves first.                                                 *)
EveryRequestEnds ==
  \A r \in Requests :
    /\ pc[r] # "new" ~> Left(r) \/ pc[r] = "orphan"
    /\ pc[r] = "ended" ~> (~connected[r] \/ (Len(frames[r]) > 0 /\ frames[r][Len(frames[r])] = "DONE"))

-----------------------------------------------------------------------------
(* The inductive invariant behind them (AgentServiceProofs). *)

(* The agent runs for the request, or is suspended at one of its updates. *)
Inside(r) ==
  \/ pc[r] \in {"llm", "reply", "tools"}
  \/ pc[r] \in {"sending", "orphan"} /\ kind[r] = "stream"

(* Where a request is tells whether its scope is still unopened, open, or   *)
(* closed and how: the context is attached exactly while it is open, and    *)
(* whose send or run was cancelled has no client (agent.py:225-252).        *)
ScopeAt(r) ==
  /\ context[r] = IF Inside(r) THEN r ELSE NoRequest
  /\ pc[r] \in {"new", "start"} \/ (pc[r] = "role" /\ kind[r] = "stream") =>
       log[r] = <<>> /\ turn[r] = 0 /\ tools[r] = 0
  /\ Inside(r) => log[r] # <<>> /\ turn[r] > 0 /\ \A s \in Ends : ~Closed(r, s)
  /\ pc[r] \in {"ended", "stop"} \/ (pc[r] \in {"role", "sending"} /\ kind[r] # "stream") =>
       Closed(r, "END_ok")
  /\ pc[r] = "broken" => Closed(r, "END_error")
  /\ pc[r] = "answered" => Closed(r, "END_ok") \/ (log[r] = <<>> /\ http[r] = 400)
  /\ pc[r] = "gone" => log[r] = <<>> \/ \E s \in Ends : Closed(r, s)
  /\ pc[r] \in {"role", "sending", "ended", "stop"} => Streams(r)
  /\ pc[r] = "orphan" => kind[r] = "stream"
  /\ pc[r] \in {"orphan", "gone"} => ~connected[r]

(* The tool calls numbered so far are those running and those with a line,  *)
(* no number twice, and none is lost unless the run is cancelled            *)
(* (tools.py:38-46, agent_activity_log.py:67-69).                           *)
ToolsAt(r) ==
  LET done == LinesOf(r, "TOOL")
  IN /\ pc[r] # "tools" => pending[r] = 0 /\ running[r] = {}
     /\ running[r] \subseteq 1..tools[r]
     /\ \A i \in done : log[r][i].n \in (1..tools[r]) \ running[r]
     /\ \A i, j \in done : log[r][i].n = log[r][j].n => i = j
     /\ pc[r] # "gone" \/ Closed(r, "END_ok") =>
          \A n \in (1..tools[r]) \ running[r] : \E i \in done : log[r][i].n = n

(* The LLM calls numbered so far have a line, the one under way or broken   *)
(* off excepted, and the END line counts the tool calls (agent.py:98-108).  *)
CallsAt(r) ==
  LET calls == Numbers(r, "LLM_CALL")
  IN /\ pc[r] = "tools" => turn[r] <= MaxTurns
     /\ \/ calls = 1..turn[r] /\ pc[r] # "llm"
        \/ /\ calls = 1..(turn[r] - 1) /\ turn[r] > 0
           /\ pc[r] = "llm" \/ Closed(r, "END_error")
     /\ \A s \in Ends : Closed(r, s) => log[r][Len(log[r])].n = tools[r]

(* What the client has been sent so far, by where the request is: no frame  *)
(* before the role, no stop frame before the agent has ended, no status     *)
(* before the end (openai_io.py:68-137, chat.py).                           *)
AnswerAt(r) ==
  LET early == {"start", "llm", "reply", "tools"}
  IN /\ http[r] # 0 => pc[r] \in {"answered", "broken"}
     /\ http[r] = 400 => log[r] = <<>> /\ frames[r] = <<>>
     /\ pc[r] \in {"new", "role"} => frames[r] = <<>>
     /\ pc[r] \in early \union {"broken"} /\ kind[r] # "stream" => frames[r] = <<>>
     /\ \/ pc[r] \in {"sending", "ended", "stop", "orphan"}
        \/ pc[r] \in early /\ kind[r] = "stream"
        => frames[r] # <<>>
     /\ pc[r] \notin {"stop", "answered", "gone"} => ~HasSent(r, "stop")
     /\ pc[r] \notin {"answered", "gone"} => ~HasSent(r, "DONE")
     /\ pc[r] = "stop" =>
          \A i \in 1..Len(frames[r]) : frames[r][i] = "stop" <=> i = Len(frames[r])

ScopeInv == \A r \in Requests : ScopeAt(r)
TraceInv == \A r \in Requests : ToolsAt(r) /\ CallsAt(r)
AnswerInv == \A r \in Requests : AnswerAt(r)

(* What every step keeps together: the trace of a request, the ids of its   *)
(* lines and the frames of its answer, and why they fit together.           *)
IInv ==
  /\ TypeOK /\ ScopeInv /\ LogIsWellFormed /\ LinesCarryOwnId
  /\ TraceInv /\ AnswerInv /\ AnswerMatchesEnd

-----------------------------------------------------------------------------
(* The abstract request: the scope as the log shows it, the answer as the   *)
(* client sees it.                                                          *)
ScopeOf(r) ==
  IF log[r] = <<>> THEN "unopened"
  ELSE IF Closed(r, "END_ok") THEN "ok"
  ELSE IF Closed(r, "END_error") THEN "error" ELSE "open"

Complete(r) == http[r] = 200 \/ HasSent(r, "DONE")

AnswerOf(r) ==
  IF http[r] \in {400, 500} THEN "refused"
  ELSE IF Complete(r) THEN "complete"
  ELSE IF frames[r] # <<>> THEN "partial" ELSE "none"

Lifecycle == INSTANCE RequestLifecycle
               WITH scope <- [r \in Requests |-> ScopeOf(r)],
                    answer <- [r \in Requests |-> AnswerOf(r)]

(* Every step of the service is a step of the promised lifecycle or leaves  *)
(* it alone, under failures, disconnects and late finalization.             *)
ImplementsLifecycle == Lifecycle!Spec

=============================================================================
