------------------------- MODULE AgentServiceProofs -------------------------
(***************************************************************************)
(* Proofs about AgentService, for any requests, turns, batches and         *)
(* updates: IInv is inductive, from which the trace, the ids and the       *)
(* answer of every request follow, and every step of the service is a      *)
(* step of RequestLifecycle or leaves it alone.                            *)
(***************************************************************************)
EXTENDS AgentService, FiniteSetTheorems, TLAPS

(* Every step of the service is one of these, of some request. *)
Move(r) ==
  \/ Arrive(r) \/ SendRole(r) \/ Start(r)
  \/ CallReturns(r) \/ CallFails(r) \/ ReplyBreaks(r) \/ SendPiece(r)
  \/ RequestTools(r) \/ StartTool(r) \/ FinishTool(r) \/ NextTurn(r)
  \/ FinishReply(r) \/ Resume(r) \/ SendStop(r) \/ SendDone(r)
  \/ Disconnect(r) \/ CancelRun(r) \/ CancelSend(r) \/ Finalize(r)

LEMMA StepCases ==
  ASSUME [Next]_vars
  PROVE  (\E r \in Requests : Move(r)) \/ UNCHANGED vars
  BY DEF Next, Proceed, Cancel, Move

-----------------------------------------------------------------------------
(* What one more line does to a log. *)
LEMMA LogGrows ==
  ASSUME TypeOK, NEW r \in Requests, NEW line \in LineType, LogIn(r, line)
  PROVE  /\ log' \in [Requests -> Seq(LineType)]
         /\ Len(log'[r]) = Len(log[r]) + 1 /\ Len(log[r]) \in Nat /\ log'[r] # <<>>
         /\ \A i \in 1..Len(log[r]) : log'[r][i] = log[r][i]
         /\ log'[r][Len(log[r]) + 1] = line
         /\ \A q \in Requests \ {r} : log'[q] = log[q]
  <1>1. log[r] \in Seq(LineType) /\ Append(log[r], line) \in Seq(LineType)
    BY DEF TypeOK
  <1>2. log'[r] = Append(log[r], line) /\ \A q \in Requests \ {r} : log'[q] = log[q]
    BY DEF LogIn, TypeOK
  <1>3. log' \in [Requests -> Seq(LineType)]
    BY <1>1 DEF LogIn, TypeOK
  <1> QED
    BY <1>1, <1>2, <1>3

(* The sets of lines and of numbers a log is asked for, after one more line. *)
LEMMA LinesGrow ==
  ASSUME TypeOK, NEW r \in Requests, NEW line \in LineType, LogIn(r, line)
  PROVE  /\ Lines(r)' = Lines(r) \union {line}
         /\ \A s \in LineKinds : Closed(r, s)' <=> line.what = s
         /\ \A s \in LineKinds : s # line.what => /\ LinesOf(r, s)' = LinesOf(r, s)
                                                  /\ Numbers(r, s)' = Numbers(r, s)
         /\ LinesOf(r, line.what)' = LinesOf(r, line.what) \union {Len(log[r]) + 1}
         /\ Numbers(r, line.what)' = Numbers(r, line.what) \union {line.n}
  <1>1. /\ Len(log'[r]) = Len(log[r]) + 1 /\ Len(log[r]) \in Nat /\ log'[r] # <<>>
        /\ \A i \in 1..Len(log[r]) : log'[r][i] = log[r][i]
        /\ log'[r][Len(log[r]) + 1] = line
    BY LogGrows
  <1>2. Lines(r)' = Lines(r) \union {line}
    BY <1>1, SMTT(30) DEF Lines
  <1>3. \A s : Closed(r, s)' <=> line.what = s
    BY <1>1 DEF Closed
  <1>4. ASSUME NEW s, s # line.what
        PROVE  LinesOf(r, s)' = LinesOf(r, s) /\ Numbers(r, s)' = Numbers(r, s)
    <2>1. LinesOf(r, s)' = LinesOf(r, s)
      BY <1>1, <1>4 DEF LinesOf
    <2>2. Numbers(r, s)' = Numbers(r, s)
      BY <1>2, <1>4 DEF Numbers
    <2> QED
      BY <2>1, <2>2
  <1>5. LinesOf(r, line.what)' = LinesOf(r, line.what) \union {Len(log[r]) + 1}
    BY <1>1 DEF LinesOf
  <1>6. Numbers(r, line.what)' = Numbers(r, line.what) \union {line.n}
    BY <1>2 DEF Numbers
  <1> QED
    BY <1>2, <1>3, <1>4, <1>5, <1>6

(* The line an action writes is of the type of lines. *)
LEMMA LineHasType ==
  ASSUME NEW what \in LineKinds, NEW n \in Nat, NEW ctx \in Requests \union {NoRequest}
  PROVE  /\ Line(what, n, ctx) \in LineType
         /\ Line(what, n, ctx).what = what /\ Line(what, n, ctx).n = n
         /\ Line(what, n, ctx).ctx = ctx
  BY DEF Line, LineType

(* Closing the scope writes one line of its type and detaches the context.  *)
LEMMA CloseFacts ==
  ASSUME TypeOK, NEW r \in Requests, NEW s \in Ends, CloseScope(r, s)
  PROVE  /\ Line(s, tools[r], context[r]) \in LineType
         /\ LogIn(r, Line(s, tools[r], context[r]))
         /\ log' \in [Requests -> Seq(LineType)]
         /\ context' \in [Requests -> Requests \union {NoRequest}]
  <1>1. Line(s, tools[r], context[r]) \in LineType
    BY LineHasType DEF TypeOK, LineKinds
  <1>2. LogIn(r, Line(s, tools[r], context[r]))
    BY DEF CloseScope
  <1>3. log' \in [Requests -> Seq(LineType)]
    BY <1>1, <1>2, LogGrows
  <1>4. context' \in [Requests -> Requests \union {NoRequest}]
    BY DEF CloseScope, TypeOK
  <1> QED
    BY <1>1, <1>2, <1>3, <1>4

-----------------------------------------------------------------------------
(* Going to a place leaves every request at one. *)
LEMMA Placed ==
  ASSUME TypeOK, NEW r \in Requests, NEW place \in Places, Goto(r, place)
  PROVE  pc' \in [Requests -> Places]
  BY DEF TypeOK, Goto

(* So does sending a frame, of what has been sent. *)
LEMMA SendType ==
  ASSUME TypeOK, NEW r \in Requests, NEW frame \in FrameKinds, Send(r, frame)
  PROVE  frames' \in [Requests -> Seq(FrameKinds)]
  BY DEF TypeOK, Send

(* Entering the scope writes one line, or two when the agent cannot be built. *)
LEMMA StartLog ==
  ASSUME TypeOK, NEW r \in Requests, Start(r)
  PROVE  log' \in [Requests -> Seq(LineType)]
  <1>1. Line("START", 0, context[r]) \in LineType /\ Line("END_error", 0, r) \in LineType
    BY LineHasType DEF TypeOK, LineKinds, Ends
  <1>2. CASE LogIn(r, Line("START", 0, context[r]))
    BY <1>1, <1>2, LogGrows
  <1>3. CASE log' = [log EXCEPT ![r] = @ \o <<Line("START", 0, context[r]),
                                             Line("END_error", 0, r)>>]
    <2>1. ASSUME NEW x \in LineType, NEW y \in LineType PROVE log[r] \o <<x, y>> \in Seq(LineType)
      <3>1. log[r] \in Seq(LineType) /\ <<x, y>> \in Seq(LineType)
        BY DEF TypeOK
      <3> QED
        BY <3>1
    <2>2. log[r] \o <<Line("START", 0, context[r]), Line("END_error", 0, r)>> \in Seq(LineType)
      BY <1>1, <2>1
    <2> QED
      BY <1>3, <2>2 DEF TypeOK
  <1> QED
    BY <1>2, <1>3 DEF Start

(* Type correctness.  Turns are bounded because tools are only requested    *)
(* within the limit.                                                        *)
LEMMA TypeStep == TypeOK /\ TraceInv /\ [Next]_vars => TypeOK'
  <1> SUFFICES ASSUME TypeOK, TraceInv, [Next]_vars PROVE TypeOK'
    OBVIOUS
  <1>0. "END_ok" \in Ends /\ "END_error" \in Ends /\ {"START", "LLM_CALL", "TOOL"} \subseteq LineKinds
        /\ Ends \subseteq LineKinds
    BY DEF Ends, LineKinds
  <1>1. ASSUME NEW r \in Requests, Arrive(r) PROVE TypeOK'
    <2>1. pc' \in [Requests -> Places]
      BY <1>1, Placed DEF Arrive, Places
    <2>2. kind' \in [Requests -> Kinds]
      <3>1. UNCHANGED kind \/ \E k \in Kinds : kind' = [kind EXCEPT ![r] = k]
        BY <1>1 DEF Arrive
      <3>2. kind \in [Requests -> Kinds]
        BY DEF TypeOK
      <3> QED
        BY <3>1, <3>2
    <2>3. http' \in [Requests -> {0, 200, 400, 500}]
      <3>1. UNCHANGED http \/ http' = [http EXCEPT ![r] = 400]
        BY <1>1 DEF Arrive
      <3>2. http \in [Requests -> {0, 200, 400, 500}]
        BY DEF TypeOK
      <3> QED
        BY <3>1, <3>2
    <2>4. UNCHANGED <<agentBuilt, context, turn, tools, pending, running, log, frames, pieces, connected>>
      BY <1>1 DEF Arrive
    <2> QED
      BY <2>1, <2>2, <2>3, <2>4 DEF TypeOK
  <1>2. ASSUME NEW r \in Requests, SendRole(r) PROVE TypeOK'
    <2>1. pc' \in [Requests -> Places]
      BY <1>2, Placed DEF SendRole, Places
    <2>2. frames' \in [Requests -> Seq(FrameKinds)]
      BY <1>2, SendType DEF SendRole, FrameKinds
    <2>3. UNCHANGED <<kind, agentBuilt, context, turn, tools, pending, running, log, pieces, http, connected>>
      BY <1>2 DEF SendRole
    <2> QED
      BY <2>1, <2>2, <2>3 DEF TypeOK
  <1>3. ASSUME NEW r \in Requests, Start(r) PROVE TypeOK'
    <2>1. pc' \in [Requests -> Places]
      BY <1>3, Placed DEF Start, Places
    <2>2. log' \in [Requests -> Seq(LineType)]
      BY <1>0, <1>3, StartLog
    <2>3. context' \in [Requests -> Requests \union {NoRequest}]
      <3>1. UNCHANGED context \/ context' = [context EXCEPT ![r] = r]
        BY <1>3 DEF Start
      <3>2. context \in [Requests -> Requests \union {NoRequest}]
        BY DEF TypeOK
      <3> QED
        BY <3>1, <3>2
    <2>4. agentBuilt' \in BOOLEAN
      BY <1>3 DEF Start, TypeOK
    <2>5. turn' \in [Requests -> 0..MaxTurns + 1]
      <3>1. UNCHANGED turn \/ turn' = [turn EXCEPT ![r] = 1]
        BY <1>3 DEF Start
      <3>2. turn \in [Requests -> 0..MaxTurns + 1]
        BY DEF TypeOK
      <3> QED
        BY <3>1, <3>2, ServiceAssumption
    <2>6. http' \in [Requests -> {0, 200, 400, 500}]
      <3>1. UNCHANGED http \/ http' = [http EXCEPT ![r] = 500]
        BY <1>3 DEF Start
      <3>2. http \in [Requests -> {0, 200, 400, 500}]
        BY DEF TypeOK
      <3> QED
        BY <3>1, <3>2
    <2>7. UNCHANGED <<kind, tools, pending, running, frames, pieces, connected>>
      BY <1>3 DEF Start
    <2> QED
      BY <2>1, <2>2, <2>3, <2>4, <2>5, <2>6, <2>7 DEF TypeOK
  <1>4. ASSUME NEW r \in Requests, CallReturns(r) PROVE TypeOK'
    <2>1. pc' \in [Requests -> Places]
      BY <1>4, Placed DEF CallReturns, Places
    <2>2. log' \in [Requests -> Seq(LineType)]
      <3>1. Line("LLM_CALL", turn[r], context[r]) \in LineType
        <4>1. turn[r] \in Nat /\ context[r] \in Requests \union {NoRequest}
          BY ServiceAssumption DEF TypeOK
        <4> QED
          BY <1>0, <4>1, LineHasType
      <3> QED
        BY <1>4, <3>1, LogGrows DEF CallReturns
    <2>3. UNCHANGED <<kind, agentBuilt, context, turn, tools, pending, running, frames, pieces, http, connected>>
      BY <1>4 DEF CallReturns
    <2> QED
      BY <2>1, <2>2, <2>3 DEF TypeOK
  <1>5. ASSUME NEW r \in Requests, CallFails(r) PROVE TypeOK'
    <2>1. pc' \in [Requests -> Places]
      BY <1>5, Placed DEF CallFails, Fail, Places
    <2>2. /\ log' \in [Requests -> Seq(LineType)]
         /\ context' \in [Requests -> Requests \union {NoRequest}]
      BY <1>0, <1>5, CloseFacts DEF CallFails, Fail
    <2>3. http' \in [Requests -> {0, 200, 400, 500}]
      <3>1. UNCHANGED http \/ http' = [http EXCEPT ![r] = 500]
        BY <1>5 DEF CallFails, Fail
      <3>2. http \in [Requests -> {0, 200, 400, 500}]
        BY DEF TypeOK
      <3> QED
        BY <3>1, <3>2
    <2>4. UNCHANGED <<kind, agentBuilt, turn, tools, pending, running, frames, pieces, connected>>
      BY <1>5 DEF CallFails
    <2> QED
      BY <2>1, <2>2, <2>3, <2>4 DEF TypeOK
  <1>6. ASSUME NEW r \in Requests, ReplyBreaks(r) PROVE TypeOK'
    <2>1. pc' \in [Requests -> Places]
      BY <1>6, Placed DEF ReplyBreaks, Fail, Places
    <2>2. /\ log' \in [Requests -> Seq(LineType)]
         /\ context' \in [Requests -> Requests \union {NoRequest}]
      BY <1>0, <1>6, CloseFacts DEF ReplyBreaks, Fail
    <2>3. http' \in [Requests -> {0, 200, 400, 500}]
      <3>1. UNCHANGED http \/ http' = [http EXCEPT ![r] = 500]
        BY <1>6 DEF ReplyBreaks, Fail
      <3>2. http \in [Requests -> {0, 200, 400, 500}]
        BY DEF TypeOK
      <3> QED
        BY <3>1, <3>2
    <2>4. UNCHANGED <<kind, agentBuilt, turn, tools, pending, running, frames, pieces, connected>>
      BY <1>6 DEF ReplyBreaks
    <2> QED
      BY <2>1, <2>2, <2>3, <2>4 DEF TypeOK
  <1>7. ASSUME NEW r \in Requests, SendPiece(r) PROVE TypeOK'
    <2>1. pc' \in [Requests -> Places]
      BY <1>7, Placed DEF SendPiece, Places
    <2>2. frames' \in [Requests -> Seq(FrameKinds)]
      BY <1>7, SendType DEF SendPiece, FrameKinds
    <2>3. pieces' \in [Requests -> 0..MaxPieces]
      <3>1. pieces[r] < MaxPieces /\ pieces' = [pieces EXCEPT ![r] = @ + 1]
        BY <1>7 DEF SendPiece
      <3>2. pieces \in [Requests -> 0..MaxPieces]
        BY DEF TypeOK
      <3> QED
        BY <3>1, <3>2, ServiceAssumption
    <2>4. UNCHANGED <<kind, agentBuilt, context, turn, tools, pending, running, log, http, connected>>
      BY <1>7 DEF SendPiece
    <2> QED
      BY <2>1, <2>2, <2>3, <2>4 DEF TypeOK
  <1>8. ASSUME NEW r \in Requests, RequestTools(r) PROVE TypeOK'
    <2>1. pc' \in [Requests -> Places]
      BY <1>8, Placed DEF RequestTools, Places
    <2>2. pending' \in [Requests -> 0..MaxBatch]
      <3>1. \E n \in 1..MaxBatch : pending' = [pending EXCEPT ![r] = n]
        BY <1>8 DEF RequestTools
      <3>2. pending \in [Requests -> 0..MaxBatch]
        BY DEF TypeOK
      <3> QED
        BY <3>1, <3>2, ServiceAssumption
    <2>3. UNCHANGED <<kind, agentBuilt, context, turn, tools, running, log, frames, pieces, http, connected>>
      BY <1>8 DEF RequestTools
    <2> QED
      BY <2>1, <2>2, <2>3 DEF TypeOK
  <1>9. ASSUME NEW r \in Requests, StartTool(r) PROVE TypeOK'
    <2>1. tools' \in [Requests -> Nat]
      <3>1. tools' = [tools EXCEPT ![r] = @ + 1]
        BY <1>9 DEF StartTool
      <3>2. tools \in [Requests -> Nat]
        BY DEF TypeOK
      <3> QED
        BY <3>1, <3>2
    <2>2. pending' \in [Requests -> 0..MaxBatch]
      <3>1. pending[r] > 0 /\ pending' = [pending EXCEPT ![r] = @ - 1]
        BY <1>9 DEF StartTool
      <3>2. pending \in [Requests -> 0..MaxBatch]
        BY DEF TypeOK
      <3> QED
        BY <3>1, <3>2, ServiceAssumption
    <2>3. running' \in [Requests -> SUBSET Nat]
      <3>1. running' = [running EXCEPT ![r] = @ \union {tools[r] + 1}]
        BY <1>9 DEF StartTool
      <3>2. running \in [Requests -> SUBSET Nat] /\ tools \in [Requests -> Nat]
        BY DEF TypeOK
      <3> QED
        BY <3>1, <3>2
    <2>4. UNCHANGED <<pc, kind, agentBuilt, context, turn, log, frames, pieces, http, connected>>
      BY <1>9 DEF StartTool
    <2> QED
      BY <2>1, <2>2, <2>3, <2>4 DEF TypeOK
  <1>10. ASSUME NEW r \in Requests, FinishTool(r) PROVE TypeOK'
    <2>1. running' \in [Requests -> SUBSET Nat]
      <3>1. \E n \in running[r] : running' = [running EXCEPT ![r] = @ \ {n}]
        BY <1>10 DEF FinishTool
      <3>2. running \in [Requests -> SUBSET Nat]
        BY DEF TypeOK
      <3> QED
        BY <3>1, <3>2
    <2>2. log' \in [Requests -> Seq(LineType)]
      <3>1. PICK n \in running[r] : LogIn(r, Line("TOOL", n, context[r]))
        BY <1>10 DEF FinishTool
      <3>2. Line("TOOL", n, context[r]) \in LineType
        BY <1>0, LineHasType DEF TypeOK
      <3> QED
        BY <3>1, <3>2, LogGrows
    <2>3. UNCHANGED <<pc, kind, agentBuilt, context, turn, tools, pending, frames, pieces, http, connected>>
      BY <1>10 DEF FinishTool
    <2> QED
      BY <2>1, <2>2, <2>3 DEF TypeOK
  <1>11. ASSUME NEW r \in Requests, NextTurn(r) PROVE TypeOK'
    <2>1. pc' \in [Requests -> Places]
      BY <1>11, Placed DEF NextTurn, Places
    <2>2. turn' \in [Requests -> 0..MaxTurns + 1]
      <3>1. turn[r] <= MaxTurns /\ turn' = [turn EXCEPT ![r] = @ + 1]
        BY <1>11 DEF NextTurn, TraceInv, CallsAt
      <3>2. turn \in [Requests -> 0..MaxTurns + 1]
        BY DEF TypeOK
      <3> QED
        BY <3>1, <3>2, ServiceAssumption
    <2>3. UNCHANGED <<kind, agentBuilt, context, tools, pending, running, log, frames, pieces, http, connected>>
      BY <1>11 DEF NextTurn
    <2> QED
      BY <2>1, <2>2, <2>3 DEF TypeOK
  <1>12. ASSUME NEW r \in Requests, FinishReply(r) PROVE TypeOK'
    <2>1. pc' \in [Requests -> Places]
      BY <1>12, Placed DEF FinishReply, Places
    <2>2. /\ log' \in [Requests -> Seq(LineType)]
         /\ context' \in [Requests -> Requests \union {NoRequest}]
      BY <1>0, <1>12, CloseFacts DEF FinishReply
    <2>3. http' \in [Requests -> {0, 200, 400, 500}]
      <3>1. UNCHANGED http \/ http' = [http EXCEPT ![r] = 200]
        BY <1>12 DEF FinishReply
      <3>2. http \in [Requests -> {0, 200, 400, 500}]
        BY DEF TypeOK
      <3> QED
        BY <3>1, <3>2
    <2>4. UNCHANGED <<kind, agentBuilt, turn, tools, pending, running, frames, pieces, connected>>
      BY <1>12 DEF FinishReply
    <2> QED
      BY <2>1, <2>2, <2>3, <2>4 DEF TypeOK
  <1>13. ASSUME NEW r \in Requests, Resume(r) PROVE TypeOK'
    <2>1. pc' \in [Requests -> Places]
      BY <1>13, Placed DEF Resume, Places
    <2>2. frames' \in [Requests -> Seq(FrameKinds)]
      <3>1. UNCHANGED frames \/ Send(r, "piece")
        BY <1>13 DEF Resume
      <3> QED
        BY <3>1, SendType DEF FrameKinds, TypeOK
    <2>3. pieces' \in [Requests -> 0..MaxPieces]
      <3>1. UNCHANGED pieces \/ pieces' = [pieces EXCEPT ![r] = 1]
        BY <1>13 DEF Resume
      <3>2. pieces \in [Requests -> 0..MaxPieces]
        BY DEF TypeOK
      <3> QED
        BY <3>1, <3>2, ServiceAssumption
    <2>4. UNCHANGED <<kind, agentBuilt, context, turn, tools, pending, running, log, http, connected>>
      BY <1>13 DEF Resume
    <2> QED
      BY <2>1, <2>2, <2>3, <2>4 DEF TypeOK
  <1>14. ASSUME NEW r \in Requests, SendStop(r) PROVE TypeOK'
    <2>1. pc' \in [Requests -> Places]
      BY <1>14, Placed DEF SendStop, Places
    <2>2. frames' \in [Requests -> Seq(FrameKinds)]
      BY <1>14, SendType DEF SendStop, FrameKinds
    <2>3. UNCHANGED <<kind, agentBuilt, context, turn, tools, pending, running, log, pieces, http, connected>>
      BY <1>14 DEF SendStop
    <2> QED
      BY <2>1, <2>2, <2>3 DEF TypeOK
  <1>15. ASSUME NEW r \in Requests, SendDone(r) PROVE TypeOK'
    <2>1. pc' \in [Requests -> Places]
      BY <1>15, Placed DEF SendDone, Places
    <2>2. frames' \in [Requests -> Seq(FrameKinds)]
      BY <1>15, SendType DEF SendDone, FrameKinds
    <2>3. UNCHANGED <<kind, agentBuilt, context, turn, tools, pending, running, log, pieces, http, connected>>
      BY <1>15 DEF SendDone
    <2> QED
      BY <2>1, <2>2, <2>3 DEF TypeOK
  <1>16. ASSUME NEW r \in Requests, Disconnect(r) PROVE TypeOK'
    <2>1. connected' \in [Requests -> BOOLEAN]
      <3>1. connected' = [connected EXCEPT ![r] = FALSE]
        BY <1>16 DEF Disconnect
      <3>2. connected \in [Requests -> BOOLEAN]
        BY DEF TypeOK
      <3> QED
        BY <3>1, <3>2
    <2>2. UNCHANGED <<pc, kind, agentBuilt, context, turn, tools, pending, running, log, frames, pieces, http>>
      BY <1>16 DEF Disconnect
    <2> QED
      BY <2>1, <2>2 DEF TypeOK
  <1>17. ASSUME NEW r \in Requests, CancelRun(r) PROVE TypeOK'
    <2>1. pc' \in [Requests -> Places]
      BY <1>17, Placed DEF CancelRun, Places
    <2>2. /\ log' \in [Requests -> Seq(LineType)]
         /\ context' \in [Requests -> Requests \union {NoRequest}]
      BY <1>0, <1>17, CloseFacts DEF CancelRun
    <2>3. pending' \in [Requests -> 0..MaxBatch]
      <3>1. pending' = [pending EXCEPT ![r] = 0]
        BY <1>17 DEF CancelRun
      <3>2. pending \in [Requests -> 0..MaxBatch]
        BY DEF TypeOK
      <3> QED
        BY <3>1, <3>2, ServiceAssumption
    <2>4. running' \in [Requests -> SUBSET Nat]
      <3>1. running' = [running EXCEPT ![r] = {}]
        BY <1>17 DEF CancelRun
      <3>2. running \in [Requests -> SUBSET Nat]
        BY DEF TypeOK
      <3> QED
        BY <3>1, <3>2
    <2>5. UNCHANGED <<kind, agentBuilt, turn, tools, frames, pieces, http, connected>>
      BY <1>17 DEF CancelRun
    <2> QED
      BY <2>1, <2>2, <2>3, <2>4, <2>5 DEF TypeOK
  <1>18. ASSUME NEW r \in Requests, CancelSend(r) PROVE TypeOK'
    <2>1. pc' \in [Requests -> Places]
      BY <1>18, Placed DEF CancelSend, Places
    <2>2. UNCHANGED <<kind, agentBuilt, context, turn, tools, pending, running, log, frames, pieces, http, connected>>
      BY <1>18 DEF CancelSend
    <2> QED
      BY <2>1, <2>2 DEF TypeOK
  <1>19. ASSUME NEW r \in Requests, Finalize(r) PROVE TypeOK'
    <2>1. pc' \in [Requests -> Places]
      BY <1>19, Placed DEF Finalize, Places
    <2>2. log' \in [Requests -> Seq(LineType)]
      <3>1. PICK ctx \in CollectorContexts(r) : LogIn(r, Line("END_error", tools[r], ctx))
        BY <1>19 DEF Finalize
      <3>2. ctx \in Requests \union {NoRequest}
        BY DEF CollectorContexts, TypeOK
      <3>3. Line("END_error", tools[r], ctx) \in LineType
        BY <1>0, <3>2, LineHasType DEF TypeOK
      <3> QED
        BY <3>1, <3>3, LogGrows
    <2>3. context' \in [Requests -> Requests \union {NoRequest}]
      <3>1. context' = [context EXCEPT ![r] = NoRequest]
        BY <1>19 DEF Finalize
      <3>2. context \in [Requests -> Requests \union {NoRequest}]
        BY DEF TypeOK
      <3> QED
        BY <3>1, <3>2
    <2>4. UNCHANGED <<kind, agentBuilt, turn, tools, pending, running, frames, pieces, http, connected>>
      BY <1>19 DEF Finalize
    <2> QED
      BY <2>1, <2>2, <2>3, <2>4 DEF TypeOK
  <1>20. CASE UNCHANGED vars
    BY <1>20 DEF vars, TypeOK
  <1> QED
    BY StepCases, <1>1, <1>2, <1>3, <1>4, <1>5, <1>6, <1>7, <1>8, <1>9, <1>10,
       <1>11, <1>12, <1>13, <1>14, <1>15, <1>16, <1>17, <1>18, <1>19, <1>20 DEF Move

-----------------------------------------------------------------------------
(* Functions of the requests, all of them. *)
LEMMA Domains ==
  ASSUME TypeOK
  PROVE  /\ DOMAIN pc = Requests /\ DOMAIN kind = Requests /\ DOMAIN context = Requests
         /\ DOMAIN turn = Requests /\ DOMAIN tools = Requests /\ DOMAIN pending = Requests
         /\ DOMAIN running = Requests /\ DOMAIN log = Requests /\ DOMAIN frames = Requests
         /\ DOMAIN pieces = Requests /\ DOMAIN http = Requests /\ DOMAIN connected = Requests
  BY DEF TypeOK

(* The log of a request has one line more, and what that makes of the sets  *)
(* of lines and numbers the properties ask for.                             *)
Logged(r, what, n, ctx) ==
  /\ what \in LineKinds
  /\ Len(log'[r]) = Len(log[r]) + 1 /\ Len(log[r]) \in Nat /\ log'[r] # <<>>
  /\ \A i \in 1..Len(log[r]) : log'[r][i] = log[r][i]
  /\ log'[r][Len(log[r]) + 1] = Line(what, n, ctx)
  /\ Line(what, n, ctx).what = what /\ Line(what, n, ctx).n = n /\ Line(what, n, ctx).ctx = ctx
  /\ Lines(r)' = Lines(r) \union {Line(what, n, ctx)}
  /\ \A s \in LineKinds : Closed(r, s)' <=> what = s
  /\ \A s \in LineKinds : s # what => LinesOf(r, s)' = LinesOf(r, s) /\ Numbers(r, s)' = Numbers(r, s)
  /\ LinesOf(r, what)' = LinesOf(r, what) \union {Len(log[r]) + 1}
  /\ Numbers(r, what)' = Numbers(r, what) \union {n}

LEMMA LoggedLine ==
  ASSUME TypeOK, NEW r \in Requests, NEW what \in LineKinds, NEW n \in Nat,
         NEW ctx \in Requests \union {NoRequest}, LogIn(r, Line(what, n, ctx))
  PROVE  Logged(r, what, n, ctx)
  <1>1. /\ Line(what, n, ctx) \in LineType
        /\ Line(what, n, ctx).what = what /\ Line(what, n, ctx).n = n
        /\ Line(what, n, ctx).ctx = ctx
    BY LineHasType
  <1>2. /\ Len(log'[r]) = Len(log[r]) + 1 /\ Len(log[r]) \in Nat /\ log'[r] # <<>>
        /\ \A i \in 1..Len(log[r]) : log'[r][i] = log[r][i]
        /\ log'[r][Len(log[r]) + 1] = Line(what, n, ctx)
    BY <1>1, LogGrows
  <1>3. /\ Lines(r)' = Lines(r) \union {Line(what, n, ctx)}
        /\ \A s \in LineKinds : Closed(r, s)' <=> Line(what, n, ctx).what = s
        /\ \A s \in LineKinds : s # Line(what, n, ctx).what =>
             LinesOf(r, s)' = LinesOf(r, s) /\ Numbers(r, s)' = Numbers(r, s)
        /\ LinesOf(r, Line(what, n, ctx).what)'
             = LinesOf(r, Line(what, n, ctx).what) \union {Len(log[r]) + 1}
        /\ Numbers(r, Line(what, n, ctx).what)'
             = Numbers(r, Line(what, n, ctx).what) \union {Line(what, n, ctx).n}
    BY <1>1, LinesGrow
  <1> QED
    BY <1>1, <1>2, <1>3 DEF Logged

(* The client has been sent one frame more. *)
Sent(r, frame) ==
  /\ Len(frames'[r]) = Len(frames[r]) + 1 /\ Len(frames[r]) \in Nat /\ frames'[r] # <<>>
  /\ \A i \in 1..Len(frames[r]) : frames'[r][i] = frames[r][i]
  /\ frames'[r][Len(frames[r]) + 1] = frame

LEMMA SentFrame ==
  ASSUME TypeOK, NEW r \in Requests, NEW frame \in FrameKinds, Send(r, frame)
  PROVE  Sent(r, frame)
  <1>1. frames[r] \in Seq(FrameKinds) /\ frames'[r] = Append(frames[r], frame)
    BY DEF TypeOK, Send
  <1> QED
    BY <1>1 DEF Sent

(* What each action does to its request, value by value. *)
LEMMA ArriveEffect ==
  ASSUME TypeOK, NEW r \in Requests, Arrive(r)
  PROVE  /\ pc[r] = "new"
         /\ \/ pc'[r] = "answered" /\ http'[r] = 400 /\ kind'[r] = kind[r]
            \/ /\ kind'[r] \in Kinds /\ http'[r] = http[r]
               /\ pc'[r] = IF kind'[r] = "stream" THEN "role" ELSE "start"
         /\ context'[r] = context[r] /\ turn'[r] = turn[r]
         /\ tools'[r] = tools[r] /\ pending'[r] = pending[r]
         /\ running'[r] = running[r] /\ log'[r] = log[r]
         /\ frames'[r] = frames[r] /\ pieces'[r] = pieces[r]
         /\ connected'[r] = connected[r]
  BY Domains DEF Arrive, Goto

LEMMA SendRoleEffect ==
  ASSUME TypeOK, NEW r \in Requests, SendRole(r)
  PROVE  /\ pc[r] = "role"
         /\ pc'[r] = IF kind[r] = "stream" THEN "start" ELSE "sending"
         /\ Sent(r, "role")
         /\ kind'[r] = kind[r] /\ context'[r] = context[r] /\ turn'[r] = turn[r]
         /\ tools'[r] = tools[r] /\ pending'[r] = pending[r]
         /\ running'[r] = running[r] /\ log'[r] = log[r]
         /\ pieces'[r] = pieces[r] /\ http'[r] = http[r]
         /\ connected'[r] = connected[r]
  <1>1. Sent(r, "role")
    BY SentFrame DEF SendRole, FrameKinds
  <1> QED
    BY <1>1, Domains DEF SendRole, Goto

LEMMA CallReturnsEffect ==
  ASSUME TypeOK, NEW r \in Requests, CallReturns(r)
  PROVE  /\ pc[r] = "llm" /\ pc'[r] = "reply"
         /\ Logged(r, "LLM_CALL", turn[r], context[r])
         /\ kind'[r] = kind[r] /\ context'[r] = context[r] /\ turn'[r] = turn[r]
         /\ tools'[r] = tools[r] /\ pending'[r] = pending[r]
         /\ running'[r] = running[r] /\ frames'[r] = frames[r]
         /\ pieces'[r] = pieces[r] /\ http'[r] = http[r]
         /\ connected'[r] = connected[r]
  <1>1. DOMAIN pc = Requests /\ DOMAIN http = Requests /\ DOMAIN context = Requests
        /\ DOMAIN pending = Requests /\ DOMAIN running = Requests
    BY Domains
  <1>2. Logged(r, "LLM_CALL", turn[r], context[r])
    <2>1. LogIn(r, Line("LLM_CALL", turn[r], context[r]))
      BY DEF CallReturns
    <2>2. turn[r] \in Nat /\ context[r] \in Requests \union {NoRequest}
      BY ServiceAssumption DEF TypeOK
    <2> QED
      BY <2>1, <2>2, LoggedLine DEF LineKinds, Ends
  <1> QED
    BY <1>1, <1>2 DEF CallReturns, Goto

LEMMA CallFailsEffect ==
  ASSUME TypeOK, NEW r \in Requests, CallFails(r)
  PROVE  /\ pc[r] = "llm" /\ pc'[r] = "broken" /\ context'[r] = NoRequest
         /\ Logged(r, "END_error", tools[r], context[r])
         /\ http'[r] = IF kind[r] = "stream" THEN http[r] ELSE 500
         /\ kind'[r] = kind[r] /\ turn'[r] = turn[r] /\ tools'[r] = tools[r]
         /\ pending'[r] = pending[r] /\ running'[r] = running[r]
         /\ frames'[r] = frames[r] /\ pieces'[r] = pieces[r]
         /\ connected'[r] = connected[r]
  <1>1. DOMAIN pc = Requests /\ DOMAIN http = Requests /\ DOMAIN context = Requests
        /\ DOMAIN pending = Requests /\ DOMAIN running = Requests
    BY Domains
  <1>2. Logged(r, "END_error", tools[r], context[r])
    <2>1. LogIn(r, Line("END_error", tools[r], context[r]))
      BY DEF CallFails, Fail, CloseScope
    <2>2. tools[r] \in Nat /\ context[r] \in Requests \union {NoRequest}
      BY ServiceAssumption DEF TypeOK
    <2> QED
      BY <2>1, <2>2, LoggedLine DEF LineKinds, Ends
  <1> QED
    BY <1>1, <1>2 DEF CallFails, Fail, CloseScope, Goto

LEMMA ReplyBreaksEffect ==
  ASSUME TypeOK, NEW r \in Requests, ReplyBreaks(r)
  PROVE  /\ pc[r] = "reply" /\ kind[r] = "stream"
         /\ pc'[r] = "broken" /\ context'[r] = NoRequest
         /\ Logged(r, "END_error", tools[r], context[r])
         /\ kind'[r] = kind[r] /\ turn'[r] = turn[r] /\ tools'[r] = tools[r]
         /\ pending'[r] = pending[r] /\ running'[r] = running[r]
         /\ frames'[r] = frames[r] /\ pieces'[r] = pieces[r]
         /\ http'[r] = http[r] /\ connected'[r] = connected[r]
  <1>1. DOMAIN pc = Requests /\ DOMAIN http = Requests /\ DOMAIN context = Requests
        /\ DOMAIN pending = Requests /\ DOMAIN running = Requests
    BY Domains
  <1>2. Logged(r, "END_error", tools[r], context[r])
    <2>1. LogIn(r, Line("END_error", tools[r], context[r]))
      BY DEF ReplyBreaks, Fail, CloseScope
    <2>2. tools[r] \in Nat /\ context[r] \in Requests \union {NoRequest}
      BY ServiceAssumption DEF TypeOK
    <2> QED
      BY <2>1, <2>2, LoggedLine DEF LineKinds, Ends
  <1> QED
    BY <1>1, <1>2 DEF ReplyBreaks, Fail, CloseScope, Goto

LEMMA SendPieceEffect ==
  ASSUME TypeOK, NEW r \in Requests, SendPiece(r)
  PROVE  /\ pc[r] = "reply" /\ kind[r] = "stream" /\ pc'[r] = "sending"
         /\ Sent(r, "piece")
         /\ kind'[r] = kind[r] /\ context'[r] = context[r] /\ turn'[r] = turn[r]
         /\ tools'[r] = tools[r] /\ pending'[r] = pending[r]
         /\ running'[r] = running[r] /\ log'[r] = log[r] /\ http'[r] = http[r]
         /\ connected'[r] = connected[r]
  <1>1. Sent(r, "piece")
    BY SentFrame DEF SendPiece, FrameKinds
  <1> QED
    BY <1>1, Domains DEF SendPiece, Goto

LEMMA RequestToolsEffect ==
  ASSUME TypeOK, NEW r \in Requests, RequestTools(r)
  PROVE  /\ pc[r] = "reply" /\ turn[r] <= MaxTurns /\ pc'[r] = "tools"
         /\ kind'[r] = kind[r] /\ context'[r] = context[r] /\ turn'[r] = turn[r]
         /\ tools'[r] = tools[r] /\ running'[r] = running[r] /\ log'[r] = log[r]
         /\ frames'[r] = frames[r] /\ pieces'[r] = pieces[r]
         /\ http'[r] = http[r] /\ connected'[r] = connected[r]
  BY Domains DEF RequestTools, Goto

LEMMA StartToolEffect ==
  ASSUME TypeOK, NEW r \in Requests, StartTool(r)
  PROVE  /\ pc[r] = "tools" /\ tools'[r] = tools[r] + 1
         /\ running'[r] = running[r] \union {tools[r] + 1}
         /\ pc'[r] = pc[r] /\ kind'[r] = kind[r] /\ context'[r] = context[r]
         /\ turn'[r] = turn[r] /\ log'[r] = log[r] /\ frames'[r] = frames[r]
         /\ pieces'[r] = pieces[r] /\ http'[r] = http[r]
         /\ connected'[r] = connected[r]
  BY Domains DEF StartTool, Goto

LEMMA FinishToolEffect ==
  ASSUME TypeOK, NEW r \in Requests, FinishTool(r)
  PROVE  /\ pc[r] = "tools"
         /\ \E n \in running[r] :
               running'[r] = running[r] \ {n} /\ Logged(r, "TOOL", n, context[r])
         /\ pc'[r] = pc[r] /\ kind'[r] = kind[r] /\ context'[r] = context[r]
         /\ turn'[r] = turn[r] /\ tools'[r] = tools[r]
         /\ pending'[r] = pending[r] /\ frames'[r] = frames[r]
         /\ pieces'[r] = pieces[r] /\ http'[r] = http[r]
         /\ connected'[r] = connected[r]
  <1>1. DOMAIN pc = Requests /\ DOMAIN http = Requests /\ DOMAIN context = Requests
        /\ DOMAIN pending = Requests /\ DOMAIN running = Requests
    BY Domains
  <1>2. \E n \in running[r] :
          running' = [running EXCEPT ![r] = @ \ {n}] /\ Logged(r, "TOOL", n, context[r])
    <2>1. PICK n \in running[r] : /\ running' = [running EXCEPT ![r] = @ \ {n}]
                                  /\ LogIn(r, Line("TOOL", n, context[r]))
      BY DEF FinishTool
    <2>2. n \in Nat /\ context[r] \in Requests \union {NoRequest}
      BY DEF TypeOK
    <2> QED
      BY <2>1, <2>2, LoggedLine DEF LineKinds
  <1> QED
    BY <1>1, <1>2 DEF FinishTool, Goto

LEMMA NextTurnEffect ==
  ASSUME TypeOK, NEW r \in Requests, NextTurn(r)
  PROVE  /\ pc[r] = "tools" /\ pending[r] = 0 /\ running[r] = {}
         /\ pc'[r] = "llm" /\ turn'[r] = turn[r] + 1
         /\ kind'[r] = kind[r] /\ context'[r] = context[r]
         /\ tools'[r] = tools[r] /\ pending'[r] = pending[r]
         /\ running'[r] = running[r] /\ log'[r] = log[r]
         /\ frames'[r] = frames[r] /\ pieces'[r] = pieces[r]
         /\ http'[r] = http[r] /\ connected'[r] = connected[r]
  BY Domains DEF NextTurn, Goto

LEMMA FinishReplyEffect ==
  ASSUME TypeOK, NEW r \in Requests, FinishReply(r)
  PROVE  /\ pc[r] = "reply" /\ context'[r] = NoRequest
         /\ Logged(r, "END_ok", tools[r], context[r])
         /\ pc'[r] = CASE kind[r] = "stream" -> "ended"
                      [] kind[r] = "taskStream" -> "role"
                      [] OTHER -> "answered"
         /\ http'[r] = IF Streams(r) THEN http[r] ELSE 200
         /\ kind'[r] = kind[r] /\ turn'[r] = turn[r] /\ tools'[r] = tools[r]
         /\ pending'[r] = pending[r] /\ running'[r] = running[r]
         /\ frames'[r] = frames[r] /\ pieces'[r] = pieces[r]
         /\ connected'[r] = connected[r]
  <1>1. DOMAIN pc = Requests /\ DOMAIN http = Requests /\ DOMAIN context = Requests
        /\ DOMAIN pending = Requests /\ DOMAIN running = Requests
    BY Domains
  <1>2. Logged(r, "END_ok", tools[r], context[r])
    <2>1. LogIn(r, Line("END_ok", tools[r], context[r]))
      BY DEF FinishReply, CloseScope
    <2>2. tools[r] \in Nat /\ context[r] \in Requests \union {NoRequest}
      BY ServiceAssumption DEF TypeOK
    <2> QED
      BY <2>1, <2>2, LoggedLine DEF LineKinds, Ends
  <1> QED
    BY <1>1, <1>2 DEF FinishReply, CloseScope, Goto

LEMMA ResumeEffect ==
  ASSUME TypeOK, NEW r \in Requests, Resume(r)
  PROVE  /\ pc[r] = "sending"
         /\ pc'[r] = IF kind[r] = "stream" THEN "reply" ELSE "ended"
         /\ frames'[r] = frames[r] \/ (kind[r] # "stream" /\ Sent(r, "piece"))
         /\ kind'[r] = kind[r] /\ context'[r] = context[r] /\ turn'[r] = turn[r]
         /\ tools'[r] = tools[r] /\ pending'[r] = pending[r]
         /\ running'[r] = running[r] /\ log'[r] = log[r] /\ http'[r] = http[r]
         /\ connected'[r] = connected[r]
  <1>1. frames'[r] = frames[r] \/ (kind[r] # "stream" /\ Sent(r, "piece"))
    BY SentFrame DEF Resume, FrameKinds
  <1> QED
    BY <1>1, Domains DEF Resume, Goto

LEMMA SendStopEffect ==
  ASSUME TypeOK, NEW r \in Requests, SendStop(r)
  PROVE  /\ pc[r] = "ended" /\ pc'[r] = "stop" /\ Sent(r, "stop")
         /\ kind'[r] = kind[r] /\ context'[r] = context[r] /\ turn'[r] = turn[r]
         /\ tools'[r] = tools[r] /\ pending'[r] = pending[r]
         /\ running'[r] = running[r] /\ log'[r] = log[r]
         /\ pieces'[r] = pieces[r] /\ http'[r] = http[r]
         /\ connected'[r] = connected[r]
  <1>1. Sent(r, "stop")
    BY SentFrame DEF SendStop, FrameKinds
  <1> QED
    BY <1>1, Domains DEF SendStop, Goto

LEMMA SendDoneEffect ==
  ASSUME TypeOK, NEW r \in Requests, SendDone(r)
  PROVE  /\ pc[r] = "stop" /\ pc'[r] = "answered" /\ Sent(r, "DONE")
         /\ kind'[r] = kind[r] /\ context'[r] = context[r] /\ turn'[r] = turn[r]
         /\ tools'[r] = tools[r] /\ pending'[r] = pending[r]
         /\ running'[r] = running[r] /\ log'[r] = log[r]
         /\ pieces'[r] = pieces[r] /\ http'[r] = http[r]
         /\ connected'[r] = connected[r]
  <1>1. Sent(r, "DONE")
    BY SentFrame DEF SendDone, FrameKinds
  <1> QED
    BY <1>1, Domains DEF SendDone, Goto

LEMMA DisconnectEffect ==
  ASSUME TypeOK, NEW r \in Requests, Disconnect(r)
  PROVE  /\ ~connected'[r]
         /\ pc[r] \notin {"new", "answered", "broken"}
         /\ pc'[r] = pc[r] /\ kind'[r] = kind[r] /\ context'[r] = context[r]
         /\ turn'[r] = turn[r] /\ tools'[r] = tools[r]
         /\ pending'[r] = pending[r] /\ running'[r] = running[r]
         /\ log'[r] = log[r] /\ frames'[r] = frames[r] /\ pieces'[r] = pieces[r]
         /\ http'[r] = http[r]
  BY Domains DEF Disconnect, Goto

LEMMA CancelRunEffect ==
  ASSUME TypeOK, NEW r \in Requests, CancelRun(r)
  PROVE  /\ pc[r] \in {"llm", "reply", "tools"} /\ kind[r] = "stream" /\ ~connected[r]
         /\ pc'[r] = "gone" /\ context'[r] = NoRequest
         /\ pending'[r] = 0 /\ running'[r] = {}
         /\ Logged(r, "END_error", tools[r], context[r])
         /\ kind'[r] = kind[r] /\ turn'[r] = turn[r] /\ tools'[r] = tools[r]
         /\ frames'[r] = frames[r] /\ pieces'[r] = pieces[r]
         /\ http'[r] = http[r] /\ connected'[r] = connected[r]
  <1>1. DOMAIN pc = Requests /\ DOMAIN http = Requests /\ DOMAIN context = Requests
        /\ DOMAIN pending = Requests /\ DOMAIN running = Requests
    BY Domains
  <1>2. Logged(r, "END_error", tools[r], context[r])
    <2>1. LogIn(r, Line("END_error", tools[r], context[r]))
      BY DEF CancelRun, CloseScope, Cancellable
    <2>2. tools[r] \in Nat /\ context[r] \in Requests \union {NoRequest}
      BY ServiceAssumption DEF TypeOK
    <2> QED
      BY <2>1, <2>2, LoggedLine DEF LineKinds, Ends
  <1> QED
    BY <1>1, <1>2 DEF CancelRun, CloseScope, Cancellable, Goto

LEMMA CancelSendEffect ==
  ASSUME TypeOK, NEW r \in Requests, CancelSend(r)
  PROVE  /\ ~connected[r] /\ Streams(r)
         /\ \/ pc[r] = "sending" /\ kind[r] = "stream" /\ pc'[r] = "orphan"
            \/ /\ \/ pc[r] \in {"role", "ended", "stop"}
                  \/ pc[r] = "start" /\ kind[r] = "stream"
                  \/ pc[r] = "sending" /\ kind[r] = "taskStream"
               /\ pc'[r] = "gone"
         /\ kind'[r] = kind[r] /\ context'[r] = context[r] /\ turn'[r] = turn[r]
         /\ tools'[r] = tools[r] /\ pending'[r] = pending[r]
         /\ running'[r] = running[r] /\ log'[r] = log[r]
         /\ frames'[r] = frames[r] /\ pieces'[r] = pieces[r]
         /\ http'[r] = http[r] /\ connected'[r] = connected[r]
  BY Domains DEF CancelSend, Cancellable, Goto

LEMMA FinalizeEffect ==
  ASSUME TypeOK, NEW r \in Requests, Finalize(r)
  PROVE  /\ pc[r] = "orphan" /\ pc'[r] = "gone" /\ context'[r] = NoRequest
         /\ \E ctx \in Requests \union {NoRequest} : Logged(r, "END_error", tools[r], ctx)
         /\ kind'[r] = kind[r] /\ turn'[r] = turn[r] /\ tools'[r] = tools[r]
         /\ pending'[r] = pending[r] /\ running'[r] = running[r]
         /\ frames'[r] = frames[r] /\ pieces'[r] = pieces[r]
         /\ http'[r] = http[r] /\ connected'[r] = connected[r]
  <1>1. DOMAIN pc = Requests /\ DOMAIN http = Requests /\ DOMAIN context = Requests
        /\ DOMAIN pending = Requests /\ DOMAIN running = Requests
    BY Domains
  <1>2. \E ctx \in Requests \union {NoRequest} : Logged(r, "END_error", tools[r], ctx)
    <2>1. PICK ctx \in CollectorContexts(r) : LogIn(r, Line("END_error", tools[r], ctx))
      BY DEF Finalize
    <2>2. tools[r] \in Nat /\ ctx \in Requests \union {NoRequest}
      BY DEF TypeOK, CollectorContexts
    <2> QED
      BY <2>1, <2>2, LoggedLine DEF LineKinds, Ends
  <1> QED
    BY <1>1, <1>2 DEF Finalize, Goto

(* A pair, as the log of an agent that could not be built is one. *)
LEMMA Pair ==
  ASSUME NEW x, NEW y
  PROVE  /\ <<>> \o <<x, y>> = <<x, y>> /\ Len(<<x, y>>) = 2 /\ <<x, y>> # <<>>
         /\ <<x, y>>[1] = x /\ <<x, y>>[2] = y
  OBVIOUS

(* Two lines, a START and the END of an error, are all of a log. *)
Stillborn(r, ctx) ==
  /\ Len(log'[r]) = 2 /\ log'[r] # <<>>
  /\ log'[r][1] = Line("START", 0, ctx) /\ log'[r][2] = Line("END_error", 0, r)

(* Entering the scope: the agent runs, or could not be built and the scope  *)
(* is closed at once.                                                       *)
LEMMA StartEffect ==
  ASSUME TypeOK, NEW r \in Requests, Start(r), log[r] = <<>>
  PROVE  /\ pc[r] = "start"
         /\ \/ /\ pc'[r] = "llm" /\ context'[r] = r /\ turn'[r] = 1 /\ http'[r] = http[r]
               /\ Logged(r, "START", 0, context[r])
            \/ /\ pc'[r] = "broken" /\ context'[r] = context[r] /\ turn'[r] = turn[r]
               /\ http'[r] = IF kind[r] = "stream" THEN http[r] ELSE 500
               /\ Stillborn(r, context[r])
         /\ kind'[r] = kind[r] /\ tools'[r] = tools[r] /\ pending'[r] = pending[r]
         /\ running'[r] = running[r] /\ frames'[r] = frames[r] /\ pieces'[r] = pieces[r]
         /\ connected'[r] = connected[r]
  <1>1. CASE Goto(r, "llm") /\ LogIn(r, Line("START", 0, context[r]))
             /\ context' = [context EXCEPT ![r] = r] /\ turn' = [turn EXCEPT ![r] = 1]
             /\ UNCHANGED http
    <2>1. context[r] \in Requests \union {NoRequest}
      BY DEF TypeOK
    <2>2. Logged(r, "START", 0, context[r])
      BY <1>1, <2>1, LoggedLine DEF LineKinds
    <2>3. pc'[r] = "llm" /\ context'[r] = r /\ turn'[r] = 1
      BY <1>1, Domains DEF Goto
    <2> QED
      BY <1>1, <2>2, <2>3 DEF Start
  <1>2. CASE /\ log' = [log EXCEPT ![r] = @ \o <<Line("START", 0, context[r]),
                                              Line("END_error", 0, r)>>]
             /\ Goto(r, "broken")
             /\ http' = IF kind[r] = "stream" THEN http ELSE [http EXCEPT ![r] = 500]
             /\ UNCHANGED <<context, turn>>
    <2>1. log'[r] = <<>> \o <<Line("START", 0, context[r]), Line("END_error", 0, r)>>
      BY <1>2, Domains
    <2>2. Stillborn(r, context[r])
      <3>1. ASSUME NEW x, NEW y, log'[r] = <<>> \o <<x, y>>
            PROVE  /\ Len(log'[r]) = 2 /\ log'[r] # <<>>
                   /\ log'[r][1] = x /\ log'[r][2] = y
        <4>1. log'[r] = <<x, y>>
          BY <3>1, Pair, ZenonT(30)
        <4> DEFINE p == <<x, y>>
        <4>2. Len(p) = 2 /\ p # <<>> /\ p[1] = x /\ p[2] = y
          BY Pair, Zenon
        <4>3. log'[r] = p
          BY <4>1
        <4> HIDE DEF p
        <4> QED
          BY <4>2, <4>3
      <3> QED
        BY <2>1, <3>1, Zenon DEF Stillborn
    <2>3. pc'[r] = "broken" /\ http'[r] = IF kind[r] = "stream" THEN http[r] ELSE 500
      BY <1>2, Domains DEF Goto
    <2> QED
      BY <1>2, <2>2, <2>3 DEF Start
  <1> QED
    BY <1>1, <1>2 DEF Start

(* The log of an agent that could not be built. *)
LEMMA BrokenStart ==
  ASSUME NEW r \in Requests, NEW ctx \in Requests \union {NoRequest}, Stillborn(r, ctx)
  PROVE  /\ Line("START", 0, ctx).what = "START" /\ Line("END_error", 0, r).what = "END_error"
         /\ Line("END_error", 0, r).n = 0 /\ Line("END_error", 0, r).ctx = r
         /\ Lines(r)' = {Line("START", 0, ctx), Line("END_error", 0, r)}
         /\ Closed(r, "END_error")' /\ ~Closed(r, "END_ok")'
         /\ LinesOf(r, "TOOL")' = {} /\ Numbers(r, "TOOL")' = {} /\ Numbers(r, "LLM_CALL")' = {}
  <1>1. /\ Line("START", 0, ctx).what = "START" /\ Line("END_error", 0, r).what = "END_error"
        /\ Line("END_error", 0, r).n = 0 /\ Line("END_error", 0, r).ctx = r
    BY DEF Line
  <1>2. /\ Len(log'[r]) = 2 /\ log'[r] # <<>>
        /\ log'[r][1] = Line("START", 0, ctx) /\ log'[r][2] = Line("END_error", 0, r)
    BY DEF Stillborn
  <1>3. Lines(r)' = {Line("START", 0, ctx), Line("END_error", 0, r)}
    <2>1. 1..2 = {1, 2}
      OBVIOUS
    <2> QED
      BY <1>2, <2>1 DEF Lines
  <1>4. Closed(r, "END_error")' /\ ~Closed(r, "END_ok")'
    BY <1>1, <1>2 DEF Closed
  <1>5. LinesOf(r, "TOOL")' = {}
    <2>1. 1..2 = {1, 2}
      OBVIOUS
    <2>2. \A i \in 1..Len(log'[r]) : log'[r][i].what # "TOOL"
      BY <1>1, <1>2, <2>1
    <2> QED
      BY <2>2 DEF LinesOf
  <1>6. Numbers(r, "TOOL")' = {} /\ Numbers(r, "LLM_CALL")' = {}
    BY <1>1, <1>3 DEF Numbers
  <1> QED
    BY <1>1, <1>2, <1>3, <1>4, <1>5, <1>6

(* Nothing about a request changes. *)
Same(q) ==
  /\ pc'[q] = pc[q] /\ kind'[q] = kind[q] /\ context'[q] = context[q] /\ turn'[q] = turn[q]
  /\ tools'[q] = tools[q] /\ pending'[q] = pending[q] /\ running'[q] = running[q]
  /\ log'[q] = log[q] /\ frames'[q] = frames[q] /\ pieces'[q] = pieces[q]
  /\ http'[q] = http[q] /\ connected'[q] = connected[q]

(* A step of one request leaves the others alone. *)
LEMMA OthersStay ==
  ASSUME TypeOK, NEW r \in Requests, Move(r), NEW q \in Requests \ {r}
  PROVE  Same(q)
  <1> USE Domains DEF Goto, Send, Same
  <1>1. CASE Start(r)
    <2>1. \/ LogIn(r, Line("START", 0, context[r]))
          \/ log' = [log EXCEPT ![r] = @ \o <<Line("START", 0, context[r]),
                                             Line("END_error", 0, r)>>]
      BY <1>1 DEF Start
    <2>2. log'[q] = log[q]
      BY <2>1 DEF LogIn
    <2>3. \E place \in Places : Goto(r, place)
      BY <1>1 DEF Start, Places
    <2>4. UNCHANGED context \/ context' = [context EXCEPT ![r] = r]
      BY <1>1 DEF Start
    <2>5. UNCHANGED turn \/ turn' = [turn EXCEPT ![r] = 1]
      BY <1>1 DEF Start
    <2>6. UNCHANGED http \/ http' = [http EXCEPT ![r] = 500]
      BY <1>1 DEF Start
    <2>7. UNCHANGED <<kind, tools, pending, running, frames, pieces, connected>>
      BY <1>1 DEF Start
    <2> QED
      BY <2>2, <2>3, <2>4, <2>5, <2>6, <2>7
  <1>2. CASE Arrive(r)
    BY <1>2 DEF Arrive
  <1>3. CASE SendRole(r) \/ SendPiece(r) \/ Resume(r) \/ SendStop(r) \/ SendDone(r)
    BY <1>3 DEF SendRole, SendPiece, Resume, SendStop, SendDone
  <1>4. CASE CallReturns(r) \/ FinishTool(r)
    BY <1>4 DEF CallReturns, FinishTool, LogIn
  <1>5. CASE CallFails(r) \/ ReplyBreaks(r)
    <2>1. Fail(r) /\ UNCHANGED <<kind, turn, tools, pending, running, frames, pieces, connected>>
      BY <1>5 DEF CallFails, ReplyBreaks
    <2> QED
      BY <2>1 DEF Fail, CloseScope, LogIn
  <1>6. CASE FinishReply(r)
    BY <1>6 DEF FinishReply, CloseScope, LogIn
  <1>7. CASE RequestTools(r) \/ StartTool(r) \/ NextTurn(r)
    BY <1>7 DEF RequestTools, StartTool, NextTurn
  <1>8. CASE CancelRun(r) \/ Finalize(r)
    BY <1>8 DEF CancelRun, Finalize, CloseScope, LogIn
  <1>9. CASE Disconnect(r) \/ CancelSend(r)
    BY <1>9 DEF Disconnect, CancelSend
  <1> QED
    BY <1>1, <1>2, <1>3, <1>4, <1>5, <1>6, <1>7, <1>8, <1>9 DEF Move

(* What is asked of a log, of a log that has not changed. *)
LEMMA SameLog ==
  ASSUME NEW r \in Requests, log'[r] = log[r]
  PROVE  /\ \A s : Closed(r, s)' <=> Closed(r, s)
         /\ \A s : LinesOf(r, s)' = LinesOf(r, s) /\ Numbers(r, s)' = Numbers(r, s)
         /\ Lines(r)' = Lines(r)
  <1>1. Lines(r)' = Lines(r)
    BY DEF Lines
  <1>2. \A s : Closed(r, s)' <=> Closed(r, s)
    BY DEF Closed
  <1>3. \A s : LinesOf(r, s)' = LinesOf(r, s)
    BY DEF LinesOf
  <1>4. \A s : Numbers(r, s)' = Numbers(r, s)
    BY <1>1 DEF Numbers
  <1> QED
    BY <1>1, <1>2, <1>3, <1>4

-----------------------------------------------------------------------------
(* The scope of a request follows its places: it is opened by Start alone,  *)
(* closed by whatever ends the agent's run, and stays closed.               *)
LEMMA ScopeKept ==
  ASSUME TypeOK, NEW r \in Requests, ScopeAt(r), Move(r)
  PROVE  ScopeAt(r)'
  <1>1. CASE Arrive(r)
    BY <1>1, ArriveEffect, SameLog DEF ScopeAt, Inside, Streams
  <1>2. CASE SendRole(r)
    BY <1>2, SendRoleEffect, SameLog DEF ScopeAt, Inside, Streams
  <1>3. CASE Start(r)
    <2>1. log[r] = <<>>
      BY <1>3 DEF Start, ScopeAt
    <2>2. context[r] \in Requests \union {NoRequest}
      BY DEF TypeOK
    <2>3. CASE pc'[r] = "llm"
      <3>1. /\ context'[r] = r /\ turn'[r] = 1 /\ log'[r] # <<>>
            /\ \A s \in Ends : ~Closed(r, s)'
        BY <1>3, <2>1, <2>3, StartEffect DEF Logged, LineKinds, Ends
      <3>2. Inside(r)'
        BY <2>3 DEF Inside
      <3> QED
        BY <2>3, <3>1, <3>2 DEF ScopeAt
    <2>4. CASE pc'[r] = "broken"
      <3>1. /\ context'[r] = context[r] /\ pc[r] = "start" /\ Closed(r, "END_error")'
        BY <1>3, <2>1, <2>2, <2>4, StartEffect, BrokenStart
      <3> QED
        BY <2>4, <3>1 DEF ScopeAt, Inside
    <2> QED
      BY <1>3, <2>1, <2>3, <2>4, StartEffect
  <1>4. CASE CallReturns(r)
    BY <1>4, CallReturnsEffect DEF ScopeAt, Inside, Streams, Logged, LineKinds, Ends
  <1>5. CASE CallFails(r)
    BY <1>5, CallFailsEffect DEF ScopeAt, Inside, Streams, Logged, LineKinds, Ends
  <1>6. CASE ReplyBreaks(r)
    BY <1>6, ReplyBreaksEffect DEF ScopeAt, Inside, Streams, Logged, LineKinds, Ends
  <1>7. CASE SendPiece(r)
    BY <1>7, SendPieceEffect, SameLog DEF ScopeAt, Inside, Streams
  <1>8. CASE RequestTools(r)
    BY <1>8, RequestToolsEffect, SameLog DEF ScopeAt, Inside, Streams
  <1>9. CASE StartTool(r)
    BY <1>9, StartToolEffect, SameLog DEF ScopeAt, Inside, Streams
  <1>10. CASE FinishTool(r)
    BY <1>10, FinishToolEffect DEF ScopeAt, Inside, Streams, Logged, LineKinds, Ends
  <1>11. CASE NextTurn(r)
    <2>1. turn[r] \in Nat
      BY ServiceAssumption DEF TypeOK
    <2>2. Inside(r) /\ Inside(r)' /\ \A s : Closed(r, s)' <=> Closed(r, s)
      BY <1>11, NextTurnEffect, SameLog DEF Inside
    <2> QED
      BY <1>11, <2>1, <2>2, NextTurnEffect DEF ScopeAt
  <1>12. CASE FinishReply(r)
    BY <1>12, FinishReplyEffect DEF ScopeAt, Inside, Streams, Logged, LineKinds, Ends
  <1>13. CASE Resume(r)
    BY <1>13, ResumeEffect, SameLog DEF ScopeAt, Inside, Streams
  <1>14. CASE SendStop(r)
    BY <1>14, SendStopEffect, SameLog DEF ScopeAt, Inside, Streams
  <1>15. CASE SendDone(r)
    BY <1>15, SendDoneEffect, SameLog DEF ScopeAt, Inside, Streams
  <1>16. CASE Disconnect(r)
    BY <1>16, DisconnectEffect, SameLog DEF ScopeAt, Inside, Streams
  <1>17. CASE CancelRun(r)
    BY <1>17, CancelRunEffect DEF ScopeAt, Inside, Streams, Logged, LineKinds, Ends
  <1>18. CASE CancelSend(r)
    <2>1. CASE pc'[r] = "orphan"
      BY <1>18, <2>1, CancelSendEffect, SameLog DEF ScopeAt, Inside, Streams
    <2>2. CASE pc'[r] = "gone"
      BY <1>18, <2>2, CancelSendEffect, SameLog DEF ScopeAt, Inside, Streams, Ends
    <2> QED
      BY <1>18, <2>1, <2>2, CancelSendEffect
  <1>19. CASE Finalize(r)
    BY <1>19, FinalizeEffect DEF ScopeAt, Inside, Streams, Logged, LineKinds, Ends
  <1> QED
    BY <1>1, <1>2, <1>3, <1>4, <1>5, <1>6, <1>7, <1>8, <1>9, <1>10, <1>11, <1>12,
       <1>13, <1>14, <1>15, <1>16, <1>17, <1>18, <1>19 DEF Move

(* A step of one request leaves the scopes of the others alone.             *)
LEMMA ScopeStep == TypeOK /\ ScopeInv /\ [Next]_vars => ScopeInv'
  <1> SUFFICES ASSUME TypeOK, ScopeInv, [Next]_vars, NEW q \in Requests
               PROVE  ScopeAt(q)'
    BY DEF ScopeInv
  <1>1. ScopeAt(q)
    BY DEF ScopeInv
  <1>2. CASE Same(q)
    <2>1. /\ \A s : Closed(q, s)' <=> Closed(q, s)
          /\ \A s : LinesOf(q, s)' = LinesOf(q, s) /\ Numbers(q, s)' = Numbers(q, s)
          /\ Lines(q)' = Lines(q) /\ Inside(q)' = Inside(q) /\ Streams(q)' = Streams(q)
      BY <1>2, SameLog DEF Same, Inside, Streams
    <2> QED
      BY <1>1, <1>2, <2>1 DEF Same, ScopeAt
  <1>3. CASE Move(q)
    BY <1>1, <1>3, ScopeKept
  <1>4. Same(q) \/ Move(q)
    BY StepCases, OthersStay DEF vars, Same
  <1> QED
    BY <1>2, <1>3, <1>4

-----------------------------------------------------------------------------
(* What a step may do to a log: nothing, open it, or, while the agent runs,  *)
(* add the line of a call or the END line; its own context is missing only  *)
(* from the END line of a request whose client has gone.                    *)
LEMMA LogCases ==
  ASSUME TypeOK, NEW r \in Requests, ScopeAt(r), Move(r)
  PROVE  /\ connected'[r] => connected[r]
         /\ \/ log'[r] = log[r]
            \/ log[r] = <<>> /\ Logged(r, "START", 0, context[r])
            \/ log[r] = <<>> /\ Stillborn(r, context[r])
            \/ Inside(r) /\ \E n \in Nat : \/ Logged(r, "LLM_CALL", n, context[r])
                                          \/ Logged(r, "TOOL", n, context[r])
            \/ Inside(r) /\ \E s \in Ends, ctx \in Requests \union {NoRequest} :
                 Logged(r, s, tools[r], ctx) /\ (ctx = context[r] \/ ~connected'[r])
  <1> USE DEF Inside, Ends
  <1>1. CASE Start(r)
    <2>1. log[r] = <<>>
      BY <1>1 DEF Start, ScopeAt
    <2> QED
      BY <1>1, <2>1, StartEffect
  <1>2. CASE CallReturns(r)
    <2>1. turn[r] \in Nat
      BY ServiceAssumption DEF TypeOK
    <2> QED
      BY <1>2, <2>1, CallReturnsEffect
  <1>3. CASE FinishTool(r)
    <2>1. running[r] \subseteq Nat
      BY DEF TypeOK
    <2> QED
      BY <1>3, <2>1, FinishToolEffect
  <1>4. CASE CallFails(r) \/ ReplyBreaks(r) \/ FinishReply(r) \/ CancelRun(r)
    <2>1. context[r] \in Requests \union {NoRequest}
      BY DEF TypeOK
    <2> QED
      BY <1>4, <2>1, CallFailsEffect, ReplyBreaksEffect, FinishReplyEffect, CancelRunEffect
  <1>5. CASE Finalize(r)
    <2>1. Inside(r) /\ ~connected[r]
      BY <1>5, FinalizeEffect DEF ScopeAt
    <2> QED
      BY <1>5, <2>1, FinalizeEffect
  <1>6. CASE \/ Arrive(r) \/ SendRole(r) \/ SendPiece(r) \/ RequestTools(r) \/ StartTool(r)
             \/ NextTurn(r) \/ Resume(r) \/ SendStop(r) \/ SendDone(r) \/ CancelSend(r)
    BY <1>6, ArriveEffect, SendRoleEffect, SendPieceEffect, RequestToolsEffect, StartToolEffect,
       NextTurnEffect, ResumeEffect, SendStopEffect, SendDoneEffect, CancelSendEffect
  <1>7. CASE Disconnect(r)
    BY <1>7, DisconnectEffect
  <1> QED
    BY <1>1, <1>2, <1>3, <1>4, <1>5, <1>6, <1>7 DEF Move

(* LogIsWellFormed, of one request. *)
LogAt(r) ==
  /\ \A i \in 1..Len(log[r]) :
       /\ log[r][i].what = "START" <=> i = 1
       /\ log[r][i].what \in Ends => i = Len(log[r])
  /\ Left(r) /\ log[r] # <<>> => log[r][Len(log[r])].what \in Ends

(* A log opens with its only START line and takes no line after an END.     *)
LEMMA LogKept ==
  ASSUME TypeOK, NEW r \in Requests, ScopeAt(r), LogAt(r), Move(r)
  PROVE  LogAt(r)'
  <1>1. Left(r)' /\ log'[r] # <<>> => log'[r][Len(log'[r])].what \in Ends
    <2>1. ScopeAt(r)'
      BY ScopeKept
    <2> QED
      BY <2>1 DEF ScopeAt, Left, Closed, Ends
  <1>2. CASE log'[r] = log[r]
    BY <1>1, <1>2 DEF LogAt, Left
  <1>3. CASE log[r] = <<>> /\ Logged(r, "START", 0, context[r])
    <2>1. Len(log'[r]) = 1 /\ log'[r][1].what = "START"
      BY <1>3 DEF Logged
    <2> QED
      BY <1>1, <2>1 DEF LogAt, Ends
  <1>4. CASE Stillborn(r, context[r])
    <2>1. context[r] \in Requests \union {NoRequest}
      BY DEF TypeOK
    <2>2. Len(log'[r]) = 2 /\ log'[r][1].what = "START" /\ log'[r][2].what = "END_error"
      BY <1>4, <2>1, BrokenStart DEF Stillborn
    <2> QED
      BY <1>1, <2>2 DEF LogAt, Ends
  (* The log is open: it has a START line and no END line yet.              *)
  <1>5. ASSUME Inside(r), NEW what \in LineKinds \ {"START"}, NEW n, NEW ctx,
               Logged(r, what, n, ctx)
        PROVE  LogAt(r)'
    <2>1. log[r] # <<>> /\ Len(log[r]) \in Nat /\ \A s \in Ends : log[r][Len(log[r])].what # s
      BY <1>5 DEF ScopeAt, Closed, Logged
    <2>2. Len(log[r]) > 0
      <3>1. log[r] \in Seq(LineType)
        BY DEF TypeOK
      <3> QED
        BY <2>1, <3>1
    <2>3. \A i \in 1..Len(log[r]) : (log[r][i].what = "START" <=> i = 1) /\ log[r][i].what \notin Ends
      BY <2>1 DEF LogAt
    <2>4. /\ Len(log'[r]) = Len(log[r]) + 1
          /\ \A i \in 1..Len(log[r]) : log'[r][i] = log[r][i]
          /\ log'[r][Len(log[r]) + 1].what = what
      BY <1>5 DEF Logged
    <2>5. ASSUME NEW i \in 1..Len(log'[r])
          PROVE  /\ log'[r][i].what = "START" <=> i = 1
                 /\ log'[r][i].what \in Ends => i = Len(log'[r])
      <3>1. CASE i \in 1..Len(log[r])
        BY <2>3, <2>4, <3>1
      <3>2. CASE i = Len(log[r]) + 1
        BY <1>5, <2>2, <2>4, <3>2
      <3> QED
        BY <2>1, <2>4, <3>1, <3>2
    <2> QED
      BY <1>1, <2>5 DEF LogAt
  <1> QED
    BY <1>2, <1>3, <1>4, <1>5, LogCases DEF LineKinds, Ends

(* A log is opened once, by its START line, and closed once, by its END.    *)
LEMMA LogStep == TypeOK /\ ScopeInv /\ LogIsWellFormed /\ [Next]_vars => LogIsWellFormed'
  <1> SUFFICES ASSUME TypeOK, ScopeInv, LogIsWellFormed, [Next]_vars, NEW q \in Requests
               PROVE  LogAt(q)'
    BY DEF LogIsWellFormed, LogAt
  <1>1. ScopeAt(q) /\ LogAt(q)
    BY DEF ScopeInv, LogIsWellFormed, LogAt
  <1>2. CASE Same(q)
    BY <1>1, <1>2 DEF Same, LogAt, Left
  <1>3. CASE Move(q)
    BY <1>1, <1>3, LogKept
  <1>4. Same(q) \/ Move(q)
    BY StepCases, OthersStay DEF vars, Same
  <1> QED
    BY <1>2, <1>3, <1>4

(* LinesCarryOwnId, of one request. *)
IdsAt(r) ==
  \A l \in Lines(r) : l.what \in {"LLM_CALL", "TOOL"} \/ (l.what \in Ends /\ connected[r]) => l.ctx = r

(* A new line carries the context of its request, which is its own id while *)
(* the agent runs.                                                          *)
LEMMA IdsKept ==
  ASSUME TypeOK, NEW r \in Requests, ScopeAt(r), IdsAt(r), Move(r)
  PROVE  IdsAt(r)'
  <1>1. connected'[r] => connected[r]
    BY LogCases
  <1>2. CASE log'[r] = log[r]
    BY <1>1, <1>2, SameLog DEF IdsAt
  <1>3. CASE log[r] = <<>> /\ Logged(r, "START", 0, context[r])
    BY <1>1, <1>3 DEF IdsAt, Logged, Ends
  <1>4. CASE Stillborn(r, context[r])
    <2>1. context[r] \in Requests \union {NoRequest}
      BY DEF TypeOK
    <2> QED
      BY <1>4, <2>1, BrokenStart DEF IdsAt, Ends
  <1>5. ASSUME Inside(r), NEW n \in Nat, NEW what \in {"LLM_CALL", "TOOL"},
               Logged(r, what, n, context[r])
        PROVE  IdsAt(r)'
    <2>1. context[r] = r
      BY <1>5 DEF ScopeAt
    <2> QED
      BY <1>1, <1>5, <2>1 DEF IdsAt, Logged
  <1>6. ASSUME Inside(r), NEW s \in Ends, NEW ctx,
               Logged(r, s, tools[r], ctx), ctx = context[r] \/ ~connected'[r]
        PROVE  IdsAt(r)'
    <2>1. context[r] = r
      BY <1>6 DEF ScopeAt
    <2> QED
      BY <1>1, <1>6, <2>1 DEF IdsAt, Logged, Ends
  <1> QED
    BY <1>2, <1>3, <1>4, <1>5, <1>6, LogCases

(* A line is prefixed with the context it is written in, which is the       *)
(* request's own while its agent runs.                                      *)
LEMMA IdsStep == TypeOK /\ ScopeInv /\ LinesCarryOwnId /\ [Next]_vars => LinesCarryOwnId'
  <1> SUFFICES ASSUME TypeOK, ScopeInv, LinesCarryOwnId, [Next]_vars, NEW q \in Requests
               PROVE  IdsAt(q)'
    BY DEF LinesCarryOwnId, IdsAt
  <1>1. ScopeAt(q) /\ IdsAt(q)
    BY DEF ScopeInv, LinesCarryOwnId, IdsAt
  <1>2. CASE Same(q)
    BY <1>1, <1>2, SameLog DEF Same, IdsAt
  <1>3. CASE Move(q)
    BY <1>1, <1>3, IdsKept
  <1>4. Same(q) \/ Move(q)
    BY StepCases, OthersStay DEF vars, Same
  <1> QED
    BY <1>2, <1>3, <1>4

-----------------------------------------------------------------------------
(* The tool lines, and the number of each, after a line that is none.       *)
SameTools(r) ==
  /\ LinesOf(r, "TOOL")' = LinesOf(r, "TOOL")
  /\ \A i \in LinesOf(r, "TOOL") : log'[r][i] = log[r][i]

(* A line of another kind leaves the tool lines as they are.                *)
LEMMA NoToolLine ==
  ASSUME NEW r \in Requests,
         \/ log'[r] = log[r]
         \/ \E what \in LineKinds \ {"TOOL"} : \E n, ctx : Logged(r, what, n, ctx)
  PROVE  SameTools(r)
  <1>1. CASE log'[r] = log[r]
    BY <1>1, SameLog DEF SameTools
  <1>2. ASSUME NEW what \in LineKinds \ {"TOOL"}, NEW n, NEW ctx, Logged(r, what, n, ctx)
        PROVE  SameTools(r)
    <2>1. /\ LinesOf(r, "TOOL")' = LinesOf(r, "TOOL")
          /\ \A i \in 1..Len(log[r]) : log'[r][i] = log[r][i]
      BY <1>2 DEF Logged, LineKinds
    <2> QED
      BY <2>1 DEF SameTools, LinesOf
  <1> QED
    BY <1>1, <1>2

(* A step that leaves the tool calls and their lines alone. *)
LEMMA ToolsRest ==
  ASSUME NEW r \in Requests, ToolsAt(r), SameTools(r), running'[r] = running[r],
         tools'[r] = tools[r],
         pc'[r] # "tools" => pending'[r] = 0 /\ running'[r] = {},
         pc[r] # "gone" \/ (pc'[r] = "gone" /\ log'[r] = log[r])
  PROVE  ToolsAt(r)'
  <1>1. log'[r] = log[r] => (Closed(r, "END_ok")' <=> Closed(r, "END_ok"))
    BY SameLog
  <1> QED
    BY <1>1 DEF ToolsAt, SameTools

(* A step of a request keeps its tool numbers apart: a new number is above  *)
(* all others, and a finished call moves its number to the log.             *)
LEMMA ToolsKept ==
  ASSUME TypeOK, NEW r \in Requests, ScopeAt(r), ToolsAt(r), Move(r)
  PROVE  ToolsAt(r)'
  <1>1. tools[r] \in Nat
    BY DEF TypeOK
  <1>2. pc[r] # "tools" => pending[r] = 0 /\ running[r] = {}
    BY DEF ToolsAt
  <1>3. CASE \/ Arrive(r) \/ SendRole(r) \/ SendPiece(r) \/ RequestTools(r) \/ NextTurn(r)
             \/ Resume(r) \/ SendStop(r) \/ SendDone(r) \/ CancelSend(r)
    <2>1. /\ log'[r] = log[r] /\ running'[r] = running[r] /\ tools'[r] = tools[r]
          /\ pc'[r] # "tools" => pending'[r] = 0 /\ running'[r] = {}
          /\ pc[r] # "gone"
      BY <1>2, <1>3, ArriveEffect, SendRoleEffect, SendPieceEffect, RequestToolsEffect,
         NextTurnEffect, ResumeEffect, SendStopEffect, SendDoneEffect, CancelSendEffect
    <2>2. SameTools(r)
      BY <2>1, NoToolLine
    <2> QED
      BY <2>1, <2>2, ToolsRest
  <1>4. CASE Disconnect(r)
    <2>1. /\ log'[r] = log[r] /\ running'[r] = running[r] /\ tools'[r] = tools[r]
          /\ pending'[r] = pending[r] /\ pc'[r] = pc[r]
      BY <1>4, DisconnectEffect
    <2>2. SameTools(r)
      BY <2>1, NoToolLine
    <2> QED
      BY <1>2, <2>1, <2>2, ToolsRest
  <1>5. CASE \/ CallReturns(r) \/ CallFails(r) \/ ReplyBreaks(r) \/ FinishReply(r) \/ Finalize(r)
    <2>1. /\ running'[r] = running[r] /\ tools'[r] = tools[r] /\ pending'[r] = pending[r]
          /\ pc[r] \notin {"tools", "gone"}
      BY <1>5, CallReturnsEffect, CallFailsEffect, ReplyBreaksEffect, FinishReplyEffect,
         FinalizeEffect
    <2>2. \E what \in LineKinds \ {"TOOL"} : \E n, ctx : Logged(r, what, n, ctx)
      <3>1. {"LLM_CALL", "END_ok", "END_error"} \subseteq LineKinds \ {"TOOL"}
        BY DEF LineKinds, Ends
      <3> QED
        BY <1>5, <3>1, CallReturnsEffect, CallFailsEffect, ReplyBreaksEffect, FinishReplyEffect,
           FinalizeEffect
    <2>3. SameTools(r)
      BY <2>2, NoToolLine
    <2> QED
      BY <1>2, <2>1, <2>3, ToolsRest
  <1>6. CASE Start(r)
    <2>1. log[r] = <<>> /\ tools[r] = 0
      BY <1>6 DEF Start, ScopeAt
    <2>2. /\ running'[r] = running[r] /\ tools'[r] = tools[r] /\ pending'[r] = pending[r]
          /\ pc[r] = "start"
      BY <1>6, <2>1, StartEffect
    <2>3. CASE Logged(r, "START", 0, context[r])
      <3>1. SameTools(r)
        BY <2>3, NoToolLine DEF Logged
      <3> QED
        BY <1>2, <2>2, <3>1, ToolsRest
    <2>4. CASE Stillborn(r, context[r])
      <3>1. context[r] \in Requests \union {NoRequest}
        BY DEF TypeOK
      <3>2. LinesOf(r, "TOOL")' = {}
        BY <2>4, <3>1, BrokenStart
      <3> QED
        BY <1>2, <2>1, <2>2, <3>2 DEF ToolsAt
    <2> QED
      BY <1>6, <2>1, <2>3, <2>4, StartEffect
  <1>7. CASE StartTool(r)
    <2>1. /\ pc'[r] = "tools" /\ tools'[r] = tools[r] + 1
          /\ running'[r] = running[r] \union {tools[r] + 1}
          /\ connected'[r] = connected[r] /\ log'[r] = log[r]
          /\ pc[r] = "tools"
      BY <1>7, StartToolEffect
    <2>2. SameTools(r)
      BY <2>1, NoToolLine
    <2>3. (1..tools'[r]) \ running'[r] = (1..tools[r]) \ running[r]
      BY <1>1, <2>1 DEF ToolsAt
    <2> QED
      BY <1>1, <2>1, <2>2, <2>3 DEF ToolsAt, SameTools
  <1>8. CASE FinishTool(r)
    <2>1. PICK n \in running[r] :
            running'[r] = running[r] \ {n} /\ Logged(r, "TOOL", n, context[r])
      BY <1>8, FinishToolEffect
    <2>2. pc'[r] = "tools" /\ pc[r] = "tools" /\ tools'[r] = tools[r]
      BY <1>8, FinishToolEffect
    <2> DEFINE k == Len(log[r]) + 1
               done == LinesOf(r, "TOOL")
    <2>3. done \subseteq 1..Len(log[r])
      BY DEF LinesOf
    <2>4. /\ LinesOf(r, "TOOL")' = done \union {k} /\ log'[r][k].n = n
          /\ \A i \in done : log'[r][i] = log[r][i]
      BY <2>1, <2>3 DEF Logged
    <2>5. (1..tools'[r]) \ running'[r] = ((1..tools[r]) \ running[r]) \union {n}
      BY <2>1, <2>2 DEF ToolsAt
    <2> HIDE DEF k, done
    <2>6. /\ \A i \in done : log[r][i].n \in (1..tools[r]) \ running[r]
          /\ \A i, j \in done : log[r][i].n = log[r][j].n => i = j
          /\ \A m \in (1..tools[r]) \ running[r] : \E i \in done : log[r][i].n = m
      BY <2>2 DEF ToolsAt, done
    <2>7. \A i \in done \union {k} : log'[r][i].n \in (1..tools'[r]) \ running'[r]
      BY <2>4, <2>5, <2>6
    <2>8. \A i, j \in done \union {k} : log'[r][i].n = log'[r][j].n => i = j
      BY <2>1, <2>4, <2>6
    <2>9. \A m \in (1..tools'[r]) \ running'[r] : \E i \in done \union {k} : log'[r][i].n = m
      BY <2>4, <2>5, <2>6
    <2>10. running'[r] \subseteq 1..tools'[r]
      BY <2>1, <2>2 DEF ToolsAt
    <2> QED
      BY <2>2, <2>4, <2>7, <2>8, <2>9, <2>10 DEF ToolsAt
  <1>9. CASE CancelRun(r)
    <2>1. /\ pc'[r] = "gone" /\ pending'[r] = 0 /\ running'[r] = {} /\ tools'[r] = tools[r]
          /\ ~connected'[r] /\ Logged(r, "END_error", tools[r], context[r])
      BY <1>9, CancelRunEffect
    <2>2. SameTools(r)
      BY <2>1, NoToolLine DEF Logged
    <2>3. ~Closed(r, "END_ok")'
      BY <2>1 DEF Logged, LineKinds, Ends
    <2> QED
      BY <2>1, <2>2, <2>3 DEF ToolsAt, SameTools
  <1> QED
    BY <1>3, <1>4, <1>5, <1>6, <1>7, <1>8, <1>9 DEF Move

-----------------------------------------------------------------------------
(* A step of a request logs the LLM call under way, begins the next one or  *)
(* ends the trace with the number of tool calls.                            *)
LEMMA CallsKept ==
  ASSUME TypeOK, NEW r \in Requests, ScopeAt(r), CallsAt(r), Move(r)
  PROVE  CallsAt(r)'
  <1>0. turn[r] \in Nat
    BY ServiceAssumption DEF TypeOK
  <1>1. CASE \/ Arrive(r) \/ SendRole(r) \/ SendPiece(r) \/ RequestTools(r)
             \/ Resume(r) \/ SendStop(r) \/ SendDone(r) \/ CancelSend(r) \/ Disconnect(r)
    <2>1. /\ log'[r] = log[r] /\ tools'[r] = tools[r] /\ turn'[r] = turn[r]
          /\ pc'[r] = "tools" => turn[r] <= MaxTurns
          /\ pc'[r] = "llm" <=> pc[r] = "llm"
      BY <1>1, ArriveEffect, SendRoleEffect, SendPieceEffect, RequestToolsEffect,
         ResumeEffect, SendStopEffect, SendDoneEffect, CancelSendEffect, DisconnectEffect
         DEF CallsAt
    <2>2. (\A s : Closed(r, s)' <=> Closed(r, s)) /\ Numbers(r, "LLM_CALL")' = Numbers(r, "LLM_CALL")
      BY <2>1, SameLog
    <2> QED
      BY <2>1, <2>2 DEF CallsAt
  <1>2. CASE NextTurn(r)
    <2>1. /\ pc[r] = "tools" /\ pc'[r] = "llm" /\ turn'[r] = turn[r] + 1
          /\ log'[r] = log[r] /\ tools'[r] = tools[r]
      BY <1>2, NextTurnEffect
    <2>2. (\A s : Closed(r, s)' <=> Closed(r, s)) /\ Numbers(r, "LLM_CALL")' = Numbers(r, "LLM_CALL")
      BY <2>1, SameLog
    <2>3. Numbers(r, "LLM_CALL") = 1..turn[r]
      BY <2>1 DEF CallsAt, ScopeAt, Inside, Ends
    <2> QED
      BY <1>0, <2>1, <2>2, <2>3 DEF CallsAt
  <1>3. CASE StartTool(r)
    <2>1. /\ pc[r] = "tools" /\ pc'[r] = "tools" /\ log'[r] = log[r] /\ turn'[r] = turn[r]
      BY <1>3, StartToolEffect
    <2>2. (\A s : Closed(r, s)' <=> Closed(r, s)) /\ Numbers(r, "LLM_CALL")' = Numbers(r, "LLM_CALL")
      BY <2>1, SameLog
    <2>3. \A s \in Ends : ~Closed(r, s)
      BY <2>1 DEF ScopeAt, Inside
    <2> QED
      BY <2>1, <2>2, <2>3 DEF CallsAt
  <1>4. CASE FinishTool(r)
    <2>1. PICK n \in running[r] : Logged(r, "TOOL", n, context[r])
      BY <1>4, FinishToolEffect
    <2>2. pc[r] = "tools" /\ pc'[r] = "tools" /\ turn'[r] = turn[r]
      BY <1>4, FinishToolEffect
    <2>3. (\A s \in Ends : ~Closed(r, s)') /\ Numbers(r, "LLM_CALL")' = Numbers(r, "LLM_CALL")
      BY <2>1 DEF Logged, LineKinds, Ends
    <2>4. Numbers(r, "LLM_CALL") = 1..turn[r]
      BY <2>2 DEF CallsAt, ScopeAt, Inside, Ends
    <2> QED
      BY <2>2, <2>3, <2>4 DEF CallsAt
  <1>5. CASE CallReturns(r)
    <2>1. /\ pc[r] = "llm" /\ pc'[r] = "reply" /\ turn'[r] = turn[r]
          /\ Logged(r, "LLM_CALL", turn[r], context[r])
      BY <1>5, CallReturnsEffect
    <2>2. /\ \A s \in Ends : ~Closed(r, s)'
          /\ Numbers(r, "LLM_CALL")' = Numbers(r, "LLM_CALL") \union {turn[r]}
      BY <2>1 DEF Logged, LineKinds, Ends
    <2>3. Numbers(r, "LLM_CALL") = 1..(turn[r] - 1) /\ turn[r] > 0
      BY <2>1 DEF CallsAt
    <2>4. Numbers(r, "LLM_CALL")' = 1..turn[r]
      <3>1. \A t \in Nat \ {0} : 1..(t - 1) \union {t} = 1..t
        OBVIOUS
      <3>2. 1..(turn[r] - 1) \union {turn[r]} = 1..turn[r]
        BY <1>0, <2>3, <3>1
      <3> QED
        BY <2>2, <2>3, <3>2
    <2> QED
      BY <2>1, <2>2, <2>4 DEF CallsAt
  <1>6. CASE CallFails(r) \/ ReplyBreaks(r) \/ CancelRun(r) \/ Finalize(r) \/ FinishReply(r)
    <2>1. /\ pc'[r] \notin {"llm", "tools"} /\ tools'[r] = tools[r] /\ turn'[r] = turn[r]
      BY <1>6, CallFailsEffect, ReplyBreaksEffect, CancelRunEffect, FinalizeEffect,
         FinishReplyEffect
    <2>2. PICK s \in Ends : /\ \E ctx : Logged(r, s, tools[r], ctx)
                            /\ s = "END_error" \/ pc[r] = "reply"
      BY <1>6, CallFailsEffect, ReplyBreaksEffect, CancelRunEffect, FinalizeEffect,
         FinishReplyEffect DEF Ends
    <2>3. /\ Closed(r, s)' /\ \A x \in Ends : Closed(r, x)' => x = s
          /\ Numbers(r, "LLM_CALL")' = Numbers(r, "LLM_CALL")
          /\ log'[r][Len(log'[r])].n = tools[r]
      BY <2>2 DEF Logged, LineKinds, Ends
    <2>4. \A x \in Ends : ~Closed(r, x)
      BY <1>6, CallFailsEffect, ReplyBreaksEffect, CancelRunEffect, FinalizeEffect,
         FinishReplyEffect DEF ScopeAt, Inside
    <2>5. \/ Numbers(r, "LLM_CALL") = 1..turn[r]
          \/ /\ Numbers(r, "LLM_CALL") = 1..(turn[r] - 1) /\ turn[r] > 0
             /\ s = "END_error"
      BY <2>2, <2>4 DEF CallsAt, Ends
    <2> QED
      BY <2>1, <2>3, <2>5 DEF CallsAt
  <1>7. CASE Start(r)
    <2>1. log[r] = <<>> /\ tools[r] = 0 /\ turn[r] = 0
      BY <1>7 DEF Start, ScopeAt
    <2>2. tools'[r] = tools[r]
      BY <1>7, <2>1, StartEffect
    <2>3. CASE pc'[r] = "llm"
      <3>1. Logged(r, "START", 0, context[r]) /\ turn'[r] = 1
        BY <1>7, <2>1, <2>3, StartEffect
      <3>2. (\A s \in Ends : ~Closed(r, s)') /\ Numbers(r, "LLM_CALL")' = Numbers(r, "LLM_CALL")
        BY <3>1 DEF Logged, LineKinds, Ends
      <3>3. Numbers(r, "LLM_CALL") = {}
        BY <2>1 DEF Numbers, Lines
      <3>4. 1..(turn'[r] - 1) = {}
        BY <3>1
      <3> QED
        BY <2>3, <3>1, <3>2, <3>3, <3>4 DEF CallsAt
    <2>4. CASE pc'[r] = "broken"
      <3>1. context[r] \in Requests \union {NoRequest}
        BY DEF TypeOK
      <3>2. Stillborn(r, context[r]) /\ turn'[r] = turn[r]
        BY <1>7, <2>1, <2>4, StartEffect
      <3>3. /\ Closed(r, "END_error")' /\ Numbers(r, "LLM_CALL")' = {}
            /\ log'[r][Len(log'[r])].n = 0
        BY <3>1, <3>2, BrokenStart DEF Stillborn
      <3>4. 1..turn'[r] = {}
        BY <2>1, <3>2
      <3> QED
        BY <2>1, <2>2, <2>4, <3>3, <3>4 DEF CallsAt
    <2> QED
      BY <1>7, <2>1, <2>3, <2>4, StartEffect
  <1> QED
    BY <1>1, <1>2, <1>3, <1>4, <1>5, <1>6, <1>7 DEF Move

(* Every tool call and every LLM call of a request gets its line, or is     *)
(* known to be under way or broken off.                                     *)
LEMMA TraceStep == TypeOK /\ ScopeInv /\ TraceInv /\ [Next]_vars => TraceInv'
  <1> SUFFICES ASSUME TypeOK, ScopeInv, TraceInv, [Next]_vars, NEW q \in Requests
               PROVE  (ToolsAt(q) /\ CallsAt(q))'
    BY DEF TraceInv
  <1>1. ScopeAt(q) /\ ToolsAt(q) /\ CallsAt(q)
    BY DEF ScopeInv, TraceInv
  <1>2. CASE Same(q)
    <2>1. /\ \A s : Closed(q, s)' <=> Closed(q, s)
          /\ \A s : LinesOf(q, s)' = LinesOf(q, s) /\ Numbers(q, s)' = Numbers(q, s)
      BY <1>2, SameLog DEF Same
    <2> QED
      BY <1>1, <1>2, <2>1 DEF Same, ToolsAt, CallsAt
  <1>3. CASE Move(q)
    BY <1>1, <1>3, ToolsKept, CallsKept
  <1>4. Same(q) \/ Move(q)
    BY StepCases, OthersStay DEF vars, Same
  <1> QED
    BY <1>2, <1>3, <1>4

-----------------------------------------------------------------------------
(* What has been sent, after one frame more. *)
LEMMA SentMore ==
  ASSUME NEW r \in Requests, NEW frame, Sent(r, frame)
  PROVE  \A f : HasSent(r, f)' <=> HasSent(r, f) \/ f = frame
  BY SMTT(30) DEF Sent, HasSent

(* A step of a request sends the frame its place calls for, and sets the    *)
(* status only when it leaves.                                              *)
LEMMA AnswerKept ==
  ASSUME TypeOK, NEW r \in Requests, ScopeAt(r), AnswerAt(r), Move(r)
  PROVE  AnswerAt(r)'
  <1> USE DEF AnswerAt
  <1>1. CASE frames'[r] = frames[r]
    <2>1. \A f : HasSent(r, f)' <=> HasSent(r, f)
      BY <1>1 DEF HasSent
    <2>2. CASE Arrive(r)
      BY <1>1, <2>1, <2>2, ArriveEffect DEF ScopeAt
    <2>3. CASE Start(r)
      <3>1. log[r] = <<>>
        BY <2>3 DEF Start, ScopeAt
      <3> QED
        BY <1>1, <2>1, <2>3, <3>1, StartEffect
    <2>4. CASE CallReturns(r) \/ CallFails(r) \/ ReplyBreaks(r)
      BY <1>1, <2>1, <2>4, CallReturnsEffect, CallFailsEffect, ReplyBreaksEffect
    <2>5. CASE RequestTools(r) \/ StartTool(r) \/ FinishTool(r) \/ NextTurn(r)
      BY <1>1, <2>1, <2>5, RequestToolsEffect, StartToolEffect, FinishToolEffect, NextTurnEffect
    <2>6. CASE FinishReply(r)
      BY <1>1, <2>1, <2>6, FinishReplyEffect DEF Streams
    <2>7. CASE Resume(r)
      BY <1>1, <2>1, <2>7, ResumeEffect
    <2>8. CASE Disconnect(r)
      BY <1>1, <2>1, <2>8, DisconnectEffect
    <2>9. CASE CancelRun(r) \/ CancelSend(r) \/ Finalize(r)
      BY <1>1, <2>1, <2>9, CancelRunEffect, CancelSendEffect, FinalizeEffect
    <2>10. CASE SendRole(r) \/ SendPiece(r) \/ SendStop(r) \/ SendDone(r)
      BY <1>1, <2>10, SendRoleEffect, SendPieceEffect, SendStopEffect, SendDoneEffect DEF Sent
    <2> QED
      BY <2>2, <2>3, <2>4, <2>5, <2>6, <2>7, <2>8, <2>9, <2>10 DEF Move
  <1>2. CASE SendRole(r)
    <2>1. Sent(r, "role") /\ \A f : HasSent(r, f)' <=> HasSent(r, f) \/ f = "role"
      BY <1>2, SendRoleEffect, SentMore
    <2>2. frames'[r] # <<>>
      BY <2>1 DEF Sent
    <2> QED
      BY <1>2, <2>1, <2>2, SendRoleEffect DEF ScopeAt
  <1>3. CASE SendPiece(r) \/ (Resume(r) /\ Sent(r, "piece"))
    <2>1. Sent(r, "piece") /\ \A f : HasSent(r, f)' <=> HasSent(r, f) \/ f = "piece"
      BY <1>3, SendPieceEffect, SentMore
    <2>2. frames'[r] # <<>>
      BY <2>1 DEF Sent
    <2> QED
      BY <1>3, <2>1, <2>2, SendPieceEffect, ResumeEffect
  <1>4. CASE SendStop(r)
    <2>1. Sent(r, "stop") /\ \A f : HasSent(r, f)' <=> HasSent(r, f) \/ f = "stop"
      BY <1>4, SendStopEffect, SentMore
    <2>2. frames'[r] # <<>>
      BY <2>1 DEF Sent
    <2>3. ~HasSent(r, "stop")
      BY <1>4, SendStopEffect
    <2>4. \A i \in 1..Len(frames'[r]) : frames'[r][i] = "stop" <=> i = Len(frames'[r])
      BY <2>1, <2>3 DEF Sent, HasSent
    <2> QED
      BY <1>4, <2>1, <2>2, <2>4, SendStopEffect
  <1>5. CASE SendDone(r)
    <2>1. Sent(r, "DONE") /\ frames'[r] # <<>>
      BY <1>5, SendDoneEffect DEF Sent
    <2> QED
      BY <1>5, <2>1, SendDoneEffect
  <1>6. CASE Resume(r) /\ frames'[r] # frames[r]
    BY <1>3, <1>6, ResumeEffect
  <1> QED
    <2>1. ASSUME frames'[r] # frames[r]
          PROVE  SendRole(r) \/ SendPiece(r) \/ Resume(r) \/ SendStop(r) \/ SendDone(r)
      <3>1. ~Start(r)
        BY <2>1 DEF Start
      <3> QED
        BY <2>1, <3>1, ArriveEffect, CallReturnsEffect, CallFailsEffect, ReplyBreaksEffect,
           RequestToolsEffect, StartToolEffect, FinishToolEffect, NextTurnEffect,
           FinishReplyEffect, DisconnectEffect, CancelRunEffect, CancelSendEffect,
           FinalizeEffect DEF Move
    <2> QED
      BY <2>1, <1>1, <1>2, <1>3, <1>4, <1>5, <1>6

(* The answer of a request follows its places. *)
LEMMA AnswerStep == TypeOK /\ ScopeInv /\ AnswerInv /\ [Next]_vars => AnswerInv'
  <1> SUFFICES ASSUME TypeOK, ScopeInv, AnswerInv, [Next]_vars, NEW q \in Requests
               PROVE  AnswerAt(q)'
    BY DEF AnswerInv
  <1>1. ScopeAt(q) /\ AnswerAt(q)
    BY DEF ScopeInv, AnswerInv
  <1>2. CASE Same(q)
    BY <1>1, <1>2 DEF Same, AnswerAt, HasSent
  <1>3. CASE Move(q)
    BY <1>1, <1>3, AnswerKept
  <1>4. Same(q) \/ Move(q)
    BY StepCases, OthersStay DEF vars, Same
  <1> QED
    BY <1>2, <1>3, <1>4

-----------------------------------------------------------------------------
(* AnswerMatchesEnd, of one request: its frames, and its status. *)
FramesAt(r) ==
  \A i \in 1..Len(frames[r]) :
    /\ frames[r][i] = "role" <=> i = 1
    /\ frames[r][i] = "DONE" => i = Len(frames[r]) /\ frames[r][i - 1] = "stop"
    /\ frames[r][i] = "stop" => i >= Len(frames[r]) - 1 /\ Closed(r, "END_ok")

StatusAt(r) ==
  /\ http[r] = 200 => Closed(r, "END_ok")
  /\ http[r] = 500 => Closed(r, "END_error")

(* A step that writes to the log sends no frame, and sets no status but     *)
(* that of the END line it writes.                                          *)
LEMMA StatusKept ==
  ASSUME TypeOK, NEW r \in Requests, ScopeAt(r), AnswerAt(r), StatusAt(r), Move(r)
  PROVE  StatusAt(r)'
  <1>1. CASE log'[r] = log[r]
    <2>1. http'[r] = http[r] \/ http'[r] = 400
      <3>1. CASE Start(r)
        <4>1. log[r] = <<>>
          BY <3>1 DEF Start, ScopeAt
        <4>2. log'[r] # <<>>
          BY <3>1, <4>1, StartEffect DEF Logged, Stillborn
        <4> QED
          BY <1>1, <4>1, <4>2
      <3>2. CASE CallFails(r)
        BY <1>1, <3>2, CallFailsEffect DEF Logged
      <3>3. CASE FinishReply(r)
        BY <1>1, <3>3, FinishReplyEffect DEF Logged
      <3> QED
        BY <3>1, <3>2, <3>3, ArriveEffect, SendRoleEffect, CallReturnsEffect, ReplyBreaksEffect,
           SendPieceEffect, RequestToolsEffect, StartToolEffect, FinishToolEffect, NextTurnEffect,
           ResumeEffect, SendStopEffect, SendDoneEffect, DisconnectEffect, CancelRunEffect,
           CancelSendEffect, FinalizeEffect DEF Move
    <2>2. \A s : Closed(r, s)' <=> Closed(r, s)
      BY <1>1, SameLog
    <2> QED
      BY <2>1, <2>2 DEF StatusAt
  <1>2. CASE Start(r)
    <2>1. log[r] = <<>> /\ context[r] \in Requests \union {NoRequest}
      BY <1>2 DEF Start, ScopeAt, TypeOK
    <2>2. http[r] = 0 \/ http[r] = 400
      BY <1>2 DEF Start, AnswerAt
    <2>3. http'[r] = http[r] \/ (http'[r] = 500 /\ Closed(r, "END_error")')
      BY <1>2, <2>1, StartEffect, BrokenStart
    <2> QED
      BY <2>2, <2>3 DEF StatusAt
  <1>3. CASE CallReturns(r) \/ ReplyBreaks(r) \/ FinishTool(r) \/ CancelRun(r) \/ Finalize(r)
    <2>1. http'[r] = http[r] /\ pc[r] \notin {"answered", "broken"}
      BY <1>3, CallReturnsEffect, ReplyBreaksEffect, FinishToolEffect, CancelRunEffect,
         FinalizeEffect
    <2> QED
      BY <2>1 DEF AnswerAt, StatusAt
  <1>4. CASE CallFails(r)
    <2>1. Closed(r, "END_error")'
      BY <1>4, CallFailsEffect DEF Logged
    <2>2. http'[r] \in {0, 500}
      BY <1>4, CallFailsEffect DEF AnswerAt
    <2> QED
      BY <2>1, <2>2 DEF StatusAt
  <1>5. CASE FinishReply(r)
    <2>1. Closed(r, "END_ok")'
      BY <1>5, FinishReplyEffect DEF Logged
    <2>2. http'[r] \in {0, 200}
      BY <1>5, FinishReplyEffect DEF AnswerAt
    <2> QED
      BY <2>1, <2>2 DEF StatusAt
  <1> QED
    BY <1>1, <1>2, <1>3, <1>4, <1>5, ArriveEffect, SendRoleEffect, SendPieceEffect,
       RequestToolsEffect, StartToolEffect, NextTurnEffect, ResumeEffect, SendStopEffect,
       SendDoneEffect, DisconnectEffect, CancelSendEffect DEF Move

(* A step of a request sends its frames in the order of the stream format.  *)
LEMMA FramesKept ==
  ASSUME TypeOK, NEW r \in Requests, ScopeAt(r), AnswerAt(r), FramesAt(r), Move(r)
  PROVE  FramesAt(r)'
  <1>0. Len(frames[r]) \in Nat /\ (frames[r] # <<>> => Len(frames[r]) > 0)
    <2>1. frames[r] \in Seq(FrameKinds)
      BY DEF TypeOK
    <2> QED
      BY <2>1
  <1>1. CASE frames'[r] = frames[r] /\ log'[r] = log[r]
    <2>1. \A s : Closed(r, s)' <=> Closed(r, s)
      BY <1>1, SameLog
    <2> QED
      BY <1>1, <2>1 DEF FramesAt
  <1>2. CASE frames'[r] = frames[r] /\ ~HasSent(r, "stop")
    <2>1. \A i \in 1..Len(frames[r]) : frames[r][i] # "stop"
      BY <1>2 DEF HasSent
    <2> QED
      BY <1>2, <2>1 DEF FramesAt
  <1>3. CASE SendRole(r)
    <2>1. frames[r] = <<>> /\ Sent(r, "role")
      BY <1>3, SendRoleEffect DEF AnswerAt
    <2>2. Len(frames'[r]) = 1 /\ frames'[r][1] = "role"
      BY <2>1 DEF Sent
    <2> QED
      BY <2>2 DEF FramesAt
  <1>4. CASE SendPiece(r) \/ (Resume(r) /\ Sent(r, "piece"))
    <2>1. /\ Sent(r, "piece") /\ frames[r] # <<>>
          /\ \A i \in 1..Len(frames[r]) : frames[r][i] # "stop" /\ frames[r][i] # "DONE"
      BY <1>4, SendPieceEffect, ResumeEffect DEF AnswerAt, HasSent
    <2> QED
      BY <1>0, <2>1 DEF FramesAt, Sent
  <1>5. CASE SendStop(r)
    <2>1. /\ Sent(r, "stop") /\ frames[r] # <<>>
          /\ \A i \in 1..Len(frames[r]) : frames[r][i] # "stop" /\ frames[r][i] # "DONE"
      BY <1>5, SendStopEffect DEF AnswerAt, HasSent
    <2>2. Closed(r, "END_ok") /\ log'[r] = log[r]
      BY <1>5, SendStopEffect DEF ScopeAt
    <2>3. Closed(r, "END_ok")'
      BY <2>2, SameLog
    <2> QED
      BY <1>0, <2>1, <2>3 DEF FramesAt, Sent
  <1>6. CASE SendDone(r)
    <2>1. /\ Sent(r, "DONE") /\ frames[r] # <<>>
          /\ \A i \in 1..Len(frames[r]) : frames[r][i] # "DONE"
          /\ \A i \in 1..Len(frames[r]) : frames[r][i] = "stop" <=> i = Len(frames[r])
      BY <1>6, SendDoneEffect DEF AnswerAt, HasSent
    <2>2. Closed(r, "END_ok") /\ log'[r] = log[r]
      BY <1>6, SendDoneEffect DEF ScopeAt
    <2>3. Closed(r, "END_ok")'
      BY <2>2, SameLog
    <2>4. /\ Len(frames'[r]) = Len(frames[r]) + 1 /\ Len(frames[r]) > 0
          /\ \A i \in 1..Len(frames[r]) : frames'[r][i] = frames[r][i]
          /\ frames'[r][Len(frames[r]) + 1] = "DONE" /\ frames'[r][Len(frames[r])] = "stop"
      BY <1>0, <2>1 DEF Sent
    <2>5. \A i \in 1..Len(frames[r]) : frames[r][i] = "role" <=> i = 1
      BY DEF FramesAt
    <2>6. ASSUME NEW i \in 1..Len(frames'[r])
          PROVE  /\ frames'[r][i] = "role" <=> i = 1
                 /\ frames'[r][i] = "DONE" => i = Len(frames'[r]) /\ frames'[r][i - 1] = "stop"
                 /\ frames'[r][i] = "stop" => i >= Len(frames'[r]) - 1
      <3>1. CASE i \in 1..Len(frames[r])
        BY <1>0, <2>1, <2>4, <2>5, <3>1
      <3>2. CASE i = Len(frames[r]) + 1
        <4>1. i - 1 = Len(frames[r]) /\ i # 1
          BY <1>0, <2>4, <3>2
        <4> QED
          BY <2>4, <3>2, <4>1
      <3> QED
        BY <1>0, <2>4, <3>1, <3>2
    <2> QED
      BY <2>3, <2>6 DEF FramesAt
  <1>7. CASE Start(r)
    BY <1>2, <1>7 DEF Start, AnswerAt
  <1>8. CASE \/ CallReturns(r) \/ CallFails(r) \/ ReplyBreaks(r) \/ FinishTool(r)
             \/ FinishReply(r) \/ CancelRun(r) \/ Finalize(r)
    <2>1. frames'[r] = frames[r] /\ pc[r] \notin {"stop", "answered", "gone"}
      BY <1>8, CallReturnsEffect, CallFailsEffect, ReplyBreaksEffect, FinishToolEffect,
         FinishReplyEffect, CancelRunEffect, FinalizeEffect
    <2> QED
      BY <1>2, <2>1 DEF AnswerAt
  <1>9. CASE \/ Arrive(r) \/ RequestTools(r) \/ StartTool(r) \/ NextTurn(r)
             \/ Disconnect(r) \/ CancelSend(r) \/ (Resume(r) /\ ~Sent(r, "piece"))
    BY <1>1, <1>9, ArriveEffect, RequestToolsEffect, StartToolEffect, NextTurnEffect,
       DisconnectEffect, CancelSendEffect, ResumeEffect
  <1> QED
    BY <1>3, <1>4, <1>5, <1>6, <1>7, <1>8, <1>9 DEF Move

(* No stop frame, no [DONE] and no 200 follow a failure. *)
LEMMA MatchStep ==
  TypeOK /\ ScopeInv /\ AnswerInv /\ AnswerMatchesEnd /\ [Next]_vars => AnswerMatchesEnd'
  <1> SUFFICES ASSUME TypeOK, ScopeInv, AnswerInv, AnswerMatchesEnd, [Next]_vars,
                      NEW q \in Requests
               PROVE  (FramesAt(q) /\ StatusAt(q))'
    BY DEF AnswerMatchesEnd, FramesAt, StatusAt
  <1>1. ScopeAt(q) /\ AnswerAt(q) /\ FramesAt(q) /\ StatusAt(q)
    BY DEF ScopeInv, AnswerInv, AnswerMatchesEnd, FramesAt, StatusAt
  <1>2. CASE Same(q)
    <2>1. \A s : Closed(q, s)' <=> Closed(q, s)
      BY <1>2, SameLog DEF Same
    <2> QED
      BY <1>1, <1>2, <2>1 DEF Same, FramesAt, StatusAt
  <1>3. CASE Move(q)
    BY <1>1, <1>3, FramesKept, StatusKept
  <1>4. Same(q) \/ Move(q)
    BY StepCases, OthersStay DEF vars, Same
  <1> QED
    BY <1>2, <1>3, <1>4

-----------------------------------------------------------------------------
(* No request has arrived: there is no line, no frame and no context.       *)
LEMMA InitIInv == Init => IInv
  <1> SUFFICES ASSUME Init PROVE IInv
    OBVIOUS
  <1>1. TypeOK
    <2>1. <<>> \in Seq(LineType) /\ <<>> \in Seq(FrameKinds)
      OBVIOUS
    <2>2. "new" \in Places /\ "full" \in Kinds /\ 0 \in 0..MaxTurns + 1 /\ 0 \in 0..MaxBatch
          /\ 0 \in 0..MaxPieces
      BY ServiceAssumption DEF Places, Kinds
    <2>3. /\ pc \in [Requests -> Places] /\ kind \in [Requests -> Kinds]
          /\ context \in [Requests -> Requests \union {NoRequest}]
          /\ agentBuilt \in BOOLEAN /\ connected \in [Requests -> BOOLEAN]
      BY <2>2 DEF Init
    <2>4. /\ turn \in [Requests -> 0..MaxTurns + 1] /\ tools \in [Requests -> Nat]
          /\ pending \in [Requests -> 0..MaxBatch] /\ running \in [Requests -> SUBSET Nat]
          /\ pieces \in [Requests -> 0..MaxPieces]
          /\ http \in [Requests -> {0, 200, 400, 500}]
      BY <2>2 DEF Init
    <2>5. log \in [Requests -> Seq(LineType)] /\ frames \in [Requests -> Seq(FrameKinds)]
      BY <2>1 DEF Init
    <2> QED
      BY <2>3, <2>4, <2>5 DEF TypeOK
  <1>2. ASSUME NEW r \in Requests
        PROVE  /\ pc[r] = "new" /\ kind[r] = "full" /\ context[r] = NoRequest
               /\ turn[r] = 0 /\ tools[r] = 0 /\ pending[r] = 0 /\ running[r] = {}
               /\ log[r] = <<>> /\ frames[r] = <<>> /\ http[r] = 0
    BY DEF Init
  <1>3. ASSUME NEW r \in Requests
        PROVE  /\ 1..Len(log[r]) = {} /\ 1..Len(frames[r]) = {}
               /\ Lines(r) = {} /\ \A s : ~Closed(r, s) /\ LinesOf(r, s) = {} /\ Numbers(r, s) = {}
               /\ ~Inside(r)
    <2>1. 1..Len(log[r]) = {} /\ 1..Len(frames[r]) = {}
      BY <1>2
    <2>2. Lines(r) = {} /\ \A s : LinesOf(r, s) = {}
      BY <2>1 DEF Lines, LinesOf
    <2> QED
      BY <1>2, <2>1, <2>2 DEF Closed, Numbers, Inside
  <1>4. ScopeInv
    BY <1>2, <1>3 DEF ScopeInv, ScopeAt
  <1>5. LogIsWellFormed /\ LinesCarryOwnId
    BY <1>2, <1>3 DEF LogIsWellFormed, LinesCarryOwnId, Left
  <1>6. TraceInv
    <2> SUFFICES ASSUME NEW r \in Requests PROVE ToolsAt(r) /\ CallsAt(r)
      BY DEF TraceInv
    <2>1. 1..tools[r] = {} /\ 1..turn[r] = {}
      BY <1>2
    <2> QED
      BY <1>2, <1>3, <2>1 DEF ToolsAt, CallsAt
  <1>7. AnswerInv
    BY <1>2, <1>3 DEF AnswerInv, AnswerAt, HasSent
  <1>8. AnswerMatchesEnd
    BY <1>2, <1>3 DEF AnswerMatchesEnd
  <1> QED
    BY <1>1, <1>4, <1>5, <1>6, <1>7, <1>8 DEF IInv

(* IInv is inductive: whatever the interleaving of requests, tool threads,  *)
(* disconnects and late finalizations, every request keeps its place, its   *)
(* trace, its context and its answer together.                              *)
THEOREM Inductive == Spec => []IInv
  <1>1. Init => IInv
    BY InitIInv
  <1>2. IInv /\ [Next]_vars => IInv'
    BY TypeStep, ScopeStep, LogStep, IdsStep, TraceStep, AnswerStep, MatchStep DEF IInv
  <1> QED
    BY <1>1, <1>2, PTL DEF Spec

(* No tool thread writes after the END line of its request, and a request   *)
(* that has left has written it.                                            *)
THEOREM LogsAreWellFormed == Spec => []LogIsWellFormed
  <1>1. IInv => LogIsWellFormed
    BY DEF IInv
  <1> QED
    BY <1>1, Inductive, PTL

(* The LLM and tool lines of a request, and its END line while its client   *)
(* stays, carry its own id.                                                 *)
THEOREM LinesCarryTheirId == Spec => []LinesCarryOwnId
  <1>1. IInv => LinesCarryOwnId
    BY DEF IInv
  <1> QED
    BY <1>1, Inductive, PTL

(* What the client sees agrees with how the request ended. *)
THEOREM AnswersMatch == Spec => []AnswerMatchesEnd
  <1>1. IInv => AnswerMatchesEnd
    BY DEF IInv
  <1> QED
    BY <1>1, Inductive, PTL

-----------------------------------------------------------------------------
(* Tool calls that share no number have as many numbers as lines. *)
LEMMA OneNumberEach ==
  ASSUME TypeOK, NEW r \in Requests, ToolsAt(r)
  PROVE  Cardinality(Numbers(r, "TOOL")) = Cardinality(LinesOf(r, "TOOL"))
  <1> DEFINE done == LinesOf(r, "TOOL")
             f == [i \in done |-> log[r][i].n]
  <1>1. IsFiniteSet(done)
    <2>1. log[r] \in Seq(LineType)
      BY DEF TypeOK
    <2>2. IsFiniteSet(1..Len(log[r]))
      BY <2>1, FS_Interval
    <2>3. done \subseteq 1..Len(log[r])
      BY DEF LinesOf
    <2> QED
      BY <2>2, <2>3, FS_Subset
  <1>2. Numbers(r, "TOOL") = {log[r][i].n : i \in done}
    BY DEF Numbers, Lines, LinesOf
  <1>3. \A i, j \in done : log[r][i].n = log[r][j].n => i = j
    BY DEF ToolsAt
  <1> HIDE DEF done
  <1>4. f \in Surjection(done, Numbers(r, "TOOL"))
    BY <1>2 DEF Surjection
  <1>5. f \in Injection(done, Numbers(r, "TOOL"))
    <2>1. f \in [done -> Numbers(r, "TOOL")]
      BY <1>2
    <2>2. \A i, j \in done : f[i] = f[j] => i = j
      BY <1>3
    <2> HIDE DEF f
    <2> QED
      BY <2>1, <2>2 DEF Injection, IsInjective
  <1> QED
    BY <1>1, <1>4, <1>5, FS_Surjection DEF done

(* The trace of a request is complete: as many numbers as tool lines, and,  *)
(* when it has ended, a line for each call its END line counts, those cut   *)
(* short excepted.                                                          *)
THEOREM TracesAreComplete == Spec => []TraceIsComplete
  <1>1. IInv => TraceIsComplete
    <2> SUFFICES ASSUME IInv, NEW r \in Requests
                 PROVE  LET calls == Numbers(r, "LLM_CALL")
                            done == Numbers(r, "TOOL")
                        IN /\ Cardinality(done) = Cardinality(LinesOf(r, "TOOL"))
                           /\ Closed(r, "END_ok") => calls = 1..turn[r] /\ done = 1..tools[r]
                           /\ Closed(r, "END_error") /\ turn[r] > 0 =>
                                /\ calls \in {1..turn[r], 1..(turn[r] - 1)}
                                /\ connected[r] => done = 1..tools[r]
                           /\ Closed(r, "END_ok") \/ Closed(r, "END_error") =>
                                log[r][Len(log[r])].n = tools[r]
      BY DEF TraceIsComplete
    <2>1. TypeOK /\ ScopeAt(r) /\ ToolsAt(r) /\ CallsAt(r)
      BY DEF IInv, ScopeInv, TraceInv
    <2>2. Closed(r, "END_ok") \/ Closed(r, "END_error") => pc[r] \notin {"llm", "tools"}
      BY <2>1 DEF ScopeAt, Inside, Ends
    <2>3. ~(Closed(r, "END_ok") /\ Closed(r, "END_error"))
      BY DEF Closed
    <2>4. ASSUME Closed(r, "END_ok") \/ (Closed(r, "END_error") /\ connected[r])
          PROVE  Numbers(r, "TOOL") = 1..tools[r]
      <3>1. running[r] = {} /\ (pc[r] # "gone" \/ Closed(r, "END_ok"))
        BY <2>1, <2>2, <2>4 DEF ToolsAt, ScopeAt
      <3>2. /\ \A i \in LinesOf(r, "TOOL") : log[r][i].n \in 1..tools[r]
            /\ \A n \in 1..tools[r] : \E i \in LinesOf(r, "TOOL") : log[r][i].n = n
        BY <2>1, <3>1 DEF ToolsAt
      <3>3. Numbers(r, "TOOL") = {log[r][i].n : i \in LinesOf(r, "TOOL")}
        BY DEF Numbers, Lines, LinesOf
      <3> QED
        BY <3>2, <3>3
    <2>5. Cardinality(Numbers(r, "TOOL")) = Cardinality(LinesOf(r, "TOOL"))
      BY <2>1, OneNumberEach
    <2> QED
      BY <2>1, <2>2, <2>3, <2>4, <2>5 DEF CallsAt, Ends
  <1> QED
    BY <1>1, Inductive, PTL

-----------------------------------------------------------------------------
(* The abstract scope and answer of a request, by what its log and its      *)
(* frames show.                                                             *)
LEMMA ScopeIs ==
  ASSUME NEW r \in Requests
  PROVE  /\ log[r] = <<>> => ScopeOf(r) = "unopened"
         /\ log[r] # <<>> /\ (\A s \in Ends : ~Closed(r, s)) => ScopeOf(r) = "open"
         /\ Closed(r, "END_ok") => ScopeOf(r) = "ok"
         /\ Closed(r, "END_error") => ScopeOf(r) = "error"
  BY DEF ScopeOf, Closed, Ends

(* The same, after a step.                                                  *)
LEMMA ScopeBecomes ==
  ASSUME NEW r \in Requests
  PROVE  /\ log'[r] = <<>> => ScopeOf(r)' = "unopened"
         /\ log'[r] # <<>> /\ (\A s \in Ends : ~Closed(r, s)') => ScopeOf(r)' = "open"
         /\ Closed(r, "END_ok")' => ScopeOf(r)' = "ok"
         /\ Closed(r, "END_error")' => ScopeOf(r)' = "error"
         /\ log'[r] = log[r] => ScopeOf(r)' = ScopeOf(r)
  BY DEF ScopeOf, Closed, Ends

(* The answer of a request whose frames and status stay. *)
LEMMA SameAnswer ==
  ASSUME NEW r \in Requests, frames'[r] = frames[r]
  PROVE  /\ http'[r] = http[r] => AnswerOf(r)' = AnswerOf(r)
         /\ http'[r] = 200 => AnswerOf(r)' = "complete"
         /\ http'[r] \in {400, 500} => AnswerOf(r)' = "refused"
  BY DEF AnswerOf, Complete, HasSent

(* The answer of a request that has no status yet. *)
LEMMA AnswerIs ==
  ASSUME NEW r \in Requests, http[r] = 0, ~HasSent(r, "DONE")
  PROVE  AnswerOf(r) = IF frames[r] # <<>> THEN "partial" ELSE "none"
  BY DEF AnswerOf, Complete

(* The answer of a request that is sent one frame more. *)
LEMMA AnswerGrows ==
  ASSUME NEW r \in Requests, NEW frame, Sent(r, frame), http'[r] = 0, http[r] = 0,
         ~HasSent(r, "DONE")
  PROVE  AnswerOf(r)' = IF frame = "DONE" THEN "complete" ELSE "partial"
  <1>1. HasSent(r, "DONE")' <=> frame = "DONE"
    BY SentMore
  <1>2. frames'[r] # <<>>
    BY DEF Sent
  <1> QED
    BY <1>1, <1>2 DEF AnswerOf, Complete

(* What a step may do to the abstract request, whose scope is S and answer  *)
(* A: the steps of RequestLifecycle, and none.                              *)
Allowed(S, A, T, B) ==
  \/ T = S /\ B = A
  \/ S = "unopened" /\ A = "none" /\ T = S /\ B = "refused"
  \/ S = "unopened" /\ A # "refused" /\ T = "open" /\ B = A
  \/ S # "error" /\ A \in {"none", "partial"} /\ T = S /\ B = "partial"
  \/ S = "open" /\ T = "ok" /\ B \in {A, "complete"}
  \/ S \in {"unopened", "open"} /\ A # "refused" /\ T = "error" /\ B = A
  \/ S \in {"unopened", "open"} /\ A = "none" /\ T = "error" /\ B = "refused"
  \/ S = "ok" /\ A = "partial" /\ T = S /\ B = "complete"

(* A step of a request is an allowed step of its abstract scope and answer. *)
LEMMA MoveIsAllowed ==
  ASSUME TypeOK, NEW r \in Requests, ScopeAt(r), AnswerAt(r), Move(r)
  PROVE  Allowed(ScopeOf(r), AnswerOf(r), ScopeOf(r)', AnswerOf(r)')
  <1> DEFINE S == ScopeOf(r)
             A == AnswerOf(r)
  <1>1. Inside(r) => S = "open" /\ A # "refused" /\ http[r] = 0 /\ ~HasSent(r, "DONE")
                     /\ A \in {"none", "partial"}
    <2>1. ASSUME Inside(r) PROVE http[r] = 0 /\ ~HasSent(r, "DONE")
      BY <2>1 DEF Inside, AnswerAt
    <2> QED
      BY <2>1, ScopeIs, AnswerIs DEF ScopeAt
  <1>2. CASE Arrive(r)
    <2>1. /\ log'[r] = log[r] /\ frames'[r] = frames[r] /\ (http'[r] = http[r] \/ http'[r] = 400)
          /\ log[r] = <<>> /\ frames[r] = <<>> /\ http[r] = 0 /\ ~HasSent(r, "DONE")
      BY <1>2, ArriveEffect DEF ScopeAt, AnswerAt
    <2> QED
      BY <2>1, ScopeIs, ScopeBecomes, SameAnswer, AnswerIs DEF Allowed
  <1>3. CASE SendRole(r)
    <2>1. /\ log'[r] = log[r] /\ Sent(r, "role") /\ http'[r] = http[r] /\ http[r] = 0
          /\ frames[r] = <<>> /\ ~HasSent(r, "DONE")
      BY <1>3, SendRoleEffect DEF AnswerAt
    <2>2. S \in {"unopened", "ok"}
      BY <1>3, SendRoleEffect, ScopeIs DEF ScopeAt
    <2> QED
      BY <2>1, <2>2, ScopeBecomes, AnswerIs, AnswerGrows DEF Allowed
  <1>4. CASE Start(r)
    <2>1. log[r] = <<>> /\ context[r] \in Requests \union {NoRequest}
      BY <1>4 DEF Start, ScopeAt, TypeOK
    <2>2. /\ frames'[r] = frames[r] /\ http[r] = 0 /\ ~HasSent(r, "DONE")
          /\ kind[r] # "stream" => frames[r] = <<>>
      BY <1>4, <2>1, StartEffect DEF AnswerAt
    <2>3. S = "unopened" /\ A = IF frames[r] # <<>> THEN "partial" ELSE "none"
      BY <2>1, <2>2, ScopeIs, AnswerIs
    <2>4. CASE Logged(r, "START", 0, context[r]) /\ http'[r] = http[r]
      <3>1. log'[r] # <<>> /\ \A s \in Ends : ~Closed(r, s)'
        BY <2>4 DEF Logged, LineKinds, Ends
      <3> QED
        BY <2>2, <2>3, <2>4, <3>1, ScopeBecomes, SameAnswer DEF Allowed
    <2>5. CASE Stillborn(r, context[r]) /\ http'[r] = IF kind[r] = "stream" THEN http[r] ELSE 500
      <3>1. Closed(r, "END_error")'
        BY <2>1, <2>5, BrokenStart
      <3> QED
        BY <2>2, <2>3, <2>5, <3>1, ScopeBecomes, SameAnswer DEF Allowed
    <2> QED
      BY <1>4, <2>1, <2>4, <2>5, StartEffect
  <1>5. CASE CallReturns(r) \/ FinishTool(r)
    <2>1. Inside(r) /\ frames'[r] = frames[r] /\ http'[r] = http[r]
      BY <1>5, CallReturnsEffect, FinishToolEffect DEF Inside
    <2>2. log'[r] # <<>> /\ \A s \in Ends : ~Closed(r, s)'
      <3>1. \E n, ctx : Logged(r, "LLM_CALL", n, ctx) \/ Logged(r, "TOOL", n, ctx)
        BY <1>5, CallReturnsEffect, FinishToolEffect
      <3> QED
        BY <3>1 DEF Logged, LineKinds, Ends
    <2> QED
      BY <1>1, <2>1, <2>2, ScopeBecomes, SameAnswer DEF Allowed
  <1>6. CASE CallFails(r) \/ ReplyBreaks(r) \/ CancelRun(r) \/ Finalize(r)
    <2>1. /\ Inside(r) /\ frames'[r] = frames[r]
          /\ \/ http'[r] = http[r]
             \/ http'[r] = 500 /\ frames[r] = <<>>
      BY <1>6, CallFailsEffect, ReplyBreaksEffect, CancelRunEffect, FinalizeEffect
         DEF Inside, ScopeAt, AnswerAt
    <2>2. Closed(r, "END_error")'
      <3>1. \E ctx : Logged(r, "END_error", tools[r], ctx)
        BY <1>6, CallFailsEffect, ReplyBreaksEffect, CancelRunEffect, FinalizeEffect
      <3> QED
        BY <3>1 DEF Logged
    <2> QED
      BY <1>1, <2>1, <2>2, ScopeBecomes, SameAnswer, AnswerIs DEF Allowed
  <1>7. CASE FinishReply(r)
    <2>1. /\ Inside(r) /\ frames'[r] = frames[r] /\ (http'[r] = http[r] \/ http'[r] = 200)
          /\ Closed(r, "END_ok")'
      BY <1>7, FinishReplyEffect DEF Inside, Logged
    <2> QED
      BY <1>1, <2>1, ScopeBecomes, SameAnswer DEF Allowed
  <1>8. CASE SendPiece(r) \/ (Resume(r) /\ Sent(r, "piece")) \/ SendStop(r)
    <2>1. /\ log'[r] = log[r] /\ http'[r] = http[r] /\ http[r] = 0 /\ frames[r] # <<>>
          /\ ~HasSent(r, "DONE") /\ (Sent(r, "piece") \/ Sent(r, "stop"))
      BY <1>8, SendPieceEffect, ResumeEffect, SendStopEffect DEF AnswerAt
    <2> QED
      BY <2>1, ScopeBecomes, AnswerIs, AnswerGrows DEF Allowed
  <1>9. CASE SendDone(r)
    <2>1. /\ log'[r] = log[r] /\ http'[r] = http[r] /\ http[r] = 0 /\ ~HasSent(r, "DONE")
          /\ Sent(r, "DONE") /\ frames[r] # <<>>
      BY <1>9, SendDoneEffect DEF AnswerAt
    <2>2. S = "ok"
      BY <1>9, SendDoneEffect, ScopeIs DEF ScopeAt
    <2> QED
      BY <2>1, <2>2, ScopeBecomes, AnswerIs, AnswerGrows DEF Allowed
  <1>10. CASE \/ RequestTools(r) \/ StartTool(r) \/ NextTurn(r) \/ Disconnect(r) \/ CancelSend(r)
              \/ (Resume(r) /\ ~Sent(r, "piece"))
    <2>1. log'[r] = log[r] /\ frames'[r] = frames[r] /\ http'[r] = http[r]
      BY <1>10, RequestToolsEffect, StartToolEffect, NextTurnEffect, DisconnectEffect,
         CancelSendEffect, ResumeEffect
    <2> QED
      BY <2>1, ScopeBecomes, SameAnswer DEF Allowed
  <1> QED
    BY <1>2, <1>3, <1>4, <1>5, <1>6, <1>7, <1>8, <1>9, <1>10 DEF Move

(* The lifecycle's state after a step that changes one request. *)
LEMMA OneRequest ==
  ASSUME NEW r \in Requests, \A q \in Requests \ {r} : Same(q)
  PROVE  Lifecycle!Set(r, ScopeOf(r)', AnswerOf(r)')
  <1>1. \A q \in Requests \ {r} : ScopeOf(q)' = ScopeOf(q) /\ AnswerOf(q)' = AnswerOf(q)
    BY ScopeBecomes, SameAnswer DEF Same
  <1> DEFINE scope == [q \in Requests |-> ScopeOf(q)]
             answer == [q \in Requests |-> AnswerOf(q)]
  <1>2. [scope EXCEPT ![r] = ScopeOf(r)'] = [q \in Requests |-> ScopeOf(q)']
    BY <1>1
  <1>3. [answer EXCEPT ![r] = AnswerOf(r)'] = [q \in Requests |-> AnswerOf(q)']
    BY <1>1
  <1> QED
    BY <1>2, <1>3 DEF Lifecycle!Set

(* So a step of the service is a step of the lifecycle or none.             *)
LEMMA LifecycleStep == IInv /\ [Next]_vars => [Lifecycle!Next]_(Lifecycle!vars)
  <1> SUFFICES ASSUME IInv, [Next]_vars PROVE [Lifecycle!Next]_(Lifecycle!vars)
    OBVIOUS
  <1>1. CASE UNCHANGED vars
    <2>1. \A q \in Requests : ScopeOf(q)' = ScopeOf(q) /\ AnswerOf(q)' = AnswerOf(q)
      BY <1>1, ScopeBecomes, SameAnswer DEF vars
    <2> QED
      BY <2>1 DEF Lifecycle!vars
  <1>2. ASSUME NEW r \in Requests, Move(r)
        PROVE  [Lifecycle!Next]_(Lifecycle!vars)
    <2>1. Allowed(ScopeOf(r), AnswerOf(r), ScopeOf(r)', AnswerOf(r)')
      BY <1>2, MoveIsAllowed DEF IInv, ScopeInv, AnswerInv
    <2>2. \A q \in Requests \ {r} : Same(q)
      BY <1>2, OthersStay DEF IInv
    <2>3. Lifecycle!Set(r, ScopeOf(r)', AnswerOf(r)')
      BY <2>2, OneRequest
    <2>4. CASE ScopeOf(r)' = ScopeOf(r) /\ AnswerOf(r)' = AnswerOf(r)
      <3>1. \A q \in Requests : ScopeOf(q)' = ScopeOf(q) /\ AnswerOf(q)' = AnswerOf(q)
        BY <2>2, <2>4, ScopeBecomes, SameAnswer DEF Same
      <3> QED
        BY <3>1 DEF Lifecycle!vars
    <2>5. CASE \/ Lifecycle!Refuse(r) \/ Lifecycle!Open(r) \/ Lifecycle!Emit(r)
               \/ Lifecycle!Succeed(r) \/ Lifecycle!Fail(r) \/ Lifecycle!Complete(r)
      BY <2>5 DEF Lifecycle!Next
    <2>6. \/ ScopeOf(r)' = ScopeOf(r) /\ AnswerOf(r)' = AnswerOf(r)
          \/ Lifecycle!Refuse(r) \/ Lifecycle!Open(r) \/ Lifecycle!Emit(r)
          \/ Lifecycle!Succeed(r) \/ Lifecycle!Fail(r) \/ Lifecycle!Complete(r)
      BY <2>1, <2>3 DEF Allowed, Lifecycle!Refuse, Lifecycle!Open, Lifecycle!Emit,
         Lifecycle!Succeed, Lifecycle!Fail, Lifecycle!Complete
    <2> QED
      BY <2>4, <2>5, <2>6
  <1> QED
    BY <1>1, <1>2, StepCases

(* Every step of the service is a step of the promised lifecycle of one     *)
(* request or leaves all of them alone, under failures, disconnects and     *)
(* late finalization.                                                       *)
THEOREM ServiceImplementsLifecycle == Spec => ImplementsLifecycle
  <1>1. Init => Lifecycle!Init
    <2> SUFFICES ASSUME Init PROVE Lifecycle!Init
      OBVIOUS
    <2>1. \A r \in Requests : ScopeOf(r) = "unopened"
      BY ScopeIs DEF Init
    <2>2. \A r \in Requests : AnswerOf(r) = "none"
      BY AnswerIs DEF Init, HasSent
    <2> QED
      BY <2>1, <2>2 DEF Lifecycle!Init
  <1>2. IInv /\ [Next]_vars => [Lifecycle!Next]_(Lifecycle!vars)
    BY LifecycleStep
  <1> QED
    BY <1>1, <1>2, Inductive, PTL DEF ImplementsLifecycle, Spec, Lifecycle!Spec

=============================================================================
