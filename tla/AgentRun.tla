------------------------------- MODULE AgentRun -------------------------------
(***************************************************************************)
(* One turn of a conversation, from the browser's socket to the store.     *)
(*                                                                         *)
(* inner-gateway/internal/realtime/handler.go owns the socket, the map of  *)
(* running requests and one goroutine for each that copies the stream to   *)
(* the socket.  ai-agent/internal/logic/message.go serves the stream: it   *)
(* stores the prompt, reads events and errors from two channels, and       *)
(* stores the answer, whole or partial.  toolbox/agent/runner.go feeds the *)
(* two channels from the agent process; the SDK calls back into the tool   *)
(* permission and question brokers, which park the agent until the user    *)
(* answers and write to the same two channels.                             *)
(*                                                                         *)
(* Data is abstracted: a message is who said it and how it ended, an agent *)
(* session is the run that opened it.  The two brokers have one protocol   *)
(* and are one table here.                                                 *)
(***************************************************************************)
EXTENDS Naturals, Sequences, FiniteSets

CONSTANTS
    Runs,           \* request ids, each started at most once
    Sessions,       \* conversation ids, all of one user
    SessionOf,      \* the conversation a request is for
    Tools,          \* ids of tool uses that need an answer, fresh for every use
    RunOf,          \* the run whose agent calls the tool
    NoRun,          \* the empty agent_session_id
    NoSession,      \* "not pending" in the broker's table
    MaxDeltas,      \* bound on the text events of a run
    MaxMishaps,     \* bound on deleted sessions and killed processes together
    CallsFail       \* whether statements and remote calls may fail by themselves

ASSUME RequestsAreForSessions == SessionOf \in [Runs -> Sessions]
ASSUME ToolsAreCalledInRuns == RunOf \in [Tools -> Runs]
ASSUME NothingIsNoRun == NoRun \notin Runs
ASSUME NothingIsNoSession == NoSession \notin Sessions
ASSUME BoundsAreNat == MaxDeltas \in Nat /\ MaxMishaps \in Nat
ASSUME CallsFailIsBoolean == CallsFail \in BOOLEAN

VARIABLES
    sock,           \* the browser's socket is open
    gw,             \* gateway goroutine of a run; "copying" = it is in Handler.runs
    cancelled,      \* the run's context at the gateway is cancelled
    ctxDone,        \* the stream's context in ai-agent is done
    wire,           \* items sent by ai-agent and not yet received
    reply,          \* status StreamMessage returned
    shown,          \* envelopes of a run written to the socket
    pc,             \* where StreamMessage is
    agentId,        \* its agentSessionID
    content,        \* it has something to save: answer or parts are not empty
    rn,             \* the runner's goroutine
    deltas,         \* text events the agent produced
    errs,           \* the runner's error channel, of capacity one
    cb,             \* where the SDK's callback for a tool is
    pending,        \* the brokers' table: the session that may answer
    decision,       \* what was submitted for a tool, and for which session
    executed,       \* tools the agent went on to execute
    live,           \* sessions with a row
    agent,          \* agent_session_id of a session
    refs,           \* session references: the runs whose skills and servers it has
    messages,       \* message rows
    finished,       \* the status a run's operation was finished with
    erased,         \* sessions that have been deleted, each at most once
    crashes         \* deaths of ai-agent
gatewayVars == <<sock, gw, cancelled, shown>>
streamVars == <<pc, agentId, content, reply, ctxDone>>
runnerVars == <<rn, deltas, errs>>
brokerVars == <<cb, pending, decision, executed>>
storeVars == <<live, agent, refs, messages, finished>>
boundVars == <<erased, crashes>>
vars == <<gatewayVars, wire, streamVars, runnerVars, brokerVars, storeVars, boundVars>>

Items == {"delta", "ask", "done"}
Terminal == {"done", "canceled", "error"}
Causes == {"canceled", "error"}
\* "normal" stands for every terminal status an agent's result reports.
Statuses == {"prompt", "normal", "cancelled"}
Message == [session : Sessions, run : Runs, status : Statuses]

Answer == [session : Sessions \cup {NoSession}, value : {"none", "allow", "deny"}]

StreamPc == {"none", "load", "prompt", "loop", "sendDelta", "sendAsk", "done", "doneAgent",
             "doneSend", "partial", "partialAgent", "ended"}
RunnerPc == {"none", "next", "send", "sendDone", "putCanceled", "putError", "close", "ended"}
CallbackPc == {"none", "emit", "put", "waiting", "allow", "deny", "failed"}

GatewayTypeOK ==
    /\ sock \in BOOLEAN
    /\ gw \in [Runs -> {"none", "copying", "ended"}]
    /\ cancelled \in [Runs -> BOOLEAN]
    /\ shown \in [Runs -> Seq(Items \cup Terminal)]

WireTypeOK == wire \in [Runs -> Seq(Items)]

StreamTypeOK ==
    /\ pc \in [Runs -> StreamPc]
    /\ agentId \in [Runs -> Runs \cup {NoRun}]
    /\ content \in [Runs -> BOOLEAN]
    /\ reply \in [Runs -> {"none", "eof"} \cup Causes]
    /\ ctxDone \in [Runs -> BOOLEAN]

RunnerTypeOK ==
    /\ rn \in [Runs -> RunnerPc]
    /\ deltas \in [Runs -> Nat]
    /\ errs \in [Runs -> Seq(Causes)]

BrokerTypeOK ==
    /\ cb \in [Tools -> CallbackPc]
    /\ pending \in [Tools -> Sessions \cup {NoSession}]
    /\ decision \in [Tools -> Answer]
    /\ executed \subseteq Tools

StoreTypeOK ==
    /\ live \subseteq Sessions
    /\ agent \in [Sessions -> Runs \cup {NoRun}]
    /\ refs \in [Sessions -> SUBSET Runs]
    /\ messages \subseteq Message
    /\ finished \in [Runs -> {"none", "normal", "cancelled", "error"}]

BoundTypeOK == erased \subseteq Sessions /\ crashes \in Nat

TypeOK ==
    /\ GatewayTypeOK /\ WireTypeOK /\ StreamTypeOK /\ RunnerTypeOK
    /\ BrokerTypeOK /\ StoreTypeOK /\ BoundTypeOK

Init ==
    /\ sock = TRUE
    /\ gw = [r \in Runs |-> "none"]
    /\ cancelled = [r \in Runs |-> FALSE] /\ ctxDone = [r \in Runs |-> FALSE]
    /\ wire = [r \in Runs |-> <<>>] /\ shown = [r \in Runs |-> <<>>]
    /\ reply = [r \in Runs |-> "none"]
    /\ pc = [r \in Runs |-> "none"]
    /\ agentId = [r \in Runs |-> NoRun]
    /\ content = [r \in Runs |-> FALSE]
    /\ rn = [r \in Runs |-> "none"]
    /\ deltas = [r \in Runs |-> 0]
    /\ errs = [r \in Runs |-> <<>>]
    /\ cb = [t \in Tools |-> "none"]
    /\ pending = [t \in Tools |-> NoSession]
    /\ decision = [t \in Tools |-> [session |-> NoSession, value |-> "none"]]
    /\ executed = {}
    /\ live = Sessions
    /\ agent = [s \in Sessions |-> NoRun]
    /\ refs = [s \in Sessions |-> {}]
    /\ messages = {}
    /\ finished = [r \in Runs |-> "none"]
    /\ erased = {} /\ crashes = 0

-----------------------------------------------------------------------------
(* The gateway: one goroutine per accepted request. *)

Show(r, envelope) == shown' = [shown EXCEPT ![r] = IF sock THEN Append(@, envelope) ELSE @]

\* The deferred function of the copying goroutine: leave Handler.runs, cancel.
EndCopying(r) ==
    /\ gw' = [gw EXCEPT ![r] = "ended"]
    /\ cancelled' = [cancelled EXCEPT ![r] = TRUE]

\* A request is registered, the stream opened and its goroutine started, or
\* the connection to ai-agent fails and the request is answered at once.
StartAgentStream(r) ==
    /\ sock /\ gw[r] = "none"
    /\ \/ /\ gw' = [gw EXCEPT ![r] = "copying"]
          /\ pc' = [pc EXCEPT ![r] = "load"]
          /\ UNCHANGED <<cancelled, shown>>
       \/ EndCopying(r) /\ Show(r, "error") /\ UNCHANGED pc
    /\ UNCHANGED <<sock, wire, agentId, content, reply, ctxDone, runnerVars, brokerVars, storeVars, boundVars>>

\* Mutant of CopyItem: the goroutine goes on after the last item.
CopyItemPastDone(r) ==
    /\ gw[r] = "copying" /\ wire[r] # <<>>
    /\ wire' = [wire EXCEPT ![r] = Tail(@)]
    /\ Show(r, Head(wire[r]))
    /\ IF sock THEN UNCHANGED <<gw, cancelled>> ELSE EndCopying(r)
    /\ UNCHANGED <<sock, streamVars, runnerVars, brokerVars, storeVars, boundVars>>

\* One item is received and written.  A failed write, like the last item,
\* ends the goroutine, which cancels the run.
CopyItem(r) ==
    /\ gw[r] = "copying" /\ wire[r] # <<>>
    /\ wire' = [wire EXCEPT ![r] = Tail(@)]
    /\ Show(r, Head(wire[r]))
    /\ IF sock /\ Head(wire[r]) # "done" THEN UNCHANGED <<gw, cancelled>> ELSE EndCopying(r)
    /\ UNCHANGED <<sock, streamVars, runnerVars, brokerVars, storeVars, boundVars>>

\* Receiving fails: the run's own context is cancelled, or ai-agent has
\* returned and everything it sent has been received.
CopyEnd(r) ==
    /\ gw[r] = "copying"
    /\ \/ cancelled[r] /\ Show(r, "canceled")
       \/ /\ ~cancelled[r] /\ wire[r] = <<>> /\ reply[r] # "none"
          /\ Show(r, IF reply[r] = "canceled" THEN "canceled" ELSE "error")
    /\ EndCopying(r)
    /\ UNCHANGED <<sock, wire, streamVars, runnerVars, brokerVars, storeVars, boundVars>>

CancelRun(r) ==
    /\ gw[r] = "copying" /\ ~cancelled[r]
    /\ cancelled' = [cancelled EXCEPT ![r] = TRUE]
    /\ UNCHANGED <<sock, gw, shown, wire, streamVars, runnerVars, brokerVars, storeVars, boundVars>>

\* Serve returns: the context every run of the socket derives from is cancelled.
CloseSocket ==
    /\ sock
    /\ sock' = FALSE
    /\ cancelled' = [r \in Runs |-> cancelled[r] \/ gw[r] = "copying"]
    /\ UNCHANGED <<gw, shown, wire, streamVars, runnerVars, brokerVars, storeVars, boundVars>>

\* gRPC carries the cancellation to the context of the stream in ai-agent.
CancelReaches(r) ==
    /\ cancelled[r] /\ pc[r] # "none" /\ ~ctxDone[r]
    /\ ctxDone' = [ctxDone EXCEPT ![r] = TRUE]
    /\ UNCHANGED <<gatewayVars, wire, pc, agentId, content, reply, runnerVars, brokerVars, storeVars, boundVars>>

-----------------------------------------------------------------------------
(* StreamMessage. *)

\* The handler returns: its status goes to the gateway and gRPC ends its context.
Return(r, status) ==
    /\ pc' = [pc EXCEPT ![r] = "ended"]
    /\ reply' = [reply EXCEPT ![r] = status]
    /\ ctxDone' = [ctxDone EXCEPT ![r] = TRUE]

Goto(r, label) == pc' = [pc EXCEPT ![r] = label] /\ UNCHANGED <<reply, ctxDone>>

\* A statement under the request's context failed.
ReturnFailed(r) ==
    /\ ctxDone[r] \/ CallsFail
    /\ Return(r, IF ctxDone[r] THEN "canceled" ELSE "error")

AddMessage(r, status) ==
    messages' = messages \cup {[session |-> SessionOf[r], run |-> r, status |-> status]}

\* UpdateAgentSession does not look at the number of rows it changed.
UpdateAgentSession(r, id) ==
    agent' = [agent EXCEPT ![SessionOf[r]] = IF SessionOf[r] \in live THEN id ELSE @]

\* FunctionConversationRuntime.Finish; its error is ignored.
Finish(r, status) ==
    \/ finished' = [finished EXCEPT ![r] = status]
    \/ CallsFail /\ UNCHANGED finished

\* recordAndListSessionReferences: what the message names stays with the session.
RecordReferences(r) == refs' = [refs EXCEPT ![SessionOf[r]] = @ \cup {r}]

\* Mutant of LoadSession: the conversation's id is taken for the agent's.
LoadSessionAsAgent(r) ==
    /\ pc[r] = "load" /\ ~ctxDone[r] /\ SessionOf[r] \in live
    /\ agentId' = [agentId EXCEPT ![r] = SessionOf[r]]
    /\ Goto(r, "prompt") /\ RecordReferences(r)
    /\ UNCHANGED <<gatewayVars, wire, content, runnerVars, brokerVars, live, agent, messages, finished, boundVars>>

\* The session, the references and the configuration of the run.  A failure
\* of the configuration leaves the references recorded.
LoadSession(r) ==
    /\ pc[r] = "load"
    /\ \/ /\ ~ctxDone[r] /\ SessionOf[r] \in live
          /\ agentId' = [agentId EXCEPT ![r] = IF agent[SessionOf[r]] = NoRun THEN r ELSE agent[SessionOf[r]]]
          /\ Goto(r, "prompt") /\ RecordReferences(r)
       \/ ReturnFailed(r) /\ UNCHANGED <<agentId, refs>>
       \/ SessionOf[r] \in live /\ ReturnFailed(r) /\ RecordReferences(r) /\ UNCHANGED agentId
       \/ SessionOf[r] \notin live /\ Return(r, "error") /\ UNCHANGED <<agentId, refs>>
    /\ UNCHANGED <<gatewayVars, wire, content, runnerVars, brokerVars, live, agent, messages, finished, boundVars>>

\* The prompt is stored and the agent started; it may also not start.
AddPrompt(r) ==
    /\ pc[r] = "prompt"
    /\ \/ ~ctxDone[r] /\ AddMessage(r, "prompt") /\ Goto(r, "loop") /\ rn' = [rn EXCEPT ![r] = "next"]
       \/ ~ctxDone[r] /\ CallsFail /\ AddMessage(r, "prompt") /\ Return(r, "error") /\ UNCHANGED rn
       \/ ReturnFailed(r) /\ UNCHANGED <<messages, rn>>
    /\ UNCHANGED <<gatewayVars, wire, agentId, content, deltas, errs, brokerVars, live, agent, refs, finished, boundVars>>

\* The select of the loop, first case: a text event of the runner, its last
\* event, or the event of a callback.
ReceiveDelta(r) ==
    /\ pc[r] = "loop" /\ rn[r] = "send"
    /\ rn' = [rn EXCEPT ![r] = "next"]
    /\ content' = [content EXCEPT ![r] = TRUE]
    /\ Goto(r, "sendDelta")
    /\ UNCHANGED <<gatewayVars, wire, agentId, deltas, errs, brokerVars, storeVars, boundVars>>

ReceiveDone(r) ==
    /\ pc[r] = "loop" /\ rn[r] = "sendDone"
    /\ rn' = [rn EXCEPT ![r] = "close"]
    /\ Goto(r, "done")
    /\ UNCHANGED <<gatewayVars, wire, agentId, content, deltas, errs, brokerVars, storeVars, boundVars>>

ReceiveAsk(t) ==
    /\ pc[RunOf[t]] = "loop" /\ cb[t] = "emit"
    /\ cb' = [cb EXCEPT ![t] = "waiting"]
    /\ content' = [content EXCEPT ![RunOf[t]] = TRUE]
    /\ Goto(RunOf[t], "sendAsk")
    /\ UNCHANGED <<gatewayVars, wire, agentId, runnerVars, pending, decision, executed, storeVars, boundVars>>

\* A send on a stream whose context is done fails and ends the handler.
SendItem(r) ==
    /\ pc[r] \in {"sendDelta", "sendAsk"}
    /\ \/ /\ ~ctxDone[r]
          /\ wire' = [wire EXCEPT ![r] = Append(@, IF pc[r] = "sendAsk" THEN "ask" ELSE "delta")]
          /\ Goto(r, "loop")
       \/ ctxDone[r] /\ Return(r, "canceled") /\ UNCHANGED wire
    /\ UNCHANGED <<gatewayVars, agentId, content, runnerVars, brokerVars, storeVars, boundVars>>

\* The agent's result: message, agent session and operation, then the last item.
StoreAnswer(r) ==
    /\ pc[r] = "done"
    /\ \/ ~ctxDone[r] /\ AddMessage(r, "normal") /\ Goto(r, "doneAgent")
       \/ ReturnFailed(r) /\ UNCHANGED messages
    /\ UNCHANGED <<gatewayVars, wire, agentId, content, runnerVars, brokerVars, live, agent, refs, finished, boundVars>>

\* Mutants of StoreAnswerAgent: a failure is ignored, or handled by savePartial.
StoreAnswerAgentUnchecked(r) ==
    /\ pc[r] = "doneAgent"
    /\ Goto(r, "doneSend")
    /\ UNCHANGED <<gatewayVars, wire, agentId, content, runnerVars, brokerVars, storeVars, boundVars>>

StoreAnswerAgentOrPartial(r) ==
    /\ pc[r] = "doneAgent"
    /\ IF ctxDone[r] THEN Goto(r, "partial") /\ UNCHANGED <<agent, finished>>
                     ELSE Goto(r, "doneSend") /\ UpdateAgentSession(r, agentId[r]) /\ Finish(r, "normal")
    /\ UNCHANGED <<gatewayVars, wire, agentId, content, runnerVars, brokerVars, live, refs, messages, boundVars>>

StoreAnswerAgent(r) ==
    /\ pc[r] = "doneAgent"
    /\ \/ /\ ~ctxDone[r]
          /\ \E id \in {agentId[r], r} :
                /\ agentId' = [agentId EXCEPT ![r] = id]
                /\ UpdateAgentSession(r, id)
          /\ Finish(r, "normal")
          /\ Goto(r, "doneSend")
       \/ ReturnFailed(r) /\ UNCHANGED <<agentId, agent, finished>>
    /\ UNCHANGED <<gatewayVars, wire, content, runnerVars, brokerVars, live, refs, messages, boundVars>>

SendDone(r) ==
    /\ pc[r] = "doneSend"
    /\ \/ ~ctxDone[r] /\ wire' = [wire EXCEPT ![r] = Append(@, "done")] /\ Return(r, "eof")
       \/ ctxDone[r] /\ Return(r, "canceled") /\ UNCHANGED wire
    /\ UNCHANGED <<gatewayVars, agentId, content, runnerVars, brokerVars, storeVars, boundVars>>

\* Second case of the select: an error of the runner or of a callback.
ReceiveErr(r) ==
    /\ pc[r] = "loop" /\ errs[r] # <<>>
    /\ errs' = [errs EXCEPT ![r] = Tail(@)]
    /\ \/ Head(errs[r]) = "canceled" /\ Goto(r, "partial") /\ UNCHANGED finished
       \/ Head(errs[r]) = "error" /\ Finish(r, "error") /\ Return(r, "error")
    /\ UNCHANGED <<gatewayVars, wire, agentId, content, rn, deltas, brokerVars, live, agent, refs, messages, boundVars>>

\* Third case: the context of the stream.
NoticeCancel(r) ==
    /\ pc[r] = "loop" /\ ctxDone[r]
    /\ Goto(r, "partial")
    /\ UNCHANGED <<gatewayVars, wire, agentId, content, runnerVars, brokerVars, storeVars, boundVars>>

\* savePartial, with a context of its own that outlives the cancellation.
SavePartial(r) ==
    /\ pc[r] = "partial"
    /\ \/ content[r] /\ AddMessage(r, "cancelled") /\ Goto(r, "partialAgent")
       \/ (CallsFail \/ ~content[r]) /\ Return(r, "canceled") /\ UNCHANGED messages
    /\ UNCHANGED <<gatewayVars, wire, agentId, content, runnerVars, brokerVars, live, agent, refs, finished, boundVars>>

SavePartialAgent(r) ==
    /\ pc[r] = "partialAgent"
    /\ \/ UpdateAgentSession(r, agentId[r]) /\ Finish(r, "cancelled")
       \/ CallsFail /\ UNCHANGED <<agent, finished>>
    /\ Return(r, "canceled")
    /\ UNCHANGED <<gatewayVars, wire, agentId, content, runnerVars, brokerVars, live, refs, messages, boundVars>>

-----------------------------------------------------------------------------
(* The runner's goroutine, which reads the agent process. *)

\* The agent says something, ends its turn or fails.  A turn does not end
\* while one of its tool calls is undecided.
AgentSpeaks(r) ==
    /\ rn[r] = "next"
    /\ \/ deltas[r] < MaxDeltas /\ rn' = [rn EXCEPT ![r] = "send"] /\ deltas' = [deltas EXCEPT ![r] = @ + 1]
       \/ /\ \A t \in Tools : RunOf[t] = r => cb[t] \notin {"emit", "put", "waiting"}
          /\ rn' = [rn EXCEPT ![r] = "sendDone"] /\ UNCHANGED deltas
       \/ rn' = [rn EXCEPT ![r] = "putError"] /\ UNCHANGED deltas
    /\ UNCHANGED <<gatewayVars, wire, streamVars, errs, brokerVars, storeVars, boundVars>>

\* client.Next and sendEvent return when the context is done.
RunnerCancelled(r) ==
    /\ rn[r] \in {"next", "send", "sendDone"} /\ ctxDone[r]
    /\ rn' = [rn EXCEPT ![r] = "putCanceled"]
    /\ UNCHANGED <<gatewayVars, wire, streamVars, deltas, errs, brokerVars, storeVars, boundVars>>

\* errs <- err, which blocks while the channel is full.
RunnerPut(r) ==
    /\ rn[r] \in {"putCanceled", "putError"} /\ errs[r] = <<>>
    /\ errs' = [errs EXCEPT ![r] = <<IF rn[r] = "putError" THEN "error" ELSE "canceled">>]
    /\ rn' = [rn EXCEPT ![r] = "close"]
    /\ UNCHANGED <<gatewayVars, wire, streamVars, deltas, brokerVars, storeVars, boundVars>>

\* The death of the process: handlers, runners, callbacks and the brokers'
\* tables are gone, the store and the gateway remain.
Crash ==
    /\ crashes' = crashes + 1
    /\ pc' = [r \in Runs |-> IF pc[r] = "none" THEN "none" ELSE "ended"]
    /\ reply' = [r \in Runs |-> IF pc[r] \in {"none", "ended"} THEN reply[r] ELSE "error"]
    /\ ctxDone' = [r \in Runs |-> pc[r] # "none"]
    /\ rn' = [r \in Runs |-> IF rn[r] = "none" THEN "none" ELSE "ended"]
    /\ errs' = [r \in Runs |-> <<>>]
    /\ cb' = [t \in Tools |-> IF cb[t] \in {"emit", "put", "waiting"} THEN "failed" ELSE cb[t]]
    /\ pending' = [t \in Tools |-> NoSession]
    /\ UNCHANGED <<gatewayVars, wire, agentId, content, deltas, decision, executed, storeVars, erased>>

MishapsLeft == Cardinality(erased) + crashes < MaxMishaps

AgentCrash == MishapsLeft /\ Crash

\* The client and both channels are closed.  A callback that is sending on
\* one of them then panics, and nothing recovers it.
InSend(r) == \E t \in Tools : RunOf[t] = r /\ cb[t] \in {"emit", "put"}

CloseRunner(r) ==
    /\ rn[r] = "close"
    /\ \/ /\ ~InSend(r)
          /\ rn' = [rn EXCEPT ![r] = "ended"]
          /\ UNCHANGED <<gatewayVars, wire, streamVars, deltas, errs, brokerVars, storeVars, boundVars>>
       \/ InSend(r) /\ Crash

-----------------------------------------------------------------------------
(* The SDK's callbacks and the brokers: Wait, Submit, remove. *)

CallbackStarts(t) ==
    /\ cb[t] = "none" /\ rn[RunOf[t]] \in {"next", "send"}
    /\ cb' = [cb EXCEPT ![t] = "emit"]
    /\ pending' = [pending EXCEPT ![t] = SessionOf[RunOf[t]]]
    /\ UNCHANGED <<gatewayVars, wire, streamVars, runnerVars, decision, executed, storeVars, boundVars>>

\* emit chooses the context's case and reports it on the error channel.
EmitCancelled(t) ==
    /\ cb[t] = "emit" /\ ctxDone[RunOf[t]]
    /\ cb' = [cb EXCEPT ![t] = "put"]
    /\ UNCHANGED <<gatewayVars, wire, streamVars, runnerVars, pending, decision, executed, storeVars, boundVars>>

EmitPut(t) ==
    /\ cb[t] = "put" /\ errs[RunOf[t]] = <<>>
    /\ errs' = [errs EXCEPT ![RunOf[t]] = <<"canceled">>]
    /\ cb' = [cb EXCEPT ![t] = "failed"]
    /\ pending' = [pending EXCEPT ![t] = NoSession]
    /\ UNCHANGED <<gatewayVars, wire, streamVars, rn, deltas, decision, executed, storeVars, boundVars>>

\* Mutants of WaitEnds: no deferred remove; no case for the context; a wait
\* that gives up by itself.
WaitEndsKeepingRequest(t) ==
    /\ cb[t] = "waiting"
    /\ \/ decision[t].value # "none" /\ cb' = [cb EXCEPT ![t] = decision[t].value]
       \/ ctxDone[RunOf[t]] /\ cb' = [cb EXCEPT ![t] = "failed"]
    /\ UNCHANGED <<gatewayVars, wire, streamVars, runnerVars, pending, decision, executed, storeVars, boundVars>>

WaitForAnswerOnly(t) ==
    /\ cb[t] = "waiting" /\ decision[t].value # "none"
    /\ cb' = [cb EXCEPT ![t] = decision[t].value]
    /\ UNCHANGED <<gatewayVars, wire, streamVars, runnerVars, pending, decision, executed, storeVars, boundVars>>

WaitGivesUp(t) ==
    /\ cb[t] = "waiting"
    /\ \/ decision[t].value # "none" /\ cb' = [cb EXCEPT ![t] = decision[t].value]
       \/ cb' = [cb EXCEPT ![t] = "failed"]
    /\ pending' = [pending EXCEPT ![t] = NoSession]
    /\ UNCHANGED <<gatewayVars, wire, streamVars, runnerVars, decision, executed, storeVars, boundVars>>

\* The select of Wait; with an answer and a cancellation at hand, either.
WaitEnds(t) ==
    /\ cb[t] = "waiting"
    /\ \/ decision[t].value # "none" /\ cb' = [cb EXCEPT ![t] = decision[t].value]
       \/ ctxDone[RunOf[t]] /\ cb' = [cb EXCEPT ![t] = "failed"]
    /\ pending' = [pending EXCEPT ![t] = NoSession]
    /\ UNCHANGED <<gatewayVars, wire, streamVars, runnerVars, decision, executed, storeVars, boundVars>>

\* Mutant of Submit: the session is not compared.
SubmitAnySession(s, t, answer) ==
    /\ s \in live /\ pending[t] # NoSession
    /\ decision' = [decision EXCEPT ![t] = [session |-> s, value |-> answer]]
    /\ pending' = [pending EXCEPT ![t] = NoSession]
    /\ UNCHANGED <<gatewayVars, wire, streamVars, runnerVars, cb, executed, storeVars, boundVars>>

Submit(s, t, answer) ==
    /\ s \in live /\ pending[t] = s
    /\ decision' = [decision EXCEPT ![t] = [session |-> s, value |-> answer]]
    /\ pending' = [pending EXCEPT ![t] = NoSession]
    /\ UNCHANGED <<gatewayVars, wire, streamVars, runnerVars, cb, executed, storeVars, boundVars>>

\* The agent executes a tool it was allowed to use.
ToolRuns(t) ==
    /\ cb[t] = "allow" /\ t \notin executed /\ rn[RunOf[t]] # "ended"
    /\ executed' = executed \cup {t}
    /\ UNCHANGED <<gatewayVars, wire, streamVars, runnerVars, cb, pending, decision, storeVars, boundVars>>

-----------------------------------------------------------------------------
(* Sessions. *)

DeleteSession(s) ==
    /\ s \in live \ erased /\ MishapsLeft
    /\ live' = live \ {s}
    /\ erased' = erased \cup {s}
    /\ agent' = [agent EXCEPT ![s] = NoRun]
    /\ refs' = [refs EXCEPT ![s] = {}]
    /\ messages' = {m \in messages : m.session # s}
    /\ UNCHANGED <<gatewayVars, wire, streamVars, runnerVars, brokerVars, finished, crashes>>

EnsureSession(s) ==
    /\ s \notin live
    /\ live' = live \cup {s}
    /\ UNCHANGED <<gatewayVars, wire, streamVars, runnerVars, brokerVars, agent, refs, messages, finished, boundVars>>

-----------------------------------------------------------------------------
GatewayStep(r) == CopyItem(r) \/ CopyEnd(r) \/ CancelReaches(r)
StreamStep(r) ==
    \/ LoadSession(r) \/ AddPrompt(r) \/ ReceiveDelta(r) \/ ReceiveDone(r) \/ SendItem(r)
    \/ StoreAnswer(r) \/ StoreAnswerAgent(r) \/ SendDone(r) \/ ReceiveErr(r) \/ NoticeCancel(r)
    \/ SavePartial(r) \/ SavePartialAgent(r)
RunnerStep(r) == RunnerCancelled(r) \/ RunnerPut(r) \/ CloseRunner(r)
CallbackStep(t) == ReceiveAsk(t) \/ EmitCancelled(t) \/ EmitPut(t) \/ WaitEnds(t)

Next ==
    \/ \E r \in Runs : \/ StartAgentStream(r) \/ CancelRun(r) \/ AgentSpeaks(r)
                       \/ GatewayStep(r) \/ StreamStep(r) \/ RunnerStep(r)
    \/ \E t \in Tools : CallbackStarts(t) \/ CallbackStep(t) \/ ToolRuns(t)
    \/ \E s \in Sessions, t \in Tools, answer \in {"allow", "deny"} : Submit(s, t, answer)
    \/ \E s \in Sessions : DeleteSession(s) \/ EnsureSession(s)
    \/ CloseSocket \/ AgentCrash

Spec == Init /\ [][Next]_vars

\* Goroutines run and gRPC delivers; users, the agent and failures owe nothing.
Fairness ==
    /\ \A r \in Runs : WF_vars(GatewayStep(r)) /\ WF_vars(StreamStep(r)) /\ WF_vars(RunnerStep(r))
    /\ \A t \in Tools : WF_vars(CallbackStep(t))

FairSpec == Spec /\ Fairness

-----------------------------------------------------------------------------
(* What a turn promises. *)

Contains(seq, x) == \E i \in DOMAIN seq : seq[i] = x
Told(r, item) == Contains(wire[r], item) \/ Contains(shown[r], item)
Stored(r, status) == [session |-> SessionOf[r], run |-> r, status |-> status] \in messages

\* The browser is told that a turn is done only when the answer is stored and
\* the conversation can be resumed, whatever is cancelled or fails meanwhile
\* (StreamMessage stores, updates, then sends).
DoneIsDurable ==
    \A r \in Runs : Told(r, "done") /\ SessionOf[r] \notin erased =>
        Stored(r, "normal") /\ agent[SessionOf[r]] # NoRun

\* A stored partial answer is the trace of an interrupted turn: the turn was
\* cancelled, has no complete answer beside it and is never announced as done
\* (savePartial and the three cases of the select).
PartialIsExclusive ==
    \A r \in Runs : Stored(r, "cancelled") =>
        ctxDone[r] /\ ~Stored(r, "normal") /\ ~Told(r, "done")

\* A tool that needs permission runs only after somebody answered "allow" in
\* the conversation the tool belongs to (ToolPermissionBroker.Submit).
ToolRunsApproved ==
    \A t \in executed : decision[t] = [session |-> SessionOf[RunOf[t]], value |-> "allow"]

\* An answer the broker accepted is the answer the agent acts on, unless the
\* turn was interrupted: it is neither lost nor replaced by a later one.
AcceptedAnswerCounts ==
    \A t \in Tools : decision[t].value # "none" =>
        cb[t] \in {"emit", "put", "waiting", decision[t].value} \/ ctxDone[RunOf[t]]

\* The brokers keep no request that nobody waits for, so an answer is never
\* accepted into the void (Wait's deferred remove, on every way out).
NoStaleRequest ==
    \A t \in Tools : pending[t] # NoSession =>
        cb[t] \in {"emit", "put", "waiting"} /\ pending[t] = SessionOf[RunOf[t]]

\* The last envelope of a request is the only one that ends it (the copying
\* goroutine of startAgentStream).
TerminalIsLast ==
    \A r \in Runs : \A i \in DOMAIN shown[r] : shown[r][i] \in Terminal => i = Len(shown[r])

\* A cancelled turn unwinds everywhere: the goroutine of the gateway, the
\* handler in ai-agent and every callback parked in a broker come to an end,
\* with the agent silent and the user gone.
CancelUnwinds ==
    \A r \in Runs : (cancelled[r] /\ pc[r] # "none") ~>
        /\ gw[r] = "ended" /\ pc[r] = "ended"
        /\ \A t \in Tools : RunOf[t] = r => cb[t] \notin {"emit", "waiting"}

\* What TestMessageLogicStreamPersistsPartialOnCancel asserts for one
\* schedule: text the browser has seen of a cancelled turn is stored.
PartialPersists ==
    \A r \in Runs : reply[r] = "canceled" /\ Contains(shown[r], "delta") /\ SessionOf[r] \notin erased =>
        Stored(r, "cancelled") \/ Stored(r, "normal")

-----------------------------------------------------------------------------
(* The turn as its user sees it.  What is stored contrary to the promise   *)
(* ("torn", "lost") has no counterpart there.                              *)
FateOf(r) ==
    IF SessionOf[r] \in erased THEN "void"
    ELSE IF Stored(r, "normal")
         THEN IF Stored(r, "cancelled") THEN "torn"
              ELSE IF reply[r] = "eof" THEN "announced" ELSE "answered"
         ELSE IF reply[r] = "eof" THEN "lost"
              ELSE IF Stored(r, "cancelled") THEN "kept"
                   ELSE IF Stored(r, "prompt") THEN "asked" ELSE "none"

LastOf(seq) == seq[Len(seq)]

SeenOf(r) ==
    IF shown[r] # <<>> /\ LastOf(shown[r]) \in Terminal THEN LastOf(shown[r]) ELSE "nothing"

Fate == [r \in Runs |-> FateOf(r)]
Resumable == {s \in Sessions \ erased : agent[s] # NoRun}
Seen == [r \in Runs |-> SeenOf(r)]

Promise == INSTANCE TurnPromise WITH fate <- Fate, resumable <- Resumable, seen <- Seen

\* Socket, stream, runner, brokers and store together implement TurnPromise:
\* in every interleaving of cancellations, failures, deletions and deaths of
\* the process each step is one step of that promise, or none.
KeepsTurnPromise == Promise!TurnSpec

-----------------------------------------------------------------------------
(* Stronger statements that do not hold; the README says how each fails.  *)
(* No run asserts them.                                                    *)

RunnerUnwinds == \A r \in Runs : cancelled[r] ~> rn[r] \in {"none", "ended"}
NoSendOnClosed == \A r \in Runs : rn[r] = "close" => ~InSend(r)
MessagesHaveSession == \A m \in messages : m.session \in live

=============================================================================
