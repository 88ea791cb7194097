----------------------------- MODULE AgentRunProofs -----------------------------
(***************************************************************************)
(* Proofs about AgentRun, for any number of runs, sessions and tools.      *)
(***************************************************************************)
EXTENDS AgentRun, TLAPS

(* The assumptions on the constants, under one name.                       *)
LEMMA Constants ==
    /\ SessionOf \in [Runs -> Sessions] /\ RunOf \in [Tools -> Runs]
    /\ NoRun \notin Runs /\ NoSession \notin Sessions
  BY RequestsAreForSessions, ToolsAreCalledInRuns, NothingIsNoRun, NothingIsNoSession

(* The death of the process keeps the types.                               *)
LEMMA CrashTypes ==
    ASSUME TypeOK, Crash
    PROVE  TypeOK'
  <1>1. GatewayTypeOK' /\ WireTypeOK' /\ StoreTypeOK'
    BY DEF TypeOK, Crash, GatewayTypeOK, WireTypeOK, StoreTypeOK, gatewayVars, storeVars
  <1>2. StreamTypeOK'
    BY DEF TypeOK, Crash, StreamTypeOK, StreamPc, Causes
  <1>3. RunnerTypeOK'
    BY DEF TypeOK, Crash, RunnerTypeOK, RunnerPc
  <1>4. BrokerTypeOK'
    BY DEF TypeOK, Crash, BrokerTypeOK, CallbackPc
  <1>5. BoundTypeOK'
    BY DEF TypeOK, Crash, BoundTypeOK
  <1> QED
    BY <1>1, <1>2, <1>3, <1>4, <1>5 DEF TypeOK

(* The types of what the helpers of several actions write.                *)
LEMMA ShowTypes ==
    ASSUME GatewayTypeOK, NEW r \in Runs, NEW e \in Items \cup Terminal, Show(r, e)
    PROVE  shown' \in [Runs -> Seq(Items \cup Terminal)]
  BY DEF GatewayTypeOK, Show

LEMMA EndCopyingTypes ==
    ASSUME GatewayTypeOK, NEW r \in Runs, EndCopying(r)
    PROVE  gw' \in [Runs -> {"none", "copying", "ended"}] /\ cancelled' \in [Runs -> BOOLEAN]
  BY DEF GatewayTypeOK, EndCopying

LEMMA WireTypes ==
    ASSUME WireTypeOK, NEW r \in Runs, NEW item \in Items, wire' = [wire EXCEPT ![r] = Append(@, item)]
    PROVE  WireTypeOK'
  <1>1. Append(wire[r], item) \in Seq(Items)
    BY DEF WireTypeOK
  <1> QED BY <1>1 DEF WireTypeOK

LEMMA StreamPcTypes ==
    ASSUME StreamTypeOK, NEW r \in Runs,
           \/ \E label \in StreamPc : Goto(r, label)
           \/ ReturnFailed(r)
           \/ \E status \in Causes : Return(r, status)
    PROVE  /\ pc' \in [Runs -> StreamPc] /\ ctxDone' \in [Runs -> BOOLEAN]
           /\ reply' \in [Runs -> {"none", "eof"} \cup Causes]
  <1>1. CASE \E label \in StreamPc : Goto(r, label)
    BY <1>1 DEF StreamTypeOK, Goto
  <1>2. CASE \E status \in Causes : Return(r, status)
    BY <1>2 DEF StreamTypeOK, Return, StreamPc
  <1>3. CASE ReturnFailed(r)
    BY <1>2, <1>3 DEF ReturnFailed, Causes
  <1> QED BY <1>1, <1>2, <1>3

LEMMA FinishTypes ==
    ASSUME StoreTypeOK, NEW r \in Runs, NEW status \in {"normal", "cancelled", "error"}, Finish(r, status)
    PROVE  finished' \in [Runs -> {"none", "normal", "cancelled", "error"}]
  BY DEF StoreTypeOK, Finish

LEMMA UpdateAgentSessionTypes ==
    ASSUME StoreTypeOK, NEW r \in Runs, NEW id \in Runs \cup {NoRun}, UpdateAgentSession(r, id)
    PROVE  agent' \in [Sessions -> Runs \cup {NoRun}]
  BY Constants DEF StoreTypeOK, UpdateAgentSession

(* Every step keeps the types: per action, the parts it leaves alone and   *)
(* then the ones it writes.                                                *)
LEMMA TypeStep ==
    ASSUME TypeOK, [Next]_vars
    PROVE  TypeOK'
  <1>1. ASSUME NEW r \in Runs, StartAgentStream(r) PROVE TypeOK'
    <2>1. WireTypeOK' /\ RunnerTypeOK' /\ BrokerTypeOK' /\ StoreTypeOK' /\ BoundTypeOK'
      BY <1>1
      DEF TypeOK, StartAgentStream, WireTypeOK, RunnerTypeOK, BrokerTypeOK, StoreTypeOK, BoundTypeOK,
          runnerVars, brokerVars, storeVars, boundVars
    <2>2. GatewayTypeOK'
      <3>1. CASE gw' = [gw EXCEPT ![r] = "copying"] /\ UNCHANGED <<cancelled, shown>>
        BY <1>1, <3>1 DEF TypeOK, GatewayTypeOK, StartAgentStream
      <3>2. CASE EndCopying(r) /\ Show(r, "error")
        BY <1>1, <3>2, ShowTypes, EndCopyingTypes DEF TypeOK, GatewayTypeOK, StartAgentStream, Terminal
      <3> QED BY <1>1, <3>1, <3>2 DEF StartAgentStream
    <2>3. StreamTypeOK'
      BY <1>1, Constants DEF TypeOK, StreamTypeOK, StartAgentStream, StreamPc, Causes
    <2> QED BY <2>1, <2>2, <2>3 DEF TypeOK
  <1>2. ASSUME NEW r \in Runs, CopyItem(r) PROVE TypeOK'
    <2>1. StreamTypeOK' /\ RunnerTypeOK' /\ BrokerTypeOK' /\ StoreTypeOK' /\ BoundTypeOK'
      BY <1>2
      DEF TypeOK, CopyItem, StreamTypeOK, RunnerTypeOK, BrokerTypeOK, StoreTypeOK, BoundTypeOK, streamVars,
          runnerVars, brokerVars, storeVars, boundVars
    <2>2. GatewayTypeOK'
      <3>1. Head(wire[r]) \in Items
        BY <1>2 DEF TypeOK, WireTypeOK, CopyItem
      <3>2. shown' \in [Runs -> Seq(Items \cup Terminal)]
        BY <1>2, <3>1, ShowTypes DEF TypeOK, CopyItem
      <3>3. CASE EndCopying(r)
        BY <1>2, <3>2, <3>3, EndCopyingTypes DEF TypeOK, GatewayTypeOK, CopyItem
      <3>4. CASE UNCHANGED <<gw, cancelled>>
        BY <1>2, <3>2, <3>4 DEF TypeOK, GatewayTypeOK, CopyItem
      <3> QED BY <1>2, <3>3, <3>4 DEF CopyItem
    <2>3. WireTypeOK'
      BY <1>2, Constants DEF TypeOK, WireTypeOK, CopyItem, Items
    <2> QED BY <2>1, <2>2, <2>3 DEF TypeOK
  <1>3. ASSUME NEW r \in Runs, CopyEnd(r) PROVE TypeOK'
    <2>1. WireTypeOK' /\ StreamTypeOK' /\ RunnerTypeOK' /\ BrokerTypeOK' /\ StoreTypeOK' /\ BoundTypeOK'
      BY <1>3
      DEF TypeOK, CopyEnd, WireTypeOK, StreamTypeOK, RunnerTypeOK, BrokerTypeOK, StoreTypeOK, BoundTypeOK,
          streamVars, runnerVars, brokerVars, storeVars, boundVars
    <2>2. GatewayTypeOK'
      <3>1. \E e \in Terminal : Show(r, e)
        BY <1>3 DEF CopyEnd, Terminal
      <3> QED BY <1>3, <3>1, ShowTypes, EndCopyingTypes DEF TypeOK, GatewayTypeOK, CopyEnd
    <2> QED BY <2>1, <2>2 DEF TypeOK
  <1>4. ASSUME NEW r \in Runs, CancelRun(r) PROVE TypeOK'
    <2>1. WireTypeOK' /\ StreamTypeOK' /\ RunnerTypeOK' /\ BrokerTypeOK' /\ StoreTypeOK' /\ BoundTypeOK'
      BY <1>4
      DEF TypeOK, CancelRun, WireTypeOK, StreamTypeOK, RunnerTypeOK, BrokerTypeOK, StoreTypeOK, BoundTypeOK,
          streamVars, runnerVars, brokerVars, storeVars, boundVars
    <2>2. GatewayTypeOK'
      BY <1>4, Constants DEF TypeOK, GatewayTypeOK, CancelRun, Items, Terminal
    <2> QED BY <2>1, <2>2 DEF TypeOK
  <1>5. ASSUME NEW r \in Runs, CancelReaches(r) PROVE TypeOK'
    <2>1. GatewayTypeOK' /\ WireTypeOK' /\ RunnerTypeOK' /\ BrokerTypeOK' /\ StoreTypeOK' /\ BoundTypeOK'
      BY <1>5
      DEF TypeOK, CancelReaches, GatewayTypeOK, WireTypeOK, RunnerTypeOK, BrokerTypeOK, StoreTypeOK,
          BoundTypeOK, gatewayVars, runnerVars, brokerVars, storeVars, boundVars
    <2>2. StreamTypeOK'
      BY <1>5, Constants DEF TypeOK, StreamTypeOK, CancelReaches, StreamPc, Causes
    <2> QED BY <2>1, <2>2 DEF TypeOK
  <1>6. ASSUME NEW r \in Runs, LoadSession(r) PROVE TypeOK'
    <2>1. GatewayTypeOK' /\ WireTypeOK' /\ RunnerTypeOK' /\ BrokerTypeOK' /\ BoundTypeOK'
      BY <1>6
      DEF TypeOK, LoadSession, GatewayTypeOK, WireTypeOK, RunnerTypeOK, BrokerTypeOK, BoundTypeOK,
          gatewayVars, runnerVars, brokerVars, boundVars
    <2>2. StreamTypeOK'
      <3>1. agentId' \in [Runs -> Runs \cup {NoRun}] /\ UNCHANGED content
        BY <1>6, Constants DEF TypeOK, StreamTypeOK, StoreTypeOK, LoadSession
      <3>2. Goto(r, "prompt") \/ ReturnFailed(r) \/ Return(r, "error")
        BY <1>6 DEF LoadSession
      <3> QED BY <3>1, <3>2, StreamPcTypes DEF TypeOK, StreamTypeOK, StreamPc, Causes
    <2>3. StoreTypeOK'
      BY <1>6, Constants DEF TypeOK, StoreTypeOK, LoadSession, RecordReferences, Message, Statuses
    <2> QED BY <2>1, <2>2, <2>3 DEF TypeOK
  <1>7. ASSUME NEW r \in Runs, AddPrompt(r) PROVE TypeOK'
    <2>1. GatewayTypeOK' /\ WireTypeOK' /\ BrokerTypeOK' /\ BoundTypeOK'
      BY <1>7
      DEF TypeOK, AddPrompt, GatewayTypeOK, WireTypeOK, BrokerTypeOK, BoundTypeOK, gatewayVars, brokerVars,
          boundVars
    <2>2. StreamTypeOK'
      BY <1>7, Constants DEF TypeOK, StreamTypeOK, AddPrompt, Return, Goto, ReturnFailed, StreamPc, Causes
    <2>3. RunnerTypeOK'
      BY <1>7, Constants DEF TypeOK, RunnerTypeOK, AddPrompt, RunnerPc, Causes
    <2>4. StoreTypeOK'
      BY <1>7, Constants DEF TypeOK, StoreTypeOK, AddPrompt, AddMessage, Message, Statuses
    <2> QED BY <2>1, <2>2, <2>3, <2>4 DEF TypeOK
  <1>8. ASSUME NEW r \in Runs, ReceiveDelta(r) PROVE TypeOK'
    <2>1. GatewayTypeOK' /\ WireTypeOK' /\ BrokerTypeOK' /\ StoreTypeOK' /\ BoundTypeOK'
      BY <1>8
      DEF TypeOK, ReceiveDelta, GatewayTypeOK, WireTypeOK, BrokerTypeOK, StoreTypeOK, BoundTypeOK,
          gatewayVars, brokerVars, storeVars, boundVars
    <2>2. StreamTypeOK'
      BY <1>8, Constants DEF TypeOK, StreamTypeOK, ReceiveDelta, Goto, StreamPc, Causes
    <2>3. RunnerTypeOK'
      BY <1>8, Constants DEF TypeOK, RunnerTypeOK, ReceiveDelta, RunnerPc, Causes
    <2> QED BY <2>1, <2>2, <2>3 DEF TypeOK
  <1>9. ASSUME NEW r \in Runs, ReceiveDone(r) PROVE TypeOK'
    <2>1. GatewayTypeOK' /\ WireTypeOK' /\ BrokerTypeOK' /\ StoreTypeOK' /\ BoundTypeOK'
      BY <1>9
      DEF TypeOK, ReceiveDone, GatewayTypeOK, WireTypeOK, BrokerTypeOK, StoreTypeOK, BoundTypeOK,
          gatewayVars, brokerVars, storeVars, boundVars
    <2>2. StreamTypeOK'
      BY <1>9, Constants DEF TypeOK, StreamTypeOK, ReceiveDone, Goto, StreamPc, Causes
    <2>3. RunnerTypeOK'
      BY <1>9, Constants DEF TypeOK, RunnerTypeOK, ReceiveDone, RunnerPc, Causes
    <2> QED BY <2>1, <2>2, <2>3 DEF TypeOK
  <1>10. ASSUME NEW r \in Runs, SendItem(r) PROVE TypeOK'
    <2>1. GatewayTypeOK' /\ RunnerTypeOK' /\ BrokerTypeOK' /\ StoreTypeOK' /\ BoundTypeOK'
      BY <1>10
      DEF TypeOK, SendItem, GatewayTypeOK, RunnerTypeOK, BrokerTypeOK, StoreTypeOK, BoundTypeOK,
          gatewayVars, runnerVars, brokerVars, storeVars, boundVars
    <2>2. WireTypeOK'
      <3>1. UNCHANGED wire \/ \E item \in {"ask", "delta"} : wire' = [wire EXCEPT ![r] = Append(@, item)]
        BY <1>10 DEF SendItem
      <3> QED BY <3>1, WireTypes DEF TypeOK, WireTypeOK, Items
    <2>3. StreamTypeOK'
      BY <1>10, Constants DEF TypeOK, StreamTypeOK, SendItem, Return, Goto, StreamPc, Causes
    <2> QED BY <2>1, <2>2, <2>3 DEF TypeOK
  <1>11. ASSUME NEW r \in Runs, StoreAnswer(r) PROVE TypeOK'
    <2>1. GatewayTypeOK' /\ WireTypeOK' /\ RunnerTypeOK' /\ BrokerTypeOK' /\ BoundTypeOK'
      BY <1>11
      DEF TypeOK, StoreAnswer, GatewayTypeOK, WireTypeOK, RunnerTypeOK, BrokerTypeOK, BoundTypeOK,
          gatewayVars, runnerVars, brokerVars, boundVars
    <2>2. StreamTypeOK'
      BY <1>11, Constants
      DEF TypeOK, StreamTypeOK, StoreAnswer, Return, Goto, ReturnFailed, StreamPc, Causes
    <2>3. StoreTypeOK'
      BY <1>11, Constants DEF TypeOK, StoreTypeOK, StoreAnswer, AddMessage, Message, Statuses
    <2> QED BY <2>1, <2>2, <2>3 DEF TypeOK
  <1>12. ASSUME NEW r \in Runs, StoreAnswerAgent(r) PROVE TypeOK'
    <2>1. GatewayTypeOK' /\ WireTypeOK' /\ RunnerTypeOK' /\ BrokerTypeOK' /\ BoundTypeOK'
      BY <1>12
      DEF TypeOK, StoreAnswerAgent, GatewayTypeOK, WireTypeOK, RunnerTypeOK, BrokerTypeOK, BoundTypeOK,
          gatewayVars, runnerVars, brokerVars, boundVars
    <2>2. StreamTypeOK'
      <3>1. agentId' \in [Runs -> Runs \cup {NoRun}] /\ UNCHANGED content
        BY <1>12 DEF TypeOK, StreamTypeOK, StoreAnswerAgent
      <3>2. Goto(r, "doneSend") \/ ReturnFailed(r)
        BY <1>12 DEF StoreAnswerAgent
      <3> QED BY <3>1, <3>2, StreamPcTypes DEF TypeOK, StreamTypeOK, StreamPc, Causes
    <2>3. StoreTypeOK'
      <3>1. UNCHANGED <<live, refs, messages>>
        BY <1>12 DEF StoreAnswerAgent
      <3>2. \/ Finish(r, "normal") /\ \E id \in Runs \cup {NoRun} : UpdateAgentSession(r, id)
            \/ UNCHANGED <<agent, finished>>
        BY <1>12 DEF StoreAnswerAgent, TypeOK, StreamTypeOK
      <3> QED BY <3>1, <3>2, FinishTypes, UpdateAgentSessionTypes DEF TypeOK, StoreTypeOK
    <2> QED BY <2>1, <2>2, <2>3 DEF TypeOK
  <1>13. ASSUME NEW r \in Runs, SendDone(r) PROVE TypeOK'
    <2>1. GatewayTypeOK' /\ RunnerTypeOK' /\ BrokerTypeOK' /\ StoreTypeOK' /\ BoundTypeOK'
      BY <1>13
      DEF TypeOK, SendDone, GatewayTypeOK, RunnerTypeOK, BrokerTypeOK, StoreTypeOK, BoundTypeOK,
          gatewayVars, runnerVars, brokerVars, storeVars, boundVars
    <2>2. WireTypeOK'
      <3>1. UNCHANGED wire \/ wire' = [wire EXCEPT ![r] = Append(@, "done")]
        BY <1>13 DEF SendDone
      <3> QED BY <3>1, WireTypes DEF TypeOK, WireTypeOK, Items
    <2>3. StreamTypeOK'
      BY <1>13, Constants DEF TypeOK, StreamTypeOK, SendDone, Return, StreamPc, Causes
    <2> QED BY <2>1, <2>2, <2>3 DEF TypeOK
  <1>14. ASSUME NEW r \in Runs, ReceiveErr(r) PROVE TypeOK'
    <2>1. GatewayTypeOK' /\ WireTypeOK' /\ BrokerTypeOK' /\ BoundTypeOK'
      BY <1>14
      DEF TypeOK, ReceiveErr, GatewayTypeOK, WireTypeOK, BrokerTypeOK, BoundTypeOK, gatewayVars, brokerVars,
          boundVars
    <2>2. StreamTypeOK'
      BY <1>14, Constants DEF TypeOK, StreamTypeOK, ReceiveErr, Return, Goto, StreamPc, Causes
    <2>3. RunnerTypeOK'
      BY <1>14, Constants DEF TypeOK, RunnerTypeOK, ReceiveErr, RunnerPc, Causes
    <2>4. StoreTypeOK'
      BY <1>14, Constants DEF TypeOK, StoreTypeOK, ReceiveErr, Finish, Message, Statuses
    <2> QED BY <2>1, <2>2, <2>3, <2>4 DEF TypeOK
  <1>15. ASSUME NEW r \in Runs, NoticeCancel(r) PROVE TypeOK'
    <2>1. GatewayTypeOK' /\ WireTypeOK' /\ RunnerTypeOK' /\ BrokerTypeOK' /\ StoreTypeOK' /\ BoundTypeOK'
      BY <1>15
      DEF TypeOK, NoticeCancel, GatewayTypeOK, WireTypeOK, RunnerTypeOK, BrokerTypeOK, StoreTypeOK,
          BoundTypeOK, gatewayVars, runnerVars, brokerVars, storeVars, boundVars
    <2>2. StreamTypeOK'
      BY <1>15, Constants DEF TypeOK, StreamTypeOK, NoticeCancel, Goto, StreamPc, Causes
    <2> QED BY <2>1, <2>2 DEF TypeOK
  <1>16. ASSUME NEW r \in Runs, SavePartial(r) PROVE TypeOK'
    <2>1. GatewayTypeOK' /\ WireTypeOK' /\ RunnerTypeOK' /\ BrokerTypeOK' /\ BoundTypeOK'
      BY <1>16
      DEF TypeOK, SavePartial, GatewayTypeOK, WireTypeOK, RunnerTypeOK, BrokerTypeOK, BoundTypeOK,
          gatewayVars, runnerVars, brokerVars, boundVars
    <2>2. StreamTypeOK'
      BY <1>16, Constants DEF TypeOK, StreamTypeOK, SavePartial, Return, Goto, StreamPc, Causes
    <2>3. StoreTypeOK'
      BY <1>16, Constants DEF TypeOK, StoreTypeOK, SavePartial, AddMessage, Message, Statuses
    <2> QED BY <2>1, <2>2, <2>3 DEF TypeOK
  <1>17. ASSUME NEW r \in Runs, SavePartialAgent(r) PROVE TypeOK'
    <2>1. GatewayTypeOK' /\ WireTypeOK' /\ RunnerTypeOK' /\ BrokerTypeOK' /\ BoundTypeOK'
      BY <1>17
      DEF TypeOK, SavePartialAgent, GatewayTypeOK, WireTypeOK, RunnerTypeOK, BrokerTypeOK, BoundTypeOK,
          gatewayVars, runnerVars, brokerVars, boundVars
    <2>2. StreamTypeOK'
      BY <1>17, Constants DEF TypeOK, StreamTypeOK, SavePartialAgent, Return, StreamPc, Causes
    <2>3. StoreTypeOK'
      <3>1. UNCHANGED <<live, refs, messages>>
        BY <1>17 DEF SavePartialAgent
      <3>2. \/ Finish(r, "cancelled") /\ \E id \in Runs \cup {NoRun} : UpdateAgentSession(r, id)
            \/ UNCHANGED <<agent, finished>>
        BY <1>17 DEF SavePartialAgent, TypeOK, StreamTypeOK
      <3> QED BY <3>1, <3>2, FinishTypes, UpdateAgentSessionTypes DEF TypeOK, StoreTypeOK
    <2> QED BY <2>1, <2>2, <2>3 DEF TypeOK
  <1>18. ASSUME NEW r \in Runs, AgentSpeaks(r) PROVE TypeOK'
    <2>1. GatewayTypeOK' /\ WireTypeOK' /\ StreamTypeOK' /\ BrokerTypeOK' /\ StoreTypeOK' /\ BoundTypeOK'
      BY <1>18
      DEF TypeOK, AgentSpeaks, GatewayTypeOK, WireTypeOK, StreamTypeOK, BrokerTypeOK, StoreTypeOK,
          BoundTypeOK, gatewayVars, streamVars, brokerVars, storeVars, boundVars
    <2>2. RunnerTypeOK'
      <3>1. UNCHANGED errs /\ \E label \in RunnerPc : rn' = [rn EXCEPT ![r] = label]
        BY <1>18 DEF AgentSpeaks, RunnerPc
      <3>2. UNCHANGED deltas \/ deltas' = [deltas EXCEPT ![r] = @ + 1]
        BY <1>18 DEF AgentSpeaks
      <3> QED BY <3>1, <3>2 DEF TypeOK, RunnerTypeOK
    <2> QED BY <2>1, <2>2 DEF TypeOK
  <1>19. ASSUME NEW r \in Runs, RunnerCancelled(r) PROVE TypeOK'
    <2>1. GatewayTypeOK' /\ WireTypeOK' /\ StreamTypeOK' /\ BrokerTypeOK' /\ StoreTypeOK' /\ BoundTypeOK'
      BY <1>19
      DEF TypeOK, RunnerCancelled, GatewayTypeOK, WireTypeOK, StreamTypeOK, BrokerTypeOK, StoreTypeOK,
          BoundTypeOK, gatewayVars, streamVars, brokerVars, storeVars, boundVars
    <2>2. RunnerTypeOK'
      BY <1>19, Constants DEF TypeOK, RunnerTypeOK, RunnerCancelled, RunnerPc, Causes
    <2> QED BY <2>1, <2>2 DEF TypeOK
  <1>20. ASSUME NEW r \in Runs, RunnerPut(r) PROVE TypeOK'
    <2>1. GatewayTypeOK' /\ WireTypeOK' /\ StreamTypeOK' /\ BrokerTypeOK' /\ StoreTypeOK' /\ BoundTypeOK'
      BY <1>20
      DEF TypeOK, RunnerPut, GatewayTypeOK, WireTypeOK, StreamTypeOK, BrokerTypeOK, StoreTypeOK,
          BoundTypeOK, gatewayVars, streamVars, brokerVars, storeVars, boundVars
    <2>2. RunnerTypeOK'
      BY <1>20, Constants DEF TypeOK, RunnerTypeOK, RunnerPut, RunnerPc, Causes
    <2> QED BY <2>1, <2>2 DEF TypeOK
  <1>21. ASSUME NEW r \in Runs, CloseRunner(r) PROVE TypeOK'
    <2>1. CASE InSend(r)
      BY <1>21, <2>1, CrashTypes DEF CloseRunner
    <2>2. CASE ~InSend(r)
      BY <1>21, <2>2
      DEF CloseRunner, TypeOK, GatewayTypeOK, WireTypeOK, StreamTypeOK, RunnerTypeOK, BrokerTypeOK,
          StoreTypeOK, BoundTypeOK, RunnerPc, gatewayVars, streamVars, runnerVars, brokerVars, storeVars,
          boundVars
    <2> QED BY <2>1, <2>2
  <1>22. ASSUME NEW t \in Tools, CallbackStarts(t) PROVE TypeOK'
    <2>1. GatewayTypeOK' /\ WireTypeOK' /\ StreamTypeOK' /\ RunnerTypeOK' /\ StoreTypeOK' /\ BoundTypeOK'
      BY <1>22
      DEF TypeOK, CallbackStarts, GatewayTypeOK, WireTypeOK, StreamTypeOK, RunnerTypeOK, StoreTypeOK,
          BoundTypeOK, gatewayVars, streamVars, runnerVars, storeVars, boundVars
    <2>2. BrokerTypeOK'
      BY <1>22, Constants DEF TypeOK, BrokerTypeOK, CallbackStarts, CallbackPc, Answer
    <2> QED BY <2>1, <2>2 DEF TypeOK
  <1>23. ASSUME NEW t \in Tools, ReceiveAsk(t) PROVE TypeOK'
    <2>1. GatewayTypeOK' /\ WireTypeOK' /\ RunnerTypeOK' /\ StoreTypeOK' /\ BoundTypeOK'
      BY <1>23
      DEF TypeOK, ReceiveAsk, GatewayTypeOK, WireTypeOK, RunnerTypeOK, StoreTypeOK, BoundTypeOK,
          gatewayVars, runnerVars, storeVars, boundVars
    <2>2. StreamTypeOK'
      BY <1>23, Constants DEF TypeOK, StreamTypeOK, ReceiveAsk, Goto, StreamPc, Causes
    <2>3. BrokerTypeOK'
      BY <1>23, Constants DEF TypeOK, BrokerTypeOK, ReceiveAsk, CallbackPc, Answer
    <2> QED BY <2>1, <2>2, <2>3 DEF TypeOK
  <1>24. ASSUME NEW t \in Tools, EmitCancelled(t) PROVE TypeOK'
    <2>1. GatewayTypeOK' /\ WireTypeOK' /\ StreamTypeOK' /\ RunnerTypeOK' /\ StoreTypeOK' /\ BoundTypeOK'
      BY <1>24
      DEF TypeOK, EmitCancelled, GatewayTypeOK, WireTypeOK, StreamTypeOK, RunnerTypeOK, StoreTypeOK,
          BoundTypeOK, gatewayVars, streamVars, runnerVars, storeVars, boundVars
    <2>2. BrokerTypeOK'
      BY <1>24, Constants DEF TypeOK, BrokerTypeOK, EmitCancelled, CallbackPc, Answer
    <2> QED BY <2>1, <2>2 DEF TypeOK
  <1>25. ASSUME NEW t \in Tools, EmitPut(t) PROVE TypeOK'
    <2>1. GatewayTypeOK' /\ WireTypeOK' /\ StreamTypeOK' /\ StoreTypeOK' /\ BoundTypeOK'
      BY <1>25
      DEF TypeOK, EmitPut, GatewayTypeOK, WireTypeOK, StreamTypeOK, StoreTypeOK, BoundTypeOK, gatewayVars,
          streamVars, storeVars, boundVars
    <2>2. RunnerTypeOK'
      BY <1>25, Constants DEF TypeOK, RunnerTypeOK, EmitPut, RunnerPc, Causes
    <2>3. BrokerTypeOK'
      BY <1>25, Constants DEF TypeOK, BrokerTypeOK, EmitPut, CallbackPc, Answer
    <2> QED BY <2>1, <2>2, <2>3 DEF TypeOK
  <1>26. ASSUME NEW t \in Tools, WaitEnds(t) PROVE TypeOK'
    <2>1. GatewayTypeOK' /\ WireTypeOK' /\ StreamTypeOK' /\ RunnerTypeOK' /\ StoreTypeOK' /\ BoundTypeOK'
      BY <1>26
      DEF TypeOK, WaitEnds, GatewayTypeOK, WireTypeOK, StreamTypeOK, RunnerTypeOK, StoreTypeOK, BoundTypeOK,
          gatewayVars, streamVars, runnerVars, storeVars, boundVars
    <2>2. BrokerTypeOK'
      BY <1>26, Constants DEF TypeOK, BrokerTypeOK, WaitEnds, CallbackPc, Answer
    <2> QED BY <2>1, <2>2 DEF TypeOK
  <1>27. ASSUME NEW t \in Tools, ToolRuns(t) PROVE TypeOK'
    <2>1. GatewayTypeOK' /\ WireTypeOK' /\ StreamTypeOK' /\ RunnerTypeOK' /\ StoreTypeOK' /\ BoundTypeOK'
      BY <1>27
      DEF TypeOK, ToolRuns, GatewayTypeOK, WireTypeOK, StreamTypeOK, RunnerTypeOK, StoreTypeOK, BoundTypeOK,
          gatewayVars, streamVars, runnerVars, storeVars, boundVars
    <2>2. BrokerTypeOK'
      BY <1>27, Constants DEF TypeOK, BrokerTypeOK, ToolRuns, CallbackPc, Answer
    <2> QED BY <2>1, <2>2 DEF TypeOK
  <1>28. ASSUME NEW s \in Sessions, NEW t \in Tools, NEW answer \in {"allow", "deny"}, Submit(s, t, answer)
         PROVE  TypeOK'
    <2>1. GatewayTypeOK' /\ WireTypeOK' /\ StreamTypeOK' /\ RunnerTypeOK' /\ StoreTypeOK' /\ BoundTypeOK'
      BY <1>28
      DEF TypeOK, Submit, GatewayTypeOK, WireTypeOK, StreamTypeOK, RunnerTypeOK, StoreTypeOK, BoundTypeOK,
          gatewayVars, streamVars, runnerVars, storeVars, boundVars
    <2>2. BrokerTypeOK'
      BY <1>28, Constants DEF TypeOK, BrokerTypeOK, Submit, CallbackPc, Answer
    <2> QED BY <2>1, <2>2 DEF TypeOK
  <1>29. ASSUME NEW s \in Sessions, DeleteSession(s) PROVE TypeOK'
    <2>1. GatewayTypeOK' /\ WireTypeOK' /\ StreamTypeOK' /\ RunnerTypeOK' /\ BrokerTypeOK'
      BY <1>29
      DEF TypeOK, DeleteSession, GatewayTypeOK, WireTypeOK, StreamTypeOK, RunnerTypeOK, BrokerTypeOK,
          gatewayVars, streamVars, runnerVars, brokerVars
    <2>2. StoreTypeOK'
      BY <1>29, Constants DEF TypeOK, StoreTypeOK, DeleteSession, Message, Statuses
    <2>3. BoundTypeOK'
      BY <1>29, Constants DEF TypeOK, BoundTypeOK, DeleteSession
    <2> QED BY <2>1, <2>2, <2>3 DEF TypeOK
  <1>30. ASSUME NEW s \in Sessions, EnsureSession(s) PROVE TypeOK'
    <2>1. GatewayTypeOK' /\ WireTypeOK' /\ StreamTypeOK' /\ RunnerTypeOK' /\ BrokerTypeOK' /\ BoundTypeOK'
      BY <1>30
      DEF TypeOK, EnsureSession, GatewayTypeOK, WireTypeOK, StreamTypeOK, RunnerTypeOK, BrokerTypeOK,
          BoundTypeOK, gatewayVars, streamVars, runnerVars, brokerVars, boundVars
    <2>2. StoreTypeOK'
      BY <1>30, Constants DEF TypeOK, StoreTypeOK, EnsureSession, Message, Statuses
    <2> QED BY <2>1, <2>2 DEF TypeOK
  <1>31. ASSUME CloseSocket PROVE TypeOK'
    <2>1. WireTypeOK' /\ StreamTypeOK' /\ RunnerTypeOK' /\ BrokerTypeOK' /\ StoreTypeOK' /\ BoundTypeOK'
      BY <1>31
      DEF TypeOK, CloseSocket, WireTypeOK, StreamTypeOK, RunnerTypeOK, BrokerTypeOK, StoreTypeOK,
          BoundTypeOK, streamVars, runnerVars, brokerVars, storeVars, boundVars
    <2>2. GatewayTypeOK'
      BY <1>31, Constants DEF TypeOK, GatewayTypeOK, CloseSocket, Items, Terminal
    <2> QED BY <2>1, <2>2 DEF TypeOK
  <1>32. ASSUME AgentCrash PROVE TypeOK'
    BY <1>32, CrashTypes DEF AgentCrash
  <1>33. ASSUME UNCHANGED vars PROVE TypeOK'
    BY <1>33
    DEF TypeOK, GatewayTypeOK, WireTypeOK, StreamTypeOK, RunnerTypeOK, BrokerTypeOK, StoreTypeOK,
        BoundTypeOK, vars, gatewayVars, streamVars, runnerVars, brokerVars, storeVars, boundVars
  <1> QED
    BY <1>1, <1>2, <1>3, <1>4, <1>5, <1>6, <1>7, <1>8, <1>9, <1>10, <1>11, <1>12, <1>13, <1>14, <1>15,
       <1>16, <1>17, <1>18, <1>19, <1>20, <1>21, <1>22, <1>23, <1>24, <1>25, <1>26, <1>27, <1>28, <1>29,
       <1>30, <1>31, <1>32, <1>33
    DEF Next, GatewayStep, StreamStep, RunnerStep, CallbackStep

LEMMA InitTypes == Init => TypeOK
  BY DEF Init, TypeOK, GatewayTypeOK, WireTypeOK, StreamTypeOK, RunnerTypeOK, BrokerTypeOK, StoreTypeOK,
         BoundTypeOK, Items, Terminal, Causes, Statuses, Message, Answer, StreamPc, RunnerPc, CallbackPc

(* Type correctness of a turn: every goroutine, channel and row stays in   *)
(* its type however handlers, callbacks, cancellations and crashes         *)
(* interleave.                                                             *)
THEOREM TypeCorrect == Spec => []TypeOK
  BY InitTypes, TypeStep, PTL DEF Spec

-----------------------------------------------------------------------------
(* The brokers.  What is decided about a tool use is decided once, by its  *)
(* own conversation, while its callback waits; the rest follows from that, *)
(* and from the life of the handler: a callback can only be cut off by the *)
(* context of a stream that was started.                                   *)

LifeInv == \A r \in Runs : rn[r] # "none" \/ ctxDone[r] => pc[r] # "none"

AnswerIsKept(t) ==
    /\ cb[t] = "none" => pending[t] = NoSession /\ decision[t].value = "none"
    /\ cb[t] # "none" => pc[RunOf[t]] # "none"
    /\ cb[t] = "put" => ctxDone[RunOf[t]]
    /\ cb[t] \in {"allow", "deny"} => decision[t].value = cb[t]
    /\ t \in executed => cb[t] = "allow"
    /\ pending[t] # NoSession =>
         cb[t] \in {"emit", "put", "waiting"} /\ pending[t] = SessionOf[RunOf[t]]
    /\ decision[t].value # "none" =>
         /\ pending[t] = NoSession /\ decision[t].session = SessionOf[RunOf[t]]
         /\ cb[t] \in {"emit", "put", "waiting", decision[t].value} \/ ctxDone[RunOf[t]]

BrokerInv == \A t \in Tools : AnswerIsKept(t)

\* A handler that was started stays so, and a context that is done stays done.
StreamsGoOn ==
    \A r \in Runs : (pc[r] # "none" => pc'[r] # "none") /\ (ctxDone[r] => ctxDone'[r])

LEMMA LifeStep ==
    ASSUME TypeOK, LifeInv, [Next]_vars
    PROVE  LifeInv' /\ StreamsGoOn
  <1>1. ASSUME NEW r \in Runs, StartAgentStream(r) PROVE LifeInv' /\ StreamsGoOn
    BY <1>1, Constants
    DEF LifeInv, StreamsGoOn, TypeOK, StreamTypeOK, RunnerTypeOK, StreamPc, RunnerPc, StartAgentStream,
        streamVars, runnerVars
  <1>2. ASSUME NEW r \in Runs, CopyItem(r) PROVE LifeInv' /\ StreamsGoOn
    BY <1>2, Constants
    DEF LifeInv, StreamsGoOn, TypeOK, StreamTypeOK, RunnerTypeOK, StreamPc, RunnerPc, CopyItem, streamVars,
        runnerVars
  <1>3. ASSUME NEW r \in Runs, CopyEnd(r) PROVE LifeInv' /\ StreamsGoOn
    BY <1>3, Constants
    DEF LifeInv, StreamsGoOn, TypeOK, StreamTypeOK, RunnerTypeOK, StreamPc, RunnerPc, CopyEnd, streamVars,
        runnerVars
  <1>4. ASSUME NEW r \in Runs, CancelRun(r) PROVE LifeInv' /\ StreamsGoOn
    BY <1>4, Constants
    DEF LifeInv, StreamsGoOn, TypeOK, StreamTypeOK, RunnerTypeOK, StreamPc, RunnerPc, CancelRun, streamVars,
        runnerVars
  <1>5. ASSUME NEW r \in Runs, CancelReaches(r) PROVE LifeInv' /\ StreamsGoOn
    BY <1>5, Constants
    DEF LifeInv, StreamsGoOn, TypeOK, StreamTypeOK, RunnerTypeOK, StreamPc, RunnerPc, CancelReaches,
        streamVars, runnerVars
  <1>6. ASSUME NEW r \in Runs, LoadSession(r) PROVE LifeInv' /\ StreamsGoOn
    BY <1>6, Constants
    DEF LifeInv, StreamsGoOn, TypeOK, StreamTypeOK, RunnerTypeOK, StreamPc, RunnerPc, LoadSession, Return,
        Goto, ReturnFailed, streamVars, runnerVars
  <1>7. ASSUME NEW r \in Runs, AddPrompt(r) PROVE LifeInv' /\ StreamsGoOn
    <2>1. /\ Goto(r, "loop") \/ Return(r, "error") \/ ReturnFailed(r)
          /\ UNCHANGED rn \/ rn' = [rn EXCEPT ![r] = "next"]
      BY <1>7 DEF AddPrompt
    <2>2. StreamsGoOn /\ pc'[r] # "none" /\ \A q \in Runs \ {r} : pc'[q] = pc[q] /\ ctxDone'[q] = ctxDone[q]
      BY <2>1 DEF StreamsGoOn, Goto, Return, ReturnFailed, TypeOK, StreamTypeOK
    <2> QED
      BY <2>1, <2>2 DEF LifeInv, TypeOK, RunnerTypeOK
  <1>8. ASSUME NEW r \in Runs, ReceiveDelta(r) PROVE LifeInv' /\ StreamsGoOn
    BY <1>8, Constants
    DEF LifeInv, StreamsGoOn, TypeOK, StreamTypeOK, RunnerTypeOK, StreamPc, RunnerPc, ReceiveDelta, Goto,
        streamVars, runnerVars
  <1>9. ASSUME NEW r \in Runs, ReceiveDone(r) PROVE LifeInv' /\ StreamsGoOn
    BY <1>9, Constants
    DEF LifeInv, StreamsGoOn, TypeOK, StreamTypeOK, RunnerTypeOK, StreamPc, RunnerPc, ReceiveDone, Goto,
        streamVars, runnerVars
  <1>10. ASSUME NEW r \in Runs, SendItem(r) PROVE LifeInv' /\ StreamsGoOn
    BY <1>10, Constants
    DEF LifeInv, StreamsGoOn, TypeOK, StreamTypeOK, RunnerTypeOK, StreamPc, RunnerPc, SendItem, Return,
        Goto, streamVars, runnerVars
  <1>11. ASSUME NEW r \in Runs, StoreAnswer(r) PROVE LifeInv' /\ StreamsGoOn
    BY <1>11, Constants
    DEF LifeInv, StreamsGoOn, TypeOK, StreamTypeOK, RunnerTypeOK, StreamPc, RunnerPc, StoreAnswer, Return,
        Goto, ReturnFailed, streamVars, runnerVars
  <1>12. ASSUME NEW r \in Runs, StoreAnswerAgent(r) PROVE LifeInv' /\ StreamsGoOn
    BY <1>12, Constants
    DEF LifeInv, StreamsGoOn, TypeOK, StreamTypeOK, RunnerTypeOK, StreamPc, RunnerPc, StoreAnswerAgent,
        Return, Goto, ReturnFailed, streamVars, runnerVars
  <1>13. ASSUME NEW r \in Runs, SendDone(r) PROVE LifeInv' /\ StreamsGoOn
    BY <1>13, Constants
    DEF LifeInv, StreamsGoOn, TypeOK, StreamTypeOK, RunnerTypeOK, StreamPc, RunnerPc, SendDone, Return,
        streamVars, runnerVars
  <1>14. ASSUME NEW r \in Runs, ReceiveErr(r) PROVE LifeInv' /\ StreamsGoOn
    BY <1>14, Constants
    DEF LifeInv, StreamsGoOn, TypeOK, StreamTypeOK, RunnerTypeOK, StreamPc, RunnerPc, ReceiveErr, Return,
        Goto, streamVars, runnerVars
  <1>15. ASSUME NEW r \in Runs, NoticeCancel(r) PROVE LifeInv' /\ StreamsGoOn
    BY <1>15, Constants
    DEF LifeInv, StreamsGoOn, TypeOK, StreamTypeOK, RunnerTypeOK, StreamPc, RunnerPc, NoticeCancel, Goto,
        streamVars, runnerVars
  <1>16. ASSUME NEW r \in Runs, SavePartial(r) PROVE LifeInv' /\ StreamsGoOn
    BY <1>16, Constants
    DEF LifeInv, StreamsGoOn, TypeOK, StreamTypeOK, RunnerTypeOK, StreamPc, RunnerPc, SavePartial, Return,
        Goto, streamVars, runnerVars
  <1>17. ASSUME NEW r \in Runs, SavePartialAgent(r) PROVE LifeInv' /\ StreamsGoOn
    BY <1>17, Constants
    DEF LifeInv, StreamsGoOn, TypeOK, StreamTypeOK, RunnerTypeOK, StreamPc, RunnerPc, SavePartialAgent,
        Return, streamVars, runnerVars
  <1>18. ASSUME NEW r \in Runs, AgentSpeaks(r) PROVE LifeInv' /\ StreamsGoOn
    BY <1>18, Constants
    DEF LifeInv, StreamsGoOn, TypeOK, StreamTypeOK, RunnerTypeOK, StreamPc, RunnerPc, AgentSpeaks,
        streamVars, runnerVars
  <1>19. ASSUME NEW r \in Runs, RunnerCancelled(r) PROVE LifeInv' /\ StreamsGoOn
    BY <1>19, Constants
    DEF LifeInv, StreamsGoOn, TypeOK, StreamTypeOK, RunnerTypeOK, StreamPc, RunnerPc, RunnerCancelled,
        streamVars, runnerVars
  <1>20. ASSUME NEW r \in Runs, RunnerPut(r) PROVE LifeInv' /\ StreamsGoOn
    BY <1>20, Constants
    DEF LifeInv, StreamsGoOn, TypeOK, StreamTypeOK, RunnerTypeOK, StreamPc, RunnerPc, RunnerPut, streamVars,
        runnerVars
  <1>21. ASSUME NEW r \in Runs, CloseRunner(r) PROVE LifeInv' /\ StreamsGoOn
    BY <1>21, Constants
    DEF LifeInv, StreamsGoOn, TypeOK, StreamTypeOK, RunnerTypeOK, StreamPc, RunnerPc, CloseRunner, Crash,
        streamVars, runnerVars
  <1>22. ASSUME NEW t \in Tools, CallbackStarts(t) PROVE LifeInv' /\ StreamsGoOn
    BY <1>22, Constants
    DEF LifeInv, StreamsGoOn, TypeOK, StreamTypeOK, RunnerTypeOK, StreamPc, RunnerPc, CallbackStarts,
        streamVars, runnerVars
  <1>23. ASSUME NEW t \in Tools, ReceiveAsk(t) PROVE LifeInv' /\ StreamsGoOn
    BY <1>23, Constants
    DEF LifeInv, StreamsGoOn, TypeOK, StreamTypeOK, RunnerTypeOK, StreamPc, RunnerPc, ReceiveAsk, Goto,
        streamVars, runnerVars
  <1>24. ASSUME NEW t \in Tools, EmitCancelled(t) PROVE LifeInv' /\ StreamsGoOn
    BY <1>24, Constants
    DEF LifeInv, StreamsGoOn, TypeOK, StreamTypeOK, RunnerTypeOK, StreamPc, RunnerPc, EmitCancelled,
        streamVars, runnerVars
  <1>25. ASSUME NEW t \in Tools, EmitPut(t) PROVE LifeInv' /\ StreamsGoOn
    BY <1>25, Constants
    DEF LifeInv, StreamsGoOn, TypeOK, StreamTypeOK, RunnerTypeOK, StreamPc, RunnerPc, EmitPut, streamVars,
        runnerVars
  <1>26. ASSUME NEW t \in Tools, WaitEnds(t) PROVE LifeInv' /\ StreamsGoOn
    BY <1>26, Constants
    DEF LifeInv, StreamsGoOn, TypeOK, StreamTypeOK, RunnerTypeOK, StreamPc, RunnerPc, WaitEnds, streamVars,
        runnerVars
  <1>27. ASSUME NEW t \in Tools, ToolRuns(t) PROVE LifeInv' /\ StreamsGoOn
    BY <1>27, Constants
    DEF LifeInv, StreamsGoOn, TypeOK, StreamTypeOK, RunnerTypeOK, StreamPc, RunnerPc, ToolRuns, streamVars,
        runnerVars
  <1>28. ASSUME NEW s \in Sessions, NEW t \in Tools, NEW answer \in {"allow", "deny"}, Submit(s, t, answer)
         PROVE  LifeInv' /\ StreamsGoOn
    BY <1>28, Constants
    DEF LifeInv, StreamsGoOn, TypeOK, StreamTypeOK, RunnerTypeOK, StreamPc, RunnerPc, Submit, streamVars,
        runnerVars
  <1>29. ASSUME NEW s \in Sessions, DeleteSession(s) PROVE LifeInv' /\ StreamsGoOn
    BY <1>29, Constants
    DEF LifeInv, StreamsGoOn, TypeOK, StreamTypeOK, RunnerTypeOK, StreamPc, RunnerPc, DeleteSession,
        streamVars, runnerVars
  <1>30. ASSUME NEW s \in Sessions, EnsureSession(s) PROVE LifeInv' /\ StreamsGoOn
    BY <1>30, Constants
    DEF LifeInv, StreamsGoOn, TypeOK, StreamTypeOK, RunnerTypeOK, StreamPc, RunnerPc, EnsureSession,
        streamVars, runnerVars
  <1>31. ASSUME CloseSocket PROVE LifeInv' /\ StreamsGoOn
    BY <1>31, Constants
    DEF LifeInv, StreamsGoOn, TypeOK, StreamTypeOK, RunnerTypeOK, StreamPc, RunnerPc, CloseSocket,
        streamVars, runnerVars
  <1>32. ASSUME AgentCrash PROVE LifeInv' /\ StreamsGoOn
    BY <1>32, Constants
    DEF LifeInv, StreamsGoOn, TypeOK, StreamTypeOK, RunnerTypeOK, StreamPc, RunnerPc, AgentCrash, Crash,
        streamVars, runnerVars
  <1>33. ASSUME UNCHANGED vars PROVE LifeInv' /\ StreamsGoOn
    BY <1>33 DEF LifeInv, StreamsGoOn, vars, streamVars, runnerVars
  <1> QED
    BY <1>1, <1>2, <1>3, <1>4, <1>5, <1>6, <1>7, <1>8, <1>9, <1>10, <1>11, <1>12, <1>13, <1>14, <1>15,
       <1>16, <1>17, <1>18, <1>19, <1>20, <1>21, <1>22, <1>23, <1>24, <1>25, <1>26, <1>27, <1>28, <1>29,
       <1>30, <1>31, <1>32, <1>33
    DEF Next, GatewayStep, StreamStep, RunnerStep, CallbackStep

(* A step that leaves the brokers alone keeps their invariant.             *)
LEMMA BrokerFramed ==
    ASSUME BrokerInv, StreamsGoOn, UNCHANGED brokerVars
    PROVE  BrokerInv'
  BY Constants DEF BrokerInv, AnswerIsKept, StreamsGoOn, brokerVars

(* The death of the process fails the callbacks it cuts off.               *)
LEMMA CrashKeepsBroker ==
    ASSUME TypeOK, LifeInv, BrokerInv, Crash
    PROVE  BrokerInv'
  <1>1. SUFFICES ASSUME NEW t \in Tools PROVE AnswerIsKept(t)'
    BY DEF BrokerInv
  <1>2. AnswerIsKept(t) /\ RunOf[t] \in Runs
    BY Constants DEF BrokerInv
  <1> QED
    BY <1>2 DEF AnswerIsKept, Crash, TypeOK, BrokerTypeOK, Answer

LEMMA BrokerStep ==
    ASSUME TypeOK, LifeInv, BrokerInv, [Next]_vars
    PROVE  BrokerInv'
  <1>1. ASSUME NEW r \in Runs, StartAgentStream(r) PROVE BrokerInv'
    BY <1>1, LifeStep, BrokerFramed DEF StartAgentStream
  <1>2. ASSUME NEW r \in Runs, CopyItem(r) PROVE BrokerInv'
    BY <1>2, LifeStep, BrokerFramed DEF CopyItem
  <1>3. ASSUME NEW r \in Runs, CopyEnd(r) PROVE BrokerInv'
    BY <1>3, LifeStep, BrokerFramed DEF CopyEnd
  <1>4. ASSUME NEW r \in Runs, CancelRun(r) PROVE BrokerInv'
    BY <1>4, LifeStep, BrokerFramed DEF CancelRun
  <1>5. ASSUME NEW r \in Runs, CancelReaches(r) PROVE BrokerInv'
    BY <1>5, LifeStep, BrokerFramed DEF CancelReaches
  <1>6. ASSUME NEW r \in Runs, LoadSession(r) PROVE BrokerInv'
    BY <1>6, LifeStep, BrokerFramed DEF LoadSession
  <1>7. ASSUME NEW r \in Runs, AddPrompt(r) PROVE BrokerInv'
    BY <1>7, LifeStep, BrokerFramed DEF AddPrompt
  <1>8. ASSUME NEW r \in Runs, ReceiveDelta(r) PROVE BrokerInv'
    BY <1>8, LifeStep, BrokerFramed DEF ReceiveDelta
  <1>9. ASSUME NEW r \in Runs, ReceiveDone(r) PROVE BrokerInv'
    BY <1>9, LifeStep, BrokerFramed DEF ReceiveDone
  <1>10. ASSUME NEW r \in Runs, SendItem(r) PROVE BrokerInv'
    BY <1>10, LifeStep, BrokerFramed DEF SendItem
  <1>11. ASSUME NEW r \in Runs, StoreAnswer(r) PROVE BrokerInv'
    BY <1>11, LifeStep, BrokerFramed DEF StoreAnswer
  <1>12. ASSUME NEW r \in Runs, StoreAnswerAgent(r) PROVE BrokerInv'
    BY <1>12, LifeStep, BrokerFramed DEF StoreAnswerAgent
  <1>13. ASSUME NEW r \in Runs, SendDone(r) PROVE BrokerInv'
    BY <1>13, LifeStep, BrokerFramed DEF SendDone
  <1>14. ASSUME NEW r \in Runs, ReceiveErr(r) PROVE BrokerInv'
    BY <1>14, LifeStep, BrokerFramed DEF ReceiveErr
  <1>15. ASSUME NEW r \in Runs, NoticeCancel(r) PROVE BrokerInv'
    BY <1>15, LifeStep, BrokerFramed DEF NoticeCancel
  <1>16. ASSUME NEW r \in Runs, SavePartial(r) PROVE BrokerInv'
    BY <1>16, LifeStep, BrokerFramed DEF SavePartial
  <1>17. ASSUME NEW r \in Runs, SavePartialAgent(r) PROVE BrokerInv'
    BY <1>17, LifeStep, BrokerFramed DEF SavePartialAgent
  <1>18. ASSUME NEW r \in Runs, AgentSpeaks(r) PROVE BrokerInv'
    BY <1>18, LifeStep, BrokerFramed DEF AgentSpeaks
  <1>19. ASSUME NEW r \in Runs, RunnerCancelled(r) PROVE BrokerInv'
    BY <1>19, LifeStep, BrokerFramed DEF RunnerCancelled
  <1>20. ASSUME NEW r \in Runs, RunnerPut(r) PROVE BrokerInv'
    BY <1>20, LifeStep, BrokerFramed DEF RunnerPut
  <1>21. ASSUME NEW r \in Runs, CloseRunner(r) PROVE BrokerInv'
    <2>1. CASE InSend(r)
      BY <1>21, <2>1, CrashKeepsBroker DEF CloseRunner
    <2>2. CASE ~InSend(r)
      BY <1>21, <2>2, LifeStep, BrokerFramed DEF CloseRunner
    <2> QED BY <2>1, <2>2
  <1>22. ASSUME NEW t \in Tools, CallbackStarts(t) PROVE BrokerInv'
    <2>1. SUFFICES ASSUME NEW u \in Tools PROVE AnswerIsKept(u)'
      BY DEF BrokerInv
    <2>2. AnswerIsKept(t) /\ AnswerIsKept(u) /\ RunOf[t] \in Runs /\ RunOf[u] \in Runs
      BY Constants DEF BrokerInv
    <2>3. CASE u = t
      BY <1>22, <2>2, <2>3, LifeStep, Constants
      DEF AnswerIsKept, LifeInv, StreamsGoOn, TypeOK, BrokerTypeOK, StreamTypeOK, Answer, CallbackPc,
          streamVars, CallbackStarts
    <2>4. CASE u # t
      BY <1>22, <2>2, <2>4, LifeStep, Constants
      DEF AnswerIsKept, StreamsGoOn, TypeOK, BrokerTypeOK, CallbackStarts
    <2> QED BY <2>3, <2>4
  <1>23. ASSUME NEW t \in Tools, ReceiveAsk(t) PROVE BrokerInv'
    <2>1. SUFFICES ASSUME NEW u \in Tools PROVE AnswerIsKept(u)'
      BY DEF BrokerInv
    <2>2. AnswerIsKept(t) /\ AnswerIsKept(u) /\ RunOf[t] \in Runs /\ RunOf[u] \in Runs
      BY Constants DEF BrokerInv
    <2>3. CASE u = t
      BY <1>23, <2>2, <2>3, LifeStep, Constants
      DEF AnswerIsKept, LifeInv, StreamsGoOn, TypeOK, BrokerTypeOK, StreamTypeOK, Answer, CallbackPc,
          streamVars, ReceiveAsk
    <2>4. CASE u # t
      BY <1>23, <2>2, <2>4, LifeStep, Constants
      DEF AnswerIsKept, StreamsGoOn, TypeOK, BrokerTypeOK, ReceiveAsk
    <2> QED BY <2>3, <2>4
  <1>24. ASSUME NEW t \in Tools, EmitCancelled(t) PROVE BrokerInv'
    <2>1. SUFFICES ASSUME NEW u \in Tools PROVE AnswerIsKept(u)'
      BY DEF BrokerInv
    <2>2. AnswerIsKept(t) /\ AnswerIsKept(u) /\ RunOf[t] \in Runs /\ RunOf[u] \in Runs
      BY Constants DEF BrokerInv
    <2>3. CASE u = t
      BY <1>24, <2>2, <2>3, LifeStep, Constants
      DEF AnswerIsKept, LifeInv, StreamsGoOn, TypeOK, BrokerTypeOK, StreamTypeOK, Answer, CallbackPc,
          streamVars, EmitCancelled
    <2>4. CASE u # t
      BY <1>24, <2>2, <2>4, LifeStep, Constants
      DEF AnswerIsKept, StreamsGoOn, TypeOK, BrokerTypeOK, EmitCancelled
    <2> QED BY <2>3, <2>4
  <1>25. ASSUME NEW t \in Tools, EmitPut(t) PROVE BrokerInv'
    <2>1. SUFFICES ASSUME NEW u \in Tools PROVE AnswerIsKept(u)'
      BY DEF BrokerInv
    <2>2. AnswerIsKept(t) /\ AnswerIsKept(u) /\ RunOf[t] \in Runs /\ RunOf[u] \in Runs
      BY Constants DEF BrokerInv
    <2>3. CASE u = t
      BY <1>25, <2>2, <2>3, LifeStep, Constants
      DEF AnswerIsKept, LifeInv, StreamsGoOn, TypeOK, BrokerTypeOK, StreamTypeOK, Answer, CallbackPc,
          streamVars, EmitPut
    <2>4. CASE u # t
      BY <1>25, <2>2, <2>4, LifeStep, Constants DEF AnswerIsKept, StreamsGoOn, TypeOK, BrokerTypeOK, EmitPut
    <2> QED BY <2>3, <2>4
  <1>26. ASSUME NEW t \in Tools, WaitEnds(t) PROVE BrokerInv'
    <2>1. SUFFICES ASSUME NEW u \in Tools PROVE AnswerIsKept(u)'
      BY DEF BrokerInv
    <2>2. AnswerIsKept(t) /\ AnswerIsKept(u) /\ RunOf[t] \in Runs /\ RunOf[u] \in Runs
      BY Constants DEF BrokerInv
    <2>3. CASE u = t
      BY <1>26, <2>2, <2>3, LifeStep, Constants
      DEF AnswerIsKept, LifeInv, StreamsGoOn, TypeOK, BrokerTypeOK, StreamTypeOK, Answer, CallbackPc,
          streamVars, WaitEnds
    <2>4. CASE u # t
      BY <1>26, <2>2, <2>4, LifeStep, Constants
      DEF AnswerIsKept, StreamsGoOn, TypeOK, BrokerTypeOK, WaitEnds
    <2> QED BY <2>3, <2>4
  <1>27. ASSUME NEW t \in Tools, ToolRuns(t) PROVE BrokerInv'
    <2>1. SUFFICES ASSUME NEW u \in Tools PROVE AnswerIsKept(u)'
      BY DEF BrokerInv
    <2>2. AnswerIsKept(t) /\ AnswerIsKept(u) /\ RunOf[t] \in Runs /\ RunOf[u] \in Runs
      BY Constants DEF BrokerInv
    <2>3. CASE u = t
      BY <1>27, <2>2, <2>3, LifeStep, Constants
      DEF AnswerIsKept, LifeInv, StreamsGoOn, TypeOK, BrokerTypeOK, StreamTypeOK, Answer, CallbackPc,
          streamVars, ToolRuns
    <2>4. CASE u # t
      BY <1>27, <2>2, <2>4, LifeStep, Constants
      DEF AnswerIsKept, StreamsGoOn, TypeOK, BrokerTypeOK, ToolRuns
    <2> QED BY <2>3, <2>4
  <1>28. ASSUME NEW s \in Sessions, NEW t \in Tools, NEW answer \in {"allow", "deny"}, Submit(s, t, answer)
         PROVE  BrokerInv'
    <2>1. SUFFICES ASSUME NEW u \in Tools PROVE AnswerIsKept(u)'
      BY DEF BrokerInv
    <2>2. AnswerIsKept(t) /\ AnswerIsKept(u) /\ RunOf[t] \in Runs /\ RunOf[u] \in Runs
      BY Constants DEF BrokerInv
    <2>3. CASE u = t
      BY <1>28, <2>2, <2>3, LifeStep, Constants
      DEF AnswerIsKept, LifeInv, StreamsGoOn, TypeOK, BrokerTypeOK, StreamTypeOK, Answer, CallbackPc,
          streamVars, StoreTypeOK, Submit
    <2>4. CASE u # t
      BY <1>28, <2>2, <2>4, LifeStep, Constants DEF AnswerIsKept, StreamsGoOn, TypeOK, BrokerTypeOK, Submit
    <2> QED BY <2>3, <2>4
  <1>29. ASSUME NEW s \in Sessions, DeleteSession(s) PROVE BrokerInv'
    BY <1>29, LifeStep, BrokerFramed DEF DeleteSession
  <1>30. ASSUME NEW s \in Sessions, EnsureSession(s) PROVE BrokerInv'
    BY <1>30, LifeStep, BrokerFramed DEF EnsureSession
  <1>31. ASSUME CloseSocket PROVE BrokerInv'
    BY <1>31, LifeStep, BrokerFramed DEF CloseSocket
  <1>32. ASSUME AgentCrash PROVE BrokerInv'
    BY <1>32, CrashKeepsBroker DEF AgentCrash
  <1>33. ASSUME UNCHANGED vars PROVE BrokerInv'
    BY <1>33, LifeStep, BrokerFramed DEF vars, brokerVars
  <1> QED
    BY <1>1, <1>2, <1>3, <1>4, <1>5, <1>6, <1>7, <1>8, <1>9, <1>10, <1>11, <1>12, <1>13, <1>14, <1>15,
       <1>16, <1>17, <1>18, <1>19, <1>20, <1>21, <1>22, <1>23, <1>24, <1>25, <1>26, <1>27, <1>28, <1>29,
       <1>30, <1>31, <1>32, <1>33
    DEF Next, GatewayStep, StreamStep, RunnerStep, CallbackStep

LEMMA BrokerInvariant == Spec => [](TypeOK /\ LifeInv /\ BrokerInv)
  <1>1. Init => TypeOK /\ LifeInv /\ BrokerInv
    <2>1. Init => LifeInv /\ BrokerInv
      BY Constants DEF Init, LifeInv, BrokerInv, AnswerIsKept
    <2> QED BY <2>1, InitTypes
  <1>2. TypeOK /\ LifeInv /\ BrokerInv /\ [Next]_vars => (TypeOK /\ LifeInv /\ BrokerInv)'
    BY TypeStep, LifeStep, BrokerStep
  <1> QED
    BY <1>1, <1>2, PTL DEF Spec

(* A tool that needs permission is executed only after "allow" was         *)
(* submitted in the conversation it belongs to, for any number of          *)
(* conversations, concurrent runs and tools (ToolPermissionBroker).        *)
THEOREM ToolsRunApproved == Spec => []ToolRunsApproved
  <1>1. TypeOK /\ LifeInv /\ BrokerInv => ToolRunsApproved
    <2> SUFFICES ASSUME TypeOK, BrokerInv, NEW t \in executed
                 PROVE  decision[t] = [session |-> SessionOf[RunOf[t]], value |-> "allow"]
      BY DEF ToolRunsApproved
    <2>2. t \in Tools /\ decision[t] \in Answer
      BY DEF TypeOK, BrokerTypeOK
    <2>3. decision[t].value = "allow" /\ decision[t].session = SessionOf[RunOf[t]]
      BY <2>2 DEF BrokerInv, AnswerIsKept
    <2> QED BY <2>2, <2>3 DEF Answer
  <1> QED
    BY <1>1, BrokerInvariant, PTL

(* An accepted answer is acted on or the turn was interrupted: no second   *)
(* answer, timeout or end of the wait replaces it (Wait and Submit).       *)
THEOREM AcceptedAnswersCount == Spec => []AcceptedAnswerCounts
  <1>1. TypeOK /\ LifeInv /\ BrokerInv => AcceptedAnswerCounts
    BY DEF BrokerInv, AnswerIsKept, AcceptedAnswerCounts
  <1> QED
    BY <1>1, BrokerInvariant, PTL

(* A request in the brokers' table has a callback waiting for it, on every *)
(* way out of Wait and across the death of the process.                    *)
THEOREM NoRequestIsStale == Spec => []NoStaleRequest
  <1>1. TypeOK /\ LifeInv /\ BrokerInv => NoStaleRequest
    BY DEF BrokerInv, AnswerIsKept, NoStaleRequest
  <1> QED
    BY <1>1, BrokerInvariant, PTL

-----------------------------------------------------------------------------
(* What the browser is told.  A request that is not over has no terminal   *)
(* envelope, so the one that ends it is the last.                          *)

TerminalInv ==
    \A r \in Runs : \A i \in DOMAIN shown[r] :
        shown[r][i] \in Terminal => gw[r] = "ended" /\ i = Len(shown[r])

(* Show adds at most one envelope, at the end, and touches one request.    *)
LEMMA ShowEnds ==
    ASSUME TypeOK, NEW r \in Runs, NEW e \in Items \cup Terminal, Show(r, e)
    PROVE  /\ \A q \in Runs \ {r} : shown'[q] = shown[q]
           /\ \/ ~sock /\ shown'[r] = shown[r]
              \/ /\ sock
                 /\ Len(shown'[r]) = Len(shown[r]) + 1
                 /\ DOMAIN shown'[r] = DOMAIN shown[r] \cup {Len(shown[r]) + 1}
                 /\ \A i \in DOMAIN shown[r] : shown'[r][i] = shown[r][i]
                 /\ shown'[r][Len(shown[r]) + 1] = e
  <1>1. shown[r] \in Seq(Items \cup Terminal) /\ sock \in BOOLEAN
    BY DEF TypeOK, GatewayTypeOK
  <1>2. shown' = [shown EXCEPT ![r] = IF sock THEN Append(shown[r], e) ELSE shown[r]]
    BY DEF Show
  <1>3. \A q \in Runs \ {r} : shown'[q] = shown[q]
    BY <1>2 DEF TypeOK, GatewayTypeOK
  <1>4. shown'[r] = IF sock THEN Append(shown[r], e) ELSE shown[r]
    BY <1>2 DEF TypeOK, GatewayTypeOK
  <1> QED BY <1>1, <1>3, <1>4

LEMMA ShowKeepsOrder ==
    ASSUME TypeOK, TerminalInv, NEW r \in Runs, NEW e \in Items \cup Terminal, Show(r, e), gw[r] # "ended",
           gw' = [gw EXCEPT ![r] = "ended"] \/ (e \notin Terminal /\ UNCHANGED gw)
    PROVE  TerminalInv'
  <1> SUFFICES ASSUME NEW q \in Runs, NEW i \in DOMAIN shown'[q], shown'[q][i] \in Terminal
                 PROVE  gw'[q] = "ended" /\ i = Len(shown'[q])
    BY DEF TerminalInv
  <1>2. CASE q # r
    <2>1. shown'[q] = shown[q]
      BY <1>2, ShowEnds
    <2>2. gw'[q] = gw[q]
      BY <1>2 DEF TypeOK, GatewayTypeOK
    <2> QED BY <2>1, <2>2 DEF TerminalInv
  <1>3. CASE q = r
    <2>1. \A j \in DOMAIN shown[r] : shown[r][j] \notin Terminal
      BY DEF TerminalInv
    <2>2. i = Len(shown[r]) + 1 /\ shown'[r][i] = e /\ Len(shown'[r]) = i
      BY <1>3, <2>1, ShowEnds
    <2>3. gw'[r] = "ended"
      BY <1>3, <2>2 DEF TypeOK, GatewayTypeOK
    <2> QED BY <1>3, <2>2, <2>3
  <1> QED BY <1>2, <1>3

LEMMA TerminalStep ==
    ASSUME TypeOK, TerminalInv, [Next]_vars
    PROVE  TerminalInv'
  <1>1. ASSUME NEW r \in Runs, StartAgentStream(r) PROVE TerminalInv'
    <2>1. \/ UNCHANGED shown /\ gw' = [gw EXCEPT ![r] = "copying"]
          \/ Show(r, "error") /\ gw' = [gw EXCEPT ![r] = "ended"]
      BY <1>1 DEF StartAgentStream, EndCopying
    <2>2. CASE UNCHANGED shown
      BY <1>1, <2>1, <2>2 DEF TerminalInv, TypeOK, GatewayTypeOK, StartAgentStream
    <2>3. CASE Show(r, "error") /\ gw' = [gw EXCEPT ![r] = "ended"]
      BY <1>1, <2>3, ShowKeepsOrder DEF StartAgentStream, Terminal
    <2> QED BY <2>1, <2>2, <2>3
  <1>2. ASSUME NEW r \in Runs, CopyItem(r) PROVE TerminalInv'
    <2>1. Head(wire[r]) \in Items
      BY <1>2 DEF TypeOK, WireTypeOK, CopyItem
    <2>2. CASE Head(wire[r]) = "done" \/ ~sock
      BY <1>2, <2>1, <2>2, ShowKeepsOrder DEF CopyItem, EndCopying
    <2>3. CASE Head(wire[r]) # "done" /\ sock
      BY <1>2, <2>1, <2>3, ShowKeepsOrder DEF CopyItem, Items, Terminal
    <2> QED BY <2>2, <2>3
  <1>3. ASSUME NEW r \in Runs, CopyEnd(r) PROVE TerminalInv'
    <2>1. \E e \in Terminal : Show(r, e)
      BY <1>3 DEF CopyEnd, Terminal
    <2> QED BY <1>3, <2>1, ShowKeepsOrder DEF CopyEnd, EndCopying
  <1>4. ASSUME NEW r \in Runs, CancelRun(r) PROVE TerminalInv'
    BY <1>4 DEF TerminalInv, gatewayVars, CancelRun
  <1>5. ASSUME NEW r \in Runs, CancelReaches(r) PROVE TerminalInv'
    BY <1>5 DEF TerminalInv, gatewayVars, CancelReaches
  <1>6. ASSUME NEW r \in Runs, LoadSession(r) PROVE TerminalInv'
    BY <1>6 DEF TerminalInv, gatewayVars, LoadSession
  <1>7. ASSUME NEW r \in Runs, AddPrompt(r) PROVE TerminalInv'
    BY <1>7 DEF TerminalInv, gatewayVars, AddPrompt
  <1>8. ASSUME NEW r \in Runs, ReceiveDelta(r) PROVE TerminalInv'
    BY <1>8 DEF TerminalInv, gatewayVars, ReceiveDelta
  <1>9. ASSUME NEW r \in Runs, ReceiveDone(r) PROVE TerminalInv'
    BY <1>9 DEF TerminalInv, gatewayVars, ReceiveDone
  <1>10. ASSUME NEW r \in Runs, SendItem(r) PROVE TerminalInv'
    BY <1>10 DEF TerminalInv, gatewayVars, SendItem
  <1>11. ASSUME NEW r \in Runs, StoreAnswer(r) PROVE TerminalInv'
    BY <1>11 DEF TerminalInv, gatewayVars, StoreAnswer
  <1>12. ASSUME NEW r \in Runs, StoreAnswerAgent(r) PROVE TerminalInv'
    BY <1>12 DEF TerminalInv, gatewayVars, StoreAnswerAgent
  <1>13. ASSUME NEW r \in Runs, SendDone(r) PROVE TerminalInv'
    BY <1>13 DEF TerminalInv, gatewayVars, SendDone
  <1>14. ASSUME NEW r \in Runs, ReceiveErr(r) PROVE TerminalInv'
    BY <1>14 DEF TerminalInv, gatewayVars, ReceiveErr
  <1>15. ASSUME NEW r \in Runs, NoticeCancel(r) PROVE TerminalInv'
    BY <1>15 DEF TerminalInv, gatewayVars, NoticeCancel
  <1>16. ASSUME NEW r \in Runs, SavePartial(r) PROVE TerminalInv'
    BY <1>16 DEF TerminalInv, gatewayVars, SavePartial
  <1>17. ASSUME NEW r \in Runs, SavePartialAgent(r) PROVE TerminalInv'
    BY <1>17 DEF TerminalInv, gatewayVars, SavePartialAgent
  <1>18. ASSUME NEW r \in Runs, AgentSpeaks(r) PROVE TerminalInv'
    BY <1>18 DEF TerminalInv, gatewayVars, AgentSpeaks
  <1>19. ASSUME NEW r \in Runs, RunnerCancelled(r) PROVE TerminalInv'
    BY <1>19 DEF TerminalInv, gatewayVars, RunnerCancelled
  <1>20. ASSUME NEW r \in Runs, RunnerPut(r) PROVE TerminalInv'
    BY <1>20 DEF TerminalInv, gatewayVars, RunnerPut
  <1>21. ASSUME NEW r \in Runs, CloseRunner(r) PROVE TerminalInv'
    BY <1>21 DEF TerminalInv, gatewayVars, CloseRunner, Crash
  <1>22. ASSUME NEW t \in Tools, CallbackStarts(t) PROVE TerminalInv'
    BY <1>22 DEF TerminalInv, gatewayVars, CallbackStarts
  <1>23. ASSUME NEW t \in Tools, ReceiveAsk(t) PROVE TerminalInv'
    BY <1>23 DEF TerminalInv, gatewayVars, ReceiveAsk
  <1>24. ASSUME NEW t \in Tools, EmitCancelled(t) PROVE TerminalInv'
    BY <1>24 DEF TerminalInv, gatewayVars, EmitCancelled
  <1>25. ASSUME NEW t \in Tools, EmitPut(t) PROVE TerminalInv'
    BY <1>25 DEF TerminalInv, gatewayVars, EmitPut
  <1>26. ASSUME NEW t \in Tools, WaitEnds(t) PROVE TerminalInv'
    BY <1>26 DEF TerminalInv, gatewayVars, WaitEnds
  <1>27. ASSUME NEW t \in Tools, ToolRuns(t) PROVE TerminalInv'
    BY <1>27 DEF TerminalInv, gatewayVars, ToolRuns
  <1>28. ASSUME NEW s \in Sessions, NEW t \in Tools, NEW answer \in {"allow", "deny"}, Submit(s, t, answer)
         PROVE  TerminalInv'
    BY <1>28 DEF TerminalInv, gatewayVars, Submit
  <1>29. ASSUME NEW s \in Sessions, DeleteSession(s) PROVE TerminalInv'
    BY <1>29 DEF TerminalInv, gatewayVars, DeleteSession
  <1>30. ASSUME NEW s \in Sessions, EnsureSession(s) PROVE TerminalInv'
    BY <1>30 DEF TerminalInv, gatewayVars, EnsureSession
  <1>31. ASSUME CloseSocket PROVE TerminalInv'
    BY <1>31 DEF TerminalInv, gatewayVars, CloseSocket
  <1>32. ASSUME AgentCrash PROVE TerminalInv'
    BY <1>32 DEF TerminalInv, gatewayVars, AgentCrash, Crash
  <1>33. ASSUME UNCHANGED vars PROVE TerminalInv'
    BY <1>33 DEF TerminalInv, gatewayVars, vars
  <1> QED
    BY <1>1, <1>2, <1>3, <1>4, <1>5, <1>6, <1>7, <1>8, <1>9, <1>10, <1>11, <1>12, <1>13, <1>14, <1>15,
       <1>16, <1>17, <1>18, <1>19, <1>20, <1>21, <1>22, <1>23, <1>24, <1>25, <1>26, <1>27, <1>28, <1>29,
       <1>30, <1>31, <1>32, <1>33
    DEF Next, GatewayStep, StreamStep, RunnerStep, CallbackStep

(* A request gets at most one terminal envelope and nothing after it, in   *)
(* every interleaving of results, failures, cancellations and the closing  *)
(* of the socket (the copying goroutine of startAgentStream).              *)
THEOREM TerminalsAreLast == Spec => []TerminalIsLast
  <1>1. Init => TerminalInv
    BY DEF Init, TerminalInv
  <1>2. TerminalInv => TerminalIsLast
    BY DEF TerminalInv, TerminalIsLast
  <1> QED
    BY <1>1, <1>2, TerminalStep, TypeCorrect, PTL DEF Spec

(* What an envelope or an item adds to what the browser is told.           *)
LEMMA ShowTells ==
    ASSUME TypeOK, NEW r \in Runs, NEW e \in Items \cup Terminal, Show(r, e), NEW q \in Runs
    PROVE  Contains(shown[q], "done")' => Contains(shown[q], "done") \/ (q = r /\ e = "done")
  <1> SUFFICES ASSUME NEW i \in DOMAIN shown'[q], shown'[q][i] = "done"
                 PROVE  (\E j \in DOMAIN shown[q] : shown[q][j] = "done") \/ (q = r /\ e = "done")
    BY DEF Contains
  <1>2. CASE q = r
    BY <1>2, ShowEnds
  <1>3. CASE q # r
    <2>1. shown'[q] = shown[q]
      BY <1>3, ShowEnds
    <2> QED BY <2>1
  <1> QED BY <1>2, <1>3

LEMMA WireTells ==
    ASSUME TypeOK, NEW r \in Runs, NEW e \in Items, wire' = [wire EXCEPT ![r] = Append(@, e)], NEW q \in Runs
    PROVE  Contains(wire[q], "done")' => Contains(wire[q], "done") \/ (q = r /\ e = "done")
  <1>1. wire[r] \in Seq(Items)
    BY DEF TypeOK, WireTypeOK
  <1> SUFFICES ASSUME NEW i \in DOMAIN wire'[q], wire'[q][i] = "done"
                 PROVE  (\E j \in DOMAIN wire[q] : wire[q][j] = "done") \/ (q = r /\ e = "done")
    BY DEF Contains
  <1>3. CASE q = r
    <2>1. wire'[q] = Append(wire[r], e)
      BY <1>3 DEF TypeOK, WireTypeOK
    <2> QED BY <1>1, <1>3, <2>1
  <1>4. CASE q # r
    <2>1. wire'[q] = wire[q]
      BY <1>4 DEF TypeOK, WireTypeOK
    <2> QED BY <2>1
  <1> QED BY <1>3, <1>4

(* Only the send after a stored answer tells that a turn is done.          *)
LEMMA DoneIsToldLast ==
    ASSUME TypeOK, [Next]_vars, NEW q \in Runs
    PROVE  Told(q, "done")' => Told(q, "done") \/ (pc[q] = "doneSend" /\ pc'[q] = "ended")
  <1>1. ASSUME NEW r \in Runs, StartAgentStream(r)
        PROVE  Told(q, "done")' => Told(q, "done") \/ (pc[q] = "doneSend" /\ pc'[q] = "ended")
    <2>1. UNCHANGED wire /\ (UNCHANGED shown \/ Show(r, "error"))
      BY <1>1 DEF StartAgentStream
    <2> QED BY <2>1, ShowTells DEF Told, Terminal
  <1>2. ASSUME NEW r \in Runs, CopyItem(r)
        PROVE  Told(q, "done")' => Told(q, "done") \/ (pc[q] = "doneSend" /\ pc'[q] = "ended")
    <2>1. /\ Show(r, Head(wire[r])) /\ wire' = [wire EXCEPT ![r] = Tail(@)]
          /\ wire[r] # <<>> /\ wire[r] \in Seq(Items)
      BY <1>2 DEF TypeOK, WireTypeOK, CopyItem
    <2>2. Contains(wire[r], Head(wire[r])) /\ Head(wire[r]) \in Items
      BY <2>1 DEF Contains
    <2>3. Contains(Tail(wire[r]), "done") => Contains(wire[r], "done")
      BY <2>1 DEF Contains
    <2>4. Contains(wire[q], "done")' => Contains(wire[q], "done")
      BY <2>1, <2>3 DEF TypeOK, WireTypeOK, Contains
    <2>5. Contains(shown[q], "done")' => Contains(shown[q], "done") \/ (q = r /\ Head(wire[r]) = "done")
      BY <2>1, <2>2, ShowTells
    <2> QED BY <2>2, <2>4, <2>5 DEF Told
  <1>3. ASSUME NEW r \in Runs, CopyEnd(r)
        PROVE  Told(q, "done")' => Told(q, "done") \/ (pc[q] = "doneSend" /\ pc'[q] = "ended")
    <2>1. UNCHANGED wire /\ \E e \in {"canceled", "error"} : Show(r, e)
      BY <1>3 DEF CopyEnd
    <2> QED BY <2>1, ShowTells DEF Told, Terminal
  <1>4. ASSUME NEW r \in Runs, CancelRun(r)
        PROVE  Told(q, "done")' => Told(q, "done") \/ (pc[q] = "doneSend" /\ pc'[q] = "ended")
    BY <1>4 DEF Told, Contains, gatewayVars, CancelRun
  <1>5. ASSUME NEW r \in Runs, CancelReaches(r)
        PROVE  Told(q, "done")' => Told(q, "done") \/ (pc[q] = "doneSend" /\ pc'[q] = "ended")
    BY <1>5 DEF Told, Contains, gatewayVars, CancelReaches
  <1>6. ASSUME NEW r \in Runs, LoadSession(r)
        PROVE  Told(q, "done")' => Told(q, "done") \/ (pc[q] = "doneSend" /\ pc'[q] = "ended")
    BY <1>6 DEF Told, Contains, gatewayVars, LoadSession
  <1>7. ASSUME NEW r \in Runs, AddPrompt(r)
        PROVE  Told(q, "done")' => Told(q, "done") \/ (pc[q] = "doneSend" /\ pc'[q] = "ended")
    BY <1>7 DEF Told, Contains, gatewayVars, AddPrompt
  <1>8. ASSUME NEW r \in Runs, ReceiveDelta(r)
        PROVE  Told(q, "done")' => Told(q, "done") \/ (pc[q] = "doneSend" /\ pc'[q] = "ended")
    BY <1>8 DEF Told, Contains, gatewayVars, ReceiveDelta
  <1>9. ASSUME NEW r \in Runs, ReceiveDone(r)
        PROVE  Told(q, "done")' => Told(q, "done") \/ (pc[q] = "doneSend" /\ pc'[q] = "ended")
    BY <1>9 DEF Told, Contains, gatewayVars, ReceiveDone
  <1>10. ASSUME NEW r \in Runs, SendItem(r)
         PROVE  Told(q, "done")' => Told(q, "done") \/ (pc[q] = "doneSend" /\ pc'[q] = "ended")
    <2>1. UNCHANGED shown /\ (UNCHANGED wire \/ \E item \in {"ask", "delta"} : wire' = [wire EXCEPT ![r] = Append(@, item)])
      BY <1>10 DEF SendItem, gatewayVars
    <2> QED BY <2>1, WireTells DEF Told, Items
  <1>11. ASSUME NEW r \in Runs, StoreAnswer(r)
         PROVE  Told(q, "done")' => Told(q, "done") \/ (pc[q] = "doneSend" /\ pc'[q] = "ended")
    BY <1>11 DEF Told, Contains, gatewayVars, StoreAnswer
  <1>12. ASSUME NEW r \in Runs, StoreAnswerAgent(r)
         PROVE  Told(q, "done")' => Told(q, "done") \/ (pc[q] = "doneSend" /\ pc'[q] = "ended")
    BY <1>12 DEF Told, Contains, gatewayVars, StoreAnswerAgent
  <1>13. ASSUME NEW r \in Runs, SendDone(r)
         PROVE  Told(q, "done")' => Told(q, "done") \/ (pc[q] = "doneSend" /\ pc'[q] = "ended")
    <2>1. UNCHANGED shown /\ (UNCHANGED wire \/ (wire' = [wire EXCEPT ![r] = Append(@, "done")] /\ pc[r] = "doneSend" /\ pc'[r] = "ended"))
      BY <1>13 DEF SendDone, Return, gatewayVars, TypeOK, StreamTypeOK
    <2> QED BY <2>1, WireTells DEF Told, Items
  <1>14. ASSUME NEW r \in Runs, ReceiveErr(r)
         PROVE  Told(q, "done")' => Told(q, "done") \/ (pc[q] = "doneSend" /\ pc'[q] = "ended")
    BY <1>14 DEF Told, Contains, gatewayVars, ReceiveErr
  <1>15. ASSUME NEW r \in Runs, NoticeCancel(r)
         PROVE  Told(q, "done")' => Told(q, "done") \/ (pc[q] = "doneSend" /\ pc'[q] = "ended")
    BY <1>15 DEF Told, Contains, gatewayVars, NoticeCancel
  <1>16. ASSUME NEW r \in Runs, SavePartial(r)
         PROVE  Told(q, "done")' => Told(q, "done") \/ (pc[q] = "doneSend" /\ pc'[q] = "ended")
    BY <1>16 DEF Told, Contains, gatewayVars, SavePartial
  <1>17. ASSUME NEW r \in Runs, SavePartialAgent(r)
         PROVE  Told(q, "done")' => Told(q, "done") \/ (pc[q] = "doneSend" /\ pc'[q] = "ended")
    BY <1>17 DEF Told, Contains, gatewayVars, SavePartialAgent
  <1>18. ASSUME NEW r \in Runs, AgentSpeaks(r)
         PROVE  Told(q, "done")' => Told(q, "done") \/ (pc[q] = "doneSend" /\ pc'[q] = "ended")
    BY <1>18 DEF Told, Contains, gatewayVars, AgentSpeaks
  <1>19. ASSUME NEW r \in Runs, RunnerCancelled(r)
         PROVE  Told(q, "done")' => Told(q, "done") \/ (pc[q] = "doneSend" /\ pc'[q] = "ended")
    BY <1>19 DEF Told, Contains, gatewayVars, RunnerCancelled
  <1>20. ASSUME NEW r \in Runs, RunnerPut(r)
         PROVE  Told(q, "done")' => Told(q, "done") \/ (pc[q] = "doneSend" /\ pc'[q] = "ended")
    BY <1>20 DEF Told, Contains, gatewayVars, RunnerPut
  <1>21. ASSUME NEW r \in Runs, CloseRunner(r)
         PROVE  Told(q, "done")' => Told(q, "done") \/ (pc[q] = "doneSend" /\ pc'[q] = "ended")
    BY <1>21 DEF Told, Contains, gatewayVars, CloseRunner, Crash
  <1>22. ASSUME NEW t \in Tools, CallbackStarts(t)
         PROVE  Told(q, "done")' => Told(q, "done") \/ (pc[q] = "doneSend" /\ pc'[q] = "ended")
    BY <1>22 DEF Told, Contains, gatewayVars, CallbackStarts
  <1>23. ASSUME NEW t \in Tools, ReceiveAsk(t)
         PROVE  Told(q, "done")' => Told(q, "done") \/ (pc[q] = "doneSend" /\ pc'[q] = "ended")
    BY <1>23 DEF Told, Contains, gatewayVars, ReceiveAsk
  <1>24. ASSUME NEW t \in Tools, EmitCancelled(t)
         PROVE  Told(q, "done")' => Told(q, "done") \/ (pc[q] = "doneSend" /\ pc'[q] = "ended")
    BY <1>24 DEF Told, Contains, gatewayVars, EmitCancelled
  <1>25. ASSUME NEW t \in Tools, EmitPut(t)
         PROVE  Told(q, "done")' => Told(q, "done") \/ (pc[q] = "doneSend" /\ pc'[q] = "ended")
    BY <1>25 DEF Told, Contains, gatewayVars, EmitPut
  <1>26. ASSUME NEW t \in Tools, WaitEnds(t)
         PROVE  Told(q, "done")' => Told(q, "done") \/ (pc[q] = "doneSend" /\ pc'[q] = "ended")
    BY <1>26 DEF Told, Contains, gatewayVars, WaitEnds
  <1>27. ASSUME NEW t \in Tools, ToolRuns(t)
         PROVE  Told(q, "done")' => Told(q, "done") \/ (pc[q] = "doneSend" /\ pc'[q] = "ended")
    BY <1>27 DEF Told, Contains, gatewayVars, ToolRuns
  <1>28. ASSUME NEW s \in Sessions, NEW t \in Tools, NEW answer \in {"allow", "deny"}, Submit(s, t, answer)
         PROVE  Told(q, "done")' => Told(q, "done") \/ (pc[q] = "doneSend" /\ pc'[q] = "ended")
    BY <1>28 DEF Told, Contains, gatewayVars, Submit
  <1>29. ASSUME NEW s \in Sessions, DeleteSession(s)
         PROVE  Told(q, "done")' => Told(q, "done") \/ (pc[q] = "doneSend" /\ pc'[q] = "ended")
    BY <1>29 DEF Told, Contains, gatewayVars, DeleteSession
  <1>30. ASSUME NEW s \in Sessions, EnsureSession(s)
         PROVE  Told(q, "done")' => Told(q, "done") \/ (pc[q] = "doneSend" /\ pc'[q] = "ended")
    BY <1>30 DEF Told, Contains, gatewayVars, EnsureSession
  <1>31. ASSUME CloseSocket
         PROVE  Told(q, "done")' => Told(q, "done") \/ (pc[q] = "doneSend" /\ pc'[q] = "ended")
    BY <1>31 DEF Told, Contains, gatewayVars, CloseSocket
  <1>32. ASSUME AgentCrash
         PROVE  Told(q, "done")' => Told(q, "done") \/ (pc[q] = "doneSend" /\ pc'[q] = "ended")
    BY <1>32 DEF Told, Contains, gatewayVars, AgentCrash, Crash
  <1>33. ASSUME UNCHANGED vars
         PROVE  Told(q, "done")' => Told(q, "done") \/ (pc[q] = "doneSend" /\ pc'[q] = "ended")
    BY <1>33 DEF Told, Contains, gatewayVars, vars
  <1> QED
    BY <1>1, <1>2, <1>3, <1>4, <1>5, <1>6, <1>7, <1>8, <1>9, <1>10, <1>11, <1>12, <1>13, <1>14, <1>15,
       <1>16, <1>17, <1>18, <1>19, <1>20, <1>21, <1>22, <1>23, <1>24, <1>25, <1>26, <1>27, <1>28, <1>29,
       <1>30, <1>31, <1>32, <1>33
    DEF Next, GatewayStep, StreamStep, RunnerStep, CallbackStep

-----------------------------------------------------------------------------
(* What a turn leaves in the store.  Every way to savePartial starts from  *)
(* a context that is done.                                                 *)

CancelInv ==
    \A r \in Runs :
        /\ pc[r] \in {"partial", "partialAgent"} \/ rn[r] = "putCanceled" => ctxDone[r]
        /\ \A i \in DOMAIN errs[r] : errs[r][i] = "canceled" => ctxDone[r]

(* For every place of StreamMessage, what is stored and told by then.      *)
TurnInv(r) ==
    /\ gw[r] = "none" => pc[r] = "none"
    /\ pc[r] \notin {"none", "load", "ended"} => agentId[r] # NoRun
    /\ SessionOf[r] \notin erased => SessionOf[r] \in live
    /\ (pc[r] \in {"doneAgent", "doneSend"} \/ Told(r, "done")) /\ SessionOf[r] \notin erased => Stored(r, "normal")
    /\ (pc[r] = "doneSend" \/ Told(r, "done")) /\ SessionOf[r] \notin erased => agent[SessionOf[r]] # NoRun
    /\ pc[r] \notin {"doneAgent", "doneSend", "ended"} => ~Stored(r, "normal")
    /\ pc[r] # "ended" => ~Told(r, "done")
    /\ pc[r] \notin {"partialAgent", "ended"} => ~Stored(r, "cancelled")
    /\ Stored(r, "cancelled") => ctxDone[r] /\ ~Stored(r, "normal") /\ ~Told(r, "done")

TurnsInv == \A r \in Runs : TurnInv(r)

LEMMA CancelStep ==
    ASSUME TypeOK, LifeInv, BrokerInv, CancelInv, [Next]_vars
    PROVE  CancelInv'
  <1>1. ASSUME NEW r \in Runs, StartAgentStream(r) PROVE CancelInv'
    BY <1>1, LifeStep
    DEF CancelInv, LifeInv, StreamsGoOn, TypeOK, StreamTypeOK, RunnerTypeOK, StartAgentStream, streamVars,
        runnerVars
  <1>2. ASSUME NEW r \in Runs, CopyItem(r) PROVE CancelInv'
    BY <1>2, LifeStep
    DEF CancelInv, LifeInv, StreamsGoOn, TypeOK, StreamTypeOK, RunnerTypeOK, CopyItem, streamVars,
        runnerVars
  <1>3. ASSUME NEW r \in Runs, CopyEnd(r) PROVE CancelInv'
    BY <1>3, LifeStep
    DEF CancelInv, LifeInv, StreamsGoOn, TypeOK, StreamTypeOK, RunnerTypeOK, CopyEnd, streamVars, runnerVars
  <1>4. ASSUME NEW r \in Runs, CancelRun(r) PROVE CancelInv'
    BY <1>4, LifeStep
    DEF CancelInv, LifeInv, StreamsGoOn, TypeOK, StreamTypeOK, RunnerTypeOK, CancelRun, streamVars,
        runnerVars
  <1>5. ASSUME NEW r \in Runs, CancelReaches(r) PROVE CancelInv'
    BY <1>5, LifeStep
    DEF CancelInv, LifeInv, StreamsGoOn, TypeOK, StreamTypeOK, RunnerTypeOK, CancelReaches, streamVars,
        runnerVars
  <1>6. ASSUME NEW r \in Runs, LoadSession(r) PROVE CancelInv'
    BY <1>6, LifeStep
    DEF CancelInv, LifeInv, StreamsGoOn, TypeOK, StreamTypeOK, RunnerTypeOK, LoadSession, Return, Goto,
        ReturnFailed, streamVars, runnerVars
  <1>7. ASSUME NEW r \in Runs, AddPrompt(r) PROVE CancelInv'
    BY <1>7, LifeStep
    DEF CancelInv, LifeInv, StreamsGoOn, TypeOK, StreamTypeOK, RunnerTypeOK, AddPrompt, Return, Goto,
        ReturnFailed, streamVars, runnerVars
  <1>8. ASSUME NEW r \in Runs, ReceiveDelta(r) PROVE CancelInv'
    BY <1>8, LifeStep
    DEF CancelInv, LifeInv, StreamsGoOn, TypeOK, StreamTypeOK, RunnerTypeOK, ReceiveDelta, Goto, streamVars,
        runnerVars
  <1>9. ASSUME NEW r \in Runs, ReceiveDone(r) PROVE CancelInv'
    BY <1>9, LifeStep
    DEF CancelInv, LifeInv, StreamsGoOn, TypeOK, StreamTypeOK, RunnerTypeOK, ReceiveDone, Goto, streamVars,
        runnerVars
  <1>10. ASSUME NEW r \in Runs, SendItem(r) PROVE CancelInv'
    BY <1>10, LifeStep
    DEF CancelInv, LifeInv, StreamsGoOn, TypeOK, StreamTypeOK, RunnerTypeOK, SendItem, Return, Goto,
        streamVars, runnerVars
  <1>11. ASSUME NEW r \in Runs, StoreAnswer(r) PROVE CancelInv'
    BY <1>11, LifeStep
    DEF CancelInv, LifeInv, StreamsGoOn, TypeOK, StreamTypeOK, RunnerTypeOK, StoreAnswer, Return, Goto,
        ReturnFailed, streamVars, runnerVars
  <1>12. ASSUME NEW r \in Runs, StoreAnswerAgent(r) PROVE CancelInv'
    BY <1>12, LifeStep
    DEF CancelInv, LifeInv, StreamsGoOn, TypeOK, StreamTypeOK, RunnerTypeOK, StoreAnswerAgent, Return, Goto,
        ReturnFailed, streamVars, runnerVars
  <1>13. ASSUME NEW r \in Runs, SendDone(r) PROVE CancelInv'
    BY <1>13, LifeStep
    DEF CancelInv, LifeInv, StreamsGoOn, TypeOK, StreamTypeOK, RunnerTypeOK, SendDone, Return, streamVars,
        runnerVars
  <1>14. ASSUME NEW r \in Runs, ReceiveErr(r) PROVE CancelInv'
    <2>1. errs[r] \in Seq(Causes) /\ errs[r] # <<>>
      BY <1>14 DEF ReceiveErr, TypeOK, RunnerTypeOK
    <2>2. Head(errs[r]) = "canceled" => ctxDone[r]
      BY <2>1 DEF CancelInv
    <2>3. \A i \in DOMAIN Tail(errs[r]) : i + 1 \in DOMAIN errs[r] /\ Tail(errs[r])[i] = errs[r][i + 1]
      BY <2>1
    <2>4. \A q \in Runs : \A i \in DOMAIN errs'[q] : errs'[q][i] = "canceled" => ctxDone[q]
      BY <1>14, <2>1, <2>3 DEF ReceiveErr, CancelInv, TypeOK, RunnerTypeOK
    <2>5. \A q \in Runs : pc'[q] \in {"partial", "partialAgent"} => ctxDone[q]
      BY <1>14, <2>2 DEF ReceiveErr, Goto, Return, CancelInv, TypeOK, StreamTypeOK
    <2> QED BY <1>14, <2>4, <2>5, LifeStep DEF ReceiveErr, CancelInv, StreamsGoOn
  <1>15. ASSUME NEW r \in Runs, NoticeCancel(r) PROVE CancelInv'
    BY <1>15, LifeStep
    DEF CancelInv, LifeInv, StreamsGoOn, TypeOK, StreamTypeOK, RunnerTypeOK, NoticeCancel, Goto, streamVars,
        runnerVars
  <1>16. ASSUME NEW r \in Runs, SavePartial(r) PROVE CancelInv'
    BY <1>16, LifeStep
    DEF CancelInv, LifeInv, StreamsGoOn, TypeOK, StreamTypeOK, RunnerTypeOK, SavePartial, Return, Goto,
        streamVars, runnerVars
  <1>17. ASSUME NEW r \in Runs, SavePartialAgent(r) PROVE CancelInv'
    BY <1>17, LifeStep
    DEF CancelInv, LifeInv, StreamsGoOn, TypeOK, StreamTypeOK, RunnerTypeOK, SavePartialAgent, Return,
        streamVars, runnerVars
  <1>18. ASSUME NEW r \in Runs, AgentSpeaks(r) PROVE CancelInv'
    BY <1>18, LifeStep
    DEF CancelInv, LifeInv, StreamsGoOn, TypeOK, StreamTypeOK, RunnerTypeOK, AgentSpeaks, streamVars,
        runnerVars
  <1>19. ASSUME NEW r \in Runs, RunnerCancelled(r) PROVE CancelInv'
    BY <1>19, LifeStep
    DEF CancelInv, LifeInv, StreamsGoOn, TypeOK, StreamTypeOK, RunnerTypeOK, RunnerCancelled, streamVars,
        runnerVars
  <1>20. ASSUME NEW r \in Runs, RunnerPut(r) PROVE CancelInv'
    <2>1. \A q \in Runs : \A i \in DOMAIN errs'[q] : errs'[q][i] = "canceled" => ctxDone[q]
      BY <1>20 DEF RunnerPut, CancelInv, TypeOK, RunnerTypeOK
    <2> QED BY <1>20, <2>1 DEF RunnerPut, CancelInv, TypeOK, RunnerTypeOK, streamVars
  <1>21. ASSUME NEW r \in Runs, CloseRunner(r) PROVE CancelInv'
    <2>1. CASE InSend(r)
      BY <1>21, <2>1 DEF CloseRunner, CancelInv, Crash
    <2>2. CASE ~InSend(r)
      BY <1>21, <2>2 DEF CloseRunner, CancelInv, TypeOK, RunnerTypeOK, streamVars
    <2> QED BY <2>1, <2>2
  <1>22. ASSUME NEW t \in Tools, CallbackStarts(t) PROVE CancelInv'
    BY <1>22, LifeStep, Constants
    DEF CancelInv, LifeInv, StreamsGoOn, TypeOK, StreamTypeOK, RunnerTypeOK, CallbackStarts, streamVars,
        runnerVars
  <1>23. ASSUME NEW t \in Tools, ReceiveAsk(t) PROVE CancelInv'
    BY <1>23, LifeStep, Constants
    DEF CancelInv, LifeInv, StreamsGoOn, TypeOK, StreamTypeOK, RunnerTypeOK, ReceiveAsk, Goto, streamVars,
        runnerVars
  <1>24. ASSUME NEW t \in Tools, EmitCancelled(t) PROVE CancelInv'
    BY <1>24, LifeStep, Constants
    DEF CancelInv, LifeInv, StreamsGoOn, TypeOK, StreamTypeOK, RunnerTypeOK, EmitCancelled, streamVars,
        runnerVars
  <1>25. ASSUME NEW t \in Tools, EmitPut(t) PROVE CancelInv'
    <2>1. ctxDone[RunOf[t]] /\ RunOf[t] \in Runs
      BY <1>25, Constants DEF EmitPut, BrokerInv, AnswerIsKept
    <2> QED BY <1>25, <2>1 DEF EmitPut, CancelInv, TypeOK, RunnerTypeOK, streamVars
  <1>26. ASSUME NEW t \in Tools, WaitEnds(t) PROVE CancelInv'
    BY <1>26, LifeStep, Constants
    DEF CancelInv, LifeInv, StreamsGoOn, TypeOK, StreamTypeOK, RunnerTypeOK, WaitEnds, streamVars,
        runnerVars
  <1>27. ASSUME NEW t \in Tools, ToolRuns(t) PROVE CancelInv'
    BY <1>27, LifeStep, Constants
    DEF CancelInv, LifeInv, StreamsGoOn, TypeOK, StreamTypeOK, RunnerTypeOK, ToolRuns, streamVars,
        runnerVars
  <1>28. ASSUME NEW s \in Sessions, NEW t \in Tools, NEW answer \in {"allow", "deny"}, Submit(s, t, answer)
         PROVE  CancelInv'
    BY <1>28, LifeStep
    DEF CancelInv, LifeInv, StreamsGoOn, TypeOK, StreamTypeOK, RunnerTypeOK, Submit, streamVars, runnerVars
  <1>29. ASSUME NEW s \in Sessions, DeleteSession(s) PROVE CancelInv'
    BY <1>29, LifeStep
    DEF CancelInv, LifeInv, StreamsGoOn, TypeOK, StreamTypeOK, RunnerTypeOK, DeleteSession, streamVars,
        runnerVars
  <1>30. ASSUME NEW s \in Sessions, EnsureSession(s) PROVE CancelInv'
    BY <1>30, LifeStep
    DEF CancelInv, LifeInv, StreamsGoOn, TypeOK, StreamTypeOK, RunnerTypeOK, EnsureSession, streamVars,
        runnerVars
  <1>31. ASSUME CloseSocket PROVE CancelInv'
    BY <1>31, LifeStep
    DEF CancelInv, LifeInv, StreamsGoOn, TypeOK, StreamTypeOK, RunnerTypeOK, CloseSocket, streamVars,
        runnerVars
  <1>32. ASSUME AgentCrash PROVE CancelInv'
    BY <1>32, LifeStep
    DEF CancelInv, LifeInv, StreamsGoOn, TypeOK, StreamTypeOK, RunnerTypeOK, AgentCrash, Crash, streamVars,
        runnerVars
  <1>33. ASSUME UNCHANGED vars PROVE CancelInv'
    BY <1>33 DEF CancelInv, vars, streamVars, runnerVars
  <1> QED
    BY <1>1, <1>2, <1>3, <1>4, <1>5, <1>6, <1>7, <1>8, <1>9, <1>10, <1>11, <1>12, <1>13, <1>14, <1>15,
       <1>16, <1>17, <1>18, <1>19, <1>20, <1>21, <1>22, <1>23, <1>24, <1>25, <1>26, <1>27, <1>28, <1>29,
       <1>30, <1>31, <1>32, <1>33
    DEF Next, GatewayStep, StreamStep, RunnerStep, CallbackStep

(* A step that does not move a turn, nor take from the store what it holds *)
(* of it, keeps the turn's invariant.                                      *)
TurnFrame(q) ==
    /\ pc'[q] = pc[q] /\ agentId'[q] = agentId[q]
    /\ gw'[q] = "none" => gw[q] = "none"
    /\ erased' = erased /\ live \subseteq live'
    /\ (Stored(q, "normal")' <=> Stored(q, "normal")) /\ (Stored(q, "cancelled")' <=> Stored(q, "cancelled"))
    /\ agent[SessionOf[q]] # NoRun => agent'[SessionOf[q]] # NoRun

LEMMA TurnFramed ==
    ASSUME TypeOK, LifeInv, [Next]_vars, NEW q \in Runs, TurnInv(q), TurnFrame(q)
    PROVE  TurnInv(q)'
  <1>1. Told(q, "done")' => Told(q, "done")
    BY DoneIsToldLast DEF TurnFrame
  <1>2. ctxDone[q] => ctxDone'[q]
    BY LifeStep DEF StreamsGoOn
  <1> QED BY <1>1, <1>2 DEF TurnInv, TurnFrame

LEMMA AddStores ==
    ASSUME NEW r \in Runs, NEW status \in Statuses, AddMessage(r, status), NEW q \in Runs, NEW other \in Statuses
    PROVE  Stored(q, other)' <=> Stored(q, other) \/ (q = r /\ other = status)
  BY DEF AddMessage, Stored

LEMMA CrashKeepsTurn ==
    ASSUME TypeOK, LifeInv, [Next]_vars, Crash, NEW q \in Runs, TurnInv(q)
    PROVE  TurnInv(q)'
  <1>2. Told(q, "done")' => Told(q, "done")
    BY DEF Crash, Told, Contains, gatewayVars
  <1> QED BY <1>2 DEF TurnInv, Stored, Crash, storeVars, gatewayVars, TypeOK, StreamTypeOK, LifeInv

LEMMA TurnStep ==
    ASSUME TypeOK, LifeInv, CancelInv, [Next]_vars, NEW q \in Runs, TurnsInv
    PROVE  TurnInv(q)'
  <1> TurnInv(q)
    BY DEF TurnsInv
  <1>1. ASSUME NEW r \in Runs, StartAgentStream(r) PROVE TurnInv(q)'
    <2>1. /\ Told(q, "done")' => Told(q, "done") \/ (pc[q] = "doneSend" /\ pc'[q] = "ended")
          /\ ctxDone[q] => ctxDone'[q]
      BY DoneIsToldLast, LifeStep DEF StreamsGoOn
    <2>2. CASE q # r
      BY <1>1, <2>2, TurnFramed
      DEF TurnFrame, Stored, StartAgentStream, EndCopying, GatewayTypeOK, TypeOK, StreamTypeOK, gatewayVars,
          streamVars, storeVars, boundVars
    <2>3. CASE q = r
      BY <1>1, <2>1, <2>3, Constants
      DEF TurnInv, CancelInv, Stored, StartAgentStream, EndCopying, GatewayTypeOK, TypeOK, StreamTypeOK,
          StoreTypeOK, gatewayVars, streamVars, storeVars, boundVars
    <2> QED BY <2>2, <2>3
  <1>2. ASSUME NEW r \in Runs, CopyItem(r) PROVE TurnInv(q)'
    BY <1>2, TurnFramed
    DEF CopyItem, TurnFrame, Stored, streamVars, storeVars, boundVars, gatewayVars, EndCopying, TypeOK,
        GatewayTypeOK
  <1>3. ASSUME NEW r \in Runs, CopyEnd(r) PROVE TurnInv(q)'
    BY <1>3, TurnFramed
    DEF CopyEnd, TurnFrame, Stored, streamVars, storeVars, boundVars, gatewayVars, EndCopying, TypeOK,
        GatewayTypeOK
  <1>4. ASSUME NEW r \in Runs, CancelRun(r) PROVE TurnInv(q)'
    BY <1>4, TurnFramed
    DEF CancelRun, TurnFrame, Stored, streamVars, storeVars, boundVars, gatewayVars, EndCopying, TypeOK,
        GatewayTypeOK
  <1>5. ASSUME NEW r \in Runs, CancelReaches(r) PROVE TurnInv(q)'
    BY <1>5, TurnFramed
    DEF CancelReaches, TurnFrame, Stored, streamVars, storeVars, boundVars, gatewayVars, EndCopying, TypeOK,
        GatewayTypeOK
  <1>6. ASSUME NEW r \in Runs, LoadSession(r) PROVE TurnInv(q)'
    <2>1. /\ Told(q, "done")' => Told(q, "done") \/ (pc[q] = "doneSend" /\ pc'[q] = "ended")
          /\ ctxDone[q] => ctxDone'[q]
      BY DoneIsToldLast, LifeStep DEF StreamsGoOn
    <2>2. CASE q # r
      BY <1>6, <2>2, TurnFramed
      DEF TurnFrame, Stored, LoadSession, Return, Goto, ReturnFailed, RecordReferences, TypeOK,
          StreamTypeOK, gatewayVars, streamVars, storeVars, boundVars
    <2>3. CASE q = r
      BY <1>6, <2>1, <2>3, Constants
      DEF TurnInv, CancelInv, Stored, LoadSession, Return, Goto, ReturnFailed, RecordReferences, TypeOK,
          StreamTypeOK, StoreTypeOK, gatewayVars, streamVars, storeVars, boundVars
    <2> QED BY <2>2, <2>3
  <1>7. ASSUME NEW r \in Runs, AddPrompt(r) PROVE TurnInv(q)'
    <2>1. /\ Told(q, "done")' => Told(q, "done") \/ (pc[q] = "doneSend" /\ pc'[q] = "ended")
          /\ ctxDone[q] => ctxDone'[q]
      BY DoneIsToldLast, LifeStep DEF StreamsGoOn
    <2>2. \A other \in {"normal", "cancelled"} : Stored(q, other)' <=> Stored(q, other)
      BY <1>7 DEF AddPrompt, AddMessage, Stored, Goto, Return, ReturnFailed, TypeOK, StreamTypeOK
    <2>3. CASE q # r
      BY <1>7, <2>3, TurnFramed, <2>2
      DEF TurnFrame, AddPrompt, Return, Goto, ReturnFailed, TypeOK, StreamTypeOK, gatewayVars, streamVars,
          storeVars, boundVars
    <2>4. CASE q = r
      BY <1>7, <2>1, <2>4, <2>2, Constants
      DEF TurnInv, CancelInv, AddPrompt, Return, Goto, ReturnFailed, TypeOK, StreamTypeOK, StoreTypeOK,
          gatewayVars, streamVars, storeVars, boundVars
    <2> QED BY <2>3, <2>4
  <1>8. ASSUME NEW r \in Runs, ReceiveDelta(r) PROVE TurnInv(q)'
    <2>1. /\ Told(q, "done")' => Told(q, "done") \/ (pc[q] = "doneSend" /\ pc'[q] = "ended")
          /\ ctxDone[q] => ctxDone'[q]
      BY DoneIsToldLast, LifeStep DEF StreamsGoOn
    <2>2. CASE q # r
      BY <1>8, <2>2, TurnFramed
      DEF TurnFrame, Stored, ReceiveDelta, Goto, TypeOK, StreamTypeOK, gatewayVars, streamVars, storeVars,
          boundVars
    <2>3. CASE q = r
      BY <1>8, <2>1, <2>3, Constants
      DEF TurnInv, CancelInv, Stored, ReceiveDelta, Goto, TypeOK, StreamTypeOK, StoreTypeOK, gatewayVars,
          streamVars, storeVars, boundVars
    <2> QED BY <2>2, <2>3
  <1>9. ASSUME NEW r \in Runs, ReceiveDone(r) PROVE TurnInv(q)'
    <2>1. /\ Told(q, "done")' => Told(q, "done") \/ (pc[q] = "doneSend" /\ pc'[q] = "ended")
          /\ ctxDone[q] => ctxDone'[q]
      BY DoneIsToldLast, LifeStep DEF StreamsGoOn
    <2>2. CASE q # r
      BY <1>9, <2>2, TurnFramed
      DEF TurnFrame, Stored, ReceiveDone, Goto, TypeOK, StreamTypeOK, gatewayVars, streamVars, storeVars,
          boundVars
    <2>3. CASE q = r
      BY <1>9, <2>1, <2>3, Constants
      DEF TurnInv, CancelInv, Stored, ReceiveDone, Goto, TypeOK, StreamTypeOK, StoreTypeOK, gatewayVars,
          streamVars, storeVars, boundVars
    <2> QED BY <2>2, <2>3
  <1>10. ASSUME NEW r \in Runs, SendItem(r) PROVE TurnInv(q)'
    <2>1. /\ Told(q, "done")' => Told(q, "done") \/ (pc[q] = "doneSend" /\ pc'[q] = "ended")
          /\ ctxDone[q] => ctxDone'[q]
      BY DoneIsToldLast, LifeStep DEF StreamsGoOn
    <2>2. CASE q # r
      BY <1>10, <2>2, TurnFramed
      DEF TurnFrame, Stored, SendItem, Return, Goto, TypeOK, StreamTypeOK, gatewayVars, streamVars,
          storeVars, boundVars
    <2>3. CASE q = r
      BY <1>10, <2>1, <2>3, Constants
      DEF TurnInv, CancelInv, Stored, SendItem, Return, Goto, TypeOK, StreamTypeOK, StoreTypeOK,
          gatewayVars, streamVars, storeVars, boundVars
    <2> QED BY <2>2, <2>3
  <1>11. ASSUME NEW r \in Runs, StoreAnswer(r) PROVE TurnInv(q)'
    <2>1. /\ Told(q, "done")' => Told(q, "done") \/ (pc[q] = "doneSend" /\ pc'[q] = "ended")
          /\ ctxDone[q] => ctxDone'[q]
      BY DoneIsToldLast, LifeStep DEF StreamsGoOn
    <2>2. \A other \in {"normal", "cancelled"} : Stored(q, other)' <=> Stored(q, other) \/ (q = r /\ other = "normal" /\ pc'[r] = "doneAgent")
      BY <1>11 DEF StoreAnswer, AddMessage, Stored, Goto, Return, ReturnFailed, TypeOK, StreamTypeOK
    <2>3. CASE q # r
      BY <1>11, <2>3, TurnFramed, <2>2
      DEF TurnFrame, StoreAnswer, Return, Goto, ReturnFailed, TypeOK, StreamTypeOK, gatewayVars, streamVars,
          storeVars, boundVars
    <2>4. CASE q = r
      BY <1>11, <2>1, <2>4, <2>2, Constants
      DEF TurnInv, CancelInv, StoreAnswer, Return, Goto, ReturnFailed, TypeOK, StreamTypeOK, StoreTypeOK,
          gatewayVars, streamVars, storeVars, boundVars
    <2> QED BY <2>3, <2>4
  <1>12. ASSUME NEW r \in Runs, StoreAnswerAgent(r) PROVE TurnInv(q)'
    <2>1. /\ Told(q, "done")' => Told(q, "done") \/ (pc[q] = "doneSend" /\ pc'[q] = "ended")
          /\ ctxDone[q] => ctxDone'[q]
      BY DoneIsToldLast, LifeStep DEF StreamsGoOn
    <2> TurnInv(r)
      BY DEF TurnsInv
    <2>2. /\ agent[SessionOf[q]] # NoRun => agent'[SessionOf[q]] # NoRun
          /\ pc'[r] = "doneSend" /\ SessionOf[r] \in live => agent'[SessionOf[r]] # NoRun
      BY <1>12, Constants
      DEF TurnInv, StoreAnswerAgent, UpdateAgentSession, Goto, Return, ReturnFailed, TypeOK, StreamTypeOK,
          StoreTypeOK
    <2>3. CASE q # r
      BY <1>12, <2>3, TurnFramed, <2>2
      DEF TurnFrame, Stored, StoreAnswerAgent, Return, Goto, ReturnFailed, TypeOK, StreamTypeOK,
          gatewayVars, streamVars, storeVars, boundVars
    <2>4. CASE q = r
      BY <1>12, <2>1, <2>4, <2>2, Constants
      DEF TurnInv, CancelInv, Stored, StoreAnswerAgent, Return, Goto, ReturnFailed, TypeOK, StreamTypeOK,
          StoreTypeOK, gatewayVars, streamVars, storeVars, boundVars
    <2> QED BY <2>3, <2>4
  <1>13. ASSUME NEW r \in Runs, SendDone(r) PROVE TurnInv(q)'
    <2>1. /\ Told(q, "done")' => Told(q, "done") \/ (pc[q] = "doneSend" /\ pc'[q] = "ended")
          /\ ctxDone[q] => ctxDone'[q]
      BY DoneIsToldLast, LifeStep DEF StreamsGoOn
    <2>2. CASE q # r
      BY <1>13, <2>2, TurnFramed
      DEF TurnFrame, Stored, SendDone, Return, TypeOK, StreamTypeOK, gatewayVars, streamVars, storeVars,
          boundVars
    <2>3. CASE q = r
      BY <1>13, <2>1, <2>3, Constants
      DEF TurnInv, CancelInv, Stored, SendDone, Return, TypeOK, StreamTypeOK, StoreTypeOK, gatewayVars,
          streamVars, storeVars, boundVars
    <2> QED BY <2>2, <2>3
  <1>14. ASSUME NEW r \in Runs, ReceiveErr(r) PROVE TurnInv(q)'
    <2>1. /\ Told(q, "done")' => Told(q, "done") \/ (pc[q] = "doneSend" /\ pc'[q] = "ended")
          /\ ctxDone[q] => ctxDone'[q]
      BY DoneIsToldLast, LifeStep DEF StreamsGoOn
    <2>2. CASE q # r
      BY <1>14, <2>2, TurnFramed
      DEF TurnFrame, Stored, ReceiveErr, Return, Goto, Finish, TypeOK, StreamTypeOK, gatewayVars,
          streamVars, storeVars, boundVars
    <2>3. CASE q = r
      BY <1>14, <2>1, <2>3, Constants
      DEF TurnInv, CancelInv, Stored, ReceiveErr, Return, Goto, Finish, TypeOK, StreamTypeOK, StoreTypeOK,
          gatewayVars, streamVars, storeVars, boundVars
    <2> QED BY <2>2, <2>3
  <1>15. ASSUME NEW r \in Runs, NoticeCancel(r) PROVE TurnInv(q)'
    <2>1. /\ Told(q, "done")' => Told(q, "done") \/ (pc[q] = "doneSend" /\ pc'[q] = "ended")
          /\ ctxDone[q] => ctxDone'[q]
      BY DoneIsToldLast, LifeStep DEF StreamsGoOn
    <2>2. CASE q # r
      BY <1>15, <2>2, TurnFramed
      DEF TurnFrame, Stored, NoticeCancel, Goto, TypeOK, StreamTypeOK, gatewayVars, streamVars, storeVars,
          boundVars
    <2>3. CASE q = r
      BY <1>15, <2>1, <2>3, Constants
      DEF TurnInv, CancelInv, Stored, NoticeCancel, Goto, TypeOK, StreamTypeOK, StoreTypeOK, gatewayVars,
          streamVars, storeVars, boundVars
    <2> QED BY <2>2, <2>3
  <1>16. ASSUME NEW r \in Runs, SavePartial(r) PROVE TurnInv(q)'
    <2>1. /\ Told(q, "done")' => Told(q, "done") \/ (pc[q] = "doneSend" /\ pc'[q] = "ended")
          /\ ctxDone[q] => ctxDone'[q]
      BY DoneIsToldLast, LifeStep DEF StreamsGoOn
    <2>2. \A other \in {"normal", "cancelled"} : Stored(q, other)' <=> Stored(q, other) \/ (q = r /\ other = "cancelled" /\ pc'[r] = "partialAgent")
      BY <1>16 DEF SavePartial, AddMessage, Stored, Goto, Return, ReturnFailed, TypeOK, StreamTypeOK
    <2>3. CASE q # r
      BY <1>16, <2>3, TurnFramed, <2>2
      DEF TurnFrame, SavePartial, Return, Goto, TypeOK, StreamTypeOK, gatewayVars, streamVars, storeVars,
          boundVars
    <2>4. CASE q = r
      BY <1>16, <2>1, <2>4, <2>2, Constants
      DEF TurnInv, CancelInv, SavePartial, Return, Goto, TypeOK, StreamTypeOK, StoreTypeOK, gatewayVars,
          streamVars, storeVars, boundVars
    <2> QED BY <2>3, <2>4
  <1>17. ASSUME NEW r \in Runs, SavePartialAgent(r) PROVE TurnInv(q)'
    <2>1. /\ Told(q, "done")' => Told(q, "done") \/ (pc[q] = "doneSend" /\ pc'[q] = "ended")
          /\ ctxDone[q] => ctxDone'[q]
      BY DoneIsToldLast, LifeStep DEF StreamsGoOn
    <2> TurnInv(r)
      BY DEF TurnsInv
    <2>2. /\ agent[SessionOf[q]] # NoRun => agent'[SessionOf[q]] # NoRun
          /\ pc'[r] = "doneSend" /\ SessionOf[r] \in live => agent'[SessionOf[r]] # NoRun
      BY <1>17, Constants
      DEF TurnInv, SavePartialAgent, UpdateAgentSession, Goto, Return, ReturnFailed, TypeOK, StreamTypeOK,
          StoreTypeOK
    <2>3. CASE q # r
      BY <1>17, <2>3, TurnFramed, <2>2
      DEF TurnFrame, Stored, SavePartialAgent, Return, TypeOK, StreamTypeOK, gatewayVars, streamVars,
          storeVars, boundVars
    <2>4. CASE q = r
      BY <1>17, <2>1, <2>4, <2>2, Constants
      DEF TurnInv, CancelInv, Stored, SavePartialAgent, Return, TypeOK, StreamTypeOK, StoreTypeOK,
          gatewayVars, streamVars, storeVars, boundVars
    <2> QED BY <2>3, <2>4
  <1>18. ASSUME NEW r \in Runs, AgentSpeaks(r) PROVE TurnInv(q)'
    BY <1>18, TurnFramed
    DEF AgentSpeaks, TurnFrame, Stored, streamVars, storeVars, boundVars, gatewayVars, EndCopying, TypeOK,
        GatewayTypeOK
  <1>19. ASSUME NEW r \in Runs, RunnerCancelled(r) PROVE TurnInv(q)'
    BY <1>19, TurnFramed
    DEF RunnerCancelled, TurnFrame, Stored, streamVars, storeVars, boundVars, gatewayVars, EndCopying,
        TypeOK, GatewayTypeOK
  <1>20. ASSUME NEW r \in Runs, RunnerPut(r) PROVE TurnInv(q)'
    BY <1>20, TurnFramed
    DEF RunnerPut, TurnFrame, Stored, streamVars, storeVars, boundVars, gatewayVars, EndCopying, TypeOK,
        GatewayTypeOK
  <1>21. ASSUME NEW r \in Runs, CloseRunner(r) PROVE TurnInv(q)'
    <2>1. CASE InSend(r)
      BY <1>21, <2>1, CrashKeepsTurn DEF CloseRunner
    <2>2. CASE ~InSend(r)
      BY <1>21, <2>2, TurnFramed
      DEF CloseRunner, TurnFrame, Stored, gatewayVars, streamVars, storeVars, boundVars
    <2> QED BY <2>1, <2>2
  <1>22. ASSUME NEW t \in Tools, CallbackStarts(t) PROVE TurnInv(q)'
    BY <1>22, TurnFramed
    DEF CallbackStarts, TurnFrame, Stored, streamVars, storeVars, boundVars, gatewayVars, EndCopying,
        TypeOK, GatewayTypeOK
  <1>23. ASSUME NEW t \in Tools, ReceiveAsk(t) PROVE TurnInv(q)'
    <2>1. /\ Told(q, "done")' => Told(q, "done") \/ (pc[q] = "doneSend" /\ pc'[q] = "ended")
          /\ ctxDone[q] => ctxDone'[q]
      BY DoneIsToldLast, LifeStep DEF StreamsGoOn
    <2>2. CASE q # RunOf[t]
      BY <1>23, <2>2, TurnFramed, Constants
      DEF TurnFrame, Stored, ReceiveAsk, Goto, TypeOK, StreamTypeOK, gatewayVars, streamVars, storeVars,
          boundVars
    <2>3. CASE q = RunOf[t]
      BY <1>23, <2>1, <2>3, Constants
      DEF TurnInv, CancelInv, Stored, ReceiveAsk, Goto, TypeOK, StreamTypeOK, StoreTypeOK, gatewayVars,
          streamVars, storeVars, boundVars
    <2> QED BY <2>2, <2>3
  <1>24. ASSUME NEW t \in Tools, EmitCancelled(t) PROVE TurnInv(q)'
    BY <1>24, TurnFramed
    DEF EmitCancelled, TurnFrame, Stored, streamVars, storeVars, boundVars, gatewayVars, EndCopying, TypeOK,
        GatewayTypeOK
  <1>25. ASSUME NEW t \in Tools, EmitPut(t) PROVE TurnInv(q)'
    BY <1>25, TurnFramed
    DEF EmitPut, TurnFrame, Stored, streamVars, storeVars, boundVars, gatewayVars, EndCopying, TypeOK,
        GatewayTypeOK
  <1>26. ASSUME NEW t \in Tools, WaitEnds(t) PROVE TurnInv(q)'
    BY <1>26, TurnFramed
    DEF WaitEnds, TurnFrame, Stored, streamVars, storeVars, boundVars, gatewayVars, EndCopying, TypeOK,
        GatewayTypeOK
  <1>27. ASSUME NEW t \in Tools, ToolRuns(t) PROVE TurnInv(q)'
    BY <1>27, TurnFramed
    DEF ToolRuns, TurnFrame, Stored, streamVars, storeVars, boundVars, gatewayVars, EndCopying, TypeOK,
        GatewayTypeOK
  <1>28. ASSUME NEW s \in Sessions, NEW t \in Tools, NEW answer \in {"allow", "deny"}, Submit(s, t, answer)
         PROVE  TurnInv(q)'
    BY <1>28, TurnFramed
    DEF Submit, TurnFrame, Stored, streamVars, storeVars, boundVars, gatewayVars, EndCopying, TypeOK,
        GatewayTypeOK
  <1>29. ASSUME NEW s \in Sessions, DeleteSession(s) PROVE TurnInv(q)'
    <2>1. /\ Told(q, "done")' => Told(q, "done")
          /\ SessionOf[q] # s => (Stored(q, "normal")' <=> Stored(q, "normal"))
          /\ Stored(q, "normal")' => Stored(q, "normal")
          /\ Stored(q, "cancelled")' => Stored(q, "cancelled")
      BY <1>29 DEF DeleteSession, Told, Contains, Stored, gatewayVars
    <2> QED
      BY <1>29, <2>1, Constants DEF DeleteSession, TurnInv, TypeOK, StoreTypeOK, gatewayVars, streamVars
  <1>30. ASSUME NEW s \in Sessions, EnsureSession(s) PROVE TurnInv(q)'
    BY <1>30, TurnFramed
    DEF EnsureSession, TurnFrame, Stored, streamVars, storeVars, boundVars, gatewayVars, EndCopying, TypeOK,
        GatewayTypeOK
  <1>31. ASSUME CloseSocket PROVE TurnInv(q)'
    BY <1>31, TurnFramed
    DEF CloseSocket, TurnFrame, Stored, streamVars, storeVars, boundVars, gatewayVars, EndCopying, TypeOK,
        GatewayTypeOK
  <1>32. ASSUME AgentCrash PROVE TurnInv(q)'
    BY <1>32, CrashKeepsTurn DEF AgentCrash
  <1>33. ASSUME UNCHANGED vars PROVE TurnInv(q)'
    BY <1>33, TurnFramed DEF TurnFrame, Stored, vars, gatewayVars, streamVars, storeVars, boundVars
  <1> QED
    BY <1>1, <1>2, <1>3, <1>4, <1>5, <1>6, <1>7, <1>8, <1>9, <1>10, <1>11, <1>12, <1>13, <1>14, <1>15,
       <1>16, <1>17, <1>18, <1>19, <1>20, <1>21, <1>22, <1>23, <1>24, <1>25, <1>26, <1>27, <1>28, <1>29,
       <1>30, <1>31, <1>32, <1>33
    DEF Next, GatewayStep, StreamStep, RunnerStep, CallbackStep

LEMMA TurnInvariant == Spec => [](TypeOK /\ CancelInv /\ TurnsInv)
  <1>1. Init => CancelInv /\ TurnsInv
    BY Constants DEF Init, CancelInv, TurnsInv, TurnInv, Told, Contains, Stored
  <1>2. TypeOK /\ LifeInv /\ BrokerInv /\ CancelInv /\ [Next]_vars => CancelInv'
    BY CancelStep
  <1>3. TypeOK /\ LifeInv /\ CancelInv /\ TurnsInv /\ [Next]_vars => TurnsInv'
    BY TurnStep DEF TurnsInv
  <1> QED
    BY <1>1, <1>2, <1>3, BrokerInvariant, PTL DEF Spec

(* The browser is told "done" only when the answer is stored and the agent *)
(* session recorded, for any number of runs of any number of               *)
(* conversations, whatever fails or is cancelled (StreamMessage).          *)
THEOREM DoneIsAlwaysDurable == Spec => []DoneIsDurable
  <1>1. TurnsInv => DoneIsDurable
    BY DEF TurnsInv, TurnInv, DoneIsDurable
  <1> QED
    BY <1>1, TurnInvariant, PTL

(* A partial answer is stored only for a cancelled turn that has no        *)
(* complete answer and is never announced as done (savePartial).           *)
THEOREM PartialsAreExclusive == Spec => []PartialIsExclusive
  <1>1. TurnsInv => PartialIsExclusive
    BY DEF TurnsInv, TurnInv, PartialIsExclusive
  <1> QED
    BY <1>1, TurnInvariant, PTL

-----------------------------------------------------------------------------
(* The promise of a turn.  Beside TurnInv it needs what a returned status   *)
(* says, and that whatever follows the prompt finds it stored.             *)

BeforePrompt == {"none", "load", "prompt", "ended"}

PromiseInv(r) ==
    /\ reply[r] # "none" => pc[r] = "ended"
    /\ Told(r, "done") => reply[r] = "eof"
    /\ SessionOf[r] \notin erased =>
         /\ pc[r] \notin BeforePrompt => Stored(r, "prompt")
         /\ pc[r] = "partialAgent" => Stored(r, "cancelled")
         /\ reply[r] = "eof" => Stored(r, "normal") /\ agent[SessionOf[r]] # NoRun
    /\ reply[r] = "eof" => ~Stored(r, "cancelled")

PromisesInv == \A r \in Runs : PromiseInv(r)

PromiseView == <<Fate, Resumable, Seen>>

(* A step that the user does not notice.                                   *)
QuietFor(r) ==
    /\ reply'[r] = "eof" <=> reply[r] = "eof"
    /\ reply'[r] # "none" => pc'[r] = "ended"
    /\ pc'[r] \notin BeforePrompt => pc[r] \notin BeforePrompt
    /\ pc'[r] = "partialAgent" => pc[r] = "partialAgent"
    /\ Told(r, "done")' => Told(r, "done")

Quiet ==
    /\ UNCHANGED <<messages, erased, agent, shown>>
    /\ \A r \in Runs : QuietFor(r)

LEMMA QuietKeepsPromise ==
    ASSUME PromisesInv, Quiet
    PROVE  PromisesInv' /\ UNCHANGED PromiseView
  <1>1. ASSUME NEW r \in Runs PROVE PromiseInv(r)'
    BY DEF PromisesInv, PromiseInv, Quiet, QuietFor, Stored
  <1>2. UNCHANGED Fate
    <2>1. ASSUME NEW r \in Runs PROVE FateOf(r)' = FateOf(r)
      BY DEF FateOf, Stored, Quiet, QuietFor
    <2> QED BY <2>1 DEF Fate
  <1>3. UNCHANGED Resumable
    BY DEF Resumable, Quiet
  <1>4. UNCHANGED Seen
    BY DEF Seen, SeenOf, LastOf, Quiet
  <1> QED BY <1>1, <1>2, <1>3, <1>4 DEF PromisesInv, PromiseView

(* Steps that leave the handler, what it returned and what was sent alone. *)
LEMMA ElsewhereIsQuiet ==
    ASSUME PromisesInv, UNCHANGED <<messages, erased, agent, shown, wire, pc, reply>>
    PROVE  Quiet
  BY DEF Quiet, QuietFor, Told, Contains, PromisesInv, PromiseInv

(* Steps of one handler that neither store nor send.                       *)
LEMMA HandlerIsQuiet ==
    ASSUME TypeOK, PromisesInv, UNCHANGED <<messages, erased, agent, shown, wire>>,
           NEW r \in Runs, pc[r] # "ended",
           \/ \E label \in StreamPc \ {"partialAgent"} :
                 Goto(r, label) /\ (label \in BeforePrompt \/ pc[r] \notin BeforePrompt)
           \/ ReturnFailed(r)
           \/ \E status \in Causes : Return(r, status)
    PROVE  Quiet
  <1>1. \A q \in Runs : Told(q, "done")' => Told(q, "done")
    BY DEF Told, Contains
  <1>2. reply[r] = "none"
    BY DEF PromisesInv, PromiseInv
  <1>3. CASE \E label \in StreamPc \ {"partialAgent"} :
                 Goto(r, label) /\ (label \in BeforePrompt \/ pc[r] \notin BeforePrompt)
    BY <1>1, <1>2, <1>3 DEF Goto, Quiet, QuietFor, PromisesInv, PromiseInv, TypeOK, StreamTypeOK
  <1>4. CASE \E status \in Causes : Return(r, status)
    BY <1>1, <1>2, <1>4
    DEF Return, Causes, Quiet, QuietFor, PromisesInv, PromiseInv, TypeOK, StreamTypeOK, BeforePrompt
  <1>5. CASE ReturnFailed(r)
    BY <1>4, <1>5 DEF ReturnFailed, Causes
  <1> QED BY <1>3, <1>4, <1>5

LEMMA CrashIsQuiet ==
    ASSUME TypeOK, PromisesInv, Crash
    PROVE  Quiet
  <1>1. UNCHANGED <<messages, erased, agent, shown, wire>>
    BY DEF Crash, gatewayVars, storeVars
  <1>2. \A q \in Runs : Told(q, "done")' => Told(q, "done")
    BY <1>1 DEF Told, Contains
  <1> QED BY <1>1, <1>2 DEF Crash, Quiet, QuietFor, PromisesInv, PromiseInv, TypeOK, StreamTypeOK, BeforePrompt

(* What the last envelope of a request says before and after Show.         *)
LEMMA ShowCloses ==
    ASSUME TypeOK, TerminalInv, NEW r \in Runs, NEW e \in Items \cup Terminal, Show(r, e), gw[r] # "ended"
    PROVE  \/ UNCHANGED Seen
           \/ /\ e \in Terminal /\ SeenOf(r) = "nothing"
              /\ Seen' = [Seen EXCEPT ![r] = e]
  <1>1. shown \in [Runs -> Seq(Items \cup Terminal)]
    BY DEF TypeOK, GatewayTypeOK
  <1>2. SeenOf(r) = "nothing"
    <2>1. shown[r] # <<>> => Len(shown[r]) \in DOMAIN shown[r]
      BY <1>1
    <2> QED BY <2>1 DEF SeenOf, LastOf, TerminalInv
  <1>3. \A q \in Runs \ {r} : SeenOf(q)' = SeenOf(q)
    BY ShowEnds DEF SeenOf, LastOf
  <1>4. CASE ~sock
    <2>1. SeenOf(r)' = SeenOf(r)
      BY <1>4, ShowEnds DEF SeenOf, LastOf
    <2> QED BY <1>3, <2>1 DEF Seen
  <1>5. CASE sock
    <2>1. /\ Len(shown'[r]) = Len(shown[r]) + 1 /\ Len(shown[r]) \in Nat
          /\ shown'[r][Len(shown[r]) + 1] = e
      BY <1>1, <1>5, ShowEnds
    <2>2. shown'[r] # <<>> /\ LastOf(shown[r])' = e
      BY <2>1 DEF LastOf
    <2>3. SeenOf(r)' = IF e \in Terminal THEN e ELSE "nothing"
      BY <2>2 DEF SeenOf
    <2>4. CASE e \in Terminal
      BY <1>2, <1>3, <2>3, <2>4 DEF Seen
    <2>5. CASE e \notin Terminal
      BY <1>2, <1>3, <2>3, <2>5 DEF Seen
    <2> QED BY <2>4, <2>5
  <1> QED BY <1>4, <1>5 DEF TypeOK, GatewayTypeOK

(* A step of the gateway stores nothing: it can only close a request.      *)
LEMMA GatewayCloses ==
    ASSUME TypeOK, TerminalInv, TurnsInv, PromisesInv,
           NEW r \in Runs, NEW e \in Items \cup Terminal, Show(r, e), gw[r] # "ended",
           e = "done" => Told(r, "done"),
           UNCHANGED <<messages, erased, agent, reply>>,
           \A q \in Runs : /\ pc'[q] = pc[q] \/ (pc'[q] = "load" /\ pc[q] = "none")
                           /\ Told(q, "done")' => Told(q, "done")
    PROVE  PromisesInv' /\ [Promise!TurnNext]_PromiseView
  <1>1. PromisesInv'
    <2>1. ASSUME NEW q \in Runs PROVE PromiseInv(q)'
      BY DEF PromisesInv, PromiseInv, Stored, BeforePrompt
    <2> QED BY <2>1 DEF PromisesInv
  <1>2. UNCHANGED <<Fate, Resumable>>
    BY DEF Fate, FateOf, Stored, Resumable
  <1>3. CASE UNCHANGED Seen
    BY <1>1, <1>2, <1>3 DEF PromiseView
  <1>4. CASE e \in Terminal /\ SeenOf(r) = "nothing" /\ Seen' = [Seen EXCEPT ![r] = e]
    <2>1. e = "done" => Fate[r] \in {"announced", "void"}
      <3>1. e = "done" => FateOf(r) \in {"announced", "void"}
        BY DEF PromisesInv, PromiseInv, TurnsInv, TurnInv, FateOf
      <3> QED BY <3>1 DEF Fate
    <2>2. Seen[r] = "nothing"
      BY <1>4 DEF Seen
    <2>3. Promise!Close(r, e)
      BY <1>2, <1>4, <2>1, <2>2 DEF Promise!Close
    <2> QED BY <1>1, <1>4, <2>3 DEF Promise!TurnNext, Terminal
  <1> QED BY <1>3, <1>4, ShowCloses

(* A step that changes the fate of one turn.                               *)
LEMMA FateTurns ==
    ASSUME NEW r \in Runs, UNCHANGED <<Resumable, Seen>>,
           \A q \in Runs \ {r} : FateOf(q)' = FateOf(q),
           \/ FateOf(r)' = FateOf(r)
           \/ FateOf(r) = "none" /\ FateOf(r)' = "asked"
           \/ FateOf(r) = "asked" /\ FateOf(r)' \in {"answered", "kept"}
           \/ FateOf(r) = "answered" /\ FateOf(r)' = "announced" /\ SessionOf[r] \in Resumable
    PROVE  [Promise!TurnNext]_PromiseView
  <1>1. Fate' = [Fate EXCEPT ![r] = FateOf(r)'] /\ Fate[r] = FateOf(r)
    BY DEF Fate
  <1>2. CASE FateOf(r)' = FateOf(r)
    <2>1. UNCHANGED Fate
      BY <1>2 DEF Fate
    <2> QED BY <2>1 DEF PromiseView
  <1>3. CASE FateOf(r) = "none" /\ FateOf(r)' = "asked"
    <2>1. Promise!Ask(r)
      BY <1>1, <1>3 DEF Promise!Ask, Promise!Turns
    <2> QED BY <2>1 DEF Promise!TurnNext
  <1>4. CASE FateOf(r) = "asked" /\ FateOf(r)' = "answered"
    <2>1. Promise!Answer(r)
      BY <1>1, <1>4 DEF Promise!Answer, Promise!Turns
    <2> QED BY <2>1 DEF Promise!TurnNext
  <1>5. CASE FateOf(r) = "asked" /\ FateOf(r)' = "kept"
    <2>1. Promise!Keep(r)
      BY <1>1, <1>5 DEF Promise!Keep, Promise!Turns
    <2> QED BY <2>1 DEF Promise!TurnNext
  <1>6. CASE FateOf(r) = "answered" /\ FateOf(r)' = "announced" /\ SessionOf[r] \in Resumable
    <2>1. Promise!Announce(r)
      BY <1>1, <1>6 DEF Promise!Announce, Promise!Turns
    <2> QED BY <2>1 DEF Promise!TurnNext
  <1> QED BY <1>2, <1>3, <1>4, <1>5, <1>6

(* A message is stored: the prompt, then the answer or a part of it.       *)
LEMMA StoringTurnsFate ==
    ASSUME TypeOK, TurnsInv, PromisesInv, NEW r \in Runs, NEW status \in Statuses, AddMessage(r, status),
           UNCHANGED <<erased, agent, shown, wire>>,
           \/ /\ status = "prompt" /\ pc[r] = "prompt"
              /\ Goto(r, "loop") \/ Return(r, "error")
           \/ status = "normal" /\ pc[r] = "done" /\ Goto(r, "doneAgent")
           \/ status = "cancelled" /\ pc[r] = "partial" /\ Goto(r, "partialAgent")
    PROVE  PromisesInv' /\ [Promise!TurnNext]_PromiseView
  <1>1. \A q \in Runs, other \in Statuses : Stored(q, other)' <=> Stored(q, other) \/ (q = r /\ other = status)
    BY AddStores
  <1>2. \A q \in Runs : Told(q, "done")' => Told(q, "done")
    BY DEF Told, Contains
  <1>3. reply[r] = "none" /\ reply'[r] # "eof"
    BY DEF PromisesInv, PromiseInv, Goto, Return, TypeOK, StreamTypeOK
  <1>4. \A q \in Runs \ {r} : pc'[q] = pc[q] /\ reply'[q] = reply[q]
    BY DEF Goto, Return, TypeOK, StreamTypeOK
  <1>5. UNCHANGED <<Resumable, Seen>>
    BY DEF Resumable, Seen, SeenOf, LastOf
  <1>6. PromiseInv(r)'
    BY <1>1, <1>2, <1>3
    DEF PromisesInv, PromiseInv, TurnsInv, TurnInv, Goto, Return, TypeOK, StreamTypeOK, BeforePrompt, Statuses
  <1>7. ASSUME NEW q \in Runs \ {r} PROVE PromiseInv(q)' /\ FateOf(q)' = FateOf(q)
    <2>1. /\ Stored(q, "prompt")' <=> Stored(q, "prompt")
          /\ Stored(q, "normal")' <=> Stored(q, "normal")
          /\ Stored(q, "cancelled")' <=> Stored(q, "cancelled")
      BY <1>1 DEF Statuses
    <2> QED BY <1>2, <1>4, <2>1 DEF PromisesInv, PromiseInv, FateOf
  <1>8. \/ FateOf(r)' = FateOf(r)
        \/ FateOf(r) = "none" /\ FateOf(r)' = "asked"
        \/ FateOf(r) = "asked" /\ FateOf(r)' \in {"answered", "kept"}
    BY <1>1, <1>3 DEF FateOf, PromisesInv, PromiseInv, TurnsInv, TurnInv, BeforePrompt, Statuses
  <1>9. PromisesInv'
    BY <1>6, <1>7 DEF PromisesInv
  <1> QED BY <1>5, <1>7, <1>8, <1>9, FateTurns

(* The agent session is recorded, if the conversation still has a row.     *)
LEMMA RecordingResumes ==
    ASSUME TypeOK, TurnsInv, PromisesInv, NEW r \in Runs, pc[r] \in {"doneAgent", "partialAgent"},
           NEW id \in Runs, UpdateAgentSession(r, id), UNCHANGED <<messages, erased, shown, wire>>,
           Goto(r, "doneSend") \/ Return(r, "canceled"),
           pc[r] = "doneAgent" \/ Return(r, "canceled")
    PROVE  PromisesInv' /\ [Promise!TurnNext]_PromiseView
  <1>1. \A q \in Runs : Told(q, "done")' => Told(q, "done")
    BY DEF Told, Contains
  <1>2. reply[r] = "none" /\ reply'[r] # "eof"
    BY DEF PromisesInv, PromiseInv, Goto, Return, TypeOK, StreamTypeOK
  <1>3. \A q \in Runs \ {r} : pc'[q] = pc[q] /\ reply'[q] = reply[q]
    BY DEF Goto, Return, TypeOK, StreamTypeOK
  <1>4. \A s \in Sessions : agent'[s] = IF s = SessionOf[r] /\ s \in live THEN id ELSE agent[s]
    BY Constants DEF UpdateAgentSession, TypeOK, StoreTypeOK
  <1>5. \A s \in Sessions : agent[s] # NoRun => agent'[s] # NoRun
    BY <1>4, Constants
  <1>6. PromisesInv'
    <2>1. PromiseInv(r)'
      BY <1>1, <1>2, Constants
      DEF PromisesInv, PromiseInv, Stored, Goto, Return, TypeOK, StreamTypeOK, BeforePrompt
    <2>2. ASSUME NEW q \in Runs \ {r} PROVE PromiseInv(q)'
      BY <1>1, <1>3, <1>5, Constants DEF PromisesInv, PromiseInv, Stored
    <2> QED BY <2>1, <2>2 DEF PromisesInv
  <1>7. UNCHANGED <<Fate, Seen>>
    BY <1>2, <1>3 DEF Fate, FateOf, Stored, Seen, SeenOf, LastOf
  <1>8. CASE SessionOf[r] \in erased
    <2>1. Resumable' = Resumable
      BY <1>4, <1>8 DEF Resumable
    <2> QED BY <1>6, <1>7, <2>1 DEF PromiseView
  <1>9. CASE SessionOf[r] \notin erased
    <2>1. SessionOf[r] \in live
      BY <1>9 DEF TurnsInv, TurnInv
    <2>2. Resumable' = Resumable \cup {SessionOf[r]}
      BY <1>4, <1>9, <2>1, Constants DEF Resumable
    <2>3. Fate[r] \in {"answered", "kept"}
      <3>1. FateOf(r) \in {"answered", "kept"}
        BY <1>2, <1>9 DEF FateOf, PromisesInv, PromiseInv, TurnsInv, TurnInv
      <3> QED BY <3>1 DEF Fate
    <2>4. Promise!Record(r)
      BY <1>7, <2>2, <2>3 DEF Promise!Record
    <2> QED BY <1>6, <2>4 DEF Promise!TurnNext
  <1> QED BY <1>8, <1>9

(* The last item is sent.                                                  *)
LEMMA SendingAnnounces ==
    ASSUME TypeOK, TurnsInv, PromisesInv, NEW r \in Runs, pc[r] = "doneSend", Return(r, "eof"),
           wire' = [wire EXCEPT ![r] = Append(@, "done")], UNCHANGED <<messages, erased, agent, shown>>
    PROVE  PromisesInv' /\ [Promise!TurnNext]_PromiseView
  <1>1. \A q \in Runs \ {r} : Told(q, "done")' => Told(q, "done")
    BY DEF Told, TypeOK, WireTypeOK
  <1>2. reply[r] = "none" /\ reply'[r] = "eof" /\ pc'[r] = "ended"
    BY DEF PromisesInv, PromiseInv, Return, TypeOK, StreamTypeOK
  <1>3. \A q \in Runs \ {r} : pc'[q] = pc[q] /\ reply'[q] = reply[q]
    BY DEF Return, TypeOK, StreamTypeOK
  <1>4. UNCHANGED <<Resumable, Seen>>
    BY DEF Resumable, Seen, SeenOf, LastOf
  <1>5. PromiseInv(r)'
    BY <1>2 DEF PromiseInv, TurnsInv, TurnInv, Stored, BeforePrompt
  <1>6. ASSUME NEW q \in Runs \ {r} PROVE PromiseInv(q)' /\ FateOf(q)' = FateOf(q)
    BY <1>1, <1>3 DEF PromisesInv, PromiseInv, FateOf, Stored
  <1>7. \/ FateOf(r)' = FateOf(r)
        \/ FateOf(r) = "answered" /\ FateOf(r)' = "announced" /\ SessionOf[r] \in Resumable
    BY <1>2, Constants DEF FateOf, TurnsInv, TurnInv, Stored, Resumable
  <1>8. PromisesInv'
    BY <1>5, <1>6 DEF PromisesInv
  <1> QED BY <1>4, <1>6, <1>7, <1>8, FateTurns

(* A conversation is deleted with its messages.                            *)
LEMMA DeletingErases ==
    ASSUME TypeOK, PromisesInv, NEW s \in Sessions, DeleteSession(s)
    PROVE  PromisesInv' /\ [Promise!TurnNext]_PromiseView
  <1>1. \A q \in Runs, status \in Statuses :
          SessionOf[q] # s => (Stored(q, status)' <=> Stored(q, status))
    BY DEF DeleteSession, Stored
  <1>2. \A q \in Runs : SessionOf[q] # s => agent'[SessionOf[q]] = agent[SessionOf[q]]
    BY Constants DEF DeleteSession, TypeOK, StoreTypeOK
  <1>3. UNCHANGED <<pc, reply, wire, shown>>
    BY DEF DeleteSession, streamVars, gatewayVars
  <1>4. erased' = erased \cup {s} /\ \A q \in Runs : Stored(q, "cancelled")' => Stored(q, "cancelled")
    BY DEF DeleteSession, Stored
  <1>5. PromisesInv'
    <2>1. ASSUME NEW q \in Runs PROVE PromiseInv(q)'
      <3>1. Told(q, "done")' <=> Told(q, "done")
        BY <1>3 DEF Told, Contains
      <3> QED BY <1>1, <1>2, <1>3, <1>4, <3>1 DEF PromisesInv, PromiseInv, Statuses
    <2> QED BY <2>1 DEF PromisesInv
  <1>6. \A q \in Runs : FateOf(q)' = IF SessionOf[q] = s THEN "void" ELSE FateOf(q)
    BY <1>1, <1>3, <1>4 DEF FateOf, Statuses
  <1>7. Resumable' = Resumable \ {s}
    BY <1>4 DEF DeleteSession, Resumable, TypeOK, StoreTypeOK
  <1>8. UNCHANGED Seen
    BY <1>3 DEF Seen, SeenOf, LastOf
  <1>9. Promise!Erase(s)
    BY <1>6, <1>7, <1>8 DEF Promise!Erase, Fate
  <1> QED BY <1>5, <1>9 DEF Promise!TurnNext

PromiseKept == PromisesInv' /\ [Promise!TurnNext]_PromiseView

(* Every step is a step of the promise, or none the user notices.          *)
LEMMA PromiseStep ==
    ASSUME TypeOK, TerminalInv, TurnsInv, PromisesInv, [Next]_vars
    PROVE  PromiseKept
  <1>1. ASSUME NEW r \in Runs, StartAgentStream(r) PROVE PromiseKept
    <2>1. \A q \in Runs : Told(q, "done")' => Told(q, "done")
      BY <1>1, DoneIsToldLast DEF StartAgentStream, TypeOK, StreamTypeOK
    <2>2. UNCHANGED <<messages, erased, agent, reply>>
      BY <1>1 DEF StartAgentStream, storeVars, boundVars
    <2>3. \A q \in Runs : pc'[q] = pc[q] \/ (pc'[q] = "load" /\ pc[q] = "none")
      <3>1. pc[r] = "none"
        BY <1>1 DEF StartAgentStream, TurnsInv, TurnInv
      <3>2. pc' = [pc EXCEPT ![r] = "load"] \/ pc' = pc
        BY <1>1 DEF StartAgentStream
      <3> QED BY <3>1, <3>2 DEF TypeOK, StreamTypeOK
    <2>4. CASE Show(r, "error")
      <3>1. gw[r] # "ended" /\ "error" \in Terminal
        BY <1>1 DEF StartAgentStream, Terminal
      <3> QED BY <2>1, <2>2, <2>3, <2>4, <3>1, GatewayCloses DEF PromiseKept
    <2>5. CASE UNCHANGED shown
      <3>1. \A q \in Runs : reply[q] # "none" => pc'[q] = "ended"
        BY <2>3 DEF PromisesInv, PromiseInv
      <3>2. Quiet
        BY <2>1, <2>2, <2>3, <2>5, <3>1 DEF Quiet, QuietFor, BeforePrompt
      <3> QED BY <3>2, QuietKeepsPromise DEF PromiseKept
    <2> QED BY <1>1, <2>4, <2>5 DEF StartAgentStream
  <1>2. ASSUME NEW r \in Runs, CopyItem(r) PROVE PromiseKept
    <2>1. UNCHANGED <<messages, erased, agent, reply, pc>>
      BY <1>2 DEF CopyItem, streamVars, storeVars, boundVars
    <2>2. \A q \in Runs : Told(q, "done")' => Told(q, "done")
      BY <2>1, DoneIsToldLast
    <2>3. Head(wire[r]) \in Items /\ Contains(wire[r], Head(wire[r]))
      BY <1>2 DEF CopyItem, TypeOK, WireTypeOK, Contains
    <2>4. Head(wire[r]) = "done" => Told(r, "done")
      BY <2>3 DEF Told
    <2>5. Show(r, Head(wire[r])) /\ gw[r] # "ended"
      BY <1>2 DEF CopyItem
    <2>6. \A q \in Runs : /\ pc'[q] = pc[q] \/ (pc'[q] = "load" /\ pc[q] = "none")
                          /\ Told(q, "done")' => Told(q, "done")
      BY <2>1, <2>2
    <2>7. UNCHANGED <<messages, erased, agent, reply>>
      BY <2>1
    <2> QED BY <2>3, <2>4, <2>5, <2>6, <2>7, GatewayCloses DEF PromiseKept
  <1>3. ASSUME NEW r \in Runs, CopyEnd(r) PROVE PromiseKept
    <2>1. UNCHANGED <<messages, erased, agent, reply, pc>>
      BY <1>3 DEF CopyEnd, streamVars, storeVars, boundVars
    <2>2. \A q \in Runs : Told(q, "done")' => Told(q, "done")
      BY <2>1, DoneIsToldLast
    <2>3. PICK e \in {"canceled", "error"} : Show(r, e)
      BY <1>3 DEF CopyEnd
    <2>4. gw[r] # "ended" /\ e \in Terminal /\ e # "done"
      BY <1>3 DEF CopyEnd, Terminal
    <2>5. \A q \in Runs : /\ pc'[q] = pc[q] \/ (pc'[q] = "load" /\ pc[q] = "none")
                          /\ Told(q, "done")' => Told(q, "done")
      BY <2>1, <2>2
    <2>6. UNCHANGED <<messages, erased, agent, reply>>
      BY <2>1
    <2> QED BY <2>3, <2>4, <2>5, <2>6, GatewayCloses DEF PromiseKept
  <1>4. ASSUME NEW r \in Runs, CancelRun(r) PROVE PromiseKept
    BY <1>4, ElsewhereIsQuiet, QuietKeepsPromise
    DEF PromiseKept, CancelRun, gatewayVars, streamVars, storeVars, boundVars
  <1>5. ASSUME NEW r \in Runs, CancelReaches(r) PROVE PromiseKept
    BY <1>5, ElsewhereIsQuiet, QuietKeepsPromise
    DEF PromiseKept, CancelReaches, gatewayVars, streamVars, storeVars, boundVars
  <1>6. ASSUME NEW r \in Runs, LoadSession(r) PROVE PromiseKept
    <2>1. Quiet
      BY <1>6, HandlerIsQuiet
      DEF LoadSession, StreamPc, BeforePrompt, Causes, gatewayVars, boundVars
    <2> QED BY <2>1, QuietKeepsPromise DEF PromiseKept
  <1>7. ASSUME NEW r \in Runs, AddPrompt(r) PROVE PromiseKept
    <2>1. UNCHANGED <<erased, agent, shown, wire>> /\ pc[r] = "prompt"
      BY <1>7 DEF AddPrompt, gatewayVars, boundVars
    <2>2. CASE AddMessage(r, "prompt") /\ (Goto(r, "loop") \/ Return(r, "error"))
      BY <2>1, <2>2, StoringTurnsFate DEF PromiseKept, Statuses
    <2>3. CASE ReturnFailed(r) /\ UNCHANGED messages
      <3>1. Quiet
        BY <2>1, <2>3, HandlerIsQuiet
      <3> QED BY <3>1, QuietKeepsPromise DEF PromiseKept
    <2> QED BY <1>7, <2>2, <2>3 DEF AddPrompt
  <1>8. ASSUME NEW r \in Runs, ReceiveDelta(r) PROVE PromiseKept
    <2>1. Quiet
      BY <1>8, HandlerIsQuiet
      DEF ReceiveDelta, StreamPc, BeforePrompt, gatewayVars, storeVars, boundVars
    <2> QED BY <2>1, QuietKeepsPromise DEF PromiseKept
  <1>9. ASSUME NEW r \in Runs, ReceiveDone(r) PROVE PromiseKept
    <2>1. Quiet
      BY <1>9, HandlerIsQuiet
      DEF ReceiveDone, StreamPc, BeforePrompt, gatewayVars, storeVars, boundVars
    <2> QED BY <2>1, QuietKeepsPromise DEF PromiseKept
  <1>10. ASSUME NEW r \in Runs, SendItem(r) PROVE PromiseKept
    <2>1. UNCHANGED <<messages, erased, agent, shown>> /\ pc[r] \in {"sendDelta", "sendAsk"}
      BY <1>10 DEF SendItem, gatewayVars, storeVars, boundVars
    <2>2. CASE Goto(r, "loop")
      <3>1. \A q \in Runs : Told(q, "done")' => Told(q, "done")
        BY <2>1, <2>2, DoneIsToldLast DEF Goto, TypeOK, StreamTypeOK
      <3>2. Quiet
        BY <2>1, <2>2, <3>1
        DEF Goto, Quiet, QuietFor, PromisesInv, PromiseInv, BeforePrompt, TypeOK, StreamTypeOK
      <3> QED BY <3>2, QuietKeepsPromise DEF PromiseKept
    <2>3. CASE Return(r, "canceled") /\ UNCHANGED wire
      <3>1. Quiet
        BY <2>1, <2>3, HandlerIsQuiet DEF Causes
      <3> QED BY <3>1, QuietKeepsPromise DEF PromiseKept
    <2> QED BY <1>10, <2>2, <2>3 DEF SendItem
  <1>11. ASSUME NEW r \in Runs, StoreAnswer(r) PROVE PromiseKept
    <2>1. UNCHANGED <<erased, agent, shown, wire>> /\ pc[r] = "done"
      BY <1>11 DEF StoreAnswer, gatewayVars, boundVars
    <2>2. CASE AddMessage(r, "normal") /\ Goto(r, "doneAgent")
      BY <2>1, <2>2, StoringTurnsFate DEF PromiseKept, Statuses
    <2>3. CASE ReturnFailed(r) /\ UNCHANGED messages
      <3>1. Quiet
        BY <2>1, <2>3, HandlerIsQuiet
      <3> QED BY <3>1, QuietKeepsPromise DEF PromiseKept
    <2> QED BY <1>11, <2>2, <2>3 DEF StoreAnswer
  <1>12. ASSUME NEW r \in Runs, StoreAnswerAgent(r) PROVE PromiseKept
    <2>1. UNCHANGED <<messages, erased, shown, wire>> /\ pc[r] = "doneAgent"
      BY <1>12 DEF StoreAnswerAgent, gatewayVars, boundVars
    <2>2. agentId[r] \in Runs
      BY <2>1 DEF TurnsInv, TurnInv, TypeOK, StreamTypeOK
    <2>3. CASE (\E id \in {agentId[r], r} : UpdateAgentSession(r, id)) /\ Goto(r, "doneSend")
      BY <2>1, <2>2, <2>3, RecordingResumes DEF PromiseKept
    <2>4. CASE ReturnFailed(r) /\ UNCHANGED agent
      <3>1. Quiet
        BY <2>1, <2>4, HandlerIsQuiet
      <3> QED BY <3>1, QuietKeepsPromise DEF PromiseKept
    <2> QED BY <1>12, <2>3, <2>4 DEF StoreAnswerAgent
  <1>13. ASSUME NEW r \in Runs, SendDone(r) PROVE PromiseKept
    <2>1. UNCHANGED <<messages, erased, agent, shown>> /\ pc[r] = "doneSend"
      BY <1>13 DEF SendDone, gatewayVars, storeVars, boundVars
    <2>2. CASE wire' = [wire EXCEPT ![r] = Append(@, "done")] /\ Return(r, "eof")
      BY <2>1, <2>2, SendingAnnounces DEF PromiseKept
    <2>3. CASE Return(r, "canceled") /\ UNCHANGED wire
      <3>1. Quiet
        BY <2>1, <2>3, HandlerIsQuiet DEF Causes
      <3> QED BY <3>1, QuietKeepsPromise DEF PromiseKept
    <2> QED BY <1>13, <2>2, <2>3 DEF SendDone
  <1>14. ASSUME NEW r \in Runs, ReceiveErr(r) PROVE PromiseKept
    <2>1. Quiet
      BY <1>14, HandlerIsQuiet DEF ReceiveErr, StreamPc, BeforePrompt, Causes, gatewayVars, boundVars
    <2> QED BY <2>1, QuietKeepsPromise DEF PromiseKept
  <1>15. ASSUME NEW r \in Runs, NoticeCancel(r) PROVE PromiseKept
    <2>1. Quiet
      BY <1>15, HandlerIsQuiet DEF NoticeCancel, StreamPc, BeforePrompt, gatewayVars, storeVars, boundVars
    <2> QED BY <2>1, QuietKeepsPromise DEF PromiseKept
  <1>16. ASSUME NEW r \in Runs, SavePartial(r) PROVE PromiseKept
    <2>1. UNCHANGED <<erased, agent, shown, wire>> /\ pc[r] = "partial"
      BY <1>16 DEF SavePartial, gatewayVars, boundVars
    <2>2. CASE AddMessage(r, "cancelled") /\ Goto(r, "partialAgent")
      BY <2>1, <2>2, StoringTurnsFate DEF PromiseKept, Statuses
    <2>3. CASE Return(r, "canceled") /\ UNCHANGED messages
      <3>1. Quiet
        BY <2>1, <2>3, HandlerIsQuiet DEF Causes
      <3> QED BY <3>1, QuietKeepsPromise DEF PromiseKept
    <2> QED BY <1>16, <2>2, <2>3 DEF SavePartial
  <1>17. ASSUME NEW r \in Runs, SavePartialAgent(r) PROVE PromiseKept
    <2>1. UNCHANGED <<messages, erased, shown, wire>> /\ pc[r] = "partialAgent" /\ Return(r, "canceled")
      BY <1>17 DEF SavePartialAgent, gatewayVars, boundVars
    <2>2. agentId[r] \in Runs
      BY <2>1 DEF TurnsInv, TurnInv, TypeOK, StreamTypeOK
    <2>3. CASE UpdateAgentSession(r, agentId[r])
      BY <2>1, <2>2, <2>3, RecordingResumes DEF PromiseKept
    <2>4. CASE UNCHANGED agent
      <3>1. Quiet
        BY <2>1, <2>4, HandlerIsQuiet DEF Causes
      <3> QED BY <3>1, QuietKeepsPromise DEF PromiseKept
    <2> QED BY <1>17, <2>3, <2>4 DEF SavePartialAgent
  <1>18. ASSUME NEW r \in Runs, AgentSpeaks(r) PROVE PromiseKept
    BY <1>18, ElsewhereIsQuiet, QuietKeepsPromise
    DEF PromiseKept, AgentSpeaks, gatewayVars, streamVars, storeVars, boundVars
  <1>19. ASSUME NEW r \in Runs, RunnerCancelled(r) PROVE PromiseKept
    BY <1>19, ElsewhereIsQuiet, QuietKeepsPromise
    DEF PromiseKept, RunnerCancelled, gatewayVars, streamVars, storeVars, boundVars
  <1>20. ASSUME NEW r \in Runs, RunnerPut(r) PROVE PromiseKept
    BY <1>20, ElsewhereIsQuiet, QuietKeepsPromise
    DEF PromiseKept, RunnerPut, gatewayVars, streamVars, storeVars, boundVars
  <1>21. ASSUME NEW r \in Runs, CloseRunner(r) PROVE PromiseKept
    <2>1. CASE Crash
      BY <2>1, CrashIsQuiet, QuietKeepsPromise DEF PromiseKept
    <2>2. CASE ~InSend(r)
      BY <1>21, <2>2, ElsewhereIsQuiet, QuietKeepsPromise
      DEF PromiseKept, CloseRunner, gatewayVars, streamVars, storeVars, boundVars
    <2> QED BY <1>21, <2>1, <2>2 DEF CloseRunner
  <1>22. ASSUME NEW t \in Tools, CallbackStarts(t) PROVE PromiseKept
    BY <1>22, ElsewhereIsQuiet, QuietKeepsPromise
    DEF PromiseKept, CallbackStarts, gatewayVars, streamVars, storeVars, boundVars
  <1>23. ASSUME NEW t \in Tools, ReceiveAsk(t) PROVE PromiseKept
    <2>1. Quiet
      BY <1>23, HandlerIsQuiet, Constants
      DEF ReceiveAsk, StreamPc, BeforePrompt, gatewayVars, storeVars, boundVars
    <2> QED BY <2>1, QuietKeepsPromise DEF PromiseKept
  <1>24. ASSUME NEW t \in Tools, EmitCancelled(t) PROVE PromiseKept
    BY <1>24, ElsewhereIsQuiet, QuietKeepsPromise
    DEF PromiseKept, EmitCancelled, gatewayVars, streamVars, storeVars, boundVars
  <1>25. ASSUME NEW t \in Tools, EmitPut(t) PROVE PromiseKept
    BY <1>25, ElsewhereIsQuiet, QuietKeepsPromise
    DEF PromiseKept, EmitPut, gatewayVars, streamVars, storeVars, boundVars
  <1>26. ASSUME NEW t \in Tools, WaitEnds(t) PROVE PromiseKept
    BY <1>26, ElsewhereIsQuiet, QuietKeepsPromise
    DEF PromiseKept, WaitEnds, gatewayVars, streamVars, storeVars, boundVars
  <1>27. ASSUME NEW t \in Tools, ToolRuns(t) PROVE PromiseKept
    BY <1>27, ElsewhereIsQuiet, QuietKeepsPromise
    DEF PromiseKept, ToolRuns, gatewayVars, streamVars, storeVars, boundVars
  <1>28. ASSUME NEW s \in Sessions, NEW t \in Tools, NEW answer \in {"allow", "deny"}, Submit(s, t, answer)
         PROVE  PromiseKept
    BY <1>28, ElsewhereIsQuiet, QuietKeepsPromise
    DEF PromiseKept, Submit, gatewayVars, streamVars, storeVars, boundVars
  <1>29. ASSUME NEW s \in Sessions, DeleteSession(s) PROVE PromiseKept
    BY <1>29, DeletingErases DEF PromiseKept
  <1>30. ASSUME NEW s \in Sessions, EnsureSession(s) PROVE PromiseKept
    BY <1>30, ElsewhereIsQuiet, QuietKeepsPromise
    DEF PromiseKept, EnsureSession, gatewayVars, streamVars, storeVars, boundVars
  <1>31. ASSUME CloseSocket PROVE PromiseKept
    BY <1>31, ElsewhereIsQuiet, QuietKeepsPromise
    DEF PromiseKept, CloseSocket, gatewayVars, streamVars, storeVars, boundVars
  <1>32. ASSUME AgentCrash PROVE PromiseKept
    BY <1>32, CrashIsQuiet, QuietKeepsPromise DEF PromiseKept, AgentCrash
  <1>33. ASSUME UNCHANGED vars PROVE PromiseKept
    BY <1>33, ElsewhereIsQuiet, QuietKeepsPromise
    DEF PromiseKept, vars, gatewayVars, streamVars, storeVars, boundVars
  <1> QED
    BY <1>1, <1>2, <1>3, <1>4, <1>5, <1>6, <1>7, <1>8, <1>9, <1>10, <1>11, <1>12, <1>13, <1>14, <1>15,
       <1>16, <1>17, <1>18, <1>19, <1>20, <1>21, <1>22, <1>23, <1>24, <1>25, <1>26, <1>27, <1>28, <1>29,
       <1>30, <1>31, <1>32, <1>33
    DEF Next, GatewayStep, StreamStep, RunnerStep, CallbackStep

(* A turn keeps its promise to the user, for any number of turns in any    *)
(* number of conversations: prompt, answer and announcement come in order, *)
(* an answer is kept whole or in part, a request is closed once and as     *)
(* done only when it was announced, whatever is cancelled, fails, is       *)
(* deleted or dies (startAgentStream, StreamMessage, savePartial).         *)
THEOREM TurnsKeepPromise == Spec => KeepsTurnPromise
  <1>1. Init => PromisesInv /\ Promise!TurnInit
    <2> SUFFICES ASSUME Init PROVE PromisesInv /\ Promise!TurnInit
      OBVIOUS
    <2>1. ASSUME NEW r \in Runs PROVE FateOf(r) = "none" /\ SeenOf(r) = "nothing" /\ PromiseInv(r)
      BY DEF Init, FateOf, SeenOf, Stored, PromiseInv, Told, Contains, BeforePrompt
    <2>2. Resumable = {}
      BY DEF Init, Resumable
    <2> QED BY <2>1, <2>2 DEF PromisesInv, Promise!TurnInit, Fate, Seen
  <1>2. TypeOK /\ TerminalInv /\ TurnsInv /\ PromisesInv /\ [Next]_vars =>
          PromisesInv' /\ [Promise!TurnNext]_PromiseView
    BY PromiseStep DEF PromiseKept
  <1>3. Spec => []TerminalInv
    <2>1. Init => TerminalInv
      BY DEF Init, TerminalInv
    <2> QED BY <2>1, TerminalStep, TypeCorrect, PTL DEF Spec
  <1> QED
    BY <1>1, <1>2, <1>3, TurnInvariant, PTL
    DEF Spec, KeepsTurnPromise, Promise!TurnSpec, Promise!promiseVars, PromiseView

=============================================================================
