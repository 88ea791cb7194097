--------------------- MODULE ConversationOperationProofs ---------------------
(***************************************************************************)
(* For any number of turns, operations and tool calls: only an executed    *)
(* completion call completes an operation, and each does so once.  For one *)
(* turn at a time: an operation that is still open is the latest one, and  *)
(* one that is settled changes only by a late completion.                  *)
(***************************************************************************)
EXTENDS ConversationOperation, TLAPS

(* Executed calls were made by agents, and turns past their first step     *)
(* name an operation.                                                      *)
IInv ==
    /\ TypeOK
    /\ executions \subseteq sent
    /\ \A c \in Clients : turn[c].pc \in {"resume", "ready", "run"} =>
          turn[c].op \in Ids
    /\ CompletedHasExecution

(* The four terminal states are states, and none is completion.            *)
LEMMA TerminalState ==
    ASSUME NEW t \in Terminals
    PROVE  /\ ConversationStateForTerminal(t) \in States
           /\ ConversationStateForTerminal(t) # "completed"
  BY DEF Terminals, ConversationStateForTerminal, States, Active

(* Initially there is nothing to account for.                              *)
LEMMA InitOK == Init => IInv
  BY DEF Init, IInv, TypeOK, CompletedHasExecution, States, Turn, Idle

(* A turn's step completes no operation.                                   *)
LEMMA ClientOK ==
    ASSUME IInv, NEW c \in Clients, Client(c)
    PROVE  /\ IInv'
           /\ \A o \in Ids : state'[o] = "completed" => state[o] = "completed"
<1> USE DEF IInv, TypeOK, CompletedHasExecution, Become, At
<1>1. CASE SupersedeActive(c)
  BY <1>1 DEF SupersedeActive, States, Turn
<1>2. CASE Resume(c)
  BY <1>2 DEF Resume, States, Active, Turn
<1>3. CASE Prepare(c)
  BY <1>3 DEF Prepare, Turn
<1>4. CASE TurnFails(c)
  BY <1>4 DEF TurnFails, Turn, Idle
<1>5. CASE \E o \in Ids : Create(c, o)
  BY <1>5 DEF Create, States, Active, Turn
<1>6. CASE \E o \in Ids : GetForResume(c, o)
  BY <1>6 DEF GetForResume, Turn
<1>7. CASE \E t \in Tools : Submit(c, t)
  BY <1>7 DEF Submit, Call
<1>8. CASE \E terminal \in Terminals : FinishIfActive(c, terminal)
  BY <1>8, TerminalState DEF FinishIfActive, Turn, Idle
<1> QED
  BY <1>1, <1>2, <1>3, <1>4, <1>5, <1>6, <1>7, <1>8 DEF Client

(* An executed call accounts for the operation it completes.               *)
LEMMA CompleteOK ==
    ASSUME IInv, NEW call \in sent, Complete(call)
    PROVE  IInv' /\ executions' # executions
<1>1. call \in Call /\ call \notin executions
  BY DEF IInv, TypeOK, Complete
<1> QED
  BY <1>1 DEF IInv, TypeOK, CompletedHasExecution, Complete, Call, States

(* IInv is inductive.                                                      *)
LEMMA Inductive == Spec => []IInv
<1>1. IInv /\ [Next]_vars => IInv'
  <2> SUFFICES ASSUME IInv, [Next]_vars PROVE IInv'
    OBVIOUS
  <2>1. CASE Next
    BY <2>1, ClientOK, CompleteOK DEF Next
  <2>2. CASE UNCHANGED vars
    BY <2>2 DEF vars, IInv, TypeOK, CompletedHasExecution
  <2> QED
    BY <2>1, <2>2
<1> QED
  BY <1>1, InitOK, PTL DEF Spec

(* Operations, calls and turns keep their types.                           *)
THEOREM TypeCorrect == Spec => []TypeOK
<1>1. IInv => TypeOK
  BY DEF IInv
<1> QED
  BY <1>1, Inductive, PTL

(* An operation is completed by a call of its own agent and nothing else.  *)
THEOREM OnlyCallsComplete == Spec => []CompletedHasExecution
<1>1. IInv => CompletedHasExecution
  BY DEF IInv
<1> QED
  BY <1>1, Inductive, PTL

(* A redelivered call completes nothing.                                   *)
THEOREM CallsCompleteOnce == Spec => CompletionIsNew
<1> DEFINE A == \A o \in Ids :
                  (state[o] # "completed" /\ state'[o] = "completed") =>
                     executions' # executions
<1>1. IInv /\ [Next]_vars => [A]_vars
  <2> SUFFICES ASSUME IInv, [Next]_vars PROVE [A]_vars
    OBVIOUS
  <2>1. CASE Next
    <3>1. CASE \E c \in Clients : Client(c)
      BY <3>1, ClientOK
    <3>2. CASE \E call \in sent : Complete(call)
      BY <3>2, CompleteOK
    <3> QED
      BY <2>1, <3>1, <3>2 DEF Next
  <2>2. CASE UNCHANGED vars
    BY <2>2
  <2> QED
    BY <2>1, <2>2
<1>2. Spec => [][A]_vars
  BY <1>1, Inductive, PTL DEF Spec
<1> QED
  BY <1>2 DEF CompletionIsNew

-----------------------------------------------------------------------------
(***************************************************************************)
(* The open operation is the latest one when turns come one at a time.     *)
(* Whatever ends a turn, the next one supersedes everything open before it *)
(* creates, or resumes an operation that is open and so is the latest; a   *)
(* late completion only closes.  Operations are created in the order of    *)
(* their ids, so the one just created is the latest.                       *)
(***************************************************************************)

(* No two turns are under way together.                                    *)
OneTurn == \A c, d \in Clients : c = d

(* What a turn knows of the operation it works on.                         *)
TurnLatest(c) ==
    /\ At(c, "create") => \A o \in Ids : state[o] \notin Active
    /\ turn[c].pc \in {"resume", "ready", "run"} => IsLatest(turn[c].op)

LatestInv ==
    /\ IInv
    /\ \A o \in Created : \A p \in Ids : p < o => p \in Created
    /\ \A call \in sent : call.op \in Created
    /\ \A c \in Clients : TurnLatest(c)
    /\ ActiveIsLatest

(* While no operation is created the latest one stays the latest.          *)
LEMMA SameCreated ==
    ASSUME LatestInv, IInv', Created' = Created,
           \A call \in sent' : call.op \in Created,
           \A o \in Ids : state'[o] \in Active =>
              state[o] \in Active \/ IsLatest(o),
           \A c \in Clients :
              /\ turn'[c].pc = "create" => \A o \in Ids : state'[o] \notin Active
              /\ turn'[c].pc \in {"resume", "ready", "run"} =>
                    IsLatest(turn'[c].op)
    PROVE  LatestInv'
<1>1. \A o : IsLatest(o)' <=> IsLatest(o)
  BY DEF IsLatest
<1>2. ActiveIsLatest'
  BY <1>1 DEF LatestInv, ActiveIsLatest
<1>3. \A c \in Clients : TurnLatest(c)'
  BY DEF TurnLatest, At, IsLatest
<1> QED
  BY <1>2, <1>3 DEF LatestInv

(* The steps of a turn but the creation.                                   *)
LEMMA ClientLatest ==
    ASSUME OneTurn, LatestInv, IInv', NEW c \in Clients, Client(c),
           ~ \E o \in Ids : Create(c, o)
    PROVE  LatestInv'
<1>0. /\ state \in [Ids -> States] /\ turn \in [Clients -> Turn]
      /\ TurnLatest(c) /\ \A d \in Clients : d = c
      /\ \A call \in sent : call.op \in Created
      /\ \A o \in Ids : state[o] \in Active => IsLatest(o)
      /\ turn[c].pc \in {"resume", "ready", "run"} => turn[c].op \in Ids
  BY DEF LatestInv, IInv, TypeOK, OneTurn, ActiveIsLatest
<1>1. CASE SupersedeActive(c)
  <2>1. /\ \A o \in Ids : state'[o] \notin Active
        /\ \A o \in Ids : state'[o] = "none" <=> state[o] = "none"
        /\ turn'[c].pc = "create" /\ sent' = sent
    BY <1>0, <1>1 DEF SupersedeActive, Active, Become
  <2>2. Created' = Created
    BY <2>1 DEF Created
  <2> QED
    BY <1>0, <2>1, <2>2, SameCreated
<1>2. CASE Resume(c)
  <2>1. /\ turn[c].op \in Ids /\ IsLatest(turn[c].op)
        /\ turn'[c].pc = "ready" /\ turn'[c].op = turn[c].op /\ sent' = sent
        /\ state' = [state EXCEPT ![turn[c].op] = "running"]
    BY <1>0, <1>2 DEF Resume, At, Become, TurnLatest
  <2>2. turn[c].op \in Created
    BY <2>1 DEF IsLatest
  <2>3. Created' = Created
    BY <1>0, <2>1, <2>2 DEF Created
  <2>4. \A o \in Ids : state'[o] \in Active =>
           state[o] \in Active \/ IsLatest(o)
    BY <1>0, <2>1
  <2> QED
    BY <1>0, <2>1, <2>3, <2>4, SameCreated
<1>3. CASE Prepare(c)
  <2>1. /\ turn'[c].pc = "run" /\ turn'[c].op = turn[c].op
        /\ IsLatest(turn[c].op) /\ state' = state /\ sent' = sent
    BY <1>0, <1>3 DEF Prepare, Become
  <2> QED
    BY <1>0, <2>1, SameCreated DEF Created
<1>4. CASE TurnFails(c)
  <2>1. turn'[c].pc = "idle" /\ state' = state /\ sent' = sent
    BY <1>0, <1>4 DEF TurnFails, Idle
  <2> QED
    BY <1>0, <2>1, SameCreated DEF Created
<1>5. CASE \E o \in Ids : GetForResume(c, o)
  <2>1. PICK o \in Ids : GetForResume(c, o)
    BY <1>5
  <2>2. /\ turn'[c].pc = "resume" /\ turn'[c].op = o
        /\ state' = state /\ sent' = sent /\ state[o] \in Active
    BY <1>0, <2>1 DEF GetForResume, Become, CanResume, Active
  <2> QED
    BY <1>0, <2>2, SameCreated DEF Created
<1>6. CASE \E t \in Tools : Submit(c, t)
  <2>1. PICK t \in Tools : Submit(c, t)
    BY <1>6
  <2>2. /\ turn' = turn /\ state' = state /\ turn[c].pc = "run"
        /\ sent' = sent \cup {[tool |-> t, op |-> turn[c].op]}
    BY <2>1 DEF Submit, At
  <2>3. turn[c].op \in Created
    BY <1>0, <2>2 DEF TurnLatest, IsLatest
  <2>4. \A call \in sent' : call.op \in Created
    BY <1>0, <2>2, <2>3
  <2> QED
    BY <1>0, <2>2, <2>4, SameCreated DEF Created, TurnLatest
<1>7. CASE \E terminal \in Terminals : FinishIfActive(c, terminal)
  <2>1. PICK terminal \in Terminals : FinishIfActive(c, terminal)
    BY <1>7
  <2>2. turn[c].op \in Ids /\ turn'[c].pc = "idle" /\ sent' = sent
    BY <1>0, <2>1 DEF FinishIfActive, At, Idle
  <2>3. \A o \in Ids : /\ state'[o] \in Active => state[o] \in Active
                       /\ state'[o] = "none" <=> state[o] = "none"
    BY <1>0, <2>1, <2>2
    DEF FinishIfActive, Active, ConversationStateForTerminal, Terminals
  <2>4. Created' = Created
    BY <2>3 DEF Created
  <2> QED
    BY <1>0, <2>2, <2>3, <2>4, SameCreated
<1> QED
  BY <1>1, <1>2, <1>3, <1>4, <1>5, <1>6, <1>7 DEF Client

(* The creation, with nothing left open.                                   *)
LEMMA CreateLatest ==
    ASSUME OneTurn, LatestInv, IInv', NEW c \in Clients, NEW o \in Ids,
           Create(c, o)
    PROVE  LatestInv'
<1>1. /\ state \in [Ids -> States] /\ turn \in [Clients -> Turn]
      /\ \A d \in Clients : d = c
      /\ \A q \in Created : \A p \in Ids : p < q => p \in Created
      /\ \A p \in Ids : state[p] \notin Active
      /\ \A call \in sent : call.op \in Created
  BY DEF LatestInv, IInv, TypeOK, OneTurn, TurnLatest, Create
<1>2. /\ state' = [state EXCEPT ![o] = "running"] /\ sent' = sent
      /\ turn'[c].pc = "ready" /\ turn'[c].op = o
      /\ o \notin Created /\ \A p \in Ids : p < o => p \in Created
  BY <1>1 DEF Create, Become, Created
<1>3. Created' = Created \cup {o}
  BY <1>1, <1>2 DEF Created
<1>4. \A p \in Created : p < o
  <2>1. \A p \in Created : p \in Ids /\ p # o /\ ~ (o < p)
    BY <1>1, <1>2 DEF Created
  <2> QED
    BY <2>1, OperationAssumption DEF Ids
<1>5. IsLatest(o)'
  <2>1. o \in Nat /\ \A p \in Created : p \in Nat
    BY OperationAssumption DEF Ids, Created
  <2>2. \A p \in Created' : p <= o
    BY <1>3, <1>4, <2>1
  <2> QED
    BY <1>3, <2>2 DEF IsLatest
<1>6. ActiveIsLatest'
  BY <1>1, <1>2, <1>5 DEF ActiveIsLatest
<1>7. \A d \in Clients : TurnLatest(d)'
  BY <1>1, <1>2, <1>5 DEF TurnLatest, At
<1>8. \A q \in Created' : \A p \in Ids : p < q => p \in Created'
  BY <1>1, <1>2, <1>3
<1>9. \A call \in sent' : call.op \in Created'
  BY <1>1, <1>2, <1>3
<1> QED
  BY <1>6, <1>7, <1>8, <1>9 DEF LatestInv

(* A completion that arrives at any time closes, and opens nothing.        *)
LEMMA CompleteLatest ==
    ASSUME LatestInv, IInv', NEW call \in sent, Complete(call)
    PROVE  LatestInv'
<1>1. /\ state \in [Ids -> States] /\ call.op \in Created
      /\ \A c \in Clients : TurnLatest(c)
  BY DEF LatestInv, IInv, TypeOK
<1>2. /\ state' = [state EXCEPT ![call.op] = "completed"]
      /\ sent' = sent /\ turn' = turn
  BY DEF Complete
<1>3. Created' = Created
  BY <1>1, <1>2 DEF Created
<1>4. \A o \in Ids : state'[o] \in Active => state[o] \in Active
  BY <1>1, <1>2 DEF Active
<1> QED
  BY <1>1, <1>2, <1>3, <1>4, SameCreated DEF TurnLatest, At, LatestInv

(* Every step of the only turn, and every completion, keeps the invariant. *)
LEMMA LatestInductive ==
    ASSUME OneTurn
    PROVE  Spec => []LatestInv
<1>1. Init => LatestInv
  <2> SUFFICES ASSUME Init PROVE LatestInv
    OBVIOUS
  <2>1. /\ IInv /\ Created = {} /\ sent = {}
        /\ \A o \in Ids : state[o] \notin Active
        /\ \A c \in Clients : turn[c].pc = "idle"
    BY InitOK DEF Init, Created, Active, Idle
  <2> QED
    BY <2>1 DEF LatestInv, TurnLatest, At, ActiveIsLatest
<1>2. LatestInv /\ [Next]_vars => LatestInv'
  <2> SUFFICES ASSUME LatestInv, [Next]_vars PROVE LatestInv'
    OBVIOUS
  <2>1. IInv'
    BY ClientOK, CompleteOK
    DEF Next, vars, LatestInv, IInv, TypeOK, CompletedHasExecution
  <2>2. CASE \E c \in Clients : Client(c)
    BY <2>1, <2>2, ClientLatest, CreateLatest
  <2>3. CASE \E call \in sent : Complete(call)
    BY <2>1, <2>3, CompleteLatest
  <2>4. CASE UNCHANGED vars
    BY <2>1, <2>4 DEF vars, LatestInv, TurnLatest, At, Created, IsLatest,
                      ActiveIsLatest
  <2> QED
    BY <2>2, <2>3, <2>4 DEF Next
<1> QED
  BY <1>1, <1>2, PTL DEF Spec

(* With one turn at a time, through crashes, refusals, resumed turns and   *)
(* completions that arrive late or twice, nothing older than the latest    *)
(* operation stays open.                                                   *)
THEOREM OpenOperationIsLatest ==
    ASSUME OneTurn
    PROVE  Spec => []ActiveIsLatest
<1>1. LatestInv => ActiveIsLatest
  BY DEF LatestInv
<1> QED
  BY <1>1, LatestInductive, PTL

-----------------------------------------------------------------------------
(***************************************************************************)
(* What is settled stays.  Resume overwrites the state by id after a check *)
(* in another statement; with one turn at a time only a completion can     *)
(* come between the two.                                                   *)
(***************************************************************************)

(* Operations that were closed, or have been followed by another.          *)
Settled(o) == \/ state[o] \in {"cancelled", "superseded"}
              \/ o \in Created /\ ~ IsLatest(o)

SettledStep ==
    \A o \in Ids : (Settled(o) /\ state'[o] # state[o]) =>
        state'[o] = "completed" /\ executions' # executions

(* The operation about to be resumed was not closed since it was checked.  *)
ResumeInv ==
    \A c \in Clients : At(c, "resume") =>
        state[turn[c].op] \in {"awaiting_user", "needs_continue", "completed"}

(* Only a completion changes it in between.                                *)
LEMMA ResumeKeeps ==
    ASSUME OneTurn, LatestInv, ResumeInv, [Next]_vars
    PROVE  ResumeInv'
<1> SUFFICES ASSUME NEW c \in Clients, turn'[c].pc = "resume"
             PROVE  state'[turn'[c].op] \in
                       {"awaiting_user", "needs_continue", "completed"}
  BY DEF ResumeInv, At
<1>1. /\ state \in [Ids -> States] /\ turn \in [Clients -> Turn]
      /\ \A d \in Clients : d = c
  BY DEF LatestInv, IInv, TypeOK, OneTurn
<1>2. ASSUME Client(c)
      PROVE  \E o \in Ids : GetForResume(c, o)
  BY <1>1, <1>2 DEF Client, SupersedeActive, Resume, Prepare, TurnFails,
       Create, Submit, FinishIfActive, Become, At, Idle
<1>3. CASE \E o \in Ids : GetForResume(c, o)
  <2>1. PICK o \in Ids : GetForResume(c, o)
    BY <1>3
  <2>2. turn'[c].op = o /\ state' = state /\ CanResume(state[o])
    BY <1>1, <2>1 DEF GetForResume, Become
  <2> QED
    BY <2>2 DEF CanResume
<1>4. CASE \E call \in sent : Complete(call)
  <2>1. PICK call \in sent : Complete(call)
    BY <1>4
  <2>2. turn' = turn /\ state' = [state EXCEPT ![call.op] = "completed"]
    BY <2>1 DEF Complete
  <2>3. turn[c].op \in Ids
    BY <2>2 DEF LatestInv, IInv
  <2> QED
    BY <1>1, <2>2, <2>3 DEF ResumeInv, At
<1>5. CASE UNCHANGED vars
  BY <1>5 DEF vars, ResumeInv, At
<1> QED
  BY <1>1, <1>2, <1>3, <1>4, <1>5 DEF Next

(* No step of a turn touches what is settled.                              *)
LEMMA SettledKeeps ==
    ASSUME OneTurn, LatestInv, ResumeInv, [Next]_vars
    PROVE  SettledStep
<1> SUFFICES ASSUME NEW o \in Ids, Settled(o), state'[o] # state[o]
             PROVE  state'[o] = "completed" /\ executions' # executions
  BY DEF SettledStep
<1>1. /\ state \in [Ids -> States] /\ IInv
      /\ \A p \in Ids : state[p] \in Active => IsLatest(p)
  BY DEF LatestInv, IInv, TypeOK, ActiveIsLatest
<1>2. state[o] \notin Active /\ state[o] # "none"
  BY <1>1 DEF Settled, Active, Created
<1>3. CASE \E call \in sent : Complete(call)
  <2>1. PICK call \in sent : Complete(call)
    BY <1>3
  <2> QED
    BY <1>1, <2>1, CompleteOK DEF Complete
<1>4. ASSUME NEW c \in Clients, Client(c)
      PROVE  FALSE
  <2>1. CASE Resume(c)
    <3>1. /\ At(c, "resume") /\ turn[c].op \in Ids /\ IsLatest(turn[c].op)
          /\ state' = [state EXCEPT ![turn[c].op] = "running"]
      BY <2>1 DEF Resume, At, LatestInv, IInv, TurnLatest
    <3>2. o = turn[c].op
      BY <1>1, <3>1
    <3>3. state[o] \in {"awaiting_user", "needs_continue", "completed"}
      BY <3>1, <3>2 DEF ResumeInv
    <3> QED
      BY <3>1, <3>2, <3>3 DEF Settled
  <2>2. CASE SupersedeActive(c)
    BY <1>1, <1>2, <2>2 DEF SupersedeActive
  <2>3. CASE \E p \in Ids : Create(c, p)
    BY <1>1, <1>2, <2>3 DEF Create
  <2>4. CASE \E terminal \in Terminals : FinishIfActive(c, terminal)
    <3>1. turn[c].op \in Ids
      BY <2>4 DEF FinishIfActive, At, LatestInv, IInv
    <3> QED
      BY <1>1, <1>2, <2>4, <3>1 DEF FinishIfActive
  <2> QED
    BY <1>4, <2>1, <2>2, <2>3, <2>4
    DEF Client, Prepare, TurnFails, GetForResume, Submit
<1> QED
  BY <1>3, <1>4 DEF Next, vars

(* With one turn at a time, an operation that was cancelled or superseded, *)
(* or that another has followed, never changes again, except that a        *)
(* completion its agent had sent is executed late: no turn reopens it and  *)
(* no ending turn overwrites its result.                                   *)
THEOREM SettledOperationsStay ==
    ASSUME OneTurn
    PROVE  Spec => [][SettledStep]_vars
<1>1. Init => ResumeInv
  BY DEF Init, ResumeInv, At, Idle
<1>2. LatestInv /\ ResumeInv /\ [Next]_vars => ResumeInv' /\ SettledStep
  BY ResumeKeeps, SettledKeeps
<1> QED
  BY <1>1, <1>2, LatestInductive, PTL DEF Spec
=============================================================================
