------------------------- MODULE ConversationOperation -------------------------
(***************************************************************************)
(* The operations of one conversation of a function: what one user asked   *)
(* for, from the request to its completion.                                *)
(*                                                                         *)
(* A turn starts a new operation or resumes one (func-operation), is       *)
(* admitted by the agent runtime (ai-agent), runs, and ends with a         *)
(* terminal status.  While it runs the agent may call the completion tool; *)
(* the call carries on when the turn is cancelled, so it may arrive at any *)
(* later time and more than once.                                          *)
(***************************************************************************)
EXTENDS Integers, FiniteSets

CONSTANTS
    Clients,        \* turns that may be under way at the same time
    MaxOps,         \* bound on operations
    Tools,          \* tool use ids the agents' calls may carry
    None

ASSUME OperationAssumption ==
    /\ MaxOps \in Nat
    /\ None \notin Nat

VARIABLES
    state,          \* the state of each operation
    executions,     \* completion calls that were executed
    sent,           \* completion calls that agents made
    turn            \* turns under way

vars == <<state, executions, sent, turn>>

Ids == 1..MaxOps

Active == {"running", "awaiting_user", "needs_continue", "blocked"}

States == Active \cup {"none", "completed", "cancelled", "superseded"}

Terminals == {"normal", "max_turns", "cancelled", "error"}

Call == [tool : Tools, op : Ids]

Turn == [pc : {"idle", "create", "resume", "ready", "run"},
         op : Ids \cup {None}]

Idle == [pc |-> "idle", op |-> None]

Init ==
    /\ state = [o \in Ids |-> "none"]
    /\ executions = {}
    /\ sent = {}
    /\ turn = [c \in Clients |-> Idle]

Created == {o \in Ids : state[o] # "none"}

IsLatest(o) == o \in Created /\ \A p \in Created : p <= o

At(c, pc) == turn[c].pc = pc

Become(c, pc, o) == turn' = [turn EXCEPT ![c] = [pc |-> pc, op |-> o]]

-----------------------------------------------------------------------------
(* Start without an operation id: supersede what is active, then create.   *)

(* Mutant: a blocked operation is taken for closed.                        *)
SupersedeUnblocked(c) ==
    /\ At(c, "idle")
    /\ state' = [o \in Ids |-> IF state[o] \in Active \ {"blocked"}
                               THEN "superseded" ELSE state[o]]
    /\ Become(c, "create", None)
    /\ UNCHANGED <<executions, sent>>

SupersedeActive(c) ==
    /\ At(c, "idle")
    /\ state' = [o \in Ids |-> IF state[o] \in Active
                               THEN "superseded" ELSE state[o]]
    /\ Become(c, "create", None)
    /\ UNCHANGED <<executions, sent>>

(* Mutant: an operation starts in a state of its own.                      *)
CreatePending(c, o) ==
    /\ At(c, "create")
    /\ state[o] = "none" /\ \A p \in Ids : p < o => p \in Created
    /\ state' = [state EXCEPT ![o] = "pending"]
    /\ Become(c, "ready", o)
    /\ UNCHANGED <<executions, sent>>

Create(c, o) ==
    /\ At(c, "create")
    /\ state[o] = "none" /\ \A p \in Ids : p < o => p \in Created
    /\ state' = [state EXCEPT ![o] = "running"]
    /\ Become(c, "ready", o)
    /\ UNCHANGED <<executions, sent>>

(* Start with an operation id: check that it may be resumed, then resume.  *)
CanResume(s) == s \in {"awaiting_user", "needs_continue"}

GetForResume(c, o) ==
    /\ At(c, "idle")
    /\ CanResume(state[o])
    /\ Become(c, "resume", o)
    /\ UNCHANGED <<state, executions, sent>>

Resume(c) ==
    /\ At(c, "resume")
    /\ state' = [state EXCEPT ![turn[c].op] = "running"]
    /\ Become(c, "ready", turn[c].op)
    /\ UNCHANGED <<executions, sent>>

(* The agent runtime admits the latest operation only, while it runs.      *)
Prepare(c) ==
    /\ At(c, "ready")
    /\ IsLatest(turn[c].op) /\ state[turn[c].op] = "running"
    /\ Become(c, "run", turn[c].op)
    /\ UNCHANGED <<state, executions, sent>>

(* The agent calls the completion tool.                                    *)
Submit(c, t) ==
    /\ At(c, "run")
    /\ \A call \in sent : call.tool # t
    /\ sent' = sent \cup {[tool |-> t, op |-> turn[c].op]}
    /\ UNCHANGED <<state, executions, turn>>

(* Mutant: a repeated call is executed again.                              *)
CompleteAgain(call) ==
    /\ executions' = executions \cup {call}
    /\ state' = [state EXCEPT ![call.op] = "completed"]
    /\ UNCHANGED <<sent, turn>>

(* SubmitProgress.  The first delivery of a call completes its operation   *)
(* in whatever state it is; later ones find the execution and change       *)
(* nothing.                                                                *)
Complete(call) ==
    /\ \A e \in executions : e.tool # call.tool
    /\ executions' = executions \cup {call}
    /\ state' = [state EXCEPT ![call.op] = "completed"]
    /\ UNCHANGED <<sent, turn>>

(* Mutant: a turn that ends normally has completed its operation.          *)
NormalCompletes(terminal) ==
    [max_turns |-> "needs_continue", cancelled |-> "cancelled",
     error |-> "blocked", normal |-> "completed"][terminal]

ConversationStateForTerminal(terminal) ==
    [max_turns |-> "needs_continue", cancelled |-> "cancelled",
     error |-> "blocked", normal |-> "awaiting_user"][terminal]

(* Finish, at the end of the turn.                                         *)
FinishIfActive(c, terminal) ==
    LET o == turn[c].op IN
    /\ At(c, "run")
    /\ state' = IF state[o] \in Active
                THEN [state EXCEPT ![o] = ConversationStateForTerminal(terminal)]
                ELSE state
    /\ turn' = [turn EXCEPT ![c] = Idle]
    /\ UNCHANGED <<executions, sent>>

(* The turn is refused by Prepare, a call fails, or the process dies.      *)
TurnFails(c) ==
    /\ ~ At(c, "idle")
    /\ turn' = [turn EXCEPT ![c] = Idle]
    /\ UNCHANGED <<state, executions, sent>>

-----------------------------------------------------------------------------
Client(c) ==
    \/ SupersedeActive(c) \/ Resume(c) \/ Prepare(c) \/ TurnFails(c)
    \/ \E o \in Ids : Create(c, o) \/ GetForResume(c, o)
    \/ \E t \in Tools : Submit(c, t)
    \/ \E terminal \in Terminals : FinishIfActive(c, terminal)

Next == (\E c \in Clients : Client(c)) \/ (\E call \in sent : Complete(call))

Spec == Init /\ [][Next]_vars

-----------------------------------------------------------------------------
(***************************************************************************)
(* Properties.                                                             *)
(***************************************************************************)

(* Operations, calls and turns keep their types.                           *)
TypeOK ==
    /\ state \in [Ids -> States]
    /\ executions \subseteq Call
    /\ sent \subseteq Call
    /\ turn \in [Clients -> Turn]

(* Only the completion tool completes an operation: however turns end, are  *)
(* resumed, cancelled or superseded, a completed operation has an executed  *)
(* call of its own agent behind it.                                         *)
CompletedHasExecution ==
    \A o \in Ids : state[o] = "completed" =>
        \E e \in executions : e.op = o /\ e \in sent

(* With one turn at a time, an operation that could still receive messages  *)
(* is the one that Prepare admits, through crashes and late completions:    *)
(* nothing older stays open for ever.                                       *)
ActiveIsLatest ==
    \A o \in Ids : state[o] \in Active => IsLatest(o)

(* A redelivered completion call never closes an operation that a user has  *)
(* reopened in the meantime: each completion is a new execution.            *)
CompletionIsNew ==
    [][\A o \in Ids : (state[o] # "completed" /\ state'[o] = "completed") =>
          executions' # executions]_vars

-----------------------------------------------------------------------------
(* Stronger statements that do not hold: the README names the races that   *)
(* break them.  No run asserts them.                                       *)

(* A completed operation stays completed.                                   *)
CompletedIsFinal ==
    [][\A o \in Ids : state[o] = "completed" => state'[o] = "completed"]_vars

(* An operation that was cancelled or superseded is no longer completed.    *)
ClosedStaysClosed ==
    [][\A o \in Ids : state[o] \in {"cancelled", "superseded"} =>
          state'[o] = state[o]]_vars
=============================================================================
