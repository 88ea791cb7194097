------------------------------ MODULE BotRuntime ------------------------------
(***************************************************************************)
(* The smart bots of ai-agent: rows an operator edits, and one worker per  *)
(* enabled channel that keeps a websocket to WeCom.  Every edit reloads    *)
(* the whole runtime: stop all workers, read the rows, start workers for   *)
(* the enabled ones.  The mutex of the runtime guards the table of workers *)
(* and not the reload, so reloads of two requests may interleave.          *)
(*                                                                         *)
(* A bot is taken with its one channel; a channel's names, secrets and     *)
(* capabilities are left out.                                              *)
(***************************************************************************)
EXTENDS Integers, FiniteSets

CONSTANTS
    Channels,
    Operators,              \* requests that edit bots
    Boot,                   \* the one that starts the runtime
    MaxWorkers,             \* bound on the workers ever started
    MaxEdits,               \* bound on the edits
    MaxBotFaults,           \* bound on failed reads and lost connections
    MaxReconnectAttempts    \* of the client's options; 0 for no limit

ASSUME BotAssumption ==
    /\ Boot \in Operators
    /\ "none" \notin Channels
    /\ {MaxWorkers, MaxEdits, MaxBotFaults, MaxReconnectAttempts} \subseteq Nat

VARIABLES
    bot,        \* rows of the bots
    edit,       \* the requests
    table,      \* AgentBotRuntime.workers
    worker,     \* the workers, by the order in which they were started
    root,       \* the runtime's context and AgentBotRuntime.Stop
    overlap,    \* two reloads, or a reload and Stop, have interleaved
    missed,     \* the last reload could not read the rows
    edits,
    botFaults

botVars == <<bot, edit, table, worker, root, overlap, missed, edits,
             botFaults>>

Workers == 1..MaxWorkers
NoWorker == 0

(* A bot whose row was saved after it was deleted has no channels.         *)
BotRow == {"absent", "enabled", "disabled", "bare"}

Edit == [pc : {"idle", "save", "reload", "stop", "start"},
         op : {"none", "status", "update"}, chan : Channels \cup {"none"},
         to : BotRow, old : SUBSET Workers, items : SUBSET Channels]

Idle == [pc |-> "idle", op |-> "none", chan |-> "none", to |-> "absent",
         old |-> {}, items |-> {}]

(* routine: the goroutine of startChannelWorker.  client: the run loop of  *)
(* the WeCom client.                                                       *)
WorkerState ==
    [chan : Channels \cup {"none"}, cancelled : BOOLEAN,
     routine : {"none", "start", "wait", "gone"},
     client : {"none", "loop", "up", "ended"},
     attempt : 0..MaxReconnectAttempts]

NotStarted == [chan |-> "none", cancelled |-> FALSE, routine |-> "none",
               client |-> "none", attempt |-> 0]

Runtime == [pc : {"boot", "up", "stop", "cancel", "wait", "down"}, live : BOOLEAN,
            old : SUBSET Workers]

(* Start has made the context and is about to reload.                      *)
BotInit ==
    /\ bot \in [Channels -> BotRow \ {"bare"}]
    /\ edit = [o \in Operators |->
                 IF o = Boot THEN [Idle EXCEPT !.pc = "reload"] ELSE Idle]
    /\ table = [c \in Channels |-> NoWorker]
    /\ worker = [w \in Workers |-> NotStarted]
    /\ root = [pc |-> "boot", live |-> TRUE, old |-> {}]
    /\ overlap = FALSE
    /\ missed = FALSE
    /\ edits = 0
    /\ botFaults = 0

-----------------------------------------------------------------------------
EditAt(o, pc) == edit[o].pc = pc
EditGoes(o, r) == edit' = [edit EXCEPT ![o] = r]

BotFault ==
    /\ botFaults < MaxBotFaults
    /\ botFaults' = botFaults + 1

Reloading(o) == edit[o].pc \in {"stop", "start"}
Tabled == {w \in Workers : \E c \in Channels : table[c] = w}

(* entry.stop: the worker's context is cancelled, and its client drops its *)
(* connection.                                                             *)
Stopped(W) ==
    [w \in Workers |-> IF w \in W THEN [worker[w] EXCEPT !.cancelled = TRUE]
                       ELSE worker[w]]

-----------------------------------------------------------------------------
(* AgentBotLogic.                                                          *)

Arrives(o) ==
    /\ EditAt(o, "idle")
    /\ root.pc # "boot"
    /\ edits < MaxEdits
    /\ edits' = edits + 1

CreateAgentBot(o, c, status) ==
    /\ Arrives(o)
    /\ bot[c] = "absent"
    /\ bot' = [bot EXCEPT ![c] = status]
    /\ EditGoes(o, [Idle EXCEPT !.pc = "reload"])
    /\ UNCHANGED <<table, worker, root, overlap, missed, botFaults>>

DeleteAgentBot(o, c) ==
    /\ Arrives(o)
    /\ bot[c] # "absent"
    /\ bot' = [bot EXCEPT ![c] = "absent"]
    /\ EditGoes(o, [Idle EXCEPT !.pc = "reload"])
    /\ UNCHANGED <<table, worker, root, overlap, missed, botFaults>>

(* UpdateAgentBot and setAgentBotStatus read the row first.                *)
GetAgentBot(o, c, op, status) ==
    /\ Arrives(o)
    /\ bot[c] # "absent"
    /\ EditGoes(o, [Idle EXCEPT !.pc = "save", !.op = op, !.chan = c,
                                !.to = status])
    /\ UNCHANGED <<bot, table, worker, root, overlap, missed, botFaults>>

(* Mutant of SaveAgentBot: the status is not normalised.                   *)
SaveAgentBotRaw(o) ==
    /\ EditAt(o, "save")
    /\ bot' = [bot EXCEPT ![edit[o].chan] = edit[o].op]
    /\ EditGoes(o, [Idle EXCEPT !.pc = "reload"])
    /\ UNCHANGED <<table, worker, root, overlap, missed, edits, botFaults>>

(* Save inserts the row again if it was deleted meanwhile; an update also  *)
(* writes the channels, a change of status does not.                       *)
SaveAgentBot(o) ==
    /\ EditAt(o, "save")
    /\ LET e == edit[o]
           bare == e.op = "status" /\ bot[e.chan] \in {"absent", "bare"}
       IN  bot' = [bot EXCEPT ![e.chan] = IF bare THEN "bare" ELSE e.to]
    /\ EditGoes(o, [Idle EXCEPT !.pc = "reload"])
    /\ UNCHANGED <<table, worker, root, overlap, missed, edits, botFaults>>

-----------------------------------------------------------------------------
(* AgentBotRuntime.Reload.                                                 *)

(* A runtime that is not started is not reloaded.                          *)
ReloadSkipped(o) ==
    /\ EditAt(o, "reload")
    /\ ~ root.live
    /\ EditGoes(o, Idle)
    /\ UNCHANGED <<bot, table, worker, root, overlap, missed, edits,
                   botFaults>>

(* stopWorkers swaps the table under the mutex and stops what it held.     *)
SwapWorkers(o) ==
    /\ EditAt(o, "reload")
    /\ root.live
    /\ EditGoes(o, [edit[o] EXCEPT !.pc = "stop", !.old = Tabled])
    /\ table' = [c \in Channels |-> NoWorker]
    /\ overlap' = (\/ overlap \/ root.pc = "stop"
                   \/ \E p \in Operators : Reloading(p))
    /\ UNCHANGED <<bot, worker, root, missed, edits, botFaults>>

StopWorker(o, w) ==
    /\ EditAt(o, "stop")
    /\ w \in edit[o].old
    /\ worker' = Stopped({w})
    /\ EditGoes(o, [edit[o] EXCEPT !.old = @ \ {w}])
    /\ UNCHANGED <<bot, table, root, overlap, missed, edits, botFaults>>

(* Mutant of ListEnabled: the status is not looked at.                     *)
ListAll(o) ==
    /\ EditAt(o, "stop")
    /\ edit[o].old = {}
    /\ EditGoes(o, [edit[o] EXCEPT !.pc = "start",
                      !.items = {c \in Channels : bot[c] # "absent"}])
    /\ missed' = FALSE
    /\ UNCHANGED <<bot, table, worker, root, overlap, edits, botFaults>>

ListEnabled(o) ==
    /\ EditAt(o, "stop")
    /\ edit[o].old = {}
    /\ EditGoes(o, [edit[o] EXCEPT !.pc = "start",
                      !.items = {c \in Channels : bot[c] = "enabled"}])
    /\ missed' = FALSE
    /\ UNCHANGED <<bot, table, worker, root, overlap, edits, botFaults>>

(* The read fails after everything was stopped, and reloadRuntime drops    *)
(* the error; at start the process panics.                                 *)
ListFails(o) ==
    /\ BotFault
    /\ root.pc # "boot"
    /\ EditAt(o, "stop")
    /\ edit[o].old = {}
    /\ EditGoes(o, Idle)
    /\ missed' = TRUE
    /\ UNCHANGED <<bot, table, worker, root, overlap, edits>>

Fresh(w) ==
    /\ worker[w].routine = "none"
    /\ \A v \in Workers : v < w => worker[v].routine # "none"

(* startChannelWorker: the context of the runtime is read first, the       *)
(* worker's is derived from it after; in between the runtime may stop.     *)
StartChannelWorker(o, c, w) ==
    /\ EditAt(o, "start")
    /\ c \in edit[o].items
    /\ Fresh(w)
    /\ worker' = [worker EXCEPT ![w] = [NotStarted EXCEPT !.chan = c,
                     !.cancelled = ~ root.live, !.routine = "start"]]
    /\ table' = [table EXCEPT ![c] = w]
    /\ EditGoes(o, [edit[o] EXCEPT !.items = @ \ {c}])
    /\ UNCHANGED <<bot, root, overlap, missed, edits, botFaults>>

NoRuntimeContext(o, c) ==
    /\ EditAt(o, "start")
    /\ c \in edit[o].items
    /\ ~ root.live
    /\ EditGoes(o, [edit[o] EXCEPT !.items = @ \ {c}])
    /\ UNCHANGED <<bot, table, worker, root, overlap, missed, edits,
                   botFaults>>

ReloadDone(o) ==
    /\ EditAt(o, "start")
    /\ edit[o].items = {}
    /\ EditGoes(o, Idle)
    /\ root' = [root EXCEPT !.pc = IF @ = "boot" THEN "up" ELSE @]
    /\ UNCHANGED <<bot, table, worker, overlap, missed, edits, botFaults>>

-----------------------------------------------------------------------------
(* A worker.                                                               *)

WorkerGoes(w, r) == worker' = [worker EXCEPT ![w] = r]

(* Client.Start: the run loop is spawned also when a stop came first, and  *)
(* finds its context cancelled then.                                       *)
ClientStart(w) ==
    /\ worker[w].routine = "start"
    /\ WorkerGoes(w, [worker[w] EXCEPT !.routine = "wait", !.client = "loop"])
    /\ UNCHANGED <<bot, edit, table, root, overlap, missed, edits, botFaults>>

(* Mutant of DeleteWorker: whatever is in the table goes.                  *)
DeleteAnyWorker(w) ==
    /\ worker[w].routine = "wait"
    /\ worker[w].cancelled
    /\ WorkerGoes(w, [worker[w] EXCEPT !.routine = "gone"])
    /\ table' = [table EXCEPT ![worker[w].chan] = NoWorker]
    /\ UNCHANGED <<bot, edit, root, overlap, missed, edits, botFaults>>

(* The goroutine ends and takes its own entry out of the table.            *)
DeleteWorker(w) ==
    /\ worker[w].routine = "wait"
    /\ worker[w].cancelled
    /\ WorkerGoes(w, [worker[w] EXCEPT !.routine = "gone"])
    /\ table' = [table EXCEPT ![worker[w].chan] = IF @ = w THEN NoWorker ELSE @]
    /\ UNCHANGED <<bot, edit, root, overlap, missed, edits, botFaults>>

GivesUp(w) == MaxReconnectAttempts > 0 /\ worker[w].attempt = MaxReconnectAttempts

NextAttempt(w) == IF MaxReconnectAttempts > 0 THEN worker[w].attempt + 1 ELSE 0

(* connectAndServe: a dial that began before a stop may end after it.      *)
Connect(w) ==
    /\ worker[w].client = "loop"
    /\ ~ GivesUp(w)
    /\ WorkerGoes(w, [worker[w] EXCEPT !.client = "up", !.attempt = NextAttempt(w)])
    /\ UNCHANGED <<bot, edit, table, root, overlap, missed, edits, botFaults>>

(* The dial fails or the connection is lost: the loop waits and dials      *)
(* again.  The count of attempts is never reset.                           *)
ConnectionFails(w) ==
    /\ BotFault
    /\ worker[w].client \in {"loop", "up"}
    /\ worker[w].client = "loop" => ~ GivesUp(w)
    /\ WorkerGoes(w, [worker[w] EXCEPT !.client = "loop",
                        !.attempt = IF worker[w].client = "up" THEN @
                                    ELSE NextAttempt(w)])
    /\ UNCHANGED <<bot, edit, table, root, overlap, missed, edits>>

ClientEnds(w) ==
    /\ \/ worker[w].client \in {"loop", "up"} /\ worker[w].cancelled
       \/ worker[w].client = "loop" /\ GivesUp(w)
    /\ WorkerGoes(w, [worker[w] EXCEPT !.client = "ended"])
    /\ UNCHANGED <<bot, edit, table, root, overlap, missed, edits, botFaults>>

-----------------------------------------------------------------------------
(* AgentBotRuntime.Stop.                                                   *)

RuntimeStop ==
    /\ root.pc = "up"
    /\ root' = [root EXCEPT !.pc = "stop", !.old = Tabled]
    /\ table' = [c \in Channels |-> NoWorker]
    /\ overlap' = (overlap \/ \E p \in Operators : Reloading(p))
    /\ UNCHANGED <<bot, edit, worker, missed, edits, botFaults>>

RuntimeStopsWorker(w) ==
    /\ root.pc = "stop"
    /\ w \in root.old
    /\ worker' = Stopped({w})
    /\ root' = [root EXCEPT !.old = @ \ {w}]
    /\ UNCHANGED <<bot, edit, table, overlap, missed, edits, botFaults>>

(* Mutant of RuntimeCancel: the workers of the table were all there are.   *)
RuntimeForgets ==
    /\ root.pc = "stop"
    /\ root.old = {}
    /\ root' = [root EXCEPT !.pc = "wait", !.live = FALSE]
    /\ UNCHANGED <<bot, edit, table, worker, overlap, missed, edits, botFaults>>

(* The root context ends the contexts of all workers.                      *)
RuntimeCancel ==
    /\ root.pc = "stop"
    /\ root.old = {}
    /\ root' = [root EXCEPT !.pc = "wait", !.live = FALSE]
    /\ worker' = Stopped({w \in Workers : worker[w].routine # "none"})
    /\ UNCHANGED <<bot, edit, table, overlap, missed, edits, botFaults>>

(* wg.Wait returns when no worker's goroutine runs.                        *)
RuntimeDown ==
    /\ root.pc = "wait"
    /\ \A w \in Workers : worker[w].routine \in {"none", "gone"}
    /\ root' = [root EXCEPT !.pc = "down"]
    /\ UNCHANGED <<bot, edit, table, worker, overlap, missed, edits, botFaults>>

-----------------------------------------------------------------------------
BotNext ==
    \/ \E o \in Operators, c \in Channels :
          \/ \E status \in {"enabled", "disabled"} :
                \/ CreateAgentBot(o, c, status)
                \/ \E op \in {"status", "update"} : GetAgentBot(o, c, op, status)
          \/ DeleteAgentBot(o, c)
          \/ NoRuntimeContext(o, c)
          \/ \E w \in Workers : StartChannelWorker(o, c, w)
    \/ \E o \in Operators :
          \/ SaveAgentBot(o) \/ ReloadSkipped(o) \/ SwapWorkers(o)
          \/ ListEnabled(o) \/ ListFails(o) \/ ReloadDone(o)
          \/ \E w \in Workers : StopWorker(o, w)
    \/ \E w \in Workers :
          \/ ClientStart(w) \/ DeleteWorker(w)
          \/ Connect(w) \/ ConnectionFails(w) \/ ClientEnds(w)
          \/ RuntimeStopsWorker(w)
    \/ RuntimeStop \/ RuntimeCancel \/ RuntimeDown

BotSpec == BotInit /\ [][BotNext]_botVars

-----------------------------------------------------------------------------
(***************************************************************************)
(* Properties.                                                             *)
(***************************************************************************)

(* Rows, requests, workers and runtime keep their shape.                   *)
BotTypeOK ==
    /\ bot \in [Channels -> BotRow]
    /\ edit \in [Operators -> Edit]
    /\ table \in [Channels -> Workers \cup {NoWorker}]
    /\ worker \in [Workers -> WorkerState]
    /\ root \in Runtime
    /\ overlap \in BOOLEAN /\ missed \in BOOLEAN
    /\ edits \in 0..MaxEdits
    /\ botFaults \in 0..MaxBotFaults

Running(c) == {w \in Workers : worker[w].chan = c /\ ~ worker[w].cancelled}

(* A channel has one running worker at most, and the table knows it, as    *)
(* long as reloads do not interleave: a worker that ends late must not     *)
(* take its successor's entry away, or the next reload would leave that    *)
(* one running and WeCom would see the bot twice.                          *)
NoDuplicateWorker ==
    ~ overlap =>
        \A c \in Channels : Cardinality(Running(c)) <= 1

(* When no request is under way, the running workers are those of the      *)
(* enabled bots, each in the table: however edits, late goroutines and     *)
(* saves of rows read before a delete fall, if reloads did not interleave  *)
(* and the last one could read the rows.                                   *)
SettledWorkers ==
    (/\ ~ overlap /\ ~ missed /\ root.pc = "up"
     /\ \A o \in Operators : EditAt(o, "idle"))
    => \A c \in Channels :
          Running(c) = IF bot[c] = "enabled" THEN {table[c]} ELSE {}

(* Once Stop has cancelled the context of the runtime nothing runs on,     *)
(* not even a worker that interleaved reloads had dropped from the table   *)
(* or one that a late reload starts after.                                 *)
StopCancelsAll ==
    ~ root.live => \A c \in Channels : Running(c) = {}
=============================================================================
