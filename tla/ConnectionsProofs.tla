-------------------------- MODULE ConnectionsProofs --------------------------
(***************************************************************************)
(* What the sockets of browsers and the workers of bots promise, for any   *)
(* number of tabs, users, sockets, events, channels, workers and requests. *)
(*                                                                         *)
(* NoGap needs to know, of a tab that has no socket or one that is being   *)
(* set up, that all it still misses follows in the history after the last  *)
(* event it received.  That rests on OneUp (a tab has one socket that is   *)
(* not broken), on Exclusive (a connection object carries one socket, and  *)
(* a writer whose socket is gone is closed), and on the history being the  *)
(* last thing the subscriber wrote before it looked for the writers.       *)
(*                                                                         *)
(* The properties of the workers rest on one list of where a running       *)
(* worker is known: in the table, or among those a reload, or the stop of  *)
(* the runtime, has taken out of it and is about to stop.                  *)
(***************************************************************************)
EXTENDS MCConnections, TLAPS, FiniteSetTheorems, SequenceTheorems,
        NaturalsInduction, WellFoundedInduction

(***************************************************************************)
(* Workers of bots.                                                        *)
(***************************************************************************)

Runs(w) == worker[w].routine # "none" /\ ~ worker[w].cancelled

(* A worker that was started is one of a channel.                          *)
StartedHasChannel ==
    \A w \in Workers :
        IF worker[w].routine = "none" THEN worker[w].chan = "none"
        ELSE worker[w].chan \in Channels

(* The context of the runtime is gone only after its Stop.                 *)
LiveUntilStopped ==
    /\ root.pc \in {"boot", "up", "stop"} <=> root.live
    /\ ~ root.live => \A w \in Workers : ~ Runs(w)

(* One reload at a time, and none while the runtime stops.                 *)
Alone ==
    /\ \A o, p \in Operators : Reloading(o) /\ Reloading(p) => o = p
    /\ \A o \in Operators : Reloading(o) => root.pc \in {"boot", "up"}

(* Where a running worker is known.                                        *)
Known ==
    \A w \in Workers : Runs(w) =>
        \/ table[worker[w].chan] = w
        \/ \E o \in Operators : EditAt(o, "stop") /\ w \in edit[o].old
        \/ root.pc = "stop" /\ w \in root.old

(* Who stops workers has emptied the table; who starts one for a channel   *)
(* finds none there.                                                       *)
Emptied ==
    /\ \A o \in Operators : EditAt(o, "stop") => \A c \in Channels : table[c] = NoWorker
    /\ root.pc = "stop" => \A c \in Channels : table[c] = NoWorker
    /\ \A o \in Operators : EditAt(o, "start") =>
           \A c \in edit[o].items : table[c] = NoWorker

OneEach ==
    \A v, w \in Workers :
        Runs(v) /\ Runs(w) /\ worker[v].chan = worker[w].chan => v = w

(* Once the last reload has read the rows: what runs and what is still to  *)
(* be started are the enabled bots.                                        *)
ToStart(c) == \E o \in Operators : EditAt(o, "start") /\ c \in edit[o].items

ReadLast ==
    /\ ~ missed
    /\ root.pc \in {"boot", "up"}
    /\ \A o \in Operators : ~ EditAt(o, "reload") /\ ~ EditAt(o, "stop")

RowsRun ==
    ReadLast => \A c \in Channels :
        /\ ToStart(c) => bot[c] = "enabled"
        /\ \A w \in Workers :
              (Runs(w) /\ worker[w].chan = c) <=>
                  (bot[c] = "enabled" /\ ~ ToStart(c) /\ table[c] = w)
        /\ bot[c] = "enabled" /\ ~ ToStart(c) => table[c] # NoWorker

BotInv ==
    /\ BotTypeOK
    /\ StartedHasChannel
    /\ LiveUntilStopped
    /\ ~ overlap => Alone /\ Known /\ Emptied /\ OneEach /\ RowsRun

-----------------------------------------------------------------------------
(* Steps of requests outside a reload.                                     *)

LEMMA BotFacts ==
    ASSUME BotInv
    PROVE  /\ BotTypeOK /\ StartedHasChannel /\ LiveUntilStopped
           /\ Idle \in Edit /\ NotStarted \in WorkerState
           /\ {MaxWorkers, MaxEdits, MaxBotFaults, MaxReconnectAttempts} \subseteq Nat
<1>1. Idle \in Edit
  BY DEF Idle, Edit, BotRow
<1>2. NotStarted \in WorkerState
  BY BotAssumption DEF NotStarted, WorkerState
<1> QED BY <1>1, <1>2, BotAssumption DEF BotInv

LEMMA RequestKeeps ==
    ASSUME BotInv, NEW o \in Operators, NEW r \in Edit, EditGoes(o, r),
           edit[o].pc \in {"idle", "save", "reload"},
           r.pc \in {"idle", "save", "reload"},
           UNCHANGED <<table, worker, root, overlap, missed, botFaults>>,
           bot' \in [Channels -> BotRow], edits' \in 0..MaxEdits,
           \/ r.pc = "reload"
           \/ bot' = bot /\ (edit[o].pc # "reload" \/ ~ root.live)
    PROVE  BotInv'
<1>1. /\ edit' \in [Operators -> Edit]
      /\ \A p \in Operators : edit'[p] = IF p = o THEN r ELSE edit[p]
  BY DEF EditGoes, BotInv, BotTypeOK
<1>2. BotTypeOK' /\ StartedHasChannel' /\ LiveUntilStopped'
  BY <1>1 DEF BotInv, BotTypeOK, StartedHasChannel, LiveUntilStopped, Runs
<1>3. \A p \in Operators :
          /\ EditAt(p, "stop")' <=> EditAt(p, "stop")
          /\ EditAt(p, "start")' <=> EditAt(p, "start")
          /\ Reloading(p)' <=> Reloading(p)
          /\ Reloading(p) => edit'[p] = edit[p]
  BY <1>1 DEF EditAt, Reloading
<1>4. ASSUME ~ overlap'
      PROVE  Alone' /\ Known' /\ Emptied' /\ OneEach' /\ RowsRun'
  <2>1. Alone /\ Known /\ Emptied /\ OneEach /\ RowsRun
    BY <1>4 DEF BotInv
  <2>2. \A w \in Workers : Runs(w)' <=> Runs(w)
    BY DEF Runs
  <2>3. Alone'
    BY <1>3, <2>1 DEF Alone
  <2>4. Known'
    BY <1>3, <2>1, <2>2 DEF Known, EditAt, Reloading
  <2>5. Emptied'
    BY <1>3, <2>1 DEF Emptied, EditAt, Reloading
  <2>6. OneEach'
    BY <2>1, <2>2 DEF OneEach
  <2>7. CASE r.pc = "reload"
    BY <1>1, <2>7, <2>3, <2>4, <2>5, <2>6 DEF RowsRun, ReadLast, EditAt
  <2>8. CASE bot' = bot /\ (edit[o].pc # "reload" \/ ~ root.live)
    <3>1. ReadLast' => ReadLast
      BY <1>1, <2>8, BotFacts DEF ReadLast, EditAt, LiveUntilStopped
    <3>2. \A c \in Channels : ToStart(c)' <=> ToStart(c)
      BY <1>3 DEF ToStart, EditAt, Reloading
    <3>3. RowsRun'
      BY <2>1, <2>2, <2>8, <3>1, <3>2 DEF RowsRun
    <3> QED BY <2>3, <2>4, <2>5, <2>6, <3>3
  <2> QED BY <2>7, <2>8
<1> QED BY <1>2, <1>4 DEF BotInv

LEMMA EditKeeps ==
    ASSUME BotInv, NEW o \in Operators,
           \/ \E c \in Channels, status \in {"enabled", "disabled"} :
                 \/ CreateAgentBot(o, c, status)
                 \/ \E op \in {"status", "update"} : GetAgentBot(o, c, op, status)
           \/ \E c \in Channels : DeleteAgentBot(o, c)
           \/ SaveAgentBot(o) \/ ReloadSkipped(o)
    PROVE  BotInv'
<1> DEFINE again == [Idle EXCEPT !.pc = "reload"]
<1>1. again \in Edit /\ again.pc = "reload" /\ Idle.pc = "idle"
  BY DEF Idle, Edit, BotRow
<1> HIDE DEF again
<1>2. bot \in [Channels -> BotRow] /\ edit[o] \in Edit /\ edits \in 0..MaxEdits
  BY DEF BotInv, BotTypeOK
<1>3. Arrives(o) => edit[o].pc = "idle" /\ edits' \in 0..MaxEdits
  BY <1>2, BotFacts DEF Arrives, EditAt
<1>4. ASSUME NEW c \in Channels, NEW status \in {"enabled", "disabled"},
             CreateAgentBot(o, c, status)
      PROVE  BotInv'
  <2>1. bot' \in [Channels -> BotRow]
    BY <1>2, <1>4 DEF CreateAgentBot, BotRow
  <2> QED BY <1>1, <1>3, <1>4, <2>1, RequestKeeps DEF CreateAgentBot, again
<1>5. ASSUME NEW c \in Channels, DeleteAgentBot(o, c)
      PROVE  BotInv'
  <2>1. bot' \in [Channels -> BotRow]
    BY <1>2, <1>5 DEF DeleteAgentBot, BotRow
  <2> QED BY <1>1, <1>3, <1>5, <2>1, RequestKeeps DEF DeleteAgentBot, again
<1>6. ASSUME NEW c \in Channels, NEW status \in {"enabled", "disabled"},
             NEW op \in {"status", "update"}, GetAgentBot(o, c, op, status)
      PROVE  BotInv'
  <2> DEFINE r == [Idle EXCEPT !.pc = "save", !.op = op, !.chan = c, !.to = status]
  <2>1. r \in Edit /\ r.pc = "save"
    BY DEF Idle, Edit, BotRow
  <2>2. /\ Arrives(o) /\ EditGoes(o, r)
        /\ UNCHANGED <<bot, table, worker, root, overlap, missed, botFaults>>
    BY <1>6 DEF GetAgentBot
  <2> HIDE DEF r
  <2> QED BY <1>2, <1>3, <2>1, <2>2, RequestKeeps
<1>7. CASE SaveAgentBot(o)
  <2>1. bot' \in [Channels -> BotRow]
    BY <1>2, <1>7 DEF SaveAgentBot, BotRow, Edit
  <2> QED BY <1>1, <1>2, <1>7, <2>1, RequestKeeps DEF SaveAgentBot, EditAt, again
<1>8. CASE ReloadSkipped(o)
  BY <1>1, <1>2, <1>8, BotFacts, RequestKeeps DEF ReloadSkipped, EditAt
<1> QED BY <1>4, <1>5, <1>6, <1>7, <1>8

-----------------------------------------------------------------------------
(* Steps of a reload.                                                      *)

(* What a reload knows that no other interleaves with.                     *)
LEMMA ReloadFacts ==
    ASSUME BotInv, ~ overlap, NEW o \in Operators, Reloading(o)
    PROVE  /\ root.pc \in {"boot", "up"} /\ root.live
           /\ \A p \in Operators : p # o => ~ EditAt(p, "stop") /\ ~ EditAt(p, "start")
           /\ \A w \in Workers : Runs(w) =>
                 \/ table[worker[w].chan] = w
                 \/ EditAt(o, "stop") /\ w \in edit[o].old
           /\ \A w \in Workers : Runs(w) => worker[w].chan \in Channels
           /\ Known /\ Emptied /\ OneEach /\ RowsRun
<1>1. Alone /\ Known /\ Emptied /\ OneEach /\ RowsRun
  BY DEF BotInv
<1>2. root.pc \in {"boot", "up"}
  BY <1>1 DEF Alone
<1>3. \A p \in Operators : p # o => ~ EditAt(p, "stop") /\ ~ EditAt(p, "start")
  BY <1>1 DEF Alone, Reloading, EditAt
<1>4. root.live
  BY <1>2 DEF BotInv, LiveUntilStopped
<1>5. \A w \in Workers : Runs(w) =>
                 \/ table[worker[w].chan] = w
                 \/ EditAt(o, "stop") /\ w \in edit[o].old
  BY <1>1, <1>2, <1>3 DEF Known
<1>6. \A w \in Workers : Runs(w) => worker[w].chan \in Channels
  BY DEF BotInv, StartedHasChannel, Runs
<1> QED BY <1>1, <1>2, <1>3, <1>4, <1>5, <1>6

(* No worker runs that is not in the table when a reload has stopped all.  *)
LEMMA AllStopped ==
    ASSUME BotInv, ~ overlap, NEW o \in Operators, EditAt(o, "stop"), edit[o].old = {}
    PROVE  \A w \in Workers : ~ Runs(w)
<1>1. Reloading(o)
  BY DEF Reloading, EditAt
<1>2. \A c \in Channels : table[c] = NoWorker
  BY <1>1, ReloadFacts DEF Emptied
<1>3. \A w \in Workers : w # NoWorker
  BY BotAssumption DEF Workers, NoWorker
<1> QED BY <1>1, <1>2, <1>3, ReloadFacts

LEMMA SwapKeeps ==
    ASSUME BotInv, NEW o \in Operators, SwapWorkers(o)
    PROVE  BotInv'
<1> DEFINE r == [edit[o] EXCEPT !.pc = "stop", !.old = Tabled]
<1>1. /\ edit[o].pc = "reload" /\ root.live /\ EditGoes(o, r)
      /\ table' = [c \in Channels |-> NoWorker]
      /\ overlap' = (\/ overlap \/ root.pc = "stop"
                     \/ \E p \in Operators : Reloading(p))
      /\ UNCHANGED <<bot, worker, root, missed, edits, botFaults>>
  BY DEF SwapWorkers, EditAt
<1>2. edit[o] \in Edit
  BY BotFacts DEF BotTypeOK
<1>3. r \in Edit /\ r.pc = "stop" /\ r.old = Tabled
  BY <1>2 DEF Edit, Tabled
<1> HIDE DEF r
<1>4. /\ edit' \in [Operators -> Edit]
      /\ \A p \in Operators : edit'[p] = IF p = o THEN r ELSE edit[p]
  BY <1>1, <1>3, BotFacts DEF EditGoes, BotTypeOK
<1>5. overlap' \in BOOLEAN
  BY <1>1, BotFacts DEF BotTypeOK
<1>6. BotTypeOK' /\ StartedHasChannel' /\ LiveUntilStopped'
  BY <1>1, <1>4, <1>5, BotFacts DEF BotTypeOK, StartedHasChannel, LiveUntilStopped, Runs,
                                    NoWorker
<1>7. ASSUME ~ overlap'
      PROVE  Alone' /\ Known' /\ Emptied' /\ OneEach' /\ RowsRun'
  <2>1. /\ ~ overlap /\ root.pc \in {"boot", "up"}
        /\ \A p \in Operators : ~ EditAt(p, "stop") /\ ~ EditAt(p, "start")
    BY <1>1, <1>7, BotFacts DEF LiveUntilStopped, Reloading, EditAt, BotTypeOK, Runtime
  <2>2. Known /\ OneEach
    BY <2>1 DEF BotInv
  <2>3. \A w \in Workers : Runs(w)' <=> Runs(w)
    BY <1>1 DEF Runs
  <2>4. Alone'
    BY <1>1, <1>3, <1>4, <2>1 DEF Alone, Reloading, EditAt
  <2>5. \A w \in Workers : Runs(w) => w \in Tabled
    BY <2>1, <2>2, BotFacts DEF Known, Tabled, StartedHasChannel, Runs
  <2>6. Known'
    BY <1>3, <1>4, <2>3, <2>5 DEF Known, EditAt
  <2>7. Emptied'
    BY <1>1, <1>3, <1>4, <2>1 DEF Emptied, EditAt
  <2>8. OneEach'
    BY <1>1, <2>2, <2>3 DEF OneEach
  <2>9. RowsRun'
    BY <1>3, <1>4 DEF RowsRun, ReadLast, EditAt
  <2> QED BY <2>4, <2>6, <2>7, <2>8, <2>9
<1> QED BY <1>6, <1>7 DEF BotInv

(* What stopping workers does to them.                                     *)
LEMMA StoppedWorkers ==
    ASSUME BotTypeOK, StartedHasChannel, NEW W \in SUBSET Workers, worker' = Stopped(W)
    PROVE  /\ worker' \in [Workers -> WorkerState]
           /\ StartedHasChannel'
           /\ \A w \in Workers : /\ worker'[w].chan = worker[w].chan
                                 /\ worker'[w].routine = worker[w].routine
                                 /\ Runs(w)' <=> Runs(w) /\ w \notin W
<1>1. \A w \in Workers :
         /\ worker'[w] = IF w \in W THEN [worker[w] EXCEPT !.cancelled = TRUE]
                         ELSE worker[w]
         /\ worker[w] \in WorkerState
  BY DEF Stopped, BotTypeOK
<1>2. \A w \in Workers :
         /\ worker'[w] \in WorkerState
         /\ worker'[w].chan = worker[w].chan
         /\ worker'[w].routine = worker[w].routine
         /\ worker'[w].cancelled <=> worker[w].cancelled \/ w \in W
  <2> TAKE w \in Workers
  <2>1. CASE w \in W
    <3>1. worker'[w] = [worker[w] EXCEPT !.cancelled = TRUE]
      BY <1>1, <2>1
    <3>2. worker'[w] \in WorkerState
      BY <1>1, <3>1 DEF WorkerState
    <3> QED BY <1>1, <2>1, <3>1, <3>2 DEF WorkerState
  <2>2. CASE w \notin W
    BY <1>1, <2>2
  <2> QED BY <2>1, <2>2
<1>3. worker' \in [Workers -> WorkerState]
  BY <1>2 DEF Stopped
<1> QED BY <1>2, <1>3 DEF StartedHasChannel, Runs

LEMMA StopWorkerKeeps ==
    ASSUME BotInv, NEW o \in Operators, NEW w \in Workers, StopWorker(o, w)
    PROVE  BotInv'
<1> DEFINE r == [edit[o] EXCEPT !.old = @ \ {w}]
<1>1. /\ edit[o].pc = "stop" /\ EditGoes(o, r) /\ worker' = Stopped({w})
      /\ UNCHANGED <<bot, table, root, overlap, missed, edits, botFaults>>
  BY DEF StopWorker, EditAt
<1>2. r \in Edit /\ r.pc = "stop" /\ r.old = edit[o].old \ {w}
  BY <1>1, BotFacts DEF BotTypeOK, Edit
<1> HIDE DEF r
<1>3. /\ edit' \in [Operators -> Edit]
      /\ \A p \in Operators : edit'[p] = IF p = o THEN r ELSE edit[p]
  BY <1>1, <1>2, BotFacts DEF EditGoes, BotTypeOK
<1>4. /\ worker' \in [Workers -> WorkerState]
      /\ StartedHasChannel'
      /\ \A v \in Workers : /\ worker'[v].chan = worker[v].chan
                            /\ Runs(v)' <=> Runs(v) /\ v \notin {w}
  BY <1>1, {w} \in SUBSET Workers, StoppedWorkers, BotFacts
<1>5. BotTypeOK' /\ LiveUntilStopped'
  BY <1>1, <1>3, <1>4, BotFacts DEF BotTypeOK, LiveUntilStopped
<1>6. ASSUME ~ overlap'
      PROVE  Alone' /\ Known' /\ Emptied' /\ OneEach' /\ RowsRun'
  <2>1. ~ overlap /\ Reloading(o)
    BY <1>1, <1>6 DEF Reloading
  <2>2. Alone'
    BY <1>1, <1>2, <1>3, <2>1 DEF BotInv, Alone, Reloading
  <2>3. Known'
    <3>1. \A v \in Workers : Runs(v)' =>
             table'[worker'[v].chan] = v \/ (EditAt(o, "stop")' /\ v \in edit'[o].old)
      BY <1>1, <1>2, <1>3, <1>4, <2>1, ReloadFacts DEF EditAt
    <3> QED BY <3>1 DEF Known
  <2>4. Emptied'
    BY <1>1, <1>2, <1>3, <2>1, ReloadFacts DEF Emptied, EditAt
  <2>5. OneEach'
    BY <1>4, <2>1, ReloadFacts DEF OneEach
  <2>6. RowsRun'
    BY <1>2, <1>3 DEF RowsRun, ReadLast, EditAt
  <2> QED BY <2>2, <2>3, <2>4, <2>5, <2>6
<1> QED BY <1>4, <1>5, <1>6 DEF BotInv

(* The rows are read, or the read fails, when all is stopped.              *)
LEMMA ListKeeps ==
    ASSUME BotInv, NEW o \in Operators, ListEnabled(o) \/ ListFails(o)
    PROVE  BotInv'
<1> DEFINE E == {c \in Channels : bot[c] = "enabled"}
<1> DEFINE r == [edit[o] EXCEPT !.pc = "start", !.items = E]
<1>1. /\ edit[o].pc = "stop" /\ edit[o].old = {}
      /\ UNCHANGED <<bot, table, worker, root, overlap, edits>>
  BY DEF ListEnabled, ListFails, EditAt
<1>2. r \in Edit /\ r.pc = "start" /\ r.items = E
  BY BotFacts DEF BotTypeOK, Edit
<1>3. Idle \in Edit /\ Idle.pc = "idle"
  BY BotFacts DEF Idle
<1> HIDE DEF r
<1>4. /\ \/ EditGoes(o, r) /\ missed' = FALSE /\ botFaults' = botFaults
         \/ EditGoes(o, Idle) /\ missed' = TRUE
      /\ botFaults' \in 0..MaxBotFaults
  <2>1. botFaults' \in 0..MaxBotFaults
    BY BotFacts DEF ListEnabled, ListFails, BotFault, BotTypeOK
  <2> QED BY <2>1 DEF ListEnabled, ListFails, r
<1>5. PICK s \in {r, Idle} : /\ EditGoes(o, s)
                             /\ missed' \in BOOLEAN
                             /\ ~ missed' => s = r
  BY <1>4
<1>6. /\ edit' \in [Operators -> Edit]
      /\ \A p \in Operators : edit'[p] = IF p = o THEN s ELSE edit[p]
      /\ s.pc \in {"start", "idle"}
      /\ s.pc = "start" => s.items = E
  BY <1>2, <1>3, <1>5, BotFacts DEF EditGoes, BotTypeOK
<1>7. BotTypeOK' /\ StartedHasChannel' /\ LiveUntilStopped'
  BY <1>1, <1>4, <1>5, <1>6, BotFacts DEF BotTypeOK, StartedHasChannel,
                                          LiveUntilStopped, Runs
<1>8. ASSUME ~ overlap'
      PROVE  Alone' /\ Known' /\ Emptied' /\ OneEach' /\ RowsRun'
  <2>1. ~ overlap /\ Reloading(o) /\ EditAt(o, "stop")
    BY <1>1, <1>8 DEF Reloading, EditAt
  <2>2. \A w \in Workers : ~ Runs(w)'
    BY <1>1, <2>1, AllStopped DEF Runs
  <2>3. Known' /\ OneEach'
    BY <2>2 DEF Known, OneEach
  <2>4. Alone'
    BY <1>1, <1>6, <2>1 DEF BotInv, Alone, Reloading
  <2>5. \A c \in Channels : table'[c] = NoWorker
    BY <1>1, <2>1, ReloadFacts DEF Emptied
  <2>6. E \subseteq Channels
    OBVIOUS
  <2>7. \A p \in Operators : EditAt(p, "start")' => p = o /\ edit'[p].items = E
    BY <1>6, <2>1, ReloadFacts DEF EditAt
  <2>8. Emptied'
    BY <1>1, <2>5, <2>6, <2>7 DEF Emptied
  <2>9. RowsRun'
    <3> SUFFICES ASSUME ReadLast' PROVE
          \A c \in Channels : ToStart(c)' <=> bot'[c] = "enabled"
      BY <2>2, <2>5 DEF RowsRun
    <3>1. s = r
      BY <1>5 DEF ReadLast
    <3>2. EditAt(o, "start")' /\ edit'[o].items = E
      BY <1>2, <1>6, <3>1 DEF EditAt
    <3> QED BY <1>1, <2>7, <3>2 DEF ToStart
  <2> QED BY <2>3, <2>4, <2>8, <2>9
<1> QED BY <1>7, <1>8 DEF BotInv

LEMMA StartKeeps ==
    ASSUME BotInv, NEW o \in Operators, NEW c \in Channels, NEW w \in Workers,
           StartChannelWorker(o, c, w)
    PROVE  BotInv'
<1> DEFINE r == [edit[o] EXCEPT !.items = @ \ {c}]
<1> DEFINE n == [NotStarted EXCEPT !.chan = c, !.cancelled = ~ root.live,
                                   !.routine = "start"]
<1>1. /\ edit[o].pc = "start" /\ c \in edit[o].items /\ EditGoes(o, r)
      /\ worker[w].routine = "none" /\ worker' = [worker EXCEPT ![w] = n]
      /\ table' = [table EXCEPT ![c] = w]
      /\ UNCHANGED <<bot, root, overlap, missed, edits, botFaults>>
  BY DEF StartChannelWorker, EditAt, Fresh
<1>2. r \in Edit /\ r.pc = "start" /\ r.items = edit[o].items \ {c}
  BY <1>1, BotFacts DEF BotTypeOK, Edit
<1>3. /\ n \in WorkerState /\ n.chan = c /\ n.routine = "start"
      /\ n.cancelled <=> ~ root.live
  BY BotFacts DEF NotStarted, WorkerState
<1> HIDE DEF r, n
<1>4. /\ edit' \in [Operators -> Edit]
      /\ \A p \in Operators : edit'[p] = IF p = o THEN r ELSE edit[p]
  BY <1>1, <1>2, BotFacts DEF EditGoes, BotTypeOK
<1>5. /\ worker' \in [Workers -> WorkerState]
      /\ \A v \in Workers : worker'[v] = IF v = w THEN n ELSE worker[v]
      /\ table' \in [Channels -> Workers \cup {NoWorker}]
      /\ \A d \in Channels : table'[d] = IF d = c THEN w ELSE table[d]
  BY <1>1, <1>3, BotFacts DEF BotTypeOK
<1>6. BotTypeOK' /\ StartedHasChannel'
  BY <1>1, <1>3, <1>4, <1>5, BotFacts DEF BotTypeOK, StartedHasChannel
<1>7. LiveUntilStopped'
  BY <1>1, <1>3, <1>5, BotFacts DEF LiveUntilStopped, Runs
<1>8. ASSUME ~ overlap'
      PROVE  Alone' /\ Known' /\ Emptied' /\ OneEach' /\ RowsRun'
  <2>1. ~ overlap /\ Reloading(o) /\ ~ EditAt(o, "stop") /\ EditAt(o, "start")
    BY <1>1, <1>8 DEF Reloading, EditAt
  <2>2. /\ root.pc \in {"boot", "up"} /\ root.live
        /\ \A p \in Operators : p # o => ~ EditAt(p, "stop") /\ ~ EditAt(p, "start")
        /\ \A v \in Workers : Runs(v) =>
              worker[v].chan \in Channels /\ table[worker[v].chan] = v
        /\ Emptied /\ OneEach /\ RowsRun
    BY <2>1, ReloadFacts
  <2>3. table[c] = NoWorker /\ ~ Runs(w) /\ \A v \in Workers : v # NoWorker
    BY <1>1, <2>1, <2>2, BotAssumption DEF Emptied, Runs, Workers, NoWorker
  <2>4. \A v \in Workers : Runs(v) => worker[v].chan # c
    BY <2>2, <2>3
  <2>5. \A v \in Workers :
           /\ Runs(v)' <=> Runs(v) \/ v = w
           /\ worker'[v].chan = IF v = w THEN c ELSE worker[v].chan
    BY <1>1, <1>3, <1>5, <2>2 DEF Runs
  <2>6. Alone'
    BY <1>1, <1>2, <1>4, <2>1 DEF BotInv, Alone, Reloading
  <2>7. Known'
    BY <1>5, <2>2, <2>3, <2>4, <2>5 DEF Known
  <2>8. \A p \in Operators :
           /\ ~ EditAt(p, "stop")'
           /\ EditAt(p, "start")' <=> p = o
    BY <1>1, <1>2, <1>4, <2>1, <2>2 DEF EditAt
  <2>9. edit'[o].items = edit[o].items \ {c} /\ edit[o].items \subseteq Channels
    BY <1>2, <1>4, BotFacts DEF BotTypeOK, Edit
  <2>10. Emptied'
    BY <1>1, <1>5, <2>1, <2>2, <2>8, <2>9 DEF Emptied
  <2>11. OneEach'
    BY <2>2, <2>4, <2>5 DEF OneEach
  <2>12. RowsRun'
    <3> SUFFICES ASSUME ReadLast', NEW d \in Channels
        PROVE  /\ ToStart(d)' => bot'[d] = "enabled"
               /\ \A v \in Workers :
                    (Runs(v)' /\ worker'[v].chan = d) <=>
                       (bot'[d] = "enabled" /\ ~ ToStart(d)' /\ table'[d] = v)
               /\ bot'[d] = "enabled" /\ ~ ToStart(d)' => table'[d] # NoWorker
      BY DEF RowsRun
    <3>1. ReadLast
      BY <1>1, <1>4, <2>1, <2>2 DEF ReadLast, EditAt
    <3>2. ToStart(d) <=> d \in edit[o].items
      BY <2>1, <2>2 DEF ToStart
    <3>3. ToStart(d)' <=> d \in edit'[o].items
      BY <2>8 DEF ToStart
    <3>4. /\ ToStart(d) => bot[d] = "enabled"
          /\ \A v \in Workers :
               (Runs(v) /\ worker[v].chan = d) <=>
                  (bot[d] = "enabled" /\ ~ ToStart(d) /\ table[d] = v)
          /\ bot[d] = "enabled" /\ ~ ToStart(d) => table[d] # NoWorker
      BY <2>2, <3>1 DEF RowsRun
    <3>5. CASE d = c
      BY <1>1, <1>5, <2>3, <2>4, <2>5, <2>9, <3>2, <3>3, <3>4, <3>5
    <3>6. CASE d # c
      BY <1>1, <1>5, <2>3, <2>5, <2>9, <3>2, <3>3, <3>4, <3>6
    <3> QED BY <3>5, <3>6
  <2> QED BY <2>6, <2>7, <2>10, <2>11, <2>12
<1> QED BY <1>6, <1>7, <1>8 DEF BotInv

(* A reload that starts nothing more.                                      *)
LEMMA ReloadEndKeeps ==
    ASSUME BotInv, NEW o \in Operators,
           ReloadDone(o) \/ \E c \in Channels : NoRuntimeContext(o, c)
    PROVE  BotInv'
<1>1. ASSUME NEW c \in Channels, NoRuntimeContext(o, c)
      PROVE  BotInv'
  <2> DEFINE r == [edit[o] EXCEPT !.items = @ \ {c}]
  <2>1. /\ edit[o].pc = "start" /\ ~ root.live /\ EditGoes(o, r)
        /\ UNCHANGED <<bot, table, worker, root, overlap, missed, edits, botFaults>>
    BY <1>1 DEF NoRuntimeContext, EditAt
  <2>2. r \in Edit
    BY BotFacts DEF BotTypeOK, Edit
  <2> HIDE DEF r
  <2>3. edit' \in [Operators -> Edit]
    BY <2>1, <2>2, BotFacts DEF EditGoes, BotTypeOK
  <2>4. BotTypeOK' /\ StartedHasChannel' /\ LiveUntilStopped'
    BY <2>1, <2>3, BotFacts DEF BotTypeOK, StartedHasChannel, LiveUntilStopped, Runs
  <2>5. overlap /\ overlap'
    BY <2>1, ReloadFacts DEF Reloading
  <2> QED BY <2>4, <2>5 DEF BotInv
<1>2. CASE ReloadDone(o)
  <2>1. /\ edit[o].pc = "start" /\ edit[o].items = {} /\ EditGoes(o, Idle)
        /\ root' = [root EXCEPT !.pc = IF @ = "boot" THEN "up" ELSE @]
        /\ UNCHANGED <<bot, table, worker, overlap, missed, edits, botFaults>>
    BY <1>2 DEF ReloadDone, EditAt
  <2>2. Idle \in Edit /\ Idle.pc = "idle"
    BY BotFacts DEF Idle
  <2>3. /\ edit' \in [Operators -> Edit]
        /\ \A p \in Operators : edit'[p] = IF p = o THEN Idle ELSE edit[p]
    BY <2>1, <2>2, BotFacts DEF EditGoes, BotTypeOK
  <2>4. /\ root' \in Runtime /\ root'.live = root.live /\ root'.old = root.old
        /\ root'.pc = IF root.pc = "boot" THEN "up" ELSE root.pc
    BY <2>1, BotFacts DEF BotTypeOK, Runtime
  <2>5. \A w \in Workers : Runs(w)' <=> Runs(w)
    BY <2>1 DEF Runs
  <2>6. BotTypeOK' /\ StartedHasChannel'
    BY <2>1, <2>3, <2>4, BotFacts DEF BotTypeOK, StartedHasChannel
  <2>7. LiveUntilStopped'
    BY <2>4, <2>5, BotFacts DEF LiveUntilStopped
  <2>8. ASSUME ~ overlap'
        PROVE  Alone' /\ Known' /\ Emptied' /\ OneEach' /\ RowsRun'
    <3>1. ~ overlap /\ Reloading(o) /\ EditAt(o, "start") /\ ~ EditAt(o, "stop")
      BY <2>1, <2>8 DEF Reloading, EditAt
    <3>2. /\ root.pc \in {"boot", "up"} /\ root'.pc = "up"
          /\ \A p \in Operators : p # o => ~ EditAt(p, "stop") /\ ~ EditAt(p, "start")
          /\ \A w \in Workers : Runs(w) => table[worker[w].chan] = w
          /\ OneEach /\ RowsRun
      BY <2>4, <3>1, ReloadFacts
    <3>3. \A p \in Operators : ~ EditAt(p, "stop")' /\ ~ EditAt(p, "start")'
      BY <2>2, <2>3, <3>2 DEF EditAt
    <3>4. Alone' /\ Known' /\ Emptied' /\ OneEach'
      BY <2>1, <2>5, <3>2, <3>3 DEF Alone, Known, Emptied, OneEach, Reloading, EditAt
    <3>5. ReadLast' => ReadLast
      BY <2>1, <2>3, <3>1, <3>2 DEF ReadLast, EditAt
    <3>6. \A c \in Channels : ~ ToStart(c)' /\ ~ ToStart(c)
      BY <2>1, <3>2, <3>3 DEF ToStart
    <3>7. RowsRun'
      BY <2>1, <2>5, <3>2, <3>5, <3>6 DEF RowsRun
    <3> QED BY <3>4, <3>7
  <2> QED BY <2>6, <2>7, <2>8 DEF BotInv
<1> QED BY <1>1, <1>2

-----------------------------------------------------------------------------
(* Steps of workers and of the stop of the runtime.                        *)

LEMMA WorkerKeeps ==
    ASSUME BotInv, NEW w \in Workers, NEW r \in WorkerState,
           worker' = [worker EXCEPT ![w] = r],
           r.chan = worker[w].chan, r.cancelled <=> worker[w].cancelled,
           r.routine = "none" <=> worker[w].routine = "none",
           UNCHANGED <<bot, edit, table, root, overlap, missed, edits>>,
           botFaults' \in 0..MaxBotFaults
    PROVE  BotInv'
<1>1. /\ worker' \in [Workers -> WorkerState]
      /\ \A v \in Workers : worker'[v] = IF v = w THEN r ELSE worker[v]
  BY BotFacts DEF BotTypeOK
<1>2. \A v \in Workers : /\ worker'[v].chan = worker[v].chan
                         /\ worker'[v].routine = "none" <=> worker[v].routine = "none"
                         /\ Runs(v)' <=> Runs(v)
  BY <1>1 DEF Runs
<1>3. BotTypeOK' /\ StartedHasChannel' /\ LiveUntilStopped'
  BY <1>1, <1>2, BotFacts DEF BotTypeOK, StartedHasChannel, LiveUntilStopped
<1>4. ASSUME ~ overlap'
      PROVE  Alone' /\ Known' /\ Emptied' /\ OneEach' /\ RowsRun'
  <2>1. Alone /\ Known /\ Emptied /\ OneEach /\ RowsRun
    BY <1>4 DEF BotInv
  <2>2. Alone' /\ Emptied'
    BY <2>1 DEF Alone, Emptied, Reloading, EditAt
  <2>3. Known'
    BY <1>2, <2>1 DEF Known, EditAt
  <2>4. OneEach'
    BY <1>2, <2>1 DEF OneEach
  <2>5. ReadLast' = ReadLast /\ \A c \in Channels : ToStart(c)' = ToStart(c)
    BY DEF ReadLast, ToStart, EditAt
  <2>6. RowsRun'
    BY <1>2, <2>1, <2>5 DEF RowsRun
  <2> QED BY <2>2, <2>3, <2>4, <2>6
<1> QED BY <1>3, <1>4 DEF BotInv

LEMMA ClientKeeps ==
    ASSUME BotInv, NEW w \in Workers,
           ClientStart(w) \/ Connect(w) \/ ConnectionFails(w) \/ ClientEnds(w)
    PROVE  BotInv'
<1>1. worker[w] \in WorkerState /\ botFaults \in 0..MaxBotFaults
  BY BotFacts DEF BotTypeOK
<1>2. CASE ClientStart(w)
  <2> DEFINE r == [worker[w] EXCEPT !.routine = "wait", !.client = "loop"]
  <2>1. r \in WorkerState
    BY <1>1 DEF WorkerState
  <2>2. /\ r.chan = worker[w].chan /\ r.cancelled = worker[w].cancelled
        /\ r.routine = "wait"
    BY <1>1 DEF WorkerState
  <2>3. /\ worker' = [worker EXCEPT ![w] = r] /\ worker[w].routine = "start"
        /\ UNCHANGED <<bot, edit, table, root, overlap, missed, edits, botFaults>>
    BY <1>2 DEF ClientStart, WorkerGoes
  <2> HIDE DEF r
  <2> QED BY <1>1, <2>1, <2>2, <2>3, WorkerKeeps
<1>3. ~ GivesUp(w) => NextAttempt(w) \in 0..MaxReconnectAttempts
  BY <1>1, BotFacts DEF GivesUp, NextAttempt, WorkerState
<1>4. CASE Connect(w)
  <2> DEFINE r == [worker[w] EXCEPT !.client = "up", !.attempt = NextAttempt(w)]
  <2>1. /\ worker' = [worker EXCEPT ![w] = r] /\ ~ GivesUp(w)
        /\ UNCHANGED <<bot, edit, table, root, overlap, missed, edits, botFaults>>
    BY <1>4 DEF Connect, WorkerGoes
  <2>2. r \in WorkerState
    BY <1>1, <1>3, <2>1 DEF WorkerState
  <2>3. /\ r.chan = worker[w].chan /\ r.cancelled = worker[w].cancelled
        /\ r.routine = worker[w].routine
    BY <1>1 DEF WorkerState
  <2> HIDE DEF r
  <2> QED BY <1>1, <2>1, <2>2, <2>3, WorkerKeeps
<1>5. CASE ConnectionFails(w)
  <2> DEFINE a == IF worker[w].client = "up" THEN worker[w].attempt ELSE NextAttempt(w)
  <2> DEFINE r == [worker[w] EXCEPT !.client = "loop", !.attempt = a]
  <2>1. /\ worker' = [worker EXCEPT ![w] = r] /\ worker[w].client \in {"loop", "up"}
        /\ worker[w].client = "loop" => ~ GivesUp(w)
        /\ UNCHANGED <<bot, edit, table, root, overlap, missed, edits>>
    BY <1>5 DEF ConnectionFails, WorkerGoes
  <2>2. botFaults' \in 0..MaxBotFaults
    BY <1>1, <1>5, BotFacts DEF ConnectionFails, BotFault
  <2>3. a \in 0..MaxReconnectAttempts
    BY <1>1, <1>3, <2>1 DEF WorkerState
  <2> HIDE DEF a
  <2>4. r \in WorkerState
    BY <1>1, <2>3 DEF WorkerState
  <2>5. /\ r.chan = worker[w].chan /\ r.cancelled = worker[w].cancelled
        /\ r.routine = worker[w].routine
    BY <1>1 DEF WorkerState
  <2> HIDE DEF r
  <2> QED BY <2>1, <2>2, <2>4, <2>5, WorkerKeeps
<1>6. CASE ClientEnds(w)
  <2> DEFINE r == [worker[w] EXCEPT !.client = "ended"]
  <2>1. r \in WorkerState
    BY <1>1 DEF WorkerState
  <2>2. /\ r.chan = worker[w].chan /\ r.cancelled = worker[w].cancelled
        /\ r.routine = worker[w].routine
    BY <1>1 DEF WorkerState
  <2>3. /\ worker' = [worker EXCEPT ![w] = r]
        /\ UNCHANGED <<bot, edit, table, root, overlap, missed, edits, botFaults>>
    BY <1>6 DEF ClientEnds, WorkerGoes
  <2> HIDE DEF r
  <2> QED BY <1>1, <2>1, <2>2, <2>3, WorkerKeeps
<1> QED BY <1>2, <1>4, <1>5, <1>6

(* A goroutine that ends late leaves the entry of its successor alone.     *)
LEMMA DeleteKeeps ==
    ASSUME BotInv, NEW w \in Workers, DeleteWorker(w)
    PROVE  BotInv'
<1> DEFINE r == [worker[w] EXCEPT !.routine = "gone"]
<1>1. /\ worker[w].routine = "wait" /\ worker[w].cancelled
      /\ worker' = [worker EXCEPT ![w] = r]
      /\ table' = [table EXCEPT ![worker[w].chan] = IF @ = w THEN NoWorker ELSE @]
      /\ UNCHANGED <<bot, edit, root, overlap, missed, edits, botFaults>>
  BY DEF DeleteWorker, WorkerGoes
<1>2. worker[w] \in WorkerState /\ worker[w].chan \in Channels /\ ~ Runs(w)
  BY <1>1, BotFacts DEF BotTypeOK, StartedHasChannel, Runs
<1>3. r \in WorkerState
  BY <1>2 DEF WorkerState
<1>4. r.chan = worker[w].chan /\ r.cancelled = worker[w].cancelled /\ r.routine = "gone"
  BY <1>2 DEF WorkerState
<1> HIDE DEF r
<1>5. /\ worker' \in [Workers -> WorkerState]
      /\ \A v \in Workers : worker'[v] = IF v = w THEN r ELSE worker[v]
  BY <1>1, <1>3, BotFacts DEF BotTypeOK
<1>6. /\ table' \in [Channels -> Workers \cup {NoWorker}]
      /\ \A d \in Channels :
            table'[d] = IF d = worker[w].chan /\ table[d] = w THEN NoWorker ELSE table[d]
  BY <1>1, <1>2, BotFacts DEF BotTypeOK
<1>7. \A v \in Workers : /\ worker'[v].chan = worker[v].chan
                         /\ worker'[v].routine = "none" <=> worker[v].routine = "none"
                         /\ Runs(v)' <=> Runs(v)
  BY <1>1, <1>4, <1>5 DEF Runs
<1>8. BotTypeOK' /\ StartedHasChannel' /\ LiveUntilStopped'
  BY <1>1, <1>5, <1>6, <1>7, BotFacts DEF BotTypeOK, StartedHasChannel, LiveUntilStopped
<1>9. ASSUME ~ overlap'
      PROVE  Alone' /\ Known' /\ Emptied' /\ OneEach' /\ RowsRun'
  <2>1. Alone /\ Known /\ Emptied /\ OneEach /\ RowsRun
    BY <1>1, <1>9 DEF BotInv
  <2>2. \A d \in Channels : table[d] = NoWorker => table'[d] = NoWorker
    BY <1>6
  <2>3. Alone'
    BY <1>1, <2>1 DEF Alone, Reloading
  <2>4. Emptied'
    <3>1. \A o \in Operators : edit[o].items \subseteq Channels
      BY BotFacts DEF BotTypeOK, Edit
    <3> QED BY <1>1, <2>1, <2>2, <3>1 DEF Emptied, EditAt
  <2>5. Known'
    <3>1. \A v \in Workers : Runs(v) => worker[v].chan \in Channels /\ v # w
      BY <1>2, BotFacts DEF StartedHasChannel, Runs
    <3> QED BY <1>1, <1>6, <1>7, <2>1, <3>1 DEF Known, EditAt
  <2>6. OneEach'
    BY <1>7, <2>1 DEF OneEach
  <2>7. ReadLast' = ReadLast /\ \A c \in Channels : ToStart(c)' = ToStart(c)
    BY <1>1 DEF ReadLast, ToStart, EditAt
  <2>8. RowsRun'
    <3> SUFFICES ASSUME ReadLast, NEW d \in Channels
        PROVE  /\ ToStart(d) => bot[d] = "enabled"
               /\ \A v \in Workers :
                    (Runs(v) /\ worker[v].chan = d) <=>
                       (bot[d] = "enabled" /\ ~ ToStart(d) /\ table'[d] = v)
               /\ bot[d] = "enabled" /\ ~ ToStart(d) => table'[d] # NoWorker
      BY <1>1, <1>7, <2>7 DEF RowsRun
    <3>1. /\ ToStart(d) => bot[d] = "enabled"
          /\ \A v \in Workers :
               (Runs(v) /\ worker[v].chan = d) <=>
                  (bot[d] = "enabled" /\ ~ ToStart(d) /\ table[d] = v)
          /\ bot[d] = "enabled" /\ ~ ToStart(d) => table[d] # NoWorker
      BY <2>1 DEF RowsRun
    <3>2. bot[d] = "enabled" /\ ~ ToStart(d) => table'[d] = table[d]
      BY <1>2, <1>6, <3>1
    <3> QED BY <3>1, <3>2
  <2> QED BY <2>3, <2>4, <2>5, <2>6, <2>8
<1> QED BY <1>8, <1>9 DEF BotInv

LEMMA RuntimeStopKeeps ==
    ASSUME BotInv, RuntimeStop
    PROVE  BotInv'
<1>1. /\ root.pc = "up" /\ root' = [root EXCEPT !.pc = "stop", !.old = Tabled]
      /\ table' = [c \in Channels |-> NoWorker]
      /\ overlap' = (overlap \/ \E p \in Operators : Reloading(p))
      /\ UNCHANGED <<bot, edit, worker, missed, edits, botFaults>>
  BY DEF RuntimeStop
<1>2. /\ root' \in Runtime /\ root'.pc = "stop" /\ root'.live = root.live
      /\ root'.old = Tabled
  BY <1>1, BotFacts DEF BotTypeOK, Runtime, Tabled
<1>3. overlap' \in BOOLEAN
  BY <1>1, BotFacts DEF BotTypeOK
<1>4. \A w \in Workers : Runs(w)' <=> Runs(w)
  BY <1>1 DEF Runs
<1>5. BotTypeOK' /\ StartedHasChannel'
  BY <1>1, <1>2, <1>3, BotFacts DEF BotTypeOK, StartedHasChannel, NoWorker
<1>6. LiveUntilStopped'
  BY <1>1, <1>2, <1>4, BotFacts DEF LiveUntilStopped
<1>7. ASSUME ~ overlap'
      PROVE  Alone' /\ Known' /\ Emptied' /\ OneEach' /\ RowsRun'
  <2>1. ~ overlap /\ \A p \in Operators : ~ EditAt(p, "stop") /\ ~ EditAt(p, "start")
    BY <1>1, <1>7 DEF Reloading, EditAt
  <2>2. \A w \in Workers : Runs(w) => w \in Tabled
    BY <1>1, <2>1, BotFacts DEF BotInv, Known, Tabled, StartedHasChannel, Runs
  <2>3. Known'
    BY <1>2, <1>4, <2>2 DEF Known
  <2>4. Alone' /\ Emptied'
    BY <1>1, <2>1 DEF Alone, Emptied, Reloading, EditAt
  <2>5. OneEach'
    BY <1>1, <1>4, <2>1 DEF BotInv, OneEach
  <2>6. RowsRun'
    BY <1>2 DEF RowsRun, ReadLast
  <2> QED BY <2>3, <2>4, <2>5, <2>6
<1> QED BY <1>5, <1>6, <1>7 DEF BotInv

LEMMA RuntimeStopsWorkerKeeps ==
    ASSUME BotInv, NEW w \in Workers, RuntimeStopsWorker(w)
    PROVE  BotInv'
<1>1. /\ root.pc = "stop" /\ root' = [root EXCEPT !.old = @ \ {w}]
      /\ worker' = Stopped({w})
      /\ UNCHANGED <<bot, edit, table, overlap, missed, edits, botFaults>>
  BY DEF RuntimeStopsWorker
<1>2. /\ root' \in Runtime /\ root'.pc = "stop" /\ root'.live = root.live
      /\ root'.old = root.old \ {w}
  BY <1>1, BotFacts DEF BotTypeOK, Runtime
<1>3. /\ worker' \in [Workers -> WorkerState]
      /\ StartedHasChannel'
      /\ \A v \in Workers : /\ worker'[v].chan = worker[v].chan
                            /\ Runs(v)' <=> Runs(v) /\ v \notin {w}
  BY <1>1, {w} \in SUBSET Workers, StoppedWorkers, BotFacts
<1>4. BotTypeOK'
  BY <1>1, <1>2, <1>3, BotFacts DEF BotTypeOK
<1>5. LiveUntilStopped'
  BY <1>1, <1>2, <1>3, BotFacts DEF LiveUntilStopped
<1>6. ASSUME ~ overlap'
      PROVE  Alone' /\ Known' /\ Emptied' /\ OneEach' /\ RowsRun'
  <2>1. Alone /\ Known /\ Emptied /\ OneEach
    BY <1>1, <1>6 DEF BotInv
  <2>2. Alone' /\ Emptied'
    BY <1>1, <1>2, <2>1 DEF Alone, Emptied, Reloading, EditAt
  <2>3. Known'
    BY <1>1, <1>2, <1>3, <2>1 DEF Known, EditAt
  <2>4. OneEach'
    BY <1>3, <2>1 DEF OneEach
  <2>5. RowsRun'
    BY <1>2 DEF RowsRun, ReadLast
  <2> QED BY <2>2, <2>3, <2>4, <2>5
<1> QED BY <1>3, <1>4, <1>5, <1>6 DEF BotInv

(* The context of the runtime is cancelled, and later all has ended.       *)
LEMMA RuntimeEndKeeps ==
    ASSUME BotInv, RuntimeCancel \/ RuntimeDown
    PROVE  BotInv'
<1>1. PICK pc \in {"wait", "down"} :
         /\ root' = [root EXCEPT !.pc = pc, !.live = FALSE]
         /\ root.pc \in {"stop", "wait"}
         /\ UNCHANGED <<bot, edit, table, overlap, missed, edits, botFaults>>
  <2>1. CASE RuntimeCancel
    BY <2>1 DEF RuntimeCancel
  <2>2. CASE RuntimeDown
    <3>1. root.pc = "wait" /\ root' = [root EXCEPT !.pc = "down"] /\ root \in Runtime
          /\ UNCHANGED <<bot, edit, table, overlap, missed, edits, botFaults>>
      BY <2>2, BotFacts DEF RuntimeDown, BotTypeOK
    <3>2. root.live = FALSE
      BY <3>1, BotFacts DEF LiveUntilStopped, Runtime
    <3> QED BY <3>1, <3>2 DEF Runtime
  <2> QED BY <2>1, <2>2
<1>2. root' \in Runtime /\ root'.pc \in {"wait", "down"} /\ ~ root'.live
  BY <1>1, BotFacts DEF BotTypeOK, Runtime
<1>3. /\ worker' \in [Workers -> WorkerState]
      /\ StartedHasChannel'
      /\ \A w \in Workers : ~ Runs(w)'
  <2>1. CASE RuntimeCancel
    <3> DEFINE W == {w \in Workers : worker[w].routine # "none"}
    <3>1. worker' = Stopped(W) /\ W \in SUBSET Workers
      BY <2>1 DEF RuntimeCancel
    <3>2. \A w \in Workers : Runs(w) => w \in W
      BY DEF Runs
    <3> HIDE DEF W
    <3> QED BY <3>1, <3>2, StoppedWorkers, BotFacts
  <2>2. CASE RuntimeDown
    <3>1. ~ root.live /\ worker' = worker
      BY <2>2, BotFacts DEF RuntimeDown, LiveUntilStopped, BotTypeOK, Runtime
    <3> QED BY <3>1, BotFacts DEF LiveUntilStopped, StartedHasChannel, BotTypeOK, Runs
  <2> QED BY <2>1, <2>2
<1>4. BotTypeOK' /\ LiveUntilStopped'
  BY <1>1, <1>2, <1>3, BotFacts DEF BotTypeOK, LiveUntilStopped
<1>5. ASSUME ~ overlap'
      PROVE  Alone' /\ Known' /\ Emptied' /\ OneEach' /\ RowsRun'
  <2>1. \A o \in Operators : ~ Reloading(o)
    BY <1>1, <1>5 DEF BotInv, Alone
  <2>2. Alone' /\ Emptied'
    BY <1>1, <1>2, <2>1 DEF Alone, Emptied, Reloading, EditAt
  <2>3. Known' /\ OneEach'
    BY <1>3 DEF Known, OneEach
  <2>4. RowsRun'
    BY <1>2 DEF RowsRun, ReadLast
  <2> QED BY <2>2, <2>3, <2>4
<1> QED BY <1>3, <1>4, <1>5 DEF BotInv

-----------------------------------------------------------------------------
LEMMA BotInitKeeps == BotInit => BotInv
<1> SUFFICES ASSUME BotInit PROVE BotInv
  OBVIOUS
<1> DEFINE again == [Idle EXCEPT !.pc = "reload"]
<1>1. again \in Edit /\ again.pc = "reload" /\ Idle \in Edit /\ Idle.pc = "idle"
  BY DEF Idle, Edit, BotRow
<1>2. NotStarted \in WorkerState
  BY BotAssumption DEF NotStarted, WorkerState
<1>3. \A o \in Operators : edit[o] = IF o = Boot THEN again ELSE Idle
  BY DEF BotInit
<1>4. edit \in [Operators -> Edit]
  BY <1>1 DEF BotInit
<1> HIDE DEF again
<1>5. BotTypeOK
  <2>1. bot \in [Channels -> BotRow]
    BY DEF BotInit, BotRow
  <2>2. /\ table \in [Channels -> Workers \cup {NoWorker}]
        /\ worker \in [Workers -> WorkerState]
    BY <1>2 DEF BotInit
  <2>3. root \in Runtime
    BY DEF BotInit, Runtime
  <2>4. overlap \in BOOLEAN /\ missed \in BOOLEAN
    BY DEF BotInit
  <2>5. edits \in 0..MaxEdits /\ botFaults \in 0..MaxBotFaults
    BY BotAssumption DEF BotInit
  <2> QED BY <1>4, <2>1, <2>2, <2>3, <2>4, <2>5 DEF BotTypeOK
<1>6. \A w \in Workers : worker[w].routine = "none" /\ worker[w].chan = "none"
  BY DEF BotInit, NotStarted
<1>7. \A w \in Workers : ~ Runs(w)
  BY <1>6 DEF Runs
<1>8. StartedHasChannel /\ LiveUntilStopped
  BY <1>6 DEF BotInit, StartedHasChannel, LiveUntilStopped
<1>9. \A o \in Operators : ~ EditAt(o, "stop") /\ ~ EditAt(o, "start")
  BY <1>1, <1>3 DEF EditAt
<1>10. Alone /\ Emptied
  BY <1>9 DEF Alone, Emptied, Reloading, EditAt, BotInit
<1>11. Known /\ OneEach
  BY <1>7 DEF Known, OneEach
<1>12. RowsRun
  BY <1>1, <1>3, BotAssumption DEF RowsRun, ReadLast, EditAt
<1> QED BY <1>5, <1>8, <1>10, <1>11, <1>12 DEF BotInv

LEMMA BotStepKeeps == BotInv /\ [BotNext]_botVars => BotInv'
<1> SUFFICES ASSUME BotInv, [BotNext]_botVars PROVE BotInv'
  OBVIOUS
<1>1. CASE UNCHANGED botVars
  BY <1>1 DEF botVars, BotInv, BotTypeOK, StartedHasChannel, LiveUntilStopped, Alone,
              Known, Emptied, OneEach, RowsRun, ReadLast, ToStart, Runs, Reloading, EditAt
<1>2. ASSUME NEW o \in Operators, NEW c \in Channels,
             \/ \E status \in {"enabled", "disabled"} :
                  \/ CreateAgentBot(o, c, status)
                  \/ \E op \in {"status", "update"} : GetAgentBot(o, c, op, status)
             \/ DeleteAgentBot(o, c)
             \/ NoRuntimeContext(o, c)
             \/ \E w \in Workers : StartChannelWorker(o, c, w)
      PROVE  BotInv'
  BY <1>2, EditKeeps, ReloadEndKeeps, StartKeeps
<1>3. ASSUME NEW o \in Operators,
             \/ SaveAgentBot(o) \/ ReloadSkipped(o) \/ SwapWorkers(o)
             \/ ListEnabled(o) \/ ListFails(o) \/ ReloadDone(o)
             \/ \E w \in Workers : StopWorker(o, w)
      PROVE  BotInv'
  BY <1>3, EditKeeps, SwapKeeps, ListKeeps, ReloadEndKeeps, StopWorkerKeeps
<1>4. ASSUME NEW w \in Workers,
             \/ ClientStart(w) \/ DeleteWorker(w)
             \/ Connect(w) \/ ConnectionFails(w) \/ ClientEnds(w)
             \/ RuntimeStopsWorker(w)
      PROVE  BotInv'
  BY <1>4, ClientKeeps, DeleteKeeps, RuntimeStopsWorkerKeeps
<1>5. CASE RuntimeStop \/ RuntimeCancel \/ RuntimeDown
  BY <1>5, RuntimeStopKeeps, RuntimeEndKeeps
<1> QED BY <1>1, <1>2, <1>3, <1>4, <1>5 DEF BotNext

(* Rows, requests, table, workers and runtime agree on who runs and who is *)
(* about to be stopped, in every behaviour of the bots.                    *)
THEOREM BotInvariant == BotSpec => []BotInv
<1> QED BY BotInitKeeps, BotStepKeeps, PTL DEF BotSpec

(* A channel has one running worker at most as long as reloads do not      *)
(* interleave: for any number of channels, workers and requests, whenever  *)
(* the goroutines of stopped workers end (deleteWorker).                   *)
THEOREM NoDuplicateWorkerHolds == BotSpec => []NoDuplicateWorker
<1>1. BotInv => NoDuplicateWorker
  <2> SUFFICES ASSUME BotInv, ~ overlap, NEW c \in Channels
               PROVE  Cardinality(Running(c)) <= 1
    BY DEF NoDuplicateWorker
  <2>1. \A w \in Running(c) : w \in Workers /\ Runs(w) /\ worker[w].chan = c
    BY BotFacts, BotAssumption DEF Running, Runs, StartedHasChannel
  <2>2. \A v, w \in Running(c) : v = w
    BY <2>1 DEF BotInv, OneEach
  <2>3. CASE Running(c) = {}
    BY <2>3, FS_EmptySet
  <2>4. CASE Running(c) # {}
    <3>1. PICK w : w \in Running(c)
      BY <2>4
    <3>2. Running(c) = {w}
      BY <2>2, <3>1
    <3> QED BY <3>2, FS_Singleton
  <2> QED BY <2>3, <2>4
<1> QED BY <1>1, BotInvariant, PTL

(* When no request is under way the running workers are those of the       *)
(* enabled bots, each in the table (AgentBotRuntime.Reload), if reloads    *)
(* did not interleave and the last one could read the rows.                *)
THEOREM SettledWorkersHolds == BotSpec => []SettledWorkers
<1>1. BotInv => SettledWorkers
  <2> SUFFICES ASSUME BotInv, ~ overlap, ~ missed, root.pc = "up",
                      \A o \in Operators : EditAt(o, "idle"),
                      NEW c \in Channels
               PROVE  Running(c) = IF bot[c] = "enabled" THEN {table[c]} ELSE {}
    BY DEF SettledWorkers
  <2>1. ReadLast /\ ~ ToStart(c)
    BY DEF ReadLast, ToStart, EditAt
  <2>2. /\ \A w \in Workers :
              (Runs(w) /\ worker[w].chan = c) <=>
                  (bot[c] = "enabled" /\ ~ ToStart(c) /\ table[c] = w)
        /\ bot[c] = "enabled" /\ ~ ToStart(c) => table[c] # NoWorker
    BY <2>1 DEF BotInv, RowsRun
  <2>3. \A w \in Workers : w \in Running(c) <=> Runs(w) /\ worker[w].chan = c
    BY BotFacts, BotAssumption DEF Running, Runs, StartedHasChannel
  <2>4. table[c] \in Workers \cup {NoWorker} /\ Running(c) \subseteq Workers
    BY BotFacts DEF BotTypeOK, Running
  <2> QED BY <2>1, <2>2, <2>3, <2>4
<1> QED BY <1>1, BotInvariant, PTL

(* After AgentBotRuntime.Stop has cancelled the context of the runtime     *)
(* nothing runs, also when reloads interleaved with it.                    *)
THEOREM StopCancelsAllHolds == BotSpec => []StopCancelsAll
<1>1. BotInv => StopCancelsAll
  <2> SUFFICES ASSUME BotInv, ~ root.live, NEW c \in Channels, NEW w \in Running(c)
               PROVE  FALSE
    BY DEF StopCancelsAll
  <2>1. w \in Workers /\ Runs(w)
    BY BotFacts, BotAssumption DEF Running, Runs, StartedHasChannel
  <2> QED BY <2>1, BotFacts DEF LiveUntilStopped
<1> QED BY <1>1, BotInvariant, PTL

(***************************************************************************)
(* Sockets of browsers.                                                    *)
(***************************************************************************)

Presented(i) == serve[i].ticket # Nothing
LinkUp(i) == serve[i].link # "broken"

Links ==
    \A i \in Serves :
        /\ ServeAt(i, "none") <=> ~ Presented(i)
        /\ ServeAt(i, "done") <=> serve[i].closed
        /\ LinkUp(i) => InCall(i)
        /\ InCall(i) => serve[i].conn \in Conns
        /\ Presented(i) => ticket[serve[i].ticket].owner \in Tabs

(* A connection object carries one socket.                                 *)
Exclusive ==
    \A i, j \in Serves : InCall(i) /\ InCall(j) /\ serve[i].conn = serve[j].conn => i = j

(* A ticket that was presented is gone from the store.                     *)
Used ==
    /\ \A k \in Serves : ticket[k].live => ticket[k].owner \in Tabs
    /\ \A i \in Serves : Presented(i) => ~ ticket[serve[i].ticket].live

(* A tab has one socket that is not broken.                                *)
OneUp ==
    \A i, j \in Serves : LinkUp(i) /\ LinkUp(j) /\ TabOf(i) = TabOf(j) => i = j

Registered ==
    \A i \in Serves : i \in clients <=> serve[i].pc \in {"ready", "replay", "open"}

SocketInv == Links /\ Exclusive /\ Used /\ TicketOpensOnce /\ OneUp /\ Registered

(* The event in hand.                                                      *)
InHand ==
    /\ sub.next <= Len(bus) + 1
    /\ pending \subseteq 1..Len(bus)
    /\ sub.todo \subseteq 1..Len(bus)
    /\ SubAt("append") \/ SubAt("snapshot") \/ SubAt("write") => sub.ev \in sub.todo
    /\ SubAt("snapshot") \/ SubAt("write") =>
           history # <<>> /\ history[Len(history)] = sub.ev
    /\ ~ SubAt("write") => sub.to = {}
    /\ \A i \in sub.to : /\ Presented(i) /\ Sees(UserOf[TabOf(i)], sub.ev)
                          /\ serve[i].pc \notin {"count", "register"}

(* Where events come from.                                                 *)
Origins ==
    /\ Held(history) \cup evicted \subseteq 1..Len(bus)
    /\ \A t \in Tabs :
        /\ got[t] \cup owed[t] \subseteq {e \in 1..Len(bus) : Sees(UserOf[t], e)}
        /\ last[t] # Nothing => last[t] \in got[t] \cap (Held(history) \cup evicted)

(* What a socket may replay: places after its cursor.                      *)
Replays(i) ==
    \A n \in serve[i].rest :
        /\ n \in 1..Len(history)
        /\ Sees(UserOf[TabOf(i)], history[n])
        /\ \E m \in 1..(n - 1) : history[m] = serve[i].cursor

Cursors ==
    \A i \in Serves : Presented(i) =>
        /\ serve[i].cursor # Nothing =>
              serve[i].cursor \in got[TabOf(i)] \cap (Held(history) \cup evicted)
        /\ ServeAt(i, "replay") => Replays(i)

EventsBase == EventsTypeOK /\ SocketInv /\ InHand /\ Origins /\ Cursors

(* All that a tab misses follows in the history after event c, as long as  *)
(* c has never left it.                                                    *)
Follows(t, c) ==
    c \in Held(history) \ evicted =>
        \A e \in owed[t] \ got[t] :
            \E m, n \in 1..Len(history) : m < n /\ history[m] = c /\ history[n] = e

Missing(i) == owed[TabOf(i)] \ got[TabOf(i)]
Current(i) == IF SubAt("snapshot") \/ i \in sub.to THEN {sub.ev} ELSE {}

(* What a tab misses at each step of its socket.                           *)
Away ==
    \A t \in Tabs :
        (\A i \in Serves : LinkUp(i) => TabOf(i) # t) => Follows(t, last[t])

SetupAt(i) == LinkUp(i) =>
    /\ serve[i].pc \in {"count", "register", "ready"} =>
          Follows(TabOf(i), serve[i].cursor)
    /\ serve[i].pc \in {"count", "register"} => serve[i].cursor = last[TabOf(i)]
    /\ ServeAt(i, "ready") => serve[i].cursor # Nothing
    /\ ServeAt(i, "replay") =>
          Missing(i) \subseteq {history[n] : n \in serve[i].rest}
    /\ ServeAt(i, "open") => Missing(i) \subseteq Current(i)
    /\ ServeAt(i, "close") =>
          /\ Follows(TabOf(i), last[TabOf(i)])
          /\ i \in sub.to => Missing(i) \subseteq {sub.ev}

Setup == \A i \in Serves : SetupAt(i)

EventsInv == EventsBase /\ Away /\ Setup

ConnectionsInv == BotInv /\ EventsInv

-----------------------------------------------------------------------------
(* Facts.                                                                  *)

LEMMA LeastIn ==
    ASSUME NEW S \in SUBSET Nat, S # {}
    PROVE  Least(S) \in S
<1> DEFINE Less == {nm \in Nat \X Nat : nm[1] < nm[2]}
<1>1. IsWellFoundedOn(Less, Nat)
  BY NatLessThanWellFounded, Zenon DEF OpToRel
<1>2. PICK e \in S : \A d \in S : <<d, e>> \notin Less
  <2> HIDE DEF Less
  <2> QED BY <1>1, WFMin
<1>3. \A d \in S : e <= d
  <2>1. \A d \in S : d \in Nat /\ e \in Nat /\ ~ (d < e)
    BY <1>2
  <2> QED BY <2>1
<1> QED BY <1>3 DEF Least

LEMMA EventsFacts ==
    ASSUME EventsTypeOK
    PROVE  /\ MaxPublished \in Nat /\ MaxServes \in Nat /\ MaxUpsets \in Nat
           /\ HistoryLimit \in Nat /\ HistoryLimit > 0
           /\ Len(bus) \in Nat /\ Len(history) \in Nat
           /\ 1..Len(bus) \subseteq Published
           /\ \A n \in 1..Len(history) : history[n] \in Published
           /\ Nothing \notin Tabs /\ Nothing \notin Serves /\ Nothing \notin Published
           /\ \A i \in Serves : serve[i] \in Serving
           /\ sub \in Subscriber
<1>1. {MaxPublished, MaxServes, MaxUpsets} \subseteq Nat /\ HistoryLimit \in Nat \ {0}
  BY EventsAssumption
<1>2. Len(bus) \in Nat /\ Len(history) \in Nat /\ Len(bus) <= MaxPublished
  BY DEF EventsTypeOK
<1>3. \A n \in 1..Len(history) : history[n] \in Published
  BY DEF EventsTypeOK
<1>4. Nothing \notin Tabs /\ Nothing \notin Serves /\ Nothing \notin Published
  BY EventsAssumption DEF Nothing, Serves, Published
<1>5. 1..Len(bus) \subseteq Published
  BY <1>1, <1>2 DEF Published
<1> QED BY <1>1, <1>2, <1>3, <1>4, <1>5 DEF EventsTypeOK

LEMMA LinkFacts ==
    ASSUME EventsTypeOK, SocketInv, NEW i \in Serves
    PROVE  /\ Presented(i) => serve[i].ticket \in Serves /\ TabOf(i) \in Tabs
           /\ LinkUp(i) => InCall(i) /\ Presented(i)
           /\ InCall(i) <=> Presented(i) /\ ~ serve[i].closed
           /\ InCall(i) => serve[i].conn \in Conns
<1>1. /\ ServeAt(i, "none") <=> ~ Presented(i)
      /\ ServeAt(i, "done") <=> serve[i].closed
      /\ LinkUp(i) => InCall(i)
      /\ InCall(i) => serve[i].conn \in Conns
      /\ Presented(i) => ticket[serve[i].ticket].owner \in Tabs
  BY DEF SocketInv, Links
<1>2. Presented(i) => serve[i].ticket \in Serves
  BY EventsFacts DEF Serving, Presented
<1> QED BY <1>1, <1>2 DEF TabOf, InCall, ServeAt

(* A write reaches the tab of its own serve or nobody: the connection      *)
(* object of a serve that has not marked itself closed carries no other.   *)
LEMMA WriteReaches ==
    ASSUME EventsTypeOK, SocketInv, NEW i \in Serves, Presented(i),
           NEW e \in Published, WriteThrough(i, e), ~ Blocked(i)
    PROVE  /\ got' \in [Tabs -> SUBSET Published]
           /\ last' \in [Tabs -> Published \cup {Nothing}]
           /\ LinkUp(i) => got'[TabOf(i)] = got[TabOf(i)] \cup {e} /\ last'[TabOf(i)] = e
           /\ \A t \in Tabs : ~ LinkUp(i) \/ t # TabOf(i) =>
                 got'[t] = got[t] /\ last'[t] = last[t]
<1> DEFINE reached == {j \in Serves : ~ serve[i].closed
                                       /\ Carries(j, serve[i].conn)
                                       /\ serve[j].link = "up"}
<1>1. \A j \in Serves : ~ serve[i].closed /\ Carries(j, serve[i].conn) <=>
                        ~ serve[i].closed /\ j = i
  <2>1. ~ serve[i].closed => InCall(i)
    BY LinkFacts
  <2> QED BY <2>1 DEF Carries, InCall, SocketInv, Exclusive
<1>2. LinkUp(i) => ~ serve[i].closed /\ serve[i].link = "up"
  <2>1. LinkUp(i) => ~ serve[i].closed
    BY LinkFacts
  <2>2. serve[i].link \in {"up", "stalled", "broken"}
    BY EventsFacts DEF Serving
  <2> QED BY <1>1, <2>1, <2>2 DEF Blocked, LinkUp
<1>3. reached = IF LinkUp(i) THEN {i} ELSE {}
  BY <1>1, <1>2 DEF LinkUp
<1>4. /\ got' = [t \in Tabs |-> IF \E j \in reached : TabOf(j) = t
                                THEN got[t] \cup {e} ELSE got[t]]
      /\ last' = [t \in Tabs |-> IF \E j \in reached : TabOf(j) = t THEN e ELSE last[t]]
  BY DEF WriteThrough
<1>5. got \in [Tabs -> SUBSET Published] /\ last \in [Tabs -> Published \cup {Nothing}]
  BY DEF EventsTypeOK
<1>6. TabOf(i) \in Tabs
  BY LinkFacts
<1> HIDE DEF reached
<1>7. \A t \in Tabs : (\E j \in reached : TabOf(j) = t) <=> LinkUp(i) /\ t = TabOf(i)
  BY <1>3
<1> QED BY <1>4, <1>5, <1>6, <1>7

-----------------------------------------------------------------------------
(* Steps of one serve.                                                     *)

(* What every step of serve i after Consume does.                          *)
ServeStep(i, r) ==
    /\ ServeGoes(i, r)
    /\ InCall(i)
    /\ r.ticket = serve[i].ticket /\ r.conn = serve[i].conn
    /\ r.cursor = serve[i].cursor
    /\ r.pc # "none"
    /\ r.pc \in {"count", "register"} => serve[i].pc \in {"count", "register"}
    /\ r.closed <=> r.pc = "done"
    /\ r.link # "broken" => LinkUp(i) /\ r.pc # "done"
    /\ clients' = IF r.pc \in {"ready", "replay", "open"} THEN clients \cup {i}
                  ELSE clients \ {i}
    /\ owed' \in [Tabs -> SUBSET Published] /\ \A t \in Tabs : owed'[t] \subseteq owed[t]
    /\ UNCHANGED <<bus, pending, sub, history, ticket, evicted>>
    /\ upsets' \in 0..MaxUpsets

LEMMA ServeStepFacts ==
    ASSUME EventsTypeOK, SocketInv, NEW i \in Serves, NEW r \in Serving, ServeStep(i, r)
    PROVE  /\ serve' \in [Serves -> Serving]
           /\ \A j \in Serves : serve'[j] = IF j = i THEN r ELSE serve[j]
           /\ \A j \in Serves : /\ serve'[j].ticket = serve[j].ticket
                                /\ serve'[j].cursor = serve[j].cursor
                                /\ Presented(j)' <=> Presented(j)
                                /\ TabOf(j)' = TabOf(j)
                                /\ LinkUp(j)' => LinkUp(j)
                                /\ InCall(j)' => InCall(j)
           /\ LinkUp(i)' <=> r.link # "broken"
<1>1. /\ serve' \in [Serves -> Serving]
      /\ \A j \in Serves : serve'[j] = IF j = i THEN r ELSE serve[j]
  BY DEF ServeStep, ServeGoes, EventsTypeOK
<1>2. \A j \in Serves : /\ serve'[j].ticket = serve[j].ticket
                        /\ serve'[j].cursor = serve[j].cursor
  BY <1>1 DEF ServeStep
<1>3. \A j \in Serves : LinkUp(j)' => LinkUp(j)
  BY <1>1 DEF ServeStep, LinkUp
<1>4. \A j \in Serves : InCall(j)' => InCall(j)
  BY <1>1 DEF ServeStep, InCall
<1> QED BY <1>1, <1>2, <1>3, <1>4 DEF ServeStep, Presented, TabOf, LinkUp

LEMMA ServeKeepsSockets ==
    ASSUME EventsTypeOK, SocketInv, NEW i \in Serves, NEW r \in Serving, ServeStep(i, r)
    PROVE  SocketInv'
<1>1. /\ \A j \in Serves : serve'[j] = IF j = i THEN r ELSE serve[j]
      /\ \A j \in Serves : /\ serve'[j].ticket = serve[j].ticket
                           /\ Presented(j)' <=> Presented(j)
                           /\ TabOf(j)' = TabOf(j)
                           /\ LinkUp(j)' => LinkUp(j)
                           /\ InCall(j)' => InCall(j)
      /\ LinkUp(i)' <=> r.link # "broken"
  BY ServeStepFacts
<1>2. Presented(i) /\ ticket' = ticket
  BY LinkFacts DEF ServeStep
<1>3. Links'
  <2> SUFFICES ASSUME NEW j \in Serves
      PROVE /\ ServeAt(j, "none")' <=> ~ Presented(j)'
            /\ ServeAt(j, "done")' <=> serve'[j].closed
            /\ LinkUp(j)' => InCall(j)'
            /\ InCall(j)' => serve'[j].conn \in Conns
            /\ Presented(j)' => ticket'[serve'[j].ticket].owner \in Tabs
    BY DEF Links
  <2>1. /\ ServeAt(j, "none") <=> ~ Presented(j)
        /\ ServeAt(j, "done") <=> serve[j].closed
        /\ LinkUp(j) => InCall(j)
        /\ InCall(j) => serve[j].conn \in Conns
        /\ Presented(j) => ticket[serve[j].ticket].owner \in Tabs
    BY DEF SocketInv, Links
  <2>2. CASE j = i
    BY <1>1, <1>2, <2>1, <2>2 DEF ServeStep, ServeAt, InCall
  <2>3. CASE j # i
    BY <1>1, <1>2, <2>1, <2>3 DEF ServeAt, InCall, LinkUp
  <2> QED BY <2>2, <2>3
<1>4. Exclusive'
  BY <1>1 DEF SocketInv, Exclusive, ServeStep
<1>5. Used' /\ TicketOpensOnce'
  BY <1>1, <1>2 DEF SocketInv, Used, TicketOpensOnce, Presented
<1>6. OneUp'
  BY <1>1 DEF SocketInv, OneUp
<1>7. Registered'
  BY <1>1 DEF SocketInv, Registered, ServeStep
<1> QED BY <1>3, <1>4, <1>5, <1>6, <1>7 DEF SocketInv

LEMMA ServeKeepsBase ==
    ASSUME EventsBase, NEW i \in Serves, NEW r \in Serving, ServeStep(i, r),
           got' \in [Tabs -> SUBSET Published], \A t \in Tabs : got[t] \subseteq got'[t],
           last' \in [Tabs -> Published \cup {Nothing}],
           Origins', r.pc = "replay" => Replays(i)'
    PROVE  EventsBase'
<1>1. EventsTypeOK /\ SocketInv /\ InHand /\ Cursors
  BY DEF EventsBase
<1>2. /\ serve' \in [Serves -> Serving]
      /\ \A j \in Serves : serve'[j] = IF j = i THEN r ELSE serve[j]
      /\ \A j \in Serves : /\ serve'[j].cursor = serve[j].cursor
                           /\ Presented(j)' <=> Presented(j)
                           /\ TabOf(j)' = TabOf(j)
  BY <1>1, ServeStepFacts
<1>3. SocketInv'
  BY <1>1, ServeKeepsSockets
<1>4. clients' \in SUBSET Serves
  BY <1>1 DEF ServeStep, EventsTypeOK
<1>5. EventsTypeOK'
  BY <1>1, <1>2, <1>4 DEF EventsTypeOK, ServeStep
<1>6. UNCHANGED <<bus, pending, sub, history, ticket, evicted>>
  BY DEF ServeStep
<1>7. InHand'
  <2>1. /\ sub'.next <= Len(bus') + 1
        /\ pending' \subseteq 1..Len(bus')
        /\ sub'.todo \subseteq 1..Len(bus')
        /\ SubAt("append")' \/ SubAt("snapshot")' \/ SubAt("write")' => sub'.ev \in sub'.todo
        /\ SubAt("snapshot")' \/ SubAt("write")' =>
              history' # <<>> /\ history'[Len(history')] = sub'.ev
        /\ ~ SubAt("write")' => sub'.to = {}
    BY <1>1, <1>6 DEF InHand, SubAt
  <2>2. sub.to \subseteq Serves
    BY <1>1, EventsFacts DEF Subscriber
  <2>3. \A j \in sub.to : Presented(j)' /\ Sees(UserOf[TabOf(j)], sub.ev)'
    BY <1>1, <1>2, <1>6, <2>2 DEF InHand, Sees
  <2>4. \A j \in sub.to : serve'[j].pc \notin {"count", "register"}
    BY <1>1, <1>2, <2>2 DEF InHand, ServeStep
  <2> QED BY <1>6, <2>1, <2>3, <2>4 DEF InHand
<1>8. Cursors'
  <2> SUFFICES ASSUME NEW j \in Serves, Presented(j)
      PROVE /\ serve'[j].cursor # Nothing =>
                serve'[j].cursor \in got'[TabOf(j)'] \cap (Held(history') \cup evicted')
            /\ ServeAt(j, "replay")' => Replays(j)'
    BY <1>2 DEF Cursors
  <2>1. TabOf(j) \in Tabs
    BY <1>1, LinkFacts
  <2>2. serve[j].cursor # Nothing =>
           serve[j].cursor \in got[TabOf(j)] \cap (Held(history) \cup evicted)
    BY <1>1 DEF Cursors
  <2>3. serve'[j].cursor # Nothing =>
           serve'[j].cursor \in got'[TabOf(j)'] \cap (Held(history') \cup evicted')
    BY <1>2, <1>6, <2>1, <2>2 DEF Held
  <2>4. CASE j = i
    BY <1>2, <2>3, <2>4 DEF ServeAt
  <2>5. CASE j # i
    <3>1. ServeAt(j, "replay") => Replays(j)
      BY <1>1 DEF Cursors
    <3>2. serve'[j] = serve[j] /\ TabOf(j)' = TabOf(j)
      BY <1>2, <2>5
    <3> QED BY <1>6, <2>3, <3>1, <3>2 DEF Replays, ServeAt, Sees
  <2> QED BY <2>4, <2>5
<1> QED BY <1>3, <1>5, <1>7, <1>8 DEF EventsBase

(* A tab that is owed less or has received more still finds it all after c. *)
LEMMA FollowsLess ==
    ASSUME NEW t \in Tabs, UNCHANGED <<history, evicted>>,
           owed'[t] \ got'[t] \subseteq owed[t] \ got[t]
    PROVE  \A c : Follows(t, c) => Follows(t, c)'
<1> SUFFICES ASSUME NEW c, Follows(t, c) PROVE Follows(t, c)'
  OBVIOUS
<1> QED BY DEF Follows, Held

(* A step of serve i says what it does to i; the other sockets and tabs    *)
(* are left alone.                                                         *)
LEMMA ServeKeeps ==
    ASSUME EventsInv, NEW i \in Serves, NEW r \in Serving, ServeStep(i, r),
           got' \in [Tabs -> SUBSET Published], \A t \in Tabs : got[t] \subseteq got'[t],
           last' \in [Tabs -> Published \cup {Nothing}],
           Origins', r.pc = "replay" => Replays(i)',
           \A t \in Tabs : ~ LinkUp(i) \/ t # TabOf(i) => last'[t] = last[t],
           SetupAt(i)',
           LinkUp(i) /\ r.link = "broken" => Follows(TabOf(i), last[TabOf(i)])'
    PROVE  EventsInv'
<1>1. EventsBase /\ EventsTypeOK /\ SocketInv /\ Away /\ Setup
  BY DEF EventsInv, EventsBase
<1>2. EventsBase'
  BY <1>1, ServeKeepsBase
<1>3. /\ \A j \in Serves : serve'[j] = IF j = i THEN r ELSE serve[j]
      /\ \A j \in Serves : /\ serve'[j].cursor = serve[j].cursor
                           /\ Presented(j)' <=> Presented(j)
                           /\ TabOf(j)' = TabOf(j)
                           /\ LinkUp(j)' => LinkUp(j)
      /\ LinkUp(i)' <=> r.link # "broken"
  BY <1>1, ServeStepFacts
<1>4. /\ UNCHANGED <<bus, pending, sub, history, ticket, evicted>>
      /\ \A t \in Tabs : owed'[t] \ got'[t] \subseteq owed[t] \ got[t]
  BY DEF ServeStep
<1>5. \A t \in Tabs : \A c : Follows(t, c) => Follows(t, c)'
  BY <1>4, FollowsLess
<1>6. Away'
  <2> SUFFICES ASSUME NEW t \in Tabs, \A j \in Serves : LinkUp(j)' => TabOf(j) # t
               PROVE  Follows(t, last[t])'
    BY <1>3 DEF Away
  <2>1. CASE LinkUp(i) /\ TabOf(i) = t
    <3>1. r.link = "broken"
      BY <1>3, <2>1
    <3>2. TabOf(i)' = t
      BY <1>3, <2>1
    <3> QED BY <2>1, <3>1, <3>2
  <2>2. CASE ~ (LinkUp(i) /\ TabOf(i) = t)
    <3>1. \A j \in Serves : LinkUp(j) => TabOf(j) # t
      BY <1>3, <2>2 DEF LinkUp
    <3>2. Follows(t, last[t]) /\ last'[t] = last[t]
      BY <1>1, <2>2, <3>1 DEF Away
    <3>3. PICK c : Follows(t, c) /\ c = last[t]
      BY <3>2
    <3>4. Follows(t, c)' /\ c = last'[t]
      BY <1>5, <3>2, <3>3
    <3> QED BY <3>4 DEF Follows
  <2> QED BY <2>1, <2>2
<1>7. Setup'
  <2> SUFFICES ASSUME NEW j \in Serves, j # i PROVE SetupAt(j)'
    BY DEF Setup
  <2> SUFFICES ASSUME LinkUp(j)' PROVE SetupAt(j)'
    BY DEF SetupAt
  <2>1. /\ LinkUp(j) /\ TabOf(j) \in Tabs /\ serve'[j] = serve[j]
        /\ TabOf(j)' = TabOf(j) /\ SetupAt(j)
    BY <1>1, <1>3, LinkFacts DEF Setup
  <2>2. last'[TabOf(j)] = last[TabOf(j)]
    BY <1>1, <2>1 DEF SocketInv, OneUp
  <2>3. Missing(j)' \subseteq Missing(j) /\ Current(j)' = Current(j)
    BY <1>4, <2>1 DEF Missing, Current, SubAt
  <2>4. Follows(TabOf(j), serve[j].cursor) => Follows(TabOf(j), serve[j].cursor)'
    <3>1. \A c : Follows(TabOf(j), c) /\ c = serve[j].cursor =>
                 Follows(TabOf(j), serve[j].cursor)'
      BY <1>4, <2>1 DEF Follows, Held
    <3> QED BY <3>1
  <2>5. Follows(TabOf(j), last[TabOf(j)]) => Follows(TabOf(j), last[TabOf(j)])'
    BY <1>4, <2>1, <2>2 DEF Follows, Held
  <2> QED BY <1>4, <2>1, <2>2, <2>3, <2>4, <2>5 DEF SetupAt, ServeAt
<1> QED BY <1>2, <1>6, <1>7 DEF EventsInv

(* The tabs receive nothing in the step.                                   *)
LEMMA QuietServeKeeps ==
    ASSUME EventsInv, NEW i \in Serves, NEW r \in Serving, ServeStep(i, r),
           UNCHANGED <<got, last>>,
           r.pc = "replay" => Replays(i)',
           SetupAt(i)',
           LinkUp(i) /\ r.link = "broken" => Follows(TabOf(i), last[TabOf(i)])'
    PROVE  EventsInv'
<1>1. /\ got' \in [Tabs -> SUBSET Published] /\ \A t \in Tabs : got[t] \subseteq got'[t]
      /\ last' \in [Tabs -> Published \cup {Nothing}]
      /\ \A t \in Tabs : last'[t] = last[t]
  BY DEF EventsInv, EventsBase, EventsTypeOK
<1>2. /\ UNCHANGED <<bus, history, evicted>>
      /\ \A t \in Tabs : owed'[t] \subseteq owed[t]
  BY DEF ServeStep
<1>3. Origins'
  BY <1>2 DEF EventsInv, EventsBase, Origins, Sees, Held
<1> QED BY <1>1, <1>3, ServeKeeps

(* What is open misses at most the event in hand, which is the last of the *)
(* history.                                                                *)
LEMMA OpenFollows ==
    ASSUME EventsInv, NEW i \in Serves, LinkUp(i), ServeAt(i, "open")
    PROVE  /\ Follows(TabOf(i), last[TabOf(i)])
           /\ i \in sub.to => Missing(i) \subseteq {sub.ev}
<1>1. Missing(i) \subseteq Current(i)
  BY DEF EventsInv, Setup, SetupAt
<1>2. TabOf(i) \in Tabs
  BY LinkFacts DEF EventsInv, EventsBase
<1>3. i \in sub.to => Missing(i) \subseteq {sub.ev}
  BY <1>1 DEF Current
<1>4. Follows(TabOf(i), last[TabOf(i)])
  <2> DEFINE c == last[TabOf(i)]
  <2> SUFFICES ASSUME c \in Held(history), NEW e \in Missing(i)
      PROVE \E m, n \in 1..Len(history) : m < n /\ history[m] = c /\ history[n] = e
    BY DEF Follows, Missing
  <2>1. e = sub.ev /\ (SubAt("snapshot") \/ i \in sub.to)
    BY <1>1 DEF Current
  <2>2. /\ history # <<>> /\ history[Len(history)] = e
        /\ history \in Seq(Published)
    BY <2>1 DEF EventsInv, EventsBase, EventsTypeOK, InHand
  <2>3. Len(history) \in Nat /\ Len(history) > 0
    BY <2>2
  <2>4. PICK m \in 1..Len(history) : history[m] = c
    BY DEF Held
  <2>5. c # Nothing
    BY EventsFacts DEF Held, EventsInv, EventsBase
  <2>6. c \in got[TabOf(i)] /\ e \notin got[TabOf(i)]
    BY <1>2, <2>5 DEF EventsInv, EventsBase, Origins, Missing
  <2>7. m < Len(history) /\ Len(history) \in 1..Len(history)
    BY <2>2, <2>3, <2>4, <2>6
  <2> QED BY <2>2, <2>4, <2>7
<1> QED BY <1>3, <1>4

(* A socket that breaks before its replay has brought anything newer       *)
(* leaves its tab with all it misses after the last event.                 *)
LEMMA BrokenFollows ==
    ASSUME EventsInv, NEW i \in Serves, LinkUp(i),
           serve[i].pc \in {"ready", "replay"} => last[TabOf(i)] = serve[i].cursor
    PROVE  Follows(TabOf(i), last[TabOf(i)])
<1>1. SetupAt(i) /\ InCall(i) /\ Presented(i)
  BY LinkFacts DEF EventsInv, EventsBase, Setup
<1>2. serve[i] \in Serving
  BY EventsFacts DEF EventsInv, EventsBase
<1>3. CASE serve[i].pc \in {"count", "register", "ready"}
  BY <1>1, <1>3 DEF SetupAt
<1>4. CASE ServeAt(i, "open")
  BY <1>4, OpenFollows
<1>5. CASE ServeAt(i, "close")
  BY <1>1, <1>5 DEF SetupAt
<1>6. CASE ServeAt(i, "replay")
  <2>1. Missing(i) \subseteq {history[n] : n \in serve[i].rest} /\ Replays(i)
    BY <1>1, <1>6 DEF SetupAt, EventsInv, EventsBase, Cursors
  <2>2. last[TabOf(i)] = serve[i].cursor
    BY <1>6 DEF ServeAt
  <2>3. ASSUME NEW e \in Missing(i)
        PROVE \E m, n \in 1..Len(history) :
                 m < n /\ history[m] = serve[i].cursor /\ history[n] = e
    <3>1. PICK n \in serve[i].rest : history[n] = e
      BY <2>1
    <3>2. /\ n \in 1..Len(history)
          /\ \E m \in 1..(n - 1) : history[m] = serve[i].cursor
      BY <2>1, <3>1 DEF Replays
    <3>3. PICK m \in 1..(n - 1) : history[m] = serve[i].cursor
      BY <3>2
    <3>4. Len(history) \in Nat
      BY EventsFacts DEF EventsInv, EventsBase
    <3>5. m \in 1..Len(history) /\ m < n
      BY <3>2, <3>3, <3>4
    <3> QED BY <3>1, <3>2, <3>3, <3>5
  <2> QED BY <2>2, <2>3 DEF Follows, Missing
<1> QED BY <1>1, <1>2, <1>3, <1>4, <1>5, <1>6 DEF Serving, InCall, ServeAt

(* The shape of a serve that takes a step.                                 *)
LEMMA ServeFacts ==
    ASSUME EventsInv, NEW i \in Serves
    PROVE  /\ EventsTypeOK /\ SocketInv /\ SetupAt(i) /\ serve[i] \in Serving
           /\ i \in clients <=> serve[i].pc \in {"ready", "replay", "open"}
           /\ InCall(i) => ~ serve[i].closed /\ TabOf(i) \in Tabs
           /\ LinkUp(i) => InCall(i)
           /\ owed \in [Tabs -> SUBSET Published] /\ clients \in SUBSET Serves
           /\ upsets \in 0..MaxUpsets
<1>1. EventsTypeOK /\ SocketInv /\ SetupAt(i)
  BY DEF EventsInv, EventsBase, Setup
<1>2. serve[i] \in Serving
  BY <1>1, EventsFacts
<1>3. i \in clients <=> serve[i].pc \in {"ready", "replay", "open"}
  BY <1>1 DEF SocketInv, Registered
<1>4. InCall(i) => ~ serve[i].closed /\ TabOf(i) \in Tabs
  BY <1>1, LinkFacts
<1>5. LinkUp(i) => InCall(i)
  BY <1>1, LinkFacts
<1> QED BY <1>1, <1>2, <1>3, <1>4, <1>5 DEF EventsTypeOK

LEMMA CountKeeps ==
    ASSUME EventsInv, NEW i \in Serves, CountConnections(i)
    PROVE  EventsInv'
<1> DEFINE full == [serve[i] EXCEPT !.pc = "close", !.link = "broken"]
<1> DEFINE room == [serve[i] EXCEPT !.pc = "register"]
<1>1. /\ serve[i].pc = "count" /\ (ServeGoes(i, full) \/ ServeGoes(i, room))
      /\ UNCHANGED <<bus, pending, sub, history, clients, ticket, got, last, owed,
                     evicted, upsets>>
  BY DEF CountConnections, ServeAt
<1>2. InCall(i) /\ serve[i] \in Serving /\ i \notin clients /\ ~ serve[i].closed
  BY <1>1, ServeFacts DEF InCall
<1>3. /\ full \in Serving /\ full.pc = "close" /\ full.link = "broken"
      /\ full.ticket = serve[i].ticket /\ full.conn = serve[i].conn
      /\ full.cursor = serve[i].cursor /\ full.closed = serve[i].closed
  BY <1>2 DEF Serving
<1>4. /\ room \in Serving /\ room.pc = "register" /\ room.link = serve[i].link
      /\ room.ticket = serve[i].ticket /\ room.conn = serve[i].conn
      /\ room.cursor = serve[i].cursor /\ room.closed = serve[i].closed
  BY <1>2 DEF Serving
<1> HIDE DEF full, room
<1>5. owed \in [Tabs -> SUBSET Published] /\ upsets \in 0..MaxUpsets
  BY ServeFacts
<1>6. CASE ServeGoes(i, full)
  <2>1. ServeStep(i, full)
    BY <1>1, <1>2, <1>3, <1>5, <1>6 DEF ServeStep
  <2>2. LinkUp(i) => Follows(TabOf(i), last[TabOf(i)])
    BY <1>1, BrokenFollows
  <2>3. serve'[i] = full /\ TabOf(i)' = TabOf(i)
    BY <1>3, <2>1, ServeStepFacts, ServeFacts
  <2>4. SetupAt(i)'
    BY <1>3, <2>3 DEF SetupAt, LinkUp
  <2>5. LinkUp(i) => Follows(TabOf(i), last[TabOf(i)])'
    BY <1>1, <2>2, <2>3 DEF Follows, Held
  <2> QED BY <1>1, <1>3, <2>1, <2>4, <2>5, QuietServeKeeps
<1>7. CASE ServeGoes(i, room)
  <2>1. ServeStep(i, room)
    BY <1>1, <1>2, <1>4, <1>5, <1>7 DEF ServeStep, LinkUp
  <2>2. serve'[i] = room /\ TabOf(i)' = TabOf(i)
    BY <1>4, <2>1, ServeStepFacts, ServeFacts
  <2>3. SetupAt(i)'
    <3>1. LinkUp(i)' => /\ Follows(TabOf(i), serve[i].cursor)
                        /\ serve[i].cursor = last[TabOf(i)]
      BY <1>1, <1>4, <2>2, ServeFacts DEF SetupAt, LinkUp
    <3>2. LinkUp(i)' => Follows(TabOf(i), serve[i].cursor)'
      BY <1>1, <1>4, <2>2, <3>1 DEF Follows, Held
    <3> QED BY <1>1, <1>4, <2>2, <3>1, <3>2 DEF SetupAt, ServeAt
  <2> QED BY <1>1, <1>4, <2>1, <2>3, QuietServeKeeps DEF LinkUp
<1> QED BY <1>1, <1>6, <1>7

LEMMA RegisterKeeps ==
    ASSUME EventsInv, NEW i \in Serves, RegisterClient(i)
    PROVE  EventsInv'
<1> DEFINE r == [serve[i] EXCEPT
                   !.pc = IF serve[i].cursor = Nothing THEN "open" ELSE "ready"]
<1>1. /\ serve[i].pc = "register" /\ ServeGoes(i, r) /\ clients' = clients \cup {i}
      /\ owed' = IF serve[i].cursor = Nothing
                 THEN [owed EXCEPT ![TabOf(i)] = {}] ELSE owed
      /\ UNCHANGED <<bus, pending, sub, history, ticket, got, last, evicted, upsets>>
  BY DEF RegisterClient, ServeAt
<1>2. /\ InCall(i) /\ serve[i] \in Serving /\ ~ serve[i].closed /\ TabOf(i) \in Tabs
      /\ owed \in [Tabs -> SUBSET Published] /\ upsets \in 0..MaxUpsets
  BY <1>1, ServeFacts DEF InCall
<1>3. /\ r \in Serving
      /\ r.pc = IF serve[i].cursor = Nothing THEN "open" ELSE "ready"
      /\ r.link = serve[i].link
      /\ r.ticket = serve[i].ticket /\ r.conn = serve[i].conn
      /\ r.cursor = serve[i].cursor /\ r.closed = serve[i].closed
  BY <1>2 DEF Serving
<1> HIDE DEF r
<1>4. owed' \in [Tabs -> SUBSET Published] /\ \A t \in Tabs : owed'[t] \subseteq owed[t]
  BY <1>1, <1>2
<1>5. ServeStep(i, r)
  BY <1>1, <1>2, <1>3, <1>4 DEF ServeStep, LinkUp
<1>6. serve'[i] = r /\ TabOf(i)' = TabOf(i)
  BY <1>3, <1>5, ServeStepFacts, ServeFacts
<1>7. SetupAt(i)'
  <2>1. CASE serve[i].cursor = Nothing
    <3>1. Missing(i)' = {}
      BY <1>1, <1>2, <1>6, <2>1 DEF Missing
    <3> QED BY <1>3, <1>6, <2>1, <3>1 DEF SetupAt, ServeAt
  <2>2. CASE serve[i].cursor # Nothing
    <3>1. LinkUp(i)' => Follows(TabOf(i), serve[i].cursor)
      BY <1>1, <1>3, <1>6, ServeFacts DEF SetupAt, LinkUp
    <3>2. LinkUp(i)' => Follows(TabOf(i), serve[i].cursor)'
      BY <1>1, <1>3, <1>6, <2>2, <3>1 DEF Follows, Held
    <3> QED BY <1>3, <1>6, <2>2, <3>2 DEF SetupAt, ServeAt
  <2> QED BY <2>1, <2>2
<1> QED BY <1>1, <1>3, <1>5, <1>7, QuietServeKeeps DEF LinkUp

LEMMA BeginReplayKeeps ==
    ASSUME EventsInv, NEW i \in Serves, BeginReplay(i)
    PROVE  EventsInv'
<1> DEFINE c == serve[i].cursor
<1> DEFINE places == ReplayAfter(c, UserOf[TabOf(i)])
<1> DEFINE r == [serve[i] EXCEPT !.pc = "replay", !.rest = places]
<1>1. /\ serve[i].pc = "ready" /\ ServeGoes(i, r)
      /\ owed' = IF c \in Held(history) \ evicted THEN owed
                 ELSE [owed EXCEPT ![TabOf(i)] = {}]
      /\ UNCHANGED <<bus, pending, sub, history, clients, ticket, got, last, evicted,
                     upsets>>
  BY DEF BeginReplay, ServeAt
<1>2. /\ InCall(i) /\ serve[i] \in Serving /\ ~ serve[i].closed /\ TabOf(i) \in Tabs
      /\ i \in clients
      /\ owed \in [Tabs -> SUBSET Published] /\ upsets \in 0..MaxUpsets
  BY <1>1, ServeFacts DEF InCall
<1>3. places \subseteq 1..HistoryLimit
  <2>1. Len(history) \in Nat /\ HistoryLimit \in Nat /\ Len(history) <= HistoryLimit
    BY EventsFacts DEF EventsInv, EventsBase, EventsTypeOK
  <2> QED BY <2>1 DEF ReplayAfter
<1>4. \A n \in places : /\ n \in 1..Len(history)
                        /\ \E m \in 1..(n - 1) : history[m] = c
                        /\ Sees(UserOf[TabOf(i)], history[n])
  BY DEF ReplayAfter
<1>5. \A n \in 1..Len(history) :
         /\ history[n] # c
         /\ \E m \in 1..(n - 1) : history[m] = c
         /\ Sees(UserOf[TabOf(i)], history[n])
         => n \in places
  BY DEF ReplayAfter
<1> HIDE DEF places
<1>6. /\ r \in Serving /\ r.pc = "replay" /\ r.rest = places /\ r.link = serve[i].link
      /\ r.ticket = serve[i].ticket /\ r.conn = serve[i].conn
      /\ r.cursor = serve[i].cursor /\ r.closed = serve[i].closed
  BY <1>2, <1>3 DEF Serving
<1> HIDE DEF r
<1>7. owed' \in [Tabs -> SUBSET Published] /\ \A t \in Tabs : owed'[t] \subseteq owed[t]
  BY <1>1, <1>2
<1>8. ServeStep(i, r)
  BY <1>1, <1>2, <1>6, <1>7 DEF ServeStep, LinkUp
<1>9. serve'[i] = r /\ TabOf(i)' = TabOf(i)
  BY <1>6, <1>8, ServeStepFacts, ServeFacts
<1>10. Replays(i)'
  BY <1>1, <1>4, <1>6, <1>9 DEF Replays, Sees
<1>11. SetupAt(i)'
  <2> SUFFICES ASSUME LinkUp(i)', NEW e \in Missing(i)'
      PROVE  \E n \in places : history[n] = e
    BY <1>1, <1>6, <1>9 DEF SetupAt, ServeAt
  <2>1. c \in Held(history) \ evicted /\ e \in Missing(i)
    BY <1>1, <1>2, <1>9 DEF Missing
  <2>2. LinkUp(i) /\ Follows(TabOf(i), c)
    BY <1>1, <1>6, <1>9, ServeFacts DEF SetupAt, LinkUp
  <2>3. PICK m, n \in 1..Len(history) : m < n /\ history[m] = c /\ history[n] = e
    BY <2>1, <2>2 DEF Follows, Missing
  <2>4. e # c
    <3>1. c # Nothing /\ Presented(i)
      BY <1>1, <2>2, ServeFacts, LinkFacts DEF SetupAt, ServeAt
    <3>2. c \in got[TabOf(i)]
      BY <3>1 DEF EventsInv, EventsBase, Cursors
    <3> QED BY <2>1, <3>2 DEF Missing
  <2>5. Sees(UserOf[TabOf(i)], e)
    BY <1>2, <2>1 DEF EventsInv, EventsBase, Origins, Missing
  <2>6. m \in 1..(n - 1)
    BY <2>3, EventsFacts DEF EventsInv, EventsBase
  <2> QED BY <1>5, <2>3, <2>4, <2>5, <2>6
<1> QED BY <1>1, <1>6, <1>8, <1>10, <1>11, QuietServeKeeps DEF LinkUp

LEMMA EndReplayKeeps ==
    ASSUME EventsInv, NEW i \in Serves, EndReplay(i)
    PROVE  EventsInv'
<1> DEFINE r == [serve[i] EXCEPT !.pc = "open"]
<1>1. /\ serve[i].pc = "replay" /\ serve[i].rest = {} /\ ServeGoes(i, r)
      /\ UNCHANGED <<bus, pending, sub, history, clients, ticket, got, last, owed,
                     evicted, upsets>>
  BY DEF EndReplay, ServeAt
<1>2. /\ InCall(i) /\ serve[i] \in Serving /\ ~ serve[i].closed /\ i \in clients
      /\ owed \in [Tabs -> SUBSET Published] /\ upsets \in 0..MaxUpsets
  BY <1>1, ServeFacts DEF InCall
<1>3. /\ r \in Serving /\ r.pc = "open" /\ r.link = serve[i].link
      /\ r.ticket = serve[i].ticket /\ r.conn = serve[i].conn
      /\ r.cursor = serve[i].cursor /\ r.closed = serve[i].closed
  BY <1>2 DEF Serving
<1> HIDE DEF r
<1>4. ServeStep(i, r)
  BY <1>1, <1>2, <1>3 DEF ServeStep, LinkUp
<1>5. serve'[i] = r /\ TabOf(i)' = TabOf(i)
  BY <1>3, <1>4, ServeStepFacts, ServeFacts
<1>6. LinkUp(i) => Missing(i) = {}
  BY <1>1, ServeFacts DEF SetupAt, ServeAt
<1>7. SetupAt(i)'
  <2>1. LinkUp(i)' => Missing(i)' = {}
    BY <1>1, <1>3, <1>5, <1>6 DEF LinkUp, Missing
  <2> QED BY <1>3, <1>5, <2>1 DEF SetupAt, ServeAt
<1> QED BY <1>1, <1>3, <1>4, <1>7, QuietServeKeeps DEF LinkUp

LEMMA UnregisterKeeps ==
    ASSUME EventsInv, NEW i \in Serves, UnregisterClient(i)
    PROVE  EventsInv'
<1> DEFINE r == [serve[i] EXCEPT !.pc = "close"]
<1>1. /\ serve[i].pc = "open" /\ ServeGoes(i, r) /\ clients' = clients \ {i}
      /\ UNCHANGED <<bus, pending, sub, history, ticket, got, last, owed, evicted, upsets>>
  BY DEF UnregisterClient, ServeAt
<1>2. /\ InCall(i) /\ serve[i] \in Serving /\ ~ serve[i].closed
      /\ owed \in [Tabs -> SUBSET Published] /\ upsets \in 0..MaxUpsets
  BY <1>1, ServeFacts DEF InCall
<1>3. /\ r \in Serving /\ r.pc = "close" /\ r.link = serve[i].link
      /\ r.ticket = serve[i].ticket /\ r.conn = serve[i].conn
      /\ r.cursor = serve[i].cursor /\ r.closed = serve[i].closed
  BY <1>2 DEF Serving
<1> HIDE DEF r
<1>4. ServeStep(i, r)
  BY <1>1, <1>2, <1>3 DEF ServeStep, LinkUp
<1>5. serve'[i] = r /\ TabOf(i)' = TabOf(i)
  BY <1>3, <1>4, ServeStepFacts, ServeFacts
<1>6. LinkUp(i) => /\ Follows(TabOf(i), last[TabOf(i)])
                   /\ i \in sub.to => Missing(i) \subseteq {sub.ev}
  BY <1>1, OpenFollows DEF ServeAt
<1>7. SetupAt(i)'
  <2>1. LinkUp(i)' => Follows(TabOf(i), last[TabOf(i)])'
    BY <1>1, <1>3, <1>5, <1>6 DEF LinkUp, Follows, Held
  <2>2. LinkUp(i)' => (i \in sub'.to => Missing(i)' \subseteq {sub'.ev})
    BY <1>1, <1>3, <1>5, <1>6 DEF LinkUp, Missing
  <2> QED BY <1>3, <1>5, <2>1, <2>2 DEF SetupAt, ServeAt
<1> QED BY <1>1, <1>3, <1>4, <1>7, QuietServeKeeps DEF LinkUp

LEMMA MarkClosedKeeps ==
    ASSUME EventsInv, NEW i \in Serves, MarkClosed(i)
    PROVE  EventsInv'
<1> DEFINE r == [serve[i] EXCEPT !.pc = "done", !.closed = TRUE, !.link = "broken"]
<1>1. /\ serve[i].pc = "close" /\ ServeGoes(i, r)
      /\ UNCHANGED <<bus, pending, sub, history, clients, ticket, got, last, owed,
                     evicted, upsets>>
  BY DEF MarkClosed, ServeAt
<1>2. /\ InCall(i) /\ serve[i] \in Serving /\ i \notin clients
      /\ owed \in [Tabs -> SUBSET Published] /\ upsets \in 0..MaxUpsets
  BY <1>1, ServeFacts DEF InCall
<1>3. /\ r \in Serving /\ r.pc = "done" /\ r.link = "broken"
      /\ r.ticket = serve[i].ticket /\ r.conn = serve[i].conn
      /\ r.cursor = serve[i].cursor /\ r.closed = TRUE
  BY <1>2 DEF Serving
<1> HIDE DEF r
<1>4. ServeStep(i, r)
  BY <1>1, <1>2, <1>3 DEF ServeStep
<1>5. serve'[i] = r /\ TabOf(i)' = TabOf(i)
  BY <1>3, <1>4, ServeStepFacts, ServeFacts
<1>6. SetupAt(i)'
  BY <1>3, <1>5 DEF SetupAt, LinkUp
<1>7. LinkUp(i) => Follows(TabOf(i), last[TabOf(i)])
  BY <1>1, ServeFacts DEF SetupAt, ServeAt
<1>8. LinkUp(i) => Follows(TabOf(i), last[TabOf(i)])'
  BY <1>1, <1>5, <1>7 DEF Follows, Held
<1> QED BY <1>1, <1>3, <1>4, <1>6, <1>8, QuietServeKeeps

(* One more event of the history goes to the tab.                          *)
LEMMA WriteReplayedKeeps ==
    ASSUME EventsInv, NEW i \in Serves, WriteReplayed(i)
    PROVE  EventsInv'
<1> DEFINE n == Least(serve[i].rest)
<1> DEFINE r == [serve[i] EXCEPT !.rest = @ \ {n}]
<1>1. /\ serve[i].pc = "replay" /\ serve[i].rest # {} /\ ~ Blocked(i)
      /\ WriteThrough(i, history[n]) /\ ServeGoes(i, r)
      /\ UNCHANGED <<bus, pending, sub, history, clients, ticket, owed, evicted, upsets>>
  BY DEF WriteReplayed, ServeAt
<1>2. /\ InCall(i) /\ serve[i] \in Serving /\ ~ serve[i].closed /\ TabOf(i) \in Tabs
      /\ i \in clients /\ EventsTypeOK /\ SocketInv
      /\ owed \in [Tabs -> SUBSET Published] /\ upsets \in 0..MaxUpsets
  BY <1>1, ServeFacts DEF InCall
<1>3. n \in serve[i].rest
  <2>1. serve[i].rest \subseteq Nat
    BY <1>2 DEF Serving
  <2> QED BY <1>1, <2>1, LeastIn
<1> HIDE DEF n
<1>4. /\ r \in Serving /\ r.pc = "replay" /\ r.rest = serve[i].rest \ {n}
      /\ r.link = serve[i].link
      /\ r.ticket = serve[i].ticket /\ r.conn = serve[i].conn
      /\ r.cursor = serve[i].cursor /\ r.closed = serve[i].closed
  BY <1>1, <1>2 DEF Serving
<1> HIDE DEF r
<1>5. Presented(i) /\ Replays(i)
  BY <1>1, <1>2, LinkFacts DEF EventsInv, EventsBase, Cursors, ServeAt
<1>6. n \in 1..Len(history) /\ Sees(UserOf[TabOf(i)], history[n]) /\ history[n] \in Published
  BY <1>2, <1>3, <1>5, EventsFacts DEF Replays
<1>7. /\ got' \in [Tabs -> SUBSET Published]
      /\ last' \in [Tabs -> Published \cup {Nothing}]
      /\ LinkUp(i) => /\ got'[TabOf(i)] = got[TabOf(i)] \cup {history[n]}
                      /\ last'[TabOf(i)] = history[n]
      /\ \A t \in Tabs : ~ LinkUp(i) \/ t # TabOf(i) =>
            got'[t] = got[t] /\ last'[t] = last[t]
  BY <1>1, <1>2, <1>5, <1>6, WriteReaches
<1>8. \A t \in Tabs : got[t] \subseteq got'[t]
  BY <1>7
<1>9. ServeStep(i, r)
  BY <1>1, <1>2, <1>4 DEF ServeStep, LinkUp
<1>10. serve'[i] = r /\ TabOf(i)' = TabOf(i)
  BY <1>2, <1>4, <1>9, ServeStepFacts
<1>11. Origins'
  <2>1. Origins
    BY DEF EventsInv, EventsBase
  <2>2. history[n] \in 1..Len(bus) /\ history[n] \in Held(history)
    BY <1>6, <2>1 DEF Origins, Held
  <2>3. \A t \in Tabs :
          /\ got'[t] \cup owed'[t] \subseteq {e \in 1..Len(bus) : Sees(UserOf[t], e)}
          /\ last'[t] # Nothing => last'[t] \in got'[t] \cap (Held(history) \cup evicted)
    <3> TAKE t \in Tabs
    <3>1. CASE LinkUp(i) /\ t = TabOf(i)
      BY <1>1, <1>6, <1>7, <2>1, <2>2, <3>1 DEF Origins
    <3>2. CASE ~ (LinkUp(i) /\ t = TabOf(i))
      BY <1>1, <1>7, <2>1, <3>2 DEF Origins
    <3> QED BY <3>1, <3>2
  <2> QED BY <1>1, <2>1, <2>3 DEF Origins, Held, Sees
<1>12. Replays(i)'
  BY <1>1, <1>4, <1>5, <1>10 DEF Replays, Sees
<1>13. SetupAt(i)'
  <2> SUFFICES ASSUME LinkUp(i)', NEW e \in Missing(i)'
      PROVE  \E m \in r.rest : history[m] = e
    BY <1>1, <1>4, <1>10 DEF SetupAt, ServeAt
  <2>1. LinkUp(i)
    BY <1>4, <1>10 DEF LinkUp
  <2>2. e \in Missing(i) /\ e # history[n]
    BY <1>1, <1>7, <1>10, <2>1 DEF Missing
  <2>3. Missing(i) \subseteq {history[m] : m \in serve[i].rest}
    BY <1>1, <2>1, ServeFacts DEF SetupAt, ServeAt
  <2> QED BY <1>4, <2>2, <2>3
<1>14. ~ (LinkUp(i) /\ r.link = "broken")
  BY <1>4 DEF LinkUp
<1> QED BY <1>4, <1>7, <1>8, <1>9, <1>11, <1>12, <1>13, <1>14, ServeKeeps

-----------------------------------------------------------------------------
(* Steps of the world on one socket.                                       *)

LEMMA BreakKeeps ==
    ASSUME EventsInv, NEW i \in Serves, InCall(i), LinkUp(i), Break(i),
           UNCHANGED <<bus, pending, sub, history, clients, ticket, got, last, evicted>>,
           upsets' \in 0..MaxUpsets
    PROVE  EventsInv'
<1> DEFINE r == [serve[i] EXCEPT !.link = "broken"]
<1> DEFINE reset == serve[i].pc \in {"ready", "replay"} /\ last[TabOf(i)] # serve[i].cursor
<1>1. ServeGoes(i, r) /\ owed' = IF reset THEN [owed EXCEPT ![TabOf(i)] = {}] ELSE owed
  BY DEF Break
<1>2. /\ serve[i] \in Serving /\ ~ serve[i].closed /\ TabOf(i) \in Tabs
      /\ i \in clients <=> serve[i].pc \in {"ready", "replay", "open"}
      /\ owed \in [Tabs -> SUBSET Published]
  BY ServeFacts
<1>3. /\ r \in Serving /\ r.pc = serve[i].pc /\ r.link = "broken" /\ r.rest = serve[i].rest
      /\ r.ticket = serve[i].ticket /\ r.conn = serve[i].conn
      /\ r.cursor = serve[i].cursor /\ r.closed = serve[i].closed
  BY <1>2 DEF Serving
<1> HIDE DEF r
<1>4. owed' \in [Tabs -> SUBSET Published] /\ \A t \in Tabs : owed'[t] \subseteq owed[t]
  BY <1>1, <1>2
<1>5. ServeStep(i, r)
  BY <1>1, <1>2, <1>3, <1>4 DEF ServeStep, InCall
<1>6. serve'[i] = r /\ TabOf(i)' = TabOf(i)
  BY <1>3, <1>5, ServeStepFacts, ServeFacts
<1>7. SetupAt(i)'
  BY <1>3, <1>6 DEF SetupAt, LinkUp
<1>8. r.pc = "replay" => Replays(i)'
  <2>1. serve[i].pc = "replay" => Replays(i)
    BY LinkFacts, ServeFacts DEF EventsInv, EventsBase, Cursors, ServeAt
  <2> QED BY <1>3, <1>6, <2>1 DEF Replays, Sees
<1>9. Follows(TabOf(i), last[TabOf(i)])'
  <2>1. CASE reset
    <3>1. owed'[TabOf(i)] = {}
      BY <1>1, <1>2, <2>1
    <3> QED BY <1>6, <3>1 DEF Follows
  <2>2. CASE ~ reset
    <3>1. Follows(TabOf(i), last[TabOf(i)])
      BY <2>2, BrokenFollows
    <3> QED BY <1>1, <1>6, <2>2, <3>1 DEF Follows, Held
  <2> QED BY <2>1, <2>2
<1> QED BY <1>3, <1>5, <1>7, <1>8, <1>9, QuietServeKeeps

(* A peer stalls or reads again.                                           *)
LEMMA StallKeeps ==
    ASSUME EventsInv, NEW i \in Serves, InCall(i), LinkUp(i),
           NEW link \in {"up", "stalled"},
           ServeGoes(i, [serve[i] EXCEPT !.link = link]),
           UNCHANGED <<bus, pending, sub, history, clients, ticket, got, last, owed,
                       evicted>>,
           upsets' \in 0..MaxUpsets
    PROVE  EventsInv'
<1> DEFINE r == [serve[i] EXCEPT !.link = link]
<1>1. ServeGoes(i, r)
  OBVIOUS
<1>2. /\ serve[i] \in Serving /\ ~ serve[i].closed /\ TabOf(i) \in Tabs /\ SetupAt(i)
      /\ i \in clients <=> serve[i].pc \in {"ready", "replay", "open"}
      /\ owed \in [Tabs -> SUBSET Published]
  BY ServeFacts
<1>3. /\ r \in Serving /\ r.pc = serve[i].pc /\ r.link # "broken" /\ r.rest = serve[i].rest
      /\ r.ticket = serve[i].ticket /\ r.conn = serve[i].conn
      /\ r.cursor = serve[i].cursor /\ r.closed = serve[i].closed
  BY <1>2 DEF Serving
<1> HIDE DEF r
<1>4. ServeStep(i, r)
  BY <1>1, <1>2, <1>3 DEF ServeStep, InCall
<1>5. serve'[i] = r /\ TabOf(i)' = TabOf(i)
  BY <1>3, <1>4, ServeStepFacts, ServeFacts
<1>6. SetupAt(i)'
  BY <1>2, <1>3, <1>5 DEF SetupAt, ServeAt, SubAt, Missing, Current, Follows, Held
<1>7. r.pc = "replay" => Replays(i)'
  <2>1. serve[i].pc = "replay" => Replays(i)
    BY LinkFacts, ServeFacts DEF EventsInv, EventsBase, Cursors, ServeAt
  <2> QED BY <1>3, <1>5, <2>1 DEF Replays, Sees
<1> QED BY <1>3, <1>4, <1>6, <1>7, QuietServeKeeps

LEMMA PeerKeeps ==
    ASSUME EventsInv, NEW i \in Serves, PeerLeaves(i) \/ PeerStalls(i) \/ StallEnds(i)
    PROVE  EventsInv'
<1>1. upsets \in 0..MaxUpsets /\ MaxUpsets \in Nat
  BY ServeFacts, EventsFacts
<1>2. Upset => upsets' \in 0..MaxUpsets
  BY <1>1 DEF Upset
<1>3. CASE PeerLeaves(i)
  BY <1>2, <1>3, BreakKeeps DEF PeerLeaves, LinkUp
<1>4. CASE PeerStalls(i)
  BY <1>2, <1>4, StallKeeps DEF PeerStalls, LinkUp
<1>5. CASE StallEnds(i)
  <2>1. LinkUp(i) /\ InCall(i)
    BY <1>5, ServeFacts DEF StallEnds, LinkUp
  <2>2. CASE Break(i)
    BY <1>1, <1>5, <2>1, <2>2, BreakKeeps DEF StallEnds
  <2>3. CASE ServeGoes(i, [serve[i] EXCEPT !.link = "up"]) /\ UNCHANGED owed
    BY <1>1, <1>5, <2>1, <2>3, StallKeeps DEF StallEnds
  <2> QED BY <1>5, <2>2, <2>3 DEF StallEnds
<1> QED BY <1>3, <1>4, <1>5

-----------------------------------------------------------------------------
(* Steps of the stream and of the subscriber.                              *)

LEMMA SubKeeps ==
    ASSUME EventsInv,
           UNCHANGED <<bus, history, clients, ticket, serve, got, last, owed, evicted>>,
           pending' \in SUBSET Published, sub' \in Subscriber, upsets' \in 0..MaxUpsets,
           InHand',
           \A i \in Serves : LinkUp(i) =>
              /\ ServeAt(i, "open") =>
                    Missing(i) \subseteq
                       IF SubAt("snapshot")' \/ i \in sub'.to THEN {sub'.ev} ELSE {}
              /\ ServeAt(i, "close") /\ i \in sub'.to => Missing(i) \subseteq {sub'.ev}
    PROVE  EventsInv'
<1>1. EventsTypeOK /\ SocketInv /\ Origins /\ Cursors /\ Away /\ Setup
  BY DEF EventsInv, EventsBase
<1>2. EventsTypeOK'
  BY <1>1 DEF EventsTypeOK
<1>3. \A i \in Serves : /\ Presented(i)' <=> Presented(i)
                        /\ LinkUp(i)' <=> LinkUp(i)
                        /\ InCall(i)' <=> InCall(i)
                        /\ TabOf(i)' = TabOf(i)
                        /\ Missing(i)' = Missing(i)
                        /\ Replays(i)' <=> Replays(i)
  BY DEF Presented, LinkUp, InCall, TabOf, Missing, Replays, Sees
<1>4. SocketInv'
  BY <1>1, <1>3 DEF SocketInv, Links, Exclusive, Used, TicketOpensOnce, OneUp, Registered,
                    ServeAt
<1>5. Origins'
  BY <1>1 DEF Origins, Held, Sees
<1>6. Cursors'
  BY <1>1, <1>3 DEF Cursors, Held, ServeAt
<1>7. Away'
  BY <1>1, <1>3 DEF Away, Follows, Held
<1>8. ASSUME NEW i \in Serves, LinkUp(i)'
      PROVE  SetupAt(i)'
  <2>1. SetupAt(i) /\ LinkUp(i)
    BY <1>1, <1>3, <1>8 DEF Setup
  <2>2. Follows(TabOf(i), serve[i].cursor)' <=> Follows(TabOf(i), serve[i].cursor)
    BY <1>3 DEF Follows, Held
  <2>3. Follows(TabOf(i), last[TabOf(i)])' <=> Follows(TabOf(i), last[TabOf(i)])
    BY <1>3 DEF Follows, Held
  <2> QED BY <1>3, <2>1, <2>2, <2>3 DEF SetupAt, ServeAt, Current
<1>9. Setup'
  BY <1>8 DEF Setup, SetupAt
<1> QED BY <1>2, <1>4, <1>5, <1>6, <1>7, <1>9 DEF EventsInv, EventsBase

LEMMA HandFacts ==
    ASSUME EventsInv
    PROVE  /\ EventsTypeOK /\ InHand /\ sub \in Subscriber
           /\ pending \in SUBSET Published /\ upsets \in 0..MaxUpsets
           /\ Len(bus) \in Nat /\ Len(bus) <= MaxPublished /\ MaxPublished \in Nat
           /\ MaxUpsets \in Nat
           /\ \A i \in Serves : LinkUp(i) /\ ServeAt(i, "open") => Missing(i) \subseteq Current(i)
           /\ \A i \in Serves : LinkUp(i) /\ ServeAt(i, "close") /\ i \in sub.to =>
                 Missing(i) \subseteq {sub.ev}
<1>1. EventsTypeOK /\ InHand
  BY DEF EventsInv, EventsBase
<1>2. \A i \in Serves : SetupAt(i)
  BY DEF EventsInv, Setup
<1> QED BY <1>1, <1>2, EventsFacts DEF EventsTypeOK, SetupAt

LEMMA CreateGroupKeeps ==
    ASSUME EventsInv, CreateGroup
    PROVE  EventsInv'
<1>1. /\ sub.pc = "group" /\ sub' = [sub EXCEPT !.pc = "read", !.next = Len(bus) + 1]
      /\ UNCHANGED <<bus, pending, history, clients, ticket, serve, got, last, owed,
                     evicted, upsets>>
  BY DEF CreateGroup, SubAt
<1>2. /\ sub' \in Subscriber /\ sub'.pc = "read" /\ sub'.next = Len(bus) + 1
      /\ sub'.todo = sub.todo /\ sub'.to = sub.to /\ sub'.ev = sub.ev
  <2>1. Len(bus) + 1 \in 1..(MaxPublished + 1) /\ sub \in Subscriber
    BY HandFacts
  <2> QED BY <1>1, <2>1 DEF Subscriber
<1>3. sub.to = {}
  BY <1>1, HandFacts DEF InHand, SubAt
<1>4. InHand'
  BY <1>1, <1>2, <1>3, HandFacts DEF InHand, SubAt
<1>5. \A i \in Serves : LinkUp(i) /\ ServeAt(i, "open") => Missing(i) = {}
  BY <1>1, <1>3, HandFacts DEF Current, SubAt
<1> QED BY <1>1, <1>2, <1>3, <1>4, <1>5, HandFacts, SubKeeps

(* A batch is part of what was found, and the next new entry is not passed. *)
LEMMA ReadGroupKeeps ==
    ASSUME EventsInv, ReadGroup
    PROVE  EventsInv'
<1> DEFINE found(c) == IF c = "0" THEN pending ELSE sub.next..Len(bus)
<1>1. sub.pc = "read"
      /\ UNCHANGED <<bus, history, clients, ticket, serve, got, last, owed, evicted, upsets>>
  BY DEF ReadGroup, SubAt
<1>2. PICK cursor \in {"0", ">"} :
        LET batch == FirstOf(found(cursor), ReadCount)
        IN  /\ batch # {}
            /\ pending' = pending \cup batch
            /\ sub' = [sub EXCEPT !.pc = "append", !.todo = batch,
                          !.cursor = cursor, !.ev = Least(batch),
                          !.next = IF cursor = ">" THEN @ + Cardinality(batch) ELSE @]
  BY DEF ReadGroup
<1> DEFINE batch == FirstOf(found(cursor), ReadCount)
<1> DEFINE next == IF cursor = ">" THEN sub.next + Cardinality(batch) ELSE sub.next
<1>3. batch \subseteq found(cursor)
  BY DEF FirstOf
<1>4. /\ pending \subseteq 1..Len(bus) /\ sub.next \in 1..(MaxPublished + 1)
      /\ sub.next <= Len(bus) + 1 /\ sub.to = {}
  BY <1>1, HandFacts DEF InHand, Subscriber, SubAt
<1>5. found(cursor) \subseteq 1..Len(bus)
  <2>1. sub.next..Len(bus) \subseteq 1..Len(bus)
    BY <1>4, HandFacts
  <2> QED BY <1>4, <2>1
<1>6. batch \subseteq 1..Len(bus) /\ batch \subseteq Nat /\ batch \subseteq Published
  BY <1>3, <1>5, HandFacts DEF Published
<1>7. batch # {} /\ Least(batch) \in batch
  BY <1>2, <1>6, LeastIn
<1>8. next \in 1..(MaxPublished + 1) /\ next <= Len(bus) + 1
  <2>1. CASE cursor = ">"
    <3>1. batch \subseteq sub.next..Len(bus)
      BY <1>3, <2>1
    <3>2. sub.next \in Int /\ Len(bus) \in Int /\ sub.next <= Len(bus)
      BY <1>4, <1>7, <3>1, HandFacts
    <3>3. /\ IsFiniteSet(sub.next..Len(bus))
          /\ Cardinality(sub.next..Len(bus)) = Len(bus) - sub.next + 1
      BY <3>2, FS_Interval
    <3> HIDE DEF batch
    <3>4. /\ IsFiniteSet(batch)
          /\ Cardinality(batch) <= Cardinality(sub.next..Len(bus))
      BY <3>1, <3>3, FS_Subset
    <3>5. Cardinality(batch) \in Nat
      BY <3>4, FS_CardinalityType
    <3> QED BY <1>4, <2>1, <3>2, <3>3, <3>4, <3>5, HandFacts
  <2>2. CASE cursor # ">"
    BY <1>4, <2>2
  <2> QED BY <2>1, <2>2
<1>9. /\ pending' = pending \cup batch
      /\ sub' = [sub EXCEPT !.pc = "append", !.todo = batch, !.cursor = cursor,
                    !.ev = Least(batch), !.next = next]
  BY <1>2, HandFacts DEF Subscriber
<1> HIDE DEF batch, next, found
<1>10. /\ sub' \in Subscriber /\ sub'.pc = "append" /\ sub'.todo = batch
       /\ sub'.ev = Least(batch) /\ sub'.next = next /\ sub'.to = {}
  BY <1>4, <1>6, <1>7, <1>8, <1>9, HandFacts DEF Subscriber
<1>11. InHand'
  BY <1>1, <1>4, <1>6, <1>7, <1>8, <1>9, <1>10 DEF InHand, SubAt
<1>12. \A i \in Serves : LinkUp(i) /\ ServeAt(i, "open") => Missing(i) = {}
  BY <1>1, <1>4, HandFacts DEF Current, SubAt
<1>13. pending' \in SUBSET Published /\ upsets' \in 0..MaxUpsets
  BY <1>1, <1>6, <1>9, HandFacts
<1> QED BY <1>1, <1>10, <1>11, <1>12, <1>13, SubKeeps

LEMMA SnapshotKeeps ==
    ASSUME EventsInv, SnapshotWriters
    PROVE  EventsInv'
<1> DEFINE to == {i \in clients : Sees(UserOf[TabOf(i)], sub.ev)}
<1>1. /\ sub.pc = "snapshot" /\ sub' = [sub EXCEPT !.pc = "write", !.to = to]
      /\ UNCHANGED <<bus, pending, history, clients, ticket, serve, got, last, owed,
                     evicted, upsets>>
  BY DEF SnapshotWriters, SubAt
<1>2. to \subseteq clients /\ clients \subseteq Serves
  BY HandFacts DEF EventsTypeOK
<1>3. \A i \in clients : serve[i].pc \in {"ready", "replay", "open"}
  BY <1>2 DEF EventsInv, EventsBase, SocketInv, Registered
<1>4. \A i \in to : /\ Presented(i) /\ Sees(UserOf[TabOf(i)], sub.ev)
                    /\ serve[i].pc \notin {"count", "register", "close"}
  BY <1>2, <1>3 DEF EventsInv, EventsBase, SocketInv, Links, ServeAt
<1>5. \A i \in Serves : LinkUp(i) /\ ServeAt(i, "open") /\ sub.ev \in Missing(i) => i \in to
  <2> SUFFICES ASSUME NEW i \in Serves, LinkUp(i), ServeAt(i, "open"), sub.ev \in Missing(i)
               PROVE  i \in to
    OBVIOUS
  <2>1. i \in clients
    BY DEF EventsInv, EventsBase, SocketInv, Registered, ServeAt
  <2>2. TabOf(i) \in Tabs
    BY LinkFacts DEF EventsInv, EventsBase
  <2>3. Sees(UserOf[TabOf(i)], sub.ev)
    BY <2>2 DEF EventsInv, EventsBase, Origins, Missing
  <2> QED BY <2>1, <2>3
<1> HIDE DEF to
<1>6. /\ sub' \in Subscriber /\ sub'.pc = "write" /\ sub'.to = to
      /\ sub'.ev = sub.ev /\ sub'.todo = sub.todo /\ sub'.next = sub.next
  BY <1>1, <1>2, HandFacts DEF Subscriber
<1>7. InHand'
  <2>1. \A i \in to : Presented(i)' /\ Sees(UserOf[TabOf(i)], sub.ev)'
    BY <1>1, <1>4, <1>6 DEF Presented, Sees, TabOf
  <2> QED BY <1>1, <1>4, <1>6, <2>1, HandFacts DEF InHand, SubAt
<1>8. \A i \in Serves : LinkUp(i) /\ ServeAt(i, "open") => Missing(i) \subseteq {sub.ev}
  BY HandFacts DEF Current
<1>9. \A i \in Serves : LinkUp(i) =>
         /\ ServeAt(i, "open") => Missing(i) \subseteq IF i \in to THEN {sub.ev} ELSE {}
         /\ ~ (ServeAt(i, "close") /\ i \in to)
  BY <1>4, <1>5, <1>8 DEF ServeAt
<1> QED BY <1>1, <1>6, <1>7, <1>9, HandFacts, SubKeeps DEF SubAt

LEMMA BlockOnKeeps ==
    ASSUME EventsInv, NEW i \in Serves, BlockOn(i)
    PROVE  EventsInv'
<1>1. /\ sub.pc = "write" /\ sub' = [sub EXCEPT !.at = i]
      /\ UNCHANGED <<bus, pending, history, clients, ticket, serve, got, last, owed,
                     evicted, upsets>>
  BY DEF BlockOn, SubAt
<1>2. /\ sub' \in Subscriber /\ sub'.pc = "write" /\ sub'.to = sub.to
      /\ sub'.ev = sub.ev /\ sub'.todo = sub.todo /\ sub'.next = sub.next
  BY <1>1, HandFacts DEF Subscriber
<1>3. InHand'
  <2>1. \A j \in sub.to : Presented(j)' /\ Sees(UserOf[TabOf(j)], sub.ev)'
    BY <1>1, <1>2, HandFacts DEF InHand, Presented, Sees, TabOf
  <2> QED BY <1>1, <1>2, <2>1, HandFacts DEF InHand, SubAt
<1>4. \A j \in Serves : LinkUp(j) /\ ServeAt(j, "open") =>
         Missing(j) \subseteq IF j \in sub.to THEN {sub.ev} ELSE {}
  BY <1>1, HandFacts DEF Current, SubAt
<1> QED BY <1>1, <1>2, <1>3, <1>4, HandFacts, SubKeeps DEF SubAt

LEMMA AckKeeps ==
    ASSUME EventsInv, Ack \/ AckFails
    PROVE  EventsInv'
<1> DEFINE left == sub.todo \ {sub.ev}
<1> DEFINE ev == IF left = {} THEN Nothing ELSE Least(left)
<1> DEFINE pc == IF left = {} THEN "read" ELSE "append"
<1> DEFINE cursor == IF left # {} THEN sub.cursor ELSE IF sub.cursor = "0" THEN ">" ELSE "0"
<1>1. /\ sub.pc = "write" /\ sub.to = {} /\ pending' \subseteq pending
      /\ UNCHANGED <<bus, history, clients, ticket, serve, got, last, owed, evicted>>
  BY DEF Ack, AckFails, SubAt
<1>2. sub' = [sub EXCEPT !.todo = left, !.to = {}, !.ev = ev, !.pc = pc, !.cursor = cursor]
  BY HandFacts DEF Ack, AckFails, Acked, Subscriber
<1>3. upsets' \in 0..MaxUpsets
  BY HandFacts DEF Ack, AckFails, Upset
<1>4. left \subseteq 1..Len(bus) /\ left \subseteq Published /\ left \subseteq Nat
  BY HandFacts DEF InHand, Published
<1>5. left # {} => Least(left) \in left
  BY <1>4, LeastIn
<1> HIDE DEF left
<1>6. /\ ev \in Published \cup {Nothing} /\ pc \in {"read", "append"}
      /\ pc = "append" => ev \in left
      /\ pc # "write" /\ pc # "snapshot"
      /\ cursor \in {"0", ">"}
  BY <1>4, <1>5, HandFacts DEF Subscriber
<1> HIDE DEF ev, pc, cursor
<1>7. /\ sub' \in Subscriber /\ sub'.pc = pc /\ sub'.to = {} /\ sub'.ev = ev
      /\ sub'.todo = left /\ sub'.next = sub.next
  BY <1>2, <1>4, <1>6, HandFacts DEF Subscriber
<1>8. InHand'
  BY <1>1, <1>4, <1>6, <1>7, HandFacts DEF InHand, SubAt
<1>9. \A i \in Serves : LinkUp(i) /\ ServeAt(i, "open") => Missing(i) = {}
  BY <1>1, HandFacts DEF Current, SubAt
<1>10. pending' \in SUBSET Published
  BY <1>1, HandFacts
<1> QED BY <1>1, <1>3, <1>7, <1>8, <1>9, <1>10, SubKeeps

(* What is published later does not change whom the earlier events are for. *)
LEMMA PublishKeeps ==
    ASSUME EventsInv, NEW target \in Targets, Publish(target)
    PROVE  EventsInv'
<1>1. EventsTypeOK /\ SocketInv /\ InHand /\ Origins /\ Cursors /\ Away /\ Setup
  BY DEF EventsInv, EventsBase
<1>2. /\ Len(bus) < MaxPublished /\ bus' = Append(bus, target)
      /\ UNCHANGED <<pending, sub, history, clients, ticket, serve, got, last, owed,
                     evicted, upsets>>
  BY DEF Publish
<1>3. /\ bus' \in Seq(Targets) /\ Len(bus') = Len(bus) + 1
      /\ \A e \in 1..Len(bus) : bus'[e] = bus[e]
  BY <1>1, <1>2 DEF EventsTypeOK
<1>4. /\ Len(bus) \in Nat /\ Len(bus') <= MaxPublished
      /\ 1..Len(bus) \subseteq 1..Len(bus')
      /\ \A e \in 1..Len(bus) : \A u : Sees(u, e)' <=> Sees(u, e)
  BY <1>1, <1>2, <1>3, EventsFacts DEF Sees
<1>5. EventsTypeOK'
  BY <1>1, <1>2, <1>3, <1>4 DEF EventsTypeOK
<1>6. \A i \in Serves : /\ Presented(i)' <=> Presented(i)
                        /\ LinkUp(i)' <=> LinkUp(i)
                        /\ InCall(i)' <=> InCall(i)
                        /\ TabOf(i)' = TabOf(i)
  BY <1>2 DEF Presented, LinkUp, InCall, TabOf
<1>7. SocketInv'
  BY <1>1, <1>2, <1>6 DEF SocketInv, Links, Exclusive, Used, TicketOpensOnce, OneUp,
                          Registered, ServeAt
<1>8. InHand'
  <2>1. \A i \in sub.to : sub.ev \in 1..Len(bus) /\ i \in Serves
    BY <1>1, EventsFacts DEF InHand, Subscriber
  <2>2. \A i \in sub.to : Presented(i)' /\ Sees(UserOf[TabOf(i)], sub.ev)'
    BY <1>1, <1>2, <1>3, <1>6, <2>1 DEF InHand, Sees
  <2>3. /\ sub.next <= Len(bus') + 1
        /\ pending \subseteq 1..Len(bus') /\ sub.todo \subseteq 1..Len(bus')
    <3>1. sub.next \in Int
      BY <1>1, EventsFacts DEF Subscriber
    <3> QED BY <1>1, <1>3, <1>4, <3>1 DEF InHand
  <2> QED BY <1>1, <1>2, <2>2, <2>3 DEF InHand, SubAt
<1>9. Origins'
  BY <1>1, <1>2, <1>3, <1>4 DEF Origins, Held, Sees
<1>10. Cursors'
  <2> SUFFICES ASSUME NEW i \in Serves, Presented(i)
      PROVE /\ serve[i].cursor # Nothing =>
                serve[i].cursor \in got[TabOf(i)] \cap (Held(history) \cup evicted)
            /\ ServeAt(i, "replay") => Replays(i)'
    BY <1>2, <1>6 DEF Cursors, Held, ServeAt
  <2>1. /\ serve[i].cursor # Nothing =>
              serve[i].cursor \in got[TabOf(i)] \cap (Held(history) \cup evicted)
        /\ ServeAt(i, "replay") => Replays(i)
    BY <1>1 DEF Cursors
  <2>2. \A n \in 1..Len(history) : history[n] \in 1..Len(bus)
    BY <1>1 DEF Origins, Held
  <2> QED BY <1>2, <1>3, <1>6, <2>1, <2>2 DEF Replays, Sees
<1>11. Away'
  BY <1>1, <1>2, <1>6 DEF Away, Follows, Held
<1>12. Setup'
  <2> SUFFICES ASSUME NEW i \in Serves, LinkUp(i) PROVE SetupAt(i)'
    BY <1>6 DEF Setup, SetupAt
  <2>1. SetupAt(i)
    BY <1>1 DEF Setup
  <2> QED BY <1>2, <1>6, <2>1 DEF SetupAt, ServeAt, SubAt, Missing, Current, Follows, Held
<1> QED BY <1>5, <1>7, <1>8, <1>9, <1>10, <1>11, <1>12 DEF EventsInv, EventsBase

(* The history is a window on its past: what it holds moves to the front   *)
(* by one place when it is full.                                           *)
Slides(h, e, d) ==
    /\ h \in Seq(Published)
    /\ Len(h) = Len(history) + 1 - d /\ Len(h) \in 1..HistoryLimit
    /\ h # <<>> /\ h[Len(h)] = e
    /\ \A n \in (1 + d)..Len(history) : h[n - d] = history[n]
    /\ \A n \in 1..Len(h) : n # Len(h) => h[n] = history[n + d]
    /\ d = 1 => Head(history) = history[1]

LEMMA Window ==
    ASSUME EventsTypeOK, NEW e \in Published, NEW h,
           h = LastOf(Append(history, e), HistoryLimit),
           NEW d, d = IF Len(history) = HistoryLimit THEN 1 ELSE 0
    PROVE  Slides(h, e, d)
<1> DEFINE s == Append(history, e)
<1> DEFINE L == Len(history)
<1>1. /\ L \in Nat /\ HistoryLimit \in Nat /\ HistoryLimit > 0 /\ L <= HistoryLimit
      /\ history \in Seq(Published)
  BY EventsFacts DEF EventsTypeOK
<1>2. /\ s \in Seq(Published) /\ Len(s) = L + 1
      /\ \A n \in 1..L : s[n] = history[n]
      /\ s[L + 1] = e
  BY <1>1
<1> HIDE DEF s
<1>3. CASE L = HistoryLimit
  <2>1. h = SubSeq(s, 2, L + 1)
    BY <1>1, <1>2, <1>3 DEF LastOf, s
  <2>2. \A n \in 2..(L + 1) : s[n] \in Published
    BY <1>1, <1>2
  <2>3. /\ h \in Seq(Published) /\ Len(h) = L
        /\ \A n \in 1..L : h[n] = s[n + 1]
    <3>1. /\ SubSeq(s, 2, L + 1) \in Seq(Published)
          /\ Len(SubSeq(s, 2, L + 1)) = IF 2 <= L + 1 THEN (L + 1) - 2 + 1 ELSE 0
          /\ \A i \in 1..((L + 1) - 2 + 1) : SubSeq(s, 2, L + 1)[i] = s[2 + i - 1]
      BY <1>1, <2>2, SubSeqProperties
    <3> QED BY <1>1, <1>3, <2>1, <3>1
  <2> QED BY <1>1, <1>2, <1>3, <2>3 DEF Slides
<1>4. CASE L # HistoryLimit
  <2>1. h = s
    BY <1>1, <1>2, <1>4 DEF LastOf, s
  <2> QED BY <1>1, <1>2, <1>4, <2>1 DEF Slides
<1> QED BY <1>3, <1>4

(* The new event comes last, so it follows whatever the history still      *)
(* holds; what leaves the history is noted as evicted.                     *)
LEMMA AppendKeeps ==
    ASSUME EventsInv, AppendHistory
    PROVE  EventsInv'
<1>0. PICK d : d = IF Len(history) = HistoryLimit THEN 1 ELSE 0
  OBVIOUS
<1>1. /\ EventsTypeOK /\ SocketInv /\ InHand /\ Origins /\ Cursors /\ Away /\ Setup
      /\ EventsBase
  BY DEF EventsInv, EventsBase
<1>2. /\ sub.pc = "append" /\ \A i \in Serves : ~ ServeAt(i, "replay")
      /\ history' = LastOf(Append(history, sub.ev), HistoryLimit)
      /\ evicted' = IF Len(history) = HistoryLimit THEN evicted \cup {Head(history)}
                    ELSE evicted
      /\ owed' = [t \in Tabs |-> IF Sees(UserOf[t], sub.ev)
                                 THEN owed[t] \cup {sub.ev} ELSE owed[t]]
      /\ sub' = [sub EXCEPT !.pc = "snapshot"]
      /\ UNCHANGED <<bus, pending, clients, ticket, serve, got, last, upsets>>
  BY DEF AppendHistory, SubAt
<1>3. sub.ev \in sub.todo /\ sub.to = {} /\ sub.ev \in 1..Len(bus) /\ sub.ev \in Published
  BY <1>1, <1>2, EventsFacts DEF InHand, SubAt
<1>4. /\ history' \in Seq(Published)
      /\ Len(history') = Len(history) + 1 - d /\ Len(history') \in 1..HistoryLimit
      /\ history' # <<>> /\ history'[Len(history')] = sub.ev
      /\ \A n \in (1 + d)..Len(history) : history'[n - d] = history[n]
      /\ \A n \in 1..Len(history') : n # Len(history') => history'[n] = history[n + d]
      /\ d = 1 => Head(history) = history[1]
  <2>1. history' = LastOf(Append(history, sub.ev), HistoryLimit)
    BY <1>2
  <2>2. EventsTypeOK /\ sub.ev \in Published
    BY <1>1, <1>3
  <2>3. Slides(history', sub.ev, d)
    BY <1>0, <2>1, <2>2, Window
  <2> QED BY <2>3 DEF Slides
<1>5. /\ Len(history) \in Nat /\ HistoryLimit \in Nat /\ HistoryLimit > 0
      /\ d \in {0, 1}
      /\ d = 1 => Len(history) = HistoryLimit
      /\ evicted' = IF d = 1 THEN evicted \cup {history[1]} ELSE evicted
  BY <1>0, <1>1, <1>2, <1>4, EventsFacts
<1>6. Held(history') \subseteq Held(history) \cup {sub.ev}
  <2> SUFFICES ASSUME NEW n \in 1..Len(history'), n # Len(history')
               PROVE  history'[n] \in Held(history)
    BY <1>4 DEF Held
  <2>1. n + d \in 1..Len(history) /\ history'[n] = history[n + d]
    BY <1>4, <1>5
  <2> QED BY <2>1 DEF Held
<1>7. Held(history) \cup evicted \subseteq Held(history') \cup evicted'
  <2> SUFFICES ASSUME NEW n \in 1..Len(history)
               PROVE  history[n] \in Held(history') \cup evicted'
    BY <1>5 DEF Held
  <2>1. CASE n = 1 /\ d = 1
    BY <1>5, <2>1
  <2>2. CASE ~ (n = 1 /\ d = 1)
    <3>1. n \in (1 + d)..Len(history) /\ n - d \in 1..Len(history')
      BY <1>4, <1>5, <2>2
    <3> QED BY <1>4, <3>1 DEF Held
  <2> QED BY <2>1, <2>2
<1>8. Held(history') \cup evicted' \subseteq 1..Len(bus)
  <2>1. d = 1 => history[1] \in Held(history)
    BY <1>5 DEF Held
  <2> QED BY <1>1, <1>3, <1>5, <1>6, <2>1 DEF Origins
<1>9. /\ owed' \in [Tabs -> SUBSET Published]
      /\ \A t \in Tabs : owed'[t] = IF Sees(UserOf[t], sub.ev) THEN owed[t] \cup {sub.ev}
                                    ELSE owed[t]
  BY <1>1, <1>2, <1>3 DEF EventsTypeOK
<1>10. /\ sub' \in Subscriber /\ sub'.pc = "snapshot" /\ sub'.to = sub.to
       /\ sub'.ev = sub.ev /\ sub'.todo = sub.todo /\ sub'.next = sub.next
  BY <1>1, <1>2, EventsFacts DEF Subscriber
<1>11. EventsTypeOK'
  <2>1. evicted' \in SUBSET Published
    BY <1>1, <1>8, EventsFacts
  <2>2. Len(history') <= HistoryLimit
    BY <1>4, <1>5
  <2> QED BY <1>1, <1>2, <1>4, <1>9, <1>10, <2>1, <2>2 DEF EventsTypeOK
<1>12. \A i \in Serves : /\ Presented(i)' <=> Presented(i)
                         /\ LinkUp(i)' <=> LinkUp(i)
                         /\ InCall(i)' <=> InCall(i)
                         /\ TabOf(i)' = TabOf(i)
  BY <1>2 DEF Presented, LinkUp, InCall, TabOf
<1>13. SocketInv'
  BY <1>1, <1>2, <1>12 DEF SocketInv, Links, Exclusive, Used, TicketOpensOnce, OneUp,
                           Registered, ServeAt
<1>14. InHand'
  BY <1>1, <1>2, <1>3, <1>4, <1>10 DEF InHand, SubAt
<1>15. Origins'
  <2>1. \A t \in Tabs :
          /\ got[t] \cup owed'[t] \subseteq {e \in 1..Len(bus) : Sees(UserOf[t], e)}
          /\ last[t] # Nothing => last[t] \in got[t] \cap (Held(history') \cup evicted')
    BY <1>1, <1>3, <1>7, <1>9 DEF Origins
  <2> QED BY <1>2, <1>8, <2>1 DEF Origins, Held, Sees
<1>16. Cursors'
  <2>1. \A i \in Serves : Presented(i) /\ serve[i].cursor # Nothing =>
          serve[i].cursor \in got[TabOf(i)] \cap (Held(history') \cup evicted')
    BY <1>1, <1>7 DEF Cursors
  <2> QED BY <1>2, <1>12, <2>1 DEF Cursors, Held, ServeAt
<1>17. ASSUME NEW t \in Tabs, NEW c \in Held(history) \cup evicted \cup {Nothing},
              Follows(t, c), c \in Held(history') \ evicted',
              NEW e \in owed'[t] \ got[t]
       PROVE  \E m, n \in 1..Len(history') : m < n /\ history'[m] = c /\ history'[n] = e
  <2>1. c \in Held(history) \ evicted /\ (d = 1 => c # history[1])
    <3>1. c # Nothing
      BY <1>1, <1>8, <1>17, EventsFacts
    <3> QED BY <1>5, <1>17, <3>1
  <2>2. CASE e \in owed[t]
    <3>1. PICK m, n \in 1..Len(history) : m < n /\ history[m] = c /\ history[n] = e
      BY <1>17, <2>1, <2>2 DEF Follows
    <3>2. m \in (1 + d)..Len(history) /\ n \in (1 + d)..Len(history)
      BY <1>5, <2>1, <3>1
    <3>3. /\ history'[m - d] = c /\ history'[n - d] = e
          /\ m - d \in 1..Len(history') /\ n - d \in 1..Len(history') /\ m - d < n - d
      BY <1>4, <1>5, <3>1, <3>2
    <3> QED BY <3>3
  <2>3. CASE e \notin owed[t]
    <3>1. e = sub.ev
      BY <1>9, <1>17, <2>3
    <3>2. PICK m \in 1..Len(history) : history[m] = c
      BY <2>1 DEF Held
    <3>3. m \in (1 + d)..Len(history)
      BY <1>5, <2>1, <3>2
    <3>4. /\ history'[m - d] = c /\ m - d \in 1..Len(history')
          /\ m - d < Len(history') /\ Len(history') \in 1..Len(history')
      BY <1>4, <1>5, <3>2, <3>3
    <3> QED BY <1>4, <3>1, <3>4
  <2> QED BY <2>2, <2>3
<1>18. Away'
  <2> SUFFICES ASSUME NEW t \in Tabs, \A i \in Serves : LinkUp(i) => TabOf(i) # t
               PROVE  Follows(t, last[t])'
    BY <1>12 DEF Away
  <2>1. Follows(t, last[t]) /\ last[t] \in Held(history) \cup evicted \cup {Nothing}
    BY <1>1 DEF Away, Origins
  <2> QED BY <1>2, <1>17, <2>1 DEF Follows
<1>19. Setup'
  <2> SUFFICES ASSUME NEW i \in Serves, LinkUp(i) PROVE SetupAt(i)'
    BY <1>12 DEF Setup, SetupAt
  <2>1. SetupAt(i) /\ Presented(i) /\ TabOf(i) \in Tabs
    BY <1>1, LinkFacts DEF Setup
  <2>2. /\ serve[i].cursor \in Held(history) \cup evicted \cup {Nothing}
        /\ last[TabOf(i)] \in Held(history) \cup evicted \cup {Nothing}
    BY <1>1, <2>1 DEF Cursors, Origins
  <2>3. Follows(TabOf(i), serve[i].cursor) => Follows(TabOf(i), serve[i].cursor)'
    BY <1>2, <1>12, <1>17, <2>1, <2>2 DEF Follows
  <2>4. Follows(TabOf(i), last[TabOf(i)]) => Follows(TabOf(i), last[TabOf(i)])'
    BY <1>2, <1>12, <1>17, <2>1, <2>2 DEF Follows
  <2>5. ServeAt(i, "open") => Missing(i) = {}
    BY <1>2, <1>3, <2>1 DEF SetupAt, Current, SubAt
  <2>6. ServeAt(i, "open") => Missing(i)' \subseteq {sub.ev}
    BY <1>2, <1>9, <1>12, <2>1, <2>5 DEF Missing
  <2> QED BY <1>2, <1>3, <1>10, <1>12, <2>1, <2>3, <2>4, <2>6 DEF SetupAt, ServeAt, Current,
                                                                  SubAt
<1> QED BY <1>11, <1>13, <1>14, <1>15, <1>16, <1>18, <1>19 DEF EventsInv, EventsBase

(* The writer of serve i is called with the event in hand.                 *)
LEMMA WriteLiveKeeps ==
    ASSUME EventsInv, NEW i \in Serves, WriteLive(i)
    PROVE  EventsInv'
<1>1. EventsTypeOK /\ SocketInv /\ InHand /\ Origins /\ Cursors /\ Away /\ Setup
  BY DEF EventsInv, EventsBase
<1>2. /\ sub.pc = "write" /\ i \in sub.to /\ ~ Blocked(i) /\ WriteThrough(i, sub.ev)
      /\ sub' = [sub EXCEPT !.to = @ \ {i}, !.at = Nothing]
      /\ UNCHANGED <<bus, pending, history, clients, ticket, serve, owed, evicted, upsets>>
  BY DEF WriteLive, SubAt
<1>3. /\ sub.ev \in sub.todo /\ sub.ev \in 1..Len(bus) /\ sub.ev \in Published
      /\ Presented(i) /\ Sees(UserOf[TabOf(i)], sub.ev)
      /\ serve[i].pc \notin {"count", "register"}
      /\ history # <<>> /\ history[Len(history)] = sub.ev
  BY <1>1, <1>2, EventsFacts DEF InHand, SubAt
<1>4. /\ got' \in [Tabs -> SUBSET Published]
      /\ last' \in [Tabs -> Published \cup {Nothing}]
      /\ LinkUp(i) => /\ got'[TabOf(i)] = got[TabOf(i)] \cup {sub.ev}
                      /\ last'[TabOf(i)] = sub.ev
      /\ \A t \in Tabs : ~ LinkUp(i) \/ t # TabOf(i) =>
            got'[t] = got[t] /\ last'[t] = last[t]
  BY <1>1, <1>2, <1>3, WriteReaches
<1>5. /\ sub' \in Subscriber /\ sub'.pc = "write" /\ sub'.to = sub.to \ {i}
      /\ sub'.ev = sub.ev /\ sub'.todo = sub.todo /\ sub'.next = sub.next
  BY <1>1, <1>2, EventsFacts DEF Subscriber
<1>6. EventsTypeOK'
  BY <1>1, <1>2, <1>4, <1>5 DEF EventsTypeOK
<1>7. \A j \in Serves : /\ Presented(j)' <=> Presented(j)
                        /\ LinkUp(j)' <=> LinkUp(j)
                        /\ InCall(j)' <=> InCall(j)
                        /\ TabOf(j)' = TabOf(j)
  BY <1>2 DEF Presented, LinkUp, InCall, TabOf
<1>8. SocketInv'
  BY <1>1, <1>2, <1>7 DEF SocketInv, Links, Exclusive, Used, TicketOpensOnce, OneUp,
                          Registered, ServeAt
<1>9. InHand'
  <2>1. \A j \in sub.to : Presented(j)' /\ Sees(UserOf[TabOf(j)], sub.ev)'
    BY <1>1, <1>2, <1>5 DEF InHand, Presented, Sees, TabOf
  <2> QED BY <1>1, <1>2, <1>5, <2>1 DEF InHand, SubAt
<1>10. \A t \in Tabs : got[t] \subseteq got'[t]
  BY <1>4
<1>11. Origins'
  <2>1. sub.ev \in Held(history)
    <3>1. history \in Seq(Published) /\ Len(history) \in 1..Len(history)
      BY <1>1, <1>3 DEF EventsTypeOK
    <3> QED BY <1>3, <3>1 DEF Held
  <2>2. \A t \in Tabs :
          /\ got'[t] \cup owed[t] \subseteq {e \in 1..Len(bus) : Sees(UserOf[t], e)}
          /\ last'[t] # Nothing => last'[t] \in got'[t] \cap (Held(history) \cup evicted)
    <3> TAKE t \in Tabs
    <3>1. CASE LinkUp(i) /\ t = TabOf(i)
      BY <1>1, <1>3, <1>4, <2>1, <3>1 DEF Origins
    <3>2. CASE ~ (LinkUp(i) /\ t = TabOf(i))
      BY <1>1, <1>4, <3>2 DEF Origins
    <3> QED BY <3>1, <3>2
  <2> QED BY <1>1, <1>2, <2>2 DEF Origins, Held, Sees
<1>12. Cursors'
  <2>1. \A j \in Serves : Presented(j) => TabOf(j) \in Tabs
    BY <1>1, LinkFacts
  <2>2. \A j \in Serves : Replays(j)' <=> Replays(j)
    BY <1>2, <1>7 DEF Replays, Sees
  <2> QED BY <1>1, <1>2, <1>7, <1>10, <2>1, <2>2 DEF Cursors, Held, ServeAt
<1>13. Away'
  <2> SUFFICES ASSUME NEW t \in Tabs, \A j \in Serves : LinkUp(j) => TabOf(j) # t
               PROVE  Follows(t, last[t])'
    BY <1>7 DEF Away
  <2>1. Follows(t, last[t]) /\ got'[t] = got[t] /\ last'[t] = last[t]
    BY <1>1, <1>4 DEF Away
  <2> QED BY <1>2, <2>1 DEF Follows, Held
<1>14. Setup'
  <2> SUFFICES ASSUME NEW j \in Serves, LinkUp(j) PROVE SetupAt(j)'
    BY <1>7 DEF Setup, SetupAt
  <2>1. SetupAt(j) /\ TabOf(j) \in Tabs
    BY <1>1, LinkFacts DEF Setup
  <2>2. Missing(j)' \subseteq Missing(j)
    BY <1>2, <1>7, <1>10, <2>1 DEF Missing
  <2>3. Follows(TabOf(j), serve[j].cursor) => Follows(TabOf(j), serve[j].cursor)'
    BY <1>2, <1>7, <1>10, <2>1 DEF Follows, Held
  <2>4. CASE j = i
    <3>1. sub.ev \notin Missing(i)'
      BY <1>4, <1>7, <2>1, <2>4 DEF Missing
    <3>2. ServeAt(i, "open") \/ ServeAt(i, "close") => Missing(i)' = {}
      BY <1>2, <2>1, <2>2, <2>4, <3>1 DEF SetupAt, Current
    <3>3. ServeAt(i, "close") => Follows(TabOf(i), last[TabOf(i)])'
      BY <1>7, <2>4, <3>2 DEF Follows, Missing
    <3> QED BY <1>2, <1>3, <1>7, <2>1, <2>2, <2>3, <2>4, <3>2, <3>3 DEF SetupAt, ServeAt
  <2>5. CASE j # i
    <3>1. last'[TabOf(j)] = last[TabOf(j)]
      BY <1>1, <1>4, <2>1, <2>5 DEF SocketInv, OneUp
    <3>2. Follows(TabOf(j), last[TabOf(j)]) => Follows(TabOf(j), last[TabOf(j)])'
      BY <1>2, <1>7, <1>10, <2>1, <3>1 DEF Follows, Held
    <3>3. Current(j)' = Current(j) /\ (j \in sub'.to <=> j \in sub.to)
      BY <1>2, <1>5, <2>5 DEF Current, SubAt
    <3> QED BY <1>2, <1>5, <1>7, <2>1, <2>2, <2>3, <3>1, <3>2, <3>3 DEF SetupAt, ServeAt
  <2> QED BY <2>4, <2>5
<1> QED BY <1>6, <1>8, <1>9, <1>11, <1>12, <1>13, <1>14 DEF EventsInv, EventsBase

-----------------------------------------------------------------------------
(* Tickets and new sockets.                                                *)

(* A new ticket is nobody's yet.                                           *)
LEMMA IssueKeeps ==
    ASSUME EventsInv, NEW t \in Tabs, Issue(t)
    PROVE  EventsInv'
<1>1. EventsTypeOK /\ SocketInv /\ InHand /\ Origins /\ Cursors /\ Away /\ Setup
  BY DEF EventsInv, EventsBase
<1>2. PICK k \in Serves :
        /\ ticket[k].owner = Nothing
        /\ ticket' = [ticket EXCEPT ![k] = [owner |-> t, live |-> TRUE]]
        /\ UNCHANGED <<bus, pending, sub, history, clients, serve, got, last, owed,
                       evicted, upsets>>
  BY DEF Issue
<1>3. /\ ticket' \in [Serves -> [owner : Tabs \cup {Nothing}, live : BOOLEAN]]
      /\ \A l \in Serves : l # k => ticket'[l] = ticket[l]
      /\ ticket'[k].owner = t
  BY <1>1, <1>2 DEF EventsTypeOK
<1>4. \A i \in Serves : Presented(i) => serve[i].ticket \in Serves /\ serve[i].ticket # k
  BY <1>1, <1>2, LinkFacts, EventsFacts DEF TabOf
<1>5. \A i \in Serves : /\ Presented(i)' <=> Presented(i)
                        /\ LinkUp(i)' <=> LinkUp(i)
                        /\ InCall(i)' <=> InCall(i)
                        /\ Presented(i) => /\ TabOf(i)' = TabOf(i)
                                           /\ ticket'[serve[i].ticket] = ticket[serve[i].ticket]
  BY <1>2, <1>3, <1>4 DEF Presented, LinkUp, InCall, TabOf
<1>6. EventsTypeOK'
  BY <1>1, <1>2, <1>3 DEF EventsTypeOK
<1>7. \A i \in Serves : LinkUp(i) => Presented(i)
  BY <1>1, LinkFacts
<1>8. SocketInv'
  <2>1. Links' /\ Exclusive' /\ Registered' /\ TicketOpensOnce'
    BY <1>1, <1>2, <1>5 DEF SocketInv, Links, Exclusive, Registered, TicketOpensOnce, ServeAt
  <2>2. Used'
    BY <1>1, <1>2, <1>3, <1>5 DEF SocketInv, Used
  <2>3. OneUp'
    BY <1>1, <1>5, <1>7 DEF SocketInv, OneUp
  <2> QED BY <2>1, <2>2, <2>3 DEF SocketInv
<1>9. InHand'
  <2>1. \A i \in sub.to : i \in Serves /\ Presented(i)
    BY <1>1, EventsFacts DEF InHand, Subscriber
  <2>2. \A i \in sub.to : Presented(i)' /\ Sees(UserOf[TabOf(i)], sub.ev)'
    BY <1>1, <1>2, <1>5, <2>1 DEF InHand, Sees
  <2> QED BY <1>1, <1>2, <2>2 DEF InHand, SubAt
<1>10. Origins'
  BY <1>1, <1>2 DEF Origins, Held, Sees
<1>11. Cursors'
  <2>1. \A i \in Serves : Presented(i) => (Replays(i)' <=> Replays(i))
    BY <1>2, <1>5 DEF Replays, Sees
  <2> QED BY <1>1, <1>2, <1>5, <2>1 DEF Cursors, Held, ServeAt
<1>12. Away'
  BY <1>1, <1>2, <1>5, <1>7 DEF Away, Follows, Held
<1>13. Setup'
  <2> SUFFICES ASSUME NEW i \in Serves, LinkUp(i) PROVE SetupAt(i)'
    BY <1>5 DEF Setup, SetupAt
  <2>1. SetupAt(i) /\ TabOf(i)' = TabOf(i)
    BY <1>1, <1>5, <1>7 DEF Setup
  <2> QED BY <1>2, <2>1 DEF SetupAt, ServeAt, SubAt, Missing, Current, Follows, Held, LinkUp
<1> QED BY <1>6, <1>8, <1>9, <1>10, <1>11, <1>12, <1>13 DEF EventsInv, EventsBase

(* A tab connects when it has no other socket, and names its last event.   *)
LEMMA ConsumeKeeps ==
    ASSUME EventsInv, NEW i \in Serves, NEW k \in Serves, Consume(i, k)
    PROVE  EventsInv'
<1>1. EventsTypeOK /\ SocketInv /\ InHand /\ Origins /\ Cursors /\ Away /\ Setup
  BY DEF EventsInv, EventsBase
<1> DEFINE t == ticket[k].owner
<1>2. /\ serve[i].pc = "none" /\ ticket[k].live /\ MayConnect(k)
      /\ ticket' = [ticket EXCEPT ![k].live = FALSE]
      /\ UNCHANGED <<bus, pending, sub, history, clients, got, last, owed, evicted, upsets>>
  BY DEF Consume, Accepted, ServeAt
<1>3. PICK c \in Conns :
        /\ \A j \in Serves : ~ Carries(j, c)
        /\ ServeGoes(i, [Unserved EXCEPT !.pc = "count", !.ticket = k, !.conn = c,
                           !.cursor = last[t], !.link = "up"])
  BY DEF Consume, Accepted
<1> DEFINE r == [Unserved EXCEPT !.pc = "count", !.ticket = k, !.conn = c,
                   !.cursor = last[t], !.link = "up"]
<1>4. t \in Tabs /\ last[t] \in Published \cup {Nothing}
  BY <1>1, <1>2 DEF SocketInv, Used, EventsTypeOK
<1>5. /\ r \in Serving /\ r.pc = "count" /\ r.ticket = k /\ r.conn = c
      /\ r.cursor = last[t] /\ r.link = "up" /\ r.closed = FALSE
  BY <1>4 DEF Unserved, Serving
<1>6. ServeGoes(i, r)
  BY <1>3
<1> HIDE DEF r
<1>7. /\ serve' \in [Serves -> Serving]
      /\ \A j \in Serves : serve'[j] = IF j = i THEN r ELSE serve[j]
  BY <1>1, <1>5, <1>6 DEF ServeGoes, EventsTypeOK
<1>8. /\ ticket' \in [Serves -> [owner : Tabs \cup {Nothing}, live : BOOLEAN]]
      /\ \A l \in Serves : /\ ticket'[l].owner = ticket[l].owner
                           /\ ticket'[l].live <=> ticket[l].live /\ l # k
  <2>1. ticket \in [Serves -> [owner : Tabs \cup {Nothing}, live : BOOLEAN]]
    BY <1>1 DEF EventsTypeOK
  <2> DEFINE b == [ticket[k] EXCEPT !.live = FALSE]
  <2>2. ticket' = [ticket EXCEPT ![k] = b]
    BY <1>2, Zenon
  <2>3. /\ b \in [owner : Tabs \cup {Nothing}, live : BOOLEAN]
        /\ b.owner = ticket[k].owner /\ b.live = FALSE
    BY <2>1
  <2> HIDE DEF b
  <2>4. /\ ticket' \in [Serves -> [owner : Tabs \cup {Nothing}, live : BOOLEAN]]
        /\ \A l \in Serves : ticket'[l] = IF l = k THEN b ELSE ticket[l]
    BY <2>1, <2>2, <2>3
  <2> QED BY <2>3, <2>4
<1>9. /\ ~ Presented(i) /\ i \notin sub.to /\ i \notin clients /\ k # Nothing
      /\ ~ LinkUp(i)
  <2>1. ~ Presented(i)
    BY <1>1, <1>2 DEF SocketInv, Links, ServeAt
  <2>2. i \notin clients
    BY <1>1, <1>2 DEF SocketInv, Registered
  <2>3. ~ LinkUp(i)
    BY <1>1, <2>1, LinkFacts
  <2> QED BY <1>1, <2>1, <2>2, <2>3, EventsFacts DEF InHand
<1>10. \A j \in Serves : Presented(j) => j # i /\ serve[j].ticket \in Serves /\ serve[j].ticket # k
  BY <1>1, <1>2, <1>9, LinkFacts DEF SocketInv, Used
<1>11. \A j \in Serves : j # i =>
          /\ Presented(j)' <=> Presented(j)
          /\ LinkUp(j)' <=> LinkUp(j)
          /\ InCall(j)' <=> InCall(j)
          /\ Presented(j) => TabOf(j)' = TabOf(j)
  BY <1>7, <1>8, <1>10 DEF Presented, LinkUp, InCall, TabOf
<1>12. Presented(i)' /\ LinkUp(i)' /\ InCall(i)' /\ TabOf(i)' = t /\ serve'[i] = r
  BY <1>5, <1>7, <1>8, <1>9 DEF Presented, LinkUp, InCall, TabOf
<1>13. \A j \in Serves : LinkUp(j) => j # i /\ Presented(j) /\ TabOf(j) # t
  <2>1. \A j \in Serves : LinkUp(j) => j # i /\ Presented(j)
    BY <1>1, <1>9, LinkFacts
  <2> QED BY <1>2, <1>10, <2>1 DEF MayConnect, Presented, LinkUp
<1>14. EventsTypeOK'
  BY <1>1, <1>2, <1>7, <1>8 DEF EventsTypeOK
<1>15. SocketInv'
  <2>1. Links'
    <3> SUFFICES ASSUME NEW j \in Serves
        PROVE /\ ServeAt(j, "none")' <=> ~ Presented(j)'
              /\ ServeAt(j, "done")' <=> serve'[j].closed
              /\ LinkUp(j)' => InCall(j)'
              /\ InCall(j)' => serve'[j].conn \in Conns
              /\ Presented(j)' => ticket'[serve'[j].ticket].owner \in Tabs
      BY DEF Links
    <3>1. CASE j = i
      BY <1>4, <1>5, <1>8, <1>12, <3>1 DEF ServeAt
    <3>2. CASE j # i
      <4>1. serve'[j] = serve[j]
        BY <1>7, <3>2
      <4>2. /\ ServeAt(j, "none") <=> ~ Presented(j)
            /\ ServeAt(j, "done") <=> serve[j].closed
            /\ LinkUp(j) => InCall(j)
            /\ InCall(j) => serve[j].conn \in Conns
            /\ Presented(j) => ticket[serve[j].ticket].owner \in Tabs
        BY <1>1 DEF SocketInv, Links
      <4> QED BY <1>8, <1>10, <1>11, <3>2, <4>1, <4>2 DEF ServeAt
    <3> QED BY <3>1, <3>2
  <2>2. Exclusive'
    BY <1>1, <1>3, <1>5, <1>7, <1>11, <1>12 DEF SocketInv, Exclusive, Carries, InCall
  <2>3. Used'
    <3>1. \A j \in Serves : Presented(j)' => ~ ticket'[serve'[j].ticket].live
      BY <1>1, <1>5, <1>7, <1>8, <1>10, <1>11 DEF SocketInv, Used
    <3>2. \A l \in Serves : ticket'[l].live => ticket'[l].owner \in Tabs
      BY <1>1, <1>8 DEF SocketInv, Used
    <3> QED BY <3>1, <3>2 DEF Used
  <2>4. TicketOpensOnce'
    BY <1>1, <1>5, <1>7, <1>9, <1>10 DEF SocketInv, TicketOpensOnce, Presented
  <2>5. OneUp'
    BY <1>1, <1>11, <1>12, <1>13 DEF SocketInv, OneUp
  <2>6. Registered'
    BY <1>1, <1>2, <1>5, <1>7, <1>9 DEF SocketInv, Registered
  <2> QED BY <2>1, <2>2, <2>3, <2>4, <2>5, <2>6 DEF SocketInv
<1>16. InHand'
  <2>1. \A j \in sub.to : j \in Serves /\ Presented(j) /\ j # i
    BY <1>1, <1>9, EventsFacts DEF InHand, Subscriber
  <2>2. \A j \in sub.to : Presented(j)' /\ Sees(UserOf[TabOf(j)], sub.ev)'
    BY <1>1, <1>2, <1>11, <2>1 DEF InHand, Sees
  <2>3. \A j \in sub.to : serve'[j].pc \notin {"count", "register"}
    BY <1>1, <1>7, <2>1 DEF InHand
  <2> QED BY <1>1, <1>2, <2>2, <2>3 DEF InHand, SubAt
<1>17. Origins'
  BY <1>1, <1>2 DEF Origins, Held, Sees
<1>18. Cursors'
  <2> SUFFICES ASSUME NEW j \in Serves, Presented(j)'
      PROVE /\ serve'[j].cursor # Nothing =>
                serve'[j].cursor \in got'[TabOf(j)'] \cap (Held(history') \cup evicted')
            /\ ServeAt(j, "replay")' => Replays(j)'
    BY DEF Cursors
  <2>1. CASE j = i
    <3>1. last[t] # Nothing => last[t] \in got[t] \cap (Held(history) \cup evicted)
      BY <1>1, <1>4 DEF Origins
    <3> QED BY <1>2, <1>5, <1>12, <2>1, <3>1 DEF Held, ServeAt
  <2>2. CASE j # i
    <3>1. /\ Presented(j) /\ serve'[j] = serve[j] /\ TabOf(j)' = TabOf(j)
          /\ serve[j].cursor # Nothing =>
                serve[j].cursor \in got[TabOf(j)] \cap (Held(history) \cup evicted)
          /\ ServeAt(j, "replay") => Replays(j)
      BY <1>1, <1>7, <1>11, <2>2 DEF Cursors
    <3> QED BY <1>2, <3>1 DEF Held, ServeAt, Replays, Sees
  <2> QED BY <2>1, <2>2
<1>19. Away'
  <2> SUFFICES ASSUME NEW s \in Tabs, \A j \in Serves : LinkUp(j)' => TabOf(j)' # s
               PROVE  Follows(s, last[s])'
    BY DEF Away
  <2>1. \A j \in Serves : LinkUp(j) => TabOf(j) # s
    BY <1>11, <1>13
  <2>2. Follows(s, last[s])
    BY <1>1, <2>1 DEF Away
  <2> QED BY <1>2, <2>2 DEF Follows, Held
<1>20. Setup'
  <2> SUFFICES ASSUME NEW j \in Serves, LinkUp(j)' PROVE SetupAt(j)'
    BY DEF Setup, SetupAt
  <2>1. CASE j = i
    <3>1. Follows(t, last[t])
      BY <1>1, <1>4, <1>13 DEF Away
    <3>2. Follows(TabOf(i), serve[i].cursor)'
      BY <1>2, <1>5, <1>12, <3>1 DEF Follows, Held
    <3> QED BY <1>2, <1>5, <1>12, <2>1, <3>2 DEF SetupAt, ServeAt
  <2>2. CASE j # i
    <3>1. LinkUp(j) /\ SetupAt(j) /\ serve'[j] = serve[j] /\ TabOf(j)' = TabOf(j)
      BY <1>1, <1>7, <1>11, <1>13, <2>2 DEF Setup
    <3> QED BY <1>2, <3>1 DEF SetupAt, ServeAt, SubAt, Missing, Current, Follows, Held
  <2> QED BY <2>1, <2>2
<1> QED BY <1>14, <1>15, <1>16, <1>17, <1>18, <1>19, <1>20 DEF EventsInv, EventsBase

(* All sockets are gone and so is the history: nothing in it follows.      *)
LEMMA RestartKeeps ==
    ASSUME EventsInv, Restart
    PROVE  EventsInv'
<1> DEFINE gone(i) == [serve[i] EXCEPT !.pc = "done", !.rest = {}, !.closed = TRUE,
                                       !.link = "broken"]
<1>1. EventsTypeOK /\ SocketInv /\ InHand /\ Origins /\ Cursors
  BY DEF EventsInv, EventsBase
<1>2. /\ Upset /\ sub' = Starting /\ pending' = {} /\ history' = <<>>
      /\ evicted' = evicted \cup Held(history) /\ clients' = {}
      /\ serve' = [i \in Serves |-> IF ServeAt(i, "none") THEN serve[i] ELSE gone(i)]
      /\ UNCHANGED <<bus, ticket, got, last, owed>>
  BY DEF Restart
<1>3. \A i \in Serves : /\ gone(i) \in Serving
                        /\ gone(i).pc = "done" /\ gone(i).closed = TRUE
                        /\ gone(i).link = "broken" /\ gone(i).ticket = serve[i].ticket
                        /\ gone(i).cursor = serve[i].cursor
  BY <1>1, EventsFacts DEF Serving
<1>4. \A i \in Serves : serve'[i] = IF ServeAt(i, "none") THEN serve[i] ELSE gone(i)
  BY <1>2
<1>5. serve' \in [Serves -> Serving]
  BY <1>1, <1>2, <1>3, EventsFacts
<1> HIDE DEF gone
<1>6. \A i \in Serves : /\ serve'[i].pc \in {"none", "done"}
                        /\ serve'[i].pc = "none" <=> ServeAt(i, "none")
                        /\ ~ LinkUp(i)' /\ ~ InCall(i)'
                        /\ serve'[i].ticket = serve[i].ticket
                        /\ serve'[i].cursor = serve[i].cursor
                        /\ serve'[i].pc = "done" <=> serve'[i].closed
  <2> TAKE i \in Serves
  <2>1. CASE ServeAt(i, "none")
    <3>1. serve'[i] = serve[i] /\ serve[i].pc = "none" /\ ~ InCall(i)
      BY <1>4, <2>1 DEF ServeAt, InCall
    <3>2. ~ LinkUp(i) /\ (ServeAt(i, "done") <=> serve[i].closed)
      BY <1>1, <3>1, LinkFacts DEF SocketInv, Links
    <3> QED BY <2>1, <3>1, <3>2 DEF LinkUp, InCall, ServeAt
  <2>2. CASE ~ ServeAt(i, "none")
    BY <1>3, <1>4, <2>2 DEF LinkUp, InCall
  <2> QED BY <2>1, <2>2
<1>7. \A i \in Serves : (Presented(i)' <=> Presented(i)) /\ TabOf(i)' = TabOf(i)
  BY <1>2, <1>6 DEF Presented, TabOf
<1>8. Len(history') = 0 /\ Held(history') = {} /\ history' \in Seq(Published)
  BY <1>2 DEF Held
<1>9. Held(history) \cup evicted \subseteq Published
  BY <1>1, EventsFacts DEF Origins
<1>10. sub' \in Subscriber
  BY <1>1, <1>2, EventsFacts DEF Starting, Subscriber
<1>11. upsets' \in 0..MaxUpsets
  BY <1>1, <1>2, EventsFacts DEF Upset, EventsTypeOK
<1>12. EventsTypeOK'
  <2>1. Len(history') <= HistoryLimit /\ pending' \in SUBSET Published
        /\ clients' \in SUBSET Serves
    BY <1>1, <1>2, <1>8, EventsFacts
  <2> QED BY <1>1, <1>2, <1>5, <1>8, <1>9, <1>10, <1>11, <2>1 DEF EventsTypeOK
<1>13. SocketInv'
  <2>1. Links'
    BY <1>1, <1>2, <1>6, <1>7 DEF SocketInv, Links, ServeAt
  <2>2. Exclusive' /\ OneUp'
    BY <1>6 DEF Exclusive, OneUp
  <2>3. Used' /\ TicketOpensOnce'
    BY <1>1, <1>2, <1>6, <1>7 DEF SocketInv, Used, TicketOpensOnce
  <2>4. Registered'
    BY <1>2, <1>6 DEF Registered
  <2> QED BY <2>1, <2>2, <2>3, <2>4 DEF SocketInv
<1>14. InHand'
  <2>1. Len(bus) \in Nat
    BY <1>1, EventsFacts
  <2> QED BY <1>2, <2>1 DEF InHand, SubAt, Starting
<1>15. Origins'
  BY <1>1, <1>2, <1>8 DEF Origins, Sees
<1>16. Cursors'
  BY <1>1, <1>2, <1>6, <1>7, <1>8 DEF Cursors, ServeAt
<1>17. Away' /\ Setup'
  BY <1>6, <1>8 DEF Away, Setup, SetupAt, Follows
<1> QED BY <1>12, <1>13, <1>14, <1>15, <1>16, <1>17 DEF EventsInv, EventsBase

-----------------------------------------------------------------------------
LEMMA EventsInitKeeps == EventsInit => EventsInv
<1> SUFFICES ASSUME EventsInit PROVE EventsInv
  OBVIOUS
<1>1. {MaxPublished, MaxServes, MaxUpsets, HistoryLimit} \subseteq Nat
  BY EventsAssumption
<1>2. Unserved \in Serving
  BY DEF Unserved, Serving
<1>3. Starting \in Subscriber
  BY <1>1 DEF Starting, Subscriber
<1>4. bus = <<>> /\ Len(bus) = 0 /\ history = <<>> /\ Len(history) = 0 /\ Held(history) = {}
  BY DEF EventsInit, Held
<1>5. EventsTypeOK
  <2>1. /\ serve \in [Serves -> Serving]
        /\ ticket \in [Serves -> [owner : Tabs \cup {Nothing}, live : BOOLEAN]]
        /\ got \in [Tabs -> SUBSET Published] /\ owed \in [Tabs -> SUBSET Published]
        /\ last \in [Tabs -> Published \cup {Nothing}]
    BY <1>2 DEF EventsInit
  <2>2. /\ bus \in Seq(Targets) /\ Len(bus) <= MaxPublished
        /\ history \in Seq(Published) /\ Len(history) <= HistoryLimit
        /\ upsets \in 0..MaxUpsets
    BY <1>1, <1>4 DEF EventsInit
  <2> QED BY <1>3, <2>1, <2>2 DEF EventsInit, EventsTypeOK
<1>6. \A i \in Serves : /\ serve[i].pc = "none" /\ serve[i].ticket = Nothing
                        /\ serve[i].closed = FALSE /\ serve[i].link = "broken"
  BY DEF EventsInit, Unserved
<1>7. \A i \in Serves : ~ LinkUp(i) /\ ~ InCall(i) /\ ~ Presented(i)
  BY <1>6 DEF LinkUp, InCall, Presented
<1>8. \A k \in Serves : ticket[k].live = FALSE
  BY DEF EventsInit
<1>9. SocketInv
  <2>1. Links
    BY <1>6, <1>7 DEF Links, ServeAt
  <2>2. Exclusive /\ OneUp
    BY <1>7 DEF Exclusive, OneUp
  <2>3. Used
    BY <1>7, <1>8 DEF Used
  <2>4. TicketOpensOnce
    BY <1>6 DEF TicketOpensOnce
  <2>5. Registered
    BY <1>6 DEF Registered, EventsInit
  <2> QED BY <2>1, <2>2, <2>3, <2>4, <2>5 DEF SocketInv
<1>10. InHand
  BY <1>4 DEF InHand, SubAt, EventsInit, Starting
<1>11. Origins
  BY <1>4 DEF Origins, EventsInit
<1>12. Cursors /\ Setup
  BY <1>7 DEF Cursors, Setup, SetupAt
<1>13. Away
  BY <1>4 DEF Away, Follows
<1> QED BY <1>5, <1>9, <1>10, <1>11, <1>12, <1>13 DEF EventsInv, EventsBase

LEMMA EventsStutter ==
    ASSUME EventsInv, UNCHANGED eventsVars
    PROVE  EventsInv'
<1>1. /\ UNCHANGED <<bus, history, clients, ticket, serve, got, last, owed, evicted>>
      /\ UNCHANGED <<pending, sub, upsets>>
  BY DEF eventsVars
<1>2. InHand'
  <2>1. \A j \in sub.to : Presented(j)' /\ Sees(UserOf[TabOf(j)], sub.ev)'
    BY <1>1, HandFacts DEF InHand, Presented, Sees, TabOf
  <2> QED BY <1>1, <2>1, HandFacts DEF InHand, SubAt
<1>3. \A i \in Serves : LinkUp(i) =>
         /\ ServeAt(i, "open") =>
               Missing(i) \subseteq IF SubAt("snapshot")' \/ i \in sub'.to THEN {sub'.ev} ELSE {}
         /\ ServeAt(i, "close") /\ i \in sub'.to => Missing(i) \subseteq {sub'.ev}
  BY <1>1, HandFacts DEF Current, SubAt
<1> QED BY <1>1, <1>2, <1>3, HandFacts, SubKeeps

LEMMA EventsStepKeeps == EventsInv /\ [EventsNext]_eventsVars => EventsInv'
<1> SUFFICES ASSUME EventsInv, [EventsNext]_eventsVars PROVE EventsInv'
  OBVIOUS
<1>1. CASE UNCHANGED eventsVars
  BY <1>1, EventsStutter
<1>2. ASSUME NEW target \in Targets, Publish(target) PROVE EventsInv'
  BY <1>2, PublishKeeps
<1>3. CASE Subscribe \/ AckFails
  BY <1>3, CreateGroupKeeps, ReadGroupKeeps, AppendKeeps, SnapshotKeeps, AckKeeps,
     BlockOnKeeps, WriteLiveKeeps DEF Subscribe
<1>4. ASSUME NEW t \in Tabs, Issue(t) PROVE EventsInv'
  BY <1>4, IssueKeeps
<1>5. ASSUME NEW i \in Serves, ServeSteps(i) PROVE EventsInv'
  BY <1>5, CountKeeps, RegisterKeeps, BeginReplayKeeps, WriteReplayedKeeps, EndReplayKeeps,
     UnregisterKeeps, MarkClosedKeeps DEF ServeSteps
<1>6. ASSUME NEW i \in Serves, NEW k \in Serves, Consume(i, k) PROVE EventsInv'
  BY <1>6, ConsumeKeeps
<1>7. ASSUME NEW i \in Serves, PeerLeaves(i) \/ PeerStalls(i) \/ StallEnds(i)
      PROVE  EventsInv'
  BY <1>7, PeerKeeps
<1>8. CASE Restart
  BY <1>8, RestartKeeps
<1> QED BY <1>1, <1>2, <1>3, <1>4, <1>5, <1>6, <1>7, <1>8 DEF EventsNext

(* Sockets, the subscriber, the history and what the tabs hold agree, in   *)
(* every behaviour of the gateway's realtime handler.                      *)
THEOREM EventsInvariant == EventsSpec => []EventsInv
<1> QED BY EventsInitKeeps, EventsStepKeeps, PTL DEF EventsSpec

(* A tab whose socket is open has received every event for its user since  *)
(* it first connected but for the one being written (Handler.Serve and     *)
(* publishEvent), within the promise that the definition of owed states:   *)
(* for any number of tabs, sockets and events and any limit of the history. *)
THEOREM NoGapHolds == EventsSpec => []NoGap
<1>1. EventsInv => NoGap
  BY DEF EventsInv, Setup, SetupAt, NoGap, LinkUp, Missing, Current
<1> QED BY <1>1, EventsInvariant, PTL

(* An event for one user reaches no tab of another, whatever connection    *)
(* objects the pool hands out while the subscriber holds old writers       *)
(* (newConnectionWriter).                                                  *)
THEOREM OnlyOwnEventsHolds == EventsSpec => []OnlyOwnEvents
<1>1. EventsInv => OnlyOwnEvents
  BY DEF EventsInv, EventsBase, Origins, OnlyOwnEvents
<1> QED BY <1>1, EventsInvariant, PTL

(* A ticket opens at most one socket (TicketManager.Consume).              *)
THEOREM TicketOpensOnceHolds == EventsSpec => []TicketOpensOnce
<1>1. EventsInv => TicketOpensOnce
  BY DEF EventsInv, EventsBase, SocketInv
<1> QED BY <1>1, EventsInvariant, PTL

(***************************************************************************)
(* Nobody waits for ever.  OnlyPeersBlock says it with ENABLED; here the   *)
(* guards of the goroutines are spelled out.  The subscriber waits for     *)
(* historyMu before it has any writeMu, and for a writeMu with historyMu   *)
(* released, so it never holds what a replay needs while it waits.         *)
(***************************************************************************)

SubscriberCanMove ==
    \/ SubAt("group") \/ SubAt("snapshot")
    \/ SubAt("append") /\ \A i \in Serves : ~ ServeAt(i, "replay")
    \/ SubAt("write") /\ sub.to = {}
    \/ SubAt("write") /\ \E i \in sub.to : sub.at = i /\ ~ Blocked(i)
    \/ SubAt("write") /\ sub.to # {} /\ sub.at = Nothing

ServeCanMove(i) ==
    \/ ServeAt(i, "count") \/ ServeAt(i, "register")
    \/ ServeAt(i, "ready") /\ \A j \in Serves : ~ ServeAt(j, "replay")
    \/ ServeAt(i, "replay") /\ serve[i].rest = {}
    \/ ServeAt(i, "replay") /\ sub.at # i /\ ~ Blocked(i)
    \/ ServeAt(i, "open") /\ serve[i].link # "up"
    \/ ServeAt(i, "close") /\ sub.at # i

(* As long as an event is handed out or a socket set up or torn down, the  *)
(* guard of some goroutine holds, unless a peer has stalled.               *)
SomeoneCanMove ==
    \/ SubAt("read") /\ \A i \in Serves : InCall(i) => ServeAt(i, "open")
    \/ \E i \in Serves : serve[i].link = "stalled"
    \/ SubscriberCanMove
    \/ \E i \in Serves : ServeCanMove(i)

(* The writeMu that the subscriber has is of a socket it still writes to.  *)
HoldsForWrite == sub.at # Nothing => sub.at \in sub.to

(* It is released with the write, before the event is left.                *)
LEMMA HoldsKeeps ==
    ASSUME EventsInv, HoldsForWrite, [EventsNext]_eventsVars
    PROVE  HoldsForWrite'
<1>1. sub \in Subscriber /\ (~ SubAt("write") => sub.to = {})
  BY DEF EventsInv, EventsBase, EventsTypeOK, InHand
<1>2. CASE UNCHANGED sub
  BY <1>2 DEF HoldsForWrite
<1>3. CASE CreateGroup \/ ReadGroup \/ AppendHistory
  <2>1. sub'.at = sub.at /\ sub'.to = sub.to
    BY <1>1, <1>3 DEF CreateGroup, ReadGroup, AppendHistory, Subscriber
  <2> QED BY <2>1 DEF HoldsForWrite
<1>4. CASE SnapshotWriters
  <2>1. sub'.at = sub.at /\ sub.to = {}
    BY <1>1, <1>4 DEF SnapshotWriters, Subscriber, SubAt
  <2> QED BY <2>1 DEF HoldsForWrite
<1>5. CASE \E i \in Serves : BlockOn(i)
  BY <1>1, <1>5 DEF BlockOn, Subscriber, HoldsForWrite
<1>6. CASE \E i \in Serves : WriteLive(i)
  BY <1>1, <1>6 DEF WriteLive, Subscriber, HoldsForWrite
<1>7. CASE Ack \/ AckFails
  <2>1. sub'.at = sub.at /\ sub.to = {}
    BY <1>1, <1>7 DEF Ack, AckFails, Acked, Subscriber
  <2> QED BY <2>1 DEF HoldsForWrite
<1>8. CASE Restart
  BY <1>8 DEF Restart, Starting, HoldsForWrite
<1>9. ASSUME NEW i \in Serves,
             \/ ServeSteps(i) \/ PeerLeaves(i) \/ PeerStalls(i) \/ StallEnds(i)
             \/ \E k \in Serves : Consume(i, k)
      PROVE  UNCHANGED sub
  BY <1>9 DEF ServeSteps, CountConnections, RegisterClient, BeginReplay,
       WriteReplayed, EndReplay, UnregisterClient, MarkClosed, PeerLeaves,
       PeerStalls, StallEnds, Consume, Accepted
<1>10. ASSUME \/ \E target \in Targets : Publish(target)
              \/ \E t \in Tabs : Issue(t)
       PROVE  UNCHANGED sub
  BY <1>10 DEF Publish, Issue
<1> QED
  BY <1>2, <1>3, <1>4, <1>5, <1>6, <1>7, <1>8, <1>9, <1>10
  DEF EventsNext, Subscribe, eventsVars

(* No set of goroutines of the gateway waits on each other for historyMu   *)
(* and writeMu (publishEvent, replay, connectionClosed): for any number of *)
(* sockets and events, whatever breaks and restarts, one of them may go on *)
(* unless a peer has stopped reading.                                      *)
THEOREM SomeoneCanMoveHolds == EventsSpec => []SomeoneCanMove
<1>1. EventsInit => HoldsForWrite
  BY DEF EventsInit, Starting, HoldsForWrite
<1>2. EventsInv /\ HoldsForWrite => SomeoneCanMove
  <2> SUFFICES ASSUME EventsInv, HoldsForWrite,
                      \A i \in Serves : serve[i].link # "stalled"
               PROVE  SomeoneCanMove
    BY DEF SomeoneCanMove
  <2>1. /\ sub.pc \in {"group", "read", "append", "snapshot", "write"}
        /\ ~ SubAt("write") => sub.at = Nothing
        /\ \A i \in Serves : i # Nothing
        /\ \A i \in Serves :
              serve[i].pc \in {"none", "count", "register", "ready", "replay",
                               "open", "close", "done"}
    BY DEF EventsInv, EventsBase, EventsTypeOK, Subscriber, Serving, InHand,
           HoldsForWrite, Serves, Nothing
  <2>2. \A i : ~ Blocked(i)
    BY DEF Blocked
  <2>3. CASE sub.pc \in {"group", "snapshot", "write"}
    BY <2>2, <2>3 DEF SomeoneCanMove, SubscriberCanMove, SubAt, HoldsForWrite
  <2>4. ASSUME NEW j \in Serves, ServeAt(j, "replay"), ~ SubAt("write")
        PROVE  SomeoneCanMove
    BY <2>1, <2>2, <2>4 DEF SomeoneCanMove, ServeCanMove
  <2>5. CASE SubAt("append")
    BY <2>4, <2>5 DEF SomeoneCanMove, SubscriberCanMove, SubAt
  <2>6. CASE SubAt("read")
    <3> SUFFICES ASSUME NEW i \in Serves, InCall(i), ~ ServeAt(i, "open")
                 PROVE  SomeoneCanMove
      BY <2>6 DEF SomeoneCanMove
    <3>1. ~ SubAt("write") /\ sub.at # i
      BY <2>1, <2>6 DEF SubAt
    <3>2. serve[i].pc \in {"count", "register", "ready", "replay", "close"}
      BY <2>1 DEF InCall, ServeAt
    <3>3. ServeCanMove(i) \/ \E j \in Serves : ServeAt(j, "replay")
      BY <3>1, <3>2 DEF ServeCanMove, ServeAt
    <3> QED BY <2>4, <3>1, <3>3 DEF SomeoneCanMove
  <2> QED BY <2>1, <2>3, <2>5, <2>6 DEF SubAt
<1>3. EventsInv /\ HoldsForWrite /\ [EventsNext]_eventsVars => HoldsForWrite'
  BY HoldsKeeps
<1> QED BY <1>1, <1>2, <1>3, EventsInvariant, PTL DEF EventsSpec

(* The sockets and the bots together: each part keeps its invariant while  *)
(* the other rests.                                                        *)
THEOREM ConnectionsInvariant == Spec => []ConnectionsInv
<1>1. Init => ConnectionsInv
  BY EventsInitKeeps, BotInitKeeps DEF Init, ConnectionsInv
<1>2. ConnectionsInv /\ [Next]_vars => ConnectionsInv'
  <2>1. [Next]_vars => [EventsNext]_eventsVars /\ [BotNext]_botVars
    BY DEF Next, vars, eventsVars, botVars
  <2> QED BY <2>1, EventsStepKeeps, BotStepKeeps DEF ConnectionsInv
<1> QED BY <1>1, <1>2, PTL DEF Spec

(* Hence the state of the realtime handler and of the bot runtime keeps    *)
(* its shape in the composed model.                                        *)
THEOREM ConnectionsTypeHolds == Spec => []ConnectionsTypeOK
<1>1. ConnectionsInv => ConnectionsTypeOK
  BY DEF ConnectionsInv, EventsInv, EventsBase, BotInv, ConnectionsTypeOK
<1> QED BY <1>1, ConnectionsInvariant, PTL
=============================================================================
