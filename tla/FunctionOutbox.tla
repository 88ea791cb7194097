---------------------------- MODULE FunctionOutbox ----------------------------
(***************************************************************************)
(* The transactional outbox of func-operation: events recorded with a      *)
(* release, an unpublish or a failed menu call are claimed under a lease,  *)
(* delivered to the realtime bus or the system service, and marked.        *)
(*                                                                         *)
(* Processors are the one-minute ticker, an operator's replay, and the     *)
(* request that delivers its own event at once; nothing but conditional    *)
(* updates keeps them apart.  Clock values are abstracted to two facts per *)
(* event: its next attempt is due, and its sixty-second lease has lapsed.  *)
(* ProcessReady reads the clock once for a whole batch, so a lease may     *)
(* lapse at any moment of a delivery.                                      *)
(***************************************************************************)
EXTENDS Integers, FiniteSets

CONSTANTS
    MaxEvents,      \* bound on the rows of the outbox table
    Procs,          \* processors
    Ticker,         \* the processor driven by the ticker
    Limit,          \* events one batch may claim
    MaxFaults,      \* bound on failed calls and process crashes
    None

ASSUME OutboxAssumption ==
    /\ MaxEvents \in Nat
    /\ Limit \in Nat \ {0}
    /\ MaxFaults \in Nat
    /\ Ticker \in Procs
    /\ None \notin Nat

VARIABLES
    event,          \* outbox table, by autoincrement id
    proc,           \* what each processor is doing
    delivered,      \* events whose effect has happened at least once
    everLapsed,     \* events whose lease has lapsed at least once
    faults          \* failed calls and crashes so far

vars == <<event, proc, delivered, everLapsed, faults>>

Events == 1..MaxEvents

EventRow == [status : {"none", "pending", "processing", "failed", "done"},
             due : BOOLEAN, lapsed : BOOLEAN]

Processor == [pc : {"idle", "select", "claim", "deliver", "retry", "mark",
                    "fast", "fastMark"},
              todo : SUBSET Events, held : SUBSET Events,
              cur : Events \cup {None}]

Resting == [pc |-> "idle", todo |-> {}, held |-> {}, cur |-> None]

Init ==
    /\ event = [e \in Events |->
                  [status |-> "none", due |-> FALSE, lapsed |-> FALSE]]
    /\ proc = [p \in Procs |-> Resting]
    /\ delivered = {}
    /\ everLapsed = {}
    /\ faults = 0

-----------------------------------------------------------------------------
At(p, pc) == proc[p].pc = pc

Become(p, r) == proc' = [proc EXCEPT ![p] = r]

Set(e, row) == event' = [event EXCEPT ![e] = row]

(* A call to the database, the bus or the system service fails, or the     *)
(* process dies.                                                           *)
Fault ==
    /\ faults < MaxFaults
    /\ faults' = faults + 1

IsLeast(e, S) == e \in S /\ \A d \in S : e <= d

(* Mutant of Create: a status that no query of the outbox selects.         *)
CreateQueued(e) ==
    /\ event[e].status = "none"
    /\ \A d \in Events : d < e => event[d].status # "none"
    /\ Set(e, [status |-> "queued", due |-> TRUE, lapsed |-> FALSE])
    /\ UNCHANGED <<proc, delivered, everLapsed, faults>>

(* FunctionOutbox.Create, alone or in the publish transaction.             *)
Create(e) ==
    /\ event[e].status = "none"
    /\ \A d \in Events : d < e => event[d].status # "none"
    /\ Set(e, [status |-> "pending", due |-> TRUE, lapsed |-> FALSE])
    /\ UNCHANGED <<proc, delivered, everLapsed, faults>>

(* Clocks: next_attempt_at is reached, sixty seconds pass after a claim.   *)
BecomesDue(e) ==
    /\ event[e].status \in {"pending", "failed"}
    /\ ~ event[e].due
    /\ Set(e, [event[e] EXCEPT !.due = TRUE])
    /\ UNCHANGED <<proc, delivered, everLapsed, faults>>

LeaseLapses(e) ==
    /\ event[e].status = "processing"
    /\ ~ event[e].lapsed
    /\ Set(e, [event[e] EXCEPT !.lapsed = TRUE])
    /\ everLapsed' = everLapsed \cup {e}
    /\ UNCHANGED <<proc, delivered, faults>>

-----------------------------------------------------------------------------
(* ClaimReady.                                                             *)

(* Mutant of Ready: an event left in "processing" is never looked at again. *)
ReadyUnclaimed(e) == event[e].status \in {"pending", "failed"} /\ event[e].due

Ready(e) == \/ event[e].status \in {"pending", "failed"} /\ event[e].due
            \/ event[e].status = "processing" /\ event[e].lapsed

(* Mutant of Claimable: the lease is not checked.                          *)
ClaimableAlways(e) == event[e].status \in {"pending", "failed", "processing"}

(* The WHERE of the conditional update: the due time is not looked at      *)
(* again.                                                                  *)
Claimable(e) == \/ event[e].status \in {"pending", "failed"}
                \/ event[e].status = "processing" /\ event[e].lapsed

(* The Limit ready events with the lowest ids.                             *)
Batch ==
    {e \in Events :
        /\ Ready(e)
        /\ Cardinality({d \in 1..e : Ready(d)}) <= Limit}

(* A tick that finds nothing changes nothing.                              *)
Select(p) ==
    /\ \/ At(p, "select")
       \/ p = Ticker /\ At(p, "idle") /\ Batch # {}
    /\ Become(p, [Resting EXCEPT !.pc = "claim", !.todo = Batch])
    /\ UNCHANGED <<event, delivered, everLapsed, faults>>

Claim(p, e) ==
    /\ At(p, "claim")
    /\ IsLeast(e, proc[p].todo)
    /\ IF Claimable(e)
       THEN /\ Set(e, [event[e] EXCEPT !.status = "processing",
                                       !.lapsed = FALSE])
            /\ Become(p, [proc[p] EXCEPT !.todo = @ \ {e},
                                         !.held = @ \cup {e}])
       ELSE /\ Become(p, [proc[p] EXCEPT !.todo = @ \ {e}])
            /\ UNCHANGED event
    /\ UNCHANGED <<delivered, everLapsed, faults>>

Claimed(p) ==
    /\ At(p, "claim")
    /\ proc[p].todo = {}
    /\ Become(p, [proc[p] EXCEPT !.pc = "deliver"])
    /\ UNCHANGED <<event, delivered, everLapsed, faults>>

-----------------------------------------------------------------------------
(* The loop of ProcessReady.                                               *)

Deliver(p, e) ==
    /\ At(p, "deliver")
    /\ IsLeast(e, proc[p].held)
    /\ delivered' = delivered \cup {e}
    /\ Become(p, [proc[p] EXCEPT !.pc = "mark", !.cur = e])
    /\ UNCHANGED <<event, everLapsed, faults>>

(* Mutant of DeliverFails: a failed delivery is marked like a good one.    *)
DeliverFailsMarked(p, e) ==
    /\ Fault
    /\ At(p, "deliver")
    /\ IsLeast(e, proc[p].held)
    /\ delivered' \in {delivered, delivered \cup {e}}
    /\ Become(p, [proc[p] EXCEPT !.pc = "mark", !.cur = e])
    /\ UNCHANGED <<event, everLapsed>>

(* The call fails, possibly after it took effect.                          *)
DeliverFails(p, e) ==
    /\ Fault
    /\ At(p, "deliver")
    /\ IsLeast(e, proc[p].held)
    /\ delivered' \in {delivered, delivered \cup {e}}
    /\ Become(p, [proc[p] EXCEPT !.pc = "retry", !.cur = e])
    /\ UNCHANGED <<event, everLapsed>>

Settled(p) == [proc[p] EXCEPT !.pc = "deliver", !.cur = None,
                              !.held = @ \ {proc[p].cur}]

(* Both marks are updates by id, whatever the event's status is by now.    *)
MarkDone(p) ==
    /\ At(p, "mark")
    /\ Set(proc[p].cur, [status |-> "done", due |-> TRUE, lapsed |-> FALSE])
    /\ Become(p, Settled(p))
    /\ UNCHANGED <<delivered, everLapsed, faults>>

MarkRetry(p) ==
    /\ At(p, "retry")
    /\ Set(proc[p].cur, [status |-> "failed", due |-> FALSE, lapsed |-> FALSE])
    /\ Become(p, Settled(p))
    /\ UNCHANGED <<delivered, everLapsed, faults>>

(* An error of MarkRetry is ignored.                                       *)
MarkRetryLost(p) ==
    /\ Fault
    /\ At(p, "retry")
    /\ Become(p, Settled(p))
    /\ UNCHANGED <<event, delivered, everLapsed>>

BatchEnds(p) ==
    /\ At(p, "deliver")
    /\ proc[p].held = {}
    /\ Become(p, Resting)
    /\ UNCHANGED <<event, delivered, everLapsed, faults>>

(* Any other error, or a cancelled context, returns at once: what has been *)
(* claimed stays "processing".                                             *)
Abandon(p) ==
    /\ Fault
    /\ ~ At(p, "idle")
    /\ Become(p, Resting)
    /\ UNCHANGED <<event, delivered, everLapsed>>

-----------------------------------------------------------------------------
(* OutboxManagementLogic.Replay.                                           *)
Requeue(p) ==
    /\ p # Ticker
    /\ At(p, "idle")
    /\ event' = [e \in Events |->
                   IF event[e].status = "failed"
                   THEN [event[e] EXCEPT !.status = "pending", !.due = TRUE]
                   ELSE event[e]]
    /\ Become(p, [Resting EXCEPT !.pc = "select"])
    /\ UNCHANGED <<delivered, everLapsed, faults>>

(* DeliverFunctionPublished and tryDeliverRealtimeEvent.                   *)
GetByReleaseID(p, e) ==
    /\ p # Ticker
    /\ At(p, "idle")
    /\ event[e].status # "none"
    /\ Become(p, [Resting EXCEPT !.pc = "fast", !.cur = e])
    /\ UNCHANGED <<event, delivered, everLapsed, faults>>

TryDeliverRealtimeEvent(p) ==
    /\ At(p, "fast")
    /\ delivered' = delivered \cup {proc[p].cur}
    /\ Become(p, [proc[p] EXCEPT !.pc = "fastMark"])
    /\ UNCHANGED <<event, everLapsed, faults>>

MarkDoneByUUID(p) ==
    /\ At(p, "fastMark")
    /\ Set(proc[p].cur, [status |-> "done", due |-> TRUE, lapsed |-> FALSE])
    /\ Become(p, Resting)
    /\ UNCHANGED <<delivered, everLapsed, faults>>

(* The process dies; on start the ticker's processor runs first.           *)
Crash ==
    /\ Fault
    /\ proc' = [p \in Procs |-> Resting]
    /\ UNCHANGED <<event, delivered, everLapsed>>

-----------------------------------------------------------------------------
(* A processor goes on with what it has begun.                             *)
Work(p) ==
    \/ Select(p) \/ Claimed(p) \/ BatchEnds(p)
    \/ MarkDone(p) \/ MarkRetry(p)
    \/ TryDeliverRealtimeEvent(p) \/ MarkDoneByUUID(p)
    \/ \E e \in Events : Claim(p, e) \/ Deliver(p, e)

(* A call of it fails.                                                     *)
Fail(p) ==
    \/ MarkRetryLost(p) \/ Abandon(p)
    \/ \E e \in Events : DeliverFails(p, e)

(* A request arrives.                                                      *)
Arrive(p) ==
    \/ Requeue(p)
    \/ \E e \in Events : GetByReleaseID(p, e)

Next ==
    \/ \E e \in Events : Create(e) \/ BecomesDue(e) \/ LeaseLapses(e)
    \/ \E p \in Procs : Work(p) \/ Fail(p) \/ Arrive(p)
    \/ Crash

Spec == Init /\ [][Next]_vars

(* Time passes, the ticker keeps firing and running goroutines are         *)
(* scheduled.  Failures are transient: MaxFaults bounds them, and says     *)
(* nothing of when they strike.                                            *)
Fairness ==
    /\ \A e \in Events : WF_vars(BecomesDue(e)) /\ WF_vars(LeaseLapses(e))
    /\ \A p \in Procs : WF_vars(Work(p))

FairSpec == Spec /\ Fairness

-----------------------------------------------------------------------------
(***************************************************************************)
(* Properties.                                                             *)
(***************************************************************************)

(* Rows and processors keep their shape.                                   *)
TypeOK ==
    /\ event \in [Events -> EventRow]
    /\ proc \in [Procs -> Processor]
    /\ delivered \in SUBSET Events
    /\ everLapsed \in SUBSET Events
    /\ faults \in 0..MaxFaults

(* An event marked done has taken effect: neither a crash between claim,   *)
(* delivery and mark, nor a processor that marks an event another one      *)
(* holds, loses a delivery.                                                *)
DoneWasDelivered ==
    \A e \in Events : event[e].status = "done" => e \in delivered

(* Two processors work on the same event only if its lease once lapsed:    *)
(* the conditional update hands an event to one claimant, also when both   *)
(* selected it, and also when it failed and was requeued in between.       *)
ClaimExclusive ==
    \A p, q \in Procs : p # q => proc[p].held \cap proc[q].held \subseteq everLapsed

(* Every recorded event is eventually done, through failed deliveries,     *)
(* lost marks, lapsed leases, late marks of other processors and crashes:  *)
(* "a committed release always has a retryable delivery".                  *)
EventuallyDone ==
    \A e \in Events : event[e].status # "none" ~> event[e].status = "done"

(* The fate of an event: its row, and whether it has taken effect.  A row  *)
(* done without effect has no counterpart in the promise.                  *)
FateOf(e) ==
    IF event[e].status = "none" THEN "none"
    ELSE IF event[e].status = "done"
         THEN IF e \in delivered THEN "settled" ELSE "lost"
         ELSE IF e \in delivered THEN "effected" ELSE "owed"

Fate == [e \in Events |-> FateOf(e)]

Promise == INSTANCE OutboxPromise WITH fate <- Fate

(* Claims, leases, retries, replays and crashes implement the promise of   *)
(* OutboxPromise: each step of the outbox is a step of one event's fate,   *)
(* or none.                                                                *)
KeepsPromise == Promise!PromiseSpec
=============================================================================
