------------------------- MODULE FunctionOutboxProofs -------------------------
(***************************************************************************)
(* Proofs about FunctionOutbox, for any number of events and processors    *)
(* and any batch limit.                                                    *)
(***************************************************************************)
EXTENDS FunctionOutbox, TLAPS

(* What a processor's program counter says of the event it works on.       *)
Busy(p) ==
    /\ At(p, "mark") \/ At(p, "retry") => proc[p].cur \in proc[p].held
    /\ At(p, "mark") \/ At(p, "fastMark") => proc[p].cur \in delivered
    /\ At(p, "fast") \/ At(p, "fastMark") => proc[p].cur \in Events

(* While no lease of it has lapsed, a held event is being processed, or    *)
(* the fast path has already marked it.                                    *)
HeldStatus ==
    \A p \in Procs : \A e \in proc[p].held :
        e \notin everLapsed => event[e].status \in {"processing", "done"}

(* everLapsed remembers the lapsed leases.                                 *)
Remembered == \A e \in Events : event[e].lapsed => e \in everLapsed

Inv ==
    /\ TypeOK
    /\ \A p \in Procs : Busy(p)
    /\ HeldStatus
    /\ Remembered
    /\ DoneWasDelivered
    /\ ClaimExclusive

(* A processor's record changes and no event does: enough is that the new  *)
(* record is typed, holds nothing new and is coherent.                     *)
LEMMA ProcessorMoves ==
    ASSUME Inv, NEW p \in Procs, NEW r \in Processor,
           Become(p, r), event' = event, everLapsed' = everLapsed,
           delivered \subseteq delivered', delivered' \in SUBSET Events,
           faults' \in 0..MaxFaults,
           r.held \subseteq proc[p].held,
           r.pc \in {"mark", "retry"} => r.cur \in r.held,
           r.pc \in {"mark", "fastMark"} => r.cur \in delivered',
           r.pc \in {"fast", "fastMark"} => r.cur \in Events
    PROVE  Inv'
  <1>1. proc' = [proc EXCEPT ![p] = r] /\ proc \in [Procs -> Processor]
    BY DEF Become, Inv, TypeOK
  <1>2. proc'[p] = r /\ \A q \in Procs : q # p => proc'[q] = proc[q]
    BY <1>1
  <1>3. TypeOK'
    BY <1>1 DEF Inv, TypeOK
  <1>4. \A q \in Procs : Busy(q)'
    BY <1>2 DEF Inv, Busy, At
  <1>5. \A q \in Procs : proc'[q].held \subseteq proc[q].held
    BY <1>2
  <1>6. HeldStatus' /\ Remembered' /\ DoneWasDelivered' /\ ClaimExclusive'
    BY <1>5 DEF Inv, HeldStatus, Remembered, DoneWasDelivered, ClaimExclusive
  <1> QED
    BY <1>3, <1>4, <1>6 DEF Inv

(* An event's row changes and no processor does.                           *)
LEMMA EventMoves ==
    ASSUME Inv, UNCHANGED <<proc, delivered, faults>>,
           event' \in [Events -> EventRow], everLapsed' \in SUBSET Events,
           everLapsed \subseteq everLapsed',
           \A e \in Events :
              /\ event'[e].lapsed => event[e].lapsed \/ e \in everLapsed'
              /\ event'[e].status = "done" => event[e].status = "done"
              /\ event[e].status \in {"processing", "done"} =>
                    event'[e].status = event[e].status
    PROVE  Inv'
  <1>1. TypeOK'
    BY DEF Inv, TypeOK
  <1>2. \A q \in Procs : Busy(q)'
    BY DEF Inv, Busy, At
  <1>3. \A p \in Procs : proc[p].held \subseteq Events
    BY DEF Inv, TypeOK, Processor
  <1>4. HeldStatus'
    <2> SUFFICES ASSUME NEW p \in Procs, NEW e \in proc[p].held, e \notin everLapsed'
                 PROVE  event'[e].status \in {"processing", "done"}
      BY DEF HeldStatus
    <2>1. e \in Events /\ event[e].status \in {"processing", "done"}
      BY <1>3 DEF Inv, HeldStatus
    <2> QED BY <2>1
  <1>5. Remembered'
    BY DEF Inv, Remembered
  <1>6. DoneWasDelivered'
    BY DEF Inv, DoneWasDelivered
  <1>7. ClaimExclusive'
    BY DEF Inv, ClaimExclusive
  <1> QED
    BY <1>1, <1>2, <1>4, <1>5, <1>6, <1>7 DEF Inv

(* An initial state satisfies the invariant.                               *)
LEMMA InitInv == Init => Inv
  <1> SUFFICES ASSUME Init PROVE Inv
    OBVIOUS
  <1>1. \A p \in Procs : proc[p] = Resting
    BY DEF Init
  <1>2. Resting \in Processor /\ Resting.held = {} /\ Resting.pc = "idle"
    BY DEF Resting, Processor
  <1>3. TypeOK
    <2>1. [status |-> "none", due |-> FALSE, lapsed |-> FALSE] \in EventRow
      BY DEF EventRow
    <2>2. event \in [Events -> EventRow]
      BY <2>1 DEF Init
    <2>3. faults \in 0..MaxFaults
      BY OutboxAssumption DEF Init
    <2> QED BY <1>2, <2>2, <2>3 DEF Init, TypeOK
  <1>4. \A p \in Procs : Busy(p)
    BY <1>1, <1>2 DEF Busy, At
  <1>5. HeldStatus /\ ClaimExclusive
    BY <1>1, <1>2 DEF HeldStatus, ClaimExclusive
  <1>6. Remembered /\ DoneWasDelivered
    BY DEF Init, Remembered, DoneWasDelivered
  <1> QED BY <1>3, <1>4, <1>5, <1>6 DEF Inv

(* A new event, a due time or a lapsed lease disturbs nobody.              *)
LEMMA ClockSteps ==
    ASSUME Inv, NEW e \in Events, Create(e) \/ BecomesDue(e) \/ LeaseLapses(e)
    PROVE  Inv'
  <1>1. PICK row \in EventRow :
            /\ event' = [event EXCEPT ![e] = row]
            /\ row.lapsed => event[e].lapsed \/ e \in everLapsed'
            /\ row.status = "done" => event[e].status = "done"
            /\ event[e].status \in {"processing", "done"} =>
                    row.status = event[e].status
    <2>1. CASE Create(e)
      BY <2>1 DEF Create, Set, EventRow
    <2>2. CASE BecomesDue(e)
      <3> DEFINE row == [event[e] EXCEPT !.due = TRUE]
      <3>1. row \in EventRow /\ row.lapsed = event[e].lapsed /\ row.status = event[e].status
        BY DEF Inv, TypeOK, EventRow
      <3> QED BY <2>2, <3>1 DEF BecomesDue, Set
    <2>3. CASE LeaseLapses(e)
      <3> DEFINE row == [event[e] EXCEPT !.lapsed = TRUE]
      <3>1. row \in EventRow /\ row.status = event[e].status
        BY DEF Inv, TypeOK, EventRow
      <3>2. e \in everLapsed'
        BY <2>3 DEF LeaseLapses
      <3> QED BY <2>3, <3>1, <3>2 DEF LeaseLapses, Set
    <2> QED BY <2>1, <2>2, <2>3
  <1>2. event \in [Events -> EventRow] /\ everLapsed \in SUBSET Events
    BY DEF Inv, TypeOK
  <1>3. event' \in [Events -> EventRow]
    BY <1>1, <1>2
  <1>4. event'[e] = row /\ \A d \in Events : d # e => event'[d] = event[d]
    BY <1>1, <1>2
  <1>5. /\ UNCHANGED <<proc, delivered, faults>>
        /\ everLapsed' \in SUBSET Events /\ everLapsed \subseteq everLapsed'
    BY <1>2 DEF Create, BecomesDue, LeaseLapses
  <1>6. \A d \in Events :
            /\ event'[d].lapsed => event[d].lapsed \/ d \in everLapsed'
            /\ event'[d].status = "done" => event[d].status = "done"
            /\ event[d].status \in {"processing", "done"} =>
                  event'[d].status = event[d].status
    BY <1>1, <1>4
  <1> QED BY <1>3, <1>5, <1>6, EventMoves

(* A step that only moves a processor on.                                  *)
LEMMA WorkMoves ==
    ASSUME Inv, NEW p \in Procs,
           \/ Select(p) \/ Claimed(p) \/ BatchEnds(p) \/ MarkRetryLost(p)
           \/ Abandon(p) \/ TryDeliverRealtimeEvent(p)
           \/ \E e \in Events : \/ Deliver(p, e) \/ DeliverFails(p, e)
                                \/ GetByReleaseID(p, e)
    PROVE  Inv'
  <1> USE DEF At
  <1>0. /\ proc[p] \in Processor /\ delivered \in SUBSET Events
        /\ faults \in 0..MaxFaults /\ Busy(p)
    BY DEF Inv, TypeOK
  <1>1. faults' \in 0..MaxFaults
    <2>1. Fault \/ faults' = faults
      BY DEF Select, Claimed, BatchEnds, MarkRetryLost, Abandon, TryDeliverRealtimeEvent,
             Deliver, DeliverFails, GetByReleaseID
    <2> QED BY <2>1, <1>0, OutboxAssumption DEF Fault
  <1>2. PICK r \in Processor :
           /\ Become(p, r)
           /\ r.held \subseteq proc[p].held
           /\ r.pc \in {"mark", "retry"} => r.cur \in r.held
           /\ r.pc \in {"mark", "fastMark"} => r.cur \in delivered'
           /\ r.pc \in {"fast", "fastMark"} => r.cur \in Events
    <2>1. CASE Select(p)
      <3> DEFINE r == [Resting EXCEPT !.pc = "claim", !.todo = Batch]
      <3>1. r \in Processor /\ r.held = {} /\ r.pc = "claim"
        BY DEF Resting, Processor, Batch
      <3> QED BY <2>1, <3>1 DEF Select
    <2>2. CASE Claimed(p)
      <3> DEFINE r == [proc[p] EXCEPT !.pc = "deliver"]
      <3>1. r \in Processor /\ r.held = proc[p].held /\ r.pc = "deliver"
        BY <1>0 DEF Processor
      <3> QED BY <2>2, <3>1 DEF Claimed
    <2>3. CASE BatchEnds(p) \/ Abandon(p)
      <3>1. Resting \in Processor /\ Resting.held = {} /\ Resting.pc = "idle"
        BY DEF Resting, Processor
      <3> QED BY <2>3, <3>1 DEF BatchEnds, Abandon
    <2>4. CASE MarkRetryLost(p)
      <3>1. /\ Settled(p) \in Processor /\ Settled(p).held \subseteq proc[p].held
            /\ Settled(p).pc = "deliver"
        BY <1>0 DEF Settled, Processor
      <3> QED BY <2>4, <3>1 DEF MarkRetryLost
    <2>5. CASE TryDeliverRealtimeEvent(p)
      <3> DEFINE r == [proc[p] EXCEPT !.pc = "fastMark"]
      <3>1. r \in Processor /\ r.held = proc[p].held /\ r.pc = "fastMark" /\ r.cur = proc[p].cur
        BY <1>0 DEF Processor
      <3>2. proc[p].cur \in Events /\ proc[p].cur \in delivered'
        BY <2>5, <1>0 DEF TryDeliverRealtimeEvent, Busy
      <3> QED BY <2>5, <3>1, <3>2 DEF TryDeliverRealtimeEvent
    <2>6. CASE \E e \in Events : Deliver(p, e)
      <3>1. PICK e \in Events : Deliver(p, e)
        BY <2>6
      <3> DEFINE r == [proc[p] EXCEPT !.pc = "mark", !.cur = e]
      <3>2. r \in Processor /\ r.held = proc[p].held /\ r.pc = "mark" /\ r.cur = e
        BY <1>0 DEF Processor
      <3>3. e \in proc[p].held /\ e \in delivered'
        BY <3>1 DEF Deliver, IsLeast
      <3> QED BY <3>1, <3>2, <3>3 DEF Deliver
    <2>7. CASE \E e \in Events : DeliverFails(p, e)
      <3>1. PICK e \in Events : DeliverFails(p, e)
        BY <2>7
      <3> DEFINE r == [proc[p] EXCEPT !.pc = "retry", !.cur = e]
      <3>2. r \in Processor /\ r.held = proc[p].held /\ r.pc = "retry" /\ r.cur = e
        BY <1>0 DEF Processor
      <3>3. e \in proc[p].held
        BY <3>1 DEF DeliverFails, IsLeast
      <3> QED BY <3>1, <3>2, <3>3 DEF DeliverFails
    <2>8. CASE \E e \in Events : GetByReleaseID(p, e)
      <3>1. PICK e \in Events : GetByReleaseID(p, e)
        BY <2>8
      <3> DEFINE r == [Resting EXCEPT !.pc = "fast", !.cur = e]
      <3>2. r \in Processor /\ r.held = {} /\ r.pc = "fast" /\ r.cur = e
        BY DEF Resting, Processor
      <3> QED BY <3>1, <3>2 DEF GetByReleaseID
    <2> QED BY <2>1, <2>2, <2>3, <2>4, <2>5, <2>6, <2>7, <2>8
  <1>3. /\ event' = event /\ everLapsed' = everLapsed
        /\ delivered \subseteq delivered' /\ delivered' \in SUBSET Events
    <2>1. proc[p].pc = "fast" => proc[p].cur \in Events
      BY <1>0 DEF Busy
    <2> QED
      BY <1>0, <2>1
      DEF Select, Claimed, BatchEnds, MarkRetryLost, Abandon, TryDeliverRealtimeEvent,
          Deliver, DeliverFails, GetByReleaseID
  <1> QED BY <1>1, <1>2, <1>3, ProcessorMoves

(* The conditional update of ClaimReady takes an event that nobody holds,  *)
(* unless its lease has lapsed.                                            *)
LEMMA ClaimStep ==
    ASSUME Inv, NEW p \in Procs, NEW e \in Events, Claim(p, e)
    PROVE  Inv'
  <1>0. /\ proc \in [Procs -> Processor] /\ proc[p] \in Processor
        /\ event \in [Events -> EventRow] /\ event[e] \in EventRow
    BY DEF Inv, TypeOK
  <1>1. CASE Claimable(e)
    <2> DEFINE r == [proc[p] EXCEPT !.todo = @ \ {e}, !.held = @ \cup {e}]
               row == [event[e] EXCEPT !.status = "processing", !.lapsed = FALSE]
    <2>1. proc' = [proc EXCEPT ![p] = r] /\ event' = [event EXCEPT ![e] = row]
      BY <1>1 DEF Claim, Set, Become
    <2>2. UNCHANGED <<delivered, everLapsed, faults>>
      BY DEF Claim
    <2>3. /\ r \in Processor /\ r.held = proc[p].held \cup {e}
          /\ r.pc = "claim" /\ r.cur = proc[p].cur
      BY <1>0 DEF Processor, Claim, At
    <2>4. row \in EventRow /\ row.status = "processing" /\ row.lapsed = FALSE
      BY <1>0 DEF EventRow
    <2> HIDE DEF r, row
    <2>5. proc'[p] = r /\ \A q \in Procs : q # p => proc'[q] = proc[q]
      BY <2>1, <1>0
    <2>6. event'[e] = row /\ \A d \in Events : d # e => event'[d] = event[d]
      BY <2>1, <1>0
    <2>7. TypeOK'
      BY <2>1, <2>2, <2>3, <2>4, <1>0 DEF Inv, TypeOK
    <2>8. \A q \in Procs : Busy(q)'
      BY <2>2, <2>3, <2>5 DEF Inv, Busy, At
    <2>9. \A q \in Procs : e \in proc[q].held => e \in everLapsed
      BY <1>1 DEF Inv, HeldStatus, Remembered, Claimable
    <2>10. HeldStatus'
      <3> SUFFICES ASSUME NEW q \in Procs, NEW d \in proc'[q].held, d \notin everLapsed
                   PROVE  event'[d].status \in {"processing", "done"}
        BY <2>2 DEF HeldStatus
      <3>1. d \in Events
        BY <2>7 DEF TypeOK, Processor
      <3>2. d = e \/ d \in proc[q].held
        BY <2>3, <2>5
      <3> QED BY <3>1, <3>2, <2>4, <2>6 DEF Inv, HeldStatus
    <2>11. Remembered' /\ DoneWasDelivered'
      BY <2>2, <2>4, <2>6 DEF Inv, Remembered, DoneWasDelivered
    <2>12. ClaimExclusive'
      BY <2>2, <2>3, <2>5, <2>9 DEF Inv, ClaimExclusive
    <2> QED BY <2>7, <2>8, <2>10, <2>11, <2>12 DEF Inv
  <1>2. CASE ~ Claimable(e)
    <2> DEFINE r == [proc[p] EXCEPT !.todo = @ \ {e}]
    <2>1. Become(p, r) /\ UNCHANGED <<event, delivered, everLapsed, faults>>
      BY <1>2 DEF Claim
    <2>2. r \in Processor /\ r.held = proc[p].held /\ r.pc = "claim"
      BY <1>0 DEF Processor, Claim, At
    <2>3. delivered \in SUBSET Events /\ faults \in 0..MaxFaults
      BY DEF Inv, TypeOK
    <2> HIDE DEF r
    <2> QED BY <2>1, <2>2, <2>3, ProcessorMoves
  <1> QED BY <1>1, <1>2

(* The three marks, updates by id: the marked event leaves the hands of    *)
(* its marker, and anybody else who holds it has had a lease lapse.        *)
LEMMA MarkSteps ==
    ASSUME Inv, NEW p \in Procs, MarkDone(p) \/ MarkRetry(p) \/ MarkDoneByUUID(p)
    PROVE  Inv'
  <1> USE DEF At
  <1>0. /\ proc \in [Procs -> Processor] /\ proc[p] \in Processor /\ Busy(p)
        /\ event \in [Events -> EventRow]
    BY DEF Inv, TypeOK
  <1> DEFINE e == proc[p].cur
  <1>1. e \in Events
    BY <1>0 DEF Busy, Processor, MarkDone, MarkRetry, MarkDoneByUUID
  <1>2. PICK r \in Processor, row \in EventRow :
          /\ proc' = [proc EXCEPT ![p] = r] /\ event' = [event EXCEPT ![e] = row]
          /\ r.pc \in {"deliver", "idle"} /\ r.held \subseteq proc[p].held \ {e}
          /\ row.lapsed = FALSE
          /\ \/ row.status = "done" /\ e \in delivered
             \/ row.status = "failed" /\ e \in proc[p].held
    <2>1. CASE MarkDone(p) \/ MarkRetry(p)
      <3>1. /\ Settled(p) \in Processor /\ Settled(p).pc = "deliver"
            /\ Settled(p).held = proc[p].held \ {e}
        BY <1>0 DEF Settled, Processor
      <3>2. CASE MarkDone(p)
        <4> DEFINE row == [status |-> "done", due |-> TRUE, lapsed |-> FALSE]
        <4>1. row \in EventRow /\ row.status = "done" /\ row.lapsed = FALSE
          BY DEF EventRow
        <4>2. e \in delivered
          BY <3>2, <1>0 DEF MarkDone, Busy
        <4> QED BY <3>1, <3>2, <4>1, <4>2 DEF MarkDone, Set, Become
      <3>3. CASE MarkRetry(p)
        <4> DEFINE row == [status |-> "failed", due |-> FALSE, lapsed |-> FALSE]
        <4>1. row \in EventRow /\ row.status = "failed" /\ row.lapsed = FALSE
          BY DEF EventRow
        <4>2. e \in proc[p].held
          BY <3>3, <1>0 DEF MarkRetry, Busy
        <4> QED BY <3>1, <3>3, <4>1, <4>2 DEF MarkRetry, Set, Become
      <3> QED BY <2>1, <3>2, <3>3
    <2>2. CASE MarkDoneByUUID(p)
      <3> DEFINE row == [status |-> "done", due |-> TRUE, lapsed |-> FALSE]
      <3>1. row \in EventRow /\ row.status = "done" /\ row.lapsed = FALSE
        BY DEF EventRow
      <3>2. e \in delivered
        BY <2>2, <1>0 DEF MarkDoneByUUID, Busy
      <3>3. Resting \in Processor /\ Resting.pc = "idle" /\ Resting.held = {}
        BY DEF Resting, Processor
      <3> QED BY <2>2, <3>1, <3>2, <3>3 DEF MarkDoneByUUID, Set, Become
    <2> QED BY <2>1, <2>2
  <1> HIDE DEF e
  <1>3. UNCHANGED <<delivered, everLapsed, faults>>
    BY DEF MarkDone, MarkRetry, MarkDoneByUUID
  <1>4. proc'[p] = r /\ \A q \in Procs : q # p => proc'[q] = proc[q]
    BY <1>0, <1>2
  <1>5. event'[e] = row /\ \A d \in Events : d # e => event'[d] = event[d]
    BY <1>0, <1>1, <1>2
  <1>6. TypeOK'
    BY <1>0, <1>1, <1>2, <1>3 DEF Inv, TypeOK
  <1>7. \A q \in Procs : Busy(q)'
    BY <1>2, <1>3, <1>4 DEF Inv, Busy
  <1>8. HeldStatus'
    <2> SUFFICES ASSUME NEW q \in Procs, NEW d \in proc'[q].held, d \notin everLapsed
                 PROVE  event'[d].status \in {"processing", "done"}
      BY <1>3 DEF HeldStatus
    <2>1. d \in Events
      BY <1>6 DEF TypeOK, Processor
    <2>2. d \in proc[q].held
      BY <1>2, <1>4
    <2>3. CASE d # e
      BY <2>1, <2>2, <2>3, <1>5 DEF Inv, HeldStatus
    <2>4. CASE d = e
      <3>1. q # p
        BY <2>4, <1>2, <1>4
      <3>2. e \notin proc[p].held
        BY <2>2, <2>4, <3>1 DEF Inv, ClaimExclusive
      <3> QED BY <2>4, <3>2, <1>2, <1>5
    <2> QED BY <2>3, <2>4
  <1>9. Remembered' /\ DoneWasDelivered'
    BY <1>2, <1>3, <1>5 DEF Inv, Remembered, DoneWasDelivered
  <1>10. ClaimExclusive'
    BY <1>2, <1>3, <1>4 DEF Inv, ClaimExclusive
  <1> QED BY <1>6, <1>7, <1>8, <1>9, <1>10 DEF Inv

(* Replay turns failed events back to pending and starts a batch.          *)
LEMMA RequeueStep ==
    ASSUME Inv, NEW p \in Procs, Requeue(p)
    PROVE  Inv'
  <1>0. /\ proc \in [Procs -> Processor] /\ proc[p] \in Processor
        /\ event \in [Events -> EventRow]
    BY DEF Inv, TypeOK
  <1> DEFINE r == [Resting EXCEPT !.pc = "select"]
  <1>1. r \in Processor /\ r.held = {} /\ r.pc = "select"
    BY DEF Resting, Processor
  <1>2. proc' = [proc EXCEPT ![p] = r] /\ UNCHANGED <<delivered, everLapsed, faults>>
    BY DEF Requeue, Become
  <1> HIDE DEF r
  <1>3. \A e \in Events :
           /\ event'[e] \in EventRow
           /\ event'[e].lapsed = event[e].lapsed
           /\ event[e].status # "failed" => event'[e] = event[e]
           /\ event'[e].status # "done" \/ event'[e] = event[e]
    <2> SUFFICES ASSUME NEW e \in Events
                 PROVE  /\ event'[e] \in EventRow
                        /\ event'[e].lapsed = event[e].lapsed
                        /\ event[e].status # "failed" => event'[e] = event[e]
                        /\ event'[e].status # "done" \/ event'[e] = event[e]
      OBVIOUS
    <2>1. event[e] \in EventRow
      BY <1>0
    <2> DEFINE row == [event[e] EXCEPT !.status = "pending", !.due = TRUE]
    <2>2. row \in EventRow /\ row.lapsed = event[e].lapsed /\ row.status = "pending"
      BY <2>1 DEF EventRow
    <2>3. event'[e] = IF event[e].status = "failed" THEN row ELSE event[e]
      BY DEF Requeue
    <2> HIDE DEF row
    <2> QED BY <2>1, <2>2, <2>3
  <1>4. proc'[p] = r /\ \A q \in Procs : q # p => proc'[q] = proc[q]
    BY <1>0, <1>2
  <1>5. TypeOK'
    <2>1. event' \in [Events -> EventRow]
      BY <1>3 DEF Requeue
    <2> QED BY <1>0, <1>1, <1>2, <2>1 DEF Inv, TypeOK
  <1>6. \A q \in Procs : Busy(q)'
    BY <1>1, <1>2, <1>4 DEF Inv, Busy, At
  <1>7. \A q \in Procs : proc'[q].held \subseteq proc[q].held /\ proc[q].held \subseteq Events
    BY <1>0, <1>1, <1>4 DEF Processor
  <1>8. HeldStatus'
    BY <1>2, <1>3, <1>7 DEF Inv, HeldStatus
  <1>9. Remembered' /\ DoneWasDelivered'
    BY <1>2, <1>3 DEF Inv, Remembered, DoneWasDelivered
  <1>10. ClaimExclusive'
    BY <1>2, <1>7 DEF Inv, ClaimExclusive
  <1> QED BY <1>5, <1>6, <1>8, <1>9, <1>10 DEF Inv

(* A crash forgets every processor's claims and keeps the table.           *)
LEMMA CrashStep ==
    ASSUME Inv, Crash
    PROVE  Inv'
  <1>1. Resting \in Processor /\ Resting.held = {} /\ Resting.pc = "idle"
    BY DEF Resting, Processor
  <1>2. \A q \in Procs : proc'[q] = Resting
    BY DEF Crash
  <1>3. faults' \in 0..MaxFaults
    BY OutboxAssumption DEF Crash, Fault, Inv, TypeOK
  <1>4. UNCHANGED <<event, delivered, everLapsed>> /\ proc' \in [Procs -> Processor]
    BY <1>1 DEF Crash
  <1>5. TypeOK'
    BY <1>3, <1>4 DEF Inv, TypeOK
  <1>6. \A q \in Procs : Busy(q)'
    BY <1>1, <1>2 DEF Busy, At
  <1>7. HeldStatus' /\ ClaimExclusive'
    BY <1>1, <1>2 DEF HeldStatus, ClaimExclusive
  <1>8. Remembered' /\ DoneWasDelivered'
    BY <1>4 DEF Inv, Remembered, DoneWasDelivered
  <1> QED BY <1>5, <1>6, <1>7, <1>8 DEF Inv

(* Every step preserves the invariant.                                     *)
LEMMA NextInv == Inv /\ [Next]_vars => Inv'
  <1> SUFFICES ASSUME Inv, [Next]_vars PROVE Inv'
    OBVIOUS
  <1>1. CASE UNCHANGED vars
    BY <1>1 DEF vars, Inv, TypeOK, Busy, At, HeldStatus, Remembered,
                DoneWasDelivered, ClaimExclusive
  <1>2. CASE \E e \in Events : Create(e) \/ BecomesDue(e) \/ LeaseLapses(e)
    BY <1>2, ClockSteps
  <1>3. CASE \E p \in Procs : Work(p)
    BY <1>3, WorkMoves, ClaimStep, MarkSteps DEF Work
  <1>4. CASE \E p \in Procs : Fail(p)
    BY <1>4, WorkMoves DEF Fail
  <1>5. CASE \E p \in Procs : Arrive(p)
    BY <1>5, WorkMoves, RequeueStep DEF Arrive
  <1>6. CASE Crash
    BY <1>6, CrashStep
  <1> QED BY <1>1, <1>2, <1>3, <1>4, <1>5, <1>6 DEF Next

(* The invariant holds throughout.                                         *)
LEMMA Invariance == Spec => []Inv
  BY InitInv, NextInv, PTL DEF Spec

(* Type correctness of the outbox table and its processors.                *)
THEOREM TypeCorrect == Spec => []TypeOK
  <1>1. Inv => TypeOK
    BY DEF Inv
  <1> QED BY Invariance, <1>1, PTL

(* However many processors, faults and crashes there are, an event marked  *)
(* done by MarkDone or MarkDoneByUUID has been delivered.                  *)
THEOREM NothingDoneUndelivered == Spec => []DoneWasDelivered
  <1>1. Inv => DoneWasDelivered
    BY DEF Inv
  <1> QED BY Invariance, <1>1, PTL

(* ClaimReady's conditional update gives an event to one processor at a    *)
(* time for as long as leases do not lapse.                                *)
THEOREM ClaimsExclude == Spec => []ClaimExclusive
  <1>1. Inv => ClaimExclusive
    BY DEF Inv
  <1> QED BY Invariance, <1>1, PTL

-----------------------------------------------------------------------------
(* The refinement.  It needs one more fact: only recorded events are       *)
(* selected, claimed or delivered, and a row is never removed.             *)

Rec == {e \in Events : event[e].status # "none"}

Recorded ==
    /\ delivered \subseteq Rec
    /\ \A p \in Procs : /\ proc[p].todo \subseteq Rec
                        /\ proc[p].held \subseteq Rec
                        /\ proc[p].cur \in Rec \cup {None}

(* Recorded events stay recorded, and one processor's record changes       *)
(* within them.                                                            *)
LEMMA RecordedMoves ==
    ASSUME Inv, Recorded, Rec \subseteq Rec', delivered' \subseteq Rec',
           NEW p \in Procs, NEW r, Become(p, r),
           r.todo \subseteq Rec', r.held \subseteq Rec', r.cur \in Rec' \cup {None}
    PROVE  Recorded'
  <1>1. proc'[p] = r /\ \A q \in Procs : q # p => proc'[q] = proc[q]
    BY DEF Become, Inv, TypeOK
  <1> QED BY <1>1 DEF Recorded

(* The fate of at most one event changes, and as the promise allows.       *)
LEMMA OneFate ==
    ASSUME NEW e \in Events,
           \A d \in Events \ {e} : FateOf(d)' = FateOf(d),
           \/ FateOf(e)' = FateOf(e)
           \/ FateOf(e) = "none" /\ FateOf(e)' = "owed"
           \/ FateOf(e) = "owed" /\ FateOf(e)' = "effected"
           \/ FateOf(e) = "effected" /\ FateOf(e)' = "settled"
           \/ FateOf(e) = "settled" /\ FateOf(e)' = "effected"
    PROVE  [Promise!PromiseNext]_Fate
  <1>1. Fate' = [Fate EXCEPT ![e] = FateOf(e)']
    BY DEF Fate
  <1>2. Fate[e] = FateOf(e)
    BY DEF Fate
  <1>3. CASE FateOf(e)' = FateOf(e)
    BY <1>1, <1>2, <1>3 DEF Fate
  <1>4. CASE FateOf(e) = "none" /\ FateOf(e)' = "owed"
    <2>1. Promise!Record(e)
      BY <1>1, <1>2, <1>4 DEF Promise!Record, Promise!Turns
    <2> QED BY <2>1 DEF Promise!PromiseNext
  <1>5. CASE FateOf(e) = "owed" /\ FateOf(e)' = "effected"
    <2>1. Promise!TakeEffect(e)
      BY <1>1, <1>2, <1>5 DEF Promise!TakeEffect, Promise!Turns
    <2> QED BY <2>1 DEF Promise!PromiseNext
  <1>6. CASE FateOf(e) = "effected" /\ FateOf(e)' = "settled"
    <2>1. Promise!Settle(e)
      BY <1>1, <1>2, <1>6 DEF Promise!Settle, Promise!Turns
    <2> QED BY <2>1 DEF Promise!PromiseNext
  <1>7. CASE FateOf(e) = "settled" /\ FateOf(e)' = "effected"
    <2>1. Promise!Reopen(e)
      BY <1>1, <1>2, <1>7 DEF Promise!Reopen, Promise!Turns
    <2> QED BY <2>1 DEF Promise!PromiseNext
  <1> QED BY <1>3, <1>4, <1>5, <1>6, <1>7

(* What neither touches a status nor delivers leaves every fate alone.     *)
LEMMA SameFate ==
    ASSUME delivered' = delivered,
           \A e \in Events : \/ event'[e].status = event[e].status
                            \/ /\ event[e].status \notin {"none", "done"}
                               /\ event'[e].status \notin {"none", "done"}
    PROVE  UNCHANGED Fate
  <1>1. \A e \in Events : FateOf(e)' = FateOf(e)
    BY DEF FateOf
  <1> QED BY <1>1 DEF Fate

(* A step that leaves the rows alone and delivers nothing, or only an      *)
(* event already recorded.                                                 *)
LEMMA DeliverFate ==
    ASSUME Recorded, DoneWasDelivered, event' = event, NEW e \in Rec,
           delivered' \in {delivered, delivered \cup {e}}
    PROVE  [Promise!PromiseNext]_Fate /\ Rec' = Rec /\ delivered' \subseteq Rec'
  <1>1. Rec' = Rec /\ delivered' \subseteq Rec' /\ e \in Events
    BY DEF Rec, Recorded
  <1>2. \A d \in Events \ {e} : FateOf(d)' = FateOf(d)
    BY DEF FateOf
  <1>3. \/ FateOf(e)' = FateOf(e)
        \/ FateOf(e) = "owed" /\ FateOf(e)' = "effected"
    BY <1>1 DEF FateOf, Rec, DoneWasDelivered
  <1> QED BY <1>1, <1>2, <1>3, OneFate

(* A row of a recorded event is written.                                   *)
LEMMA SetFate ==
    ASSUME Inv, Recorded, delivered' = delivered, NEW e \in Rec, NEW row \in EventRow,
           Set(e, row), row.status # "none",
           row.status = "done" => e \in delivered
    PROVE  [Promise!PromiseNext]_Fate /\ Rec' = Rec /\ delivered' \subseteq Rec'
  <1>1. e \in Events /\ event \in [Events -> EventRow]
    BY DEF Rec, Inv, TypeOK
  <1>2. event'[e] = row /\ \A d \in Events \ {e} : event'[d] = event[d]
    BY <1>1 DEF Set
  <1>3. Rec' = Rec /\ delivered' \subseteq Rec'
    BY <1>1, <1>2 DEF Rec, Recorded
  <1>4. \A d \in Events \ {e} : FateOf(d)' = FateOf(d)
    BY <1>2 DEF FateOf
  <1>5. \/ FateOf(e)' = FateOf(e)
        \/ FateOf(e) = "effected" /\ FateOf(e)' = "settled"
        \/ FateOf(e) = "settled" /\ FateOf(e)' = "effected"
    BY <1>1, <1>2 DEF FateOf, Rec, Inv, DoneWasDelivered
  <1> QED BY <1>1, <1>3, <1>4, <1>5, OneFate

(* Steps of one event: recorded, due, lapsed.                              *)
LEMMA ClockFate ==
    ASSUME Inv, Recorded, NEW e \in Events,
           Create(e) \/ BecomesDue(e) \/ LeaseLapses(e)
    PROVE  [Promise!PromiseNext]_Fate /\ Recorded'
  <1>0. event \in [Events -> EventRow] /\ delivered' = delivered /\ proc' = proc
    BY DEF Inv, TypeOK, Create, BecomesDue, LeaseLapses
  <1>1. CASE Create(e)
    <2>1. /\ event[e].status = "none" /\ event'[e].status = "pending"
          /\ \A d \in Events \ {e} : event'[d] = event[d]
      BY <1>0, <1>1 DEF Create, Set
    <2>2. FateOf(e) = "none" /\ FateOf(e)' = "owed"
      BY <1>0, <2>1 DEF FateOf, Recorded, Rec
    <2>3. \A d \in Events \ {e} : FateOf(d)' = FateOf(d)
      BY <1>0, <2>1 DEF FateOf
    <2>4. Rec \subseteq Rec'
      BY <2>1 DEF Rec
    <2>5. Recorded'
      BY <1>0, <2>4 DEF Recorded
    <2> QED BY <2>2, <2>3, <2>5, OneFate
  <1>2. CASE BecomesDue(e) \/ LeaseLapses(e)
    <2>1. PICK row \in EventRow :
              /\ Set(e, row)
              /\ row.status = event[e].status
              /\ row.status \notin {"none", "done"}
      <3>1. CASE BecomesDue(e)
        <4>1. [event[e] EXCEPT !.due = TRUE] \in EventRow
          BY <1>0 DEF EventRow
        <4> QED BY <1>0, <3>1, <4>1 DEF BecomesDue, EventRow
      <3>2. CASE LeaseLapses(e)
        <4>1. [event[e] EXCEPT !.lapsed = TRUE] \in EventRow
          BY <1>0 DEF EventRow
        <4> QED BY <1>0, <3>2, <4>1 DEF LeaseLapses, EventRow
      <3> QED BY <1>2, <3>1, <3>2
    <2>2. e \in Rec
      BY <2>1 DEF Rec
    <2>3. [Promise!PromiseNext]_Fate /\ Rec' = Rec
      BY <1>0, <2>1, <2>2, SetFate
    <2>4. Recorded'
      BY <1>0, <2>3 DEF Recorded
    <2> QED BY <2>3, <2>4
  <1> QED BY <1>1, <1>2

(* Steps of a processor that neither deliver nor write a row.              *)
LEMMA QuietFate ==
    ASSUME Inv, Recorded, NEW p \in Procs,
           \/ Select(p) \/ Claimed(p) \/ BatchEnds(p)
           \/ MarkRetryLost(p) \/ Abandon(p)
           \/ \E e \in Events : GetByReleaseID(p, e)
    PROVE  [Promise!PromiseNext]_Fate /\ Recorded'
  <1>1. UNCHANGED <<event, delivered>>
    BY DEF Select, Claimed, BatchEnds, MarkRetryLost, Abandon, GetByReleaseID
  <1>2. Rec' = Rec /\ delivered' \subseteq Rec'
    BY <1>1 DEF Rec, Recorded
  <1>3. UNCHANGED Fate
    BY <1>1, SameFate
  <1>4. proc[p] \in Processor
    BY DEF Inv, TypeOK
  <1>5. PICK r : /\ Become(p, r)
                 /\ r.todo \subseteq Rec /\ r.held \subseteq Rec
                 /\ r.cur \in Rec \cup {None}
    <2>1. /\ Resting.todo = {} /\ Resting.held = {} /\ Resting.cur = None
      BY DEF Resting
    <2>2. CASE Select(p)
      <3>1. Batch \subseteq Rec
        BY DEF Batch, Ready, Rec
      <3>2. [Resting EXCEPT !.pc = "claim", !.todo = Batch].todo = Batch
        BY DEF Resting
      <3>3. /\ [Resting EXCEPT !.pc = "claim", !.todo = Batch].held = {}
            /\ [Resting EXCEPT !.pc = "claim", !.todo = Batch].cur = None
        BY DEF Resting
      <3> QED BY <2>2, <3>1, <3>2, <3>3 DEF Select
    <2>3. CASE Claimed(p)
      <3>1. LET r == [proc[p] EXCEPT !.pc = "deliver"]
            IN  /\ r.todo = proc[p].todo /\ r.held = proc[p].held
                /\ r.cur = proc[p].cur
        BY <1>4 DEF Processor
      <3> QED BY <2>3, <3>1 DEF Claimed, Recorded
    <2>4. CASE BatchEnds(p) \/ Abandon(p)
      BY <2>1, <2>4 DEF BatchEnds, Abandon
    <2>5. CASE MarkRetryLost(p)
      <3>1. /\ Settled(p).todo = proc[p].todo
            /\ Settled(p).held \subseteq proc[p].held
            /\ Settled(p).cur = None
        BY <1>4 DEF Processor, Settled
      <3> QED BY <2>5, <3>1 DEF MarkRetryLost, Recorded
    <2>6. CASE \E e \in Events : GetByReleaseID(p, e)
      <3>1. PICK e \in Events : GetByReleaseID(p, e)
        BY <2>6
      <3>2. e \in Rec
        BY <3>1 DEF GetByReleaseID, Rec
      <3>3. LET r == [Resting EXCEPT !.pc = "fast", !.cur = e]
            IN  r.todo = {} /\ r.held = {} /\ r.cur = e
        BY DEF Resting
      <3> QED BY <3>1, <3>2, <3>3 DEF GetByReleaseID
    <2> QED BY <2>2, <2>3, <2>4, <2>5, <2>6
  <1> QED BY <1>2, <1>3, <1>5, RecordedMoves

(* Steps that deliver: the effect may come before the call fails.          *)
LEMMA DeliverStepFate ==
    ASSUME Inv, Recorded, NEW p \in Procs,
           \/ TryDeliverRealtimeEvent(p)
           \/ \E e \in Events : Deliver(p, e) \/ DeliverFails(p, e)
    PROVE  [Promise!PromiseNext]_Fate /\ Recorded'
  <1>1. proc[p] \in Processor /\ event' = event
    BY DEF Inv, TypeOK, TryDeliverRealtimeEvent, Deliver, DeliverFails
  <1>2. PICK e \in Rec :
           /\ delivered' \in {delivered, delivered \cup {e}}
           /\ \E pc \in {"fastMark", "mark", "retry"} :
                 Become(p, [proc[p] EXCEPT !.pc = pc, !.cur = e])
    <2>1. CASE TryDeliverRealtimeEvent(p)
      <3>1. proc[p].cur \in Rec
        BY <2>1, OutboxAssumption
        DEF TryDeliverRealtimeEvent, Inv, Busy, At, Recorded, Events
      <3>2. [proc[p] EXCEPT !.pc = "fastMark"] =
            [proc[p] EXCEPT !.pc = "fastMark", !.cur = proc[p].cur]
        BY <1>1 DEF Processor
      <3>3. Become(p, [proc[p] EXCEPT !.pc = "fastMark", !.cur = proc[p].cur])
        BY <2>1, <3>2 DEF TryDeliverRealtimeEvent
      <3>4. delivered' = delivered \cup {proc[p].cur}
        BY <2>1 DEF TryDeliverRealtimeEvent
      <3> QED BY <3>1, <3>3, <3>4
    <2>2. CASE \E e \in Events : Deliver(p, e) \/ DeliverFails(p, e)
      <3>1. PICK e \in Events : Deliver(p, e) \/ DeliverFails(p, e)
        BY <2>2
      <3>2. e \in Rec
        BY <3>1 DEF Deliver, DeliverFails, IsLeast, Recorded
      <3>3. delivered' \in {delivered, delivered \cup {e}}
        BY <3>1 DEF Deliver, DeliverFails
      <3>4. \E pc \in {"fastMark", "mark", "retry"} :
               Become(p, [proc[p] EXCEPT !.pc = pc, !.cur = e])
        BY <3>1 DEF Deliver, DeliverFails
      <3> QED BY <3>2, <3>3, <3>4
    <2> QED BY <2>1, <2>2
  <1>3. [Promise!PromiseNext]_Fate /\ Rec' = Rec /\ delivered' \subseteq Rec'
    BY <1>1, <1>2, DeliverFate DEF Inv
  <1>4. PICK pc \in {"fastMark", "mark", "retry"} :
            Become(p, [proc[p] EXCEPT !.pc = pc, !.cur = e])
    BY <1>2
  <1>5. PICK r : /\ Become(p, r)
                 /\ r.todo = proc[p].todo /\ r.held = proc[p].held /\ r.cur = e
    <2>1. LET r == [proc[p] EXCEPT !.pc = pc, !.cur = e]
          IN  r.todo = proc[p].todo /\ r.held = proc[p].held /\ r.cur = e
      BY <1>1 DEF Processor
    <2> QED BY <1>4, <2>1
  <1>6. /\ r.todo \subseteq Rec' /\ r.held \subseteq Rec'
        /\ r.cur \in Rec' \cup {None}
    BY <1>3, <1>5 DEF Recorded
  <1>7. Recorded'
    BY <1>3, <1>5, <1>6, RecordedMoves
  <1> QED BY <1>3, <1>7

(* Steps that write the row of the event they work on.                     *)
LEMMA MarkFate ==
    ASSUME Inv, Recorded, NEW p \in Procs,
           \/ MarkDone(p) \/ MarkRetry(p) \/ MarkDoneByUUID(p)
           \/ \E e \in Events : Claim(p, e)
    PROVE  [Promise!PromiseNext]_Fate /\ Recorded'
  <1>1. /\ proc[p] \in Processor /\ event \in [Events -> EventRow]
        /\ delivered' = delivered
    BY DEF Inv, TypeOK, MarkDone, MarkRetry, MarkDoneByUUID, Claim
  <1>2. /\ [status |-> "done", due |-> TRUE, lapsed |-> FALSE] \in EventRow
        /\ [status |-> "failed", due |-> FALSE, lapsed |-> FALSE] \in EventRow
    BY DEF EventRow
  <1>3. /\ Settled(p).todo = proc[p].todo
        /\ Settled(p).held \subseteq proc[p].held
        /\ Settled(p).cur = None
    BY <1>1 DEF Processor, Settled
  <1>4. CASE MarkDone(p) \/ MarkRetry(p)
    <2>1. /\ proc[p].cur \in Rec
          /\ MarkDone(p) => proc[p].cur \in delivered
      BY <1>4 DEF MarkDone, MarkRetry, Inv, Busy, At, Recorded
    <2>2. [Promise!PromiseNext]_Fate /\ Rec' = Rec /\ delivered' \subseteq Rec'
      BY <1>1, <1>2, <1>4, <2>1, SetFate DEF MarkDone, MarkRetry
    <2>3. Recorded'
      BY <1>3, <1>4, <2>2, RecordedMoves DEF MarkDone, MarkRetry, Recorded
    <2> QED BY <2>2, <2>3
  <1>5. CASE MarkDoneByUUID(p)
    <2>1. proc[p].cur \in delivered /\ proc[p].cur \in Rec
      BY <1>5 DEF MarkDoneByUUID, Inv, Busy, At, Recorded
    <2>2. [Promise!PromiseNext]_Fate /\ Rec' = Rec /\ delivered' \subseteq Rec'
      BY <1>1, <1>2, <1>5, <2>1, SetFate DEF MarkDoneByUUID
    <2>3. Resting.todo = {} /\ Resting.held = {} /\ Resting.cur = None
      BY DEF Resting
    <2>4. Recorded'
      BY <1>5, <2>2, <2>3, RecordedMoves DEF MarkDoneByUUID
    <2> QED BY <2>2, <2>4
  <1>6. CASE \E e \in Events : Claim(p, e)
    <2>1. PICK e \in Events : Claim(p, e)
      BY <1>6
    <2>2. e \in Rec /\ proc[p].todo \subseteq Rec /\ proc[p].held \subseteq Rec
      BY <2>1 DEF Claim, IsLeast, Recorded
    <2>3. [Promise!PromiseNext]_Fate /\ Rec' = Rec /\ delivered' \subseteq Rec'
      <3>1. CASE Claimable(e)
        <4>1. LET row == [event[e] EXCEPT !.status = "processing", !.lapsed = FALSE]
              IN  row \in EventRow /\ row.status = "processing"
          BY <1>1 DEF EventRow
        <4> QED BY <1>1, <2>1, <2>2, <3>1, <4>1, SetFate DEF Claim
      <3>2. CASE ~ Claimable(e)
        <4>1. event' = event
          BY <2>1, <3>2 DEF Claim
        <4>2. UNCHANGED Fate
          BY <1>1, <4>1, SameFate
        <4> QED BY <1>1, <4>1, <4>2 DEF Rec, Recorded
      <3> QED BY <3>1, <3>2
    <2>4. PICK r : /\ Become(p, r)
                   /\ r.todo \subseteq Rec /\ r.held \subseteq Rec
                   /\ r.cur = proc[p].cur
      <3>1. LET r == [proc[p] EXCEPT !.todo = @ \ {e}, !.held = @ \cup {e}]
            IN  /\ r.todo \subseteq Rec /\ r.held \subseteq Rec
                /\ r.cur = proc[p].cur
        BY <1>1, <2>2 DEF Processor
      <3>2. LET r == [proc[p] EXCEPT !.todo = @ \ {e}]
            IN  /\ r.todo \subseteq Rec /\ r.held \subseteq Rec
                /\ r.cur = proc[p].cur
        BY <1>1, <2>2 DEF Processor
      <3> QED BY <2>1, <3>1, <3>2 DEF Claim
    <2>5. Recorded'
      BY <2>3, <2>4, RecordedMoves DEF Recorded
    <2> QED BY <2>3, <2>5
  <1> QED BY <1>4, <1>5, <1>6

(* A replay turns failed rows into pending ones.                           *)
LEMMA RequeueFate ==
    ASSUME Inv, Recorded, NEW p \in Procs, Requeue(p)
    PROVE  [Promise!PromiseNext]_Fate /\ Recorded'
  <1>1. event \in [Events -> EventRow] /\ delivered' = delivered
    BY DEF Inv, TypeOK, Requeue
  <1>2. \A e \in Events :
           \/ event'[e].status = event[e].status
           \/ event[e].status = "failed" /\ event'[e].status = "pending"
    BY <1>1 DEF Requeue, EventRow
  <1>3. UNCHANGED Fate
    BY <1>1, <1>2, SameFate
  <1>4. Rec' = Rec /\ delivered' \subseteq Rec'
    BY <1>1, <1>2 DEF Rec, Recorded
  <1>5. LET r == [Resting EXCEPT !.pc = "select"]
        IN  r.todo = {} /\ r.held = {} /\ r.cur = None
    BY DEF Resting
  <1>6. Recorded'
    BY <1>4, <1>5, RecordedMoves DEF Requeue
  <1> QED BY <1>3, <1>6

(* Every step of the outbox is a step of the promise or leaves it alone.   *)
LEMMA StepFate ==
    Inv /\ Recorded /\ [Next]_vars => [Promise!PromiseNext]_Fate /\ Recorded'
  <1> SUFFICES ASSUME Inv, Recorded, [Next]_vars
               PROVE  [Promise!PromiseNext]_Fate /\ Recorded'
    OBVIOUS
  <1>1. CASE UNCHANGED vars
    <2>1. UNCHANGED Fate
      BY <1>1, SameFate DEF vars
    <2> QED BY <1>1, <2>1 DEF vars, Recorded, Rec
  <1>2. CASE \E e \in Events : Create(e) \/ BecomesDue(e) \/ LeaseLapses(e)
    BY <1>2, ClockFate
  <1>3. CASE \E p \in Procs : Work(p)
    BY <1>3, QuietFate, DeliverStepFate, MarkFate DEF Work
  <1>4. CASE \E p \in Procs : Fail(p)
    BY <1>4, QuietFate, DeliverStepFate DEF Fail
  <1>5. CASE \E p \in Procs : Arrive(p)
    BY <1>5, QuietFate, RequeueFate DEF Arrive
  <1>6. CASE Crash
    <2>1. /\ UNCHANGED <<event, delivered>>
          /\ \A p \in Procs : proc'[p] = Resting
      BY <1>6 DEF Crash
    <2>2. UNCHANGED Fate /\ Rec' = Rec
      BY <2>1, SameFate DEF Rec
    <2>3. Recorded'
      BY <2>1, <2>2 DEF Recorded, Resting
    <2> QED BY <2>2, <2>3
  <1> QED BY <1>1, <1>2, <1>3, <1>4, <1>5, <1>6 DEF Next

(* The outbox, with its claims, leases, retries, replays and crashes,      *)
(* implements OutboxPromise for any number of events, processors and       *)
(* faults.                                                                 *)
THEOREM OutboxKeepsPromise == Spec => KeepsPromise
  <1>1. Init => Promise!PromiseInit
    <2> SUFFICES ASSUME Init PROVE Fate = [e \in Events |-> "none"]
      BY DEF Promise!PromiseInit
    <2>1. \A e \in Events : FateOf(e) = "none"
      BY DEF Init, FateOf
    <2> QED BY <2>1 DEF Fate
  <1>2. Init => Recorded
    BY DEF Init, Recorded, Rec, Resting
  <1>3. Spec => []Recorded
    BY <1>2, Invariance, StepFate, PTL DEF Spec
  <1> QED BY <1>1, <1>3, Invariance, StepFate, PTL
          DEF Spec, KeepsPromise, Promise!PromiseSpec
=============================================================================
