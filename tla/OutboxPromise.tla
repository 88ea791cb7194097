----------------------------- MODULE OutboxPromise -----------------------------
(***************************************************************************)
(* What the outbox promises of each event, whoever delivers it and how     *)
(* often: once recorded it stays owed until it has taken effect, an effect *)
(* is never taken back, and only an event that has taken effect is         *)
(* settled.  A settled event may be opened again, and is then delivered    *)
(* once more: the promise is "at least once".                              *)
(***************************************************************************)
CONSTANT Events

VARIABLE fate       \* "none", "owed", "effected" or "settled", by event

PromiseInit == fate = [e \in Events |-> "none"]

Turns(e, from, to) ==
    /\ fate[e] = from
    /\ fate' = [fate EXCEPT ![e] = to]

(* FunctionOutbox.Create.                                                  *)
Record(e) == Turns(e, "none", "owed")

(* The event reaches the realtime bus or the system service.               *)
TakeEffect(e) == Turns(e, "owed", "effected")

(* MarkDone or MarkDoneByUUID.                                             *)
Settle(e) == Turns(e, "effected", "settled")

(* MarkRetry, by a processor whose own delivery failed.                    *)
Reopen(e) == Turns(e, "settled", "effected")

PromiseNext ==
    \E e \in Events : Record(e) \/ TakeEffect(e) \/ Settle(e) \/ Reopen(e)

PromiseSpec == PromiseInit /\ [][PromiseNext]_fate
=============================================================================
