------------------------------ MODULE TurnPromise ------------------------------
(***************************************************************************)
(* What a turn of a conversation promises to whoever asked for it, with    *)
(* sockets, streams, goroutines and brokers left out: a prompt is stored   *)
(* before an answer, an answer is kept in part or whole but never both, a  *)
(* turn is announced only when its answer is stored and the conversation   *)
(* can be resumed, and a request is closed once.  Deleting a conversation  *)
(* ends the promises of its turns.                                         *)
(***************************************************************************)
CONSTANTS Runs, Sessions, SessionOf

VARIABLES
    fate,           \* what is stored of a turn, and whether it was announced
    resumable,      \* conversations with an agent session
    seen            \* the envelope that closed a request, or "nothing"

promiseVars == <<fate, resumable, seen>>

TurnInit ==
    /\ fate = [r \in Runs |-> "none"]
    /\ resumable = {}
    /\ seen = [r \in Runs |-> "nothing"]

Turns(r, from, to) ==
    /\ fate[r] = from
    /\ fate' = [fate EXCEPT ![r] = to]
    /\ UNCHANGED <<resumable, seen>>

Ask(r) == Turns(r, "none", "asked")

Answer(r) == Turns(r, "asked", "answered")

(* A partial answer; nothing follows it.                                   *)
Keep(r) == Turns(r, "asked", "kept")

Announce(r) == SessionOf[r] \in resumable /\ Turns(r, "answered", "announced")

(* The agent session is recorded after an answer, whole or partial.        *)
Record(r) ==
    /\ fate[r] \in {"answered", "kept"}
    /\ resumable' = resumable \cup {SessionOf[r]}
    /\ UNCHANGED <<fate, seen>>

(* The last envelope of a request: "done" for a turn that was announced.   *)
Close(r, envelope) ==
    /\ seen[r] = "nothing"
    /\ envelope = "done" => fate[r] \in {"announced", "void"}
    /\ seen' = [seen EXCEPT ![r] = envelope]
    /\ UNCHANGED <<fate, resumable>>

Erase(s) ==
    /\ fate' = [r \in Runs |-> IF SessionOf[r] = s THEN "void" ELSE fate[r]]
    /\ resumable' = resumable \ {s}
    /\ UNCHANGED seen

TurnNext ==
    \/ \E r \in Runs : Ask(r) \/ Answer(r) \/ Keep(r) \/ Announce(r) \/ Record(r)
    \/ \E r \in Runs, envelope \in {"done", "canceled", "error"} : Close(r, envelope)
    \/ \E s \in Sessions : Erase(s)

TurnSpec == TurnInit /\ [][TurnNext]_promiseVars
=============================================================================
