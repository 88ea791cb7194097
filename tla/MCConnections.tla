----------------------------- MODULE MCConnections -----------------------------
(* The two parts of the system that keep websockets open for a long time:   *)
(* the sockets of browsers at the gateway and the workers of the bots in    *)
(* ai-agent.  They share no state, so a behaviour exercises one of them,    *)
(* and the other rests.  Peers stall in behaviours of their own ("stalls"), *)
(* which have one event less than the others.                               *)
(*                                                                          *)
(* Two tabs of two users, three events for one user or for all, two         *)
(* sockets and two upsets let a tab reconnect with a cursor while another   *)
(* is open, and a history of two lose events.  Three workers and two edits  *)
(* after the start let a worker outlive two reloads.                        *)
EXTENDS RealtimeEvents, BotRuntime, TLC

CONSTANTS alice, bob, tabA, tabB

TabUsers == tabA :> alice @@ tabB :> bob

VARIABLE part   \* which part this behaviour exercises

vars == <<eventsVars, botVars, part>>

Init ==
    /\ part \in {"events", "stalls", "bots"}
    /\ EventsInit
    /\ BotInit
    /\ part # "bots" => \A c \in Channels : bot[c] = "absent"

Stalled == \E i \in Serves : serve[i].link = "stalled"

Next ==
    /\ \/ part = "events" /\ EventsNext /\ ~ Stalled' /\ UNCHANGED botVars
       \/ /\ part = "stalls" /\ EventsNext /\ Len(bus') < MaxPublished
          /\ UNCHANGED botVars
       \/ part = "bots" /\ BotNext /\ UNCHANGED eventsVars
    /\ UNCHANGED part

Spec == Init /\ [][Next]_vars

(* The state of both parts keeps its shape.                                 *)
ConnectionsTypeOK == EventsTypeOK /\ BotTypeOK
=============================================================================
