---------------------------- MODULE RealtimeEvents ----------------------------
(***************************************************************************)
(* How an event of the bus reaches a browser.  One goroutine of the        *)
(* gateway reads the "realtime.events" stream through a consumer group of  *)
(* its own, keeps the last events in memory and writes each one to the     *)
(* sockets registered at that moment.  A browser opens a socket with a     *)
(* single-use ticket and, when it reconnects, names the last event it has  *)
(* seen; the handler then replays what the memory holds after it.          *)
(*                                                                         *)
(* An event is its position in the stream, and its body is left out.  A    *)
(* tab is a browser that connects again and again; a serve is one call of  *)
(* Handler.Serve, which borrows a connection object from the pool of the   *)
(* websocket library for as long as it runs.                               *)
(***************************************************************************)
EXTENDS Integers, Sequences, FiniteSets

CONSTANTS
    Users,
    Tabs,
    UserOf,         \* the user logged in at each tab
    Everyone,       \* target of an event without a userId header
    Targets,        \* whom events are for
    Conns,          \* connection objects of the pool, numbered
    MaxPublished,   \* bound on the events of the stream
    MaxServes,      \* bound on sockets and on tickets
    HistoryLimit,   \* events kept in memory: 256 in the code
    UserLimit,      \* sockets of one user: 8 in the code
    GlobalLimit,    \* sockets of all users: 2000 in the code
    ReadCount,      \* entries one XREADGROUP returns: 32 in the code
    MaxUpsets       \* bound on broken links, failed calls and restarts

ASSUME EventsAssumption ==
    /\ UserOf \in [Tabs -> Users]
    /\ 0 \notin Tabs
    /\ Everyone \notin Users
    /\ Targets \subseteq Users \cup {Everyone}
    /\ Conns \subseteq Nat \ {0}
    /\ {MaxPublished, MaxServes, MaxUpsets} \subseteq Nat
    /\ {HistoryLimit, UserLimit, GlobalLimit, ReadCount} \subseteq Nat \ {0}

VARIABLES
    bus,        \* targets of the events of the stream, in order
    pending,    \* read by the gateway's group and not acknowledged
    sub,        \* the subscriber's goroutine
    history,    \* Handler.history
    clients,    \* Handler.clients: the serves whose writers are registered
    ticket,     \* tickets of the store, by serial number
    serve,      \* the calls of Handler.Serve
    got,        \* events each tab has received
    last,       \* the last event each tab has received
    owed,       \* events each tab is to have been sent (see NoGap)
    evicted,    \* events that have left the history at least once
    upsets

eventsVars == <<bus, pending, sub, history, clients, ticket, serve, got, last,
                owed, evicted, upsets>>

Published == 1..MaxPublished
Serves == 1..MaxServes
Nothing == 0

Subscriber ==
    [pc : {"group", "read", "append", "snapshot", "write"},
     cursor : {"0", ">"}, next : 1..(MaxPublished + 1),
     todo : SUBSET Published, ev : Published \cup {Nothing},
     to : SUBSET Serves, at : Serves \cup {Nothing}]

Serving ==
    [pc : {"none", "count", "register", "ready", "replay", "open",
           "close", "done"},
     ticket : Serves \cup {Nothing}, conn : Conns \cup {Nothing},
     cursor : Published \cup {Nothing}, rest : SUBSET (1..HistoryLimit),
     closed : BOOLEAN, link : {"up", "stalled", "broken"}]

Unserved == [pc |-> "none", ticket |-> Nothing, conn |-> Nothing,
             cursor |-> Nothing, rest |-> {}, closed |-> FALSE,
             link |-> "broken"]

(* A gateway that has just started.                                        *)
Starting == [pc |-> "group", cursor |-> "0", next |-> 1, todo |-> {},
             ev |-> Nothing, to |-> {}, at |-> Nothing]

EventsInit ==
    /\ bus = <<>>
    /\ pending = {}
    /\ sub = Starting
    /\ history = <<>>
    /\ clients = {}
    /\ ticket = [k \in Serves |-> [owner |-> Nothing, live |-> FALSE]]
    /\ serve = [i \in Serves |-> Unserved]
    /\ got = [t \in Tabs |-> {}]
    /\ last = [t \in Tabs |-> Nothing]
    /\ owed = [t \in Tabs |-> {}]
    /\ evicted = {}
    /\ upsets = 0

-----------------------------------------------------------------------------
Upset ==
    /\ upsets < MaxUpsets
    /\ upsets' = upsets + 1

SubAt(pc) == sub.pc = pc
ServeAt(i, pc) == serve[i].pc = pc
ServeGoes(i, r) == serve' = [serve EXCEPT ![i] = r]

TabOf(i) == ticket[serve[i].ticket].owner
Sees(u, e) == bus[e] \in {Everyone, u}
Held(s) == {s[n] : n \in 1..Len(s)}

(* The serve whose websocket a connection object carries now.  The pool    *)
(* hands an object out again, as early as it can, once its serve has       *)
(* returned.                                                               *)
Carries(j, c) == serve[j].conn = c /\ serve[j].pc \notin {"none", "done"}

(* newConnectionWriter: what the writer of serve i does with event e.  It  *)
(* writes to whatever its connection object carries now, unless the serve  *)
(* has marked it closed; an error of the write is dropped.                 *)
WriteThrough(i, e) ==
    LET reached == {j \in Serves : ~ serve[i].closed
                                    /\ Carries(j, serve[i].conn)
                                    /\ serve[j].link = "up"}
    IN  /\ got' = [t \in Tabs |->
                     IF \E j \in reached : TabOf(j) = t
                     THEN got[t] \cup {e} ELSE got[t]]
        /\ last' = [t \in Tabs |->
                     IF \E j \in reached : TabOf(j) = t THEN e ELSE last[t]]

(* A peer that stopped reading blocks whoever writes to it: there is no    *)
(* write deadline.                                                         *)
Blocked(i) ==
    \E j \in Serves : ~ serve[i].closed /\ Carries(j, serve[i].conn)
                       /\ serve[j].link = "stalled"

-----------------------------------------------------------------------------
(* The stream.                                                             *)

(* RedisStreams.Publish by another service.                                *)
Publish(target) ==
    /\ Len(bus) < MaxPublished
    /\ bus' = Append(bus, target)
    /\ UNCHANGED <<pending, sub, history, clients, ticket, serve, got, last,
                   owed, evicted, upsets>>

(* Subscribe creates the group at the end of the stream.                   *)
CreateGroup ==
    /\ SubAt("group")
    /\ sub' = [sub EXCEPT !.pc = "read", !.next = Len(bus) + 1]
    /\ UNCHANGED <<bus, pending, history, clients, ticket, serve, got, last,
                   owed, evicted, upsets>>

Least(S) == CHOOSE e \in S : \A d \in S : e <= d

FirstOf(S, n) == {e \in S : Cardinality({d \in S : d <= e}) <= n}

(* XREADGROUP with cursor "0" returns this consumer's unacknowledged       *)
(* entries, with ">" new ones; the loop turns to the other cursor when     *)
(* there is nothing.                                                       *)
ReadGroup ==
    /\ SubAt("read")
    /\ \E cursor \in {"0", ">"} :
          LET found(c) == IF c = "0" THEN pending ELSE sub.next..Len(bus)
              batch == FirstOf(found(cursor), ReadCount)
          IN  /\ batch # {}
              /\ cursor # sub.cursor => found(sub.cursor) = {}
              /\ pending' = pending \cup batch
              /\ sub' = [sub EXCEPT !.pc = "append", !.todo = batch,
                            !.cursor = cursor, !.ev = Least(batch),
                            !.next = IF cursor = ">" THEN @ + Cardinality(batch)
                                     ELSE @]
    /\ UNCHANGED <<bus, history, clients, ticket, serve, got, last, owed,
                   evicted, upsets>>

(* Mutant of LastOf: trimmed one too late.                                 *)
LastOfLate(s, n) ==
    IF Len(s) > n + 1 THEN SubSeq(s, Len(s) - n, Len(s)) ELSE s

LastOf(s, n) == IF Len(s) > n THEN SubSeq(s, Len(s) - n + 1, Len(s)) ELSE s

(* publishEvent, under historyMu.  A replay holds that mutex.              *)
AppendHistory ==
    /\ SubAt("append")
    /\ \A i \in Serves : ~ ServeAt(i, "replay")
    /\ history' = LastOf(Append(history, sub.ev), HistoryLimit)
    /\ evicted' = IF Len(history) = HistoryLimit
                  THEN evicted \cup {Head(history)} ELSE evicted
    /\ owed' = [t \in Tabs |-> IF Sees(UserOf[t], sub.ev)
                               THEN owed[t] \cup {sub.ev} ELSE owed[t]]
    /\ sub' = [sub EXCEPT !.pc = "snapshot"]
    /\ UNCHANGED <<bus, pending, clients, ticket, serve, got, last, upsets>>

(* publishEvent, under clientsMu.                                          *)
SnapshotWriters ==
    /\ SubAt("snapshot")
    /\ sub' = [sub EXCEPT !.pc = "write",
                          !.to = {i \in clients : Sees(UserOf[TabOf(i)], sub.ev)}]
    /\ UNCHANGED <<bus, pending, history, clients, ticket, serve, got, last,
                   owed, evicted, upsets>>

(* The writers are called one after the other, in the order of a map; each *)
(* takes the writeMu of its serve, and holds it while its peer is stalled. *)
BlockOn(i) ==
    /\ SubAt("write")
    /\ sub.at = Nothing
    /\ i \in sub.to
    /\ Blocked(i)
    /\ sub' = [sub EXCEPT !.at = i]
    /\ UNCHANGED <<bus, pending, history, clients, ticket, serve, got, last,
                   owed, evicted, upsets>>

(* Mutant of WriteLive: the first error ends the loop.                     *)
WriteLiveUntilError(i) ==
    /\ SubAt("write")
    /\ i \in sub.to /\ sub.at \in {Nothing, i}
    /\ ~ Blocked(i)
    /\ WriteThrough(i, sub.ev)
    /\ sub' = [sub EXCEPT !.to = IF serve[i].link = "broken" THEN {}
                                 ELSE @ \ {i}, !.at = Nothing]
    /\ UNCHANGED <<bus, pending, history, clients, ticket, serve, owed, evicted,
                   upsets>>

WriteLive(i) ==
    /\ SubAt("write")
    /\ i \in sub.to /\ sub.at \in {Nothing, i}
    /\ ~ Blocked(i)
    /\ WriteThrough(i, sub.ev)
    /\ sub' = [sub EXCEPT !.to = @ \ {i}, !.at = Nothing]
    /\ UNCHANGED <<bus, pending, history, clients, ticket, serve, owed, evicted,
                   upsets>>

(* publishEvent returns nil whatever the writers said, so the entry is     *)
(* acknowledged; when that call fails the entry stays pending.             *)
Acked(e) ==
    LET left == sub.todo \ {e}
    IN  sub' = [sub EXCEPT !.todo = left, !.to = {},
                   !.ev = IF left = {} THEN Nothing
                          ELSE Least(left),
                   !.pc = IF left = {} THEN "read" ELSE "append",
                   !.cursor = IF left # {} THEN @
                              ELSE IF @ = "0" THEN ">" ELSE "0"]

Ack ==
    /\ SubAt("write")
    /\ sub.to = {}
    /\ pending' = pending \ {sub.ev}
    /\ Acked(sub.ev)
    /\ UNCHANGED <<bus, history, clients, ticket, serve, got, last, owed,
                   evicted, upsets>>

AckFails ==
    /\ Upset
    /\ SubAt("write")
    /\ sub.to = {}
    /\ Acked(sub.ev)
    /\ UNCHANGED <<bus, pending, history, clients, ticket, serve, got, last,
                   owed, evicted>>

-----------------------------------------------------------------------------
(* The sockets.                                                            *)

(* IssueTicket and TicketManager.Issue: a tab asks for a ticket when it is *)
(* about to connect.  A ticket that expires is one that is never           *)
(* presented, and at most one waits to be presented (a bound).             *)
Issue(t) ==
    \E k \in Serves :
        /\ ticket[k].owner = Nothing
        /\ \A j \in Serves : j < k => ticket[j].owner # Nothing
        /\ \A j \in Serves : ~ ticket[j].live
        /\ \A i \in Serves : serve[i].ticket # Nothing /\ TabOf(i) = t =>
                              serve[i].link = "broken"
        /\ ticket' = [ticket EXCEPT ![k] = [owner |-> t, live |-> TRUE]]
        /\ UNCHANGED <<bus, pending, sub, history, clients, serve, got, last,
                       owed, evicted, upsets>>

(* A tab connects when the socket it had is gone on its side, or sends the *)
(* upgrade request a second time before it has an answer.                  *)
MayConnect(k) ==
    \A i \in Serves :
        serve[i].ticket # Nothing /\ TabOf(i) = ticket[k].owner =>
            \/ serve[i].link = "broken"
            \/ ServeAt(i, "count") /\ serve[i].ticket = k

Accepted(i, k) ==
    /\ ServeAt(i, "none")
    /\ \A j \in Serves : j < i => ~ ServeAt(j, "none")
    /\ ticket[k].live
    /\ MayConnect(k)
    /\ \E c \in Conns :
          /\ \A j \in Serves : ~ Carries(j, c)
          /\ \A d \in Conns : d < c => \E j \in Serves : Carries(j, d)
          /\ ServeGoes(i, [Unserved EXCEPT !.pc = "count", !.ticket = k,
                             !.conn = c, !.cursor = last[ticket[k].owner],
                             !.link = "up"])
    /\ UNCHANGED <<bus, pending, sub, history, clients, got, last, owed,
                   evicted, upsets>>

(* Mutant of Consume: the ticket is read and not deleted.                  *)
ConsumeWithoutDelete(i, k) == Accepted(i, k) /\ UNCHANGED ticket

(* Serve up to Consume, which takes the ticket out of the store in one     *)
(* step.  The browser names the last event it has received.                *)
Consume(i, k) ==
    /\ Accepted(i, k)
    /\ ticket' = [ticket EXCEPT ![k].live = FALSE]

OfUser(u) == {i \in clients : UserOf[TabOf(i)] = u}

(* The counts are read under clientsMu, which is then released.            *)
CountConnections(i) ==
    /\ ServeAt(i, "count")
    /\ IF \/ Cardinality(OfUser(UserOf[TabOf(i)])) >= UserLimit
          \/ Cardinality(clients) >= GlobalLimit
       THEN ServeGoes(i, [serve[i] EXCEPT !.pc = "close", !.link = "broken"])
       ELSE ServeGoes(i, [serve[i] EXCEPT !.pc = "register"])
    /\ UNCHANGED <<bus, pending, sub, history, clients, ticket, got, last,
                   owed, evicted, upsets>>

(* registerClient.  Without a cursor nothing that was published before is  *)
(* owed to the tab.                                                        *)
RegisterClient(i) ==
    /\ ServeAt(i, "register")
    /\ clients' = clients \cup {i}
    /\ ServeGoes(i, [serve[i] EXCEPT
                       !.pc = IF serve[i].cursor = Nothing THEN "open"
                              ELSE "ready"])
    /\ owed' = IF serve[i].cursor = Nothing
               THEN [owed EXCEPT ![TabOf(i)] = {}] ELSE owed
    /\ UNCHANGED <<bus, pending, sub, history, ticket, got, last, evicted,
                   upsets>>

(* What lastEventId selects, as places in the history: the events for the  *)
(* user after the first place of the cursor, and nothing if it is not      *)
(* there.                                                                  *)
ReplayAfter(c, u) ==
    {n \in 1..Len(history) : /\ history[n] # c
                             /\ \E m \in 1..(n - 1) : history[m] = c
                             /\ Sees(u, history[n])}

(* historyMu is taken for the whole replay.  A cursor that has left the    *)
(* history replays nothing, and nothing is owed then; nor if the history   *)
(* holds it again only because the entry was delivered a second time.      *)
BeginReplay(i) ==
    /\ ServeAt(i, "ready")
    /\ \A j \in Serves : ~ ServeAt(j, "replay")
    /\ ServeGoes(i, [serve[i] EXCEPT !.pc = "replay",
                       !.rest = ReplayAfter(serve[i].cursor, UserOf[TabOf(i)])])
    /\ owed' = IF serve[i].cursor \in Held(history) \ evicted THEN owed
               ELSE [owed EXCEPT ![TabOf(i)] = {}]
    /\ UNCHANGED <<bus, pending, sub, history, clients, ticket, got, last,
                   evicted, upsets>>

WriteReplayed(i) ==
    /\ ServeAt(i, "replay")
    /\ serve[i].rest # {}
    /\ sub.at # i
    /\ ~ Blocked(i)
    /\ LET n == Least(serve[i].rest)
       IN  /\ WriteThrough(i, history[n])
           /\ ServeGoes(i, [serve[i] EXCEPT !.rest = @ \ {n}])
    /\ UNCHANGED <<bus, pending, sub, history, clients, ticket, owed, evicted,
                   upsets>>

(* Mutant of EndReplay: a return path without the unlock.                  *)
EndReplayLocked(i) ==
    /\ ServeAt(i, "replay")
    /\ serve[i].rest = {}
    /\ serve[i].cursor \in Held(history)
    /\ ServeGoes(i, [serve[i] EXCEPT !.pc = "open"])
    /\ UNCHANGED <<bus, pending, sub, history, clients, ticket, got, last,
                   owed, evicted, upsets>>

EndReplay(i) ==
    /\ ServeAt(i, "replay")
    /\ serve[i].rest = {}
    /\ ServeGoes(i, [serve[i] EXCEPT !.pc = "open"])
    /\ UNCHANGED <<bus, pending, sub, history, clients, ticket, got, last,
                   owed, evicted, upsets>>

(* The read loop ends with an error: the peer has gone, or nothing, not    *)
(* even a pong, came for seventy seconds.  Then the deferred calls:        *)
(* unregisterClient,                                                       *)
UnregisterClient(i) ==
    /\ ServeAt(i, "open")
    /\ serve[i].link # "up"
    /\ clients' = clients \ {i}
    /\ ServeGoes(i, [serve[i] EXCEPT !.pc = "close"])
    /\ UNCHANGED <<bus, pending, sub, history, ticket, got, last, owed,
                   evicted, upsets>>

(* Mutant of MarkClosed: the writer is left able to write.                 *)
LeaveWriterOpen(i) ==
    /\ ServeAt(i, "close")
    /\ sub.at # i
    /\ ServeGoes(i, [serve[i] EXCEPT !.pc = "done", !.link = "broken"])
    /\ UNCHANGED <<bus, pending, sub, history, clients, ticket, got, last, owed,
                   evicted, upsets>>

(* connectionClosed, under the writeMu that a write of the subscriber may  *)
(* hold; then Serve returns, and the library closes the socket and puts    *)
(* its object back in the pool.                                            *)
MarkClosed(i) ==
    /\ ServeAt(i, "close")
    /\ sub.at # i
    /\ ServeGoes(i, [serve[i] EXCEPT !.pc = "done", !.closed = TRUE,
                                     !.link = "broken"])
    /\ UNCHANGED <<bus, pending, sub, history, clients, ticket, got, last, owed,
                   evicted, upsets>>

-----------------------------------------------------------------------------
(* The world.                                                              *)

(* A tab that loses its socket before the replay is over may have received *)
(* newer events first: it will name one of them and never be sent the      *)
(* older ones.                                                             *)
Break(i) ==
    /\ ServeGoes(i, [serve[i] EXCEPT !.link = "broken"])
    /\ owed' = IF /\ serve[i].pc \in {"ready", "replay"}
                   /\ last[TabOf(i)] # serve[i].cursor
               THEN [owed EXCEPT ![TabOf(i)] = {}] ELSE owed

InCall(i) == serve[i].pc \notin {"none", "done"}

PeerLeaves(i) ==
    /\ Upset
    /\ InCall(i)
    /\ serve[i].link = "up"
    /\ Break(i)
    /\ UNCHANGED <<bus, pending, sub, history, clients, ticket, got, last,
                   evicted>>

PeerStalls(i) ==
    /\ Upset
    /\ InCall(i)
    /\ serve[i].link = "up"
    /\ ServeGoes(i, [serve[i] EXCEPT !.link = "stalled"])
    /\ UNCHANGED <<bus, pending, sub, history, clients, ticket, got, last,
                   owed, evicted>>

(* The peer reads again, or the transport gives the connection up.         *)
StallEnds(i) ==
    /\ serve[i].link = "stalled"
    /\ \/ ServeGoes(i, [serve[i] EXCEPT !.link = "up"]) /\ UNCHANGED owed
       \/ Break(i)
    /\ UNCHANGED <<bus, pending, sub, history, clients, ticket, got, last,
                   evicted, upsets>>

(* The gateway restarts: memory and sockets are gone, the tickets are in   *)
(* Redis, and the new process makes a group of its own.                    *)
Restart ==
    /\ Upset
    /\ ~ SubAt("group")
    /\ sub' = Starting
    /\ pending' = {}
    /\ history' = <<>>
    /\ evicted' = evicted \cup Held(history)
    /\ clients' = {}
    /\ serve' = [i \in Serves |->
                    IF ServeAt(i, "none") THEN serve[i]
                    ELSE [serve[i] EXCEPT !.pc = "done", !.rest = {},
                                          !.closed = TRUE, !.link = "broken"]]
    /\ UNCHANGED <<bus, ticket, got, last, owed>>

-----------------------------------------------------------------------------
(* The subscriber's goroutine, and one call of Serve.                      *)
Subscribe ==
    \/ CreateGroup \/ ReadGroup \/ AppendHistory \/ SnapshotWriters
    \/ Ack
    \/ \E i \in Serves : BlockOn(i) \/ WriteLive(i)

ServeSteps(i) ==
    \/ CountConnections(i) \/ RegisterClient(i)
    \/ BeginReplay(i) \/ WriteReplayed(i) \/ EndReplay(i)
    \/ UnregisterClient(i) \/ MarkClosed(i)

EventsNext ==
    \/ \E target \in Targets : Publish(target)
    \/ Subscribe \/ AckFails
    \/ \E t \in Tabs : Issue(t)
    \/ \E i \in Serves :
          \/ ServeSteps(i)
          \/ \E k \in Serves : Consume(i, k)
          \/ PeerLeaves(i) \/ PeerStalls(i) \/ StallEnds(i)
    \/ Restart

EventsSpec == EventsInit /\ [][EventsNext]_eventsVars

-----------------------------------------------------------------------------
(***************************************************************************)
(* Properties.                                                             *)
(***************************************************************************)

(* The stream, the subscriber, the sockets and what the tabs hold keep     *)
(* their shape.                                                            *)
EventsTypeOK ==
    /\ bus \in Seq(Targets) /\ Len(bus) <= MaxPublished
    /\ pending \in SUBSET Published
    /\ sub \in Subscriber
    /\ history \in Seq(Published) /\ Len(history) <= HistoryLimit
    /\ clients \in SUBSET Serves
    /\ ticket \in [Serves -> [owner : Tabs \cup {Nothing}, live : BOOLEAN]]
    /\ serve \in [Serves -> Serving]
    /\ got \in [Tabs -> SUBSET Published]
    /\ last \in [Tabs -> Published \cup {Nothing}]
    /\ owed \in [Tabs -> SUBSET Published]
    /\ evicted \in SUBSET Published
    /\ upsets \in 0..MaxUpsets

(* A tab whose socket is open has received every event for its user since  *)
(* it first connected, but for the one being written now: across           *)
(* reconnects, events published during the replay, entries delivered twice *)
(* and writers that fail.  Promised only as long as each reconnect named   *)
(* an event still in the history and no socket broke during its replay     *)
(* after newer events had come first.                                      *)
NoGap ==
    \A i \in Serves :
        ServeAt(i, "open") /\ serve[i].link = "up" =>
            owed[TabOf(i)] \ got[TabOf(i)] \subseteq
                IF SubAt("snapshot") \/ i \in sub.to THEN {sub.ev} ELSE {}

(* An event for one user reaches no tab of another, also when a connection *)
(* object of the pool has passed from one user's socket to another's while *)
(* the subscriber still held the old writer.                               *)
OnlyOwnEvents ==
    \A t \in Tabs : \A e \in got[t] : Sees(UserOf[t], e)

(* A ticket opens at most one socket, also when the upgrade is sent twice. *)
TicketOpensOnce ==
    \A i, j \in Serves :
        i # j /\ serve[i].ticket # Nothing => serve[i].ticket # serve[j].ticket

(* Nobody waits for ever on a mutex: as long as an event is being handed   *)
(* out, or a socket is being set up or torn down, one of the goroutines    *)
(* can take a step, unless a peer has stalled.  The subscriber and a       *)
(* replay need the historyMu and the writeMu of the same sockets.          *)
OnlyPeersBlock ==
    \/ SubAt("read") /\ \A i \in Serves : InCall(i) => ServeAt(i, "open")
    \/ \E i \in Serves : serve[i].link = "stalled"
    \/ ENABLED (Subscribe \/ \E i \in Serves : ServeSteps(i))
=============================================================================
