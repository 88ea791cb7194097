---------------------------- MODULE MCSystemAccess ----------------------------
(* The system service: login sessions, and the menus of generated functions *)
(* with the checks against them.  The two share the tables of users and     *)
(* roles and nothing else, so a behaviour exercises one of them.            *)
(*                                                                          *)
(* A behaviour has two requests that interleave and either one fault        *)
(* ("faulty", with up to three changes of a menu) or one edit ("edited",    *)
(* with two), or two edits, no fault and one login or one change of a menu  *)
(* ("managed").                                                             *)
EXTENDS AuthSession, MenuAccess, TLC

VARIABLES part, mode

vars == <<directoryVars, authVars, menuVars, part, mode>>

Faults(n) == authFaults = MaxAuthFaults - n /\ menuFaults = MaxMenuFaults - n

Init ==
    /\ part \in {"sessions", "menus"}
    /\ DirectoryInit
    /\ AuthInit
    /\ MenuInit
    /\ \/ mode = "faulty"  /\ edits = MaxEdits     /\ Faults(1) /\ syncs = 0
       \/ mode = "edited"  /\ edits = MaxEdits - 1 /\ Faults(0) /\ syncs = MaxSyncs - 2
       \/ mode = "managed" /\ edits = 0 /\ Faults(0) /\ syncs = MaxSyncs - 1

OneLogin ==
    /\ signed' <= 1
    /\ Cardinality({c \in Calls : call'[c].pc # "idle"}) <= 1

Next ==
    /\ \/ part = "sessions" /\ AuthNext /\ UNCHANGED menuVars
       \/ part = "menus" /\ MenuNext /\ UNCHANGED authVars
    /\ mode = "managed" => OneLogin
    /\ UNCHANGED <<part, mode>>

Spec == Init /\ [][Next]_vars

(* Requests of one kind are interchangeable.                               *)
Symmetry == Permutations(Calls) \cup Permutations(Syncs)

(* The state of the tables and of both parts keeps its shape.              *)
SystemTypeOK == DirectoryTypeOK /\ AuthTypeOK /\ MenuTypeOK
=============================================================================
