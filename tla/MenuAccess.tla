------------------------------ MODULE MenuAccess ------------------------------
(***************************************************************************)
(* The menus of generated functions.  func-operation asks the system       *)
(* service to publish, synchronise, disable or delete the page of a        *)
(* function and the buttons of its actions, from a request or from the     *)
(* outbox; the service does it in many small statements without a          *)
(* transaction.  Requests to a function are checked against the menus and  *)
(* the grants, again in several reads.                                     *)
(*                                                                         *)
(* Directories, names and sorting are left out; a call whose parent        *)
(* directory is refused changes nothing.  Actions of a function are        *)
(* written in some order.                                                  *)
(***************************************************************************)
EXTENDS SystemDirectory

CONSTANTS
    Syncs,          \* calls of SyncGeneratedFunctionMenu in flight
    Checks,         \* calls of CheckFunctionMenuAccess in flight
    MaxSyncs,       \* bound on the calls of the former
    MaxMenuFaults   \* bound on failed statements and dead calls

ASSUME MenuAssumption == MaxSyncs \in Nat /\ MaxMenuFaults \in Nat

VARIABLES
    sync, check,
    whole,          \* menus whose creating call has succeeded
    syncs, menuFaults

menuVars == <<sync, check, whole, syncs, menuFaults>>

(* found: the row the last lookup returned; seen: the rows the last list   *)
(* returned that are of interest; made: the rows this call has created.    *)
Sync == [pc : {"idle", "find", "page", "list", "button", "put", "give",
               "off", "offList", "offButtons", "delList", "delButtons"},
         fn : Functions \cup {"none"}, keys : SUBSET Keys, todo : SUBSET Keys,
         key : Keys \cup {"page"}, status : Chosen, page : 0..MaxMenus,
         found : 0..MaxMenus, seen : SUBSET MenuIds, made : SUBSET MenuIds]

NoSync == [pc |-> "idle", fn |-> "none", keys |-> {}, todo |-> {},
           key |-> "page", status |-> "enabled", page |-> NoMenu,
           found |-> NoMenu, seen |-> {}, made |-> {}]

(* parent: the parent of each menu the first list returned; began: the     *)
(* edits when the call began.                                              *)
Check == [pc : {"idle", "grants", "page", "action", "open"},
          user : Users \cup {"none"}, fn : Functions \cup {"none"},
          key : Keys \cup {"page"}, listed : SUBSET MenuIds,
          parent : [MenuIds -> 0..MaxMenus], allowed : SUBSET MenuIds,
          target : 0..MaxMenus, began : 0..MaxEdits]

NoCheck == [pc |-> "idle", user |-> "none", fn |-> "none", key |-> "page",
            listed |-> {}, parent |-> [m \in MenuIds |-> NoMenu],
            allowed |-> {}, target |-> NoMenu, began |-> 0]

SyncAt(p, pc) == sync[p].pc = pc
SyncGoes(p, r) == sync' = [sync EXCEPT ![p] = r]
CheckAt(c, pc) == check[c].pc = pc
CheckGoes(c, r) == check' = [check EXCEPT ![c] = r]

(* The row with the code of a page or of a button: codes are unique.       *)
Coded(f, k) == {m \in LiveMenus : menu[m].fn = f /\ menu[m].kind = k}
Lookup(f, k) == IF Coded(f, k) = {} THEN NoMenu ELSE CHOOSE m \in Coded(f, k) : TRUE

Buttons(f) == {m \in LiveMenus : menu[m].fn = f /\ menu[m].kind # "page"}
ButtonsUnder(f, page) == {m \in Buttons(f) : menu[m].parent = page}

NextMenu == CHOOSE m \in MenuIds : /\ menu[m].status = "none"
                                   /\ \A n \in MenuIds : n < m => menu[n].status # "none"
RoomForMenu == \E m \in MenuIds : menu[m].status = "none"

OnlyMenu == UNCHANGED <<user, role, member, named, serving, edits, trimmed>>
NoTable == UNCHANGED directoryVars

(* Menu.Delete: the row and its grants, in a transaction that finds the    *)
(* row or is rolled back.                                                  *)
Deleted(m) ==
    /\ IF m \in LiveMenus
       THEN /\ menu' = [menu EXCEPT ![m].status = "deleted"]
            /\ granted' = {rm \in granted : rm[2] # m}
       ELSE UNCHANGED <<menu, granted>>
    /\ OnlyMenu
    /\ Noted

(* An update by id, which a deleted row ignores.                           *)
Updated(m, fields) ==
    /\ menu' = IF m \in LiveMenus THEN [menu EXCEPT ![m] = fields] ELSE menu
    /\ UNCHANGED <<granted, moments>>
    /\ OnlyMenu

-----------------------------------------------------------------------------
(* Publish and sync.                                                       *)

Arrives(p) ==
    /\ serving
    /\ SyncAt(p, "idle")
    /\ syncs < MaxSyncs
    /\ syncs' = syncs + 1
    /\ UNCHANGED <<check, whole, menuFaults>>
    /\ NoTable

(* "publish" enables the menus, "sync" leaves a disabled page disabled.    *)
PublishMenu(p, f, ks) ==
    /\ Arrives(p)
    /\ SyncGoes(p, [NoSync EXCEPT !.pc = "find", !.fn = f, !.keys = ks])

SyncMenu(p, f, ks) ==
    /\ Arrives(p)
    /\ SyncGoes(p, [NoSync EXCEPT
         !.pc = "find", !.fn = f, !.keys = ks,
         !.status = IF \E m \in Coded(f, "page") : menu[m].status = "disabled"
                    THEN "disabled" ELSE "enabled"])

(* upsertGeneratedFunctionMenu: a lookup, then an insert or an update.     *)
FindPage(p) ==
    /\ SyncAt(p, "find")
    /\ SyncGoes(p, [sync[p] EXCEPT !.pc = "page",
                                   !.found = Lookup(sync[p].fn, "page")])
    /\ NoTable
    /\ UNCHANGED <<check, whole, syncs, menuFaults>>

Insert(p, k, parent, next) ==
    /\ RoomForMenu
    /\ menu' = [menu EXCEPT ![NextMenu] =
                  [fn |-> sync[p].fn, kind |-> k, parent |-> parent,
                   status |-> sync[p].status]]
    /\ SyncGoes(p, next)
    /\ UNCHANGED <<granted, moments, check, whole, syncs, menuFaults>>
    /\ OnlyMenu

CreatePage(p) ==
    /\ SyncAt(p, "page")
    /\ sync[p].found = NoMenu
    /\ Coded(sync[p].fn, "page") = {}
    /\ Insert(p, "page", NoMenu,
              [sync[p] EXCEPT !.pc = "list", !.page = NextMenu,
                              !.made = @ \cup {NextMenu}])

UpdatePage(p) ==
    LET m == sync[p].found
    IN /\ SyncAt(p, "page")
       /\ m # NoMenu
       /\ Updated(m, [menu[m] EXCEPT !.status = sync[p].status])
       /\ SyncGoes(p, [sync[p] EXCEPT !.pc = "list", !.page = m])
       /\ UNCHANGED <<check, whole, syncs, menuFaults>>

(* syncGeneratedFunctionActionMenus.                                       *)
ListButtons(p) ==
    LET s == sync[p]
    IN /\ SyncAt(p, "list")
       /\ SyncGoes(p, [s EXCEPT
            !.pc = "button", !.todo = s.keys,
            !.seen = {m \in ButtonsUnder(s.fn, s.page) : menu[m].kind \notin s.keys}])
       /\ NoTable
       /\ UNCHANGED <<check, whole, syncs, menuFaults>>

FindButton(p, k) ==
    /\ SyncAt(p, "button")
    /\ k \in sync[p].todo
    /\ SyncGoes(p, [sync[p] EXCEPT !.pc = "put", !.key = k, !.todo = @ \ {k},
                                   !.found = Lookup(sync[p].fn, k)])
    /\ NoTable
    /\ UNCHANGED <<check, whole, syncs, menuFaults>>

CreateButton(p) ==
    /\ SyncAt(p, "put")
    /\ sync[p].found = NoMenu
    /\ Coded(sync[p].fn, sync[p].key) = {}
    /\ Insert(p, sync[p].key, sync[p].page,
              [sync[p] EXCEPT !.pc = "button", !.made = @ \cup {NextMenu}])

UpdateButton(p) ==
    LET m == sync[p].found
    IN /\ SyncAt(p, "put")
       /\ m # NoMenu
       /\ Updated(m, [menu[m] EXCEPT !.status = sync[p].status,
                                     !.parent = sync[p].page])
       /\ SyncGoes(p, [sync[p] EXCEPT !.pc = "button"])
       /\ UNCHANGED <<check, whole, syncs, menuFaults>>

(* Another call has inserted the row since the lookup: the unique index    *)
(* refuses a second.                                                       *)
Duplicate(p) ==
    /\ \/ SyncAt(p, "page") /\ Coded(sync[p].fn, "page") # {}
       \/ SyncAt(p, "put") /\ Coded(sync[p].fn, sync[p].key) # {}
    /\ sync[p].found = NoMenu
    /\ SyncGoes(p, NoSync)
    /\ NoTable
    /\ UNCHANGED <<check, whole, syncs, menuFaults>>

(* Buttons of the page that are not among the keys.                        *)
DropButton(p, m) ==
    /\ \/ SyncAt(p, "button") /\ sync[p].todo = {}
       \/ SyncAt(p, "delButtons")
    /\ m \in sync[p].seen
    /\ Deleted(m)
    /\ SyncGoes(p, [sync[p] EXCEPT !.seen = @ \ {m}])
    /\ UNCHANGED <<check, whole, syncs, menuFaults>>

(* Mutant of Generated: only the page is granted.                          *)
GeneratedPages(f) == Coded(f, "page")

(* Menus of the function, for grantAdminGeneratedFunctionAccess.           *)
Generated(f) == {m \in LiveMenus : menu[m].fn = f}

ListGenerated(p) ==
    /\ SyncAt(p, "button")
    /\ sync[p].todo = {}
    /\ sync[p].seen = {}
    /\ RoleFound
    /\ SyncGoes(p, [sync[p] EXCEPT !.pc = "give", !.seen = Generated(sync[p].fn)])
    /\ NoTable
    /\ UNCHANGED <<check, whole, syncs, menuFaults>>

(* The built-in role was deleted or has another code.                      *)
NoAdminRole(p) ==
    /\ SyncAt(p, "button")
    /\ sync[p].todo = {}
    /\ sync[p].seen = {}
    /\ ~ RoleFound
    /\ SyncGoes(p, NoSync)
    /\ NoTable
    /\ UNCHANGED <<check, whole, syncs, menuFaults>>

GrantRoleMenus(p) ==
    /\ SyncAt(p, "give")
    /\ granted' = granted \cup ({Admin} \X sync[p].seen)
    /\ whole' = whole \cup sync[p].made
    /\ SyncGoes(p, NoSync)
    /\ UNCHANGED <<menu, check, syncs, menuFaults>>
    /\ OnlyMenu
    /\ Noted

-----------------------------------------------------------------------------
(* Unpublish.                                                              *)

UnpublishMenu(p, f) ==
    /\ Arrives(p)
    /\ SyncGoes(p, IF Coded(f, "page") = {} THEN NoSync
                   ELSE [NoSync EXCEPT !.pc = "off", !.fn = f,
                                       !.found = Lookup(f, "page")])

DisablePage(p) ==
    LET m == sync[p].found
    IN /\ SyncAt(p, "off")
       /\ Updated(m, [menu[m] EXCEPT !.status = "disabled"])
       /\ SyncGoes(p, IF m \in LiveMenus THEN [sync[p] EXCEPT !.pc = "offList"]
                      ELSE NoSync)
       /\ UNCHANGED <<check, whole, syncs, menuFaults>>

ListToDisable(p) ==
    /\ SyncAt(p, "offList")
    /\ SyncGoes(p, [sync[p] EXCEPT !.pc = "offButtons", !.seen = Buttons(sync[p].fn)])
    /\ NoTable
    /\ UNCHANGED <<check, whole, syncs, menuFaults>>

DisableButton(p, m) ==
    /\ SyncAt(p, "offButtons")
    /\ m \in sync[p].seen
    /\ Updated(m, [menu[m] EXCEPT !.status = "disabled"])
    /\ SyncGoes(p, [sync[p] EXCEPT !.seen = @ \ {m}])
    /\ UNCHANGED <<check, whole, syncs, menuFaults>>

Disabled(p) ==
    /\ SyncAt(p, "offButtons")
    /\ sync[p].seen = {}
    /\ SyncGoes(p, NoSync)
    /\ NoTable
    /\ UNCHANGED <<check, whole, syncs, menuFaults>>

-----------------------------------------------------------------------------
(* Delete: the buttons under the page, then the page.                      *)

DeleteMenu(p, f) ==
    /\ Arrives(p)
    /\ SyncGoes(p, IF Coded(f, "page") = {} THEN NoSync
                   ELSE [NoSync EXCEPT !.pc = "delList", !.fn = f,
                                       !.page = Lookup(f, "page")])

ListToDelete(p) ==
    /\ SyncAt(p, "delList")
    /\ SyncGoes(p, [sync[p] EXCEPT !.pc = "delButtons",
                                   !.seen = ButtonsUnder(sync[p].fn, sync[p].page)])
    /\ NoTable
    /\ UNCHANGED <<check, whole, syncs, menuFaults>>

DeletePage(p) ==
    /\ SyncAt(p, "delButtons")
    /\ sync[p].seen = {}
    /\ Deleted(sync[p].page)
    /\ SyncGoes(p, NoSync)
    /\ UNCHANGED <<check, whole, syncs, menuFaults>>

(* A statement fails, or the call is given up: what was done stays done.   *)
SyncDies(p) ==
    /\ ~ SyncAt(p, "idle")
    /\ menuFaults < MaxMenuFaults
    /\ menuFaults' = menuFaults + 1
    /\ SyncGoes(p, NoSync)
    /\ NoTable
    /\ UNCHANGED <<check, whole, syncs>>

-----------------------------------------------------------------------------
(* CheckFunctionMenuAccess.                                                *)

ListMenus(c, u, f, k) ==
    /\ serving
    /\ CheckAt(c, "idle")
    /\ CheckGoes(c, [NoCheck EXCEPT
         !.pc = "grants", !.user = u, !.fn = f, !.key = k, !.listed = LiveMenus,
         !.parent = [m \in MenuIds |-> IF m \in LiveMenus THEN menu[m].parent
                                       ELSE NoMenu],
         !.began = edits])
    /\ NoTable
    /\ UNCHANGED <<sync, whole, syncs, menuFaults>>

(* Mutant of Expanded: a granted page opens the buttons under it.          *)
ExpandedDown(c, seed) ==
    LET known == seed \cap check[c].listed
    IN known \cup {m \in check[c].listed : check[c].parent[m] \in known}

(* expandAllowedMenuIDs: a granted button also opens the page above it.    *)
Expanded(c, seed) ==
    LET known == seed \cap check[c].listed
    IN known \cup {m \in check[c].listed : \E b \in known : check[c].parent[b] = m}

ListGrants(c) ==
    LET seed == {m \in MenuIds : Reaches(check[c].user, m)}
    IN /\ CheckAt(c, "grants")
       /\ CheckGoes(c, IF seed = {} THEN NoCheck
                       ELSE [check[c] EXCEPT !.pc = "page",
                                             !.allowed = Expanded(c, seed)])
       /\ NoTable
       /\ UNCHANGED <<sync, whole, syncs, menuFaults>>

Decide(c, m) == IF m \in check[c].allowed
                THEN [check[c] EXCEPT !.pc = "open", !.target = m] ELSE NoCheck

LookupPage(c) ==
    LET m == Lookup(check[c].fn, "page")
    IN /\ CheckAt(c, "page")
       /\ CheckGoes(c, IF m = NoMenu THEN NoCheck
                       ELSE IF menu[m].status # "enabled" THEN NoCheck
                       ELSE IF check[c].key = "page" THEN Decide(c, m)
                       ELSE [check[c] EXCEPT !.pc = "action"])
       /\ NoTable
       /\ UNCHANGED <<sync, whole, syncs, menuFaults>>

LookupAction(c) ==
    LET m == Lookup(check[c].fn, check[c].key)
    IN /\ CheckAt(c, "action")
       /\ CheckGoes(c, IF m = NoMenu THEN NoCheck
                       ELSE IF menu[m].status # "enabled" THEN NoCheck
                       ELSE Decide(c, m))
       /\ NoTable
       /\ UNCHANGED <<sync, whole, syncs, menuFaults>>

Answered(c) ==
    /\ CheckAt(c, "open")
    /\ CheckGoes(c, NoCheck)
    /\ NoTable
    /\ UNCHANGED <<sync, whole, syncs, menuFaults>>

-----------------------------------------------------------------------------
MenuRestarts ==
    /\ sync' = [p \in Syncs |-> NoSync]
    /\ check' = [c \in Checks |-> NoCheck]
    /\ UNCHANGED <<whole, syncs, menuFaults>>

MenuInit ==
    /\ sync = [p \in Syncs |-> NoSync]
    /\ check = [c \in Checks |-> NoCheck]
    /\ whole = {}
    /\ syncs \in 0..MaxSyncs
    /\ menuFaults \in 0..MaxMenuFaults

MenuStep ==
    \/ \E p \in Syncs :
           \/ \E f \in Functions :
                  \/ \E ks \in SUBSET Keys : PublishMenu(p, f, ks) \/ SyncMenu(p, f, ks)
                  \/ UnpublishMenu(p, f) \/ DeleteMenu(p, f)
           \/ FindPage(p) \/ CreatePage(p) \/ UpdatePage(p) \/ ListButtons(p)
           \/ \E k \in Keys : FindButton(p, k)
           \/ CreateButton(p) \/ UpdateButton(p) \/ Duplicate(p)
           \/ \E m \in MenuIds : DropButton(p, m) \/ DisableButton(p, m)
           \/ ListGenerated(p) \/ NoAdminRole(p) \/ GrantRoleMenus(p)
           \/ DisablePage(p) \/ ListToDisable(p) \/ Disabled(p)
           \/ ListToDelete(p) \/ DeletePage(p)
           \/ SyncDies(p)
    \/ \E c \in Checks :
           \/ \E u \in Users, f \in Functions, k \in Keys \cup {"page"} :
                  ListMenus(c, u, f, k)
           \/ ListGrants(c) \/ LookupPage(c) \/ LookupAction(c) \/ Answered(c)

(* Calls, edits of every kind, and restarts.                               *)
MenuNext ==
    \/ MenuStep
    \/ (UserEdits \/ RoleEdits \/ GrantEdits) /\ UNCHANGED menuVars
    \/ Seed /\ MenuRestarts

MenuSpec == DirectoryInit /\ MenuInit /\ [][MenuNext]_<<directoryVars, menuVars>>

-----------------------------------------------------------------------------
MenuTypeOK ==
    /\ sync \in [Syncs -> Sync]
    /\ check \in [Checks -> Check]
    /\ whole \subseteq MenuIds
    /\ syncs \in 0..MaxSyncs
    /\ menuFaults \in 0..MaxMenuFaults

(* The built-in role is granted every menu that a call of                  *)
(* SyncGeneratedFunctionMenu has created and reported done, however calls  *)
(* for the same function interleave, unless an operator took it away: the  *)
(* "all menus and buttons" of the role outlive its seeding.                *)
AdminHoldsAll ==
    \A m \in whole \cap LiveMenus :
        Exists(role[Admin]) => <<Admin, m>> \in granted \/ m \in trimmed

(* An action of a function is opened only to a user who was granted its    *)
(* very button through an enabled role at some moment since the check      *)
(* began, and a page only to one who was granted it or a button under it,  *)
(* although the check reads menus, grants, page and button one after the   *)
(* other while syncs and edits go on.                                      *)
OpenedByGrant ==
    \A c \in Checks : CheckAt(c, "open") =>
        \E m \in MenuIds :
            /\ \/ m = check[c].target
               \/ check[c].key = "page" /\ check[c].parent[m] = check[c].target
            /\ lastGranted[check[c].user][m] >= check[c].began
=============================================================================
