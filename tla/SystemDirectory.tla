---------------------------- MODULE SystemDirectory ----------------------------
(***************************************************************************)
(* The tables of the system service that decide who may do what: users,    *)
(* roles, which user has which role, the menus of generated functions, and *)
(* which role is granted which menu.  Operators edit them, and start-up    *)
(* seeds the built-in user and role.                                       *)
(*                                                                         *)
(* An edit is one step, its transaction.  What the request read before     *)
(* only decides whether it is refused, and a refusal changes nothing;      *)
(* rows it found may be gone when it writes, and the status an update      *)
(* writes back may be any the row ever had.                                *)
(***************************************************************************)
EXTENDS Integers, FiniteSets

CONSTANTS
    Users, Root,        \* ids of users; the seeded one has a fixed id
    Roles, Admin,       \* ids of roles; the seeded one has a fixed id
    Functions, Keys,    \* generated functions and the keys of their actions
    MaxMenus,           \* bound on the rows of menus ever created
    MaxEdits            \* bound on edits and restarts

ASSUME DirectoryAssumption ==
    /\ Root \in Users
    /\ Admin \in Roles
    /\ "page" \notin Keys
    /\ "none" \notin Functions
    /\ MaxMenus \in Nat
    /\ MaxEdits \in Nat

VARIABLES
    user, role,         \* status of the rows; ids are never used again
    member,             \* user_roles
    menu,               \* menus of generated functions
    granted,            \* role_menus
    named,              \* built-in rows that carry the name start-up looks for
    serving,            \* the service came up at the last start
    edits,              \* edits so far, also the clock of the next four
    lastEnabled,        \* the last edit after which the user was enabled,
    lastRoled,          \* had an enabled role,
    lastGranted,        \* was granted the menu through one
    trimmed             \* menus an operator left out of the built-in role's

tables == <<user, role, member, menu, granted, named>>
moments == <<lastEnabled, lastRoled, lastGranted>>
directoryVars == <<tables, moments, serving, edits, trimmed>>

MenuIds == 1..MaxMenus
NoMenu == 0
Status == {"none", "enabled", "disabled", "deleted"}
Chosen == {"enabled", "disabled"}
Never == -1

(* A page of a function, or the button of one of its actions.              *)
MenuRow == [fn : Functions \cup {"none"}, kind : Keys \cup {"page"},
            parent : 0..MaxMenus, status : Status]

Unused == [fn |-> "none", kind |-> "page", parent |-> NoMenu,
           status |-> "none"]

Exists(s) == s \in Chosen
LiveMenus == {m \in MenuIds : Exists(menu[m].status)}

-----------------------------------------------------------------------------
(* Queries.                                                                *)

(* Role.ListRolesByUser and hasEnabledRoles.                               *)
HasEnabledRole(u) == \E r \in Roles : <<u, r>> \in member /\ role[r] = "enabled"

(* Mutant of Reaches: grants of a disabled role still count.               *)
ReachesAnyRole(u, m) == \E r \in Roles : <<u, r>> \in member /\ <<r, m>> \in granted

(* Role.ListMenuIDsByUser.                                                 *)
Reaches(u, m) == \E r \in Roles : /\ <<u, r>> \in member
                                  /\ role[r] = "enabled"
                                  /\ <<r, m>> \in granted

-----------------------------------------------------------------------------
(* The clock and its three readings are ghosts: they say when a user was   *)
(* last in good standing.                                                  *)

Through(u, m) == \E r \in Roles : /\ <<u, r>> \in member'
                                  /\ role'[r] = "enabled"
                                  /\ <<r, m>> \in granted'

Noted ==
    /\ lastEnabled' = [u \in Users |-> IF user'[u] = "enabled" THEN edits'
                                       ELSE lastEnabled[u]]
    /\ lastRoled' = [u \in Users |->
                       IF \E r \in Roles : <<u, r>> \in member' /\ role'[r] = "enabled"
                       THEN edits' ELSE lastRoled[u]]
    /\ lastGranted' = [u \in Users |-> [m \in MenuIds |->
                         IF Through(u, m) THEN edits' ELSE lastGranted[u][m]]]

MayEdit == serving /\ edits < MaxEdits

Edited ==
    /\ edits' = edits + 1
    /\ UNCHANGED serving
    /\ Noted

-----------------------------------------------------------------------------
(* UserLogic.                                                              *)

CreateUser(u, s) ==
    /\ MayEdit
    /\ user[u] = "none"
    /\ user' = [user EXCEPT ![u] = s]
    /\ UNCHANGED <<role, member, menu, granted, named, trimmed>>
    /\ Edited

(* Mutant of UpdateUser: a status left out is written as it came.          *)
UpdateUserRaw(u, s, keepsName) ==
    /\ MayEdit
    /\ Exists(user[u])
    /\ user' = [user EXCEPT ![u] = "unset"]
    /\ UNCHANGED <<role, member, menu, granted, named, trimmed>>
    /\ Edited

(* The whole row is written, a new username of the seeded user included.   *)
UpdateUser(u, s, keepsName) ==
    /\ MayEdit
    /\ Exists(user[u])
    /\ user' = [user EXCEPT ![u] = s]
    /\ named' = IF u # Root THEN named
                ELSE IF keepsName THEN named \cup {"user"} ELSE named \ {"user"}
    /\ UNCHANGED <<role, member, menu, granted, trimmed>>
    /\ Edited

SetUserStatus(u, s) ==
    /\ MayEdit
    /\ Exists(user[u])
    /\ user' = [user EXCEPT ![u] = s]
    /\ UNCHANGED <<role, member, menu, granted, named, trimmed>>
    /\ Edited

DeleteUser(u) ==
    /\ MayEdit
    /\ Exists(user[u])
    /\ user' = [user EXCEPT ![u] = "deleted"]
    /\ member' = {um \in member : um[1] # u}
    /\ UNCHANGED <<role, menu, granted, named, trimmed>>
    /\ Edited

(* User and roles were looked up before the transaction.                   *)
SetUserRoles(u, rs) ==
    /\ MayEdit
    /\ user[u] # "none"
    /\ \A r \in rs : role[r] # "none"
    /\ member' = {um \in member : um[1] # u} \cup ({u} \X rs)
    /\ UNCHANGED <<user, role, menu, granted, named, trimmed>>
    /\ Edited

-----------------------------------------------------------------------------
(* RoleLogic.                                                              *)

CreateRole(r, s) ==
    /\ MayEdit
    /\ role[r] = "none"
    /\ role' = [role EXCEPT ![r] = s]
    /\ UNCHANGED <<user, member, menu, granted, named, trimmed>>
    /\ Edited

(* The whole row is written, a new code of the seeded role included.       *)
UpdateRole(r, s, keepsCode) ==
    /\ MayEdit
    /\ Exists(role[r])
    /\ role' = [role EXCEPT ![r] = s]
    /\ named' = IF r # Admin THEN named
                ELSE IF keepsCode THEN named \cup {"role"} ELSE named \ {"role"}
    /\ UNCHANGED <<user, member, menu, granted, trimmed>>
    /\ Edited

SetRoleStatus(r, s) ==
    /\ MayEdit
    /\ Exists(role[r])
    /\ role' = [role EXCEPT ![r] = s]
    /\ UNCHANGED <<user, member, menu, granted, named, trimmed>>
    /\ Edited

DeleteRole(r) ==
    /\ MayEdit
    /\ Exists(role[r])
    /\ role' = [role EXCEPT ![r] = "deleted"]
    /\ member' = {um \in member : um[2] # r}
    /\ granted' = {rm \in granted : rm[1] # r}
    /\ UNCHANGED <<user, menu, named, trimmed>>
    /\ Edited

(* Role and menus were looked up before the transaction.                   *)
SetRoleMenus(r, ms) ==
    /\ MayEdit
    /\ role[r] # "none"
    /\ \A m \in ms : menu[m].status # "none"
    /\ granted' = {rm \in granted : rm[1] # r} \cup ({r} \X ms)
    /\ trimmed' = IF r = Admin THEN trimmed \cup (LiveMenus \ ms) ELSE trimmed
    /\ UNCHANGED <<user, role, member, menu, named>>
    /\ Edited

(* MenuLogic.setMenuStatus does not spare generated menus.                 *)
SetMenuStatus(m, s) ==
    /\ MayEdit
    /\ m \in LiveMenus
    /\ menu' = [menu EXCEPT ![m].status = s]
    /\ UNCHANGED <<user, role, member, granted, named, trimmed>>
    /\ Edited

-----------------------------------------------------------------------------
(* Start-up, before the service takes requests.  A built-in row that no    *)
(* longer carries its name is inserted again under the same id, which the  *)
(* primary key refuses: start-up panics.                                   *)

RoleFound == Exists(role[Admin]) /\ "role" \in named
RoleClash == Exists(role[Admin]) /\ "role" \notin named
UserFound == Exists(user[Root]) /\ "user" \in named
UserClash == Exists(user[Root]) /\ "user" \notin named

SeedRoles ==
    IF RoleClash THEN UNCHANGED <<role, granted>>
    ELSE /\ role' = IF RoleFound THEN role ELSE [role EXCEPT ![Admin] = "enabled"]
         /\ granted' = {rm \in granted : rm[1] # Admin} \cup ({Admin} \X LiveMenus)

SeedAdminUser ==
    IF RoleClash \/ UserFound \/ UserClash THEN UNCHANGED <<user, member>>
    ELSE /\ user' = [user EXCEPT ![Root] = "enabled"]
         /\ member' = {um \in member : um[1] # Root} \cup {<<Root, Admin>>}

Seed ==
    /\ MayEdit
    /\ edits' = edits + 1
    /\ SeedRoles
    /\ SeedAdminUser
    /\ serving' = (~ RoleClash /\ ~ UserClash)
    /\ named' = IF RoleClash THEN named
                ELSE IF UserClash THEN named \cup {"role"}
                ELSE {"role", "user"}
    /\ UNCHANGED <<menu, trimmed>>
    /\ Noted

-----------------------------------------------------------------------------
UserEdits ==
    \E u \in Users :
        \/ \E s \in Chosen : CreateUser(u, s) \/ SetUserStatus(u, s)
        \/ \E s \in Chosen, keeps \in BOOLEAN :
               (u # Root => keeps) /\ UpdateUser(u, s, keeps)
        \/ DeleteUser(u)
        \/ \E rs \in SUBSET Roles : SetUserRoles(u, rs)

RoleEdits ==
    \E r \in Roles :
        \/ \E s \in Chosen : CreateRole(r, s) \/ SetRoleStatus(r, s)
        \/ \E s \in Chosen, keeps \in BOOLEAN :
               (r # Admin => keeps) /\ UpdateRole(r, s, keeps)
        \/ DeleteRole(r)

GrantEdits ==
    \/ \E r \in Roles, ms \in SUBSET MenuIds : SetRoleMenus(r, ms)
    \/ \E m \in MenuIds, s \in Chosen : SetMenuStatus(m, s)

(* The service has just been seeded for the first time.  How many edits    *)
(* are still to come is open, here and for the other bounds.               *)
DirectoryInit ==
    /\ user = [u \in Users |-> IF u = Root THEN "enabled" ELSE "none"]
    /\ role = [r \in Roles |-> IF r = Admin THEN "enabled" ELSE "none"]
    /\ member = {<<Root, Admin>>}
    /\ menu = [m \in MenuIds |-> Unused]
    /\ granted = {}
    /\ named = {"user", "role"}
    /\ serving = TRUE
    /\ edits \in 0..MaxEdits
    /\ lastEnabled = [u \in Users |-> IF u = Root THEN edits ELSE Never]
    /\ lastRoled = [u \in Users |-> IF u = Root THEN edits ELSE Never]
    /\ lastGranted = [u \in Users |-> [m \in MenuIds |-> Never]]
    /\ trimmed = {}

DirectoryTypeOK ==
    /\ user \in [Users -> Status]
    /\ role \in [Roles -> Status]
    /\ member \subseteq Users \X Roles
    /\ menu \in [MenuIds -> MenuRow]
    /\ granted \subseteq Roles \X MenuIds
    /\ named \subseteq {"user", "role"}
    /\ serving \in BOOLEAN
    /\ edits \in 0..MaxEdits
    /\ lastEnabled \in [Users -> Int]
    /\ lastRoled \in [Users -> Int]
    /\ lastGranted \in [Users -> [MenuIds -> Int]]
    /\ trimmed \subseteq MenuIds
=============================================================================
