-------------------------- MODULE SystemAccessProofs --------------------------
(***************************************************************************)
(* AdminHoldsAll and OpenedByGrant for any number of users, roles,         *)
(* functions, menus, calls and edits, and the types of the whole service.  *)
(*                                                                         *)
(* AdminHoldsAll needs to know that what a call lists before it grants     *)
(* holds all that it has created, less what was deleted meanwhile: a row   *)
(* never changes its function and a deleted one never comes back.          *)
(* OpenedByGrant needs to know of the menus a check has collected that     *)
(* each was granted since it began, or lies above one that was, and that   *)
(* only pages lie above others.                                            *)
(***************************************************************************)
EXTENDS MCSystemAccess, AuthSessionProofs, NaturalsInduction,
        WellFoundedInduction

(* What the tables say now is what the last reading says.                  *)
GrantsRead ==
    \A u \in Users, m \in MenuIds :
        /\ lastGranted[u][m] <= edits
        /\ Reaches(u, m) => lastGranted[u][m] = edits

IsPage(m) == m \in MenuIds /\ menu[m].status # "none" /\ menu[m].kind = "page"

(* Only a page lies above another menu.                                    *)
OnlyPagesAbove == \A m \in MenuIds : menu[m].parent # NoMenu => IsPage(menu[m].parent)

(* What a call for the menus of a function has in hand: its page, the rows *)
(* it has created, and, when it is about to grant, all of those that still *)
(* exist.                                                                  *)
SyncShape(s) ==
    /\ s.page # NoMenu => IsPage(s.page)
    /\ s.pc = "page" /\ s.found # NoMenu => IsPage(s.found)
    /\ \A m \in s.made : menu[m].status # "none" /\ menu[m].fn = s.fn
    /\ s.pc = "give" => s.made \cap LiveMenus \subseteq s.seen

(* What a check has in hand: the page above each menu, and which menus it  *)
(* may open, each witnessed by a grant since it began.                     *)
CheckShape(r) ==
    /\ r.pc # "idle" => r.user \in Users
    /\ r.pc = "action" => r.key \in Keys
    /\ r.began <= edits
    /\ \A m \in MenuIds : r.parent[m] # NoMenu => IsPage(r.parent[m])
    /\ r.pc \in {"page", "action"} =>
         \A m \in r.allowed : \E b \in MenuIds :
             /\ b = m \/ r.parent[b] = m
             /\ lastGranted[r.user][b] >= r.began
    /\ r.pc = "open" =>
         \E b \in MenuIds :
             /\ b = r.target \/ (r.key = "page" /\ r.parent[b] = r.target)
             /\ lastGranted[r.user][b] >= r.began

SyncsShaped == \A p \in Syncs : SyncShape(sync[p])
ChecksShaped == \A c \in Checks : CheckShape(check[c])

(* The built-in role has a row, and what was reported done was created.    *)
Seeded == role[Admin] # "none"
WholeCreated == \A m \in whole : menu[m].status # "none"

MenuInv ==
    /\ DirectoryTypeOK
    /\ MenuTypeOK
    /\ GrantsRead
    /\ OnlyPagesAbove
    /\ SyncsShaped
    /\ ChecksShaped
    /\ Seeded
    /\ WholeCreated
    /\ AdminHoldsAll

(* Rows are made once: what a row is for stays, and what was deleted does  *)
(* not come back.                                                          *)
RowsKept ==
    \A m \in MenuIds : menu[m].status # "none" =>
        /\ menu'[m].status # "none"
        /\ menu'[m].fn = menu[m].fn
        /\ menu'[m].kind = menu[m].kind
        /\ Exists(menu'[m].status) => Exists(menu[m].status)

(* The clock and its readings go forward.                                  *)
ClockKept ==
    /\ edits' >= edits
    /\ \A u \in Users, m \in MenuIds : lastGranted'[u][m] >= lastGranted[u][m]

-----------------------------------------------------------------------------
(* The table of menus.                                                     *)

LEMMA LookupFinds ==
    ASSUME NEW f, NEW k
    PROVE  /\ Lookup(f, k) = NoMenu \/ Lookup(f, k) \in Coded(f, k)
           /\ Coded(f, k) = {} <=> Lookup(f, k) = NoMenu
           /\ Lookup(f, k) \in 0..MaxMenus
<1>1. Coded(f, k) \subseteq MenuIds
  BY DEF Coded, LiveMenus
<1>2. \A m \in MenuIds : m \in 0..MaxMenus /\ m # NoMenu
  BY DirectoryAssumption DEF MenuIds, NoMenu
<1>3. NoMenu \in 0..MaxMenus
  BY DirectoryAssumption DEF NoMenu
<1>4. CASE Coded(f, k) = {}
  BY <1>3, <1>4 DEF Lookup
<1>5. CASE Coded(f, k) # {}
  <2>1. Lookup(f, k) \in Coded(f, k)
    BY <1>5 DEF Lookup
  <2> QED BY <1>1, <1>2, <1>5, <2>1
<1> QED BY <1>4, <1>5

(* The next id is free, if there is a free one.                            *)
LEMMA NextIsFree ==
    ASSUME RoomForMenu
    PROVE  NextMenu \in MenuIds /\ menu[NextMenu].status = "none"
<1> DEFINE F == {m \in MenuIds : menu[m].status = "none"}
<1>1. F \subseteq Nat /\ F # {}
  BY DirectoryAssumption DEF RoomForMenu, MenuIds
<1> DEFINE Less == {nm \in Nat \X Nat : nm[1] < nm[2]}
<1>2. IsWellFoundedOn(Less, Nat)
  BY NatLessThanWellFounded, Zenon DEF OpToRel
<1>3. PICK m \in F : \A n \in F : ~ (n < m)
  <2>1. \E m \in F : \A n \in F : <<n, m>> \notin Less
    <3> HIDE DEF F, Less
    <3> QED BY <1>1, <1>2, WFMin
  <2> QED BY <1>1, <2>1
<1>4. \E x \in MenuIds : /\ menu[x].status = "none"
                         /\ \A n \in MenuIds : n < x => menu[n].status # "none"
  BY <1>3
<1> QED BY <1>4 DEF NextMenu

(* Steps that say what was last granted keep the readings true.            *)
LEMMA NotedGrants ==
    ASSUME MenuInv, Noted, edits' \in 0..MaxEdits, edits' >= edits
    PROVE  /\ ClockKept
           /\ GrantsRead'
           /\ lastEnabled' \in [Users -> Int]
           /\ lastRoled' \in [Users -> Int]
           /\ lastGranted' \in [Users -> [MenuIds -> Int]]
<1>1. edits \in Int /\ edits' \in Int
  BY DirectoryAssumption DEF MenuInv, DirectoryTypeOK
<1>2. \A u \in Users, m \in MenuIds :
          /\ lastGranted[u][m] \in Int /\ lastGranted[u][m] <= edits
          /\ lastGranted'[u][m] = IF Reaches(u, m)' THEN edits' ELSE lastGranted[u][m]
  BY DEF Noted, Through, Reaches, MenuInv, DirectoryTypeOK, GrantsRead
<1>3. lastGranted' \in [Users -> [MenuIds -> Int]]
  BY <1>1 DEF Noted, MenuInv, DirectoryTypeOK
<1>4. lastEnabled' \in [Users -> Int] /\ lastRoled' \in [Users -> Int]
  BY <1>1 DEF Noted, MenuInv, DirectoryTypeOK
<1>5. \A u \in Users, m \in MenuIds :
          /\ lastGranted'[u][m] >= lastGranted[u][m]
          /\ lastGranted'[u][m] <= edits'
          /\ Reaches(u, m)' => lastGranted'[u][m] = edits'
  BY <1>1, <1>2
<1>6. GrantsRead'
  BY <1>5 DEF GrantsRead
<1>7. ClockKept
  BY <1>5 DEF ClockKept
<1> QED BY <1>3, <1>4, <1>6, <1>7

LEMMA EditTime ==
    ASSUME MenuInv, MayEdit, edits' = edits + 1
    PROVE  edits' \in 0..MaxEdits /\ edits' >= edits
BY DirectoryAssumption DEF MayEdit, MenuInv, DirectoryTypeOK

(* What an edit of the tables may not break.                               *)
EditsWell ==
    /\ DirectoryTypeOK'
    /\ RowsKept
    /\ ClockKept
    /\ GrantsRead'
    /\ OnlyPagesAbove'
    /\ Seeded'
    /\ \A m \in LiveMenus' :
           Exists(role'[Admin]) =>
               \/ <<Admin, m>> \in granted' \/ m \in trimmed'
               \/ m \in LiveMenus /\ Exists(role[Admin])
                  /\ <<Admin, m>> \notin granted /\ m \notin trimmed

LEMMA UserEditWell ==
    ASSUME MenuInv, UserEdits
    PROVE  EditsWell
<1>1. /\ MayEdit /\ edits' = edits + 1 /\ Noted /\ serving' = serving
      /\ UNCHANGED <<role, menu, granted, trimmed>>
  BY DEF UserEdits, CreateUser, SetUserStatus, UpdateUser, DeleteUser, SetUserRoles,
         Edited
<1>2. user' \in [Users -> Status] /\ named' \subseteq {"user", "role"}
  BY DEF UserEdits, CreateUser, SetUserStatus, UpdateUser, DeleteUser, SetUserRoles,
         MenuInv, DirectoryTypeOK, Status, Chosen
<1>3. member' \subseteq Users \X Roles
  BY DEF UserEdits, CreateUser, SetUserStatus, UpdateUser, DeleteUser, SetUserRoles,
         MenuInv, DirectoryTypeOK
<1>4. edits' \in 0..MaxEdits /\ edits' >= edits
  BY <1>1, EditTime
<1>5. /\ ClockKept /\ GrantsRead'
      /\ lastEnabled' \in [Users -> Int]
      /\ lastRoled' \in [Users -> Int]
      /\ lastGranted' \in [Users -> [MenuIds -> Int]]
  BY <1>1, <1>4, NotedGrants
<1>6. DirectoryTypeOK'
  BY <1>1, <1>2, <1>3, <1>4, <1>5 DEF MenuInv, DirectoryTypeOK
<1>7. RowsKept /\ OnlyPagesAbove' /\ Seeded'
  BY <1>1 DEF RowsKept, OnlyPagesAbove, IsPage, Seeded, MenuInv
<1> QED BY <1>1, <1>5, <1>6, <1>7 DEF EditsWell, LiveMenus

LEMMA RoleEditWell ==
    ASSUME MenuInv, RoleEdits
    PROVE  EditsWell
<1>1. /\ MayEdit /\ edits' = edits + 1 /\ Noted /\ serving' = serving
      /\ UNCHANGED <<user, menu, trimmed>>
  BY DEF RoleEdits, CreateRole, SetRoleStatus, UpdateRole, DeleteRole, Edited
<1>2. /\ role' \in [Roles -> Status]
      /\ named' \subseteq {"user", "role"}
      /\ role[Admin] # "none" /\ role'[Admin] # "none"
  BY DirectoryAssumption
     DEF RoleEdits, CreateRole, SetRoleStatus, UpdateRole, DeleteRole, MenuInv,
         DirectoryTypeOK, Status, Chosen, Seeded
<1>3. member' \subseteq Users \X Roles /\ granted' \subseteq Roles \X MenuIds
  BY DEF RoleEdits, CreateRole, SetRoleStatus, UpdateRole, DeleteRole, MenuInv,
         DirectoryTypeOK
<1>4. edits' \in 0..MaxEdits /\ edits' >= edits
  BY <1>1, EditTime
<1>5. /\ ClockKept /\ GrantsRead'
      /\ lastEnabled' \in [Users -> Int]
      /\ lastRoled' \in [Users -> Int]
      /\ lastGranted' \in [Users -> [MenuIds -> Int]]
  BY <1>1, <1>4, NotedGrants
<1>6. DirectoryTypeOK'
  BY <1>1, <1>2, <1>3, <1>4, <1>5 DEF MenuInv, DirectoryTypeOK
<1>7. RowsKept /\ OnlyPagesAbove' /\ Seeded'
  BY <1>1, <1>2 DEF RowsKept, OnlyPagesAbove, IsPage, Seeded, MenuInv
<1>8. ASSUME NEW m \in LiveMenus, Exists(role'[Admin])
      PROVE  Exists(role[Admin]) /\ (<<Admin, m>> \in granted => <<Admin, m>> \in granted')
  <2>1. ~ DeleteRole(Admin)
    BY <1>8, DirectoryAssumption DEF DeleteRole, Exists, Chosen, MenuInv, DirectoryTypeOK
  <2> QED BY <1>2, <1>8, <2>1, DirectoryAssumption
          DEF RoleEdits, CreateRole, SetRoleStatus, UpdateRole, DeleteRole, MenuInv,
              DirectoryTypeOK, Exists
<1> QED BY <1>1, <1>5, <1>6, <1>7, <1>8 DEF EditsWell, LiveMenus

LEMMA StatusWritten ==
    ASSUME menu \in [MenuIds -> MenuRow],
           NEW m \in LiveMenus, NEW s \in {"enabled", "disabled", "deleted"},
           menu' = [menu EXCEPT ![m].status = s]
    PROVE  /\ menu' \in [MenuIds -> MenuRow]
           /\ RowsKept
           /\ \A n \in MenuIds : menu'[n].parent = menu[n].parent
           /\ LiveMenus' = IF s = "deleted" THEN LiveMenus \ {m} ELSE LiveMenus
<1> DEFINE r == [menu[m] EXCEPT !.status = s]
<1>1. m \in MenuIds /\ menu[m] \in MenuRow
  BY DEF LiveMenus
<1>2. /\ r \in MenuRow /\ r.status = s
      /\ r.fn = menu[m].fn /\ r.kind = menu[m].kind /\ r.parent = menu[m].parent
  BY <1>1 DEF MenuRow, Status
<1>3. menu' = [menu EXCEPT ![m] = r]
  BY Zenon
<1> HIDE DEF r
<1>4. \A n \in MenuIds : menu'[n] = IF n = m THEN r ELSE menu[n]
  BY <1>1, <1>3
<1>5. menu' \in [MenuIds -> MenuRow]
  BY <1>1, <1>2, <1>3
<1>6. Exists(menu[m].status) /\ (Exists(s) <=> s # "deleted")
  BY DEF LiveMenus, Exists, Chosen
<1>7. RowsKept
  BY <1>2, <1>4, <1>6 DEF RowsKept
<1>8. \A n \in MenuIds : n \in LiveMenus' <=> IF n = m THEN s # "deleted" ELSE n \in LiveMenus
  BY <1>2, <1>4, <1>6 DEF LiveMenus
<1>9. LiveMenus' = IF s = "deleted" THEN LiveMenus \ {m} ELSE LiveMenus
  BY <1>1, <1>6, <1>8 DEF LiveMenus
<1> QED BY <1>2, <1>4, <1>5, <1>7, <1>9

LEMMA GrantEditWell ==
    ASSUME MenuInv, GrantEdits
    PROVE  EditsWell
<1>1. /\ MayEdit /\ edits' = edits + 1 /\ Noted /\ serving' = serving
      /\ UNCHANGED <<user, role, member, named>>
  BY DEF GrantEdits, SetRoleMenus, SetMenuStatus, Edited
<1>2. /\ granted' \subseteq Roles \X MenuIds
      /\ trimmed' \subseteq MenuIds
  BY DEF GrantEdits, SetRoleMenus, SetMenuStatus, MenuInv, DirectoryTypeOK, LiveMenus
<1>3. edits' \in 0..MaxEdits /\ edits' >= edits
  BY <1>1, EditTime
<1>4. /\ ClockKept /\ GrantsRead'
      /\ lastEnabled' \in [Users -> Int]
      /\ lastRoled' \in [Users -> Int]
      /\ lastGranted' \in [Users -> [MenuIds -> Int]]
  BY <1>1, <1>3, NotedGrants
<1>5. /\ menu' \in [MenuIds -> MenuRow]
      /\ RowsKept
      /\ \A m \in MenuIds : menu'[m].parent = menu[m].parent
      /\ LiveMenus' = LiveMenus
  <2>1. menu \in [MenuIds -> MenuRow]
    BY DEF MenuInv, DirectoryTypeOK
  <2>2. CASE menu' = menu
    BY <2>1, <2>2 DEF RowsKept, LiveMenus
  <2>3. CASE \E m \in LiveMenus, s \in Chosen : menu' = [menu EXCEPT ![m].status = s]
    BY <2>1, <2>3, StatusWritten DEF Chosen
  <2> QED BY <2>2, <2>3, Zenon DEF GrantEdits, SetRoleMenus, SetMenuStatus
<1>6. DirectoryTypeOK'
  BY <1>1, <1>2, <1>3, <1>4, <1>5 DEF MenuInv, DirectoryTypeOK
<1>7. OnlyPagesAbove' /\ Seeded'
  BY <1>1, <1>5 DEF RowsKept, OnlyPagesAbove, IsPage, Seeded, MenuInv
<1>8. ASSUME NEW m \in LiveMenus,
             <<Admin, m>> \notin granted', m \notin trimmed'
      PROVE  <<Admin, m>> \notin granted /\ m \notin trimmed
  BY <1>8, DirectoryAssumption DEF GrantEdits, SetRoleMenus, SetMenuStatus
<1> QED BY <1>1, <1>4, <1>5, <1>6, <1>7, <1>8 DEF EditsWell

LEMMA SeedWell ==
    ASSUME MenuInv, Seed
    PROVE  EditsWell
<1>1. /\ MayEdit /\ edits' = edits + 1 /\ Noted
      /\ menu' = menu /\ trimmed' = trimmed
      /\ serving' \in BOOLEAN
  BY DEF Seed
<1>2. /\ role' \in [Roles -> Status]
      /\ granted' \subseteq Roles \X MenuIds
      /\ role'[Admin] # "none"
  BY DirectoryAssumption DEF Seed, SeedRoles, MenuInv, DirectoryTypeOK, LiveMenus,
                             Seeded, Status, Chosen
<1>3. user' \in [Users -> Status] /\ member' \subseteq Users \X Roles
  BY DirectoryAssumption DEF Seed, SeedAdminUser, MenuInv, DirectoryTypeOK, Status
<1>4. named' \subseteq {"user", "role"}
  BY DEF Seed, MenuInv, DirectoryTypeOK
<1>5. edits' \in 0..MaxEdits /\ edits' >= edits
  BY <1>1, EditTime
<1>6. /\ ClockKept /\ GrantsRead'
      /\ lastEnabled' \in [Users -> Int]
      /\ lastRoled' \in [Users -> Int]
      /\ lastGranted' \in [Users -> [MenuIds -> Int]]
  BY <1>1, <1>5, NotedGrants
<1>7. DirectoryTypeOK'
  BY <1>1, <1>2, <1>3, <1>4, <1>5, <1>6 DEF MenuInv, DirectoryTypeOK
<1>8. RowsKept /\ OnlyPagesAbove' /\ Seeded'
  BY <1>1, <1>2 DEF RowsKept, OnlyPagesAbove, IsPage, Seeded, MenuInv
<1>9. ASSUME NEW m \in LiveMenus,
             <<Admin, m>> \notin granted'
      PROVE  /\ <<Admin, m>> \notin granted
             /\ Exists(role'[Admin]) => Exists(role[Admin])
  BY <1>9, DirectoryAssumption DEF Seed, SeedRoles, RoleClash
<1> QED BY <1>1, <1>6, <1>7, <1>8, <1>9 DEF EditsWell, LiveMenus

-----------------------------------------------------------------------------
(* What the calls in flight hold stays true of tables that are edited.     *)

LEMMA ShapeFollows ==
    ASSUME RowsKept, NEW r \in Sync, SyncShape(r)
    PROVE  SyncShape(r)'
<1>1. \A m : IsPage(m) => m \in MenuIds /\ menu'[m].status # "none"
                          /\ menu'[m].kind = "page"
  BY DEF RowsKept, IsPage
<1>2. r.made \subseteq MenuIds
  BY DEF Sync
<1>3. \A m \in r.made : menu'[m].status # "none" /\ menu'[m].fn = r.fn
  BY <1>2 DEF SyncShape, RowsKept
<1>4. r.pc = "give" => r.made \cap LiveMenus' \subseteq r.seen
  BY <1>2 DEF SyncShape, RowsKept, LiveMenus
<1> QED BY <1>1, <1>3, <1>4 DEF SyncShape, IsPage

LEMMA TablesKeep ==
    ASSUME MenuInv,
           DirectoryTypeOK', RowsKept, ClockKept, GrantsRead', OnlyPagesAbove',
           Seeded', AdminHoldsAll', WholeCreated', MenuTypeOK',
           \A c \in Checks : check'[c] = check[c] \/ check'[c] = NoCheck,
           \A p \in Syncs : sync'[p] = sync[p] \/ SyncShape(sync[p])'
    PROVE  MenuInv'
<1>1. \A m \in MenuIds : IsPage(m) => IsPage(m)'
  BY DEF RowsKept, IsPage
<1>2. ASSUME NEW p \in Syncs, sync'[p] = sync[p]
      PROVE  SyncShape(sync[p])'
  BY <1>2, ShapeFollows DEF MenuInv, SyncsShaped, MenuTypeOK
<1>3. SyncsShaped'
  BY <1>2 DEF SyncsShaped
<1>4. ASSUME NEW c \in Checks, check'[c] = check[c]
      PROVE  CheckShape(check[c])'
  <2> DEFINE r == check[c]
  <2>1. CheckShape(r) /\ r \in Check
    BY DEF MenuInv, ChecksShaped, MenuTypeOK
  <2>2. /\ edits \in Int /\ edits' \in Int /\ r.began \in Int
        /\ \A u \in Users, m \in MenuIds : /\ lastGranted[u][m] \in Int
                                           /\ lastGranted'[u][m] \in Int
    BY <2>1 DEF MenuInv, DirectoryTypeOK, Check
  <2>3. \A m \in MenuIds : r.parent[m] # NoMenu => IsPage(r.parent[m])'
    BY <1>1, <1>4, <2>1 DEF CheckShape, IsPage
  <2>4. r.began <= edits'
    BY <2>1, <2>2 DEF CheckShape, ClockKept
  <2>5. \A b \in MenuIds : r.pc # "idle" /\ lastGranted[r.user][b] >= r.began
                              => lastGranted'[r.user][b] >= r.began
    BY <2>1, <2>2 DEF CheckShape, ClockKept
  <2>6. CheckShape(r) => /\ r.pc # "idle" => r.user \in Users
                         /\ r.pc = "action" => r.key \in Keys
    BY DEF CheckShape
  <2>7. r.pc \in {"page", "action"} =>
          \A m \in r.allowed : \E b \in MenuIds :
             /\ b = m \/ r.parent[b] = m
             /\ lastGranted'[r.user][b] >= r.began
    BY <2>1, <2>5 DEF CheckShape
  <2>8. r.pc = "open" =>
          \E b \in MenuIds :
             /\ b = r.target \/ (r.key = "page" /\ r.parent[b] = r.target)
             /\ lastGranted'[r.user][b] >= r.began
    BY <2>1, <2>5 DEF CheckShape
  <2> QED BY <1>4, <2>1, <2>3, <2>4, <2>6, <2>7, <2>8 DEF CheckShape
<1>5. ASSUME NEW c \in Checks, check'[c] = NoCheck
      PROVE  CheckShape(check[c])'
  <2>1. edits' \in 0..MaxEdits
    BY DEF DirectoryTypeOK
  <2> QED BY <1>5, <2>1 DEF CheckShape, NoCheck
<1>6. ChecksShaped'
  BY <1>4, <1>5 DEF ChecksShaped
<1> QED BY <1>3, <1>6 DEF MenuInv

-----------------------------------------------------------------------------
(* Steps of a call for the menus of a function.                            *)

LEMMA SyncFacts ==
    ASSUME MenuInv, NEW p \in Syncs
    PROVE  /\ sync[p] \in Sync
           /\ SyncShape(sync[p])
           /\ syncs \in 0..MaxSyncs /\ menuFaults \in 0..MaxMenuFaults
           /\ edits \in 0..MaxEdits
           /\ menu \in [MenuIds -> MenuRow]
           /\ NoSync \in Sync /\ SyncShape(NoSync)
BY DirectoryAssumption
   DEF MenuInv, MenuTypeOK, DirectoryTypeOK, SyncsShaped, NoSync, Sync, SyncShape,
       NoMenu, Chosen

(* A step that leaves the tables alone.                                    *)
LEMMA QuietSync ==
    ASSUME MenuInv, NEW p \in Syncs, NEW r \in Sync, SyncGoes(p, r),
           NoTable, UNCHANGED <<check, whole>>,
           syncs' \in 0..MaxSyncs, menuFaults' \in 0..MaxMenuFaults,
           SyncShape(r)
    PROVE  MenuInv'
<1>1. \A q \in Syncs : sync'[q] = IF q = p THEN r ELSE sync[q]
  BY DEF SyncGoes, MenuInv, MenuTypeOK
<1>2. sync' \in [Syncs -> Sync]
  BY DEF SyncGoes, MenuInv, MenuTypeOK
<1>3. MenuTypeOK'
  BY <1>2 DEF MenuInv, MenuTypeOK
<1>4. SyncsShaped'
  BY <1>1 DEF MenuInv, SyncsShaped, SyncShape, IsPage, LiveMenus, NoTable,
              directoryVars, tables
<1>5. /\ DirectoryTypeOK' /\ GrantsRead' /\ OnlyPagesAbove' /\ Seeded'
      /\ WholeCreated' /\ AdminHoldsAll' /\ ChecksShaped'
  BY DEF MenuInv, DirectoryTypeOK, GrantsRead, Reaches, OnlyPagesAbove, IsPage,
         Seeded, WholeCreated, AdminHoldsAll, LiveMenus, ChecksShaped, CheckShape,
         NoTable, directoryVars, tables, moments
<1> QED BY <1>3, <1>4, <1>5 DEF MenuInv

LEMMA ArrivalKeeps ==
    ASSUME MenuInv, NEW p \in Syncs, NEW f \in Functions,
           \/ \E ks \in SUBSET Keys : PublishMenu(p, f, ks) \/ SyncMenu(p, f, ks)
           \/ UnpublishMenu(p, f) \/ DeleteMenu(p, f)
    PROVE  MenuInv'
<1>1. /\ NoTable /\ UNCHANGED <<check, whole>> /\ menuFaults' = menuFaults
      /\ syncs' \in 0..MaxSyncs
  <2>1. Arrives(p)
    BY Zenon DEF PublishMenu, SyncMenu, UnpublishMenu, DeleteMenu
  <2> QED BY <2>1, SyncFacts, MenuAssumption DEF Arrives
<1>2. ASSUME NEW ks \in SUBSET Keys, PublishMenu(p, f, ks) \/ SyncMenu(p, f, ks)
      PROVE  MenuInv'
  <2>1. CASE PublishMenu(p, f, ks)
    <3> DEFINE r == [NoSync EXCEPT !.pc = "find", !.fn = f, !.keys = ks]
    <3>1. r \in Sync /\ SyncShape(r)
      BY SyncFacts DEF Sync, NoSync, SyncShape
    <3>2. SyncGoes(p, r)
      BY <2>1 DEF PublishMenu
    <3> HIDE DEF r
    <3> QED BY <1>1, <3>1, <3>2, SyncFacts, QuietSync
  <2>2. CASE SyncMenu(p, f, ks)
    <3>1. PICK s \in Chosen :
             SyncGoes(p, [NoSync EXCEPT !.pc = "find", !.fn = f, !.keys = ks,
                                        !.status = s])
      BY <2>2 DEF SyncMenu, Chosen
    <3> DEFINE r == [NoSync EXCEPT !.pc = "find", !.fn = f, !.keys = ks, !.status = s]
    <3>2. r \in Sync /\ SyncShape(r)
      BY SyncFacts DEF Sync, NoSync, SyncShape
    <3>3. SyncGoes(p, r)
      BY <3>1
    <3> HIDE DEF r
    <3> QED BY <1>1, <3>2, <3>3, SyncFacts, QuietSync
  <2> QED BY <1>2, <2>1, <2>2
<1>3. CASE UnpublishMenu(p, f)
  <2> DEFINE r == IF Coded(f, "page") = {} THEN NoSync
                  ELSE [NoSync EXCEPT !.pc = "off", !.fn = f,
                                      !.found = Lookup(f, "page")]
  <2>1. r \in Sync /\ SyncShape(r)
    BY SyncFacts, LookupFinds DEF Sync, NoSync, SyncShape
  <2>2. SyncGoes(p, r)
    BY <1>3 DEF UnpublishMenu
  <2> HIDE DEF r
  <2> QED BY <1>1, <2>1, <2>2, SyncFacts, QuietSync
<1>4. CASE DeleteMenu(p, f)
  <2> DEFINE r == IF Coded(f, "page") = {} THEN NoSync
                  ELSE [NoSync EXCEPT !.pc = "delList", !.fn = f,
                                      !.page = Lookup(f, "page")]
  <2>1. Lookup(f, "page") # NoMenu => IsPage(Lookup(f, "page"))
    BY LookupFinds DEF Coded, LiveMenus, IsPage, Exists, Chosen
  <2>2. r \in Sync /\ SyncShape(r)
    BY <2>1, SyncFacts, LookupFinds DEF Sync, NoSync, SyncShape
  <2>3. SyncGoes(p, r)
    BY <1>4 DEF DeleteMenu
  <2> HIDE DEF r
  <2> QED BY <1>1, <2>2, <2>3, SyncFacts, QuietSync
<1> QED BY <1>2, <1>3, <1>4

(* Lookups and lists.                                                      *)
LEMMA ReadingKeeps ==
    ASSUME MenuInv, NEW p \in Syncs,
           \/ FindPage(p) \/ ListButtons(p) \/ ListGenerated(p)
           \/ \E k \in Keys : FindButton(p, k)
           \/ ListToDisable(p) \/ ListToDelete(p)
    PROVE  MenuInv'
<1>1. NoTable /\ UNCHANGED <<check, whole, syncs, menuFaults>>
  BY DEF FindPage, ListButtons, ListGenerated, FindButton, ListToDisable, ListToDelete
<1> DEFINE s == sync[p]
<1>2. s \in Sync /\ SyncShape(s)
  BY SyncFacts
<1>3. LiveMenus \subseteq MenuIds
  BY DEF LiveMenus
<1>4. CASE FindPage(p)
  <2> DEFINE r == [s EXCEPT !.pc = "page", !.found = Lookup(s.fn, "page")]
  <2>1. Lookup(s.fn, "page") # NoMenu => IsPage(Lookup(s.fn, "page"))
    BY LookupFinds DEF Coded, LiveMenus, IsPage, Exists, Chosen
  <2>2. r \in Sync /\ SyncShape(r)
    BY <1>2, <2>1, LookupFinds DEF Sync, SyncShape
  <2>3. SyncGoes(p, r)
    BY <1>4 DEF FindPage
  <2> HIDE DEF r
  <2> QED BY <1>1, <2>2, <2>3, SyncFacts, QuietSync
<1>5. CASE ListButtons(p)
  <2> DEFINE r == [s EXCEPT !.pc = "button", !.todo = s.keys,
                     !.seen = {m \in ButtonsUnder(s.fn, s.page) :
                                  menu[m].kind \notin s.keys}]
  <2>1. r \in Sync /\ SyncShape(r)
    BY <1>2, <1>3 DEF Sync, SyncShape, ButtonsUnder, Buttons
  <2>2. SyncGoes(p, r)
    BY <1>5 DEF ListButtons
  <2> HIDE DEF r
  <2> QED BY <1>1, <2>1, <2>2, SyncFacts, QuietSync
<1>6. CASE ListGenerated(p)
  <2> DEFINE r == [s EXCEPT !.pc = "give", !.seen = Generated(s.fn)]
  <2>1. r \in Sync /\ SyncShape(r)
    BY <1>2, <1>3 DEF Sync, SyncShape, Generated
  <2>2. SyncGoes(p, r)
    BY <1>6 DEF ListGenerated
  <2> HIDE DEF r
  <2> QED BY <1>1, <2>1, <2>2, SyncFacts, QuietSync
<1>7. ASSUME NEW k \in Keys, FindButton(p, k)  PROVE MenuInv'
  <2> DEFINE r == [s EXCEPT !.pc = "put", !.key = k, !.todo = @ \ {k},
                            !.found = Lookup(s.fn, k)]
  <2>1. r \in Sync /\ SyncShape(r)
    BY <1>2, LookupFinds DEF Sync, SyncShape
  <2>2. SyncGoes(p, r)
    BY <1>7 DEF FindButton
  <2> HIDE DEF r
  <2> QED BY <1>1, <2>1, <2>2, SyncFacts, QuietSync
<1>8. CASE ListToDisable(p)
  <2> DEFINE r == [s EXCEPT !.pc = "offButtons", !.seen = Buttons(s.fn)]
  <2>1. r \in Sync /\ SyncShape(r)
    BY <1>2, <1>3 DEF Sync, SyncShape, Buttons
  <2>2. SyncGoes(p, r)
    BY <1>8 DEF ListToDisable
  <2> HIDE DEF r
  <2> QED BY <1>1, <2>1, <2>2, SyncFacts, QuietSync
<1>9. CASE ListToDelete(p)
  <2> DEFINE r == [s EXCEPT !.pc = "delButtons", !.seen = ButtonsUnder(s.fn, s.page)]
  <2>1. r \in Sync /\ SyncShape(r)
    BY <1>2, <1>3 DEF Sync, SyncShape, ButtonsUnder, Buttons
  <2>2. SyncGoes(p, r)
    BY <1>9 DEF ListToDelete
  <2> HIDE DEF r
  <2> QED BY <1>1, <2>1, <2>2, SyncFacts, QuietSync
<1> QED BY <1>4, <1>5, <1>6, <1>7, <1>8, <1>9

(* A call that ends, whatever the reason, leaves what it did.              *)
LEMMA EndingSync ==
    ASSUME MenuInv, NEW p \in Syncs,
           Duplicate(p) \/ NoAdminRole(p) \/ Disabled(p) \/ SyncDies(p)
    PROVE  MenuInv'
<1>1. /\ SyncGoes(p, NoSync) /\ NoTable /\ UNCHANGED <<check, whole>>
      /\ syncs' = syncs
      /\ menuFaults' = menuFaults \/ (menuFaults < MaxMenuFaults
                                      /\ menuFaults' = menuFaults + 1)
  BY DEF Duplicate, NoAdminRole, Disabled, SyncDies
<1>2. menuFaults' \in 0..MaxMenuFaults
  BY <1>1, SyncFacts, MenuAssumption
<1> QED BY <1>1, <1>2, SyncFacts, QuietSync

(* A new row: of its function, under no menu or under a page.              *)
LEMMA InsertKeeps ==
    ASSUME MenuInv, NEW p \in Syncs, NEW k \in Keys \cup {"page"},
           NEW parent \in 0..MaxMenus, NEW r \in Sync,
           Insert(p, k, parent, r),
           parent # NoMenu => IsPage(parent),
           r.fn = sync[p].fn, r.made = sync[p].made \cup {NextMenu},
           r.pc \in {"list", "button"},
           r.page = sync[p].page \/ (k = "page" /\ r.page = NextMenu)
    PROVE  MenuInv'
<1> DEFINE row == [fn |-> sync[p].fn, kind |-> k, parent |-> parent,
                   status |-> sync[p].status]
<1> DEFINE n == NextMenu
<1>1. /\ menu' = [menu EXCEPT ![n] = row]
      /\ SyncGoes(p, r)
      /\ UNCHANGED <<granted, moments, check, whole, syncs, menuFaults>>
      /\ OnlyMenu
      /\ RoomForMenu
  BY DEF Insert
<1>2. n \in MenuIds /\ menu[n].status = "none"
  BY <1>1, NextIsFree
<1>3. /\ row \in MenuRow /\ row.fn = sync[p].fn /\ row.kind = k
      /\ row.parent = parent /\ Exists(row.status) /\ row.status # "none"
  BY SyncFacts DEF Sync, MenuRow, Status, Chosen, Exists
<1> HIDE DEF row, n
<1>4. \A m \in MenuIds : menu'[m] = IF m = n THEN row ELSE menu[m]
  BY <1>1, SyncFacts
<1>5. menu' \in [MenuIds -> MenuRow]
  BY <1>1, <1>3, SyncFacts
<1>6. UNCHANGED <<user, role, member, granted, named, serving, edits, trimmed,
                  lastEnabled, lastRoled, lastGranted>>
  BY <1>1 DEF OnlyMenu, moments
<1>7. DirectoryTypeOK'
  BY <1>5, <1>6 DEF MenuInv, DirectoryTypeOK
<1>8. RowsKept
  BY <1>2, <1>4 DEF RowsKept
<1>9. ClockKept /\ GrantsRead'
  <2>1. edits \in Int /\ \A u \in Users, m \in MenuIds : lastGranted[u][m] \in Int
    BY DEF MenuInv, DirectoryTypeOK
  <2>2. ClockKept
    BY <1>6, <2>1 DEF ClockKept
  <2>3. GrantsRead'
    BY <1>6 DEF GrantsRead, Reaches, MenuInv
  <2> QED BY <2>2, <2>3
<1>11. OnlyPagesAbove'
  <2>1. ASSUME NEW m \in MenuIds, menu'[m].parent # NoMenu
        PROVE  IsPage(menu[m].parent)'
    <3>1. CASE m = n
      <4>1. menu'[m].parent = parent /\ IsPage(parent)
        BY <1>3, <1>4, <2>1, <3>1
      <4> QED BY <1>8, <4>1 DEF RowsKept, IsPage
    <3>2. CASE m # n
      <4>1. menu'[m] = menu[m] /\ IsPage(menu[m].parent)
        BY <1>4, <2>1, <3>2 DEF MenuInv, OnlyPagesAbove
      <4> QED BY <1>8, <4>1 DEF RowsKept, IsPage
    <3> QED BY <3>1, <3>2
  <2> QED BY <2>1 DEF OnlyPagesAbove
<1>12. Seeded' /\ WholeCreated'
  BY <1>1, <1>6, <1>8 DEF MenuInv, Seeded, WholeCreated, RowsKept, MenuTypeOK
<1>13. \A m \in whole : m \in LiveMenus' => m \in LiveMenus
  BY <1>2, <1>4 DEF MenuInv, WholeCreated, MenuTypeOK, LiveMenus
<1>14. AdminHoldsAll'
  BY <1>1, <1>6, <1>13 DEF MenuInv, AdminHoldsAll
<1>15. /\ sync' \in [Syncs -> Sync]
       /\ \A q \in Syncs : sync'[q] = IF q = p THEN r ELSE sync[q]
  BY <1>1 DEF SyncGoes, MenuInv, MenuTypeOK
<1>16. MenuTypeOK'
  BY <1>1, <1>15 DEF MenuInv, MenuTypeOK
<1>17. SyncShape(sync[p])'
  <2>1. sync'[p] = r /\ SyncShape(sync[p]) /\ sync[p].made \subseteq MenuIds
    BY <1>15, SyncFacts DEF Sync
  <2>2. \A m \in r.made : menu'[m].status # "none" /\ menu'[m].fn = r.fn
    BY <1>2, <1>3, <1>4, <1>8, <2>1 DEF SyncShape, RowsKept, n
  <2>3. r.page # NoMenu => /\ r.page \in MenuIds
                           /\ menu'[r.page].status # "none"
                           /\ menu'[r.page].kind = "page"
    BY <1>2, <1>3, <1>4, <1>8, <2>1 DEF SyncShape, RowsKept, IsPage, n
  <2> QED BY <2>1, <2>2, <2>3 DEF SyncShape, IsPage
<1> QED BY <1>1, <1>7, <1>8, <1>9, <1>11, <1>12, <1>14, <1>15, <1>16, <1>17, TablesKeep

LEMMA CreationKeeps ==
    ASSUME MenuInv, NEW p \in Syncs, CreatePage(p) \/ CreateButton(p)
    PROVE  MenuInv'
<1> DEFINE s == sync[p]
<1>1. s \in Sync /\ SyncShape(s)
  BY SyncFacts
<1>2. NextMenu \in MenuIds /\ NextMenu \in 0..MaxMenus
  BY NextIsFree, DirectoryAssumption DEF CreatePage, CreateButton, Insert, MenuIds
<1>3. CASE CreatePage(p)
  <2> DEFINE r == [s EXCEPT !.pc = "list", !.page = NextMenu, !.made = @ \cup {NextMenu}]
  <2>1. /\ r \in Sync /\ r.fn = s.fn /\ r.made = s.made \cup {NextMenu}
        /\ r.pc = "list" /\ r.page = NextMenu
    BY <1>1, <1>2 DEF Sync
  <2>2. Insert(p, "page", NoMenu, r)
    BY <1>3 DEF CreatePage
  <2>3. NoMenu \in 0..MaxMenus
    BY DirectoryAssumption DEF NoMenu
  <2> HIDE DEF r
  <2> QED BY <2>1, <2>2, <2>3, InsertKeeps
<1>4. CASE CreateButton(p)
  <2> DEFINE r == [s EXCEPT !.pc = "button", !.made = @ \cup {NextMenu}]
  <2>1. /\ r \in Sync /\ r.fn = s.fn /\ r.made = s.made \cup {NextMenu}
        /\ r.pc = "button" /\ r.page = s.page
    BY <1>1, <1>2 DEF Sync
  <2>2. Insert(p, s.key, s.page, r)
    BY <1>4 DEF CreateButton
  <2>3. s.key \in Keys \cup {"page"} /\ s.page \in 0..MaxMenus
    BY <1>1 DEF Sync
  <2>4. s.page # NoMenu => IsPage(s.page)
    BY <1>1 DEF SyncShape
  <2> HIDE DEF r
  <2> QED BY <2>1, <2>2, <2>3, <2>4, InsertKeeps
<1> QED BY <1>3, <1>4

(* A row is updated by its id, if it still exists.                         *)
LEMMA UpdateKeeps ==
    ASSUME MenuInv, NEW p \in Syncs, NEW m \in 0..MaxMenus, NEW row, NEW r \in Sync,
           Updated(m, row), SyncGoes(p, r), UNCHANGED <<check, whole, syncs, menuFaults>>,
           m \in LiveMenus => /\ row \in MenuRow
                              /\ row.fn = menu[m].fn /\ row.kind = menu[m].kind
                              /\ Exists(row.status)
                              /\ row.parent # NoMenu => IsPage(row.parent),
           SyncShape(r)
    PROVE  MenuInv'
<1>1. /\ UNCHANGED <<user, role, member, granted, named, serving, edits, trimmed,
                     lastEnabled, lastRoled, lastGranted>>
      /\ menu' = IF m \in LiveMenus THEN [menu EXCEPT ![m] = row] ELSE menu
  BY DEF Updated, OnlyMenu, moments
<1>2. /\ menu' \in [MenuIds -> MenuRow]
      /\ \A n \in MenuIds : menu'[n] = IF n = m /\ m \in LiveMenus THEN row ELSE menu[n]
  BY <1>1, SyncFacts
<1>3. RowsKept /\ \A n \in MenuIds : n \in LiveMenus' => n \in LiveMenus
  BY <1>2 DEF RowsKept, LiveMenus, Exists, Chosen
<1>4. DirectoryTypeOK'
  BY <1>1, <1>2 DEF MenuInv, DirectoryTypeOK
<1>5. ClockKept
  BY <1>1 DEF ClockKept, MenuInv, DirectoryTypeOK
<1>6. GrantsRead'
  BY <1>1 DEF GrantsRead, Reaches, MenuInv
<1>7. OnlyPagesAbove'
  <2>1. ASSUME NEW n \in MenuIds, menu'[n].parent # NoMenu
        PROVE  IsPage(menu[n].parent)'
    <3>1. IsPage(menu'[n].parent)
      BY <1>2, <2>1 DEF MenuInv, OnlyPagesAbove
    <3> QED BY <1>3, <3>1 DEF RowsKept, IsPage
  <2> QED BY <2>1 DEF OnlyPagesAbove
<1>8. Seeded' /\ WholeCreated' /\ AdminHoldsAll'
  BY <1>1, <1>3 DEF MenuInv, Seeded, WholeCreated, RowsKept, MenuTypeOK, AdminHoldsAll
<1>9. /\ sync' \in [Syncs -> Sync]
      /\ \A q \in Syncs : sync'[q] = IF q = p THEN r ELSE sync[q]
  BY DEF SyncGoes, MenuInv, MenuTypeOK
<1>10. MenuTypeOK'
  BY <1>9 DEF MenuInv, MenuTypeOK
<1>11. SyncShape(sync[p])'
  BY <1>3, <1>9, ShapeFollows
<1> QED BY <1>3, <1>4, <1>5, <1>6, <1>7, <1>8, <1>9, <1>10, <1>11, TablesKeep

LEMMA UpdatingKeeps ==
    ASSUME MenuInv, NEW p \in Syncs,
           \/ UpdatePage(p) \/ UpdateButton(p) \/ DisablePage(p)
           \/ \E m \in MenuIds : DisableButton(p, m)
    PROVE  MenuInv'
<1> DEFINE s == sync[p]
<1>1. s \in Sync /\ SyncShape(s) /\ s.found \in 0..MaxMenus /\ s.page \in 0..MaxMenus
  BY SyncFacts DEF Sync
<1>2. UNCHANGED <<check, whole, syncs, menuFaults>>
  BY DEF UpdatePage, UpdateButton, DisablePage, DisableButton
<1>3. \A m \in LiveMenus : /\ menu[m] \in MenuRow
                           /\ menu[m].parent # NoMenu => IsPage(menu[m].parent)
  BY DEF MenuInv, DirectoryTypeOK, LiveMenus, OnlyPagesAbove
<1>4. CASE UpdatePage(p)
  <2> DEFINE m == s.found
  <2> DEFINE row == [menu[m] EXCEPT !.status = s.status]
  <2> DEFINE r == [s EXCEPT !.pc = "list", !.page = m]
  <2>1. r \in Sync /\ SyncShape(r)
    BY <1>1, <1>4 DEF Sync, SyncShape, UpdatePage, SyncAt
  <2>2. m \in LiveMenus => /\ row \in MenuRow
                           /\ row.fn = menu[m].fn /\ row.kind = menu[m].kind
                           /\ Exists(row.status)
                           /\ row.parent # NoMenu => IsPage(row.parent)
    BY <1>1, <1>3 DEF MenuRow, Sync, Exists, Chosen, Status
  <2>3. Updated(m, row) /\ SyncGoes(p, r)
    BY <1>4 DEF UpdatePage
  <2>4. m \in 0..MaxMenus
    BY <1>1
  <2> HIDE DEF row, r, m
  <2> QED BY <1>2, <2>1, <2>2, <2>3, <2>4, UpdateKeeps
<1>5. CASE UpdateButton(p)
  <2> DEFINE m == s.found
  <2> DEFINE row == [menu[m] EXCEPT !.status = s.status, !.parent = s.page]
  <2> DEFINE r == [s EXCEPT !.pc = "button"]
  <2>1. r \in Sync /\ SyncShape(r)
    BY <1>1 DEF Sync, SyncShape
  <2>2. m \in LiveMenus => /\ row \in MenuRow
                           /\ row.fn = menu[m].fn /\ row.kind = menu[m].kind
                           /\ Exists(row.status)
                           /\ row.parent # NoMenu => IsPage(row.parent)
    BY <1>1, <1>3 DEF MenuRow, Sync, Exists, Chosen, Status, SyncShape
  <2>3. Updated(m, row) /\ SyncGoes(p, r)
    BY <1>5 DEF UpdateButton
  <2>4. m \in 0..MaxMenus
    BY <1>1
  <2> HIDE DEF row, r, m
  <2> QED BY <1>2, <2>1, <2>2, <2>3, <2>4, UpdateKeeps
<1>6. CASE DisablePage(p)
  <2> DEFINE m == s.found
  <2> DEFINE row == [menu[m] EXCEPT !.status = "disabled"]
  <2> DEFINE r == IF m \in LiveMenus THEN [s EXCEPT !.pc = "offList"] ELSE NoSync
  <2>1. r \in Sync /\ SyncShape(r)
    BY <1>1, SyncFacts DEF Sync, SyncShape
  <2>2. m \in LiveMenus => /\ row \in MenuRow
                           /\ row.fn = menu[m].fn /\ row.kind = menu[m].kind
                           /\ Exists(row.status)
                           /\ row.parent # NoMenu => IsPage(row.parent)
    BY <1>3 DEF MenuRow, Exists, Chosen, Status
  <2>3. Updated(m, row) /\ SyncGoes(p, r)
    BY <1>6 DEF DisablePage
  <2>4. m \in 0..MaxMenus
    BY <1>1
  <2> HIDE DEF row, r, m
  <2> QED BY <1>2, <2>1, <2>2, <2>3, <2>4, UpdateKeeps
<1>7. ASSUME NEW m \in MenuIds, DisableButton(p, m)  PROVE MenuInv'
  <2> DEFINE row == [menu[m] EXCEPT !.status = "disabled"]
  <2> DEFINE r == [s EXCEPT !.seen = @ \ {m}]
  <2>1. r \in Sync /\ SyncShape(r)
    BY <1>1, <1>7 DEF Sync, SyncShape, DisableButton, SyncAt
  <2>2. m \in LiveMenus => /\ row \in MenuRow
                           /\ row.fn = menu[m].fn /\ row.kind = menu[m].kind
                           /\ Exists(row.status)
                           /\ row.parent # NoMenu => IsPage(row.parent)
    BY <1>3 DEF MenuRow, Exists, Chosen, Status
  <2>3. Updated(m, row) /\ SyncGoes(p, r)
    BY <1>7 DEF DisableButton
  <2>4. m \in 0..MaxMenus
    BY DirectoryAssumption DEF MenuIds
  <2> HIDE DEF row, r
  <2> QED BY <1>2, <2>1, <2>2, <2>3, <2>4, UpdateKeeps
<1> QED BY <1>4, <1>5, <1>6, <1>7

(* A row and its grants are deleted.                                       *)
LEMMA DeletionKeeps ==
    ASSUME MenuInv, NEW p \in Syncs,
           DeletePage(p) \/ \E m \in MenuIds : DropButton(p, m)
    PROVE  MenuInv'
<1>1. PICK m \in 0..MaxMenus, r \in Sync :
         /\ Deleted(m) /\ SyncGoes(p, r)
         /\ SyncShape(r)
  <2>1. CASE DeletePage(p)
    BY <2>1, SyncFacts DEF DeletePage, Sync
  <2>2. ASSUME NEW m \in MenuIds, DropButton(p, m)
        PROVE  \E r \in Sync : SyncGoes(p, r) /\ SyncShape(r)
    <3> DEFINE r == [sync[p] EXCEPT !.seen = @ \ {m}]
    <3>1. r \in Sync /\ SyncShape(r)
      BY <2>2, SyncFacts DEF Sync, SyncShape, DropButton, SyncAt
    <3>2. SyncGoes(p, r)
      BY <2>2 DEF DropButton
    <3> HIDE DEF r
    <3> QED BY <3>1, <3>2
  <2>3. \A m \in MenuIds : m \in 0..MaxMenus /\ (DropButton(p, m) => Deleted(m))
    BY DirectoryAssumption DEF MenuIds, DropButton
  <2> QED BY <2>1, <2>2, <2>3
<1>2. UNCHANGED <<check, whole, syncs, menuFaults>>
  BY DEF DeletePage, DropButton
<1>3. /\ UNCHANGED <<user, role, member, named, serving, edits, trimmed>>
      /\ Noted
  BY <1>1 DEF Deleted, OnlyMenu
<1>4. /\ menu' \in [MenuIds -> MenuRow]
      /\ RowsKept
      /\ \A n \in MenuIds : menu'[n].parent = menu[n].parent
      /\ LiveMenus' = LiveMenus \ {m}
      /\ granted' = IF m \in LiveMenus THEN {rm \in granted : rm[2] # m} ELSE granted
  <2>1. menu \in [MenuIds -> MenuRow]
    BY SyncFacts
  <2>2. CASE m \in LiveMenus
    <3>1. /\ menu' = [menu EXCEPT ![m].status = "deleted"]
          /\ granted' = {rm \in granted : rm[2] # m}
      BY <1>1, <2>2, Zenon DEF Deleted
    <3> QED BY <2>1, <2>2, <3>1, StatusWritten
  <2>3. CASE m \notin LiveMenus
    <3>1. menu' = menu /\ granted' = granted
      BY <1>1, <2>3, Zenon DEF Deleted
    <3> QED BY <2>1, <2>3, <3>1 DEF RowsKept, LiveMenus
  <2> QED BY <2>2, <2>3
<1>5. edits' \in 0..MaxEdits /\ edits' >= edits
  BY <1>3, SyncFacts
<1>6. /\ ClockKept /\ GrantsRead'
      /\ lastEnabled' \in [Users -> Int]
      /\ lastRoled' \in [Users -> Int]
      /\ lastGranted' \in [Users -> [MenuIds -> Int]]
  BY <1>3, <1>5, NotedGrants
<1>7. DirectoryTypeOK'
  BY <1>3, <1>4, <1>5, <1>6 DEF MenuInv, DirectoryTypeOK
<1>8. OnlyPagesAbove' /\ Seeded' /\ WholeCreated'
  BY <1>2, <1>3, <1>4 DEF MenuInv, OnlyPagesAbove, IsPage, RowsKept, Seeded,
                          WholeCreated, MenuTypeOK
<1>9. AdminHoldsAll'
  BY <1>2, <1>3, <1>4 DEF MenuInv, AdminHoldsAll
<1>10. /\ sync' \in [Syncs -> Sync]
       /\ \A q \in Syncs : sync'[q] = IF q = p THEN r ELSE sync[q]
  BY <1>1 DEF SyncGoes, MenuInv, MenuTypeOK
<1>11. MenuTypeOK'
  BY <1>2, <1>10 DEF MenuInv, MenuTypeOK
<1>12. SyncShape(sync[p])'
  BY <1>1, <1>4, <1>10, ShapeFollows
<1> QED BY <1>2, <1>4, <1>6, <1>7, <1>8, <1>9, <1>10, <1>11, <1>12, TablesKeep

(* grantAdminGeneratedFunctionAccess: what was listed is granted, and what *)
(* the call has created is among it or gone.                               *)
LEMMA GrantKeeps ==
    ASSUME MenuInv, NEW p \in Syncs, GrantRoleMenus(p)
    PROVE  MenuInv'
<1>1. /\ sync[p].pc = "give"
      /\ granted' = granted \cup ({Admin} \X sync[p].seen)
      /\ whole' = whole \cup sync[p].made
      /\ SyncGoes(p, NoSync)
      /\ UNCHANGED <<menu, check, syncs, menuFaults>>
      /\ UNCHANGED <<user, role, member, named, serving, edits, trimmed>>
      /\ Noted
  BY DEF GrantRoleMenus, SyncAt, OnlyMenu
<1>2. /\ sync[p].seen \subseteq MenuIds /\ sync[p].made \subseteq MenuIds
      /\ sync[p].made \cap LiveMenus \subseteq sync[p].seen
      /\ \A m \in sync[p].made : menu[m].status # "none"
  BY <1>1, SyncFacts DEF Sync, SyncShape
<1>3. edits' \in 0..MaxEdits /\ edits' >= edits
  BY <1>1, SyncFacts
<1>4. /\ ClockKept /\ GrantsRead'
      /\ lastEnabled' \in [Users -> Int]
      /\ lastRoled' \in [Users -> Int]
      /\ lastGranted' \in [Users -> [MenuIds -> Int]]
  BY <1>1, <1>3, NotedGrants
<1>5. granted' \subseteq Roles \X MenuIds
  BY <1>1, <1>2, DirectoryAssumption DEF MenuInv, DirectoryTypeOK
<1>6. DirectoryTypeOK'
  BY <1>1, <1>3, <1>4, <1>5 DEF MenuInv, DirectoryTypeOK
<1>7. RowsKept /\ OnlyPagesAbove' /\ Seeded' /\ LiveMenus' = LiveMenus
  BY <1>1 DEF MenuInv, RowsKept, OnlyPagesAbove, IsPage, Seeded, LiveMenus
<1>8. WholeCreated'
  BY <1>1, <1>2 DEF MenuInv, WholeCreated
<1>9. AdminHoldsAll'
  BY <1>1, <1>2, <1>7 DEF MenuInv, AdminHoldsAll
<1>10. /\ sync' \in [Syncs -> Sync]
       /\ \A q \in Syncs : sync'[q] = IF q = p THEN NoSync ELSE sync[q]
  BY <1>1, SyncFacts DEF SyncGoes, MenuInv, MenuTypeOK
<1>11. MenuTypeOK'
  BY <1>1, <1>2, <1>10 DEF MenuInv, MenuTypeOK
<1>12. SyncShape(sync[p])'
  BY <1>7, <1>10, SyncFacts, ShapeFollows
<1> QED BY <1>1, <1>4, <1>6, <1>7, <1>8, <1>9, <1>10, <1>11, <1>12, TablesKeep

-----------------------------------------------------------------------------
(* Steps of a check.                                                       *)

LEMMA QuietCheck ==
    ASSUME MenuInv, NEW c \in Checks, NEW r \in Check, CheckGoes(c, r),
           NoTable, UNCHANGED <<sync, whole, syncs, menuFaults>>,
           CheckShape(r)
    PROVE  MenuInv'
<1>1. /\ check' \in [Checks -> Check]
      /\ \A d \in Checks : check'[d] = IF d = c THEN r ELSE check[d]
  BY DEF CheckGoes, MenuInv, MenuTypeOK
<1>2. MenuTypeOK'
  BY <1>1 DEF MenuInv, MenuTypeOK
<1>3. ChecksShaped'
  BY <1>1 DEF MenuInv, ChecksShaped, CheckShape, IsPage, NoTable, directoryVars,
              tables, moments
<1>4. /\ DirectoryTypeOK' /\ GrantsRead' /\ OnlyPagesAbove' /\ Seeded'
      /\ WholeCreated' /\ AdminHoldsAll' /\ SyncsShaped'
  BY DEF MenuInv, DirectoryTypeOK, GrantsRead, Reaches, OnlyPagesAbove, IsPage,
         Seeded, WholeCreated, AdminHoldsAll, LiveMenus, SyncsShaped, SyncShape,
         NoTable, directoryVars, tables, moments
<1> QED BY <1>2, <1>3, <1>4 DEF MenuInv

LEMMA CheckFacts ==
    ASSUME MenuInv, NEW c \in Checks
    PROVE  /\ check[c] \in Check
           /\ CheckShape(check[c])
           /\ NoCheck \in Check
           /\ CheckShape(NoCheck)
           /\ edits \in 0..MaxEdits
<1>1. edits \in 0..MaxEdits
  BY DEF MenuInv, DirectoryTypeOK
<1>2. NoCheck \in Check
  BY DirectoryAssumption DEF NoCheck, Check, NoMenu
<1>3. CheckShape(NoCheck)
  BY <1>1 DEF NoCheck, CheckShape
<1> QED BY <1>1, <1>2, <1>3 DEF MenuInv, MenuTypeOK, ChecksShaped

LEMMA ListMenusKeeps ==
    ASSUME MenuInv, NEW c \in Checks, NEW u \in Users, NEW f \in Functions,
           NEW k \in Keys \cup {"page"}, ListMenus(c, u, f, k)
    PROVE  MenuInv'
<1> DEFINE above == [m \in MenuIds |-> IF m \in LiveMenus THEN menu[m].parent ELSE NoMenu]
<1> DEFINE r == [NoCheck EXCEPT
                   !.pc = "grants", !.user = u, !.fn = f, !.key = k,
                   !.listed = LiveMenus, !.parent = above, !.began = edits]
<1>1. above \in [MenuIds -> 0..MaxMenus]
  BY DirectoryAssumption DEF MenuInv, DirectoryTypeOK, MenuRow, NoMenu
<1>2. \A m \in MenuIds : above[m] # NoMenu => IsPage(above[m])
  BY DEF MenuInv, OnlyPagesAbove
<1> HIDE DEF above
<1>3. r \in Check
  BY <1>1, CheckFacts DEF Check, NoCheck, LiveMenus
<1>4. /\ r.pc = "grants" /\ r.user = u /\ r.began = edits /\ r.parent = above
  BY DEF NoCheck
<1>5. CheckGoes(c, r) /\ NoTable /\ UNCHANGED <<sync, whole, syncs, menuFaults>>
  BY DEF ListMenus, above
<1> HIDE DEF r
<1>6. CheckShape(r)
  BY <1>2, <1>4, CheckFacts DEF CheckShape
<1> QED BY <1>3, <1>5, <1>6, QuietCheck

(* The grants a check finds hold at that moment, and so since it began.    *)
LEMMA ListGrantsKeeps ==
    ASSUME MenuInv, NEW c \in Checks, ListGrants(c)
    PROVE  MenuInv'
<1> DEFINE q == check[c]
<1> DEFINE seed == {m \in MenuIds : Reaches(q.user, m)}
<1> DEFINE r == IF seed = {} THEN NoCheck
                ELSE [q EXCEPT !.pc = "page", !.allowed = Expanded(c, seed)]
<1>1. q.pc = "grants" /\ q.user \in Users /\ q \in Check /\ CheckShape(q)
  BY CheckFacts DEF ListGrants, CheckAt, CheckShape
<1>2. \A b \in seed : lastGranted[q.user][b] >= q.began
  BY <1>1, CheckFacts DEF MenuInv, GrantsRead, CheckShape, Check
<1>3. Expanded(c, seed) \subseteq MenuIds
  BY <1>1 DEF Expanded, Check
<1>4. \A m \in Expanded(c, seed) : \E b \in MenuIds :
         /\ b = m \/ q.parent[b] = m
         /\ lastGranted[q.user][b] >= q.began
  BY <1>1, <1>2 DEF Expanded
<1>5. r \in Check /\ CheckShape(r)
  <2> HIDE DEF seed
  <2> QED BY <1>1, <1>3, <1>4, CheckFacts DEF Check, CheckShape
<1>6. CheckGoes(c, r) /\ NoTable /\ UNCHANGED <<sync, whole, syncs, menuFaults>>
  BY DEF ListGrants
<1> HIDE DEF r
<1> QED BY <1>5, <1>6, QuietCheck

(* The page or the button is opened if it is among those menus; a button   *)
(* lies above no other menu, so it was granted itself.                     *)
LEMMA DecisionWitnessed ==
    ASSUME MenuInv, NEW c \in Checks, NEW k \in Keys \cup {"page"},
           check[c].pc \in {"page", "action"},
           k = "page" => check[c].key = "page",
           Lookup(check[c].fn, k) # NoMenu
    PROVE  /\ Decide(c, Lookup(check[c].fn, k)) \in Check
           /\ CheckShape(Decide(c, Lookup(check[c].fn, k)))
<1> DEFINE q == check[c]
<1> DEFINE m == Lookup(q.fn, k)
<1>1. q \in Check /\ CheckShape(q)
  BY CheckFacts
<1>2. m \in Coded(q.fn, k) /\ m \in 0..MaxMenus
  BY LookupFinds
<1>3. menu[m].kind = k /\ m \in MenuIds
  BY <1>2 DEF Coded, LiveMenus
<1> HIDE DEF m
<1>4. CASE m \in q.allowed
  <2> DEFINE r == [q EXCEPT !.pc = "open", !.target = m]
  <2>1. PICK b \in MenuIds : /\ b = m \/ q.parent[b] = m
                             /\ lastGranted[q.user][b] >= q.began
    BY <1>1, <1>4 DEF CheckShape
  <2>2. q.parent[b] = m => k = "page"
    BY <1>1, <1>3, <2>1, DirectoryAssumption DEF CheckShape, IsPage, MenuIds, NoMenu
  <2>3. b = m \/ (q.key = "page" /\ q.parent[b] = m)
    BY <2>1, <2>2
  <2>4. /\ r \in Check /\ r.target = m /\ r.pc = "open"
        /\ r.user = q.user /\ r.key = q.key /\ r.parent = q.parent /\ r.began = q.began
    BY <1>1, <1>2 DEF Check
  <2>5. CheckShape(r)
    <3> HIDE DEF r
    <3> QED BY <1>1, <2>1, <2>3, <2>4 DEF CheckShape
  <2>6. Decide(c, m) = r
    BY <1>4 DEF Decide
  <2> HIDE DEF r
  <2> QED BY <2>4, <2>5, <2>6 DEF m
<1>5. CASE m \notin q.allowed
  BY <1>5, CheckFacts DEF Decide, m
<1> QED BY <1>4, <1>5

LEMMA LookupsKeep ==
    ASSUME MenuInv, NEW c \in Checks, LookupPage(c) \/ LookupAction(c) \/ Answered(c)
    PROVE  MenuInv'
<1> DEFINE q == check[c]
<1>1. q \in Check /\ CheckShape(q) /\ q.key \in Keys \cup {"page"}
  BY CheckFacts DEF Check
<1>2. NoTable /\ UNCHANGED <<sync, whole, syncs, menuFaults>>
  BY DEF LookupPage, LookupAction, Answered
<1>3. CASE Answered(c)
  BY <1>2, <1>3, CheckFacts, QuietCheck DEF Answered
<1>4. CASE LookupPage(c)
  <2> DEFINE m == Lookup(q.fn, "page")
  <2>1. q.pc = "page"
    BY <1>4 DEF LookupPage, CheckAt
  <2>2. CASE CheckGoes(c, NoCheck)
    BY <1>2, <2>2, CheckFacts, QuietCheck
  <2>3. CASE m # NoMenu /\ q.key = "page" /\ CheckGoes(c, Decide(c, m))
    BY <1>2, <2>1, <2>3, DecisionWitnessed, QuietCheck
  <2>4. CASE q.key # "page" /\ CheckGoes(c, [q EXCEPT !.pc = "action"])
    <3> DEFINE r == [q EXCEPT !.pc = "action"]
    <3>1. r \in Check /\ CheckShape(r)
      BY <1>1, <2>1, <2>4 DEF Check, CheckShape
    <3> HIDE DEF r
    <3> QED BY <1>2, <2>4, <3>1, QuietCheck DEF r
  <2> QED BY <1>4, <2>2, <2>3, <2>4, Zenon DEF LookupPage
<1>5. CASE LookupAction(c)
  <2> DEFINE m == Lookup(q.fn, q.key)
  <2>1. q.pc = "action"
    BY <1>5 DEF LookupAction, CheckAt
  <2>2. CASE CheckGoes(c, NoCheck)
    BY <1>2, <2>2, CheckFacts, QuietCheck
  <2>3. CASE m # NoMenu /\ CheckGoes(c, Decide(c, m))
    BY <1>1, <1>2, <2>1, <2>3, DecisionWitnessed, QuietCheck
  <2> QED BY <1>5, <2>2, <2>3, Zenon DEF LookupAction
<1> QED BY <1>3, <1>4, <1>5

-----------------------------------------------------------------------------
(* Edits and restarts.                                                     *)

LEMMA EditsKeepAdmin ==
    ASSUME MenuInv, EditsWell, UNCHANGED whole
    PROVE  AdminHoldsAll' /\ WholeCreated'
<1>1. ASSUME NEW m \in whole, m \in LiveMenus', Exists(role'[Admin])
      PROVE  <<Admin, m>> \in granted' \/ m \in trimmed'
  BY <1>1 DEF MenuInv, AdminHoldsAll, EditsWell
<1>2. AdminHoldsAll'
  BY <1>1 DEF AdminHoldsAll
<1> QED BY <1>2 DEF MenuInv, EditsWell, WholeCreated, RowsKept, MenuTypeOK

LEMMA MenuEditKeeps ==
    ASSUME MenuInv, UserEdits \/ RoleEdits \/ GrantEdits \/ Seed,
           UNCHANGED menuVars \/ MenuRestarts
    PROVE  MenuInv'
<1>1. EditsWell
  BY UserEditWell, RoleEditWell, GrantEditWell, SeedWell
<1>2. /\ UNCHANGED <<whole, syncs, menuFaults>>
      /\ \/ UNCHANGED <<sync, check>>
         \/ /\ sync' = [p \in Syncs |-> NoSync]
            /\ check' = [c \in Checks |-> NoCheck]
  BY DEF menuVars, MenuRestarts
<1>3. \A c \in Checks : check'[c] = check[c] \/ check'[c] = NoCheck
  BY <1>2
<1>4. MenuTypeOK'
  BY <1>2, SyncFacts, CheckFacts DEF MenuInv, MenuTypeOK
<1>5. ASSUME NEW p \in Syncs
      PROVE  sync'[p] = sync[p] \/ SyncShape(sync[p])'
  <2>1. CASE sync'[p] = sync[p]
    BY <2>1
  <2>2. CASE sync'[p] = NoSync
    BY <1>1, <2>2, SyncFacts, ShapeFollows DEF EditsWell
  <2> QED BY <1>2, <2>1, <2>2
<1> QED BY <1>1, <1>2, <1>3, <1>4, <1>5, EditsKeepAdmin, TablesKeep DEF EditsWell

LEMMA MenuInitHolds ==
    ASSUME DirectoryInit, MenuInit
    PROVE  MenuInv
<1> USE DirectoryAssumption, MenuAssumption
<1>1. edits \in 0..MaxEdits /\ edits \in Int /\ Never \in Int /\ Never <= edits
  BY DEF DirectoryInit, Never
<1>2. DirectoryTypeOK
  BY <1>1 DEF DirectoryInit, DirectoryTypeOK, Unused, MenuRow, Status, NoMenu
<1>3. NoSync \in Sync /\ SyncShape(NoSync)
  BY DEF NoSync, Sync, SyncShape, NoMenu, Chosen
<1>4. NoCheck \in Check /\ CheckShape(NoCheck)
  BY <1>1 DEF NoCheck, Check, CheckShape, NoMenu
<1>5. MenuTypeOK /\ SyncsShaped /\ ChecksShaped
  BY <1>3, <1>4 DEF MenuInit, MenuTypeOK, SyncsShaped, ChecksShaped
<1>6. GrantsRead /\ OnlyPagesAbove
  BY <1>1 DEF DirectoryInit, GrantsRead, Reaches, OnlyPagesAbove, Unused
<1>7. Seeded /\ WholeCreated /\ AdminHoldsAll
  BY DEF DirectoryInit, MenuInit, Seeded, WholeCreated, AdminHoldsAll
<1> QED BY <1>2, <1>5, <1>6, <1>7 DEF MenuInv

LEMMA MenuStepKeeps ==
    ASSUME MenuInv, [MenuNext]_<<directoryVars, menuVars>>
    PROVE  MenuInv'
<1>1. CASE MenuStep
  <2>1. ASSUME NEW p \in Syncs, NEW f \in Functions,
               \/ \E ks \in SUBSET Keys : PublishMenu(p, f, ks) \/ SyncMenu(p, f, ks)
               \/ UnpublishMenu(p, f) \/ DeleteMenu(p, f)
        PROVE  MenuInv'
    BY <2>1, ArrivalKeeps
  <2>2. ASSUME NEW p \in Syncs,
               \/ FindPage(p) \/ ListButtons(p) \/ ListGenerated(p)
               \/ \E k \in Keys : FindButton(p, k)
               \/ ListToDisable(p) \/ ListToDelete(p)
        PROVE  MenuInv'
    BY <2>2, ReadingKeeps
  <2>3. ASSUME NEW p \in Syncs, CreatePage(p) \/ CreateButton(p)  PROVE MenuInv'
    BY <2>3, CreationKeeps
  <2>4. ASSUME NEW p \in Syncs,
               \/ UpdatePage(p) \/ UpdateButton(p) \/ DisablePage(p)
               \/ \E m \in MenuIds : DisableButton(p, m)
        PROVE  MenuInv'
    BY <2>4, UpdatingKeeps
  <2>5. ASSUME NEW p \in Syncs, DeletePage(p) \/ \E m \in MenuIds : DropButton(p, m)
        PROVE  MenuInv'
    BY <2>5, DeletionKeeps
  <2>6. ASSUME NEW p \in Syncs, GrantRoleMenus(p)  PROVE MenuInv'
    BY <2>6, GrantKeeps
  <2>7. ASSUME NEW p \in Syncs,
               Duplicate(p) \/ NoAdminRole(p) \/ Disabled(p) \/ SyncDies(p)
        PROVE  MenuInv'
    BY <2>7, EndingSync
  <2>8. ASSUME NEW c \in Checks,
               \E u \in Users, f \in Functions, k \in Keys \cup {"page"} :
                   ListMenus(c, u, f, k)
        PROVE  MenuInv'
    BY <2>8, ListMenusKeeps
  <2>9. ASSUME NEW c \in Checks, ListGrants(c)  PROVE MenuInv'
    BY <2>9, ListGrantsKeeps
  <2>10. ASSUME NEW c \in Checks, LookupPage(c) \/ LookupAction(c) \/ Answered(c)
         PROVE  MenuInv'
    BY <2>10, LookupsKeep
  <2> QED BY <1>1, <2>1, <2>2, <2>3, <2>4, <2>5, <2>6, <2>7, <2>8, <2>9, <2>10
          DEF MenuStep
<1>2. CASE (UserEdits \/ RoleEdits \/ GrantEdits) /\ UNCHANGED menuVars
  BY <1>2, MenuEditKeeps
<1>3. CASE Seed /\ MenuRestarts
  BY <1>3, MenuEditKeeps
<1>4. CASE UNCHANGED <<directoryVars, menuVars>>
  BY <1>4 DEF MenuInv, DirectoryTypeOK, MenuTypeOK, GrantsRead, Reaches, OnlyPagesAbove,
              IsPage, SyncsShaped, SyncShape, ChecksShaped, CheckShape, Seeded,
              WholeCreated, AdminHoldsAll, LiveMenus, directoryVars, tables, moments,
              menuVars
<1> QED BY <1>1, <1>2, <1>3, <1>4 DEF MenuNext

LEMMA MenuInvImplies ==
    ASSUME MenuInv
    PROVE  DirectoryTypeOK /\ MenuTypeOK /\ AdminHoldsAll /\ OpenedByGrant
<1>1. OpenedByGrant
  <2> SUFFICES ASSUME NEW c \in Checks, check[c].pc = "open"
               PROVE  \E m \in MenuIds :
                        /\ \/ m = check[c].target
                           \/ check[c].key = "page" /\ check[c].parent[m] = check[c].target
                        /\ lastGranted[check[c].user][m] >= check[c].began
    BY DEF OpenedByGrant, CheckAt
  <2> QED BY CheckFacts DEF CheckShape
<1> QED BY <1>1 DEF MenuInv

-----------------------------------------------------------------------------
(* The inductive invariant of the menus of generated functions             *)
(* (generated_function_menu.go) and of the checks against them, whatever   *)
(* is edited and restarted meanwhile.                                      *)
THEOREM MenuInvariant == MenuSpec => []MenuInv
<1>1. DirectoryInit /\ MenuInit => MenuInv
  BY MenuInitHolds
<1>2. MenuInv /\ [MenuNext]_<<directoryVars, menuVars>> => MenuInv'
  BY MenuStepKeeps
<1> QED BY <1>1, <1>2, PTL DEF MenuSpec

(* Type correctness of the tables, the calls and the checks.               *)
THEOREM MenuTypeHolds == MenuSpec => [](DirectoryTypeOK /\ MenuTypeOK)
<1>1. MenuInv => DirectoryTypeOK /\ MenuTypeOK
  BY MenuInvImplies
<1> QED BY <1>1, MenuInvariant, PTL

(* The built-in role holds every menu whose creation was reported done, in *)
(* whatever order calls for a function, deletions, edits of the role and   *)
(* restarts fall (grantAdminGeneratedFunctionAccess).                      *)
THEOREM AdminHoldsAllHolds == MenuSpec => []AdminHoldsAll
<1>1. MenuInv => AdminHoldsAll
  BY MenuInvImplies
<1> QED BY <1>1, MenuInvariant, PTL

(* A check opens nothing that the user was not granted since it began      *)
(* (CheckFunctionMenuAccess, expandAllowedMenuIDs).                        *)
THEOREM OpenedByGrantHolds == MenuSpec => []OpenedByGrant
<1>1. MenuInv => OpenedByGrant
  BY MenuInvImplies
<1> QED BY <1>1, MenuInvariant, PTL

-----------------------------------------------------------------------------
(* The service as a whole: sessions and menus over the same tables.        *)

SystemInv ==
    /\ part \in {"sessions", "menus"}
    /\ DirectoryTypeOK /\ AuthTypeOK /\ MenuTypeOK
    /\ part = "sessions" => AuthInv
    /\ part = "menus" => MenuInv

LEMMA AuthDirectoryKeeps ==
    ASSUME DirectoryTypeOK, UserEdits \/ RoleEdits \/ Seed
    PROVE  DirectoryTypeOK'
<1> USE DirectoryAssumption
<1>1. /\ edits' \in 0..MaxEdits /\ Noted
      /\ UNCHANGED <<menu, trimmed>>
  <2>1. MayEdit /\ edits' = edits + 1 /\ Noted
    BY EditsNote
  <2>2. UNCHANGED <<menu, trimmed>>
    BY DEF UserEdits, RoleEdits, Seed, CreateUser, SetUserStatus, UpdateUser, DeleteUser,
           SetUserRoles, CreateRole, SetRoleStatus, UpdateRole, DeleteRole
  <2> QED BY <2>1, <2>2 DEF MayEdit, DirectoryTypeOK
<1>2. /\ lastEnabled' \in [Users -> Int]
      /\ lastRoled' \in [Users -> Int]
      /\ lastGranted' \in [Users -> [MenuIds -> Int]]
  BY <1>1 DEF Noted, DirectoryTypeOK
<1>3. CASE UserEdits
  <2>1. UNCHANGED <<role, granted, serving>>
    BY <1>3 DEF UserEdits, CreateUser, SetUserStatus, UpdateUser, DeleteUser,
                SetUserRoles, Edited
  <2>2. user' \in [Users -> Status] /\ named' \subseteq {"user", "role"}
    BY <1>3 DEF UserEdits, CreateUser, SetUserStatus, UpdateUser, DeleteUser,
                SetUserRoles, DirectoryTypeOK, Status, Chosen
  <2>3. member' \subseteq Users \X Roles
    BY <1>3 DEF UserEdits, CreateUser, SetUserStatus, UpdateUser, DeleteUser,
                SetUserRoles, DirectoryTypeOK
  <2> QED BY <1>1, <1>2, <2>1, <2>2, <2>3 DEF DirectoryTypeOK
<1>4. CASE RoleEdits
  <2>1. UNCHANGED <<user, serving>>
    BY <1>4 DEF RoleEdits, CreateRole, SetRoleStatus, UpdateRole, DeleteRole, Edited
  <2>2. role' \in [Roles -> Status] /\ named' \subseteq {"user", "role"}
    BY <1>4 DEF RoleEdits, CreateRole, SetRoleStatus, UpdateRole, DeleteRole,
                DirectoryTypeOK, Status, Chosen
  <2>3. member' \subseteq Users \X Roles /\ granted' \subseteq Roles \X MenuIds
    BY <1>4 DEF RoleEdits, CreateRole, SetRoleStatus, UpdateRole, DeleteRole,
                DirectoryTypeOK
  <2> QED BY <1>1, <1>2, <2>1, <2>2, <2>3 DEF DirectoryTypeOK
<1>5. CASE Seed
  <2>1. role' \in [Roles -> Status] /\ granted' \subseteq Roles \X MenuIds
    BY <1>5 DEF Seed, SeedRoles, DirectoryTypeOK, LiveMenus, Status
  <2>2. user' \in [Users -> Status] /\ member' \subseteq Users \X Roles
    BY <1>5 DEF Seed, SeedAdminUser, DirectoryTypeOK, Status
  <2>3. named' \subseteq {"user", "role"} /\ serving' \in BOOLEAN
    BY <1>5 DEF Seed, DirectoryTypeOK
  <2> QED BY <1>1, <1>2, <2>1, <2>2, <2>3 DEF DirectoryTypeOK
<1> QED BY <1>3, <1>4, <1>5

LEMMA SystemStepKeeps ==
    ASSUME SystemInv, [Next]_vars
    PROVE  SystemInv'
<1>1. CASE part = "sessions" /\ AuthNext /\ UNCHANGED menuVars /\ part' = part
  <2>1. AuthInv'
    BY <1>1, StepKeeps DEF SystemInv
  <2>2. AuthTypeOK'
    BY <2>1 DEF AuthInv
  <2>3. MenuTypeOK'
    BY <1>1 DEF SystemInv, MenuTypeOK, menuVars
  <2>4. DirectoryTypeOK'
    <3>1. CASE UNCHANGED directoryVars
      BY <3>1 DEF SystemInv, DirectoryTypeOK, directoryVars, tables, moments
    <3>2. CASE UserEdits \/ RoleEdits \/ Seed
      BY <3>2, AuthDirectoryKeeps DEF SystemInv
    <3> QED BY <1>1, <3>1, <3>2, Zenon DEF AuthNext
  <2> QED BY <1>1, <2>1, <2>2, <2>3, <2>4 DEF SystemInv
<1>2. CASE part = "menus" /\ MenuNext /\ UNCHANGED authVars /\ part' = part
  <2>1. MenuInv'
    BY <1>2, MenuStepKeeps DEF SystemInv
  <2>2. AuthTypeOK'
    BY <1>2 DEF SystemInv, AuthTypeOK, authVars
  <2> QED BY <1>2, <2>1, <2>2 DEF SystemInv, MenuInv
<1>3. CASE UNCHANGED vars
  <2>1. UNCHANGED <<directoryVars, authVars, menuVars, part>>
    BY <1>3 DEF vars
  <2>2. AuthInv => AuthInv'
    BY <2>1, StepKeeps
  <2>3. MenuInv => MenuInv'
    BY <2>1, MenuStepKeeps
  <2>4. DirectoryTypeOK' /\ AuthTypeOK' /\ MenuTypeOK'
    BY <2>1 DEF SystemInv, DirectoryTypeOK, AuthTypeOK, MenuTypeOK, directoryVars,
                tables, moments, authVars, menuVars
  <2> QED BY <2>1, <2>2, <2>3, <2>4 DEF SystemInv
<1> QED BY <1>1, <1>2, <1>3 DEF Next

(* Type correctness of the whole service: the tables, the keys in Redis    *)
(* and the requests of both kinds.                                         *)
THEOREM SystemTypeHolds == Spec => []SystemTypeOK
<1>1. Init => SystemInv
  <2> SUFFICES ASSUME Init PROVE SystemInv
    OBVIOUS
  <2>1. AuthInv /\ MenuInv
    BY InitHolds, MenuInitHolds DEF Init
  <2> QED BY <2>1, MenuInvImplies DEF Init, SystemInv, AuthInv
<1>2. SystemInv /\ [Next]_vars => SystemInv'
  BY SystemStepKeeps
<1>3. SystemInv => SystemTypeOK
  BY DEF SystemInv, SystemTypeOK
<1> QED BY <1>1, <1>2, <1>3, PTL DEF Spec
=============================================================================
