--------------------------- MODULE FunctionRelease ---------------------------
(***************************************************************************)
(* The release path of the func-operation service: the function table, the *)
(* table of immutable releases, the content-addressed artifact store, the  *)
(* workspace that agents edit, and the in-memory runtime that executes the *)
(* approved artifacts.                                                     *)
(*                                                                         *)
(* Requests run concurrently and each database or file-system call of a    *)
(* handler is one step, so every interleaving of publish, unpublish, code  *)
(* application, edits, deletion, reload and invocation is explored, with a *)
(* failure possible after each step, with the artifact sweeper running     *)
(* beside them, and with crashes followed by the staged start-up.          *)
(*                                                                         *)
(* An artifact is its content: SHA-256 is taken as injective, and the hash *)
(* covers the manifest, which carries the application id, so artifacts of  *)
(* different functions never coincide.  GeneratedAppID is the function's   *)
(* UUID (CreateFunction), so an application is named by its function.      *)
(***************************************************************************)
EXTENDS Integers, FiniteSets

CONSTANTS
    Functions,      \* function UUIDs
    Contents,       \* valid artifact contents (equivalently, their hashes)
    Workers,        \* concurrent requests
    Ops,            \* the kinds of request that arrive
    MaxReleases,    \* bound on the rows of the release table
    None            \* the empty string / a missing row or directory

ASSUME MaxReleasesAssumption == MaxReleases \in Nat

ASSUME NoneAssumption == None \notin Functions \cup Contents \cup Nat

VARIABLES
    function,       \* function table: row of each function, or None
    born,           \* the functions created so far (UUIDs are never reused)
    releases,       \* release table, by autoincrement id
    nextId,         \* next autoincrement id
    workspace,      \* content of each application's working directory
    store,          \* store[f][c]: what is kept under the hash of c
    approved,       \* the runtime's loaded artifact of each application
    job,            \* the requests in flight
    sweep,          \* the artifact sweeper: hashes it must keep, or None
    boot            \* stage of the process: down, start-up stages, serving

vars == <<function, born, releases, nextId, workspace, store, approved, job,
          sweep, boot>>

ReleaseIds == 1..MaxReleases

Row == [status : {"draft", "published"}, active : ReleaseIds \cup {None},
        coded : BOOLEAN]

Release == [fn : Functions \cup {None}, version : Nat,
            sha : Contents \cup {None},
            status : {"none", "staged", "published", "revoked"}]

NoRelease == [fn |-> None, version |-> 0, sha |-> None, status |-> "none"]

BlankRow == [status |-> "draft", active |-> None, coded |-> FALSE]

AllOps == {"publish", "unpublish", "apply", "edit", "delete", "reload", "invoke"}

ASSUME OpsAssumption == Ops \subseteq AllOps

Job == [pc : {"idle", "snapshot", "latest", "create", "promote", "bundle",
              "verify", "commit", "list", "load", "save", "saveAgain",
              "revoke", "drop", "rmdir", "orphans", "check", "access", "run",
              "record"},
        op : AllOps \cup {"none"},
        fn : Functions \cup {None}, row : Row, sha : Contents \cup {None},
        version : Nat, rel : ReleaseIds \cup {None},
        list : SUBSET ReleaseIds]

Idle == [pc |-> "idle", op |-> "none", fn |-> None, row |-> BlankRow,
         sha |-> None, version |-> 0, rel |-> None, list |-> {}]

-----------------------------------------------------------------------------
(* Queries on the release table (dao/function_release.go).                 *)

Published == {r \in ReleaseIds : releases[r].status = "published"}

ReleasesOf(f) == {r \in ReleaseIds : releases[r].fn = f}

PublishedOf(f) == Published \cap ReleasesOf(f)

(* ORDER BY version DESC, id DESC LIMIT 1 over the rows in S.              *)
IsFirst(r, S) ==
    /\ r \in S
    /\ \A q \in S : \/ releases[q].version < releases[r].version
                    \/ releases[q].version = releases[r].version /\ q <= r

(* UPDATE ... SET status = 'revoked' WHERE status = 'published' on the     *)
(* rows in S.                                                              *)
Revoked(S) ==
    [r \in ReleaseIds |->
        IF r \in S /\ releases[r].status = "published"
        THEN [releases[r] EXCEPT !.status = "revoked"] ELSE releases[r]]

(* Materialize followed by publishedArtifactSnapshotAt: the stored files   *)
(* exist and hash to the name they are stored under.                       *)
Intact(r) == store[releases[r].fn][releases[r].sha] = releases[r].sha

(* LoadApprovedArtifacts: all listed artifacts, or an error.               *)
LoadedFrom(L) ==
    [f \in Functions |->
        IF \E r \in L : releases[r].fn = f
        THEN LET r == CHOOSE r \in L : releases[r].fn = f
             IN  store[f][releases[r].sha]
        ELSE None]

-----------------------------------------------------------------------------
(* A legacy published function predates the release table.                 *)
LegacyRow == [status |-> "published", active |-> None, coded |-> TRUE]

Init ==
    /\ born \in SUBSET Functions
    /\ function \in [Functions -> {None, LegacyRow}]
    /\ \A f \in Functions : f \in born <=> function[f] # None
    /\ workspace \in [Functions -> Contents \cup {None}]
    /\ \A f \in Functions : f \notin born => workspace[f] = None
    /\ releases = [r \in ReleaseIds |-> NoRelease]
    /\ nextId = 1
    /\ store = [f \in Functions |-> [c \in Contents |-> None]]
    /\ approved = [f \in Functions |-> None]
    /\ job = [w \in Workers |-> Idle]
    /\ sweep = None
    /\ boot = "down"

-----------------------------------------------------------------------------
(* Requests.                                                               *)

Become(w, j) == job' = [job EXCEPT ![w] = j]

Goto(w, pc) == Become(w, [job[w] EXCEPT !.pc = pc])

Finish(w) == Become(w, Idle)

Tables == <<function, born, releases, nextId>>

Files == <<workspace, store>>

Process == <<approved, sweep, boot>>

At(w, pc) == job[w].pc = pc

CreateFunction(f) ==
    /\ boot = "serving"
    /\ f \notin born
    /\ function' = [function EXCEPT ![f] = BlankRow]
    /\ born' = born \cup {f}
    /\ UNCHANGED <<releases, nextId, Files, job, Process>>

(* functionDao.Get at the head of a handler, with the handler's guards.    *)
Begin(w, op, f, pc) ==
    /\ boot = "serving"
    /\ op \in Ops
    /\ At(w, "idle")
    /\ function[f] # None
    /\ Become(w, [Idle EXCEPT !.pc = pc, !.op = op, !.fn = f,
                              !.row = function[f]])
    /\ UNCHANGED <<Tables, Files, Process>>

UpdateFunctionPublish(w, f) ==
    /\ Begin(w, "publish", f, "snapshot")
    /\ function[f].status = "draft"
    /\ function[f].coded

UpdateFunctionUnpublish(w, f) ==
    /\ Begin(w, "unpublish", f, "save")
    /\ function[f].status = "published"

(* UpdateFunction without a status change, and every other handler that    *)
(* reads the row, does its work and writes the whole row back.             *)
UpdateFunctionEdit(w, f) == Begin(w, "edit", f, "save")

ApplyFunctionCode(w, f) == Begin(w, "apply", f, "snapshot")

DeleteFunction(w, f) == Begin(w, "delete", f, "revoke")

-----------------------------------------------------------------------------
(* ReleaseLogic.Stage.                                                     *)

ArtifactSnapshot(w) ==
    /\ At(w, "snapshot")
    /\ workspace[job[w].fn] # None
    /\ Become(w, [job[w] EXCEPT !.pc = "latest",
                                !.sha = workspace[job[w].fn]])
    /\ UNCHANGED <<Tables, Files, Process>>

(* Publish goes on with release r, ApplyFunctionCode saves the row.        *)
Staged(w, r) ==
    IF job[w].op = "publish"
    THEN [job[w] EXCEPT !.pc = "promote", !.version = 0, !.rel = r]
    ELSE [job[w] EXCEPT !.pc = "save", !.version = 0, !.sha = None]

StageReuse(w) ==
    /\ At(w, "latest")
    /\ \E r \in ReleaseIds :
        /\ IsFirst(r, ReleasesOf(job[w].fn))
        /\ releases[r].sha = job[w].sha
        /\ releases[r].status # "revoked"
        /\ Become(w, Staged(w, r))
    /\ UNCHANGED <<Tables, Files, Process>>

StageVersion(w) ==
    /\ At(w, "latest")
    /\ \/ /\ ReleasesOf(job[w].fn) = {}
          /\ Become(w, [job[w] EXCEPT !.pc = "create", !.version = 1])
       \/ \E r \in ReleaseIds :
            /\ IsFirst(r, ReleasesOf(job[w].fn))
            /\ \/ releases[r].sha # job[w].sha
               \/ releases[r].status = "revoked"
            /\ Become(w, [job[w] EXCEPT !.pc = "create",
                                        !.version = releases[r].version + 1])
    /\ UNCHANGED <<Tables, Files, Process>>

CreateStaged(w) ==
    /\ At(w, "create")
    /\ nextId \in ReleaseIds
    /\ releases' = [releases EXCEPT ![nextId] =
                     [fn |-> job[w].fn, version |-> job[w].version,
                      sha |-> job[w].sha, status |-> "staged"]]
    /\ nextId' = nextId + 1
    /\ Become(w, Staged(w, nextId))
    /\ UNCHANGED <<function, born, Files, Process>>

-----------------------------------------------------------------------------
(* ReleaseLogic.Publish after staging.                                     *)

(* PromoteArtifact: the workspace must still hash to the release's hash.   *)
PromoteCheck(w) ==
    /\ At(w, "promote")
    /\ workspace[job[w].fn] = job[w].sha
    /\ Goto(w, "bundle")
    /\ UNCHANGED <<Tables, Files, Process>>

(* artifactBundle reads the workspace again, except the manifest, which it *)
(* takes from the snapshot: after an edit in between, the bundle is the    *)
(* edited content, or the expected one when only the manifest was edited.  *)
(* store.Promote leaves an existing directory alone.                       *)
Promote(w) ==
    LET f == job[w].fn  c == job[w].sha IN
    /\ At(w, "bundle")
    /\ workspace[f] # None
    /\ \E d \in {workspace[f], c} :
         store' = IF store[f][c] = None THEN [store EXCEPT ![f][c] = d]
                                        ELSE store
    /\ Goto(w, "verify")
    /\ UNCHANGED <<Tables, workspace, Process>>

VerifyPromoted(w) ==
    /\ At(w, "verify")
    /\ Intact(job[w].rel)
    /\ Goto(w, "commit")
    /\ UNCHANGED <<Tables, Files, Process>>

(* Mutants of Publish: the pointer takes the hash for the id; the other    *)
(* releases stay published; the handler's copy keeps the pointer it read.  *)
PublishHashPointer(w) ==
    LET f == job[w].fn  r == job[w].rel IN
    /\ At(w, "commit")
    /\ releases' = [Revoked(ReleasesOf(f)) EXCEPT ![r].status = "published"]
    /\ function' = IF function[f] = None THEN function
                   ELSE [function EXCEPT ![f].active = job[w].sha]
    /\ Become(w, [job[w] EXCEPT !.pc = "list",
                     !.row = [@ EXCEPT !.status = "published", !.active = r]])
    /\ UNCHANGED <<born, nextId, Files, Process>>

PublishBesideOthers(w) ==
    LET f == job[w].fn  r == job[w].rel IN
    /\ At(w, "commit")
    /\ releases' = [releases EXCEPT ![r].status = "published"]
    /\ function' = IF function[f] = None THEN function
                   ELSE [function EXCEPT ![f].active = r]
    /\ Become(w, [job[w] EXCEPT !.pc = "list",
                     !.row = [@ EXCEPT !.status = "published", !.active = r]])
    /\ UNCHANGED <<born, nextId, Files, Process>>

PublishStaleCopy(w) ==
    LET f == job[w].fn  r == job[w].rel IN
    /\ At(w, "commit")
    /\ releases' = [Revoked(ReleasesOf(f)) EXCEPT ![r].status = "published"]
    /\ function' = IF function[f] = None THEN function
                   ELSE [function EXCEPT ![f].active = r]
    /\ Become(w, [job[w] EXCEPT !.pc = "list",
                     !.row = [@ EXCEPT !.status = "published"]])
    /\ UNCHANGED <<born, nextId, Files, Process>>

(* The transaction of FunctionRelease.publish.                             *)
Publish(w) ==
    LET f == job[w].fn  r == job[w].rel IN
    /\ At(w, "commit")
    /\ releases' = [Revoked(ReleasesOf(f)) EXCEPT ![r].status = "published"]
    /\ function' = IF function[f] = None THEN function
                   ELSE [function EXCEPT ![f].active = r]
    /\ Become(w, [job[w] EXCEPT !.pc = "list",
                     !.row = [@ EXCEPT !.status = "published", !.active = r]])
    /\ UNCHANGED <<born, nextId, Files, Process>>

(* RestorePublished: list, then load outside any lock.                     *)
ListPublished(w) ==
    /\ At(w, "list")
    /\ Become(w, [job[w] EXCEPT !.pc = "load", !.list = Published])
    /\ UNCHANGED <<Tables, Files, Process>>

AfterLoad(w) == IF job[w].op = "publish"
                THEN [job[w] EXCEPT !.pc = "save", !.list = {},
                                    !.sha = None, !.rel = None]
                ELSE Idle

LoadApprovedArtifacts(w) ==
    /\ At(w, "load")
    /\ \A r \in job[w].list : Intact(r)
    /\ approved' = LoadedFrom(job[w].list)
    /\ Become(w, AfterLoad(w))
    /\ UNCHANGED <<Tables, Files, sweep, boot>>

-----------------------------------------------------------------------------
(* functionDao.Update writes every column; no row, no effect.              *)

SavedRow(w) ==
    LET row == job[w].row IN
    CASE job[w].op = "apply"     -> [row EXCEPT !.coded = TRUE]
      [] job[w].op = "unpublish" -> [row EXCEPT !.status = "draft"]
      [] OTHER                   -> row

SaveRow(w) ==
    /\ At(w, "save")
    /\ function' = IF function[job[w].fn] = None THEN function
                   ELSE [function EXCEPT ![job[w].fn] = SavedRow(w)]
    /\ IF job[w].op = "apply" THEN Finish(w) ELSE Goto(w, "saveAgain")
    /\ UNCHANGED <<born, releases, nextId, Files, Process>>

(* The second Update of UpdateFunction, after the menu was synchronised.   *)
SaveRowAgain(w) ==
    /\ At(w, "saveAgain")
    /\ function' = IF function[job[w].fn] = None THEN function
                   ELSE [function EXCEPT ![job[w].fn] = SavedRow(w)]
    /\ Finish(w)
    /\ UNCHANGED <<born, releases, nextId, Files, Process>>

-----------------------------------------------------------------------------
(* DeleteFunction after the row was read.                                  *)

RevokeFunctionReleases(w) ==
    /\ At(w, "revoke")
    /\ releases' = Revoked(ReleasesOf(job[w].fn))
    /\ Goto(w, "drop")
    /\ UNCHANGED <<function, born, nextId, Files, Process>>

DeleteRow(w) ==
    /\ At(w, "drop")
    /\ function[job[w].fn] # None
    /\ function' = [function EXCEPT ![job[w].fn] = None]
    /\ Goto(w, "rmdir")
    /\ UNCHANGED <<born, releases, nextId, Files, Process>>

RemoveWorkspace(w) ==
    /\ At(w, "rmdir")
    /\ workspace' = [workspace EXCEPT ![job[w].fn] = None]
    /\ Finish(w)
    /\ UNCHANGED <<Tables, store, Process>>

-----------------------------------------------------------------------------
(* ReloadGeneratedApps.                                                    *)

Orphans == {r \in Published : function[releases[r].fn] = None}

ReloadGeneratedApps(w) ==
    /\ boot = "serving"
    /\ "reload" \in Ops
    /\ At(w, "idle")
    /\ Become(w, [Idle EXCEPT !.pc = "orphans", !.op = "reload"])
    /\ UNCHANGED <<Tables, Files, Process>>

RevokeOrphanedPublished(w) ==
    /\ At(w, "orphans")
    /\ releases' = Revoked(Orphans)
    /\ Goto(w, "list")
    /\ UNCHANGED <<function, born, nextId, Files, Process>>

-----------------------------------------------------------------------------
(* GeneratedAppLogic.Invoke (GetFrontend takes the same checks).           *)

ActiveForApp(w, f) ==
    /\ boot = "serving"
    /\ "invoke" \in Ops
    /\ At(w, "idle")
    /\ \E r \in ReleaseIds :
        /\ IsFirst(r, PublishedOf(f))
        /\ Become(w, [Idle EXCEPT !.pc = "check", !.op = "invoke", !.fn = f,
                                  !.rel = r])
    /\ UNCHANGED <<Tables, Files, Process>>

HasApprovedArtifact(w) ==
    /\ At(w, "check")
    /\ approved[job[w].fn] = releases[job[w].rel].sha
    /\ Goto(w, "access")
    /\ UNCHANGED <<Tables, Files, Process>>

(* functionForApp and requireRuntimeAccess; a refusal is JobFails.         *)
RequireRuntimeAccess(w) ==
    /\ At(w, "access")
    /\ function[job[w].fn] # None
    /\ Goto(w, "run")
    /\ UNCHANGED <<Tables, Files, Process>>

(* Mutant of InvokeRun: the working directory is executed, as in previews. *)
InvokeRunDraft(w) ==
    /\ At(w, "run")
    /\ workspace[job[w].fn] # None
    /\ Become(w, [job[w] EXCEPT !.pc = "record",
                                !.sha = workspace[job[w].fn]])
    /\ UNCHANGED <<Tables, Files, Process>>

(* InvokeWithObserver takes whatever module is loaded now.                 *)
InvokeRun(w) ==
    /\ At(w, "run")
    /\ approved[job[w].fn] # None
    /\ Become(w, [job[w] EXCEPT !.pc = "record",
                                !.sha = approved[job[w].fn]])
    /\ UNCHANGED <<Tables, Files, Process>>

RecordExecution(w) ==
    /\ At(w, "record")
    /\ Finish(w)
    /\ UNCHANGED <<Tables, Files, Process>>

(* Any call of a handler may fail, and then the handler returns with what  *)
(* it has already written left in place.                                   *)
JobFails(w) ==
    /\ ~ At(w, "idle")
    /\ Finish(w)
    /\ UNCHANGED <<Tables, Files, Process>>

-----------------------------------------------------------------------------
(* Agents and scaffolding edit the workspace at any time; an edit may also *)
(* leave it invalid, which no snapshot accepts.                            *)
AgentEdit(f, c) ==
    /\ function[f] # None
    /\ workspace' = [workspace EXCEPT ![f] = c]
    /\ UNCHANGED <<Tables, store, job, Process>>

(* ReconcileArtifactStore on its ticker: list every release, validate the  *)
(* published ones, and then remove the directories that are not listed.    *)
Listed(r) == releases[r].status # "none"

ReconcileList ==
    /\ boot = "serving"
    /\ sweep = None
    /\ \A r \in Published : Intact(r)
    /\ sweep' = [keep |-> {<<releases[r].fn, releases[r].sha>> :
                              r \in {q \in ReleaseIds : Listed(q)}}]
    /\ UNCHANGED <<Tables, Files, approved, job, boot>>

Kept(S) == [f \in Functions |-> [c \in Contents |->
               IF <<f, c>> \in S THEN store[f][c] ELSE None]]

ReconcileSweep ==
    /\ sweep # None
    /\ store' = Kept(sweep.keep)
    /\ sweep' = None
    /\ UNCHANGED <<Tables, workspace, approved, job, boot>>

-----------------------------------------------------------------------------
(* The process dies, and starts again through the stages of index/grpc.go. *)

Crash ==
    /\ boot # "down"
    /\ boot' = "down"
    /\ approved' = [f \in Functions |-> None]
    /\ job' = [w \in Workers |-> Idle]
    /\ sweep' = None
    /\ UNCHANGED <<Tables, Files>>

BootStart ==
    /\ boot = "down"
    /\ boot' = "backfill"
    /\ UNCHANGED <<Tables, Files, approved, job, sweep>>

(* ListLegacyPublished.                                                    *)
IsLegacy(f) == /\ function[f] # None
               /\ function[f].status = "published"
               /\ function[f].active = None

(* One turn of the BackfillLegacyPublished loop: snapshot, promote with    *)
(* its verification, and the transaction that adds the release.            *)
BackfillPublished(f) ==
    LET c == workspace[f] IN
    /\ boot = "backfill"
    /\ IsLegacy(f)
    /\ c # None
    /\ store[f][c] \in {None, c}
    /\ store' = [store EXCEPT ![f][c] = c]
    /\ IF PublishedOf(f) # {}
       THEN /\ \E r \in ReleaseIds :
                 /\ IsFirst(r, PublishedOf(f))
                 /\ function' = [function EXCEPT ![f].active = r]
            /\ UNCHANGED <<releases, nextId>>
       ELSE /\ nextId \in ReleaseIds
            /\ releases' = [releases EXCEPT ![nextId] =
                             [fn |-> f, version |-> 1, sha |-> c,
                              status |-> "published"]]
            /\ nextId' = nextId + 1
            /\ function' = [function EXCEPT ![f].active = nextId]
    /\ UNCHANGED <<born, workspace, approved, job, sweep, boot>>

(* Mutant of BootReconcile: a failed backfill does not stop the start.     *)
BootReconcileEarly ==
    /\ boot = "backfill"
    /\ \A r \in Published : Intact(r)
    /\ store' = Kept({<<releases[r].fn, releases[r].sha>> :
                         r \in {q \in ReleaseIds : Listed(q)}})
    /\ boot' = "orphans"
    /\ UNCHANGED <<Tables, workspace, approved, job, sweep>>

(* ReconcileArtifactStore; a damaged published artifact stops the start.   *)
BootReconcile ==
    /\ boot = "backfill"
    /\ \A f \in Functions : ~ IsLegacy(f)
    /\ \A r \in Published : Intact(r)
    /\ store' = Kept({<<releases[r].fn, releases[r].sha>> :
                         r \in {q \in ReleaseIds : Listed(q)}})
    /\ boot' = "orphans"
    /\ UNCHANGED <<Tables, workspace, approved, job, sweep>>

(* Mutant of BootRevokeOrphans: the step is skipped.                       *)
BootKeepOrphans ==
    /\ boot = "orphans"
    /\ boot' = "restore"
    /\ UNCHANGED <<Tables, Files, approved, job, sweep>>

BootRevokeOrphans ==
    /\ boot = "orphans"
    /\ releases' = Revoked(Orphans)
    /\ boot' = "restore"
    /\ UNCHANGED <<function, born, nextId, Files, approved, job, sweep>>

BootRestore ==
    /\ boot = "restore"
    /\ \A r \in Published : Intact(r)
    /\ approved' = LoadedFrom(Published)
    /\ boot' = "serving"
    /\ UNCHANGED <<Tables, Files, job, sweep>>

-----------------------------------------------------------------------------
Request(w) ==
    \/ \E f \in Functions :
         \/ UpdateFunctionPublish(w, f)
         \/ UpdateFunctionUnpublish(w, f)
         \/ UpdateFunctionEdit(w, f)
         \/ ApplyFunctionCode(w, f)
         \/ DeleteFunction(w, f)
         \/ ActiveForApp(w, f)
    \/ ReloadGeneratedApps(w)

Step(w) ==
    \/ ArtifactSnapshot(w) \/ StageReuse(w) \/ StageVersion(w)
    \/ CreateStaged(w) \/ PromoteCheck(w) \/ Promote(w) \/ VerifyPromoted(w)
    \/ Publish(w) \/ ListPublished(w) \/ LoadApprovedArtifacts(w)
    \/ SaveRow(w) \/ SaveRowAgain(w)
    \/ RevokeFunctionReleases(w) \/ DeleteRow(w) \/ RemoveWorkspace(w)
    \/ RevokeOrphanedPublished(w)
    \/ HasApprovedArtifact(w) \/ RequireRuntimeAccess(w) \/ InvokeRun(w)
    \/ RecordExecution(w) \/ JobFails(w)

Boot ==
    \/ BootStart \/ BootReconcile \/ BootRevokeOrphans \/ BootRestore
    \/ \E f \in Functions : BackfillPublished(f)

Next ==
    \/ \E w \in Workers : Request(w) \/ Step(w)
    \/ \E f \in Functions : CreateFunction(f)
    \/ \E f \in Functions, c \in Contents \cup {None} : AgentEdit(f, c)
    \/ ReconcileList \/ ReconcileSweep
    \/ Crash
    \/ Boot

Spec == Init /\ [][Next]_vars
-----------------------------------------------------------------------------
(***************************************************************************)
(* Properties.                                                             *)
(***************************************************************************)

(* Every variable keeps the shape its table, map or request has in the     *)
(* code.                                                                   *)
TypeOK ==
    /\ function \in [Functions -> Row \cup {None}]
    /\ born \in SUBSET Functions
    /\ releases \in [ReleaseIds -> Release]
    /\ nextId \in 1..(MaxReleases + 1)
    /\ workspace \in [Functions -> Contents \cup {None}]
    /\ store \in [Functions -> [Contents -> Contents \cup {None}]]
    /\ approved \in [Functions -> Contents \cup {None}]
    /\ job \in [Workers -> Job]
    /\ sweep \in {None} \cup [keep : SUBSET (Functions \X Contents)]
    /\ boot \in {"down", "backfill", "orphans", "restore", "serving"}

(* A function never has two published releases, however publishers, the    *)
(* backfill, deletion and reload interleave: the transaction of publish    *)
(* revokes the others, and RestorePublished would otherwise pick one of    *)
(* them by map order.                                                      *)
OnePublished ==
    \A r, q \in Published : releases[r].fn = releases[q].fn => r = q

(* A release row that went through the publish transaction or the backfill.*)
Released(r) == releases[r].status \in {"published", "revoked"}

Trusted(f, c) ==
    \E r \in ReleaseIds : /\ releases[r].fn = f
                          /\ releases[r].sha = c
                          /\ Released(r)

(* "Runtime code is never trusted merely because it exists on the          *)
(* filesystem": what the runtime has loaded, and what an invocation has    *)
(* executed, is exactly the content of a release of that function that was *)
(* published, whatever agents wrote to the workspace between the checks    *)
(* and whatever a racing promotion left in the store.                      *)
TrustedCode ==
    /\ \A f \in Functions : approved[f] # None => Trusted(f, approved[f])
    /\ \A w \in Workers :
         At(w, "record") => Trusted(job[w].fn, job[w].sha)

(* A function shown as published points at a release of its own that was   *)
(* published, although handlers write back whole rows they read long       *)
(* before; only a legacy row waiting for the backfill points nowhere.      *)
ActivePointer ==
    \A f \in Functions :
        (function[f] # None /\ function[f].status = "published") =>
            \/ /\ function[f].active = None
               /\ boot \in {"down", "backfill"}
            \/ /\ function[f].active \in ReleaseIds
               /\ releases[function[f].active].fn = f
               /\ Released(function[f].active)

(* Start-up restores nothing for a function that no longer exists: the     *)
(* orphans of deletions that raced a publisher are revoked before          *)
(* RestorePublished lists the releases.                                    *)
NoOrphanAtRestore == boot = "restore" => Orphans = {}

(* With one request at a time and no deletion, which may stop after it has *)
(* revoked, through failures of any other call and crashes at any step, a  *)
(* published row points at the release the runtime executes.               *)
PointerIsPublished ==
    \A f \in Functions :
        (function[f] # None /\ function[f].status = "published"
           /\ function[f].active # None) =>
              releases[function[f].active].status = "published"

(* The artifact of a published release is in the store.                    *)
PublishedRetained == \A r \in Published : store[releases[r].fn][releases[r].sha] # None

-----------------------------------------------------------------------------
(* Stronger statements that hold for one request at a time, as proved in   *)
(* FunctionReleaseProofs: the README names the races that break them.  No  *)
(* run asserts them.                                                       *)

(* A release binds one artifact hash to a function version.                *)
OneHashPerVersion ==
    \A r, q \in ReleaseIds :
        (/\ Listed(r) /\ Listed(q)
         /\ releases[r].fn = releases[q].fn
         /\ releases[r].version = releases[q].version)
           => releases[r].sha = releases[q].sha

(* An invocation executes the release it checked or a later one.           *)
RunsWhatItChecked ==
    \A w \in Workers :
        At(w, "record") =>
            \E r \in ReleaseIds :
                /\ releases[r].fn = job[w].fn
                /\ releases[r].sha = job[w].sha
                /\ releases[r].version >= releases[job[w].rel].version
=============================================================================
