------------------------ MODULE FunctionReleaseProofs ------------------------
(***************************************************************************)
(* Proofs about FunctionRelease for any number of functions, contents,     *)
(* concurrent requests and releases; the last part is for one request at a *)
(* time.                                                                   *)
(***************************************************************************)
EXTENDS FunctionRelease, TLAPS

(* The autoincrement id separates the rows that exist from those that do   *)
(* not, and a row that exists names a function and an artifact.            *)
Rows ==
    \A r \in ReleaseIds :
        /\ r >= nextId <=> ~ Listed(r)
        /\ Listed(r) => releases[r].fn \in Functions
                        /\ releases[r].sha \in Contents
        /\ ~ Listed(r) => releases[r].fn = None

(* Release a of function f went through publication.                       *)
Owned(f, a) == /\ a \in ReleaseIds
               /\ releases[a].fn = f
               /\ Released(a)

(* What a request in flight may rely on, by the step it is at: the release *)
(* it holds is the one it staged or found, the list it will load holds     *)
(* released rows only, and the row copy it will write back points at a     *)
(* released row.                                                           *)
Good(j) ==
    /\ j.pc # "idle" => boot = "serving"
    /\ j.pc \notin {"idle", "orphans", "list", "load"} => j.fn \in Functions
    /\ j.op = "publish" => j.fn \in Functions
    /\ j.pc \in {"latest", "create", "record"} => j.sha \in Contents
    /\ j.pc \in {"promote", "bundle", "verify", "commit"} =>
         /\ j.op = "publish"
         /\ j.sha \in Contents
         /\ j.rel \in ReleaseIds
         /\ Listed(j.rel)
         /\ releases[j.rel].fn = j.fn
         /\ releases[j.rel].sha = j.sha
    /\ j.pc = "load" => \A r \in j.list : Released(r)
    /\ j.pc = "record" => Trusted(j.fn, j.sha)
    /\ j.row.status = "published" => Owned(j.fn, j.row.active)

Jobs == \A w \in Workers : Good(job[w])

Loaded == \A f \in Functions : approved[f] # None => Trusted(f, approved[f])

Inv == TypeOK /\ Rows /\ Jobs /\ Loaded /\ OnePublished /\ ActivePointer

(* What any step does to the release table: rows keep their function and   *)
(* artifact, and a released row never becomes a staged one again.          *)
Monotone ==
    \A r \in ReleaseIds :
        Listed(r) => /\ Listed(r)'
                     /\ releases'[r].fn = releases[r].fn
                     /\ releases'[r].sha = releases[r].sha
                     /\ Released(r) => Released(r)'

-----------------------------------------------------------------------------
(* Released rows stay trusted and owned under a monotone step.             *)
LEMMA Persistence ==
    ASSUME Inv, Monotone
    PROVE  /\ \A f, c : Trusted(f, c) => Trusted(f, c)'
           /\ \A f, a : Owned(f, a) => Owned(f, a)'
  BY DEF Inv, Monotone, Trusted, Owned, Released, Listed

(* A request that does not move stays good under a monotone step that      *)
(* leaves the process up, or happens while it is starting.                 *)
LEMMA GoodPersists ==
    ASSUME Inv, Monotone, boot' = boot \/ boot # "serving", NEW j \in Job,
           Good(j)
    PROVE  Good(j)'
  <1>1. /\ \A f, c : Trusted(f, c) => Trusted(f, c)'
        /\ \A f, a : Owned(f, a) => Owned(f, a)'
    BY Persistence
  <1>2. \A r \in ReleaseIds : Released(r) => Released(r)'
    BY DEF Monotone, Released, Listed
  <1>3. j.list \subseteq ReleaseIds
    BY DEF Job
  <1> QED BY <1>1, <1>2, <1>3 DEF Good, Monotone

(* A step that only moves one request, from good to good, keeps Inv.       *)
LEMMA JobStep ==
    ASSUME Inv, NEW w \in Workers, NEW j \in Job, Good(j), Become(w, j),
           UNCHANGED <<Tables, Files, Process>>
    PROVE  Inv'
  <1> USE DEF Inv, Tables, Files, Process
  <1>1. TypeOK'
    BY DEF TypeOK, Become
  <1>2. Rows'
    BY DEF Rows, Listed
  <1>3. Jobs'
    <2>1. Monotone
      BY DEF Monotone, Listed, Released
    <2>2. SUFFICES ASSUME NEW v \in Workers PROVE Good(job[v])'
      BY DEF Jobs
    <2>3. job'[v] = IF v = w THEN j ELSE job[v]
      BY DEF Become, TypeOK
    <2>4. CASE v = w
      <3>1. Good(j)'
        BY <2>1, GoodPersists
      <3> QED BY <3>1, <2>3, <2>4 DEF Good
    <2>5. CASE v # w
      <3>1. job[v] \in Job /\ Good(job[v])
        BY DEF Jobs, TypeOK
      <3>2. job'[v] = job[v]
        BY <2>3, <2>5
      <3> QED BY <3>1, <3>2 DEF Good, Trusted, Owned, Listed, Released
    <2> QED BY <2>4, <2>5
  <1>4. Loaded'
    BY DEF Loaded, Trusted, Released
  <1>5. OnePublished' /\ ActivePointer'
    BY DEF OnePublished, Published, ActivePointer, Released
  <1> QED BY <1>1, <1>2, <1>3, <1>4, <1>5

-----------------------------------------------------------------------------
(* Steps that only move a request.                                         *)

(* An idle worker promises nothing.                                        *)
LEMMA IdleGood == Idle \in Job /\ (Inv => Good(Idle))
  BY DEF Idle, Job, BlankRow, Row, Good, AllOps

(* A handler starts with the row it read, which the invariant vouches for. *)
LEMMA BeginStep ==
    ASSUME Inv, NEW w \in Workers, NEW f \in Functions, NEW op \in AllOps,
           NEW pc \in {"snapshot", "save", "revoke"}, Begin(w, op, f, pc)
    PROVE  Inv'
  <1> DEFINE j == [Idle EXCEPT !.pc = pc, !.op = op, !.fn = f,
                               !.row = function[f]]
  <1>1. function[f] \in Row /\ boot = "serving"
    BY DEF Begin, Inv, TypeOK
  <1>2. j \in Job
    BY <1>1 DEF Idle, Job, AllOps
  <1>3. j.row.status = "published" => Owned(f, j.row.active)
    BY <1>1 DEF Inv, ActivePointer, Owned, Idle, Begin
  <1>4. Good(j)
    BY <1>1, <1>3 DEF Good, Idle
  <1> HIDE DEF j
  <1> QED BY <1>2, <1>4, JobStep DEF Begin, j

(* Every arriving request preserves the invariant.                         *)
LEMMA RequestStep ==
    ASSUME Inv, NEW w \in Workers, Request(w)
    PROVE  Inv'
  <1>1. ASSUME NEW f \in Functions, UpdateFunctionPublish(w, f) PROVE Inv'
    BY <1>1, BeginStep DEF UpdateFunctionPublish, AllOps
  <1>2. ASSUME NEW f \in Functions, UpdateFunctionUnpublish(w, f) PROVE Inv'
    BY <1>2, BeginStep DEF UpdateFunctionUnpublish, AllOps
  <1>3. ASSUME NEW f \in Functions, UpdateFunctionEdit(w, f) PROVE Inv'
    BY <1>3, BeginStep DEF UpdateFunctionEdit, AllOps
  <1>4. ASSUME NEW f \in Functions, ApplyFunctionCode(w, f) PROVE Inv'
    BY <1>4, BeginStep DEF ApplyFunctionCode, AllOps
  <1>5. ASSUME NEW f \in Functions, DeleteFunction(w, f) PROVE Inv'
    BY <1>5, BeginStep DEF DeleteFunction, AllOps
  <1>6. ASSUME NEW f \in Functions, ActiveForApp(w, f) PROVE Inv'
    <2>1. PICK r \in ReleaseIds :
             Become(w, [Idle EXCEPT !.pc = "check", !.op = "invoke",
                                    !.fn = f, !.rel = r])
      BY <1>6 DEF ActiveForApp
    <2> DEFINE j == [Idle EXCEPT !.pc = "check", !.op = "invoke", !.fn = f,
                                 !.rel = r]
    <2>2. j \in Job
      BY DEF Idle, Job, BlankRow, Row, AllOps
    <2>3. Good(j)
      BY <1>6 DEF Good, Idle, BlankRow, ActiveForApp
    <2> HIDE DEF j
    <2> QED BY <1>6, <2>1, <2>2, <2>3, JobStep DEF ActiveForApp, j
  <1>7. ASSUME ReloadGeneratedApps(w) PROVE Inv'
    <2> DEFINE j == [Idle EXCEPT !.pc = "orphans", !.op = "reload"]
    <2>1. j \in Job
      BY DEF Idle, Job, BlankRow, Row, AllOps
    <2>2. Good(j)
      BY <1>7 DEF Good, Idle, BlankRow, ReloadGeneratedApps
    <2> HIDE DEF j
    <2> QED BY <1>7, <2>1, <2>2, JobStep DEF ReloadGeneratedApps, j
  <1> QED BY <1>1, <1>2, <1>3, <1>4, <1>5, <1>6, <1>7 DEF Request

(* A request that moves to another step and keeps its data.                *)
LEMMA GotoStep ==
    ASSUME Inv, NEW w \in Workers,
           NEW pc \in {"bundle", "verify", "commit", "access", "run"},
           job[w].pc # "idle",
           job[w].fn \in Functions,
           pc \in {"bundle", "verify", "commit"} =>
              job[w].pc \in {"promote", "bundle", "verify"},
           Goto(w, pc), UNCHANGED <<Tables, Files, Process>>
    PROVE  Inv'
  <1> DEFINE j == [job[w] EXCEPT !.pc = pc]
  <1>1. job[w] \in Job /\ Good(job[w])
    BY DEF Inv, TypeOK, Jobs
  <1>2. j \in Job
    BY <1>1 DEF Job
  <1>3. Good(j)
    BY <1>1 DEF Good, Job
  <1> HIDE DEF j
  <1> QED BY <1>2, <1>3, JobStep DEF Goto, j

(* The steps of a request that write no table, file or approval.           *)
LEMMA MoveSteps ==
    ASSUME Inv, NEW w \in Workers,
           \/ ArtifactSnapshot(w) \/ StageReuse(w) \/ StageVersion(w)
           \/ PromoteCheck(w) \/ VerifyPromoted(w) \/ ListPublished(w)
           \/ HasApprovedArtifact(w) \/ RequireRuntimeAccess(w)
           \/ InvokeRun(w) \/ RecordExecution(w) \/ JobFails(w)
    PROVE  Inv'
  <1>0. job[w] \in Job /\ Good(job[w])
    BY DEF Inv, TypeOK, Jobs
  <1>1. CASE ArtifactSnapshot(w)
    <2> DEFINE j == [job[w] EXCEPT !.pc = "latest",
                                   !.sha = workspace[job[w].fn]]
    <2>1. job[w].fn \in Functions /\ workspace[job[w].fn] \in Contents
      BY <1>0, <1>1 DEF ArtifactSnapshot, At, Good, Inv, TypeOK
    <2>2. j \in Job
      BY <1>0, <2>1 DEF Job
    <2>3. Good(j)
      BY <1>0, <1>1, <2>1 DEF Good, Job, ArtifactSnapshot, At
    <2> HIDE DEF j
    <2> QED BY <1>1, <2>2, <2>3, JobStep DEF ArtifactSnapshot, j
  <1>2. CASE StageReuse(w)
    <2>1. PICK r \in ReleaseIds : /\ IsFirst(r, ReleasesOf(job[w].fn))
                                  /\ releases[r].sha = job[w].sha
                                  /\ Become(w, Staged(w, r))
      BY <1>2 DEF StageReuse
    <2>2. /\ job[w].fn \in Functions /\ job[w].sha \in Contents
          /\ releases[r].fn = job[w].fn
      BY <1>0, <1>2, <2>1 DEF StageReuse, At, Good, IsFirst, ReleasesOf
    <2>3. Listed(r)
      BY <2>1, <2>2, NoneAssumption DEF Inv, Rows
    <2>4. Staged(w, r) \in Job
      BY <1>0 DEF Staged, Job
    <2>5. Good(Staged(w, r))
      BY <1>0, <1>2, <2>1, <2>2, <2>3 DEF Good, Staged, Job, StageReuse, At
    <2> QED BY <1>2, <2>1, <2>4, <2>5, JobStep DEF StageReuse
  <1>3. CASE StageVersion(w)
    <2>1. PICK v \in Nat :
             Become(w, [job[w] EXCEPT !.pc = "create", !.version = v])
      <3>1. \A r \in ReleaseIds : releases[r].version + 1 \in Nat
        BY DEF Inv, TypeOK, Release
      <3>2. 1 \in Nat
        OBVIOUS
      <3> QED BY <1>3, <3>1, <3>2 DEF StageVersion
    <2> DEFINE j == [job[w] EXCEPT !.pc = "create", !.version = v]
    <2>2. j \in Job
      BY <1>0 DEF Job
    <2>3. Good(j)
      BY <1>0, <1>3 DEF Good, Job, StageVersion, At
    <2> HIDE DEF j
    <2> QED BY <1>3, <2>1, <2>2, <2>3, JobStep DEF StageVersion, j
  <1>4. CASE PromoteCheck(w)
    BY <1>0, <1>4, GotoStep DEF PromoteCheck, At, Good
  <1>5. CASE VerifyPromoted(w)
    BY <1>0, <1>5, GotoStep DEF VerifyPromoted, At, Good
  <1>6. CASE ListPublished(w)
    <2> DEFINE j == [job[w] EXCEPT !.pc = "load", !.list = Published]
    <2>1. j \in Job
      BY <1>0 DEF Job, Published
    <2>2. Good(j)
      BY <1>0, <1>6 DEF Good, Job, ListPublished, At, Published, Released
    <2> HIDE DEF j
    <2> QED BY <1>6, <2>1, <2>2, JobStep DEF ListPublished, j
  <1>7. CASE HasApprovedArtifact(w)
    BY <1>0, <1>7, GotoStep DEF HasApprovedArtifact, At, Good
  <1>8. CASE RequireRuntimeAccess(w)
    BY <1>0, <1>8, GotoStep DEF RequireRuntimeAccess, At, Good
  <1>9. CASE InvokeRun(w)
    <2> DEFINE j == [job[w] EXCEPT !.pc = "record",
                                   !.sha = approved[job[w].fn]]
    <2>1. /\ job[w].fn \in Functions /\ approved[job[w].fn] \in Contents
          /\ Trusted(job[w].fn, approved[job[w].fn])
      BY <1>0, <1>9 DEF InvokeRun, At, Good, Inv, TypeOK, Loaded
    <2>2. j \in Job
      BY <1>0, <2>1 DEF Job
    <2>3. Good(j)
      BY <1>0, <1>9, <2>1 DEF Good, Job, InvokeRun, At
    <2> HIDE DEF j
    <2> QED BY <1>9, <2>2, <2>3, JobStep DEF InvokeRun, j
  <1>10. CASE RecordExecution(w)
    BY <1>10, IdleGood, JobStep DEF RecordExecution, Finish
  <1>11. CASE JobFails(w)
    BY <1>11, IdleGood, JobStep DEF JobFails, Finish
  <1> QED BY <1>1, <1>2, <1>3, <1>4, <1>5, <1>6, <1>7, <1>8, <1>9, <1>10, <1>11

-----------------------------------------------------------------------------
(* Steps that change the tables, the files or the runtime.                 *)

(* The other requests stay good under a monotone step.                     *)
LEMMA JobsPersist ==
    ASSUME Inv, Monotone, boot' = boot \/ boot # "serving", TypeOK',
           \/ job' = job
           \/ \E w \in Workers, j \in Job : Become(w, j) /\ Good(j)'
    PROVE  Jobs'
  <1>1. SUFFICES ASSUME NEW v \in Workers PROVE Good(job[v])'
    BY DEF Jobs
  <1>2. job[v] \in Job /\ Good(job[v])
    BY DEF Inv, TypeOK, Jobs
  <1>3. Good(job[v]) => (job'[v] = job[v] => Good(job[v])')
    <2>1. SUFFICES ASSUME job'[v] = job[v] PROVE Good(job[v])'
      OBVIOUS
    <2>2. \A k \in Job : Good(k) => Good(k)'
      BY GoodPersists
    <2> QED BY <1>2, <2>1, <2>2 DEF Good, Trusted, Owned, Released, Listed
  <1>4. CASE job' = job
    BY <1>2, <1>3, <1>4
  <1>5. CASE \E w \in Workers, j \in Job : Become(w, j) /\ Good(j)'
    <2>1. PICK w \in Workers, j \in Job : Become(w, j) /\ Good(j)'
      BY <1>5
    <2>2. job'[v] = IF v = w THEN j ELSE job[v]
      BY <2>1 DEF Become, Inv, TypeOK
    <2>3. CASE v = w
      BY <2>1, <2>2, <2>3 DEF Good
    <2>4. CASE v # w
      BY <1>2, <1>3, <2>2, <2>4
    <2> QED BY <2>3, <2>4
  <1> QED BY <1>4, <1>5

(* Loaded code stays trusted under a monotone step.                        *)
LEMMA LoadedPersists ==
    ASSUME Inv, Monotone, approved' = approved PROVE Loaded'
  <1>1. \A f, c : Trusted(f, c) => Trusted(f, c)'
    BY Persistence
  <1> QED BY <1>1 DEF Inv, Loaded

(* Published rows keep their pointer under a monotone step.                *)
LEMMA PointerPersists ==
    ASSUME Inv, Monotone, function' = function,
           boot' = boot \/ boot' \in {"down", "backfill"}
    PROVE  ActivePointer'
  <1>1. \A f, a : Owned(f, a) => Owned(f, a)'
    BY Persistence
  <1> QED BY <1>1 DEF Inv, ActivePointer, Owned

(* Steps that leave the release table alone.                               *)
LEMMA SameReleases ==
    ASSUME Inv, UNCHANGED <<releases, nextId>>
    PROVE  Monotone /\ Rows' /\ OnePublished'
  BY DEF Inv, Monotone, Rows, OnePublished, Published, Listed, Released

(* Revoking rows only turns published rows into revoked ones.              *)
LEMMA RevokedRows ==
    ASSUME Inv, NEW S \in SUBSET ReleaseIds, releases' = Revoked(S),
           nextId' = nextId
    PROVE  /\ releases' \in [ReleaseIds -> Release]
           /\ Monotone /\ Rows' /\ OnePublished'
  <1>1. \A r \in ReleaseIds :
          /\ releases[r] \in Release
          /\ releases'[r] = IF r \in S /\ releases[r].status = "published"
                            THEN [releases[r] EXCEPT !.status = "revoked"]
                            ELSE releases[r]
    BY DEF Inv, TypeOK, Revoked
  <1>2. \A r \in ReleaseIds :
          /\ releases'[r] \in Release
          /\ releases'[r].fn = releases[r].fn
          /\ releases'[r].sha = releases[r].sha
          /\ releases'[r].status = "published" => releases[r].status = "published"
          /\ releases'[r].status = releases[r].status \/
               (releases[r].status = "published" /\ releases'[r].status = "revoked")
    BY <1>1 DEF Release
  <1>3. releases' \in [ReleaseIds -> Release]
    BY <1>2 DEF Revoked
  <1> QED BY <1>2, <1>3 DEF Inv, Monotone, Rows, OnePublished, Published,
                            Listed, Released

(* What LoadApprovedArtifacts installs from intact released rows.          *)
LEMMA LoadedIsTrusted ==
    ASSUME Inv, NEW L \in SUBSET ReleaseIds,
           \A r \in L : Released(r) /\ Intact(r)
    PROVE  /\ LoadedFrom(L) \in [Functions -> Contents \cup {None}]
           /\ \A f \in Functions :
                LoadedFrom(L)[f] # None => Trusted(f, LoadedFrom(L)[f])
  <1>1. \A r \in L : releases[r].fn \in Functions /\ releases[r].sha \in Contents
    BY DEF Inv, Rows, Released, Listed
  <1>2. ASSUME NEW f \in Functions
        PROVE  /\ LoadedFrom(L)[f] \in Contents \cup {None}
               /\ LoadedFrom(L)[f] # None => Trusted(f, LoadedFrom(L)[f])
    <2>1. CASE \E r \in L : releases[r].fn = f
      <3> DEFINE r == CHOOSE r \in L : releases[r].fn = f
      <3>1. r \in L /\ releases[r].fn = f
        BY <2>1
      <3>2. LoadedFrom(L)[f] = store[f][releases[r].sha]
        BY <2>1 DEF LoadedFrom
      <3> HIDE DEF r
      <3>3. LoadedFrom(L)[f] = releases[r].sha
        BY <3>1, <3>2 DEF Intact
      <3> QED BY <1>1, <3>1, <3>3 DEF Trusted
    <2>2. CASE ~ \E r \in L : releases[r].fn = f
      BY <2>2 DEF LoadedFrom
    <2> QED BY <2>1, <2>2
  <1> QED BY <1>2 DEF LoadedFrom

(* A staged row is added under a fresh id.                                 *)
LEMMA CreateStagedStep ==
    ASSUME Inv, NEW w \in Workers, CreateStaged(w)
    PROVE  Inv'
  <1> DEFINE row == [fn |-> job[w].fn, version |-> job[w].version,
                     sha |-> job[w].sha, status |-> "staged"]
  <1>0. /\ job[w] \in Job /\ Good(job[w]) /\ boot = "serving"
        /\ job[w].fn \in Functions /\ job[w].sha \in Contents
        /\ nextId \in ReleaseIds /\ ~ Listed(nextId)
    BY DEF CreateStaged, At, Inv, TypeOK, Jobs, Good, Rows, ReleaseIds
  <1>1. row \in Release
    BY <1>0 DEF Release, Job
  <1>2. \A r \in ReleaseIds :
          releases'[r] = IF r = nextId THEN row ELSE releases[r]
    BY DEF CreateStaged, Inv, TypeOK
  <1>3. releases' \in [ReleaseIds -> Release] /\ nextId' \in 1..(MaxReleases + 1)
    BY <1>0, <1>1, <1>2, MaxReleasesAssumption
       DEF CreateStaged, Inv, TypeOK, ReleaseIds
  <1>4. Monotone
    BY <1>0, <1>2 DEF Monotone, Listed, Released
  <1>5. Rows'
    BY <1>0, <1>2 DEF Inv, Rows, TypeOK, CreateStaged, Listed, ReleaseIds
  <1>6. OnePublished'
    BY <1>0, <1>2 DEF Inv, OnePublished, Published
  <1>7. PICK j \in Job :
          /\ Become(w, j)
          /\ j.fn = job[w].fn /\ j.row = job[w].row
          /\ \/ /\ j.pc = "promote" /\ j.op = "publish" /\ j.rel = nextId
                /\ j.sha = job[w].sha
             \/ j.pc = "save" /\ j.op # "publish"
    <2>1. Staged(w, nextId) \in Job
      BY <1>0 DEF Staged, Job
    <2> DEFINE i == Staged(w, nextId)
    <2>2. /\ i.fn = job[w].fn /\ i.row = job[w].row
          /\ \/ /\ i.pc = "promote" /\ i.op = "publish" /\ i.rel = nextId
                /\ i.sha = job[w].sha
             \/ i.pc = "save" /\ i.op # "publish"
      BY <1>0 DEF Staged, Job
    <2>3. Become(w, i)
      BY DEF CreateStaged
    <2> HIDE DEF i
    <2> QED BY <2>1, <2>2, <2>3 DEF i
  <1>8. TypeOK'
    BY <1>3, <1>7 DEF CreateStaged, Become, Inv, TypeOK, Files, Process
  <1>9. Good(j)'
    <2>1. \A f, a : Owned(f, a) => Owned(f, a)'
      BY <1>4, Persistence
    <2>2. boot' = "serving"
      BY <1>0 DEF CreateStaged, Process
    <2> QED BY <1>0, <1>2, <1>7, <2>1, <2>2 DEF Good, Listed
  <1> QED BY <1>4, <1>5, <1>6, <1>7, <1>8, <1>9, JobsPersist, LoadedPersists,
             PointerPersists DEF CreateStaged, Process, Inv

(* Promotion writes the store only.                                        *)
LEMMA PromoteStep ==
    ASSUME Inv, NEW w \in Workers, Promote(w)
    PROVE  Inv'
  <1>0. job[w] \in Job /\ Good(job[w])
    BY DEF Inv, TypeOK, Jobs
  <1>1. PICK j \in Job : Become(w, j) /\ j = [job[w] EXCEPT !.pc = "verify"]
    BY <1>0 DEF Promote, Goto, Job
  <1>2. Monotone /\ Rows' /\ OnePublished'
    BY SameReleases DEF Promote, Tables
  <1>3. store' \in [Functions -> [Contents -> Contents \cup {None}]]
    <2>1. job[w].fn \in Functions /\ job[w].sha \in Contents
      BY <1>0 DEF Promote, At, Good
    <2>2. PICK d \in {workspace[job[w].fn], job[w].sha} :
            store' = IF store[job[w].fn][job[w].sha] = None
                     THEN [store EXCEPT ![job[w].fn][job[w].sha] = d]
                     ELSE store
      BY DEF Promote
    <2>3. d \in Contents \cup {None}
      BY <2>1 DEF Inv, TypeOK
    <2> QED BY <2>1, <2>2, <2>3 DEF Inv, TypeOK
  <1>4. TypeOK'
    BY <1>1, <1>3 DEF Promote, Become, Inv, TypeOK, Tables, Process
  <1>5. Good(j)
    BY <1>0, <1>1 DEF Promote, At, Good, Job
  <1>6. Good(j)'
    BY <1>2, <1>5, GoodPersists DEF Promote, Process
  <1> QED BY <1>1, <1>2, <1>4, <1>6, JobsPersist, LoadedPersists,
             PointerPersists DEF Promote, Tables, Process, Inv

(* The publish transaction revokes the others and moves the pointer.       *)
LEMMA PublishStep ==
    ASSUME Inv, NEW w \in Workers, Publish(w)
    PROVE  Inv'
  <1>0. /\ job[w] \in Job /\ Good(job[w]) /\ boot = "serving"
        /\ job[w].fn \in Functions /\ job[w].rel \in ReleaseIds
        /\ Listed(job[w].rel) /\ releases[job[w].rel].fn = job[w].fn
        /\ job[w].op = "publish"
    BY DEF Publish, At, Inv, TypeOK, Jobs, Good
  <1>1. PICK f \in Functions, n \in ReleaseIds : f = job[w].fn /\ n = job[w].rel
    BY <1>0
  <1>2. \A r \in ReleaseIds :
          /\ releases[r] \in Release
          /\ releases'[r] =
               IF r = n THEN [releases[r] EXCEPT !.status = "published"]
               ELSE IF releases[r].fn = f /\ releases[r].status = "published"
                    THEN [releases[r] EXCEPT !.status = "revoked"]
                    ELSE releases[r]
    <2>1. releases' = [Revoked(ReleasesOf(f)) EXCEPT ![n].status = "published"]
      BY <1>1 DEF Publish
    <2>2. \A r \in ReleaseIds :
            /\ releases[r] \in Release
            /\ Revoked(ReleasesOf(f))[r] =
                 IF releases[r].fn = f /\ releases[r].status = "published"
                 THEN [releases[r] EXCEPT !.status = "revoked"]
                 ELSE releases[r]
      BY DEF Revoked, ReleasesOf, Inv, TypeOK
    <2>3. \A r \in ReleaseIds :
            releases'[r] = IF r = n
                           THEN [Revoked(ReleasesOf(f))[r] EXCEPT
                                   !.status = "published"]
                           ELSE Revoked(ReleasesOf(f))[r]
      BY <2>1 DEF Revoked
    <2> QED BY <2>2, <2>3 DEF Release
  <1>3. \A r \in ReleaseIds :
          /\ releases'[r] \in Release
          /\ releases'[r].fn = releases[r].fn
          /\ releases'[r].sha = releases[r].sha
          /\ releases'[r].status = "published" =>
                r = n \/ (releases[r].status = "published" /\ releases[r].fn # f)
          /\ r # n => \/ releases'[r].status = releases[r].status
                      \/ /\ releases[r].status = "published"
                         /\ releases'[r].status = "revoked"
          /\ r = n => releases'[r].status = "published"
    BY <1>2 DEF Release
  <1>4. releases' \in [ReleaseIds -> Release]
    BY <1>3 DEF Publish, Revoked
  <1>5. Monotone
    BY <1>3 DEF Monotone, Listed, Released
  <1>6. Rows'
    BY <1>0, <1>1, <1>3 DEF Inv, Rows, Listed, Publish
  <1>7. OnePublished'
    BY <1>0, <1>1, <1>3 DEF Inv, OnePublished, Published
  <1>8. PICK j \in Job : /\ Become(w, j)
                         /\ j.pc = "list" /\ j.fn = f /\ j.row.active = n
                         /\ j.op = "publish"
    <2> DEFINE i == [job[w] EXCEPT !.pc = "list",
                       !.row = [@ EXCEPT !.status = "published", !.active = n]]
    <2>1. i \in Job /\ i.pc = "list" /\ i.fn = f /\ i.row.active = n
          /\ i.op = "publish"
      BY <1>0, <1>1 DEF Job, Row
    <2>2. Become(w, i)
      BY <1>1 DEF Publish
    <2> HIDE DEF i
    <2> QED BY <2>1, <2>2
  <1>9. Good(j)'
    BY <1>0, <1>1, <1>3, <1>8 DEF Good, Owned, Released, Publish, Process
  <1>10. function' \in [Functions -> Row \cup {None}]
    BY <1>1 DEF Publish, Inv, TypeOK, Row
  <1>11. TypeOK'
    BY <1>4, <1>8, <1>10 DEF Publish, Become, Inv, TypeOK, Files, Process
  <1>12. ActivePointer'
    <2>1. SUFFICES ASSUME NEW g \in Functions, function'[g] # None,
                          function'[g].status = "published"
                   PROVE  /\ function'[g].active \in ReleaseIds
                          /\ releases'[function'[g].active].fn = g
                          /\ releases'[function'[g].active].status
                               \in {"published", "revoked"}
      BY DEF ActivePointer, Released
    <2>2. CASE g = f
      <3>1. function'[g].active = n
        BY <1>1, <2>1, <2>2 DEF Publish, Inv, TypeOK, Row
      <3> QED BY <1>0, <1>1, <1>3, <2>2, <3>1
    <2>3. CASE g # f
      <3>1. function'[g] = function[g]
        BY <1>1, <2>3 DEF Publish, Inv, TypeOK
      <3>2. /\ function[g].active \in ReleaseIds
            /\ releases[function[g].active].fn = g
            /\ Released(function[g].active)
        BY <1>0, <2>1, <3>1 DEF Inv, ActivePointer
      <3> QED BY <1>3, <3>1, <3>2 DEF Released
    <2> QED BY <2>2, <2>3
  <1> QED BY <1>5, <1>6, <1>7, <1>8, <1>9, <1>11, <1>12, JobsPersist,
             LoadedPersists DEF Publish, Process, Inv

(* LoadApprovedArtifacts installs verified contents of released rows.      *)
LEMMA LoadStep ==
    ASSUME Inv, NEW w \in Workers, LoadApprovedArtifacts(w)
    PROVE  Inv'
  <1>0. job[w] \in Job /\ Good(job[w]) /\ boot = "serving"
    BY DEF LoadApprovedArtifacts, At, Inv, TypeOK, Jobs, Good
  <1>1. PICK L \in SUBSET ReleaseIds : L = job[w].list
    BY <1>0 DEF Job
  <1>2. \A r \in L : Released(r) /\ Intact(r)
    BY <1>0, <1>1 DEF LoadApprovedArtifacts, At, Good
  <1>3. approved' = LoadedFrom(L)
    BY <1>1 DEF LoadApprovedArtifacts
  <1>4. /\ approved' \in [Functions -> Contents \cup {None}]
        /\ \A f \in Functions : approved'[f] # None => Trusted(f, approved'[f])
    BY <1>2, <1>3, LoadedIsTrusted
  <1>5. PICK j \in Job : Become(w, j) /\ j = AfterLoad(w)
    <2>1. AfterLoad(w) \in Job
      <3> DEFINE j == [job[w] EXCEPT !.pc = "save", !.list = {},
                                     !.sha = None, !.rel = None]
      <3>1. j \in Job
        BY <1>0 DEF Job
      <3> QED BY <3>1, IdleGood DEF AfterLoad
    <2> QED BY <2>1 DEF LoadApprovedArtifacts
  <1>6. Monotone /\ Rows' /\ OnePublished'
    BY SameReleases DEF LoadApprovedArtifacts, Tables
  <1>7. TypeOK'
    BY <1>4, <1>5 DEF LoadApprovedArtifacts, Become, Inv, TypeOK, Tables, Files
  <1>8. Good(j)
    BY <1>0, <1>5, IdleGood DEF AfterLoad, Good, Job, LoadApprovedArtifacts, At
  <1>9. Good(j)'
    BY <1>6, <1>8, GoodPersists DEF LoadApprovedArtifacts
  <1>10. Loaded'
    BY <1>4 DEF Loaded, Trusted, Released, LoadApprovedArtifacts, Tables
  <1> QED BY <1>5, <1>6, <1>7, <1>9, <1>10, JobsPersist, PointerPersists
          DEF LoadApprovedArtifacts, Tables, Inv

(* Writing back a row copy keeps the pointer of a published row owned.     *)
LEMMA SaveKeepsPointer ==
    ASSUME Inv, NEW w \in Workers, At(w, "save") \/ At(w, "saveAgain"),
           function' = IF function[job[w].fn] = None THEN function
                       ELSE [function EXCEPT ![job[w].fn] = SavedRow(w)],
           UNCHANGED <<releases, boot>>
    PROVE  /\ function' \in [Functions -> Row \cup {None}]
           /\ ActivePointer'
  <1>0. /\ job[w] \in Job /\ Good(job[w]) /\ job[w].fn \in Functions
        /\ job[w].row \in Row
    BY DEF At, Inv, TypeOK, Jobs, Good, Job
  <1>1. /\ SavedRow(w) \in Row
        /\ SavedRow(w).status = "published" => Owned(job[w].fn, SavedRow(w).active)
    <2>1. CASE job[w].op = "apply"
      BY <1>0, <2>1 DEF SavedRow, Row, Good
    <2>2. CASE job[w].op = "unpublish"
      BY <1>0, <2>2 DEF SavedRow, Row, Good
    <2>3. CASE job[w].op \notin {"apply", "unpublish"}
      BY <1>0, <2>3 DEF SavedRow, Good
    <2> QED BY <2>1, <2>2, <2>3
  <1>2. \A g \in Functions : \/ function'[g] = function[g]
                             \/ g = job[w].fn /\ function'[g] = SavedRow(w)
    BY <1>0 DEF Inv, TypeOK
  <1>3. function' \in [Functions -> Row \cup {None}]
    BY <1>0, <1>1 DEF Inv, TypeOK
  <1> QED BY <1>1, <1>2, <1>3 DEF ActivePointer, Owned, Released, Inv

(* Both whole-row writes of UpdateFunction and ApplyFunctionCode.          *)
LEMMA SaveStep ==
    ASSUME Inv, NEW w \in Workers, SaveRow(w) \/ SaveRowAgain(w)
    PROVE  Inv'
  <1>0. job[w] \in Job /\ Good(job[w]) /\ job[w].pc \in {"save", "saveAgain"}
    BY DEF SaveRow, SaveRowAgain, At, Inv, TypeOK, Jobs
  <1>1. function' \in [Functions -> Row \cup {None}] /\ ActivePointer'
    BY SaveKeepsPointer DEF SaveRow, SaveRowAgain, Process
  <1>2. PICK j \in Job : Become(w, j) /\ Good(j)
    <2>1. CASE Finish(w)
      BY <2>1, IdleGood DEF Finish
    <2>2. CASE Goto(w, "saveAgain")
      <3> DEFINE i == [job[w] EXCEPT !.pc = "saveAgain"]
      <3>1. i \in Job
        BY <1>0 DEF Job
      <3>2. Good(i)
        BY <1>0 DEF Good, Job
      <3>3. Become(w, i)
        BY <2>2 DEF Goto
      <3> HIDE DEF i
      <3> QED BY <3>1, <3>2, <3>3
    <2> QED BY <2>1, <2>2 DEF SaveRow, SaveRowAgain
  <1>3. Monotone /\ Rows' /\ OnePublished'
    BY SameReleases DEF SaveRow, SaveRowAgain
  <1>4. TypeOK'
    BY <1>1, <1>2 DEF SaveRow, SaveRowAgain, Become, Inv, TypeOK, Files, Process
  <1>5. Good(j)'
    BY <1>2, <1>3, GoodPersists DEF SaveRow, SaveRowAgain, Process
  <1> QED BY <1>1, <1>2, <1>3, <1>4, <1>5, JobsPersist, LoadedPersists
          DEF SaveRow, SaveRowAgain, Process, Inv

(* Deletion and reload revoke published rows.                              *)
LEMMA RevokeStep ==
    ASSUME Inv, NEW w \in Workers,
           RevokeFunctionReleases(w) \/ RevokeOrphanedPublished(w)
    PROVE  Inv'
  <1>0. job[w] \in Job /\ Good(job[w])
    BY DEF Inv, TypeOK, Jobs
  <1>1. /\ releases' \in [ReleaseIds -> Release]
        /\ Monotone /\ Rows' /\ OnePublished'
    <2>1. PICK S \in SUBSET ReleaseIds : releases' = Revoked(S)
      BY DEF RevokeFunctionReleases, RevokeOrphanedPublished, Orphans,
             ReleasesOf, Published
    <2>2. nextId' = nextId
      BY DEF RevokeFunctionReleases, RevokeOrphanedPublished
    <2> QED BY <2>1, <2>2, RevokedRows
  <1>2. PICK j \in Job : Become(w, j) /\ Good(j)
    <2>1. CASE RevokeFunctionReleases(w)
      <3> DEFINE i == [job[w] EXCEPT !.pc = "drop"]
      <3>1. i \in Job
        BY <1>0 DEF Job
      <3>2. Good(i)
        BY <1>0, <2>1 DEF Good, Job, RevokeFunctionReleases, At
      <3>3. Become(w, i)
        BY <2>1 DEF RevokeFunctionReleases, Goto
      <3> HIDE DEF i
      <3> QED BY <3>1, <3>2, <3>3
    <2>2. CASE RevokeOrphanedPublished(w)
      <3> DEFINE i == [job[w] EXCEPT !.pc = "list"]
      <3>1. i \in Job
        BY <1>0 DEF Job
      <3>2. Good(i)
        BY <1>0, <2>2 DEF Good, Job, RevokeOrphanedPublished, At
      <3>3. Become(w, i)
        BY <2>2 DEF RevokeOrphanedPublished, Goto
      <3> HIDE DEF i
      <3> QED BY <3>1, <3>2, <3>3
    <2> QED BY <2>1, <2>2
  <1>3. TypeOK'
    BY <1>1, <1>2 DEF RevokeFunctionReleases, RevokeOrphanedPublished, Become,
                      Inv, TypeOK, Files, Process
  <1>4. Good(j)'
    BY <1>1, <1>2, GoodPersists
       DEF RevokeFunctionReleases, RevokeOrphanedPublished, Process
  <1> QED BY <1>1, <1>2, <1>3, <1>4, JobsPersist, LoadedPersists, PointerPersists
          DEF RevokeFunctionReleases, RevokeOrphanedPublished, Process, Inv

(* The row and the workspace of a deleted function go away.                *)
LEMMA DeleteSteps ==
    ASSUME Inv, NEW w \in Workers, DeleteRow(w) \/ RemoveWorkspace(w)
    PROVE  Inv'
  <1>0. job[w] \in Job /\ Good(job[w]) /\ job[w].fn \in Functions
    BY DEF DeleteRow, RemoveWorkspace, At, Inv, TypeOK, Jobs, Good
  <1>1. PICK j \in Job : Become(w, j) /\ Good(j)
    <2>1. CASE DeleteRow(w)
      <3> DEFINE i == [job[w] EXCEPT !.pc = "rmdir"]
      <3>1. i \in Job
        BY <1>0 DEF Job
      <3>2. Good(i)
        BY <1>0, <2>1 DEF Good, Job, DeleteRow, At
      <3>3. Become(w, i)
        BY <2>1 DEF DeleteRow, Goto
      <3> HIDE DEF i
      <3> QED BY <3>1, <3>2, <3>3
    <2>2. CASE RemoveWorkspace(w)
      BY <2>2, IdleGood DEF RemoveWorkspace, Finish
    <2> QED BY <2>1, <2>2
  <1>2. Monotone /\ Rows' /\ OnePublished'
    BY SameReleases DEF DeleteRow, RemoveWorkspace, Tables
  <1>3. TypeOK'
    BY <1>0, <1>1 DEF DeleteRow, RemoveWorkspace, Become, Inv, TypeOK, Tables,
                      Files, Process
  <1>4. Good(j)'
    BY <1>1, <1>2, GoodPersists DEF DeleteRow, RemoveWorkspace, Process
  <1>5. ActivePointer'
    BY <1>0 DEF DeleteRow, RemoveWorkspace, Tables, Process, ActivePointer,
                Released, Inv, TypeOK
  <1> QED BY <1>1, <1>2, <1>3, <1>4, <1>5, JobsPersist, LoadedPersists
          DEF DeleteRow, RemoveWorkspace, Process, Inv

-----------------------------------------------------------------------------
(* Steps of the agents, the sweeper and the process.                       *)

(* Creation, agent edits and the artifact sweeper.                         *)
LEMMA EnvironmentSteps ==
    ASSUME Inv,
           \/ \E f \in Functions : CreateFunction(f)
           \/ \E f \in Functions, c \in Contents \cup {None} : AgentEdit(f, c)
           \/ ReconcileList
           \/ ReconcileSweep
    PROVE  Inv'
  <1>1. /\ UNCHANGED <<releases, nextId, approved, job, boot>>
        /\ Monotone /\ Rows' /\ OnePublished'
    BY SameReleases DEF CreateFunction, AgentEdit, ReconcileList,
                        ReconcileSweep, Tables, Process
  <1>2. TypeOK' /\ ActivePointer'
    <2>1. ASSUME NEW f \in Functions, CreateFunction(f)
          PROVE  TypeOK' /\ ActivePointer'
      <3>1. BlankRow \in Row /\ BlankRow.status = "draft"
        BY DEF BlankRow, Row
      <3> QED BY <1>1, <2>1, <3>1 DEF CreateFunction, Inv, TypeOK,
                 ActivePointer, Released, Files, Process
    <2>2. ASSUME NEW f \in Functions, NEW c \in Contents \cup {None},
                 AgentEdit(f, c)
          PROVE  TypeOK' /\ ActivePointer'
      BY <1>1, <2>2, PointerPersists DEF AgentEdit, Inv, TypeOK, Tables, Process
    <2>3. CASE ReconcileList
      <3>1. {<<releases[r].fn, releases[r].sha>> :
                r \in {q \in ReleaseIds : Listed(q)}}
              \in SUBSET (Functions \X Contents)
        BY DEF Inv, Rows
      <3> DEFINE K == {<<releases[r].fn, releases[r].sha>> :
                          r \in {q \in ReleaseIds : Listed(q)}}
      <3>2. sweep' = [keep |-> K]
        BY <2>3 DEF ReconcileList
      <3>3. K \in SUBSET (Functions \X Contents)
        BY <3>1
      <3> HIDE DEF K
      <3>4. sweep' \in [keep : SUBSET (Functions \X Contents)]
        BY <3>2, <3>3
      <3> QED BY <1>1, <2>3, <3>4, PointerPersists
              DEF ReconcileList, Inv, TypeOK, Tables, Files
    <2>4. CASE ReconcileSweep
      <3>1. store' \in [Functions -> [Contents -> Contents \cup {None}]]
        BY <2>4 DEF ReconcileSweep, Kept, Inv, TypeOK
      <3> QED BY <1>1, <2>4, <3>1, PointerPersists
              DEF ReconcileSweep, Inv, TypeOK, Tables
    <2> QED BY <2>1, <2>2, <2>3, <2>4
  <1> QED BY <1>1, <1>2, JobsPersist, LoadedPersists DEF Inv

(* A crash keeps the tables and the files.                                 *)
LEMMA CrashStep ==
    ASSUME Inv, Crash
    PROVE  Inv'
  <1>1. Monotone /\ Rows' /\ OnePublished'
    BY SameReleases DEF Crash, Tables
  <1>2. Idle \in Job
    BY IdleGood
  <1>3. TypeOK'
    BY <1>2 DEF Crash, Inv, TypeOK, Tables, Files
  <1>4. Jobs'
    BY DEF Crash, Jobs, Good, Idle, BlankRow
  <1>5. Loaded'
    BY DEF Crash, Loaded
  <1>6. ActivePointer'
    BY <1>1, PointerPersists DEF Crash, Tables
  <1> QED BY <1>1, <1>3, <1>4, <1>5, <1>6 DEF Inv

(* The backfill publishes a legacy row under a fresh id.                   *)
LEMMA BackfillStep ==
    ASSUME Inv, NEW f \in Functions, BackfillPublished(f)
    PROVE  Inv'
  <1>0. /\ function[f] \in Row /\ workspace[f] \in Contents
        /\ boot = "backfill" /\ boot' = boot /\ approved' = approved
        /\ job' = job
    BY DEF BackfillPublished, IsLegacy, Inv, TypeOK
  <1>1. store' \in [Functions -> [Contents -> Contents \cup {None}]]
    BY <1>0 DEF BackfillPublished, Inv, TypeOK
  <1>2. CASE PublishedOf(f) # {}
    <2>1. UNCHANGED <<releases, nextId>>
      BY <1>2 DEF BackfillPublished
    <2>2. PICK r \in PublishedOf(f) : function' = [function EXCEPT ![f].active = r]
      BY <1>2 DEF BackfillPublished, IsFirst
    <2>3. Monotone /\ Rows' /\ OnePublished'
      BY <2>1, SameReleases
    <2>4. /\ r \in ReleaseIds /\ releases[r].fn = f
          /\ releases[r].status = "published"
      BY <2>2 DEF PublishedOf, Published, ReleasesOf
    <2>5. TypeOK'
      BY <1>0, <1>1, <2>1, <2>2, <2>4 DEF BackfillPublished, Inv, TypeOK, Row
    <2>6. ActivePointer'
      BY <1>0, <2>1, <2>2, <2>4 DEF ActivePointer, Released, Inv, TypeOK, Row
    <2> QED BY <1>0, <2>3, <2>5, <2>6, JobsPersist, LoadedPersists DEF Inv
  <1>3. CASE PublishedOf(f) = {}
    <2> DEFINE row == [fn |-> f, version |-> 1, sha |-> workspace[f],
                       status |-> "published"]
    <2>1. PICK n \in ReleaseIds : n = nextId
      BY <1>3 DEF BackfillPublished
    <2>2. /\ releases' = [releases EXCEPT ![n] = row] /\ nextId' = n + 1
          /\ function' = [function EXCEPT ![f].active = n]
      BY <1>3, <2>1 DEF BackfillPublished
    <2>3. row \in Release
      BY <1>0 DEF Release
    <2>4. \A r \in ReleaseIds :
            releases'[r] = IF r = n THEN row ELSE releases[r]
      BY <2>2 DEF Inv, TypeOK
    <2>5. ~ Listed(n)
      BY <2>1 DEF Inv, Rows, ReleaseIds
    <2>6. /\ releases' \in [ReleaseIds -> Release]
          /\ nextId' \in 1..(MaxReleases + 1)
      BY <2>1, <2>2, <2>3, MaxReleasesAssumption DEF Inv, TypeOK, ReleaseIds
    <2>7. Monotone
      BY <2>4, <2>5 DEF Monotone, Listed, Released
    <2>8. Rows'
      BY <1>0, <2>1, <2>2, <2>4, <2>5 DEF Inv, Rows, TypeOK, Listed, ReleaseIds
    <2>9. OnePublished'
      BY <1>3, <2>4, <2>5 DEF Inv, OnePublished, Published, PublishedOf,
                              ReleasesOf, Listed
    <2>10. TypeOK'
      BY <1>0, <1>1, <2>2, <2>6 DEF BackfillPublished, Inv, TypeOK, Row
    <2>11. ActivePointer'
      <3>1. SUFFICES ASSUME NEW g \in Functions, function'[g] # None,
                            function'[g].status = "published", g # f
                     PROVE  \/ function'[g].active = None
                            \/ /\ function'[g].active \in ReleaseIds
                               /\ releases'[function'[g].active].fn = g
                               /\ releases'[function'[g].active].status
                                    \in {"published", "revoked"}
        BY <1>0, <2>2, <2>4 DEF ActivePointer, Released, Inv, TypeOK, Row
      <3>2. function'[g] = function[g]
        BY <2>2, <3>1 DEF Inv, TypeOK
      <3> QED BY <2>4, <2>5, <3>1, <3>2 DEF Inv, ActivePointer, Released, Listed
    <2> QED BY <1>0, <2>7, <2>8, <2>9, <2>10, <2>11, JobsPersist, LoadedPersists
            DEF Inv
  <1> QED BY <1>2, <1>3

(* The other start-up stages.                                              *)
LEMMA BootSteps ==
    ASSUME Inv, Boot
    PROVE  Inv'
  <1>1. CASE BootStart
    <2>1. Monotone /\ Rows' /\ OnePublished'
      BY <1>1, SameReleases DEF BootStart, Tables
    <2>2. TypeOK'
      BY <1>1 DEF BootStart, Inv, TypeOK, Tables, Files
    <2> QED BY <1>1, <2>1, <2>2, JobsPersist, LoadedPersists, PointerPersists
            DEF BootStart, Tables, Inv
  <1>2. CASE BootReconcile
    <2>1. Monotone /\ Rows' /\ OnePublished'
      BY <1>2, SameReleases DEF BootReconcile, Tables
    <2>2. TypeOK'
      BY <1>2 DEF BootReconcile, Kept, Inv, TypeOK, Tables
    <2>3. ActivePointer'
      BY <1>2 DEF BootReconcile, IsLegacy, ActivePointer, Released, Tables, Inv
    <2> QED BY <1>2, <2>1, <2>2, <2>3, JobsPersist, LoadedPersists
            DEF BootReconcile, Tables, Inv
  <1>3. CASE BootRevokeOrphans
    <2>1. /\ releases' \in [ReleaseIds -> Release]
          /\ Monotone /\ Rows' /\ OnePublished'
      BY <1>3, RevokedRows DEF BootRevokeOrphans, Orphans, Published
    <2>2. TypeOK'
      BY <1>3, <2>1 DEF BootRevokeOrphans, Inv, TypeOK, Files
    <2>3. ActivePointer'
      <3>1. \A g, a : Owned(g, a) => Owned(g, a)'
        BY <2>1, Persistence
      <3> QED BY <1>3, <3>1 DEF BootRevokeOrphans, Inv, ActivePointer, Owned
    <2> QED BY <1>3, <2>1, <2>2, <2>3, JobsPersist, LoadedPersists
            DEF BootRevokeOrphans, Inv
  <1>4. CASE BootRestore
    <2>1. Monotone /\ Rows' /\ OnePublished'
      BY <1>4, SameReleases DEF BootRestore, Tables
    <2>2. /\ approved' \in [Functions -> Contents \cup {None}]
          /\ \A f \in Functions :
               approved'[f] # None => Trusted(f, approved'[f])
      <3>1. Published \in SUBSET ReleaseIds /\ \A r \in Published : Released(r)
        BY DEF Published, Released
      <3> QED BY <1>4, <3>1, LoadedIsTrusted DEF BootRestore
    <2>3. TypeOK'
      BY <1>4, <2>2 DEF BootRestore, Inv, TypeOK, Tables, Files
    <2>4. Loaded'
      BY <1>4, <2>2 DEF Loaded, Trusted, Released, BootRestore, Tables
    <2>5. ActivePointer'
      BY <1>4 DEF BootRestore, ActivePointer, Released, Tables, Inv
    <2> QED BY <1>4, <2>1, <2>3, <2>4, <2>5, JobsPersist
            DEF BootRestore, Tables, Inv
  <1> QED BY <1>1, <1>2, <1>3, <1>4, BackfillStep DEF Boot

-----------------------------------------------------------------------------
(* The legacy database a deployment starts from satisfies the invariant.   *)
LEMMA InitInv == Init => Inv
  <1> SUFFICES ASSUME Init PROVE Inv
    OBVIOUS
  <1>1. TypeOK
    <2>1. Idle \in Job /\ NoRelease \in Release
      BY IdleGood DEF NoRelease, Release
    <2>2. 1 \in 1..(MaxReleases + 1)
      BY MaxReleasesAssumption
    <2>3. function \in [Functions -> Row \cup {None}]
      <3>1. LegacyRow \in Row
        BY DEF LegacyRow, Row
      <3> QED BY <3>1 DEF Init
    <2> QED BY <2>1, <2>2, <2>3 DEF Init, TypeOK
  <1>2. Rows
    BY DEF Init, Rows, Listed, NoRelease, ReleaseIds
  <1>3. Jobs
    BY DEF Init, Jobs, Good, Idle, BlankRow
  <1>4. Loaded /\ OnePublished
    BY DEF Init, Loaded, OnePublished, Published, NoRelease
  <1>5. ActivePointer
    BY DEF Init, ActivePointer, LegacyRow
  <1> QED BY <1>1, <1>2, <1>3, <1>4, <1>5 DEF Inv

(* Every step preserves the invariant.                                     *)
LEMMA NextInv == Inv /\ [Next]_vars => Inv'
  <1> SUFFICES ASSUME Inv, [Next]_vars PROVE Inv'
    OBVIOUS
  <1>1. ASSUME NEW w \in Workers, Step(w) PROVE Inv'
    BY <1>1, MoveSteps, CreateStagedStep, PromoteStep, PublishStep, LoadStep,
       SaveStep, RevokeStep, DeleteSteps DEF Step
  <1>2. CASE UNCHANGED vars
    BY <1>2 DEF vars, Inv, TypeOK, Rows, Jobs, Loaded, OnePublished,
                ActivePointer, Good, Owned, Trusted, Released, Listed,
                Published
  <1> QED BY <1>1, <1>2, RequestStep, EnvironmentSteps, CrashStep, BootSteps
          DEF Next

(* The invariant holds throughout.                                         *)
LEMMA Invariance == Spec => []Inv
  BY InitInv, NextInv, PTL DEF Spec

(* Every variable of the release path keeps its type, whatever the number  *)
(* of functions, contents, concurrent requests and releases.               *)
THEOREM TypeCorrect == Spec => []TypeOK
  <1>1. Inv => TypeOK
    BY DEF Inv
  <1> QED BY <1>1, Invariance, PTL

(* No interleaving of publishers, backfill, deletion and reload leaves a   *)
(* function with two published releases.                                   *)
THEOREM AtMostOnePublished == Spec => []OnePublished
  <1>1. Inv => OnePublished
    BY DEF Inv
  <1> QED BY <1>1, Invariance, PTL

(* Only the content of a release that went through publication is ever     *)
(* loaded or executed, although the workspace and the artifact store       *)
(* change between the checks.                                              *)
THEOREM OnlyTrustedCodeRuns == Spec => []TrustedCode
  <1>1. Inv => TrustedCode
    BY DEF Inv, Loaded, Jobs, Good, TrustedCode, At
  <1> QED BY <1>1, Invariance, PTL

(* Whole-row writes of stale copies never make a published function point  *)
(* at a staged release, at another function's, or at none.                 *)
THEOREM PublishedRowsPoint == Spec => []ActivePointer
  <1>1. Inv => ActivePointer
    BY DEF Inv
  <1> QED BY <1>1, Invariance, PTL

(* When start-up restores the approved artifacts, no published release is  *)
(* left of a function that was deleted.                                    *)
THEOREM OrphansRevokedBeforeRestore == Spec => []NoOrphanAtRestore
  <1>1. Init => NoOrphanAtRestore
    BY DEF Init, NoOrphanAtRestore
  <1>2. Inv /\ NoOrphanAtRestore /\ [Next]_vars => NoOrphanAtRestore'
    <2> SUFFICES ASSUME Inv, NoOrphanAtRestore, [Next]_vars,
                        boot' = "restore"
                 PROVE  Orphans' = {}
      BY DEF NoOrphanAtRestore
    <2>1. CASE BootRevokeOrphans
      <3>1. \A r \in ReleaseIds :
              releases'[r] = IF r \in Orphans /\ releases[r].status = "published"
                             THEN [releases[r] EXCEPT !.status = "revoked"]
                             ELSE releases[r]
        BY <2>1 DEF BootRevokeOrphans, Revoked
      <3>2. \A r \in ReleaseIds :
              releases'[r].status = "published" =>
                 /\ releases[r].status = "published"
                 /\ r \notin Orphans
                 /\ releases'[r] = releases[r]
        BY <3>1 DEF Inv, TypeOK, Release
      <3> QED BY <2>1, <3>2 DEF BootRevokeOrphans, Orphans, Published
    <2>2. CASE UNCHANGED <<function, releases, boot>>
      BY <2>2 DEF NoOrphanAtRestore, Orphans, Published
    <2>3. boot = "restore" => \A w \in Workers : job[w].pc = "idle"
      BY DEF Inv, Jobs, Good
    <2>4. \/ BootRevokeOrphans
          \/ UNCHANGED <<function, releases, boot>>
          \/ \E w \in Workers : Request(w) \/ Step(w)
      BY DEF Next, Boot, vars, CreateFunction, AgentEdit, ReconcileList,
             ReconcileSweep, Crash, BootStart, BootReconcile, BootRestore,
             BackfillPublished, Tables, Process
    <2>5. ASSUME NEW w \in Workers, Request(w) PROVE FALSE
      BY <2>5 DEF Request, UpdateFunctionPublish, UpdateFunctionUnpublish,
           UpdateFunctionEdit, ApplyFunctionCode, DeleteFunction, Begin,
           ActiveForApp, ReloadGeneratedApps, Process
    <2>6. ASSUME NEW w \in Workers, Step(w) PROVE FALSE
      <3>1. boot = "restore"
        BY <2>6 DEF Step, ArtifactSnapshot, StageReuse, StageVersion,
             CreateStaged, PromoteCheck, Promote, VerifyPromoted, Publish,
             ListPublished, LoadApprovedArtifacts, SaveRow, SaveRowAgain,
             RevokeFunctionReleases, DeleteRow, RemoveWorkspace,
             RevokeOrphanedPublished, HasApprovedArtifact,
             RequireRuntimeAccess, InvokeRun, RecordExecution, JobFails,
             Process
      <3> QED BY <2>3, <2>6, <3>1 DEF Step, ArtifactSnapshot, StageReuse,
             StageVersion, CreateStaged, PromoteCheck, Promote,
             VerifyPromoted, Publish, ListPublished, LoadApprovedArtifacts,
             SaveRow, SaveRowAgain, RevokeFunctionReleases, DeleteRow,
             RemoveWorkspace, RevokeOrphanedPublished, HasApprovedArtifact,
             RequireRuntimeAccess, InvokeRun, RecordExecution, JobFails, At
    <2> QED BY <2>1, <2>2, <2>4, <2>5, <2>6
  <1> QED BY <1>1, <1>2, Invariance, PTL DEF Spec

-----------------------------------------------------------------------------
(* A release row is never taken away, keeps its function, version and      *)
(* artifact, and once published or revoked never counts as staged again.   *)
RowsImmutable ==
    \A r \in ReleaseIds :
        Listed(r) => /\ Listed(r)'
                     /\ releases'[r].fn = releases[r].fn
                     /\ releases'[r].version = releases[r].version
                     /\ releases'[r].sha = releases[r].sha
                     /\ Released(r) => Released(r)'

(* Revoking keeps what a row binds.                                        *)
LEMMA RevokedImmutable ==
    ASSUME Inv, NEW S, releases' = Revoked(S)
    PROVE  RowsImmutable
  <1>1. \A r \in ReleaseIds :
          releases'[r] = IF r \in S /\ releases[r].status = "published"
                         THEN [releases[r] EXCEPT !.status = "revoked"]
                         ELSE releases[r]
    BY DEF Revoked
  <1>2. \A r \in ReleaseIds : releases[r] \in Release
    BY DEF Inv, TypeOK
  <1> QED BY <1>1, <1>2 DEF RowsImmutable, Listed, Released, Release

(* The transaction of publish changes statuses only.                       *)
LEMMA PublishImmutable ==
    ASSUME Inv, NEW w \in Workers, Publish(w)
    PROVE  RowsImmutable
  <1>1. PICK n \in ReleaseIds :
          releases' = [Revoked(ReleasesOf(job[w].fn)) EXCEPT
                         ![n].status = "published"]
    BY DEF Publish, At, Inv, Jobs, Good
  <1> DEFINE R == Revoked(ReleasesOf(job[w].fn))
  <1>2. \A r \in ReleaseIds : releases[r] \in Release
    BY DEF Inv, TypeOK
  <1>3. \A r \in ReleaseIds :
          /\ R[r] \in Release
          /\ R[r].fn = releases[r].fn /\ R[r].sha = releases[r].sha
          /\ R[r].version = releases[r].version
          /\ R[r].status = "none" <=> releases[r].status = "none"
          /\ Released(r) => R[r].status \in {"published", "revoked"}
    <2>1. \A r \in ReleaseIds :
            R[r] = IF r \in ReleasesOf(job[w].fn)
                      /\ releases[r].status = "published"
                   THEN [releases[r] EXCEPT !.status = "revoked"]
                   ELSE releases[r]
      BY DEF Revoked
    <2> HIDE DEF R
    <2> QED BY <1>2, <2>1 DEF Release, Released
  <1>4. \A r \in ReleaseIds :
          releases'[r] = IF r = n THEN [R[r] EXCEPT !.status = "published"]
                         ELSE R[r]
    BY <1>1 DEF Revoked
  <1> HIDE DEF R
  <1> QED BY <1>3, <1>4 DEF RowsImmutable, Listed, Released, Release

(* A new row takes an id that no row had.                                  *)
LEMMA NewRowImmutable ==
    ASSUME Inv, nextId \in ReleaseIds, NEW x,
           releases' = [releases EXCEPT ![nextId] = x]
    PROVE  RowsImmutable
  <1>1. ~ Listed(nextId)
    BY DEF Inv, TypeOK, Rows, ReleaseIds
  <1>2. \A r \in ReleaseIds \ {nextId} : releases'[r] = releases[r]
    BY DEF Inv, TypeOK
  <1> QED BY <1>1, <1>2 DEF RowsImmutable, Listed, Released

(* What any step does to the rows.                                         *)
LEMMA ImmutableStep ==
    ASSUME Inv, [Next]_vars
    PROVE  RowsImmutable
  <1>1. CASE UNCHANGED releases
    BY <1>1 DEF RowsImmutable, Listed, Released
  <1>2. ASSUME NEW w \in Workers, Request(w) PROVE UNCHANGED releases
    BY <1>2 DEF Request, UpdateFunctionPublish, UpdateFunctionUnpublish,
         UpdateFunctionEdit, ApplyFunctionCode, DeleteFunction, Begin,
         ActiveForApp, ReloadGeneratedApps, Tables
  <1>3. ASSUME NEW w \in Workers, Step(w) PROVE RowsImmutable
    <2>1. CASE RevokeFunctionReleases(w) \/ RevokeOrphanedPublished(w)
      BY <2>1, RevokedImmutable
         DEF RevokeFunctionReleases, RevokeOrphanedPublished
    <2>2. CASE CreateStaged(w)
      BY <2>2, NewRowImmutable DEF CreateStaged
    <2>3. \/ UNCHANGED releases
          \/ RevokeFunctionReleases(w) \/ RevokeOrphanedPublished(w)
          \/ CreateStaged(w) \/ Publish(w)
      BY <1>3 DEF Step, ArtifactSnapshot, StageReuse, StageVersion,
           PromoteCheck, Promote, VerifyPromoted, ListPublished,
           LoadApprovedArtifacts, SaveRow, SaveRowAgain, DeleteRow,
           RemoveWorkspace, HasApprovedArtifact, RequireRuntimeAccess,
           InvokeRun, RecordExecution, JobFails, Tables
    <2> QED BY <1>1, <2>1, <2>2, <2>3, PublishImmutable
  <1>4. ASSUME NEW f \in Functions, BackfillPublished(f)
        PROVE  RowsImmutable
    <2>1. CASE PublishedOf(f) # {}
      BY <1>1, <1>4, <2>1 DEF BackfillPublished
    <2>2. CASE PublishedOf(f) = {}
      BY <1>4, <2>2, NewRowImmutable DEF BackfillPublished
    <2> QED BY <2>1, <2>2
  <1>5. CASE BootRevokeOrphans
    BY <1>5, RevokedImmutable DEF BootRevokeOrphans
  <1>6. ASSUME \/ \E f \in Functions : CreateFunction(f)
               \/ \E f \in Functions, c \in Contents \cup {None} :
                     AgentEdit(f, c)
               \/ ReconcileList \/ ReconcileSweep \/ Crash
               \/ BootStart \/ BootReconcile \/ BootRestore
        PROVE  UNCHANGED releases
    BY <1>6 DEF CreateFunction, AgentEdit, ReconcileList, ReconcileSweep,
         Crash, BootStart, BootReconcile, BootRestore, Tables
  <1> QED BY <1>1, <1>2, <1>3, <1>4, <1>5, <1>6 DEF Next, Boot, vars

(* Releases are immutable: for any number of functions, requests and       *)
(* releases, no publication, revocation, deletion, backfill, failure or    *)
(* crash changes which artifact a release binds to its function's version, *)
(* and a release that was in force is never staged again.                  *)
THEOREM ReleasesImmutable == Spec => [][RowsImmutable]_vars
  BY ImmutableStep, Invariance, PTL DEF Spec

-----------------------------------------------------------------------------
(***************************************************************************)
(* The pointer of a published row when requests come one at a time and     *)
(* none deletes.  The row copy that a request will write back then points  *)
(* at the published release from the moment it was read, or from the       *)
(* request's own transaction on: only that transaction revokes releases of *)
(* a function that has a row, and it moves the pointer at the same time.   *)
(***************************************************************************)

(* No two requests are in flight together, and none deletes a function.    *)
SerialWithoutDeletion ==
    /\ \A v, w \in Workers : v = w
    /\ "delete" \notin Ops

(* A row that is shown as published points at a published release.         *)
Points(row) ==
    (row.status = "published" /\ row.active # None) =>
        releases[row.active].status = "published"

JobPoints(j) ==
    /\ j.pc \notin {"revoke", "drop", "rmdir"}
    /\ j.pc \in {"idle", "orphans"} => j.row.status = "draft"
    /\ Points(j.row)

PointerInv ==
    /\ Inv
    /\ \A w \in Workers : JobPoints(job[w])
    /\ PointerIsPublished

(* The invariant speaks of published rows only.                            *)
LEMMA DraftPoints ==
    /\ JobPoints(Idle)
    /\ Points(BlankRow)
  BY DEF JobPoints, Points, Idle, BlankRow

(* A request moves, and no row of a table changes.                         *)
LEMMA MovePoints ==
    ASSUME PointerInv, Inv', NEW w \in Workers, NEW j, Become(w, j),
           JobPoints(j), UNCHANGED <<function, releases>>
    PROVE  PointerInv'
  <1>1. \A v \in Workers : job'[v] = IF v = w THEN j ELSE job[v]
    BY DEF Become, PointerInv, Inv, TypeOK
  <1>2. \A v \in Workers : JobPoints(job[v])'
    BY <1>1 DEF PointerInv, JobPoints, Points
  <1>3. PointerIsPublished'
    BY DEF PointerInv, PointerIsPublished
  <1> QED BY <1>2, <1>3 DEF PointerInv

(* A request moves on and keeps its row copy.                              *)
LEMMA KeepRowPoints ==
    ASSUME PointerInv, Inv', NEW w \in Workers, NEW j, Become(w, j),
           j.row = job[w].row,
           j.pc \notin {"revoke", "drop", "rmdir", "idle", "orphans"},
           UNCHANGED <<function, releases>>
    PROVE  PointerInv'
  BY MovePoints DEF PointerInv, JobPoints

(* A handler that arrives, other than the deletion.                        *)
LEMMA BeginPoints ==
    ASSUME PointerInv, Inv', NEW w \in Workers, NEW op, NEW f \in Functions,
           NEW pc \in {"snapshot", "save"}, Begin(w, op, f, pc)
    PROVE  PointerInv'
  <1> DEFINE j == [Idle EXCEPT !.pc = pc, !.op = op, !.fn = f,
                               !.row = function[f]]
  <1>1. Become(w, j) /\ UNCHANGED <<function, releases>> /\ function[f] # None
    BY DEF Begin, Tables
  <1>2. j.pc = pc /\ j.row = function[f]
    BY DEF Idle
  <1>3. Points(function[f])
    BY <1>1 DEF PointerInv, PointerIsPublished, Points
  <1> HIDE DEF j
  <1>4. JobPoints(j)
    BY <1>2, <1>3 DEF JobPoints
  <1> QED BY <1>1, <1>4, MovePoints

(* Every request that arrives.                                             *)
LEMMA RequestPoints ==
    ASSUME SerialWithoutDeletion, PointerInv, Inv', NEW w \in Workers,
           Request(w)
    PROVE  PointerInv'
  <1>1. ASSUME NEW f \in Functions,
               \/ UpdateFunctionPublish(w, f) \/ UpdateFunctionUnpublish(w, f)
               \/ UpdateFunctionEdit(w, f) \/ ApplyFunctionCode(w, f)
        PROVE  PointerInv'
    BY <1>1, BeginPoints
       DEF UpdateFunctionPublish, UpdateFunctionUnpublish, UpdateFunctionEdit,
           ApplyFunctionCode
  <1>2. ASSUME NEW f \in Functions, DeleteFunction(w, f) PROVE PointerInv'
    BY <1>2 DEF DeleteFunction, Begin, SerialWithoutDeletion
  <1>3. ASSUME NEW f \in Functions, ActiveForApp(w, f) PROVE PointerInv'
    <2>1. PICK r \in ReleaseIds :
             Become(w, [Idle EXCEPT !.pc = "check", !.op = "invoke",
                                    !.fn = f, !.rel = r])
      BY <1>3 DEF ActiveForApp
    <2> DEFINE j == [Idle EXCEPT !.pc = "check", !.op = "invoke", !.fn = f,
                                 !.rel = r]
    <2>2. JobPoints(j)
      BY DEF JobPoints, Points, Idle, BlankRow
    <2>3. Become(w, j) /\ UNCHANGED <<function, releases>>
      BY <1>3, <2>1 DEF ActiveForApp, Tables
    <2> HIDE DEF j
    <2> QED BY <2>2, <2>3, MovePoints
  <1>4. ASSUME ReloadGeneratedApps(w) PROVE PointerInv'
    <2> DEFINE j == [Idle EXCEPT !.pc = "orphans", !.op = "reload"]
    <2>1. JobPoints(j)
      BY DEF JobPoints, Points, Idle, BlankRow
    <2>2. Become(w, j) /\ UNCHANGED <<function, releases>>
      BY <1>4 DEF ReloadGeneratedApps, Tables
    <2> HIDE DEF j
    <2> QED BY <2>1, <2>2, MovePoints
  <1> QED BY <1>1, <1>2, <1>3, <1>4 DEF Request

(* The steps of a request that write neither table.                        *)
LEMMA StepPoints ==
    ASSUME PointerInv, Inv', NEW w \in Workers,
           \/ ArtifactSnapshot(w) \/ StageReuse(w) \/ StageVersion(w)
           \/ PromoteCheck(w) \/ Promote(w) \/ VerifyPromoted(w)
           \/ ListPublished(w) \/ LoadApprovedArtifacts(w)
           \/ HasApprovedArtifact(w) \/ RequireRuntimeAccess(w)
           \/ InvokeRun(w) \/ RecordExecution(w) \/ JobFails(w)
    PROVE  PointerInv'
  <1>0. job[w] \in Job
    BY DEF PointerInv, Inv, TypeOK
  <1>a. UNCHANGED <<function, releases>>
    BY DEF ArtifactSnapshot, StageReuse, StageVersion, PromoteCheck, Promote,
           VerifyPromoted, ListPublished, LoadApprovedArtifacts,
           HasApprovedArtifact, RequireRuntimeAccess, InvokeRun,
           RecordExecution, JobFails, Tables
  <1>1. ASSUME NEW pc \in {"bundle", "verify", "commit", "access", "run"},
               Goto(w, pc)
        PROVE  PointerInv'
    <2>1. [job[w] EXCEPT !.pc = pc].row = job[w].row
          /\ [job[w] EXCEPT !.pc = pc].pc = pc
      BY <1>0 DEF Job
    <2> QED BY <1>a, <1>1, <2>1, KeepRowPoints DEF Goto
  <1>2. CASE \/ PromoteCheck(w) \/ Promote(w) \/ VerifyPromoted(w)
             \/ HasApprovedArtifact(w) \/ RequireRuntimeAccess(w)
    BY <1>1, <1>2 DEF PromoteCheck, Promote, VerifyPromoted,
                      HasApprovedArtifact, RequireRuntimeAccess
  <1>3. CASE RecordExecution(w) \/ JobFails(w)
    BY <1>a, <1>3, DraftPoints, MovePoints
       DEF RecordExecution, JobFails, Finish
  <1>4. CASE ArtifactSnapshot(w)
    <2> DEFINE j == [job[w] EXCEPT !.pc = "latest",
                                   !.sha = workspace[job[w].fn]]
    <2>1. j.row = job[w].row /\ j.pc = "latest"
      BY <1>0 DEF Job
    <2>2. Become(w, j)
      BY <1>4 DEF ArtifactSnapshot
    <2> HIDE DEF j
    <2> QED BY <1>a, <2>1, <2>2, KeepRowPoints
  <1>5. CASE StageReuse(w)
    <2>1. PICK r \in ReleaseIds : Become(w, Staged(w, r))
      BY <1>5 DEF StageReuse
    <2>2. Staged(w, r).row = job[w].row /\ Staged(w, r).pc \in {"promote", "save"}
      BY <1>0 DEF Staged, Job
    <2> QED BY <1>a, <2>1, <2>2, KeepRowPoints
  <1>6. CASE StageVersion(w)
    <2>1. PICK v : Become(w, [job[w] EXCEPT !.pc = "create", !.version = v])
      BY <1>6 DEF StageVersion
    <2> DEFINE j == [job[w] EXCEPT !.pc = "create", !.version = v]
    <2>2. j.row = job[w].row /\ j.pc = "create"
      BY <1>0 DEF Job
    <2>3. Become(w, j)
      BY <2>1
    <2> HIDE DEF j
    <2> QED BY <1>a, <2>2, <2>3, KeepRowPoints
  <1>7. CASE ListPublished(w)
    <2> DEFINE j == [job[w] EXCEPT !.pc = "load", !.list = Published]
    <2>1. j.row = job[w].row /\ j.pc = "load"
      BY <1>0 DEF Job
    <2>2. Become(w, j)
      BY <1>7 DEF ListPublished
    <2> HIDE DEF j
    <2> QED BY <1>a, <2>1, <2>2, KeepRowPoints
  <1>8. CASE LoadApprovedArtifacts(w)
    <2>1. Become(w, AfterLoad(w))
      BY <1>8 DEF LoadApprovedArtifacts
    <2>2. \/ AfterLoad(w) = Idle
          \/ AfterLoad(w).row = job[w].row /\ AfterLoad(w).pc = "save"
      BY <1>0 DEF AfterLoad, Job
    <2> QED BY <1>a, <2>1, <2>2, KeepRowPoints, DraftPoints, MovePoints
  <1>9. CASE InvokeRun(w)
    <2> DEFINE j == [job[w] EXCEPT !.pc = "record",
                                   !.sha = approved[job[w].fn]]
    <2>1. j.row = job[w].row /\ j.pc = "record"
      BY <1>0 DEF Job
    <2>2. Become(w, j)
      BY <1>9 DEF InvokeRun
    <2> HIDE DEF j
    <2> QED BY <1>a, <2>1, <2>2, KeepRowPoints
  <1> QED BY <1>2, <1>3, <1>4, <1>5, <1>6, <1>7, <1>8, <1>9

(* What the invariant says of a pointer: it lies in the table and belongs  *)
(* to its function.                                                        *)
LEMMA PointerOwned ==
    ASSUME PointerInv
    PROVE  /\ \A f \in Functions :
                (/\ function[f] # None /\ function[f].status = "published"
                 /\ function[f].active # None) =>
                    Owned(f, function[f].active)
           /\ \A w \in Workers :
                job[w].row.status = "published" =>
                    Owned(job[w].fn, job[w].row.active)
  BY DEF PointerInv, Inv, ActivePointer, Owned, Jobs, Good

(* A staged row takes an id that nothing points at.                        *)
LEMMA CreatePoints ==
    ASSUME SerialWithoutDeletion, PointerInv, Inv', NEW w \in Workers,
           CreateStaged(w)
    PROVE  PointerInv'
  <1>1. /\ job[w] \in Job /\ nextId \in ReleaseIds /\ ~ Listed(nextId)
        /\ job \in [Workers -> Job] /\ \A v \in Workers : v = w
    BY DEF CreateStaged, PointerInv, Inv, TypeOK, Rows, ReleaseIds,
           SerialWithoutDeletion
  <1>2. \A r \in ReleaseIds :
          releases[r].status = "published" => releases'[r].status = "published"
    BY <1>1 DEF CreateStaged, PointerInv, Inv, TypeOK, Listed
  <1>3. /\ Staged(w, nextId).row = job[w].row
        /\ Staged(w, nextId).pc \in {"promote", "save"}
    BY <1>1 DEF Staged, Job
  <1>4. function' = function /\ job'[w] = Staged(w, nextId)
    BY <1>1 DEF CreateStaged, Become
  <1>5. Points(job[w].row)'
    BY <1>1, <1>2, <1>3, <1>4, PointerOwned
       DEF PointerInv, JobPoints, Points, Owned
  <1>6. JobPoints(job[w])'
    BY <1>3, <1>4, <1>5 DEF JobPoints
  <1>7. PointerIsPublished'
    BY <1>2, <1>4, PointerOwned DEF PointerInv, PointerIsPublished, Owned
  <1> QED BY <1>1, <1>6, <1>7 DEF PointerInv

(* The transaction of publish revokes the function's other releases and    *)
(* moves both pointers, the row's and the copy's.                          *)
LEMMA PublishPoints ==
    ASSUME SerialWithoutDeletion, PointerInv, Inv', NEW w \in Workers,
           Publish(w)
    PROVE  PointerInv'
  <1> DEFINE f == job[w].fn
             n == job[w].rel
             row == [job[w].row EXCEPT !.status = "published", !.active = n]
             j == [job[w] EXCEPT !.pc = "list", !.row = row]
  <1>1. /\ job[w] \in Job /\ job \in [Workers -> Job]
        /\ \A v \in Workers : v = w
        /\ f \in Functions /\ n \in ReleaseIds
        /\ function \in [Functions -> Row \cup {None}]
        /\ releases \in [ReleaseIds -> Release]
    BY DEF Publish, At, PointerInv, Inv, TypeOK, Jobs, Good,
           SerialWithoutDeletion
  <1>2. /\ releases' = [Revoked(ReleasesOf(f)) EXCEPT ![n].status = "published"]
        /\ function' = IF function[f] = None THEN function
                       ELSE [function EXCEPT ![f].active = n]
    BY DEF Publish
  <1>3. Become(w, j)
    BY <1>1 DEF Publish, Job, Row
  <1>4. j.pc = "list" /\ j.row = row /\ row.active = n
    BY <1>1 DEF Job, Row
  <1> HIDE DEF j, row, f, n
  <1>5. releases'[n].status = "published"
    BY <1>1, <1>2 DEF Revoked, Release
  <1>6. \A r \in ReleaseIds :
          (releases[r].fn # f /\ releases[r].status = "published") =>
             releases'[r].status = "published"
    <2>1. \A r \in ReleaseIds \ {n} : releases'[r] = Revoked(ReleasesOf(f))[r]
      BY <1>2 DEF Revoked
    <2>2. \A r \in ReleaseIds :
            releases[r].fn # f => Revoked(ReleasesOf(f))[r] = releases[r]
      BY DEF Revoked, ReleasesOf
    <2> QED BY <1>5, <2>1, <2>2
  <1>7. job'[w] = j
    BY <1>1, <1>3 DEF Become
  <1>8. JobPoints(job[w])'
    BY <1>4, <1>5, <1>7 DEF JobPoints, Points
  <1>9. ASSUME NEW g \in Functions, function'[g] # None,
               function'[g].status = "published", function'[g].active # None
        PROVE  releases'[function'[g].active].status = "published"
    <2>1. CASE g = f
      BY <1>1, <1>2, <1>5, <1>9, <2>1 DEF Row
    <2>2. CASE g # f
      <3>1. function'[g] = function[g]
        BY <1>1, <1>2, <2>2
      <3>2. /\ Owned(g, function[g].active)
            /\ releases[function[g].active].status = "published"
        BY <1>9, <3>1, PointerOwned DEF PointerInv, PointerIsPublished
      <3> QED BY <1>6, <2>2, <3>1, <3>2 DEF Owned
    <2> QED BY <2>1, <2>2
  <1> QED BY <1>1, <1>8, <1>9 DEF PointerInv, PointerIsPublished

(* The writes of the whole row.                                            *)
LEMMA SavePoints ==
    ASSUME SerialWithoutDeletion, PointerInv, Inv', NEW w \in Workers,
           SaveRow(w) \/ SaveRowAgain(w)
    PROVE  PointerInv'
  <1>1. /\ job[w] \in Job /\ job[w].row \in Row /\ job \in [Workers -> Job]
        /\ \A v \in Workers : v = w
        /\ function \in [Functions -> Row \cup {None}]
        /\ Points(job[w].row)
    BY DEF PointerInv, Inv, TypeOK, JobPoints, SerialWithoutDeletion, Job
  <1>2. Points(SavedRow(w))
    BY <1>1 DEF SavedRow, Points, Row
  <1>3. /\ function' = IF function[job[w].fn] = None THEN function
                       ELSE [function EXCEPT ![job[w].fn] = SavedRow(w)]
        /\ releases' = releases
    BY DEF SaveRow, SaveRowAgain
  <1>4. PointerIsPublished'
    BY <1>1, <1>2, <1>3 DEF PointerInv, PointerIsPublished, Points
  <1>5. \/ job'[w] = Idle
        \/ job'[w].row = job[w].row /\ job'[w].pc = "saveAgain"
    BY <1>1 DEF SaveRow, SaveRowAgain, Finish, Goto, Become, Job
  <1>6. JobPoints(job[w])'
    BY <1>1, <1>3, <1>5, DraftPoints DEF JobPoints, Points
  <1> QED BY <1>1, <1>4, <1>6 DEF PointerInv

(* Revoking the releases of functions without a row, with no row copy in   *)
(* flight.                                                                 *)
LEMMA OrphanPoints ==
    ASSUME PointerInv, Inv', releases' = Revoked(Orphans),
           function' = function,
           \A w \in Workers : job[w].row.status = "draft",
           \A w \in Workers :
              /\ job'[w].row = job[w].row
              /\ job'[w].pc \in {job[w].pc, "list"}
    PROVE  PointerInv'
  <1>1. \A r \in ReleaseIds : r \notin Orphans => releases'[r] = releases[r]
    BY DEF Revoked
  <1>2. PointerIsPublished'
    <2> SUFFICES ASSUME NEW f \in Functions, function[f] # None,
                        function[f].status = "published",
                        function[f].active # None
                 PROVE  releases'[function[f].active].status = "published"
      BY DEF PointerIsPublished
    <2>1. /\ Owned(f, function[f].active)
          /\ releases[function[f].active].status = "published"
      BY PointerOwned DEF PointerInv, PointerIsPublished
    <2> QED BY <1>1, <2>1 DEF Owned, Orphans
  <1>3. \A w \in Workers : JobPoints(job[w])'
    BY DEF PointerInv, JobPoints, Points
  <1> QED BY <1>2, <1>3 DEF PointerInv

(* The backfill points a legacy row at a published release.                *)
LEMMA BackfillPoints ==
    ASSUME PointerInv, Inv', NEW f \in Functions, BackfillPublished(f)
    PROVE  PointerInv'
  <1>1. /\ job' = job /\ \A w \in Workers : job[w].pc = "idle"
        /\ function \in [Functions -> Row \cup {None}] /\ function[f] \in Row
        /\ releases \in [ReleaseIds -> Release]
        /\ nextId \in ReleaseIds => ~ Listed(nextId)
    BY DEF BackfillPublished, IsLegacy, PointerInv, Inv, TypeOK, Jobs, Good,
           Rows, ReleaseIds
  <1>2. PICK n \in ReleaseIds :
          /\ function' = [function EXCEPT ![f].active = n]
          /\ releases'[n].status = "published"
          /\ \A r \in ReleaseIds :
                releases[r].status = "published" =>
                   releases'[r].status = "published"
    <2>1. CASE PublishedOf(f) # {}
      BY <2>1 DEF BackfillPublished, IsFirst, PublishedOf, Published
    <2>2. CASE PublishedOf(f) = {}
      BY <1>1, <2>2 DEF BackfillPublished, Listed
    <2> QED BY <2>1, <2>2
  <1>3. \A w \in Workers : JobPoints(job[w])'
    BY <1>1 DEF PointerInv, JobPoints, Points
  <1>4. ASSUME NEW g \in Functions, function'[g] # None,
               function'[g].status = "published", function'[g].active # None
        PROVE  releases'[function'[g].active].status = "published"
    <2>1. CASE g = f
      BY <1>1, <1>2, <2>1 DEF Row
    <2>2. CASE g # f
      <3>1. function'[g] = function[g]
        BY <1>1, <1>2, <2>2
      <3>2. /\ Owned(g, function[g].active)
            /\ releases[function[g].active].status = "published"
        BY <1>4, <3>1, PointerOwned DEF PointerInv, PointerIsPublished
      <3> QED BY <1>2, <3>1, <3>2 DEF Owned
    <2> QED BY <2>1, <2>2
  <1> QED BY <1>3, <1>4 DEF PointerInv, PointerIsPublished

(* Steps that leave the requests and the release table alone.              *)
LEMMA QuietPoints ==
    ASSUME PointerInv, Inv', releases' = releases,
           \/ function' = function
           \/ \E f \in Functions : CreateFunction(f),
           job' = job \/ job' = [w \in Workers |-> Idle]
    PROVE  PointerInv'
  <1>1. \A w \in Workers : JobPoints(job[w])'
    BY DraftPoints DEF PointerInv, JobPoints, Points
  <1>2. PointerIsPublished'
    <2>1. CASE function' = function
      BY <2>1 DEF PointerInv, PointerIsPublished
    <2>2. ASSUME NEW f \in Functions, CreateFunction(f)
          PROVE  PointerIsPublished'
      <3>1. \A g \in Functions :
              function'[g] = IF g = f THEN BlankRow ELSE function[g]
        BY <2>2 DEF CreateFunction, PointerInv, Inv, TypeOK
      <3>2. BlankRow.status # "published"
        BY DEF BlankRow
      <3> QED BY <3>1, <3>2 DEF PointerInv, PointerIsPublished
    <2> QED BY <2>1, <2>2
  <1> QED BY <1>1, <1>2 DEF PointerInv

(* With one request at a time and no deletion, whatever fails or crashes   *)
(* on the way and however agents edit the workspace, a row shown as        *)
(* published points at the release that is published.                      *)
THEOREM PublishedRowsPointAtPublished ==
    ASSUME SerialWithoutDeletion
    PROVE  Spec => []PointerIsPublished
  <1>1. Init => PointerInv
    <2> SUFFICES ASSUME Init PROVE PointerInv
      OBVIOUS
    <2>1. \A w \in Workers : JobPoints(job[w])
      BY DraftPoints DEF Init
    <2>2. PointerIsPublished
      BY DEF Init, PointerIsPublished, LegacyRow
    <2> QED BY <2>1, <2>2, InitInv DEF PointerInv
  <1>2. PointerInv /\ [Next]_vars => PointerInv'
    <2> SUFFICES ASSUME PointerInv, [Next]_vars PROVE PointerInv'
      OBVIOUS
    <2>1. Inv'
      BY NextInv DEF PointerInv
    <2>2. ASSUME NEW w \in Workers, Request(w) PROVE PointerInv'
      BY <2>1, <2>2, RequestPoints
    <2>3. ASSUME NEW w \in Workers, Step(w) PROVE PointerInv'
      <3>1. job[w].pc \notin {"revoke", "drop", "rmdir"}
        BY DEF PointerInv, JobPoints
      <3>2. CASE RevokeOrphanedPublished(w)
        <4>1. /\ job[w].pc = "orphans" /\ job[w] \in Job
              /\ job \in [Workers -> Job] /\ \A v \in Workers : v = w
          BY <3>2 DEF RevokeOrphanedPublished, At, PointerInv, Inv, TypeOK,
                      SerialWithoutDeletion
        <4>2. job'[w].row = job[w].row /\ job'[w].pc = "list"
          BY <3>2, <4>1 DEF RevokeOrphanedPublished, Goto, Become, Job
        <4>3. job[w].row.status = "draft"
          BY <4>1 DEF PointerInv, JobPoints
        <4> QED BY <2>1, <3>2, <4>1, <4>2, <4>3, OrphanPoints
                DEF RevokeOrphanedPublished
      <3>3. CASE \/ RevokeFunctionReleases(w) \/ DeleteRow(w)
                 \/ RemoveWorkspace(w)
        BY <3>1, <3>3 DEF RevokeFunctionReleases, DeleteRow, RemoveWorkspace, At
      <3> QED BY <2>1, <2>3, <3>2, <3>3, StepPoints, CreatePoints,
                 PublishPoints, SavePoints DEF Step
    <2>4. CASE BootRevokeOrphans
      <3>1. \A w \in Workers : job[w].pc = "idle"
        BY <2>4 DEF BootRevokeOrphans, PointerInv, Inv, Jobs, Good
      <3>2. \A w \in Workers : job[w].row.status = "draft"
        BY <3>1 DEF PointerInv, JobPoints
      <3> QED BY <2>1, <2>4, <3>2, OrphanPoints DEF BootRevokeOrphans
    <2>5. ASSUME NEW f \in Functions, BackfillPublished(f) PROVE PointerInv'
      BY <2>1, <2>5, BackfillPoints
    <2>6. CASE \/ \E f \in Functions : CreateFunction(f)
               \/ \E f \in Functions, c \in Contents \cup {None} : AgentEdit(f, c)
               \/ ReconcileList \/ ReconcileSweep \/ Crash
               \/ BootStart \/ BootReconcile \/ BootRestore
               \/ UNCHANGED vars
      <3>1. /\ releases' = releases
            /\ \/ function' = function
               \/ \E f \in Functions : CreateFunction(f)
            /\ job' = job \/ job' = [w \in Workers |-> Idle]
        BY <2>6 DEF CreateFunction, AgentEdit, ReconcileList, ReconcileSweep,
             Crash, BootStart, BootReconcile, BootRestore, vars, Tables,
             Files, Process
      <3> QED BY <2>1, <3>1, QuietPoints
    <2> QED BY <2>2, <2>3, <2>4, <2>5, <2>6 DEF Next, Boot
  <1>3. PointerInv => PointerIsPublished
    BY DEF PointerInv
  <1> QED BY <1>1, <1>2, <1>3, PTL DEF Spec

-----------------------------------------------------------------------------
(***************************************************************************)
(* One request at a time.  Stage computes the version of a new release     *)
(* outside the transaction that inserts it, and Invoke checks a release    *)
(* before it runs whatever is loaded; what these steps rely on is that no  *)
(* other request comes between them.                                       *)
(***************************************************************************)

OneRequest == \A v, w \in Workers : v = w

(* Later rows of a function have higher versions.                          *)
VersionsGrow ==
    \A r, q \in ReleaseIds :
        (/\ Listed(r) /\ Listed(q)
         /\ releases[r].fn = releases[q].fn
         /\ r < q) => releases[r].version < releases[q].version

(* The version a request is about to use is above those in the table.      *)
Fresh ==
    \A w \in Workers : job[w].pc = "create" =>
        \A r \in ReleaseIds :
            (Listed(r) /\ releases[r].fn = job[w].fn) =>
                releases[r].version < job[w].version

(* A function waiting for the backfill has no release yet.                 *)
LegacyBare == \A f \in Functions : IsLegacy(f) => ReleasesOf(f) = {}

(* An invocation holds a release of its function, which is the one loaded. *)
Checks(j) ==
    /\ j.pc \in {"check", "access", "run", "record"} =>
         j.rel \in ReleaseIds /\ Listed(j.rel) /\ releases[j.rel].fn = j.fn
    /\ j.pc \in {"access", "run"} => approved[j.fn] = releases[j.rel].sha
    /\ j.pc = "record" => j.sha = releases[j.rel].sha

Checked == \A w \in Workers : Checks(job[w])

SerialInv == Inv /\ VersionsGrow /\ Fresh /\ LegacyBare /\ Checked

(* New rows come from staging and from the backfill.                       *)
LEMMA RowsAppear ==
    ASSUME Inv, [Next]_vars, NEW r \in ReleaseIds, ~ Listed(r), Listed(r)'
    PROVE  /\ r = nextId
           /\ \/ \E w \in Workers : CreateStaged(w)
              \/ \E f \in Functions :
                    BackfillPublished(f) /\ PublishedOf(f) = {}
  <1>1. \A S : releases' # Revoked(S)
    <2>1. \A S : Revoked(S)[r] = releases[r]
      BY DEF Revoked, Listed
    <2> QED BY <2>1 DEF Listed
  <1>2. releases' # releases
    BY DEF Listed
  <1>3. ASSUME NEW w \in Workers, Request(w) PROVE FALSE
    BY <1>2, <1>3 DEF Request, UpdateFunctionPublish, UpdateFunctionUnpublish,
         UpdateFunctionEdit, ApplyFunctionCode, DeleteFunction, Begin,
         ActiveForApp, ReloadGeneratedApps, Tables
  <1>4. ASSUME NEW w \in Workers, Step(w) PROVE CreateStaged(w) /\ r = nextId
    <2>1. CASE Publish(w)
      <3>1. /\ job[w].rel \in ReleaseIds /\ Listed(job[w].rel)
            /\ Revoked(ReleasesOf(job[w].fn))[r] = releases[r]
        BY <2>1 DEF Publish, At, Inv, Jobs, Good, Revoked, Listed
      <3>2. releases'[r] = releases[r]
        BY <2>1, <3>1 DEF Publish, Revoked
      <3> QED BY <3>2 DEF Listed
    <2>2. CASE CreateStaged(w)
      <3>1. releases' = [releases EXCEPT ![nextId] = releases'[nextId]]
        BY <2>2 DEF CreateStaged, Inv, TypeOK
      <3>2. r # nextId => releases'[r] = releases[r]
        BY <3>1 DEF Inv, TypeOK
      <3> QED BY <2>2, <3>2 DEF Listed
    <2> QED BY <1>1, <1>2, <1>4, <2>1, <2>2
       DEF Step, ArtifactSnapshot, StageReuse, StageVersion, PromoteCheck,
           Promote, VerifyPromoted, ListPublished, LoadApprovedArtifacts,
           SaveRow, SaveRowAgain, DeleteRow, RemoveWorkspace,
           RevokeFunctionReleases, RevokeOrphanedPublished,
           HasApprovedArtifact, RequireRuntimeAccess, InvokeRun,
           RecordExecution, JobFails, Tables
  <1>5. ASSUME NEW f \in Functions, BackfillPublished(f)
        PROVE  PublishedOf(f) = {} /\ r = nextId
    <2>1. PublishedOf(f) = {}
      BY <1>2, <1>5 DEF BackfillPublished
    <2>2. r # nextId => releases'[r] = releases[r]
      BY <1>5, <2>1 DEF BackfillPublished, Inv, TypeOK
    <2> QED BY <2>1, <2>2 DEF Listed
  <1>6. CASE \/ \E f \in Functions : CreateFunction(f)
             \/ \E f \in Functions, c \in Contents \cup {None} : AgentEdit(f, c)
             \/ ReconcileList \/ ReconcileSweep \/ Crash
             \/ BootStart \/ BootReconcile \/ BootRestore
             \/ UNCHANGED vars
    BY <1>2, <1>6 DEF CreateFunction, AgentEdit, ReconcileList, ReconcileSweep,
         Crash, BootStart, BootReconcile, BootRestore, Tables, vars
  <1>7. CASE BootRevokeOrphans
    BY <1>1, <1>7 DEF BootRevokeOrphans
  <1> QED BY <1>3, <1>4, <1>5, <1>6, <1>7 DEF Next, Boot

(* Versions keep growing: a new row is above the others.                   *)
LEMMA VersionsGrowStep ==
    ASSUME SerialInv, [Next]_vars
    PROVE  VersionsGrow'
  <1> SUFFICES ASSUME NEW r \in ReleaseIds, NEW q \in ReleaseIds,
                      Listed(r)', Listed(q)', r < q,
                      releases'[r].fn = releases'[q].fn
               PROVE  releases'[r].version < releases'[q].version
    BY DEF VersionsGrow
  <1>1. Inv /\ RowsImmutable
    BY ImmutableStep DEF SerialInv
  <1>2. Listed(r)
    <2>1. Listed(q) => Listed(r)
      BY <1>1 DEF Inv, TypeOK, Rows, ReleaseIds
    <2>2. ~ Listed(q) => q = nextId
      BY <1>1, RowsAppear
    <2> QED BY <1>1, <2>1, <2>2 DEF Inv, TypeOK, Rows, ReleaseIds
  <1>3. /\ releases'[r].fn = releases[r].fn
        /\ releases'[r].version = releases[r].version
    BY <1>1, <1>2 DEF RowsImmutable
  <1>4. CASE Listed(q)
    <2>1. /\ releases'[q].fn = releases[q].fn
          /\ releases'[q].version = releases[q].version
      BY <1>1, <1>4 DEF RowsImmutable
    <2> QED BY <1>2, <1>3, <1>4, <2>1 DEF SerialInv, VersionsGrow
  <1>5. ASSUME NEW w \in Workers, CreateStaged(w), q = nextId
        PROVE  releases'[r].version < releases'[q].version
    <2>1. /\ releases'[q].fn = job[w].fn /\ releases'[q].version = job[w].version
          /\ job[w].pc = "create"
      BY <1>1, <1>5 DEF CreateStaged, At, Inv, TypeOK
    <2> QED BY <1>2, <1>3, <2>1 DEF SerialInv, Fresh
  <1>6. ASSUME NEW f \in Functions, BackfillPublished(f), PublishedOf(f) = {},
               q = nextId
        PROVE  FALSE
    <2>1. releases'[q].fn = f /\ IsLegacy(f)
      BY <1>1, <1>6 DEF BackfillPublished, Inv, TypeOK
    <2> QED BY <1>3, <2>1 DEF SerialInv, LegacyBare, ReleasesOf
  <1> QED BY <1>1, <1>4, <1>5, <1>6, RowsAppear

(* Where the steps of a request lead.                                      *)
LEMMA StepLeads ==
    ASSUME Inv, NEW w \in Workers, Step(w)
    PROVE  /\ boot = "serving" /\ boot' = boot
           /\ job'[w].pc = "create" => StageVersion(w)
           /\ job'[w].pc \in {"check", "access", "run", "record"} =>
                HasApprovedArtifact(w) \/ RequireRuntimeAccess(w) \/ InvokeRun(w)
  <1>1. job[w] \in Job /\ job \in [Workers -> Job] /\ Good(job[w])
    BY DEF Inv, TypeOK, Jobs
  <1>2. \A j : Become(w, j) => job'[w] = j
    BY <1>1 DEF Become
  <1>3. \A pc : [job[w] EXCEPT !.pc = pc].pc = pc
    BY <1>1 DEF Job
  <1>4. job[w].pc # "idle" /\ boot' = boot
    BY DEF Step, ArtifactSnapshot, StageReuse, StageVersion, CreateStaged,
         PromoteCheck, Promote, VerifyPromoted, Publish, ListPublished,
         LoadApprovedArtifacts, SaveRow, SaveRowAgain, DeleteRow,
         RemoveWorkspace, RevokeFunctionReleases, RevokeOrphanedPublished,
         HasApprovedArtifact, RequireRuntimeAccess, InvokeRun,
         RecordExecution, JobFails, At, Process
  <1>5. boot = "serving"
    BY <1>1, <1>4 DEF Good
  <1>6. CASE StageVersion(w)
    <2>1. job'[w].pc = "create"
      BY <1>1, <1>2, <1>6 DEF StageVersion, Job
    <2> QED BY <1>4, <1>5, <1>6, <2>1
  <1>7. CASE ArtifactSnapshot(w) \/ ListPublished(w)
    <2>1. job'[w].pc \in {"latest", "load"}
      BY <1>1, <1>2, <1>7 DEF ArtifactSnapshot, ListPublished, Job
    <2> QED BY <1>4, <1>5, <2>1
  <1>8. CASE StageReuse(w) \/ CreateStaged(w)
    <2>1. \A r : Staged(w, r).pc \in {"promote", "save"}
      BY <1>1 DEF Staged, Job
    <2>2. job'[w].pc \in {"promote", "save"}
      BY <1>2, <1>8, <2>1 DEF StageReuse, CreateStaged
    <2> QED BY <1>4, <1>5, <2>2
  <1>9. CASE \/ PromoteCheck(w) \/ Promote(w) \/ VerifyPromoted(w)
             \/ RevokeFunctionReleases(w) \/ DeleteRow(w)
             \/ RevokeOrphanedPublished(w)
    <2>1. job'[w].pc \in {"bundle", "verify", "commit", "drop", "rmdir", "list"}
      BY <1>1, <1>2, <1>3, <1>9
         DEF PromoteCheck, Promote, VerifyPromoted, RevokeFunctionReleases,
             DeleteRow, RevokeOrphanedPublished, Goto
    <2> QED BY <1>4, <1>5, <2>1
  <1>10. CASE Publish(w)
    <2>1. job'[w].pc = "list"
      BY <1>1, <1>2, <1>10 DEF Publish, Job
    <2> QED BY <1>4, <1>5, <2>1
  <1>11. CASE LoadApprovedArtifacts(w)
    <2>1. AfterLoad(w).pc \in {"save", "idle"}
      BY <1>1 DEF AfterLoad, Job, Idle
    <2> QED BY <1>2, <1>4, <1>5, <1>11, <2>1 DEF LoadApprovedArtifacts
  <1>12. CASE \/ SaveRow(w) \/ SaveRowAgain(w) \/ RemoveWorkspace(w)
              \/ RecordExecution(w) \/ JobFails(w)
    <2>1. Goto(w, "saveAgain") \/ Finish(w)
      BY <1>12 DEF SaveRow, SaveRowAgain, RemoveWorkspace, RecordExecution,
           JobFails
    <2>2. job'[w].pc \in {"saveAgain", "idle"}
      <3>1. CASE Goto(w, "saveAgain")
        BY <1>1, <1>2, <3>1 DEF Goto, Job
      <3>2. CASE Finish(w)
        BY <1>2, <3>2 DEF Finish, Idle
      <3> QED BY <2>1, <3>1, <3>2
    <2> QED BY <1>4, <1>5, <2>2
  <1>13. CASE HasApprovedArtifact(w) \/ RequireRuntimeAccess(w) \/ InvokeRun(w)
    <2>1. job'[w].pc \in {"access", "run", "record"}
      BY <1>1, <1>2, <1>3, <1>13
         DEF HasApprovedArtifact, RequireRuntimeAccess, InvokeRun, Goto, Job
    <2> QED BY <1>4, <1>5, <1>13, <2>1
  <1> QED BY <1>6, <1>7, <1>8, <1>9, <1>10, <1>11, <1>12, <1>13 DEF Step

(* Where a request begins, and what it leaves alone.                       *)
LEMMA RequestLeads ==
    ASSUME Inv, NEW w \in Workers, Request(w)
    PROVE  /\ boot = "serving" /\ boot' = boot
           /\ UNCHANGED <<function, releases, approved>>
           /\ job'[w].pc # "create"
           /\ job'[w].pc \in {"check", "access", "run", "record"} =>
                \E f \in Functions : ActiveForApp(w, f)
  <1>1. job \in [Workers -> Job]
    BY DEF Inv, TypeOK
  <1>2. \A j : Become(w, j) => job'[w] = j
    BY <1>1 DEF Become
  <1>3. ASSUME NEW op, NEW f \in Functions,
               NEW pc \in {"snapshot", "save", "revoke"}, Begin(w, op, f, pc)
        PROVE  /\ job'[w].pc = pc /\ boot = "serving" /\ boot' = boot
               /\ UNCHANGED <<function, releases, approved>>
    BY <1>2, <1>3 DEF Begin, Idle, Tables, Process
  <1>4. ASSUME NEW f \in Functions, ActiveForApp(w, f)
        PROVE  /\ job'[w].pc = "check" /\ boot = "serving" /\ boot' = boot
               /\ UNCHANGED <<function, releases, approved>>
    BY <1>2, <1>4 DEF ActiveForApp, Idle, Tables, Process
  <1>5. ASSUME ReloadGeneratedApps(w)
        PROVE  /\ job'[w].pc = "orphans" /\ boot = "serving" /\ boot' = boot
               /\ UNCHANGED <<function, releases, approved>>
    BY <1>2, <1>5 DEF ReloadGeneratedApps, Idle, Tables, Process
  <1> QED BY <1>3, <1>4, <1>5
          DEF Request, UpdateFunctionPublish, UpdateFunctionUnpublish,
              UpdateFunctionEdit, ApplyFunctionCode, DeleteFunction

(* The remaining steps leave the requests alone, or end them all.          *)
LEMMA ElseLeads ==
    ASSUME Inv, [Next]_vars, ~ \E w \in Workers : Request(w) \/ Step(w)
    PROVE  /\ job' = job \/ job' = [w \in Workers |-> Idle]
           /\ approved' = approved \/ boot # "serving"
              \/ job' = [w \in Workers |-> Idle]
  BY DEF Next, CreateFunction, AgentEdit, ReconcileList, ReconcileSweep, Crash,
         Boot, BootStart, BootReconcile, BootRevokeOrphans, BootRestore,
         BackfillPublished, Process, vars

LEMMA FreshStep ==
    ASSUME OneRequest, SerialInv, [Next]_vars
    PROVE  Fresh'
  <1> SUFFICES ASSUME NEW w \in Workers, job'[w].pc = "create",
                      NEW r \in ReleaseIds, Listed(r)',
                      releases'[r].fn = job'[w].fn
               PROVE  releases'[r].version < job'[w].version
    BY DEF Fresh
  <1>1. Inv /\ job[w] \in Job /\ job \in [Workers -> Job] /\ Good(job[w])
    BY DEF SerialInv, Inv, TypeOK, Jobs
  <1>2. CASE StageVersion(w)
    <2>1. releases' = releases
      BY <1>2 DEF StageVersion, Tables
    <2>2. job'[w].fn = job[w].fn
      <3>1. PICK v : Become(w, [job[w] EXCEPT !.pc = "create", !.version = v])
        BY <1>2 DEF StageVersion
      <3> QED BY <1>1, <3>1 DEF Become, Job
    <2>3. r \in ReleasesOf(job[w].fn)
      BY <2>1, <2>2 DEF ReleasesOf
    <2>4. PICK q \in ReleaseIds :
            /\ IsFirst(q, ReleasesOf(job[w].fn))
            /\ Become(w, [job[w] EXCEPT !.pc = "create",
                                        !.version = releases[q].version + 1])
      BY <1>2, <2>3 DEF StageVersion
    <2>5. job'[w].version = releases[q].version + 1
      BY <1>1, <2>4 DEF Become, Job
    <2>6. releases[r].version \in Nat /\ releases[q].version \in Nat
      BY <1>1 DEF Inv, TypeOK, Release
    <2>7. releases[r].version <= releases[q].version
      BY <2>3, <2>4, <2>6 DEF IsFirst
    <2> QED BY <2>1, <2>5, <2>6, <2>7
  <1>3. CASE \E v \in Workers : Request(v) \/ Step(v)
    <2>1. Request(w) \/ Step(w)
      BY <1>3 DEF OneRequest
    <2> QED BY <1>1, <1>2, <2>1, StepLeads, RequestLeads
  <1>4. CASE ~ \E v \in Workers : Request(v) \/ Step(v)
    <2>1. job' = job
      <3>1. job' # [v \in Workers |-> Idle]
        BY DEF Idle
      <3> QED BY <1>1, <1>4, <3>1, ElseLeads
    <2>2. boot = "serving"
      BY <1>1, <2>1 DEF Good
    <2>3. Listed(r)
      <3>1. ASSUME NEW v \in Workers, CreateStaged(v) PROVE FALSE
        BY <1>4, <3>1 DEF Step
      <3>2. ASSUME NEW f \in Functions, BackfillPublished(f) PROVE FALSE
        BY <2>2, <3>2 DEF BackfillPublished
      <3> QED BY <1>1, <3>1, <3>2, RowsAppear
    <2>4. /\ releases'[r].fn = releases[r].fn
          /\ releases'[r].version = releases[r].version
      BY <1>1, <2>3, ImmutableStep DEF RowsImmutable
    <2> QED BY <2>1, <2>3, <2>4 DEF SerialInv, Fresh
  <1> QED BY <1>3, <1>4

(* A row waits for the backfill only while the process is down or at its   *)
(* first stage, where nothing but the backfill adds a release.             *)
LEMMA LegacyBareStep ==
    ASSUME SerialInv, [Next]_vars
    PROVE  LegacyBare'
  <1> SUFFICES ASSUME NEW f \in Functions, IsLegacy(f)'
               PROVE  (ReleasesOf(f) = {})'
    BY DEF LegacyBare
  <1>1. Inv /\ Inv'
    BY NextInv DEF SerialInv
  <1>2. boot' \in {"down", "backfill"}
    BY <1>1, NoneAssumption DEF Inv, ActivePointer, IsLegacy, ReleaseIds
  <1>3. CASE \E g \in Functions : BackfillPublished(g)
    <2> PICK g \in Functions : BackfillPublished(g)
      BY <1>3
    <2>1. g # f
      <3>1. \E a \in ReleaseIds : function' = [function EXCEPT ![g].active = a]
        BY DEF BackfillPublished
      <3>2. function'[g].active # None
        BY <1>1, <3>1, NoneAssumption
           DEF Inv, TypeOK, BackfillPublished, IsLegacy, Row, ReleaseIds
      <3> QED BY <3>2 DEF IsLegacy
    <2>2. IsLegacy(f)
      BY <1>1, <2>1 DEF BackfillPublished, IsLegacy, Inv, TypeOK
    <2>3. \A r \in ReleaseIds : releases'[r].fn \in {releases[r].fn, g}
      BY <1>1 DEF BackfillPublished, Inv, TypeOK
    <2> QED BY <2>1, <2>2, <2>3 DEF SerialInv, LegacyBare, ReleasesOf
  <1>4. CASE \/ \E g \in Functions, c \in Contents \cup {None} : AgentEdit(g, c)
             \/ Crash \/ BootStart \/ UNCHANGED vars
    <2>1. UNCHANGED <<function, releases>>
      BY <1>4 DEF AgentEdit, Crash, BootStart, Tables, vars
    <2> QED BY <2>1 DEF SerialInv, LegacyBare, IsLegacy, ReleasesOf
  <1>5. CASE \/ \E w \in Workers : Request(w) \/ Step(w)
             \/ \E g \in Functions : CreateFunction(g)
             \/ ReconcileList \/ BootReconcile \/ BootRevokeOrphans
             \/ BootRestore
    BY <1>1, <1>2, <1>5, StepLeads, RequestLeads
       DEF CreateFunction, ReconcileList, BootReconcile, BootRevokeOrphans,
           BootRestore, Process
  <1>6. CASE ReconcileSweep
    <2>1. UNCHANGED <<function, releases>>
      BY <1>6 DEF ReconcileSweep, Tables
    <2> QED BY <2>1 DEF SerialInv, LegacyBare, IsLegacy, ReleasesOf
  <1> QED BY <1>3, <1>4, <1>5, <1>6 DEF Next, Boot

(* An invocation keeps the release it checked: nothing is loaded and no    *)
(* row changes its artifact between its steps.                             *)
LEMMA CheckedStep ==
    ASSUME OneRequest, SerialInv, [Next]_vars
    PROVE  Checked'
  <1> SUFFICES ASSUME NEW w \in Workers,
                      job'[w].pc \in {"check", "access", "run", "record"}
               PROVE  Checks(job[w])'
    BY DEF Checked, Checks
  <1>1. Inv /\ job[w] \in Job /\ job \in [Workers -> Job] /\ Good(job[w])
        /\ Checks(job[w])
    BY DEF SerialInv, Inv, TypeOK, Jobs, Checked
  <1>2. \A j : Become(w, j) => job'[w] = j
    BY <1>1 DEF Become
  <1>3. ASSUME NEW f \in Functions, ActiveForApp(w, f)
        PROVE  Checks(job[w])'
    <2>1. PICK r \in ReleaseIds :
            /\ IsFirst(r, PublishedOf(f))
            /\ job'[w] = [Idle EXCEPT !.pc = "check", !.op = "invoke",
                                      !.fn = f, !.rel = r]
      BY <1>2, <1>3 DEF ActiveForApp
    <2>2. /\ job'[w].pc = "check" /\ job'[w].fn = f /\ job'[w].rel = r
          /\ releases' = releases
      BY <1>3, <2>1 DEF Idle, ActiveForApp, Tables
    <2>3. Listed(r) /\ releases[r].fn = f
      BY <2>1 DEF IsFirst, PublishedOf, Published, ReleasesOf, Listed
    <2> QED BY <2>2, <2>3 DEF Checks, Listed
  <1>4. CASE HasApprovedArtifact(w)
    <2>1. /\ job'[w] = [job[w] EXCEPT !.pc = "access"]
          /\ releases' = releases /\ approved' = approved
          /\ job[w].pc = "check"
          /\ approved[job[w].fn] = releases[job[w].rel].sha
      BY <1>2, <1>4 DEF HasApprovedArtifact, Goto, At, Tables, Process
    <2>2. /\ job'[w].pc = "access" /\ job'[w].fn = job[w].fn
          /\ job'[w].rel = job[w].rel
      BY <1>1, <2>1 DEF Job
    <2> QED BY <1>1, <2>1, <2>2 DEF Checks, Listed
  <1>5. CASE RequireRuntimeAccess(w)
    <2>1. /\ job'[w] = [job[w] EXCEPT !.pc = "run"]
          /\ releases' = releases /\ approved' = approved
          /\ job[w].pc = "access"
      BY <1>2, <1>5 DEF RequireRuntimeAccess, Goto, At, Tables, Process
    <2>2. /\ job'[w].pc = "run" /\ job'[w].fn = job[w].fn
          /\ job'[w].rel = job[w].rel
      BY <1>1, <2>1 DEF Job
    <2> QED BY <1>1, <2>1, <2>2 DEF Checks, Listed
  <1>6. CASE InvokeRun(w)
    <2>1. /\ job'[w] = [job[w] EXCEPT !.pc = "record",
                                      !.sha = approved[job[w].fn]]
          /\ releases' = releases /\ approved' = approved
          /\ job[w].pc = "run"
      BY <1>2, <1>6 DEF InvokeRun, At, Tables, Process
    <2>2. /\ job'[w].pc = "record" /\ job'[w].fn = job[w].fn
          /\ job'[w].rel = job[w].rel /\ job'[w].sha = approved[job[w].fn]
      BY <1>1, <2>1 DEF Job
    <2> QED BY <1>1, <2>1, <2>2 DEF Checks, Listed
  <1>7. CASE \E v \in Workers : Request(v) \/ Step(v)
    <2>1. Request(w) \/ Step(w)
      BY <1>7 DEF OneRequest
    <2> QED BY <1>1, <1>3, <1>4, <1>5, <1>6, <2>1, StepLeads, RequestLeads
  <1>8. CASE ~ \E v \in Workers : Request(v) \/ Step(v)
    <2>1. job' # [v \in Workers |-> Idle]
      BY DEF Idle
    <2>2. job' = job
      BY <1>1, <1>8, <2>1, ElseLeads
    <2>3. boot = "serving"
      BY <1>1, <2>2 DEF Good
    <2>4. approved' = approved
      BY <1>1, <1>8, <2>1, <2>3, ElseLeads
    <2>5. /\ job[w].rel \in ReleaseIds /\ Listed(job[w].rel)
          /\ releases[job[w].rel].fn = job[w].fn
      BY <1>1, <2>2 DEF Checks
    <2>6. /\ Listed(job[w].rel)'
          /\ releases'[job[w].rel].fn = releases[job[w].rel].fn
          /\ releases'[job[w].rel].sha = releases[job[w].rel].sha
      BY <1>1, <2>2, <2>5, ImmutableStep DEF RowsImmutable, Listed
    <2> QED BY <1>1, <2>2, <2>4, <2>5, <2>6 DEF Checks, Listed
  <1> QED BY <1>7, <1>8

LEMMA SerialInvariance ==
    ASSUME OneRequest
    PROVE  Spec => []SerialInv
  <1>1. Init => SerialInv
    <2> SUFFICES ASSUME Init PROVE SerialInv
      OBVIOUS
    <2>1. \A r \in ReleaseIds : ~ Listed(r) /\ releases[r].fn = None
      BY DEF Init, NoRelease, Listed
    <2>2. \A w \in Workers : job[w].pc = "idle"
      BY DEF Init, Idle
    <2>3. VersionsGrow
      BY <2>1 DEF VersionsGrow
    <2>4. Fresh
      BY <2>2 DEF Fresh
    <2>5. LegacyBare
      BY <2>1, NoneAssumption DEF LegacyBare, ReleasesOf
    <2>6. Checked
      BY <2>2 DEF Checked, Checks
    <2> QED BY <2>3, <2>4, <2>5, <2>6, InitInv DEF SerialInv
  <1>2. SerialInv /\ [Next]_vars => SerialInv'
    <2> SUFFICES ASSUME SerialInv, [Next]_vars PROVE SerialInv'
      OBVIOUS
    <2>1. Inv'
      BY NextInv DEF SerialInv
    <2> QED BY <2>1, VersionsGrowStep, FreshStep, LegacyBareStep, CheckedStep
            DEF SerialInv
  <1> QED BY <1>1, <1>2, PTL DEF Spec

(* ReleaseLogic.Stage reads the latest release and inserts the next version*)
(* in two calls.  With one request at a time, through failures, crashes,   *)
(* deletions and the backfill, no two rows of a function share a version,  *)
(* so a version names one artifact; with two publishers it may not.        *)
THEOREM VersionsBindOneHash ==
    ASSUME OneRequest
    PROVE  Spec => []OneHashPerVersion
  <1>1. SerialInv => OneHashPerVersion
    <2> SUFFICES ASSUME SerialInv, NEW r \in ReleaseIds, NEW q \in ReleaseIds,
                        Listed(r), Listed(q), releases[r].fn = releases[q].fn,
                        releases[r].version = releases[q].version
                 PROVE  r = q
      BY DEF OneHashPerVersion
    <2>1. releases[r].version \in Nat
      BY DEF SerialInv, Inv, TypeOK, Release
    <2>2. ~ (r < q) /\ ~ (q < r)
      BY <2>1 DEF SerialInv, VersionsGrow
    <2> QED BY <2>2 DEF ReleaseIds
  <1> QED BY <1>1, SerialInvariance, PTL

(* GeneratedAppLogic.Invoke checks the active release and later runs what  *)
(* the runtime has loaded.  With one request at a time, through crashes and*)
(* sweeps, what it executed is the artifact of the release it checked.     *)
THEOREM InvocationsRunWhatTheyChecked ==
    ASSUME OneRequest
    PROVE  Spec => []RunsWhatItChecked
  <1>1. SerialInv => RunsWhatItChecked
    <2> SUFFICES ASSUME SerialInv, NEW w \in Workers, At(w, "record")
                 PROVE  \E r \in ReleaseIds :
                          /\ releases[r].fn = job[w].fn
                          /\ releases[r].sha = job[w].sha
                          /\ releases[r].version >= releases[job[w].rel].version
      BY DEF RunsWhatItChecked
    <2>1. /\ job[w].rel \in ReleaseIds
          /\ releases[job[w].rel].fn = job[w].fn
          /\ releases[job[w].rel].sha = job[w].sha
      BY DEF SerialInv, Checked, Checks, At
    <2>2. releases[job[w].rel].version \in Nat
      BY <2>1 DEF SerialInv, Inv, TypeOK, Release
    <2> QED BY <2>1, <2>2
  <1> QED BY <1>1, SerialInvariance, PTL
=============================================================================
