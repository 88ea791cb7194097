------------------------ MODULE FunctionWorkflowProofs ------------------------
(***************************************************************************)
(* Type correctness, SourcesPrecede and StageHasDocuments of               *)
(* FunctionWorkflow for any number of requests, texts, operations and      *)
(* versions; VersionNamesOneText, and that versions never go back, for one *)
(* request at a time.                                                      *)
(*                                                                         *)
(* A handler writes back a whole row that it read and changed before, so   *)
(* the invariant has to say of every row in flight what it says of the     *)
(* stored one, and has to survive whatever the others do to the files in   *)
(* between.  It does because documents are never taken back: RowOK only    *)
(* asks that files exist.                                                  *)
(***************************************************************************)
EXTENDS FunctionWorkflow, TLAPS

(* What a row says of its sources and of the adopted files a.              *)
RowOK(r, a) ==
    /\ \A c \in Convs : r.src[c] <= r.ver[SourceOf(c)]
    /\ \A d \in Docs : r.ver[d] > 0 => a[d] # None
    /\ r.stage # "product_doc" => a["product"] # None
    /\ r.stage \in {"code_generation", "code_generated"} =>
          a["technical"] # None

(* What a commit in flight knows of the adopted files a.                   *)
JobOK(j, a) ==
    /\ RowOK(j.row, a)
    /\ j.pc = "write" => j.kind = "commit"
    /\ j.kind = "commit" => j.pc # "get" /\ j.doc \in Docs
    /\ (j.kind = "commit" /\ j.doc = "technical") => a["product"] # None
    /\ (j.kind = "commit" /\ j.pc = "save") => a[j.doc] # None

IInv ==
    /\ TypeOK
    /\ applied["technical"] # None => applied["product"] # None
    /\ RowOK(row, applied)
    /\ \A w \in Workers : JobOK(job[w], applied)

-----------------------------------------------------------------------------
(* The correction from files keeps a row a row.                            *)
LEMMA SyncType ==
    ASSUME TypeOK, NEW r \in Row
    PROVE  SyncDocumentStateFromFiles(r) \in Row
<1> DEFINE v == [d \in Docs |-> AppliedDocumentVersion(d, r.ver[d])]
           stale == TechnicalStale(v["product"], r.src["technical"])
           dv == [d \in Docs |-> DraftDocumentVersion(d, v[d], r.draftVer[d])]
           ev == [dv EXCEPT !["technical"] = v["technical"]]
<1>1. v \in [Docs -> Nat]
  BY DEF Row, AppliedDocumentVersion
<1> HIDE DEF v
<1>2. dv \in [Docs -> Nat]
  BY <1>1 DEF Row, DraftDocumentVersion
<1>3. ev \in [Docs -> Nat]
  BY <1>1, <1>2 DEF Docs
<1>4. stale \in BOOLEAN
  BY <1>1 DEF TechnicalStale, Row, TypeOK
<1> HIDE DEF dv, ev, stale
<1>5. SyncDocumentStateFromFiles(r) =
        [r EXCEPT !.ver = v, !.stale = stale,
                  !.draftVer = IF stale THEN ev ELSE dv]
  BY DEF SyncDocumentStateFromFiles, v, stale, dv, ev
<1> QED
  BY <1>1, <1>2, <1>3, <1>4, <1>5 DEF Row

(* The correction from files raises versions, never above what a file backs. *)
LEMMA SyncOK ==
    ASSUME TypeOK, NEW r \in Row, RowOK(r, applied)
    PROVE  RowOK(SyncDocumentStateFromFiles(r), applied)
<1> DEFINE s == SyncDocumentStateFromFiles(r)
<1>1. /\ s.src = r.src
      /\ s.stage = r.stage
      /\ \A d \in Docs : s.ver[d] = AppliedDocumentVersion(d, r.ver[d])
  BY DEF SyncDocumentStateFromFiles, Row
<1>2. \A d \in Docs : /\ s.ver[d] \in Nat
                      /\ s.ver[d] >= r.ver[d]
                      /\ s.ver[d] > 0 => applied[d] # None
  BY <1>1 DEF AppliedDocumentVersion, RowOK, Row
<1>3. \A c \in Convs : SourceOf(c) \in Docs /\ r.src[c] \in Nat
  BY DEF SourceOf, Convs, Docs, Row
<1>4. \A c \in Convs : s.src[c] <= s.ver[SourceOf(c)]
  <2> SUFFICES ASSUME NEW c \in Convs PROVE s.src[c] <= s.ver[SourceOf(c)]
    OBVIOUS
  <2>1. r.src[c] <= r.ver[SourceOf(c)]
    BY DEF RowOK
  <2>2. r.ver[SourceOf(c)] \in Nat
    BY <1>3 DEF Row
  <2> HIDE DEF s
  <2> QED
    BY <2>1, <2>2, <1>1, <1>2, <1>3
<1> HIDE DEF s
<1>5. RowOK(s, applied)
  BY <1>1, <1>2, <1>4 DEF RowOK
<1> QED
  BY <1>5 DEF s

(* Code versions do not touch what RowOK speaks of.                        *)
LEMMA NormalizeOK ==
    ASSUME NEW r \in Row
    PROVE  /\ NormalizeLegacyFunctionVersions(r) \in Row
           /\ NormalizeLegacyFunctionVersions(r).src = r.src
           /\ NormalizeLegacyFunctionVersions(r).ver = r.ver
           /\ NormalizeLegacyFunctionVersions(r).stage = r.stage
<1> DEFINE code == IF r.code = 0 /\ r.stage = "code_generated"
                   THEN r.ver["technical"] + 1 ELSE r.code
           fn == IF r.fn < code /\ r.code = 0 THEN code ELSE r.fn
           codeDraft == IF r.codeDraft = 0 THEN code ELSE r.codeDraft
<1>1. code \in Nat /\ fn \in Nat /\ codeDraft \in Nat
  BY DEF Row, Docs
<1>2. NormalizeLegacyFunctionVersions(r) =
        [r EXCEPT !.code = code, !.fn = fn, !.codeDraft = codeDraft]
  BY DEF NormalizeLegacyFunctionVersions, Row
<1> HIDE DEF code, fn, codeDraft
<1> QED
  BY <1>1, <1>2 DEF Row

(* The row that a handler works on is a coherent row.                      *)
LEMMA SyncedRow ==
    ASSUME IInv
    PROVE  Synced \in Row /\ RowOK(Synced, applied)
  BY SyncType, SyncOK DEF Synced, IInv, TypeOK

(* So is the one with its code versions filled in.                         *)
LEMMA NormalRow ==
    ASSUME IInv
    PROVE  Normal \in Row /\ RowOK(Normal, applied)
  BY SyncedRow, NormalizeOK DEF Normal, RowOK

(* What a commit writes back is coherent once the file is in place.        *)
LEMMA CommittedOK ==
    ASSUME NEW r \in Row, NEW d \in Docs, RowOK(r, applied),
           applied[d] # None, applied["product"] # None
    PROVE  Committed(r, d) \in Row /\ RowOK(Committed(r, d), applied)
<1> DEFINE v == AdoptDocumentVersion(r.ver[d], r.draftVer[d])
           ver == [r.ver EXCEPT ![d] = v]
           dv == [r.draftVer EXCEPT ![d] = v]
           src == [r.src EXCEPT !["technical"] = r.ver["product"]]
           op == [r.op EXCEPT !["technical"] = None]
<1>1. v \in Nat /\ v > r.ver[d]
  BY DEF AdoptDocumentVersion, Row
<1> HIDE DEF v
<1>2. /\ ver \in [Docs -> Nat] /\ dv \in [Docs -> Nat]
      /\ src \in [Convs -> Nat] /\ op \in [Convs -> OpIds \cup {None}]
  BY <1>1 DEF Row, Docs, Convs
<1>3. \A e \in Docs : ver[e] >= r.ver[e] /\ (ver[e] > 0 => applied[e] # None)
  BY <1>1 DEF Row, RowOK
<1>4. \A c \in Convs : r.src[c] <= ver[SourceOf(c)]
  BY <1>2, <1>3 DEF Row, RowOK, SourceOf, Convs, Docs
<1>5. \A c \in Convs : src[c] <= ver[SourceOf(c)]
  BY <1>2, <1>3, <1>4 DEF Row, SourceOf, Convs, Docs
<1>6. CASE d = "product"
  <2>1. Committed(r, d) =
          [r EXCEPT !.ver = ver, !.draftVer = dv, !.stage = "technical_doc"]
    BY <1>6 DEF Committed, Row, v
  <2> HIDE DEF ver, dv
  <2> QED
    BY <2>1, <1>2, <1>3, <1>4 DEF Row, Stages, RowOK
<1>7. CASE d = "technical"
  <2>1. Committed(r, d) =
          [r EXCEPT !.ver = ver, !.draftVer = dv, !.stage = "code_generation",
                    !.op = op, !.src = src]
    BY <1>7 DEF Committed, Row, v
  <2> HIDE DEF ver, dv, op, src
  <2> QED
    BY <2>1, <1>2, <1>3, <1>5, <1>7 DEF Row, Stages, RowOK
<1> QED
  BY <1>6, <1>7 DEF Docs

-----------------------------------------------------------------------------
(* A request moves on, and neither the row nor an adopted file changes.    *)
LEMMA JobMoves ==
    ASSUME IInv, NEW w \in Workers, NEW j \in Job, JobOK(j, applied),
           Become(w, j), ops' \in [OpIds -> Operation], app' \in BOOLEAN,
           UNCHANGED <<row, applied, draft, newest, Authors, recorded>>
    PROVE  IInv'
<1>1. job' = [job EXCEPT ![w] = j] /\ job \in [Workers -> Job]
  BY DEF Become, IInv, TypeOK
<1>2. TypeOK'
  BY <1>1 DEF IInv, TypeOK, Authors
<1>3. \A u \in Workers : JobOK(job'[u], applied')
  BY <1>1 DEF IInv
<1> QED
  BY <1>2, <1>3 DEF IInv

(* A request arrives with a coherent row and goes straight to its last     *)
(* write.                                                                  *)
LEMMA BeginOK ==
    ASSUME IInv, NEW w \in Workers, NEW k \in AllKinds \ {"commit"},
           NEW r \in Row, RowOK(r, applied),
           NEW pc \in {"save", "get"}, NEW o \in OpIds \cup {None},
           Begin(w, k, r, pc, None, o),
           ops' \in [OpIds -> Operation], app' \in BOOLEAN
    PROVE  IInv'
<1> DEFINE j == [pc |-> pc, kind |-> k, row |-> r, doc |-> None, op |-> o]
<1>1. j \in Job
  BY DEF Job
<1>2. JobOK(j, applied)
  BY DEF JobOK
<1>3. Become(w, j)
  BY DEF Begin
<1> HIDE DEF j
<1> QED
  BY <1>1, <1>2, <1>3, JobMoves DEF Begin

(* Init and a request that ends leave the new row, which claims nothing.   *)
LEMMA NewRowOK ==
    ASSUME NEW a
    PROVE  /\ NewRow \in Row
           /\ RowOK(NewRow, a)
           /\ Idle \in Job
           /\ JobOK(Idle, a)
<1>1. NewRow \in Row
  BY DEF NewRow, Row, Stages
<1>2. RowOK(NewRow, a)
  BY DEF NewRow, RowOK, SourceOf, Convs, Docs
<1>3. Idle \in Job
  BY <1>1 DEF Idle, Job
<1>4. JobOK(Idle, a)
  BY <1>2 DEF JobOK, Idle
<1> QED
  BY <1>1, <1>2, <1>3, <1>4

(* The invariant holds of a new function.                                  *)
LEMMA InitOK == Init => IInv
<1> SUFFICES ASSUME Init PROVE IInv
  OBVIOUS
<1>1. NoOp \in Operation
  BY DEF NoOp, Operation
<1>2. 1 \in 1..(MaxTexts + 1)
  BY WorkflowAssumption
<1>3. TypeOK
  BY <1>1, <1>2, NewRowOK DEF Init, TypeOK
<1>4. RowOK(row, applied) /\ \A w \in Workers : JobOK(job[w], applied)
  BY NewRowOK DEF Init
<1> QED
  BY <1>3, <1>4 DEF IInv, Init, Docs

(* An agent's steps touch no row and no adopted file.                      *)
LEMMA AgentOK == ASSUME IInv, Agent PROVE IInv'
<1>1. CASE WriteProductDraft
  BY <1>1, WorkflowAssumption
  DEF WriteProductDraft, Write, IInv, TypeOK, Docs, Texts
<1>2. CASE \E o \in OpIds : WriteTechnicalDraft(o)
  <2>1. PICK o \in OpIds : WriteTechnicalDraft(o)
    BY <1>2
  <2>2. ops[o].read \in Texts
    BY <2>1 DEF WriteTechnicalDraft, IInv, TypeOK, Operation
  <2> QED
    BY <2>1, <2>2, WorkflowAssumption
    DEF WriteTechnicalDraft, Write, IInv, TypeOK, Docs, Texts
<1>3. CASE \E o \in OpIds : WriteCode(o)
  BY <1>3 DEF WriteCode, Authors, IInv, TypeOK
<1>4. CASE \E o \in OpIds, c \in Convs : StartOperation(o, c)
  <2>1. PICK o \in OpIds, c \in Convs : StartOperation(o, c)
    BY <1>4
  <2> DEFINE new == [conv |-> c, state |-> "running", base |-> row.ver,
                     read |-> applied["product"]]
             old(p) == [ops[p] EXCEPT !.state = "superseded"]
  <2>2. new \in Operation
    BY DEF IInv, TypeOK, Operation, Row, Docs
  <2>3. \A p \in OpIds : old(p) \in Operation
    BY DEF IInv, TypeOK, Operation
  <2>4. \A p \in OpIds : ops[p] \in Operation
    BY DEF IInv, TypeOK
  <2>5. ops' = [p \in OpIds |-> IF p = o THEN new
                 ELSE IF ops[p].conv = c /\ ops[p].state = "running"
                      THEN old(p) ELSE ops[p]]
    BY <2>1 DEF StartOperation
  <2> HIDE DEF new, old
  <2>6. ops' \in [OpIds -> Operation]
    BY <2>2, <2>3, <2>4, <2>5
  <2>7. UNCHANGED <<row, Files, Authors, job, recorded>>
    BY <2>1 DEF StartOperation
  <2> QED
    BY <2>6, <2>7 DEF Files, Authors, IInv, TypeOK
<1> QED
  BY <1>1, <1>2, <1>3, <1>4 DEF Agent

(* A request starts from a coherent row and prepares a coherent one.       *)
LEMMA RequestOK ==
    ASSUME IInv, NEW w \in Workers, Request(w)
    PROVE  IInv'
<1>a. Synced \in Row /\ RowOK(Synced, applied)
  BY SyncedRow
<1>b. Normal \in Row /\ RowOK(Normal, applied)
  BY NormalRow
<1> USE <1>a, <1>b
<1>0. ops \in [OpIds -> Operation] /\ app \in BOOLEAN /\ row \in Row
      /\ RowOK(row, applied)
  BY DEF IInv, TypeOK
<1>1. CASE \E d \in Docs : CommitFunctionDocument(w, d)
  <2>1. PICK d \in Docs : CommitFunctionDocument(w, d)
    BY <1>1
  <2> DEFINE j == [pc |-> "write", kind |-> "commit", row |-> Synced,
                   doc |-> d, op |-> None]
  <2>2. j \in Job
    BY DEF Job, AllKinds
  <2>3. d = "technical" => applied["product"] # None
    BY <2>1 DEF CommitFunctionDocument, RowOK, Docs, Row
  <2>4. JobOK(j, applied)
    BY <2>3 DEF JobOK
  <2>5. /\ Become(w, j) /\ ops' = ops /\ app' = app
        /\ UNCHANGED <<row, applied, draft, newest, Authors, recorded>>
    BY <2>1 DEF CommitFunctionDocument, Begin
  <2> HIDE DEF j
  <2> QED
    BY <2>2, <2>4, <2>5, <1>0, JobMoves
<1>2. CASE \E b \in BOOLEAN, s \in Stages : UpdateFunction(w, b, s)
  <2>1. PICK b \in BOOLEAN, s \in Stages : UpdateFunction(w, b, s)
    BY <1>2
  <2> DEFINE p == IF b THEN SyncCodeVersionsOnPublish(Synced) ELSE Synced
             r == [p EXCEPT !.published = b, !.stage = s]
  <2>2. p \in Row /\ p.src = Synced.src /\ p.ver = Synced.ver
    BY DEF SyncCodeVersionsOnPublish, Row
  <2> HIDE DEF p
  <2>3. r \in Row /\ r.src = Synced.src /\ r.ver = Synced.ver /\ r.stage = s
    BY <2>2 DEF Row
  <2> HIDE DEF r
  <2>4. /\ s # "product_doc" => applied["product"] # None
        /\ s \in {"code_generation", "code_generated"} =>
              applied["technical"] # None
    BY <2>1 DEF UpdateFunction, IInv, Stages
  <2>5. RowOK(r, applied)
    BY <2>3, <2>4 DEF RowOK
  <2>6. Begin(w, "update", r, "save", None, None) /\ ops' = ops /\ app' = app
    BY <2>1 DEF UpdateFunction, r, p
  <2> QED
    BY <2>3, <2>5, <2>6, <1>0, BeginOK DEF AllKinds
<1>3. CASE \E o \in OpIds : SubmitProgress(w, o)
  <2>1. PICK o \in OpIds : SubmitProgress(w, o)
    BY <1>3
  <2>2. ops' \in [OpIds -> Operation]
    BY <2>1, <1>0 DEF SubmitProgress, Operation
  <2>3. Begin(w, "record", NewRow, "get", None, o) /\ app' = app
    BY <2>1 DEF SubmitProgress
  <2> QED
    BY <2>2, <2>3, <1>0, NewRowOK, BeginOK DEF AllKinds
<1>4. CASE LoadFunctionDocument(w)
  BY <1>4, <1>0, BeginOK DEF LoadFunctionDocument, AllKinds
<1>5. CASE EnsureFunctionSession(w)
  BY <1>5, <1>0, BeginOK DEF EnsureFunctionSession, AllKinds
<1>6. CASE MaterializeFunctionApp(w)
  <2> DEFINE r == [Synced EXCEPT !.fn = @ + 1, !.codeDraft = Synced.fn + 1,
                                 !.stage = "code_generation"]
  <2>1. /\ r \in Row /\ r.src = Synced.src /\ r.ver = Synced.ver
        /\ r.stage = "code_generation"
    <3>1. Synced.fn + 1 \in Nat
      BY DEF Row
    <3> QED
      BY <3>1 DEF Row, Stages
  <2>2. Begin(w, "materialize", r, "save", None, None) /\ ops' = ops /\ app'
    BY <1>6 DEF MaterializeFunctionApp
  <2> HIDE DEF r
  <2>3. RowOK(r, applied)
    BY <2>1, <1>6 DEF RowOK, MaterializeFunctionApp, Docs
  <2> QED
    BY <2>1, <2>2, <2>3, <1>0, <1>6, BeginOK DEF AllKinds, MaterializeFunctionApp
<1>7. CASE TouchFunctionCodeDraft(w)
  <2> DEFINE n == Normal.fn + 1
             r == [Normal EXCEPT !.fn = n, !.code = n, !.codeDraft = n]
  <2>1. /\ r \in Row /\ r.src = Normal.src /\ r.ver = Normal.ver
        /\ r.stage = Normal.stage
    <3>1. n \in Nat
      BY DEF Row
    <3> HIDE DEF n
    <3> QED
      BY <3>1 DEF Row
  <2>2. Begin(w, "touch", r, "save", None, None) /\ ops' = ops /\ app' = app
    BY <1>7 DEF TouchFunctionCodeDraft
  <2> HIDE DEF r
  <2>3. RowOK(r, applied)
    BY <2>1 DEF RowOK
  <2> QED
    BY <2>1, <2>2, <2>3, <1>0, BeginOK DEF AllKinds
<1>8. CASE ApplyFunctionCode(w)
  <2> DEFINE r == [Normal EXCEPT !.fn = @ + 1, !.code = Normal.fn + 1,
                     !.codeDraft = Normal.fn + 1, !.op["generation"] = None,
                     !.src["generation"] = Normal.ver["technical"],
                     !.stage = "code_generated"]
  <2>1. /\ r \in Row /\ r.ver = Normal.ver /\ r.stage = "code_generated"
        /\ r.src = [Normal.src EXCEPT !["generation"] = Normal.ver["technical"]]
    <3>1. /\ Normal.fn + 1 \in Nat
          /\ [Normal.src EXCEPT !["generation"] = Normal.ver["technical"]]
                \in [Convs -> Nat]
          /\ [Normal.op EXCEPT !["generation"] = None]
                \in [Convs -> OpIds \cup {None}]
      BY DEF Row, Docs, Convs
    <3> QED
      BY <3>1 DEF Row, Stages
  <2>2. Begin(w, "apply", r, "save", None, None) /\ ops' = ops /\ app' = app
    BY <1>8 DEF ApplyFunctionCode
  <2> HIDE DEF r
  <2>3. \A c \in Convs : r.src[c] <= r.ver[SourceOf(c)]
    BY <2>1 DEF RowOK, SourceOf, Convs, Docs, Row
  <2>4. \A d \in Docs : Normal.ver[d] # 0 /\ Normal.ver[d] \in Nat
    BY <1>8 DEF ApplyFunctionCode, Row
  <2>5. \A d \in Docs : applied[d] # None
    BY <2>4 DEF RowOK
  <2>6. RowOK(r, applied)
    BY <2>1, <2>3, <2>5 DEF RowOK, Docs
  <2> QED
    BY <2>1, <2>2, <2>6, <1>0, BeginOK DEF AllKinds
<1> QED
  BY <1>1, <1>2, <1>3, <1>4, <1>5, <1>6, <1>7, <1>8 DEF Request

(* Adopted files are replaced, never taken back, so whatever a row claims  *)
(* of them stays true.                                                     *)
LEMMA FilesGrow ==
    ASSUME NEW a, NEW b, \A d \in Docs : a[d] # None => b[d] # None
    PROVE  /\ \A r : RowOK(r, a) => RowOK(r, b)
           /\ \A j : JobOK(j, a) => JobOK(j, b)
<1>1. \A r : RowOK(r, a) => RowOK(r, b)
  BY DEF RowOK, Docs
<1>2. \A j : JobOK(j, a) => JobOK(j, b)
  BY <1>1 DEF JobOK, Docs
<1> QED
  BY <1>1, <1>2

(* The copy of a draft over the adopted file.                              *)
LEMMA WriteAppliedOK ==
    ASSUME IInv, NEW w \in Workers, WriteApplied(w)
    PROVE  IInv'
<1> DEFINE d == job[w].doc
           j == [job[w] EXCEPT !.pc = "save"]
<1>1. /\ job[w] \in Job /\ JobOK(job[w], applied)
      /\ job \in [Workers -> Job]
  BY DEF IInv, TypeOK
<1>2. job[w].kind = "commit" /\ d \in Docs
      /\ (d = "technical" => applied["product"] # None)
  BY <1>1 DEF JobOK, WriteApplied, At
<1>3. /\ draft[d] \in Texts /\ draft[d] # None
      /\ applied' = [applied EXCEPT ![d] = draft[d]]
  BY <1>2 DEF WriteApplied, IInv, TypeOK
<1>4. applied' \in [Docs -> Texts \cup {None}] /\ applied'[d] # None
      /\ \A e \in Docs : applied[e] # None => applied'[e] # None
  BY <1>2, <1>3 DEF IInv, TypeOK
<1>5. j \in Job /\ job' = [job EXCEPT ![w] = j]
  BY <1>1 DEF Job, WriteApplied, Become
<1>6. JobOK(job[w], applied')
  BY <1>1, <1>4, FilesGrow
<1>7. /\ j.pc = "save" /\ j.kind = job[w].kind /\ j.row = job[w].row
      /\ j.doc = job[w].doc
  BY <1>1 DEF Job
<1>8. JobOK(j, applied')
  BY <1>6, <1>7, <1>4 DEF JobOK
<1> HIDE DEF j
<1>9. \A u \in Workers : JobOK(job'[u], applied')
  BY <1>1, <1>4, <1>5, <1>8, FilesGrow DEF IInv
<1>10. RowOK(row', applied')
  BY <1>4, FilesGrow DEF IInv, WriteApplied
<1>11. TypeOK'
  BY <1>1, <1>2, <1>4, <1>5 DEF IInv, TypeOK, WriteApplied, Authors
<1>12. applied'["technical"] # None => applied'["product"] # None
  BY <1>2, <1>3, <1>4 DEF IInv, Docs
<1> QED
  BY <1>9, <1>10, <1>11, <1>12 DEF IInv

(* The write of the whole row.                                             *)
LEMMA UpdateOK ==
    ASSUME IInv, NEW w \in Workers, Update(w)
    PROVE  IInv'
<1>1. /\ job[w] \in Job /\ JobOK(job[w], applied) /\ job[w].pc = "save"
      /\ job[w].row \in Row /\ RowOK(job[w].row, applied)
  BY DEF IInv, TypeOK, JobOK, Job, Update, At
<1> DEFINE r == IF job[w].kind = "commit"
                THEN Committed(job[w].row, job[w].doc) ELSE job[w].row
<1>2. r \in Row /\ RowOK(r, applied)
  <2>1. CASE job[w].kind = "commit"
    <3>1. /\ job[w].doc \in Docs /\ applied[job[w].doc] # None
          /\ applied["product"] # None
      BY <1>1, <2>1 DEF JobOK, Docs
    <3> QED
      BY <3>1, <2>1, <1>1, CommittedOK
  <2> QED
    BY <2>1, <1>1
<1> HIDE DEF r
<1>3. /\ Saved(w) = [r EXCEPT !.stale = FALSE]
      /\ Saved(w) \in Row /\ Saved(w).ver = r.ver /\ Saved(w).src = r.src
      /\ Saved(w).stage = r.stage
  BY <1>2 DEF Saved, r, Row
<1>4. RowOK(Saved(w), applied)
  BY <1>2, <1>3 DEF RowOK
<1>5. recorded' \subseteq Docs \X Nat \X (Texts \cup {None})
  <2>1. CASE job[w].kind = "commit"
    <3>1. job[w].doc \in Docs
      BY <1>1, <2>1 DEF JobOK
    <3>2. /\ Saved(w).ver[job[w].doc] \in Nat
          /\ applied[job[w].doc] \in Texts \cup {None}
      BY <3>1, <1>3 DEF Row, IInv, TypeOK
    <3> QED
      BY <2>1, <3>1, <3>2 DEF Update, IInv, TypeOK
  <2> QED
    BY <2>1 DEF Update, IInv, TypeOK
<1>6. /\ row' = Saved(w) /\ job' = [job EXCEPT ![w] = Idle]
      /\ UNCHANGED <<applied, draft, app, newest, from, nextText, ops>>
  BY DEF Update, Become, Files, Authors
<1>7. TypeOK'
  BY <1>3, <1>5, <1>6, NewRowOK DEF IInv, TypeOK
<1>8. \A u \in Workers : JobOK(job'[u], applied')
  BY <1>6, NewRowOK DEF IInv, TypeOK
<1> QED
  BY <1>4, <1>6, <1>7, <1>8 DEF IInv

(* Every further step of a request.                                        *)
LEMMA StepOK ==
    ASSUME IInv, NEW w \in Workers, Step(w)
    PROVE  IInv'
<1>0. /\ job[w] \in Job /\ JobOK(job[w], applied) /\ row \in Row
      /\ ops \in [OpIds -> Operation] /\ app \in BOOLEAN
      /\ RowOK(row, applied)
  BY DEF IInv, TypeOK
<1>1. CASE RecordDraftOperation(w)
  <2> DEFINE o == job[w].op
             r == [row EXCEPT !.op[ops[o].conv] = o]
             j == [job[w] EXCEPT !.pc = "save", !.row = r]
  <2>1. o \in OpIds \cup {None}
    BY <1>0 DEF Job
  <2>2. r \in Row /\ r.src = row.src /\ r.ver = row.ver /\ r.stage = row.stage
    <3>1. [row.op EXCEPT ![ops[o].conv] = o] \in [Convs -> OpIds \cup {None}]
      BY <1>0, <2>1 DEF Row
    <3> QED
      BY <3>1, <1>0 DEF Row
  <2> HIDE DEF r
  <2>3. RowOK(r, applied)
    BY <2>2, <1>0 DEF RowOK
  <2>4. /\ j \in Job /\ j.row = r /\ j.kind = job[w].kind /\ j.pc = "save"
        /\ j.doc = job[w].doc
    BY <1>0, <2>2 DEF Job
  <2>5. Become(w, j) /\ UNCHANGED <<row, Files, Authors, ops, recorded>>
    BY <1>1 DEF RecordDraftOperation, r
  <2> HIDE DEF j
  <2>6. job[w].pc = "get"
    BY <1>1 DEF RecordDraftOperation, At
  <2>7. job[w].kind # "commit"
    BY <2>6, <1>0 DEF JobOK
  <2>8. JobOK(j, applied)
    BY <2>3, <2>4, <2>7 DEF JobOK
  <2> QED
    BY <2>4, <2>5, <2>8, <1>0, JobMoves DEF Files
<1>2. CASE JobFails(w)
  BY <1>0, <1>2, NewRowOK, JobMoves DEF JobFails, Files
<1> QED
  BY <1>1, <1>2, WriteAppliedOK, UpdateOK DEF Step

-----------------------------------------------------------------------------
(* IInv is inductive.                                                      *)
LEMMA Inductive == Spec => []IInv
<1>1. Init => IInv
  BY InitOK
<1>2. IInv /\ [Next]_vars => IInv'
  <2> SUFFICES ASSUME IInv, [Next]_vars PROVE IInv'
    OBVIOUS
  <2>1. CASE Next
    BY <2>1, AgentOK, RequestOK, StepOK DEF Next
  <2>2. CASE UNCHANGED vars
    BY <2>2 DEF vars, IInv, TypeOK
  <2> QED
    BY <2>1, <2>2
<1> QED
  BY <1>1, <1>2, PTL DEF Spec

(* Rows, files, operations and requests in flight keep their types.        *)
THEOREM TypeCorrect == Spec => []TypeOK
<1>1. IInv => TypeOK
  BY DEF IInv
<1> QED
  BY <1>1, Inductive, PTL

(* However requests overwrite each other's rows, no adopted document and   *)
(* no code claims a source version ahead of the source's own.              *)
THEOREM SourcesNeverAhead == Spec => []SourcesPrecede
<1>1. IInv => SourcesPrecede
  BY DEF IInv, RowOK, SourcesPrecede
<1> QED
  BY <1>1, Inductive, PTL

(* A stage is never stored without the documents it builds on.             *)
THEOREM StagesBacked == Spec => []StageHasDocuments
<1>1. IInv => StageHasDocuments
  BY DEF IInv, RowOK, StageHasDocuments
<1> QED
  BY <1>1, Inductive, PTL

-----------------------------------------------------------------------------
(***************************************************************************)
(* A version names one text when requests come one at a time.  The row is  *)
(* then never older than what was recorded: a commit takes a number above  *)
(* the one its row has, and that one is above, or is, every number ever    *)
(* given to the document.  A commit that dies between the copy and the     *)
(* update has recorded nothing, and its number may be given again.         *)
(***************************************************************************)

(* No two requests are in flight together.                                 *)
OneRequest == \A u, w \in Workers : u = w

(* The versions v are no older than what was recorded.                     *)
Covers(v) == \A a \in recorded : a[2] <= v[a[1]]

VersionInv ==
    /\ IInv
    /\ Covers(row.ver)
    /\ \A a \in recorded : applied[a[1]] # None
    /\ \A w \in Workers :
          job[w].pc \in {"write", "save"} => Covers(job[w].row.ver)
    /\ VersionNamesOneText

(* What was recorded is a version of a document.                           *)
LEMMA RecordedType ==
    ASSUME IInv, NEW a \in recorded
    PROVE  a[1] \in Docs /\ a[2] \in Nat
  BY DEF IInv, TypeOK

(* The correction from files takes no recorded version back: a document    *)
(* that has one has its file.                                              *)
LEMMA SyncedCovers ==
    ASSUME VersionInv
    PROVE  Covers(Synced.ver) /\ Covers(Normal.ver)
<1>1. row \in Row /\ IInv
  BY DEF VersionInv, IInv, TypeOK
<1>2. \A d \in Docs : Synced.ver[d] = AppliedDocumentVersion(d, row.ver[d])
  BY <1>1 DEF Synced, SyncDocumentStateFromFiles, Row
<1>3. ASSUME NEW a \in recorded
      PROVE  a[2] <= Synced.ver[a[1]]
  <2>1. a[1] \in Docs /\ a[2] \in Nat
    BY <1>1, RecordedType
  <2>2. applied[a[1]] # None /\ a[2] <= row.ver[a[1]]
    BY DEF VersionInv, Covers
  <2>3. row.ver[a[1]] \in Nat
    BY <1>1, <2>1 DEF Row
  <2> QED
    BY <2>1, <2>2, <2>3, <1>2 DEF AppliedDocumentVersion
<1>4. Normal.ver = Synced.ver
  BY <1>1, SyncedRow, NormalizeOK DEF Normal
<1> QED
  BY <1>3, <1>4 DEF Covers

(* A request moves on with versions that cover what was recorded.          *)
LEMMA MoveCovers ==
    ASSUME VersionInv, IInv', NEW w \in Workers, NEW j, Become(w, j),
           j.pc \in {"write", "save"} => Covers(j.row.ver),
           UNCHANGED <<row, recorded>>,
           \A d \in Docs : applied[d] # None => applied'[d] # None
    PROVE  VersionInv'
<1>1. job' = [job EXCEPT ![w] = j] /\ job \in [Workers -> Job] /\ IInv
  BY DEF Become, VersionInv, IInv, TypeOK
<1>2. ASSUME NEW u \in Workers, job'[u].pc \in {"write", "save"}
      PROVE  \A a \in recorded' : a[2] <= job'[u].row.ver[a[1]]
  <2>1. CASE u = w
    BY <2>1, <1>1, <1>2 DEF Covers
  <2>2. CASE u # w
    BY <2>2, <1>1, <1>2 DEF Covers, VersionInv
  <2> QED
    BY <2>1, <2>2
<1>3. \A a \in recorded' : applied'[a[1]] # None
  BY <1>1, RecordedType DEF VersionInv
<1>4. Covers(row.ver)' /\ VersionNamesOneText'
  BY DEF VersionInv, Covers, VersionNamesOneText
<1> QED
  BY <1>2, <1>3, <1>4 DEF VersionInv, Covers

(* A request that arrives.                                                 *)
LEMMA BeginCovers ==
    ASSUME VersionInv, IInv', NEW w \in Workers, NEW k, NEW r, NEW pc, NEW d,
           NEW o, Begin(w, k, r, pc, d, o),
           pc \in {"write", "save"} => Covers(r.ver)
    PROVE  VersionInv'
<1> DEFINE j == [pc |-> pc, kind |-> k, row |-> r, doc |-> d, op |-> o]
<1>1. Become(w, j) /\ UNCHANGED <<row, applied, recorded>>
  BY DEF Begin
<1>2. j.pc = pc /\ j.row = r
  OBVIOUS
<1> HIDE DEF j
<1> QED
  BY <1>1, <1>2, MoveCovers

(* No request prepares a row with an older version in it.                  *)
LEMMA RequestCovers ==
    ASSUME VersionInv, IInv', NEW w \in Workers, Request(w)
    PROVE  VersionInv'
<1>0. /\ Synced \in Row /\ Normal \in Row
      /\ Covers(Synced.ver) /\ Covers(Normal.ver) /\ Covers(row.ver)
  BY SyncedRow, NormalRow, SyncedCovers DEF VersionInv
<1>1. CASE \E d \in Docs : CommitFunctionDocument(w, d)
  BY <1>0, <1>1, BeginCovers DEF CommitFunctionDocument
<1>2. CASE \E b \in BOOLEAN, s \in Stages : UpdateFunction(w, b, s)
  <2>1. PICK b \in BOOLEAN, s \in Stages : UpdateFunction(w, b, s)
    BY <1>2
  <2> DEFINE p == IF b THEN SyncCodeVersionsOnPublish(Synced) ELSE Synced
             r == [p EXCEPT !.published = b, !.stage = s]
  <2>2. p \in Row /\ p.ver = Synced.ver
    BY <1>0 DEF SyncCodeVersionsOnPublish, Row
  <2> HIDE DEF p
  <2>3. r.ver = Synced.ver
    BY <2>2 DEF Row
  <2> HIDE DEF r
  <2>4. Begin(w, "update", r, "save", None, None)
    BY <2>1 DEF UpdateFunction, r, p
  <2> QED
    BY <1>0, <2>3, <2>4, BeginCovers
<1>3. CASE \E o \in OpIds : SubmitProgress(w, o)
  BY <1>3, BeginCovers DEF SubmitProgress
<1>4. CASE LoadFunctionDocument(w)
  BY <1>0, <1>4, BeginCovers DEF LoadFunctionDocument
<1>5. CASE EnsureFunctionSession(w)
  BY <1>0, <1>5, BeginCovers DEF EnsureFunctionSession
<1>6. CASE MaterializeFunctionApp(w)
  <2> DEFINE r == [Synced EXCEPT !.fn = @ + 1, !.codeDraft = Synced.fn + 1,
                                 !.stage = "code_generation"]
  <2>1. r.ver = Synced.ver
    BY <1>0 DEF Row
  <2>2. Begin(w, "materialize", r, "save", None, None)
    BY <1>6 DEF MaterializeFunctionApp
  <2> HIDE DEF r
  <2> QED
    BY <1>0, <2>1, <2>2, BeginCovers
<1>7. CASE TouchFunctionCodeDraft(w)
  <2> DEFINE n == Normal.fn + 1
             r == [Normal EXCEPT !.fn = n, !.code = n, !.codeDraft = n]
  <2>1. r.ver = Normal.ver
    BY <1>0 DEF Row
  <2>2. Begin(w, "touch", r, "save", None, None)
    BY <1>7 DEF TouchFunctionCodeDraft
  <2> HIDE DEF r
  <2> QED
    BY <1>0, <2>1, <2>2, BeginCovers
<1>8. CASE ApplyFunctionCode(w)
  <2> DEFINE r == [Normal EXCEPT !.fn = @ + 1, !.code = Normal.fn + 1,
                     !.codeDraft = Normal.fn + 1, !.op["generation"] = None,
                     !.src["generation"] = Normal.ver["technical"],
                     !.stage = "code_generated"]
  <2>1. r.ver = Normal.ver
    BY <1>0 DEF Row
  <2>2. Begin(w, "apply", r, "save", None, None)
    BY <1>8 DEF ApplyFunctionCode
  <2> HIDE DEF r
  <2> QED
    BY <1>0, <2>1, <2>2, BeginCovers
<1> QED
  BY <1>1, <1>2, <1>3, <1>4, <1>5, <1>6, <1>7, <1>8 DEF Request

(* A commit takes a number above the document's and leaves the other       *)
(* document's alone.                                                       *)
LEMMA CommittedAbove ==
    ASSUME NEW r \in Row, NEW d \in Docs
    PROVE  /\ Committed(r, d).ver[d] \in Nat
           /\ Committed(r, d).ver[d] > r.ver[d]
           /\ \A e \in Docs \ {d} : Committed(r, d).ver[e] = r.ver[e]
<1> DEFINE v == AdoptDocumentVersion(r.ver[d], r.draftVer[d])
           ver == [r.ver EXCEPT ![d] = v]
<1>1. v \in Nat /\ v > r.ver[d]
  BY DEF AdoptDocumentVersion, Row
<1> HIDE DEF v
<1>2. ver[d] = v /\ \A e \in Docs \ {d} : ver[e] = r.ver[e]
  BY DEF Row
<1>3. Committed(r, d).ver = ver
  BY DEF Committed, Row, v
<1> HIDE DEF ver
<1> QED
  BY <1>1, <1>2, <1>3

(* The write of the row, with no other request left to overwrite it.       *)
LEMMA UpdateCovers ==
    ASSUME OneRequest, VersionInv, IInv', NEW w \in Workers, Update(w)
    PROVE  VersionInv'
<1> DEFINE j == job[w]
<1>1. /\ j \in Job /\ j.row \in Row /\ JobOK(j, applied) /\ j.pc = "save"
      /\ Covers(j.row.ver)
  BY DEF VersionInv, IInv, TypeOK, Job, Update, At
<1>2. \A u \in Workers : job'[u].pc \notin {"write", "save"}
  BY DEF OneRequest, Update, Become, VersionInv, IInv, TypeOK, Idle
<1>3. row' = Saved(w) /\ applied' = applied
  BY DEF Update, Files
<1>4. CASE j.kind # "commit"
  <2>1. recorded' = recorded /\ row'.ver = j.row.ver
    BY <1>1, <1>3, <1>4 DEF Update, Saved, Row
  <2> QED
    BY <1>1, <1>2, <1>3, <2>1 DEF VersionInv, Covers, VersionNamesOneText
<1>5. CASE j.kind = "commit"
  <2> DEFINE d == j.doc
             c == Committed(j.row, d)
             n == c.ver[d]
             new == <<d, n, applied[d]>>
  <2>1. d \in Docs /\ applied[d] # None
    BY <1>1, <1>5 DEF JobOK
  <2>2. c \in Row
    <3>1. applied["product"] # None /\ RowOK(j.row, applied)
      BY <1>1, <1>5, <2>1 DEF JobOK, Docs
    <3> QED
      BY <3>1, <2>1, <1>1, CommittedOK
  <2>3. /\ n \in Nat /\ n > j.row.ver[d]
        /\ \A e \in Docs \ {d} : c.ver[e] = j.row.ver[e]
    BY <1>1, <2>1, CommittedAbove
  <2>4. row'.ver = c.ver /\ Saved(w).ver = c.ver
    BY <1>3, <1>5, <2>2 DEF Saved, Row
  <2>5. recorded' = recorded \cup {new}
    BY <1>5, <2>4 DEF Update
  <2>6. ASSUME NEW a \in recorded
        PROVE  /\ a[2] <= c.ver[a[1]]
               /\ a[1] = d => a[2] < n
    <3>1. a[1] \in Docs /\ a[2] \in Nat /\ a[2] <= j.row.ver[a[1]]
      BY <1>1, RecordedType DEF Covers, VersionInv
    <3>2. j.row.ver[a[1]] \in Nat
      BY <1>1, <3>1 DEF Row
    <3> HIDE DEF c, n, d, j
    <3> QED
      BY <2>1, <2>3, <3>1, <3>2 DEF n
  <2>7. new[1] = d /\ new[2] = n /\ new[3] = applied[d]
    OBVIOUS
  <2> HIDE DEF new, c, d, j
  <2>8. Covers(row.ver)'
    BY <2>3, <2>4, <2>5, <2>6, <2>7 DEF Covers, n
  <2>9. \A a \in recorded' : applied'[a[1]] # None
    BY <1>3, <2>1, <2>5, <2>7 DEF VersionInv
  <2>10. VersionNamesOneText'
    <3> SUFFICES ASSUME NEW a \in recorded', NEW b \in recorded',
                        a[1] = b[1], a[2] = b[2]
                 PROVE  a[3] = b[3]
      BY DEF VersionNamesOneText
    <3>1. CASE a \in recorded /\ b \in recorded
      BY <3>1 DEF VersionInv, VersionNamesOneText
    <3>2. ~ (a \in recorded /\ b = new) /\ ~ (b \in recorded /\ a = new)
      <4> HIDE DEF n
      <4>1. \A x \in recorded : x[1] = d => x[2] \in Nat /\ x[2] < n
        BY <2>6, RecordedType DEF VersionInv
      <4> QED
        BY <4>1, <2>3, <2>7
    <3> QED
      BY <3>1, <3>2, <2>5
  <2> QED
    BY <1>2, <2>8, <2>9, <2>10 DEF VersionInv
<1> QED
  BY <1>4, <1>5

(* Every further step of a request.                                        *)
LEMMA StepCovers ==
    ASSUME OneRequest, VersionInv, IInv', NEW w \in Workers, Step(w)
    PROVE  VersionInv'
<1>0. job[w] \in Job /\ row \in Row /\ applied \in [Docs -> Texts \cup {None}]
  BY DEF VersionInv, IInv, TypeOK
<1>1. CASE WriteApplied(w)
  <2> DEFINE j == [job[w] EXCEPT !.pc = "save"]
  <2>1. j.row = job[w].row /\ Covers(job[w].row.ver)
    BY <1>0, <1>1 DEF Job, WriteApplied, At, VersionInv
  <2>2. Become(w, j) /\ UNCHANGED <<row, recorded>>
    BY <1>1 DEF WriteApplied
  <2>3. \A d \in Docs : applied[d] # None => applied'[d] # None
    BY <1>0, <1>1 DEF WriteApplied
  <2> HIDE DEF j
  <2> QED
    BY <2>1, <2>2, <2>3, MoveCovers
<1>2. CASE RecordDraftOperation(w)
  <2> DEFINE r == [row EXCEPT !.op[ops[job[w].op].conv] = job[w].op]
             j == [job[w] EXCEPT !.pc = "save", !.row = r]
  <2>1. r.ver = row.ver
    BY <1>0 DEF Row
  <2> HIDE DEF r
  <2>2. j.row = r /\ Covers(row.ver)
    BY <1>0 DEF Job, VersionInv
  <2>3. Become(w, j) /\ UNCHANGED <<row, applied, recorded>>
    BY <1>2 DEF RecordDraftOperation, r, Files
  <2> HIDE DEF j
  <2> QED
    BY <2>1, <2>2, <2>3, MoveCovers
<1>3. CASE JobFails(w)
  <2>1. Idle.pc \notin {"write", "save"}
    BY DEF Idle
  <2>2. Become(w, Idle) /\ UNCHANGED <<row, applied, recorded>>
    BY <1>3 DEF JobFails, Files
  <2> QED
    BY <2>1, <2>2, MoveCovers
<1> QED
  BY <1>1, <1>2, <1>3, UpdateCovers DEF Step

(* With one request at a time, through requests that fail after the copy   *)
(* of the file and before the update of the row, and whatever agents write *)
(* meanwhile, a version number is never recorded for two texts.            *)
THEOREM VersionsNameOneText ==
    ASSUME OneRequest
    PROVE  Spec => []VersionNamesOneText
<1>1. Init => VersionInv
  <2> SUFFICES ASSUME Init PROVE VersionInv
    OBVIOUS
  <2>1. IInv /\ recorded = {}
    BY InitOK DEF Init
  <2> QED
    BY <2>1 DEF VersionInv, Covers, VersionNamesOneText
<1>2. VersionInv /\ [Next]_vars => VersionInv'
  <2> SUFFICES ASSUME VersionInv, [Next]_vars PROVE VersionInv'
    OBVIOUS
  <2>1. IInv'
    BY AgentOK, RequestOK, StepOK DEF Next, vars, VersionInv, IInv, TypeOK
  <2>2. CASE Agent
    <3>1. UNCHANGED <<row, applied, job, recorded>>
      BY <2>2 DEF Agent, WriteProductDraft, WriteTechnicalDraft, WriteCode,
                  Write, StartOperation, Files
    <3> QED
      BY <2>1, <3>1 DEF VersionInv, Covers, VersionNamesOneText
  <2>3. CASE \E w \in Workers : Request(w) \/ Step(w)
    BY <2>1, <2>3, RequestCovers, StepCovers
  <2>4. CASE UNCHANGED vars
    BY <2>1, <2>4 DEF vars, VersionInv, Covers, VersionNamesOneText
  <2> QED
    BY <2>2, <2>3, <2>4 DEF Next
<1>3. VersionInv => VersionNamesOneText
  BY DEF VersionInv
<1> QED
  BY <1>1, <1>2, <1>3, PTL DEF Spec

-----------------------------------------------------------------------------
(***************************************************************************)
(* Versions only grow.  With one request at a time the copy of the row in  *)
(* flight is no older than the stored row, although handlers correct it    *)
(* from the files, which could lower a version if a file were missing.     *)
(***************************************************************************)

(* Row s has no older document or function version than row r.             *)
NoOlder(r, s) == r.fn <= s.fn /\ \A d \in Docs : r.ver[d] <= s.ver[d]

Ahead ==
    \A w \in Workers : job[w].pc \in {"write", "save"} =>
        NoOlder(row, job[w].row)

(* The correction from files takes no version back: a document with a      *)
(* version has its file.                                                   *)
LEMMA SyncedNoOlder ==
    ASSUME IInv
    PROVE  NoOlder(row, row) /\ NoOlder(row, Synced) /\ NoOlder(row, Normal)
<1>1. row \in Row /\ Synced \in Row /\ RowOK(row, applied)
  BY SyncedRow DEF IInv, TypeOK
<1>2. /\ Synced.fn = row.fn
      /\ \A d \in Docs : Synced.ver[d] = AppliedDocumentVersion(d, row.ver[d])
  BY <1>1 DEF Synced, SyncDocumentStateFromFiles, Row
<1>3. row.fn \in Nat /\ \A d \in Docs : row.ver[d] \in Nat
  BY <1>1 DEF Row
<1>4. ASSUME NEW d \in Docs
      PROVE  row.ver[d] <= Synced.ver[d]
  BY <1>1, <1>2, <1>3 DEF RowOK, AppliedDocumentVersion
<1>5. Normal.ver = Synced.ver
  BY <1>1, NormalizeOK DEF Normal
<1>6. row.fn <= Normal.fn
  <2> DEFINE code == IF Synced.code = 0 /\ Synced.stage = "code_generated"
                     THEN Synced.ver["technical"] + 1 ELSE Synced.code
  <2>1. code \in Nat
    BY <1>1 DEF Row, Docs
  <2>2. Normal.fn = IF Synced.fn < code /\ Synced.code = 0
                    THEN code ELSE Synced.fn
    BY <1>1 DEF Normal, NormalizeLegacyFunctionVersions, Row
  <2> HIDE DEF code
  <2> QED
    BY <1>2, <1>3, <2>1, <2>2
<1> QED
  BY <1>2, <1>3, <1>4, <1>5, <1>6 DEF NoOlder

(* A request moves on with a row that is no older.                         *)
LEMMA MoveAhead ==
    ASSUME IInv, Ahead, NEW w \in Workers, NEW j, Become(w, j), row' = row,
           j.pc \in {"write", "save"} => NoOlder(row, j.row)
    PROVE  Ahead'
<1>1. job' = [job EXCEPT ![w] = j] /\ job \in [Workers -> Job]
  BY DEF Become, IInv, TypeOK
<1> SUFFICES ASSUME NEW u \in Workers, job'[u].pc \in {"write", "save"}
             PROVE  NoOlder(row', job'[u].row)
  BY DEF Ahead, NoOlder
<1>2. CASE u = w
  BY <1>1, <1>2
<1>3. CASE u # w
  BY <1>1, <1>3 DEF Ahead
<1> QED
  BY <1>2, <1>3

(* A request that arrives with row r.                                      *)
LEMMA BeginAhead ==
    ASSUME IInv, Ahead, NEW w \in Workers, NEW k, NEW r, NEW pc, NEW d, NEW o,
           Begin(w, k, r, pc, d, o), pc = "get" \/ NoOlder(row, r)
    PROVE  Ahead' /\ row' = row
<1> DEFINE j == [pc |-> pc, kind |-> k, row |-> r, doc |-> d, op |-> o]
<1>1. Become(w, j) /\ row' = row
  BY DEF Begin
<1>2. j.pc = pc /\ j.row = r
  OBVIOUS
<1> HIDE DEF j
<1> QED
  BY <1>1, <1>2, MoveAhead

(* Every request reads a row that is stored or corrected from the files.   *)
LEMMA RequestAhead ==
    ASSUME IInv, Ahead, NEW w \in Workers, Request(w)
    PROVE  Ahead' /\ row' = row
<1>0. /\ Synced \in Row /\ Normal \in Row
      /\ NoOlder(row, row) /\ NoOlder(row, Synced) /\ NoOlder(row, Normal)
  BY SyncedRow, NormalRow, SyncedNoOlder
<1>1. /\ row.fn \in Nat /\ Synced.fn \in Nat /\ Normal.fn \in Nat
      /\ row.fn <= Synced.fn /\ row.fn <= Normal.fn
  BY <1>0 DEF NoOlder, Row, IInv, TypeOK
<1>2. CASE \E d \in Docs : CommitFunctionDocument(w, d)
  BY <1>0, <1>2, BeginAhead DEF CommitFunctionDocument
<1>3. CASE \E b \in BOOLEAN, s \in Stages : UpdateFunction(w, b, s)
  <2>1. PICK b \in BOOLEAN, s \in Stages : UpdateFunction(w, b, s)
    BY <1>3
  <2> DEFINE p == IF b THEN SyncCodeVersionsOnPublish(Synced) ELSE Synced
             r == [p EXCEPT !.published = b, !.stage = s]
  <2>2. p \in Row /\ p.ver = Synced.ver /\ p.fn = Synced.fn
    BY <1>0 DEF SyncCodeVersionsOnPublish, Row
  <2> HIDE DEF p
  <2>3. r.ver = Synced.ver /\ r.fn = Synced.fn
    BY <2>2 DEF Row
  <2> HIDE DEF r
  <2>4. Begin(w, "update", r, "save", None, None)
    BY <2>1 DEF UpdateFunction, r, p
  <2> QED
    BY <1>0, <2>3, <2>4, BeginAhead DEF NoOlder
<1>4. CASE \E o \in OpIds : SubmitProgress(w, o)
  BY <1>4, BeginAhead DEF SubmitProgress
<1>5. CASE LoadFunctionDocument(w)
  BY <1>0, <1>5, BeginAhead DEF LoadFunctionDocument
<1>6. CASE EnsureFunctionSession(w)
  BY <1>0, <1>6, BeginAhead DEF EnsureFunctionSession
<1>7. CASE MaterializeFunctionApp(w)
  <2> DEFINE r == [Synced EXCEPT !.fn = @ + 1, !.codeDraft = Synced.fn + 1,
                                 !.stage = "code_generation"]
  <2>1. r.ver = Synced.ver /\ r.fn = Synced.fn + 1
    BY <1>0 DEF Row
  <2>2. Begin(w, "materialize", r, "save", None, None)
    BY <1>7 DEF MaterializeFunctionApp
  <2> HIDE DEF r
  <2>3. NoOlder(row, r)
    BY <1>0, <1>1, <2>1 DEF NoOlder
  <2> QED
    BY <2>2, <2>3, BeginAhead
<1>8. CASE TouchFunctionCodeDraft(w)
  <2> DEFINE n == Normal.fn + 1
             r == [Normal EXCEPT !.fn = n, !.code = n, !.codeDraft = n]
  <2>1. r.ver = Normal.ver /\ r.fn = Normal.fn + 1
    BY <1>0 DEF Row
  <2>2. Begin(w, "touch", r, "save", None, None)
    BY <1>8 DEF TouchFunctionCodeDraft
  <2> HIDE DEF r
  <2>3. NoOlder(row, r)
    BY <1>0, <1>1, <2>1 DEF NoOlder
  <2> QED
    BY <2>2, <2>3, BeginAhead
<1>9. CASE ApplyFunctionCode(w)
  <2> DEFINE r == [Normal EXCEPT !.fn = @ + 1, !.code = Normal.fn + 1,
                     !.codeDraft = Normal.fn + 1, !.op["generation"] = None,
                     !.src["generation"] = Normal.ver["technical"],
                     !.stage = "code_generated"]
  <2>1. r.ver = Normal.ver /\ r.fn = Normal.fn + 1
    BY <1>0 DEF Row
  <2>2. Begin(w, "apply", r, "save", None, None)
    BY <1>9 DEF ApplyFunctionCode
  <2> HIDE DEF r
  <2>3. NoOlder(row, r)
    BY <1>0, <1>1, <2>1 DEF NoOlder
  <2> QED
    BY <2>2, <2>3, BeginAhead
<1> QED
  BY <1>2, <1>3, <1>4, <1>5, <1>6, <1>7, <1>8, <1>9 DEF Request

(* The row that is written back is no older than the one it replaces.      *)
LEMMA UpdateAhead ==
    ASSUME OneRequest, IInv, Ahead, NEW w \in Workers, Update(w)
    PROVE  Ahead' /\ NoOlder(row, row')
<1>1. /\ job[w] \in Job /\ job[w].row \in Row /\ row \in Row
      /\ JobOK(job[w], applied) /\ NoOlder(row, job[w].row)
  BY DEF IInv, TypeOK, Job, Update, At, Ahead
<1>2. Ahead'
  <2>1. \A u \in Workers : job'[u].pc \notin {"write", "save"}
    BY DEF OneRequest, Update, Become, IInv, TypeOK, Idle
  <2> QED
    BY <2>1 DEF Ahead
<1>3. row' = Saved(w)
  BY DEF Update
<1>4. CASE job[w].kind # "commit"
  <2>1. row'.ver = job[w].row.ver /\ row'.fn = job[w].row.fn
    BY <1>1, <1>3, <1>4 DEF Saved, Row
  <2> QED
    BY <1>1, <1>2, <2>1 DEF NoOlder
<1>5. CASE job[w].kind = "commit"
  <2> DEFINE d == job[w].doc
             c == Committed(job[w].row, d)
  <2>1. d \in Docs /\ applied[d] # None /\ applied["product"] # None
    BY <1>1, <1>5 DEF JobOK, Docs, Update, At
  <2>2. c \in Row /\ c.fn = job[w].row.fn
    <3>1. c \in Row
      BY <1>1, <2>1, CommittedOK DEF JobOK
    <3>2. c.fn = job[w].row.fn
      BY <1>1, <2>1 DEF Committed, Row
    <3> QED
      BY <3>1, <3>2
  <2>3. /\ c.ver[d] \in Nat /\ c.ver[d] > job[w].row.ver[d]
        /\ \A e \in Docs \ {d} : c.ver[e] = job[w].row.ver[e]
    BY <1>1, <2>1, CommittedAbove
  <2>4. row'.ver = c.ver /\ row'.fn = c.fn
    BY <1>3, <1>5, <2>2 DEF Saved, Row
  <2> HIDE DEF c, d
  <2>5. \A e \in Docs : row.ver[e] \in Nat /\ job[w].row.ver[e] \in Nat
    BY <1>1 DEF Row
  <2>6. ASSUME NEW e \in Docs
        PROVE  row.ver[e] <= row'.ver[e]
    BY <1>1, <2>1, <2>3, <2>4, <2>5 DEF NoOlder
  <2> QED
    BY <1>1, <1>2, <2>2, <2>4, <2>6 DEF NoOlder
<1> QED
  BY <1>4, <1>5

(* Every further step of a request.                                        *)
LEMMA StepAhead ==
    ASSUME OneRequest, IInv, Ahead, NEW w \in Workers, Step(w)
    PROVE  Ahead' /\ (row' = row \/ NoOlder(row, row'))
<1>0. job[w] \in Job /\ row \in Row
  BY DEF IInv, TypeOK
<1>1. CASE WriteApplied(w)
  <2> DEFINE j == [job[w] EXCEPT !.pc = "save"]
  <2>1. j.row = job[w].row /\ NoOlder(row, job[w].row)
    BY <1>0, <1>1 DEF Job, WriteApplied, At, Ahead
  <2>2. Become(w, j) /\ row' = row
    BY <1>1 DEF WriteApplied
  <2> HIDE DEF j
  <2> QED
    BY <2>1, <2>2, MoveAhead
<1>2. CASE RecordDraftOperation(w)
  <2> DEFINE r == [row EXCEPT !.op[ops[job[w].op].conv] = job[w].op]
             j == [job[w] EXCEPT !.pc = "save", !.row = r]
  <2>1. r.ver = row.ver /\ r.fn = row.fn
    BY <1>0 DEF Row
  <2> HIDE DEF r
  <2>2. j.row = r /\ NoOlder(row, row)
    BY <1>0, SyncedNoOlder DEF Job
  <2>3. Become(w, j) /\ row' = row
    BY <1>2 DEF RecordDraftOperation, r
  <2> HIDE DEF j
  <2> QED
    BY <2>1, <2>2, <2>3, MoveAhead DEF NoOlder
<1>3. CASE JobFails(w)
  <2>1. Idle.pc \notin {"write", "save"}
    BY DEF Idle
  <2> QED
    BY <1>3, <2>1, MoveAhead DEF JobFails
<1> QED
  BY <1>1, <1>2, <1>3, UpdateAhead DEF Step

(* With one request at a time, through failures at any step and whatever   *)
(* agents write meanwhile, no handler stores an older document or function *)
(* version over a newer one, although each writes back every column of a   *)
(* copy it took before; with two requests the later write may.             *)
THEOREM VersionsNeverGoBack ==
    ASSUME OneRequest
    PROVE  Spec => [][NoOlder(row, row')]_vars
<1>1. Init => Ahead
  BY DEF Init, Ahead, Idle
<1>2. IInv /\ Ahead /\ [Next]_vars => Ahead' /\ NoOlder(row, row')
  <2> SUFFICES ASSUME IInv, Ahead, [Next]_vars
               PROVE  Ahead' /\ NoOlder(row, row')
    OBVIOUS
  <2>1. row' = row => NoOlder(row, row')
    BY SyncedNoOlder DEF NoOlder
  <2>2. CASE Agent \/ UNCHANGED vars
    <3>1. UNCHANGED <<row, job>>
      BY <2>2 DEF Agent, WriteProductDraft, WriteTechnicalDraft, WriteCode,
                  Write, StartOperation, vars
    <3> QED
      BY <2>1, <3>1 DEF Ahead, NoOlder
  <2>3. CASE \E w \in Workers : Request(w) \/ Step(w)
    BY <2>1, <2>3, RequestAhead, StepAhead
  <2> QED
    BY <2>2, <2>3 DEF Next
<1> QED
  BY <1>1, <1>2, Inductive, PTL DEF Spec
=============================================================================
