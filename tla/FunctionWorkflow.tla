--------------------------- MODULE FunctionWorkflow ---------------------------
(***************************************************************************)
(* How one function goes from a product document to a technical document,  *)
(* to generated code and to publication (func-operation's FunctionLogic).  *)
(*                                                                         *)
(* Agents write drafts into files; users adopt a draft, which copies the   *)
(* file and gives it a version; the function's row records which version   *)
(* of its source each adopted artifact was made from.  A handler reads the *)
(* row, corrects it from the files, works, and writes the whole row back;  *)
(* nothing keeps two handlers, or a handler and an agent, apart.           *)
(*                                                                         *)
(* A text stands for a file's content.  from[x] is the product document    *)
(* that the author of the technical document x had in front of him.        *)
(***************************************************************************)
EXTENDS Integers

CONSTANTS
    Workers,        \* concurrent requests
    Kinds,          \* the kinds of request that arrive
    MaxTexts,       \* bound on the texts agents write
    MaxOps,         \* bound on conversation operations
    MaxVersion,     \* bound on version numbers
    None

AllKinds == {"commit", "load", "update", "session", "materialize", "touch",
             "apply", "record"}

ASSUME WorkflowAssumption ==
    /\ MaxTexts \in Nat /\ MaxOps \in Nat /\ MaxVersion \in Nat
    /\ None \notin Nat
    /\ Kinds \subseteq AllKinds

VARIABLES
    row,            \* the function's row
    applied,        \* the adopted document files
    draft,          \* the draft document files
    app,            \* the application directory exists
    newest,         \* the adopted document with the latest modification time
    from,           \* what each text was written from
    nextText,
    ops,            \* conversation operations, by id
    job,            \* requests in flight
    recorded        \* history: versions recorded with the text they name

vars == <<row, applied, draft, app, newest, from, nextText, ops, job, recorded>>

Docs == {"product", "technical"}

Convs == {"technical", "generation"}

(* The document each conversation starts from.                             *)
SourceOf(conv) == IF conv = "technical" THEN "product" ELSE "technical"

Texts == 1..MaxTexts

OpIds == 1..MaxOps

Stages == {"product_doc", "technical_doc", "code_generation", "code_generated"}

Row == [ver : [Docs -> Nat], draftVer : [Docs -> Nat],
        op : [Convs -> OpIds \cup {None}], src : [Convs -> Nat],
        fn : Nat, code : Nat, codeDraft : Nat,
        stage : Stages, published : BOOLEAN, stale : BOOLEAN]

Operation == [conv : Convs \cup {None},
              state : {"none", "running", "completed", "superseded"},
              base : [Docs -> Nat], read : Texts \cup {None}]

Job == [pc : {"idle", "write", "save", "get"}, kind : AllKinds \cup {"none"},
        row : Row, doc : Docs \cup {None}, op : OpIds \cup {None}]

NewRow == [ver |-> [d \in Docs |-> 0], draftVer |-> [d \in Docs |-> 0],
           op |-> [c \in Convs |-> None], src |-> [c \in Convs |-> 0],
           fn |-> 0, code |-> 0, codeDraft |-> 0,
           stage |-> "product_doc", published |-> FALSE, stale |-> FALSE]

NoOp == [conv |-> None, state |-> "none", base |-> [d \in Docs |-> 0],
         read |-> None]

Idle == [pc |-> "idle", kind |-> "none", row |-> NewRow, doc |-> None,
         op |-> None]

Init ==
    /\ row = NewRow
    /\ applied = [d \in Docs |-> None]
    /\ draft = [d \in Docs |-> None]
    /\ app = FALSE
    /\ newest = None
    /\ from = [x \in Texts |-> None]
    /\ nextText = 1
    /\ ops = [o \in OpIds |-> NoOp]
    /\ job = [w \in Workers |-> Idle]
    /\ recorded = {}

Files == <<applied, draft, app, newest>>

Authors == <<from, nextText>>

-----------------------------------------------------------------------------
(* What the files say of a row.                                            *)

AppliedDocumentVersion(d, stored) ==
    IF applied[d] = None THEN 0 ELSE IF stored > 0 THEN stored ELSE 1

DraftDocumentVersion(d, version, stored) ==
    LET next == IF draft[d] # None /\ draft[d] # applied[d]
                THEN version + 1 ELSE version
    IN  IF draft[d] # None /\ stored > next THEN stored ELSE next

(* A row without a recorded source version falls back on file times.       *)
TechnicalStale(version, src) ==
    /\ applied["product"] # None
    /\ applied["technical"] # None
    /\ IF src > 0 THEN src # version ELSE newest = "product"

SyncDocumentStateFromFiles(r) ==
    LET v == [d \in Docs |-> AppliedDocumentVersion(d, r.ver[d])]
        stale == TechnicalStale(v["product"], r.src["technical"])
        dv == [d \in Docs |-> DraftDocumentVersion(d, v[d], r.draftVer[d])]
    IN  [r EXCEPT !.ver = v, !.stale = stale,
                  !.draftVer = IF stale
                               THEN [dv EXCEPT !["technical"] = v["technical"]]
                               ELSE dv]

(* After the correction from files only the code versions can be missing.  *)
NormalizeLegacyFunctionVersions(r) ==
    LET code == IF r.code = 0 /\ r.stage = "code_generated"
                THEN r.ver["technical"] + 1 ELSE r.code
    IN  [r EXCEPT !.code = code,
                  !.fn = IF @ < code /\ r.code = 0 THEN code ELSE @,
                  !.codeDraft = IF @ = 0 THEN code ELSE @]

(* Mutant: the draft's number is taken as it is.                           *)
AdoptDraftVersion(version, draftVersion) == draftVersion

AdoptDocumentVersion(version, draftVersion) ==
    IF draftVersion > version THEN draftVersion ELSE version + 1

-----------------------------------------------------------------------------
(* Conversation operations and the agents that work on them.               *)

(* Start reads the row as it is stored and supersedes what is active.      *)
StartOperation(o, conv) ==
    /\ ops[o].state = "none"
    /\ \A p \in OpIds : p < o => ops[p].state # "none"
    /\ ops' = [p \in OpIds |->
                 IF p = o
                 THEN [conv |-> conv, state |-> "running", base |-> row.ver,
                       read |-> applied["product"]]
                 ELSE IF ops[p].conv = conv /\ ops[p].state = "running"
                      THEN [ops[p] EXCEPT !.state = "superseded"] ELSE ops[p]]
    /\ UNCHANGED <<row, Files, Authors, job, recorded>>

Write(d, source) ==
    /\ nextText \in Texts
    /\ draft' = [draft EXCEPT ![d] = nextText]
    /\ from' = [from EXCEPT ![nextText] = source]
    /\ nextText' = nextText + 1
    /\ UNCHANGED <<row, applied, app, newest, ops, job, recorded>>

WriteProductDraft == Write("product", None)

(* The agent of an operation works from what it read at the start, and is  *)
(* not stopped when the operation is superseded.                           *)
WriteTechnicalDraft(o) ==
    /\ ops[o].conv = "technical"
    /\ ops[o].state # "completed"
    /\ ops[o].read # None
    /\ Write("technical", ops[o].read)

WriteCode(o) ==
    /\ ops[o].conv = "generation"
    /\ ops[o].state # "completed"
    /\ app' = TRUE
    /\ UNCHANGED <<row, applied, draft, newest, Authors, ops, job, recorded>>

-----------------------------------------------------------------------------
(* Handlers.                                                               *)

At(w, pc) == job[w].pc = pc

Become(w, j) == job' = [job EXCEPT ![w] = j]

Begin(w, kind, r, pc, d, o) ==
    /\ kind \in Kinds
    /\ At(w, "idle")
    /\ Become(w, [pc |-> pc, kind |-> kind, row |-> r, doc |-> d, op |-> o])
    /\ UNCHANGED <<row, applied, draft, newest, Authors, recorded>>

Synced == SyncDocumentStateFromFiles(row)

Normal == NormalizeLegacyFunctionVersions(Synced)

(* The source version of the draft of conversation conv: the baseline of   *)
(* the operation that completed it; without an operation, the version in   *)
(* force now.                                                              *)
CompletedOperationBaselineVersion(r, conv) ==
    LET o == r.op[conv] IN
    IF o = None THEN r.ver[SourceOf(conv)]
    ELSE IF ops[o].state = "completed" /\ ops[o].conv = conv
         THEN ops[o].base[SourceOf(conv)] ELSE 0

CommitFunctionDocument(w, d) ==
    /\ d = "technical" =>
          /\ Synced.ver["product"] # 0
          /\ CompletedOperationBaselineVersion(Synced, "technical")
                = Synced.ver["product"]
    /\ Begin(w, "commit", Synced, "write", d, None)
    /\ UNCHANGED <<ops, app>>

WriteApplied(w) ==
    LET d == job[w].doc IN
    /\ At(w, "write")
    /\ draft[d] # None
    /\ applied' = [applied EXCEPT ![d] = draft[d]]
    /\ newest' = d
    /\ Become(w, [job[w] EXCEPT !.pc = "save"])
    /\ UNCHANGED <<row, draft, app, Authors, ops, recorded>>

(* Mutant: the document's type is stored as the stage.                     *)
CommittedTypeAsStage(r, d) ==
    LET v == AdoptDocumentVersion(r.ver[d], r.draftVer[d])
    IN  [r EXCEPT !.ver[d] = v, !.draftVer[d] = v, !.stage = d]

(* Mutant: the document's own version is recorded as its source version.   *)
CommittedOwnSource(r, d) ==
    LET v == AdoptDocumentVersion(r.ver[d], r.draftVer[d])
        s == [r EXCEPT !.ver[d] = v, !.draftVer[d] = v]
    IN  IF d = "product" THEN [s EXCEPT !.stage = "technical_doc"]
        ELSE [s EXCEPT !.stage = "code_generation", !.op["technical"] = None,
                       !.src["technical"] = v]

(* The row a commit writes back.                                           *)
Committed(r, d) ==
    LET v == AdoptDocumentVersion(r.ver[d], r.draftVer[d])
        s == [r EXCEPT !.ver[d] = v, !.draftVer[d] = v]
    IN  IF d = "product" THEN [s EXCEPT !.stage = "technical_doc"]
        ELSE [s EXCEPT !.stage = "code_generation", !.op["technical"] = None,
                       !.src["technical"] = r.ver["product"]]

(* A draft document is loaded: corrected versions are stored.              *)
LoadFunctionDocument(w) ==
    /\ Synced # row
    /\ Begin(w, "load", Synced, "save", None, None)
    /\ UNCHANGED <<ops, app>>

SyncCodeVersionsOnPublish(r) ==
    LET code == IF r.codeDraft > r.code THEN r.codeDraft ELSE r.code
    IN  [r EXCEPT !.code = code, !.codeDraft = code]

(* Mutant: the requested stage is not checked.                             *)
UpdateFunctionAnyStage(w, published, stage) ==
    /\ published => Synced.code > 0
    /\ Begin(w, "update",
             [Synced EXCEPT !.published = published, !.stage = stage],
             "save", None, None)
    /\ UNCHANGED <<ops, app>>

UpdateFunction(w, published, stage) ==
    LET r == Synced IN
    /\ published => r.code > 0
    /\ stage = "technical_doc" => applied["product"] # None
    /\ stage \in {"code_generation", "code_generated"} =>
          applied["technical"] # None
    /\ Begin(w, "update",
             [(IF published THEN SyncCodeVersionsOnPublish(r) ELSE r)
                EXCEPT !.published = published, !.stage = stage],
             "save", None, None)
    /\ UNCHANGED <<ops, app>>

(* The row is written back with a session id and nothing else new.         *)
EnsureFunctionSession(w) ==
    /\ Begin(w, "session", row, "save", None, None)
    /\ UNCHANGED <<ops, app>>

(* The draft of the application is scaffolded or found.                    *)
MaterializeFunctionApp(w) ==
    /\ \A d \in Docs : applied[d] # None
    /\ Begin(w, "materialize",
             [Synced EXCEPT !.fn = @ + 1, !.codeDraft = Synced.fn + 1,
                            !.stage = "code_generation"],
             "save", None, None)
    /\ app' = TRUE
    /\ UNCHANGED ops

TouchFunctionCodeDraft(w) ==
    LET next == Normal.fn + 1 IN
    /\ app
    /\ Normal.codeDraft < next
    /\ Begin(w, "touch",
             [Normal EXCEPT !.fn = next, !.code = next, !.codeDraft = next],
             "save", None, None)
    /\ UNCHANGED <<ops, app>>

ApplyFunctionCode(w) ==
    LET r == Normal IN
    /\ \A d \in Docs : r.ver[d] # 0
    /\ ~ r.stale
    /\ CompletedOperationBaselineVersion(r, "generation") = r.ver["technical"]
    /\ app
    /\ Begin(w, "apply",
             [r EXCEPT !.fn = @ + 1, !.code = r.fn + 1, !.codeDraft = r.fn + 1,
                       !.op["generation"] = None,
                       !.src["generation"] = r.ver["technical"],
                       !.stage = "code_generated"],
             "save", None, None)
    /\ UNCHANGED <<ops, app>>

(* SubmitProgress completes the operation whatever its state, a completed  *)
(* one again when the call is delivered twice, and then records it in the  *)
(* row.                                                                    *)
SubmitProgress(w, o) ==
    /\ ops[o].state # "none"
    /\ Begin(w, "record", NewRow, "get", None, o)
    /\ ops' = [ops EXCEPT ![o].state = "completed"]
    /\ UNCHANGED app

RecordDraftOperation(w) ==
    LET o == job[w].op IN
    /\ At(w, "get")
    /\ Become(w, [job[w] EXCEPT !.pc = "save",
                     !.row = [row EXCEPT !.op[ops[o].conv] = o]])
    /\ UNCHANGED <<row, Files, Authors, ops, recorded>>

(* functionDao.Update writes every column.                                 *)
InBounds(r) == r.fn <= MaxVersion /\ \A d \in Docs : r.ver[d] <= MaxVersion

Saved(w) == [(IF job[w].kind = "commit" THEN Committed(job[w].row, job[w].doc)
              ELSE job[w].row) EXCEPT !.stale = FALSE]

Update(w) ==
    /\ At(w, "save")
    /\ InBounds(Saved(w))
    /\ row' = Saved(w)
    /\ recorded' = IF job[w].kind = "commit"
                   THEN recorded \cup {<<job[w].doc, Saved(w).ver[job[w].doc],
                                         applied[job[w].doc]>>}
                   ELSE recorded
    /\ Become(w, Idle)
    /\ UNCHANGED <<Files, Authors, ops>>

(* A call fails or the process dies; files already written stay.           *)
JobFails(w) ==
    /\ ~ At(w, "idle")
    /\ Become(w, Idle)
    /\ UNCHANGED <<row, Files, Authors, ops, recorded>>

-----------------------------------------------------------------------------
Agent ==
    \/ WriteProductDraft
    \/ \E o \in OpIds : WriteTechnicalDraft(o) \/ WriteCode(o)
    \/ \E o \in OpIds, c \in Convs : StartOperation(o, c)

Request(w) ==
    \/ \E d \in Docs : CommitFunctionDocument(w, d)
    \/ \E b \in BOOLEAN, s \in Stages : UpdateFunction(w, b, s)
    \/ \E o \in OpIds : SubmitProgress(w, o)
    \/ LoadFunctionDocument(w) \/ EnsureFunctionSession(w)
    \/ MaterializeFunctionApp(w) \/ TouchFunctionCodeDraft(w)
    \/ ApplyFunctionCode(w)

Step(w) ==
    WriteApplied(w) \/ RecordDraftOperation(w) \/ Update(w) \/ JobFails(w)

Next == Agent \/ \E w \in Workers : Request(w) \/ Step(w)

Spec == Init /\ [][Next]_vars

-----------------------------------------------------------------------------
(* What the console shows: buildFunctionReadiness of the corrected row.    *)
CodeStale(r) ==
    IF r.src["generation"] > 0 THEN r.src["generation"] # r.ver["technical"]
    ELSE r.ver["technical"] > r.code

NextAction(r) ==
    IF r.draftVer["product"] > r.ver["product"] THEN "adopt_product_doc"
    ELSE IF r.ver["product"] = 0 THEN "generate_product_doc"
    ELSE IF r.draftVer["technical"] > r.ver["technical"] THEN "adopt_technical_doc"
    ELSE IF r.ver["technical"] = 0 \/ r.stale THEN "generate_technical_doc"
    ELSE IF r.code = 0 \/ CodeStale(r) THEN "generate_page"
    ELSE IF r.published THEN "open_published_function"
    ELSE "publish_function"

-----------------------------------------------------------------------------
(***************************************************************************)
(* Properties.                                                             *)
(***************************************************************************)

(* The row, the files and the requests keep their shape.                   *)
TypeOK ==
    /\ row \in Row
    /\ applied \in [Docs -> Texts \cup {None}]
    /\ draft \in [Docs -> Texts \cup {None}]
    /\ app \in BOOLEAN
    /\ newest \in Docs \cup {None}
    /\ from \in [Texts -> Texts \cup {None}]
    /\ nextText \in 1..(MaxTexts + 1)
    /\ ops \in [OpIds -> Operation]
    /\ job \in [Workers -> Job]
    /\ recorded \subseteq Docs \X Nat \X (Texts \cup {None})

(* No recorded source version lies ahead of the document it names, although *)
(* handlers overwrite each other's rows with copies read long before and    *)
(* operations carry baselines of rows that have since been overwritten.     *)
SourcesPrecede ==
    \A c \in Convs : row.src[c] <= row.ver[SourceOf(c)]

(* A stage is only ever shown with the documents it builds on in place,     *)
(* whichever stale row was written last.                                    *)
StageHasDocuments ==
    /\ row.stage # "product_doc" => applied["product"] # None
    /\ row.stage \in {"code_generation", "code_generated"} =>
          applied["technical"] # None

(* With one request at a time, through failures between the copy of the     *)
(* file and the update of the row, a version never names two texts.         *)
VersionNamesOneText ==
    \A a, b \in recorded : (a[1] = b[1] /\ a[2] = b[2]) => a[3] = b[3]

Quiet == \A w \in Workers : At(w, "idle")

(* The recorded source version is the version of the product document that  *)
(* the adopted technical document was written from.                         *)
SourceVersionTrue ==
    Quiet => \A p \in Texts :
        <<"product", row.src["technical"], p>> \in recorded =>
            from[applied["technical"]] = p

(* A technical draft that was completed from the product document in force  *)
(* and replaces a stale technical document is offered for adoption.         *)
StaleDraftAdoptable ==
    LET r == Synced IN
    (/\ Quiet
     /\ r.stale /\ r.src["technical"] > 0
     /\ draft["technical"] \notin {None, applied["technical"]}
     /\ r.op["technical"] # None
     /\ CompletedOperationBaselineVersion(r, "technical") = r.ver["product"])
       => NextAction(r) \in {"adopt_technical_doc", "adopt_product_doc"}
=============================================================================
