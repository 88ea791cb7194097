# TLA+ models of ai-dandelion

ai-dandelion lets users describe a business function in a conversation. An agent
writes a product document, a technical document and the code of a small
application; the application is published behind menus of an admin console and
executed in an embedded runtime. This directory holds TLA+ models of the parts
of the system where interleavings, failures and crashes decide whether it is
correct, the TLC runs that check them on small instances, and TLAPS proofs of
the properties that matter most.

`PROJECT.json` maps every definition to the source lines it models, lists the
runs, a mutant for every property, the hazards of the code and the theorems.

## 1. Inventory

### Services

| service | state it keeps | how it is reached |
|---|---|---|
| `func-operation` | MySQL: functions, releases, outbox, conversation operations, skills, external APIs, public configuration, execution logs. Files: documents, workspaces of generated applications. Artifact store (directory or S3). Memory: loaded modules of the runtime | gRPC from the gateway and `ai-agent` |
| `ai-agent` | MySQL: sessions, messages, references, bots. Memory: runs, brokers, bot workers | gRPC from the gateway; starts an agent process per turn |
| `system` | MySQL: users, roles, menus, uploads, notifications, configuration. Redis: tokens | gRPC from the gateway and `func-operation` |
| `inner-gateway` | Memory: sockets, runs, subscriptions, event history, tickets | HTTP and WebSocket from the browser |
| `toolbox` | nothing of its own; event bus, Redis lock around migrations, agent runner, upload clients | linked into the services |

### Components, what is hard in them, what makes them correct

| component | operations | what is hard | correctness | module |
|---|---|---|---|---|
| Function releases | stage, promote, publish, revoke, restore, backfill, reconcile, delete, reload, invoke | handlers interleave at every database or file call, rows are written back whole, crashes, staged start-up, an agent edits the workspace all the time | at most one published release; only published content runs; published rows point at a release | `FunctionRelease` |
| Outbox | record, claim, deliver, mark, retry, replay, direct delivery | several processors, leases that lapse during a delivery, lost marks, crashes | nothing is marked done undelivered; claims exclude each other; everything is delivered in the end | `FunctionOutbox` |
| Workflow and documents | write drafts, adopt, load, update, materialise, touch, apply code, record operations | files and row change separately, stale rows are written back, agents write at any time | versions name one text, sources do not run ahead, stages have their documents | `FunctionWorkflow` |
| Conversation operations | start, resume, supersede, complete, finish | completion calls survive cancellation and are redelivered, checks and writes are separate | only an executed call completes, each once; nothing old stays open | `ConversationOperation` |
| Agent message runs | start, stream, store, save partial, cancel | three goroutines, two channels, a context that ends at any moment, crash between statements | "done" is durable, a partial answer is exclusive, one terminal envelope, cancellation unwinds | `AgentRun` |
| Tool permission and question brokers | wait, submit, remove | answer against cancellation, answers for another conversation | tools run only when allowed; accepted answers count; no stale request | `AgentRun` |
| Agent sessions and references | ensure, delete, update | deletion during a turn | see above | `AgentRun` |
| Gateway runs | start, copy, cancel, close socket | the end of a run races its cancellation | see above | `AgentRun` |
| Realtime tickets, subscriptions, event history | issue, consume, register, publish, replay, acknowledge | replay against live events, cursor that left the history, entries delivered twice, pooled connection objects, stalled peers under a mutex | tickets are used once, no event is skipped or goes to another user, nobody blocks for ever | `RealtimeEvents` |
| Users and tokens | login, refresh, logout, validate, expire; create, edit, disable, delete users | three keys written one by one, rotation against concurrent use, reads that straddle an edit or a logout | one party can renew a session, nobody is let in late | `AuthSession`, `SystemDirectory` |
| Roles, menus, function menu synchronisation | grant, edit, seed, publish, sync, unpublish, delete, check | many statements without a transaction, checks that read menus and grants at different moments | the built-in role keeps every menu; nothing opens without a grant | `MenuAccess`, `SystemDirectory` |
| Bots | edit, reload, connect, reconnect, stop | reloads interleave, goroutines end late, reads fail after the stop | one worker per enabled channel, none after the stop | `BotRuntime` |
| Uploads, notifications | prepare, confirm, list, mark | two-step upload, ownership | only the owner's confirmed uploads are served | planned |
| Function skills, external API, public configuration | enable, invoke, rotate | contract and code versions drift | confirmed calls only | planned |
| Data capability, generated runtime host | queries of generated code | filters built from data | a query stays in its function | candidate |
| Everything else | configuration rows, HTTP adaptors, clients, generated code | no protocol between steps | | not modelled |

The services interact by gRPC calls without shared transactions. Within a
service nothing but single SQL statements, short transactions and mutexes around
in-memory maps keeps requests apart, so every model takes one such call as one
step. The edits of `SystemDirectory` are the exception: what such a request reads
before its transaction only decides whether it is refused, so the transaction
alone is the step, and the reads are covered by letting the row be gone, or the
status written back be any.

## 2. Modules

Each component has a specification `X.tla`, an instance module `MCX.tla` for TLC
and a proof module `XProofs.tla`; the proofs of realtime events and bots are in
`ConnectionsProofs`, those of menus in `SystemAccessProofs`. Operators whose comment
says *mutant* are faulty variants of a definition, used to show that a property can
fail; they take no part in the specification.

### FunctionRelease

State: the function table (status, active release, whether code was applied),
the release table by id, the workspace of every application, the artifact store,
the runtime's loaded artifacts, one job per request in flight, the sweeper, and
the stage of the process. An artifact is identified with its content, because
the store is addressed by SHA-256 and the hash covers the application id.

Actions: `UpdateFunctionPublish/Unpublish/Edit`, `ApplyFunctionCode`,
`DeleteFunction`, `ReloadGeneratedApps` and `ActiveForApp` begin a request;
`ArtifactSnapshot`, `StageReuse`, `StageVersion`, `CreateStaged`,
`PromoteCheck`, `Promote`, `VerifyPromoted`, `Publish`, `ListPublished`,
`LoadApprovedArtifacts`, `SaveRow(Again)`, `RevokeFunctionReleases`,
`DeleteRow`, `RemoveWorkspace`, `RequireRuntimeAccess`, `InvokeRun` and
`RecordExecution` are its calls, in the order of `logic/release.go`,
`logic/function.go` and `logic/generated_app.go`. `JobFails` lets any call fail.
`AgentEdit` writes the workspace at any moment, `ReconcileList` and
`ReconcileSweep` are the artifact sweeper, `Crash` and the `Boot...` actions the
death of the process and its start-up: backfill, reconcile, revoke orphans,
restore.

### FunctionOutbox

State: the event table, the processors (ticker, replay, the request that
delivers its own event), and two history sets. Clock values are reduced to two
facts per event: its next attempt is due, its lease has lapsed. `ProcessReady`
reads the clock once per batch, so a lease may lapse at any moment of a
delivery. Actions: `Create`, `BecomesDue`, `LeaseLapses`, `Select`, `Claim`,
`Deliver`, `DeliverFails`, `MarkDone`, `MarkRetry`, `MarkRetryLost`, `Requeue`,
`TryDeliverRealtimeEvent`, `MarkDoneByUUID`, `Abandon`, `Crash`.

`OutboxPromise` is the abstract specification: an event is owed once recorded,
takes effect, is settled, and may be reopened; an effect is never taken back and
nothing is settled without it. `FateOf` is the refinement mapping, from the
status of the row and the history of deliveries; `KeepsPromise` says that the
outbox implements it.

### FunctionWorkflow

State: the row of one function with versions, draft versions, sources and stage;
the adopted and draft files; what each text was written from; conversation
operations; jobs. Handlers read the row, correct it from the files
(`SyncDocumentStateFromFiles`, `NormalizeLegacyFunctionVersions`), work, and
write the whole row back (`Update`). Actions: `CommitFunctionDocument` with
`WriteApplied` and `Update`, `LoadFunctionDocument`, `UpdateFunction`,
`EnsureFunctionSession`, `MaterializeFunctionApp`, `TouchFunctionCodeDraft`,
`ApplyFunctionCode`, `SubmitProgress`, `RecordDraftOperation`, and the agents'
writes. `NextAction` is `buildFunctionReadiness`.

### ConversationOperation

State: operations by id with their state, executed and sent completion calls,
turns. A turn starts or resumes (`SupersedeActive`, `Create`, `GetForResume`,
`Resume`), is admitted (`Prepare`), runs, and ends (`FinishIfActive`). The
completion tool runs under a context that survives cancellation: `Submit` sends
a call, `Complete` executes it at any later time, any number of times.

FunctionWorkflow holds only what it needs of operations; ConversationOperation
refines that part with supersession, resumption and redelivery.

### AgentRun

One turn from the socket to the store. State in four groups: the gateway
(socket, copying goroutine, run context, envelopes written), `StreamMessage`
(place, agent session id, whether there is content, context, returned status)
with the items on the wire, the runner (place, error channel) and the brokers
(callback of each tool use, pending table, submitted decision), and the store
(sessions, agent session ids, references, messages, finished operations).

`StartAgentStream`, `CopyItem`, `CopyEnd`, `CancelRun` and `CloseSocket` are the
gateway. `LoadSession` to `SavePartialAgent` are `StreamMessage`: the three
cases of its select are `ReceiveDelta`/`ReceiveDone`/`ReceiveAsk`, `ReceiveErr`
and `NoticeCancel`, each of which may be taken when it is ready; statements and
sends under a context that is done fail. `RunnerCancelled`, `RunnerPut` and
`CloseRunner` are the runner: its error channel has room for one error, a put
blocks when it is full, and closing it under a callback that is sending panics,
which kills the process. `CallbackStarts` to `WaitEnds` and `Submit` are the
brokers, one table for both because their protocols are the same. The agent, the
delivery of a cancellation by gRPC and the death of the process are external.
The resolution of skills, servers and models is one step that may fail; the
"accepted" and "ack" envelopes are left out.

`TurnPromise` is the abstract specification of a turn, without sockets, streams
and goroutines: the prompt is stored before an answer, an answer is kept in part
or whole and never both, a turn is announced only when its answer is stored and
its conversation can be resumed, and a request is closed by one envelope, "done"
only after the announcement. Deleting a conversation ends the promises of its
turns. The mapping reads the promise off the concrete state: `FateOf` from the
stored messages and the status the handler returned, `Resumable` from the agent
session ids, `SeenOf` from the last envelope written. `FateOf` has two values that
the promise does not know, "torn" (both answers stored) and "lost" (announced and
not stored), so that `KeepsTurnPromise` fails if the code ever reaches them.

### RealtimeEvents

The gateway's side of the event bus. State: the Redis stream and what the
gateway's consumer group has read without acknowledging it, the one subscriber
goroutine, the history and the registered writers of `realtime.Handler`, tickets,
and one record per call of `Serve` with its place, connection object and link.
`ReadGroup` alternates between unacknowledged and new entries as `Subscribe` does;
`AppendHistory`, `SnapshotWriters`, `WriteLive` and `Ack` are `publishEvent` and
its caller, `AckFails` the acknowledgement whose error is dropped. `Consume`,
`CountConnections`, `RegisterClient`, `BeginReplay`, `WriteReplayed`, `EndReplay`,
`UnregisterClient` and `MarkClosed` are `Serve`. Mutexes are where the code takes
them: a replay holds the history, a write holds the socket's mutex for as long as
its peer stalls. A writer writes to whatever its connection object carries now
(`WriteThrough`), because the websocket library pools these objects. Browsers
leave, stall and come back with the last event they saw; the gateway restarts.
`owed` and `evicted` are history variables for `NoGap`: what a tab must have been
sent, and which events ever left the history.

### BotRuntime

State: the bots' rows, the requests that edit them, the table of workers, every
worker ever started with its goroutine and its client, and the runtime's context.
An edit saves a row and reloads: `SwapWorkers`, `StopWorker`, `ListEnabled` (or
`ListFails`), `StartChannelWorker`. `ClientStart`, `Connect`, `ConnectionFails`,
`ClientEnds` and `DeleteWorker` are a worker; `RuntimeStop`, `RuntimeCancel` and
`RuntimeDown` the stop. `overlap` and `missed` record that reloads interleaved and
that the last one could not read the rows.

`MCConnections` puts RealtimeEvents and BotRuntime in one run; they share nothing,
so a behaviour exercises one of them.

### SystemDirectory, AuthSession, MenuAccess

`SystemDirectory` holds the tables of users, roles, their relation, menus and
grants, with the edits of operators and the seeding at start-up as actions. Both
other modules extend it. Its ghosts are a clock of edits and the last edit after
which a user was enabled, had an enabled role, or was granted a menu.

`AuthSession`: the three kinds of Redis keys (session, access, refresh) and the
requests. `Login`, `RefreshToken`, `Logout` and `ValidateToken` begin one;
`GetSession`, `GetUser`, `Pass`, `Refuse` are its checks in the order of the code;
`NewSession` and `Rotate` sign a pair, `SetSession`, `SetAccess` and `SetRefresh`
store it key by key, `SetFails` undoes what was written before, if that works;
`ConsumeLost` is a GETDEL whose answer is lost. Keys expire in the order in which
their times to live allow it.

`MenuAccess`: `PublishMenu`, `SyncMenu`, `UnpublishMenu` and `DeleteMenu` begin a
call of `SyncGeneratedFunctionMenu`, the steps after them are its statements;
`ListMenus`, `ListGrants`, `LookupPage` and `LookupAction` are the four reads of
`CheckFunctionMenuAccess`. `MCSystemAccess` checks the two modules over one
directory, a behaviour exercising one of them.

## 3. Runs

| run | instance | states | shows |
|---|---|---|---|
| `release_race` | 1 function, 2 contents, 2 concurrent requests, 2 releases | 315 k | `TrustedCode`, `OnePublished`, `ActivePointer`, `NoOrphanAtRestore` with agent edits, sweeper, failures, crashes and legacy rows |
| `release_serial` | 2 functions, 1 request at a time: publish, unpublish, edit, apply, reload | 252 k | `PointerIsPublished`, which concurrent requests do break |
| `release_sweep_race` | 1 function, 1 request | | the sweeper removes the artifact of a published release (violation) |
| `outbox` | 2 events, ticker and replay, batches of 1, 2 faults | 57 k | `DoneWasDelivered`, `ClaimExclusive`, `EventuallyDone`, and the refinement `KeepsPromise` |
| `workflow_adoption` | 1 request beside the agents, all kinds, 2 texts, 1 operation, versions to 2 | 409 k | `SourcesPrecede`, `StageHasDocuments`, `VersionNamesOneText` |
| `workflow_source` | 1 request, 4 texts, 2 operations | | a document is adopted with a false source version (violation) |
| `workflow_stale_draft` | 1 request | | a regenerated draft is not offered (violation) |
| `conversation_turns` | 1 turn at a time, 4 operations, 3 tool uses | 33 k | `CompletedHasExecution`, `ActiveIsLatest`, `CompletionIsNew` |
| `agent_turns` | 1 run, 2 conversations, 1 tool use, 1 text event, 1 mishap, failing calls | 476 k | `DoneIsDurable`, `PartialIsExclusive`, `ToolRunsApproved`, `AcceptedAnswerCounts`, `NoStaleRequest`, `CancelUnwinds`, and the refinement `KeepsTurnPromise` |
| `agent_partial` | as before, no failures, no mishaps | | the partial answer of a cancelled turn is lost (violation) |
| `connections` | 2 tabs of 2 users, 3 events (2 when peers stall), 2 sockets, history of 2, 2 upsets; 1 bot, 3 workers, 2 edits, 1 fault | 3.2 M | `NoGap`, `OnlyOwnEvents`, `TicketOpensOnce`, `OnlyPeersBlock`; `NoDuplicateWorker`, `SettledWorkers`, `StopCancelsAll` |
| `system_access` | 2 users, 2 roles, 2 requests, 2 pairs of tokens; 1 function with 1 action, 2 synchronisations beside 1 check | 892 k | `OneRenewal`, `NoLateEntry`; `AdminHoldsAll`, `OpenedByGrant` |

Bounds. Two requests are enough for the races of the release path, because each
of them is between one request that checks and one that changes what was
checked; two contents let the workspace, the store and a release differ pairwise;
two releases let one supersede the other. Two events and batches of one let an
event be overtaken and left behind. Two texts and two versions let a source be
one ahead. Two conversations let an answer come from the wrong one; one text
event and one tool use let each case of the select be ready beside each other,
and one mishap is one deletion or crash at any point. Three events and a history
of two let a cursor leave the history, and return when an entry is delivered a
second time; two sockets and two connection objects let an object pass from one
user to the other. Three workers and two edits let a worker end after two later
reloads. In `system_access` two requests of two tabs hold one token, and each
behaviour has either one fault, or one edit, or two edits beside a single request
(the `mode` of the instance module): the properties fail, if at all, between one
reader and one writer. Every bound is a constant
named in its module; `MaxFaults` and `MaxMishaps` limit how often something goes
wrong, never where. The proofs below do not depend on any bound.

Deadlock is checked everywhere but in AgentRun, where a finished turn, with each
request id used once, is the end of the behaviour, and in `connections` and
`system_access`, whose behaviours end when the bounded sockets, edits and tokens
are used up.

### Fairness

`connections` and `system_access` check safety only: a browser need not connect,
WeCom need not answer, and users need not come back. `OnlyPeersBlock` states
progress as a state property: some goroutine of the gateway can move unless a
peer has stalled.

Only two runs use fairness. In `outbox` time passes, the one-minute ticker keeps
firing (`Select` is part of the ticker's `Work`) and goroutines are scheduled;
failures are bounded, so `EventuallyDone` says that transient faults never lose
an event. In `agent_turns` goroutines run and gRPC delivers a cancellation or
the status of a returned handler; the user, the agent process and the remote
services owe nothing, so `CancelUnwinds` holds with a silent agent and an
unanswered question. Weak fairness is enough in both: an enabled goroutine stays
enabled until it runs.

## 4. Proofs

All theorems hold for every value of the constants under the assumptions named
in the modules: finite bounds are natural numbers, the empty value differs from
the others, and the functions that assign runs and conversations are total.

* **FunctionReleaseProofs.** `Inv` adds to the properties `Rows` (listed rows are
  complete and ids are allotted in order), `Jobs` (what each request has
  established by its place: a staged row of its own, a promoted artifact, a
  pointer at a row that was released) and `Loaded`. `Jobs` is needed because
  requests act on what they read earlier; `Monotone` says that a released row
  stays released, so what a request once knew stays true while others run.
  Theorems: `TypeCorrect`, `AtMostOnePublished`, `OnlyTrustedCodeRuns`,
  `PublishedRowsPoint`, `OrphansRevokedBeforeRestore`. `PublishedRowsPointAtPublished`
  assumes `SerialWithoutDeletion` (one request at a time, and no deletion, which may
  stop after it has revoked) and needs `PointerInv`: the row copy of the request in
  flight points at a published release too, because the only step that revokes
  releases of a function with a row is the request's own transaction, which moves
  both pointers. `ReleasesImmutable` is an action theorem, `[][RowsImmutable]_vars`:
  no step changes the function, version or artifact of a release, and a release
  that was in force is never staged again. With one request at a time
  (`OneRequest`) two statements hold that concurrent requests break:
  `VersionsBindOneHash` (one version of a function has one artifact) and
  `InvocationsRunWhatTheyChecked`. They need `SerialInv`: versions grow with the
  ids (`VersionsGrow`), the version a staging has computed is above all in the
  table (`Fresh`), a function that waits for the backfill has no release
  (`LegacyBare`), and an invocation holds the release whose artifact is loaded
  (`Checked`), which the agent and the sweeper leave alone.
* **FunctionOutboxProofs.** `Inv` adds `HeldStatus` (an event held by a processor
  is in processing unless its lease once lapsed) and `Remembered` (a lapsed lease
  is in the history). Theorems: `TypeCorrect`, `NothingDoneUndelivered`,
  `ClaimsExclude`, and the refinement `OutboxKeepsPromise`, which needs one more
  invariant, `Recorded` (only recorded events are held, selected or delivered, and
  a record is never removed), so that every step changes the fate of one event at
  most, and as the promise allows.
* **FunctionWorkflowProofs.** `IInv` states the properties for the stored row and
  for every row held by a request, since any of them may be written last, relative
  to the adopted files, which only grow. Theorems: `TypeCorrect`,
  `SourcesNeverAhead`, `StagesBacked`. `VersionsNameOneText` assumes `OneRequest` and
  needs `VersionInv`: the stored row and the row in flight are never older than any
  version that was recorded (`Covers`), so the number a commit takes, above its
  row's, is new. The correction from files keeps that because a document with a
  recorded version has its file. `VersionsNeverGoBack` is an action theorem under
  the same assumption, `[][NoOlder(row, row')]_vars`; `Ahead` says that the row in
  flight is no older than the stored one.
* **ConversationOperationProofs.** `IInv` ties turns to created operations and
  executed calls to sent ones. Theorems: `TypeCorrect`, `OnlyCallsComplete`,
  `CallsCompleteOnce`. `OpenOperationIsLatest` assumes `OneTurn` and needs
  `LatestInv`: ids are given in order, a turn about to create has left nothing open,
  and any other turn works on the latest operation, whatever a late completion does
  to its state. The action theorem `SettledOperationsStay` says what is left of
  finality with one turn: a closed operation, or one that was followed by another,
  changes only by the execution of a completion call, which makes it completed. It
  needs `ResumeInv`: between the check of a resume and its write only a completion
  can come.
* **AgentRunProofs.** Six invariants in layers. `LifeInv`: a runner or a context
  that is done belongs to a handler that was started. `BrokerInv`: a tool use is
  decided once, by its own conversation, while its callback waits, and a callback
  that fails has a context that is done. `CancelInv`: every way to `savePartial`
  starts from such a context. `TurnInv`: for every place of the handler, what is
  stored and told by then. `TerminalInv`: a request that is not over has no
  terminal envelope. Theorems: `TypeCorrect`, `ToolsRunApproved`,
  `AcceptedAnswersCount`, `NoRequestIsStale`, `TerminalsAreLast`,
  `DoneIsAlwaysDurable`, `PartialsAreExclusive`, and the refinement
  `TurnsKeepPromise`. That one needs `PromiseInv`: whatever follows the prompt finds
  it stored, a status is returned only at the end, and one that says the turn
  succeeded finds the whole answer, no partial one, and the agent session. Most steps are
  `Quiet`, they change nothing the promise speaks of; each of the others is one
  step of it.

* **AuthSessionProofs.** `AuthInv` joins the two properties to `Readings` (what the
  tables say now is what the ghosts say last), `Created` (nothing refers to a
  session not created yet), `Shaped` (what a request holds at each step), `Dead` (a
  session that was logged out has no key) and `Witnessed` (what a validation has
  seen so far). `NoLateEntry` needs `Dead`, since a logout deletes no access key;
  only a login writes a session key, and that no login is left under a session a
  logout has deleted is part of `OneRenewal`, which thus carries both. Theorems:
  `AuthTypeHolds`, `OneRenewalHolds`, `NoLateEntryHolds`, and the action theorem
  `SessionsNeverChangeHands`: a pair of tokens stays with its session, a session
  with its user, and a session that has ended never comes back under a pair that a
  client holds. It needs `Issued`: numbers are signed once, no two requests write
  the same pair, and a login writes its session before any client holds a pair of it.

* **SystemAccessProofs** (with AuthSessionProofs, the whole of `MCSystemAccess`).
  `AdminHoldsAll` needs `SyncShape`: when a synchronisation is about to grant, the
  menus it has listed contain all it created that still exist, because a row never
  changes its function and a deleted one never comes back. `OpenedByGrant` needs
  `CheckShape`, which follows the four reads of a check: every menu collected was
  granted since the check began (`GrantsRead` ties the ghost to the tables) or lies
  above one that was, and `OnlyPagesAbove` keeps a button from being opened that way.
  Theorems: `MenuInvariant`, `MenuTypeHolds`, `AdminHoldsAllHolds`,
  `OpenedByGrantHolds`, `SystemTypeHolds`.
* **ConnectionsProofs** (the whole of `MCConnections`). Bots: `BotInv` lists where a
  running worker is known, which is the table, or the workers that a reload or the
  stop of the runtime has taken out of it and has yet to stop; without interleaved
  reloads there is one per channel, and after a reload exactly those of the enabled
  rows. That nothing runs after the stop needs no such condition. Theorems:
  `BotInvariant`, `NoDuplicateWorkerHolds`, `SettledWorkersHolds`,
  `StopCancelsAllHolds`. Sockets: `EventsInv` says that a connection object carries
  one socket and a writer whose socket is gone is closed (`SocketInv`), hence a write
  reaches its own tab; that the event in hand is the last of the history (`InHand`);
  and that whatever a tab without an open socket misses follows its cursor in the
  history (`Away`, `Setup`), which survives eviction because an evicted cursor ends
  the promise. Theorems: `EventsInvariant`, `NoGapHolds`, `OnlyOwnEventsHolds`,
  `TicketOpensOnceHolds`, and for the composition `ConnectionsInvariant` and
  `ConnectionsTypeHolds`. `SomeoneCanMoveHolds` is `OnlyPeersBlock` with the guards
  of the goroutines spelled out: the subscriber holds a `writeMu` only for a socket it
  is writing to (`HoldsForWrite`), so it never holds one while it waits for the
  history. The proofs assume that 0, which stands for "nothing", names no tab.

Only model-checked: the liveness properties `EventuallyDone` and `CancelUnwinds`
(fairness is out of the prover's reach), and `OnlyPeersBlock` in the form with
ENABLED, which the prover does not know either. Every other invariant of a passing
run is a theorem, and so are both refinements. Some statements hold, and are proved,
for one request or turn at a time only. Three of them are checked by runs, which
have one worker for that reason (`PointerIsPublished`, `VersionNamesOneText`,
`ActiveIsLatest`); four are theorems only (`OneHashPerVersion`, `RunsWhatItChecked`,
`VersionsNeverGoBack`, `SettledOperationsStay`). Section 5 names what breaks them
otherwise.

## 5. Where the code differs from what is said of it

Shown by a run:

* `release_sweep_race` (`logic/release.go:142`): the sweeper lists the releases it
  must keep and removes afterwards; a release staged and published in between
  loses its artifact.
* `workflow_source` (`logic/function.go:1269`): a technical draft whose operation
  is not recorded, because it is adopted before the operation completes or for a
  second time, is taken for one that predates tracking and is recorded with the
  product version in force, not the one it was written from.
* `workflow_stale_draft` (`logic/function.go:1102`): while the adopted technical
  document is stale, reading the function resets the draft version, so the draft
  regenerated to replace it is not offered for adoption; two tests of readiness
  state that it is.
* `agent_partial` (`ai-agent/internal/logic/message.go:265`): when a turn is
  cancelled while an event is at hand, the handler may take the event and return
  from the failing send without saving the partial answer.

Found while modelling, stated in the modules, asserted by no run because nothing
in the repository promises the opposite:

* two stagings at once give one version two hashes (`OneHashPerVersion`;
  `logic/release.go:171`), and an invocation may execute an older release than the
  one it checked (`RunsWhatItChecked`; `logic/generated_app.go:287`); both hold, and
  are proved, for one request at a time;
* a deletion that fails after the revocation leaves a published row with a revoked
  release, and so do concurrent unpublish and publish requests
  (`PointerIsPublished` with two requests; `logic/function.go:274`);
* a resume that checked its operation before a completion undoes the completion
  (`CompletedIsFinal`; `logic/conversation_operation.go:57`), and a late call
  completes a cancelled or superseded operation (`ClosedStaysClosed`;
  `dao/conversation_operation.go:115`); `SettledOperationsStay` proves that with one
  turn nothing else disturbs a closed operation;
* a cancelled turn may leave its runner blocked on the full error channel, its
  agent process running (`RunnerUnwinds`), or close the channel under a callback
  (`NoSendOnClosed`; `toolbox/agent/runner.go:352`);
* a turn stores messages of a session deleted meanwhile (`MessagesHaveSession`);
* events published during a replay reach the browser before older ones; if the
  socket breaks then, the browser names the newer event on reconnecting and is
  never sent the older ones. An acknowledgement that fails puts an entry in the
  history twice. `NoGap` states what is left under these conditions
  (`realtime/handler.go:234-247`, `eventbus/redis_stream.go:71`);
* a peer that stops reading blocks the subscriber, and while it is replayed the
  history also every other replay, for as long as the transport allows: there is
  no write deadline (`handler.go:37`, `handler.go:133`);
* two reloads that interleave leave a channel with two workers, one of them in no
  table (`NoDuplicateWorker` without its condition; `agent_bot_runtime.go:66`); a
  failed read leaves all bots down and its error is dropped (`agent_bot.go:169`);
  the count of reconnect attempts is never reset after a success
  (`wecomaibot/client.go:171`); a status saved after a deletion brings the bot back
  without channels (`agent_bot.go:158`);
* a refresh whose new pair cannot be stored has used up the old token
  (`auth_token.go:61-76`), and a logout with a token that was already rotated, or
  whose GETDEL fails, answers success and revokes nothing (`system/logic/user.go:142`);
* `UpdateUser` writes back the status it read (`system/logic/user.go:346`), so it
  may enable a user who was disabled meanwhile;
* renaming the built-in user or role makes the next start insert its fixed id again
  and panic (`user_seed.go:46`, `role_seed.go:33`);
* a synchronisation delivered by the outbox has no action keys, so it deletes the
  function's buttons with their grants (`func-operation/logic/outbox.go:77`);
* the gateway forwards the ids of disabled roles too (`middleware/auth.go:52-57`);
  a menu created by hand is not granted to the built-in role before the next start;
  and nothing stops an operator from giving menus a cyclic parent.

## 6. Not modelled

The JavaScript engine and the draft runtime; SQL generated for the data of
applications; file-system, S3 and Kafka clients; text extraction of attachments;
request formatting of external APIs; HTTP adaptors of the gateway, each of which
makes one remote call; configuration rows. They are pure I/O or formatting, or
have no protocol between steps. Function skills, external APIs, public
configuration, execution logs, uploads and notifications are planned below. Of
the parts that are modelled, the hand-made menus and their directories, passwords
and signatures, the dispatch of realtime commands, and what a bot answers are
left out.

About three quarters of the Go lines of the repository are generated protocol
code (`src/proto/**/*.pb.go`, some 105 000 lines), which encodes messages and has
no behaviour of its own to model. The share of code the models stand for has to be
read against the 36 000 lines that are written by hand.

## 7. Plan

Done, in this order: releases, outbox, workflow, conversation operations, agent
runs with brokers and gateway runs, realtime events, bots, sessions, roles and
menus, and the abstract promise of the outbox; the proofs of all of them; then the
abstract promise of a turn with its refinement proof, action theorems for releases,
document versions, operations and sessions, and what holds of releases when requests
do not interleave.

Next:

1. The action property that what a tab has received only grows in the order of the
   stream outside a replay.
2. `FunctionSkills`, external APIs and public configuration: contract versions,
   confirmed invocation, cached tokens.
3. `Uploads`.
4. An abstract conversation operation (open, then closed once), and the composition
   of AgentRun with ConversationOperation through `Finish` and of FunctionOutbox
   with MenuAccess through `deliver`.
