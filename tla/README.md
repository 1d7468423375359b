# Graphlin, modelled and verified

TLA+ models of Graphlin's runtime, the TLC configurations that check them on
small instances, and TLAPS proofs about them for every instance. Graphlin
watches a coding agent at work: host hooks and a periodic reconciliation name
files of a worktree, a daemon observes those files, asks a remote classifier
what they are, and draws the accepted answers as a diagram. Nothing the
classifier says is trusted beyond the file versions it was asked about, and
most of the code is about keeping the diagram honest while files, checkouts,
sessions and user settings change during the asking.

Paths below are relative to the repository; `runtime/` holds the program.

## Inventory

| Component | State | Operations | Hard behaviour |
|---|---|---|---|
| Evidence store, `core/evidence.mjs` | per file: generation, hash, status, version; lineage | capture, reconcile, setLineage, isCurrent | files change during and between reads; checkout changes |
| Diagram compiler, `core/graph.mjs` | none (graph in, patch out) | compileDecision, invalidateArtifacts, applyPatch | late answers, partial support, cascades |
| Coordinator, `pipeline.mjs` | known observations, sessions and their graphs, classification queue, active workflows, deferred work, completed inputs, modes, serial queue | ingest, reconcile, observeLineage, setPaused, selectSession, close, flushDeferred, refreshQueuedJob, runClassification | everything interleaves at every await; see below |
| Platform, `platform.mjs`, `discovery/` | parse queue, parsed and deferred versions, inventory | discover, observeArtifacts, pump, observeLineage | revalidation before admission, bounded queue with displacement, retries |
| Decision service, `decisions/index.mjs`, `evaluation.mjs` | queue, running jobs, cooldown, cache | classify, analyze, evaluate, close | deadline, abort, answer and close race; cooldown timers |
| Analysis broker, `decisions/broker.mjs` | none | runAnalysis | authority and evidence rechecked after each await |
| Architecture discovery, `architecture/` | pending, completed, retries, epoch, run | observe, run, request, invalidate, close | abort and epoch during capture, analysis and commit; bounded retries |
| Project model, `model/` | entities, relations, interpretations, journal, checkpoints | observe*, invalidate, checkpoint, snapshot | validity across lineages, capacity eviction |
| Model API and client, `daemon/model-api.mjs`, `web/model-client.js` | cursors, streams; client snapshot | snapshot, stream, hydrate | gaps, restarts, pages of a model that moves on |
| Lock, `daemon/lock.mjs` | claim directories, tickets, lock directory | withPublicationGuard, acquireLock, release | several processes, non-atomic directory scans, crashes |
| Lifecycle, `daemon/server.mjs`, `manager.mjs` | server, sockets, owner | start, reuse, stop, close | racing starters, reuse of a stopping daemon |
| Persistence, `daemon/persistence.mjs`, `model-persistence.mjs` | pending body, timer, running write | schedule, flush, close, load | schedule during a write, crash before rename |
| Migration, `daemon/migration.mjs` | staged copies, marker | migrateLegacyProject | crash between steps, repetition |
| Extensions, `extensions/`, `daemon/extension-api.mjs` | catalogue, bundles, grants | install, grant, remove, request | directory lock, staged install |
| Activity, `pipeline.mjs` (rows and their mapping), `activity/targets.mjs` | rows of tool calls, what they touch, questions under way | addActivity, mapActivity, retain, end of a session | an answer that arrives after the file, the session or the pause has changed |
| Diagnostics, `daemon/diagnostics.mjs` | ring, queue of records, current file and backup | record, drain, rotate, load, close | a writer that dies within a record |
| Views, `web/platform.js`, `extension-frame.js` | chosen view, projection, watch, frame, grant | choose, project, watch, discover, grant | the choice, the grant and the model change while a frame is asked |
| Page, `web/app.js` | snapshot shown, replay, pause, effects, dialogs | connect, accept, replay, control; open, load, copy | snapshots by three ways in any order; dialogs closed and opened again |
| List of changes, `web/sidebar.js` | cards and frames kept between snapshots | update | hidden labels, lost and evicted frames |
| Layout, `web/layout.js` | none (diagram in, places out) | place | cycles, several parts, given places |
| Setup, `scripts/onboarding.mjs` and what it calls | receipts of repositories, registrations of hosts | init, uninstall | interruption between the commands of two hosts |

Pure text functions (`core/candidates.mjs`, `lexical.mjs`, `privacy.mjs`),
provider clients, the contents of settings, the demo, the two built-in
visualizers and the scripts that measure hold no state that interleaves and are
not modelled; `PROJECT.json` gives a reason for each.

How they interact: hooks reach `server.mjs` over a local socket and become
`pipeline.ingest`; a two-second timer calls `observeLineage` and then
`reconcile`. The coordinator captures files through the evidence store,
registers the observations with every session's graph, the platform and the
architecture controller, and dispatches candidates to its own classification
queue, whose workflows call the decision service. All local changes go through
one serial queue; calls to remote services happen outside it, and their answers
come back to it. Listeners are told to take a new snapshot; they never receive
state.

What makes the components correct:

- evidence: a generation names one version; a withdrawn or newer observation is
  never current;
- diagram: a claim shown as current cites the versions observed last, in this
  checkout; a relationship has its ends;
- coordinator: answers are applied to the session that asked, only while
  classification runs; jobs are counted, kept through a pause, and end;
- platform, decision service, controller: work is neither lost nor repeated
  without bound, and a result is admitted only at the version it was made from;
- lock and lifecycle: one daemon per project, whatever crashes;
- persistence, model API: what is loaded or shown was once a whole state, and
  the last one is eventually there;
- page, views, dialogs, list of changes: what is shown is of what is chosen and
  open now, never goes back, and tells nothing that did not happen;
- setup: what is recorded of a host is what the host has.

## Modules

| Module | Models | State and actions |
|---|---|---|
| `EvidenceStore` | `core/evidence.mjs` and the worktree | `disk`, `records`, `lineageId`; `CaptureOne` (a capture), `Withdrawn` (setLineage), `IsCurrent`, `EditFile` |
| `ClaimGraph` | `core/graph.mjs` as the coordinator uses it | operators: `Invalidate` (invalidateArtifacts), `Compile` (compileDecision) |
| `Pipeline` | `pipeline.mjs` | one action per handler, step or callback, see below |
| `PipelineProperties` | what the coordinator promises | invariants, action properties, liveness, and three statements the code does not keep |
| `Activity` | `pipeline.mjs` (addActivity to mapActivity), `activity/targets.mjs` | rows of calls, the one mapping under way, what the serial queue executes; extends `EvidenceStore` |
| `PublicationLock` | `daemon/lock.mjs` | claims, tickets, the lock directory, and where each process is; one action per await of `withPublicationGuard`, `acquireLock`, `release` |
| `OwnerRegister` | what the lock promises | a register whose owner stays until it has died or asked to leave |
| `Daemon` | `daemon/manager.mjs`, `server.mjs` (start and close), `migration.mjs`, `persistence.mjs`, `model-persistence.mjs` | where each process is, who owns the lock, the files, what each writer holds; instantiates `OwnerRegister` |
| `DiagnosticLog` | `daemon/diagnostics.mjs` | ring, queue, batch, both files; `Record`, `Drain`, `Appended`, `Partial`, `Dies`, `Restart` |
| `ProjectModel` | `model/project-model.mjs`, `model/changes.mjs` | versions, entities, imports, relationships, checkpoints; operators and action parts for observeStructure, invalidateArtifacts, observeLineage, checkpoint |
| `Platform` | `platform.mjs`, with what the coordinator calls of it | the parser queue, deferred and parsed versions, the file in the parser; extends `ProjectModel`, which extends `EvidenceStore` |
| `Architecture` | `architecture/controller.mjs`, with captureArchitecture and commitArchitecture | files that wait, judged versions, retries, the run under way |
| `Boundaries` | `architecture/analysis.mjs`, `evidence.mjs`, interpretations of `model/project-model.mjs` | roles, memberships, one analysis under way; `Analyzes`, `CommitAnswer`, `Drop` |
| `DecisionService` | `decisions/index.mjs`, `faults.mjs` | jobs, slots, queue, cooldown, deadlines; one action per await of `run` |
| `EvaluationCache` | `decisions/evaluation.mjs` | requests that share evaluations, cached answers, the epoch; extends `DecisionService` |
| `ExtensionCatalogue` | what the registry promises | the installed version and its approvals, changed by whole operations |
| `ExtensionRegistry` | `extensions/registry.mjs` | the catalogue file, bundles, the lock directory, and where each process is in `locked` |
| `AnalysisBroker` | `decisions/broker.mjs`, `analyze` of `daemon/extension-api.mjs` | where an analysis is, what it was asked with; extends `ExtensionRegistry` |
| `ModelStream` | `daemon/model-api.mjs` (notifications, stream, pages), `web/model-client.js` | the server's place, the event stream, one request, and the client |
| `ModelAccess` | `daemon/model-api.mjs` (grants, cursors, streams) | grants, open streams, the reading that is put together; one action per request |
| `ModelOrder` | `daemon/model-api.mjs` (the order of entities) | operators; one action that answers |
| `ViewPlatform` | `web/platform.js`, `extension-frame.js` | the view that is chosen, projected, watched, drawn; the grant; what the client delivers |
| `Viewer` | `web/app.js` (startViewer), notify of `daemon/server.mjs` | the three ways of a snapshot, the baseline of comparisons, replay, pause, effects |
| `Panels` | `web/app.js` (the dialogs), `daemon/dashboard-info.mjs` | tickets of requests, what each dialog shows, the registry lookup |
| `ChangeHistory` | `web/sidebar.js` | the frames the service has, and what the list keeps of them |
| `Layout` | `web/layout.js` | operators; one action that places a diagram |
| `Onboarding` | `scripts/onboarding.mjs` and the registrations it makes | receipts, registrations and plugins of the hosts, the command of each repository |
| `LockProofs`, `BrokerProofs`, `PipelineProofs`, `ArchitectureProofs`, `DecisionProofs`, `DaemonProofs`, `BrowserProofs`, `DiscoveryProofs` | theorems | see Proofs |
| `MCPipeline`, `MCPipelineControl`, `MCPipelineDiagram`, `MCLock`, `MCDecisions`, `MCDiscovery`, `MCExtensions`, `MCStream`, `MCArchitecture`, `MCDaemon` | small instances | bounds per kind of input, fairness, symmetry, constants that are functions |

`EvidenceStore` declares the store's variables, `ClaimGraph` adds the diagram's
data, `Pipeline` extends both and composes them into the system. The modules of
the decision service, of discovery, of extensions, of the browser and of the daemon are systems
of their own: each composes a component with the one it calls, and takes the
rest of the program as its environment. The modules of the page (`Viewer`,
`Panels`, `ChangeHistory`, `Layout`) and `DiagnosticLog`, `ModelOrder`,
`ModelAccess`, `Boundaries` and `Onboarding` stand alone.

Several MC modules hold instances that have nothing to do with one another. A
variable `way` says which of them runs; it is fixed at the start, what does not run
has one initial state, and the states of the run are those of its instances put
side by side. Fairness is stated for the instance that has it.

### How `Pipeline` corresponds to the code

JavaScript runs a callback to completion; a step of the model is the code
between two awaits. The variable `run` is the operation of the serial queue
that is being executed:

- step `capture`: the operation awaits one file after another (`CaptureFile`).
  Pauses, resumes, close, session selection, answers, ends of workflows and
  edits of the worktree interleave here, and only here (`Between`).
- steps `decide` and `dispatch`: the synchronous rest of the operation, cut in
  two to keep definitions small. Only the worktree may change in between,
  which no synchronous code can see.

Operations the outside asks for (`Ingest`, `Reconcile`, `Revalidate`,
`ObserveLineage`) have no effect before their turn, so each is an action at its
turn, enabled whenever the serial queue executes nothing. Operations the
coordinator appends itself (a flush, the reread of a waiting job, the
acceptance of an answer) wait in `ops`, first in, first out: `StartFlush`,
`StartRefresh`, `StartApply`, then `CaptureFile`, then `DecideFlush`,
`DecideRefresh`, and `SetAside`, `JudgeIrrelevant` or `AcceptAnswer`. The order
in which an outside operation and a waiting one take their turn is free, which
includes the order of the code.

`scheduleClassification` is one action per outcome: `SkipGroup`, `DeferGroup`,
`SupersedeGroup`, `DropGroup`, `QueueGroup`. A job is a record in `queue` or in
`active`, where its phase tells what its workflow waits for: `refresh` and
`answered` for the serial queue, `asked` for the classifier, `finished` for the
last callback (`FinishWorkflow`, the `.finally` that frees the slot). `Pump` is
`pumpClassifications`; its loop runs its body at most once per call because a
slot can be free only while the queue is empty, which is the invariant
`WaitsOnlyBehindFullPool`, checked and proved.

`Retain` and `EnsureSession` model eviction. A session object is told from a
later one of the same name by the number of its creation (`session`, `object`).

### How `PublicationLock` corresponds to the code

Processes share only the file system, so every await is a step of its own.
`MakeClaim` is the `mkdir` of a claim. `claims()` opens the directory
(`OpenToChoose`, `OpenToWait`) and returns it entry by entry (`ReadClaim`):
`left` holds the entries of an open directory that are still to come. A claim
made meanwhile may or may not come up; a claim removed meanwhile is absent.
`ReadClaim` takes one entry together with its ticket, because the code treats a
ticket or a claim that vanishes between its two reads as it treats one that
vanished before. `WriteTicket`, `Enter`, `RemoveTicket` and `RemoveClaim` are the
rest of `withPublicationGuard`; `Replace`, `Publish`, `Refuse` and `Unpublish`
are the guarded actions of `acquireLock` and `release`. `Fail` is every error
that ends a call (`daemon_busy` after two seconds, entries that cannot be read, a
publication that fails); `Crash` may happen anywhere and leaves the files as they
are. Left out: the bounds of 64 and 1024 entries, locks of older versions, and
process numbers used again by the operating system.

### How `Platform` and `ProjectModel` correspond to the code

`Platform` is one process: the callbacks of the coordinator's serial queue, and
the parser, which works on one file outside of it. The parser's awaits are its
stages: `Extracted` ends `extract`, `Revalidate` is the turn of the serial queue
in which the coordinator captures the file once more, registers what it sees and
compares it, and `AcceptStructure` is the turn in which the structure is admitted.
Between any two of them files change, are captured by hooks, reconciliations and
requests, the checkout changes or cannot be read, and the platform is closed.
`Superseded`, `ParseFails` and `RevalidateRefused` are the early returns. Every
end of a parse calls `pump`, which is part of the action (`Pump`).

`ObserveOne` is the body of the loop of `observeArtifacts` with its order of
tests: older observation, file that is not there, version put off for room,
version already parsed, version in the parser, and then the queue with its
displacement (`Enqueue`, `MakeRoom`). The order of a batch and the choice of the
next file (`selectPrioritized`) are left open.

`ProjectModel` holds what is recorded: an entity is a file's summary or one of its
symbols. `InvalidateArtifacts` is `invalidateArtifacts`; `ObserveStructure` is
`observeStructure` with the import records, the retraction or ageing of what was
not found again, the admission of each entity against the bound, the eviction of
a symbol for a summary (`Evictions`, which withdraws the certificate of the file
that loses one), and the resolution of the imports that the change concerns.
`WithdrawAll` is `observeLineage`. `Creations` and `PriorAbsence` are the
comparison of `model/changes.mjs` with a checkpoint, of which `Baseline` keeps the
part about one file.

Two things an instance leaves out on purpose. Each checkout is entered once:
after a return to a checkout without a capture in between, the generation of a file
does not advance (the finding `PipelineCheckout`), and the platform then drops the
capture as older than the withdrawal (`platform.mjs:216-219`) until the file
changes. And a summary that is refused for lack of bytes
(`project-model.mjs:428-430`) leaves the certificate it came with, which says that
the enumeration was complete; the instance has a bound of entities only. An
entity is never given up once the model is full, so a file put off for room is
parsed again only on request (`RetryCapacity`) or in a new version, which is why
`Settled` accepts it. A reconciliation reads all files of the instance, so that
`Quiesces` does not rest on the order in which deferred paths are offered.

### How `DecisionService` and `EvaluationCache` correspond to the code

`at` is where a job is: in the queue or at one of the awaits of `run` (the import
of core, the wait for the cooldown before each request, the request itself, the
materialization, the proposals). A source job asks twice; a job with a profile, and
an evaluation, once. The queue is the set of the jobs that wait, with the jobs each
of them is `behind` in the order of the code's array: the pump takes source jobs
before evaluations and otherwise the one that has waited longer (`GoesFirst`), until
the slots are full (`Starts`). `Abort` settles every unsettled job it is given and runs the
pump; `End` is `then`, `catch` and `finally` of `run` in one, which only frees the
slot of a job that was settled before. `TooLate` stands at every `check(job)`.
`Overloaded` is a response that sets the cooldown. Time is not counted: a deadline
passes (`DeadlinePasses`) and its timer fires later (`DeadlineTimer`), a cooldown has
an end that passes (`CooldownPasses`) and timers set for it fire later (`WakeTimer`,
`AfterCooldown`).

`EvaluationCache` is `createEvaluationAPI`: `Hit`, `Join` and `Miss` are the three
ways of a request, `Answered` the continuation of the shared promise that removes it
and remembers the answer, `Receive` the continuation of each waiter, `Leave` its
cancellation or its own deadline. Requests carry the epoch in which they were made,
so that an answer asked before an invalidation and received after it can be told.

### How `ExtensionRegistry` and `AnalysisBroker` correspond to the code

A write is `locked`: `Acquire` (mkdir), `ReadState`, `Act`, `Write` (the rename),
`Unlock`; `GiveUp` is a hundred attempts or a cancelled installation, `Refuse` a
refused or cancelled operation, `Crash` a process that dies in between. A lock
directory of a dead process stays, and every later write gives up: nothing in the
runtime removes it, `doctor` reports it. Readers take no lock, and read the version
and the approval one after the other (`ReadAssets`, `ReadGrant`), so that the two may
be of different catalogues. Times of approvals are taken as distinct.

An analysis of `AnalysisBroker` stops at each of its awaits. Its first and its last
read belong to `analyze` of the extension API, whose own comparison of the revision
with the model rejects only what the broker would reject later. The policy of a
server does not change while it runs.

### How `ModelStream` corresponds to the code

A place is the epoch of a server and the position of its notifications. `Notify` and
`Flush` are `notify` and its `setImmediate`; `Subscribe` is `stream`, with the reset
for a position that is not retained; `Serve` and `Unserved` answer the one request
under way, a page only at the place its cursor was made for (409 otherwise).
`Disconnect` loses what is on its way, after which the browser connects again with
the last identifier it has read; `Restart` is a new daemon. On the client,
`Opened`, `Receive`, `Hydrated`, `GivenUp` and `PreviewTimer` are the continuations of
`open`, the listeners of the stream, `hydrateModel`, and the timer of the preview;
`Hydrate` is one round of the loop of `accept`. `update` and `epoch`, which tell an
abandoned hydration, are represented by there being at most one call, which is
replaced.

### How `Architecture` corresponds to the code

A run stops at its four awaits (`capture`, the wait for the parser, `analysis`,
`commit`); `Capture` and `Commit` are the turns of the serial queue behind two of
them, and include the continuation where nothing can happen in between. `Observe`
is a registration of the coordinator; the rereads of `Capture` and `Commit` register
too and may abort the run themselves (`Aborts`). `Finish`, `Rejected` and `Fails` are
the three ends that book a result. A version stands for hash, generation and
status; a withdrawn file has a version of its own. The answer of an analysis is what
the controller tells apart: the files put off, the files brought back for their
memberships, whether there is something to commit and on which files it rests.
Left out: `ready`, priorities and the cursor of the selection, counters and status
texts.

### How `Daemon` corresponds to the code

A process (`stage`) is one start or one stop of the command, and the daemon it may
become, so that a process is its own instance. The lock is taken as `OwnerRegister`
promises it, which `PublicationLock` is shown to implement; of its guard the
migration needs that nobody acquires the lock meanwhile (`guard`). `Migrate`, `Copy`
and `Mark` are `migrateLegacyProject`, which a crash may cut short anywhere.
`Attach`, `Acquire`, `Refused`, `WaitEnds` and `Watch` are `runForeground`; a start in
the background is a worker that acquires the lock or gives up (`WorkerRefused`) and a
caller that attaches. `Find`, `Interrupt` and `Ask` are the two ways to stop a daemon:
the request reaches whoever listens at the socket when it arrives.

What is saved is abstracted to the number of the last change it contains; 0 is no
file, 1 is what an older version left or what a new daemon begins with. `Change` is a
notification of the pipeline: the journal goes to its writer at once, the model when
the timer of `modelFlush` fires (`Serialize`). Both writers are `pending` (what was
scheduled last) and `writing` (what is in a temporary file): `StartWrite`, `Rename`,
`WriteFails`. Their timers are implied by `pending`. `Schedule` and `Release` are the
end of `close`, after the pipeline has ended and after both writers have.

Left out: files that cannot be read or are older than seven days, which are loaded as
no file; daemons of older versions that still hold the lock of their time, which make
a migration fail; a `pipeline.close` that throws, and a directory that cannot be
synchronized after the rename. A crash is the death of a process, not of the machine.

### How `Activity` corresponds to the code

`turn` is what the serial queue of the coordinator executes up to its next await, so
that a step is one turn: a row (`Row`, `AddActivity`), the capture of what a call
names (`CaptureTargets`), the sweep over what was never captured (`Sweep`), or the
application of an answer (`ApplyTargets`). `Wake` fills the free mappings from those
that wait, `AskTargets`, `AnswerTargets`, `NoTargets`, `BeginApplyTargets` and `End`
are the continuations of `mapActivity`. A row knows the object it belongs to, so that
an answer for a session that was replaced finds nobody. `judged`, `seen` and `began`
are there for the properties: the last question that was not aborted, whether the row
was seen by its session, and the controls there had been when a question was asked.

Left out: the bound of 200 rows of a snapshot, the eviction of sessions for
retention, more than one agent in a session, the microtask between a mapping's end
and the next (the pump runs in the same step), and relations in the context of a
question.

### How `ViewPlatform` corresponds to the code

`ui.active` is the view that is chosen, `ui.work` the one projection that is not
overtaken, stage by stage: the update, the catalogue, the review of the row
(`Review`), the data, what was received, the frame. `Chosen` is `choose`, which
overtakes the projection, ends the watch and gives up what is drawn; `Fallback` is
every failure that leads back to a built-in view. `ui.watch` is the timer that asks
whether the grant still holds (`WatchServed`, `WatchCompares`), `granting` a grant on
its way, `listing` a catalogue nobody waits for. `Deliver` and `OpenFails` are what
`ModelStream` does in detail. The server changes its row, its project and its grants
at any time (`ServerChanges`); `served` is what it has, `installed` what the page knows.

### How `Viewer` and `Panels` correspond to the code

A snapshot is its place in the daemon's `log`; sessions and nodes are compared as the
page compares them. The three ways to a snapshot are a connect (`Connect`, `StateServed`,
`Connected`), the stream (`StreamOpens`, `StreamDelivers`) and the reread after a
control (`ControlPosted` to `Refreshed`). `Compared` is the test of `accept` that decides
what may be animated, `Reset` what gives up the baseline. `delivered` is for the
properties: the snapshot that an unbroken stream delivered last. Left out: the
focus of the camera on arrivals (`liveReady`), a page that is still and does not
follow at once, the retention of frames, sizes, and what an installed view animates by
itself.

`Panels` gives every request the ticket of the code's epoch. A dialog that is closed
forgets its answer, its requests go on until they end, and the clipboard answers late
(`Copied`). `began` is for the properties: the first ticket of this opening. `about`
is the project panel, `lookups` the registry lookups of the daemon, which
`dashboard-info.mjs` shares.

### How `DiagnosticLog` corresponds to the code

A line is the number of its record, or `Torn`, what is behind the last line break of a
file (`IsTorn`). A flush takes a batch (`TakeBatch`),
rotates the file when the batch does not fit (`Opened`), ends a torn tail
(`Repaired`), and appends (`Appended`); `Partial` and `Dies` leave a part of it.
`Restart` is the next daemon: `readLines` cuts a file off behind its last line break
(`Whole`), `load` goes through the lines of the backup and of the file and takes those whose
number is above the last one taken (`Loaded`), and the log continues after the highest
number. `written` and `overwritten` are for the properties.

### How `ModelAccess` and `ModelOrder` correspond to the code

`ModelAccess` is one server with its `clock`. A reader puts together what it is given
(`read`): a `Page` fixes what it reads (the seal of the cursor), `NextPage` continues
it, or is refused when the cursor is too old or the model or the policy has changed; a
grant waits for its body between its authorization and its making (`AskGrant`,
`MakeGrant`). `Listed` is the order of the records of a kind, by their numbers. Left out: bytes, certificates, selections and the epoch.

`ModelOrder` is pure: `Scoped`, `prioritizeArchitecture` and `prioritizeActivity` (with
`Promote` and `Anchored`) are the passes over the sorted entities, `Give` answers one request about one
model. An entity is its place in the order of identifiers.

### How `Boundaries` corresponds to the code

An analysis is one step that reads a snapshot and whose answers are free for every
file it takes and every pair it assesses (`Analyzes`); its result waits as `job`
while files change (`Registers`, `Parses`), and `CommitAnswer` admits it: `KindAfter`
is what an answer makes of a role, `Cleared` what gives way when places run out.
`owed` is for the properties: the pairs that the last answer about them did not get
to. Left open are the order of files and pairs within the limits and the bytes of
source; the neighbours that a run asks for are in `Architecture`.

### How `ChangeHistory` and `Layout` correspond to the code

The service of `ChangeHistory` revises a session (`Revises`), hides or shows labels
(`Reprojects`), trims its frames, loses what it did not save and counts from there
(`Loses`), evicts and selects sessions. `Update` is one call of `update` with all it keeps:
`Moved` and `Checked` decide which frames are read again, `Renewed` makes the cards,
`Trimmed` bounds them, `Offered` are the buttons. `arrived` is for the properties.
Left out: labels that a connection takes from its ends, the limit of 16 sessions, and
receipts of hooks.

Two things the list does are within what `ChangesAreTrue` asks, and worth knowing: when
a label is hidden in the very snapshot that brings a revision, only the frame before
the new one is refreshed, so that a card of an earlier revision may say "changed" of an
item of which only the label has; and a frame the service no longer gives out keeps
its old labels. Exactness of "changed" is therefore asked of the revisions that have
just arrived.

`Layout` follows `layout.js` from `prepare` to `place`: the condensation into strongly
connected parts (`Condensed`, by `Visit`), the ranks (`Ranked`), the flow of blocks
(`Flow`), the grid, and the search of free slots for nodes without a place. Any order
within a row is allowed in the place of the one with the fewest crossings. The circle,
which needs angles, is left out.

### How `Onboarding` corresponds to the code

A command of a repository is a record: where it is, what it had saved, what it is
still to do for which host. Every command of a host is a step (`Remove`, `Add`, `Check`,
`Install`, `Dismiss`), and may fail or be the last thing that happens (`Stop`); what is
written to the settings is `Record`, `Recorded` and `Reset`. `Estrange` is a
registration by somebody else, `Delete` a package that is deleted by hand. `torn` and
`done` are for the properties. Taken for granted: one command per repository at a
time, a command line that is not older than the recorded version, and no foreign
registration between a command's listing and its change. Two things the model shows
that no document speaks of: an interrupted rebuild of a registered package that was
deleted leaves a directory without a marker, which later runs of `init` refuse; and
what is installed is whatever is registered at that moment.

### Abstractions

- A file version is a number that every edit advances: the stamp that goes into
  the code's version holds the inode times, so equal bytes written again are a
  new version. Hash, text, candidates and lines are not represented; a set of
  candidates is the generation it cites of each file.
- A claim is identified by the files it is about: one file for a node, two for a
  relationship. Which claims an answer makes is chosen freely among those its
  candidates allow, so probabilities, thresholds and capacity rejections are
  covered as smaller answers.
- The classifier answers anything, fails, or is cut off by the deadline at any
  time. The lifetime of a waiting job and the deadline are choices, not clocks.
- Retention (`MAX_RETENTION_BYTES`) may evict the oldest unselected sessions at
  any patch when `RetentionOverflow` is set: sizes are not computed.
- A file is read once per operation. The code may read a file twice in one
  reconciliation (discovery and periodic reread), which is two captures with an
  edit possibly in between; the second is what the next operation models.
- `tool` stands for every event that reports the end of a tool call, `requested`
  for every event that only captures.
- Not represented: public messages and the claims drawn from them, deduplication of
  replayed hooks, the local queue bound of 64, restored state, the bounds of deferred work (128 files, 16 sessions, 16
  groups of a flush), diagnostics and counters of drops.

## Runs

All instances are small in the number of files, sessions and workflows, and
bounded per kind of input (`MaxRequests` hook events, reconciliations and
revalidations, `MaxControls` pauses, resumes, checkout changes, selections and
closes, `MaxEdits` edits). What the coordinator does itself is not bounded.
Deadlock is not checked: a coordinator whose bounded inputs are spent waits.

| Run | Instance | Checks | Result |
|---|---|---|---|
| `PipelineDiagram` | either 2 files of 1 session, an edit or a control; or 1 file of 2 session names created up to 3 times, with a checkout change; 2 workflows, retention eviction | `DiagramIsCurrent`, `NoDuplicateInFlight`, `JudgedForOwner` | hold, 639,452 states |
| `PipelineControl` | 1 file, 1 session, 1 workflow, queue of 1, 2 requests, 3 controls with outages, 1 edit; apart from it 2 sessions with 2 items in the list of changes; and the layouts of 4 nodes | `QueueDiscipline`, `AcceptedOnlyWhileRunning`, `PauseKeepsWork`, `PendingDrains`; `ChangesAreTrue`; `LayoutIsSound` | hold, 516,063 states |
| `PublicationLock` | 3 processes, each starts once and stops at most once; apart from it 2 repositories, 2 hosts, 2 versions, 3 commands, 1 mishap | `GuardExclusive`, `OwnerKept`, `CallsEnd`; `SetupHolds` | hold, 494,347 states |
| `Decisions` | 1 source job, 2 evaluations of which 1 is shared by 2 requests, 2 slots, queue of 1, 1 cooldown, 1 invalidation, cache of 1 | `PoolDiscipline`, `EvaluationsHold`, `InTime`, `Drains` | hold, 248,932 states |
| `Extensions` | 2 versions, 1 project, 2 processes with 4 writes and 1 death, 1 analysis, 3 revisions; apart from it 2 calls that name 1 file or 1 call that names 2; a page with 1 node and 3 snapshots; its dialogs with 3 requests each | `ApprovalsAreOfInstalled`, `WritesAreAtomic`, `AnalysisHolds`; `CallsHold`; `ViewerTruthful`; `PanelsAreOwn` | hold, 552,790 states |
| `Discovery` | 2 files, parser queue of 1, room for 1 symbol, 3 events out of 2 edits, 1 failure, 1 outage, 1 checkout change, 1 request | `NoWorkForgotten`, `FactsHold`, `Quiesces` | hold, 187,776 states |
| `Stream` | 2 servers of 4 positions, 2 faults, 2 actions of the user; apart from it a view host with 2 acts and 2 turns of the server | `NeverBack`, `StreamCatchesUp`; `OneView`, `ViewsComeToAgree` | hold, 462,841 states |
| `Architecture` | 2 files in one batch, 2 versions, 1 edit, 2 interferences; apart from it 3 source files, 2 imports, 3 analyses | `NothingLost`, `CitedIsKnown`, `ComesToRest`; `BoundariesHold` | hold, 801,168 states |
| `Daemon` | 3 processes that start or stop a daemon, 2 files saved, both left by an older version, 3 revisions, 1 failed write of each process; apart from it a log of 5 records, a model of 3 entities, 2 grants | `MigratedWhole`, `SavesHold`, `StopsItsInstance`; `LogHolds`; `PrefixesAreTrees`; `AccessHolds` | hold, 609,783 states |
| `PipelineResume` | 2 files, 4 controls | `ResumePreservesEveryFile` | violated |
| `PipelineCheckout` | 1 file, 2 checkouts | `CaptureAfterCheckoutAdvances` | violated |
| `PipelineRelationship` | 2 files, 1 edit | `AnswerRefreshesRelationship` | violated |

A property of several parts is one promise: `QueueDiscipline` is the count of pending
jobs, that they wait only behind a full pool, are reread, and have one operation on the
serial queue; `DiagramIsCurrent` is what a current claim cites, its checkout, and the
ends of relationships; `JudgedForOwner` is when and for whom a question is asked and an
answer accepted; `PoolDiscipline`, `EvaluationsHold`, `AnalysisHolds`, `FactsHold` and
`SavesHold` are named the same way, and their parts stand before them in the modules.

Why the bounds are enough for these questions: a second request reaches every
path of `scheduleClassification` (covered, superseded, queue full) because the
queue holds one job behind one workflow; one edit separates the version asked
about from the version at acceptance; three controls give pause, resume, pause,
or an outage and its end with a pause in between; a third creation gives a
session name two successors. A relationship needs two files. In the two-file
runs one group holds all files, so files are interchangeable and the symmetry is
sound; these runs check no liveness.

`PublicationLock` needs no other bound than its processes: each makes at most two
claims, so tickets stay small. Three processes are a holder, one that waits and
one that chooses or has died, which is what the bakery has to order; `OwnerKept`
says that the lock refines `OwnerRegister`. Deadlock is not checked, since in the
end every process may be dead.

`Decisions`: three jobs are one more than the slots, so that one waits; the queue has
one place, so that one more is refused; two requests are what sharing needs, and one
invalidation gives an answer that is too old. `Extensions`: two writers race, and the
death of one leaves the lock; two versions give an update between the reads of an
analysis; three revisions are a change before, at and after its admission.
`Discovery`: two files fill a queue of one place, and two summaries and one symbol
fill the model, so that files are displaced, refused and evicted; any three events
of the environment may happen, of which two may be edits. `Stream`: position 1 is
complete and the others take a page, so that a hydration is overtaken twice; two
positions are retained of four, so that a reconnection can come too late.
`Architecture`: one edit and two interferences reach every await of a run and of the
run after it; the batch takes both files, or the one that waits. `Daemon`: three
processes are a daemon, one that stops it or takes over after its death, and one that
is attached or starts later; three revisions are what was there, one that is written,
and one that waits behind it or comes after the close has begun. `PipelineDiagram` keeps its two
questions in one run: a file does not become part of the other question, which is why
`way` is fixed at the start. None of these checks deadlock, since bounded environments
end. The type invariants hold in these instances too, but no run lists them.

The instances beside them. Activity: two calls of one session that makes room for
another are what competes for the one mapping and the one place that waits; while both
are reported, one event besides may happen, and two to one call alone. A third call names
two files and is there alone: a row then rests on more versions than the question about
it does. Checkouts are interchangeable there, and so are the two calls that name one file. Page: three
snapshots of two sessions with one node (which comes, goes, and comes), the third only
where at most one act has been spent. Dialogs: three tickets are an opening, a second
one, and a retry. Setup: two repositories meet in one host; the last command runs
alone, and the repository that does not begin names one host at a time. Boundaries: an
application and two components; one change of a file, or two and at most one analysis;
two files and one pair at a time, and four places for three roles, two memberships and
a record of the earlier namespace. Log: files of two lines rotate three times in five
records; two faults tear a line in each. Order: three entities with every choice of
parents (one may be missing), memberships and calls. Grants: one of the two holders fits,
who is granted one kind or both; two ticks pass a grant and a cursor. Changes: two
items, one of which only comes and goes, three revisions and two other events, with room
for one tile, two cards and three frames, so that each limit is met. Layout: four nodes
and up to five edges of which four count, all kinds, and all places out of three offsets
that touch, overlap or are clear of one another. Views: two acts of the user against two
changes of the server, which meet at every stage of a projection, a watch and a grant.

`WritesAreAtomic` says that the registry, with its locks, reads, renames and deaths,
implements `ExtensionCatalogue`, in which an operation happens at once.

Every property has a mutant in `PROJECT.json`: a definition of the model
replaced as a plausible bug would change the code (a dropped guard, a missing
count, an unchecked version), which makes TLC report that property.

### Fairness

`MCFairSpec`, used by `PipelineControl` for `PendingDrains`: weak fairness of
`Continue` (file operations end, and synchronous code runs), `StartNext` (the
serial promise chain runs what was appended), each `Answer` (the deadline timer
of `runClassification` settles the race even if the service never answers), and
each `FinishWorkflow` (callbacks of a settled promise run). Nothing is assumed
of hooks, users or the worktree, and outside operations may take their turn
before a waiting one as long as they keep arriving; they are finite in an
instance. `PendingDrains` says that no workflow waits for the serial queue
while the queue waits for it, so that `close()` returns.

`FairSpec` of `PublicationLock`: weak fairness of the steps of each process, since
a living process goes on with its call. `Fail` and `Release` are not fair, so
`CallsEnd` shows that a waiting call would get its turn without the two
seconds after which the code gives up.

The next four with liveness each state weak fairness of one action `Due`, the
disjunction of what the program does once it can, and of nothing the outside does.
A step counts only if it changes something (a reconciliation that finds nothing new
does not), so one condition is enough: the program may choose the order, but may
not stop while something is left to do.

- `EvaluationCache`: deadlines pass, deadline timers fire, an abort reaches `run`
  (`Unwind`) and continuations of settled promises run. The provider never has to
  answer and the pump has no fairness of its own; `Drains` says that every job and
  request ends all the same.
- `Platform`: the parser goes on (every stage ends, by extraction, comparison or
  failure) and the daemon reconciles again and again (its two-second timer).
- `ModelStream`: the flush of a notification, a connection attempt, a reply of a
  server that is there, deliveries of an open stream, and the client's
  continuations and timer. Faults, and what the user does, are bounded.
- `Architecture`: the timer of `wake` fires, and captures, parses, analyses and
  commits end.

- `ViewPlatform`: weak fairness of each of the three things a view host waits for (a
  projection, a watch, a grant), of what the client delivers or fails to open while
  nothing is projected, and of a catalogue that nobody waits for. Acts of the user and
  changes of the server are bounded. `ComesToAgree` excuses a view host that is suspended
  or closed, one whose client has nothing open (a failed retry or a recorded position that
  failed, which says so), and one that shows a message or asks for access.

All other modules state safety only.

### Where the code differs from what the repository says

- `PipelineResume`: pause, resume, pause again while the flush awaits its
  reread, resume again. The flush continues after the second pause and defers its
  groups again; the second resume schedules no flush because `resumeScheduled` is
  still set. If the second resume comes before the flush has ended, the files stay
  deferred with nothing left to run (`pipeline.mjs:1473-1477`), against the test
  "resume preserves every file" and `docs/module-contracts.md:215`.
- `PipelineCheckout`: the version of a file contains the lineage it was captured
  under, so going to another checkout and back between two captures restores the
  version, and the generation stays (`core/evidence.mjs:123-125`), against the
  comment at line 156. Claims withdrawn in between are then stale at the very
  generation offered, and an answer about them is skipped until the file changes.
- `PipelineRelationship`: a relationship made stale by one of its two files still
  cites the other at its present generation, and `compileDecision` skips every
  answer about it as `stale_generation` (`core/graph.mjs:305-308`).

One more difference has no run of its own. `docs/decision-service.md:59-60` says that
the pipeline "rechecks the complete candidate context, policy, lineage, call, and source
versions" before it records a mapping. `pipeline.mjs:752-755` rereads all files of the
row (`versions`) and then asks whether those of the question (`result.sourceRefs`) are
current, so that of a call that names two files one may be mapped while the other has
just been found changed. `IsMapped` therefore states what the code keeps: the
files the question rests on. With all versions of the row in its place, TLC finds a
counterexample with the call that names two files.

## Proofs

Eight modules hold theorems. They are for all values of the constants that satisfy
the named assumptions of the modules they are about (`StoreAssumption`,
`PipelineAssumption`, `LockAssumption` and so on), which TLC evaluates in the runs. They
say of what type a constant is, that sets the program counts are finite (`Nodes`, `Holders`,
`Records`), that an import is a pair of files (`BoundaryAssumption`) and that the viewer is
not one of those who need a grant (`AccessAssumption`). In
what follows "inductive" means: it holds at the start and every step keeps it. Each
inductive invariant was first checked by TLC, most on the instance of its run, those of
the smaller systems on instances somewhat larger (the log with files of three lines, 46,195
states; the grants with three ticks, two changes and two page sizes, 3,310,784 states; the calls
of tools, 1,777,080 states).

| Module | Theorem | Statement |
|---|---|---|
| `PipelineProofs` | `SchedulerCorrect` | `Spec => []SchedulerInv` |
| | `QueueDisciplined` | `Spec => []QueueDiscipline` |
| | `TypeCorrect`, `PendingCorrect`, `WorkConserving`, `WaitingReread`, `OneOperation` | its parts: `TypeOK`, `PendingAccounting`, `WaitsOnlyBehindFullPool`, `WaitingJobsReread`, `OneOperationPerWorkflow` |
| | `CoordinatorCorrect` | `Spec => []CoordinatorInv` |
| | `NeverAskedTwice` | `Spec => []NoDuplicateInFlight` |
| | `DrawnIsCurrent` | `Spec => []DiagramIsCurrent` |
| | `AnswersReachTheirOwner` | `Spec => JudgedForOwner` |
| | `NothingDrawnWhileStopped` | `Spec => AcceptedOnlyWhileRunning` |
| | `PausesKeepWork` | `Spec => PauseKeepsWork` |
| `ArchitectureProofs` | `ControllerCorrect` | `Spec => []ControllerInv` |
| | `NothingIsLost`, `CitationsAreKnown` | `Spec => []NothingLost`, `Spec => []CitedIsKnown` |
| | `BoundariesCorrect`, `BoundariesAreKept` | `[]BoundaryInv`, `BoundariesHold`, of `BoundaryInit` and `[][BoundaryNext]` |
| `LockProofs` | `LockCorrect` | `Spec => []LockInv` |
| | `MutualExclusion` | `Spec => []GuardExclusive` |
| | `OwnerIsKept` | `Spec => OwnerKept`, the refinement of `OwnerRegister` |
| | `SetupCorrect`, `SetupIsKept` | `[]SetupInv`, `SetupHolds`, of `SetupInit` and `[][SetupNext]` |
| `BrokerProofs` | `TypesHold` | `Spec => []TypeOK` |
| | `ApprovalsFollow` | `Spec => []ApprovalsAreOfInstalled` |
| | `CatalogueImplemented` | `Spec => WritesAreAtomic`, the refinement of `ExtensionCatalogue` |
| | `AnalysesHold` | `Spec => AnalysisHolds` |
| | `PanelsCorrect` | `PanelSpec => []PanelsAreOwn` |
| | `ViewerCorrect`, `ViewerIsTruthful` | `ViewerSpec => []ViewerInv`, `ViewerSpec => ViewerTruthful` |
| | `ActivityCorrect`, `CallsAreHeld` | `ActivitySpec => []ActivityInv`, `ActivitySpec => CallsHold` |
| `DaemonProofs` | `DaemonCorrect` | `Spec => []DaemonInv` |
| | `MigrationsAreWhole` | `Spec => []MigratedWhole` |
| | `SavesAreKept` | `Spec => SavesHold` |
| | `StopsReachTheirInstance` | `Spec => StopsItsInstance` |
| | `LockIsUsedAsPromised` | `Spec => Register!Spec`, the lock as `OwnerRegister` |
| | `LogCorrect`, `LogIsKept` | `LogSpec => []LogInvariant`, `LogSpec => []LogHolds` |
| | `AccessCorrect`, `AccessIsKept` | `AccessSpec => []AccessInvariant`, `AccessSpec => AccessHolds` |
| `BrowserProofs` | `StreamCorrect` | `Spec => []StreamInv` |
| | `NeverGoesBack` | `Spec => NeverBack` |
| | `ViewCorrect`, `ViewIsOne` | `ViewSpec => []ViewInv`, `ViewSpec => []OneView` |
| `DecisionProofs` | `DecisionsCorrect` | `Spec => []DecisionInv` |
| | `PoolIsDisciplined`, `EvaluationsAreOwn` | `Spec => []PoolDiscipline`, `Spec => []EvaluationsHold` |
| | `SettledInTime` | `Spec => InTime` |
| `DiscoveryProofs` | `DiscoveryCorrect` | `Spec => []DiscoveryInv` |
| | `NoWorkIsForgotten`, `FactsAreHeld` | `Spec => []NoWorkForgotten`, `Spec => []FactsHold` |

**The scheduler** (`PipelineProofs`). None of the five parts is inductive alone.
`TypeOK` contains `pending \in Nat`, and `pending` is decremented without a guard, so
its type needs `PendingAccounting`. Counting needs to know that `Pump` moves at most one
job, that the head of the queue is a job, and that the workflow it fills is
free. `WaitsOnlyBehindFullPool` is what makes one pass of the pump enough: an
arrival finds either an empty queue or a full pool, a departure frees one slot
of a full pool. `OneOperationPerWorkflow` is needed because an operation of the
serial queue ends the workflow it names: without it a slot could be left twice
and counted down twice. It in turn needs `RunOfWorkflow`, that the running
operation names a workflow exactly when it is a reread or an acceptance.
`SchedulerInv` is the conjunction of the six. The lemmas `PumpCases` and
`PumpScheduler` describe a call of `Pump` and preserve the invariant through it;
`DrainScheduler` covers the three operations that empty the queue; `SchedulerFrame` the
steps that leave the scheduler alone; `OperationsMatch` an append or a removal.

**What is asked and drawn** (`PipelineProofs` as well).
`CoordinatorInv` joins three invariants to the scheduler's.

- `JobsInv`: a job belongs to a session that lived; one that is not aborted is of the
  present checkout (`JobsAreOfCheckout`), because a change of checkout empties the queue
  and aborts what is under way in the same step; and two that are asked at once differ.
  The last is not inductive without the second: `runClassification` compares a job only
  with those of its own epoch.
- `EvidenceInv`: what is known is behind the registry by no more than the present
  operation has read (`KnownIsBehind`), which is of this checkout (`SeenIsOfCheckout`)
  and is known by the time anything is decided from it (`DecidedIsKnown`); and an
  acceptance has reread every file of its job (`AppliedIsReread`). This is the
  argument why a claim cannot be current on a version that has been replaced: whatever
  the registry knows, the graphs are told in the same step in which they may draw.
- `DrawnInv`: the claims of a session that has gone are gone (`GoneDrawNothing`),
  current claims cite what is known, a relationship has its ends drawn.

From these, `DiagramIsCurrent` follows; the four action properties need the step, too:
`NothingRevived` says which steps revive no claim, `RevivedWhileRunning` that the one
that does had its guards read again after the reread.

**Architecture discovery** (`ArchitectureProofs`). `CitedIsKnown` is not inductive: a
commit makes an answer's files cited, so it has to be known what the answer rests on
until then. That is `SupportHolds`: in the stage of the commit, unless the run is
aborted, what the answer rests on is the version registered, or the file has moved past
it (which the reread of the commit sees), or it is withdrawn. `KnownWasThere` (a
registered version is one the file has had) is what makes "moved past" last.
`NothingLost` needs that a rejection books no file that the reread of the commit has
just registered, since that would have aborted the run. `Sound(w)` says what the work
`w` left by a step has to satisfy; one lemma per kind of result shows it.

**Boundaries** (`ArchitectureProofs`). An answer waits while files change, so the invariant
speaks of the answer before it is kept: what it guards is the version the file has until
it changes (`GuardsHold`), a membership of it joins an application and a component of those
versions (`AnswersJoin`), and a pair that its roles make is among its memberships or those
it left (`AnswersSettle`). `KindWith` is the role a file has once the answer is in; `CommitAnswer`
compares the guards, and with them the three say of the kept roles what `BoundariesHold`
asks. `Cleared` takes roles away together with their memberships.

**The lock** (`LockProofs`), for any number of processes, any of which may die at any
step. `ClaimsHold` says when a process has a claim and a number. The order of the bakery
is (number, process). A process *has passed* another when it waits for it no more
(`Passed`: it has read its entry and is not blocked, or it is inside), and the core of
the invariant is that who has been passed stays behind (`PassedStayBehind`): it has yet
to read the number of the one that passed, or has seen it, or chose a number that goes
after. A scan that misses a claim made meanwhile is covered by this, because such a claim
reads its numbers later. Two processes inside would each be behind the other.
`RecordHolds` (the record is gone while it is replaced and is that of the daemon that
runs) then gives the refinement: a step that changes the record publishes over no live
owner, or is a release of one's own.

**Setup** (`LockProofs`), for any repositories, hosts, versions, failures and interruptions.
A receipt is written before a host is worked on and again after it, so `InstallsInOrder` and
`RemovesInOrder` say for every step of a command what the receipt has not got yet: a host that
is worked on is pending, one that the command counts as installed has at least the
version it writes. `KnowsItsOwn` is what stays when the command stops anywhere: the
receipt is true, and what a host has from this repository is in the receipt, installed or
pending. `ReplacesNoStranger` carries the check for foreign registrations from the
listing to the change, which is what the model takes for granted of the hosts.

**Extensions** (`BrokerProofs`). The registry's invariant says that one process at a time
is between the lock and its release, also when it dies there (`OneInside`), that what it
read is what is there until it writes (`ReadIsCurrent`), and that every approval has a
time that no pending one has (`Fresh`, `TimesDiffer`). With it, `Write` is the one
step of a whole operation of `ExtensionCatalogue`, and every other step a stutter. For an
analysis, `WantsAreApprovals` and `ApprovedThen` say that what it was asked with was an
approval, and that an approval that has gone does not come back, which is what makes the
comparison after each await enough; `SeenIsCurrent` does the same for its evidence.

**The page** (`BrokerProofs`; the modules of `Extensions` are proved about in one module).
`UpToDate` is the core: as long as an unbroken stream has delivered all it was sent and
nothing was reported lost, the newest snapshot is shown, or a request under way will show it. It is not
inductive without `LinkHolds`, that at most one connect is of the attempt that counts,
which closes its stream, and that the last snapshot on the wire is the newest. That
effects are true follows from `MotionFollows`: while there is a baseline, it is what the
stream delivered last and what is shown.

**Calls of tools** (`BrokerProofs`). Of a call, `RowHolds` says that what was attempted was
judged or is being asked about in this very form, or the question was aborted;
`BegunSince` that a question not aborted began after the last control (a pause, a
resume and a checkout abort all questions in their step); `AskedOf` that what is applied rests on
the versions captured. `QueueHolds` says that whatever could be asked about waits, and
that what waits, waits for a question to end: so nothing is forgotten, although one call
may be refused by a full queue. These two hold only while the coordinator is available;
a resume establishes them again from the rows (`Sweep`).

**Daemons** (`DaemonProofs`), for any number of processes, changes, failures and
deaths. One owner (`OneDaemon`); a migration's guard excludes a running daemon
(`OneMigration`); who does not own the directory has nothing to write
(`OthersHaveNothing`). `LaterIsNewer` orders what is on its way: memory is at least what
the writer holds, that at least what the temporary file holds, that at least the file.
`FlushesAll` says that what a closing daemon knew is with the writer, in the temporary
file or in place, unless a write failed. The two together are `SavesHold`. That the
daemons use the lock as `OwnerRegister` promises is the second half of the composition of
which `OwnerIsKept` is the first.

**The log** (`DaemonProofs`). `LogHolds` says that the lines of the backup and of the file
grow. That is kept only because all that is on its way grows with them: `OrderHolds` puts the backup, the
file, the batch and the queue one behind the other, below the number given last, and
`LinesHold` says that a torn line is the last of its file and gone before anything is
appended (without it the line behind it would be lost, which is what the mutant shows).
`ReachedIs` describes every place at which an append may stop. The next daemon reads
line by line; that `Loaded` takes all lines of growing files is shown by taking the first line
at which it would not.

**Reads of the model** (`DaemonProofs`). A page is the answer to a request that knows only
its cursor. `PagesHold` says that what a reader was given is the start of what was listed
under the seal of its cursor, all of it once it is done; `Bounded` that every stream is of the
viewer or of a live grant. That only the granted are served (`OnlyTheGranted`) is then
one step: time may pass between a request and its answer, so that the sweep at the
answer, and not the one before, decides.

**The browser** (`BrowserProofs`). For the stream: in the order of places (server, then
position), what is shown is no later than what was accepted, that no later than what is
being completed or is kept as a preview, and all of it no later than the server
(`OrderHolds`); the one request under way is of what is being completed, and is answered
with something else only when the server has left that (`CallHolds`); what is in the
stream is of the server there is (`EventsHold`). For the host of views: whatever is drawn,
runs or is under way is of the view that is chosen (`Agreeing`), discovery is followed by
a view that is drawn from the present model (`Following`), and there is nothing to draw before the first
model (`Waiting`); every step is one of few ways to change `ui`, with a lemma each, so that what
`Chosen` and `Fallback` overtake is shown once. For the dialogs (in `BrokerProofs`): the tickets that are
asked are never ahead (`AskedHolds`), an opening began with a ticket of its own
(`OpenedHolds`), and what is shown is of it (`ShownHolds`).

**Discovery** (`DiscoveryProofs`), for any files, queue, capacity and declarations. `NoWorkForgotten`
is kept by `AllCovered`: every file that was observed and is there has its place, which is the
queue, the parser, the parsed versions, or those put off for room. A batch of observations
goes file by file, each of which may displace another into what is put off; `BatchReaches`
says that a property which each file keeps, and one gives, holds of the whole batch in any
order. `FactsHold` needs `Registered` (the store, the platform and the model know the same
version of each file), `FactsSupported` (a fresh file has its summary, an import is of the version known) and
`CertificatesHold`: what a complete enumeration found is held while its certificate stands,
also in the checkpoints, whence a comparison calls nothing created that was there. An
eviction withdraws the certificate in the same step.

**Decisions** (`DecisionProofs`). `PoolHolds`: the slots in use are those of the jobs at
work, counted by the cardinality of a set that each step changes by what the pump starts
and by the one that ends, the queue is what is queued, and if anything is, every slot is
taken or the timer is set. It needs `JobsHold` (a queued job has no status, a deadline is
of a job that is not settled), because the pump settles what it starts too late.
`Pumps` states what a pump may start from, `PumpKeeps` what it leaves, for all of the
eight places that call it; a newcomer may be one more than the queue holds only if a slot
is free. `EpochHolds`: what can be joined or found in the cache was asked in this epoch,
and a cancelled evaluation cannot be joined; `WaitersHold`: who waits, waits for an
evaluation of its own epoch or a later one. `TimelyStep` is `InTime` for one job.

Sequences, folds and counts come into these proofs through lemmas about the operators. The
induction they need is not one of the library's theorems, which take the property as
an operator: it is the least counterexample (`LeastOf`, from the well-foundedness of the
natural numbers), for a recursive function together with the lemma that it satisfies its
equation.

Some definitions were written anew so that they can be reasoned about, with the states
left as they were: the queue of `DecisionService` is a set with an order beside it, where a
sequence was filtered; a key of the cache is removed by its place; `ObserveAll` of
`Platform` and `Loaded` of `DiagnosticLog` are recursive functions; `Listed` of
`ModelAccess` names the record that so many others precede.

### Model-checked only

- Everything about liveness and fairness: `PendingDrains`, `CallsEnd`, `Drains`,
  `Quiesces`, `StreamCatchesUp`, `ViewsComeToAgree`, `ComesToRest`. TLAPS does not
  prove liveness under fairness, nor `ENABLED`.
- `ChangesAreTrue` (what the list of changes keeps is chosen by filters), `LayoutIsSound` and
  `PrefixesAreTrees` (both are about recursive operators, which put their modules out of the
  provers' reach). Layouts and orders are pure, and checked over every input within their bounds.
- The three runs that expect a violation.

## Not modelled

- Of the project model: sessions, interpretations beyond the boundaries and the
  versions they cite, nesting of symbols, the bound of bytes, restored state, and the
  projection of a snapshot to a policy or a checkpoint.
- Of the model API: selections, rate limits, the assembly of records.
- Of the page: drawing, hover and focus, the camera, sizes of panels, and the two
  built-in visualizers.
- Of setup: prompts, keys, policies, the contents of packages; of diagnostics: the
  export and the reader of git references.
- Structure extraction, candidate extraction, redaction, prompts and wire formats, the
  demo, and the scripts that measure and build: pure functions, input and output, or
  interfaces to a person. Their correctness is a matter of text and pictures, which
  these models abstract, and they are more than half of the program's lines. That is
  why the models cover a modest share of all lines although they cover most of those
  whose order of execution is free.

## Plan

What is left to do, in this order:

1. `ChangeHistory`: its list as functions of positions in the place of filtered
   sequences, and with it `ChangesAreTrue`.
2. `ModelOrder` with recursive functions; then that each pass keeps a parent before its
   children, which is `PrefixesAreTrees`.
3. The two hazards of `PROJECT.json` that no property covers: a session that the very
   answer being applied evicts for retention, and a change first seen by a reread, which the
   next reconciliation does not find new.
