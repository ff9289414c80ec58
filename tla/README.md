# Work surfaces: models, checks and proofs

TLA+ models of the parts of this repository that decide whether a user's files,
events, orchestration runs and sessions survive concurrency, crashes and
failures. Line numbers are those of the TypeScript sources; `PROJECT.json` maps
every definition to the lines it stands for.

## 1. The system

A *surface* is a directory of ordinary files that people, editors and agent
sessions work on. What happened to it is kept in append-only event streams; its
accepted states are content-addressed revisions. *Orchestration code* is
registered for surfaces: an event of a stream becomes an input, the code is run
on the current heads, and what it proposes (new files, events, followup turns)
is recorded as one batch and then carried out. Registrations of the older,
declarative kind (v4) react to conditions over events of several surfaces. Each
surface has one agent session of the host (DSH), whose turns see the surface's
revision and emit what their messages grant.

| Component | Source (packages/) | State | Operations |
|---|---|---|---|
| Runtime lock | core `runtime-store-io.ts` | two files per attempt in a lock directory | acquire (doorway, ticket, scan, prune), release |
| File workspace | core `file-workspace.ts` | authoring files, `workspace/pending`, `workspace/receipts` | transaction, recover, replace, project; edit, materialize |
| Block-to-file adapter | dsh `block-to-file-adapter.ts` | none | observe, commit |
| Surface content runtime | runtime `surface-content-runtime.ts` | apply intents; revision facts in the event streams | head, recordBatch, apply, publish, recover |
| Operation ledger | core `orchestrate-ledger-store.ts` | `recorded/`, `settled/`, `failures/` | record, settle, settleFailed, fail |
| Registration, status, input stores | same file | registration and retirement records, input ledgers | put, retire, append |
| Code-first orchestrator | runtime `code-first-orchestrator.ts` | `retiredIds`, promise chains, registrations in memory | admit, retire, accept, acceptExternal, recover, drain, run, apply |
| Runtime event store | core `runtime-event-store.ts` | a JSONL log per surface, listeners | append, replay, watch |
| Revision store | core `revision-store.ts` | objects, manifests, pins | snapshot, pin, unpin, collect, read |
| Declarative engine (v4) | runtime `engine.ts`, core `orchestration.ts`, `definition-store.ts` | a stream of records per registration, promise chains | register, pause, resume, retire, reconcile, recover, inspect |
| v4 event store | core `file-event-store.ts` | a JSONL log per surface and registration | append, replay, watch |
| Surface sessions | dsh `session-surface.ts`, `session-adapter.ts` | bindings, turn scopes, capabilities, briefs, receipts | bind, open and close turns, emitTurn, deliver, adopt a revision |
| Session admission | dsh `session-admission.ts` | per-surface promise chain | ensure, recoverAfterRestart |
| Context composition | dsh `context/*.ts` | facts in the session's log | collect, plan, render, record, supersede |
| Service | dsh `service.ts` | wiring, timers | start-up, authoring sync, prepareNextTurn, emitTurn, publishTurn, retireDefinition |
| DSH surface port | dsh `code-first-surface-port.ts` | none | historyBoundary, tool completions, publishTurn, advance |
| Orchestrate code runner | dsh `orchestrate-code-runner.ts` | staged directories of a subprocess | run |
| Contracts and protocol types | core `runtime-protocol.ts`, runtime `orchestrate-contract.ts` | create-once contract files | parse, validate, canonical digests |
| Everything else | hash, errors, host socket, CLI, web panel, texts | none | transport, user interface |

How they interact:

    editors ---- save files at any time -----------+    agents --- block-to-file ---+
                                                   v                                v
    session --- publishTurn ---> SurfaceContentRuntime --> FileWorkspace (files, edits)
       |  ^                         |        ^   \----> RevisionStore (snapshot, pin, collect)
       |  | context: revision       | facts  | heads, record, apply
       |  | and occurrences         v        |
       | emitTurn, tool completion  |        |
       v                            v        |
    event streams --- listeners ---> CodeFirstOrchestrator <-- recover (start-up, runtime.recover)
       ^     \                          |      ^
       |      `--> WorkSurfaceEngine    |      `-- authoring sync: admit, retire
       |             | emit, followup   v
       |             v            input ledger -> drain -> code -> operation ledger
       +---------- events of a batch ---------------+----> advance / followup: turns
                                                             of SurfaceSessions
    every store and every transaction: RuntimeLock (one lock directory each)

Three kinds of atomicity hold this together. Everything about files and heads of
*all* surfaces happens in transactions under one writer lock; a transaction
first finishes what an earlier one left behind (`recoverLocked`, twice: the
file projections, then the apply intents). Everything about one registration
happens on one promise chain. And everything that must happen once bears an
identity of its own (operation id, run id, event id, message id) under which a
create-once file or an idempotent append remembers it.

What is hard about each part, and what makes it correct:

* **Lock.** No server and no lock call of the operating system: a bakery
  algorithm on files that are read one by one, whose owners may die at any
  moment and are pruned by others. Correct: at most one holder, first come
  first served, nobody waits forever.
* **Surface content.** An apply is a dozen durable steps; it may stop between
  any two and is taken up by whoever comes next, while editors do as they like.
  Content addressing means that a head can come back to an old value. Correct:
  a surface's facts form one chain, a recorded batch keeps its heads until it
  is settled, nobody sees or loses half of an apply.
* **Managed edits.** The same edit is sent again by an agent that does not know
  what became of it, after others have changed the files or put them back.
  Correct: it happens once and as a whole, and the answer is true.
* **Orchestrator.** Deliveries are advisory, recovery overlaps with them,
  registrations compete for surfaces, batches are retried after errors and
  restarts. Correct: inputs in order, content before effects, every effect
  once, settlements tell the truth, the retired stay quiet, and an input that is
  delivered is finished unless something disturbs it.
* **Admission.** Authors save while their files are read, several calls admit
  the same id, one event name means different things to two registrations.
  Correct: a record is one artifact, what was recorded stays authorized, and a
  broken directory does not keep a sound one out.
* **Revisions.** Snapshots take no lock and write blobs before the manifest that
  needs them, some facts are recorded before their pin or without one, while a
  collection lists and unlinks. Correct: what a fact or a pin names stays whole.
* **Engine.** Handlers run again after a crash and may contradict themselves;
  effects, their settlement and the record of both are separate writes.
  Correct: effects once, as recorded; no retry that nobody asked for.
* **Sessions.** Two ways to open a session, messages that join an open turn,
  crashes that lose a suffix of the log, redelivery by two mechanisms.
  Correct: one session, grants of the turn's own messages, followups once.
* **Context.** The revision changes in the middle of an assembly, and so does
  the roster of providers. Correct: a prompt does not mix revisions, and what
  was collected for it is not used up unseen.

`PROJECT.json` lists the hazards one by one with their lines and the properties
that cover them, and says of those that no property covers why.

## 2. The modules

| Module | What it is |
|---|---|
| `RuntimeLock` | the lock protocol, one action per file operation |
| `ExclusiveLock` | what its callers rely on; `RuntimeLock` implements it |
| `RuntimeLockProofs` | what is proved of it, as of every `...Proofs` below |
| `OperationLedger` | record and settle, shared by the two modules below |
| `SurfaceContent` | transactions on surfaces, one action per durable step |
| `SurfaceContentProofs` | |
| `SurfaceHeads` | what transactions promise of the heads; `SurfaceContent` implements it |
| `CodeFirstOrchestrator` | registrations, inputs, drains, effects |
| `CodeFirstOrchestratorProofs` | |
| `InputQueues` | what the orchestrator promises of inputs; `CodeFirstOrchestrator` implements it |
| `Admission` | from authoring files to records, routes, grants and events |
| `AdmissionProofs` | |
| `ManagedEdits` | edits of several files by agents, imports, retries and answers |
| `ManagedEditsProofs` | |
| `FileEdits` | what managed edits promise; `ManagedEdits` implements it |
| `RevisionStore` | snapshots, pins and the collection, one action per system call |
| `RevisionStoreProofs` | |
| `EventConditions` | evaluation of a condition, and what it ought to find |
| `Engine` | the v4 engine for one registration |
| `EngineProofs` | |
| `EngineInspection` | what the engine shows of it |
| `SurfaceSessions` | the session of one surface: turns, grants, delivery, recovery |
| `SurfaceSessionsProofs` | |
| `ContextFacts` | the facts from which the context of a session is assembled |
| `MC...` | instances for TLC |

The modules meet at the operations of the stores. A component that uses another
takes what that promises as one step: `SurfaceContent` takes the lock as held,
`CodeFirstOrchestrator` takes a transaction as one step and keeps of it the one
thing that shows, an interrupted apply; `Admission` takes run and apply as one
step each; `Engine` and `CodeFirstOrchestrator` take a delivered followup as a
message that `SurfaceSessions` runs once.

### RuntimeLock

`Attempts` are the random tokens of acquisition attempts; their string order is
taken to be the order of numbers. The state is what the two files of an attempt
say (`choosing`, `number`) and the locals of `acquireRuntimeLock` and of its
scan (`pc`, `ticket`, `todo`, `reading`, `seen`, `blocked`). The actions are
the file operations and exits in the order of the code; the two unlinks of a
release run concurrently, so they happen in either order. `Crash` ends a
process with all its calls. A pid in `Recycled` is in use again after its
owner's death, so its files look alive. The two listings of `lockOwners`
(choosing a ticket, waiting) are one action that knows its caller from `pc`.
`ahead` is a history variable. Left out: the single lock file of an older version
that `acquireRuntimeLock` still recognises, and file systems that list a
directory other than at one moment.

### SurfaceContent

A transaction is the variable `tx`: its request, which of the three nested
routines it is in (`workspace` recovery, `intents` recovery, `body`) and at
which durable step. `history` holds the revision facts of each event stream,
`work` the authoring files, `intents`, `pending` and `receipts` the three
directories of unfinished and finished work. A revision *is* its content, which
is what content addressing means and what lets a head return. `Finish` is
`finishApply` with the checks of `replaceLocked`; `CheckFile` and `RenameFile`
are two steps because the code checks and renames in two system calls;
`Abandon` ends a transaction between any two steps (an error, or death of the
host: both leave the same disk). Requests carry revisions that were read in
earlier transactions, so they may be any head a surface ever had. Left out: file
modes, path validation, changes of topology, pins.

### CodeFirstOrchestrator

One worker per registration (`worker`, a record of where its drain is and what
it has in hand), with a set of queued deliveries (`wakeups`): `{ref}` for one
delivered event, `{}` for "scan the streams" (`recover`). A start-up recovers once, which is part of `Restart`:
the streams are scanned, and the executions of the sessions whose logs can be
read are delivered, for every registration that is not retired. After that
`Recover` and `RecoverExternal` are requests (`runtime.recover`) that may never
come. The one thing that
shows of a surface transaction is an apply whose intent is durable and which
was then interrupted (`left`): any later transaction finishes it first
(`FinishLeft`) or, if drafts are in the way, throws. `Throw` lets any await of a
drain throw, also after its durable write; `Crash` forgets the memory and reads
the retirement records. What the code leaves behind is any member of `Results`;
`Returned` is what `run` makes of it: references must resolve among the refs of
its input (`Resolves`), and what its routes do not permit (`Emits`,
`Authorized`) is an error of the run, before anything is recorded.

Abstracted: a revision is how often its surface has moved (returning content is
the business of `SurfaceContent`); a run's id is chosen when its batch is
recorded; both streams of a history boundary are read in one step per surface;
deliveries are a set, with the order of the promise chain entering only as
fairness; `advance` is idempotent by its message id, which `SurfaceSessions`
has the reasons for. The diagnostics in `failures/` are in no guard and left out.

### Admission

A synchronisation (`syncAuthoringRegistrations`) is a job that a caller has
under way: it lists the directories and admits each in order (read
`registration.json`, snapshot `artifact/`, declare contracts, pin, put). A
directory without `registration.json` is passed over silently (576-581); one
that cannot be admitted ends the job, unless failures are isolated, as at the
start, or this one is known already. The end of a turn, an emit and a request start one each,
so several overlap, with each other and with the host's start, while `Edit`
changes the files. Every read of an admission that an author can come between
is a step. `Put` is create-once. `StartTurn` grants what `prepareNextTurn`
found; an emit reads the registration that has the output, then the turn's
binding, then appends; `Accept`, `Run` and `Apply` check routes and payloads
as `matchSurfaceInput`, `authorizeBatch` and the event store do. `touched` is a
history variable: the directories that an author saved since the host began to
start, of which nobody can say what was read.

Abstracted: a digest stands for its content; retirement, a run and an apply
are one step each; an emission's name and payload are chosen after its
synchronisation has ended, which gives it every choice it had before. Of what
can end a start the model has ambiguous outputs (`service.ts` 217) only; the
recovery of surfaces and sessions, the collection and unreadable stores (193,
194, 212, 213) can do so too and are left out, so nothing here says that a
start succeeds. Left out as well: directories without an artifact (they belong to the engine), events of host
executions, and what happens to an output that was retired between grant and
emit: `emitTurn` then falls through to the v4 stream (`service.ts` 289-292).

### ManagedEdits

Agents observe files and propose new contents (`Observe`), send the proposal,
perhaps again (`Call`), and are told something (`answer`); `Import` is a
`revision.materialize` request. The transaction under the lock recovers, then
does `editLocked` or `materializeLocked`, writes its intent, projects it file
by file (`CheckFile`, `RenameFile`), writes the receipt and drops the intent,
while `Save` is an editor and `Fault` an error or a death at any step. A fault
may also strike after the intent was linked and before its directory was synced
(`durableCreate`, `runtime-store-io.ts` 28): the agent hears "failed" of an edit
that was accepted, which `AnswersAreTrue` admits, and a retry finds it done.

Versions are contents. A check of the whole directory and the durable write that
follows it are one step: an editor's save between the two leaves the same state
as one after both. `lost` records saves that were written over: those between
the check and the rename of a file, and those that a second projection after
the receipt (`file-workspace.ts` 301-303) writes over, when an editor had put
the old contents back.

`FileEdits` is the promise: one step changes several files, each from what was
expected. In the mapping (`ImplementsEdits`) an edit is done when its intent is
durable, and the files are those of the directory with the accepted edit
carried out where nothing has been done yet. Left out: executable bits, changes
between file and directory, the identity file, the collection of receipts.

### RevisionStore

`present` and `born` are the objects with their times; `pins` is `pins.json`.
A caller snapshots (blob by blob, then the manifest), or names a stored revision
(`Name`: the input of a binding, the pins that a start-up renews), pins it, records
a durable fact, and may unpin. Two callers do otherwise: `registerDefinition`
reads the snapshot back (`ReadBack`) and records it without ever pinning it
(`RecordDefinition`, `service.ts` 383-389), and `bindSession` writes
`binding.json` before it pins (`RecordBinding`, `session-surface.ts` 273, 282) and
may end in between. A collection gathers the roots from facts, waits for its turn in
the promise chain, marks, lists manifests, sweeps them one by one, lists blobs,
sweeps them. `Tick` is the clock of host and file system; it does not pass
`MinAge` under a running snapshot, that is, **a snapshot is assumed to take less
time than the age that protects its objects** (a week, `service.ts` 485).

A snapshot that finds an object in the store (`EEXIST`, `revision-store.ts` 328)
leaves it as old as it is. A collection that gathered or marked before the revision
became a root may then unlink that object, and a fact may come to name a revision
that cannot be read. If the fact has a pin, only blobs can be missing, since `pin`
reads the manifest in its turn of the promise chain. If it has none, the manifest
may be gone as well; then every later collection throws at that root
(`Mark`), and so does the start of the service, which collects (213) and pins again
what bindings name (`session-surface.ts` 166). The comment at 236-238 relies on the
age of objects and speaks of newly written ones only; the properties name the
other case as their one exception, a history variable (`exposed`: revisions that
lost an object while no root named them), so that everything else about roots is
checked and proved. `vouched`, another one, are the facts recorded after their pin.

### EventConditions, Engine and EngineInspection

`EventConditions` has `evaluateOne` as operators over streams (a match, counts,
a sequence by a recursive function, all and any), and `IsEarliestEvidence`, a
definition of what the evidence should be that does not refer to how it is found.

`Engine` is `WorkSurfaceEngine` for one registration. `chain` is the promise
chain of its jobs and `job` the one under way, whose steps are: replay the records,
recover what was recorded and not settled, read one stream after another,
evaluate, open activations, run reactions, and per action record, carry out, settle.
Each durable write may fail or be the last before a crash; a short write leaves a
torn line (`torn`), after which nothing can be replayed. `Outcomes` lets code
ask for something else each time it runs. `missed` is an event that came while
the service did not wake the registration yet (`service.ts` 390), `repeated` a
second failure in the same words, which `appendRecord` (357) takes for the first.
`EngineInspection` adds `inspect` and both flow projections, which are other
code than evaluation and execution.

Left out: interpolation of keys into payloads and texts, nesting of `all` and
`any` below one level, the partial match of payloads, the handler's sandbox.
The branch at 271-274 that marks an activation without a plan is unreachable
and has no action.

### SurfaceSessions

One surface, its session, and the host around it. DSH is external and modelled
from how this code uses it: the module's header says what is assumed (a log of
which a prefix is on disk, an inbox that does not take a message twice, how a
stop and a resumption close a turn). An ensure (`Choose`, `Look`, `OpenSession`)
has its turn in `surfaceOperations`, a step for each of its awaits, and may fail
before and after the agent is open (`Refused`); `NativeBind` is a creator that
opens a session of its own. Messages join turns with the briefs of
`followup-briefs`; `scope` holds capability and grants. When the briefs of a turn's messages contradict each
other, the listener throws before it resolves the receipt (`session-adapter.ts`
103-105): the message runs, and its delivery waits until it times out. An output
(`emit`) is three steps: the capability is looked at (`BeginEmit`); after the
registrations were read, the grants of the turn that is open then (`Authorize`);
after a queue, a contract, a lock and a replay the event is in the stream, or the
append has failed (`EndEmit`). Deliveries time out, and are settled by the receipt in the
log. `Crash` loses a suffix of the log, `Stop` is graceful, both restart;
`recoverAfterRestart` (`RecoverLook` and what follows) inspects and chooses between redelivery and a notice.
`Late` and `EmitsUntil` are bounds that say which followups and outputs may come
after a restart.

Two history variables name what the code does not promise. `resent`: recovery
may send again a message that has run, since `nextTurnState` never forgets one
that was once dropped (`session-admission.ts` 350-362). `passed`: recovery
passes over a session that is live before it looks (141), a busy session
whose followups a graceful stop has cancelled (163, 208; the comment at 148-151
says otherwise), and one whose inspection, admission or notice failed: that is
logged (168-186), and nothing is tried again before the next restart, which makes
`passed` empty again. Left out: the v4 stream as the destination
of an output; `surface.run` messages, which have no brief; the v4 publication
(`publish`), unreachable from the service; presets and the workspace registry. The order of start-up (live agents are adopted before
bindings are read) is part of the model.

### ContextFacts

The session's log is the only state of the context runtime, so the model is a
log and an assembly under way. Providers are asked together
(`context/runtime.ts` 142; `docs/context-management.zh.md:54` says one after the
other) and settled one by one; a crash may lose the last burst; the roster may
be another after a restart. `Adopt` is `adoptRuntimeRevision` as one step, which may
set an older revision and may come between any two steps of an assembly.
What the code does and a reader may not expect: `retryable` failures are never
retried; an occurrence's id does not include the roster; the ended occurrences
of a revision that comes back are not collected again (`Returned`, an exception
in `RendersFollowRevision`); an occurrence that was shown in part is used up.
No provider is registered in production code so far.

### What is not modelled

The host socket, the persistence adapter, the CLI and the generated texts keep no
state that a property here is about. The web panel reads whole projections again
after every wakeup and every heartbeat of 25 seconds and changes nothing but its
own picture (`client.js:106-146`, `web/index.js:59-77`). Of partly modelled
components the missing operations are in `PROJECT.json` under their notes: queries,
settings and dispatch of the service; JSON shapes of the protocol types;
the report of `recoverHeads` (its calls of `head` and of
the adoption are actions that may come at any time); token budgets and rendering
of texts; torn lines
of the code-first stores (the v4 store has them).

## 3. What TLC checks

| Run | Instance | Question |
|---|---|---|
| `runtime_lock` | 3 attempts of 2 processes, one pid recyclable, one attempt that may throw | is the file protocol a fair lock? |
| `surface_content` | 1 surface of 2 files with 3 contents, 2 runs, 2 saves, 2 abandoned transactions | are interrupted applies finished, and are files and head then the same? |
| `surface_shared` | 2 surfaces, 2 registrations that share one, publications, a save, 1 abandoned transaction | one compare-and-set chain of heads under reservations? |
| `orchestrator` | 2 registrations that compete for a surface, a turn's event and a host execution, code that may ask for too much, 1 fault anywhere | content before effects, effects once, what is delivered finished? |
| `orchestrator_retired` | 1 registration that may be retired at any time, 2 inputs, publications, drafts, 1 fault | heads held, retired quiet, inputs in order? |
| `admission` | 2 directories on one surface, whose registrations may take one id or one output name, 2 saves, 2 calls beside the start, 1 crash | is a record one artifact, do events reach whom it names, is what is sound admitted? |
| `edits` | 2 agents with one message id, an import, a save, 1 fault anywhere | do edits happen once, and are answers true? |
| `revisions` | 2 callers, 2 revisions that share a blob, facts with a pin, before it and without one, a collection, crashes | does anything reachable go? |
| `engine` | 3 subscriptions over 2 surfaces, a handler that contradicts itself, 2 status calls, 1 event from outside, 1 fault anywhere | effects once, evidence stable, everything due done, and shown as it is? |
| `sessions` | 2 followups with contradicting briefs, a native session, outputs before the first restart, 2 crashes or stops anywhere | one session, grants that follow messages, followups once? |
| `context` | 2 providers, 2 rosters, 2 revisions, an adoption, a compaction and a restart at any moment | do prompts hold together? |
| `edits_answers` | as `edits` | expected to fail: see below |

**Why the bounds suffice.** The lock needs two attempts of one process beside
another process (a death takes two attempts with it), and three attempts so
that one can wait for two that are at different stages. An interrupted apply
needs two files to be half done, two contents to differ and a third to
conflict, and two interruptions so that recovery itself is interrupted. Heads
need a batch that owns two surfaces, one of them contended. The orchestrator
needs two registrations with a common surface, two inputs for an order, and one
fault at every place; more faults repeat the situation after a restart, since
memory is empty then. Admission needs two directories for the two ways in which
registrations meet (id and output name) and two saves, one in and one between
admissions. Edits need two files to be half done, two agents to take each other's
place, and a third content to conflict. The store needs a shared blob, an object
that is old and one that is young, hence a clock of `MinAge` + 1, and a second
caller to pin, unpin or record while the collection is on its way. The engine
needs a join, something that happens twice, and a chain of two reactions, each
over a crash. Sessions need a second restart, since recovery itself may be cut
short; a restart ends an output under way, and `OutputsAreGranted` is proved of
those that come later. Context needs a revision that comes and one that was, and a
provider that only one roster has. Every bound is a constant whose name begins
with `Max`, or one of `Throwing`, `Late`, `EmitsUntil`, `PressureAt` and the
finite sets.

**Safety.** `MutualExclusion`, `NoOvertaking` (lock); `ChainIntact`,
`AuthoringFollowsHead` (content); `ContentBeforeEffects`, `EffectsOnce`,
`SettledMeansDone`, `PendingHoldsHeads` (orchestrator); `RecordsMatchArtifact`,
`RecordedStaysAuthorized`, `EventsAreRouted`, `SoundIsAdmitted`
(admission); `AnswersAreTrue` (edits); `RootsWhole`, `PinsStay`,
`OwnObjectsStay` (revisions); `RecordsFold`, `EffectsOnce`, `EvidenceIsEarliest`,
`InspectionAgrees` (engine); `OneSession`, `GrantsFollowMessages`, `RunsOnce`,
`EmitsAreGranted` (sessions); `SettledOnce`, `EndedWasShown` (context). Where a module has a type
invariant of its own, it is a conjunct of the first of them.

**Steps.** `NoHalfProjectionIsRead`, `RetiredStaysQuiet`, `NoUnaskedRetry`,
`RendersFollowRevision`, `RequiredHolds`.

**Refinements.** `ImplementsLock` (holders are the attempts at stage `held`),
`ImplementsHeads` (a surface's holder is the pending batch that touches it),
`ImplementsQueues` (accepted is the ledger, finished the inputs whose run is no
longer pending), `ImplementsEdits` (see ManagedEdits). Each mapping stands at the
end of the detailed module, where TLC and the proof both use it.

**Liveness.** `EveryWaitEnds`, `IntentsFinish`, `DeliveredInputsFinish`, `Reacts`,
`QueuedRuns`. `DeliveredInputsFinish` asks for settlement, not merely for an end: a
run that was settled as failed does not count. So it has to leave out what the code
does settle as failed (see below): inputs that an error, a crash or an edit disturbs
once they are delivered, and those whose surfaces another registration or a draft
holds. What it shows is that whatever former attempts, crashes and restarts left
behind, the next delivery that is not disturbed finishes the input: by a listener,
by the recovery of a start-up, or by a request.

**Fairness.** Lock: a live attempt continues (its awaits return, the holder's
`finally` is reached); deadlines, errors and deaths are never forced, so
`EveryWaitEnds` does not lean on the deadline. It is stated up to files of a dead
owner with a recycled pid, which hold waiters up until their deadline. Content:
a transaction that has the lock goes on and a free lock is taken again, at the
latest by the recovery of a start-up. Orchestrator: a drain goes on, and its own
transactions finish an apply that was left before they do their work
(`recoverLocked`); a queued delivery has its turn in the end, since the queue
is a promise chain (`serialize`, `code-first-orchestrator.ts` 469-475; strong
fairness, because the worker is busy in between). Nothing is assumed of
`recover` and `recoverExternalInputs` after the start, which nobody schedules.
Engine: the job that has its turn goes on; nothing else is fair, so whatever is
left is left to the wakeups of the code. Sessions: promises settle, timers fire,
and an agent that is awake goes on. Nothing is assumed of listeners, editors,
agents' wishes or admissions.

**Exceptions.** Where the code does not quite promise a property, the property
says so with a variable that names the case: `exposed` (revisions), `missed` and
`repeated` (engine), `resent` and `passed` (sessions), `Returned` (context),
`lost` (edits). Each is explained with its module.

**Deadlock** is not checked where the system may really stop: all lock attempts
are over; a registration is retired and the bounds are used up; a host waits
for events or messages and the bounds allow none.

### Where documents and code differ

`edits_answers` states what a document says and TLC finds a behaviour of the
code that violates it. `ProjectionFailedWasAccepted`:
`docs/core-and-host-boundaries.md:27` says that a projection failure contains
the candidate that was recorded and that recovery goes on with the same intent.
`commit` takes every `WorkspaceProjectionError` for its own edit's
(`block-to-file-adapter.ts` 85-91), but the transaction projects what is pending
from others first (`file-workspace.ts` 63, 251-261) and throws the same error
for those: the agent of an edit that was never looked at is told that it was
recorded, with the other's revision and its own results.

Further differences are part of the models without a run of their own:

* `docs/core-and-host-boundaries.md:35` says that edits from outside are never
  silently overwritten. `project` checks a file and renames over it in two steps
  (`file-workspace.ts` 292, 293); what is saved in between is lost.
* `docs/core-and-host-boundaries.md:33` and `docs/orchestration-code-contract.md:60`
  and `:62` say a failure does not finish its input. A recorded batch that fails,
  be it of a lock that was busy for five seconds,
  is settled as failed (`code-first-orchestrator.ts` 277-284) and its input is
  skipped from then on; `packages/runtime/tests/code-first-recovery.spec.ts:67`
  expects it. `DeliveredInputsFinish` excludes this case by name.
* The same contract says that unrelated registrations do not hold each other up.
  Recovery covers the whole workspace (`surface-content-runtime.ts` 151-164), so
  a draft in the way of one interrupted apply stops everybody until it is gone.
* WS-26 (`spec/invariants.json:29`) says that a batch that is not settled can be
  recovered. `recover` does not dispatch to retired registrations
  (`code-first-orchestrator.ts` 251): after a restart their pending batch
  stays, and so does its reservation.
* The comment at `revision-store.ts` 236-238 and `packages/core/README.md:5` take
  the age of objects to keep snapshots and collections apart. That holds for what a
  snapshot writes (`OwnObjectsStay`), not for what it reuses; see `exposed`. Facts
  that are recorded without a pin or before it can lose their manifest in this way.
* `docs/context-management.zh.md:54` has providers called one after the other.
* A delivery that takes longer than 30 seconds (`session-adapter.ts` 146)
  settles its batch as failed although the followup is in the inbox and runs. So
  does a message whose brief contradicts another of its turn, since its receipt
  is skipped (103-105).
* `emitTurn` records with the turn that was open when it began, and authorizes
  with the one that is open after the registrations were read; by the append, that
  one may have ended or its messages may contradict each other (`service.ts`
  270-287; WS-14, `spec/invariants.json:17`). `EmitsAreGranted` is about the
  moment of the check.
* `inspect` shows an `lte` count as satisfied without a matching event
  (`orchestration.ts` 195), where evaluation wants at least one (159-160), and
  shows "retryable-failure" after a resume until the retry has ended.
* Two active registrations that give one output name to a surface with different
  contracts keep the service from starting (`service.ts` 217).

## 4. What is proved

Eight modules of proofs, for every value of the constants that satisfies the named
assumptions, which TLC evaluates on every run. Next to a theorem is the run that
shows the same property on a small instance.

| Theorem | Statement | Run |
|---|---|---|
| `RuntimeLockProofs!TypeCorrect` | `Spec => []TypeOK` |  |
| `RuntimeLockProofs!LockInvariant` | `Spec => []LockInv` |  |
| `RuntimeLockProofs!LockIsExclusive` | `Spec => []MutualExclusion` | `runtime_lock` |
| `RuntimeLockProofs!LockIsFair` | `Spec => []NoOvertaking` | `runtime_lock` |
| `RuntimeLockProofs!LiveTicketsKept` | `Spec => []LiveTicketsStand` |  |
| `RuntimeLockProofs!LockIsLock` | `Spec => ImplementsLock` | `runtime_lock` |
| `SurfaceContentProofs!ContentInvariant` | `Spec => []ContentInv` |  |
| `SurfaceContentProofs!ChainsHold` | `Spec => []ChainIntact` | `surface_shared` |
| `SurfaceContentProofs!FilesFollowHeads` | `Spec => []AuthoringFollowsHead` | `surface_content` |
| `SurfaceContentProofs!WholeDirectoriesAreRead` | `Spec => NoHalfProjectionIsRead` | `surface_shared` |
| `SurfaceContentProofs!ContentImplementsHeads` | `Spec => ImplementsHeads` | `surface_shared` |
| `ManagedEditsProofs!EditInvariant` | `Spec => []EditInv` |  |
| `ManagedEditsProofs!AnswersHold` | `Spec => []AnswersAreTrue` | `edits` |
| `ManagedEditsProofs!EditsAreWhole` | `Spec => ImplementsEdits` | `edits` |
| `CodeFirstOrchestratorProofs!OrchestratorInvariant` | `Spec => []OrchestratorInv` |  |
| `CodeFirstOrchestratorProofs!EffectsFollowContent` | `Spec => []ContentBeforeEffects` | `orchestrator` |
| `CodeFirstOrchestratorProofs!EffectsAreOnce` | `Spec => []EffectsOnce` | `orchestrator` |
| `CodeFirstOrchestratorProofs!SettlementsAreTrue` | `Spec => []SettledMeansDone` | `orchestrator` |
| `CodeFirstOrchestratorProofs!PendingBatchesHold` | `Spec => []PendingHoldsHeads` | `orchestrator_retired` |
| `CodeFirstOrchestratorProofs!RetiredIsQuiet` | `Spec => RetiredStaysQuiet` | `orchestrator_retired` |
| `CodeFirstOrchestratorProofs!LedgersAreQueues` | `Spec => ImplementsQueues` | `orchestrator_retired` |
| `AdmissionProofs!AdmissionInvariant` | `Spec => []AdmissionInv` |  |
| `AdmissionProofs!RecordsFitTogether` | `Spec => []RecordsMatchArtifact` | `admission` |
| `AdmissionProofs!BatchesStayAuthorized` | `Spec => []RecordedStaysAuthorized` | `admission` |
| `AdmissionProofs!StreamsAreRouted` | `Spec => []EventsAreRouted` | `admission` |
| `AdmissionProofs!SoundOnesAreAdmitted` | `Spec => []SoundIsAdmitted` | `admission` |
| `RevisionStoreProofs!StoreTypes` | `Spec => []TypeOK` |  |
| `RevisionStoreProofs!PinsAreKept` | `Spec => []PinsStay` | `revisions` |
| `RevisionStoreProofs!RootsAreKept` | `Spec => []RootsWhole` | `revisions` |
| `RevisionStoreProofs!OwnObjectsAreKept` | `Spec => []OwnObjectsStay` | `revisions` |
| `EngineProofs!EngineInvariant` | `Spec => []EngineInv` |  |
| `EngineProofs!RecordsCanFold` | `Spec => []RecordsFold` | `engine` |
| `EngineProofs!EffectsAreOnce` | `Spec => []EffectsOnce` | `engine` |
| `EngineProofs!RetriesAreAsked` | `Spec => NoUnaskedRetry` | `engine` |
| `EngineProofs!EvidenceStaysEarliest` | `Spec => []EvidenceIsEarliest` | `engine` |
| `EngineProofs!InspectionIsTrue` | `Spec => []InspectionAgrees` | `engine` |
| `EngineProofs!NothingIsMissed` | `Spec => []QuietHasReacted` |  |
| `SurfaceSessionsProofs!SessionInvariant` | `Spec => []SessionInv` |  |
| `SurfaceSessionsProofs!SessionIsOne` | `Spec => []OneSession` | `sessions` |
| `SurfaceSessionsProofs!GrantsAreAgreed` | `Spec => []GrantsFollowMessages` | `sessions` |
| `SurfaceSessionsProofs!FollowupsRunOnce` | `Spec => []RunsOnce` | `sessions` |
| `SurfaceSessionsProofs!OutputsAreGranted` | `Spec => []EmitsAreGranted` | `sessions` |

**The lock.** Assumed: tokens are natural numbers (`TokensAreOrdered`: only
their order is used), every attempt has a process (`OwnerIsAProcess`),
`RecycledArePids`, and `NoneIsNoToken`. Mutual exclusion alone is not inductive:
two holders are excluded by what they read of each other long before. `LockInv`
says so:

* `FilesMatchStage`: the files of a live attempt say where it is. This is
  what makes pruning harmless, since only files of the dead are removed.
* `ScansAreSound`: a scan reads listed tokens only, and a doorway that a waiting
  scan found absent stays absent (tokens are fresh, so doors are entered once).
  This is where the order "doorway, then ticket" of `lockOwners` is needed.
* `ClearedGoFirst`: if the waiting attempt `a` has read `b` and was not blocked, then
  `b` has not listed yet, or will still see `a`'s ticket, or has a larger one.
* `AheadStayAhead`: the same for attempts that had left the doorway when `b`
  entered it.

Two attempts that are both `held` have cleared each other, so each ticket would
be smaller than the other. The proof has a lemma per conjunct, in it a step per
action. `LockIsLock` follows: a step changes the set of holders only when one
attempt takes what nobody has, or when the holder leaves or dies.

**Surface content.** Assumed (`ContentAssumption`): runs, publication keys and `None`
are distinct, `None` is no batch and no revision, candidates are revisions. That
files and heads agree is not inductive, since an apply is in between for a dozen
steps. `ContentInv` says what it is in between:

* `IntentsSound`: at most one apply is interrupted; until its fact is there nobody
  has moved its surface, which is still at the batch's base; then it is at the
  candidate. This is what recovery before every body gives, and why finishing
  another's apply is safe.
* `PendingApart`: two pending runs touch no common surface.
* `TxSound`: what the holder of the lock has established at its stage, above all that
  nothing is left of others when its own work begins.
* `FilesSound`: of a surface that no editor has saved to, the directory is the base,
  between base and candidate, or the candidate, as receipts and projections say.

The steps are first reduced to a dozen kinds of change of the disk (`ContentStep`);
each conjunct is then proved over those. For `ImplementsHeads` the holder of a
surface is the one pending run that touches it, which `PendingApart` makes unique.

**Managed edits.** Assumed (`EditAssumption`, `ImportAssumption`): proposals are of
files and contents, and `None` is neither a caller, an answer nor a change.
`ItemsSound`: an id has one durable record at most, of what its caller wanted, and
one record at most is pending. `Quiet`: while no editor has saved, the directory is
the initial one with the durable edits carried out, but for files of the pending
one. `AnswersAreTrue` needs both: the answer "stale" is true because what is durable
shows in the directory. `ImplementsEdits` holds with editors, file by file: the
abstract directory changes when an intent becomes durable, and every rename after
that only brings the real one nearer.

**The orchestrator.** Assumed (`OrchestratorAssumption`): routes are of bound surfaces,
outputs are not host executions, a result is changes and effects of its surfaces,
`None` is neither a run nor a batch. `OrchestratorInv` adds to the properties

* `BatchesInOrder`: a batch is of an accepted input, all of whose predecessors are
  finished. With `MaxInputs` as the bound of a ledger, it carries `ImplementsQueues`.
* `BatchesApart` and `LeftHeldAlone`: one batch for an input; pending batches touch no
  common surface, nor one on which an interrupted apply was left, even by a run that
  was settled as failed. `PendingHoldsHeads` rests on the latter: an apply
  that recovery finishes late must not move the base of somebody else's batch.
* `WorkersReady`: what a drain has established when it comes to a stage, surface by
  surface; from it follow `ContentBeforeEffects` and `SettledMeansDone`.
* `EventsAreScoped`: an event of a batch has its registration's scope, so that the search
  for an event's id finds it there: `EffectsOnce`.

**Admission.** Assumed (`AdmissionAssumption`): built-in events are not produced by
orchestration or by session turns, and no source calls itself "builtin". `JobsSound`
says at each stage how the source that was read, the snapshot, the routes and the
record belong together; `RecordsSound` that of what was recorded. Contracts, pins
and records only grow (`RegistryGrows`), so what was authorized stays so, over
retirement too. `SoundOnesAreAdmitted` needs an invariant of its own, `StartInv`:

* `Alone`: while the host starts, nobody else synchronises.
* `JobsCurrent`: what a job has in hand of a directory that nobody touched is what the
  directory holds, so that a sound one gets past every check but that of the records.
* `Ahead`: a sound directory that nobody touched is admitted, or the start has yet to
  come to it. Records never change, so what was admitted stays so, and synchronisations
  of other callers come to the same verdict.

**The revision store.** Assumed: manifests name blobs (`ContentIsBlobs`), names
of manifests and blobs differ (`NamesAreDistinct`), what old facts name is
stored (`LegacyIsStored`), and `MinAge` is positive (`AgesAreNumbers`); and, in
the model itself, that snapshots take less than `MinAge`. `RootsWhole` is not
inductive: that a sweep spares a root depends on what the collection marked
before, and that a new pin is of something whole depends on what happened to its
snapshot. `StoreInv` adds:

* `ChainIsSerial`: one operation of the promise chain at a time, so the pins that
  an operation has read are those it replaces. From this and
  `CallsAreSound` follows `PinsStay`.
* `OwnAreYoung`, `SnapshotsArePrompt`, `CutoffIsPast`: what a snapshot has written
  bears a time after its beginning, which is after the cutoff of any collection it
  meets. The lemma `SweptIsOld` combines them: nothing that is unlinked was written by
  a snapshot under way, which is `OwnObjectsStay`.
* `SnapshotsHold`: what a snapshot has passed is there, unless it was deprived of
  something it reused (`exposed`).
* `ManifestsWhole`: a manifest in the store has its blobs, or lost one before its
  revision was a root: what a caller names without a snapshot, or reads back, is whole
  in this sense.
* `RootsAreMarked`: roots that were gathered before the collection had its turn,
  together with the pins it reads then, are marked, and pins wait for the chain.
  Facts do not: one that comes without its pin while the collection runs is spared if
  the collection does not take what it names (`SweepSpares`), and is `exposed` if it does.
* `VictimsAreFree`: what is listed for the sweep is old and belongs to nothing
  marked or retained.

The proof has a lemma per conjunct, and in it a step for each action.

**The engine.** Assumed: roles are bound to different surfaces and what happened before
happened without the registration (`EngineAssumption`), the definition passes
`validateDefinition` (`DefinitionAssumption`), which includes that its conditions are
valid, `None` is no activation and no message (`NoneAssumption`). Nothing is assumed of what a handler comes to from one run to the
next. `EffectsOnce` is not inductive: that a handler's second run does not leave an
operation of its first behind depends on what the job did at its beginning.
`EngineInv` says what a job knows:

* `JobSound`: while operations of former jobs are carried out, what is unsettled is
  among those in hand; past this recovery nothing is.
* `TrySound`, `SendSound`: within a try, of its own activation nothing is unsettled but
  the operation in hand, which is settled only after it has happened.
* `LeftSound`: activations still to try are open, have nothing unsettled, and are
  neither the one in hand nor one that failed; so what an activation that failed in this
  very job has left unsettled waits for the recovery of the next.
* `FailingSound`: the last failure of what has failed is newer than the last explicit
  "active", with the exception `repeated`; `RetriesAreAsked` follows.
* `RecordsSound`, `StreamsSound`: identities are unique in the records and in the
  streams, and every event of the registration is one of its recorded operations.

Beside `EngineInv`, and proved from it, stand the invariants of the other three
theorems; TLC checked those of `NothingIsMissed` on the instance of the `engine` run
before they were proved:

* `ReasonsSound`: what is opened, or is about to be, has the earliest evidence. Streams
  only grow at their ends, and a condition that came true with an event of a stream
  came true with the same event in every longer one. Sequences are
  evaluated by a recursive function (`Chain`), and no installed prover can use an
  induction theorem whose parameter is an operator. The proofs show instead that the
  function which satisfies the equation exists, and look at the least position at which a
  claim about it would fail (`LeastPosition`). `EvidenceStaysEarliest` follows.
* `PlansSound`: what a handler asks for and what is recorded goes to the roles its
  reaction declares. With `ReasonsSound`, with `RecordsSound`, and with the lemmas that
  compare the inspection's evaluation of a condition with the engine's,
  `InspectionIsTrue` follows.
* `OwedSound`: what is opened, and neither settled nor failed since it was last
  resumed, waits for a reconcile that is queued, or the job under way will try it.
* `Beginning`: the first reconcile of a new registration is ahead of every other until
  it has run, so events that come before it are read by it.
* `DueOpened`: while no reconcile waits, whatever is due is opened, or the job under
  way has yet to read it or has it in hand.

The last three give `NothingIsMissed`. `QuietHasReacted` is the half of `Reacts` that
needs no fairness, and it is stated by when conditions are true, not by how the engine
evaluates them: when an active registration is idle, every condition that came true for
a key, and every event that is selected, has its activation, which is settled or has
failed and was not resumed since. Its exceptions are those of `Reacts`: a line that is
torn, an event or an error that no reconcile follows yet (`missed`), a registration that is not active,
and a failure repeated with the same message over a resume (`repeated`).

A lemma for each action; lemmas that they share say what the append of a record
changes (`RecordAdded`, `RecordSays`, `Written`) and that positions in order list a
finite set, each member once (`InOrderLists`).

**Sessions.** Assumed (`SessionsAssumption`, `OutputAssumption`): the brief of a followup
agrees with itself, a restart's notice is not a followup's nor another restart's, no
session is `None`. `SessionInv`: the index in memory is the binding on disk, and a
session that is live or has a log is bound (`BindingSound`); a message is in a log
only after its brief was on disk (`LoggedSent`), so briefs of logged messages
never change and neither do the grants that follow from them; a followup is taken
after all of its receipts (`TakenLast`), so it is never taken twice unless recovery
sent it again; and a log never has more ends than starts (`LogsSound`), also when a
crash cuts it, which is why the turn that is open is well defined. Deliveries, the
admission and the recovery have their stages. What has passed the check of an output
was agreed on by the messages that the log had then; a log only grows while its host
lives, and a restart ends the output, so `EmitsAreGranted` stays true of that prefix.

**Only model-checked**, and why:

* liveness (`EveryWaitEnds`, `IntentsFinish`, `DeliveredInputsFinish`, `Reacts`,
  `QueuedRuns`): fairness and `ENABLED` are out of the prover's reach. Of `Reacts`, the
  safety half is proved (`NothingIsMissed`): what TLC adds is that the engine becomes idle;
* `SettledOnce`, `EndedWasShown`, `RendersFollowRevision`, `RequiredHolds`
  (`ContextFacts`): they compare folds and selections (`SelectSeq`) of a log before and
  after it grows or is cut. What these compute for every log needs induction over data,
  and the prover has no definition of `SelectSeq` that it could look into.

## 5. Plan

Proofs: what is left is `ContextFacts`. It would have to say by functions on positions
what it now says by folds and selections of the log, as the conditions of the engine do.
Lemmas that two proof modules state on their own (positions in order, in `EngineProofs`
and `SurfaceSessionsProofs`) could be shared.

Models: two registrations of the engine that feed each other; an emission that
falls through to the v4 stream; torn lines in the code-first stores, if an append
becomes two steps there; the settings and the queries of the service only if they come to
change what a turn may do.
