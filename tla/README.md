# common-agent in TLA+

A formal model of common-agent: TLA+ modules translated from its source, Python
under `src/backend/src/common_agent` and TypeScript under `src/frontend/src`, TLC
configurations that check them on small instances, and theorems proved with TLAPS.
Paths below are relative to the first directory, those of `.ts` and `.tsx` files to the
second, unless they begin with `src/`. `PROJECT.json` names, for every
definition, the lines it stands for.

common-agent is a platform on which "employees" (LLM agents with tools, knowledge
bases and workflows) hold conversations. API processes accept requests and write
them to MySQL; independent Worker processes take durable tasks from the same
database and run the agents; clients follow an append-only event journal. The
database is the only thing the processes share, so its rows, named locks and
unique keys are all that orders them.

## Modules

| module | what it is | code |
|---|---|---|
| `TaskLifecycle` | abstract: what the queue promises its callers | contract of `tasks/ports.py` |
| `TaskQueue` | rows of `durable_tasks`, one operator per statement | `adapters/persistence/tasks.py`, `tasks/models.py` |
| `TaskWorker` | Worker processes, slots, heartbeats, guards, over those rows | `tasks/worker.py`, `worker_app.py`, `adapters/persistence/locks.py`, `concurrency.py` |
| `MCTaskWorker` | instances of it | |
| `TaskWorkerProofs` | theorems about `TaskWorker` | |
| `ReplyLifecycle` | abstract: what a conversation promises its followers | `domain/conversation.py`, `src/backend/README.md` |
| `ConversationReply` | API requests and reply handlers of one conversation | `conversations/*.py`, `domain/conversation.py`, `adapters/persistence/conversations.py` |
| `MCConversationReply` | instances of it | |
| `ConversationReplyProofs` | theorems about `ConversationReply` | |
| `EventStream` | abstract: what the journal promises the followers of a stream | contract of `events/ports.py` |
| `EventJournal` | appends, followers and recovery scans of one stream | `adapters/persistence/events.py`, `conversations/events.py`, `api/sse.py` |
| `MCEventJournal` | instances of it | |
| `EventJournalProofs` | theorems about `EventJournal` | |
| `WorkflowRuns` | one workflow run: API, worker, stop, waiter | `application/workflow_runs.py`, `workflow_run_projection.py`, `domain/workflow_run.py`, `workflows/*.py` |
| `WorkflowRunsProofs` | theorems about it | |
| `ResourceMutations` | requests that add or remove references, their locks and connections | `application/resource_*.py`, `employees/service.py`, `model_configurations/service.py`, `adapters/persistence/*.py` |
| `ToolCatalog`, `ToolCalls` | the tools of a tenant; the tools of one agent turn | `tools/*.py`, `adapters/persistence/{tools,managed_http,external_mcp}.py`, `adapters/agent/platform_tools.py`, `adapters/mcp/*.py` |
| `ToolCallsProofs` | theorems about both | |
| `AuthSessions` | accounts, login attempts, sessions | `auth/*.py`, `adapters/persistence/auth.py` |
| `AuditTrail` | audited requests and their hash chains | `audit/*.py`, `adapters/persistence/audit.py`, `api/audit.py` |
| `KnowledgeBases` | ownership of RAGFlow datasets and their documents | `knowledge/*.py`, `adapters/knowledge/ragflow*.py` |
| `RagFlowIdentities` | the initialisation of a tenant's RAGFlow account | `knowledge/ragflow_identity.py`, `adapters/security/ragflow_identity.py` |
| `WorkflowGraphs` | the validator, storage and execution of a graph | `workflows/validator.py`, `adapters/workflow/langgraph/*.py`, `adapters/persistence/workflows.py` |
| `WorkflowDesigner` | the editor of graphs and its saves | `features/workflows/*` |
| `EventBroker` | the brokers that keep events in memory | `conversations/events.py`, `workflows/events.py` |
| `ChatScreen` | a conversation in the browser | `features/chat/*` |
| `UploadQueue` | the queue of documents in the browser | `features/knowledge-bases/*` |
| `PagedList` | lists read page by page | `pagination.py`, the repositories' lists, `api/pagination.ts` |
| `Lifecycle` | a process from its start to its end: what it opens and closes | `api/app.py`, `worker_app.py`, `lifecycle.py`, `adapters/model/resolver.py` |
| `Services` | the instances of seven of these: `ResourceMutations`, `AuthSessions`, `AuditTrail`, `KnowledgeBases`, `RagFlowIdentities`, `EventBroker`, `Lifecycle` | |
| `ServicesProofs` | theorems about them | |
| `Screens` | the instances of the four in the browser | |
| `ScreensProofs` | lemmas about them | |
| `Platform` | all thirteen from `WorkflowRuns` on, one at a time | |
| `PlatformProofs` | theorems about it | |
| `MCPlatform` | an instance of it | |

`TaskWorker` EXTENDS `TaskQueue` and is shown to implement `TaskLifecycle`.
`ConversationReply` is built on `TaskLifecycle` by INSTANCE: it uses of the queue
exactly what `TaskWorker` was shown to provide, and nothing of leases' clocks or
slots. `ConversationReply` in turn is shown to implement `ReplyLifecycle`. Its
journal is a set of keys, because a reply depends on what was appended and not on
numbers or retention; `EventJournal` is the other half: one stream of that journal,
whatever is appended, and its readers. It is shown to implement `EventStream`.

```
  TaskLifecycle <-- implemented by -- TaskWorker -- EXTENDS --> TaskQueue
        ^
        | INSTANCE
  ConversationReply -- implements --> ReplyLifecycle

  EventJournal -- implements --> EventStream

  WorkflowDesigner -- EXTENDS --> WorkflowGraphs
  ToolCalls -- EXTENDS --> ToolCatalog
  Services -- INSTANCE --> ResourceMutations, AuthSessions, AuditTrail, KnowledgeBases,
    RagFlowIdentities, EventBroker, Lifecycle
  Screens -- INSTANCE --> WorkflowDesigner, ChatScreen, UploadQueue, PagedList
  Platform -- EXTENDS --> Services, Screens
           -- INSTANCE --> WorkflowRuns, ToolCalls (with their modules of proofs)
  MCPlatform -- EXTENDS --> Platform
  PlatformProofs -- EXTENDS --> Platform, ServicesProofs, ScreensProofs
```

## Inventory

For each part: what it keeps, what it does, how it meets the others, what is hard
about it, and what makes it correct.

**Durable task queue** (`tasks/models.py`, `tasks/ports.py`,
`adapters/persistence/tasks.py`). Keeps one row per task: status, attempts, lease
owner, token and end, time it becomes available, stop flag, error. Operations:
enqueue (idempotent by a unique key), claim, heartbeat, request_stop (by task or by
aggregate), complete, fail, cancel, retry. Called by API transactions and by
Workers. Hard: an expired lease can be renewed or taken over; a claim that crashed
on the last attempt must stay claimable; stop requests cross all of this. Correct
when attempts and leases agree, only the newest lease settles a task, and a
requested stop is not lost. *Modelled.*

**Worker pool and execution guard** (`tasks/worker.py`, `worker_app.py`,
`concurrency.py`, `adapters/persistence/locks.py`). Keeps, per slot, the claimed
task and a snapshot of its attempts; per process a keyed lock; per session a MySQL
named lock. Operations: claim, enter the guard, confirm the lease, run, beat,
report; cancel on a lost lease; end the whole pool when one slot raises. Hard: a
slot can wait for the guard longer than its lease; the session of a guard can be
dropped under a running handler; conversation handlers wait for workflow runs
that need slots of their own. Correct when a task has one handler at a time, a
handler starts only with a live lease and every known stop, reports are fenced,
and every task is settled. *Modelled.*

**Conversation replies** (`conversations/turns.py`, `durable.py`, `runtime.py`,
`projection.py`, `persistence.py`, `domain/conversation.py`,
`adapters/persistence/conversations.py`). Keeps messages with a status and text.
Operations: send, create, retry, stop, execute (load, recover, begin, stream,
settle). Hard: no statement locks a message row or conditions on the status it
replaces; message and event are committed by different transactions; deliveries
are at least once while tools have side effects. Correct when a conversation has
one active reply, a completed text is one delivery's work, a tool does not run
twice, message and task agree when both have ended, and the end is announced.
*Partly modelled:* deletion, rename, model selection, pagination and the inline
mode (no task queue) are left out.

**Event journal and streams** (`conversations/events.py`,
`adapters/persistence/events.py`, `events/ports.py`, `workflows/events.py`). Keeps a
per-stream sequence of events with unique keys; retention removes old ones;
subscribers poll from a position. Hard: equal payloads share a key; capacity;
a gap opened by retention while a follower reads; a bounded queue per subscriber
in the in-memory broker. Correct when a follower sees a prefix-closed, gap-free,
ordered sequence or is told that it cannot. *Partly modelled:* one durable stream
with its appends, followers and scans, and the whole in-memory broker; the limit of
subscribers of the durable path is left out.

**Workflow runs** (`application/workflow_runs.py`, `workflow_run_projection.py`,
`domain/workflow_run.py`, `adapters/persistence/workflows.py`). Keeps a run and its
nodes. Operations: submit, execute, project node events, stop, retry, wait. Hard:
the API writes STOPPED while a Worker reads, changes and writes the same run; a
caller polls a run without a limit. Correct when a terminal run stays terminal,
nodes end with it, and every waiter is released. *Partly modelled* (`WorkflowRuns`; the
nested wait also in `TaskWorker`): the in-process mode is left out.

**Workflow definitions** (`workflows/validator.py`, `application/workflow_service.py`,
`adapters/workflow/langgraph/`, `adapters/persistence/workflows.py`). Graphs of nodes and
edges, stored as rows with ordinals. Operations: validate, create, update, delete, run.
Hard: the checks together must mean "a row of nodes from start to end", and storage must
give back what was stored. *Partly modelled* (`WorkflowGraphs`; deletion in
`ResourceMutations`): node functions are the steps of `WorkflowRuns`.

**Resource deletion and mutation locks** (`adapters/persistence/resources.py`,
`application/resource_deletion.py`, `resource_locks.py`). Named locks, one database
session each, keep deletion and new references apart. Hard: some references are JSON or
live in another system, so no foreign key protects them; a request holds several sessions
of one small pool. Correct when no reference to a deleted resource is ever committed
and every request ends. *Modelled.*

**Employees, model configurations** (`employees/service.py`,
`model_configurations/service.py`). Rows edited under the locks above. *Partly modelled*
with them: connection checks and secrets are left out.

**Knowledge bases** (`knowledge/service.py`, `adapters/knowledge/ragflow.py`). RAGFlow keeps
datasets and documents; the platform keeps who owns them. Hard: a call without an answer
may be carried out later; the default tenant adopts what nobody owns. Correct when no
dataset is left without its owner and an answer that says no means no. *Partly modelled:*
retrieval and chunks only read.

**RAGFlow identities** (`knowledge/ragflow_identity.py`). An account per tenant in
RAGFlow, initialised in steps by any process. Correct when initialisations that were
broken off converge. *Modelled.*

**Tools, credentials, MCP** (`tools/*.py`, `adapters/persistence/{tools,managed_http,external_mcp}.py`,
`adapters/mcp/external.py`). Sources, capabilities, collections, grants; synchronisation
with a server between two transactions; calls with two audit records each. Hard: edits
beside a synchronisation; calls whose effect nobody knows. Correct when what a source
offers is what its present endpoint listed, and an unknown result is not repeated.
*Partly modelled:* OpenAPI import, requests, egress rules and encryption are data or I/O.

**Authentication** (`auth/service.py`, `adapters/persistence/auth.py`). Accounts, recovery
codes, login attempts, sessions. Hard: passwords are verified between two transactions.
Correct when a reset ends every session and the lockout cannot be raced past. *Partly
modelled:* hashing and password rules are data.

**Audit log** (`audit/models.py`, `adapters/persistence/audit.py`, `api/audit.py`). Hash
chains appended by concurrent requests, read and verified meanwhile. Correct when what
was done is recorded, and a check never finds a break that is not there. *Modelled.*

**Web client** (`features/*`). The designer, the conversation screen, the upload queue,
lists: each a state put together from fetches, events and answers in any order. Correct
when the screen shows what is stored once everything has arrived. *Partly modelled:*
forms, routing and the sign-in page are left out.

**Start and end of a process** (`api/app.py`, `worker_app.py`, `lifecycle.py`,
`adapters/model/resolver.py`). The API server and the worker open about a dozen parts in
order, hand some of them on to others, which then close them, and close the rest when
they end. Hard: each step of a start may raise, and so may each closing. Correct when all
that was opened is closed, once, and nothing before what uses it. *Modelled* (`Lifecycle`).

**HTTP API, settings, backup, model providers.** Routing, wording and I/O; the
operations behind them are the actions of the other parts. Of the settings, the bounds
on attempts, leases, slots, failures and chains appear as assumptions on constants. *Not
modelled* but for the audit middleware, the event streams and the model resolver.

## TaskWorker

| code | model |
|---|---|
| a row of `durable_tasks` | `rows[t]`, a record of `Row` |
| `lease_until`, `available_at` | `lease`, `wait`: ticks left, so time needs no bound |
| the uuid lease token | `epoch`: the n-th token of a task is n |
| a coroutine of `TaskWorkerPool` with its `DurableTask` | `slots[s]` |
| `GET_LOCK` session of a task | `dblock[t]`; `unguarded` when it was lost |
| process-local `KeyedLockPool` | `LocalGuardFree`, derived from the slots |
| one transaction of the queue | one operator from row to row in `TaskQueue` |

Each queue operation locks its row and commits once, so it is one step. Enqueue
reads and then inserts, but the unique key makes the pair atomic. `run_once` is cut
where it awaits: `Poll`, `Enter` (guard and confirming heartbeat), `Beat`,
`HandlerEnds`, `Report`. A slot whose heartbeat finds the lease gone cancels its
handler, which may still end normally (`HandlerEnds` from `unwind`) or unwind.
`Crash` is also the pool's own end: one slot's exception cancels all of them.

Faults, at most `MaxFaults` in a behaviour: a process dies; a heartbeat raises; a
process stalls past a lease; a guard's session is dropped. Without a fault the clock
does not pass the end of a lease that is being renewed (`HeartbeatDue`), since
settings require heartbeats well within the lease.

### Properties

- `WaitingHasBudget`, `FailsOnlyExhausted`: the worker decides by the attempts its
  claim returned, the queue by the row; they never come to disagree.
- `OneExecution`: two handlers of one task only in different processes, and only
  after a guard session was lost. An expired lease is not enough.
- `StartsOwnedAndInformed`: however long the guard took, a handler starts under the
  newest lease and knows every stop requested so far.
- `FencedReports`: a task leaves running only by the newest lease's report.
- `StopIsKept`: through retries and takeovers.
- `ImplementsLifecycle`: refinement of `TaskLifecycle`, with `phase` from the status,
  `tries` from attempts and `lease` from the epoch.
- `EventuallySettled`: liveness, under faults and with nested workflow runs.

### Runs and bounds

`worker_faults`: one task, three slots in two processes (so both a local and a
remote competitor), two attempts (a first and a last one), leases of two ticks,
three faults: enough for a takeover of a takeover while the first claimant still
waits for the guard. Tasks share nothing but slots, so one task suffices for all
but starvation. `worker_nested`: two conversations that each await a workflow run,
one slot per kind and one fault: with shared slots both could be taken by waiting
parents (the run fails then). `claim_batch_size` is at least 2, so each kind has a
slot. `CHECK_DEADLOCK FALSE`: once every task is settled the workers only poll.

### Fairness

Weak fairness of the steps of a slot: coroutines that can proceed do. Strong
fairness of claiming each task: the claim is ordered by `available_at`, so an older
task is not passed over for ever though other tasks take the slot in between. Weak
fairness of handlers ending: each of their calls has a timeout, except the wait for
child runs, which is why a handler with unsettled children need not end unless it
is stopped. Weak fairness of the clock. Nothing is assumed of the API or of faults.

## ConversationReply

| code | model |
|---|---|
| assistant `Message` | `messages[m]`: status, `text`, `stamp` |
| content | `text`: the deliveries whose deltas are in it |
| `updated_at` | `stamp`: the delivery that made the last change |
| durable task of a turn | `phase`, `tries`, `lease` of `TaskLifecycle`, plus `stop` |
| its payload's assistant message | `target[t]` |
| `DurableConversationExecution.execute` and the generator under it | `handlers[t]` |
| a request between two awaits | `requests[r]` |
| `event_journal` rows of the conversation | `journal[m]`, a set keyed by payload |
| side effects of tools | `runs[t]`: the deliveries that ran one |

A change to a message is `Read` (a copy is loaded and changed), `Write` (the copy is
written back by id, unconditionally) and `Publish` (the event, in another
transaction), each a step of its own. `purpose` says who is persisting and so what
follows; `OnEnded` is what becomes of each of them when the message ended meanwhile.
`Load` covers `execute` up to its `try`; `Raise` sends an exception to whoever
catches it there: the runtime, the attempt, or the worker, which differ.

What the agent runtime yields is external: it may yield any event in `Yields` that
its own contract allows (`MayYield`): it ends with one of three events and never
leaves a tool call open. A delivery makes at most one tool call. Consecutive deltas
of a delivery fuse, because text is a set.

Requests: `SendRead`/`SendCommit`, and a retry in four steps, because it looks at
the message, takes the process's lock for the conversation, prepares, and commits by
a read and a write. `RequestStop` sets the flag on the newest unsettled task. API
crashes need no action: a transaction that is not committed leaves nothing.

Faults: `Crash` (the handler is gone: its process died or was shut down, or its
lease was lost), `CancelStopped` (a handler cancelled for its lease still writes a
stop it knows of), `Raise` (any step). Slots are assumed sufficient.

### Properties

- `OneActiveReply`: although busy is read in one step and acted on in another.
- `CompletedIsWhole` (`reply_faults`): what a failed or crashed attempt streamed is not in the text.
- `ToolsRunOnce`: of all deliveries of a task, one runs a tool.
- `OutcomeAgrees`: a task succeeds only with a complete reply and is cancelled only
  with a stopped one.
- `MessageSettledWithTask`: when a task is settled, nobody is left to end its reply.
- `EndIsAnnounced`: the end is in the journal, though appended after its commit.
- `RepliesEnd`: liveness of both.
- `ImplementsReply`: refinement of `ReplyLifecycle`; blind writes never reopen or
  rewrite a reply that ended, replies are started one by one and in order.

### Runs and bounds

`reply_faults`: one message, two requests in two API processes, two attempts and
three faults of either kind at any step; safety. `reply_crash`: the properties that
an exception at the last attempt does break (below), under crashes only, with
liveness. `reply_retry`: two messages, one retry, two requests of one API process,
no faults and one attempt, so that every delivery is a turn's first; replies without
tools, since a tool event is published without changing the message. Three turns
fit: two that share a message (a retry) and two that do not (two sends) are both
reached. `CHECK_DEADLOCK
FALSE`: when all turns the bound allows are over, nothing is left to do.

### Fairness

A waiting task is claimed and an orphaned one is taken over when its lease runs out
(what `TaskWorker`'s fairness brings about, as its `EventuallySettled` shows); a handler
takes its next step; a tool returns. The runtime may talk arbitrarily long, but an
event that ends a tool call, or the reply, is not put off for ever: strong fairness,
because between two deltas the runtime is not asked for an event.

## EventJournal

| code | model |
|---|---|
| rows of `durable_events` of one stream | `rows`: number, key, time until which it is kept |
| `durable_event_streams` row | `next_sequence`, and `lock`: whose transaction has it `FOR UPDATE` |
| an append between two awaits | `appends[w]` |
| `occurred_at`, `retention_until`, `cleanup_now` | one `stamp`, read before the transaction |
| a client's EventSource | `url`: its address; `last`: its Last-Event-ID |
| `_stream_persistent` for it | `at` and `batch` |
| what the page took in | `heard[f]` |
| `_persistent_events` for a recovery | `scans[c]` |

An append is `Begin` (clocks are read), `TakeLock` (the stream's row is created if need
be, and locked) and `Commit`; what is between the last two is one step, since nobody
sees it before the commit and nobody else has the lock. `event_count` is recounted at
each append and read by nobody else, so the model has `Cardinality(Kept(w))` in its
place. A key that is still there returns its event; keys determine what is appended,
so the identity check never fails. `Abort` is a rollback or a death at any point.

A follower is the client and the generator that serves it: `Subscribe`, `Connect`
(resume position, check of bounds), `Poll`, `Send` (with the client's own check of the
number), `Drop`. A connection may be lost between two events of a batch. The scan of a
recovery takes the bounds once and then pages up to them.

### Properties

- `RowsDistinct`: although rows are removed and keys reused, no append meets a unique
  constraint, which no caller handles.
- `RetentionKept`: appends clean up with clocks read at different times before waiting
  for the lock, in any order; none removes an event early.
- `ScanFinds`: events expire and arrive under a scan that pages through numbers; what
  was there when it began and can be read when it ends was seen.
- `ImplementsStream`: refinement of `EventStream`. Numbers become visible in order, and a
  follower, whatever becomes of its connections, hears events once, in order, and
  passes only over numbers that retention has taken (`gone <- Gone`).
- `Delivered`: liveness; an event reaches a subscribed client, expires, or the client is
  told.

### Runs and bounds

`journal`: two writers (one may wait with an old stamp while the other commits), one
follower, one scan, three keys, up to three appended events and three ticks with a
retention of two: events expire before, between and after reads, and an event may
be out of date when it is committed. A capacity of two fills the stream; one row per
page makes both readers page. Followers and scans only read, so one of each suffices.
Writers and keys are symmetric. `journal_live`: one writer, two lost or closed
connections; two rows per page of up to three, so that a batch may be cut in the
middle and another follow it. `CHECK_DEADLOCK FALSE`: the bounds on
the clock and on events stop the model.

### Fairness

A browser reconnects by itself, and the generator polls and sends while its
connection lasts: weak fairness of `Connect`, `Poll` and `Send`. Nothing is assumed of
writers, of the clock or of scans.

## Platform and its parts

The thirteen modules below describe components that meet the others only through rows
nobody else writes, or not at all. `Platform` instantiates all of them, and one run,
`platform`, checks them: a behaviour is a behaviour of one component, chosen by
`part` in the initial state, while the variables of the others keep their initial
values. The state space is therefore the union of the components' state spaces, not
their product, and each property speaks of the behaviours of its own component
(`part = "..." =>`, or, for what holds of the others' initial values and steps that
change nothing of it, without that). Nothing is lost by it: no action of one module reads
or writes a variable of another. Instances are named with `WITH` where two modules use the
same name for a variable. A component that has a module of proofs is instantiated through
it, and so with its theorems.

Modules that are instantiated hold no ASSUME; each defines its assumption on its
constants (`...Assumption`), and `Platform` assumes all of them as `PlatformAssumption`.
`MCPlatform` gives the constants that are not simple values, and names the bounds, which
are repeated below. `CHECK_DEADLOCK FALSE`: in every part something bounded runs out,
after which nothing is left to do.

Fairness is stated for the two parts with a liveness property only. `RunsFairness`: the
worker takes its next step, which includes the takeover of an expired lease, and
the polling waiter looks again. `ResourcesFairness`: each request takes its next step;
the waits that can end without success have a timeout in the code (`GET_LOCK` with a
timeout, the pool's timeout), and those are steps of the request too. Nothing is assumed
of faults, of stop requests, or of whoever sends requests.

### WorkflowRuns

| code | model |
|---|---|
| row of `workflow_runs` with its nodes | `run` |
| its durable task | `task` |
| the Worker's handler between two awaits | `exec` |
| a stop request of the API | `stopper[s]` |
| events of the run's stream that tell of its end | `stream` |
| the workflow tool call that waits | `waiter` |

A change of a run is `ReadForChange`, `WriteChange` (the update is conditional on the status
it replaces) and `PublishChange`, three transactions. Between them the API may stop the
run, the worker may die (`WorkerCrash`), be cancelled for a lost lease (`Interrupt`) or meet
an exception (`StepRaises`), which is handled as the place where it is raised handles it.

- `RunsEndOnce`: a run that has ended keeps its row, whoever has read it before
  (`EndedRunStays`); a settled task tells the truth about its run (`OutcomeAgrees`); and the
  run's end is announced at most once (`EndAnnouncedOnce`) although a takeover announces it
  again (the key is the same).
- `EveryoneIsAnswered` (with `ResourceMutations`): whoever waits for a run is answered,
  unless some step raised. The exception is real: see the observations below.

Bounds: two nodes of which one calls a model, two attempts, one stop request, two faults.

### ResourceMutations

`present` and `refs` are the rows of employees, models, workflows, conversations and runs, and
the datasets of RAGFlow, with what they refer to. `handler[h]` is a request: the keys it
sorts, the process-local locks and named locks it takes one by one, each with a pooled
connection, what it reads, and its write. Foreign keys are checked where the schema has
them (`ForeignKeysHold`); the workflows of an employee are JSON and a knowledge base is a
dataset, so nothing but the locks protects these.

- `NoDanglingReference`: no stored row refers to a deleted one, although references are
  checked in one transaction and written in another.
- `EveryoneIsAnswered`: every request ends, though two of them, each with two locks, fill
  a pool of two connections; the pool's timeout breaks that.

Bounds: two requests of any two kinds, in one process or two, with two connections each;
one process death. Two requests are what it takes to race a deletion with an addition.

### ToolCatalog and ToolCalls

`ToolCatalog` keeps sources (with `updated_at` as a version), credentials, capabilities, a
collection, grants; `sync[y]` is a synchronisation or a deletion between its two
transactions. `ToolCalls` adds one agent turn: the tools it resolved, its calls with their
two audit records and their slot, and the tools with an unknown result.

- `ToolsKeepTheirWord`: a source that is ready offers only what its present endpoint
  listed, although the listing is fetched between two transactions during which
  administrators change the endpoint (`ReadyListsCurrentEndpoint`); no source is deleted from
  under a collection that has it (`CollectionKeepsItsSources`); after a request with an
  unknown result no other request of that tool leaves in the turn (`UnknownIsFinal`).

Bounds: an external, a managed and the platform's source; two edits beside a
synchronisation; two calls with one slot.

### AuthSessions

Accounts, recovery codes, attempts, sessions, and requests cut where they verify or hash a
password. A request reads the clock once, so it may write with an old time.

- `SessionsAndLocks`: a session that answers was stored after the last reset of its
  account's password; an account or address is locked exactly when the failures of its
  window have reached the limit, however requests with older and newer clocks interleave.

Bounds: two requests, a limit of three failures (one request alone cannot reach it), a
window and an idle time of one tick and an absolute one of two.

### AuditTrail

Requests write an intent, do what they do, write the outcome; each is an append to the
chain of its scope under that chain's head row. A verification and a reader of pages run
beside them; their reads are separate statements of one snapshot or of several, as in the
code.

- `AuditTrailIsWhole`: what is audited does not happen without a record; no check of a
  chain that is being written to finds it broken; no page is torn.

Bounds: two requests, chains of at most two events and pages of one, one failure.

### KnowledgeBases

`dataset` and `document` are RAGFlow's, `owner` is the platform's table, `request[r]` is a
request with the call it has sent: the call is `sent` until RAGFlow carries it out or
refuses it, also after the request has given up waiting or its process is gone.

- `ReleasedWhenGone`: an ownership is given up only when its dataset is gone.
- `AnswersAreTrue`: an answer that says no left nothing behind; what was created is owned;
  what was deleted is gone; only the default tenant's creations are ever undone.

Bounds: two requests of any kinds, three datasets: a tenant's, one the default tenant has not
adopted yet, and one to be created.

### RagFlowIdentities

`identity` is the row, `account` what RAGFlow has, `ensuring[p]` where a process is in the
initialisation, `lock` the named lock, `active` the current key of the keyring.

- `RetriesConverge`: however often an initialisation is broken off and begun again, by
  whichever process and with whichever key, the account opens with the reserved row's
  password (or still has its old one), an active row's account is configured and its
  token is one of the account's, and no attempt leaves a token the next does not take.

Bounds: two processes, a tenant with an account from before and one without, one key
rotation, one failure.

### WorkflowGraphs and WorkflowDesigner

`WorkflowGraphs` has no variables: `Issues` is the validator, `WorkflowRow` and `ToDomain` the
storage, `Run` what the compiled graph does. `WorkflowDesigner` adds the editor, the saves
under way (two requests each), what is stored, and a client that posts any graph.

- `ValidatorIsExact`: over all graphs of up to four nodes and three edges, with repeated
  identifiers, loops, dangling and doubled edges, the validator passes exactly the rows
  of nodes from the one start to the one end, and passes the references of such a graph
  exactly if its run visits every node and ends with an output. `IsChain` is the
  reference definition, `Run` the compiled graph.
- `ScreensTellTheTruth`: no edit brings in disorder the editor could have kept out (how large
  the graph grows it leaves to the validator), and an editor that says "saved" shows what is
  stored, read back from its rows, unless two saves were under way at once (`overlapped`
  records that) or an answer was lost.

What is stored at first (`Stored0`) was made by the designer: `IsDesigned`.

Bounds: an editor of three nodes, three edits, one save at a time, one failure.

### EventBroker, ChatScreen, UploadQueue, PagedList

`EventBroker`: the states, histories, subscribers and queues of a process that keeps events
in memory. `StreamsAreWhole`: a stream yields every event since the position it asked for, or
a notice that it does not, through overflow, expiry, eviction and close; `Since` is what the
history has after a position. Two conversations of which one has room, two subscribers with
queues of one.

`ChatScreen`: rows and events of a conversation, and what the browser makes of a snapshot,
a replayed stream and answers in any order. `ScreenIsCurrent` (in `ScreensTellTheTruth`): when it
has every event, it shows the messages as they are stored. One turn, two incidents.

`UploadQueue`: items, calls, listings. Calls are counted, no file is uploaded twice, the end
of its parsing is asked for. Two files, one call at a time, one lost answer.

`PagedList`: rows with times, cursors, pages. `ListsAreWhole`: of the rows that stayed where
they were none is missing from a list and each comes in its order, for three orders; a row
that comes twice is shown at the first of its `Places`. Three rows, two times, pages of one.

### Lifecycle

`server` is the process with its kind (API or worker), its mode (real or demonstration) and
the steps of its start that are done; `open` what it has opened, `models` the adapters of its
resolver, `cleanups` what `finally` and the parts it closes still have to close, `closed` what
has been closed. `Steps` is the order of a start, `Cleanups` the order of `finally`, `Given` what
a part closes itself because it was given it.

- `EverythingIsClosed`: whichever steps and closings raise, what a process opened is closed
  once when it ends, after all that uses it, and no failed start ends without an error.

Bounds: both kinds of process in both modes, two model adapters. Nothing else is unbounded.

## Where the code differs from what it says

Each of these is a run whose expected result is a violation.

1. `reply_last_attempt`: an exception while the last attempt is being prepared
   (loading, republishing, reading the tool journal) is outside `execute`'s `try`. The
   worker settles the task as failed and the message stays active for ever, so the
   conversation is busy for ever. `src/docs/development-roadmap.md:1647` says that such
   an exception persists a stable error code too.
2. `reply_two_apis`: `commit_retry` looks again at the status of its message but not
   whether another reply was started since, and the lock around both belongs to one
   API process. With two, a retry and a send give one conversation two active
   replies; `src/backend/README.md:94` says there is one.
3. `reply_reclaimed`: a worker dies after committing a stopped or failed reply and
   before reporting; the user retries; the old task is taken over, finds the message
   active and executes it too. The guard is per task and updates are not fenced, so
   the completed text mixes both turns.

4. `journal_gap`: a follower's stream looks for gaps when it starts and never again,
   and takes position 0 of a stream that has nothing readable as its beginning.
   Events that expire before the next poll are passed over in silence.
   `src/docs/development-roadmap.md:1651` says that missing sequences fail closed, and
   `src/docs/backend-architecture.md:854` that a gap at the retention boundary returns
   `event_history_unavailable`.

Other limits are visible in the models and have no run of their own. With
`MaxAttempts = 1` a takeover does not count as a repetition, so the tool journal is
not consulted and `ToolsRunOnce` fails; and an event journal that fails at the last
attempt leaves an ended reply unannounced, which is why `EndIsAnnounced` is checked
under crashes alone. The chat page always subscribes from 0, so
once the first events of a conversation have expired and later ones have not, it is
refused for good and lives on the message list (`told`).

### Observations without a run

Met while modelling; the models contain the behaviour, or exclude it and say so.

- *Workflow runs.* An exception outside the attempt's `try` on the last attempt leaves the run
  active and its waiters polling for ever (`application/workflow_runs.py:190`), which is why
  `EveryoneIsAnswered` excepts it. A stop that dies between its commit and its event is
  announced by nobody. Node events may follow the event of a stop. With one attempt a
  takeover does not restart the run.
- *Knowledge bases.* A listing by the default tenant between its creation's RAGFlow call and
  its claim adopts the dataset; the claim then collides, the dataset is deleted and the
  user told "not found", with an ownership left behind (`knowledge/service.py:191-222`). A
  listing beside a deletion can record an ownership of a dataset that is gone. After an
  upload, an unreadable answer to the second call is "invalid", not "unknown"
  (`adapters/knowledge/ragflow.py:383-391`).
- *RAGFlow identities.* A legacy adoption that is broken off before its first activation is not
  resumed (`knowledge/ragflow_identity.py:142-171`), although
  `src/docs/development-roadmap-v2.md:1009` says the first operation retries it. A token is
  sealed with the active key while its row names the reserved one.
- *Authentication.* A failure whose clock is older than the window's start violates a check
  constraint (`adapters/persistence/auth.py:236-291`). A reset whose clock precedes a new
  session's creation fails. A rehash after a login overwrites a reset that came between.
- *Audit.* Intents are written before the tenant is known, so the platform's chain head
  serialises all changes; two first appends of a scope may deadlock, and that error is
  not retried.
- *Tools.* The deletion of a managed source reads before it locks, and under REPEATABLE READ
  its later reference check sees the old view (`adapters/persistence/managed_http.py:192`).
- *Event brokers.* Numbers begin again at 1 when a state is dropped, so a client with an old
  position no greater than the new latest resumes in the middle. A refused resume
  makes a state younger without moving its timer.
- *Chat page.* A snapshot read before an event and arriving after it overwrites the newer
  message (`overtaken`; nothing is said afterwards). An EventSource refused when it
  reconnects is never tried again. Reasoning text is appended again when a conversation is
  opened again.
- *Upload queue.* A failed item retried while all slots are busy is set back to failed by the
  next listing that differs (`KnowledgeUploadQueue.tsx:95-114`). An equal listing runs no
  effect, so a document that ended before its upload was answered stays "parsing". An
  upload whose answer was lost may become two documents (`missed`).
- *Designer.* Two overlapping saves answered in the other order leave "saved" beside another
  graph; a late answer discards unsaved edits, although `src/docs/development-roadmap.md:1026`
  has them confirmed. The run has one save at a time.
- *Lists.* A conversation touched between two pages is missing until the next refetch; with
  offsets, a deletion between pages hides a row.

## Proofs

`TaskWorkerProofs` proves, for all tasks, slots, processes,
attempts, lease lengths, delays and faults, under the ASSUMEs of `TaskQueue` and
`TaskWorker`:

| theorem | statement |
|---|---|
| `TypeCorrect` | `Spec => []TypeOK` |
| `Invariance` | `Spec => []IInv` |
| `WaitingAlwaysHasBudget` | `Spec => []WaitingHasBudget` |
| `FailureAlwaysExhausted` | `Spec => []FailsOnlyExhausted` |
| `AlwaysOneExecution` | `Spec => []OneExecution` |
| `AlwaysStartsOwnedAndInformed` | `Spec => StartsOwnedAndInformed` |
| `ReportsFenced` | `Spec => FencedReports` |
| `StopAlwaysKept` | `Spec => StopIsKept` |
| `Refinement` | `Spec => ImplementsLifecycle` |

Typing. Every operator on rows and slots gets a lemma about its fields; typing of a
step is then a matter of which row and slot it replaces.

Steps. Three lemmas summarise all actions for the rest of the argument: what a step
may do to a row (`RowStep`: it is submitted, claimed, reported under its lease, or kept
but for renewal, ageing and a stop), to a slot (`SlotChange`: one that is not idle
afterwards kept its task or has just claimed it) and to a named lock (`LockChange`).

The inductive invariant `IInv` is `TypeOK`, `WaitingHasBudget`, `FailsOnlyExhausted` and
three facts they and the others need:

- `Snapshots`: a slot that holds the lease of its task remembers the attempts the row
  has. The budget properties are not inductive without it: a report decides by the
  slot's attempts, and only this ties them to the row's. It is kept because whatever
  changes a row's attempts also changes its epoch, and a slot with the old epoch does
  not hold the lease.
- `Guarded`: an executing slot holds its task's named lock or is marked unguarded, and
  no other slot of its process executes the task. `OneExecution` follows, a named lock
  having one holder.
- `AbsentBlank`: a row not yet submitted is blank. The refinement's `Submit` needs it (no
  attempts, no leases), and so does `StopIsKept` at submission.

`Refinement` maps each action to its abstract one: a poll to `Deliver` or
`Takeover` by the row's status, a report under the newest lease to `Requeue` or
`Settle` (by `Snapshots` its attempts are the row's, so a requeue has budget left),
everything else to a stutter.

`EventJournalProofs` proves, for all writers, followers, scans, keys and bounds and
under the ASSUMEs of `EventJournal`:

| theorem | statement |
|---|---|
| `JournalInvariance` | `Spec => []JInv` |
| `JournalTyped` | `Spec => []TypeOK` |
| `RowsAlwaysDistinct` | `Spec => []RowsDistinct` |
| `ScansAlwaysFind` | `Spec => []ScanFinds` |
| `RetentionAlwaysKept` | `Spec => RetentionKept` |
| `StreamRefinement` | `Spec => ImplementsStream` |

One fact carries the argument, the lemma `Fresh`: a step makes no number readable but
the one that was next, and only by giving it. `JInv` is `TypeOK` with

- `Ordered`: the transaction that holds the lock has the number that is next, stamps are
  not in the future, numbers of rows are smaller than the next, and `RowsDistinct`. The
  lock makes this inductive: without it two transactions would hold one number.
- `Follows`: a follower has heard all that is readable up to its last event, and its
  batch holds all that is readable up to each of its events. By `Fresh`, whatever anyone
  else does can only take readable numbers away below the next one, so it is kept;
  it is what makes `Send` a `Hear` of the promise.
- `Scanned`: the same for a scan, up to where it is and of the events there were when it
  began.

In `StreamRefinement` an append that adds an event is `Publish` (of an event that is gone
at once if its time is over by then), an event the client takes in is `Hear`, and every
other step is `Forget` or a stutter.

`ConversationReplyProofs` proves, for all messages, turns, requests, attempts, events and
faults, under `BoundsAssumption`:

| theorem | statement | also assumed |
|---|---|---|
| `RepliesTyped` | `Spec => [](TInv /\ TypeOK)` | |
| `RepliesGood` | `Spec => []RInv` | `MaxRetries = 0` |
| `CompletedRepliesAreWhole` | `Spec => []CompletedIsWhole` | `MaxRetries = 0` |
| `OutcomesAgree` | `Spec => []OutcomeAgrees` | `MaxRetries = 0` |
| `ToolsAreRunOnce` | `Spec => []ToolsRunOnce` | `MaxRetries = 0`, `MaxAttempts > 1` |
| `RepliesComeOneAtATime` | `Spec => []OneActiveReply` | `MaxRetries = 0` |
| `RepliesEndWithTheirTask` | `Spec => []MessageSettledWithTask` | `MaxRetries = 0`, no `"raise"` |
| `EndsAreAnnounced` | `Spec => []EndIsAnnounced` | `MaxRetries = 0`, no `"raise"` |
| `RepliesKeepThePromise` | `Spec => ImplementsReply` | `MaxRetries = 0` |

The assumptions are where the code itself draws the line. With a retry, two tasks may
write one message, and `reply_reclaimed` and `reply_two_apis` refute these properties.
An exception at the last attempt leaves a reply active for ever (`reply_last_attempt`). With
one attempt a takeover is not told from a first delivery, so a tool may run twice.

Without retries a message has one turn, hence one handler at a time, and what a handler
has read stays true while it works. `RInv` says so:

- `TInv`: types, and the shape a handler has at each of its places.
- `Linked`: message and turn belong together one to one.
- `InOrder`: a message is opened when those before it have ended, also by a request that has
  read but not yet committed. `OneActiveReply` follows, and that the promise's
  `Quiet` holds when a reply is sent.
- `Texts`: a pending reply has no text, a completed one that of one delivery.
- `GoodTurn`, of each turn: what its handler knows of the message at each place, and that
  a talking runtime's deltas are this delivery's (`Knows`: every later delivery restarts the
  text first); a delivery that may run a tool is the only one that did (`RanOnce`), because
  a tool is announced in the journal before it runs and every delivery but the first
  (`Charged`) looks there; settled tasks have their outcome on the message (`Settles`); and
  without exceptions the end is told before the task is settled (`Closes`).

In `RepliesKeepThePromise` a commit of a send is the promise's `Send`, a write is `Speak`,
`Restart` or `End`, and everything else a stutter.

`WorkflowRunsProofs` proves, for all workflows, stop requests, attempts and faults, under
`WorkflowRunsAssumption`: `RunInvariance` (`[]WInv`), `TasksTellTheTruth` and `EndsAnnouncedOnce`
(the two parts of `RunsEndOnce`), `EndedRunsStay` (`EndedRunStays`) and `RunsTyped`. The
conditional update carries it: once a run has ended, any other write finds the row changed.
`EndedRunStays` needs no more; the rest is what a worker may rely on between its transactions,
and `WInv` says for each of its places whether the run can have ended and, if so, only by a stop
(`Going`), what it is about to write (`Planned`), which nodes its own list has (`Listed`; a
completed run has all of them), and which events of the end are in the stream (`Knows`,
`Announced`): a worker publishes what the ended row says, whoever ended it, so the two
announcements of a stop have one key.

`ToolCallsProofs` proves, for all sources, capabilities, administrators, calls and slots, under
`ToolCatalogAssumption`: `CatalogInvariance` (`[]CatalogInv`), `ReadySourcesListTheirs`
(`[]ReadyListsCurrentEndpoint`), `CallInvariance` (`[]CallInv`), and the two parts of
`ToolsKeepTheirWord`, `CollectionsKeepTheirs` and `UnknownStaysFinal`; and `ToolsTyped`. In
`CatalogInv` a listing under way whose stamp is still the row's has asked the row's endpoint
(`Asked`): every write gives a later stamp, and a row created anew is not taken for the deleted
one. In `CallInv` a call that holds a remote tool holds it alone and the tool is not unknown
(`Locked`): it was let in when it was not, and only the holder can make it so.

`ServicesProofs` proves for the instances of `Services`, under `ServicesAssumption`, that the
inductive invariant of each holds at first and is kept by each of its steps, and that the
properties follow. `GuardInvariance` (`[]MInv`), `MutationsTyped` and `KnowledgeInvariance`
(`[]KInv`) are theorems of `Res!Spec` and `Kb!Spec`; the other invariants are used by
`PlatformProofs`.

- `MInv`, of `ResourceMutations`. `NoDanglingReference` alone is not inductive: the check and
  the write are two steps. A handler past its locks holds the key of everything its request
  names (`Guarded`), and a key has one holder (`Exclusive`); so what it has checked and no
  foreign key protects is still there (`SoFar`), since deleting it needs the key the handler
  holds; and what a deletion is about to remove at RAGFlow is referred to by nobody
  (`Unreferred`), since adding the reference needs the key the deletion holds. Employees,
  models and workflows need no such fact: their references are looked up again in the
  transaction that deletes them.
- `KInv`, of `KnowledgeBases`. A recorded owner is the tenant whose account the dataset is in
  (`Accounts`), so a call sent for an owner reaches the dataset while it exists, and one that
  finds nothing proves it gone. And a dataset that a request created is no other request's
  (`Apart`), so only the default tenant's listing can own it first. `SoundCall` says what follows
  for each place of a request, also for calls still on their way when the request has given
  up.
- `LifeInv`, of a process: what is open is what the steps done so far open (`Starting`,
  `Opened`), and while it closes, every open part is closed, or in the list of what is to
  be closed, or `Below` a part in it that will close it; and the list is in the order of
  `Place`, in which users come before what they use (`Pending`). What a part adds when it is
  closed (`Given`) is placed between it and the rest.
- `AccessInv`, of accounts and attempts: `UnrevokedIsRecent`, every session that is not
  revoked was stored after its account's last reset, whether or not its time is up: a fact
  about the rows that needs no clock, and `SessionsOutliveNoReset` follows.
  `LockedAtLimit` is inductive with the types of attempts, given that the first failure of a
  window never locks.
- `AuditInv`, of the chains: a head is the digest and the number of its chain's rows
  (`ChainsRight`), also in the snapshot a check has read (`CheckRight`); a digest that
  contains an event's is unchanged by what is appended, so what was recorded stays recorded
  (`RequestRecorded`, from which `ChangesAreRecorded`); who collided creating a chain finds its
  head the next time, so the third try is never needed (`FindsHead`); and a reader's cursor is
  the last sequence it was shown and lies within the chain (`ReaderRight`, from which
  `PagesAreWhole`).
- `IdInv`, of RAGFlow identities: what a process has read of its tenant's row and account
  stays true while others work on both, because a reserved row keeps its key and an account
  loses nothing (`Knows`); a row and its account fit together at every moment, also between
  two steps (`Fits`). That no token is made twice needs a count (`Counted`): who is about to
  create one, or is past the lock without holding it any more, is a creator, and tokens and
  creators together exceed one by no more than the locks that were lost. `LocksHeld` ties the
  lock to where its holder is.
- `BrokerInv`, of the in-memory broker: a history is the last numbers given (`Sound`), a
  subscriber has a stream from this very state and not from one of the same name that was
  dropped (`Members`), and what a stream has yielded, still replays and has queued is one row
  of numbers that ends at the state's next (`WholeStream`). Numbers after an overflow are
  not queued, and the notice stands in their place.

`ScreensProofs` does the same for the instances of `Screens`, under `ScreensAssumption`:

- `QueueInv`, of uploads. All but the number of calls (`RoomKept`) is a fact about one file
  (`FileInv`), so a step is proved for the file it is about. Item and call agree (`ItemFits`);
  while no answer was lost there is one document at most, and as soon as there is one, the call,
  the item or the page knows it (`OnceOnly`), which is why nothing uploads it again; a listing
  is the beginning of the documents (`IsListing`); and an item that waits is listed with its
  end, listed unfinished, or will be listed (`EndListed`, `WillBeListed`).
- `ChatInv`, of a conversation. A message's states have an order, `Version`. Nothing on the
  screen, in an event, a snapshot or an answer is newer than what is stored (`StoredIsLast`);
  what is stored is published or about to be (`Published`); and of the events the stream has
  brought none is missing from the screen, unless a snapshot was overtaken, nor from both the
  screen and the snapshot that is about to replace it (`EventsHeld`). With every event heard, the
  screen is neither older nor newer than the rows, so it is equal.
- `ListsInv`, of paged lists: `IsWhole` and `InOrder` for the pages on the screen and for
  those a refetch has gathered so far. A row's place in a list is the number of rows ahead of it
  (`RowPlace`), so a page holds the rows that come first of those behind its cursor, whatever
  has come, gone or moved since the page before.
- `DesignerInv`, of the editor: every graph that is edited, saved or listed is one that edits
  can make (`IsDesigned`), which is kept because a new identifier is greater than all used; such a
  graph comes back from its rows as it was. And of one save at a time (`OneSave`): its answer
  is what is stored (`AnswerIsTrue`), and when none is due, so is what an editor without
  changes shows and what a list has (`EditorIsTrue`, `ListIsTrue`).

`PlatformProofs` proves, for the platform as a whole and for all values of its constants,
under `PlatformAssumption`:

| theorem | statement |
|---|---|
| `RunsAlwaysEndOnce` | `Spec => RunsEndOnce` |
| `ReferencesNeverDangle` | `Spec => []NoDanglingReference` |
| `ToolsAlwaysKeepTheirWord` | `Spec => ToolsKeepTheirWord` |
| `AnswersAlwaysTrue` | `Spec => []AnswersAreTrue` |
| `ReleasedOnlyWhenGone` | `Spec => ReleasedWhenGone` |
| `EverythingIsAlwaysClosed` | `Spec => []EverythingIsClosed` |
| `SessionsAndLocksHold` | `Spec => []SessionsAndLocks` |
| `AuditTrailAlwaysWhole` | `Spec => []AuditTrailIsWhole` |
| `RetriesAlwaysConverge` | `Spec => []RetriesConverge` |
| `StreamsAlwaysWhole` | `Spec => []StreamsAreWhole` |
| `ScreensAlwaysTellTheTruth` | `Spec => []ScreensTellTheTruth` |
| `TypesAlwaysOK` | `Spec => []TypesOK` |

`PartOfStep` and a lemma for each component say that a step of the platform is a step of the
component whose turn it is and leaves the variables of every other as they are; so each
component behaves by its own specification. The inductive invariants and their steps come from
the modules of proofs: `WInv` from `WorkflowRunsProofs`, `CatalogInv` and `CallInv` from
`ToolCallsProofs`, the others from `ServicesProofs` and `ScreensProofs`.

`TypesAlwaysOK` is more than fields in their sets, because the types state what the tables'
check constraints and the limits of the code do, and of five parts that needs an invariant of
its own, next to the one above. The last three are proved in this module:

- `TypedInv`, of workflow runs (also `RunsTyped`): every row, stored or about to be written,
  passes the table's constraints. The nodes completed are a beginning of the workflow as long
  as where the worker is says (`Walks`), and a run's epochs are bounded by deliveries and
  faults (`Spare`).
- `CatalogRows` and `CallRows`, of tools (also `ToolsTyped`): a stamp and the listings under way
  are together at most one more than twice the edits (`Stamped`); a call has left no record
  before it takes its tool, and one before it ends (`Recorded`).
- `AccessRows`: no time in a row is later than the clock, and an attempt has counted at
  most one failure more than there are logins that are over (`Timely`).
- `ChainsFit`: no chain outgrows its capacity.
- `BrokerFits`: histories, subscribers, all subscriptions together and timers are within their
  limits (`Fit`, `Room`), whoever subscribes, leaves or is dropped.

Some assumptions are there because of these proofs. With a limit of one, the failure that
opens a window does not lock, so `LockedAtLimit` fails; `bootstrap/settings.py:259` asks for
three at least, and `AuthSessionsAssumption` for two. With a capacity of zero the first
event of a chain would exceed it, because the code compares only with a head that exists;
`audit/models.py:138` asks for a hundred, and `AuditTrailAssumption` for one. That rows and
files are finitely many, and that employees, models and knowledge bases have no identifier in
common, is what their being rows with UUIDs means. Codes and requests are finitely many, and
faults a natural number, because the types count them.

Checked by TLC only: the liveness properties (liveness under fairness is out of the proof
system's reach; `Refinement` covers the safety part of `TaskLifecycle`, and its liveness
conjunct is checked by the runs); `ConversationReply` with retries (`reply_retry`); and of
`Platform`, `ValidatorIsExact`. That the validator is exact for graphs of any size needs an
induction over paths; it is checked over all bounded graphs.

## Not modelled

- *Inline modes*: replies and runs executed in the API process without a task queue, and
  `recover_interrupted`, which no process calls.
- *Conversations*: deletion, rename, model selection. Message contents beyond whose deltas
  they hold; reasoning and tool-call lists.
- *Knowledge*: retrieval, chunks, the demonstration provider; a deletion whose effect comes
  after its lock was released; datasets deleted by others.
- *Resources*: a lock's connection dropped while it is held, for requests (for task guards it
  is in `TaskWorker`).
- *Tools*: OpenAPI parsing, HTTP requests, egress rules, encryption, test calls.
- *Authentication*: hashing parameters, cookies, the browser's sign-in page. One thing there
  is worth a model: several 401s each load the policy again, and a late answer can
  return a user who has signed in meanwhile to the login page.
- *Web client*: forms, routing, settings pages, presentation.
- *Start*: what a part does while it starts (migrations, seeds) but that it may raise.
- *Backup and restore*: an operator's command, one process, file I/O. *Model providers*: the
  HTTP requests; which adapters exist and who closes them is in `Lifecycle`.

## Plan

1. Replies with retries, proved: what `CompletedIsWhole` becomes when two tasks may write
   one message, under the assumption that no task is taken over after its reply ended.
2. Message contents beside the journal: two equal reasoning deltas share a key and the
   second is lost.
3. Conversation deletion against a running reply; the sign-in state of the browser.
