# MultiRAG in TLA+

MultiRAG answers questions from documents that it parses into chunks, runs
agents over them, offers them skills, and talks to users through chat channels.
This project models the four parts of it in which several processes share state
across systems that have no common transaction, checks them with TLC and proves
theorems about each of them with TLAPS:

* **document ingestion**: HTTP requests start, reset and cancel the parsing of
  a document, executors on other machines do the work, a poller aggregates
  their progress; the state of one document is spread over PostgreSQL, a
  document store and Redis;
* **task cancellation**: requests cancel an execution attempt through a binding
  and a flag in Redis and a row in PostgreSQL, while the attempt finishes;
* **skill publication**: leased workers build index collections, switch readers
  to them and clean up, with index calls that outlive the worker;
* **MCP interactions**: a remote tool asks the user for input in rounds, through
  forms in a chat, with leases for the delivery, the click and the resumed call.

## 1. Inventory

| Component | Source | State it keeps | Operations | Hard because |
|---|---|---|---|---|
| Ingestion requests | `api/db/services/document_ingest_service.py` | `Document` and `Task` rows, local undo information | `preflight`, `_operate` (start "1", reset "0", cancel "2", each with or without clearing) | gives the row locks up twice, compensates three systems, races other requests |
| Recovery journal | `document_ingest_recovery.py` | one Redis key per document; an advisory lock naming its live writer | prepare, create, update, clear, load, replay | crashes, lost answers, stale reads |
| Document history | `common/doc_store/document_history.py` | the chunks of the document | snapshot, delete, restore | not atomic |
| Image locks | `document_image_lock.py` | advisory locks on image keys | `image_write_locks` | lock order against row locks |
| Task service | `task_service.py` | task progress, cancel flags | planning, reuse, `get_task`, `update_progress`, `has_canceled` | writers from several processes |
| Task executor | `core/svr/task_executor.py`, `document_task_service.py` | the task in hand | collect, report, index, record, acknowledge | redelivery, stale work, crash anywhere |
| Source recovery | `document_source_recovery.py`, `document_status_service.py` | a durable record per task around the native insert | prepare, ready, retire | crash between insert and registration |
| Progress poller | `document_service.py`, `api/multirag_server.py` | none (reads, then writes later) | `get_unfinished_docs`, `_sync_progress` | acts on an old selection, rewrites `update_time` |
| Streams and locks | `core/utils/redis_conn.py` | stream, pending lists, distributed locks | add, read group, acknowledge, lock | redelivery, lock expiry |
| Task runtime | `core/utils/task_runtime.py`, `task_cancellation_service.py` | one binding per execution attempt, the cancel flag, the task row | register, cancel, restore, finish, report | Redis is written before the SQL commit; answers are lost; keys expire |
| MCP interactions, channel callbacks | `api/identity/mcp_interactions`, `api/channel_execution` | interaction, resume job and presentation per round, click receipts, leases | register, deliver, click, submit, resume, reconcile, expire | four kinds of process meet only in rows; a deadline; work that outlives its lease |
| Identity reconciliation | `api/identity/reconciliation` | targets, leases, generations | claim, observe, apply | lease against probe time |
| Skill worker and API | `api/skills/worker.py`, `service.py` | space, skills, versions, operations, generations, collections, files | install, activate, reindex, delete, retry; claim, publish, clean up, remove, sweep | leases, threads that cannot be cancelled, sweeps without locks |

How they interact: a request reads and locks rows, writes the journal, deletes
chunks, commits the rows, adds messages to the stream, clears the journal.
Executors learn of work through the stream, of cancellation through flags, and
of being superseded through the rows (the *fence*). The poller and executors
write the columns by which requests recognise their own rows. The hazards,
each at its line, are listed in `PROJECT.json` under `hazards`.

The components of the other three parts meet in rows that they lease. The
cancel requests meet an attempt in the binding and in the flag, which two Lua
scripts change together. The skill API writes operations that workers claim;
worker and readers meet in the space's active generation. A channel worker
delivers what the presentation rows say; a click becomes a receipt; a callback
worker turns it into a response of the interaction; a resume worker calls the
tool; reconciliation writes the outcome back into the presentation.

What makes them correct:

* rows never move under the request that planned from them;
* a chunk is written only for the document's current work;
* a cancel that was confirmed holds; a committed result is final;
* chunk ledger and stored chunks agree, or a journal can restore them;
* a failed request has undone what it did; a confirmed one is never undone;
* confirmed work always has a message, ends, and lets its document settle;
* no two requests wait for each other forever;
* no attempt succeeds after its cancellation was committed; a cancellation is
  visible to the attempt and belongs to a request that stands by it;
* readers of a skill space always find a complete index of exactly the versions
  shown as active; every operation ends; no collection is left behind;
* a tool that may run once runs once; interaction, job, form and message agree;
  every click and every interaction comes to an end the user learns of.

## 2. Modules

| Module | Models |
|---|---|
| `IngestState` | the state ingestion shares, its types, the fence, the aggregation of progress |
| `DocumentIngest` | one request: `preflight` and `_operate`, including journal replay and the exception handler |
| `TaskExecutor` | one executor process: `collect`, `handle_task`, `insert_source_chunks`, crash and restart |
| `IngestSystem` | the composition, the poller, initial states, fairness, requests alone and in sequence, all properties |
| `IngestSystemProofs` | locks and rows: the inductive invariant, types, what is fenced |
| `IngestCancelProofs` | who may take rows back to what: a cancel that was confirmed holds |
| `IngestLedgerProofs` | which chunks go with which rows, what requests undo and keep, what waits in the stream |
| `TaskRuntime` | one attempt, its binding, flag and row, and the requests that cancel it; the properties |
| `TaskRuntimeProofs` | the inductive invariant and the theorems |
| `SkillState` | rows, collections, files, threads and workers of one skill space |
| `SkillService` | the API: install, activate, reindex, the deletions, retry, edits of the space |
| `SkillWorker` | claim, heartbeat, publication: build, seal, switch, mark failed |
| `SkillCleanup` | clean-up after a switch, removal, the recovery of uploads, the sweep |
| `SkillSystem` | the composition, fairness, properties, the refinement mapping |
| `SkillCatalog` | the abstract specification: what readers of a skill space are promised |
| `SkillProofs` | leases: the inductive invariant, types, at most one publication |
| `SkillServeProofs` | what is served: its invariant and theorems, on top of the leases |
| `SkillCatalogProofs` | the proof that `SkillSystem` implements `SkillCatalog` |
| `InteractionState` | interaction, jobs, presentations, receipts, and the processes' views |
| `McpInteraction` | `submit_response`, and lease, call, complete, retry, pause of resume jobs |
| `ChannelPresentation` | forms and their delivery, clicks, the callback worker, reconciliation, expiry |
| `InteractionSystem` | the composition, fairness, properties |
| `InteractionProofs` | the inductive invariant and the theorems |
| `MCIngest`, `MCRuntime`, `MCSkill`, `MCInteraction` | instances for TLC |

### Correspondence: ingestion

There is one document. `sql` is its row together with its task rows as
committed; `sql.rev` stands for `update_time`, `sql.log` for the columns of the
task rows that only logs and timestamps distinguish. Both are compared for
equality only, so a value that nobody remembers may be used again (`Spare`).
`RevsAssumption` says that there are always enough: infinitely many, or more
than the rows, the journal and the requests can remember together. A task is
named by the request that created it and its page range, because a start always
creates fresh identifiers; a chunk by its page range and the parser
configuration, because chunk identifiers are content hashes. `lock` is the
holder of the Document-then-Task row locks, `guard` the holder of the
document's image locks. The row locks span several actions of a request; a
transaction that takes the locks and commits in one piece (progress reports,
aggregation) is one action enabled when `lock = None`.

A request's `pc` names the call `_operate` is about to make: every call to
PostgreSQL, the store or Redis that can fail or be interleaved is an action.
`op[o].orig` and `op[o].appl` are `original_doc`/`original_tasks` and
`applied_doc`/`applied_tasks`; `snap` is `snapshot`, `chg` `changed_store`,
`ack`/`unc` `acknowledged`/`uncertain`, `fl` `flags`, `jn` which form of the
journal the request last had confirmed, `rec` the foreign journal it loaded.
`pc = "except"` is the exception handler; `recover`, `recommit`, `relock` are
`_recover_locked_history`; `closing` is the `finally` block, in which the image
locks are already free and the owner lock is not.

A failing call (`Fault`) either did not happen, happened completely, or
happened in part, whatever the call in question allows; the answer is lost in
each case. A read that fails leads to the same handlers as the writes around
it. A crash (`CrashOp`, `CrashWorker`) loses local state and locks and keeps
SQL, store, journal, flags and stream.

An executor's `pc` names its next call in the same way; `stage` is what it is
about to report and `stop` the cancel flag it read before. A restarted
executor has the same consumer name and replays its pending entries first.

### Correspondence: task runtime

`kind` is one of the three attempts that exist: a canvas completion has a
binding and no row, a debug dataflow has both, a background task has a row
only. The Lua scripts are atomic and therefore one action each (`Cancel`,
`Compensate`, `Finish`). A cancel request holds the task row (`lock`) from its
first read to commit or rollback and compensates after the rollback, with the
row free. `cr[c].raw` is the binding it read. A request is its own nonce; `Mark`
is the plain "x" that the clean-up of a canvas run writes. A commit or a
`finish_runtime` that fails took effect or did not (`CommitFails`,
`FinishFails`). The scripts of a request run on threads that nobody can stop:
`CancelFails`, `CompensateFails` and `RequestCrash` end the request at once, with
its answer, and leave a script behind (`late_cancel`, `late_restore`) that runs at
any later time or never (`LateCancel`, `LateRestore`); `undone` says that a
restore ran after its request was over. `Expire` lets the binding lapse under a
running attempt.

### Correspondence: skills

One skill space. A lease is a boolean with an owner, because the code compares
times only to decide whether it still holds; `HeartbeatLate` ends the lease of a
worker that works on. Index calls run in `threads`: cancelling the worker does
not stop them, so each of them takes effect at any later time. A generation
becomes visible in one transaction (`SwitchCommit`), whose answer may be lost.
The sweep reads without locks (`SweepStart`) and drops later. A removal fixes the
versions it is about when it starts (`wk[w].ids`), and each of its calls names
them; `Awaited(w)` is the deletion a worker waits for. `published` counts
the switches of an operation and is history only. A publishing transaction can
outlive its lease (`HeartbeatLate`), because the code compares the lease with the
time at which the transaction began; it is then `Overdue`. `TimelySpec` consists
of the behaviours of `Spec` in which no sweep reads its list at such a moment
(`InTime`); the promises to readers hold in these.

`SkillSystem!Catalog` instantiates `SkillCatalog` with the mapping *open* = the
space is active, *usable* = skills not under deletion, *active* = the version
each skill shows, *serving* = the contents of the active generation's
collection, *applied* = operations marked done. Every step of API, worker and
thread is then a change of the catalogue or invisible (`ImplementsCatalog`).

### Correspondence: interactions

One interaction of at most `MaxRounds` rounds. Every transaction of the
repository locks what it reads, so each is one action; one that raises leaves no
trace. All rounds keep the first `expires_at`, so `late` is one fact. The clock
is taken after the locks, except in `reconcile`: a turn that read the time and
then waited acts as if it were not yet `late`, and what it leaves undone the next
turn does. Back-off times are left out: a row that
waits may be leased at any later moment. A nonce identifies a form; a click
with an old one changes nothing and is left out. Cancel and decline are one
answer ("refuse"). `Reconcile(r)` is one turn of the loop for one presentation;
at most one is active. `rc[e].why` and `calls` are history. Channel workers are
other processes that use the delivery routes; they are modelled by those routes.

### Simplifications

* One document, one attempt, one skill space, one interaction; one slot per
  executor process. Parsing, chunking and embedding are one step that may
  raise.
* Cancel flags do not expire (24 hours in the code), streams are not trimmed.
* The index exists (`document_index_exists`), the native insert is atomic, and
  the record around it is `none`, `open` or `ready`; `_recover_source_chunks`
  is left to a later module.
* The document-update path of `_operate` (`mutation_prepare`), the token
  ledger, the dataset's field map and the retrieval status are left out.
* `retry_count` is not state: nothing in the code increments it.
* Requests and clicks are one-shot and the systems may come to rest, so the
  runs do not check for deadlock; progress is stated by the liveness properties.
* Skills: batch deletions, idempotent replay of requests, the `index_state`
  column, ranking, and the size and content checks of packages are left out;
  sealing an upload is one transaction.
* Task runtime: authorization and the Document row that `cancel_task` updates
  together with the task are left out.
* Interactions: encryption, schema checks, and how a binding or an actor is
  resolved are left out (a refusal for such a reason is a possible outcome of
  the step); so is a receipt that cannot be decrypted.

## 3. Runs

The ingestion runs start from every initial document: new, queued, parsed, and
partly failed. `MaxFaults` bounds failing calls, `MaxCrashes` crashes,
`MaxTrouble` everything that can go wrong with skills. `skills` has `InTime` as
its action constraint, so that its behaviours are those of `TimelySpec`.

| Run | Instance | Shows |
|---|---|---|
| `requests` | 2 requests, 2 ranges, images, 1 fault, 1 crash | `RowsDoNotMove`, `CancelSticks`, `YieldsOnlyToRequests`, `RequestsEnd` |
| `recovery` | 3 requests in sequence; 3 crashes, or 1 fault | `HistoryRecoverable`, `ConfirmedIsKept`, `ErrorMeansUndone` |
| `execution` | 1 request, 1 executor, poller, 2 ranges, 2 configurations | `LedgerAgrees`, `DoneIsStored`, `ConfirmedWorkWaits`, types |
| `redelivery` | 1 request, 2 executors, poller, images, 1 crash | `FencedWrites`, `CancelSticks`, `DoneIsFinal` |
| `tasks_end` | 1 request, 1 executor, poller, 2 crashes of the executor once the request was answered | `ConfirmedTasksEnd`, `WorkSettles`, `QueuedTasksEnd` |
| `runtime` | 3 cancel requests, each kind of attempt, 2 faults | `CancelExcludesSuccess`, `CancellationIsVisible`, `CancellationHasOwner`, `AcknowledgedUnlessRestored`, types |
| `skills` | 2 workers, 2 operations, 1 skill of 2 versions, 3 generations, 1 trouble, behaviours of `TimelySpec` | `ActiveIsServed`, `IndexMatchesSkills`, `ServedHasFiles`, `PublishedOnce`, `ImplementsCatalog`, types |
| `skills_end` | 2 workers, 1 operation, 1 trouble | `OperationsEnd`, `OrphansGo` |
| `overdue` | as `skills`, with every behaviour of `Spec` | violates `ActiveIsServed` |
| `interactions` | 2 clicks, 2 workers of each kind, 2 rounds, 1 fault | `OneShotRunsOnce`, `ClaimedIsAccepted`, `DisownedOnlyAfterFault`, `RowsAgree`, `ShownIsTrue`, `EndIsFinal`, types |
| `interactions_end` | 1 click, 1 worker of each kind, 2 rounds, 2 faults | `CallbacksEnd`, `UserIsTold`, `InteractionEnds` |
| `replay_undoes_reset` | 2 requests, images, no fault | violates `ConfirmedIsKept` |

Why these bounds. Two page ranges let a submission, a deletion or a reuse be
partial; two configurations let a digest change, which matters where executors
store chunks; two requests are what a window
between two locks needs, and a third in sequence lets the second one's replay
fail and be repeated. Runs of requests alone have no executor because executors
do not touch the journal. Crashes of executors while a request is still at work
are part of `redelivery`. A cancellation involves the request that wins, one
that finds it, and one that comes after the compensation: three, and two
failures let both the commit and the compensation fail. Two skill workers are a
late one and its successor, a third generation is the one they compete with.
Two clicks compete for a round, two rounds let a job of an old round meet a new
form, and two workers of a kind are the owner of a lost lease and the next one.
Names are symmetric in the runs without liveness properties.

**Where the code disagrees with what it says of itself** (quoted under
`findings` in `PROJECT.json`):

* `replay_undoes_reset`: two requests, without any failure, violate
  `ConfirmedIsKept`. The second reads the journal before the first has confirmed
  and cleared it, waits for the image locks, and then undoes a reset that was
  reported as done.
* `overdue`: a publishing transaction waits for the space row until its lease has
  ended, a sweep takes its generation for a dead one and drops the collection,
  and the commit makes that generation the active one (`ActiveIsServed`).

### Known limits of the properties

Properties that hold only in the circumstances of their runs, each with what
breaks them elsewhere:

* `HistoryRecoverable`, overlapping requests: a deletion fails, a second request
  gets the rows before the compensation and skips the journal of the live owner;
  the owner then takes its journal for stale. Also with the poller: after a
  crash that follows the deletion a poll rewrites `update_time`. Also with a
  failure and a crash together: the answer of the final journal deletion is
  lost and the compensation dies. And with two failing calls, one of which hits
  the compensation of the other.
* `LedgerAgrees` and `DoneIsStored` after a failure: a deletion fails, an
  executor reports progress before the compensation has the rows, the request
  takes this for a later operation and drops its journal, and the executor goes
  on to report as done a task whose chunks are gone. After a crash another
  request may skip the journal of the dead one in the same way.
* `ErrorMeansUndone` with overlapping requests: another request may have moved
  the rows on before the first one closes.
* `ConfirmedWorkWaits` with a second request that fails: an executor finds the
  row of its message gone and acknowledges, and the compensation of the second
  request puts the row back, queued.
* `YieldsOnlyToRequests` with the poller: a poll between a start's commit and
  its second lock is taken for "a later document operation".
* `WorkSettles` after a crash between the last report and the aggregation: the
  redelivery only acknowledges and the document stays RUNNING.
* `DoneIsFinal` with a crash and a fault: a finished task whose message was not
  acknowledged is delivered again while a clearing request has committed its row
  away, so `collect` sees no finished row; the request fails, its compensation
  restores the row with its result, and the executor then starts the task over
  (TLC finds it in the run `redelivery` with `MaxFaults = 1`; every statement sees
  what is committed, as PostgreSQL does by default).
* `DoneIsStored` excepts the states in which a journal stands: the store may be
  ahead of the rows then.
* `ConfirmedTasksEnd` counts a failed task as an end, also one that fails over and
  over because its source record was left open.
* `QueuedTasksEnd` with a fault, for the same reason, or on a flag that the
  failing request then takes back.
* `ActiveIsServed`, `IndexMatchesSkills`, `ServedHasFiles` and `ImplementsCatalog`
  are checked and proved for `TimelySpec`; outside it the first is false (run
  `overdue`), and with it the refinement.
* `AcknowledgedHolds`, of which `AcknowledgedUnlessRestored` is the weaker form:
  a client that was acknowledged on the cancellation of another request sees the
  attempt succeed if that request's restore takes effect, whether it reports
  "restored" or that the compensation could not be confirmed
  (`task_cancellation_service.py` 107 and 145-155).
* Interactions, `Orphaned`: the callback worker dies between `submit_response`
  and `mark_callback_claimed`, the round advances, and the next attempt meets
  `REVISION_CONFLICT` instead of the duplicate that the comment at
  `interaction_worker.py` 319-321 expects. The click is rejected and the next
  round is not shown. `DisownedOnlyAfterFault` says only that this takes a fault;
  the properties that name `Orphaned` make an exception of it.
* `InteractionEnds` counts a message that it failed as an end: a click rejected
  for good closes the form and leaves the interaction in `awaiting_input`.
* `UserIsTold` counts used-up delivery attempts as an end; they are counted over
  all deliveries of a presentation, also of a form that was opened again.
* `OperationsEnd` counts a failure as an end; a retry is up to the client.

The limit of three attempts in `get_task` compares a counter that nothing
advances, so it is not part of the model; cancel flags overwritten by a second
cancel stay until they expire; chunks of rows that a reset removed after a
configuration change stay until a start with clearing.

### Fairness

Ingestion: a request that was sent and a running executor keep taking steps;
since they compete for row locks, and PostgreSQL serves the waiters of a row in
turn, their steps are strongly fair. A stopped executor is restarted by its
supervisor and the polling thread runs every six seconds (weak fairness; the
write of a selected document waits for the row lock and is strongly fair).

Skills: index calls return, a worker goes on with what it has begun, an idle
one keeps sweeping and claiming in turn (strong fairness, since other
operations may come first), and a lease that nobody renews ends.

Interactions: the workers poll for ever; a row that is skipped because another
comes first or because it waits for its back-off is found again, so leases,
delivery claims and reconciliation are strongly fair; leases that nobody renews
end; time passes. Nothing is assumed of the user.

Nothing anywhere forces a new request, a failing call or a crash.

## 4. Proofs

### Ingestion

There are three modules, each on top of the one before, for every set of page
ranges, configurations, requests and executors and every bound on faults and
crashes. `IngestSystemProofs` proves

* `InvHolds`: `Spec => []Inv`;
* `TypeCorrect`, `WritesAreFenced`, `RequestsOwnTheirRows`: `TypeOK`,
  `FencedWrites` and `RowsDoNotMove` are invariants.

The assumptions, which TLC evaluates on every ingestion run, are
`PartiesAssumption` (names are distinct), `SizeAssumption` (finitely many page
ranges, configurations and requests, at least one revision), `RevsAssumption`
(an unused revision exists, see above; `update_time` grows and a log line
carries the time) and `AbsenceAssumption` (`None` is neither rows nor a journal).

`FencedWrites` and `RowsDoNotMove` are not inductive: nothing in them says that
whoever relies on the rows also *holds* them. `Inv` adds `LocksHeld` (each
program counter between a lock and the commit belongs to the holder of `lock`,
hence to at most one party), `Knows` (a request that has begun remembers rows,
one that has planned remembers the rows to commit, one that replays has a
journal) and `HasTask`. The proof has one lemma per action. Each shows that the
action is a *move*: the party keeps the lock and leaves the rows alone, or takes
a free lock, or ends without it, and only in the last case, or when nobody holds
the lock, do the rows change. `MoveInv` and `WorkerMoveInv` show once that every
move keeps `Inv`, because any other party that relies on the rows would hold
their lock.

`IngestCancelProofs` proves `CancelHolds` (`CancelSticks`) from `CancelInvHolds`
(`Spec => []CInv`), with executors, poller, overlapping requests, faults and
crashes. What could revive a cancelled task is a compensation or a replay that
puts older rows back. `CInv` describes this as *claims*: a request that planned,
or a journal that somebody holds, claims that whoever finds the rows `appl` may
put `orig` in their place. For each confirmed cancel there is a set of rows
(`Covers`) that contains the current ones, is closed under the claims of all
others, and in which the stopped tasks are absent or cancelled (`StickInv`).
Writing fresh rows adds them to the set, since no claim mentions rows with a
revision or a log that nobody remembers; this is where `RevsAssumption` is needed
(`FreshIsFresh`). `GenInv` and `FreshInv` say that nobody has seen the tasks and
the rows of a request before it commits, `OwnInv` and `RecInv` that a journal
under replay belongs to a request that ended and applies to the rows.

`IngestLedgerProofs` has four parts.

* *Nothing has failed* (`Undisturbed`), any number of overlapping requests and
  executors, with the poller: `LedgerHolds` (`LedgerAgrees`) and
  `DoneStoredHolds` (`DoneIsStored`) from `CalmHolds`. Neither is inductive, since
  a replay of a journal read long before may take the rows back. `HistoryInv`
  says that there is a map `H` from rows to the chunk sets that may be stored
  with them, such that the current pair is in it whenever nobody is between a
  change of the store and the change of the rows (`Settled`), and rows which may
  be put back go with the chunks that are put back with them (`Rules`). The
  other parts of `Calm` say what the planned rows will count (`PlannedInv`),
  that messages follow commits (`SentInv`), and what journals and flags note.
  `Undisturbed` cannot be dropped, see the known limits.
* *Requests without executors and poller* (`RequestSpec`), any faults and
  crashes: `YieldsHold` (`YieldsOnlyToRequests`). `MeetInv`: a request has not
  looked at the rows yet, or is on its way out, or met another one, or finds the
  rows that it saw or committed.
* *Requests in sequence* (`SequentialSpec`), either failing calls or crashes:
  `UndoneHolds` (`ErrorMeansUndone`) and `KeptHolds` (`ConfirmedIsKept`) from
  `OrderlyHolds`, for any number of either. `Orderly` ties what a request
  remembers to have done to what it did, and says that no journal is left of a
  request that reported success. `RecoverableHolds` (`HistoryRecoverable`) from
  `SafeHolds`, with at most one failing call or any number of crashes: `Ground`
  says that the rows count the chunks, or a journal stands that applies, or the
  rows of a lost answer are about to be undone. A second failing call may hit
  the compensation of the first, so the bound cannot be dropped.
* *A start that no second request has followed* (`OneCame`), any faults and
  crashes of servers and executors, with the poller: `WaitsHold`
  (`ConfirmedWorkWaits`). `WaitInv`: while the row of a sent task is queued, its
  message is unread or pending, and no executor that handles it has passed
  `get_task`; a request that confirms has sent every task that is queued. A
  second request may put such a row back after its message was acknowledged, so
  that `OneCame` cannot be dropped either.

### Cancellation

`TaskRuntimeProofs` proves, for every set of cancel requests and every number of
failures, `RuntimeInvHolds` (`Spec => []RuntimeInv`) and from it `RuntimeTypes`
(`TypeOK`), `CancelledNeverSucceeds` (`CancelExcludesSuccess`),
`CancellationVisible` (`CancellationIsVisible`) and `CancellationOwned`
(`CancellationHasOwner`). The only assumption is `RuntimeAssumption` (names are
distinct), which TLC evaluates in `runtime`.

`CancelExcludesSuccess` relates an answer to an outcome and says nothing of the
states between. The argument is that a binding leaves "active" once: to finished,
or to the cancellation of one request, and only that request may undo it, once its
commit has failed, possibly after it has answered; it then never answers
"cancelled". For a background task the row
plays the binding's part: under its lock either the marker is set or the result
is reported. `RuntimeInv` states this in parts: `KindInv` (which kind of attempt
has which state), `BindingInv` (state, token and flag of the binding go
together), `UnboundInv` (no request gets anywhere before the binding exists),
`RequestInv` (a request that decided read an active binding and still finds its
own nonce there, or the key lapsed), `RowInv` (a request for a background task
holds the open row from decision to commit, and leaves the marker), `SettledInv`
(an agent that passed `finish_runtime` finds no cancellation and never will).
There is one lemma per action.

`AcknowledgedRelies` (`AcknowledgedUnlessRestored`) is about requests that answer
on the strength of another request's cancellation. It needs `AckInv` beside
`RuntimeInv`: while no restore has taken effect (`Undone`, whatever the request
that sent it reported), the attempt for which a
request answered "already" has a binding that refuses `finish_runtime`, or none
at all, and has not passed it. The condition cannot be dropped (Known limits).

### Interactions

`InteractionProofs` proves, for every set of clicks, callback workers, resume
workers and channel workers, every number of rounds and attempts and every number
of failures, `InvariantHolds` (`Spec => []InteractionInv`), and from it
`TypesHold`, `OneShot`, `ClaimedWasAccepted`, `DisownedAfterFault`,
`RowsTellTheSame` and `ShownTruth` for the six invariants of the run
`interactions`, and `EndStays` for its action property `EndIsFinal`. The
assumption is `InteractionAssumption`: the bounds are positive, and `None` is not
the name of a click, a process, a state, a response or a reason.

Apart from `TypeOK` none of them is inductive. `InteractionInv` adds

* `RoundInv`, `FormInv`: rounds after the current one are untouched, rounds
  before it have succeeded, and a form is open only in the current one;
* `KeyInv`, `ReceiptInv`: a job remembers the click that brought its response, a
  worker that will mark a click as claimed finds it there, and no two clicks of a
  round are alive. `ClaimedIsAccepted` rests on this;
* `CallInv`: a job that may run once and was leased never waits again, and no two
  workers have one round, so nobody is on the way to a second call, even with a
  lease that has ended. `OneShotRunsOnce` rests on this;
* `RowsInv`, and `ShownInv` for the messages;
* `FaultInv`: until something fails, whoever works on a click holds it, a leased
  click has such a worker, and nothing is submitted before its worker is about to
  mark it. This is what makes a disowned response take a fault.

There is one lemma per action; deliveries, and everything that leaves the forms
as they are, share the lemma `DeliveryMove`, and rejections share `RejectMove`.

### Skills

The proofs are in three modules, each on top of the one before, for every set of
skills, versions, operations and workers, every number of generations and any
amount of trouble, under `SkillAssumption` (names are distinct, every version
belongs to a skill, `None` is none of the names and kinds).

`SkillProofs` is about leases. `LeasesHold` proves `LeaseParts`: a claim raises
the revision of the row (`RowInv`), a generation belongs to one revision of one
operation (`GenOwnerInv`), no two workers have one revision (`WorkerInv`), and a
worker that may publish has the row at its revision, not yet done (`LeaseInv`).
`TypesHold` and `PublishesOnce` (`PublishedOnce`) follow. These are theorems of `Spec`, overdue transactions
included: a publishing transaction keeps the row locked, so that nobody claims the
operation in between.

`SkillServeProofs` is about what is served, in the behaviours of `TimelySpec`:
leases end at any time, under publishing transactions too, but no sweep reads its
list while one of these is overdue. In other behaviours `ActiveIsServed` is false
(run `overdue`): the code compares the lease with the time at which the
transaction began (`worker.py` 75). `SweepTargetsGone` is the one lemma that needs
the restriction: what a sweep finds is in the hands of nobody who may publish it.
`ServingHolds` proves `ServeParts`:

* what workers and late threads drop is `Gone`: not active, and in nobody's hands
  who may publish it, which stays true (`DropInv`, `ThreadInv`; `GenInv` carries
  `ActiveIsServed`);
* a generation built from the space as it still is holds what the skills would
  show after its publication (`BuildInv`, `ShownInv`, `AssetInv`), hence
  `IndexMatchesSkills`;
* a removal in progress still has to purge whatever serves its versions before it
  gets to the files, and its versions never come back (`RemoveInv`), hence
  `ServedHasFiles`.

`ActiveServed`, `IndexMatches` and `ServedKeepsFiles` state the three invariants.
Most steps keep `ServeParts` for the same reason, that they touch neither assets
nor a generation in use (`StillServes`), so that a lemma per action only says why
this is so; requests, publications and removals are proved one by one.

`SkillCatalogProofs` is the refinement: `CatalogImplemented`
(`TimelySpec => ImplementsCatalog`). The initial states
map to `Start`; a step that leaves open, usable, active, serving and applied
alone maps to a stutter (`UnseenRefines`), a publication to `Activate` or
`Reindex`, the steps of a deletion to `Withdraw`, `Hide`, `Purge`, `Close` and
`Empty`. `ServeParts` supplies what the mapping alone does not: that dropped
collections are not the served one and that a switch publishes the index of what
is then active.

### Only model-checked

* Liveness (`RequestsEnd`, `ConfirmedTasksEnd`, `WorkSettles`, `QueuedTasksEnd`,
  `OperationsEnd`, `OrphansGo`, `CallbacksEnd`, `UserIsTold`, `InteractionEnds`)
  is out of the prover's reach.
* What the theorems about ingestion leave out of a property is false there
  (Known limits) and checked nowhere: `LedgerAgrees` and `DoneIsStored` after a
  failure, `YieldsOnlyToRequests` with the poller, `HistoryRecoverable`,
  `ErrorMeansUndone` and `ConfirmedIsKept` among overlapping requests,
  `ConfirmedWorkWaits` after a second request.
* `DoneIsFinal` is false once a statement may fail in addition to a crash (Known
  limits), so it is no theorem of `Spec`: the run `redelivery` shows it for
  crashes alone.

## 5. Plan

1. `SourceRecovery`: a failing native insert and `_recover_source_chunks`,
   composed with `TaskExecutor` and checked in the existing runs.
2. The document-update path of `_operate`, over the same journal.
3. Identity reconciliation: the lease and generation checks around a provider
   probe that may outlive its lease (`reconciliation/service.py` 303).
4. The distributed lock of the poller with expiry (`redis_conn.py` 588); a second
   poller adds only another `PollSync`, which the row lock serialises.

### Not modelled

Parsing, embedding, retrieval and LLM adapters (numeric and text processing),
the agent canvas beyond its attempts (an interpreter of user graphs),
data-source connectors (external services, one row with a timeout), directory
events, provisioning and onboarding (validation and single transactions),
GraphRAG checkpoints (resume points of one long task), the Go server (a port of
the same interface). They make up most of the repository's lines and have little
state that several processes share.
