# A TLA+ model of АгроВижион (Agriculture-Vision)

АгроВижион is a web application that segments satellite snapshots: a browser
client (`src/frontend`), a FastAPI server (`src/app`), Celery workers that run
the model (`src/app/tasks_service/workers.py`), PostgreSQL, Redis, an S3
storage, and a separate segmentation microservice
(`src/app/segmentation_service`). This directory models the parts of it whose
correctness depends on the order in which things happen: TLC checks small
instances, TLAPS proves the theorems of `TaskPipeline_proofs`,
`Accounts_proofs`, `JobQueue_proofs`, `TileLoading_proofs`,
`Inference_proofs`, `Browser_proofs`, `MapModel_proofs` and `MapEdits_proofs`
for every value of the constants.

Contents

1. Inventory: the components of the system
2. The modules, and how they correspond to the code
3. The runs: bounds, results, fairness
4. What is proved
5. Findings
6. What is not modelled
7. Plan

## 1. Inventory

| component | state | operations | interacts with | hard behaviours |
|---|---|---|---|---|
| snapshot processing, API (`tasks_service/service.py`) | rows of `processing_tasks` with image and detections | `create_task`, `delete_task`, `enforce_task_limit`, `publish_to_layers` | storage, PostgreSQL, Celery (`send_task`), layers | four resources without a common transaction; check-then-delete |
| snapshot processing, worker (`tasks_service/workers.py`, `core/celery_app.py`) | the session of `run_inference`, the message it holds | receive, start, download, progress, infer, finish, fail, ack | PostgreSQL, Redis, storage | late acks and redelivery, visibility timeout, stale session objects, concurrent trimming |
| database, storage (`core/database.py`, `core/storage.py`) | rows, objects | transactions; put, get | everything on the server | `expire_on_commit=False`, local fallback of the storage |
| accounts (`users_service`, `core/security.py`) | users, refresh tokens, reset codes | register, login, refresh, logout, reset, delete | cascade to everything a user owns | rotation of a token by two requests at once |
| activity log (`activity_service`) | append-only rows | log, list | none | none |
| layers and objects (`layers_service`) | layers, folders, objects, numbers | CRUD, merge, visibility, import, export | the web client, publishing of results | numbering by `max + 1`; cascades |
| imagery proxy (`dzz_service`) | sessions with dzz.by, kept in a file | connect, restore, status, check, tile, disconnect | dzz.by, the panel of the client | session file rewritten in place, expiry, restarts, an upstream that refuses |
| model runtime and status (`ml_service`) | loaded models, status in Redis | load, scale, cut, infer; publish, clear, read status | worker, API, the pill of the client | one key without expiry for all processes of the pool |
| segmentation microservice (`segmentation_service`) | jobs, order, executor, semaphore | submit, run, position, synchronous inference | its HTTP clients | executor threads and the event loop share one semaphore |
| training, segmentation mathematics (`ml_core`, `models`) | none | numerical functions | none | floating-point data, no protocol |
| web client: API client, session (`api/client.js`, `auth/`) | tokens in localStorage, refresh in flight | request, refresh, logout | the accounts of the server, other tabs | a refresh per tab, one token for all |
| web client: map, undo, folders (`layers/`, `map/`) | copy of the map, id aliases, undo stack | tracked edits, undo, redo, reload, visibility | `layers_service` | edits overlap undo, partial failures, renewed ids |
| web client: drawing tools (`map/tools.js`) | active tool, modes, drafts, selection, chain of edits | keys and clicks; strokes, merges, cuts | map data, `layers_service` | clicks go on while edits are under way |
| web client: upload (`tasks/runner.js`) | the task that is polled | upload, poll, publish | snapshot processing, layers | ten-minute limit, reload of the page |
| web client: tiles (`dzz/tiles.js`) | slots, waiters, tile cache | request, release, cancel | imagery proxy | a newcomer and a woken waiter want one slot |
| QGIS plugin, deployment, migrations, notebooks | – | – | – | configuration and desktop user interface |

What makes each of them correct, where there is more to it than its code says:

- **snapshot processing** – a row always has its file and its owner; no two
  processes work on one task; what the client reads in `status` is true; every
  task is settled; the limit on saved tasks removes only old tasks; a settled
  task does not change again.
- **layers, web client** – undo and redo lead to exactly the maps that were
  recorded; the client shows what the server has; an undo that fails half way
  does not lose objects.
- **segmentation microservice** – at most `max_concurrent_inferences`
  inferences at once; jobs begin in the order promised by the position that is
  reported; every job ends.
- **accounts, API client** – a client that uses its session stays logged in,
  in whichever tab it is renewed, as long as no two requests that change tokens
  overlap and none fails.
- **publishing** – results are published once, in the categories that are
  switched on, with numbers that are distinct unless two transactions on one
  layer overlapped.
- **drawing tools** – modes, drafts and outlines fit the active tool whatever
  is clicked; what a user was told to be drawn stays drawn.
- **tiles** – never more requests than the limit, no waiter is forgotten.
- **imagery** – the panel ends up right about the connection; a failure of the
  tiles is watched until it is over.
- **model status** – the pill says what the worker has loaded.
- **windows** – every pixel is looked at; the number of windows is as told and
  within the budget.

`PROJECT.json` lists the same components with the modules that cover them, and
the hazards, each at its line with the properties that look for it.

## 2. The modules

### TaskPipeline: from the upload to the saved result

The module composes four parties: requests of the API (`req`), pool processes
of the Celery workers (`worker`), the broker (`queue`, `orphans`) and the
database (`row`, `users`). `files` is the object storage.

- *The API.* `Upload` is `create_task` up to the stored snapshot, with the row
  INSERTed but not committed; then `CommitTask`, `Send` or `SendFails`, and
  `MarkFailed` for the `except` branch. `CheckDelete` and `Delete` are
  `delete_task`: one statement reads the status, another deletes the row by
  id, and no lock is held in between. `DeleteAccount` is the cascade from
  `users`.
- *The worker.* `Receive` is the delivery and the first SELECT: it looks
  whether the task exists and not at its status. `Start`, `Download`, `Report`
  and `Infer` are the commits of `run_inference`, all through `Save`: the
  session writes the attributes that differ from the object it loaded at the
  beginning (`Merge`), because commits do not expire it. `Finish` is the last
  transaction up to the SELECT of `enforce_task_limit`, which flushes it (the
  row is `Locked` from then on), `Commit` its end. `Fail` is the `except`
  branch (rollback, reload, FAILED), `Ack` the end of the Celery task.
- *Faults.* Six kinds, each enabled by `Faults` and counted by `budget`: death
  of the API process, a doubtful publish, death of a worker, death of one pool
  process, the visibility timeout, and a database that cannot be reached while
  a failure is recorded. Failed uploads, failed publishes and exceptions in
  the worker are no faults in this sense: they may happen at any time.
- *Abstractions.* Detections are counted per execution (`results`), progress
  between two windows is 50, `completed_at` is a counter (two completions
  never get the same time). A row stands for its image and detections too,
  which are deleted with it. A rollback of the upload leaves the stored
  object, as in the code.

### FifoJobs and JobQueue: the segmentation microservice

`FifoJobs` is the promise: jobs begin in the order of their submission, and
with a capacity above one the jobs that a job overtakes and those that run are
together fewer than `capacity` when it begins. `JobQueue` is `jobs.py` with the executor and the semaphore of
`runtime.py`: `Submit` and `Enqueue` are the two halves of `submit` (record
under the lock, work item after it), `Take`, `Start`, `Infer`, `Return`,
`Record` and `Leave` are `_run` in an executor thread, `Reindex` is
`_reindex_positions`. `WaitArrives`, `WaitRuns` and `WaitEnds` are a request
with `wait=true`, whose handler takes the semaphore in the event loop: nothing
else is submitted meanwhile. `ServesInOrder` is the refinement `JobQueue =>
FifoJobs`: `state` is the status of the records, and `earlier` of a job are the
jobs with smaller numbers. The promise does not mention lock, executor or
semaphore, so every step but `Submit`, `Start` and `Record` is a stutter.
`max_concurrent_inferences` is chosen in `Init`, so that one run covers all
values up to `MaxLimit`.

### MapEdits: tracked edits, undo and redo

Every edit of the web client is a list of requests (`act[a].todo`). `Serve` is
the handler of `layers_service` for the first request (one transaction,
`Accepts` for its error answers and `After` for its effect), `Take` is the
client going on with the answer (`Shown` and `Listing` for what the store does
with it, `Aliased` for `aliasId`, `Push` for `pushUndo`). `Refuse` is a
request that fails without an effect.

- *Agents.* The map tools send their edits through a queue (`tools.js`), so
  one edit ends before the next begins. The layers panel does not use that
  queue, and `undo.js` keeps out only a second undo or redo. These are the
  three agents of the model. With `Overlap` FALSE an agent begins only when
  the others have ended: what a user does who waits. With TRUE they overlap.
- *Edits.* `Creates`, `Patches`, `Deletes`, `Merges`, `Moves`, `LayerDeletes`
  and `FolderDeletes` are the `*Tracked` functions of `ops.js`: the entry each
  pushes, made from the client's copy of the map. `RedoSteps` is also what the
  edit sends first. `UndoSteps` and `RedoSteps` are the `undo` and `redo`
  closures. `Tweak` is an edit without history (crop, folder of a layer or an
  object).
- *Ids.* A restored object, layer or folder gets a new id; `alias` is
  `idAlias`, `Resolve` is `resolveId`. Undo and redo resolve the ids of a
  request when it is sent, an edit sends the ids the user sees.
- *Failures.* `GiveUpEdit` is an edit that fails (`deleteTracked` pushes what
  it had deleted by then), `GiveUpRun` the `catch` of `run` in `undo.js`: the
  cursor stays. A lenient request (`.catch(() => {})` in the code) does not
  stop the list.
- *History variables.* `versions` records the map, under its oldest ids,
  before the oldest entry and after each entry; `frayed` says that a run was
  given up half way, `blurred` that attributes without history may differ from
  the recorded maps. They occur in no guard.
- *Abstractions.* A geometry is a model value; crop stands for the attributes
  of an object that are edited without history; `Clear` stands for `clearUndo`
  after a result was published.

### MapTools: the drawing tools

`ui` is the record of the module variables of `tools.js` (active tool, merge
and drawing modes, drafts, selection, outlines). The keys and clicks are
functions from one `ui` to the next. An edit is appended to `queue` (the chain
of promises `opChain`), and reads selection, layer and shapes when its turn
comes; `flight` holds its request until it is served and answered, so that
clicks happen in between. Two commands send the same request `merge`:
`mergeSelectedPolygons` selects the result when the answer comes (`selects`),
a line that connects two areas leaves the selection as the user has it by then
(`Connecting`, `Resulting`). A shape is the set of strokes it consists of; a
union may have several parts, of which `keepLargestPart` keeps some (`Kept`:
any of them, but at least one). Edits of the panel and of undo are
`Elsewhere`.

### MapModel: the copy of the map in the client

`store.js` with the commands of the layers panel. A command is a sequence of
requests (`Request`, one for each PATCH, POST and DELETE); several commands
may be under way, and loads (`loadMapData`) beside them, which the database
answers at one moment and the client receives at another, in any order. A
request is refused without an effect, or served and its answer lost. `listed`
is the array of layers that the panel is drawn from, `shown` what is on the
map; both are kept apart from `model` because the code keeps them apart. Not
every answer redraws the map (`Redraws`): those to the creation of a layer or
a folder, to the deletion of a layer and to the switch of a layer do not call
`applyVisibility`, and the layers of a folder that is switched are redrawn
after the last of them, so that a switch which fails half way leaves the screen
wrong until something else redraws it. `unseen` remembers the layers in
question. `OfLayer` and `OfFolder` are the commands that a layer and a folder
offer, `Adding`, `Freeing` and `Assigning` those of more than one request;
`Freeing` is offered for a layer without a folder of its own too, whose objects
may be in one. The layers that are in the folder at the beginning, and whether
it is shown, are chosen in `Init`.

### SnapshotRun: from the browser to the map

`runner.js` (upload, and segmentation of an area) as a client of the pipeline:
click, poll, the limit of ten minutes, publish, reload of the map.
`TaskPipeline` has the detail of what happens to a task, here it is an
outcome. `publish_to_layers` and `add_object` are transactions `tx`, which
read `max(number)` and insert later, so two of them can read the same maximum;
`todo` of a transaction is the places of the result whose objects are still to
be added, in order. The file input and the buttons are part of the state.

### Accounts: sessions of two tabs

The server has the user, the refresh tokens, the reset codes; every handler
that reads before it writes is two steps (`Check…`, `Commit…`). A browser has
`localStorage` (shared) and a `sessionStorage` for each tab. Each tab has one
form, one poll and its own refresh in flight (`refreshPromise` of
`client.js`). Access tokens expire at any time. A pair of tokens is its
number; `family` is the session it continues, for the properties.

### DzzConnection and TileLoading: satellite imagery

`DzzConnection` is the session table of `sessions.py` with its file, the proxy
handlers, and `panel.js` with its polls, the restored cookie, the recovery
checks after failed tiles. A request carries the cookie of the moment it is
sent. dzz.by turns between online, down and refusing; the API restarts with
what the file holds, a session expires. `TileLoading` is `tiles.js` and
`runPool` of `map.js`: slots, waiters, cache, prefetch. JavaScript runs
continuations before the next event, so a woken waiter goes on before a
newcomer (`woken = <<>>` in `Ensure`).

### ModelStatus, Tiling and Inference: the models

`ModelStatus` has the processes of the Celery pool, which load the weights one
after the other and publish under one key, the API, which reads it and then
pings the worker, and two polls of the client that may overlap. The deployment
replaces the worker (`Recreate`), so the old one is gone before the new one
starts. `Tiling` holds the pure operators (`Starts` and `Count`, the two ways
in which the code finds the windows of a side); `Inference` follows a
snapshot: `MPerPx` as `run_inference` computes it, `WorkingSize`
(`choose_working_scale`), the limit on the sides in the pipeline of the
segmentation service, batches, the bar of the task. Ground sizes are in 0.01
mm and scales are quotients of integers, where the code uses floating-point
numbers.

### Modules for the checks

`MCTaskPipeline`, `MCMapEdits`, `MCAccounts` and `MCInference` give the
constants their small values. `MCJobQueue`, `MCImagery` and `MCBrowser` are
sums: one module is extended (`JobQueue`, `TileLoading`, `SnapshotRun`),
others that share no state with it are instantiated beside it, and `part` says
which of them a behaviour is of, so one run answers for each of them without
interleaving them. A definition with a comment that begins with
"Mutant:" is a wrong version of the definition that follows it. The
specifications do not use them: each is a mistake that one of the properties
has to notice (`PROJECT.json`, "mutants").

## 3. The runs

| run | instance | states | shows |
|---|---|---|---|
| `race` | 4 tasks of one account, 2 workers, 1 request, limit 2, no faults | 1.5 million | the limit on saved tasks can be exceeded by one task per further worker and not by more; trimming removes only tasks that `Limit` saved ones are newer than; a settled task is final |
| `crash` | 2 tasks, 2 workers, workers die up to twice, fair | 280,000 | no task is with two processes; nobody forgets a task; every task is settled or deleted |
| `chaos` | 2 tasks, 2 workers, any two faults of all six kinds | 4.6 million | types; every row has file and owner; what the status still means; each repeated set of detections is paid for by a fault |
| `delete` | 1 task, 1 worker | – | violation, see section 5 |
| `jobs` | 4 jobs, 1 to 3 threads, 2 requests with `wait=true`; 2 pool processes, 4 events; 8 lengths of a side, 2 models; fair | 384,000 | queue: the semaphore is respected, positions are never too small, exact with one thread, and never grow, FIFO, every job ends. Windows: every pixel is covered, the number of windows is as told, the bar shows the share that was run (and for every image of the run the scale keeps the budget). Status: the key is true, the pill ends up right |
| `edits` | 2 layers, 1 folder, 2 objects, 2 geometries, all 7 kinds, 3 events, stack of 2 | 2.7 million | the recorded map is restored exactly, the client shows it, no request asks for what is gone, a failed undo loses nothing |
| `overlap` | creates and deletes, agents overlap | – | violation, see section 5 |
| `merge` | as `edits` | – | violation, see section 5 |
| `accounts` | 2 tabs, 3 pairs of tokens, 2 codes, 2 forms, 1 failure | 2.6 million | a session in use is kept, one that was ended stays ended, old tokens and codes do not work |
| `imagery` | 1 tile, 2 attempts, 2 sessions, 2 commands, 2 changes of the world, fair; 4 loads of 2 tiles, 2 slots | 480,000 | the panel agrees with the server in the end; failing tiles are watched; slots are neither exceeded nor left idle |
| `browser` | 3 areas and points on 2 layers; 3 layers, 2 folders, 3 commands and loads; 2 runs | 1.8 million | the tools agree with each other, strokes stay; the model agrees with the server; results are published once and told truly |
| `budget` | one snapshot | – | violation, see section 5 |

**Why the bounds are enough.** Tasks meet in three places only: the two rows
of one account that two workers complete at once, the trimming that both of
them do, and the requests for one task. In `race` two tasks fill the limit, so that
both workers, finishing the third and the fourth at once, find tasks in excess,
and a limit of two lets them select one after the other, in either order, with
a deletion in between. `crash` and `chaos` are
about one task and a competitor; two faults are what two executions of the
same message with an interrupted one between them need. In `jobs` four jobs
and three threads let a job end before two older ones. In `edits` the stack
holds two entries, so that the third edit pushes one out; three events are
three edits, or an edit and two failures of its undo, and undo and redo
themselves are not bounded by `MaxEvents` but by `MaxId`: nine ids allow each
of the objects, the layer and the folder of the start to be replaced and
replaced again. `accounts`: three pairs of tokens let each tab hold one that
the other has rotated; two forms are an end and a new beginning of a session.
Once two requests that change tokens or codes have overlapped, the properties
promise nothing more, and `CrossedBriefly` follows such histories only while
there is one pair and nothing has failed. `imagery`: two sessions are an old
one and its successor, two attempts a tile that fails and is retried, four
loads two holders and two waiters. `jobs`: the lengths lie below, at and above
a window (8 and 10), at a multiple of the step above it (14, 16, 30) and one
off (15), and above the limit of 40; 49 windows are enough for a window to be
less than one percent of the bar. `browser`: the tools run once with all tools
and edits that never begin, once with edits under way but without ruler,
compass and text, whose marks do not reach the server; the map has three
commands or loads in all, because two that overlap and a load that puts them
right are what the properties are about, and begins with neither, one or both
of the layers in the folder, which is hidden in one case (`Maps`); the snapshots two runs, or a run and
a drawn object, since two transactions are what it takes for a number to be
given twice. These bounds are in the MC modules and the cfgs, not in the
specifications.

**Symmetry** (`race`, `chaos`, `accounts`) permutes worker processes, requests
and tabs, which nothing distinguishes; it is not used with liveness.

**Deadlock** is not checked: in all instances the system comes to rest once
everything that the bounds allow has been done. That it does not rest earlier
is what `EverythingSettles` and `JobsEnd` say.

**Fairness.** `TaskPipeline!FairSpec`: a request that was begun goes on, a
pool process goes on with its task, a ready message is delivered to some
process and the transport restores what timed out, since these are loops of
Uvicorn, Celery and the Redis transport, which do not wait for anything else.
Weak fairness is enough, except for rows that are locked: a lock is held by a
process that is itself fair. Nothing is assumed of users and faults.
`JobQueue!Spec`: the event loop and the executor threads are scheduled and an
inference ends. A thread that waits for the semaphore could be overtaken by
requests with `wait=true` for ever; `threading.Semaphore` promises no order,
and the bound `MaxWaits` says that such requests are not made for ever.
`ModelStatus`: weights are loaded in the end, the timer of the client fires
while it polls, and a request is answered or given up (it has a time limit).
`DzzConnection`: the poll is repeated (`setTimeout` after every answer), a
request is served, an answer arrives or the request fails; the number of
losses is bounded, so that the properties speak of what happens once the
network is calm. Nothing is assumed of the user, of dzz.by or of faults. The
other modules have safety properties only. `overlap`, `merge`, `delete` and
`budget` are safety violations and need no fairness.

**Readings of the properties.**

- `SavedWithinLimit` is what the code guarantees and not what its name
  suggests: every transaction counts its own task and the committed ones, so
  `n` workers can leave `Limit + n - 1` tasks. The next completion trims them.
- `StatusIsTruthful` is weaker where a message may be with two processes at
  once (`Serial` is FALSE): then a COMPLETED row can carry the progress or the
  error of the other execution.
- `SettledIsFinal` and `LimitKeepsNewest` are about environments without a
  second delivery (`Undisturbed`): a redelivered message starts a finished
  task again, because `run_inference` does not look at its status.
- `LimitKeepsNewest` lets a saved task be removed only if `Limit` saved ones
  are newer. With a limit above one that needs more than care in the trimming:
  `enforce_task_limit` selects and deletes in the last transaction, and if a
  `delete_task` that read PENDING removes a task that has been saved since,
  between SELECT and COMMIT, what was selected as surplus no longer is, and one
  task too many goes. So the property excludes that step (`DeletesSaved`; it is
  the finding `delete`), and says for every other step that selections stay
  surplus (`VictimsAreSurplus`).
- `NothingStranded` holds for dying workers. A death of the API between COMMIT
  and `send_task`, of a single pool process (the parent acks the message) or a
  failure that cannot be recorded strand a task; no job sweeps the table.
- `PositionsAreHonest`: with several threads the reported position stays too
  large once jobs have ended out of order, since only the head of `_order` is
  removed. It is never too small.
- `FailedUndoLosesNothing` excludes runs in which a *redo* failed half way:
  after such a redo of several deletions some objects are gone although the
  cursor says they are there, and redo cannot go on.
- *History variables that weaken a promise* are stated where they occur and
  set by nothing else than what they name: `crossed` (`Accounts`: two requests
  that change tokens or codes overlapped; the code reads and writes without a
  lock, so both get what one should), `mixed` and `late` (`MapTools`: a
  selected object was moved to another layer; the answer to a merge of the
  selected objects came in the merge mode after another click), `excused` and
  `unseen` (`MapModel`: an answer was lost, commands about the same thing or a
  load and a command overlapped; the layers that were switched with their
  folder since the map was last redrawn),
  `overlapped` (`SnapshotRun`: two transactions added to one layer), `astray`
  (`ModelStatus`: a process was killed, or could not publish), `client.missed`
  (`DzzConnection`: the panel took a failure for settled that `tiles.js` still
  counts). What the code does in these cases is listed as a hazard, and the
  note of the hazard says what is promised in spite of it. `late` and `mixed`
  excuse one conjunct each: outlines of objects that are no longer selected,
  and a selection over two layers. That selected objects exist, are different
  and outlined, and that nothing is outlined that is gone, holds in any case.
  `unseen` excuses only the layers that are in it.
- `SessionIsKept` also fails, by design, after a failed refresh: any failure
  clears the tokens of every tab (`client.js:136`), so `failures` must be 0.
- `HealthIsTold` is about a world at rest: between two polls the pill may be
  old, and a status of a worker that was killed is only noticed by the ping.

## 4. What is proved

`TaskPipeline_proofs` holds for every set of tasks, accounts, workers and
requests, every limit and number of faults. The only assumption is
`PipelineAssumption` (an owner for each task, `NoTask` is no task, `Limit` is
positive, `Faults` are known kinds, `MaxFaults` is a number).

- **`TypeCorrect`**: `Spec => []TypeOK`. `TypeOK` is inductive; one lemma per
  party (`HandlerType`, `WorkerType`, `WorkerFaultType`, `ReceiveType`), with
  `MergeType` for the update of a row.
- **`RowsAlwaysBacked`**: `Spec => []RowsAreBacked`. Not inductive: the commit
  of an upload needs file and owner, the commit of a worker writes a row back.
  The invariant `Backed` adds `UploadsAreBacked` (a request at COMMIT has
  stored its file, and its account is kept by the lock of the INSERT) and
  `LocksAreExclusive` (a worker between flush and COMMIT has a row that exists
  and that nobody else has flushed, so no step can remove it and the COMMIT
  does not bring a deleted row back).
- **`OneExecutionHolds`**: `Spec => []OneExecution`. The right to process a
  task is a token: `OneToken(t)` says that it is in one request, in one
  message or with one process, and nowhere before the upload. Without doubtful
  publishes and visibility timeouts (`Serial`) every step moves or drops it;
  `TokenStays` covers the steps that leave it alone.

The second half of the module is about what becomes of a task, under the same
assumption. Its base is `Known`: the invariants above, `Fresh` (a task nobody has begun has no message,
worker or detection), `Truthful` and `Written`.

- **`StatusAlwaysTruthful`**: `Spec => []StatusIsTruthful`. A commit writes
  what the session believes, so the invariant is about rows *and* the session
  objects that will be merged into them (`TruthfulRow`, `TruthfulSession`); in
  serial environments the session also agrees with the row it was loaded from
  (`OneWriter`), which is what rules out the progress of another execution.
- **`NothingEverStranded`**: `Spec => []NothingStranded`. `Settling`: whoever
  holds the token of a task that is not settled is at a point of the code from
  which it still writes the row or passes the token on.
- **`SettledStaysFinal`**: `Spec => SettledIsFinal`, an action property.
  `OneTry` says that a task with a message or a worker has not been settled,
  and `WhoWrites` names the steps that change a row at all.
- **`RepeatsAlwaysPaid`**: `Spec => []RepeatsNeedFaults`. `Paid(t)` counts
  faults, executions and the messages that still allow one.
- **`AlmostWithinLimit`**: `Spec => []SavedWithinLimit`. `Limited` gives each
  worker `w` between SELECT and COMMIT its `Room(w)`: were it to commit now,
  what would be saved of the account (`After(w)`), together with the older
  transactions that are still open (`Elders(w)`), stays below
  `Limit` plus the number of workers. Completion times are distinct.
- **`LimitAlwaysKeepsNewest`**: `Spec => LimitKeepsNewest`, an action property.

`Accounts_proofs` holds for any number of tabs, pairs of tokens, codes, forms
and failures (`AccountsAssumption`).

- **`AlwaysCalm`**: the inductive invariant `CalmInv`. `Sound` says that what
  requests, renewals and storages name exists and that a request is coherent
  with its state; `Remembered` that two requests which change tokens and
  overlap are in `crossed`; and while nothing has crossed, `Steady`: every live
  token was given under the password in force, a session has at most one, only
  the newest code is valid, and what a handler has read before its commit is
  still true (`RenewalHolds`, `FormsHold`). The last is the heart of it: the
  code takes no lock, and a handler may rely on what it read only because no
  other handler that writes is between read and commit.
- **`OldTokensAlwaysStop`**, **`OnlyNewestCodeEverWorks`** follow from it, and
  **`EndedIsAlwaysFinal`**: `Spec => EndedIsFinal` from `RenewalHolds` (a
  commit continues a session only from a live token).
- **`LogoutAlwaysEndsSession`**: `Spec => []LogoutEndsSession`. A logout
  revokes the one token it sends, so the session is over only if that token is
  the newest of its session. `TrackedInv` adds, as long as nothing has failed
  or crossed, `Tracked`: each token in a storage, a form or a refresh is the
  newest of its session or is being replaced by an answer under way.
- **`SessionIsAlwaysKept`**: `Spec => []SessionIsKept`. `KeptInv` adds, while
  profiles are all that was sent, that a tab which shows the application holds
  a token that lives or is about to get one (`Kept`, `FormKept`, `RenewKept`).

`Inference_proofs` is about every size, window and step. Of `Tiling`, with
`stride <= tile`:

- **`WindowsCoverTheImage`**: `TileWindows` leaves no pixel out. `StartsReach`
  finds, for a coordinate, a start of the grid at most `tile - 1` below it, or
  the last window; `StartsFit` keeps the windows inside the image.
- **`WindowsAreCounted`**: the arithmetic of `count_windows` gives the
  cardinality of the set of windows (`CountIsRight` for one side, a bijection
  of the grid with a segment of numbers, and one more start if the last window
  is not on the grid).

Of `Inference`, with `InferenceAssumption` (lengths and budgets are numbers,
windows overlap or touch):

- **`SnapshotsAreCovered`**: `Spec => []WindowsCover`. Not inductive as it
  stands: the invariant `IInv` says that the windows run and those left
  together are the windows of the working size (`IsCut`: they cover it, are
  finitely many, no more than planned, and as many if the pipeline has not made
  the image smaller), so that nothing is left at the end means that everything
  was run. That the number told is never too small needs `LimitedFits` (the
  pipeline makes no side longer) and `CountGrows` (a smaller image has no more
  windows); that the bar shows the share needs `ReportsShare` (what has been
  run only grows, so the guard of `on_progress` holds nothing back).

`JobQueue_proofs` (any number of jobs, threads and requests,
`JobQueueAssumption`):

- **`SlotsAlwaysRespected`**: `Spec => []SlotsRespected`. The invariant `IInv`
  says that free slots and those in use by threads and event loop add up to
  the limit (`SlotsAddUp`).
- **`QueueKeepsItsShape`**: `Spec => []TypeOK`. That positions stay below the
  number of jobs needs `Listed` (the entry at place `n` of the order has a
  number of at least `n`, and jobs are submitted by number) and `Submitted`
  (what is on its way was submitted).
- **`PositionsAlwaysHonest`**, **`OrderAlwaysDrains`**,
  **`PositionsOnlyShrink`**: two numbers describe the queue, and `InLine` says
  that they exist: the first `p` jobs have left `_order`, the first `s` have
  left the executor's queue (`Line(p, s)`). `Lined` makes `_order` and the work
  items the runs of numbers that follow `p` and `s`, `Held` says that each
  thread has a job of its own between the two, and `Told` that statuses fit
  and a queued job `j` is told `j - p - 1`. Positions shrink because `p` grows.
- **`AlwaysServesInOrder`**: `Spec => Fifo!Spec`, the refinement, step by step.
  What a job overtakes or runs beside is held by the other threads, and these
  are fewer than `limit`; that is the guard of `Begin`.

The last part of the module is about `ModelStatus`, which the run `jobs` has
beside the queue (any number of pool processes and models):

- **`KeyIsAlwaysTrue`**: `SpecMC => []KeyIsTrue`; fairness is not used.
  Inductive together with the shape of the processes (`KeyInv`):
  only one process at a time is the author of the key, and it changes its
  state only in the step that publishes (`PublishTrue`) or dies.

`TileLoading_proofs` (any number of calls, tiles and slots,
`TilesAssumption`):

- **`SlotsAlwaysUsed`**: `Spec => []SlotsAreUsed`. `CounterIsTrue` says that
  `inflight` counts the calls that hold a slot; for that, those that were
  woken and those in the queue form one line without repetitions
  (`LineIsQueued`), which moves on only when its head goes (`Waking`,
  `GoingOn`); `SlotsAreGiven` is the property for the counter.

The second half of the module is about `DzzConnection`, the other part of the
run `imagery` (any number of tile requests, checks, attempts and sessions,
`DzzAssumption`: these numbers are numbers, and a tile request is none of the
calls that have a name):

- **`FailureIsAlwaysWatched`**: `SpecMC => []FailureIsWatched`; fairness is not
  used. The panel and `tiles.js` each keep a flag of their own and a table of
  what is under way.
  `Counts` relates the flags (what `tiles.js` counts the panel looks for, and
  the other way round unless `missed`), `Watched` says that a timer is set or a
  check under way while the panel looks. `Watched` breaks, within a handler,
  between an answer and the next timer: the lemmas `ScheduledKeeps`,
  `ReportedKeeps` and `StoppedKeeps` are about what each helper of the panel
  does to its variables, and the handlers are put together from them.

`Browser_proofs` is about two parts of the run `browser`, first `MapTools` (any
number of objects, layers, points, tasks, marks and changes made elsewhere):

- **`ToolsAlwaysAgree`**: `SpecMC => []ToolsAgree`. The keys and clicks are
  functions from one `ui` to the next, and a lemma for each says that it keeps
  `Agree(ui, records, mixed, late)`: the modes and drafts fit together
  (`ModesOf`), and the selected objects are different, of one layer unless
  `mixed`, and outlined, what is outlined is known, and unless `late` nothing
  else is outlined (`SelectionOf`). What
  makes it hard is that answers come in between: an edit removes objects of
  the selection and adds new ones. `TasksFit` says what an edit that waits may
  rely on, `FlightFits` that at most one request is under way (`opChain`) and
  what it is about, served or not.
- **`StrokesAlwaysStay`**: `SpecMC => []StrokesStay`. `StrokesAreThere`:
  the strokes that the user was told of are in the shape the server has, except
  for an object that the one request under way has replaced already. It rests
  on the order of the edits: a request was computed from the shape that the
  one before it left (`RequestFits`), so it takes nothing back.

The inductive invariant of both is `ToolsInv`: shapes (`Typed`), `Agree`,
`TasksFit`, `FlightFits` and `StrokesAreThere`.

The second half of the module is about `SnapshotRun` (any number of runs,
classes, results and drawn objects, `SnapshotRunAssumption`: results consist of
classes, the bounds are numbers):

- **`SnapshotsAlwaysAgree`**: `Spec => []SnapshotsAgree`: numbers of a layer
  differ unless transactions overlapped, a result is on the map once and as a
  whole or not at all, what the user is told is true, the buttons come back.
  Its parts need each other, so `SnapInv` is proved as one, with a lemma per
  action. `Owned` gives a run a task of its own. `ResultIsThere` says that a
  run which has seen its task completed (`Past`) may rely on the result, though
  the row may go. `Publishing` is the transaction half way: what it has added
  and what is left (`todo`) are together what was wanted, and nothing of it is
  on the layers before. `Complete` follows at the commit and stays, because a
  run publishes once. `Numbers` adds to the property what makes it inductive:
  numbers within a transaction differ, those of a transaction differ from
  committed ones unless they overlapped, and two transactions that have not
  overlapped add to different layers. A new number is above those it was
  computed from only if there is a largest one (`Bounded`, `LargestExists`).
  `Controls` ties each button to the runs of its kind.

`MapModel_proofs` (any number of objects, layers, folders, commands and loads;
`MapModelAssumption`: objects are finitely many, each has a layer, the bounds
are numbers):

- **`ModelAlwaysAgrees`**: `SpecMC => []ModelAgrees`: when nothing is under way
  the copy is what the server has, what is shown is what the copy says but for
  the layers in `unseen`, and an object that is put into a folder leaves its
  neighbours where they are. For what is shown, `LearntShows` says of every
  kind of answer that does not redraw the map that it changes the visibility of
  nothing but what it removes or adds to `unseen`.
  `CopyAgrees` says nothing of the moments in which something is under way, so
  the invariant has to say it: with several commands between request and
  answer, neither copy nor server is what the other will be. As long as nothing
  is `excused`, the commands under way touch different layers and folders
  (`Touched`), and the difference can be told thing by thing (`Calm`): of what
  no command touches, the server has what the copy has (`Same`); of what one
  touches, what that command expects (`Expected`), which is the effect of its
  request if it has been served and nothing if not. For a command that goes on
  (`setFolderVisibility`, `assignObjectToFolder`) that needs what the copy says
  of the next requests (`Known`), that all of a folder that is deleted or
  switched belongs to its command (`Claims`), and, for `OthersStay`, which of
  the neighbours have their folder by themselves and which will be given it
  before the layer goes (`MovesOut`). `LoadsFit` is the same for loads: one
  that no change has overtaken (`dirty`) has read what the server has, and what
  it has not read is left to do. Each of `Start`, `Serve`, `Arrive`, `Fail`,
  `Read` and `Install` has its lemmas, by kind of request.
  `ModelInv`, the conjunction of these, was checked by TLC on a smaller
  instance before it was proved.

`MapEdits_proofs` (any ids, geometries, kinds of edits, numbers of edits and
failures, lengths of the undo stack; `MapEditsAssumption`). The theorems assume
`~Overlap`, as the run `edits` does: no agent begins before the others have
ended. With `Overlap` the property `StoreIsCurrent` is false, and TLC finds how
in seven states: the server merges two objects for the map tools and then
deletes the merged one for the panel, the client takes the answer to the
deletion first, and the answer to the merge puts the object back. What becomes
of the stack is the run `overlap`.

- **`StoreStaysCurrent`**: `Spec => []StoreIsCurrent`. The client applies each
  answer to its own copy (`Shown`), which has to do to the copy what the
  handler did to the database (`After`), cascades included; the lemma
  `ShownIsAfter` compares the two, request by request. But an undo that
  recreates a layer or a folder leaves the copy behind on purpose and loads the
  map again in the middle of its requests, and the handlers refuse requests, so
  the invariant `EditsInv` follows an agent through three states: each answer
  makes the copy current again (`OneByOne`); a reload is still to come, and the
  copy is current or the run has had an effect, so that giving it up is
  recorded (`WillReload`); or the layers are being listed one after the other,
  and what was received is what the server has, while every object that is
  missing is in a layer still to be asked for (`IsLoading`, `ListedBy`).
  That every list of requests fits one of the three is what `RedoFits`,
  `UndoFits`, `EditsFit` and `TweaksFit` show; `AscendingFits` that the layers
  are all listed.
- **`EditsAreTyped`**: `Spec => []TypeOK`. The maps are sound (`Sound`: no
  reference leads to what is gone, and the standard layer stays) after every
  handler (`AfterFits`), because `delete_layer` and `delete_folder` take their
  references along; aliases only lead to greater ids that were given out
  (`AliasOK`), so resolving an id ends and yields an id (`NewestFrom`,
  `ResolveFits`); and `PushFits` keeps stack, cursor and recorded maps together
  when the stack is cut behind the cursor and before `MAX`.

`NewestFrom`, `RestoresUpTo` and `Ordered` show that what the model defines by
recursion on a number exists at all, by looking at the least number for which
it would not (well-founded induction, `WFMin`). `EditsInv` was checked by TLC on
the instance of `edits` before it was proved.

Three runs (`jobs`, `imagery` and `browser`) check sums of modules.
The theorems about their parts state the properties for the specification of
the sum itself: **`KeyIsAlwaysTrue`** and **`WindowsAlwaysCover`** of
`JobQueue_proofs`, **`FailureIsAlwaysWatched`** of `TileLoading_proofs`, and
the theorems of `Browser_proofs` and `MapModel_proofs`. A step of the sum is a
step of the part or leaves its variables alone. Most are proved about the
instance directly; `WindowsCover` has a theorem of its own module
(`SnapshotsAreCovered`), and the lemma `SameWindows` says that the two
instances of it define the same operators.

Model-checked only:

- that the scale keeps the budget (an assumption of `MCJobQueue`, evaluated for
  every image of the run: the scale is a recursion of 200 steps, and with a
  target below 13 units its rounding would not even let it grow);
- what `MapEdits` says of the past: `HistoryIsExact`, `NothingIsMissing` and
  `FailedUndoLosesNothing`. They compare what a sequence of inverses makes of a
  map with what was recorded, so the invariant would have to relate every entry
  of the stack, under ids that are renewed on the way, to the maps before and
  after it, and the requests of an entry to their combined effect. That is
  induction over data in every step, which the induction theorems of the
  library allow only with an operator as a parameter, and the provers cannot
  instantiate one. Where a least or largest element is enough (`LargestExists`,
  `NewestFrom`), well-founded induction does it;
- liveness (`EverythingSettles`, `JobsEnd`, `HealthIsTold`, `PanelAgrees`),
  which rests on fairness and ENABLED, which the prover does not handle.

## 5. Findings

- **A task that is being processed can be deleted** (`delete`,
  `DeletesOnlyIdleTasks`). `delete_task` checks the status it has read
  (`service.py:236`), and deletes by id without a condition. A worker that
  takes the task in between works on a row that goes away, which it notices at
  its next commit. The answer 409 says that only PENDING and FAILED tasks can
  be deleted. The same window lets a *saved* task be deleted, and then
  `enforce_task_limit` of another worker may remove one task too many (reading
  of `LimitKeepsNewest` in section 3).
- **A deletion that overlaps an undo cannot be undone** (`overlap`,
  `DeletionsCanBeUndone`). `run` awaits the entry and then moves the cursor it
  reads after that (`undo.js:37`). If the user deletes an object in the panel
  meanwhile, the cursor ends below the deletion, which was not undone: Ctrl+Z
  passes over it, and the dialog had promised that it can be undone
  (`panel.js:302`).
- **A merge of an object with itself deletes it** (`merge`,
  `MergeKeepsTheFirst`). After an undo that failed half way, an object can be
  there twice; merging the two, undoing and redoing resolves both ids to the
  same object, and `merge_objects` (`service.py:332`) deletes what it has just
  kept. `ops.js:94` says that the server keeps the first object.
- **The windows budget is not kept** (`budget`, `WithinBudget`).
  `run_inference` computes the ground size of a pixel only without
  `pixel_space` (`workers.py:91`), and `create_task` sets that flag for each
  snapshot that has a transform (`service.py:117` and `:126`). So the size is
  never known, `choose_working_scale` leaves every snapshot as it is, and a
  large one runs any number of windows. `config.py:43` promises a number of
  windows that is bounded.

## 6. What is not modelled

- Answers that are lost after the server has served a request of an *undo*:
  `MapEdits` refuses requests before they have an effect. `MapModel` and
  `Accounts` lose answers too. What a lost answer does to an undo is listed as
  a hazard.
- Undo entries of the marks that live in the browser only (ruler, compass,
  text), which cannot fail; import and export, which are formatting; geometry
  itself (unions, buffers, polygons of masks), which is floating-point data.
- Ties of `completed_at`; the local fallback of the storage; georeferencing.
- The question with which an upload is confirmed: it covers the page, so
  `StartUploadP` is one step with the click. The lower bound of 32 pixels for
  the side of a window (`max(32, ...)`); the side comes with the model and is
  512 by default.
- The expiry of refresh tokens and reset codes by time, names, avatars and
  roles; limits on the rate of requests; e-mail, which is sent and forgotten.
- WMTS capabilities and URLs of dzz.by, the choice of a tile grid.
- The networks, training and image processing: numerical functions without a
  protocol. Configuration, migrations, the activity log, the QGIS plugin:
  input and output, or nothing that depends on order.
- Components that are named "partly" in `PROJECT.json` say there what is left
  out of them.

## 7. Plan

Done, in this order: `TaskPipeline` with its proofs, `FifoJobs`/`JobQueue`,
`MapEdits`, `Accounts`, `DzzConnection`, `TileLoading`, `MapTools`,
`MapModel`, `SnapshotRun`, `ModelStatus`, `Tiling` and `Inference`, with the
proofs of section 4.

To come, the most important first:

1. Theorems: `NothingIsMissing`, then `HistoryIsExact`, from `EditsInv` and an
   invariant that relates each entry of the stack to the maps around it; that
   `TileLoading` implements a counting semaphore.
2. `SnapshotRun` over `TaskPipeline` instead of outcomes, so that a limit of
   ten minutes meets a redelivered message.
3. Lost answers in `MapEdits`, once there is a promise to hold them against.
