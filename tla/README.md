# async-workflow-engine: a TLA+ verification project

The engine (`src/src/workflow_engine`) runs declarative workflows: a YAML text
names steps, the task of each, what it depends on and an optional condition.
This directory holds TLA+ modules for the parts of the engine whose correctness
depends on order, concurrency or failure, TLC configurations that check them on
small instances, and TLAPS proofs of the most important properties for every
instance. `PROJECT.json` maps every definition to the source lines it models and
lists the runs, the mutants, the hazards and the theorems. Source paths below
are relative to `src/src/workflow_engine` unless they name another directory.

## 1. Inventory of the system

| Part | State | Operations | Who uses it |
|---|---|---|---|
| Parser (`parser.py`), DAG projection (`dag.py`) | none | `load_workflow_yaml`, schema validators, `detect_cycles`; `build_dag` | every handler that takes a definition, `run_workflow`; the DAG endpoint |
| Executor (`executor.py`, `trace.py`, `contracts.py`) | statuses, results, errors, retry counters, dead letters, trace | `execute`, sequential or in layers on a thread pool | `run_workflow` |
| Tasks (`tasks.py`, vendored `docparse.py`, `llm.py`) | none | `parse_text` with its chunking, `classify_with_llm` with its fallbacks | executor |
| Scheduler (`scheduler.py`) and its stores | schedules with `next_run` | `register`, `unregister`, `due`, `mark_ran`, `dispatch_due` | `/schedules` handlers, Celery beat task |
| Idempotency stores (`contracts.py`, `storage_db.py`) | set of claims | `claim`, test and set | scheduler, `/workflows/run`, `/webhooks/{name}` |
| Dispatch and runner (`main.py`, `runner.py`) | none of their own | `_dispatch`: lock, run, save; `run_workflow`: version, parse, execute, save run, save events | run, rerun, webhook and schedule handlers, worker |
| Locks (`locks.py`) | held keys | `acquire` as a context manager, in process or in Redis with a time to live | `_dispatch` |
| Run storage and events (`storage.py`, `storage_db.py`, `trace_store.py`) | run records, events per run | `save_run` replaces a record, `save` replaces events | runner, read handlers |
| Versions (`versions.py`) | content hash -> definition | `put`, `get` | runner, `_dispatch`, worker |
| Worker (`worker.py`) | none | `run_workflow_task` with up to two retries, `run_due_schedules` | Celery |
| Probe and services (`db.py`, `runtime.py`) | `db_available`, stores in memory | `probe_database`, `get_storage`, `get_runtime_services` | start of the API, every worker task |
| Database schema (`models.py`, vendored `database.py`, `src/alembic/versions`) | tables, a column, the revision | `create_all`, `upgrade`, `downgrade` | the probe, an operator |
| Webhooks (`webhooks.py`, `storage_db.py`) | name -> trigger | `register`, `get`, `verify_signature` | webhook handlers |
| Access (`auth.py`) | buckets of the rate limiter | `authorize`, `allow` | every handler, by `_check_access` |
| Error envelopes, read handlers, rest of the vendored library, dashboard, demonstration script | none that matters to a run | | |

How they interact: a handler of `main.py` passes `_check_access` and calls
`_dispatch`, which calls `run_workflow` or queues a message for a worker that
does; `run_workflow` parses the definition, runs an executor and saves what it
left behind. The scheduler calls the same `_dispatch` for every schedule that is
due, and protects itself against concurrent ticks with the idempotency store.
API handlers run in a pool of request threads, `trigger_webhook` on the event
loop, workers in other processes; the stores are their only common state, and
which stores a process has is decided by its own probe.

What is hard:

* **executor** - threads of a layer write statuses, results and dead letters
  while the main thread still copies contexts for later submissions; a condition
  is decided before the layer runs and must stay right; retries are reported
  after the fact in parallel mode; the `while` loop must stop on what cannot run
  and must not stop on what can.
* **parser** - repeated dependencies and condition sources count several times
  in Kahn's in-degrees; the verdict is what protects the executor from cycles,
  and the DAG is derived a second time by other code.
* **scheduler** - several ticks at once over lists read earlier; a claim, a
  dispatch and the advance of `next_run` are three steps, each of which can be
  the last one; `mark_ran` reads and writes in two transactions.
* **dispatch** - claims burned by failing requests, saves in two transactions,
  locks that expire, executions that are repeated.
* **backend** - every process decides for itself, and workers again and again;
  two sources of tables (`create_all` and the revisions) race with each other.
* **webhooks and access** - a coroutine that waits between two reads of one
  registration; rows written column by column; fixed windows.
* **tasks** - an overlap or a size for which a loop does not end or loses
  characters; an LLM call that fails in half a dozen ways.

What makes each part correct: the executor runs every step at most once, after
all it needs, with the right context and the right branch decision, and ends;
what it reports (status, trace, hooks, dead letters) is what happened. The parser
accepts exactly what the executor can finish. The scheduler serves every due
fire time once, not early, and keeps on serving. Dispatch admits one request per
idempotency key and, under the lock, one run per definition; it frees what it
holds however it ends, saves a run together with its events and a version that
can be found again, and answers. A probe tells the truth about the database, and
what was stored is found again. A webhook fires what was registered, for who may
fire it, once per key. Chunks are all of a text.

## 2. Modules

| Module | Models | Used by |
|---|---|---|
| `Workflow` | a `WorkflowConfig`: steps by position, `depends_on`, conditions, retries, and its graph | executor and parser |
| `StepLifecycle` | abstract: what a run promises about statuses and results | implemented by `Executor` |
| `Executor` | `WorkflowExecutor`, main thread and pool threads | `MCExecutor`, `ExecutorProofs` |
| `Parser` | `load_workflow_yaml`, `detect_cycles`, `build_dag` | `MCParser`, `ParserProofs` |
| `Scheduler` | `WorkflowScheduler`, its stores, its concurrent callers and its clients | `SchedulerProofs` |
| `Dispatch` | `/workflows/run`, rerun, `_dispatch`, `run_workflow`, the Celery task, the locks and the database stores | `MCDispatch`, `DispatchProofs` |
| `Schema` | tables, `create_all`, the revisions, as operators | `Backend` |
| `Backend` | probes, outages, deaths and the choice of stores in the API and in workers | `MCBackend`, `BackendProofs` |
| `Access` | `authorize` and the rate limiter; a specification of its own | `Webhooks`, `AccessProofs` |
| `Webhooks` | registration and firing over both stores, composed with `Access` | `MCWebhooks`, `WebhooksProofs` |
| `Chunking` | `chunk_text` in its three strategies | `Tasks` |
| `Tasks` | `parse_text` (with `Chunking`) and `classify_with_llm` | `MCTasks`, `TasksProofs` |
| `...Proofs` | theorems | |
| `MC...` | constants of the runs | |

**Executor.** `pc` is the place in `execute()`: `loop` (the `while` head), `scan`
(the loop over `config.steps` shared by `_run_legacy_yaml_order` and
`_collect_runnable`, with `cursor` as loop variable), `launch`, `submit`,
`await`, `publish` (the four phases of `_run_parallel`, with `todo` as the rest
of the list). `task[s]` is the place in `_run_with_retry` of the thread that runs
`s`. In sequential mode the main thread is that thread: the layer is the one step
and `pc` waits in `await`. An atomic step
makes one access to state that another thread reads concurrently: until the join
that is `results` alone, so the status, the error and the dead letter that a
thread writes next to its result or instead of it are part of the same step.
The result of a task is any member of `Values` or an exception, chosen
anew for every attempt. A condition is the set of results it accepts; a source
without a result is in no such set, which is `StepCondition.evaluate` on `None`.
`FloatExponent` is the exponent for which `0.5 * 2**attempt` is no longer a
float; 1024 in the program.

**Parser.** One action per iteration: `AddEdge` per dependency, `Seed` per step when
the queue is filled, `Pop` and `Relax` per queue entry and neighbour; `NextStep`,
`Counted`, `Seeded` and `Relaxed` leave the loops. A definition is kept as written (lists with
repetitions, unknown ids, duplicate ids, negative retries), and `Loaded` is what
the executor would be given. `BuildDag` is `build_dag` of an accepted definition.

**Scheduler.** `TickStart` is `due()`, `TickClaim` the claim of one list entry,
`Dispatch` and `DispatchRaises` the call of `_dispatch`, `MarkGet` and `MarkPut`
the two halves of `mark_ran`. Every `register()` makes a numbered object, and the
store maps names to numbers, so that writing back an old copy over a newer
registration, or after a removal, is visible. `Aliased` selects the store:
`FireTime` reads the live object (in memory) or the copy (database). A cron
expression is the period with which it fires.

**Dispatch.** A thread is a request of the API process or a worker, and `pc[t]` is
its place: `claim`, `lock`, `pin`, `put`, `insert`, `enqueue`, `parse`, `save`,
`events`, `return`. Sync requests and workers share the actions of
`run_workflow`; an exception becomes an answer of the one and a retry of the
other (`Raise`). Each store operation is a transaction and a step; `put` of a
version is two, since it looks and then inserts, and a database that refuses
the second insert is `InsertConflict`. `text[t]` is the variable
`yaml_definition` of `run_workflow`, which a pinned version replaces.
An execution may raise although its definition is accepted (`ExecuteRaises`: the
back-off overflows in `execute()`), which no handler turns into an answer of its own,
so the reply is 500; and a retry has to be queued, which the broker may refuse.
`Hash` makes two texts equal that differ in formatting only. The lock of
a definition is held by a thread, which stands for the owner token. An
execution (request, number of retries) is what a record and its events must
agree on; the tasks themselves are module `Executor`'s subject. The error for a
pinned version that is not stored and the worker's `put` before `run_workflow`
have no action, because `PinnedStored` shows that they are never reached with a
common database.

**Backend.** Here a run is only stored or not; the subject is where. `ProbeLook`
and `ProbeCreate` are the two halves of `create_all`, `ProbeFails` any exception
of `probe_database`. `available[p]` is the `db_available` of process `p` and
`memory[p]` its offline stores. The API probes once, in `lifespan`; a worker at
the start of every task. A request goes through the transactions of `_dispatch` one
by one: `PutLook` and `PutInsert` (the version), `Submit` or `RunInline`
(`save_run`), `RunInlineEvents`; `Refuse` is an error at any of these stages, after
which what was stored stays. A task has the same stages, and fails in three ways
(`TaskFails`): a transaction fails (`TransactionFails`), another process has
inserted the same version since the look (`InsertConflict`), or `run_workflow`
raises (`WorkflowRaises`: the definition is refused, or its execution raises, which
is a property of the definition: `Refused`, `Raising`). `worker.py:86` catches all
of them alike: `Retry` queues the task again, gives it up, or loses it when the
broker fails too. `Asked` says which definition a client sends for each run; two
runs may be of one definition, and then race for its version. `DatabaseDown`,
`ApiDies`, `WorkerDies` and `UpgradeHead` (an operator's `alembic upgrade head`) happen
at any time within their bounds.
`known` is what the API has answered a client with.

**Access and Webhooks.** `Access` has the clock and the counters; `admitted` is
a history of admissions. `Webhooks` extends it: every request begins with
`Admit` or `Limited` in the bucket of its key, or of its address if the key is
unknown, and other endpoints drive the same counters (`OtherRequest`). A database
registration is `RegisterLoad` (`session.get`) and `RegisterCommit`, which writes
the columns that differ from what was loaded; the in-memory one is a single step.
`trigger_webhook` reads the registration in `TriggerGet`, waits for the body, and
reads it again in `VerifySignature`. A signature is the secret it was made with.
`during[q]` is a history: every row that was stored while `q` was served.

**Chunking and Tasks.** A text is the sequence of the lengths of its sentences or
blocks; a chunk is a range of characters of a range of them. Slices count
negative positions from the end, as Python does. The state of `classify_with_llm`
is the place in its chain of fallbacks; what an LLM call meets is the record
`World`. `hits` says how often each label occurs in the text; in a text without
any signal the digest picks some label.

Faulty variants (`...Early`, `...Always`, ...) stand beside the definitions they
vary; no specification uses them. `PROJECT.json` pairs each with a property that
it breaks, which shows that the property depends on that line of code.

## 3. Runs

Every property has a comment in its module that states it; some are a conjunction
of parts that are named and commented in the same way. Passing runs:

| Run | Instance | States |
|---|---|---|
| `executor_graphs` | all 512 graphs over three steps and acyclic ones with conditions, limits 0 and 2 | 44,407 |
| `executor_threads` | five definitions of four steps with retries, limits 0, 2, 3 | 59,754 |
| `parser` | lists of up to two entries over three steps, with condition sources; refused texts | 111,793 |
| `scheduler` | two names, two registrations, two callers, time up to 2, database store | 221,156 |
| `dispatch` | two requests, one worker, five texts, three lock settings, one retry | 344,498 |
| `backend` | the API, one worker, two runs of two definitions, one of which may raise, two outages, one death, one retry, three starting revisions | 842,474 |
| `webhooks` | two requests, four triggers, three senders, limit 2 in a window of 2, time up to 3 | 385,099 |
| `tasks` | texts of up to three pieces of up to 3 or one of up to 10, sizes from -2 to 9 | 244,947 |

* `executor_graphs` - order (`DependencyOrder`), branch decisions
  (`ConditionDecides`), contexts (`ContextHasNeeds`), the end of the loop
  (`RunsResolve`: `StopsOnlyWhenBlocked` and `AcyclicRunsResolve`), reports
  (`ReportsSound`: `RunStatusSound` and `HookSeesFinalStatus`), the refinement of
  `StepLifecycle` (`ImplementsLifecycle`) and termination. Three steps are enough
  for a step that depends on two others, for a chain, and for a layer wider than
  one; conditions have sources that complete, fail, are skipped or come later.
* `executor_threads` - a diamond with a branch, a list in which dependents come
  first, a layer of three, more retries than the back-off can be computed for
  (with `FloatExponent` 2 in place of 1024), an unregistered task. Checks the
  trace (`TraceSound`: `TraceFaithful` and `TracePublishOrder`) and the dead
  letters. That no more than `max_workers` steps run at once is `PoolHasRoom`, the
  guarantee of `ThreadPoolExecutor`, and so an assumption here and no property.
* `parser` - the verdict against acyclicity defined by a ranking, and
  `SearchSound`: the pop order, the list of steps in the error message against
  the largest set of steps that wait for one another, and the DAG against the
  graph that was searched.
* `scheduler` - with re-registration, removal, failing dispatches and crashes:
  a fire time is dispatched at most once and never early; what stays due for ever
  is an orphaned fire time (`OnlyOrphansStayDue`); `next_run` of a sole
  registration never moves back. With time up to 2 a schedule of period 1 has two
  fire times and one of period 2 has one.
* `dispatch` - texts that are stored, new, differently formatted, refused by the
  parser and not YAML; every store operation, the broker and an accepted execution
  may fail. Two
  requests are enough for every race of the handlers, and one retry
  (`MaxRetries` 1 for 2) for an execution that repeats what was saved.
  `LocksSound` and `ReleaseByOwner` are about the lock, `KeyDispatchedOnce` about
  the claim, `PinnedStored` and `VersionsFinal` about versions,
  `SavedRunConsistent` about the two saves, `Settles` about answers.
* `backend` - `ProbeSound`: a process that chose the database can use it, and a
  failed probe of a database that was never away has lost a race against somebody
  who created everything. `StoresShared`: what the API has answered with is found
  again, and as long as no probe has failed workers and API see the same runs.
  `GivenUpByOutages`: a task whose definition is accepted and whose execution does
  not raise is given up only after an outage for each attempt, where a lost race for
  its version, of which a task has at most one, counts like an outage. A definition
  that the parser refuses is retried and given up without any outage
  (an asynchronous request stores its hash and queues it unparsed), and so may be one
  whose execution raises; of these the property says nothing, except that they do
  not make others fail. The instance has a raising definition and no refused one:
  every behaviour of a refused definition is also one of a raising one.
  `UpgradeReversible`: a downgrade undoes the upgrade. A migration succeeds only on
  a database to which `create_all` has added nothing, so these are two cases, the
  upgrades from the empty database and from revision 0001. `TasksSettle`. Two outages
  against one retry are one more than the attempts of a task.
* `webhooks` - `LimiterSound` (bounds in both directions), `FiredFromRegistration`,
  `KeysSound` (a key fires once, and is used up by nothing that was refused for
  its signature), `LoneRegistrationStored`. The requests are interchangeable, and
  the run uses that symmetry. Time up to 3 with a window of 2 has an expired window
  in it, and with a limit of 2 twice the limit around its end.
* `tasks` - `ChunksSound`: no character is lost (`Covering`), no chunk is too long
  (`SizeKept`) or superfluous (`Advancing`, `Greedy`), and sizes below one do not
  end unless there is nothing to cut (`EndlessBelowOne`). The engine's own call, in
  `parse_text`, is of the fixed strategy without overlap; the other strategies and
  overlaps are those that the library offers. `SimulatedBest`: the
  offline label is a best one and does not depend on the order of the labels.
  `Finishes`: both tasks end. `MaxChunks` 12 is more than any text of the instance
  needs, and stops the loops that do not end.

Runs that show where the program and its documentation disagree:

* `executor_failure_stops` - a step runs although a step it depends on has failed.
  `resolved` contains failed steps (`executor.py:110`), `docs/architecture.md:73`
  speaks of the completed set.
* `scheduler_stuck` - a dispatch that raises once leaves the claim behind and
  `next_run` where it was: no later tick serves the schedule (`scheduler.py:172`).
* `backend_upgrade` - the probe of the first process creates the missing tables
  without recording a revision, and the migration that `README.md:108` asks for
  then fails (`internal/vendor_core/database.py:139`).
* `webhooks_two_reads` - the definition of the first read is fired on a signature
  that only the second registration accepts (`webhooks.py:94`).

Deviations that were found while modelling and that no run of their own shows:

* the back-off overflows before it is capped (`executor.py:245`): the exception ends
  the run, and the step has no dead letter. It needs 1024 failed attempts; nothing
  bounds `retries`. (`executor_threads` has it, and `DeadLettersExact` allows for it.)
* with the in-memory store `due()` lists the stored objects, so a second tick reads
  `next_run` after the first one advanced it, and dispatches a future fire time
  (`scheduler.py:171`). `NeverEarly` is false with `Aliased = TRUE`.
* a removal between the two halves of `mark_ran` is undone by its `put`
  (`scheduler.py:155`), and so is a new registration.
* a run that takes longer than 60 seconds outlives its Redis key (`locks.py:57`) and
  overlaps with the next run of the definition; `ExclusiveRuns` is about the lock
  of the process only.
* two registrations of one webhook that overlap in the database leave a row with
  columns of both (`storage_db.py:257`); `LoneRegistrationStored` excludes that.
* the answer of an LLM is not compared with the labels (`tasks.py:82`); an LLM is
  never asked from a thread with an event loop, nor with a key of the other
  provider: the task answers offline instead.
* `chunk_text` with a size below one does not end (`docparse.py:214`).

Deadlock is checked in the runs of the executor, the parser, the scheduler and
dispatch, where a finished system stutters or never ends. It is off where the
system really comes to rest: `backend`, `webhooks` and `tasks`, when the bounded
requests, outages, deaths and time are used up.

## 4. Fairness

* Executor: weak fairness of the main thread and of each task thread. The main
  thread never waits on anything but the pool, and the operating system schedules
  threads. A task is assumed to return or raise: the engine has no time limit of
  its own, Celery's `task_time_limit` bounds it in workers.
* Parser and tasks: weak fairness of their single thread.
* Scheduler: time passes, a tick goes on once it has begun, and ticks are called
  again and again (an external cron on `/schedules/run-due`, or Celery beat).
  Nothing is assumed of clients, failures and crashes; `OnlyOrphansStayDue` speaks
  of behaviours in which crashes come to an end. A process that dies when its list
  is empty is the end of its tick, so `Crash` needs something left to do.
* Dispatch: weak fairness of each request once it has arrived and of each worker:
  no handler waits for another (a held lock is refused, not awaited), and a
  Celery worker takes the next message when it is idle. Nothing is assumed of
  clients, of failures and of the expiry of locks.
* Backend: weak fairness of the workers. Nobody owes a request, and the database
  need not come back.

## 5. Proofs

Every invariant and every action property that a passing run checks is also a
theorem, for every value of the constants that the named assumptions of the modules
allow. Each proof has the same shape: an inductive invariant, a conjunction of named
parts that TLC checked on the instance of the run first; one lemma per part or per
action that it is preserved; and the property as a consequence of it.

**`ExecutorProofs`**, for every number of steps, set of definitions, limits and
values:

* `DependencyOrderHolds`, `ConditionDecidesHolds`, `RunsResolveHolds` and
  `Refinement`, that every step of the executor is a step of `StepLifecycle` or
  leaves statuses and results alone, from `IInv`. `DependencyOrder` alone is not
  inductive: that a scanned step waits only for *ended* steps follows from
  `resolved` holding ended steps only, which follows from a layer being resolved
  only after the join, which depends on the phase of `_run_parallel`. `IInv` says
  so: `StatusInv` (status against thread, result and sets of the main thread),
  `NeedsInv` (what is in a layer or resolved waits for resolved steps only),
  `GateInv` (the decision on its condition still holds), `LayerInv` (what each
  phase knows of layer, `todo` and threads), `ScanInv` (what a scan without
  progress knows of the steps behind the cursor). `RunsResolve` takes a step of
  least rank among those left over by the break (well-founded order on the
  naturals): what it waits for is not left over.
* `ContextHasNeedsHolds`: a context is copied while threads of the same layer add
  results, but what the task needs was resolved before and is complete.
* `DeadLettersExactHolds`, with `AttemptInv`: the attempts of a thread against the
  retries of its step.
* `ReportsSoundHolds`: `OutcomeInv` (the status was computed from what the steps
  still are) and `HookInv` (the hook was told of exactly the steps in `Told`, the
  resolved ones and those of the layer that were published).
* `TraceSoundHolds`: `TraceInv` says what the trace has told of each step *so far*
  (`Sofar`), with the retries that sequential mode reports live and parallel mode
  when it publishes, and `CountInv` ties the two counters of `_run_with_retry` to
  the place of the thread. The trace is looked at through the set of places of a
  step (`Places`), so that an appended event is a lemma about a set
  and its cardinality. `FreshInv` holds the order in which a layer is closed.

Assumptions: `NumSteps` is a natural number, no task returns the marker for an
absent result, a definition has the shape of a `WorkflowConfig` with at most one
condition per step, limits are natural numbers.

**`ParserProofs`**, for every number of steps and every definition: `TypeCorrect`,
`VerdictCorrectHolds`, `SearchSoundHolds`. The core is `DegreeInv`: an in-degree is
the number of places of the adjacency lists that still hold the step back
(`Pending`), so that a dependency that is listed twice counts twice and is taken off
twice, and no in-degree becomes negative. `EdgeInv` relates the lists to the
definition while they are filled, `QueueInv` says that the steps nothing holds back
are those that were queued, each once, and `OrderInv` that what a popped step needs
was popped before. For an accepted definition the place in `order` is a ranking,
which makes the graph acyclic; for a refused one the steps that were never popped
wait for each other, and a step of least rank among them would not. `SearchSound`
follows for the steps named in the error and for the graph that `build_dag` shows.
Assumptions: a definition has at most one condition per step, and one whose ids are
all different has them in the order of the steps (which is a choice of names).

**`SchedulerProofs`**, for any number of callers, names, registrations and any bound
of the clock: `TypeCorrect`; `AtMostOnceHolds` for both stores, with failures and
crashes, from `ClaimInv` (every dispatch made or about to be made owns its claim,
and no two callers are about to make the same one); `NeverEarlyHolds` for the
database store, from `DueInv` (what a tick holds was due when it was read);
`OnlyForwardHolds` for both stores, from `LoneInv`: as long as one registration is all
there is, an item that a caller holds has the fire time that stands or one that is
claimed already, so that at most one caller is between its claim and the end of its
`mark_ran`, and the time it read there is late enough for the next firing after it
to be no earlier (`NextFireMonotone`).

**`DispatchProofs`**, for any number of requests and workers, any texts and hash,
every lock setting and every choice of failures: all properties of
the run but `Settles`, from the inductive invariant `IInv`. Its parts:

* `PlaceInv` - what a thread has at each place: a job, a text that has a hash behind
  `put`, synchronous requests only between lock and release.
* `VersionInv` - what pins a version finds it stored, and so does a thread behind
  `put`. It is inductive because versions are never overwritten (`VersionsGrow`,
  which is also `VersionsAreFinal`).
* `LockInv` - a held lock belongs to a request inside for that hash, and with the
  lock of the process every request inside holds its lock: `LocksAreSound`. Only
  `Acquire` lets a request in, and only an answer lets it out, with the release.
* `KeyInv` - the owner of a claimed key is unique: `KeyIsDispatchedOnce`.
* `RunInv` - however often a run is executed again, its definition keeps its hash:
  through reruns, pinned versions, messages and retries. That is why the lock of a
  definition protects a run id.
* `SaveInv` - between its two saves a protected run is the last one saved under its
  id: `SavedRunIsConsistent`.

Assumptions: the texts and names of different kinds are different, requests are not
workers, the lock settings are those of the program.

**`AccessProofs`** and **`WebhooksProofs`**: `AccessInvariant` relates every counter to
the history of admissions (the counter counts the last admissions, whose window
begins with the first of them, and windows do not overlap); `LimiterIsSound`
follows for every limit and window. `ImplementsAccess` shows that the endpoints
together drive the limiter as `AccessSpec` allows, so that `WebhooksLimiterSound`
is the same theorem again. `FiresWhatWasRegistered`, `KeysAreSound` and
`LoneRegistrationIsStored` are the other properties of the run, for any number
of requests, both stores and every interleaving with the wait for the body.

**`BackendProofs`**, for any number of workers, runs, retries, outages and deaths and
every set of schemas the database may start with: `TypeCorrect`, `ProbeSoundHolds`,
`StoresSharedHolds`, `GivenUpByOutagesHolds`, `UpgradeReversibleHolds`. `SchemaInv` lists
the only schemas there can be (the one the database started with, that one completed by
`create_all`, and the head of the migrations), `ProbeInv` what a probe between its look
and its create knows of the schema, `StoreInv` where what was answered or done
is found, `RequestsInv` that a request in progress has an API that serves it.
`OutageInv` counts the failures of each try: a try before the current one of a sound
task had an outage of its own (`OutageForEachTry`, from the place in the task, the
outages so far and whether the database is away now) or was the lost race, after
which the version is there for good (`OvertakenInv`).

**`TasksProofs`**, for every text, strategy, size and overlap, and for every list of
labels and their counts: `TypeCorrect`, `ChunksSoundHolds`, `SimulatedBestHolds`.
`Covering` needs `CoverInv`: every character that was read is in a chunk or among the
sentences that are in none yet, and in the middle of a piece every character before
`start` is. `Advancing` needs `LinkInv`: what the chunk before has in common with the
next one, whose start is known before it is cut, with the overlap `Target`, which
is smaller than a chunk (`OverlapFacts`). For sizes below one `LoopInv` keeps `start` at
or below 0, so that the end of a piece is never reached; for the others
`ChunkingAdvances` says that no position of the loops leaves the text and that every
turn moves one of them on, which is the safety half of `Ends`. `SimulatedBest` needs a best
label to exist: a least element of the counts, turned around, and among those of the
ranks (`LeastElement`). Assumptions: sizes are integers, overlaps natural numbers,
labels are listed in `Alphabet`, and `None` is neither a label nor a source.

## 6. What is only model-checked

Liveness under fairness, which the prover does not do: `Terminates`, `Decides`,
`OnlyOrphansStayDue`, `Settles`, `TasksSettle`, `Finishes` (of which `ChunkingAdvances`
proves what fairness does not give). The four properties that are
violated have runs only.

## 7. Not modelled, and the plan

Every safety property of a run is proved. What the models leave out is what the plan
has left: the in-memory store of versions and failures of the Redis connection in
`Dispatch`; and, in the manner of `ChunkingAdvances`, the safety half of `Terminates` and
`Decides`: that every round of the executor and every turn of the search moves on.

Simplifications to keep in mind. The broker delivers every message once and keeps it
until then. In `Dispatch` the API is one process, a rerun reads the record as it
arrives, two concurrent saves of one run id are one after the other (the rows of an
event have no unique key, so that the database could mix two saves, or it may refuse
one of them, which is `StoreFails`), and failures of the Redis connection are left
out. A failure between the two saves leaves a record with older events or none; the
models have the step and no property, since nothing is promised of such a record. In
`Backend` a run is executed under an id of its own, and the look for a version by the
task and by `put` is one. In `Scheduler` the `put` of `mark_ran` writes the whole row,
where the program's commit sends the columns that differ from what `put` has read
(`storage_db.py:185`); no verdict of a run depends on it. In `Parser` a mapping with
keys that are no strings, for which `WorkflowConfig(**data)` raises a `TypeError`, is
not among the texts. In `Webhooks` all requests are
about one name, and the body that the signature is computed from is not
distinguished from others. The in-memory stores of versions and events appear in
`Backend` as the memory of a process only.

Left out for good: YAML and cron syntax, the HMAC computation, HTTP envelopes and
read-only handlers, `send_notification` and `always_fail` (they have no state), the
vendored wrappers of SQLAlchemy, Redis and Celery, document readers, prices and
caches that the engine does not call, the dashboard, which only reads the API, and
the demonstration script, which is a straight line of calls.

## 8. Running

    tlc -workers 2 -config ExecutorGraphs.cfg MCExecutor
    tlapm ExecutorProofs.tla

and likewise for the other configurations and proof modules; `PROJECT.json` names
the module of each configuration.
