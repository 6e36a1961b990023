------------------------------- MODULE Backend -------------------------------
(***************************************************************************)
(* Which store a run ends up in.  Every process, the API and the Celery    *)
(* workers, decides by its own probe of the database whether it uses the   *)
(* database or stores of its own memory (db.py, runtime.py): the API once, *)
(* at startup (main.py), a worker at the start of every task (worker.py).  *)
(* The database goes down and comes back, processes die, tasks are         *)
(* retried, and an operator migrates the schema (alembic/versions).        *)
(*                                                                         *)
(* A run is executed once, by the API or by a task, or again when a task   *)
(* is retried: because a transaction failed, because another process has   *)
(* inserted the same version first, or because run_workflow raised.  What  *)
(* a run records, locks, keys and reruns are the subject of Dispatch.      *)
(***************************************************************************)
EXTENDS Naturals, Schema

CONSTANTS
    Api, Workers,           \* the processes
    Runs,                   \* ids of runs
    Definitions,            \* workflow definitions, each with a hash of its own
    Refused,                \* those that no execution accepts ...
    Raising,                \* ... and those whose execution may raise
    Asked,                  \* what clients may ask for: a definition per run
    Deployments,            \* revisions at which the database may start
    MaxRetries,             \* max_retries of run_workflow_task
    MaxOutages,             \* bound on outages of the database
    MaxDeaths,              \* bound on processes that die
    None

Processes == {Api} \cup Workers

ASSUME ProcessesAssumption == Api \notin Workers /\ None \notin Runs

ASSUME DeploymentsAssumption == Deployments \subseteq {"base", "0001", "0002"}

ASSUME DefinitionsAssumption ==
    Refused \cup Raising \subseteq Definitions /\ Asked \subseteq [Runs -> Definitions]

ASSUME BoundsAssumption ==
    MaxRetries \in Nat /\ MaxOutages \in Nat /\ MaxDeaths \in Nat

VARIABLES
    dbUp,           \* the database answers
    schema,         \* its tables
    versions,       \* definitions in its workflow_definitions
    saved,          \* runs in its workflow_runs ...
    events,         \* ... and in its execution_events
    available,      \* per process: db_available
    memory,         \* per process: runs in _offline_storage
    pc,             \* per process
    missing,        \* per process: what create_all is about to create
    task,           \* per worker: the message at hand
    queue,          \* Celery messages
    definition,     \* per run: what the client asked for
    state,          \* per run: where it is
    deployed, upgrade, outages, deaths, probeFailed, known,     \* history
    overtaken       \* history: runs whose task lost the race for a version

database == <<schema, versions, saved, events>>
process  == <<available, memory, pc, missing, task>>
history  == <<deployed, definition, outages, deaths>>
vars     == <<dbUp, database, process, queue, state, history, upgrade,
              probeFailed, known, overtaken>>

Message == [run : Runs, tries : 0 .. MaxRetries]

\* The stages of a request in the API, and what becomes of it.
Stages == {"new", "inserting", "versioned", "saved"}
States == Stages \cup {"queued", "refused", "done", "given up", "lost"}

Init ==
    /\ dbUp \in BOOLEAN
    /\ deployed \in Deployments
    /\ schema = AtRevision(deployed)
    /\ versions = {} /\ saved = {} /\ events = {}
    /\ available = [p \in Processes |-> FALSE]
    /\ memory = [p \in Processes |-> {}]
    /\ pc = [p \in Processes |-> IF p = Api THEN "off" ELSE "idle"]
    /\ missing = [p \in Processes |-> {}]
    /\ task = [w \in Workers |-> None]
    /\ queue = {}
    /\ definition \in Asked
    /\ state = [i \in Runs |-> "new"]
    /\ upgrade = "never"
    /\ outages = IF dbUp THEN 0 ELSE 1
    /\ deaths = 0
    /\ probeFailed = {}
    /\ known = {}
    /\ overtaken = {}

Goto(p, label) == pc' = [pc EXCEPT ![p] = label]

-----------------------------------------------------------------------------
(* The environment.                                                         *)

DatabaseDown ==
    /\ dbUp
    /\ outages < MaxOutages
    /\ dbUp' = FALSE
    /\ outages' = outages + 1
    /\ UNCHANGED <<database, process, queue, state, deployed, definition, deaths,
                   upgrade, probeFailed, known, overtaken>>

DatabaseUp ==
    /\ ~dbUp
    /\ dbUp' = TRUE
    /\ UNCHANGED <<database, process, queue, state, history, upgrade,
                   probeFailed, known, overtaken>>

\* alembic upgrade head, by an operator.
UpgradeHead ==
    /\ dbUp
    /\ IF CanUpgrade(schema)
       THEN schema' = Upgraded(schema) /\ upgrade' = "done"
       ELSE schema' = schema /\ upgrade' = "failed"
    /\ UNCHANGED <<dbUp, versions, saved, events, process, queue, state, history,
                   probeFailed, known, overtaken>>

-----------------------------------------------------------------------------
(* probe_database, in any process.                                          *)

\* What a process does after its probe: the API serves requests, a worker
\* calls run_workflow.
AfterProbe(p) == IF p = Api THEN "serving" ELSE "version"

\* SELECT 1 is answered within the connect timeout.
Reachable == dbUp

\* create_all asks which tables are there.
ProbeLook(p) ==
    /\ pc[p] = "probe"
    /\ Reachable
    /\ missing' = [missing EXCEPT ![p] = Missing(schema)]
    /\ Goto(p, "create")
    /\ UNCHANGED <<dbUp, database, available, memory, task, queue, state, history,
                   upgrade, probeFailed, known, overtaken>>

\* Nobody else has created one of them since: create_all commits.
ProbeCreate(p) ==
    /\ pc[p] = "create"
    /\ dbUp
    /\ missing[p] \cap schema.tables = {}
    /\ schema' = Created(schema, missing[p])
    /\ available' = [available EXCEPT ![p] = TRUE]
    /\ missing' = [missing EXCEPT ![p] = {}]
    /\ Goto(p, AfterProbe(p))
    /\ UNCHANGED <<dbUp, versions, saved, events, memory, task, queue, state,
                   history, upgrade, probeFailed, known, overtaken>>

\* Any exception, that of a table which exists by now included, selects the
\* process's own memory.
ProbeFails(p) ==
    /\ \/ pc[p] = "probe" /\ ~Reachable
       \/ pc[p] = "create" /\ (~dbUp \/ missing[p] \cap schema.tables # {})
    /\ available' = [available EXCEPT ![p] = FALSE]
    /\ missing' = [missing EXCEPT ![p] = {}]
    /\ probeFailed' = probeFailed \cup {p}
    /\ Goto(p, AfterProbe(p))
    /\ UNCHANGED <<dbUp, database, memory, task, queue, state, history, upgrade,
                   known, overtaken>>

-----------------------------------------------------------------------------
(* The stores a process uses: those of the database or its own.             *)

\* Faulty variant of GetStorage: the offline store is made at every call.
GetStorageInline(p) == IF available[p] THEN saved ELSE {}

\* get_storage(): the runs the process can see.
GetStorage(p) == IF available[p] THEN saved ELSE memory[p]

\* A transaction of the process that needs the given tables, and the column
\* if workflow_runs is one of them; memory never fails.
Works(p, tables) ==
    available[p] => /\ dbUp
                    /\ tables \subseteq schema.tables
                    /\ "workflow_runs" \in tables => schema.versionHash

\* Faulty variant of SavesToDatabase: the store is chosen before the probe.
SavesToMemory(p) == FALSE

SavesToDatabase(p) == available[p]

\* save_run() in the store of the process.
Save(p, i) ==
    IF SavesToDatabase(p)
    THEN saved' = saved \cup {i} /\ UNCHANGED memory
    ELSE memory' = [memory EXCEPT ![p] = @ \cup {i}] /\ UNCHANGED saved

-----------------------------------------------------------------------------
(* The API process.                                                         *)

\* lifespan()
ApiStart ==
    /\ pc[Api] = "off"
    /\ Goto(Api, "probe")
    /\ UNCHANGED <<dbUp, database, available, memory, missing, task, queue, state,
                   history, upgrade, probeFailed, known, overtaken>>

\* A request of the API goes to the next stage.
Becomes(i, stage) == state' = [state EXCEPT ![i] = stage]

\* versions.put() of the process finds the definition; what memory lacks it
\* simply adds.
Stored(p, i) == available[p] => definition[i] \in versions

\* POST /workflows/run, synchronous or not: versions.put() looks ...
PutLook(i) ==
    /\ pc[Api] = "serving"
    /\ state[i] = "new"
    /\ Works(Api, {"workflow_definitions"})
    /\ Becomes(i, IF Stored(Api, i) THEN "versioned" ELSE "inserting")
    /\ UNCHANGED <<dbUp, database, process, queue, history, upgrade, probeFailed,
                   known, overtaken>>

\* ... and inserts.
PutInsert(i) ==
    /\ pc[Api] = "serving"
    /\ state[i] = "inserting"
    /\ Works(Api, {"workflow_definitions"})
    /\ definition[i] \notin versions
    /\ versions' = versions \cup {definition[i]}
    /\ Becomes(i, "versioned")
    /\ UNCHANGED <<dbUp, schema, saved, events, process, queue, history, upgrade,
                   probeFailed, known, overtaken>>

\* async_dispatch: the task is queued.
Submit(i) ==
    /\ pc[Api] = "serving"
    /\ state[i] = "versioned"
    /\ queue' = queue \cup {[run |-> i, tries |-> 0]}
    /\ Becomes(i, "queued")
    /\ UNCHANGED <<dbUp, database, process, history, upgrade, probeFailed, known,
                   overtaken>>

\* Otherwise the request's own thread executes the workflow: save_run ...
RunInline(i) ==
    /\ pc[Api] = "serving"
    /\ state[i] = "versioned"
    /\ definition[i] \notin Refused
    /\ Works(Api, {"workflow_runs", "step_executions"})
    /\ Save(Api, i)
    /\ Becomes(i, "saved")
    /\ UNCHANGED <<dbUp, schema, versions, events, available, pc, missing, task,
                   queue, history, upgrade, probeFailed, known, overtaken>>

\* ... and event_store.save, and the record is the answer.
RunInlineEvents(i) ==
    /\ pc[Api] = "serving"
    /\ state[i] = "saved"
    /\ Works(Api, {"execution_events"})
    /\ events' = IF available[Api] THEN events \cup {i} ELSE events
    /\ Becomes(i, "done")
    /\ known' = known \cup {i}
    /\ UNCHANGED <<dbUp, schema, versions, saved, process, queue, history, upgrade,
                   probeFailed, overtaken>>

\* What the transaction of the stage needs.
StageNeeds(i) ==
    CASE state[i] \in {"new", "inserting"} -> {"workflow_definitions"}
      [] state[i] = "versioned"            -> {"workflow_runs", "step_executions"}
      [] state[i] = "saved"                -> {"execution_events"}

\* Answered with an error: a transaction fails, that of a version which
\* another process has inserted since the look included, the broker fails, or
\* run_workflow raises.  What earlier stages have stored stays.
Refuse(i) ==
    /\ pc[Api] = "serving"
    /\ state[i] \in Stages
    /\ \/ ~Works(Api, StageNeeds(i))
       \/ state[i] = "inserting" /\ Stored(Api, i)
       \/ state[i] = "versioned"
    /\ Becomes(i, "refused")
    /\ UNCHANGED <<dbUp, database, process, queue, history, upgrade, probeFailed,
                   known, overtaken>>

\* GET /workflows/{run_id} answers with the record.
Poll(i) ==
    /\ pc[Api] = "serving"
    /\ Works(Api, {"workflow_runs", "step_executions", "execution_events"})
    /\ i \in GetStorage(Api)
    /\ known' = known \cup {i}
    /\ UNCHANGED <<dbUp, database, process, queue, state, history, upgrade,
                   probeFailed, overtaken>>

\* The process dies and starts again, with nothing in its memory; what it was
\* serving is cut off.
ApiDies ==
    /\ pc[Api] # "off"
    /\ deaths < MaxDeaths
    /\ deaths' = deaths + 1
    /\ Goto(Api, "off")
    /\ available' = [available EXCEPT ![Api] = FALSE]
    /\ memory' = [memory EXCEPT ![Api] = {}]
    /\ missing' = [missing EXCEPT ![Api] = {}]
    /\ known' = {}
    /\ state' = [i \in Runs |-> IF state[i] \in Stages \ {"new"} THEN "lost"
                               ELSE state[i]]
    /\ UNCHANGED <<dbUp, database, task, queue, deployed, definition, outages,
                   upgrade, probeFailed, overtaken>>

-----------------------------------------------------------------------------
(* A worker.                                                                *)

\* Faulty variant of Take: the backend of the previous task is kept.
TakeUnprobed(w, m) ==
    /\ pc[w] = "idle"
    /\ m \in queue
    /\ queue' = queue \ {m}
    /\ task' = [task EXCEPT ![w] = m]
    /\ Goto(w, IF m.tries = 0 THEN "probe" ELSE "version")
    /\ UNCHANGED <<dbUp, database, available, memory, missing, state, history,
                   upgrade, probeFailed, known, overtaken>>

\* A message is acknowledged when it is received.
Take(w, m) ==
    /\ pc[w] = "idle"
    /\ m \in queue
    /\ queue' = queue \ {m}
    /\ task' = [task EXCEPT ![w] = m]
    /\ Goto(w, "probe")
    /\ UNCHANGED <<dbUp, database, available, memory, missing, state, history,
                   upgrade, probeFailed, known, overtaken>>

\* The tables of the transaction a task is at.
Needs(w) ==
    CASE pc[w] \in {"version", "insert"} -> {"workflow_definitions"}
      [] pc[w] = "save"   -> {"workflow_runs", "step_executions"}
      [] pc[w] = "events" -> {"execution_events"}

\* The version of the message is looked for, by the task and by put() ...
TaskVersion(w) ==
    /\ pc[w] = "version"
    /\ Works(w, Needs(w))
    /\ Goto(w, IF Stored(w, task[w].run) THEN "save" ELSE "insert")
    /\ UNCHANGED <<dbUp, database, available, memory, missing, task, queue, state,
                   history, upgrade, probeFailed, known, overtaken>>

\* ... and inserted if it is not there.
TaskInsert(w) ==
    /\ pc[w] = "insert"
    /\ Works(w, Needs(w))
    /\ definition[task[w].run] \notin versions
    /\ versions' = versions \cup {definition[task[w].run]}
    /\ Goto(w, "save")
    /\ UNCHANGED <<dbUp, schema, saved, events, available, memory, missing, task,
                   queue, state, history, upgrade, probeFailed, known, overtaken>>

\* The workflow has been executed: save_run.
TaskSave(w) ==
    /\ pc[w] = "save"
    /\ definition[task[w].run] \notin Refused
    /\ Works(w, Needs(w))
    /\ Save(w, task[w].run)
    /\ Goto(w, "events")
    /\ UNCHANGED <<dbUp, schema, versions, events, available, missing, task, queue,
                   state, history, upgrade, probeFailed, known, overtaken>>

\* event_store.save, and the task returns.
TaskEvents(w) ==
    /\ pc[w] = "events"
    /\ Works(w, Needs(w))
    /\ events' = IF available[w] THEN events \cup {task[w].run} ELSE events
    /\ Becomes(task[w].run, "done")
    /\ task' = [task EXCEPT ![w] = None]
    /\ Goto(w, "idle")
    /\ UNCHANGED <<dbUp, schema, versions, saved, available, memory, missing, queue,
                   history, upgrade, probeFailed, known, overtaken>>

\* Faulty variant of MayRetry: no bound.
MayRetryAlways(w) == TRUE

MayRetry(w) == task[w].tries < MaxRetries

\* except Exception: self.retry() queues the task again, unless the broker
\* fails too, or gives it up.
Retry(w) ==
    /\ \/ /\ MayRetry(w)
          /\ queue' = queue \cup {[task[w] EXCEPT !.tries =
                                      IF @ < MaxRetries THEN @ + 1 ELSE @]}
          /\ UNCHANGED state
       \/ /\ MayRetry(w)
          /\ Becomes(task[w].run, "lost")
          /\ UNCHANGED queue
       \/ /\ ~MayRetry(w)
          /\ Becomes(task[w].run, "given up")
          /\ UNCHANGED queue
    /\ task' = [task EXCEPT ![w] = None]
    /\ Goto(w, "idle")
    /\ UNCHANGED <<dbUp, database, available, memory, missing, history, upgrade,
                   probeFailed, known>>

\* A transaction fails: the database is away, or has not the tables.
TransactionFails(w) ==
    /\ pc[w] \in {"version", "insert", "save", "events"}
    /\ ~Works(w, Needs(w))
    /\ Retry(w)
    /\ UNCHANGED overtaken

\* Another process has inserted the version since the look: IntegrityError.
InsertConflict(w) ==
    /\ pc[w] = "insert"
    /\ Works(w, Needs(w))
    /\ definition[task[w].run] \in versions
    /\ Retry(w)
    /\ overtaken' = overtaken \cup {task[w].run}

\* load_workflow_yaml or validate_registry refuses the definition, or the
\* back-off of a step overflows.
WorkflowRaises(w) ==
    /\ pc[w] = "save"
    /\ definition[task[w].run] \in Refused \cup Raising
    /\ Retry(w)
    /\ UNCHANGED overtaken

\* The process dies, and its memory and the task at hand with it.
WorkerDies(w) ==
    /\ deaths < MaxDeaths
    /\ deaths' = deaths + 1
    /\ state' = [i \in Runs |-> IF task[w] # None /\ i = task[w].run
                               THEN "lost" ELSE state[i]]
    /\ available' = [available EXCEPT ![w] = FALSE]
    /\ memory' = [memory EXCEPT ![w] = {}]
    /\ missing' = [missing EXCEPT ![w] = {}]
    /\ task' = [task EXCEPT ![w] = None]
    /\ Goto(w, "idle")
    /\ UNCHANGED <<dbUp, database, queue, deployed, definition, outages, upgrade,
                   probeFailed, known, overtaken>>

-----------------------------------------------------------------------------
Probe(p) == ProbeLook(p) \/ ProbeCreate(p) \/ ProbeFails(p)

RequestStep(i) ==
    \/ PutLook(i) \/ PutInsert(i) \/ Submit(i)
    \/ RunInline(i) \/ RunInlineEvents(i) \/ Refuse(i)

ApiStep ==
    \/ ApiStart \/ Probe(Api)
    \/ \E i \in Runs : RequestStep(i) \/ Poll(i)

TaskFails(w) == TransactionFails(w) \/ InsertConflict(w) \/ WorkflowRaises(w)

WorkerStep(w) ==
    \/ \E m \in queue : Take(w, m)
    \/ Probe(w) \/ TaskVersion(w) \/ TaskInsert(w) \/ TaskSave(w) \/ TaskEvents(w)
    \/ TaskFails(w)

Next ==
    \/ DatabaseDown \/ DatabaseUp \/ UpgradeHead
    \/ ApiStep \/ ApiDies
    \/ \E w \in Workers : WorkerStep(w) \/ WorkerDies(w)

Spec == Init /\ [][Next]_vars

\* The workers are scheduled and tasks end.  Nobody owes a request, and the
\* database need not come back.
FairSpec == Spec /\ \A w \in Workers : WF_vars(WorkerStep(w))

-----------------------------------------------------------------------------
(* Properties.                                                              *)

\* The variables have the shape the program gives them.
TypeOK ==
    /\ dbUp \in BOOLEAN
    /\ schema \in Schemas
    /\ versions \subseteq Definitions
    /\ saved \subseteq Runs /\ events \subseteq saved
    /\ available \in [Processes -> BOOLEAN]
    /\ memory \in [Processes -> SUBSET Runs]
    /\ pc[Api] \in {"off", "probe", "create", "serving"}
    /\ \A w \in Workers :
          pc[w] \in {"idle", "probe", "create", "version", "insert", "save",
                     "events"}
    /\ missing \in [Processes -> SUBSET Models]
    /\ task \in [Workers -> Message \cup {None}]
    /\ queue \subseteq Message
    /\ definition \in [Runs -> Definitions]
    /\ state \in [Runs -> States]
    /\ deployed \in Deployments
    /\ upgrade \in {"never", "done", "failed"}
    /\ outages \in 0 .. MaxOutages + 1 /\ deaths \in 0 .. MaxDeaths
    /\ probeFailed \subseteq Processes
    /\ known \subseteq Runs /\ overtaken \subseteq Runs

\* A process that chose the database can use it, unless its probe has found
\* the tables of revision 0001 and not of 0002: several processes creating
\* tables at once, and a migration beside them, leave no gap.
ProbedIsUsable ==
    (deployed # "0001" \/ upgrade = "done") =>
        \A p \in Processes : available[p] => Usable(schema)

\* A probe that fails although the database has never been away has lost a
\* race: somebody else has created all the tables.
FailedProbeHasPeer ==
    outages = 0 /\ probeFailed # {} => Models \subseteq schema.tables

\* A probe tells the truth about the schema, in both of its answers, with
\* other processes probing and an operator migrating at the same time.
ProbeSound == ProbedIsUsable /\ FailedProbeHasPeer

\* "Keep the offline backend stable for the lifetime of this process": what
\* the API has once answered a client with, a later request finds again,
\* whatever the database and the workers do.
KnownForLifetime == known \subseteq GetStorage(Api)

\* As long as no probe has failed, the API and the workers see the same
\* runs: a task that is done has its record and its events where the API
\* looks for them, outages between the probe and the last save and retries
\* included.
SharedUnlessProbeFailed ==
    probeFailed = {} /\ pc[Api] = "serving" =>
        \A i \in Runs : state[i] = "done" => i \in GetStorage(Api) \cap events

\* Nothing that was promised to be stored disappears: neither from one
\* request of the API to the next, nor between a worker and the API.
StoresShared == KnownForLifetime /\ SharedUnlessProbeFailed

\* run_workflow accepts the definition of the run, and its execution ends.
Sound(i) == definition[i] \notin Refused \cup Raising

\* A lost race for the version counts like an outage, and happens to a task
\* once, since a version stays.
Failures(i) == outages + (IF i \in overtaken THEN 1 ELSE 0)

\* The retry of every exception is no way to lose a run that can be executed:
\* each attempt probes again, so that each of its failures takes an outage of
\* its own or was the lost race for the version.  With the database away for
\* good the second attempt already succeeds, in memory.
GivenUpByOutages ==
    \A i \in Runs :
        deployed # "0001" /\ Sound(i) /\ state[i] = "given up"
            => Failures(i) > MaxRetries

\* The downgrades of the revisions undo what an upgrade has done.
UpgradeReversible ==
    [][schema'.revision # schema.revision =>
          CASE schema.revision = "base" ->
                   Downgrade0001(Downgrade0002(schema')) = schema
            [] schema.revision = "0001" -> Downgrade0002(schema') = schema]_vars

\* A queued run is executed, given up or lost, in the end.
TasksSettle == \A i \in Runs : state[i] = "queued" ~> state[i] # "queued"

-----------------------------------------------------------------------------
(* A statement of the documentation that the code does not keep.            *)

\* "DATABASE_URL reachable + run alembic upgrade head": the migration of a
\* reachable database succeeds, whether or not the service has started.
UpgradeSucceeds == upgrade # "failed"
=============================================================================
