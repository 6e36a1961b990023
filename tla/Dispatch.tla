------------------------------ MODULE Dispatch ------------------------------
(***************************************************************************)
(* From a request to a saved run: POST /workflows/run and .../rerun        *)
(* (main.py), the Celery task (worker.py), and run_workflow (runner.py),   *)
(* which both of them call, over the database stores for idempotency       *)
(* claims, versions, runs and events (storage_db.py) and the lock          *)
(* providers (locks.py).                                                   *)
(*                                                                         *)
(* A request is handled by a thread of the API process; a Celery message   *)
(* by a worker.  Each store operation is one transaction and one step,     *)
(* and may fail.  The run id of a new run is the request that made it.     *)
(* An execution is known by the request it is due to and the number of     *)
(* retries Celery has made.                                                *)
(***************************************************************************)
EXTENDS Naturals

CONSTANTS
    Requests, Workers,      \* the threads
    OldRun,                 \* the id of a run saved before
    Texts,                  \* YAML definitions
    Hash,                   \* canonical_yaml_hash of those that are YAML
    Malformed, Invalid,     \* texts that are no YAML; that no run accepts
    OldText,                \* the definition of OldRun
    Keys,                   \* idempotency keys
    LockModes,              \* the lock settings: off, process, redis
    Faults,                 \* what may fail
    MaxRetries,             \* max_retries of run_workflow_task
    None

Hashes == {Hash[x] : x \in Texts \ Malformed}

RunIds == Requests \cup {OldRun}

Threads == Requests \cup Workers

Replies == {"sync", "async", "404", "409 key", "409 lock", "422", "500", "503"}

ASSUME TextsAssumption ==
    /\ OldText \in Texts
    /\ Malformed \subseteq Texts /\ Invalid \subseteq Texts
    /\ OldText \notin Malformed \cup Invalid

ASSUME NamesAssumption ==
    /\ Requests \cap Workers = {}
    /\ OldRun \notin Requests
    /\ None \notin Texts \cup Hashes \cup Keys \cup Threads \cup Replies

ASSUME SettingsAssumption ==
    /\ LockModes \subseteq {"off", "process", "redis"}
    /\ Faults \subseteq {"store", "broker", "task"}
    /\ MaxRetries \in Nat

VARIABLES
    lockMode,       \* the lock setting of the API process
    claims,         \* idempotency records
    versions,       \* hash -> text
    runs,           \* run id -> record
    events,         \* run id -> the execution whose events are stored
    lock,           \* hash -> the request that holds its lock
    queue,          \* Celery messages
    pc,             \* per thread
    job,            \* per thread: the arguments of _dispatch or of the task
    text,           \* per thread: yaml_definition in run_workflow
    reply           \* per request

stores == <<claims, versions, runs, events>>
vars   == <<lockMode, stores, lock, queue, pc, job, text, reply>>

Execution == [from : Requests, tries : 0 .. MaxRetries]

OldExecution == [from |-> OldRun, tries |-> 0]

NoJob == [run |-> None, text |-> None, pinned |-> None, key |-> None,
          async |-> FALSE, from |-> None, tries |-> 0]

\* The execution a thread is about.
Exec(t) == [from |-> job[t].from, tries |-> job[t].tries]

-----------------------------------------------------------------------------
Init ==
    /\ lockMode \in LockModes
    /\ claims = {}
    /\ versions = [h \in Hashes |-> IF h = Hash[OldText] THEN OldText ELSE None]
    /\ runs = [i \in RunIds |->
                 IF i = OldRun
                 THEN [exec |-> OldExecution, text |-> OldText,
                       version |-> Hash[OldText]]
                 ELSE None]
    /\ events = [i \in RunIds |-> IF i = OldRun THEN OldExecution ELSE None]
    /\ lock = [h \in Hashes |-> None]
    /\ queue = {}
    /\ pc = [t \in Threads |-> "idle"]
    /\ job = [t \in Threads |-> NoJob]
    /\ text = [t \in Threads |-> None]
    /\ reply = [r \in Requests |-> None]

\* The thread is between acquire and release of _dispatch.
Inside(r) ==
    /\ ~job[r].async
    /\ pc[r] \in {"pin", "put", "insert", "parse", "save", "events", "return"}

Goto(t, label) == pc' = [pc EXCEPT ![t] = label]

\* Faulty variant of Released: the release does not look at the owner.
ReleasedUnchecked(r) ==
    [h \in Hashes |-> IF job[r].text \in DOMAIN Hash /\ Inside(r) /\ h = Hash[job[r].text]
                      THEN None ELSE lock[h]]

\* Faulty variant of Released: an exception skips the release.
ReleasedOnSuccess(r) ==
    [h \in Hashes |-> IF lock[h] = r /\ pc[r] = "return" THEN None ELSE lock[h]]

\* What leaving the with block of _dispatch does to the locks: only a lock
\* that the thread itself holds is freed.
Released(r) == [h \in Hashes |-> IF lock[h] = r THEN None ELSE lock[h]]

\* The handler returns or raises HTTPException, and so leaves its with block.
Answer(r, code) ==
    /\ Goto(r, "answered")
    /\ reply' = [reply EXCEPT ![r] = code]
    /\ lock' = Released(r)

\* The Celery task is over, and with it its local variables.
TaskEnds(w) ==
    /\ Goto(w, "idle")
    /\ job' = [job EXCEPT ![w] = NoJob]
    /\ text' = [text EXCEPT ![w] = None]

\* Faulty variant of MayRetry: no bound.
MayRetryAlways(w) == TRUE

MayRetry(w) == job[w].tries < MaxRetries

\* self.retry(): the same arguments are queued again, or the task is given
\* up.  Queueing them can fail too, and then the task is over as well.
Retry(w) ==
    /\ TaskEnds(w)
    /\ \/ /\ MayRetry(w)
          /\ queue' = queue \cup {[job[w] EXCEPT !.tries =
                                      IF @ < MaxRetries THEN @ + 1 ELSE @]}
       \/ /\ ~MayRetry(w) \/ "broker" \in Faults
          /\ queue' = queue

\* An exception in a thread: a status code of the API, a retry of a worker.
Raise(t, code) ==
    \/ t \in Requests /\ Answer(t, code) /\ UNCHANGED <<queue, job, text>>
    \/ t \in Workers /\ Retry(t) /\ UNCHANGED <<reply, lock>>

-----------------------------------------------------------------------------
(* The handlers.                                                            *)

\* The first effect of _dispatch: async requests store the version, sync ones
\* take the lock, if locking is enabled.
DispatchLabel(async) ==
    IF async THEN "put" ELSE IF lockMode = "off" THEN "pin" ELSE "lock"

\* POST /workflows/run.
ArriveRun(r, x, k, async) ==
    /\ pc[r] = "idle"
    /\ job' = [job EXCEPT ![r] =
                 [run |-> r, text |-> x, pinned |-> None, key |-> k,
                  async |-> async, from |-> r, tries |-> 0]]
    /\ text' = [text EXCEPT ![r] = x]
    /\ Goto(r, IF k = None THEN DispatchLabel(async) ELSE "claim")
    /\ UNCHANGED <<lockMode, stores, lock, queue, reply>>

\* POST /workflows/{run_id}/rerun of a run that is stored: the definition and
\* the version of its record are dispatched under its id.
ArriveRerun(r, i, async) ==
    /\ pc[r] = "idle"
    /\ runs[i] # None
    /\ job' = [job EXCEPT ![r] =
                 [run |-> i, text |-> runs[i].text, pinned |-> runs[i].version,
                  key |-> None, async |-> async, from |-> r, tries |-> 0]]
    /\ text' = [text EXCEPT ![r] = runs[i].text]
    /\ Goto(r, DispatchLabel(async))
    /\ UNCHANGED <<lockMode, stores, lock, queue, reply>>

\* ... and of one that is not.
RerunUnknown(r, i) ==
    /\ pc[r] = "idle"
    /\ runs[i] = None
    /\ Answer(r, "404")
    /\ UNCHANGED <<lockMode, stores, queue, job, text>>

\* Faulty variant of Claimable: the record is not looked for.
ClaimableAlways(k) == TRUE

\* The INSERT of the claim meets no record of the same key.
Claimable(k) == k \notin claims

\* _claim_idempotency
Claim(r) ==
    /\ pc[r] = "claim"
    /\ Claimable(job[r].key)
    /\ claims' = claims \cup {job[r].key}
    /\ Goto(r, DispatchLabel(job[r].async))
    /\ UNCHANGED <<lockMode, versions, runs, events, lock, queue, job, text, reply>>

ClaimConflict(r) ==
    /\ pc[r] = "claim"
    /\ ~Claimable(job[r].key)
    /\ Answer(r, "409 key")
    /\ UNCHANGED <<lockMode, stores, queue, job, text>>

\* Faulty variant of LockFree: the lock is taken whoever has it.
LockFreeAlways(h) == TRUE

LockFree(h) == lock[h] = None

\* acquire(): the key is set if it is not there.
Acquire(r) ==
    /\ pc[r] = "lock"
    /\ job[r].text \notin Malformed
    /\ LockFree(Hash[job[r].text])
    /\ lock' = [lock EXCEPT ![Hash[job[r].text]] = r]
    /\ Goto(r, "pin")
    /\ UNCHANGED <<lockMode, stores, queue, job, text, reply>>

\* The lock is held, or its key cannot be computed.
AcquireFails(r) ==
    /\ pc[r] = "lock"
    /\ \/ job[r].text \in Malformed /\ Answer(r, "422")
       \/ /\ job[r].text \notin Malformed
          /\ ~LockFree(Hash[job[r].text])
          /\ Answer(r, "409 lock")
    /\ UNCHANGED <<lockMode, stores, queue, job, text>>

\* A Redis key reaches its time to live, however long the run takes.
Expire(h) ==
    /\ lockMode = "redis"
    /\ lock[h] # None
    /\ lock' = [lock EXCEPT ![h] = None]
    /\ UNCHANGED <<lockMode, stores, queue, pc, job, text, reply>>

-----------------------------------------------------------------------------
(* run_workflow, in a thread of the API or in a worker; versions.put also   *)
(* on behalf of an async request.                                           *)

\* The pinned version replaces the definition.  It is always there, see
\* PinnedStored, so that neither the "not found" error nor the worker's own
\* put before the call is ever needed.
Pin(t) ==
    /\ pc[t] = "pin"
    /\ job[t].pinned # None => versions[job[t].pinned] # None
    /\ text' = [text EXCEPT ![t] = IF job[t].pinned = None THEN @
                                   ELSE versions[job[t].pinned]]
    /\ Goto(t, "put")
    /\ UNCHANGED <<lockMode, stores, lock, queue, job, reply>>

Async(t) == t \in Requests /\ job[t].async

\* Where put returns to.
AfterPut(t) == IF Async(t) THEN "enqueue" ELSE "parse"

\* Faulty variant of PutFinds: the definition is taken for stored.
PutSkipped(t) ==
    /\ pc[t] = "put"
    /\ text[t] \notin Malformed
    /\ Goto(t, AfterPut(t))
    /\ UNCHANGED <<lockMode, stores, lock, queue, job, text, reply>>

\* versions.put(): the hash is already stored.
PutFinds(t) ==
    /\ pc[t] = "put"
    /\ text[t] \notin Malformed
    /\ versions[Hash[text[t]]] # None
    /\ Goto(t, AfterPut(t))
    /\ UNCHANGED <<lockMode, stores, lock, queue, job, text, reply>>

\* versions.put(): it is not, so it will be inserted.
PutMisses(t) ==
    /\ pc[t] = "put"
    /\ text[t] \notin Malformed
    /\ versions[Hash[text[t]]] = None
    /\ Goto(t, "insert")
    /\ UNCHANGED <<lockMode, stores, lock, queue, job, text, reply>>

\* The text has no hash.  An async dispatch turns every exception into 503.
PutRefuses(t) ==
    /\ pc[t] = "put"
    /\ text[t] \in Malformed
    /\ Raise(t, IF Async(t) THEN "503" ELSE "422")
    /\ UNCHANGED <<lockMode, stores>>

\* Faulty variant of InsertFits: the row is written over.
InsertFitsAlways(h) == TRUE

\* The primary key is not there yet.
InsertFits(h) == versions[h] = None

Insert(t) ==
    /\ pc[t] = "insert"
    /\ InsertFits(Hash[text[t]])
    /\ versions' = [versions EXCEPT ![Hash[text[t]]] = text[t]]
    /\ Goto(t, AfterPut(t))
    /\ UNCHANGED <<lockMode, claims, runs, events, lock, queue, job, text, reply>>

\* Another thread inserted the same hash since put looked: IntegrityError.
InsertConflict(t) ==
    /\ pc[t] = "insert"
    /\ ~InsertFits(Hash[text[t]])
    /\ Raise(t, "503")
    /\ UNCHANGED <<lockMode, stores>>

\* run_workflow_task.delay(): the message pins the version.
Enqueue(r) ==
    /\ pc[r] = "enqueue"
    /\ queue' = queue \cup
          {[job[r] EXCEPT !.pinned = IF @ = None THEN Hash[text[r]] ELSE @]}
    /\ Answer(r, "async")
    /\ UNCHANGED <<lockMode, stores, job, text>>

BrokerFails(r) ==
    /\ pc[r] = "enqueue"
    /\ "broker" \in Faults
    /\ Answer(r, "503")
    /\ UNCHANGED <<lockMode, stores, queue, job, text>>

\* load_workflow_yaml and validate_registry: accepted, and the tasks are
\* executed until execute() returns, which is the subject of module Executor.
Parse(t) ==
    /\ pc[t] = "parse"
    /\ text[t] \notin Invalid
    /\ Goto(t, "save")
    /\ UNCHANGED <<lockMode, stores, lock, queue, job, text, reply>>

ParseFails(t) ==
    /\ pc[t] = "parse"
    /\ text[t] \in Invalid
    /\ Raise(t, "422")
    /\ UNCHANGED <<lockMode, stores>>

\* An accepted definition whose execution raises: the back-off of a step
\* overflows.  That is no ValueError, so no handler turns it into an answer.
ExecuteRaises(t) ==
    /\ pc[t] = "parse"
    /\ text[t] \notin Invalid
    /\ "task" \in Faults
    /\ Raise(t, "500")
    /\ UNCHANGED <<lockMode, stores>>

\* Faulty variant of SavedRecord: the version asked for is recorded.
SavedRecordPinned(t) ==
    [exec |-> Exec(t), text |-> text[t], version |-> job[t].pinned]

\* What run_workflow saves: the definition it ran and the hash of that.
SavedRecord(t) ==
    [exec |-> Exec(t), text |-> text[t], version |-> Hash[text[t]]]

\* save_run(): the record of the id is replaced in one transaction.
SaveRun(t) ==
    /\ pc[t] = "save"
    /\ runs' = [runs EXCEPT ![job[t].run] = SavedRecord(t)]
    /\ Goto(t, "events")
    /\ UNCHANGED <<lockMode, claims, versions, events, lock, queue, job, text, reply>>

\* event_store.save(): the events of the id are replaced in another one.
SaveEvents(t) ==
    /\ pc[t] = "events"
    /\ events' = [events EXCEPT ![job[t].run] = Exec(t)]
    /\ Goto(t, "return")
    /\ UNCHANGED <<lockMode, claims, versions, runs, lock, queue, job, text, reply>>

\* run_workflow returns to _dispatch or to the Celery task.
Return(t) ==
    /\ pc[t] = "return"
    /\ \/ t \in Requests /\ Answer(t, "sync") /\ UNCHANGED <<job, text>>
       \/ t \in Workers /\ TaskEnds(t) /\ UNCHANGED <<reply, lock>>
    /\ UNCHANGED <<lockMode, stores, queue>>

\* A transaction of the thread fails and is rolled back.
StoreFails(t) ==
    /\ "store" \in Faults
    /\ \/ pc[t] \in {"claim", "put", "insert", "save", "events"}
       \/ pc[t] = "pin" /\ job[t].pinned # None
    /\ Raise(t, "503")
    /\ UNCHANGED <<lockMode, stores>>

\* A worker receives a message; it is acknowledged at once.
Take(w, m) ==
    /\ pc[w] = "idle"
    /\ m \in queue
    /\ queue' = queue \ {m}
    /\ job' = [job EXCEPT ![w] = m]
    /\ text' = [text EXCEPT ![w] = m.text]
    /\ Goto(w, "pin")
    /\ UNCHANGED <<lockMode, stores, lock, reply>>

-----------------------------------------------------------------------------
Arrive(r) ==
    \/ \E x \in Texts, k \in Keys \cup {None}, async \in BOOLEAN :
          ArriveRun(r, x, k, async)
    \/ \E i \in RunIds, async \in BOOLEAN : ArriveRerun(r, i, async)
    \/ \E i \in RunIds : RerunUnknown(r, i)

RunStep(t) ==
    \/ Pin(t) \/ PutFinds(t) \/ PutMisses(t) \/ PutRefuses(t)
    \/ Insert(t) \/ InsertConflict(t) \/ Parse(t) \/ ParseFails(t)
    \/ ExecuteRaises(t) \/ SaveRun(t) \/ SaveEvents(t) \/ Return(t) \/ StoreFails(t)

RequestStep(r) ==
    \/ Claim(r) \/ ClaimConflict(r)
    \/ Acquire(r) \/ AcquireFails(r) \/ Enqueue(r) \/ BrokerFails(r)
    \/ RunStep(r)

WorkerStep(w) == RunStep(w) \/ \E m \in queue : Take(w, m)

Quiet ==
    /\ \A r \in Requests : pc[r] = "answered"
    /\ \A w \in Workers : pc[w] = "idle"
    /\ queue = {}
    /\ UNCHANGED vars

Next ==
    \/ \E r \in Requests : Arrive(r) \/ RequestStep(r)
    \/ \E w \in Workers : WorkerStep(w)
    \/ \E h \in Hashes : Expire(h)
    \/ Quiet

Spec == Init /\ [][Next]_vars

\* The threads of the API and the workers are scheduled; tasks end.  Clients
\* owe no request.
FairSpec ==
    /\ Spec
    /\ \A r \in Requests : WF_vars(RequestStep(r))
    /\ \A w \in Workers : WF_vars(WorkerStep(w))

-----------------------------------------------------------------------------
(* Properties.                                                              *)

Job == [run : RunIds, text : Texts, pinned : Hashes \cup {None},
        key : Keys \cup {None}, async : BOOLEAN,
        from : Requests, tries : 0 .. MaxRetries]

Record == [exec : Execution \cup {OldExecution}, text : Texts, version : Hashes]

\* The variables have the shape the program gives them.
TypeOK ==
    /\ lockMode \in LockModes
    /\ claims \subseteq Keys
    /\ versions \in [Hashes -> Texts \cup {None}]
    /\ runs \in [RunIds -> Record \cup {None}]
    /\ events \in [RunIds -> Execution \cup {OldExecution, None}]
    /\ lock \in [Hashes -> Requests \cup {None}]
    /\ queue \subseteq Job
    /\ pc \in [Threads -> {"idle", "claim", "lock", "pin", "put",
                           "insert", "enqueue", "parse", "save", "events",
                           "return", "answered"}]
    /\ job \in [Threads -> Job \cup {NoJob}]
    /\ text \in [Threads -> Texts \cup {None}]
    /\ reply \in [Requests -> Replies \cup {None}]

\* Two synchronous requests are inside for definitions of the same hash.
Overlap ==
    \E r, q \in Requests :
        r # q /\ Inside(r) /\ Inside(q) /\ Hash[job[r].text] = Hash[job[q].text]

\* With the lock of the process, synchronous runs of one definition, however
\* it is formatted, exclude each other from the lock to the last save.
ExclusiveRuns == lockMode = "process" => ~Overlap

\* No failure leaves a lock behind: a lock is held by a request that is
\* still inside.
LocksHeldInside ==
    \A h \in Hashes : lock[h] # None =>
        Inside(lock[h]) /\ Hash[job[lock[h]].text] = h

\* The lock of the process covers a synchronous run, and nothing else.
LocksSound == ExclusiveRuns /\ LocksHeldInside

\* A thread never frees or takes over the lock of another one, not even when
\* its own lock has expired and was taken by the other.
ReleaseByOwner ==
    [][\A h \in Hashes :
          lock[h] # None /\ lock'[h] # lock[h] /\ pc' # pc
          => pc'[lock[h]] = "answered"]_vars

\* Of two requests with one idempotency key one is refused, or has failed in
\* a store: they never run at the same time and never both succeed, although
\* no lock is held between the claim and the end of the run.
KeyDispatchedOnce ==
    \A r, q \in Requests :
        (/\ r # q /\ job[r].key = job[q].key /\ job[r].key # None
         /\ {pc[r], pc[q]} \cap {"claim"} = {})
        => {reply[r], reply[q]} \cap {"409 key", "503"} # {}

\* Whatever pins a version finds it: saved runs, queued messages and tasks
\* that are being retried.
PinnedStored ==
    LET pinned == {job[t].pinned : t \in Threads} \cup {m.pinned : m \in queue}
                  \cup {runs[i].version : i \in {j \in RunIds : runs[j] # None}}
    IN  \A h \in pinned \ {None} : versions[h] # None

\* A stored version never changes, although put looks and inserts in two
\* steps and two texts may have one hash.
VersionsFinal ==
    [][\A h \in Hashes : versions[h] # None => versions'[h] = versions[h]]_vars

\* Under the lock of the process a run that was answered with success, and
\* not executed again since, is stored with its own events.
SavedRunConsistent ==
    \A r \in Requests :
        (/\ lockMode = "process"
         /\ reply[r] = "sync"
         /\ \A q \in Requests : job[q].run = job[r].run => ~job[q].async
         /\ runs[job[r].run].exec = Exec(r))
        => events[job[r].run] = Exec(r)

\* Every request is answered, and what it has queued is done, given up, or
\* could not be queued again.
Settles ==
    \A r \in Requests :
        pc[r] # "idle" ~>
            /\ pc[r] = "answered"
            /\ \A m \in queue : m.from # r
            /\ \A w \in Workers : pc[w] # "idle" => job[w].from # r
=============================================================================
