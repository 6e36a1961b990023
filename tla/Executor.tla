------------------------------ MODULE Executor ------------------------------
(***************************************************************************)
(* WorkflowExecutor (executor.py): one run of a workflow.                  *)
(*                                                                         *)
(* The main thread executes rounds over the configuration.  Without a      *)
(* concurrency limit above one a round runs each ready step in place, in   *)
(* configuration order.  With one, a round first collects a layer of ready *)
(* steps, then hands it to a thread pool, waits for all of it and          *)
(* publishes it.  A pool thread runs _run_with_retry: attempts, back-off,  *)
(* and in the end a result or a dead letter.                               *)
(*                                                                         *)
(* config and limit are the parameters of the run: Init chooses them and   *)
(* no step changes them.                                                   *)
(***************************************************************************)
EXTENDS Workflow, Sequences, FiniteSets

CONSTANTS
    Configs,        \* the workflow definitions that are run
    Limits,         \* concurrency limits; None is 0
    Registry,       \* the names TASK_REGISTRY holds
    FloatExponent   \* least attempt whose 2**attempt is no float (1024)

ASSUME ConfigsAssumption ==
    /\ Configs \subseteq Config
    /\ \A c \in Configs : \A s \in Steps : \A j, k \in c.condition[s] : j = k

ASSUME LimitsAssumption == Limits \subseteq Nat

VARIABLES
    config, limit,      \* the constructor's arguments
    \* the main thread
    pc,                 \* where execute() is
    cursor,             \* loop variable of the scan over config.steps
    executed,           \* executed_this_round
    resolved,           \* the set of the same name
    layer,              \* the steps this round runs
    todo,               \* loop variable of launch, submit and publish
    \* one entry per step, written by the thread that runs the step
    task,               \* where _run_with_retry(step) is
    context,            \* the steps whose results its context holds
    attempts,           \* _attempt_counts
    retryCounts,        \* retry_counts
    \* the state that all threads share
    statuses, results, errors, deadLetters,
    \* what the run shows to the outside
    trace,              \* the events of the TraceContext
    emitted,            \* the calls of the on_step hook
    outcome             \* overall_status at the end of execute()

params == <<config, limit>>
main   == <<pc, cursor, executed, resolved, layer, todo>>
worker == <<task, context, attempts, retryCounts>>
shared == <<statuses, results, errors, deadLetters>>
shown  == <<trace, emitted, outcome>>
vars   == <<params, main, worker, shared, shown>>

-----------------------------------------------------------------------------
Status == {"PENDING", "RUNNING", "COMPLETED", "FAILED", "SKIPPED"}

Terminal == {"COMPLETED", "FAILED", "SKIPPED"}

Kinds == {"run.started", "run.finished", "step.started", "step.skipped",
          "step.retry", "step.completed", "step.failed", "dlq.recorded"}

\* An event of the trace; its sequence number is its position.  Step 0 and
\* attempt 0 stand for None.
Event(kind, s, attempt) == [kind |-> kind, step |-> s, attempt |-> attempt]

EventType == [kind : Kinds, step : Steps \cup {0}, attempt : Nat]

Parallel == limit > 1

\* s is the next step a loop over the list of steps S visits.
First(S, s) == s \in S /\ \A t \in S : s <= t

\* Faulty variant of Ready: a condition's source need not be resolved.
ReadyIgnoringCondition(s) ==
    /\ statuses[s] = "PENDING"
    /\ config.dependsOn[s] \subseteq resolved

\* Faulty variant of Ready: a collected step already counts as resolved.
ReadyWithinLayer(s) ==
    /\ statuses[s] = "PENDING"
    /\ Needs(config, s) \subseteq resolved \cup layer

\* The three tests with which both scans pass over a step.
Ready(s) ==
    /\ statuses[s] = "PENDING"
    /\ Needs(config, s) \subseteq resolved

\* Faulty variant of Holds: an absent result passes.
HoldsIfAbsent(s) ==
    \A k \in config.condition[s] : results[k.step] \in k.match \cup {NoResult}

Holds(s) == Passes(config, s, results)

\* overall_status
OverallStatus ==
    LET values == {statuses[s] : s \in Steps} IN
    IF "FAILED" \in values THEN "failed"
    ELSE IF values \subseteq {"COMPLETED", "SKIPPED"} THEN "completed"
    ELSE "partial"

\* The steps whose attempt, or the sleep after it, occupies a pool thread.
Busy == {s \in Steps : task[s] \in {"running", "backoff"}}

\* max_workers of the pool
PoolSize == IF Cardinality(layer) < limit THEN Cardinality(layer) ELSE limit

-----------------------------------------------------------------------------
Init ==
    /\ config \in Configs
    /\ limit \in Limits
    /\ pc = "validate"
    /\ cursor = 0
    /\ executed = FALSE
    /\ resolved = {}
    /\ layer = {}
    /\ todo = {}
    /\ task = [s \in Steps |-> "none"]
    /\ context = [s \in Steps |-> {}]
    /\ attempts = [s \in Steps |-> 0]
    /\ retryCounts = [s \in Steps |-> 0]
    /\ statuses = [s \in Steps |-> "PENDING"]
    /\ results = [s \in Steps |-> NoResult]
    /\ errors = {}
    /\ deadLetters = <<>>
    /\ trace = <<>>
    /\ emitted = <<>>
    /\ outcome = "none"

\* validate_registry raises: nothing has been executed or traced.
ValidateFails ==
    /\ pc = "validate"
    /\ \E s \in Steps : config.task[s] \notin Registry
    /\ pc' = "raised"
    /\ UNCHANGED <<params, cursor, executed, resolved, layer, todo,
                   worker, shared, shown>>

Begin ==
    /\ pc = "validate"
    /\ \A s \in Steps : config.task[s] \in Registry
    /\ pc' = "loop"
    /\ trace' = Append(trace, Event("run.started", 0, 0))
    /\ UNCHANGED <<params, cursor, executed, resolved, layer, todo,
                   worker, shared, emitted, outcome>>

\* The head of the while loop, entered: both kinds of round begin a scan.
RoundStart ==
    /\ pc = "loop"
    /\ resolved # Steps
    /\ pc' = "scan"
    /\ cursor' = 1
    /\ executed' = FALSE
    /\ layer' = {}
    /\ UNCHANGED <<params, resolved, todo, worker, shared, shown>>

\* What execute() does after its loop.
Conclude ==
    /\ pc' = "done"
    /\ outcome' = OverallStatus
    /\ trace' = Append(trace, Event("run.finished", 0, 0))
    /\ UNCHANGED <<params, cursor, executed, resolved, layer, todo,
                   worker, shared, emitted>>

Finish == pc = "loop" /\ resolved = Steps /\ Conclude

-----------------------------------------------------------------------------
(* The scan of _run_legacy_yaml_order and of _collect_runnable.             *)

Scanning(s) == pc = "scan" /\ s = cursor

\* continue: the step ran before, or what it needs is not resolved.
PassOver(s) ==
    /\ Scanning(s)
    /\ ~Ready(s)
    /\ cursor' = cursor + 1
    /\ UNCHANGED <<params, pc, executed, resolved, layer, todo,
                   worker, shared, shown>>

\* The condition is false: the step is resolved without running.
SkipStep(s) ==
    /\ Scanning(s)
    /\ Ready(s)
    /\ ~Holds(s)
    /\ statuses' = [statuses EXCEPT ![s] = "SKIPPED"]
    /\ resolved' = resolved \cup {s}
    /\ executed' = TRUE
    /\ trace' = Append(trace, Event("step.skipped", s, 0))
    /\ emitted' = Append(emitted, [step |-> s, status |-> "SKIPPED"])
    /\ cursor' = cursor + 1
    /\ UNCHANGED <<params, pc, layer, todo, worker,
                   results, errors, deadLetters, outcome>>

\* Sequential mode: _run_step up to the first call of the task.  The layer is
\* the one step, and the main thread itself is the worker that runs it.
RunStep(s) ==
    /\ Scanning(s)
    /\ ~Parallel
    /\ Ready(s)
    /\ Holds(s)
    /\ statuses' = [statuses EXCEPT ![s] = "RUNNING"]
    /\ trace' = Append(trace, Event("step.started", s, 0))
    /\ context' = [context EXCEPT ![s] = {t \in Steps : results[t] # NoResult}]
    /\ task' = [task EXCEPT ![s] = "running"]
    /\ attempts' = [attempts EXCEPT ![s] = 1]
    /\ layer' = {s}
    /\ pc' = "await"
    /\ UNCHANGED <<params, cursor, executed, resolved, todo, retryCounts,
                   results, errors, deadLetters, emitted, outcome>>

\* Parallel mode: runnable.append(step).
Collect(s) ==
    /\ Scanning(s)
    /\ Parallel
    /\ Ready(s)
    /\ Holds(s)
    /\ layer' = layer \cup {s}
    /\ cursor' = cursor + 1
    /\ UNCHANGED <<params, pc, executed, resolved, todo,
                   worker, shared, shown>>

ScanEnded == pc = "scan" /\ cursor > NumSteps

\* Parallel mode: something is runnable, so _run_parallel is called.
LaunchLayer ==
    /\ ScanEnded
    /\ Parallel
    /\ layer # {}
    /\ pc' = "launch"
    /\ todo' = layer
    /\ UNCHANGED <<params, cursor, executed, resolved, layer,
                   worker, shared, shown>>

\* Faulty variant of NextRound: another round whether or not this one did
\* anything.
NextRoundAlways ==
    /\ ScanEnded
    /\ ~Parallel \/ layer = {}
    /\ pc' = "loop"
    /\ UNCHANGED <<params, cursor, executed, resolved, layer, todo,
                   worker, shared, shown>>

\* A round that only skipped steps (parallel) or that ran or skipped some
\* (sequential) is followed by another one.
NextRound ==
    /\ ScanEnded
    /\ ~Parallel \/ layer = {}
    /\ executed \/ resolved = Steps
    /\ pc' = "loop"
    /\ UNCHANGED <<params, cursor, executed, resolved, layer, todo,
                   worker, shared, shown>>

\* Faulty variant of NoProgress: stop after any round that leaves some step.
NoProgressEager ==
    /\ ScanEnded
    /\ ~Parallel \/ layer = {}
    /\ resolved # Steps
    /\ Conclude

\* The no-progress break.
NoProgress ==
    /\ ScanEnded
    /\ ~Parallel \/ layer = {}
    /\ ~executed
    /\ resolved # Steps
    /\ Conclude

-----------------------------------------------------------------------------
(* _run_parallel, in the main thread.                                       *)

\* The first loop: the layer is announced before any of it runs.
Launch(s) ==
    /\ pc = "launch"
    /\ First(todo, s)
    /\ statuses' = [statuses EXCEPT ![s] = "RUNNING"]
    /\ trace' = Append(trace, Event("step.started", s, 0))
    /\ IF todo = {s}
       THEN pc' = "submit" /\ todo' = layer
       ELSE pc' = pc /\ todo' = todo \ {s}
    /\ UNCHANGED <<params, cursor, executed, resolved, layer, worker,
                   results, errors, deadLetters, emitted, outcome>>

\* pool.submit(...): the context is copied here, while earlier submissions
\* may already be running, or even be complete.
Submit(s) ==
    /\ pc = "submit"
    /\ First(todo, s)
    /\ context' = [context EXCEPT ![s] = {t \in Steps : results[t] # NoResult}]
    /\ task' = [task EXCEPT ![s] = "queued"]
    /\ todo' = todo \ {s}
    /\ pc' = IF todo = {s} THEN "await" ELSE pc
    /\ UNCHANGED <<params, cursor, executed, resolved, layer, attempts,
                   retryCounts, shared, shown>>

Returned == {"ok", "failed", "raised"}

\* Faulty variant of Joined: wait for the first step of the layer only.
JoinedFirst == \E s \in layer : task[s] \in Returned

\* Every future has its outcome: result() was called for each of them, and
\* leaving the with block waits for the rest when one of the calls raised.
Joined == \A s \in layer : task[s] \in Returned

Join ==
    /\ pc = "await"
    /\ Joined
    /\ \A s \in layer : task[s] # "raised"
    /\ pc' = "publish"
    /\ todo' = layer
    /\ UNCHANGED <<params, cursor, executed, resolved, layer,
                   worker, shared, shown>>

\* An exception that _run_with_retry did not catch leaves execute().
JoinRaises ==
    /\ pc = "await"
    /\ Joined
    /\ \E s \in layer : task[s] = "raised"
    /\ pc' = "raised"
    /\ UNCHANGED <<params, cursor, executed, resolved, layer, todo,
                   worker, shared, shown>>

\* Faulty variant of RetryEvents: one event for every failed attempt.
RetryEventPerFailure(s) ==
    [i \in 1 .. (IF Parallel THEN retryCounts[s] ELSE 0)
        |-> Event("step.retry", s, i)]

\* The retry events that parallel mode makes up for after the fact; in
\* sequential mode they were traced as they happened.
RetryEvents(s) ==
    LET n == IF retryCounts[s] < config.retries[s]
             THEN retryCounts[s] ELSE config.retries[s]
    IN  [i \in 1 .. (IF Parallel THEN n ELSE 0) |-> Event("step.retry", s, i)]

ClosingEvents(s) ==
    IF task[s] = "ok"
    THEN <<Event("step.completed", s, attempts[s])>>
    ELSE <<Event("step.failed", s, attempts[s]),
           Event("dlq.recorded", s, attempts[s])>>

NextToPublish(s) == First(todo, s)

\* The last loop of _run_parallel and the end of _run_step.  The last step
\* also does what the caller does next: it adds the layer to resolved.
Publish(s) ==
    /\ pc = "publish"
    /\ NextToPublish(s)
    /\ trace' = trace \o RetryEvents(s) \o ClosingEvents(s)
    /\ emitted' = Append(emitted, [step |-> s, status |-> statuses[s]])
    /\ todo' = todo \ {s}
    /\ IF todo = {s}
       THEN /\ resolved' = resolved \cup layer
            /\ executed' = TRUE
            /\ layer' = {}
            /\ pc' = IF Parallel THEN "loop" ELSE "scan"
            /\ cursor' = IF Parallel THEN cursor ELSE cursor + 1
       ELSE UNCHANGED <<resolved, executed, layer, pc, cursor>>
    /\ UNCHANGED <<params, worker, shared, outcome>>

-----------------------------------------------------------------------------
(* _run_with_retry, in a pool thread (or in the main thread, sequentially). *)

\* What ThreadPoolExecutor guarantees: max_workers threads and no more.
PoolHasRoom == Cardinality(Busy) < PoolSize

\* A pool thread takes the oldest submission; steps are submitted in order.
PoolBegin(s) ==
    /\ First({t \in Steps : task[t] = "queued"}, s)
    /\ PoolHasRoom
    /\ task' = [task EXCEPT ![s] = "running"]
    /\ attempts' = [attempts EXCEPT ![s] = 1]
    /\ UNCHANGED <<params, main, context, retryCounts, shared, shown>>

\* The task returns v (typed: TaskResult.unwrap() does).  The result and the
\* status are two assignments; until the join other threads read only the
\* results (dict(self.results) in Submit), so that writing both at once
\* loses no behaviour.
TaskReturns(s, v) ==
    /\ task[s] = "running"
    /\ results' = [results EXCEPT ![s] = v]
    /\ statuses' = [statuses EXCEPT ![s] = "COMPLETED"]
    /\ task' = [task EXCEPT ![s] = "ok"]
    /\ UNCHANGED <<params, main, context, attempts, retryCounts,
                   errors, deadLetters, shown>>

\* Faulty variant of LastAttempt: one attempt too few.
LastAttemptEarly(s) == attempts[s] >= config.retries[s]

LastAttempt(s) == attempts[s] > config.retries[s]

\* The float product 0.5 * 2**attempt of the attempt that failed overflows.
BackoffOverflows(s) == attempts[s] - 1 >= FloatExponent

\* The task raises and attempts are left: back off, or fail to compute for
\* how long, which raises out of _run_with_retry.
TaskRaises(s) ==
    /\ task[s] = "running"
    /\ ~LastAttempt(s)
    /\ retryCounts' = [retryCounts EXCEPT ![s] = attempts[s]]
    /\ trace' = IF Parallel THEN trace
                ELSE Append(trace, Event("step.retry", s, attempts[s]))
    /\ task' = [task EXCEPT ![s] = IF BackoffOverflows(s) THEN "raised"
                                   ELSE "backoff"]
    /\ UNCHANGED <<params, main, context, attempts, shared, emitted, outcome>>

\* The sleep ends and the next attempt begins.
Wake(s) ==
    /\ task[s] = "backoff"
    /\ task' = [task EXCEPT ![s] = "running"]
    /\ attempts' = [attempts EXCEPT ![s] = @ + 1]
    /\ UNCHANGED <<params, main, context, retryCounts, shared, shown>>

\* The task raises in its last attempt: the step goes to the dead letters.
Exhaust(s) ==
    /\ task[s] = "running"
    /\ LastAttempt(s)
    /\ retryCounts' = [retryCounts EXCEPT ![s] = attempts[s]]
    /\ statuses' = [statuses EXCEPT ![s] = "FAILED"]
    /\ errors' = errors \cup {s}
    /\ deadLetters' = Append(deadLetters, [step |-> s, attempts |-> attempts[s]])
    /\ task' = [task EXCEPT ![s] = "failed"]
    /\ UNCHANGED <<params, main, context, attempts, results, shown>>

-----------------------------------------------------------------------------
ScanStep(s) == PassOver(s) \/ SkipStep(s) \/ RunStep(s) \/ Collect(s)

MainStep ==
    \/ ValidateFails \/ Begin \/ RoundStart \/ Finish
    \/ LaunchLayer \/ NextRound \/ NoProgress
    \/ Join \/ JoinRaises
    \/ \E s \in Steps : ScanStep(s) \/ Launch(s) \/ Submit(s) \/ Publish(s)

TaskStep(s) ==
    \/ PoolBegin(s) \/ TaskRaises(s) \/ Wake(s) \/ Exhaust(s)
    \/ \E v \in Values : TaskReturns(s, v)

\* execute() has returned or raised.
Ended == pc \in {"done", "raised"}

Terminated == Ended /\ UNCHANGED vars

Next == MainStep \/ (\E s \in Steps : TaskStep(s)) \/ Terminated

Spec == Init /\ [][Next]_vars

\* The operating system schedules every thread and every task returns or
\* raises (task_time_limit bounds it under Celery).
Fairness == WF_vars(MainStep) /\ \A s \in Steps : WF_vars(TaskStep(s))

FairSpec == Spec /\ Fairness
-----------------------------------------------------------------------------
(* Properties.                                                              *)

\* The variables have the shape the program gives them.
TypeOK ==
    /\ config \in Configs
    /\ limit \in Limits
    /\ pc \in {"validate", "loop", "scan", "launch", "submit", "await",
               "publish", "done", "raised"}
    /\ cursor \in Nat
    /\ executed \in BOOLEAN
    /\ resolved \subseteq Steps
    /\ layer \subseteq Steps
    /\ todo \subseteq Steps
    /\ task \in [Steps -> {"none", "queued", "running", "backoff",
                          "ok", "failed", "raised"}]
    /\ context \in [Steps -> SUBSET Steps]
    /\ attempts \in [Steps -> Nat]
    /\ retryCounts \in [Steps -> Nat]
    /\ statuses \in [Steps -> Status]
    /\ results \in [Steps -> Values \cup {NoResult}]
    /\ errors \subseteq Steps
    /\ deadLetters \in Seq([step : Steps, attempts : Nat])
    /\ trace \in Seq(EventType)
    /\ emitted \in Seq([step : Steps, status : Status])
    /\ outcome \in {"none", "failed", "completed", "partial"}

\* A step is skipped or started only after every step it needs, the source
\* of its condition included, has come to an end, in either mode.
DependencyOrder ==
    \A s \in Steps : statuses[s] # "PENDING" =>
        \A d \in Needs(config, s) : statuses[d] \in Terminal

\* The decision taken when a step was scanned is still right whenever it is
\* looked at later: what runs or ran has a true condition and what was
\* skipped a false one, although other threads keep adding results.
ConditionDecides ==
    \A s \in Steps :
        /\ statuses[s] \in {"RUNNING", "COMPLETED", "FAILED"}
              => Passes(config, s, results)
        /\ statuses[s] = "SKIPPED" => ~Passes(config, s, results)

\* The context a task is given, copied while other threads write results,
\* has the result of every completed step it needs and of no step that has
\* not completed.
ContextHasNeeds ==
    \A s \in Steps : task[s] # "none" =>
        /\ \A d \in Needs(config, s) :
              statuses[d] = "COMPLETED" => d \in context[s]
        /\ \A d \in context[s] : statuses[d] = "COMPLETED"

\* execute() gives up only on steps that can never run: each of them is
\* still pending and waits for another one that is not resolved.
StopsOnlyWhenBlocked ==
    pc = "done" => \A s \in Steps \ resolved :
                      /\ statuses[s] = "PENDING"
                      /\ ~(Needs(config, s) \subseteq resolved)

\* A graph without cycles never meets the no-progress break: when execute()
\* returns, every step has come to an end (docs/failure-modes.md, section 3).
AcyclicRunsResolve ==
    pc = "done" /\ Acyclic(config) =>
        \A s \in Steps : statuses[s] \in Terminal

\* execute() returns when it should: with nothing left that could still run,
\* and, of a graph without cycles, with nothing left at all.  A round that
\* only skipped steps must lead to another one, a round that did nothing
\* must not.
RunsResolve == StopsOnlyWhenBlocked /\ AcyclicRunsResolve

\* The dead letters are exactly the failed steps, each once and after all
\* of its retries + 1 attempts, whatever the threads of a layer did.
DeadLettersExact ==
    /\ \A s \in Steps : statuses[s] = "FAILED" <=>
          \E i \in DOMAIN deadLetters : deadLetters[i].step = s
    /\ \A i, j \in DOMAIN deadLetters :
          deadLetters[i].step = deadLetters[j].step => i = j
    /\ \A i \in DOMAIN deadLetters :
          deadLetters[i].attempts = config.retries[deadLetters[i].step] + 1
    /\ errors = {s \in Steps : statuses[s] = "FAILED"}

\* The status reported for a run agrees with what it recorded: failed
\* exactly when there are dead letters, partial only for a cyclic graph.
RunStatusSound ==
    pc = "done" =>
        /\ outcome = "failed" <=> deadLetters # <<>>
        /\ outcome = "partial" => ~Acyclic(config)
        /\ outcome = "completed" =>
              \A s \in Steps : statuses[s] \in {"COMPLETED", "SKIPPED"}

\* What the trace should say of a step, from what happened to it.
History(s) ==
    LET retried == [i \in 1 .. attempts[s] - 1 |-> Event("step.retry", s, i)]
    IN  CASE statuses[s] = "SKIPPED" -> <<Event("step.skipped", s, 0)>>
          [] statuses[s] = "COMPLETED" ->
                <<Event("step.started", s, 0)>> \o retried
                \o <<Event("step.completed", s, attempts[s])>>
          [] OTHER ->
                <<Event("step.started", s, 0)>> \o retried
                \o <<Event("step.failed", s, attempts[s]),
                     Event("dlq.recorded", s, attempts[s])>>

\* The places of trace t at which it has an event of step s.
Places(t, s) == {i \in DOMAIN t : t[i].step = s}

\* The events of step s in trace t are those of h, in the same order.
Shows(t, s, h) ==
    /\ Cardinality(Places(t, s)) = Len(h)
    /\ \A i \in Places(t, s) :
          t[i] = h[Cardinality({j \in Places(t, s) : j <= i})]

\* For every resolved step the trace holds the same events in the same order
\* in both modes: the retries that parallel mode reports after the fact are
\* those that sequential mode reported live, one per repeated attempt.
TraceFaithful == \A s \in resolved : Shows(trace, s, History(s))

\* The events that close the steps of a layer are in configuration order
\* although its threads end in any order: traces are reproducible.
TracePublishOrder ==
    \A i \in 1 .. Len(trace) : \A j \in i + 1 .. Len(trace) :
        (/\ trace[i].kind \in {"step.completed", "step.failed"}
         /\ trace[j].kind \in {"step.completed", "step.failed"}
         /\ \A k \in i .. j :
               trace[k].kind \notin {"step.started", "step.skipped"})
        => trace[i].step < trace[j].step

\* The on_step hook sees each step once, and with its final status, although
\* worker threads write the statuses.
HookSeesFinalStatus ==
    /\ \A i, j \in DOMAIN emitted :
          emitted[i].step = emitted[j].step => i = j
    /\ \A i \in DOMAIN emitted :
          /\ emitted[i].status = statuses[emitted[i].step]
          /\ emitted[i].status \in Terminal
    /\ \A s \in resolved : \E i \in DOMAIN emitted : emitted[i].step = s

\* What a run shows agrees with what its threads did: the trace of every
\* step, and the order in which the steps of a layer are closed.
TraceSound == TraceFaithful /\ TracePublishOrder

\* What a run reports agrees with what it recorded: its status at the end,
\* and the status of each step that the hook is told.
ReportsSound == RunStatusSound /\ HookSeesFinalStatus

\* Every run ends: the rounds, the pool and the retries come to a stop.
Terminates == <>Ended

\* The executor implements the step life cycle.
Lifecycle == INSTANCE StepLifecycle WITH
    config <- config, statuses <- statuses, results <- results

\* Whatever the mode and the threads, steps move only as StepLifecycle says.
ImplementsLifecycle == Lifecycle!LSpec

-----------------------------------------------------------------------------
(* A statement of the documentation that the code does not keep.            *)

\* "Check deps_met (all depends_on in completed set)": a step starts only if
\* the steps it depends on completed or were skipped.  The code also accepts
\* failed ones, which are in resolved too.
FailureStopsDependents ==
    \A s \in Steps : statuses[s] \notin {"PENDING", "SKIPPED"} =>
        \A d \in config.dependsOn[s] :
            statuses[d] \in {"COMPLETED", "SKIPPED"}
=============================================================================
