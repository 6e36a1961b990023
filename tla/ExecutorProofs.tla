--------------------------- MODULE ExecutorProofs ---------------------------
(***************************************************************************)
(* Proofs about Executor, for every number of steps, every set of          *)
(* definitions, every concurrency limit and every interleaving.            *)
(***************************************************************************)
EXTENDS Executor, FiniteSetTheorems, SequenceTheorems, NaturalsInduction,
        WellFoundedInduction, TLAPS

-----------------------------------------------------------------------------
(* Facts about the constants.                                               *)

\* What a definition that is run looks like.
LEMMA ConfigFacts ==
    ASSUME NEW c \in Configs, NEW s \in Steps
    PROVE  /\ c \in Config
           /\ c.retries[s] \in Nat
           /\ c.dependsOn[s] \subseteq Steps
           /\ c.condition[s] \subseteq Condition
           /\ Needs(c, s) \subseteq Steps
<1>1. /\ c \in Config
      /\ c.retries[s] \in Nat
      /\ c.dependsOn[s] \subseteq Steps
      /\ c.condition[s] \subseteq Condition
  BY ConfigsAssumption DEF Config
<1>2. \A k \in c.condition[s] : k.step \in Steps
  BY <1>1 DEF Condition
<1> QED
  BY <1>1, <1>2 DEF Needs

\* An event of a step is an event of the trace.
LEMMA EventFacts ==
    ASSUME NEW kind \in Kinds, NEW s \in Steps \cup {0}, NEW n \in Nat
    PROVE  Event(kind, s, n) \in EventType
BY DEF Event, EventType

\* What a published step adds to the trace is a sequence of events.
LEMMA PublishedEvents ==
    ASSUME TypeOK, NEW s \in Steps
    PROVE  /\ RetryEvents(s) \in Seq(EventType)
           /\ ClosingEvents(s) \in Seq(EventType)
<1> DEFINE n == IF retryCounts[s] < config.retries[s]
                THEN retryCounts[s] ELSE config.retries[s]
           m == IF Parallel THEN n ELSE 0
<1>1. m \in Nat
  BY ConfigFacts DEF TypeOK
<1>2. \A i \in 1 .. m : Event("step.retry", s, i) \in EventType
  BY <1>1, EventFacts DEF Kinds
<1>3. [i \in 1 .. m |-> Event("step.retry", s, i)] \in Seq(EventType)
  <2> HIDE DEF m
  <2> QED BY <1>1, <1>2
<1>4. RetryEvents(s) \in Seq(EventType)
  BY <1>3 DEF RetryEvents
<1>5. /\ Event("step.completed", s, attempts[s]) \in EventType
      /\ Event("step.failed", s, attempts[s]) \in EventType
      /\ Event("dlq.recorded", s, attempts[s]) \in EventType
  BY EventFacts DEF Kinds, TypeOK
<1> QED
  BY <1>4, <1>5 DEF ClosingEvents

-----------------------------------------------------------------------------
(* Type correctness.                                                        *)

LEMMA TypeInit == Init => TypeOK
<1> SUFFICES ASSUME Init PROVE TypeOK
  OBVIOUS
<1>1. executed \in BOOLEAN
  BY Zenon DEF Init
<1>2. /\ config \in Configs
      /\ limit \in Limits
      /\ pc = "validate"
      /\ cursor \in Nat
      /\ resolved \subseteq Steps
      /\ layer \subseteq Steps
      /\ todo \subseteq Steps
      /\ outcome = "none"
  BY DEF Init
<1>3. /\ task \in [Steps -> {"none"}]
      /\ context \in [Steps -> SUBSET Steps]
      /\ attempts \in [Steps -> Nat]
      /\ retryCounts \in [Steps -> Nat]
      /\ statuses \in [Steps -> Status]
      /\ results \in [Steps -> Values \cup {NoResult}]
      /\ errors \subseteq Steps
  BY DEF Init, Status
<1>4. /\ deadLetters \in Seq([step : Steps, attempts : Nat])
      /\ trace \in Seq(EventType)
      /\ emitted \in Seq([step : Steps, status : Status])
  BY DEF Init
<1> QED
  BY <1>1, <1>2, <1>3, <1>4 DEF TypeOK

LEMMA TypeStep == TypeOK /\ [Next]_vars => TypeOK'
<1> SUFFICES ASSUME TypeOK, [Next]_vars PROVE TypeOK'
  OBVIOUS
<1>1. CASE UNCHANGED vars
  BY <1>1 DEF vars, params, main, worker, shared, shown, TypeOK
<1>2. CASE Terminated
  BY <1>2 DEF Terminated, vars, params, main, worker, shared, shown, TypeOK
<1>3. CASE ValidateFails
  BY <1>3 DEF ValidateFails, params, worker, shared, shown, TypeOK
<1>4. CASE Begin
  <2>1. Event("run.started", 0, 0) \in EventType
    BY EventFacts DEF Kinds
  <2> QED BY <1>4, <2>1 DEF Begin, params, worker, shared, TypeOK
<1>5. CASE RoundStart
  BY <1>5 DEF RoundStart, params, worker, shared, shown, TypeOK
<1>6. ASSUME Conclude PROVE TypeOK'
  <2>1. Event("run.finished", 0, 0) \in EventType
    BY EventFacts DEF Kinds
  <2>2. OverallStatus \in {"failed", "completed", "partial"}
    BY DEF OverallStatus
  <2> QED BY <1>6, <2>1, <2>2 DEF Conclude, params, worker, shared, TypeOK
<1>7. CASE Finish
  BY <1>6, <1>7 DEF Finish
<1>8. CASE LaunchLayer
  BY <1>8 DEF LaunchLayer, params, worker, shared, shown, TypeOK
<1>9. CASE NextRound
  BY <1>9 DEF NextRound, params, worker, shared, shown, TypeOK
<1>10. CASE NoProgress
  BY <1>6, <1>10 DEF NoProgress
<1>11. CASE Join
  BY <1>11 DEF Join, params, worker, shared, shown, TypeOK
<1>12. CASE JoinRaises
  BY <1>12 DEF JoinRaises, params, worker, shared, shown, TypeOK
<1>13. ASSUME NEW s \in Steps, PassOver(s) PROVE TypeOK'
  <2>1. /\ cursor' = cursor + 1
        /\ UNCHANGED <<params, pc, executed, resolved, layer, todo,
                       worker, shared, shown>>
    BY <1>13 DEF PassOver
  <2>2. cursor' \in Nat
    BY <2>1 DEF TypeOK
  <2> QED
    BY <2>1, <2>2 DEF params, worker, shared, shown, TypeOK
<1>14. ASSUME NEW s \in Steps, SkipStep(s) PROVE TypeOK'
  <2>1. Event("step.skipped", s, 0) \in EventType
    BY EventFacts DEF Kinds
  <2>2. executed' \in BOOLEAN
    BY <1>14, Zenon DEF SkipStep
  <2>3. statuses' \in [Steps -> Status]
    BY <1>14 DEF SkipStep, TypeOK, Status
  <2>4. emitted' \in Seq([step : Steps, status : Status])
    BY <1>14 DEF SkipStep, TypeOK, Status
  <2>5. trace' \in Seq(EventType) /\ cursor' \in Nat /\ resolved' \subseteq Steps
    BY <1>14, <2>1 DEF SkipStep, TypeOK
  <2>6. UNCHANGED <<params, pc, layer, todo, worker,
                    results, errors, deadLetters, outcome>>
    BY <1>14 DEF SkipStep
  <2> QED
    BY <2>2, <2>3, <2>4, <2>5, <2>6 DEF params, worker, TypeOK
<1>15. ASSUME NEW s \in Steps, RunStep(s) PROVE TypeOK'
  <2>1. Event("step.started", s, 0) \in EventType
    BY EventFacts DEF Kinds
  <2>2. trace' \in Seq(EventType) /\ pc' = "await" /\ layer' \subseteq Steps
    BY <1>15, <2>1 DEF RunStep, TypeOK
  <2>3. /\ statuses' \in [Steps -> Status]
        /\ attempts' \in [Steps -> Nat]
    BY <1>15 DEF RunStep, TypeOK, Status
  <2>4. context' \in [Steps -> SUBSET Steps]
    BY <1>15 DEF RunStep, TypeOK
  <2>5. task' \in [Steps -> {"none", "queued", "running", "backoff",
                             "ok", "failed", "raised"}]
    BY <1>15 DEF RunStep, TypeOK
  <2>6. UNCHANGED <<params, cursor, executed, resolved, todo, retryCounts,
                    results, errors, deadLetters, emitted, outcome>>
    BY <1>15 DEF RunStep
  <2> QED
    BY <2>2, <2>3, <2>4, <2>5, <2>6 DEF params, TypeOK
<1>16. ASSUME NEW s \in Steps, Collect(s) PROVE TypeOK'
  <2>1. cursor' \in Nat /\ layer' \subseteq Steps
    BY <1>16 DEF Collect, TypeOK
  <2>2. UNCHANGED <<params, pc, executed, resolved, todo,
                    worker, shared, shown>>
    BY <1>16 DEF Collect
  <2> QED
    BY <2>1, <2>2 DEF params, worker, shared, shown, TypeOK
<1>17. ASSUME NEW s \in Steps, Launch(s) PROVE TypeOK'
  <2>1. Event("step.started", s, 0) \in EventType
    BY EventFacts DEF Kinds
  <2> QED
    BY <1>17, <2>1 DEF Launch, params, worker, TypeOK, Status
<1>18. ASSUME NEW s \in Steps, Submit(s) PROVE TypeOK'
  BY <1>18 DEF Submit, params, shared, shown, TypeOK
<1>19. ASSUME NEW s \in Steps, Publish(s) PROVE TypeOK'
  <2>1. trace' \in Seq(EventType)
    <3>1. trace' = trace \o RetryEvents(s) \o ClosingEvents(s)
      BY <1>19 DEF Publish
    <3> QED BY <3>1, PublishedEvents DEF TypeOK
  <2>2. emitted' \in Seq([step : Steps, status : Status])
    BY <1>19 DEF Publish, TypeOK
  <2>3. executed' \in BOOLEAN
    BY <1>19, Zenon DEF Publish, TypeOK
  <2>4. resolved' \subseteq Steps /\ layer' \subseteq Steps /\ todo' \subseteq Steps
    BY <1>19 DEF Publish, TypeOK
  <2>5. cursor' \in Nat /\ pc' \in {"publish", "loop", "scan"}
    BY <1>19 DEF Publish, TypeOK
  <2>6. UNCHANGED <<params, worker, shared, outcome>>
    BY <1>19 DEF Publish
  <2> QED
    BY <2>1, <2>2, <2>3, <2>4, <2>5, <2>6 DEF params, worker, shared, TypeOK
<1>20. ASSUME NEW s \in Steps, PoolBegin(s) PROVE TypeOK'
  BY <1>20 DEF PoolBegin, params, main, shared, shown, TypeOK
<1>21. ASSUME NEW s \in Steps, NEW v \in Values, TaskReturns(s, v) PROVE TypeOK'
  BY <1>21 DEF TaskReturns, params, main, shown, TypeOK, Status
<1>22. ASSUME NEW s \in Steps, TaskRaises(s) PROVE TypeOK'
  <2>1. Event("step.retry", s, attempts[s]) \in EventType
    BY EventFacts DEF Kinds, TypeOK
  <2> QED
    BY <1>22, <2>1 DEF TaskRaises, params, main, shared, TypeOK
<1>23. ASSUME NEW s \in Steps, Wake(s) PROVE TypeOK'
  BY <1>23 DEF Wake, params, main, shared, shown, TypeOK
<1>24. ASSUME NEW s \in Steps, Exhaust(s) PROVE TypeOK'
  BY <1>24 DEF Exhaust, params, main, shown, TypeOK, Status
<1> QED
  BY <1>1, <1>2, <1>3, <1>4, <1>5, <1>7, <1>8, <1>9, <1>10, <1>11, <1>12,
     <1>13, <1>14, <1>15, <1>16, <1>17, <1>18, <1>19, <1>20, <1>21, <1>22,
     <1>23, <1>24
  DEF Next, MainStep, TaskStep, ScanStep

\* The variables of the executor always have the shape the program gives
\* them, in every reachable state of every run.
THEOREM TypeCorrect == Spec => []TypeOK
BY TypeInit, TypeStep, PTL DEF Spec
-----------------------------------------------------------------------------
(* The inductive invariant.  DependencyOrder and the other properties are   *)
(* not inductive: they hold because resolved holds only steps that have     *)
(* ended, because a layer waits for nothing but resolved steps, and because *)
(* the phases of _run_parallel hand the layer on from one to the next.      *)

\* How the status of a step goes with its thread, its result and the sets of
\* the main thread.
StatusInv ==
    \A s \in Steps :
        /\ s \in resolved => statuses[s] \in Terminal /\ s \notin layer
        /\ s \notin resolved /\ s \notin layer => statuses[s] = "PENDING"
        /\ statuses[s] = "PENDING" => task[s] = "none"
        /\ task[s] \in {"queued", "running", "backoff", "raised"}
              => statuses[s] = "RUNNING"
        /\ task[s] = "ok" => statuses[s] = "COMPLETED"
        /\ task[s] = "failed" => statuses[s] = "FAILED"
        /\ results[s] # NoResult <=> statuses[s] = "COMPLETED"

\* Whatever is to run, runs or ran waits for nothing any more.
NeedsInv ==
    \A s \in Steps :
        s \in layer \/ statuses[s] # "PENDING" => Needs(config, s) \subseteq resolved

\* Its condition was decided on results that no thread can change.
GateInv ==
    \A s \in Steps :
        /\ s \in layer => Passes(config, s, results)
        /\ s \in resolved /\ statuses[s] \in {"COMPLETED", "FAILED"}
              => Passes(config, s, results)
        /\ statuses[s] = "SKIPPED" => ~Passes(config, s, results)

\* What each phase of a round leaves to the next one.
LayerInv ==
    /\ pc \in {"validate", "loop", "done"} => layer = {}
    /\ pc = "scan" => \A s \in layer : statuses[s] = "PENDING"
    /\ pc = "scan" /\ ~Parallel => layer = {}
    /\ pc \in {"launch", "submit", "publish"} => todo \subseteq layer
    /\ pc = "launch" => \A s \in layer :
          /\ task[s] = "none"
          /\ s \in todo <=> statuses[s] = "PENDING"
          /\ s \notin todo => statuses[s] = "RUNNING"
    /\ pc = "submit" => \A s \in layer :
          /\ statuses[s] # "PENDING"
          /\ s \in todo <=> task[s] = "none"
          /\ s \in todo => statuses[s] = "RUNNING"
    /\ pc \in {"await", "raised"} => \A s \in layer : task[s] # "none"
    /\ pc = "publish" => \A s \in layer : task[s] \in {"ok", "failed"}

\* A scan that has found nothing so far has passed over blocked steps only.
ScanInv ==
    /\ pc = "scan" /\ ~executed /\ layer = {} =>
          \A s \in Steps \ resolved :
              s < cursor => ~(Needs(config, s) \subseteq resolved)
    /\ pc = "done" =>
          \A s \in Steps \ resolved : ~(Needs(config, s) \subseteq resolved)

IInv == TypeOK /\ StatusInv /\ NeedsInv /\ GateInv /\ LayerInv /\ ScanInv

\* The inductive invariant holds initially.
LEMMA InvInit == Init => IInv
<1> SUFFICES ASSUME Init PROVE IInv
  OBVIOUS
<1>1. TypeOK
  BY TypeInit
<1>2. StatusInv /\ NeedsInv /\ GateInv
  BY DEF Init, StatusInv, NeedsInv, GateInv
<1>3. LayerInv /\ ScanInv
  BY DEF Init, LayerInv, ScanInv
<1> QED
  BY <1>1, <1>2, <1>3 DEF IInv

\* A scan that moves past s has visited s and what it had visited before.
LEMMA StepOrder == \A s, t \in Steps : t < s + 1 => t < s \/ t = s
BY NumStepsAssumption DEF Steps

\* A step needs the source of its condition.
LEMMA SourceNeeded ==
    \A c, s : \A k \in c.condition[s] : k.step \in Needs(c, s)
BY DEF Needs

\* Results that agree on the source of a condition decide it the same way.
LEMMA PassesAgree ==
    ASSUME NEW c, NEW s, NEW r, NEW q,
           \A k \in c.condition[s] : r[k.step] = q[k.step]
    PROVE  Passes(c, s, q) <=> Passes(c, s, r)
BY Zenon DEF Passes

\* No step of any thread breaks the inductive invariant.
LEMMA InvStep == IInv /\ [Next]_vars => IInv'
<1> SUFFICES ASSUME IInv, [Next]_vars PROVE IInv'
  OBVIOUS
<1> DEFINE Rest == StatusInv /\ NeedsInv /\ GateInv /\ LayerInv /\ ScanInv
<1>1. TypeOK /\ TypeOK'
  BY TypeStep DEF IInv
<1>2. \A s \in Steps : s \in Nat /\ 1 <= s /\ s <= NumSteps
  BY NumStepsAssumption DEF Steps
<1> USE <1>1 DEF IInv, TypeOK, StatusInv, NeedsInv, GateInv, LayerInv, ScanInv,
                 Parallel, Terminal, params, main, worker, shared, shown
<1>3. ASSUME UNCHANGED vars PROVE Rest'
  BY <1>3 DEF vars
<1>4. CASE Terminated
  BY <1>3, <1>4 DEF Terminated
<1>5. ASSUME ValidateFails PROVE Rest'
  BY <1>5 DEF ValidateFails
<1>6. ASSUME Begin PROVE Rest'
  BY <1>6 DEF Begin
<1>7. ASSUME LaunchLayer PROVE Rest'
  BY <1>7 DEF LaunchLayer, ScanEnded
<1>8. ASSUME NextRound PROVE Rest'
  BY <1>8 DEF NextRound, ScanEnded
<1>9. ASSUME Join PROVE Rest'
  BY <1>9 DEF Join, Joined, Returned
<1>10. ASSUME JoinRaises PROVE Rest'
  BY <1>10 DEF JoinRaises, Joined, Returned
<1>11. ASSUME Finish PROVE Rest'
  BY <1>11 DEF Finish, Conclude
<1>12. ASSUME RoundStart PROVE Rest'
  <2>1. StatusInv' /\ NeedsInv' /\ GateInv' /\ LayerInv'
    BY <1>12 DEF RoundStart
  <2>2. ScanInv'
    BY <1>12, <1>2 DEF RoundStart
  <2> QED BY <2>1, <2>2
<1>13. ASSUME NoProgress PROVE Rest'
  <2>1. StatusInv' /\ NeedsInv' /\ GateInv' /\ LayerInv'
    BY <1>13 DEF NoProgress, Conclude, ScanEnded
  <2>2. ~executed /\ layer = {} /\ pc = "scan" /\ cursor > NumSteps
    BY <1>13 DEF NoProgress, ScanEnded
  <2>3. \A s \in Steps : s < cursor
    BY <2>2, <1>2, NumStepsAssumption
  <2>4. pc' = "done" /\ resolved' = resolved /\ config' = config
    BY <1>13 DEF NoProgress, Conclude
  <2>5. ScanInv'
    BY <2>2, <2>3, <2>4
  <2> QED BY <2>1, <2>5
<1>14. ASSUME NEW s \in Steps, PassOver(s)
      PROVE  Rest'
  <2>1. StatusInv' /\ NeedsInv' /\ GateInv' /\ LayerInv'
    BY <1>14 DEF PassOver, Scanning
  <2>2. s \notin resolved /\ layer = {} => ~(Needs(config, s) \subseteq resolved)
    BY <1>14 DEF PassOver, Ready
  <2>3. /\ pc = "scan" /\ pc' = "scan" /\ cursor = s /\ cursor' = s + 1
        /\ UNCHANGED <<executed, layer, resolved, config>>
    BY <1>14 DEF PassOver, Scanning
  <2>4. \A t \in Steps : t < s + 1 => t < s \/ t = s
    BY StepOrder
  <2>5. ScanInv'
    BY <2>2, <2>3, <2>4
  <2> QED BY <2>1, <2>5
<1>15. ASSUME NEW s \in Steps, SkipStep(s)
      PROVE  Rest'
  <2>1. StatusInv'
    BY <1>15 DEF SkipStep, Scanning, Ready, Holds
  <2>2. NeedsInv'
    <3>1. /\ Needs(config, s) \subseteq resolved
          /\ resolved \subseteq resolved'
          /\ config' = config /\ layer' \subseteq layer \cup {s}
          /\ \A t \in Steps : t # s => statuses'[t] = statuses[t]
      BY <1>15 DEF SkipStep, Ready
    <3>2. ASSUME NEW t \in Steps, t \in layer' \/ statuses'[t] # "PENDING"
          PROVE  Needs(config, t) \subseteq resolved
      <4>1. CASE t = s
        BY <3>1, <4>1
      <4>2. CASE t # s
        <5>1. t \in layer \/ statuses[t] # "PENDING"
          BY <3>1, <3>2, <4>2
        <5> QED BY <5>1
      <4> QED BY <4>1, <4>2
    <3> QED BY <3>1, <3>2
  <2>3. GateInv'
    BY <1>15 DEF SkipStep, Scanning, Ready, Holds
  <2>4. LayerInv'
    BY <1>15 DEF SkipStep, Scanning, Ready, Holds
  <2>5. ScanInv'
    BY <1>15 DEF SkipStep, Scanning, Ready, Holds
  <2> QED BY <2>1, <2>2, <2>3, <2>4, <2>5
<1>16. ASSUME NEW s \in Steps, RunStep(s)
      PROVE  Rest'
  <2>1. StatusInv'
    BY <1>16 DEF RunStep, Scanning, Ready, Holds
  <2>2. NeedsInv'
    <3>1. /\ Needs(config, s) \subseteq resolved
          /\ resolved \subseteq resolved'
          /\ config' = config /\ layer' \subseteq layer \cup {s}
          /\ \A t \in Steps : t # s => statuses'[t] = statuses[t]
      BY <1>16 DEF RunStep, Ready
    <3>2. ASSUME NEW t \in Steps, t \in layer' \/ statuses'[t] # "PENDING"
          PROVE  Needs(config, t) \subseteq resolved
      <4>1. CASE t = s
        BY <3>1, <4>1
      <4>2. CASE t # s
        <5>1. t \in layer \/ statuses[t] # "PENDING"
          BY <3>1, <3>2, <4>2
        <5> QED BY <5>1
      <4> QED BY <4>1, <4>2
    <3> QED BY <3>1, <3>2
  <2>3. GateInv'
    <3>1. s \notin resolved
      BY <1>16 DEF RunStep, Ready
    <3>2. /\ Passes(config, s, results)
          /\ UNCHANGED <<config, results, resolved>>
          /\ layer' = {s} /\ statuses'[s] = "RUNNING"
          /\ \A t \in Steps : t # s => statuses'[t] = statuses[t]
      BY <1>16 DEF RunStep, Holds
    <3>3. ASSUME NEW t \in Steps
          PROVE  /\ t \in layer' => Passes(config, t, results)
                 /\ t \in resolved /\ statuses'[t] \in {"COMPLETED", "FAILED"}
                       => Passes(config, t, results)
                 /\ statuses'[t] = "SKIPPED" => ~Passes(config, t, results)
      <4>1. CASE t = s
        BY <3>1, <3>2, <4>1
      <4>2. CASE t # s
        <5>1. t \notin layer' /\ statuses'[t] = statuses[t]
          BY <3>2, <4>2
        <5> QED BY <5>1
      <4> QED BY <4>1, <4>2
    <3> QED BY <3>2, <3>3
  <2>4. LayerInv'
    BY <1>16 DEF RunStep, Scanning, Ready, Holds
  <2>5. ScanInv'
    BY <1>16 DEF RunStep, Scanning, Ready, Holds
  <2> QED BY <2>1, <2>2, <2>3, <2>4, <2>5
<1>17. ASSUME NEW s \in Steps, Collect(s)
      PROVE  Rest'
  <2>1. StatusInv'
    BY <1>17 DEF Collect, Scanning, Ready, Holds
  <2>2. NeedsInv'
    BY <1>17 DEF Collect, Scanning, Ready, Holds
  <2>3. GateInv'
    BY <1>17 DEF Collect, Scanning, Ready, Holds
  <2>4. LayerInv'
    BY <1>17 DEF Collect, Scanning, Ready, Holds
  <2>5. ScanInv'
    BY <1>17 DEF Collect, Scanning, Ready, Holds
  <2> QED BY <2>1, <2>2, <2>3, <2>4, <2>5
<1>18. ASSUME NEW s \in Steps, Launch(s)
      PROVE  Rest'
  <2>1. StatusInv'
    BY <1>18 DEF Launch, First
  <2>2. NeedsInv'
    BY <1>18 DEF Launch, First
  <2>3. GateInv'
    BY <1>18 DEF Launch, First
  <2>4. LayerInv'
    BY <1>18 DEF Launch, First
  <2>5. ScanInv'
    BY <1>18 DEF Launch, First
  <2> QED BY <2>1, <2>2, <2>3, <2>4, <2>5
<1>19. ASSUME NEW s \in Steps, Submit(s)
      PROVE  Rest'
  BY <1>19 DEF Submit, First
<1>20. ASSUME NEW s \in Steps, Publish(s)
      PROVE  Rest'
  <2>1. StatusInv'
    BY <1>20 DEF Publish, NextToPublish, First
  <2>2. NeedsInv'
    <3>1. /\ UNCHANGED <<config, statuses>>
          /\ layer' \subseteq layer
          /\ resolved \subseteq resolved'
      BY <1>20 DEF Publish
    <3> QED BY <3>1
  <2>3. GateInv'
    BY <1>20 DEF Publish, NextToPublish, First
  <2>4. LayerInv'
    BY <1>20 DEF Publish, NextToPublish, First
  <2>5. ScanInv'
    BY <1>20 DEF Publish, NextToPublish, First
  <2> QED BY <2>1, <2>2, <2>3, <2>4, <2>5
<1>21. ASSUME NEW s \in Steps, PoolBegin(s)
      PROVE  Rest'
  BY <1>21 DEF PoolBegin, First
<1>22. ASSUME NEW s \in Steps, NEW v \in Values, TaskReturns(s, v)
      PROVE  Rest'
  <2>1. StatusInv'
    BY <1>22, NoResultAssumption DEF TaskReturns
  <2>2. NeedsInv'
    BY <1>22 DEF TaskReturns
  <2>3. GateInv'
    <3>1. s \notin resolved /\ s \in layer /\ statuses[s] = "RUNNING"
      BY <1>22 DEF TaskReturns
    <3>2. \A d \in resolved : results'[d] = results[d]
      BY <1>22, <3>1 DEF TaskReturns
    <3>3. \A t \in Steps : Needs(config, t) \subseteq resolved =>
             (Passes(config, t, results) <=> Passes(config, t, results'))
      <4> SUFFICES ASSUME NEW t \in Steps, Needs(config, t) \subseteq resolved
                   PROVE  Passes(config, t, results) <=> Passes(config, t, results')
        OBVIOUS
      <4>1. \A k \in config.condition[t] : k.step \in resolved
        BY SourceNeeded
      <4>2. \A k \in config.condition[t] : results'[k.step] = results[k.step]
        BY <3>2, <4>1
      <4> QED BY <4>2, PassesAgree
    <3>4. /\ UNCHANGED <<config, layer, resolved>>
          /\ statuses'[s] = "COMPLETED"
          /\ \A t \in Steps : t # s => statuses'[t] = statuses[t]
      BY <1>22 DEF TaskReturns
    <3>5. ASSUME NEW t \in Steps
          PROVE  /\ t \in layer => Passes(config, t, results')
                 /\ t \in resolved /\ statuses'[t] \in {"COMPLETED", "FAILED"}
                       => Passes(config, t, results')
                 /\ statuses'[t] = "SKIPPED" => ~Passes(config, t, results')
      <4>1. t \in layer => Passes(config, t, results')
        BY <3>3
      <4>2. CASE t = s
        BY <3>1, <3>4, <4>1, <4>2
      <4>3. CASE t # s
        <5>1. statuses'[t] = statuses[t]
          BY <3>4, <4>3
        <5>2. t \in resolved \/ statuses[t] = "SKIPPED"
                => (Passes(config, t, results) <=> Passes(config, t, results'))
          BY <3>3
        <5> QED BY <4>1, <5>1, <5>2
      <4> QED BY <4>2, <4>3
    <3> QED BY <3>4, <3>5
  <2>4. LayerInv'
    BY <1>22 DEF TaskReturns
  <2>5. ScanInv'
    BY <1>22 DEF TaskReturns
  <2> QED BY <2>1, <2>2, <2>3, <2>4, <2>5
<1>23. ASSUME NEW s \in Steps, TaskRaises(s)
      PROVE  Rest'
  BY <1>23 DEF TaskRaises
<1>24. ASSUME NEW s \in Steps, Wake(s)
      PROVE  Rest'
  <2>1. StatusInv'
    BY <1>24 DEF Wake
  <2>2. NeedsInv' /\ GateInv'
    BY <1>24 DEF Wake
  <2>3. LayerInv'
    BY <1>24 DEF Wake
  <2>4. ScanInv'
    BY <1>24 DEF Wake
  <2> QED BY <2>1, <2>2, <2>3, <2>4
<1>25. ASSUME NEW s \in Steps, Exhaust(s)
      PROVE  Rest'
  <2>1. StatusInv'
    BY <1>25 DEF Exhaust
  <2>2. NeedsInv'
    BY <1>25 DEF Exhaust
  <2>3. GateInv'
    BY <1>25 DEF Exhaust
  <2>4. LayerInv'
    BY <1>25 DEF Exhaust
  <2>5. ScanInv'
    BY <1>25 DEF Exhaust
  <2> QED BY <2>1, <2>2, <2>3, <2>4, <2>5
<1> QED
  BY <1>1, <1>3, <1>4, <1>5, <1>6, <1>7, <1>8, <1>9, <1>10, <1>11, <1>12,
     <1>13, <1>14, <1>15, <1>16, <1>17, <1>18, <1>19, <1>20, <1>21, <1>22,
     <1>23, <1>24, <1>25
  DEF Next, MainStep, TaskStep, ScanStep
\* The inductive invariant holds in every reachable state.
THEOREM Invariant == Spec => []IInv
BY InvInit, InvStep, PTL DEF Spec

-----------------------------------------------------------------------------
(* What follows from it.                                                    *)

\* Steps are skipped and started only after all they need has ended, whatever
\* the graph, the mode and the interleaving of the pool's threads.
THEOREM DependencyOrderHolds == Spec => []DependencyOrder
<1>1. IInv => DependencyOrder
  <2> SUFFICES ASSUME IInv, NEW s \in Steps, statuses[s] # "PENDING",
                      NEW d \in Needs(config, s)
               PROVE  statuses[d] \in Terminal
    BY DEF DependencyOrder
  <2>1. Needs(config, s) \subseteq resolved
    BY DEF IInv, NeedsInv
  <2>2. d \in Steps
    BY <2>1 DEF IInv, TypeOK
  <2> QED BY <2>1, <2>2 DEF IInv, StatusInv
<1> QED
  BY <1>1, Invariant, PTL

\* The decision on a condition is never overtaken by a later result.
THEOREM ConditionDecidesHolds == Spec => []ConditionDecides
<1>1. IInv => ConditionDecides
  BY DEF IInv, StatusInv, GateInv, ConditionDecides, Terminal
<1> QED
  BY <1>1, Invariant, PTL

\* execute() gives up on blocked steps only.
THEOREM StopsOnlyWhenBlockedHolds == Spec => []StopsOnlyWhenBlocked
<1>1. IInv => StopsOnlyWhenBlocked
  BY DEF IInv, StatusInv, LayerInv, ScanInv, StopsOnlyWhenBlocked
<1> QED
  BY <1>1, Invariant, PTL

\* Every nonempty set of steps has one of least rank.
LEMMA LeastRank ==
    ASSUME NEW rank \in [Steps -> Steps], NEW S \in SUBSET Steps, S # {}
    PROVE  \E s \in S : \A t \in S : ~(rank[t] < rank[s])
<1> DEFINE R == OpToRel(<, Nat)
           T == {rank[s] : s \in S}
<1>1. Steps \subseteq Nat
  BY NumStepsAssumption DEF Steps
<1>2. T \in SUBSET Nat /\ T # {}
  BY <1>1
<1>3. IsWellFoundedOn(R, Nat)
  BY NatLessThanWellFounded
<1>4. PICK n \in T : \A m \in T : ~(<<m, n>> \in R)
  <2> HIDE DEF R, T
  <2> QED BY <1>2, <1>3, WFMin
<1>5. PICK s \in S : rank[s] = n
  BY <1>4
<1>6. ASSUME NEW t \in S, rank[t] < rank[s] PROVE FALSE
  <2>1. rank[t] \in T /\ rank[t] \in Nat /\ n \in Nat /\ rank[t] < n
    BY <1>1, <1>5, <1>6
  <2>2. <<rank[t], n>> \in R
    BY <2>1 DEF OpToRel
  <2> QED BY <1>4, <2>1, <2>2
<1> QED
  BY <1>6

\* The no-progress break is never taken on an acyclic graph: of the steps
\* that were left behind, one of least rank would need resolved steps only.
THEOREM AcyclicRunsResolveHolds == Spec => []AcyclicRunsResolve
<1>1. IInv => AcyclicRunsResolve
  <2> SUFFICES ASSUME IInv, pc = "done", Acyclic(config)
               PROVE  \A s \in Steps : statuses[s] \in Terminal
    BY DEF AcyclicRunsResolve
  <2>1. PICK rank \in [Steps -> Steps] :
            \A s \in Steps : \A d \in Needs(config, s) : rank[d] < rank[s]
    BY DEF Acyclic
  <2>2. Steps \ resolved = {}
    <3> SUFFICES ASSUME Steps \ resolved # {} PROVE FALSE
      OBVIOUS
    <3>1. PICK s \in Steps \ resolved :
              \A t \in Steps \ resolved : ~(rank[t] < rank[s])
      BY <2>1, LeastRank
    <3>2. Needs(config, s) \subseteq Steps
      BY ConfigFacts DEF IInv, TypeOK
    <3>3. Needs(config, s) \subseteq resolved
      BY <2>1, <3>1, <3>2
    <3> QED BY <3>1, <3>3 DEF IInv, ScanInv
  <2> QED BY <2>2 DEF IInv, StatusInv
<1> QED
  BY <1>1, Invariant, PTL

\* On every graph, in every mode, execute() stops only when nothing that is
\* left can run, and on an acyclic one only when nothing is left.
THEOREM RunsResolveHolds == Spec => []RunsResolve
<1>1. StopsOnlyWhenBlocked /\ AcyclicRunsResolve => RunsResolve
  BY DEF RunsResolve
<1> QED  BY <1>1, StopsOnlyWhenBlockedHolds, AcyclicRunsResolveHolds, PTL

-----------------------------------------------------------------------------
(* The executor implements StepLifecycle.                                   *)

\* The life cycle reads a definition as the executor does.
LEMMA SameWorkflow ==
    /\ Lifecycle!Steps = Steps
    /\ \A c, s : Lifecycle!Needs(c, s) = Needs(c, s)
    /\ \A c, s, r : Lifecycle!Passes(c, s, r) <=> Passes(c, s, r)
<1>1. Lifecycle!Steps = Steps
  BY DEF Lifecycle!Steps, Steps
<1>2. \A c, s : Lifecycle!Needs(c, s) = Needs(c, s)
  BY DEF Lifecycle!Needs, Needs
<1>3. \A c, s, r : Lifecycle!Passes(c, s, r) <=> Passes(c, s, r)
  BY DEF Lifecycle!Passes, Passes
<1> QED
  BY <1>1, <1>2, <1>3

\* A pending step that waits for resolved steps only is eligible.
LEMMA ReadyIsEligible ==
    ASSUME IInv, NEW s \in Steps, statuses[s] = "PENDING",
           Needs(config, s) \subseteq resolved
    PROVE  Lifecycle!Eligible(s)
BY SameWorkflow
DEF IInv, TypeOK, StatusInv, Terminal, Lifecycle!Eligible, Lifecycle!Settled

\* Every step of the executor is a step of the life cycle or leaves the
\* statuses and the results alone.
LEMMA LifecycleStep ==
    IInv /\ [Next]_vars => [Lifecycle!LNext]_(Lifecycle!lifecycle)
<1> SUFFICES ASSUME IInv, [Next]_vars
             PROVE  Lifecycle!LNext \/ UNCHANGED <<config, statuses, results>>
  BY DEF Lifecycle!lifecycle
<1> DEFINE Quiet == UNCHANGED <<config, statuses, results>>
<1> USE DEF params, shared
<1>1. CASE UNCHANGED vars \/ Terminated
  BY <1>1 DEF Terminated, vars
<1>2. ASSUME Conclude PROVE Quiet
  BY <1>2 DEF Conclude
<1>3. CASE ValidateFails \/ Begin \/ RoundStart \/ Finish \/ LaunchLayer
           \/ NextRound \/ NoProgress \/ Join \/ JoinRaises
  BY <1>2, <1>3 DEF ValidateFails, Begin, RoundStart, Finish, LaunchLayer,
                    NextRound, NoProgress, Join, JoinRaises
<1>4. ASSUME NEW s \in Steps,
             PassOver(s) \/ Collect(s) \/ Submit(s) \/ Publish(s)
             \/ PoolBegin(s) \/ TaskRaises(s) \/ Wake(s)
      PROVE  Quiet
  BY <1>4 DEF PassOver, Collect, Submit, Publish, PoolBegin, TaskRaises, Wake
<1>5. ASSUME NEW s \in Steps, SkipStep(s) PROVE Lifecycle!Skip(s)
  <2>1. Lifecycle!Eligible(s)
    BY <1>5, ReadyIsEligible DEF SkipStep, Ready
  <2> QED BY <1>5, <2>1, SameWorkflow DEF SkipStep, Holds, Lifecycle!Skip
<1>6. ASSUME NEW s \in Steps, RunStep(s) PROVE Lifecycle!Start(s)
  <2>1. Lifecycle!Eligible(s)
    BY <1>6, ReadyIsEligible DEF RunStep, Ready
  <2> QED BY <1>6, <2>1, SameWorkflow DEF RunStep, Holds, Lifecycle!Start
<1>7. ASSUME NEW s \in Steps, Launch(s) PROVE Lifecycle!Start(s)
  <2>1. pc = "launch" /\ s \in todo /\ s \in layer
    BY <1>7 DEF Launch, First, IInv, LayerInv
  <2>2. statuses[s] = "PENDING"
    BY <2>1 DEF IInv, LayerInv
  <2>3. Needs(config, s) \subseteq resolved /\ Passes(config, s, results)
    BY <2>1 DEF IInv, NeedsInv, GateInv
  <2>4. Lifecycle!Eligible(s)
    BY <2>2, <2>3, ReadyIsEligible
  <2> QED BY <1>7, <2>3, <2>4, SameWorkflow DEF Launch, Lifecycle!Start
<1>8. ASSUME NEW s \in Steps, NEW v \in Values, TaskReturns(s, v)
      PROVE  Lifecycle!Complete(s, v)
  BY <1>8 DEF TaskReturns, IInv, StatusInv, Lifecycle!Complete
<1>9. ASSUME NEW s \in Steps, Exhaust(s) PROVE Lifecycle!Fail(s)
  BY <1>9 DEF Exhaust, IInv, StatusInv, Lifecycle!Fail
<1> QED
  BY <1>1, <1>3, <1>4, <1>5, <1>6, <1>7, <1>8, <1>9, SameWorkflow
  DEF Next, MainStep, TaskStep, ScanStep, Lifecycle!LNext

\* Rounds, layers, the pool and the retries are invisible in the statuses and
\* the results: the executor implements the life cycle of docs/architecture.
THEOREM Refinement == Spec => ImplementsLifecycle
<1>1. Init => Lifecycle!LInit
  BY SameWorkflow DEF Init, Lifecycle!LInit
<1> QED
  BY <1>1, LifecycleStep, Invariant, PTL
  DEF Spec, ImplementsLifecycle, Lifecycle!LSpec
-----------------------------------------------------------------------------
(* The dead letters.                                                        *)

\* A thread in its last attempt has made at most retries + 1 of them, and one
\* that sleeps has another one left.
AttemptInv ==
    \A s \in Steps :
        /\ task[s] = "running" => attempts[s] <= config.retries[s] + 1
        /\ task[s] = "backoff" => attempts[s] <= config.retries[s]

DeadLetterInv == IInv /\ AttemptInv /\ DeadLettersExact

LEMMA AttemptStep == IInv /\ AttemptInv /\ [Next]_vars => AttemptInv'
<1> SUFFICES ASSUME IInv, AttemptInv, [Next]_vars PROVE AttemptInv'
  OBVIOUS
<1>1. /\ task \in [Steps -> {"none", "queued", "running", "backoff",
                             "ok", "failed", "raised"}]
      /\ attempts \in [Steps -> Nat]
  BY DEF IInv, TypeOK
<1>2. \A s \in Steps : config.retries[s] \in Nat
  BY ConfigFacts DEF IInv, TypeOK
<1> USE DEF AttemptInv, params, main, worker
<1>3. CASE UNCHANGED vars \/ Terminated
  BY <1>3 DEF Terminated, vars
<1>4. ASSUME UNCHANGED <<params, worker>> PROVE AttemptInv'
  BY <1>4
<1>5. CASE ValidateFails \/ Begin \/ RoundStart \/ Finish \/ LaunchLayer
           \/ NextRound \/ NoProgress \/ Join \/ JoinRaises
  BY <1>5, <1>4 DEF ValidateFails, Begin, RoundStart, Finish, LaunchLayer,
                    NextRound, NoProgress, Join, JoinRaises, Conclude
<1>6. ASSUME NEW s \in Steps,
             PassOver(s) \/ SkipStep(s) \/ Collect(s) \/ Launch(s) \/ Publish(s)
      PROVE  AttemptInv'
  BY <1>6, <1>4 DEF PassOver, SkipStep, Collect, Launch, Publish
<1>7. ASSUME NEW s \in Steps, RunStep(s) PROVE AttemptInv'
  BY <1>1, <1>2, <1>7 DEF RunStep
<1>8. ASSUME NEW s \in Steps, Submit(s) PROVE AttemptInv'
  BY <1>1, <1>2, <1>8 DEF Submit
<1>9. ASSUME NEW s \in Steps, PoolBegin(s) PROVE AttemptInv'
  BY <1>1, <1>2, <1>9 DEF PoolBegin
<1>10. ASSUME NEW s \in Steps, NEW v \in Values, TaskReturns(s, v)
       PROVE  AttemptInv'
  BY <1>1, <1>2, <1>10 DEF TaskReturns
<1>11. ASSUME NEW s \in Steps, TaskRaises(s) PROVE AttemptInv'
  BY <1>1, <1>2, <1>11 DEF TaskRaises, LastAttempt
<1>12. ASSUME NEW s \in Steps, Wake(s) PROVE AttemptInv'
  BY <1>1, <1>2, <1>12 DEF Wake
<1>13. ASSUME NEW s \in Steps, Exhaust(s) PROVE AttemptInv'
  BY <1>1, <1>2, <1>13 DEF Exhaust
<1> QED
  BY <1>3, <1>5, <1>6, <1>7, <1>8, <1>9, <1>10, <1>11, <1>12, <1>13
  DEF Next, MainStep, TaskStep, ScanStep

\* A step that fails is new to the dead letters and is entered once.
LEMMA ExhaustDeadLetters ==
    ASSUME DeadLetterInv, NEW s \in Steps, Exhaust(s)
    PROVE  DeadLettersExact'
<1> DEFINE n == Len(deadLetters)
           letter == [step |-> s, attempts |-> attempts[s]]
<1>1. /\ deadLetters \in Seq([step : Steps, attempts : Nat])
      /\ attempts[s] \in Nat
      /\ config.retries[s] \in Nat
  BY ConfigFacts DEF DeadLetterInv, IInv, TypeOK
<1>2. statuses[s] = "RUNNING" /\ attempts[s] = config.retries[s] + 1
  BY <1>1 DEF DeadLetterInv, AttemptInv, IInv, StatusInv, Exhaust, LastAttempt
<1>3. \A i \in 1 .. n : deadLetters[i].step # s
  <2>1. DOMAIN deadLetters = 1 .. n
    BY <1>1
  <2>2. \A i \in DOMAIN deadLetters : deadLetters[i].step # s
    <3> HIDE DEF n
    <3> QED BY <1>2 DEF DeadLetterInv, DeadLettersExact
  <2> QED BY <2>1, <2>2
<1>4. /\ n \in Nat
      /\ DOMAIN deadLetters = 1 .. n
      /\ DOMAIN deadLetters' = 1 .. (n + 1)
      /\ \A i \in 1 .. n : deadLetters'[i] = deadLetters[i]
      /\ deadLetters'[n + 1] = letter
  BY <1>1 DEF Exhaust
<1>5. /\ statuses' = [statuses EXCEPT ![s] = "FAILED"]
      /\ errors' = errors \cup {s}
      /\ config' = config
      /\ statuses \in [Steps -> Status]
  BY DEF Exhaust, params, DeadLetterInv, IInv, TypeOK
<1>6. letter.step = s /\ letter.attempts = attempts[s]
  OBVIOUS
<1> HIDE DEF n, letter
<1>7. \A i \in 1 .. (n + 1) : i \in 1 .. n \/ i = n + 1
  BY <1>4
<1>8. 1 .. n \subseteq 1 .. (n + 1) /\ n + 1 \in 1 .. (n + 1)
  BY <1>4
<1>9. (\A t \in Steps : statuses[t] = "FAILED" <=>
          \E i \in DOMAIN deadLetters : deadLetters[i].step = t)'
  BY <1>4, <1>5, <1>6, <1>7, <1>8 DEF DeadLetterInv, DeadLettersExact
<1>10. (\A i, j \in DOMAIN deadLetters :
           deadLetters[i].step = deadLetters[j].step => i = j)'
  BY <1>3, <1>4, <1>6, <1>7 DEF DeadLetterInv, DeadLettersExact
<1>11. (\A i \in DOMAIN deadLetters :
           deadLetters[i].attempts = config.retries[deadLetters[i].step] + 1)'
  BY <1>2, <1>4, <1>5, <1>6, <1>7 DEF DeadLetterInv, DeadLettersExact
<1>12. (errors = {t \in Steps : statuses[t] = "FAILED"})'
  BY <1>5 DEF DeadLetterInv, DeadLettersExact
<1> QED
  BY <1>9, <1>10, <1>11, <1>12 DEF DeadLettersExact

\* No other step makes a step fail or touches the dead letters.
LEMMA DeadLetterStep == DeadLetterInv /\ [Next]_vars => DeadLettersExact'
<1> SUFFICES ASSUME DeadLetterInv, [Next]_vars PROVE DeadLettersExact'
  OBVIOUS
<1> DEFINE Kept == /\ UNCHANGED <<config, deadLetters, errors>>
                   /\ \A t \in Steps : statuses'[t] = "FAILED"
                                         <=> statuses[t] = "FAILED"
<1>1. statuses \in [Steps -> Status] /\ StatusInv /\ LayerInv
  BY DEF DeadLetterInv, IInv, TypeOK
<1> USE DEF params, shared
<1>2. ASSUME Kept PROVE DeadLettersExact'
  BY <1>2 DEF DeadLetterInv, DeadLettersExact
<1>3. CASE UNCHANGED vars \/ Terminated
  BY <1>2, <1>3 DEF Terminated, vars
<1>4. CASE ValidateFails \/ Begin \/ RoundStart \/ Finish \/ LaunchLayer
           \/ NextRound \/ NoProgress \/ Join \/ JoinRaises
  BY <1>2, <1>4 DEF ValidateFails, Begin, RoundStart, Finish, LaunchLayer,
                    NextRound, NoProgress, Join, JoinRaises, Conclude
<1>5. ASSUME NEW s \in Steps,
             PassOver(s) \/ Collect(s) \/ Submit(s) \/ Publish(s)
             \/ PoolBegin(s) \/ TaskRaises(s) \/ Wake(s)
      PROVE  Kept
  BY <1>5 DEF PassOver, Collect, Submit, Publish, PoolBegin, TaskRaises, Wake
<1>6. ASSUME NEW s \in Steps, SkipStep(s) \/ RunStep(s) PROVE Kept
  BY <1>1, <1>6 DEF SkipStep, RunStep, Ready
<1>7. ASSUME NEW s \in Steps, Launch(s) PROVE Kept
  BY <1>1, <1>7 DEF Launch, First, LayerInv
<1>8. ASSUME NEW s \in Steps, NEW v \in Values, TaskReturns(s, v) PROVE Kept
  BY <1>1, <1>8 DEF TaskReturns, StatusInv
<1> QED
  BY <1>2, <1>3, <1>4, <1>5, <1>6, <1>7, <1>8, ExhaustDeadLetters
  DEF Next, MainStep, TaskStep, ScanStep

\* The dead letters are the failed steps, each once and with all of its
\* attempts, although the threads of a layer append to them in any order.
THEOREM DeadLettersExactHolds == Spec => []DeadLettersExact
<1>1. Init => DeadLetterInv
  BY InvInit DEF Init, DeadLetterInv, AttemptInv, DeadLettersExact
<1>2. DeadLetterInv /\ [Next]_vars => DeadLetterInv'
  BY InvStep, AttemptStep, DeadLetterStep DEF DeadLetterInv
<1> QED
  BY <1>1, <1>2, PTL DEF Spec, DeadLetterInv

-----------------------------------------------------------------------------
(* Contexts.                                                                *)

\* Where a thread runs a step the step is in a layer, and the main thread has
\* neither gone on to the next round nor returned.
LEMMA BusyFacts ==
    ASSUME IInv, NEW s \in Steps,
           task[s] \in {"queued", "running", "backoff", "raised"}
    PROVE  /\ statuses[s] = "RUNNING"
           /\ s \in layer /\ s \notin resolved
           /\ pc \in {"submit", "await", "raised"}
<1>1. statuses[s] = "RUNNING"
  BY DEF IInv, StatusInv
<1>2. s \in layer /\ s \notin resolved
  BY <1>1 DEF IInv, StatusInv, Terminal
<1>3. pc \notin {"validate", "loop", "done", "scan", "launch", "publish"}
  BY <1>1, <1>2 DEF IInv, LayerInv
<1> QED
  BY <1>1, <1>2, <1>3 DEF IInv, TypeOK

\* A status that is terminal is final, as the life cycle promises.
LEMMA TerminalIsFinal ==
    ASSUME IInv, [Next]_vars, NEW s \in Steps, statuses[s] \in Terminal
    PROVE  statuses'[s] = statuses[s]
<1>1. [Lifecycle!LNext]_(Lifecycle!lifecycle)
  BY LifecycleStep
<1>2. statuses \in [Steps -> Status]
  BY DEF IInv, TypeOK
<1> QED
  BY <1>1, <1>2, SameWorkflow
  DEF Terminal, Lifecycle!LNext, Lifecycle!lifecycle, Lifecycle!Skip,
      Lifecycle!Start, Lifecycle!Fail, Lifecycle!Complete, Lifecycle!Eligible

\* What a step needs has ended, and stays as it is, once the step is at work.
LEMMA NeedsAreFinal ==
    ASSUME IInv, [Next]_vars, NEW s \in Steps, task[s] # "none"
    PROVE  \A d \in Needs(config, s) : d \in Steps /\ statuses'[d] = statuses[d]
<1>1. Needs(config, s) \subseteq resolved
  BY DEF IInv, StatusInv, NeedsInv
<1> QED
  BY <1>1, TerminalIsFinal DEF IInv, TypeOK, StatusInv

\* The results there are when a context is copied are those of the completed
\* steps, which is what the task needs to be given.
LEMMA ContextStep == IInv /\ ContextHasNeeds /\ [Next]_vars => ContextHasNeeds'
<1> SUFFICES ASSUME IInv, ContextHasNeeds, [Next]_vars,
                    NEW s \in Steps, task'[s] # "none"
             PROVE  /\ \A d \in Needs(config, s)' :
                          statuses'[d] = "COMPLETED" => d \in context'[s]
                    /\ \A d \in context'[s] : statuses'[d] = "COMPLETED"
  BY DEF ContextHasNeeds
<1>1. /\ context \in [Steps -> SUBSET Steps] /\ context' \in [Steps -> SUBSET Steps]
      /\ task \in [Steps -> {"none", "queued", "running", "backoff",
                             "ok", "failed", "raised"}]
      /\ statuses \in [Steps -> Status] /\ Needs(config, s) \subseteq Steps
  BY TypeStep, ConfigFacts DEF IInv, TypeOK
<1>2. config' = config
  BY LifecycleStep DEF Lifecycle!LNext, Lifecycle!lifecycle, Lifecycle!Skip,
     Lifecycle!Start, Lifecycle!Fail, Lifecycle!Complete
<1> DEFINE Kept   == task[s] # "none" /\ context'[s] = context[s]
           Copied == /\ context'[s] = {t \in Steps : results[t] # NoResult}
                     /\ \A t \in Steps : statuses'[t] = "COMPLETED"
                                           <=> statuses[t] = "COMPLETED"
<1>3. CASE Kept
  <2>1. \A d \in Needs(config, s) : statuses'[d] = statuses[d]
    BY <1>3, NeedsAreFinal
  <2>2. \A d \in context[s] : statuses'[d] = "COMPLETED"
    BY <1>1, <1>3, TerminalIsFinal DEF ContextHasNeeds, Terminal
  <2> QED BY <1>2, <1>3, <2>1, <2>2 DEF ContextHasNeeds, Needs
<1>4. CASE Copied
  BY <1>1, <1>2, <1>4 DEF IInv, StatusInv, Needs
<1>5. Kept \/ Copied
  <2> USE <1>1 DEF params, main, worker, shared
  <2>1. CASE UNCHANGED <<task, context>>
    BY <2>1
  <2>2. ASSUME NEW t \in Steps, RunStep(t) PROVE Kept \/ Copied
    BY <2>2 DEF RunStep, Ready
  <2>3. ASSUME NEW t \in Steps, Submit(t) PROVE Kept \/ Copied
    BY <2>3 DEF Submit
  <2>4. ASSUME NEW t \in Steps,
               \/ PoolBegin(t) \/ TaskRaises(t) \/ Wake(t) \/ Exhaust(t)
               \/ \E v \in Values : TaskReturns(t, v)
        PROVE  <1>5
    BY <2>4 DEF PoolBegin, TaskRaises, Wake, Exhaust, TaskReturns, First
  <2>5. ASSUME NEW t \in Steps,
               PassOver(t) \/ SkipStep(t) \/ Collect(t) \/ Launch(t) \/ Publish(t)
        PROVE  UNCHANGED <<task, context>>
    BY <2>5 DEF PassOver, SkipStep, Collect, Launch, Publish
  <2>6. CASE \/ UNCHANGED vars \/ Terminated
             \/ ValidateFails \/ Begin \/ RoundStart \/ Finish \/ LaunchLayer
             \/ NextRound \/ NoProgress \/ Join \/ JoinRaises
    BY <2>1, <2>6 DEF Terminated, vars, ValidateFails, Begin, RoundStart, Finish,
       LaunchLayer, NextRound, NoProgress, Join, JoinRaises, Conclude
  <2> QED
    BY <2>1, <2>2, <2>3, <2>4, <2>5, <2>6
    DEF Next, MainStep, TaskStep, ScanStep
<1> QED
  BY <1>3, <1>4, <1>5

\* Contexts are copied while threads of the same layer add results; none of
\* these is of a step that the task needs.
THEOREM ContextHasNeedsHolds == Spec => []ContextHasNeeds
<1>1. Init => ContextHasNeeds
  BY DEF Init, ContextHasNeeds
<1> QED
  BY <1>1, ContextStep, Invariant, PTL DEF Spec
-----------------------------------------------------------------------------
(* Reports.                                                                 *)

\* The status was computed from what the steps still are.
OutcomeInv == pc = "done" => outcome = OverallStatus

LEMMA OutcomeStep == IInv /\ OutcomeInv /\ [Next]_vars => OutcomeInv'
<1> SUFFICES ASSUME IInv, OutcomeInv, [Next]_vars, pc' = "done"
             PROVE  outcome' = OverallStatus'
  BY DEF OutcomeInv
<1>1. CASE pc = "done"
  <2>1. \A s \in Steps : ~TaskStep(s)
    <3> SUFFICES ASSUME NEW s \in Steps, TaskStep(s) PROVE FALSE
      OBVIOUS
    <3>1. task[s] \in {"queued", "running", "backoff"}
      BY DEF TaskStep, PoolBegin, First, TaskRaises, Wake, Exhaust, TaskReturns
    <3> QED BY <1>1, <3>1, BusyFacts
  <2>2. UNCHANGED vars
    BY <1>1, <2>1 DEF Next, Terminated, MainStep, ScanStep, Scanning, ScanEnded,
       ValidateFails, Begin, RoundStart, Finish, LaunchLayer, NextRound, NoProgress,
       Join, JoinRaises, PassOver, SkipStep, RunStep, Collect, Launch, Submit, Publish
  <2> QED
    BY <1>1, <2>2 DEF OutcomeInv, OverallStatus, vars, shared, shown
<1>2. CASE pc # "done"
  <2>1. Conclude
    BY <1>2 DEF Next, Terminated, vars, MainStep, TaskStep, ScanStep, Scanning,
       ScanEnded, ValidateFails, Begin, RoundStart, Finish, LaunchLayer, NextRound,
       NoProgress, Join, JoinRaises, PassOver, SkipStep, RunStep, Collect, Launch,
       Submit, Publish, PoolBegin, TaskRaises, Wake, Exhaust, TaskReturns, main
  <2> QED
    BY <2>1 DEF Conclude, OverallStatus, shared
<1> QED
  BY <1>1, <1>2

\* The reported status tells failed runs by their dead letters, and "partial"
\* occurs on cyclic graphs only.
THEOREM RunStatusSoundHolds == Spec => []RunStatusSound
<1>1. Init => OutcomeInv
  BY DEF Init, OutcomeInv
<1>2. /\ IInv /\ OutcomeInv /\ DeadLettersExact /\ AcyclicRunsResolve
      => RunStatusSound
  <2> SUFFICES ASSUME IInv, OutcomeInv, DeadLettersExact, AcyclicRunsResolve,
                      pc = "done"
               PROVE  /\ outcome = "failed" <=> deadLetters # <<>>
                      /\ outcome = "partial" => ~Acyclic(config)
                      /\ outcome = "completed" =>
                            \A s \in Steps : statuses[s] \in {"COMPLETED", "SKIPPED"}
    BY DEF RunStatusSound
  <2>1. deadLetters \in Seq([step : Steps, attempts : Nat])
    BY DEF IInv, TypeOK
  <2>2. outcome = "failed" <=> \E s \in Steps : statuses[s] = "FAILED"
    BY DEF OutcomeInv, OverallStatus
  <2>3. (\E s \in Steps : statuses[s] = "FAILED") <=> deadLetters # <<>>
    <3>1. deadLetters # <<>> => 1 \in DOMAIN deadLetters
      <4>1. deadLetters # <<>> => Len(deadLetters) \in Nat \ {0}
        BY <2>1, EmptySeq
      <4>2. DOMAIN deadLetters = 1 .. Len(deadLetters)
        BY <2>1
      <4> QED BY <4>1, <4>2
    <3>2. 1 \in DOMAIN deadLetters => deadLetters[1].step \in Steps
      <4>1. DOMAIN deadLetters = 1 .. Len(deadLetters)
        BY <2>1
      <4>2. \A i \in 1 .. Len(deadLetters) :
               deadLetters[i] \in [step : Steps, attempts : Nat]
        BY <2>1, ElementOfSeq
      <4> QED BY <4>1, <4>2
    <3>3. deadLetters = <<>> => DOMAIN deadLetters = {}
      OBVIOUS
    <3> QED BY <3>1, <3>2, <3>3 DEF DeadLettersExact
  <2>4. outcome = "partial" => \E s \in Steps : statuses[s] \notin Terminal
    BY DEF OutcomeInv, OverallStatus, Terminal
  <2>5. outcome = "completed" =>
           \A s \in Steps : statuses[s] \in {"COMPLETED", "SKIPPED"}
    BY DEF OutcomeInv, OverallStatus
  <2> QED
    BY <2>2, <2>3, <2>4, <2>5 DEF AcyclicRunsResolve
<1> QED
  BY <1>1, <1>2, OutcomeStep, Invariant, DeadLettersExactHolds,
     AcyclicRunsResolveHolds, PTL DEF Spec

\* The steps the hook has been told of.
Told == resolved \cup (IF pc = "publish" THEN layer \ todo ELSE {})

HookInv ==
    /\ \A i, j \in DOMAIN emitted : emitted[i].step = emitted[j].step => i = j
    /\ \A i \in DOMAIN emitted :
          /\ emitted[i].step \in Told
          /\ emitted[i].status = statuses[emitted[i].step]
    /\ \A s \in Told : \E i \in DOMAIN emitted : emitted[i].step = s

\* Only steps that have ended are told.
LEMMA ToldHaveEnded ==
    ASSUME IInv, NEW s \in Told
    PROVE  s \in Steps /\ statuses[s] \in Terminal
<1>1. CASE s \in resolved
  BY <1>1 DEF IInv, TypeOK, StatusInv
<1>2. CASE pc = "publish" /\ s \in layer
  BY <1>2 DEF IInv, TypeOK, StatusInv, LayerInv, Terminal
<1> QED
  BY <1>1, <1>2 DEF Told

\* The hook is called for a step it has not been told of.
LEMMA HookCalled ==
    ASSUME IInv, HookInv, [Next]_vars, NEW s \in Steps, s \notin Told,
           Told' = Told \cup {s},
           emitted' = Append(emitted, [step |-> s, status |-> statuses'[s]])
    PROVE  HookInv'
<1> DEFINE n == Len(emitted)
           call == [step |-> s, status |-> statuses'[s]]
<1>1. emitted \in Seq([step : Steps, status : Status])
  BY DEF IInv, TypeOK
<1>2. /\ n \in Nat
      /\ DOMAIN emitted = 1 .. n
      /\ DOMAIN emitted' = 1 .. (n + 1)
      /\ \A i \in 1 .. n : emitted'[i] = emitted[i]
      /\ emitted'[n + 1] = call
  BY <1>1
<1>3. call.step = s /\ call.status = statuses'[s]
  OBVIOUS
<1>4. \A t \in Told : statuses'[t] = statuses[t]
  BY ToldHaveEnded, TerminalIsFinal
<1> HIDE DEF n, call
<1>5. \A i \in 1 .. (n + 1) : i \in 1 .. n \/ i = n + 1
  BY <1>2
<1>6. 1 .. n \subseteq 1 .. (n + 1) /\ n + 1 \in 1 .. (n + 1)
  BY <1>2
<1>7. \A i \in 1 .. n : emitted[i].step \in Told /\ emitted[i].step # s
  BY <1>2 DEF HookInv
<1>8. (\A i, j \in DOMAIN emitted : emitted[i].step = emitted[j].step => i = j)'
  BY <1>2, <1>3, <1>5, <1>7 DEF HookInv
<1>9. (\A i \in DOMAIN emitted :
          /\ emitted[i].step \in Told
          /\ emitted[i].status = statuses[emitted[i].step])'
  BY <1>2, <1>3, <1>4, <1>5, <1>7 DEF HookInv
<1>10. (\A t \in Told : \E i \in DOMAIN emitted : emitted[i].step = t)'
  BY <1>2, <1>3, <1>6 DEF HookInv
<1> QED
  BY <1>8, <1>9, <1>10 DEF HookInv

LEMMA HookStep == IInv /\ HookInv /\ [Next]_vars => HookInv'
<1> SUFFICES ASSUME IInv, HookInv, [Next]_vars PROVE HookInv'
  OBVIOUS
<1> DEFINE Quiet == emitted' = emitted /\ Told' = Told
<1>1. ASSUME Quiet PROVE HookInv'
  <2>1. \A t \in Told : statuses'[t] = statuses[t]
    BY ToldHaveEnded, TerminalIsFinal
  <2> QED BY <1>1, <2>1 DEF HookInv
<1> USE DEF Told, shown, main, params
<1>2. CASE UNCHANGED vars \/ Terminated
  BY <1>1, <1>2 DEF Terminated, vars
<1>3. ASSUME \/ ValidateFails \/ Begin \/ RoundStart \/ Finish \/ LaunchLayer
             \/ NextRound \/ NoProgress \/ Join \/ JoinRaises
      PROVE  Quiet
  BY <1>3 DEF ValidateFails, Begin, RoundStart, Finish, LaunchLayer, ScanEnded,
              NextRound, NoProgress, Join, JoinRaises, Conclude
<1>4. ASSUME NEW s \in Steps,
             \/ PassOver(s) \/ RunStep(s) \/ Collect(s) \/ Launch(s) \/ Submit(s)
             \/ TaskStep(s)
      PROVE  Quiet
  BY <1>4 DEF PassOver, RunStep, Collect, Launch, Submit, Scanning, TaskStep,
              PoolBegin, TaskRaises, Wake, Exhaust, TaskReturns
<1>5. ASSUME NEW s \in Steps, SkipStep(s) PROVE HookInv'
  <2>1. s \notin Told /\ Told' = Told \cup {s}
    BY <1>5 DEF SkipStep, Scanning, Ready, IInv, StatusInv, Terminal
  <2>2. emitted' = Append(emitted, [step |-> s, status |-> statuses'[s]])
    BY <1>5 DEF SkipStep, IInv, TypeOK
  <2> QED BY <2>1, <2>2, HookCalled
<1>6. ASSUME NEW s \in Steps, Publish(s) PROVE HookInv'
  <2>1. s \in todo /\ todo \subseteq layer /\ s \notin resolved
    BY <1>6 DEF Publish, NextToPublish, First, IInv, LayerInv, StatusInv
  <2>2. s \notin Told
    BY <1>6, <2>1 DEF Publish
  <2>3. Told' = Told \cup {s}
    BY <1>6, <2>1 DEF Publish
  <2>4. emitted' = Append(emitted, [step |-> s, status |-> statuses'[s]])
    BY <1>6 DEF Publish, shared
  <2> QED BY <2>2, <2>3, <2>4, HookCalled
<1> QED
  BY <1>1, <1>2, <1>3, <1>4, <1>5, <1>6 DEF Next, MainStep, ScanStep

\* The hook is told of every step once, with the status the step keeps.
THEOREM HookSeesFinalStatusHolds == Spec => []HookSeesFinalStatus
<1>1. Init => HookInv
  BY DEF Init, HookInv, Told
<1>2. IInv /\ HookInv => HookSeesFinalStatus
  <2> SUFFICES ASSUME IInv, HookInv PROVE HookSeesFinalStatus
    OBVIOUS
  <2>1. resolved \subseteq Told
    BY DEF Told
  <2> QED BY <2>1, ToldHaveEnded DEF HookInv, HookSeesFinalStatus
<1> QED
  BY <1>1, <1>2, HookStep, Invariant, PTL DEF Spec

\* What a run reports at its end, and to the hook while it runs, is what it
\* recorded.
THEOREM ReportsSoundHolds == Spec => []ReportsSound
<1>1. RunStatusSound /\ HookSeesFinalStatus => ReportsSound
  BY DEF ReportsSound
<1> QED  BY <1>1, RunStatusSoundHolds, HookSeesFinalStatusHolds, PTL

-----------------------------------------------------------------------------
(* The trace of a step.                                                     *)

\* A step has finitely many places in a trace.
LEMMA PlacesFinite ==
    ASSUME NEW S, NEW t \in Seq(S), NEW s
    PROVE  /\ Places(t, s) \subseteq 1 .. Len(t) /\ IsFiniteSet(Places(t, s))
           /\ Cardinality(Places(t, s)) \in Nat
           /\ \A i : /\ IsFiniteSet({j \in Places(t, s) : j <= i})
                     /\ Cardinality({j \in Places(t, s) : j <= i}) \in Nat
                     /\ Cardinality({j \in Places(t, s) : j <= i})
                           <= Cardinality(Places(t, s))
<1>1. Len(t) \in Nat /\ DOMAIN t = 1 .. Len(t)
  BY LenProperties
<1>2. Places(t, s) \subseteq 1 .. Len(t)
  BY <1>1 DEF Places
<1>3. IsFiniteSet(Places(t, s))
  <2>1. IsFiniteSet(1 .. Len(t))
    BY <1>1, FS_Interval
  <2> QED BY <1>2, <2>1, FS_Subset
<1>4. \A i : {j \in Places(t, s) : j <= i} \subseteq Places(t, s)
  OBVIOUS
<1> QED
  BY <1>2, <1>3, <1>4, FS_Subset, FS_CardinalityType

\* Events of other steps change nothing in what a trace shows of a step.
LEMMA ShowsOther ==
    ASSUME NEW t \in Seq(EventType), NEW q \in Seq(EventType), NEW s, NEW h,
           \A k \in DOMAIN q : q[k].step # s, Shows(t, s, h)
    PROVE  Shows(t \o q, s, h)
<1>1. /\ DOMAIN t = 1 .. Len(t) /\ DOMAIN q = 1 .. Len(q)
      /\ Len(t) \in Nat /\ Len(q) \in Nat
      /\ DOMAIN (t \o q) = 1 .. Len(t) + Len(q)
      /\ \A i \in 1 .. Len(t) : (t \o q)[i] = t[i]
      /\ \A i \in Len(t) + 1 .. Len(t) + Len(q) : (t \o q)[i] = q[i - Len(t)]
  BY LenProperties, ConcatProperties
<1>2. Places(t \o q, s) = Places(t, s)
  <2>1. ASSUME NEW i \in Places(t \o q, s) PROVE i \in Places(t, s)
    <3>1. i \in 1 .. Len(t) + Len(q) /\ (t \o q)[i].step = s
      BY <1>1, <2>1 DEF Places
    <3>2. i \notin Len(t) + 1 .. Len(t) + Len(q)
      <4> SUFFICES ASSUME i \in Len(t) + 1 .. Len(t) + Len(q) PROVE FALSE
        OBVIOUS
      <4>1. i - Len(t) \in DOMAIN q /\ (t \o q)[i] = q[i - Len(t)]
        BY <1>1
      <4> QED BY <3>1, <4>1
    <3>3. i \in 1 .. Len(t)
      BY <1>1, <3>1, <3>2
    <3> QED BY <1>1, <3>1, <3>3 DEF Places
  <2>2. ASSUME NEW i \in Places(t, s) PROVE i \in Places(t \o q, s)
    BY <1>1, <2>2 DEF Places
  <2> QED BY <2>1, <2>2
<1>3. \A i \in Places(t, s) : (t \o q)[i] = t[i]
  BY <1>1 DEF Places
<1> QED
  BY <1>2, <1>3 DEF Shows

\* Events of the step itself are appended to what the trace shows of it.
LEMMA ShowsMore ==
    ASSUME NEW t \in Seq(EventType), NEW q \in Seq(EventType), NEW s,
           NEW h \in Seq(EventType),
           \A k \in DOMAIN q : q[k].step = s, Shows(t, s, h)
    PROVE  Shows(t \o q, s, h \o q)
<1> DEFINE n == Len(t)
           m == Len(q)
           l == Len(h)
           P == Places(t, s)
           Q == Places(t \o q, s)
           Upto(i) == {j \in Q : j <= i}
<1>1. /\ n \in Nat /\ m \in Nat /\ l \in Nat
      /\ DOMAIN t = 1 .. n /\ DOMAIN q = 1 .. m
      /\ DOMAIN (t \o q) = 1 .. n + m
      /\ \A i \in 1 .. n : (t \o q)[i] = t[i]
      /\ \A i \in n + 1 .. n + m : (t \o q)[i] = q[i - n]
      /\ Len(h \o q) = l + m
      /\ \A i \in 1 .. l : (h \o q)[i] = h[i]
      /\ \A i \in l + 1 .. l + m : (h \o q)[i] = q[i - l]
  BY LenProperties, ConcatProperties
<1>2. /\ P \subseteq 1 .. n /\ IsFiniteSet(P) /\ Cardinality(P) = l
      /\ \A i \in P : t[i] = h[Cardinality({j \in P : j <= i})]
  BY PlacesFinite DEF Shows
<1> HIDE DEF n, m, l
<1>3. Q = P \cup (n + 1 .. n + m)
  <2>1. \A i \in n + 1 .. n + m : (t \o q)[i].step = s /\ i \in 1 .. n + m
    <3> SUFFICES ASSUME NEW i \in n + 1 .. n + m
                 PROVE  (t \o q)[i].step = s /\ i \in 1 .. n + m
      OBVIOUS
    <3>1. i - n \in 1 .. m /\ i \in 1 .. n + m
      BY <1>1
    <3> QED BY <1>1, <3>1
  <2>2. \A i \in 1 .. n + m : i \in 1 .. n \/ i \in n + 1 .. n + m
    BY <1>1
  <2>3. \A i \in 1 .. n : i \in 1 .. n + m
    BY <1>1
  <2> QED BY <1>1, <2>1, <2>2, <2>3 DEF Places
<1> HIDE DEF P, Q
<1>4. ASSUME NEW k \in 0 .. m
      PROVE  Cardinality(P \cup (n + 1 .. n + k)) = l + k
  <2> DEFINE N == n + 1 .. n + k
  <2>1. n + 1 \in Int /\ n + k \in Int /\ k \in Nat
    BY <1>1
  <2>2. IsFiniteSet(N) /\ Cardinality(N) = IF n + 1 > n + k THEN 0
                                           ELSE (n + k) - (n + 1) + 1
    BY <2>1, FS_Interval
  <2>3. Cardinality(N) = k
    BY <1>1, <2>1, <2>2
  <2>4. P \cap N = {}
    BY <1>1, <1>2
  <2> HIDE DEF N
  <2>5. Cardinality(P \cup N)
            = Cardinality(P) + Cardinality(N) - Cardinality(P \cap N)
    <3>1. IsFiniteSet(P)
      BY <1>2
    <3>2. IsFiniteSet(N)
      BY <2>2
    <3> QED BY <3>1, <3>2, FS_Union
  <2>6. Cardinality(P \cap N) = 0
    BY <2>4, FS_EmptySet
  <2>7. Cardinality(P \cup N) = l + k
    BY <1>1, <1>2, <2>1, <2>3, <2>5, <2>6
  <2> QED BY <2>7 DEF N
<1>5. Cardinality(Q) = Len(h \o q)
  <2>1. m \in 0 .. m
    BY <1>1
  <2> QED BY <1>1, <1>3, <1>4, <2>1
<1>6. ASSUME NEW i \in P
      PROVE  (t \o q)[i] = (h \o q)[Cardinality(Upto(i))]
  <2>1. Upto(i) = {j \in P : j <= i}
    BY <1>1, <1>2, <1>3
  <2>2. Upto(i) \subseteq P /\ i \in Upto(i)
    BY <1>2, <2>1
  <2>3. Cardinality(Upto(i)) \in 1 .. l
    <3>1. IsFiniteSet(Upto(i)) /\ Cardinality(Upto(i)) <= l
      BY <1>2, <2>2, FS_Subset
    <3>2. Cardinality(Upto(i)) \in Nat /\ Cardinality(Upto(i)) # 0
      BY <2>2, <3>1, FS_CardinalityType, FS_EmptySet
    <3> QED BY <1>1, <3>1, <3>2
  <2>4. (t \o q)[i] = t[i] /\ t[i] = h[Cardinality(Upto(i))]
    BY <1>1, <1>2, <2>1
  <2> HIDE DEF Upto
  <2>5. (h \o q)[Cardinality(Upto(i))] = h[Cardinality(Upto(i))]
    BY <1>1, <2>3
  <2> QED
    BY <2>4, <2>5
<1>7. ASSUME NEW i \in n + 1 .. n + m
      PROVE  (t \o q)[i] = (h \o q)[Cardinality(Upto(i))]
  <2> DEFINE k == i - n
  <2>1. k \in 1 .. m /\ i = n + k
    BY <1>1
  <2> HIDE DEF k
  <2>2. Upto(i) = P \cup (n + 1 .. n + k)
    <3>1. \A j \in P : j <= i
      BY <1>1, <1>2, <2>1
    <3>2. \A j \in n + 1 .. n + m : j <= i <=> j \in n + 1 .. n + k
      BY <1>1, <2>1
    <3>3. \A j \in n + 1 .. n + k : j \in n + 1 .. n + m
      BY <1>1, <2>1
    <3> QED BY <1>3, <3>1, <3>2, <3>3
  <2> HIDE DEF Upto
  <2>3. Cardinality(Upto(i)) = l + k
    <3>1. k \in 0 .. m
      BY <1>1, <2>1
    <3>2. Cardinality(P \cup (n + 1 .. n + k)) = l + k
      BY <1>4, <3>1
    <3> QED BY <2>2, <3>2
  <2>4. l + k \in l + 1 .. l + m /\ (l + k) - l = k
    BY <1>1, <2>1
  <2>5. (h \o q)[l + k] = q[k]
    BY <1>1, <2>4
  <2>6. (t \o q)[i] = q[k]
    BY <1>1, <2>1 DEF k
  <2> QED
    BY <2>3, <2>5, <2>6
<1> QED
  BY <1>3, <1>5, <1>6, <1>7 DEF Shows, Q

\* How the two counters and the last status of a step go with where its
\* thread is.
CountInv ==
    \A s \in Steps :
        /\ statuses[s] = "SKIPPED" => task[s] = "none"
        /\ statuses[s] = "COMPLETED" => task[s] = "ok"
        /\ statuses[s] = "FAILED" => task[s] = "failed"
        /\ task[s] \in {"none", "queued"} => attempts[s] = 0 /\ retryCounts[s] = 0
        /\ task[s] \in {"running", "ok"} => attempts[s] = retryCounts[s] + 1
        /\ task[s] \in {"backoff", "raised"} => attempts[s] = retryCounts[s]
        /\ task[s] = "ok" => attempts[s] <= config.retries[s] + 1
        /\ task[s] = "failed" => /\ attempts[s] = retryCounts[s]
                                 /\ attempts[s] = config.retries[s] + 1

LEMMA CountStep == IInv /\ AttemptInv /\ CountInv /\ [Next]_vars => CountInv'
<1> SUFFICES ASSUME IInv, AttemptInv, CountInv, [Next]_vars PROVE CountInv'
  OBVIOUS
<1>1. /\ task \in [Steps -> {"none", "queued", "running", "backoff",
                             "ok", "failed", "raised"}]
      /\ attempts \in [Steps -> Nat] /\ retryCounts \in [Steps -> Nat]
      /\ \A s \in Steps : config.retries[s] \in Nat
      /\ statuses \in [Steps -> Status]
  BY ConfigFacts DEF IInv, TypeOK
<1> USE DEF CountInv, params, main, worker, shared
<1>2. CASE UNCHANGED vars \/ Terminated
  BY <1>2 DEF Terminated, vars
<1>3. CASE ValidateFails \/ Begin \/ RoundStart \/ Finish \/ LaunchLayer
           \/ NextRound \/ NoProgress \/ Join \/ JoinRaises
  BY <1>3 DEF ValidateFails, Begin, RoundStart, Finish, LaunchLayer,
              NextRound, NoProgress, Join, JoinRaises, Conclude
<1>4. ASSUME NEW s \in Steps,
             PassOver(s) \/ SkipStep(s) \/ Collect(s) \/ Launch(s) \/ Publish(s)
      PROVE  CountInv'
  BY <1>1, <1>4 DEF PassOver, SkipStep, Collect, Launch, Publish, Ready, First,
                    IInv, StatusInv, LayerInv
<1>5. ASSUME NEW s \in Steps, RunStep(s) PROVE CountInv'
  <2>1. task[s] = "none"
    BY <1>5 DEF RunStep, Ready, IInv, StatusInv
  <2> QED BY <1>1, <1>5, <2>1 DEF RunStep
<1>6. ASSUME NEW s \in Steps, Submit(s) PROVE CountInv'
  <2>1. task[s] = "none" /\ statuses[s] = "RUNNING"
    BY <1>6 DEF Submit, First, IInv, LayerInv
  <2> QED BY <1>1, <1>6, <2>1 DEF Submit
<1>7. ASSUME NEW s \in Steps, PoolBegin(s) PROVE CountInv'
  <2>1. task[s] = "queued"
    BY <1>7 DEF PoolBegin, First
  <2> QED BY <1>1, <1>7, <2>1 DEF PoolBegin
<1>8. ASSUME NEW s \in Steps, NEW v \in Values, TaskReturns(s, v)
      PROVE  CountInv'
  BY <1>1, <1>8 DEF TaskReturns, AttemptInv
<1>9. ASSUME NEW s \in Steps, TaskRaises(s) PROVE CountInv'
  BY <1>1, <1>9 DEF TaskRaises
<1>10. ASSUME NEW s \in Steps, Wake(s) PROVE CountInv'
  BY <1>1, <1>10 DEF Wake
<1>11. ASSUME NEW s \in Steps, Exhaust(s) PROVE CountInv'
  BY <1>1, <1>11 DEF Exhaust, LastAttempt, AttemptInv
<1> QED
  BY <1>2, <1>3, <1>4, <1>5, <1>6, <1>7, <1>8, <1>9, <1>10, <1>11
  DEF Next, MainStep, TaskStep, ScanStep

\* The events of the first n retries of a step.
Retries(s, n) == [i \in 1 .. n |-> Event("step.retry", s, i)]

LEMMA RetriesFacts ==
    ASSUME NEW s \in Steps, NEW n \in Nat
    PROVE  /\ Retries(s, n) \in Seq(EventType)
           /\ Len(Retries(s, n)) = n /\ DOMAIN Retries(s, n) = 1 .. n
           /\ \A i \in 1 .. n : Retries(s, n)[i] = Event("step.retry", s, i)
<1>1. \A i \in 1 .. n : Event("step.retry", s, i) \in EventType
  BY EventFacts DEF Kinds
<1> QED
  BY <1>1 DEF Retries

\* No retries, and one more.
LEMMA RetriesGrow ==
    ASSUME NEW s \in Steps
    PROVE  /\ Retries(s, 0) = <<>>
           /\ \A n \in Nat :
                 Retries(s, n) \o <<Event("step.retry", s, n + 1)>>
                     = Retries(s, n + 1)
<1>1. Retries(s, 0) = <<>>
  BY RetriesFacts, EmptySeq
<1>2. ASSUME NEW n \in Nat
      PROVE  Retries(s, n) \o <<Event("step.retry", s, n + 1)>> = Retries(s, n + 1)
  <2> DEFINE e == Event("step.retry", s, n + 1)
  <2>1. e \in EventType /\ n + 1 \in Nat
    BY EventFacts DEF Kinds
  <2>2. Retries(s, n) \in Seq(EventType) /\ Retries(s, n + 1) \in Seq(EventType)
    BY <2>1, RetriesFacts
  <2>3. /\ Len(Retries(s, n)) = n /\ Len(Retries(s, n + 1)) = n + 1
        /\ \A i \in 1 .. n : Retries(s, n)[i] = Event("step.retry", s, i)
        /\ \A i \in 1 .. n + 1 : Retries(s, n + 1)[i] = Event("step.retry", s, i)
    BY <2>1, RetriesFacts
  <2> HIDE DEF e
  <2>4. Append(Retries(s, n), e) = Retries(s, n) \o <<e>>
    BY <2>1, <2>2, AppendIsConcat
  <2>5. /\ Append(Retries(s, n), e) \in Seq(EventType)
        /\ Len(Append(Retries(s, n), e)) = n + 1
        /\ \A i \in 1 .. n : Append(Retries(s, n), e)[i] = Retries(s, n)[i]
        /\ Append(Retries(s, n), e)[n + 1] = e
    BY <2>1, <2>2, <2>3, AppendProperties
  <2>6. \A i \in 1 .. n + 1 : Append(Retries(s, n), e)[i] = Retries(s, n + 1)[i]
    <3> SUFFICES ASSUME NEW i \in 1 .. n + 1
                 PROVE  Append(Retries(s, n), e)[i] = Retries(s, n + 1)[i]
      OBVIOUS
    <3>1. i \in 1 .. n \/ i = n + 1
      OBVIOUS
    <3> QED BY <2>3, <2>5, <3>1 DEF e
  <2>7. Append(Retries(s, n), e) = Retries(s, n + 1)
    BY <2>2, <2>3, <2>5, <2>6, SeqEqual
  <2> QED BY <2>4, <2>7 DEF e
<1> QED
  BY <1>1, <1>2

\* How many retries of a step the trace tells of while the step is at work:
\* sequential mode reports them live.
Live(s) ==
    IF Parallel \/ task[s] \in {"none", "queued"} THEN 0
    ELSE IF task[s] \in {"backoff", "raised"} THEN attempts[s]
    ELSE attempts[s] - 1

\* What the trace has told of a step so far.
Sofar(s) ==
    IF s \in Told THEN History(s)
    ELSE IF statuses[s] = "PENDING" THEN <<>>
    ELSE <<Event("step.started", s, 0)>> \o Retries(s, Live(s))

TraceInv == \A s \in Steps : Shows(trace, s, Sofar(s))

\* What is told of a step is a sequence of events.
LEMMA SofarFacts ==
    ASSUME IInv, CountInv, NEW s \in Steps
    PROVE  /\ Live(s) \in Nat
           /\ Sofar(s) \in Seq(EventType)
           /\ statuses[s] \in {"COMPLETED", "FAILED"} => attempts[s] - 1 \in Nat
<1>1. /\ task \in [Steps -> {"none", "queued", "running", "backoff",
                             "ok", "failed", "raised"}]
      /\ attempts \in [Steps -> Nat] /\ retryCounts \in [Steps -> Nat]
      /\ config.retries[s] \in Nat
  BY ConfigFacts DEF IInv, TypeOK
<1>2. Live(s) \in Nat
  BY <1>1 DEF Live, CountInv
<1>3. /\ <<Event("step.started", s, 0)>> \in Seq(EventType)
      /\ <<Event("step.skipped", s, 0)>> \in Seq(EventType)
      /\ <<Event("step.completed", s, attempts[s])>> \in Seq(EventType)
      /\ <<Event("step.failed", s, attempts[s]),
           Event("dlq.recorded", s, attempts[s])>> \in Seq(EventType)
  <2>1. /\ Event("step.started", s, 0) \in EventType
        /\ Event("step.skipped", s, 0) \in EventType
        /\ Event("step.completed", s, attempts[s]) \in EventType
        /\ Event("step.failed", s, attempts[s]) \in EventType
        /\ Event("dlq.recorded", s, attempts[s]) \in EventType
    BY <1>1, EventFacts DEF Kinds
  <2> QED BY <2>1
<1>4. statuses[s] \in {"COMPLETED", "FAILED"} => attempts[s] - 1 \in Nat
  BY <1>1 DEF CountInv
<1>5. ASSUME s \in Told PROVE History(s) \in Seq(EventType)
  <2>1. statuses[s] \in Terminal
    BY <1>5, ToldHaveEnded
  <2>2. statuses[s] # "SKIPPED" => Retries(s, attempts[s] - 1) \in Seq(EventType)
    BY <1>4, <2>1, RetriesFacts DEF Terminal
  <2>3. statuses[s] # "SKIPPED" =>
           <<Event("step.started", s, 0)>> \o Retries(s, attempts[s] - 1)
               \in Seq(EventType)
    BY <1>3, <2>2, ConcatProperties
  <2> QED
    BY <1>3, <2>1, <2>3, ConcatProperties DEF History, Retries, Terminal
<1>6. <<Event("step.started", s, 0)>> \o Retries(s, Live(s)) \in Seq(EventType)
  <2>1. Retries(s, Live(s)) \in Seq(EventType)
    BY <1>2, RetriesFacts
  <2> QED BY <1>3, <2>1, ConcatProperties
<1> QED
  BY <1>2, <1>4, <1>5, <1>6 DEF Sofar

\* Nothing more is to be told of a step whose status, attempts and thread are
\* what they were.
LEMMA SofarSame ==
    ASSUME NEW s, s \in Told' <=> s \in Told, statuses'[s] = statuses[s],
           attempts'[s] = attempts[s], task'[s] = task[s], limit' = limit
    PROVE  Sofar(s)' = Sofar(s)
<1>1. Live(s)' = Live(s)
  BY DEF Live, Parallel
<1>2. History(s)' = History(s)
  BY DEF History
<1> QED
  BY <1>1, <1>2 DEF Sofar

\* A step of the program appends to the trace what it adds to the story of
\* one step, u, and nothing for the others; u = 0 is no step.
LEMMA TraceGrows ==
    ASSUME IInv, CountInv, TraceInv, NEW u, NEW q \in Seq(EventType),
           trace' = trace \o q, \A k \in DOMAIN q : q[k].step = u,
           \A s \in Steps \ {u} : Sofar(s)' = Sofar(s),
           u \in Steps => Sofar(u)' = Sofar(u) \o q
    PROVE  TraceInv'
<1>1. trace \in Seq(EventType)
  BY DEF IInv, TypeOK
<1>2. ASSUME NEW s \in Steps, s # u PROVE Shows(trace', s, Sofar(s)')
  <2>1. Shows(trace, s, Sofar(s)) /\ \A k \in DOMAIN q : q[k].step # s
    BY <1>2 DEF TraceInv
  <2> QED BY <1>1, <1>2, <2>1, ShowsOther
<1>3. ASSUME u \in Steps PROVE Shows(trace', u, Sofar(u)')
  <2>1. Shows(trace, u, Sofar(u)) /\ Sofar(u) \in Seq(EventType)
    BY <1>3, SofarFacts DEF TraceInv
  <2> QED BY <1>1, <1>3, <2>1, ShowsMore
<1>4. \A s \in Steps : Shows(trace', s, Sofar(s)')
  BY <1>2, <1>3
<1> QED
  BY <1>4 DEF TraceInv, Shows, Places

\* The trace and everything a step's story depends on stay as they are.
LEMMA TraceQuiet ==
    ASSUME TraceInv, trace' = trace, \A s \in Steps : Sofar(s)' = Sofar(s)
    PROVE  TraceInv'
BY DEF TraceInv, Shows, Places

\* A step that starts, from RunStep or Launch.
LEMMA TraceStarts ==
    ASSUME IInv, CountInv, TraceInv, NEW s \in Steps,
           statuses[s] = "PENDING", s \notin Told, Told' = Told, limit' = limit,
           statuses' = [statuses EXCEPT ![s] = "RUNNING"],
           Live(s)' = 0,
           \A t \in Steps \ {s} : attempts'[t] = attempts[t] /\ task'[t] = task[t],
           trace' = Append(trace, Event("step.started", s, 0))
    PROVE  TraceInv'
<1> DEFINE e == Event("step.started", s, 0)
           q == <<e>>
<1>1. e \in EventType /\ e.step = s
  BY EventFacts DEF Kinds, Event
<1>2. trace \in Seq(EventType) /\ statuses \in [Steps -> Status]
  BY DEF IInv, TypeOK
<1> HIDE DEF e
<1>3. q \in Seq(EventType) /\ \A k \in DOMAIN q : q[k].step = s
  BY <1>1
<1>4. trace' = trace \o q
  BY <1>1, <1>2, AppendIsConcat DEF e
<1>5. ASSUME NEW t \in Steps \ {s} PROVE Sofar(t)' = Sofar(t)
  BY <1>2, SofarSame
<1>6. Sofar(s)' = Sofar(s) \o q
  <2>1. Sofar(s) = <<>>
    BY DEF Sofar
  <2>2. Sofar(s)' = <<e>> \o Retries(s, 0)
    BY <1>2 DEF Sofar, e
  <2>3. <<e>> \o <<>> = <<e>> /\ <<>> \o <<e>> = <<e>>
    BY <1>3, ConcatEmptySeq
  <2> QED BY <2>1, <2>2, <2>3, RetriesGrow
<1> HIDE DEF q
<1> QED
  BY <1>3, <1>4, <1>5, <1>6, TraceGrows

\* The trace of a step that is published ends as its history does, in either
\* mode.
LEMMA PublishedHistory ==
    ASSUME IInv, CountInv, NEW s \in Steps, Publish(s)
    PROVE  Sofar(s) \o (RetryEvents(s) \o ClosingEvents(s)) = History(s)
<1> DEFINE e == <<Event("step.started", s, 0)>>
           n == attempts[s] - 1
<1>1. /\ s \in layer /\ s \in todo /\ pc = "publish" /\ s \notin resolved
      /\ task[s] \in {"ok", "failed"}
      /\ statuses[s] = IF task[s] = "ok" THEN "COMPLETED" ELSE "FAILED"
  BY DEF Publish, NextToPublish, First, IInv, LayerInv, StatusInv
<1>2. /\ attempts[s] \in Nat /\ retryCounts[s] \in Nat
      /\ config.retries[s] \in Nat
  BY ConfigFacts DEF IInv, TypeOK
<1>3. n \in Nat
  BY <1>1, SofarFacts
<1>4. Sofar(s) = e \o Retries(s, IF Parallel THEN 0 ELSE n)
  BY <1>1 DEF Sofar, Told, Live
<1>5. RetryEvents(s) = Retries(s, IF Parallel THEN n ELSE 0)
  <2>1. (IF retryCounts[s] < config.retries[s]
         THEN retryCounts[s] ELSE config.retries[s]) = n
    BY <1>1, <1>2 DEF CountInv
  <2> HIDE DEF n
  <2> QED BY <2>1 DEF RetryEvents, Retries
<1>6. /\ e \in Seq(EventType) /\ Retries(s, n) \in Seq(EventType)
      /\ ClosingEvents(s) \in Seq(EventType)
  <2>1. Event("step.started", s, 0) \in EventType
    BY EventFacts DEF Kinds
  <2> QED BY <1>3, <2>1, RetriesFacts, PublishedEvents DEF IInv
<1>7. History(s) = (e \o Retries(s, n)) \o ClosingEvents(s)
  BY <1>1 DEF History, ClosingEvents, Retries
<1> HIDE DEF e, n
<1>8. CASE Parallel
  <2>1. Sofar(s) = e
    BY <1>4, <1>6, <1>8, RetriesGrow, ConcatEmptySeq
  <2>2. e \o (Retries(s, n) \o ClosingEvents(s)) = (e \o Retries(s, n)) \o ClosingEvents(s)
    BY <1>6, ConcatAssociative
  <2> QED BY <1>5, <1>7, <1>8, <2>1, <2>2
<1>9. CASE ~Parallel
  <2>1. RetryEvents(s) \o ClosingEvents(s) = ClosingEvents(s)
    BY <1>5, <1>6, <1>9, RetriesGrow, ConcatEmptySeq
  <2> QED BY <1>4, <1>7, <1>9, <2>1
<1> QED BY <1>8, <1>9

LEMMA TraceStep == IInv /\ CountInv /\ TraceInv /\ [Next]_vars => TraceInv'
<1> SUFFICES ASSUME IInv, CountInv, TraceInv, [Next]_vars PROVE TraceInv'
  OBVIOUS
<1>1. /\ trace \in Seq(EventType)
      /\ task \in [Steps -> {"none", "queued", "running", "backoff",
                             "ok", "failed", "raised"}]
      /\ statuses \in [Steps -> Status] /\ attempts \in [Steps -> Nat]
      /\ resolved \subseteq Steps /\ layer \subseteq Steps
  BY DEF IInv, TypeOK
<1> USE DEF params, main, worker, shared, shown
<1>2. ASSUME UNCHANGED <<trace, statuses, attempts, task, limit>>, Told' = Told
      PROVE  TraceInv'
  BY <1>2, SofarSame, TraceQuiet
<1>3. CASE UNCHANGED vars \/ Terminated
  BY <1>2, <1>3 DEF Terminated, vars, Told
<1>4. CASE ValidateFails \/ RoundStart \/ LaunchLayer \/ NextRound \/ Join \/ JoinRaises
  BY <1>2, <1>4 DEF ValidateFails, RoundStart, LaunchLayer, ScanEnded, NextRound,
                    Join, JoinRaises, Told
<1>5. ASSUME Begin \/ Finish \/ NoProgress PROVE TraceInv'
  <2>1. PICK e \in {Event("run.started", 0, 0), Event("run.finished", 0, 0)} :
           trace' = Append(trace, e)
    BY <1>5 DEF Begin, Finish, NoProgress, Conclude
  <2>2. e \in EventType /\ e.step = 0
    <3>1. \A kind \in {"run.started", "run.finished"} :
             Event(kind, 0, 0) \in EventType /\ Event(kind, 0, 0).step = 0
      BY EventFacts DEF Kinds, Event
    <3> QED BY <2>1, <3>1
  <2>3. trace' = trace \o <<e>>
    BY <1>1, <2>1, <2>2, AppendIsConcat
  <2>4. <<e>> \in Seq(EventType) /\ \A k \in DOMAIN <<e>> : <<e>>[k].step = 0
    BY <2>2
  <2>5. UNCHANGED <<statuses, attempts, task, limit>> /\ Told' = Told
    BY <1>5 DEF Begin, Finish, NoProgress, ScanEnded, Conclude, Told
  <2>6. 0 \notin Steps /\ \A s \in Steps : Sofar(s)' = Sofar(s)
    BY <2>5, SofarSame, NumStepsAssumption DEF Steps
  <2> QED BY <2>3, <2>4, <2>6, TraceGrows
<1>6. ASSUME NEW s \in Steps, PassOver(s) \/ Collect(s) PROVE TraceInv'
  BY <1>2, <1>6 DEF PassOver, Collect, Scanning, Told
<1>7. ASSUME NEW s \in Steps, SkipStep(s) PROVE TraceInv'
  <2> DEFINE e == Event("step.skipped", s, 0)
             q == <<e>>
  <2>1. e \in EventType /\ e.step = s
    BY EventFacts DEF Kinds, Event
  <2>2. s \notin Told /\ Told' = Told \cup {s} /\ statuses[s] = "PENDING"
    BY <1>7 DEF SkipStep, Scanning, Ready, IInv, StatusInv, Terminal, Told
  <2> HIDE DEF e
  <2>3. q \in Seq(EventType) /\ \A k \in DOMAIN q : q[k].step = s
    BY <2>1
  <2>4. trace' = trace \o q
    BY <1>1, <1>7, <2>1, AppendIsConcat DEF SkipStep, e
  <2>5. ASSUME NEW t \in Steps \ {s} PROVE Sofar(t)' = Sofar(t)
    BY <1>1, <1>7, <2>2, SofarSame DEF SkipStep
  <2>6. Sofar(s)' = Sofar(s) \o q
    <3>1. Sofar(s) = <<>>
      BY <2>2 DEF Sofar
    <3>2. Sofar(s)' = q
      BY <1>1, <1>7, <2>2 DEF Sofar, History, SkipStep, e
    <3> QED BY <2>3, <3>1, <3>2, ConcatEmptySeq
  <2> HIDE DEF q
  <2> QED BY <2>3, <2>4, <2>5, <2>6, TraceGrows
<1>8. ASSUME NEW s \in Steps, RunStep(s) PROVE TraceInv'
  <2>1. s \notin Told /\ Told' = Told /\ statuses[s] = "PENDING"
    BY <1>8 DEF RunStep, Scanning, Ready, IInv, StatusInv, Terminal, Told
  <2>2. Live(s)' = 0
    BY <1>1, <1>8 DEF RunStep, Live
  <2>3. \A t \in Steps \ {s} : attempts'[t] = attempts[t] /\ task'[t] = task[t]
    BY <1>1, <1>8 DEF RunStep
  <2>4. /\ limit' = limit /\ statuses' = [statuses EXCEPT ![s] = "RUNNING"]
        /\ trace' = Append(trace, Event("step.started", s, 0))
    BY <1>8 DEF RunStep
  <2> QED BY <2>1, <2>2, <2>3, <2>4, TraceStarts
<1>9. ASSUME NEW s \in Steps, Launch(s) PROVE TraceInv'
  <2>1. pc = "launch" /\ s \in todo /\ s \in layer /\ statuses[s] = "PENDING"
    BY <1>9 DEF Launch, First, IInv, LayerInv
  <2>2. s \notin Told /\ Told' = Told /\ task[s] = "none"
    BY <1>9, <2>1 DEF Launch, IInv, StatusInv, Terminal, Told
  <2>3. Live(s)' = 0
    BY <1>9, <2>2 DEF Launch, Live
  <2>4. /\ limit' = limit /\ statuses' = [statuses EXCEPT ![s] = "RUNNING"]
        /\ trace' = Append(trace, Event("step.started", s, 0))
        /\ attempts' = attempts /\ task' = task
    BY <1>9 DEF Launch
  <2> QED BY <2>1, <2>2, <2>3, <2>4, TraceStarts
<1>10. ASSUME NEW s \in Steps, Publish(s) PROVE TraceInv'
  <2> DEFINE q == RetryEvents(s) \o ClosingEvents(s)
  <2>1. RetryEvents(s) \in Seq(EventType) /\ ClosingEvents(s) \in Seq(EventType)
    BY PublishedEvents DEF IInv
  <2>2. q \in Seq(EventType)
    BY <2>1, ConcatProperties
  <2>3. \A k \in DOMAIN q : q[k].step = s
    <3>1. \A k \in DOMAIN RetryEvents(s) : RetryEvents(s)[k].step = s
      BY DEF RetryEvents, Event
    <3>2. \A k \in DOMAIN ClosingEvents(s) : ClosingEvents(s)[k].step = s
      BY DEF ClosingEvents, Event
    <3>3. /\ DOMAIN RetryEvents(s) = 1 .. Len(RetryEvents(s))
          /\ DOMAIN ClosingEvents(s) = 1 .. Len(ClosingEvents(s))
          /\ Len(RetryEvents(s)) \in Nat /\ Len(ClosingEvents(s)) \in Nat
      BY <2>1, LenProperties
    <3>4. /\ Len(q) = Len(RetryEvents(s)) + Len(ClosingEvents(s))
          /\ \A i \in 1 .. Len(q) :
                q[i] = IF i <= Len(RetryEvents(s)) THEN RetryEvents(s)[i]
                       ELSE ClosingEvents(s)[i - Len(RetryEvents(s))]
      BY <2>1, ConcatProperties
    <3>5. DOMAIN q = 1 .. Len(q)
      BY <2>2, LenProperties
    <3> SUFFICES ASSUME NEW k \in 1 .. Len(q) PROVE q[k].step = s
      BY <3>5
    <3>6. CASE k <= Len(RetryEvents(s))
      <4>1. k \in DOMAIN RetryEvents(s) /\ q[k] = RetryEvents(s)[k]
        BY <3>3, <3>4, <3>6
      <4> QED BY <3>1, <4>1
    <3>7. CASE ~(k <= Len(RetryEvents(s)))
      <4>1. k - Len(RetryEvents(s)) \in 1 .. Len(ClosingEvents(s))
        BY <3>3, <3>4, <3>7
      <4>2. k - Len(RetryEvents(s)) \in DOMAIN ClosingEvents(s)
        BY <3>3, <4>1
      <4>3. q[k] = ClosingEvents(s)[k - Len(RetryEvents(s))]
        BY <3>4, <3>7
      <4> QED BY <3>2, <4>2, <4>3
    <3> QED BY <3>6, <3>7
  <2>4. trace' = trace \o q
    <3>1. trace' = (trace \o RetryEvents(s)) \o ClosingEvents(s)
      BY <1>10 DEF Publish
    <3>2. \A x, y, z \in Seq(EventType) : (x \o y) \o z = x \o (y \o z)
      BY ConcatAssociative
    <3>3. trace \in Seq(EventType)
      BY <1>1
    <3>4. (trace \o RetryEvents(s)) \o ClosingEvents(s)
             = trace \o (RetryEvents(s) \o ClosingEvents(s))
      BY <2>1, <3>2, <3>3
    <3> QED BY <3>1, <3>4
  <2>5. s \in todo /\ todo \subseteq layer /\ s \notin resolved /\ s \notin Told
    BY <1>10 DEF Publish, NextToPublish, First, IInv, LayerInv, StatusInv, Told
  <2>6. Told' = Told \cup {s}
    BY <1>10, <2>5 DEF Publish, Told
  <2>7. UNCHANGED <<limit, statuses, attempts, task>>
    BY <1>10 DEF Publish
  <2>8. ASSUME NEW t \in Steps \ {s} PROVE Sofar(t)' = Sofar(t)
    BY <2>6, <2>7, SofarSame
  <2>9. Sofar(s)' = Sofar(s) \o q
    <3>1. Sofar(s)' = History(s)
      BY <2>6, <2>7 DEF Sofar, History
    <3> QED BY <1>10, <3>1, PublishedHistory
  <2> HIDE DEF q
  <2> QED BY <2>2, <2>3, <2>4, <2>8, <2>9, TraceGrows
<1>11. ASSUME NEW s \in Steps,
              \/ Submit(s) \/ PoolBegin(s) \/ Wake(s) \/ Exhaust(s)
              \/ \E v \in Values : TaskReturns(s, v)
       PROVE  TraceInv'
  <2>1. trace' = trace /\ Told' = Told /\ limit' = limit
    BY <1>11 DEF Submit, PoolBegin, Wake, Exhaust, TaskReturns, Told
  <2>2. ASSUME NEW t \in Steps, t # s PROVE Sofar(t)' = Sofar(t)
    <3>1. statuses'[t] = statuses[t] /\ attempts'[t] = attempts[t] /\ task'[t] = task[t]
      BY <1>1, <1>11, <2>2 DEF Submit, PoolBegin, Wake, Exhaust, TaskReturns
    <3> QED BY <2>1, <3>1, SofarSame
  <2>3. /\ task[s] \in {"none", "queued", "running", "backoff"}
        /\ statuses[s] = "RUNNING" /\ s \notin Told
    BY <1>11 DEF Submit, PoolBegin, Wake, Exhaust, TaskReturns, First, IInv,
                 StatusInv, LayerInv, Told, Terminal
  <2>4. statuses'[s] # "PENDING" /\ Live(s)' = Live(s)
    BY <1>1, <1>11, <2>1, <2>3 DEF Submit, PoolBegin, Wake, Exhaust, TaskReturns, First,
       Live, Parallel, IInv, LayerInv
  <2>5. Sofar(s)' = Sofar(s)
    BY <2>1, <2>3, <2>4 DEF Sofar
  <2> QED BY <2>1, <2>2, <2>5, TraceQuiet
<1>12. ASSUME NEW s \in Steps, TaskRaises(s) PROVE TraceInv'
  <2>1. /\ Told' = Told /\ UNCHANGED <<limit, statuses, attempts>>
        /\ task[s] = "running" /\ task'[s] \in {"backoff", "raised"}
        /\ \A t \in Steps \ {s} : task'[t] = task[t]
    BY <1>1, <1>12 DEF TaskRaises, Told
  <2>2. statuses[s] = "RUNNING" /\ s \notin Told
    BY <2>1 DEF IInv, StatusInv, LayerInv, Told, Terminal
  <2>3. ASSUME NEW t \in Steps \ {s} PROVE Sofar(t)' = Sofar(t)
    BY <2>1, SofarSame
  <2>4. CASE Parallel
    <3>1. trace' = trace /\ Live(s)' = Live(s)
      BY <1>12, <2>1, <2>4 DEF TaskRaises, Live, Parallel
    <3>2. Sofar(s)' = Sofar(s)
      BY <2>1, <2>2, <3>1 DEF Sofar
    <3> QED BY <2>3, <3>1, <3>2, TraceQuiet
  <2>5. CASE ~Parallel
    <3> DEFINE n == attempts[s] - 1
               e == Event("step.retry", s, n + 1)
               q == <<e>>
               b == <<Event("step.started", s, 0)>>
    <3>1. n \in Nat /\ n + 1 = attempts[s] /\ n + 1 \in Nat
      BY <1>1, <2>1 DEF CountInv, IInv, TypeOK
    <3>2. e \in EventType /\ e.step = s
      BY <3>1, EventFacts DEF Kinds, Event
    <3>3. Sofar(s) = b \o Retries(s, n) /\ Sofar(s)' = b \o Retries(s, n + 1)
      BY <2>1, <2>2, <2>5, <3>1 DEF Sofar, Live, Parallel
    <3>4. trace' = Append(trace, e)
      BY <1>12, <2>5, <3>1 DEF TaskRaises
    <3>5. b \in Seq(EventType)
      <4>1. Event("step.started", s, 0) \in EventType
        BY EventFacts DEF Kinds
      <4> QED BY <4>1
    <3>6. Retries(s, n) \o q = Retries(s, n + 1)
      BY <3>1, RetriesGrow
    <3> HIDE DEF e, n, b
    <3>7. q \in Seq(EventType) /\ \A k \in DOMAIN q : q[k].step = s
      BY <3>2
    <3>8. trace' = trace \o q
      BY <1>1, <3>2, <3>4, AppendIsConcat
    <3> HIDE DEF q
    <3>9. Sofar(s)' = Sofar(s) \o q
      <4>1. Retries(s, n) \in Seq(EventType)
        BY <3>1, RetriesFacts
      <4>2. (b \o Retries(s, n)) \o q = b \o (Retries(s, n) \o q)
        BY <3>5, <3>7, <4>1, ConcatAssociative
      <4> QED BY <3>3, <3>6, <4>2
    <3> QED BY <2>3, <3>7, <3>8, <3>9, TraceGrows
  <2> QED BY <2>4, <2>5
<1> QED
  BY <1>3, <1>4, <1>5, <1>6, <1>7, <1>8, <1>9, <1>10, <1>11, <1>12
  DEF Next, MainStep, TaskStep, ScanStep

\* The trace tells the same story of a step in both modes, whatever the
\* threads of its layer did meanwhile.
THEOREM TraceFaithfulHolds == Spec => []TraceFaithful
<1>1. Init => CountInv /\ AttemptInv /\ TraceInv
  <2> SUFFICES ASSUME Init PROVE CountInv /\ AttemptInv /\ TraceInv
    OBVIOUS
  <2>1. CountInv /\ AttemptInv
    BY DEF Init, CountInv, AttemptInv
  <2>2. trace = <<>> /\ \A s \in Steps : Sofar(s) = <<>>
    BY DEF Init, Sofar, Told
  <2>3. \A s : Places(<<>>, s) = {}
    BY DEF Places
  <2> QED BY <2>1, <2>2, <2>3, FS_EmptySet DEF TraceInv, Shows
<1>2. IInv /\ TraceInv => TraceFaithful
  BY DEF IInv, TypeOK, TraceInv, TraceFaithful, Sofar, Told
<1> QED
  BY <1>1, <1>2, AttemptStep, CountStep, TraceStep, Invariant, PTL DEF Spec

\* The events that close a step, and those that open one.
Closers == {"step.completed", "step.failed"}
Openers == {"step.started", "step.skipped"}

\* The event at place i closed a step, and none was opened since.
Fresh(i) ==
    /\ i \in DOMAIN trace
    /\ trace[i].kind \in Closers
    /\ \A k \in i .. Len(trace) : trace[k].kind \notin Openers

\* A layer is opened as a whole before it is closed, in the order of its list.
FreshInv ==
    /\ pc \in {"submit", "await"} => \A i : ~Fresh(i)
    /\ pc = "publish" => \A i : Fresh(i) => \A t \in todo : trace[i].step < t

\* Appending q, whose only closing event is one of s, keeps the order if all
\* that is fresh comes before s.
LEMMA OrderGrows ==
    ASSUME trace \in Seq(EventType), TracePublishOrder, NEW s,
           NEW q \in Seq(EventType), trace' = trace \o q,
           \A k \in DOMAIN q : q[k].kind \in Closers =>
              /\ q[k].step = s
              /\ \A l \in DOMAIN q : /\ q[l].kind \in Closers => k = l
                                    /\ q[l].kind \notin Openers
              /\ \A i : Fresh(i) => trace[i].step < s
    PROVE  /\ TracePublishOrder'
           /\ \A i : Fresh(i)' =>
                 /\ \A k \in DOMAIN q : q[k].kind \notin Openers
                 /\ \/ Fresh(i) /\ trace'[i] = trace[i]
                    \/ /\ trace'[i].step = s
                       /\ \E k \in DOMAIN q : q[k].kind \in Closers
<1> DEFINE n == Len(trace)
           m == Len(q)
<1>1. /\ n \in Nat /\ m \in Nat /\ DOMAIN trace = 1 .. n /\ DOMAIN q = 1 .. m
      /\ Len(trace') = n + m /\ DOMAIN trace' = 1 .. n + m
      /\ \A i \in 1 .. n : trace'[i] = trace[i]
      /\ \A i \in n + 1 .. n + m : trace'[i] = q[i - n] /\ i - n \in 1 .. m
      /\ \A k \in 1 .. m : trace'[n + k] = q[k] /\ n + k \in n + 1 .. n + m
  <2>1. n \in Nat /\ m \in Nat /\ DOMAIN trace = 1 .. n /\ DOMAIN q = 1 .. m
    BY LenProperties
  <2>2. /\ trace' \in Seq(EventType) /\ Len(trace') = n + m
        /\ \A i \in 1 .. n + m :
              trace'[i] = IF i <= n THEN trace[i] ELSE q[i - n]
    BY ConcatProperties
  <2>3. DOMAIN trace' = 1 .. n + m
    BY <2>2, LenProperties
  <2> HIDE DEF n, m
  <2>4. \A i \in 1 .. n : trace'[i] = trace[i]
    BY <2>1, <2>2
  <2>5. \A i \in n + 1 .. n + m : trace'[i] = q[i - n] /\ i - n \in 1 .. m
    BY <2>1, <2>2
  <2>6. \A k \in 1 .. m : trace'[n + k] = q[k] /\ n + k \in n + 1 .. n + m
    <3> SUFFICES ASSUME NEW k \in 1 .. m
                 PROVE  trace'[n + k] = q[k] /\ n + k \in n + 1 .. n + m
      OBVIOUS
    <3>1. n + k \in n + 1 .. n + m /\ (n + k) - n = k
      BY <2>1
    <3> QED BY <2>5, <3>1
  <2> QED BY <2>1, <2>2, <2>3, <2>4, <2>5, <2>6
<1> HIDE DEF n, m
<1>2. \A i \in 1 .. n + m : i \in 1 .. n \/ i \in n + 1 .. n + m
  BY <1>1
<1>3. ASSUME NEW i \in 1 .. n, trace[i].kind \in Closers,
             \A k \in i .. n : trace'[k].kind \notin Openers
      PROVE  Fresh(i)
  <2>1. \A k \in i .. n : k \in 1 .. n
    BY <1>1
  <2> QED BY <1>1, <1>3, <2>1 DEF Fresh, n
<1>4. TracePublishOrder'
  <2> SUFFICES ASSUME NEW i \in 1 .. n + m, NEW j \in i + 1 .. n + m,
                      trace'[i].kind \in Closers, trace'[j].kind \in Closers,
                      \A k \in i .. j : trace'[k].kind \notin Openers
               PROVE  trace'[i].step < trace'[j].step
    BY <1>1 DEF TracePublishOrder, Closers, Openers
  <2>1. CASE j \in 1 .. n
    <3>1. i \in 1 .. n /\ j \in i + 1 .. n /\ \A k \in i .. j : k \in 1 .. n
      BY <1>1, <2>1
    <3>2. \A k \in i .. j : trace[k].kind \notin Openers
      BY <1>1, <3>1
    <3>3. trace'[i] = trace[i] /\ trace'[j] = trace[j]
      BY <1>1, <2>1, <3>1
    <3> QED
      BY <3>1, <3>2, <3>3 DEF TracePublishOrder, Closers, Openers, n
  <2>2. CASE i \in 1 .. n /\ j \in n + 1 .. n + m
    <3>1. \A k \in i .. n : k \in i .. j
      BY <1>1, <2>2
    <3>2. Fresh(i)
      BY <1>1, <1>3, <2>2, <3>1
    <3>3. j - n \in DOMAIN q /\ trace'[j] = q[j - n] /\ trace'[i] = trace[i]
      BY <1>1, <2>2
    <3>4. q[j - n].kind \in Closers
      BY <3>3
    <3>5. q[j - n].step = s /\ trace[i].step < s
      BY <3>2, <3>3, <3>4
    <3> QED BY <3>3, <3>5
  <2>3. CASE i \in n + 1 .. n + m
    <3>1. j \in n + 1 .. n + m /\ i # j /\ i \in Int /\ j \in Int
      BY <1>1, <2>3
    <3>2. i - n \in 1 .. m /\ j - n \in 1 .. m /\ i - n # j - n
      BY <1>1, <2>3, <3>1
    <3> QED BY <1>1, <2>3, <3>1, <3>2
  <2>4. j \in 1 .. n + m
    BY <1>1
  <2> QED BY <1>2, <2>1, <2>2, <2>3, <2>4
<1>5. ASSUME NEW i, Fresh(i)'
      PROVE  /\ \A k \in DOMAIN q : q[k].kind \notin Openers
             /\ \/ Fresh(i) /\ trace'[i] = trace[i]
                \/ /\ trace'[i].step = s
                   /\ \E k \in DOMAIN q : q[k].kind \in Closers
  <2>1. /\ i \in 1 .. n + m /\ trace'[i].kind \in Closers
        /\ \A k \in i .. n + m : trace'[k].kind \notin Openers
    BY <1>1, <1>5 DEF Fresh
  <2>2. ASSUME i \in 1 .. n
        PROVE  Fresh(i) /\ \A k \in DOMAIN q : q[k].kind \notin Openers
    <3>1. \A k \in i .. n : k \in i .. n + m
      BY <1>1
    <3>2. Fresh(i)
      BY <1>1, <1>3, <2>1, <2>2, <3>1
    <3>3. ASSUME NEW k \in 1 .. m PROVE n + k \in i .. n + m
      <4>1. n \in Nat /\ m \in Nat
        BY <1>1
      <4> QED BY <2>2, <4>1
    <3> QED BY <1>1, <2>1, <3>2, <3>3
  <2>3. ASSUME i \in n + 1 .. n + m
        PROVE  /\ trace'[i].step = s /\ \E k \in DOMAIN q : q[k].kind \in Closers
               /\ \A k \in DOMAIN q : q[k].kind \notin Openers
    <3>1. i - n \in DOMAIN q /\ trace'[i] = q[i - n]
      BY <1>1, <2>3
    <3>2. q[i - n].kind \in Closers
      BY <2>1, <3>1
    <3> QED BY <3>1, <3>2
  <2> QED BY <1>1, <1>2, <2>1, <2>2, <2>3
<1> QED BY <1>4, <1>5

\* An appended event that closes no step leaves less that is fresh.
LEMMA OrderOther ==
    ASSUME trace \in Seq(EventType), TracePublishOrder,
           NEW e \in EventType, e.kind \notin Closers, trace' = Append(trace, e)
    PROVE  /\ TracePublishOrder'
           /\ \A i : Fresh(i)' =>
                 e.kind \notin Openers /\ Fresh(i) /\ trace'[i] = trace[i]
<1> DEFINE q == <<e>>
<1>1. trace' = trace \o q
  BY AppendIsConcat
<1>2. q \in Seq(EventType) /\ DOMAIN q = {1} /\ q[1] = e
  OBVIOUS
<1> HIDE DEF q
<1>3. \A k \in DOMAIN q : q[k].kind \notin Closers
  BY <1>2
<1> QED
  BY <1>1, <1>2, <1>3, OrderGrows

\* A step that is published is closed by one event.
LEMMA PublishCloses ==
    ASSUME IInv, NEW s \in Steps
    PROVE  LET q == RetryEvents(s) \o ClosingEvents(s) IN
           /\ q \in Seq(EventType)
           /\ trace \o RetryEvents(s) \o ClosingEvents(s) = trace \o q
           /\ \A k \in DOMAIN q : q[k].kind \in Closers =>
                 /\ q[k].step = s
                 /\ \A l \in DOMAIN q : /\ q[l].kind \in Closers => k = l
                                        /\ q[l].kind \notin Openers
<1> DEFINE r == RetryEvents(s)
           c == ClosingEvents(s)
           q == r \o c
<1>1. r \in Seq(EventType) /\ c \in Seq(EventType) /\ trace \in Seq(EventType)
  BY PublishedEvents DEF IInv, TypeOK
<1>2. \A k \in DOMAIN r : r[k].kind = "step.retry"
  BY DEF RetryEvents, Event
<1>3. /\ DOMAIN c = 1 .. Len(c) /\ Len(c) \in Nat
      /\ c[1].kind \in Closers /\ c[1].step = s
      /\ \A k \in DOMAIN c : k # 1 => c[k].kind = "dlq.recorded"
  <2>1. CASE task[s] = "ok"
    <3>1. c = <<Event("step.completed", s, attempts[s])>>
      BY <2>1 DEF ClosingEvents
    <3> QED BY <3>1 DEF Event, Closers
  <2>2. CASE task[s] # "ok"
    <3>1. c = <<Event("step.failed", s, attempts[s]),
                Event("dlq.recorded", s, attempts[s])>>
      BY <2>2 DEF ClosingEvents
    <3> QED BY <3>1 DEF Event, Closers
  <2> QED BY <2>1, <2>2
<1> HIDE DEF r, c
<1>4. /\ q \in Seq(EventType) /\ DOMAIN q = 1 .. Len(r) + Len(c)
      /\ DOMAIN r = 1 .. Len(r) /\ Len(r) \in Nat
      /\ \A i \in DOMAIN q : q[i] = IF i <= Len(r) THEN r[i] ELSE c[i - Len(r)]
  <2>1. q \in Seq(EventType) /\ Len(q) = Len(r) + Len(c)
    BY <1>1, ConcatProperties
  <2>2. DOMAIN q = 1 .. Len(r) + Len(c)
    BY <2>1, LenProperties
  <2>3. DOMAIN r = 1 .. Len(r) /\ Len(r) \in Nat
    BY <1>1, LenProperties
  <2> QED BY <1>1, <2>1, <2>2, <2>3, ConcatProperties
<1>5. trace \o r \o c = trace \o q
  <2> HIDE DEF q
  <2>1. (trace \o r) \o c = trace \o (r \o c)
    BY <1>1, ConcatAssociative, SMTT(60)
  <2>2. q = r \o c
    BY DEF q
  <2> QED BY <2>1, <2>2
<1> HIDE DEF q
<1>6. ASSUME NEW k \in DOMAIN q
      PROVE  /\ q[k].kind \notin Openers
             /\ q[k].kind \in Closers => k = Len(r) + 1 /\ q[k].step = s
  <2>1. CASE k <= Len(r)
    <3>1. k \in DOMAIN r /\ q[k] = r[k]
      BY <1>3, <1>4, <2>1
    <3> QED BY <1>2, <3>1 DEF Closers, Openers
  <2>2. CASE ~(k <= Len(r))
    <3>1. k - Len(r) \in DOMAIN c /\ q[k] = c[k - Len(r)]
      BY <1>3, <1>4, <2>2
    <3>2. CASE k - Len(r) = 1
      <4>1. k = Len(r) + 1
        BY <1>3, <1>4, <3>2
      <4> QED BY <1>3, <3>1, <3>2, <4>1 DEF Closers, Openers
    <3>3. CASE k - Len(r) # 1
      <4>1. q[k].kind = "dlq.recorded"
        BY <1>3, <3>1, <3>3
      <4> QED BY <4>1 DEF Closers, Openers
    <3> QED BY <3>2, <3>3
  <2> QED BY <2>1, <2>2
<1> QED
  BY <1>4, <1>5, <1>6 DEF q, r, c

LEMMA OrderStep ==
    ASSUME IInv, TracePublishOrder, FreshInv, [Next]_vars
    PROVE  TracePublishOrder' /\ FreshInv'
<1>1. /\ trace \in Seq(EventType) /\ todo \subseteq Steps
      /\ resolved \subseteq Steps /\ layer \subseteq Steps
      /\ attempts \in [Steps -> Nat]
  BY DEF IInv, TypeOK
<1>2. Steps \subseteq Nat
  BY NumStepsAssumption DEF Steps
<1> USE DEF params, main, worker, shared, shown
<1>3. ASSUME UNCHANGED <<trace, pc, todo>> PROVE TracePublishOrder' /\ FreshInv'
  BY <1>3 DEF TracePublishOrder, FreshInv, Fresh
<1>4. ASSUME trace' = trace,
             pc' \in {"loop", "scan", "launch", "raised", "done"}
      PROVE  TracePublishOrder' /\ FreshInv'
  BY <1>4 DEF TracePublishOrder, FreshInv
<1>5. CASE UNCHANGED vars \/ Terminated
  BY <1>3, <1>5 DEF Terminated, vars
<1>6. CASE ValidateFails \/ RoundStart \/ LaunchLayer \/ NextRound \/ JoinRaises
  BY <1>4, <1>6 DEF ValidateFails, RoundStart, LaunchLayer, NextRound, JoinRaises
<1>7. CASE Begin \/ Finish \/ NoProgress
  <2>1. PICK kind \in {"run.started", "run.finished"} :
           trace' = Append(trace, Event(kind, 0, 0))
    BY <1>7 DEF Begin, Finish, NoProgress, Conclude
  <2>2. Event(kind, 0, 0) \in EventType /\ Event(kind, 0, 0).kind \notin Closers
    BY <2>1, EventFacts DEF Kinds, Event, Closers
  <2>3. TracePublishOrder'
    BY <1>1, <2>1, <2>2, OrderOther
  <2>4. pc' \in {"loop", "done"}
    BY <1>7 DEF Begin, Finish, NoProgress, Conclude
  <2> QED BY <2>3, <2>4 DEF FreshInv
<1>8. CASE Join
  BY <1>8 DEF Join, TracePublishOrder, FreshInv, Fresh
<1>9. ASSUME NEW s \in Steps, NEW kind \in Openers,
             trace' = Append(trace, Event(kind, s, 0))
      PROVE  TracePublishOrder' /\ FreshInv'
  <2>1. /\ Event(kind, s, 0) \in EventType
        /\ Event(kind, s, 0).kind \notin Closers
        /\ Event(kind, s, 0).kind \in Openers
    BY EventFacts DEF Kinds, Event, Closers, Openers
  <2>2. TracePublishOrder' /\ \A i : ~Fresh(i)'
    BY <1>1, <1>9, <2>1, OrderOther
  <2> QED BY <2>2 DEF FreshInv
<1>10. ASSUME NEW s \in Steps, SkipStep(s) \/ RunStep(s) \/ Launch(s)
       PROVE  TracePublishOrder' /\ FreshInv'
  BY <1>9, <1>10 DEF SkipStep, RunStep, Launch, Openers
<1>11. ASSUME NEW s \in Steps, PassOver(s) \/ Collect(s)
       PROVE  TracePublishOrder' /\ FreshInv'
  BY <1>3, <1>11 DEF PassOver, Collect
<1>12. ASSUME NEW s \in Steps, Submit(s) PROVE TracePublishOrder' /\ FreshInv'
  BY <1>12 DEF Submit, TracePublishOrder, FreshInv, Fresh
<1>13. ASSUME NEW s \in Steps, Publish(s) PROVE TracePublishOrder' /\ FreshInv'
  <2> DEFINE q == RetryEvents(s) \o ClosingEvents(s)
  <2>1. pc = "publish" /\ s \in todo /\ \A t \in todo : s <= t
    BY <1>13 DEF Publish, NextToPublish, First
  <2>2. \A i : Fresh(i) => trace[i].step < s
    BY <2>1 DEF FreshInv
  <2>3. q \in Seq(EventType) /\ trace' = trace \o q
    BY <1>13, PublishCloses DEF Publish
  <2>4. \A k \in DOMAIN q : q[k].kind \in Closers =>
           /\ q[k].step = s
           /\ \A l \in DOMAIN q : /\ q[l].kind \in Closers => k = l
                                  /\ q[l].kind \notin Openers
           /\ \A i : Fresh(i) => trace[i].step < s
    <3>1. \A k \in DOMAIN q : q[k].kind \in Closers =>
             /\ q[k].step = s
             /\ \A l \in DOMAIN q : /\ q[l].kind \in Closers => k = l
                                    /\ q[l].kind \notin Openers
      BY PublishCloses
    <3> HIDE DEF q
    <3> QED BY <2>2, <3>1
  <2> HIDE DEF q
  <2>5. /\ TracePublishOrder'
        /\ \A i : Fresh(i)' => \/ Fresh(i) /\ trace'[i] = trace[i]
                               \/ trace'[i].step = s
    <3>1. /\ TracePublishOrder'
          /\ \A i : Fresh(i)' =>
                /\ \A k \in DOMAIN q : q[k].kind \notin Openers
                /\ \/ Fresh(i) /\ trace'[i] = trace[i]
                   \/ /\ trace'[i].step = s
                      /\ \E k \in DOMAIN q : q[k].kind \in Closers
      BY <1>1, <2>3, <2>4, OrderGrows
    <3> QED BY <3>1
  <2>6. CASE todo = {s}
    BY <1>13, <2>5, <2>6 DEF Publish, FreshInv
  <2>7. CASE todo # {s}
    <3>1. pc' = "publish" /\ todo' = todo \ {s}
      BY <1>13, <2>1, <2>7 DEF Publish
    <3>2. \A t \in todo' : t \in todo /\ s < t
      BY <1>1, <1>2, <2>1, <3>1
    <3>3. \A i : Fresh(i)' => \A t \in todo' : trace'[i].step < t
      BY <2>1, <2>5, <3>2 DEF FreshInv
    <3> QED BY <2>5, <3>1, <3>3 DEF FreshInv
  <2> QED BY <2>6, <2>7
<1>14. ASSUME NEW s \in Steps,
              \/ PoolBegin(s) \/ Wake(s) \/ Exhaust(s)
              \/ \E v \in Values : TaskReturns(s, v)
       PROVE  TracePublishOrder' /\ FreshInv'
  BY <1>3, <1>14 DEF PoolBegin, Wake, Exhaust, TaskReturns
<1>15. ASSUME NEW s \in Steps, TaskRaises(s) PROVE TracePublishOrder' /\ FreshInv'
  <2>1. CASE Parallel
    BY <1>3, <1>15, <2>1 DEF TaskRaises
  <2>2. CASE ~Parallel
    <3> DEFINE e == Event("step.retry", s, attempts[s])
    <3>1. e \in EventType /\ e.kind \notin Closers
      BY <1>1, EventFacts DEF Kinds, Event, Closers
    <3>2. trace' = Append(trace, e) /\ UNCHANGED <<pc, todo>>
      BY <1>15, <2>2 DEF TaskRaises
    <3> HIDE DEF e
    <3>3. /\ TracePublishOrder'
          /\ \A i : Fresh(i)' => Fresh(i) /\ trace'[i] = trace[i]
      BY <1>1, <3>1, <3>2, OrderOther
    <3> QED BY <3>2, <3>3 DEF FreshInv
  <2> QED BY <2>1, <2>2
<1> QED
  BY <1>5, <1>6, <1>7, <1>8, <1>10, <1>11, <1>12, <1>13, <1>14, <1>15
  DEF Next, MainStep, TaskStep, ScanStep

\* The steps of a layer are closed in configuration order, in whatever order
\* their threads ended.
THEOREM TracePublishOrderHolds == Spec => []TracePublishOrder
<1>1. Init => TracePublishOrder /\ FreshInv
  BY DEF Init, TracePublishOrder, FreshInv
<1> QED
  BY <1>1, OrderStep, Invariant, PTL DEF Spec

\* What a run shows of its steps is what its threads did, reproducibly.
THEOREM TraceSoundHolds == Spec => []TraceSound
<1>1. TraceFaithful /\ TracePublishOrder => TraceSound
  BY DEF TraceSound
<1> QED
  BY <1>1, TraceFaithfulHolds, TracePublishOrderHolds, PTL
=============================================================================
