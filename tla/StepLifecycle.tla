---------------------------- MODULE StepLifecycle ----------------------------
(***************************************************************************)
(* What a run promises about its steps, whatever the order and the threads *)
(* that execute them (the state diagram of docs/architecture.md):          *)
(*                                                                         *)
(*   PENDING --> SKIPPED                 when the condition is false       *)
(*   PENDING --> RUNNING --> COMPLETED   with a result                     *)
(*                       --> FAILED      without one                       *)
(*                                                                         *)
(* A step leaves PENDING only after everything it needs is terminal, and   *)
(* what is terminal never changes again.                                   *)
(***************************************************************************)
EXTENDS Workflow

CONSTANT Configs

VARIABLES config, statuses, results

lifecycle == <<config, statuses, results>>

Settled(s) == statuses[s] \in {"COMPLETED", "FAILED", "SKIPPED"}

LInit ==
    /\ config \in Configs
    /\ statuses = [s \in Steps |-> "PENDING"]
    /\ results = [s \in Steps |-> NoResult]

\* The step may leave PENDING.
Eligible(s) ==
    /\ statuses[s] = "PENDING"
    /\ \A d \in Needs(config, s) : Settled(d)

Skip(s) ==
    /\ Eligible(s)
    /\ ~Passes(config, s, results)
    /\ statuses' = [statuses EXCEPT ![s] = "SKIPPED"]
    /\ UNCHANGED <<config, results>>

Start(s) ==
    /\ Eligible(s)
    /\ Passes(config, s, results)
    /\ statuses' = [statuses EXCEPT ![s] = "RUNNING"]
    /\ UNCHANGED <<config, results>>

Complete(s, v) ==
    /\ statuses[s] = "RUNNING"
    /\ statuses' = [statuses EXCEPT ![s] = "COMPLETED"]
    /\ results' = [results EXCEPT ![s] = v]
    /\ UNCHANGED config

Fail(s) ==
    /\ statuses[s] = "RUNNING"
    /\ statuses' = [statuses EXCEPT ![s] = "FAILED"]
    /\ UNCHANGED <<config, results>>

LNext ==
    \E s \in Steps : \/ Skip(s) \/ Start(s) \/ Fail(s)
                     \/ \E v \in Values : Complete(s, v)

LSpec == LInit /\ [][LNext]_lifecycle
=============================================================================
