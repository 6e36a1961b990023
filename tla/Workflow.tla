------------------------------ MODULE Workflow ------------------------------
(***************************************************************************)
(* The static part of a workflow: what a WorkflowConfig holds once the     *)
(* YAML text has been parsed, and the facts about its dependency graph     *)
(* that the parser, the executor and their properties share.               *)
(*                                                                         *)
(* A step is its position in the YAML list, so the order of integers is    *)
(* the configuration order in which every loop of the program visits the   *)
(* steps.  Step ids are unique (WorkflowConfig._unique_step_ids), which    *)
(* makes position and id interchangeable.                                  *)
(***************************************************************************)
EXTENDS Naturals

CONSTANTS
    NumSteps,   \* len(config.steps)
    Values,     \* what a task may return
    NoResult,   \* "no entry in the results dict"
    Tasks       \* task names a definition may mention

ASSUME NumStepsAssumption == NumSteps \in Nat

ASSUME NoResultAssumption == NoResult \notin Values

Steps == 1 .. NumSteps

\* An optional StepCondition is a set of at most one element.  Its conjunction
\* of equals / not_equals / contains tests is the set of results that pass.
Condition == [step : Steps, match : SUBSET Values]

Config == [dependsOn : [Steps -> SUBSET Steps],
           condition : [Steps -> SUBSET Condition],
           retries   : [Steps -> Nat],
           task      : [Steps -> Tasks]]

\* The steps that must be resolved before s of configuration c is looked at:
\* its depends_on list and the source of its condition.
Needs(c, s) == c.dependsOn[s] \cup {k.step : k \in c.condition[s]}

\* evaluate() of the condition of s: a source without a result (it failed or
\* was skipped) makes the condition false, as NoResult is in no match set.
Passes(c, s, res) == \A k \in c.condition[s] : res[k.step] \in k.match

\* c has no dependency cycle: its steps can be ranked so that every step
\* comes after all it needs.
Acyclic(c) ==
    \E rank \in [Steps -> Steps] :
        \A s \in Steps : \A d \in Needs(c, s) : rank[d] < rank[s]

=============================================================================
