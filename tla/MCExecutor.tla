----------------------------- MODULE MCExecutor -----------------------------
(***************************************************************************)
(* Instances of Executor for TLC.  Each run picks one of the sets of       *)
(* workflow definitions below.                                             *)
(***************************************************************************)
EXTENDS Executor, TLC

CONSTANTS a, b      \* two results that tasks return

MCTasks == {"known", "unknown"}
MCRegistry == {"known"}

NoCondition == [s \in Steps |-> {}]
AllKnown == [s \in Steps |-> "known"]

If(src, match) == {[step |-> src, match |-> match]}

\* A definition without retries.
Plain(d, k) == [dependsOn |-> d, condition |-> k,
                retries |-> [s \in Steps |-> 0], task |-> AllKnown]

\* Every graph over the steps, cyclic ones and self-loops included.
Graphs == {Plain(d, NoCondition) : d \in [Steps -> SUBSET Steps]}

\* Acyclic graphs over three steps with conditions whose source completes,
\* fails, is skipped, or comes later in the list.
Branching ==
    {c \in {Plain(d, k) :
               d \in [Steps -> {{}, {1}, {3}, {1, 2}}],
               k \in {[NoCondition EXCEPT ![2] = If(1, {a})],
                      [NoCondition EXCEPT ![1] = If(3, {a})],
                      [NoCondition EXCEPT ![2] = If(1, {a}), ![3] = If(2, {b})],
                      [NoCondition EXCEPT ![3] = If(2, {a, b})]}} :
       Acyclic(c)}

ThreeSteps == Graphs \cup Branching

\* Four steps: a branch that joins again, a list in which dependents come
\* first, and a wide layer, with retried steps in each.
Diamond ==
    {[dependsOn |-> <<{}, {1}, {1}, {2, 3}>>,
      condition |-> [NoCondition EXCEPT ![2] = If(1, {a})],
      retries   |-> <<0, 1, 1, 0>>, task |-> AllKnown],
     [dependsOn |-> <<{2, 3}, {4}, {4}, {}>>,
      condition |-> [NoCondition EXCEPT ![1] = If(2, {b})],
      retries   |-> <<1, 0, 1, 0>>, task |-> AllKnown],
     [dependsOn |-> <<{}, {}, {}, {1}>>,
      condition |-> NoCondition,
      retries   |-> <<1, 0, 1, 0>>, task |-> AllKnown]}

\* More retries than the back-off can be computed for, and a task that is
\* not registered.
Refused ==
    {[dependsOn |-> <<{}, {}, {1, 2}, {}>>, condition |-> NoCondition,
      retries |-> <<3, 1, 0, 0>>, task |-> AllKnown],
     [dependsOn |-> <<{}, {}, {}, {}>>, condition |-> NoCondition,
      retries |-> <<0, 0, 0, 0>>, task |-> [AllKnown EXCEPT ![2] = "unknown"]]}

FourSteps == Diamond \cup Refused
=============================================================================
