------------------------------- MODULE Parser -------------------------------
(***************************************************************************)
(* load_workflow_yaml and detect_cycles (parser.py): a definition is       *)
(* parsed, checked against the schema and then searched for cycles with    *)
(* Kahn's algorithm over depends_on lists and condition sources.           *)
(*                                                                         *)
(* A definition is given as the author wrote it: depends_on is a list that *)
(* may repeat a step or name one that does not exist (id 0), and two steps *)
(* may have the same id.  Once the ids are unique, a step's id is its      *)
(* position.                                                               *)
(***************************************************************************)
EXTENDS Workflow, Integers, Sequences, FiniteSets, Functions

CONSTANT Definitions    \* the texts that are submitted

Unknown == 0

Ids == Steps \cup {Unknown}

Definition == [form      : {"malformed", "scalar", "mapping"},
               ids       : [Steps -> Steps],
               retries   : [Steps -> Int],
               dependsOn : [Steps -> Seq(Ids)],
               source    : [Steps -> SUBSET Ids]]

ASSUME DefinitionsAssumption ==
    /\ Definitions \subseteq Definition
    /\ \A y \in Definitions : \A s \in Steps :
          \A j, k \in y.source[s] : j = k
    /\ \A y \in Definitions :
          (\A p, q \in Steps : y.ids[p] = y.ids[q] => p = q)
          => y.ids = [s \in Steps |-> s]

VARIABLES
    yaml,       \* the definition, which no step changes
    pc,
    cursor,     \* the step whose dependencies or in-degree are looked at
    position,   \* index into deps, or into the neighbours of node
    inDegree, adjacency,
    queue,
    node,       \* the step popped last
    order       \* the popped steps; visited is its length

vars == <<yaml, pc, cursor, position, inDegree, adjacency, queue, node, order>>

\* Faulty variant of DepList: the source of a condition is no dependency.
DepListWithoutSource(s) == yaml.dependsOn[s]

\* deps: the depends_on list, and the condition's source unless it is there.
DepList(s) ==
    IF yaml.source[s] \subseteq Range(yaml.dependsOn[s])
    THEN yaml.dependsOn[s]
    ELSE Append(yaml.dependsOn[s], CHOOSE d \in yaml.source[s] : TRUE)

\* What the executor is handed when the definition is accepted.
Loaded ==
    [dependsOn |-> [s \in Steps |-> Range(yaml.dependsOn[s])],
     condition |-> [s \in Steps |-> {[step |-> d, match |-> Values] :
                                       d \in yaml.source[s]}]]

-----------------------------------------------------------------------------
Init ==
    /\ yaml \in Definitions
    /\ pc = "load"
    /\ cursor = 1
    /\ position = 1
    /\ inDegree = [s \in Steps |-> 0]
    /\ adjacency = [s \in Steps |-> <<>>]
    /\ queue = <<>>
    /\ node = Unknown
    /\ order = <<>>

\* yaml.safe_load raises, or the document is not a mapping.
LoadFails ==
    /\ pc = "load"
    /\ yaml.form # "mapping"
    /\ pc' = "bad_yaml"
    /\ UNCHANGED <<yaml, cursor, position, inDegree, adjacency, queue, node, order>>

\* The validators of StepConfig and WorkflowConfig.
SchemaHolds ==
    /\ \A s \in Steps : yaml.retries[s] >= 0
    /\ \A p, q \in Steps : p < q => yaml.ids[p] # yaml.ids[q]

SchemaFails ==
    /\ pc = "load"
    /\ yaml.form = "mapping"
    /\ ~SchemaHolds
    /\ pc' = "bad_schema"
    /\ UNCHANGED <<yaml, cursor, position, inDegree, adjacency, queue, node, order>>

SchemaPasses ==
    /\ pc = "load"
    /\ yaml.form = "mapping"
    /\ SchemaHolds
    /\ pc' = "edges"
    /\ UNCHANGED <<yaml, cursor, position, inDegree, adjacency, queue, node, order>>

-----------------------------------------------------------------------------
(* The loop over steps and their deps.                                      *)

AtDep == pc = "edges" /\ cursor <= NumSteps /\ position <= Len(DepList(cursor))

Dep == DepList(cursor)[position]

UnknownDep ==
    /\ AtDep
    /\ Dep \notin Steps
    /\ pc' = "unknown_step"
    /\ UNCHANGED <<yaml, cursor, position, inDegree, adjacency, queue, node, order>>

\* Faulty variant of AddEdge: a repeated dependency is counted once, but is
\* still entered twice in the adjacency list.
AddEdgeOnce ==
    /\ AtDep
    /\ Dep \in Steps
    /\ adjacency' = [adjacency EXCEPT ![Dep] = Append(@, cursor)]
    /\ inDegree' = [inDegree EXCEPT
                      ![cursor] = Cardinality(Range(SubSeq(DepList(cursor), 1, position)))]
    /\ position' = position + 1
    /\ UNCHANGED <<yaml, pc, cursor, queue, node, order>>

AddEdge ==
    /\ AtDep
    /\ Dep \in Steps
    /\ adjacency' = [adjacency EXCEPT ![Dep] = Append(@, cursor)]
    /\ inDegree' = [inDegree EXCEPT ![cursor] = @ + 1]
    /\ position' = position + 1
    /\ UNCHANGED <<yaml, pc, cursor, queue, node, order>>

NextStep ==
    /\ pc = "edges"
    /\ cursor <= NumSteps
    /\ position > Len(DepList(cursor))
    /\ cursor' = cursor + 1
    /\ position' = 1
    /\ UNCHANGED <<yaml, pc, inDegree, adjacency, queue, node, order>>

\* queue = [sid for sid, deg in in_degree.items() if deg == 0], from the
\* first step on
Counted ==
    /\ pc = "edges"
    /\ cursor > NumSteps
    /\ pc' = "seed"
    /\ cursor' = 1
    /\ UNCHANGED <<yaml, position, inDegree, adjacency, queue, node, order>>

Seed ==
    /\ pc = "seed"
    /\ cursor <= NumSteps
    /\ queue' = IF inDegree[cursor] = 0 THEN Append(queue, cursor) ELSE queue
    /\ cursor' = cursor + 1
    /\ UNCHANGED <<yaml, pc, position, inDegree, adjacency, node, order>>

Seeded ==
    /\ pc = "seed"
    /\ cursor > NumSteps
    /\ pc' = "pop"
    /\ UNCHANGED <<yaml, cursor, position, inDegree, adjacency, queue, node, order>>

-----------------------------------------------------------------------------
(* The loop over the queue.                                                 *)

Pop ==
    /\ pc = "pop"
    /\ queue # <<>>
    /\ node' = Head(queue)
    /\ queue' = Tail(queue)
    /\ order' = Append(order, Head(queue))
    /\ position' = 1
    /\ pc' = "relax"
    /\ UNCHANGED <<yaml, cursor, inDegree, adjacency>>

\* in_degree of s is about to become zero.
Released(s) == inDegree[s] = 1

Relax ==
    /\ pc = "relax"
    /\ position <= Len(adjacency[node])
    /\ LET s == adjacency[node][position] IN
         /\ inDegree' = [inDegree EXCEPT ![s] = @ - 1]
         /\ queue' = IF Released(s) THEN Append(queue, s) ELSE queue
    /\ position' = position + 1
    /\ UNCHANGED <<yaml, pc, cursor, adjacency, node, order>>

Relaxed ==
    /\ pc = "relax"
    /\ position > Len(adjacency[node])
    /\ pc' = "pop"
    /\ UNCHANGED <<yaml, cursor, position, inDegree, adjacency, queue, node, order>>

\* Faulty variant of Decide: go on until every step has been visited.
DecideOnceComplete ==
    /\ pc = "pop"
    /\ queue = <<>>
    /\ pc' = IF Len(order) = NumSteps THEN "accepted" ELSE "pop"
    /\ UNCHANGED <<yaml, cursor, position, inDegree, adjacency, queue, node, order>>

\* visited is compared with the number of steps.
Decide ==
    /\ pc = "pop"
    /\ queue = <<>>
    /\ pc' = IF Len(order) = NumSteps THEN "accepted" ELSE "cyclic"
    /\ UNCHANGED <<yaml, cursor, position, inDegree, adjacency, queue, node, order>>

\* The steps the error message of a cycle lists.
Remaining == {s \in Steps : inDegree[s] > 0}

-----------------------------------------------------------------------------
(* build_dag (dag.py): the graph that GET /workflows/{run_id}/dag shows of  *)
(* an accepted definition.                                                  *)

Nodes == {[id |-> s, conditional |-> yaml.source[s] # {}] : s \in Steps}

EdgesOf(s) ==
    {[from |-> d, to |-> s, type |-> "dependency"] : d \in Range(yaml.dependsOn[s])}
        \cup {[from |-> d, to |-> s, type |-> "conditional"] : d \in yaml.source[s]}

\* Faulty variant of BuildDag: edges are those of depends_on alone.
BuildDagDependencies ==
    [nodes |-> Nodes,
     edges |-> {e \in UNION {EdgesOf(s) : s \in Steps} : e.type = "dependency"}]

BuildDag == [nodes |-> Nodes, edges |-> UNION {EdgesOf(s) : s \in Steps}]

-----------------------------------------------------------------------------
Ended == pc \in {"accepted", "cyclic", "unknown_step", "bad_schema", "bad_yaml"}

Terminated == Ended /\ UNCHANGED vars

Work == \/ LoadFails \/ SchemaFails \/ SchemaPasses
        \/ UnknownDep \/ AddEdge \/ NextStep \/ Counted \/ Seed \/ Seeded
        \/ Pop \/ Relax \/ Relaxed \/ Decide

Next == Work \/ Terminated

Spec == Init /\ [][Next]_vars

\* One thread runs the parser to its end.
FairSpec == Spec /\ WF_vars(Work)

-----------------------------------------------------------------------------
(* Properties.                                                              *)

\* The variables have the shape the program gives them; an in-degree never
\* becomes negative.
TypeOK ==
    /\ yaml \in Definitions
    /\ pc \in {"load", "edges", "seed", "pop", "relax", "accepted", "cyclic",
               "unknown_step", "bad_schema", "bad_yaml"}
    /\ cursor \in 1 .. NumSteps + 1
    /\ position \in Nat \ {0}
    /\ inDegree \in [Steps -> Nat]
    /\ adjacency \in [Steps -> Seq(Steps)]
    /\ queue \in Seq(Steps)
    /\ node \in Ids
    /\ order \in Seq(Steps)

\* Every step named as a dependency or as a source exists.
AllKnown == \A s \in Steps : Needs(Loaded, s) \subseteq Steps

\* The verdict is right: a definition is accepted exactly when its names
\* resolve and its graph, condition edges included, has no cycle.  This is
\* what makes the executor's no-progress break unreachable.
VerdictCorrect ==
    /\ pc = "accepted" =>
          AllKnown /\ Acyclic(Loaded) /\ yaml.ids = [s \in Steps |-> s]
    /\ pc = "cyclic" => AllKnown /\ ~Acyclic(Loaded)
    /\ pc = "unknown_step" => ~AllKnown

\* Steps are popped in a topological order and at most once: all that a
\* popped step needs was popped before it.
PopsInOrder ==
    \A i \in DOMAIN order :
        /\ \A j \in DOMAIN order : order[i] = order[j] => i = j
        /\ \A d \in Needs(Loaded, order[i]) :
              \E j \in 1 .. i - 1 : order[j] = d

\* A set of steps each of which needs another of the set can never run.
Stuck(S) == \A s \in S : Needs(Loaded, s) \cap S # {}

\* The error message of a cycle lists exactly the steps that can never run:
\* those on a cycle and those behind one.
RemainingExact ==
    pc = "cyclic" => Remaining = UNION {S \in SUBSET Steps : Stuck(S)}

\* The graph that is shown is the one that was searched for cycles: it joins
\* the same steps, every edge goes from a step to one that was popped later,
\* and a node is marked as conditional when a conditional edge leads to it.
DagAsSearched ==
    pc = "accepted" =>
        /\ {<<e.from, e.to>> : e \in BuildDag.edges} =
               {e \in Steps \X Steps : e[2] \in Range(adjacency[e[1]])}
        /\ \A e \in BuildDag.edges : \A j, k \in DOMAIN order :
               order[j] = e.from /\ order[k] = e.to => j < k
        /\ \A n \in BuildDag.nodes :
               n.conditional <=> \E e \in BuildDag.edges :
                                    e.to = n.id /\ e.type = "conditional"

\* What callers learn of the search is what it did: the order in which it
\* visits the steps, the steps its error names, and the graph that is shown
\* of an accepted definition.
SearchSound == PopsInOrder /\ RemainingExact /\ DagAsSearched

\* Every definition gets a verdict.
Decides == <>Ended
=============================================================================
