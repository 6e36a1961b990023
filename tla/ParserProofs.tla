---------------------------- MODULE ParserProofs ----------------------------
(***************************************************************************)
(* Proofs about Parser, for every number of steps and every definition:    *)
(* Kahn's search gives the right verdict, pops the steps in order, and     *)
(* names exactly the steps that can never run.                             *)
(***************************************************************************)
EXTENDS Parser, FiniteSetTheorems, SequenceTheorems, NaturalsInduction,
        WellFoundedInduction, TLAPS

-----------------------------------------------------------------------------
(* The inductive invariant.                                                 *)

Counting == pc \in {"load", "edges"}

Searched == pc \in {"pop", "relax", "accepted", "cyclic"}

\* The schema was checked before the edges are counted.
LoadInv == pc \notin {"load", "bad_yaml", "bad_schema"} => SchemaHolds

\* The deps of s that were entered in the adjacency lists so far.
Entered(s) ==
    IF ~Counting \/ s < cursor THEN Range(DepList(s))
    ELSE {DepList(s)[i] : i \in {k \in DOMAIN DepList(s) : s = cursor /\ k < position}}

\* The adjacency lists hold the deps that were entered, all of them steps.
EdgeInv ==
    /\ pc = "load" => cursor = 1 /\ position = 1
    /\ Counting \/ pc = "seed" \/ Searched =>
          \A s \in Steps :
              /\ Entered(s) \subseteq Steps
              /\ \A d \in Steps : s \in Range(adjacency[d]) <=> d \in Entered(s)

\* The places of the adjacency lists, and those the search has been at.
Places == UNION {{d} \X DOMAIN adjacency[d] : d \in Steps}

Walked(d, k) == d \in Range(order) /\ (pc = "relax" /\ d = node => k < position)

\* The places that still hold s back.
Pending(s) ==
    {e \in Places : adjacency[e[1]][e[2]] = s /\ ~Walked(e[1], e[2])}

\* An in-degree counts the places that still hold the step back.
DegreeInv ==
    Counting \/ pc = "seed" \/ Searched =>
        \A s \in Steps :
            IsFiniteSet(Pending(s)) /\ inDegree[s] = Cardinality(Pending(s))

Distinct(seq) == \A i, j \in DOMAIN seq : seq[i] = seq[j] => i = j

\* The steps nothing holds back are those that were queued, each once.
QueueInv ==
    /\ Distinct(queue) /\ Distinct(order)
    /\ Range(queue) \cap Range(order) = {}
    /\ Counting => queue = <<>>
    /\ ~Searched => order = <<>>
    /\ pc = "seed" => Range(queue) = {s \in Steps : s < cursor /\ inDegree[s] = 0}
    /\ Searched => Range(queue) \cup Range(order) = {s \in Steps : inDegree[s] = 0}
    /\ pc = "relax" => node \in Range(order)
    /\ pc \in {"accepted", "cyclic"} => queue = <<>>

\* What a popped step needs was popped before it.
OrderInv ==
    \A i \in DOMAIN order : \A d \in Needs(Loaded, order[i]) :
        \E j \in 1 .. i - 1 : order[j] = d

\* What was compared when the verdict was given.
EndInv ==
    /\ pc = "accepted" => Len(order) = NumSteps
    /\ pc = "cyclic" => Len(order) # NumSteps
    /\ pc = "unknown_step" => ~AllKnown

IInv == TypeOK /\ LoadInv /\ EdgeInv /\ DegreeInv /\ QueueInv /\ OrderInv /\ EndInv

-----------------------------------------------------------------------------
(* Facts about definitions and sequences.                                   *)

\* Steps are natural numbers, and the name of an unknown step is none.
LEMMA StepFacts == Steps \subseteq Nat \ {0} /\ Unknown \notin Steps /\ Steps \subseteq Ids
BY NumStepsAssumption DEF Steps, Unknown, Ids

\* What an appended element changes.
LEMMA AppendRange ==
    ASSUME NEW S, NEW seq \in Seq(S), NEW x \in S
    PROVE  /\ Append(seq, x) \in Seq(S)
           /\ DOMAIN Append(seq, x) = DOMAIN seq \cup {Len(seq) + 1}
           /\ Len(seq) + 1 \notin DOMAIN seq
           /\ \A i \in DOMAIN seq : Append(seq, x)[i] = seq[i]
           /\ Append(seq, x)[Len(seq) + 1] = x
           /\ Range(Append(seq, x)) = Range(seq) \cup {x}
<1>1. /\ Append(seq, x) \in Seq(S)
      /\ Len(Append(seq, x)) = Len(seq) + 1
      /\ \A i \in 1 .. Len(seq) : Append(seq, x)[i] = seq[i]
      /\ Append(seq, x)[Len(seq) + 1] = x
  BY AppendProperties
<1>2. DOMAIN seq = 1 .. Len(seq) /\ Len(seq) \in Nat
  BY LenProperties
<1>3. DOMAIN Append(seq, x) = 1 .. Len(seq) + 1
  BY <1>1, LenProperties
<1>4. /\ 1 .. Len(seq) + 1 = 1 .. Len(seq) \cup {Len(seq) + 1}
      /\ Len(seq) + 1 \notin 1 .. Len(seq)
  BY <1>2
<1>5. Range(Append(seq, x)) = Range(seq) \cup {x}
  BY <1>1, <1>2, <1>3, <1>4 DEF Range
<1> QED BY <1>1, <1>2, <1>3, <1>4, <1>5

\* What the removal of the first element changes.
LEMMA TailRange ==
    ASSUME NEW S, NEW seq \in Seq(S), seq # <<>>, Distinct(seq)
    PROVE  /\ Head(seq) \in S /\ Tail(seq) \in Seq(S)
           /\ Head(seq) \in Range(seq)
           /\ Range(Tail(seq)) = Range(seq) \ {Head(seq)}
           /\ Distinct(Tail(seq))
<1>1. Len(seq) \in Nat /\ Len(seq) # 0 /\ DOMAIN seq = 1 .. Len(seq)
  BY LenProperties, EmptySeq
<1>2. /\ Head(seq) = seq[1] /\ Tail(seq) \in Seq(S)
      /\ Len(Tail(seq)) = Len(seq) - 1
      /\ \A i \in 1 .. Len(Tail(seq)) : Tail(seq)[i] = seq[i + 1]
  BY HeadTailProperties
<1>3. DOMAIN Tail(seq) = 1 .. Len(seq) - 1
  BY <1>2, LenProperties
<1>4. /\ 1 \in DOMAIN seq
      /\ \A i \in DOMAIN Tail(seq) : i + 1 \in DOMAIN seq /\ i + 1 # 1
      /\ \A i \in DOMAIN seq : i # 1 => i - 1 \in DOMAIN Tail(seq) /\ (i - 1) + 1 = i
      /\ \A i, j \in DOMAIN Tail(seq) : i + 1 = j + 1 => i = j
  BY <1>1, <1>3
<1>5. \A i \in DOMAIN Tail(seq) : Tail(seq)[i] = seq[i + 1]
  BY <1>2, <1>3
<1>6. Head(seq) \in S /\ Head(seq) \in Range(seq)
  BY <1>2, <1>4, ElementOfSeq, <1>1 DEF Range
<1>7. Distinct(Tail(seq))
  BY <1>4, <1>5 DEF Distinct
<1>8. Range(Tail(seq)) = Range(seq) \ {Head(seq)}
  <2>1. ASSUME NEW x \in Range(Tail(seq)) PROVE x \in Range(seq) \ {Head(seq)}
    <3>1. PICK i \in DOMAIN Tail(seq) : x = seq[i + 1]
      BY <1>5 DEF Range
    <3> QED BY <1>2, <1>4, <3>1 DEF Range, Distinct
  <2>2. ASSUME NEW x \in Range(seq), x # Head(seq) PROVE x \in Range(Tail(seq))
    <3>1. PICK i \in DOMAIN seq : x = seq[i]
      BY DEF Range
    <3>2. i - 1 \in DOMAIN Tail(seq) /\ (i - 1) + 1 = i
      BY <1>2, <1>4, <2>2, <3>1
    <3>3. Tail(seq)[i - 1] = x
      BY <1>5, <3>1, <3>2
    <3> QED BY <3>2, <3>3 DEF Range
  <2> QED BY <2>1, <2>2
<1> QED BY <1>2, <1>6, <1>7, <1>8

\* The list the search reads holds what the executor waits for.
LEMMA DepListFacts ==
    ASSUME yaml \in Definitions, NEW s \in Steps
    PROVE  /\ DepList(s) \in Seq(Ids)
           /\ Range(DepList(s)) = Needs(Loaded, s)
           /\ Needs(Loaded, s) = Range(yaml.dependsOn[s]) \cup yaml.source[s]
<1> DEFINE list == yaml.dependsOn[s]
           from == yaml.source[s]
<1>1. /\ list \in Seq(Ids)
      /\ from \in SUBSET Ids
      /\ \A j, k \in from : j = k
  BY DefinitionsAssumption DEF Definition
<1>2. Needs(Loaded, s) = Range(list) \cup from
  <2> DEFINE conds == {[step |-> d, match |-> Values] : d \in from}
  <2>1. {k.step : k \in conds} = from
    <3>1. \A k \in conds : k.step \in from
      OBVIOUS
    <3>2. \A d \in from : [step |-> d, match |-> Values] \in conds
      OBVIOUS
    <3>3. \A d : [step |-> d, match |-> Values].step = d
      OBVIOUS
    <3> HIDE DEF conds, from
    <3> QED BY <3>1, <3>2, <3>3
  <2> QED BY <2>1 DEF Needs, Loaded
<1> HIDE DEF list, from
<1>3. CASE from \subseteq Range(list)
  BY <1>1, <1>2, <1>3 DEF DepList, list, from
<1>4. CASE ~(from \subseteq Range(list))
  <2>1. PICK d \in from : TRUE
    BY <1>4
  <2>2. (CHOOSE e \in from : TRUE) = d /\ from = {d} /\ d \in Ids
    BY <1>1, <2>1
  <2>3. DepList(s) = Append(list, d)
    BY <1>4, <2>2 DEF DepList, list, from
  <2>4. /\ DepList(s) \in Seq(Ids)
        /\ Range(DepList(s)) = Range(list) \cup {d}
    BY <1>1, <2>2, <2>3, AppendRange
  <2> QED BY <1>2, <2>2, <2>4 DEF list, from
<1> QED BY <1>2, <1>3, <1>4 DEF list, from

-----------------------------------------------------------------------------
(* The invariant holds initially.                                           *)

LEMMA InvInit == Init => IInv
<1> SUFFICES ASSUME Init PROVE IInv
  OBVIOUS
<1> USE DEF Init
<1>1. /\ NumSteps + 1 \in Nat /\ 1 \in 1 .. NumSteps + 1
      /\ Unknown \in Ids
      /\ Steps \subseteq Nat \ {0}
  BY NumStepsAssumption, StepFacts DEF Ids
<1>2. /\ <<>> \in Seq(Steps) /\ Range(<<>>) = {} /\ DOMAIN <<>> = {}
  BY EmptySeq, LenProperties DEF Range
<1>3. TypeOK
  BY <1>1, <1>2 DEF TypeOK
<1>4. LoadInv
  BY DEF LoadInv
<1>5. EdgeInv
  <2>1. \A s \in Steps : Entered(s) = {}
    <3> SUFFICES ASSUME NEW s \in Steps PROVE Entered(s) = {}
      OBVIOUS
    <3>1. ~(s < cursor) /\ Counting
      BY <1>1 DEF Counting
    <3>2. \A i \in DOMAIN DepList(s) : ~(i < position)
      <4>1. DepList(s) \in Seq(Ids)
        BY DepListFacts
      <4>2. DOMAIN DepList(s) = 1 .. Len(DepList(s)) /\ Len(DepList(s)) \in Nat
        BY <4>1, LenProperties
      <4> QED BY <4>2
    <3> QED BY <3>1, <3>2 DEF Entered
  <2> QED BY <1>2, <2>1 DEF EdgeInv
<1>6. DegreeInv
  <2>1. Places = {}
    BY <1>2 DEF Places
  <2>2. \A s \in Steps : Pending(s) = {}
    BY <2>1 DEF Pending
  <2> QED BY <2>2, FS_EmptySet DEF DegreeInv
<1>7. QueueInv
  BY <1>2 DEF QueueInv, Distinct, Searched
<1>8. OrderInv /\ EndInv
  BY <1>2 DEF OrderInv, EndInv
<1> QED BY <1>3, <1>4, <1>5, <1>6, <1>7, <1>8 DEF IInv

-----------------------------------------------------------------------------
(* Steps.                                                                   *)

\* Where the search stands when it relaxes an edge.
LEMMA RelaxFacts ==
    ASSUME TypeOK, DegreeInv, QueueInv,
           pc = "relax", position <= Len(adjacency[node])
    PROVE  /\ node \in Steps /\ node \in Range(order)
           /\ position \in DOMAIN adjacency[node]
           /\ <<node, position>> \in Places
           /\ adjacency[node][position] \in Steps
           /\ <<node, position>> \in Pending(adjacency[node][position])
           /\ inDegree[adjacency[node][position]] \in Nat \ {0}
<1>1. node \in Range(order) /\ node \in Steps
  <2>1. node \in Range(order)
    BY DEF QueueInv
  <2>2. order \in Seq(Steps)
    BY DEF TypeOK
  <2> QED BY <2>1, <2>2, ElementOfSeq, LenProperties DEF Range
<1>2. position \in DOMAIN adjacency[node]
  <2>1. adjacency[node] \in Seq(Steps) /\ position \in Nat \ {0}
    BY <1>1 DEF TypeOK
  <2>2. DOMAIN adjacency[node] = 1 .. Len(adjacency[node]) /\ Len(adjacency[node]) \in Nat
    BY <2>1, LenProperties
  <2> QED BY <2>1, <2>2
<1>3. <<node, position>> \in Places
  BY <1>1, <1>2 DEF Places
<1> DEFINE s == adjacency[node][position]
<1>4. s \in Steps
  <2>1. adjacency[node] \in Seq(Steps)
    BY <1>1 DEF TypeOK
  <2> QED BY <1>2, <2>1, ElementOfSeq, LenProperties
<1>5. ~Walked(node, position)
  <2>1. ~(position < position)
    BY DEF TypeOK
  <2> QED BY <2>1 DEF Walked
<1>6. <<node, position>> \in Pending(s)
  BY <1>3, <1>5 DEF Pending
<1>7. inDegree[s] \in Nat \ {0}
  <2>1. IsFiniteSet(Pending(s)) /\ inDegree[s] = Cardinality(Pending(s))
    BY <1>4 DEF DegreeInv, Searched
  <2>2. Cardinality(Pending(s)) # 0
    BY <1>6, <2>1, FS_EmptySet
  <2>3. inDegree[s] \in Nat
    BY <1>4 DEF TypeOK
  <2> QED BY <2>1, <2>2, <2>3
<1> QED BY <1>1, <1>2, <1>3, <1>4, <1>6, <1>7

\* A pop takes the first step of the queue.
LEMMA PopFacts ==
    ASSUME TypeOK, QueueInv, Pop
    PROVE  /\ node' \in Steps /\ node' = Head(queue)
           /\ node' \in Range(queue) /\ node' \notin Range(order)
           /\ queue' \in Seq(Steps) /\ Range(queue') = Range(queue) \ {node'}
           /\ Distinct(queue')
           /\ order' = Append(order, node') /\ order' \in Seq(Steps)
           /\ Range(order') = Range(order) \cup {node'}
<1>1. /\ queue \in Seq(Steps) /\ order \in Seq(Steps)
      /\ queue # <<>> /\ Distinct(queue)
      /\ Range(queue) \cap Range(order) = {}
      /\ node' = Head(queue) /\ queue' = Tail(queue)
      /\ order' = Append(order, Head(queue))
  BY DEF TypeOK, QueueInv, Pop
<1>2. /\ Head(queue) \in Steps /\ Tail(queue) \in Seq(Steps)
      /\ Head(queue) \in Range(queue)
      /\ Range(Tail(queue)) = Range(queue) \ {Head(queue)}
      /\ Distinct(Tail(queue))
  BY <1>1, TailRange
<1>3. /\ Append(order, Head(queue)) \in Seq(Steps)
      /\ Range(Append(order, Head(queue))) = Range(order) \cup {Head(queue)}
  BY <1>1, <1>2, AppendRange
<1> QED BY <1>1, <1>2, <1>3

LEMMA TypeStep == IInv /\ [Next]_vars => TypeOK'
<1> SUFFICES ASSUME IInv, [Next]_vars PROVE TypeOK'
  OBVIOUS
<1>1. /\ TypeOK /\ QueueInv /\ DegreeInv
      /\ NumSteps \in Nat /\ Steps = 1 .. NumSteps
  BY NumStepsAssumption DEF IInv, Steps
<1>2. CASE UNCHANGED vars \/ Terminated
  BY <1>1, <1>2 DEF vars, Terminated, TypeOK
<1>3. CASE LoadFails \/ SchemaFails \/ SchemaPasses \/ UnknownDep \/ Seeded \/ Relaxed
  BY <1>1, <1>3
  DEF LoadFails, SchemaFails, SchemaPasses, UnknownDep, Seeded, Relaxed, TypeOK
<1>4. CASE AddEdge
  <2>1. /\ Dep \in Steps /\ cursor \in Steps /\ cursor <= NumSteps
        /\ adjacency' = [adjacency EXCEPT ![Dep] = Append(@, cursor)]
        /\ inDegree' = [inDegree EXCEPT ![cursor] = @ + 1]
        /\ position' = position + 1
        /\ UNCHANGED <<yaml, pc, cursor, queue, node, order>>
    BY <1>1, <1>4 DEF AddEdge, AtDep, TypeOK
  <2>2. Append(adjacency[Dep], cursor) \in Seq(Steps)
    BY <1>1, <2>1, AppendProperties DEF TypeOK
  <2>3. adjacency' \in [Steps -> Seq(Steps)]
    BY <1>1, <2>1, <2>2 DEF TypeOK
  <2>4. inDegree' \in [Steps -> Nat]
    <3>1. inDegree \in [Steps -> Nat]
      BY <1>1 DEF TypeOK
    <3>2. inDegree[cursor] + 1 \in Nat
      BY <2>1, <3>1
    <3> QED BY <2>1, <3>1, <3>2
  <2>5. position' \in Nat \ {0}
    BY <1>1, <2>1 DEF TypeOK
  <2> QED BY <1>1, <2>1, <2>3, <2>4, <2>5 DEF TypeOK
<1>5. CASE NextStep
  <2>1. cursor' \in 1 .. NumSteps + 1
    BY <1>1, <1>5 DEF NextStep, TypeOK
  <2> QED BY <1>1, <1>5, <2>1 DEF NextStep, TypeOK
<1>6. CASE Counted
  <2>1. 1 \in 1 .. NumSteps + 1
    BY <1>1
  <2> QED BY <1>1, <1>6, <2>1 DEF Counted, TypeOK
<1>7. CASE Seed
  <2>1. cursor' \in 1 .. NumSteps + 1 /\ cursor \in Steps
    BY <1>1, <1>7 DEF Seed, TypeOK
  <2>2. queue' \in Seq(Steps)
    BY <1>1, <1>7, <2>1, AppendProperties DEF Seed, TypeOK
  <2>3. /\ UNCHANGED <<yaml, pc, position, inDegree, adjacency, node, order>>
        /\ cursor' \in 1 .. NumSteps + 1
    BY <1>7, <2>1 DEF Seed
  <2>4. TypeOK
    BY <1>1
  <2> QED BY <2>2, <2>3, <2>4 DEF TypeOK
<1>8. CASE Pop
  <2>1. node' \in Ids /\ queue' \in Seq(Steps) /\ order' \in Seq(Steps)
    BY <1>1, <1>8, PopFacts DEF Ids
  <2>2. /\ pc' = "relax" /\ position' \in Nat \ {0}
        /\ UNCHANGED <<yaml, cursor, inDegree, adjacency>>
    BY <1>8 DEF Pop
  <2>3. TypeOK
    BY <1>1
  <2> QED BY <2>1, <2>2, <2>3 DEF TypeOK
<1>9. CASE Relax
  <2> DEFINE s == adjacency[node][position]
  <2>1. s \in Steps /\ inDegree[s] \in Nat \ {0}
    BY <1>1, <1>9, RelaxFacts DEF Relax
  <2>2. inDegree' = [inDegree EXCEPT ![s] = @ - 1] /\ inDegree \in [Steps -> Nat]
    BY <1>1, <1>9 DEF Relax, TypeOK
  <2>3. queue' = IF Released(s) THEN Append(queue, s) ELSE queue
    BY <1>9 DEF Relax
  <2> HIDE DEF s
  <2>4. inDegree' \in [Steps -> Nat]
    BY <2>1, <2>2
  <2>5. queue' \in Seq(Steps)
    BY <1>1, <2>1, <2>3, AppendProperties DEF TypeOK
  <2>6. position' \in Nat \ {0}
    BY <1>1, <1>9 DEF Relax, TypeOK
  <2> QED BY <1>1, <1>9, <2>4, <2>5, <2>6 DEF Relax, TypeOK
<1>10. CASE Decide
  BY <1>1, <1>10 DEF Decide, TypeOK
<1> QED
  BY <1>2, <1>3, <1>4, <1>5, <1>6, <1>7, <1>8, <1>9, <1>10 DEF Next, Work

\* The definition does not change, and neither does what is read of it.
LEMMA YamlStays ==
    ASSUME [Next]_vars
    PROVE  /\ yaml' = yaml
           /\ \A s \in Steps : DepList(s)' = DepList(s)
           /\ \A s \in Steps : Needs(Loaded, s)' = Needs(Loaded, s)
<1>1. yaml' = yaml
  BY DEF Next, Work, vars, Terminated, LoadFails, SchemaFails, SchemaPasses,
     UnknownDep, AddEdge, NextStep, Counted, Seed, Seeded, Pop, Relax, Relaxed, Decide
<1>2. ASSUME NEW s \in Steps PROVE DepList(s)' = DepList(s)
  BY <1>1 DEF DepList
<1>3. Loaded' = Loaded
  BY <1>1 DEF Loaded
<1>4. ASSUME NEW s \in Steps PROVE Needs(Loaded, s)' = Needs(Loaded, s)
  BY <1>3 DEF Needs
<1> QED BY <1>1, <1>2, <1>4

LEMMA LoadStep == IInv /\ [Next]_vars => LoadInv'
<1> SUFFICES ASSUME IInv, [Next]_vars PROVE LoadInv'
  OBVIOUS
<1>1. yaml' = yaml
  BY YamlStays
<1>2. SchemaHolds <=> SchemaHolds'
  BY <1>1 DEF SchemaHolds
<1>3. LoadInv
  BY DEF IInv
<1> QED
  BY <1>2, <1>3
  DEF LoadInv, Next, Work, vars, Terminated, LoadFails, SchemaFails, SchemaPasses,
      UnknownDep, AddEdge, NextStep, Counted, Seed, Seeded, Pop, Relax, Relaxed,
      Decide, AtDep

LEMMA EdgeStep == IInv /\ [Next]_vars => EdgeInv'
<1> SUFFICES ASSUME IInv, [Next]_vars PROVE EdgeInv'
  OBVIOUS
<1>1. TypeOK /\ EdgeInv /\ NumSteps \in Nat /\ Steps = 1 .. NumSteps
  BY NumStepsAssumption DEF IInv, Steps
<1>2. yaml' = yaml /\ \A s \in Steps : DepList(s)' = DepList(s)
  BY YamlStays
<1>3. \A s \in Steps : DepList(s) \in Seq(Ids)
  BY <1>1, DepListFacts DEF TypeOK
<1>4. ASSUME Counting \/ pc = "seed" \/ Searched, pc' # "load", adjacency' = adjacency,
             \A s \in Steps : Entered(s)' = Entered(s)
      PROVE  EdgeInv'
  BY <1>1, <1>4 DEF EdgeInv
<1>5. CASE UNCHANGED vars \/ Terminated
  <2>1. UNCHANGED vars
    BY <1>5 DEF Terminated
  <2>2. \A s \in Steps : Entered(s)' = Entered(s)
    BY <1>2, <2>1 DEF Entered, Counting, vars
  <2> QED BY <1>1, <2>1, <2>2 DEF EdgeInv, Counting, Searched, vars
<1>6. CASE LoadFails \/ SchemaFails \/ UnknownDep
  BY <1>6 DEF LoadFails, SchemaFails, UnknownDep, EdgeInv, Counting, Searched
<1>7. CASE SchemaPasses
  <2>1. \A s \in Steps : Entered(s)' = Entered(s)
    BY <1>2, <1>7 DEF SchemaPasses, Entered, Counting
  <2> QED BY <1>4, <1>7, <2>1 DEF SchemaPasses, Counting
<1>8. CASE AddEdge
  <2>1. /\ pc = "edges" /\ Dep \in Steps /\ cursor \in Steps
        /\ position \in DOMAIN DepList(cursor) /\ Dep = DepList(cursor)[position]
        /\ position \in Nat /\ position' = position + 1
        /\ adjacency' = [adjacency EXCEPT ![Dep] = Append(@, cursor)]
        /\ UNCHANGED <<pc, cursor>>
    <3>1. cursor \in Steps /\ position \in Nat \ {0}
      BY <1>1, <1>8 DEF AddEdge, AtDep, TypeOK
    <3>2. DOMAIN DepList(cursor) = 1 .. Len(DepList(cursor)) /\ Len(DepList(cursor)) \in Nat
      BY <1>3, <3>1, LenProperties
    <3>3. position \in DOMAIN DepList(cursor)
      BY <1>8, <3>1, <3>2 DEF AddEdge, AtDep
    <3> QED BY <1>8, <3>1, <3>3 DEF AddEdge, AtDep, Dep
  <2>2. ASSUME NEW s \in Steps, s # cursor PROVE Entered(s)' = Entered(s)
    BY <1>2, <2>1, <2>2 DEF Entered, Counting
  <2>3. ASSUME NEW s \in Steps, s = cursor PROVE Entered(s)' = Entered(s) \cup {Dep}
    <3>1. ~(s < cursor)
      BY <1>1, <2>3
    <3>2. /\ Counting
          /\ Entered(s) = {DepList(s)[i] : i \in {k \in DOMAIN DepList(s) : k < position}}
      BY <2>1, <2>3, <3>1 DEF Entered, Counting
    <3>3. Entered(s)' = {DepList(s)[i] :
                           i \in {k \in DOMAIN DepList(s) : k < position + 1}}
      BY <1>2, <2>1, <2>3, <3>1 DEF Entered, Counting
    <3>4. {k \in DOMAIN DepList(s) : k < position + 1} =
          {k \in DOMAIN DepList(s) : k < position} \cup {position}
      <4>1. DOMAIN DepList(s) \subseteq Nat
        BY <1>3, LenProperties
      <4>2. \A k \in Nat : k < position + 1 <=> k < position \/ k = position
        BY <2>1
      <4> QED BY <2>1, <2>3, <4>1, <4>2
    <3> QED BY <2>1, <2>3, <3>2, <3>3, <3>4
  <2>4. ASSUME NEW d \in Steps, NEW s \in Steps
        PROVE  s \in Range(adjacency'[d]) <=>
                   s \in Range(adjacency[d]) \/ (s = cursor /\ d = Dep)
    <3>1. adjacency[d] \in Seq(Steps)
      BY <1>1 DEF TypeOK
    <3>2. adjacency'[d] = IF d = Dep THEN Append(adjacency[d], cursor) ELSE adjacency[d]
      BY <1>1, <2>1 DEF TypeOK
    <3>3. Range(Append(adjacency[d], cursor)) = Range(adjacency[d]) \cup {cursor}
      BY <2>1, <3>1, AppendRange
    <3> QED BY <3>2, <3>3
  <2>5. \A s \in Steps :
            /\ Entered(s) \subseteq Steps
            /\ \A d \in Steps : s \in Range(adjacency[d]) <=> d \in Entered(s)
    BY <1>1, <2>1 DEF EdgeInv, Counting
  <2>6. ASSUME NEW s \in Steps
        PROVE  /\ Entered(s)' \subseteq Steps
               /\ \A d \in Steps : s \in Range(adjacency'[d]) <=> d \in Entered(s)'
    <3>1. Entered(s)' = IF s = cursor THEN Entered(s) \cup {Dep} ELSE Entered(s)
      BY <2>2, <2>3
    <3>2. /\ Entered(s) \subseteq Steps
          /\ \A d \in Steps : s \in Range(adjacency[d]) <=> d \in Entered(s)
      BY <2>5
    <3> QED BY <2>1, <2>4, <3>1, <3>2
  <2> QED BY <2>1, <2>6 DEF EdgeInv
<1>9. CASE NextStep
  <2>1. /\ pc = "edges" /\ cursor \in Steps /\ position > Len(DepList(cursor))
        /\ cursor' = cursor + 1 /\ position' = 1
        /\ UNCHANGED <<pc, adjacency>>
    BY <1>1, <1>9 DEF NextStep, TypeOK
  <2>2. ASSUME NEW s \in Steps PROVE Entered(s)' = Entered(s)
    <3> DEFINE D == DOMAIN DepList(s)
    <3>1. /\ D = 1 .. Len(DepList(s)) /\ Len(DepList(s)) \in Nat
          /\ position \in Nat /\ s \in Nat /\ cursor \in Nat
      BY <1>1, <1>3, <2>1, LenProperties DEF TypeOK
    <3>2. /\ \A k \in D : ~(k < 1)
          /\ s < cursor + 1 <=> s < cursor \/ s = cursor
          /\ s = cursor => \A k \in D : k < position
          /\ ~(cursor < cursor)
      BY <2>1, <3>1
    <3>3. Entered(s)' = IF s < cursor + 1 THEN Range(DepList(s)) ELSE {}
      BY <1>2, <2>1, <3>2 DEF Entered, Counting
    <3>4. CASE s = cursor
      BY <2>1, <3>2, <3>3, <3>4 DEF Entered, Counting, Range
    <3>5. CASE s # cursor
      BY <2>1, <3>2, <3>3, <3>5 DEF Entered, Counting
    <3> QED BY <3>4, <3>5
  <2> QED BY <1>4, <2>1, <2>2 DEF Counting
<1>10. CASE Counted
  <2>1. \A s \in Steps : s < cursor
    BY <1>1, <1>10 DEF Counted, TypeOK
  <2>2. \A s \in Steps : Entered(s)' = Entered(s)
    BY <1>2, <1>10, <2>1 DEF Counted, Entered, Counting
  <2> QED BY <1>4, <1>10, <2>2 DEF Counted, Counting
<1>11. CASE Seed \/ Seeded \/ Pop \/ Relax \/ Relaxed \/ Decide
  <2>1. /\ pc = "seed" \/ Searched
        /\ ~Counting /\ ~Counting' /\ adjacency' = adjacency
    BY <1>11 DEF Seed, Seeded, Pop, Relax, Relaxed, Decide, Counting, Searched
  <2>2. \A s \in Steps : Entered(s)' = Entered(s)
    BY <1>2, <2>1 DEF Entered
  <2> QED BY <1>4, <2>1, <2>2 DEF Counting
<1> QED
  BY <1>5, <1>6, <1>7, <1>8, <1>9, <1>10, <1>11 DEF Next, Work

\* The elements of Places.
LEMMA PlaceFacts ==
    ASSUME TypeOK
    PROVE  \A e : e \in Places <=>
               \E d \in Steps, k \in Nat \ {0} : e = <<d, k>> /\ k \in DOMAIN adjacency[d]
<1>1. \A d \in Steps : DOMAIN adjacency[d] \subseteq Nat \ {0}
  <2> SUFFICES ASSUME NEW d \in Steps PROVE DOMAIN adjacency[d] \subseteq Nat \ {0}
    OBVIOUS
  <2>1. adjacency[d] \in Seq(Steps)
    BY DEF TypeOK
  <2>2. DOMAIN adjacency[d] = 1 .. Len(adjacency[d]) /\ Len(adjacency[d]) \in Nat
    BY <2>1, LenProperties
  <2> QED BY <2>2
<1>2. \A e : e \in Places <=> \E d \in Steps : e \in {d} \X DOMAIN adjacency[d]
  BY DEF Places
<1> QED BY <1>1, <1>2

\* An in-degree stays right when the search moves but holds no step less back.
LEMMA PendingStays ==
    ASSUME DegreeInv, Counting \/ pc = "seed" \/ Searched,
           adjacency' = adjacency, inDegree' = inDegree,
           \A e \in Places : Walked(e[1], e[2])' <=> Walked(e[1], e[2])
    PROVE  DegreeInv'
<1>1. Places' = Places
  BY DEF Places
<1>2. ASSUME NEW s \in Steps PROVE Pending(s)' = Pending(s)
  BY <1>1 DEF Pending
<1> QED BY <1>2 DEF DegreeInv

LEMMA DegreeStep == IInv /\ [Next]_vars => DegreeInv'
<1> SUFFICES ASSUME IInv, [Next]_vars PROVE DegreeInv'
  OBVIOUS
<1>1. TypeOK /\ DegreeInv /\ QueueInv
  BY DEF IInv
<1>2. \A e \in Places : \E d \in Steps, k \in Nat \ {0} :
          e = <<d, k>> /\ e[1] = d /\ e[2] = k /\ k \in DOMAIN adjacency[d]
  BY <1>1, PlaceFacts
<1>3. CASE UNCHANGED vars \/ Terminated
  <2>1. UNCHANGED vars
    BY <1>3 DEF Terminated
  <2>2. \A s \in Steps : Pending(s)' = Pending(s)
    BY <2>1 DEF Pending, Places, Walked, vars
  <2> QED BY <1>1, <2>1, <2>2 DEF DegreeInv, Counting, Searched, vars
<1>4. CASE LoadFails \/ SchemaFails \/ UnknownDep
  BY <1>4 DEF LoadFails, SchemaFails, UnknownDep, DegreeInv, Counting, Searched
<1>5. CASE SchemaPasses \/ NextStep \/ Counted \/ Seed \/ Seeded
  <2>1. /\ Counting \/ pc = "seed"
        /\ pc' # "relax" /\ UNCHANGED <<inDegree, adjacency, order>>
    BY <1>5 DEF SchemaPasses, NextStep, Counted, Seed, Seeded, Counting
  <2>2. \A d, k : Walked(d, k)' <=> Walked(d, k)
    BY <2>1 DEF Walked, Counting
  <2> QED BY <1>1, <2>1, <2>2, PendingStays
<1>6. CASE Decide
  <2>1. /\ Searched /\ pc # "relax" /\ pc' # "relax"
        /\ UNCHANGED <<inDegree, adjacency, order>>
    BY <1>6 DEF Decide, Searched
  <2>2. \A d, k : Walked(d, k)' <=> Walked(d, k)
    BY <2>1 DEF Walked
  <2> QED BY <1>1, <2>1, <2>2, PendingStays
<1>7. CASE Relaxed
  <2>1. /\ Searched /\ pc = "relax" /\ pc' = "pop" /\ position > Len(adjacency[node])
        /\ UNCHANGED <<inDegree, adjacency, order>>
    BY <1>7 DEF Relaxed, Searched
  <2>2. ASSUME NEW e \in Places PROVE Walked(e[1], e[2])' <=> Walked(e[1], e[2])
    <3>1. PICK d \in Steps, k \in Nat \ {0} :
              e[1] = d /\ e[2] = k /\ k \in DOMAIN adjacency[d]
      BY <1>2
    <3>2. d = node => k < position
      <4>1. adjacency[d] \in Seq(Steps)
        BY <1>1 DEF TypeOK
      <4>2. DOMAIN adjacency[d] = 1 .. Len(adjacency[d]) /\ Len(adjacency[d]) \in Nat
        BY <4>1, LenProperties
      <4>3. position \in Nat
        BY <1>1 DEF TypeOK
      <4> QED BY <2>1, <3>1, <4>2, <4>3
    <3> QED BY <2>1, <3>1, <3>2 DEF Walked
  <2> QED BY <1>1, <2>1, <2>2, PendingStays
<1>8. CASE Pop
  <2>1. /\ Searched /\ pc = "pop" /\ pc' = "relax" /\ position' = 1
        /\ UNCHANGED <<inDegree, adjacency>>
    BY <1>8 DEF Pop, Searched
  <2>2. node' \notin Range(order) /\ Range(order') = Range(order) \cup {node'}
    BY <1>1, <1>8, PopFacts
  <2>3. ASSUME NEW e \in Places PROVE Walked(e[1], e[2])' <=> Walked(e[1], e[2])
    <3>1. PICK d \in Steps, k \in Nat \ {0} : e[1] = d /\ e[2] = k
      BY <1>2
    <3>2. ~(k < 1)
      BY <3>1
    <3> QED BY <2>1, <2>2, <3>1, <3>2 DEF Walked
  <2> QED BY <1>1, <2>1, <2>3, PendingStays
<1>9. CASE AddEdge
  <2> DEFINE new == <<Dep, Len(adjacency[Dep]) + 1>>
  <2>1. /\ pc = "edges" /\ pc' = pc /\ order = <<>> /\ order' = order
        /\ Dep \in Steps /\ cursor \in Steps
        /\ adjacency' = [adjacency EXCEPT ![Dep] = Append(@, cursor)]
        /\ inDegree' = [inDegree EXCEPT ![cursor] = @ + 1]
    BY <1>1, <1>9, NumStepsAssumption
    DEF AddEdge, AtDep, TypeOK, QueueInv, Searched, Steps
  <2>2. \A d, k : ~Walked(d, k) /\ ~Walked(d, k)'
    <3>1. Range(order) = {}
      BY <2>1, EmptySeq, LenProperties DEF Range
    <3> QED BY <2>1, <3>1 DEF Walked
  <2>3. ASSUME NEW d \in Steps
        PROVE  /\ DOMAIN adjacency'[d] =
                     IF d = Dep THEN DOMAIN adjacency[d] \cup {Len(adjacency[d]) + 1}
                     ELSE DOMAIN adjacency[d]
               /\ Len(adjacency[d]) + 1 \notin DOMAIN adjacency[d]
               /\ d = Dep => adjacency'[d][Len(adjacency[d]) + 1] = cursor
               /\ \A k \in DOMAIN adjacency[d] : adjacency'[d][k] = adjacency[d][k]
    <3>1. adjacency[d] \in Seq(Steps)
      BY <1>1 DEF TypeOK
    <3>2. adjacency'[d] = IF d = Dep THEN Append(adjacency[d], cursor) ELSE adjacency[d]
      BY <1>1, <2>1 DEF TypeOK
    <3>3. /\ DOMAIN Append(adjacency[d], cursor) =
                 DOMAIN adjacency[d] \cup {Len(adjacency[d]) + 1}
          /\ Len(adjacency[d]) + 1 \notin DOMAIN adjacency[d]
          /\ Append(adjacency[d], cursor)[Len(adjacency[d]) + 1] = cursor
          /\ \A k \in DOMAIN adjacency[d] :
                 Append(adjacency[d], cursor)[k] = adjacency[d][k]
      BY <2>1, <3>1, AppendRange
    <3> QED BY <3>2, <3>3
  <2>4. Places' = Places \cup {new} /\ new \notin Places
    <3>1. \A e : e \in Places' <=>
              \E d \in Steps : \E k \in DOMAIN adjacency'[d] : e = <<d, k>>
      BY DEF Places
    <3>2. \A e : e \in Places <=>
              \E d \in Steps : \E k \in DOMAIN adjacency[d] : e = <<d, k>>
      BY DEF Places
    <3>3. ASSUME NEW e \in Places' PROVE e \in Places \cup {new}
      <4>1. PICK d \in Steps : \E k \in DOMAIN adjacency'[d] : e = <<d, k>>
        BY <3>1, <3>3
      <4>2. PICK k \in DOMAIN adjacency'[d] : e = <<d, k>>
        BY <4>1
      <4>3. k \in DOMAIN adjacency[d] \/ (d = Dep /\ k = Len(adjacency[d]) + 1)
        BY <2>3, <4>2
      <4> QED BY <3>2, <4>2, <4>3
    <3>4. ASSUME NEW e \in Places PROVE e \in Places'
      <4>1. PICK d \in Steps : \E k \in DOMAIN adjacency[d] : e = <<d, k>>
        BY <3>2, <3>4
      <4>2. DOMAIN adjacency[d] \subseteq DOMAIN adjacency'[d]
        BY <2>3
      <4> QED BY <3>1, <4>1, <4>2
    <3>5. new \in Places'
      <4>1. Len(adjacency[Dep]) + 1 \in DOMAIN adjacency'[Dep]
        BY <2>1, <2>3
      <4> QED BY <2>1, <3>1, <4>1
    <3>6. new \notin Places
      <4>1. Len(adjacency[Dep]) + 1 \notin DOMAIN adjacency[Dep]
        BY <2>1, <2>3
      <4> QED BY <3>2, <4>1
    <3> HIDE DEF new
    <3> QED BY <3>3, <3>4, <3>5, <3>6
  <2>5. ASSUME NEW e \in Places
        PROVE  adjacency'[e[1]][e[2]] = adjacency[e[1]][e[2]]
    <3>1. PICK d \in Steps, k \in Nat \ {0} :
              e[1] = d /\ e[2] = k /\ k \in DOMAIN adjacency[d]
      BY <1>2
    <3> QED BY <2>3, <3>1
  <2>6. adjacency'[new[1]][new[2]] = cursor
    BY <2>1, <2>3
  <2> HIDE DEF new
  <2>7. ASSUME NEW s \in Steps
        PROVE  IsFiniteSet(Pending(s)') /\ inDegree'[s] = Cardinality(Pending(s)')
    <3>1. IsFiniteSet(Pending(s)) /\ inDegree[s] = Cardinality(Pending(s))
      BY <1>1, <2>1 DEF DegreeInv, Counting
    <3>2. Pending(s) = {e \in Places : adjacency[e[1]][e[2]] = s}
      BY <2>2 DEF Pending
    <3>3. Pending(s)' = {e \in Places' : adjacency'[e[1]][e[2]] = s}
      BY <2>2 DEF Pending
    <3>4. CASE s = cursor
      <4>1. Pending(s)' = Pending(s) \cup {new} /\ new \notin Pending(s)
        BY <2>4, <2>5, <2>6, <3>2, <3>3, <3>4
      <4>2. inDegree'[s] = inDegree[s] + 1
        BY <1>1, <2>1, <3>4 DEF TypeOK
      <4> QED BY <3>1, <4>1, <4>2, FS_AddElement
    <3>5. CASE s # cursor
      <4>1. Pending(s)' = Pending(s)
        BY <2>4, <2>5, <2>6, <3>2, <3>3, <3>5
      <4>2. inDegree'[s] = inDegree[s]
        BY <1>1, <2>1, <3>5 DEF TypeOK
      <4> QED BY <3>1, <4>1, <4>2
    <3> QED BY <3>4, <3>5
  <2> QED BY <2>7 DEF DegreeInv
<1>10. CASE Relax
  <2> DEFINE r == adjacency[node][position]
             gone == <<node, position>>
  <2>1. /\ pc = "relax" /\ pc' = pc /\ position' = position + 1
        /\ inDegree' = [inDegree EXCEPT ![r] = @ - 1]
        /\ UNCHANGED <<adjacency, node, order>>
    BY <1>10 DEF Relax
  <2>2. /\ node \in Range(order) /\ r \in Steps /\ inDegree[r] \in Nat \ {0}
        /\ gone \in Places /\ gone \in Pending(r)
    BY <1>1, <1>10, RelaxFacts DEF Relax
  <2>3. Places' = Places
    BY <2>1 DEF Places
  <2>4. \A e \in Places : Walked(e[1], e[2])' <=> Walked(e[1], e[2]) \/ e = gone
    <3> SUFFICES ASSUME NEW e \in Places
                 PROVE  Walked(e[1], e[2])' <=> Walked(e[1], e[2]) \/ e = gone
      OBVIOUS
    <3>1. PICK d \in Steps, k \in Nat \ {0} : e = <<d, k>> /\ e[1] = d /\ e[2] = k
      BY <1>2
    <3>2. position \in Nat /\ (k < position + 1 <=> k < position \/ k = position)
      BY <1>1, <3>1 DEF TypeOK
    <3> QED BY <2>1, <2>2, <3>1, <3>2 DEF Walked
  <2>5. adjacency[gone[1]][gone[2]] = r
    OBVIOUS
  <2> HIDE DEF r, gone
  <2>6. ASSUME NEW s \in Steps
        PROVE  IsFiniteSet(Pending(s)') /\ inDegree'[s] = Cardinality(Pending(s)')
    <3>1. IsFiniteSet(Pending(s)) /\ inDegree[s] = Cardinality(Pending(s))
      BY <1>1, <2>1 DEF DegreeInv, Searched
    <3>2. Pending(s)' = {e \in Places : /\ adjacency[e[1]][e[2]] = s
                                        /\ ~(Walked(e[1], e[2]) \/ e = gone)}
      BY <2>1, <2>3, <2>4 DEF Pending
    <3>3. CASE s = r
      <4>1. Pending(s)' = Pending(s) \ {gone} /\ gone \in Pending(s)
        BY <2>2, <3>2, <3>3 DEF Pending
      <4>2. inDegree'[s] = inDegree[s] - 1
        BY <1>1, <2>1, <3>3 DEF TypeOK
      <4> QED BY <3>1, <4>1, <4>2, FS_RemoveElement
    <3>4. CASE s # r
      <4>1. Pending(s)' = Pending(s)
        BY <2>5, <3>2, <3>4 DEF Pending
      <4>2. inDegree'[s] = inDegree[s]
        BY <1>1, <2>1, <2>2, <3>4 DEF TypeOK
      <4> QED BY <3>1, <4>1, <4>2
    <3> QED BY <3>3, <3>4
  <2> QED BY <2>6 DEF DegreeInv
<1> QED
  BY <1>3, <1>4, <1>5, <1>6, <1>7, <1>8, <1>9, <1>10 DEF Next, Work

\* A new element keeps a sequence free of repetitions.
LEMMA AppendDistinct ==
    ASSUME NEW S, NEW seq \in Seq(S), NEW x \in S, Distinct(seq), x \notin Range(seq)
    PROVE  Distinct(Append(seq, x))
<1>1. /\ DOMAIN Append(seq, x) = DOMAIN seq \cup {Len(seq) + 1}
      /\ \A i \in DOMAIN seq : Append(seq, x)[i] = seq[i]
      /\ Append(seq, x)[Len(seq) + 1] = x
  BY AppendRange
<1>2. \A i \in DOMAIN seq : seq[i] # x
  BY DEF Range
<1> QED BY <1>1, <1>2 DEF Distinct

LEMMA QueueStep == IInv /\ [Next]_vars => QueueInv'
<1> SUFFICES ASSUME IInv, [Next]_vars PROVE QueueInv'
  OBVIOUS
<1>1. TypeOK /\ DegreeInv /\ QueueInv /\ NumSteps \in Nat /\ Steps = 1 .. NumSteps
  BY NumStepsAssumption DEF IInv, Steps
<1>2. Distinct(<<>>) /\ Range(<<>>) = {}
  BY EmptySeq, LenProperties DEF Distinct, Range
<1>3. CASE UNCHANGED vars \/ Terminated
  BY <1>1, <1>3 DEF Terminated, vars, QueueInv, Counting, Searched
<1>4. CASE \/ LoadFails \/ SchemaFails \/ SchemaPasses
           \/ UnknownDep \/ AddEdge \/ NextStep
  <2>1. /\ pc \in {"load", "edges"} /\ queue' = queue /\ order' = order
        /\ pc' \in {"edges", "bad_yaml", "bad_schema", "unknown_step"}
    BY <1>4 DEF LoadFails, SchemaFails, SchemaPasses, UnknownDep, AddEdge, NextStep, AtDep
  <2>2. queue = <<>> /\ order = <<>>
    BY <1>1, <2>1 DEF QueueInv, Counting, Searched
  <2> QED BY <1>2, <2>1, <2>2 DEF QueueInv, Counting, Searched
<1>5. CASE Counted
  <2>1. /\ pc = "edges" /\ pc' = "seed" /\ cursor' = 1
        /\ queue' = queue /\ order' = order
    BY <1>5 DEF Counted
  <2>2. queue = <<>> /\ order = <<>>
    BY <1>1, <2>1 DEF QueueInv, Counting, Searched
  <2>3. \A s \in Steps : ~(s < cursor')
    BY <1>1, <2>1
  <2> QED BY <1>2, <2>1, <2>2, <2>3 DEF QueueInv, Counting, Searched
<1>6. CASE Seed
  <2>1. /\ pc = "seed" /\ pc' = "seed" /\ cursor' = cursor + 1 /\ cursor \in Steps
        /\ queue' = IF inDegree[cursor] = 0 THEN Append(queue, cursor) ELSE queue
        /\ inDegree' = inDegree /\ order' = order
    BY <1>1, <1>6 DEF Seed, TypeOK
  <2>2. /\ order = <<>> /\ Distinct(queue) /\ queue \in Seq(Steps)
        /\ Range(queue) = {s \in Steps : s < cursor /\ inDegree[s] = 0}
    BY <1>1, <2>1 DEF QueueInv, Searched, TypeOK
  <2>3. /\ \A s \in Steps : s < cursor + 1 <=> s < cursor \/ s = cursor
        /\ ~(cursor < cursor)
    BY <1>1, <2>1
  <2>4. Distinct(queue')
    BY <2>1, <2>2, <2>3, AppendDistinct
  <2>5. Range(queue') = Range(queue) \cup {s \in {cursor} : inDegree[s] = 0}
    <3>1. Range(Append(queue, cursor)) = Range(queue) \cup {cursor}
      BY <2>1, <2>2, AppendRange
    <3> QED BY <2>1, <3>1
  <2>6. Range(queue') = {s \in Steps : s < cursor + 1 /\ inDegree[s] = 0}
    BY <2>1, <2>2, <2>3, <2>5
  <2> QED BY <1>2, <2>1, <2>2, <2>4, <2>6 DEF QueueInv, Counting, Searched
<1>7. CASE Seeded
  <2>1. /\ pc = "seed" /\ pc' = "pop" /\ cursor > NumSteps
        /\ UNCHANGED <<cursor, inDegree, queue, order>>
    BY <1>7 DEF Seeded
  <2>2. \A s \in Steps : s < cursor
    BY <1>1, <2>1 DEF TypeOK
  <2>3. /\ order = <<>> /\ Distinct(queue)
        /\ Range(queue) = {s \in Steps : inDegree[s] = 0}
    BY <1>1, <2>1, <2>2 DEF QueueInv, Searched
  <2> QED BY <1>2, <2>1, <2>3 DEF QueueInv, Counting, Searched
<1>8. CASE Pop
  <2>1. /\ pc = "pop" /\ pc' = "relax" /\ inDegree' = inDegree
    BY <1>8 DEF Pop
  <2>2. /\ node' \in Steps /\ node' \in Range(queue) /\ node' \notin Range(order)
        /\ Range(queue') = Range(queue) \ {node'} /\ Distinct(queue')
        /\ order' = Append(order, node')
        /\ Range(order') = Range(order) \cup {node'}
    BY <1>1, <1>8, PopFacts
  <2>3. /\ Distinct(order) /\ order \in Seq(Steps)
        /\ Range(queue) \cap Range(order) = {}
        /\ Range(queue) \cup Range(order) = {s \in Steps : inDegree[s] = 0}
    BY <1>1, <2>1 DEF QueueInv, Searched, TypeOK
  <2>4. Distinct(order')
    BY <2>2, <2>3, AppendDistinct
  <2>5. /\ Range(queue') \cup Range(order') = Range(queue) \cup Range(order)
        /\ Range(queue') \cap Range(order') = {}
    BY <2>2, <2>3
  <2> QED BY <2>1, <2>2, <2>3, <2>4, <2>5 DEF QueueInv, Counting, Searched
<1>9. CASE Relax
  <2> DEFINE r == adjacency[node][position]
  <2>1. /\ pc = "relax" /\ pc' = pc
        /\ inDegree' = [inDegree EXCEPT ![r] = @ - 1]
        /\ queue' = IF inDegree[r] = 1 THEN Append(queue, r) ELSE queue
        /\ UNCHANGED <<node, order>>
    BY <1>9 DEF Relax, Released
  <2>2. r \in Steps /\ inDegree[r] \in Nat \ {0}
    BY <1>1, <1>9, RelaxFacts DEF Relax
  <2> HIDE DEF r
  <2>3. /\ Distinct(order) /\ Distinct(queue) /\ queue \in Seq(Steps)
        /\ inDegree \in [Steps -> Nat]
        /\ Range(queue) \cap Range(order) = {} /\ node \in Range(order)
        /\ Range(queue) \cup Range(order) = {s \in Steps : inDegree[s] = 0}
    BY <1>1, <2>1 DEF QueueInv, Searched, TypeOK
  <2>4. r \notin Range(queue) /\ r \notin Range(order)
    BY <2>2, <2>3
  <2>5. Distinct(queue')
    BY <2>1, <2>2, <2>3, <2>4, AppendDistinct
  <2>6. Range(queue') = Range(queue) \cup {s \in {r} : inDegree[s] = 1}
    <3>1. Range(Append(queue, r)) = Range(queue) \cup {r}
      BY <2>2, <2>3, AppendRange
    <3> QED BY <2>1, <3>1
  <2>7. \A s \in Steps : inDegree'[s] = 0 <=>
            inDegree[s] = 0 \/ (s = r /\ inDegree[s] = 1)
    <3>1. inDegree[r] - 1 = 0 <=> inDegree[r] = 1
      BY <2>2
    <3>2. \A s \in Steps : inDegree'[s] = IF s = r THEN inDegree[s] - 1 ELSE inDegree[s]
      BY <2>1, <2>3
    <3> QED BY <2>2, <3>1, <3>2
  <2>8. Range(queue') \cup Range(order) = {s \in Steps : inDegree'[s] = 0}
    BY <2>2, <2>3, <2>6, <2>7
  <2>9. Range(queue') \cap Range(order) = {}
    BY <2>3, <2>4, <2>6
  <2> QED BY <2>1, <2>3, <2>5, <2>8, <2>9 DEF QueueInv, Counting, Searched
<1>10. CASE Relaxed \/ Decide
  <2>1. /\ pc \in {"relax", "pop"} /\ pc' \in {"pop", "accepted", "cyclic"}
        /\ pc' # "pop" => queue = <<>>
        /\ UNCHANGED <<inDegree, queue, order>>
    BY <1>10 DEF Relaxed, Decide
  <2> QED BY <1>1, <2>1 DEF QueueInv, Counting, Searched
<1> QED
  BY <1>3, <1>4, <1>5, <1>6, <1>7, <1>8, <1>9, <1>10 DEF Next, Work

\* A step that nothing holds back needs steps only that were popped.
LEMMA FreeFacts ==
    ASSUME IInv, Searched, pc # "relax", NEW s \in Steps, inDegree[s] = 0
    PROVE  Needs(Loaded, s) \subseteq Range(order)
<1> SUFFICES ASSUME NEW d \in Needs(Loaded, s), d \notin Range(order) PROVE FALSE
  OBVIOUS
<1>1. Pending(s) = {}
  BY FS_EmptySet DEF IInv, DegreeInv
<1>2. /\ Entered(s) \subseteq Steps
      /\ \A x \in Steps : s \in Range(adjacency[x]) <=> x \in Entered(s)
  BY DEF IInv, EdgeInv
<1>3. d \in Entered(s)
  BY DepListFacts DEF IInv, TypeOK, Entered, Counting, Searched
<1>4. PICK k \in DOMAIN adjacency[d] : adjacency[d][k] = s
  BY <1>2, <1>3 DEF Range
<1>5. <<d, k>> \in Places
  BY <1>2, <1>3, <1>4 DEF Places
<1>6. ~Walked(d, k)
  BY DEF Walked
<1> QED BY <1>1, <1>4, <1>5, <1>6 DEF Pending

\* A step that something holds back needs a step that was not popped.
LEMMA HeldFacts ==
    ASSUME IInv, Searched, pc # "relax", NEW s \in Steps, inDegree[s] # 0
    PROVE  \E d \in Needs(Loaded, s) : d \in Steps /\ d \notin Range(order)
<1>1. Pending(s) # {}
  BY FS_EmptySet DEF IInv, DegreeInv
<1>2. PICK e \in Places : adjacency[e[1]][e[2]] = s /\ ~Walked(e[1], e[2])
  BY <1>1 DEF Pending
<1>3. PICK d \in Steps, k \in Nat \ {0} : e[1] = d /\ e[2] = k /\ k \in DOMAIN adjacency[d]
  BY <1>2, PlaceFacts DEF IInv
<1>4. s \in Range(adjacency[d]) /\ d \notin Range(order)
  BY <1>2, <1>3 DEF Range, Walked
<1>5. d \in Entered(s)
  BY <1>4 DEF IInv, EdgeInv
<1>6. d \in Needs(Loaded, s)
  BY <1>5, DepListFacts DEF IInv, TypeOK, Entered, Counting, Searched
<1> QED BY <1>4, <1>6

LEMMA OrderStep == IInv /\ [Next]_vars => OrderInv'
<1> SUFFICES ASSUME IInv, [Next]_vars PROVE OrderInv'
  OBVIOUS
<1>1. /\ TypeOK /\ QueueInv /\ OrderInv
      /\ order \in Seq(Steps)
      /\ DOMAIN order = 1 .. Len(order) /\ Len(order) \in Nat
  BY LenProperties DEF IInv, TypeOK
<1>2. OrderInv' <=> \A i \in DOMAIN order' : \A d \in Needs(Loaded, order'[i]) :
                        \E j \in 1 .. i - 1 : order'[j] = d
  <2>1. Loaded' = Loaded
    BY YamlStays DEF Loaded
  <2> QED BY <2>1 DEF OrderInv, Needs
<1>3. \A i \in DOMAIN order : order[i] \in Steps
  BY <1>1, ElementOfSeq
<1>4. CASE Pop
  <2>1. /\ node' \in Steps /\ node' \in Range(queue) /\ order' = Append(order, node')
    BY <1>1, <1>4, PopFacts
  <2>2. /\ DOMAIN order' = DOMAIN order \cup {Len(order) + 1}
        /\ \A i \in DOMAIN order : order'[i] = order[i]
        /\ order'[Len(order) + 1] = node'
    BY <1>1, <2>1, AppendRange
  <2>3. Needs(Loaded, node') \subseteq Range(order)
    <3>1. Searched /\ pc # "relax"
      BY <1>4 DEF Pop, Searched
    <3>2. inDegree[node'] = 0
      BY <1>1, <2>1, <3>1 DEF QueueInv
    <3> QED BY <2>1, <3>1, <3>2, FreeFacts
  <2>4. ASSUME NEW i \in DOMAIN order', NEW d \in Needs(Loaded, order'[i])
        PROVE  \E j \in 1 .. i - 1 : order'[j] = d
    <3>1. CASE i \in DOMAIN order
      <4>1. order'[i] = order[i] /\ order[i] \in Steps
        BY <1>3, <2>2, <3>1
      <4>2. d \in Needs(Loaded, order[i])
        BY <2>4, <4>1
      <4>3. PICK j \in 1 .. i - 1 : order[j] = d
        BY <1>1, <3>1, <4>2 DEF OrderInv
      <4>4. j \in DOMAIN order
        BY <1>1, <3>1
      <4> QED BY <2>2, <4>3, <4>4
    <3>2. CASE i = Len(order) + 1
      <4>1. d \in Needs(Loaded, node')
        BY <2>2, <2>4, <3>2
      <4>2. PICK j \in DOMAIN order : order[j] = d
        BY <2>3, <4>1 DEF Range
      <4>3. j \in 1 .. i - 1
        BY <1>1, <3>2
      <4> QED BY <2>2, <4>2, <4>3
    <3> QED BY <2>2, <3>1, <3>2
  <2> QED BY <1>2, <2>4
<1>5. CASE ~Pop
  <2>1. order' = order
    BY <1>5 DEF Next, Work, vars, Terminated, LoadFails, SchemaFails, SchemaPasses,
       UnknownDep, AddEdge, NextStep, Counted, Seed, Seeded, Relax, Relaxed, Decide
  <2> QED BY <1>1, <1>2, <2>1 DEF OrderInv
<1> QED BY <1>4, <1>5

LEMMA EndStep == IInv /\ [Next]_vars => EndInv'
<1> SUFFICES ASSUME IInv, [Next]_vars PROVE EndInv'
  OBVIOUS
<1>1. TypeOK /\ EndInv /\ Steps = 1 .. NumSteps
  BY DEF IInv, Steps
<1>2. AllKnown' <=> AllKnown
  BY YamlStays DEF AllKnown
<1>3. CASE UNCHANGED vars \/ Terminated
  BY <1>1, <1>2, <1>3 DEF Terminated, vars, EndInv
<1>4. CASE UnknownDep
  <2>1. /\ pc' = "unknown_step" /\ Dep \notin Steps /\ cursor \in Steps
        /\ position \in Nat \ {0} /\ position <= Len(DepList(cursor))
    BY <1>1, <1>4 DEF UnknownDep, AtDep, TypeOK
  <2>2. /\ DepList(cursor) \in Seq(Ids)
        /\ Range(DepList(cursor)) = Needs(Loaded, cursor)
    BY <1>1, <2>1, DepListFacts DEF TypeOK
  <2>3. DOMAIN DepList(cursor) = 1 .. Len(DepList(cursor)) /\ Len(DepList(cursor)) \in Nat
    BY <2>2, LenProperties
  <2>4. position \in DOMAIN DepList(cursor)
    BY <2>1, <2>3
  <2>5. Dep \in Needs(Loaded, cursor)
    BY <2>2, <2>4 DEF Dep, Range
  <2>6. ~AllKnown
    BY <2>1, <2>5 DEF AllKnown
  <2> QED BY <1>2, <2>1, <2>6 DEF EndInv
<1>5. CASE Decide
  BY <1>5 DEF Decide, EndInv
<1>6. CASE \/ LoadFails \/ SchemaFails \/ SchemaPasses \/ AddEdge \/ NextStep
           \/ Counted \/ Seed \/ Seeded \/ Pop \/ Relax \/ Relaxed
  <2>1. pc' \notin {"accepted", "cyclic", "unknown_step"}
    BY <1>6 DEF LoadFails, SchemaFails, SchemaPasses, AddEdge, NextStep, AtDep,
       Counted, Seed, Seeded, Pop, Relax, Relaxed
  <2> QED BY <2>1 DEF EndInv
<1> QED BY <1>3, <1>4, <1>5, <1>6 DEF Next, Work

LEMMA InvStep == IInv /\ [Next]_vars => IInv'
BY TypeStep, LoadStep, EdgeStep, DegreeStep, QueueStep, OrderStep, EndStep DEF IInv

THEOREM Invariant == Spec => []IInv
BY InvInit, InvStep, PTL DEF Spec

-----------------------------------------------------------------------------
(* The theorems.                                                            *)

\* The variables keep their shape; above all, an in-degree stays a natural
\* number, as every decrement has an entry of an adjacency list to its name.
THEOREM TypeCorrect == Spec => []TypeOK
<1>1. IInv => TypeOK
  BY DEF IInv
<1> QED BY <1>1, Invariant, PTL

\* The comparison of visited with len(steps) tells whether all were popped.
LEMMA AllPopped ==
    ASSUME TypeOK, QueueInv
    PROVE  Len(order) = NumSteps <=> Range(order) = Steps
<1>1. /\ order \in Seq(Steps) /\ Distinct(order)
      /\ DOMAIN order = 1 .. Len(order) /\ Len(order) \in Nat
  BY LenProperties DEF TypeOK, QueueInv
<1>2. order \in Injection(1 .. Len(order), Steps)
  <2>1. order \in [1 .. Len(order) -> Steps]
    BY <1>1, LenProperties
  <2> QED BY <1>1, <2>1 DEF Injection, IsInjective, Distinct
<1>3. /\ IsFiniteSet(Steps) /\ Cardinality(Steps) = NumSteps
      /\ Cardinality(1 .. Len(order)) = Len(order)
  <2>1. NumSteps \in Nat /\ Len(order) \in Nat
    BY <1>1, NumStepsAssumption
  <2>2. \A n \in Nat : /\ IsFiniteSet(1 .. n)
                       /\ Cardinality(1 .. n) = IF 1 > n THEN 0 ELSE n - 1 + 1
    BY FS_Interval
  <2> QED BY <2>1, <2>2 DEF Steps
<1>4. Cardinality(1 .. Len(order)) = Cardinality(Steps)
          <=> order \in Surjection(1 .. Len(order), Steps)
  BY <1>2, <1>3, FS_Injection
<1>5. order \in Surjection(1 .. Len(order), Steps) <=> Range(order) = Steps
  <2>1. order \in [1 .. Len(order) -> Steps]
    BY <1>1, LenProperties
  <2> QED BY <1>1, <2>1 DEF Surjection, Range
<1> QED BY <1>3, <1>4, <1>5

\* Every nonempty set of natural numbers has a least element.
LEMMA LeastElement ==
    ASSUME NEW T \in SUBSET Nat, T # {}
    PROVE  \E n \in T : \A m \in T : ~(m < n)
<1> DEFINE R == OpToRel(<, Nat)
<1>1. IsWellFoundedOn(R, Nat)
  BY NatLessThanWellFounded
<1>2. PICK n \in T : \A m \in T : ~(<<m, n>> \in R)
  <2> HIDE DEF R
  <2> QED BY <1>1, WFMin
<1>3. \A m \in T : m < n => <<m, n>> \in R
  BY DEF OpToRel
<1> QED BY <1>2, <1>3

\* Once the search has begun, every name that is needed is a step's.
LEMMA NamesKnown ==
    ASSUME IInv, Searched
    PROVE  /\ AllKnown
           /\ \A s, d \in Steps : s \in Range(adjacency[d]) <=> d \in Needs(Loaded, s)
<1>1. \A s \in Steps : Entered(s) = Needs(Loaded, s)
  BY DepListFacts DEF IInv, TypeOK, Entered, Counting, Searched
<1> QED BY <1>1 DEF IInv, EdgeInv, AllKnown

\* When the queue runs dry, the steps left are those the error names, and
\* each needs another of them.
LEMMA LeftFacts ==
    ASSUME IInv, pc = "cyclic"
    PROVE  /\ Remaining = Steps \ Range(order)
           /\ Remaining # {}
           /\ Stuck(Remaining)
<1>1. Searched /\ pc # "relax" /\ TypeOK /\ QueueInv /\ EndInv
  BY DEF Searched, IInv
<1>2. Range(order) = {s \in Steps : inDegree[s] = 0}
  <2>1. queue = <<>> /\ Range(queue) = {}
    BY <1>1, EmptySeq, LenProperties DEF QueueInv, Range
  <2> QED BY <1>1, <2>1 DEF QueueInv
<1>3. \A s \in Steps : inDegree[s] \in Nat /\ (inDegree[s] > 0 <=> inDegree[s] # 0)
  <2>1. \A s \in Steps : inDegree[s] \in Nat
    BY <1>1 DEF TypeOK
  <2> QED BY <2>1
<1>4. Remaining = Steps \ Range(order)
  BY <1>2, <1>3 DEF Remaining
<1>5. Remaining # {}
  BY <1>1, <1>2, <1>4, AllPopped DEF EndInv
<1>6. ASSUME NEW s \in Remaining PROVE Needs(Loaded, s) \cap Remaining # {}
  <2>1. s \in Steps /\ inDegree[s] # 0
    BY <1>2, <1>4
  <2>2. \E d \in Needs(Loaded, s) : d \in Steps /\ d \notin Range(order)
    BY <1>1, <2>1, HeldFacts
  <2> QED BY <1>4, <2>2
<1> QED BY <1>4, <1>5, <1>6 DEF Stuck

\* When all steps were popped, the places they were popped at rank them.
LEMMA OrderRanks ==
    ASSUME IInv, pc = "accepted"
    PROVE  Acyclic(Loaded)
<1>1. /\ TypeOK /\ QueueInv /\ OrderInv /\ Searched
      /\ Len(order) = NumSteps
  BY DEF IInv, EndInv, Searched
<1>2. /\ Range(order) = Steps /\ DOMAIN order = Steps /\ Distinct(order)
  BY <1>1, AllPopped, LenProperties DEF TypeOK, QueueInv, Steps
<1> DEFINE rank == [s \in Steps |-> CHOOSE i \in Steps : order[i] = s]
<1>3. \A s \in Steps : rank[s] \in Steps /\ order[rank[s]] = s
  BY <1>2 DEF Range
<1>4. rank \in [Steps -> Steps]
  BY <1>3
<1> HIDE DEF rank
<1>5. ASSUME NEW s \in Steps, NEW d \in Needs(Loaded, s) PROVE rank[d] < rank[s]
  <2>1. d \in Steps
    BY <1>1, NamesKnown DEF AllKnown
  <2>2. PICK j \in 1 .. rank[s] - 1 : order[j] = d
    BY <1>1, <1>2, <1>3 DEF OrderInv
  <2>3. rank[s] \in Nat /\ rank[s] <= NumSteps /\ NumSteps \in Nat
    BY <1>3, NumStepsAssumption DEF Steps
  <2>4. j \in Steps /\ j < rank[s]
    BY <2>2, <2>3 DEF Steps
  <2>5. rank[d] = j
    BY <1>2, <1>3, <2>1, <2>2, <2>4 DEF Distinct
  <2> QED BY <2>4, <2>5
<1> QED BY <1>4, <1>5 DEF Acyclic

\* Where steps can be ranked, no set of them is stuck.
LEMMA AcyclicFree ==
    ASSUME Acyclic(Loaded), NEW S \in SUBSET Steps, S # {}
    PROVE  ~Stuck(S)
<1>1. PICK rank \in [Steps -> Steps] :
          \A s \in Steps : \A d \in Needs(Loaded, s) : rank[d] < rank[s]
  BY DEF Acyclic
<1> DEFINE T == {rank[s] : s \in S}
<1>2. T \in SUBSET Nat /\ T # {}
  BY StepFacts
<1>3. PICK n \in T : \A m \in T : ~(m < n)
  <2> HIDE DEF T
  <2> QED BY <1>2, LeastElement
<1>4. PICK s \in S : rank[s] = n
  OBVIOUS
<1>5. \A d \in Needs(Loaded, s) : d \notin S
  BY <1>1, <1>3, <1>4
<1> QED BY <1>4, <1>5 DEF Stuck

\* The verdict of the search is right for every definition, with duplicated
\* dependencies and condition sources.
THEOREM VerdictCorrectHolds == Spec => []VerdictCorrect
<1>1. ASSUME IInv, pc = "accepted"
      PROVE  AllKnown /\ Acyclic(Loaded) /\ yaml.ids = [s \in Steps |-> s]
  <2>1. AllKnown /\ Acyclic(Loaded)
    BY <1>1, NamesKnown, OrderRanks DEF Searched
  <2>2. yaml \in Definitions /\ SchemaHolds
    BY <1>1 DEF IInv, TypeOK, LoadInv
  <2>3. \A p, q \in Steps : p < q \/ q < p \/ p = q
    BY NumStepsAssumption DEF Steps
  <2>4. \A p, q \in Steps : yaml.ids[p] = yaml.ids[q] => p = q
    BY <2>2, <2>3 DEF SchemaHolds
  <2>5. yaml.ids = [s \in Steps |-> s]
    BY <2>2, <2>4, DefinitionsAssumption
  <2> QED BY <2>1, <2>5
<1>2. ASSUME IInv, pc = "cyclic" PROVE AllKnown /\ ~Acyclic(Loaded)
  <2>1. AllKnown
    BY <1>2, NamesKnown DEF Searched
  <2>2. Remaining \in SUBSET Steps /\ Remaining # {} /\ Stuck(Remaining)
    BY <1>2, LeftFacts
  <2> QED BY <2>1, <2>2, AcyclicFree
<1>3. IInv => VerdictCorrect
  BY <1>1, <1>2 DEF IInv, EndInv, VerdictCorrect
<1> QED BY <1>3, Invariant, PTL

\* The steps are popped in a topological order, each at most once.
LEMMA PopsInOrderFollows == IInv => PopsInOrder
BY DEF IInv, QueueInv, OrderInv, Distinct, PopsInOrder

\* The error of a cycle names the largest stuck set: no step of a stuck set
\* can be the first of it that is popped.
LEMMA RemainingExactFollows == IInv => RemainingExact
<1> SUFFICES ASSUME IInv, pc = "cyclic"
             PROVE  Remaining = UNION {S \in SUBSET Steps : Stuck(S)}
  BY DEF RemainingExact
<1>1. Remaining \in SUBSET Steps /\ Stuck(Remaining) /\ Remaining = Steps \ Range(order)
  BY LeftFacts
<1>2. ASSUME NEW S \in SUBSET Steps, Stuck(S), NEW s \in S PROVE s \notin Range(order)
  <2> SUFFICES ASSUME s \in Range(order) PROVE FALSE
    OBVIOUS
  <2> DEFINE T == {i \in DOMAIN order : order[i] \in S}
  <2>1. DOMAIN order = 1 .. Len(order) /\ Len(order) \in Nat
    BY LenProperties DEF IInv, TypeOK
  <2>2. T \in SUBSET Nat /\ T # {}
    BY <2>1 DEF Range
  <2>3. PICK n \in T : \A m \in T : ~(m < n)
    <3> HIDE DEF T
    <3> QED BY <2>2, LeastElement
  <2>4. PICK d \in Needs(Loaded, order[n]) : d \in S
    BY <1>2, <2>3 DEF Stuck
  <2>5. PICK j \in 1 .. n - 1 : order[j] = d
    BY <2>3, <2>4 DEF IInv, OrderInv
  <2>6. j \in DOMAIN order /\ j < n
    BY <2>1, <2>3
  <2> QED BY <2>3, <2>4, <2>5, <2>6
<1> QED BY <1>1, <1>2

\* The edges of the graph that is shown.
LEMMA DagEdges ==
    ASSUME yaml \in Definitions
    PROVE  /\ \A e \in BuildDag.edges : e.to \in Steps /\ e.from \in Needs(Loaded, e.to)
           /\ \A e \in BuildDag.edges :
                 e.type = "conditional" => e.from \in yaml.source[e.to]
           /\ \A s \in Steps : \A d \in Needs(Loaded, s) :
                 \E e \in BuildDag.edges : e.from = d /\ e.to = s
           /\ \A s \in Steps : \A d \in yaml.source[s] :
                 \E e \in BuildDag.edges : e.to = s /\ e.type = "conditional"
<1>1. \A s \in Steps : Needs(Loaded, s) = Range(yaml.dependsOn[s]) \cup yaml.source[s]
  BY DepListFacts
<1>2. BuildDag.edges = UNION {EdgesOf(s) : s \in Steps}
  BY DEF BuildDag
<1>3. ASSUME NEW s \in Steps, NEW e \in EdgesOf(s)
      PROVE  /\ e.to = s /\ e.from \in Needs(Loaded, s)
             /\ e.type = "conditional" => e.from \in yaml.source[s]
  BY <1>1 DEF EdgesOf
<1>4. ASSUME NEW s \in Steps, NEW d \in Range(yaml.dependsOn[s])
      PROVE  \E e \in EdgesOf(s) : e.from = d /\ e.to = s
  <2>1. [from |-> d, to |-> s, type |-> "dependency"] \in EdgesOf(s)
    BY DEF EdgesOf
  <2> QED BY <2>1
<1>5. ASSUME NEW s \in Steps, NEW d \in yaml.source[s]
      PROVE  \E e \in EdgesOf(s) : e.from = d /\ e.to = s /\ e.type = "conditional"
  <2>1. [from |-> d, to |-> s, type |-> "conditional"] \in EdgesOf(s)
    BY DEF EdgesOf
  <2> QED BY <2>1
<1> QED BY <1>1, <1>2, <1>3, <1>4, <1>5

\* The graph that is shown is the graph that was searched.
LEMMA DagAsSearchedFollows == IInv => DagAsSearched
<1> SUFFICES ASSUME IInv, pc = "accepted" PROVE DagAsSearched
  BY DEF DagAsSearched
<1> DEFINE E == BuildDag.edges
<1>1. TypeOK /\ Searched /\ yaml \in Definitions
  BY DEF IInv, TypeOK, Searched
<1>2. /\ \A e \in E : e.to \in Steps /\ e.from \in Needs(Loaded, e.to)
      /\ \A e \in E : e.type = "conditional" => e.from \in yaml.source[e.to]
      /\ \A s \in Steps : \A d \in Needs(Loaded, s) : \E e \in E : e.from = d /\ e.to = s
      /\ \A s \in Steps : \A d \in yaml.source[s] :
             \E e \in E : e.to = s /\ e.type = "conditional"
  BY <1>1, DagEdges
<1>3. BuildDag.nodes = Nodes
  BY DEF BuildDag
<1> HIDE DEF E
<1>4. /\ \A s \in Steps : Needs(Loaded, s) \subseteq Steps
      /\ \A s, d \in Steps : s \in Range(adjacency[d]) <=> d \in Needs(Loaded, s)
  BY <1>1, NamesKnown DEF AllKnown
<1>5. {<<e.from, e.to>> : e \in E} =
          {e \in Steps \X Steps : e[2] \in Range(adjacency[e[1]])}
  <2>1. ASSUME NEW e \in E
        PROVE  <<e.from, e.to>> \in {x \in Steps \X Steps : x[2] \in Range(adjacency[x[1]])}
    BY <1>2, <1>4
  <2>2. ASSUME NEW d \in Steps, NEW s \in Steps, s \in Range(adjacency[d])
        PROVE  \E e \in E : <<d, s>> = <<e.from, e.to>>
    BY <1>2, <1>4, <2>2
  <2> QED BY <2>1, <2>2
<1>6. ASSUME NEW e \in E, NEW j \in DOMAIN order, NEW k \in DOMAIN order,
             order[j] = e.from, order[k] = e.to
      PROVE  j < k
  <2>1. DOMAIN order = 1 .. Len(order) /\ Len(order) \in Nat
    BY <1>1, LenProperties DEF TypeOK
  <2>2. PICK i \in 1 .. k - 1 : order[i] = e.from
    BY <1>2, <1>6 DEF IInv, OrderInv
  <2>3. i \in DOMAIN order /\ i < k
    BY <2>1
  <2>4. i = j
    BY <1>6, <2>2, <2>3 DEF IInv, QueueInv, Distinct
  <2> QED BY <2>3, <2>4
<1>7. ASSUME NEW n \in Nodes
      PROVE  n.conditional <=> \E e \in E : e.to = n.id /\ e.type = "conditional"
  <2>1. PICK s \in Steps : n.id = s /\ n.conditional = (yaml.source[s] # {})
    BY DEF Nodes
  <2> QED BY <1>2, <2>1
<1> QED BY <1>3, <1>5, <1>6, <1>7 DEF DagAsSearched, E

\* What callers learn of the search is what it did, for every definition.
THEOREM SearchSoundHolds == Spec => []SearchSound
<1>1. IInv => SearchSound
  BY PopsInOrderFollows, RemainingExactFollows, DagAsSearchedFollows DEF SearchSound
<1> QED BY <1>1, Invariant, PTL
=============================================================================
