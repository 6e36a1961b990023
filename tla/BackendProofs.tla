--------------------------- MODULE BackendProofs ---------------------------
(***************************************************************************)
(* Proofs about Backend, for every number of workers and runs, every       *)
(* revision the database starts at, every bound on outages, deaths and     *)
(* retries, and every interleaving of the processes.                       *)
(***************************************************************************)
EXTENDS Backend, Integers, TLAPS

-----------------------------------------------------------------------------
(* The inductive invariant.                                                 *)

Labels == {"off", "serving", "idle", "probe", "create", "version", "insert",
           "save", "events"}

\* A worker that is at work has a message, and one that comes to store the
\* events has stored the run.
TaskInv ==
    /\ pc \in [Processes -> Labels]
    /\ \A w \in Workers :
          /\ pc[w] # "idle" => task[w] \in Message
          /\ pc[w] = "events" /\ available[w] => task[w].run \in saved

\* A request in progress is served by the API that received it, and one that
\* comes to store the events has stored the run.
RequestsInv ==
    \A i \in Runs :
        /\ state[i] \in Stages \ {"new"} => pc[Api] = "serving"
        /\ state[i] = "saved" => i \in GetStorage(Api)

\* The two tables-and-column states of a database that has all tables.
Full(s) == s.tables = Models /\ s.versionHash

\* The only schemas there ever are: the one the database started with, that
\* one with create_all on top, and the one at the head of the migrations.
SchemaInv ==
    /\ schema \in Schemas
    /\ deployed = "base" => schema = Empty \/ Full(schema)
    /\ deployed = "0001" => schema.tables = RunTables \/ schema.tables = Models
    /\ deployed = "0002" => Full(schema)
    /\ schema.revision = "0002" => Full(schema)
    /\ upgrade = "done" => schema.revision = "0002"

\* What a probe was told is missing is what the deployment lacked; no step
\* makes some of the tables only.
ProbeInv ==
    /\ \A p \in Processes :
          /\ missing[p] \in {{}, Missing(AtRevision(deployed))}
          /\ pc[p] = "create" => Models \subseteq schema.tables \cup missing[p]
          /\ available[p] => Models \subseteq schema.tables
    /\ ~dbUp => outages > 0
    /\ outages = 0 /\ probeFailed # {} => Models \subseteq schema.tables

\* What the API has answered with, and what was done in the database.
StoreInv ==
    /\ pc[Api] # "serving" => known = {}
    /\ known \subseteq GetStorage(Api)
    /\ probeFailed = {} =>
          /\ pc[Api] = "serving" => available[Api]
          /\ \A w \in Workers :
                pc[w] \in {"version", "insert", "save", "events"} => available[w]
          /\ \A i \in Runs : state[i] = "done" => i \in saved \cap events

\* Each try of a sound task but the first had an outage of its own, or followed
\* the lost race for the version; one that has found the database needs
\* another outage to fail, and one that has missed the version in it has not
\* yet lost the race.
WorkerTries(w, i) ==
    pc[w] # "idle" /\ task[w].run = i /\ Sound(i) =>
        /\ pc[w] \in {"probe", "create"} => task[w].tries <= Failures(i)
        /\ pc[w] \in {"version", "save", "events"} /\ available[w] =>
              /\ task[w].tries <= Failures(i)
              /\ ~dbUp => task[w].tries < Failures(i)
        /\ pc[w] = "insert" =>
              /\ task[w].tries <= outages
              /\ ~dbUp => task[w].tries < outages

OutageForEachTry ==
    /\ \A m \in queue : Sound(m.run) => m.tries <= Failures(m.run)
    /\ \A w \in Workers, i \in Runs : WorkerTries(w, i)
    /\ \A i \in Runs :
          Sound(i) /\ state[i] = "given up" => Failures(i) > MaxRetries

\* Whoever has lost the race for a version finds it from then on.
OvertakenInv == \A i \in overtaken : definition[i] \in versions

OutageInv == OvertakenInv /\ (deployed # "0001" => OutageForEachTry)

IInv ==
    TypeOK /\ TaskInv /\ RequestsInv /\ SchemaInv /\ ProbeInv /\ StoreInv
    /\ OutageInv

-----------------------------------------------------------------------------
(* The schemas.                                                             *)

\* The tables of the two revisions.
LEMMA TableFacts ==
    /\ Models = RunTables \cup RuntimeTables /\ RunTables \cap RuntimeTables = {}
    /\ "workflow_runs" \in RunTables /\ "schedules" \in RuntimeTables
BY DEF Models, RunTables, RuntimeTables

\* A schema is its three components.
LEMMA SchemaEqual ==
    ASSUME NEW s \in Schemas, NEW t \in Schemas, s.tables = t.tables,
           s.versionHash = t.versionHash, s.revision = t.revision
    PROVE  s = t
BY DEF Schemas

\* What creating tables does.
LEMMA CreatedFacts ==
    ASSUME NEW s \in Schemas, NEW m \in SUBSET Models
    PROVE  /\ Created(s, m) \in Schemas
           /\ Created(s, m).tables = s.tables \cup m
           /\ Created(s, m).versionHash = (s.versionHash \/ "workflow_runs" \in m)
           /\ Created(s, m).revision = s.revision
BY DEF Created, Schemas

\* What the migrations do to a schema.
LEMMA UpgradeFacts ==
    ASSUME NEW s \in Schemas
    PROVE  /\ Upgrade0001(s) \in Schemas /\ Upgrade0002(s) \in Schemas
           /\ Upgrade0001(s).tables = s.tables \cup RunTables
           /\ Upgrade0001(s).versionHash = s.versionHash
           /\ Upgrade0001(s).revision = "0001"
           /\ Upgrade0002(s).tables = s.tables \cup RuntimeTables
           /\ Upgrade0002(s).versionHash = TRUE
           /\ Upgrade0002(s).revision = "0002"
           /\ Downgrade0002(s) \in Schemas /\ Downgrade0001(s) \in Schemas
           /\ Downgrade0002(s).tables = s.tables \ RuntimeTables
           /\ Downgrade0002(s).versionHash = FALSE
           /\ Downgrade0002(s).revision = "0001"
           /\ Downgrade0001(s).tables = s.tables \ RunTables
           /\ Downgrade0001(s).versionHash = s.versionHash
           /\ Downgrade0001(s).revision = "base"
BY TableFacts
DEF Upgrade0001, Upgrade0002, Downgrade0001, Downgrade0002, Schemas

\* A migration that succeeds ends with every table, and started from none, or
\* from those of revision 0001, or was not needed.
LEMMA UpgradedFacts ==
    ASSUME NEW s \in Schemas, CanUpgrade(s),
           s.revision = "0001" => RunTables \subseteq s.tables
    PROVE  /\ Upgraded(s) \in Schemas /\ Upgraded(s).revision = "0002"
           /\ s.revision = "0002" => Upgraded(s) = s
           /\ s.revision # "0002" => Full(Upgraded(s)) /\ ~s.versionHash
           /\ s.revision = "0001" =>
                 s.tables = RunTables /\ Upgraded(s) = Upgrade0002(s)
           /\ s.revision = "base" =>
                 s.tables = {} /\ Upgraded(s) = Upgrade0002(Upgrade0001(s))
<1>1. s.revision \in {"base", "0001", "0002"} /\ s.tables \subseteq Models
  BY DEF Schemas
<1>2. CASE s.revision = "base"
  <2>1. /\ Fits0001(s) /\ Fits0002(Upgrade0001(s))
        /\ Upgraded(s) = Upgrade0002(Upgrade0001(s))
    BY <1>2 DEF CanUpgrade, Upgraded
  <2>2. s.tables = {} /\ ~s.versionHash
    BY <1>1, <2>1, TableFacts, UpgradeFacts DEF Fits0001, Fits0002
  <2>3. /\ Upgrade0001(s) \in Schemas
        /\ Upgrade0001(s).tables = RunTables
    <3>1. /\ Upgrade0001(s) \in Schemas
          /\ Upgrade0001(s).tables = s.tables \cup RunTables
      BY UpgradeFacts
    <3>2. s.tables \cup RunTables = RunTables
      BY <2>2
    <3> QED BY <3>1, <3>2
  <2>4. /\ Upgrade0002(Upgrade0001(s)) \in Schemas
        /\ Upgrade0002(Upgrade0001(s)).tables = Models
        /\ Upgrade0002(Upgrade0001(s)).versionHash = TRUE
        /\ Upgrade0002(Upgrade0001(s)).revision = "0002"
    BY <2>3, UpgradeFacts, TableFacts
  <2> QED BY <1>2, <2>1, <2>2, <2>4 DEF Full
<1>3. CASE s.revision = "0001"
  <2>1. Fits0002(s) /\ Upgraded(s) = Upgrade0002(s)
    BY <1>3 DEF CanUpgrade, Upgraded
  <2>2. s.tables = RunTables /\ ~s.versionHash
    BY <1>1, <1>3, <2>1, TableFacts DEF Fits0002
  <2>3. /\ Upgrade0002(s) \in Schemas /\ Upgrade0002(s).tables = Models
        /\ Upgrade0002(s).versionHash = TRUE
        /\ Upgrade0002(s).revision = "0002"
    BY <2>2, UpgradeFacts, TableFacts
  <2> QED BY <1>3, <2>1, <2>2, <2>3 DEF Full
<1>4. CASE s.revision = "0002"
  BY <1>4 DEF Upgraded
<1> QED BY <1>1, <1>2, <1>3, <1>4

\* The schemas a deployment starts from.
LEMMA RevisionFacts ==
    /\ Empty \in Schemas /\ Empty.tables = {} /\ Empty.versionHash = FALSE
    /\ Empty.revision = "base"
    /\ AtRevision("base") = Empty
    /\ AtRevision("0001") = Upgrade0001(Empty)
    /\ AtRevision("0001") \in Schemas /\ AtRevision("0001").tables = RunTables
    /\ AtRevision("0001").revision = "0001"
    /\ AtRevision("0002") \in Schemas /\ Full(AtRevision("0002"))
    /\ AtRevision("0002").revision = "0002"
<1>1. /\ Empty \in Schemas /\ Empty.tables = {} /\ Empty.versionHash = FALSE
      /\ Empty.revision = "base"
  BY DEF Empty, Schemas
<1>2. /\ AtRevision("base") = Empty
      /\ AtRevision("0001") = Upgrade0001(Empty)
      /\ AtRevision("0002") = Upgraded(Empty)
  BY DEF AtRevision
<1>3. /\ Upgrade0001(Empty) \in Schemas /\ Upgrade0001(Empty).tables = RunTables
      /\ Upgrade0001(Empty).revision = "0001"
      /\ Upgrade0001(Empty).versionHash = FALSE
  <2>1. Empty.tables \cup RunTables = RunTables
    BY <1>1
  <2>2. /\ Upgrade0001(Empty) \in Schemas
        /\ Upgrade0001(Empty).tables = Empty.tables \cup RunTables
        /\ Upgrade0001(Empty).versionHash = Empty.versionHash
        /\ Upgrade0001(Empty).revision = "0001"
    BY <1>1, UpgradeFacts
  <2> QED BY <1>1, <2>1, <2>2
<1>4. CanUpgrade(Empty)
  BY <1>1, <1>3, TableFacts DEF CanUpgrade, Fits0001, Fits0002
<1>5. Upgraded(Empty) \in Schemas /\ Full(Upgraded(Empty))
      /\ Upgraded(Empty).revision = "0002"
  BY <1>1, <1>4, UpgradedFacts
<1> QED
  BY <1>1, <1>2, <1>3, <1>5

-----------------------------------------------------------------------------
(* The shape of the state.                                                  *)

\* A process goes where it is sent.
LEMMA GotoFacts ==
    ASSUME TaskInv, NEW p \in Processes, NEW l \in Labels, Goto(p, l)
    PROVE  /\ pc' \in [Processes -> Labels] /\ pc'[p] = l
           /\ \A q \in Processes : q # p => pc'[q] = pc[q]
BY DEF TaskInv, Goto

\* A run is saved in the database or in the memory of the process.
LEMMA SaveFacts ==
    ASSUME TypeOK, NEW p \in Processes, NEW i \in Runs, Save(p, i)
    PROVE  /\ saved' \subseteq Runs /\ saved \subseteq saved'
           /\ memory' \in [Processes -> SUBSET Runs]
           /\ \A q \in Processes : memory[q] \subseteq memory'[q]
           /\ available[p] => i \in saved'
           /\ ~available[p] => i \in memory'[p]
<1>1. CASE available[p]
  <2>1. saved' = saved \cup {i} /\ memory' = memory
    BY <1>1 DEF Save, SavesToDatabase
  <2> QED BY <1>1, <2>1 DEF TypeOK
<1>2. CASE ~available[p]
  <2>1. saved' = saved /\ memory' = [memory EXCEPT ![p] = @ \cup {i}]
    BY <1>2 DEF Save, SavesToDatabase
  <2> QED BY <1>2, <2>1 DEF TypeOK
<1> QED BY <1>1, <1>2

\* Whatever makes a task fail, it is retried.
LEMMA FailsFacts ==
    ASSUME NEW w \in Workers, TaskFails(w)
    PROVE  /\ pc[w] \in {"version", "insert", "save", "events"} /\ Retry(w)
           /\ overtaken' \subseteq overtaken \cup {task[w].run}
           /\ overtaken \subseteq overtaken'
BY DEF TaskFails, TransactionFails, InsertConflict, WorkflowRaises

\* The first states have the shape.
LEMMA ShapeInit == Init => TypeOK /\ TaskInv /\ RequestsInv
<1> SUFFICES ASSUME Init PROVE TypeOK /\ TaskInv /\ RequestsInv
  OBVIOUS
<1>1. deployed \in {"base", "0001", "0002"} /\ schema = AtRevision(deployed)
  BY DeploymentsAssumption DEF Init
<1>2. schema \in Schemas
  BY <1>1, RevisionFacts
<1>3. dbUp \in BOOLEAN
  BY Zenon DEF Init
<1>4. outages \in 0 .. MaxOutages + 1 /\ deaths \in 0 .. MaxDeaths
  BY BoundsAssumption, <1>3 DEF Init
<1>5. /\ Api \in Processes /\ \A w \in Workers : w \in Processes /\ w # Api
      /\ \A w \in Workers : pc[w] = "idle"
      /\ pc[Api] = "off" /\ pc \in [Processes -> Labels]
  BY ProcessesAssumption DEF Init, Processes, Labels
<1>6. available \in [Processes -> BOOLEAN]
  BY DEF Init
<1>7. /\ versions \subseteq Definitions
      /\ saved \subseteq Runs /\ events \subseteq saved
      /\ memory \in [Processes -> SUBSET Runs]
      /\ missing \in [Processes -> SUBSET Models]
      /\ task \in [Workers -> Message \cup {None}]
      /\ queue \subseteq Message
      /\ state \in [Runs -> States]
      /\ deployed \in Deployments
      /\ upgrade \in {"never", "done", "failed"}
      /\ probeFailed \subseteq Processes /\ known \subseteq Runs
      /\ overtaken \subseteq Runs
  BY DEF Init, States, Stages
<1>8. definition \in [Runs -> Definitions]
  BY DefinitionsAssumption DEF Init
<1>9. RequestsInv
  BY DEF Init, RequestsInv
<1> QED
  BY <1>2, <1>3, <1>4, <1>5, <1>6, <1>7, <1>8, <1>9 DEF TypeOK, TaskInv

\* Every step keeps it.
LEMMA ShapeStep ==
    TypeOK /\ TaskInv /\ RequestsInv /\ SchemaInv /\ [Next]_vars
    => TypeOK' /\ TaskInv'
<1> SUFFICES ASSUME TypeOK, TaskInv, RequestsInv, SchemaInv, [Next]_vars
             PROVE  TypeOK' /\ TaskInv'
  OBVIOUS
<1>1. /\ Api \in Processes /\ Api \notin Workers
      /\ \A w \in Workers : w \in Processes /\ w # Api
      /\ \A p \in Processes : p = Api \/ p \in Workers
  BY ProcessesAssumption DEF Processes
<1>2. MaxRetries \in Nat /\ MaxOutages \in Nat /\ MaxDeaths \in Nat
  BY BoundsAssumption
<1> USE DEF database, process, history
<1>3. CASE UNCHANGED vars
  BY <1>3 DEF vars, TypeOK, TaskInv
<1>4. CASE DatabaseDown \/ DatabaseUp
  <2>1. dbUp' \in BOOLEAN /\ outages' \in 0 .. MaxOutages + 1
    <3>1. dbUp' \in BOOLEAN
      BY <1>4, Zenon DEF DatabaseDown, DatabaseUp
    <3>2. outages' = outages \/ (outages < MaxOutages /\ outages' = outages + 1)
      BY <1>4 DEF DatabaseDown, DatabaseUp
    <3>3. outages \in 0 .. MaxOutages + 1
      BY DEF TypeOK
    <3> QED BY <1>2, <3>1, <3>2, <3>3
  <2>2. UNCHANGED <<database, process, queue, state, deployed, definition, deaths,
                    upgrade, probeFailed, known, overtaken>>
    BY <1>4 DEF DatabaseDown, DatabaseUp
  <2> QED BY <2>1, <2>2 DEF TypeOK, TaskInv
<1>5. CASE UpgradeHead
  <2>1. schema' \in Schemas
    <3>1. schema.revision = "0001" => RunTables \subseteq schema.tables
      BY DeploymentsAssumption, RevisionFacts, TableFacts DEF SchemaInv, TypeOK, Full
    <3> QED BY <1>5, <3>1, UpgradedFacts DEF UpgradeHead, TypeOK
  <2>2. upgrade' \in {"never", "done", "failed"}
    BY <1>5 DEF UpgradeHead
  <2>3. UNCHANGED <<dbUp, versions, saved, events, process, queue, state, history,
                    probeFailed, known, overtaken>>
    BY <1>5 DEF UpgradeHead
  <2> QED BY <2>1, <2>2, <2>3 DEF TypeOK, TaskInv
<1>6. ASSUME NEW p \in Processes, ProbeLook(p) PROVE TypeOK' /\ TaskInv'
  <2>1. missing' \in [Processes -> SUBSET Models]
    BY <1>6 DEF ProbeLook, Missing, TypeOK
  <2>2. pc' \in [Processes -> Labels] /\ pc'[p] = "create" /\ pc[p] = "probe"
        /\ \A q \in Processes : q # p => pc'[q] = pc[q]
    BY <1>6, GotoFacts DEF ProbeLook, Labels
  <2>3. UNCHANGED <<dbUp, database, available, memory, task, queue, state, history,
                    upgrade, probeFailed, known, overtaken>>
    BY <1>6 DEF ProbeLook
  <2> QED BY <1>1, <2>1, <2>2, <2>3 DEF TypeOK, TaskInv
<1>7. ASSUME NEW p \in Processes, ProbeCreate(p) \/ ProbeFails(p)
      PROVE  TypeOK' /\ TaskInv'
  <2>1. missing' \in [Processes -> SUBSET Models] /\ available' \in [Processes -> BOOLEAN]
    BY <1>7 DEF ProbeCreate, ProbeFails, TypeOK
  <2>2. schema' \in Schemas
    <3>1. schema \in Schemas /\ missing[p] \in SUBSET Models
      BY DEF TypeOK
    <3>2. schema' = schema \/ schema' = Created(schema, missing[p])
      BY <1>7 DEF ProbeCreate, ProbeFails
    <3> QED BY <3>1, <3>2, CreatedFacts
  <2>3. AfterProbe(p) \in Labels /\ AfterProbe(p) = IF p = Api THEN "serving" ELSE "version"
    BY DEF AfterProbe, Labels
  <2>4. pc' \in [Processes -> Labels] /\ pc'[p] = AfterProbe(p)
        /\ pc[p] \in {"probe", "create"}
        /\ \A q \in Processes : q # p => pc'[q] = pc[q]
    BY <1>7, <2>3, GotoFacts DEF ProbeCreate, ProbeFails
  <2>5. probeFailed' \subseteq Processes
    BY <1>7 DEF ProbeCreate, ProbeFails, TypeOK
  <2>6. \A q \in Processes : q # p => available'[q] = available[q]
    BY <1>7 DEF ProbeCreate, ProbeFails, TypeOK
  <2>7. UNCHANGED <<dbUp, versions, saved, events, memory, task, queue, state, history,
                    upgrade, known, overtaken>>
    BY <1>7 DEF ProbeCreate, ProbeFails
  <2> QED BY <1>1, <2>1, <2>2, <2>3, <2>4, <2>5, <2>6, <2>7 DEF TypeOK, TaskInv
<1>8. CASE ApiStart
  <2>1. pc' \in [Processes -> Labels] /\ pc'[Api] = "probe"
        /\ \A q \in Processes : q # Api => pc'[q] = pc[q]
    BY <1>1, <1>8, GotoFacts DEF ApiStart, Labels
  <2>2. UNCHANGED <<dbUp, database, available, memory, missing, task, queue, state,
                    history, upgrade, probeFailed, known, overtaken>>
    BY <1>8 DEF ApiStart
  <2> QED BY <1>1, <2>1, <2>2 DEF TypeOK, TaskInv
<1>9. ASSUME NEW i \in Runs,
             PutLook(i) \/ PutInsert(i) \/ Submit(i) \/ Refuse(i) \/ Poll(i)
      PROVE  TypeOK' /\ TaskInv'
  <2>1. state' \in [Runs -> States]
    BY <1>9 DEF PutLook, PutInsert, Submit, Refuse, Poll, Becomes, TypeOK, States, Stages
  <2>2. queue' \subseteq Message /\ known' \subseteq Runs
    <3>1. [run |-> i, tries |-> 0] \in Message
      BY <1>2 DEF Message
    <3> QED BY <1>9, <3>1 DEF PutLook, PutInsert, Submit, Refuse, Poll, TypeOK
  <2>3. versions' \subseteq Definitions
    BY <1>9 DEF PutLook, PutInsert, Submit, Refuse, Poll, TypeOK
  <2>4. UNCHANGED <<dbUp, schema, saved, events, process, history, upgrade,
                    probeFailed, overtaken>>
    BY <1>9 DEF PutLook, PutInsert, Submit, Refuse, Poll
  <2> QED BY <2>1, <2>2, <2>3, <2>4 DEF TypeOK, TaskInv
<1>10. ASSUME NEW i \in Runs, RunInline(i) \/ RunInlineEvents(i)
       PROVE  TypeOK' /\ TaskInv'
  <2>1. saved' \subseteq Runs /\ saved \subseteq saved'
        /\ memory' \in [Processes -> SUBSET Runs]
    BY <1>1, <1>10, SaveFacts DEF RunInline, RunInlineEvents, TypeOK
  <2>2. events' \subseteq saved'
    <3>1. CASE RunInline(i)
      BY <2>1, <3>1 DEF RunInline, TypeOK
    <3>2. CASE RunInlineEvents(i)
      <4>1. saved' = saved /\ state[i] = "saved"
        BY <3>2 DEF RunInlineEvents
      <4>2. available[Api] => i \in saved
        BY <4>1 DEF RequestsInv, GetStorage
      <4> QED BY <3>2, <4>1, <4>2 DEF RunInlineEvents, TypeOK
    <3> QED BY <1>10, <3>1, <3>2
  <2>3. state' \in [Runs -> States] /\ known' \subseteq Runs
    BY <1>10 DEF RunInline, RunInlineEvents, Becomes, TypeOK, States, Stages
  <2>4. UNCHANGED <<dbUp, schema, versions, available, pc, missing, task, queue,
                    history, upgrade, probeFailed, overtaken>>
    BY <1>10 DEF RunInline, RunInlineEvents
  <2> QED BY <2>1, <2>2, <2>3, <2>4 DEF TypeOK, TaskInv
<1>11. CASE ApiDies
  <2>1. pc' \in [Processes -> Labels] /\ pc'[Api] = "off"
        /\ \A q \in Processes : q # Api => pc'[q] = pc[q]
    BY <1>1, <1>11, GotoFacts DEF ApiDies, Labels
  <2>2. /\ available' \in [Processes -> BOOLEAN] /\ memory' \in [Processes -> SUBSET Runs]
        /\ missing' \in [Processes -> SUBSET Models]
        /\ deaths' \in 0 .. MaxDeaths
        /\ \A q \in Processes : q # Api => available'[q] = available[q]
    <3>1. available' = [available EXCEPT ![Api] = FALSE]
      BY <1>11 DEF ApiDies
    <3>2. available' \in [Processes -> BOOLEAN]
          /\ \A q \in Processes : q # Api => available'[q] = available[q]
      BY <3>1 DEF TypeOK
    <3>3. deaths' = deaths + 1 /\ deaths < MaxDeaths /\ deaths \in 0 .. MaxDeaths
      BY <1>11 DEF ApiDies, TypeOK
    <3>4. deaths' \in 0 .. MaxDeaths
      BY <1>2, <3>3
    <3> QED BY <1>11, <3>2, <3>4 DEF ApiDies, TypeOK
  <2>3. known' = {} /\ UNCHANGED <<dbUp, database, task, queue, deployed, definition,
                                   outages, upgrade, probeFailed, overtaken>>
    BY <1>11 DEF ApiDies
  <2>4. state' \in [Runs -> States]
    BY <1>11 DEF ApiDies, TypeOK, States
  <2> QED BY <1>1, <2>1, <2>2, <2>3, <2>4 DEF TypeOK, TaskInv
<1>12. ASSUME NEW w \in Workers, NEW m \in queue, Take(w, m) PROVE TypeOK' /\ TaskInv'
  <2>1. pc' \in [Processes -> Labels] /\ pc'[w] = "probe"
        /\ \A q \in Processes : q # w => pc'[q] = pc[q]
    BY <1>1, <1>12, GotoFacts DEF Take, Labels
  <2>2. m \in Message /\ task' = [task EXCEPT ![w] = m] /\ queue' \subseteq queue
    BY <1>12 DEF Take, TypeOK
  <2>3. UNCHANGED <<dbUp, database, available, memory, missing, state, history,
                    upgrade, probeFailed, known, overtaken>>
    BY <1>12 DEF Take
  <2> QED BY <1>1, <2>1, <2>2, <2>3 DEF TypeOK, TaskInv
<1>13. ASSUME NEW w \in Workers, TaskVersion(w) \/ TaskInsert(w)
       PROVE  TypeOK' /\ TaskInv'
  <2>1. /\ pc' \in [Processes -> Labels] /\ pc'[w] \in {"insert", "save"}
        /\ pc[w] \in {"version", "insert"}
        /\ \A q \in Processes : q # w => pc'[q] = pc[q]
    BY <1>1, <1>13, GotoFacts DEF TaskVersion, TaskInsert, Labels
  <2>2. UNCHANGED <<dbUp, schema, saved, events, available, memory, missing, task,
                    queue, state, history, upgrade, probeFailed, known, overtaken>>
    BY <1>13 DEF TaskVersion, TaskInsert
  <2>3. versions' \subseteq Definitions
    <3>1. task[w].run \in Runs
      BY <2>1 DEF TaskInv, Message
    <3>2. definition[task[w].run] \in Definitions
      BY <3>1 DEF TypeOK
    <3> QED BY <1>13, <3>2 DEF TaskVersion, TaskInsert, TypeOK
  <2> QED BY <1>1, <2>1, <2>2, <2>3 DEF TypeOK, TaskInv
<1>14. ASSUME NEW w \in Workers, TaskSave(w) PROVE TypeOK' /\ TaskInv'
  <2>1. pc' \in [Processes -> Labels] /\ pc'[w] = "events" /\ pc[w] = "save"
        /\ \A q \in Processes : q # w => pc'[q] = pc[q]
    BY <1>1, <1>14, GotoFacts DEF TaskSave, Labels
  <2>2. task[w] \in Message /\ task[w].run \in Runs
    BY <2>1 DEF TaskInv, Message
  <2>3. /\ saved' \subseteq Runs /\ saved \subseteq saved'
        /\ memory' \in [Processes -> SUBSET Runs]
        /\ available[w] => task[w].run \in saved'
    BY <1>1, <1>14, <2>2, SaveFacts DEF TaskSave
  <2>4. UNCHANGED <<dbUp, schema, versions, events, available, missing, task,
                    queue, state, history, upgrade, probeFailed, known, overtaken>>
    BY <1>14 DEF TaskSave
  <2>5. TypeOK'
    BY <1>1, <2>1, <2>3, <2>4 DEF TypeOK
  <2>6. TaskInv'
    BY <1>1, <2>1, <2>3, <2>4 DEF TaskInv
  <2> QED BY <2>5, <2>6
<1>15. ASSUME NEW w \in Workers, TaskEvents(w) PROVE TypeOK' /\ TaskInv'
  <2>1. pc' \in [Processes -> Labels] /\ pc'[w] = "idle" /\ pc[w] = "events"
        /\ \A q \in Processes : q # w => pc'[q] = pc[q]
    BY <1>1, <1>15, GotoFacts DEF TaskEvents, Labels
  <2>2. task[w] \in Message /\ task[w].run \in Runs
    BY <2>1 DEF TaskInv, Message
  <2>3. events' \subseteq saved
    BY <1>15, <2>1 DEF TaskEvents, TypeOK, TaskInv
  <2>4. state' \in [Runs -> States]
        /\ task' = [task EXCEPT ![w] = None]
    BY <1>15, <2>2 DEF TaskEvents, Becomes, TypeOK, States
  <2>5. UNCHANGED <<dbUp, schema, versions, saved, available, memory, missing, queue,
                    history, upgrade, probeFailed, known, overtaken>>
    BY <1>15 DEF TaskEvents
  <2> QED BY <1>1, <2>1, <2>3, <2>4, <2>5 DEF TypeOK, TaskInv
<1>16. ASSUME NEW w \in Workers, TaskFails(w) PROVE TypeOK' /\ TaskInv'
  <2>1. /\ pc[w] \in {"version", "insert", "save", "events"} /\ Retry(w)
        /\ overtaken' \subseteq overtaken \cup {task[w].run}
    BY <1>16, FailsFacts
  <2>2. task[w] \in Message /\ task[w].run \in Runs
    BY <2>1 DEF TaskInv, Message
  <2>3. pc' \in [Processes -> Labels] /\ pc'[w] = "idle"
        /\ \A q \in Processes : q # w => pc'[q] = pc[q]
    BY <1>1, <2>1, GotoFacts DEF Retry, Labels
  <2>4. [task[w] EXCEPT !.tries = IF @ < MaxRetries THEN @ + 1 ELSE @] \in Message
    BY <1>2, <2>2 DEF Message
  <2>5. queue' \subseteq Message
    BY <2>1, <2>4 DEF Retry, TypeOK
  <2>6. state' \in [Runs -> States]
    <3>1. \/ state' = state
          \/ state' = [state EXCEPT ![task[w].run] = "lost"]
          \/ state' = [state EXCEPT ![task[w].run] = "given up"]
      BY <2>1 DEF Retry, Becomes
    <3> QED BY <2>2, <3>1 DEF TypeOK, States
  <2>7. task' = [task EXCEPT ![w] = None]
        /\ UNCHANGED <<dbUp, database, available, memory, missing, history, upgrade,
                       probeFailed, known>>
    BY <2>1 DEF Retry
  <2> QED BY <1>1, <2>1, <2>2, <2>3, <2>5, <2>6, <2>7 DEF TypeOK, TaskInv
<1>17. ASSUME NEW w \in Workers, WorkerDies(w) PROVE TypeOK' /\ TaskInv'
  <2>1. pc' \in [Processes -> Labels] /\ pc'[w] = "idle"
        /\ \A q \in Processes : q # w => pc'[q] = pc[q]
    BY <1>1, <1>17, GotoFacts DEF WorkerDies, Labels
  <2>2. /\ available' \in [Processes -> BOOLEAN] /\ memory' \in [Processes -> SUBSET Runs]
        /\ missing' \in [Processes -> SUBSET Models]
        /\ deaths' \in 0 .. MaxDeaths
        /\ \A q \in Processes : q # w => available'[q] = available[q]
    <3>1. available' = [available EXCEPT ![w] = FALSE]
      BY <1>17 DEF WorkerDies
    <3>2. available' \in [Processes -> BOOLEAN]
          /\ \A q \in Processes : q # w => available'[q] = available[q]
      BY <3>1 DEF TypeOK
    <3>3. deaths' = deaths + 1 /\ deaths < MaxDeaths /\ deaths \in 0 .. MaxDeaths
      BY <1>17 DEF WorkerDies, TypeOK
    <3>4. deaths' \in 0 .. MaxDeaths
      BY <1>2, <3>3
    <3> QED BY <1>17, <3>2, <3>4 DEF WorkerDies, TypeOK
  <2>3. state' \in [Runs -> States]
    BY <1>17 DEF WorkerDies, TypeOK, States
  <2>4. task' = [task EXCEPT ![w] = None]
        /\ UNCHANGED <<dbUp, database, queue, deployed, definition, outages, upgrade,
                       probeFailed, known, overtaken>>
    BY <1>17 DEF WorkerDies
  <2> QED BY <1>1, <2>1, <2>2, <2>3, <2>4 DEF TypeOK, TaskInv
<1> QED
  BY <1>1, <1>3, <1>4, <1>5, <1>6, <1>7, <1>8, <1>9, <1>10, <1>11, <1>12, <1>13,
     <1>14, <1>15, <1>16, <1>17
  DEF Next, ApiStep, RequestStep, WorkerStep, Probe

\* Every step keeps the requests in progress with an API that serves them.
LEMMA RequestsStep ==
    TypeOK /\ TaskInv /\ RequestsInv /\ [Next]_vars => RequestsInv'
<1> SUFFICES ASSUME TypeOK, TaskInv, RequestsInv, [Next]_vars PROVE RequestsInv'
  OBVIOUS
<1>1. /\ Api \in Processes /\ Api \notin Workers
      /\ \A w \in Workers : w \in Processes /\ w # Api
      /\ \A p \in Processes : p = Api \/ p \in Workers
  BY ProcessesAssumption DEF Processes
<1>2. /\ pc \in [Processes -> Labels] /\ available \in [Processes -> BOOLEAN]
      /\ memory \in [Processes -> SUBSET Runs] /\ state \in [Runs -> States]
  BY DEF TypeOK, TaskInv
<1> USE DEF database, process, history
\* No request makes progress, and the API goes on with its store.
<1>3. ASSUME \A i \in Runs : state'[i] \in Stages \ {"new"} => state'[i] = state[i],
             pc'[Api] = pc[Api] \/ pc[Api] # "serving",
             GetStorage(Api) \subseteq GetStorage(Api)' \/ pc[Api] # "serving"
      PROVE  RequestsInv'
  BY <1>3 DEF RequestsInv, Stages
<1>4. ASSUME UNCHANGED <<pc, available, saved, memory>>
      PROVE  pc'[Api] = pc[Api] /\ GetStorage(Api)' = GetStorage(Api)
  BY <1>4 DEF GetStorage
<1>5. CASE UNCHANGED vars \/ DatabaseDown \/ DatabaseUp \/ UpgradeHead
  <2>1. UNCHANGED <<pc, available, saved, memory, state>>
    BY <1>5 DEF vars, DatabaseDown, DatabaseUp, UpgradeHead
  <2> QED BY <1>3, <1>4, <2>1
<1>6. ASSUME NEW p \in Processes, Probe(p) PROVE RequestsInv'
  <2>1. /\ pc[p] # "serving" /\ UNCHANGED <<saved, memory, state>>
        /\ \A q \in Processes : q # p => pc'[q] = pc[q] /\ available'[q] = available[q]
    BY <1>2, <1>6 DEF Probe, ProbeLook, ProbeCreate, ProbeFails, Goto
  <2>2. CASE p = Api
    BY <1>3, <2>1, <2>2
  <2>3. CASE p # Api
    BY <1>1, <1>3, <2>1, <2>3 DEF GetStorage
  <2> QED BY <2>2, <2>3
<1>7. CASE ApiStart
  <2>1. pc[Api] # "serving" /\ UNCHANGED state
    BY <1>7 DEF ApiStart
  <2> QED BY <1>3, <2>1
<1>8. CASE ApiDies
  <2>1. \A i \in Runs : state'[i] \notin Stages \ {"new"}
    BY <1>2, <1>8 DEF ApiDies, Stages
  <2> QED BY <2>1 DEF RequestsInv, Stages
<1>9. ASSUME NEW i \in Runs, RequestStep(i) \/ Poll(i) PROVE RequestsInv'
  <2>1. pc[Api] = "serving" /\ UNCHANGED <<pc, available>>
    BY <1>9 DEF RequestStep, PutLook, PutInsert, Submit, RunInline, RunInlineEvents,
       Refuse, Poll
  <2>2. GetStorage(Api) \subseteq GetStorage(Api)'
    <3>1. CASE RunInline(i)
      <4>1. saved \subseteq saved' /\ memory[Api] \subseteq memory'[Api]
        BY <1>1, <3>1, SaveFacts DEF RunInline
      <4> QED BY <2>1, <4>1 DEF GetStorage
    <3>2. CASE ~RunInline(i)
      <4>1. UNCHANGED <<saved, memory>>
        BY <1>9, <3>2 DEF RequestStep, PutLook, PutInsert, Submit, RunInlineEvents,
           Refuse, Poll
      <4> QED BY <2>1, <4>1 DEF GetStorage
    <3> QED BY <3>1, <3>2
  <2>3. \A j \in Runs : state'[j] = "saved" => state[j] = "saved" \/ RunInline(j)
    BY <1>2, <1>9 DEF RequestStep, PutLook, PutInsert, Submit, RunInline,
       RunInlineEvents, Refuse, Poll, Becomes
  <2>4. \A j \in Runs : RunInline(j) => j \in GetStorage(Api)'
    BY <1>1, <1>2, SaveFacts DEF RunInline, GetStorage
  <2> QED BY <2>1, <2>2, <2>3, <2>4 DEF RequestsInv
<1>10. ASSUME NEW w \in Workers, WorkerDies(w) \/ WorkerStep(w), ~Probe(w)
       PROVE  RequestsInv'
  <2>1. pc'[Api] = pc[Api] /\ available'[Api] = available[Api]
    <3>1. CASE WorkerDies(w)
      BY <1>1, <1>2, <3>1 DEF WorkerDies, Goto
    <3>2. CASE TaskFails(w)
      BY <1>1, <1>2, <3>2, FailsFacts DEF Retry, Goto
    <3>3. CASE ~WorkerDies(w) /\ ~TaskFails(w)
      BY <1>1, <1>2, <1>10, <3>3 DEF WorkerStep, Take, TaskVersion, TaskInsert, TaskSave,
         TaskEvents, Goto
    <3> QED BY <3>1, <3>2, <3>3
  <2>2. saved \subseteq saved' /\ memory[Api] \subseteq memory'[Api]
    <3>1. CASE WorkerDies(w)
      BY <1>1, <1>2, <3>1 DEF WorkerDies
    <3>2. CASE TaskSave(w)
      <4>1. pc[w] = "save" /\ task[w].run \in Runs
        BY <3>2 DEF TaskSave, TaskInv, Message
      <4> QED BY <1>1, <3>2, <4>1, SaveFacts DEF TaskSave
    <3>3. CASE TaskFails(w)
      BY <3>3, FailsFacts DEF Retry
    <3>4. CASE ~WorkerDies(w) /\ ~TaskSave(w) /\ ~TaskFails(w)
      BY <1>10, <3>4 DEF WorkerStep, Take, TaskVersion, TaskInsert, TaskEvents
    <3> QED BY <3>1, <3>2, <3>3, <3>4
  <2>3. \A i \in Runs : state'[i] \in Stages => state'[i] = state[i]
    <3>1. CASE TaskFails(w)
      BY <1>2, <3>1, FailsFacts DEF Retry, Becomes, Stages
    <3>2. CASE WorkerDies(w)
      BY <1>2, <3>2 DEF WorkerDies, Stages
    <3>3. CASE ~WorkerDies(w) /\ ~TaskFails(w)
      BY <1>2, <1>10, <3>3 DEF WorkerStep, Take, TaskVersion, TaskInsert, TaskSave,
         TaskEvents, Becomes, Stages
    <3> QED BY <3>1, <3>2, <3>3
  <2> QED BY <1>3, <2>1, <2>2, <2>3 DEF GetStorage
<1> QED
  BY <1>1, <1>5, <1>6, <1>7, <1>8, <1>9, <1>10 DEF Next, ApiStep

-----------------------------------------------------------------------------
(* The schema and the probes.                                               *)

\* What the deployment lacked, and what that makes of its tables.
LEMMA LackFacts ==
    ASSUME TypeOK, SchemaInv
    PROVE  /\ Missing(AtRevision(deployed)) \in SUBSET Models
           /\ deployed = "base" => Missing(AtRevision(deployed)) = Models
           /\ deployed = "0001" => Missing(AtRevision(deployed)) = RuntimeTables
           /\ deployed = "0002" => Missing(AtRevision(deployed)) = {}
           /\ \/ Missing(schema) = {}
              \/ /\ Missing(schema) = Missing(AtRevision(deployed))
                 /\ Missing(schema) \cap schema.tables = {}
           /\ Missing(AtRevision(deployed)) \cap schema.tables # {}
                 => Models \subseteq schema.tables
<1>1. deployed \in {"base", "0001", "0002"} /\ schema.tables \subseteq Models
  BY DeploymentsAssumption DEF TypeOK, Schemas
<1>2. CASE deployed = "base"
  BY <1>2, RevisionFacts DEF Missing, SchemaInv, Full
<1>3. CASE deployed = "0001"
  BY <1>3, RevisionFacts, TableFacts DEF Missing, SchemaInv, Full
<1>4. CASE deployed = "0002"
  BY <1>4, RevisionFacts DEF Missing, SchemaInv, Full
<1> QED BY <1>1, <1>2, <1>3, <1>4

\* A database that was not at revision 0001 is complete or as it was.
LEMMA FullUnless0001 ==
    ASSUME TypeOK, SchemaInv, deployed # "0001" \/ upgrade = "done",
           Models \subseteq schema.tables
    PROVE  Full(schema)
<1>1. deployed \in {"base", "0001", "0002"} /\ schema.tables \subseteq Models
  BY DeploymentsAssumption DEF TypeOK, Schemas
<1>2. Empty.tables # Models
  BY RevisionFacts, TableFacts
<1> QED BY <1>1, <1>2, RevisionFacts, TableFacts DEF SchemaInv

\* The revision an operator deployed first is only recorded, and what clients
\* ask for is theirs.
LEMMA DeployedStays == [Next]_vars => UNCHANGED <<deployed, definition>>
<1> USE DEF database, process, history
<1>1. CASE UNCHANGED vars
  BY <1>1 DEF vars
<1>2. CASE UpgradeHead \/ DatabaseDown \/ DatabaseUp \/ ApiStart \/ ApiDies
  BY <1>2 DEF UpgradeHead, DatabaseDown, DatabaseUp, ApiStart, ApiDies
<1>3. ASSUME NEW p \in Processes, Probe(p) PROVE UNCHANGED <<deployed, definition>>
  BY <1>3 DEF Probe, ProbeLook, ProbeCreate, ProbeFails
<1>4. ASSUME NEW i \in Runs, RequestStep(i) \/ Poll(i)
      PROVE  UNCHANGED <<deployed, definition>>
  BY <1>4 DEF RequestStep, PutLook, PutInsert, Submit, RunInline, RunInlineEvents,
     Refuse, Poll
<1>5. ASSUME NEW w \in Workers, NEW m \in queue, Take(w, m)
      PROVE  UNCHANGED <<deployed, definition>>
  BY <1>5 DEF Take
<1>6. ASSUME NEW w \in Workers,
             \/ TaskVersion(w) \/ TaskInsert(w) \/ TaskSave(w) \/ TaskEvents(w)
             \/ TaskFails(w) \/ WorkerDies(w)
      PROVE  UNCHANGED <<deployed, definition>>
  BY <1>6, FailsFacts DEF TaskVersion, TaskInsert, TaskSave, TaskEvents, Retry, WorkerDies
<1>7. /\ Api \in Processes
      /\ \A w \in Workers : w \in Processes
  BY DEF Processes
<1> QED BY <1>1, <1>2, <1>3, <1>4, <1>5, <1>6, <1>7 DEF Next, ApiStep, WorkerStep

\* Every step keeps what is known of the tables.
LEMMA SchemaStep ==
    TypeOK /\ TaskInv /\ RequestsInv /\ SchemaInv /\ ProbeInv /\ [Next]_vars
    => SchemaInv'
<1> SUFFICES ASSUME TypeOK, TaskInv, RequestsInv, SchemaInv, ProbeInv, [Next]_vars
             PROVE  SchemaInv'
  OBVIOUS
<1>1. schema' \in Schemas /\ schema \in Schemas
  BY ShapeStep DEF TypeOK
<1>2. deployed \in {"base", "0001", "0002"} /\ schema.tables \subseteq Models
  BY DeploymentsAssumption DEF TypeOK, Schemas
<1> USE DEF database, process, history
<1>3. CASE UNCHANGED <<schema, deployed, upgrade>>
  BY <1>3 DEF SchemaInv, Full
<1>4. CASE UpgradeHead
  <2>1. deployed' = deployed
    BY <1>4 DEF UpgradeHead
  <2>2. CASE CanUpgrade(schema)
    <3>1. schema' = Upgraded(schema) /\ upgrade' = "done"
      BY <1>4, <2>2 DEF UpgradeHead
    <3>2. schema.revision = "0001" => RunTables \subseteq schema.tables
      BY <1>2, RevisionFacts, TableFacts DEF SchemaInv, Full
    <3>3. schema'.revision = "0002"
      BY <1>1, <2>2, <3>1, <3>2, UpgradedFacts
    <3>4. Full(schema')
      <4>1. CASE schema.revision = "0002"
        BY <1>1, <2>2, <3>1, <3>2, <4>1, UpgradedFacts DEF SchemaInv
      <4>2. CASE schema.revision # "0002"
        BY <1>1, <2>2, <3>1, <3>2, <4>2, UpgradedFacts
      <4> QED BY <4>1, <4>2
    <3> QED BY <1>1, <3>3, <3>4 DEF SchemaInv, Full
  <2>3. CASE ~CanUpgrade(schema)
    <3>1. schema' = schema /\ upgrade' = "failed"
      BY <1>4, <2>3 DEF UpgradeHead
    <3> QED BY <2>1, <3>1 DEF SchemaInv, Full
  <2> QED BY <2>2, <2>3
<1>5. ASSUME NEW p \in Processes, ProbeCreate(p) PROVE SchemaInv'
  <2>1. /\ schema' = Created(schema, missing[p])
        /\ deployed' = deployed /\ upgrade' = upgrade
        /\ missing[p] \cap schema.tables = {}
        /\ pc[p] = "create"
    BY <1>5 DEF ProbeCreate
  <2>2. /\ missing[p] \in {{}, Missing(AtRevision(deployed))}
        /\ Models \subseteq schema.tables \cup missing[p]
        /\ missing[p] \in SUBSET Models
    BY <2>1, LackFacts DEF ProbeInv
  <2>3. /\ schema'.tables = schema.tables \cup missing[p]
        /\ schema'.versionHash = (schema.versionHash \/ "workflow_runs" \in missing[p])
        /\ schema'.revision = schema.revision
    BY <1>1, <2>1, <2>2, CreatedFacts
  <2>4. schema'.tables = Models
    BY <1>2, <2>2, <2>3
  <2>5. deployed = "base" => Full(schema')
    <3>1. CASE schema = Empty
      <4>1. "workflow_runs" \in missing[p]
        BY <2>2, <3>1, RevisionFacts, TableFacts
      <4> QED BY <1>1, <2>3, <2>4, <4>1 DEF Full
    <3>2. CASE Full(schema)
      BY <1>1, <2>3, <2>4, <3>2 DEF Full
    <3> QED BY <3>1, <3>2 DEF SchemaInv
  <2>6. Full(schema) => Full(schema')
    BY <1>1, <2>3, <2>4 DEF Full
  <2> QED BY <1>1, <2>1, <2>3, <2>4, <2>5, <2>6 DEF SchemaInv
<1>6. ASSUME NEW p \in Processes, ProbeLook(p) \/ ProbeFails(p)
      PROVE  UNCHANGED <<schema, deployed, upgrade>>
  BY <1>6 DEF ProbeLook, ProbeFails
<1>7. CASE DatabaseDown \/ DatabaseUp \/ ApiStart \/ ApiDies
  BY <1>3, <1>7 DEF DatabaseDown, DatabaseUp, ApiStart, ApiDies
<1>8. ASSUME NEW i \in Runs, RequestStep(i) \/ Poll(i)
      PROVE  UNCHANGED <<schema, deployed, upgrade>>
  BY <1>8 DEF RequestStep, PutLook, PutInsert, Submit, RunInline, RunInlineEvents,
     Refuse, Poll
<1>9. ASSUME NEW w \in Workers,
             \/ \E m \in queue : Take(w, m)
             \/ TaskVersion(w) \/ TaskInsert(w) \/ TaskSave(w) \/ TaskEvents(w)
             \/ TaskFails(w) \/ WorkerDies(w)
      PROVE  UNCHANGED <<schema, deployed, upgrade>>
  BY <1>9, FailsFacts DEF Take, TaskVersion, TaskInsert, TaskSave, TaskEvents, Retry,
     WorkerDies
<1>10. CASE UNCHANGED vars
  BY <1>3, <1>10 DEF vars
<1>11. Api \in Processes /\ \A w \in Workers : w \in Processes
  BY DEF Processes
<1> QED
  BY <1>3, <1>4, <1>5, <1>6, <1>7, <1>8, <1>9, <1>10, <1>11
  DEF Next, ApiStep, WorkerStep, Probe

\* Tables are never dropped once all are there.
LEMMA TablesStay ==
    ASSUME TypeOK, TaskInv, RequestsInv, SchemaInv, ProbeInv, [Next]_vars,
           Models \subseteq schema.tables
    PROVE  Models \subseteq schema'.tables /\ deployed' = deployed
<1> USE DEF database, process, history
<1>1. schema \in Schemas
  BY DEF TypeOK
<1>2. CASE UpgradeHead
  <2>1. schema.revision = "0001" => RunTables \subseteq schema.tables
    BY TableFacts
  <2>2. CanUpgrade(schema) => Models \subseteq Upgraded(schema).tables
    <3> SUFFICES ASSUME CanUpgrade(schema)
                 PROVE  Models \subseteq Upgraded(schema).tables
      OBVIOUS
    <3>1. CASE schema.revision = "0002"
      BY <1>1, <2>1, <3>1, UpgradedFacts
    <3>2. CASE schema.revision # "0002"
      BY <1>1, <2>1, <3>2, UpgradedFacts DEF Full
    <3> QED BY <3>1, <3>2
  <2> QED BY <1>2, <2>2 DEF UpgradeHead
<1>3. ASSUME NEW p \in Processes, ProbeCreate(p)
      PROVE  Models \subseteq schema'.tables /\ deployed' = deployed
  <2>1. schema' = Created(schema, missing[p]) /\ missing[p] \in SUBSET Models
        /\ deployed' = deployed
    BY <1>3 DEF ProbeCreate, TypeOK
  <2> QED BY <1>1, <2>1, CreatedFacts
<1>4. ASSUME NEW p \in Processes, Probe(p)
      PROVE  ProbeCreate(p) \/ UNCHANGED <<schema, deployed>>
  BY <1>4 DEF Probe, ProbeLook, ProbeFails
<1>5. ASSUME NEW i \in Runs, RequestStep(i) \/ Poll(i)
      PROVE  UNCHANGED <<schema, deployed>>
  BY <1>5 DEF RequestStep, PutLook, PutInsert, Submit, RunInline, RunInlineEvents,
     Refuse, Poll
<1>6. ASSUME NEW w \in Workers,
             \/ \E m \in queue : Take(w, m)
             \/ TaskVersion(w) \/ TaskInsert(w) \/ TaskSave(w) \/ TaskEvents(w)
             \/ TaskFails(w) \/ WorkerDies(w)
      PROVE  UNCHANGED <<schema, deployed>>
  BY <1>6, FailsFacts DEF Take, TaskVersion, TaskInsert, TaskSave, TaskEvents, Retry,
     WorkerDies
<1>7. CASE DatabaseDown \/ DatabaseUp \/ ApiStart \/ ApiDies \/ UNCHANGED vars
  BY <1>7 DEF DatabaseDown, DatabaseUp, ApiStart, ApiDies, vars
<1>8. Api \in Processes /\ \A w \in Workers : w \in Processes
  BY DEF Processes
<1> QED BY <1>2, <1>3, <1>4, <1>5, <1>6, <1>7, <1>8 DEF Next, ApiStep, WorkerStep

\* Every step keeps what the probes have established.
LEMMA ProbeStep ==
    TypeOK /\ TaskInv /\ RequestsInv /\ SchemaInv /\ ProbeInv /\ [Next]_vars
    => ProbeInv'
<1> SUFFICES ASSUME TypeOK, TaskInv, RequestsInv, SchemaInv, ProbeInv, [Next]_vars
             PROVE  ProbeInv'
  OBVIOUS
<1> USE DEF database, process, history
<1> DEFINE Lack == Missing(AtRevision(deployed))
           Other(p) == \A q \in Processes : q # p =>
                          /\ pc'[q] = pc[q] /\ missing'[q] = missing[q]
                          /\ available'[q] = available[q]
           \* what ProbeInv says of one process
           Of(p) == /\ missing'[p] \in {{}, Lack}
                    /\ pc'[p] = "create" => Models \subseteq schema'.tables \cup missing'[p]
                    /\ available'[p] => Models \subseteq schema'.tables
           \* what it says of the database and of the probes that failed
           Away == /\ ~dbUp' => outages' > 0
                   /\ outages' = 0 /\ probeFailed' # {} => Models \subseteq schema'.tables
<1>1. pc \in [Processes -> Labels] /\ missing \in [Processes -> SUBSET Models]
  BY DEF TypeOK, TaskInv
<1>2. outages \in Nat /\ available \in [Processes -> BOOLEAN]
  <2>1. outages \in 0 .. MaxOutages + 1 /\ available \in [Processes -> BOOLEAN]
    BY DEF TypeOK
  <2> QED BY <2>1, BoundsAssumption
<1>3. /\ Models \subseteq schema.tables => Models \subseteq schema'.tables
      /\ deployed' = deployed
  <2>1. deployed' = deployed
    BY DeployedStays
  <2> QED BY <2>1, TablesStay
<1>4. ASSUME \A p \in Processes : Of(p), Away PROVE ProbeInv'
  BY <1>3, <1>4 DEF ProbeInv
<1>5. \A p \in Processes :
         /\ missing[p] \in {{}, Lack}
         /\ pc[p] = "create" => Models \subseteq schema.tables \cup missing[p]
         /\ available[p] => Models \subseteq schema.tables
  BY DEF ProbeInv
<1>6. /\ Lack \cap schema.tables # {} => Models \subseteq schema.tables
      /\ \/ Missing(schema) = {}
         \/ Missing(schema) = Lack /\ Missing(schema) \cap schema.tables = {}
  BY LackFacts
<1>7. Missing(schema) = {} => Models \subseteq schema.tables
  BY DEF Missing
<1>8. ASSUME UNCHANGED <<outages, probeFailed, dbUp>> PROVE Away
  BY <1>3, <1>8 DEF ProbeInv
<1> HIDE DEF Lack
\* Other processes keep what holds of them, whatever happens to the schema.
<1>9. ASSUME NEW q \in Processes, pc'[q] = pc[q], missing'[q] = missing[q],
             available'[q] = available[q],
             schema' = schema \/ Models \subseteq schema'.tables
      PROVE  Of(q)
  BY <1>3, <1>5, <1>9
<1>10. ASSUME NEW p \in Processes, ProbeLook(p) PROVE ProbeInv'
  <2>1. /\ missing'[p] = Missing(schema) /\ pc'[p] = "create" /\ Other(p)
        /\ UNCHANGED <<schema, available, outages, probeFailed, dbUp>>
    BY <1>1, <1>10 DEF ProbeLook, Goto
  <2>2. Of(p)
    BY <1>5, <1>6, <2>1 DEF Missing
  <2> QED BY <1>4, <1>8, <1>9, <2>1, <2>2
<1>11. ASSUME NEW p \in Processes, ProbeCreate(p) PROVE ProbeInv'
  <2>1. /\ missing'[p] = {} /\ pc'[p] = AfterProbe(p) /\ Other(p)
        /\ schema' = Created(schema, missing[p]) /\ pc[p] = "create"
        /\ UNCHANGED <<outages, probeFailed, dbUp>>
    BY <1>1, <1>2, <1>11 DEF ProbeCreate, Goto
  <2>2. Models \subseteq schema'.tables
    <3>1. schema'.tables = schema.tables \cup missing[p]
      <4>1. schema \in Schemas /\ missing[p] \in SUBSET Models
        BY <1>1 DEF TypeOK
      <4> QED BY <2>1, <4>1, CreatedFacts
    <3> QED BY <1>5, <2>1, <3>1
  <2>3. Of(p)
    BY <2>1, <2>2 DEF AfterProbe
  <2> QED BY <1>4, <1>8, <1>9, <2>1, <2>2, <2>3
<1>12. ASSUME NEW p \in Processes, ProbeFails(p) PROVE ProbeInv'
  <2>1. /\ missing'[p] = {} /\ pc'[p] = AfterProbe(p) /\ Other(p)
        /\ available'[p] = FALSE
        /\ UNCHANGED <<schema, outages, dbUp>>
    BY <1>1, <1>2, <1>12 DEF ProbeFails, Goto
  <2>2. Of(p)
    BY <2>1 DEF AfterProbe
  <2>3. dbUp => Models \subseteq schema.tables
    <3> SUFFICES ASSUME dbUp PROVE Models \subseteq schema.tables
      OBVIOUS
    <3>1. missing[p] \cap schema.tables # {}
      BY <1>12 DEF ProbeFails, Reachable
    <3> QED BY <1>5, <1>6, <3>1
  <2>4. Away
    BY <2>1, <2>3 DEF ProbeInv
  <2> QED BY <1>4, <1>9, <2>1, <2>2, <2>4
<1>13. CASE DatabaseDown \/ DatabaseUp
  <2>1. UNCHANGED <<schema, pc, missing, available, probeFailed>>
    BY <1>13 DEF DatabaseDown, DatabaseUp
  <2>2. \/ ~dbUp' /\ outages' = outages + 1
        \/ dbUp' /\ outages' = outages
    BY <1>13 DEF DatabaseDown, DatabaseUp
  <2>3. Away
    BY <1>2, <2>1, <2>2 DEF ProbeInv
  <2> QED BY <1>4, <1>9, <2>1, <2>3
<1>14. CASE UpgradeHead
  <2>1. UNCHANGED <<pc, missing, available, outages, probeFailed, dbUp>>
    BY <1>14 DEF UpgradeHead
  <2>2. schema' = schema \/ Models \subseteq schema'.tables
    <3>1. SchemaInv'
      BY SchemaStep
    <3>2. CASE CanUpgrade(schema)
      <4>1. upgrade' = "done"
        BY <1>14, <3>2 DEF UpgradeHead
      <4> QED BY <3>1, <4>1 DEF SchemaInv, Full
    <3>3. CASE ~CanUpgrade(schema)
      BY <1>14, <3>3 DEF UpgradeHead
    <3> QED BY <3>2, <3>3
  <2> QED BY <1>4, <1>8, <1>9, <2>1, <2>2
<1>15. ASSUME NEW p \in Processes,
              UNCHANGED <<schema, outages, probeFailed, dbUp, missing>>,
              \A q \in Processes : q # p => pc'[q] = pc[q],
              pc'[p] # "create",
              \A q \in Processes : available'[q] => available[q]
       PROVE  ProbeInv'
  <2>1. \A q \in Processes : Of(q)
    BY <1>3, <1>5, <1>15
  <2> QED BY <1>4, <1>8, <1>15, <2>1
<1>16. ASSUME NEW p \in Processes,
              UNCHANGED <<schema, outages, probeFailed, dbUp>>,
              missing' = [missing EXCEPT ![p] = {}],
              \A q \in Processes : q # p => pc'[q] = pc[q],
              pc'[p] # "create",
              \A q \in Processes : available'[q] => available[q]
       PROVE  ProbeInv'
  <2>1. \A q \in Processes : Of(q)
    BY <1>1, <1>3, <1>5, <1>16
  <2> QED BY <1>4, <1>8, <1>16, <2>1
<1>17. Api \in Processes /\ \A w \in Workers : w \in Processes
  BY DEF Processes
<1>18. CASE ApiStart
  BY <1>1, <1>15, <1>17, <1>18 DEF ApiStart, Goto
<1>19. ASSUME NEW i \in Runs, RequestStep(i) \/ Poll(i) PROVE ProbeInv'
  <2>1. UNCHANGED <<schema, outages, probeFailed, dbUp, missing, pc, available>>
    BY <1>19 DEF RequestStep, PutLook, PutInsert, Submit, RunInline, RunInlineEvents,
       Refuse, Poll
  <2> QED BY <1>4, <1>8, <1>9, <2>1
<1>20. CASE ApiDies
  <2>1. \A q \in Processes : available'[q] => available[q]
    BY <1>2, <1>20 DEF ApiDies
  <2> QED BY <1>1, <1>16, <1>17, <1>20, <2>1 DEF ApiDies, Goto
<1>21. ASSUME NEW w \in Workers, WorkerDies(w) PROVE ProbeInv'
  <2>1. \A q \in Processes : available'[q] => available[q]
    BY <1>2, <1>21 DEF WorkerDies
  <2> QED BY <1>1, <1>16, <1>17, <1>21, <2>1 DEF WorkerDies, Goto
<1>22. ASSUME NEW w \in Workers,
              \/ \E m \in queue : Take(w, m)
              \/ TaskVersion(w) \/ TaskInsert(w) \/ TaskSave(w) \/ TaskEvents(w)
              \/ TaskFails(w)
       PROVE  ProbeInv'
  <2>1. /\ UNCHANGED <<schema, outages, probeFailed, dbUp, missing, available>>
        /\ pc'[w] # "create"
        /\ \A q \in Processes : q # w => pc'[q] = pc[q]
    <3>1. CASE TaskFails(w)
      BY <1>1, <1>17, <3>1, FailsFacts DEF Retry, Goto
    <3>2. CASE ~TaskFails(w)
      BY <1>1, <1>17, <1>22, <3>2
      DEF Take, TaskVersion, TaskInsert, TaskSave, TaskEvents, Goto
    <3> QED BY <3>1, <3>2
  <2> QED BY <1>15, <1>17, <2>1
<1>23. CASE UNCHANGED vars
  <2>1. UNCHANGED <<schema, outages, probeFailed, dbUp, missing, pc, available>>
    BY <1>23 DEF vars
  <2> QED BY <1>4, <1>8, <1>9, <2>1
<1> QED
  BY <1>10, <1>11, <1>12, <1>13, <1>14, <1>17, <1>18, <1>19, <1>20, <1>21, <1>22, <1>23
  DEF Next, ApiStep, RequestStep, WorkerStep, Probe

-----------------------------------------------------------------------------
(* The stores.                                                              *)

\* Every step keeps what is known of the stores.
LEMMA StoreStep ==
    TypeOK /\ TaskInv /\ RequestsInv /\ StoreInv /\ [Next]_vars => StoreInv'
<1> SUFFICES ASSUME TypeOK, TaskInv, RequestsInv, StoreInv, [Next]_vars
             PROVE  StoreInv'
  OBVIOUS
<1> USE DEF database, process, history
<1>1. /\ Api \in Processes /\ Api \notin Workers
      /\ \A w \in Workers : w \in Processes /\ w # Api
      /\ \A p \in Processes : p = Api \/ p \in Workers
  BY ProcessesAssumption DEF Processes
<1>2. /\ pc \in [Processes -> Labels] /\ available \in [Processes -> BOOLEAN]
      /\ memory \in [Processes -> SUBSET Runs]
      /\ state \in [Runs -> States]
      /\ task \in [Workers -> Message \cup {None}]
  BY DEF TypeOK, TaskInv
<1> USE <1>1, <1>2 DEF StoreInv, GetStorage
\* Nothing of this concerns the stores.
<1>3. CASE UNCHANGED <<pc, known, available, saved, memory, events, probeFailed, state>>
  BY <1>3
<1>4. CASE UNCHANGED vars \/ DatabaseDown \/ DatabaseUp \/ UpgradeHead
  BY <1>3, <1>4 DEF vars, DatabaseDown, DatabaseUp, UpgradeHead
<1>5. ASSUME NEW p \in Processes, ProbeLook(p) PROVE StoreInv'
  BY <1>5 DEF ProbeLook, Goto
<1>6. ASSUME NEW p \in Processes, ProbeCreate(p) PROVE StoreInv'
  BY <1>6 DEF ProbeCreate, Goto, AfterProbe
<1>7. ASSUME NEW p \in Processes, ProbeFails(p) PROVE StoreInv'
  BY <1>7 DEF ProbeFails, Goto, AfterProbe
<1>8. CASE ApiStart
  BY <1>8 DEF ApiStart, Goto
<1>9. ASSUME NEW i \in Runs, PutLook(i) \/ PutInsert(i) \/ Submit(i) \/ Refuse(i)
      PROVE  StoreInv'
  <2>1. /\ UNCHANGED <<pc, known, available, saved, memory, events, probeFailed>>
        /\ \A j \in Runs : state'[j] = "done" => state[j] = "done"
    BY <1>9 DEF PutLook, PutInsert, Submit, Refuse, Becomes
  <2> QED BY <2>1
<1>10. ASSUME NEW i \in Runs, Poll(i) PROVE StoreInv'
  BY <1>10 DEF Poll
<1>11. ASSUME NEW i \in Runs, RunInline(i) \/ RunInlineEvents(i) PROVE StoreInv'
  <2>1. CASE RunInline(i)
    <3>1. saved \subseteq saved' /\ memory[Api] \subseteq memory'[Api]
      BY <2>1, SaveFacts DEF RunInline
    <3>2. /\ UNCHANGED <<pc, known, available, events, probeFailed>>
          /\ \A j \in Runs : state'[j] = "done" => state[j] = "done"
      BY <2>1 DEF RunInline, Becomes
    <3> QED BY <3>1, <3>2
  <2>2. CASE RunInlineEvents(i)
    <3>1. i \in GetStorage(Api)
      BY <2>2 DEF RunInlineEvents, RequestsInv
    <3>2. /\ pc[Api] = "serving" /\ known' = known \cup {i}
          /\ events' = IF available[Api] THEN events \cup {i} ELSE events
          /\ state' = [state EXCEPT ![i] = "done"]
          /\ UNCHANGED <<pc, available, saved, memory, probeFailed>>
      BY <2>2 DEF RunInlineEvents, Becomes
    <3> QED BY <3>1, <3>2
  <2> QED BY <1>11, <2>1, <2>2
<1>12. CASE ApiDies
  BY <1>12 DEF ApiDies, Goto, Stages
<1>13. ASSUME NEW w \in Workers,
              (\E m \in queue : Take(w, m)) \/ TaskVersion(w) \/ TaskInsert(w)
       PROVE  StoreInv'
  BY <1>13 DEF Take, TaskVersion, TaskInsert, Goto
<1>14. ASSUME NEW w \in Workers, TaskSave(w) PROVE StoreInv'
  <2>1. pc[w] = "save" /\ task[w].run \in Runs
    BY <1>14 DEF TaskSave, TaskInv, Message
  <2>2. saved \subseteq saved' /\ memory[Api] \subseteq memory'[Api]
    BY <1>14, <2>1, SaveFacts DEF TaskSave
  <2>3. /\ pc' = [pc EXCEPT ![w] = "events"]
        /\ UNCHANGED <<known, available, events, probeFailed, state>>
    BY <1>14 DEF TaskSave, Goto
  <2> QED BY <2>1, <2>2, <2>3
<1>15. ASSUME NEW w \in Workers, TaskEvents(w) PROVE StoreInv'
  <2>1. pc[w] = "events" /\ task[w].run \in Runs
    BY <1>15 DEF TaskEvents, TaskInv, Message
  <2>2. available[w] => task[w].run \in saved
    BY <2>1 DEF TaskInv
  <2>3. /\ pc' = [pc EXCEPT ![w] = "idle"]
        /\ events' = IF available[w] THEN events \cup {task[w].run} ELSE events
        /\ state' = [state EXCEPT ![task[w].run] = "done"]
        /\ UNCHANGED <<known, available, saved, memory, probeFailed>>
    BY <1>15 DEF TaskEvents, Goto, Becomes
  <2> QED BY <2>1, <2>2, <2>3
<1>16. ASSUME NEW w \in Workers, TaskFails(w) PROVE StoreInv'
  <2>1. Retry(w)
    BY <1>16, FailsFacts
  <2>2. /\ pc' = [pc EXCEPT ![w] = "idle"]
        /\ UNCHANGED <<known, available, saved, memory, events, probeFailed>>
    BY <2>1 DEF Retry, Goto
  <2>3. \A i \in Runs : state'[i] = "done" => state[i] = "done"
    BY <2>1 DEF Retry, Becomes
  <2> QED BY <2>2, <2>3
<1>17. ASSUME NEW w \in Workers, WorkerDies(w) PROVE StoreInv'
  <2>1. /\ pc' = [pc EXCEPT ![w] = "idle"]
        /\ available' = [available EXCEPT ![w] = FALSE]
        /\ memory' = [memory EXCEPT ![w] = {}]
        /\ UNCHANGED <<known, saved, events, probeFailed>>
        /\ \A i \in Runs : state'[i] = "done" => state[i] = "done"
    BY <1>17 DEF WorkerDies, Goto
  <2> QED BY <2>1
<1> QED
  BY <1>4, <1>5, <1>6, <1>7, <1>8, <1>9, <1>10, <1>11, <1>12, <1>13, <1>14, <1>15,
     <1>16, <1>17
  DEF Next, ApiStep, RequestStep, WorkerStep, Probe

-----------------------------------------------------------------------------
(* The retries.                                                             *)

\* With all tables there, only an outage makes a transaction of a task fail.
LEMMA FailsInOutage ==
    ASSUME TypeOK, TaskInv, SchemaInv, ProbeInv, deployed # "0001",
           NEW w \in Workers, TransactionFails(w)
    PROVE  available[w] /\ ~dbUp
<1>1. /\ w \in Processes /\ pc[w] \in {"version", "insert", "save", "events"}
      /\ ~Works(w, Needs(w))
  BY DEF Processes, TransactionFails
<1>2. available[w] /\ ~(/\ dbUp /\ Needs(w) \subseteq schema.tables
                        /\ "workflow_runs" \in Needs(w) => schema.versionHash)
  BY <1>1 DEF Works
<1>3. Full(schema)
  BY <1>1, <1>2, FullUnless0001 DEF ProbeInv
<1>4. Needs(w) \subseteq Models
  BY <1>1 DEF Needs, Models, RunTables, RuntimeTables
<1> QED BY <1>2, <1>3, <1>4 DEF Full

\* Versions are never removed, and a task that has lost the race has seen why.
LEMMA OvertakenStep ==
    TypeOK /\ TaskInv /\ OvertakenInv /\ [Next]_vars
    => /\ OvertakenInv' /\ overtaken \subseteq overtaken'
       /\ versions \subseteq versions'
<1> SUFFICES ASSUME TypeOK, TaskInv, OvertakenInv, [Next]_vars
             PROVE  /\ OvertakenInv' /\ overtaken \subseteq overtaken'
                    /\ versions \subseteq versions'
  OBVIOUS
<1> USE DEF database, process, history
<1>1. definition' = definition
  BY DeployedStays
<1>2. ASSUME overtaken' = overtaken, versions \subseteq versions'
      PROVE  /\ OvertakenInv' /\ overtaken \subseteq overtaken'
             /\ versions \subseteq versions'
  BY <1>1, <1>2 DEF OvertakenInv
<1>3. CASE UNCHANGED vars \/ DatabaseDown \/ DatabaseUp \/ UpgradeHead
           \/ ApiStart \/ ApiDies
  BY <1>2, <1>3 DEF vars, DatabaseDown, DatabaseUp, UpgradeHead, ApiStart, ApiDies
<1>4. ASSUME NEW p \in Processes, Probe(p)
      PROVE  overtaken' = overtaken /\ versions \subseteq versions'
  BY <1>4 DEF Probe, ProbeLook, ProbeCreate, ProbeFails
<1>5. ASSUME NEW i \in Runs, RequestStep(i) \/ Poll(i)
      PROVE  overtaken' = overtaken /\ versions \subseteq versions'
  BY <1>5 DEF RequestStep, PutLook, PutInsert, Submit, RunInline, RunInlineEvents,
     Refuse, Poll
<1>6. ASSUME NEW w \in Workers,
             \/ \E m \in queue : Take(w, m)
             \/ TaskVersion(w) \/ TaskInsert(w) \/ TaskSave(w) \/ TaskEvents(w)
             \/ TransactionFails(w) \/ WorkflowRaises(w) \/ WorkerDies(w)
      PROVE  overtaken' = overtaken /\ versions \subseteq versions'
  BY <1>6 DEF Take, TaskVersion, TaskInsert, TaskSave, TaskEvents, TransactionFails,
     WorkflowRaises, Retry, WorkerDies
<1>7. ASSUME NEW w \in Workers, InsertConflict(w)
      PROVE  /\ OvertakenInv' /\ overtaken \subseteq overtaken'
             /\ versions \subseteq versions'
  <2>1. /\ overtaken' = overtaken \cup {task[w].run} /\ versions' = versions
        /\ definition[task[w].run] \in versions
    BY <1>7 DEF InsertConflict, Retry
  <2> QED BY <1>1, <2>1 DEF OvertakenInv
<1>8. Api \in Processes /\ \A w \in Workers : w \in Processes
  BY DEF Processes
<1> QED
  BY <1>2, <1>3, <1>4, <1>5, <1>6, <1>7, <1>8
  DEF Next, ApiStep, WorkerStep, TaskFails

\* What counts as a failure is a number, never more than one above the
\* outages.
LEMMA FailuresFacts ==
    ASSUME TypeOK, NEW i \in Runs
    PROVE  /\ outages \in Nat /\ Failures(i) \in Nat /\ outages <= Failures(i)
           /\ i \in overtaken => Failures(i) = outages + 1
           /\ i \notin overtaken => Failures(i) = outages
<1>1. outages \in 0 .. MaxOutages + 1
  BY DEF TypeOK
<1> QED BY <1>1, BoundsAssumption DEF Failures

\* The database goes away in one action only, and nothing else counts as an
\* outage.
LEMMA OutagesStep ==
    [Next]_vars => DatabaseDown \/ (outages' = outages /\ (dbUp' = dbUp \/ dbUp'))
<1> USE DEF database, process, history
<1>1. CASE UNCHANGED vars \/ DatabaseUp \/ UpgradeHead \/ ApiStart \/ ApiDies
  BY <1>1 DEF vars, DatabaseUp, UpgradeHead, ApiStart, ApiDies
<1>2. ASSUME NEW p \in Processes, Probe(p) PROVE UNCHANGED <<dbUp, outages>>
  BY <1>2 DEF Probe, ProbeLook, ProbeCreate, ProbeFails
<1>3. ASSUME NEW i \in Runs, RequestStep(i) \/ Poll(i)
      PROVE  UNCHANGED <<dbUp, outages>>
  BY <1>3 DEF RequestStep, PutLook, PutInsert, Submit, RunInline, RunInlineEvents,
     Refuse, Poll
<1>4. ASSUME NEW w \in Workers,
             \/ \E m \in queue : Take(w, m)
             \/ TaskVersion(w) \/ TaskInsert(w) \/ TaskSave(w) \/ TaskEvents(w)
             \/ TaskFails(w) \/ WorkerDies(w)
      PROVE  UNCHANGED <<dbUp, outages>>
  BY <1>4, FailsFacts DEF Take, TaskVersion, TaskInsert, TaskSave, TaskEvents, Retry,
     WorkerDies
<1>5. Api \in Processes /\ \A w \in Workers : w \in Processes
  BY DEF Processes
<1> QED BY <1>1, <1>2, <1>3, <1>4, <1>5 DEF Next, ApiStep, WorkerStep

\* A task that fails has had a failure of its own for every try: an outage,
\* or the race that it loses now.
LEMMA FailureForEachTry ==
    ASSUME TypeOK, TaskInv, SchemaInv, ProbeInv, OutageForEachTry,
           deployed # "0001", NEW w \in Workers, TaskFails(w),
           NEW i \in Runs, i = task[w].run, Sound(i)
    PROVE  task[w].tries + 1 <= Failures(i)'
<1>1. /\ pc[w] \in {"version", "insert", "save", "events"} /\ Retry(w)
      /\ overtaken \subseteq overtaken'
  BY FailsFacts
<1>2. task[w].tries \in Nat
  <2>1. task[w] \in Message
    BY <1>1 DEF TaskInv
  <2>2. task[w].tries \in 0 .. MaxRetries
    BY <2>1 DEF Message
  <2> QED BY <2>2, BoundsAssumption
<1>3. outages' = outages
  BY <1>1 DEF Retry, history
<1>4. /\ outages \in Nat /\ Failures(i) \in Nat /\ outages <= Failures(i)
      /\ i \in overtaken => Failures(i) = outages + 1
      /\ i \notin overtaken => Failures(i) = outages
  BY FailuresFacts
<1>5. /\ i \in overtaken' => Failures(i)' = outages + 1
      /\ i \notin overtaken' => Failures(i)' = outages
  BY <1>3, <1>4 DEF Failures
<1>6. Failures(i)' \in Nat /\ Failures(i) <= Failures(i)' /\ outages <= Failures(i)'
  BY <1>1, <1>4, <1>5
<1>7. WorkerTries(w, i)
  BY DEF OutageForEachTry
<1>8. CASE TransactionFails(w)
  <2>1. available[w] /\ ~dbUp
    BY <1>8, FailsInOutage
  <2>2. \/ pc[w] = "insert" /\ task[w].tries < outages
        \/ pc[w] # "insert" /\ task[w].tries < Failures(i)
    BY <1>1, <1>7, <2>1 DEF WorkerTries
  <2> QED BY <1>2, <1>4, <1>6, <2>2
<1>9. CASE InsertConflict(w)
  <2>1. pc[w] = "insert" /\ i \in overtaken'
    BY <1>9 DEF InsertConflict
  <2>2. task[w].tries <= outages
    BY <1>7, <2>1 DEF WorkerTries
  <2> QED BY <1>2, <1>4, <1>5, <2>1, <2>2
<1>10. CASE WorkflowRaises(w)
  BY <1>10 DEF WorkflowRaises, Sound
<1> QED BY <1>8, <1>9, <1>10 DEF TaskFails

\* What is above a bound and grows stays above it.
LEMMA MoreThan ==
    ASSUME NEW a \in Nat, NEW b \in Nat, NEW c \in Nat, a > c, a <= b PROVE b > c
OBVIOUS

\* Every step preserves the count of failures that each try has had.
LEMMA OutageStep ==
    TypeOK /\ TaskInv /\ RequestsInv /\ SchemaInv /\ ProbeInv /\ OutageInv
    /\ [Next]_vars => OutageInv'
<1> SUFFICES ASSUME TypeOK, TaskInv, RequestsInv, SchemaInv, ProbeInv, OutageInv,
                    [Next]_vars
             PROVE  OutageInv'
  OBVIOUS
<1>1. deployed' = deployed /\ definition' = definition
  BY DeployedStays
<1>2. OvertakenInv /\ OvertakenInv' /\ overtaken \subseteq overtaken'
  BY OvertakenStep DEF OutageInv
<1> SUFFICES ASSUME deployed # "0001" PROVE OutageForEachTry'
  BY <1>1, <1>2 DEF OutageInv
<1>3. OutageForEachTry
  BY DEF OutageInv
<1> USE DEF database, process, history
<1>4. /\ Api \in Processes /\ Api \notin Workers
      /\ \A w \in Workers : w \in Processes /\ w # Api
      /\ \A p \in Processes : p = Api \/ p \in Workers
  BY ProcessesAssumption DEF Processes
<1>5. /\ pc \in [Processes -> Labels] /\ available \in [Processes -> BOOLEAN]
      /\ state \in [Runs -> States] /\ task \in [Workers -> Message \cup {None}]
  BY DEF TypeOK, TaskInv
<1>6. /\ \A m \in queue : m.run \in Runs /\ m.tries \in Nat
      /\ \A w \in Workers : pc[w] # "idle" =>
            task[w] \in Message /\ task[w].run \in Runs /\ task[w].tries \in Nat
  <2>1. \A m \in Message : m.run \in Runs /\ m.tries \in 0 .. MaxRetries
    BY DEF Message
  <2>2. 0 .. MaxRetries \subseteq Nat
    BY BoundsAssumption
  <2> QED BY <2>1, <2>2 DEF TypeOK, TaskInv
\* The count of failures only grows, and with every outage.
<1>7. \A i \in Runs :
         /\ Sound(i)' = Sound(i)
         /\ outages \in Nat /\ outages' \in Nat /\ outages <= outages'
         /\ Failures(i) \in Nat /\ Failures(i)' \in Nat /\ Failures(i) <= Failures(i)'
         /\ outages' <= Failures(i)'
         /\ DatabaseDown => outages < outages' /\ Failures(i) < Failures(i)'
  <2> SUFFICES ASSUME NEW i \in Runs
               PROVE  /\ Sound(i)' = Sound(i)
                      /\ outages \in Nat /\ outages' \in Nat /\ outages <= outages'
                      /\ Failures(i) \in Nat /\ Failures(i)' \in Nat
                      /\ Failures(i) <= Failures(i)' /\ outages' <= Failures(i)'
                      /\ DatabaseDown => outages < outages' /\ Failures(i) < Failures(i)'
    OBVIOUS
  <2>1. Sound(i)' = Sound(i)
    BY <1>1 DEF Sound
  <2>2. DatabaseDown => outages' = outages + 1
    BY DEF DatabaseDown
  <2>3. outages' = outages \/ outages' = outages + 1
    BY <2>2, OutagesStep
  <2>4. /\ outages \in Nat /\ Failures(i) \in Nat
        /\ i \in overtaken => Failures(i) = outages + 1
        /\ i \notin overtaken => Failures(i) = outages
    BY FailuresFacts
  <2>5. /\ i \in overtaken' => Failures(i)' = outages' + 1
        /\ i \notin overtaken' => Failures(i)' = outages'
    BY <2>3, <2>4 DEF Failures
  <2> QED BY <1>2, <2>1, <2>2, <2>3, <2>4, <2>5
<1> HIDE DEF database, process, history
\* A worker that does nothing, or that is idle afterwards.
<1>8. ASSUME NEW w \in Workers, NEW i \in Runs,
             \/ pc'[w] = "idle"
             \/ pc'[w] = pc[w] /\ task'[w] = task[w] /\ available'[w] = available[w]
      PROVE  WorkerTries(w, i)'
  <2>1. CASE pc'[w] = "idle"
    BY <2>1 DEF WorkerTries
  <2>2. CASE pc'[w] # "idle"
    <3>1. pc'[w] = pc[w] /\ task'[w] = task[w] /\ available'[w] = available[w]
          /\ task[w].tries \in Nat
      BY <1>6, <1>8, <2>2
    <3>2. WorkerTries(w, i)
      BY <1>3 DEF OutageForEachTry
    <3>3. CASE DatabaseDown
      BY <1>7, <2>2, <3>1, <3>2, <3>3 DEF WorkerTries
    <3>4. CASE ~DatabaseDown
      <4>1. outages' = outages /\ (~dbUp' => ~dbUp)
        BY <3>4, OutagesStep
      <4> QED BY <1>7, <2>2, <3>1, <3>2, <4>1 DEF WorkerTries
    <3> QED BY <3>3, <3>4
  <2> QED BY <2>1, <2>2
<1>9. \A m \in queue : Sound(m.run)' => m.tries <= Failures(m.run)'
  <2> SUFFICES ASSUME NEW m \in queue, Sound(m.run)' PROVE m.tries <= Failures(m.run)'
    OBVIOUS
  <2>1. Sound(m.run) /\ m.tries <= Failures(m.run)
    BY <1>3, <1>6, <1>7 DEF OutageForEachTry
  <2> QED BY <1>6, <1>7, <2>1
<1>10. \A i \in Runs :
          Sound(i)' /\ state[i] = "given up" => Failures(i)' > MaxRetries
  <2>1. \A i \in Runs : Sound(i) /\ state[i] = "given up" => Failures(i) > MaxRetries
    BY <1>3 DEF OutageForEachTry
  <2> SUFFICES ASSUME NEW i \in Runs, Sound(i)', state[i] = "given up"
               PROVE  Failures(i)' > MaxRetries
    OBVIOUS
  <2>2. Failures(i) > MaxRetries
    BY <1>7, <2>1
  <2>3. Failures(i) \in Nat /\ Failures(i)' \in Nat /\ Failures(i) <= Failures(i)'
    BY <1>7
  <2> QED BY <2>2, <2>3, MoreThan, BoundsAssumption
\* The same for all of them.
<1>11. ASSUME queue' \subseteq queue,
              \A i \in Runs : state'[i] = "given up" => state[i] = "given up",
              \A w \in Workers, i \in Runs : WorkerTries(w, i)'
       PROVE  OutageForEachTry'
  BY <1>9, <1>10, <1>11 DEF OutageForEachTry
<1>12. ASSUME queue' \subseteq queue,
              \A i \in Runs : state'[i] = "given up" => state[i] = "given up",
              NEW w \in Workers,
              \A x \in Workers : x # w => /\ pc'[x] = pc[x] /\ task'[x] = task[x]
                                         /\ available'[x] = available[x],
              \A i \in Runs : WorkerTries(w, i)'
       PROVE  OutageForEachTry'
  <2>1. \A x \in Workers, i \in Runs : WorkerTries(x, i)'
    BY <1>8, <1>12
  <2> QED BY <1>11, <1>12, <2>1
<1> USE DEF database, process, history
<1>13. CASE UNCHANGED vars \/ UpgradeHead \/ DatabaseDown \/ DatabaseUp
  <2>1. UNCHANGED <<queue, state, pc, task, available>>
    BY <1>13 DEF vars, UpgradeHead, DatabaseDown, DatabaseUp
  <2> QED BY <1>8, <1>11, <2>1
<1>14. CASE ApiStart \/ ApiDies \/ Probe(Api)
  <2>1. \A w \in Workers : /\ pc'[w] = pc[w] /\ task'[w] = task[w]
                            /\ available'[w] = available[w]
    BY <1>4, <1>5, <1>14
    DEF ApiStart, ApiDies, Probe, ProbeLook, ProbeCreate, ProbeFails, Goto
  <2>2. /\ queue' = queue
        /\ \A i \in Runs : state'[i] = "given up" => state[i] = "given up"
    BY <1>5, <1>14
    DEF ApiStart, ApiDies, Probe, ProbeLook, ProbeCreate, ProbeFails
  <2> QED BY <1>8, <1>11, <2>1, <2>2
<1>15. ASSUME NEW i \in Runs, RequestStep(i) \/ Poll(i) PROVE OutageForEachTry'
  <2>1. /\ UNCHANGED <<task, pc, available>>
        /\ queue' \subseteq queue \cup {[run |-> i, tries |-> 0]}
        /\ \A j \in Runs : state'[j] = "given up" => state[j] = "given up"
    BY <1>5, <1>15 DEF RequestStep, PutLook, PutInsert, Submit, RunInline,
       RunInlineEvents, Refuse, Poll, Becomes
  <2>2. \A w \in Workers, j \in Runs : WorkerTries(w, j)'
    BY <1>8, <2>1
  <2>3. \A m \in queue' : Sound(m.run)' => m.tries <= Failures(m.run)'
    <3>1. \A m : m = [run |-> i, tries |-> 0] => m.run = i /\ m.tries = 0
      OBVIOUS
    <3>2. 0 <= Failures(i)'
      BY <1>7
    <3> QED BY <1>9, <2>1, <3>1, <3>2
  <2> QED BY <1>10, <2>1, <2>2, <2>3 DEF OutageForEachTry
<1>16. ASSUME NEW w \in Workers, NEW m \in queue, Take(w, m)
       PROVE  OutageForEachTry'
  <2>1. /\ pc'[w] = "probe" /\ task'[w] = m
        /\ queue' \subseteq queue /\ UNCHANGED state
        /\ \A x \in Workers : x # w => /\ pc'[x] = pc[x] /\ task'[x] = task[x]
                                       /\ available'[x] = available[x]
    BY <1>4, <1>5, <1>16 DEF Take, Goto
  <2>2. \A i \in Runs : WorkerTries(w, i)'
    BY <1>9, <2>1 DEF WorkerTries
  <2> QED BY <1>12, <2>1, <2>2
<1>17. ASSUME NEW w \in Workers, Probe(w) PROVE OutageForEachTry'
  <2>1. /\ pc[w] \in {"probe", "create"} /\ task'[w] = task[w]
        /\ pc'[w] = "create" \/ pc'[w] = "version"
        /\ pc'[w] = "version" => dbUp' \/ ~available'[w]
        /\ UNCHANGED <<queue, state>>
        /\ \A x \in Workers : x # w => /\ pc'[x] = pc[x] /\ task'[x] = task[x]
                                       /\ available'[x] = available[x]
    BY <1>4, <1>5, <1>17 DEF Probe, ProbeLook, ProbeCreate, ProbeFails, Goto, AfterProbe
  <2>2. ASSUME NEW i \in Runs PROVE WorkerTries(w, i)'
    <3>1. pc[w] # "idle" /\ task[w].tries \in Nat
      BY <1>6, <2>1
    <3>2. task[w].run = i /\ Sound(i) => task[w].tries <= Failures(i)
      BY <1>3, <2>1 DEF OutageForEachTry, WorkerTries
    <3>3. task[w].run = i /\ Sound(i) => task[w].tries <= Failures(i)'
      BY <1>7, <3>1, <3>2
    <3> QED BY <1>7, <2>1, <3>3 DEF WorkerTries
  <2> QED BY <1>12, <2>1, <2>2
<1>18. ASSUME NEW w \in Workers,
              TaskVersion(w) \/ TaskInsert(w) \/ TaskSave(w) \/ TaskEvents(w)
       PROVE  OutageForEachTry'
  <2>1. /\ UNCHANGED <<queue, outages, dbUp, available, overtaken>>
        /\ \A x \in Workers : x # w => pc'[x] = pc[x] /\ task'[x] = task[x]
        /\ \A i \in Runs : state'[i] = "given up" => state[i] = "given up"
        /\ pc'[w] # "idle" => task'[w] = task[w]
    BY <1>4, <1>5, <1>18 DEF TaskVersion, TaskInsert, TaskSave, TaskEvents, Goto, Becomes
  <2>2. \/ pc[w] = "version" /\ pc'[w] = "save"
        \/ /\ pc[w] = "version" /\ pc'[w] = "insert" /\ available[w]
           /\ task[w].run \notin overtaken
        \/ pc[w] = "insert" /\ pc'[w] = "save"
        \/ pc[w] = "save" /\ pc'[w] = "events"
        \/ pc'[w] = "idle"
    BY <1>2, <1>4, <1>5, <1>18
    DEF TaskVersion, TaskInsert, TaskSave, TaskEvents, Goto, Stored, OvertakenInv
  <2>3. ASSUME NEW i \in Runs PROVE WorkerTries(w, i)'
    <3>1. WorkerTries(w, i) /\ Failures(i)' = Failures(i) /\ Sound(i)' = Sound(i)
      BY <1>3, <1>7, <2>1 DEF OutageForEachTry, Failures
    <3>2. /\ outages \in Nat /\ Failures(i) \in Nat /\ outages <= Failures(i)
          /\ i \notin overtaken => Failures(i) = outages
          /\ pc[w] # "idle" => task[w].tries \in Nat
      BY <1>6, FailuresFacts
    <3>3. CASE pc'[w] = "idle"
      BY <1>8, <3>3
    <3>4. CASE pc'[w] # "idle"
      <4>1. \A k \in Nat : (k <= outages => k <= Failures(i))
                          /\ (k < outages => k < Failures(i))
        BY <3>2
      <4> QED BY <2>1, <2>2, <3>1, <3>2, <3>4, <4>1 DEF WorkerTries
    <3> QED BY <3>3, <3>4
  <2> QED BY <1>12, <2>1, <2>3
<1>19. ASSUME NEW w \in Workers, WorkerDies(w) PROVE OutageForEachTry'
  <2>1. /\ pc'[w] = "idle" /\ UNCHANGED queue
        /\ \A x \in Workers : x # w => /\ pc'[x] = pc[x] /\ task'[x] = task[x]
                                       /\ available'[x] = available[x]
        /\ \A i \in Runs : state'[i] = "given up" => state[i] = "given up"
    BY <1>4, <1>5, <1>19 DEF WorkerDies, Goto
  <2> QED BY <1>8, <1>12, <2>1
<1>20. ASSUME NEW w \in Workers, TaskFails(w) PROVE OutageForEachTry'
  <2>1. pc[w] \in {"version", "insert", "save", "events"} /\ Retry(w)
    BY <1>20, FailsFacts
  <2>2. PICK i \in Runs : i = task[w].run
    BY <1>6, <2>1
  <2>3. PICK k \in Nat : k = task[w].tries /\ k \in 0 .. MaxRetries
    BY <1>6, <2>1, BoundsAssumption DEF Message
  <2>4. Sound(i) => k + 1 <= Failures(i)'
    BY <1>3, <1>20, <2>2, <2>3, FailureForEachTry
  <2>5. /\ pc'[w] = "idle" /\ UNCHANGED available
        /\ \A x \in Workers : x # w => pc'[x] = pc[x] /\ task'[x] = task[x]
    BY <1>4, <1>5, <2>1 DEF Retry, Goto
  <2>6. \A x \in Workers, j \in Runs : WorkerTries(x, j)'
    BY <1>8, <2>5
  <2>7. \A m \in queue' : Sound(m.run)' => m.tries <= Failures(m.run)'
    <3> DEFINE again == [task[w] EXCEPT !.tries = IF @ < MaxRetries THEN @ + 1 ELSE @]
    <3>1. queue' \subseteq queue \cup {again}
      BY <2>1 DEF Retry
    <3>2. again.run = i /\ again.tries = IF k < MaxRetries THEN k + 1 ELSE k
      <4>1. task[w] \in Message
        BY <1>6, <2>1
      <4> QED BY <2>2, <2>3, <4>1 DEF Message
    <3> HIDE DEF again
    <3>3. Sound(i) => again.tries <= Failures(i)'
      BY <1>7, <2>3, <2>4, <3>2
    <3> QED BY <1>7, <1>9, <3>1, <3>2, <3>3
  <2>8. \A j \in Runs : Sound(j)' /\ state'[j] = "given up" => Failures(j)' > MaxRetries
    <3>1. \A j \in Runs : state'[j] = "given up" =>
             state[j] = "given up" \/ (j = i /\ ~(k < MaxRetries))
      BY <1>5, <2>1, <2>2, <2>3 DEF Retry, Becomes, MayRetry
    <3>2. ~(k < MaxRetries) /\ Sound(i) => Failures(i)' > MaxRetries
      BY <1>7, <2>3, <2>4, BoundsAssumption
    <3> QED BY <1>7, <1>10, <3>1, <3>2
  <2> QED BY <2>6, <2>7, <2>8 DEF OutageForEachTry
<1> QED
  BY <1>13, <1>14, <1>15, <1>16, <1>17, <1>18, <1>19, <1>20
  DEF Next, ApiStep, WorkerStep

-----------------------------------------------------------------------------
(* The theorems.                                                            *)

\* The first states satisfy the invariant ...
LEMMA InvInit == Init => IInv
<1> SUFFICES ASSUME Init PROVE IInv
  OBVIOUS
<1>1. TypeOK /\ TaskInv /\ RequestsInv
  BY ShapeInit
<1>2. SchemaInv
  <2>1. /\ deployed \in {"base", "0001", "0002"} /\ schema = AtRevision(deployed)
        /\ upgrade = "never"
    BY DeploymentsAssumption DEF Init
  <2> QED BY <2>1, RevisionFacts DEF SchemaInv
<1>3. ProbeInv
  BY DEF Init, ProbeInv
<1>4. StoreInv
  BY <1>1 DEF Init, StoreInv, Processes, TypeOK
<1>5. OutageInv
  BY ProcessesAssumption
  DEF Init, OutageInv, OvertakenInv, OutageForEachTry, WorkerTries, Processes
<1> QED BY <1>1, <1>2, <1>3, <1>4, <1>5 DEF IInv

\* ... and every step keeps it.
LEMMA InvStep == IInv /\ [Next]_vars => IInv'
BY ShapeStep, RequestsStep, SchemaStep, ProbeStep, StoreStep, OutageStep DEF IInv

\* The inductive invariant holds: what every theorem below rests on.
THEOREM Invariant == Spec => []IInv
BY InvInit, InvStep, PTL DEF Spec

\* The variables always have the shape the program gives them; events are
\* only ever stored of runs that are.
THEOREM TypeCorrect == Spec => []TypeOK
<1>1. IInv => TypeOK
  BY DEF IInv
<1> QED BY <1>1, Invariant, PTL

\* However many processes probe at once, and whenever the operator migrates,
\* a probe that succeeds has found a usable schema and one that fails without
\* an outage has lost to a peer that created it.
THEOREM ProbeSoundHolds == Spec => []ProbeSound
<1>1. IInv => ProbeSound
  <2> SUFFICES ASSUME IInv PROVE ProbedIsUsable /\ FailedProbeHasPeer
    BY DEF ProbeSound
  <2>1. ProbedIsUsable
    BY FullUnless0001 DEF IInv, ProbeInv, ProbedIsUsable, Usable, Full
  <2>2. FailedProbeHasPeer
    BY DEF IInv, ProbeInv, FailedProbeHasPeer
  <2> QED BY <2>1, <2>2
<1> QED BY <1>1, Invariant, PTL

\* What the API has answered with stays known to it, and while no probe has
\* failed what a worker has done is where the API looks for it.
THEOREM StoresSharedHolds == Spec => []StoresShared
<1>1. IInv => StoresShared
  BY DEF IInv, StoreInv, StoresShared, KnownForLifetime, SharedUnlessProbeFailed,
         GetStorage
<1> QED BY <1>1, Invariant, PTL

\* A task whose definition can be executed is given up only after more
\* outages than it has retries, one lost race for its version counted in.
THEOREM GivenUpByOutagesHolds == Spec => []GivenUpByOutages
<1>1. IInv => GivenUpByOutages
  BY DEF IInv, OutageInv, OutageForEachTry, GivenUpByOutages
<1> QED BY <1>1, Invariant, PTL

\* Every migration that happens can be undone by the downgrades, table by
\* table.
THEOREM UpgradeReversibleHolds == Spec => UpgradeReversible
<1> DEFINE Undone ==
        schema'.revision # schema.revision =>
          CASE schema.revision = "base" ->
                   Downgrade0001(Downgrade0002(schema')) = schema
            [] schema.revision = "0001" -> Downgrade0002(schema') = schema
<1>1. IInv /\ [Next]_vars => [Undone]_vars
  <2> SUFFICES ASSUME IInv, Next, schema'.revision # schema.revision PROVE Undone
    OBVIOUS
  <2>1. schema \in Schemas /\ schema.tables \subseteq Models
        /\ schema.versionHash \in BOOLEAN
        /\ deployed \in {"base", "0001", "0002"}
    BY DeploymentsAssumption DEF IInv, TypeOK, Schemas
  <2>2. schema.revision = "0001" => RunTables \subseteq schema.tables
    BY <2>1, RevisionFacts, TableFacts DEF IInv, SchemaInv, Full
  <2>3. CanUpgrade(schema) /\ schema' = Upgraded(schema)
    <3>1. ASSUME NEW p \in Processes, ProbeCreate(p)
          PROVE  schema'.revision = schema.revision
      <4>1. schema' = Created(schema, missing[p]) /\ missing[p] \in SUBSET Models
        BY <3>1 DEF ProbeCreate, IInv, TypeOK
      <4> QED BY <2>1, <4>1, CreatedFacts
    <3>2. UpgradeHead \/ schema' = schema \/ (\E p \in Processes : ProbeCreate(p))
      BY FailsFacts
      DEF Next, ApiStep, RequestStep, WorkerStep, Probe, DatabaseDown, DatabaseUp,
          ApiStart, ApiDies, ProbeLook, ProbeFails, PutLook, PutInsert, Submit, RunInline,
          RunInlineEvents, Refuse, Poll, Take, TaskVersion, TaskInsert, TaskSave,
          TaskEvents, Retry, WorkerDies, Processes, database
    <3> QED BY <3>1, <3>2 DEF UpgradeHead
  <2>4. CASE schema.revision = "base"
    <3>1. /\ schema.tables = {} /\ schema' = Upgrade0002(Upgrade0001(schema))
          /\ schema.versionHash = FALSE
      BY <2>1, <2>2, <2>3, <2>4, UpgradedFacts
    <3>2. /\ schema' \in Schemas /\ schema'.tables \subseteq Models
      BY <2>1, <2>2, <2>3, UpgradedFacts DEF Schemas
    <3>3. /\ Downgrade0002(schema') \in Schemas
          /\ Downgrade0002(schema').tables = schema'.tables \ RuntimeTables
          /\ Downgrade0002(schema').versionHash = FALSE
      BY <3>2, UpgradeFacts
    <3>4. /\ Downgrade0001(Downgrade0002(schema')) \in Schemas
          /\ Downgrade0001(Downgrade0002(schema')).tables
                = Downgrade0002(schema').tables \ RunTables
          /\ Downgrade0001(Downgrade0002(schema')).versionHash
                = Downgrade0002(schema').versionHash
          /\ Downgrade0001(Downgrade0002(schema')).revision = "base"
      BY <3>3, UpgradeFacts
    <3>5. Downgrade0001(Downgrade0002(schema')).tables = {}
      BY <3>2, <3>3, <3>4, TableFacts
    <3>6. Downgrade0001(Downgrade0002(schema')) = schema
      BY <2>1, <2>4, <3>1, <3>3, <3>4, <3>5, SchemaEqual
    <3> QED BY <2>4, <3>6
  <2>5. CASE schema.revision = "0001"
    <3>1. /\ schema.tables = RunTables /\ schema' = Upgrade0002(schema)
          /\ schema.versionHash = FALSE
      BY <2>1, <2>2, <2>3, <2>5, UpgradedFacts
    <3>2. schema' \in Schemas /\ schema'.tables = schema.tables \cup RuntimeTables
      BY <2>1, <3>1, UpgradeFacts
    <3>3. /\ Downgrade0002(schema') \in Schemas
          /\ Downgrade0002(schema').tables = schema'.tables \ RuntimeTables
          /\ Downgrade0002(schema').versionHash = FALSE
          /\ Downgrade0002(schema').revision = "0001"
      BY <3>2, UpgradeFacts
    <3>4. Downgrade0002(schema').tables = schema.tables
      BY <3>1, <3>2, <3>3, TableFacts
    <3>5. Downgrade0002(schema') = schema
      BY <2>1, <2>5, <3>1, <3>3, <3>4, SchemaEqual
    <3> QED BY <2>5, <3>5
  <2>6. schema.revision # "0002"
    BY <2>1, <2>2, <2>3, UpgradedFacts
  <2>7. schema.revision \in {"base", "0001", "0002"}
    BY <2>1 DEF Schemas
  <2> QED BY <2>4, <2>5, <2>6, <2>7
<1> QED
  BY <1>1, Invariant, PTL DEF Spec, UpgradeReversible
=============================================================================
