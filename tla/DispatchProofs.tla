--------------------------- MODULE DispatchProofs ---------------------------
(***************************************************************************)
(* Theorems about module Dispatch, for any number of requests and workers, *)
(* any texts and hash, every lock setting and every choice of what fails.  *)
(***************************************************************************)
EXTENDS Dispatch, TLAPS

\* The places of a thread between its first step and its last.
Working == {"claim", "lock", "pin", "put", "insert", "enqueue", "parse",
            "save", "events", "return"}

\* ... and those behind a put that has hashed the definition.
Hashed == {"insert", "enqueue", "parse", "save", "events", "return"}

\* What a thread has at each place.
PlaceInv ==
    /\ \A t \in Threads :
          /\ pc[t] \in Working => job[t] \in Job /\ text[t] \in Texts
          /\ pc[t] \in Hashed => text[t] \notin Malformed
          /\ pc[t] = "idle" => job[t] = NoJob
    /\ \A w \in Workers : pc[w] \notin {"claim", "lock", "enqueue", "answered"}
    /\ \A r \in Requests :
          /\ job[r] \in Job => job[r].from = r
          /\ pc[r] \in {"lock", "pin", "parse", "save", "events", "return"}
                => ~job[r].async
          /\ pc[r] = "claim" => job[r].key # None
          /\ pc[r] = "enqueue" => job[r].async
          /\ reply[r] # None => pc[r] = "answered"

-----------------------------------------------------------------------------
(* Types.                                                                   *)

\* NoJob is no job of a request.
LEMMA NoJobNotAJob == NoJob \notin Job
BY NamesAssumption DEF NoJob, Job, Threads

\* A text that is YAML has a hash.
LEMMA HashType == \A x \in Texts \ Malformed : Hash[x] \in Hashes
BY DEF Hashes

LEMMA TypeInit == Init => TypeOK /\ PlaceInv
<1> SUFFICES ASSUME Init PROVE TypeOK /\ PlaceInv
  OBVIOUS
<1>1. TypeOK
  <2>1. Hash[OldText] \in Hashes
    BY TextsAssumption, HashType
  <2>2. versions \in [Hashes -> Texts \cup {None}]
    BY TextsAssumption DEF Init
  <2>3. OldExecution \in Execution \cup {OldExecution}
    OBVIOUS
  <2>4. runs \in [RunIds -> Record \cup {None}]
    BY <2>1, <2>3, TextsAssumption DEF Init, Record
  <2>5. events \in [RunIds -> Execution \cup {OldExecution, None}]
    BY DEF Init
  <2> QED
    BY <2>2, <2>4, <2>5 DEF Init, TypeOK
<1>2. PlaceInv
  BY NamesAssumption, NoJobNotAJob DEF Init, PlaceInv, Working, Hashed, Threads
<1> QED BY <1>1, <1>2

\* What Answer and Raise do to the variables they speak of.
LEMMA AnswerType ==
    ASSUME TypeOK, PlaceInv, NEW r \in Requests, NEW code \in Replies,
           Answer(r, code)
    PROVE  /\ pc' = [pc EXCEPT ![r] = "answered"]
           /\ reply' = [reply EXCEPT ![r] = code]
           /\ lock' \in [Hashes -> Requests \cup {None}]
BY DEF TypeOK, Answer, Goto, Released

\* A task that is tried again is a job.
LEMMA RetriedJob ==
    \A m \in Job : [m EXCEPT !.tries = IF @ < MaxRetries THEN @ + 1 ELSE @] \in Job
BY SettingsAssumption DEF Job

LEMMA RaiseType ==
    ASSUME TypeOK, PlaceInv, NEW t \in Threads, NEW code \in Replies,
           pc[t] \in Working, Raise(t, code), UNCHANGED <<lockMode, stores>>
    PROVE  TypeOK' /\ PlaceInv'
<1>1. CASE t \in Requests
  <2>1. Answer(t, code) /\ UNCHANGED <<queue, job, text>>
    BY <1>1, NamesAssumption DEF Raise
  <2>2. /\ pc' = [pc EXCEPT ![t] = "answered"]
        /\ reply' = [reply EXCEPT ![t] = code]
        /\ lock' \in [Hashes -> Requests \cup {None}]
    BY <1>1, <2>1, AnswerType
  <2>3. TypeOK'
    BY <1>1, <2>1, <2>2 DEF TypeOK, stores
  <2>4. PlaceInv'
    BY <1>1, <2>1, <2>2, NamesAssumption
       DEF TypeOK, PlaceInv, Working, Hashed, Threads
  <2> QED BY <2>3, <2>4
<1>2. CASE t \in Workers
  <2>1. /\ pc' = [pc EXCEPT ![t] = "idle"]
        /\ job' = [job EXCEPT ![t] = NoJob]
        /\ text' = [text EXCEPT ![t] = None]
        /\ queue' \in {queue, queue \cup {[job[t] EXCEPT !.tries =
                                     IF @ < MaxRetries THEN @ + 1 ELSE @]}}
        /\ UNCHANGED <<reply, lock>>
    BY <1>2, NamesAssumption DEF Raise, Retry, TaskEnds, Goto
  <2>2. job[t] \in Job
    BY DEF PlaceInv
  <2>3. queue' \subseteq Job
    BY <2>1, <2>2, RetriedJob DEF TypeOK
  <2>4. TypeOK'
    BY <1>2, <2>1, <2>3 DEF TypeOK, stores
  <2>5. PlaceInv'
    BY <1>2, <2>1, NamesAssumption
       DEF TypeOK, PlaceInv, Working, Hashed, Threads
  <2> QED BY <2>4, <2>5
<1> QED BY <1>1, <1>2 DEF Threads

LEMMA ArriveType ==
    ASSUME TypeOK, PlaceInv, NEW r \in Requests, Arrive(r)
    PROVE  TypeOK' /\ PlaceInv'
<1> r \in Threads /\ r \in RunIds
  BY DEF Threads, RunIds
<1>1. ASSUME NEW x \in Texts, NEW k \in Keys \cup {None}, NEW async \in BOOLEAN,
             ArriveRun(r, x, k, async)
      PROVE  TypeOK' /\ PlaceInv'
  <2>1. [run |-> r, text |-> x, pinned |-> None, key |-> k,
         async |-> async, from |-> r, tries |-> 0] \in Job
    BY SettingsAssumption DEF Job
  <2>2. pc'[r] \in {"claim", "put", "pin", "lock"}
    BY <1>1 DEF ArriveRun, Goto, DispatchLabel, TypeOK
  <2>3. TypeOK'
    BY <1>1, <2>1, <2>2 DEF ArriveRun, Goto, TypeOK, stores
  <2>4. PlaceInv'
    BY <1>1, <2>1, <2>2, NamesAssumption
       DEF ArriveRun, Goto, DispatchLabel, TypeOK, PlaceInv, Working, Hashed, Threads
  <2> QED BY <2>3, <2>4
<1>2. ASSUME NEW i \in RunIds, NEW async \in BOOLEAN, ArriveRerun(r, i, async)
      PROVE  TypeOK' /\ PlaceInv'
  <2>1. runs[i] \in Record
    BY <1>2 DEF ArriveRerun, TypeOK
  <2>2. [run |-> i, text |-> runs[i].text, pinned |-> runs[i].version,
         key |-> None, async |-> async, from |-> r, tries |-> 0] \in Job
    BY <2>1, SettingsAssumption DEF Job, Record
  <2>3. pc'[r] \in {"put", "pin", "lock"}
    BY <1>2 DEF ArriveRerun, Goto, DispatchLabel, TypeOK
  <2>4. TypeOK'
    BY <1>2, <2>1, <2>2, <2>3 DEF ArriveRerun, Goto, TypeOK, stores, Record
  <2>5. PlaceInv'
    BY <1>2, <2>1, <2>2, <2>3, NamesAssumption
       DEF ArriveRerun, Goto, DispatchLabel, TypeOK, PlaceInv, Working, Hashed,
           Threads, Record
  <2> QED BY <2>4, <2>5
<1>3. ASSUME NEW i \in RunIds, RerunUnknown(r, i)
      PROVE  TypeOK' /\ PlaceInv'
  <2>1. /\ pc' = [pc EXCEPT ![r] = "answered"]
        /\ reply' = [reply EXCEPT ![r] = "404"]
        /\ lock' \in [Hashes -> Requests \cup {None}]
    BY <1>3, AnswerType DEF RerunUnknown, Replies
  <2>2. TypeOK'
    BY <1>3, <2>1 DEF RerunUnknown, TypeOK, stores, Replies
  <2>3. PlaceInv'
    BY <1>3, <2>1, NamesAssumption, NoJobNotAJob
       DEF RerunUnknown, TypeOK, PlaceInv, Working, Hashed, Threads
  <2> QED BY <2>2, <2>3
<1> QED BY <1>1, <1>2, <1>3 DEF Arrive

LEMMA RequestType ==
    ASSUME TypeOK, PlaceInv, NEW r \in Requests,
           \/ Claim(r) \/ ClaimConflict(r) \/ Acquire(r) \/ AcquireFails(r)
           \/ Enqueue(r) \/ BrokerFails(r)
    PROVE  TypeOK' /\ PlaceInv'
<1> r \in Threads /\ r \notin Workers
  BY NamesAssumption DEF Threads
<1>1. CASE Claim(r)
  <2>1. job[r] \in Job /\ job[r].key \in Keys
    BY <1>1 DEF Claim, PlaceInv, Working, TypeOK, Claimable, Job
  <2>2. pc'[r] \in {"put", "pin", "lock"}
    BY <1>1 DEF Claim, Goto, DispatchLabel, TypeOK
  <2>3. TypeOK'
    BY <1>1, <2>1, <2>2 DEF Claim, Goto, TypeOK
  <2>4. PlaceInv'
    BY <1>1, <2>1, <2>2, NamesAssumption
       DEF Claim, Goto, DispatchLabel, TypeOK, PlaceInv, Working, Hashed, Threads
  <2> QED BY <2>3, <2>4
<1>2. CASE Acquire(r)
  <2>1. job[r] \in Job
    BY <1>2 DEF Acquire, PlaceInv, Working
  <2>2. TypeOK'
    BY <1>2 DEF Acquire, Goto, TypeOK, stores
  <2>3. PlaceInv'
    BY <1>2, <2>1 DEF Acquire, Goto, TypeOK, PlaceInv, Working, Hashed, Threads
  <2> QED BY <2>2, <2>3
<1>3. ASSUME NEW code \in Replies, pc[r] \in Working, Answer(r, code),
             UNCHANGED <<lockMode, stores, job, text>>, queue' \subseteq Job
      PROVE  TypeOK' /\ PlaceInv'
  <2>1. /\ pc' = [pc EXCEPT ![r] = "answered"]
        /\ reply' = [reply EXCEPT ![r] = code]
        /\ lock' \in [Hashes -> Requests \cup {None}]
    BY <1>3, AnswerType
  <2>2. TypeOK'
    BY <1>3, <2>1 DEF TypeOK, stores
  <2>3. PlaceInv'
    BY <1>3, <2>1 DEF TypeOK, PlaceInv, Working, Hashed, Threads
  <2> QED BY <2>2, <2>3
<1>4. CASE Enqueue(r)
  <2>1. job[r] \in Job /\ text[r] \in Texts \ Malformed
    BY <1>4 DEF Enqueue, PlaceInv, Working, Hashed
  <2>2. Hash[text[r]] \in Hashes
    BY <2>1, HashType
  <2>3. [job[r] EXCEPT !.pinned = IF @ = None THEN Hash[text[r]] ELSE @] \in Job
    BY <2>1, <2>2 DEF Job
  <2>4. queue' \subseteq Job
    BY <1>4, <2>3 DEF Enqueue, TypeOK
  <2> QED
    BY <1>3, <1>4, <2>4 DEF Enqueue, Working, Replies
<1>5. CASE ClaimConflict(r) \/ BrokerFails(r)
  BY <1>3, <1>5 DEF ClaimConflict, BrokerFails, Working, Replies, TypeOK
<1>6. CASE AcquireFails(r)
  BY <1>3, <1>6 DEF AcquireFails, Working, Replies, TypeOK
<1> QED BY <1>1, <1>2, <1>4, <1>5, <1>6

LEMMA RunType ==
    ASSUME TypeOK, PlaceInv, NEW t \in Threads, RunStep(t)
    PROVE  TypeOK' /\ PlaceInv'
<1>1. ASSUME NEW label \in Hashed, Goto(t, label), pc[t] \in {"pin", "put"} \cup Hashed,
             text[t] \notin Malformed,
             label = "enqueue" <=> Async(t) /\ pc[t] \in {"put", "insert"}
                                            /\ label # "insert",
             UNCHANGED <<lockMode, claims, lock, queue, job, text, reply>>,
             versions' \in [Hashes -> Texts \cup {None}],
             runs' \in [RunIds -> Record \cup {None}],
             events' \in [RunIds -> Execution \cup {OldExecution, None}],
             Async(t) => pc[t] \in {"put", "insert"} /\ label \in {"insert", "enqueue"}
      PROVE  TypeOK' /\ PlaceInv'
  <2>1. job[t] \in Job /\ text[t] \in Texts
    BY <1>1 DEF PlaceInv, Working, Hashed
  <2>2. TypeOK'
    BY <1>1 DEF TypeOK, Goto, Hashed
  <2>3. PlaceInv'
    BY <1>1, <2>1, NamesAssumption
       DEF TypeOK, PlaceInv, Working, Hashed, Threads, Goto, Async, Job
  <2> QED BY <2>2, <2>3
<1>2. CASE Pin(t)
  <2>1. job[t] \in Job /\ text[t] \in Texts
    BY <1>2 DEF Pin, PlaceInv, Working
  <2>2. text'[t] \in Texts
    BY <1>2, <2>1 DEF Pin, TypeOK, Job
  <2>3. TypeOK'
    BY <1>2, <2>2 DEF Pin, Goto, TypeOK, stores
  <2>4. PlaceInv'
    BY <1>2, <2>1, <2>2 DEF Pin, Goto, TypeOK, PlaceInv, Working, Hashed, Threads
  <2> QED BY <2>3, <2>4
<1>3. CASE PutFinds(t)
  <2>1. PICK label \in {"enqueue", "parse"} : label = AfterPut(t)
    BY DEF AfterPut
  <2> QED
    BY <1>1, <1>3, <2>1 DEF PutFinds, AfterPut, Hashed, stores, TypeOK
<1>4. CASE PutMisses(t)
  BY <1>1, <1>4 DEF PutMisses, Hashed, stores, TypeOK
<1>5. CASE Insert(t)
  <2>1. PICK label \in {"enqueue", "parse"} : label = AfterPut(t)
    BY DEF AfterPut
  <2>2. text[t] \in Texts \ Malformed
    BY <1>5 DEF Insert, PlaceInv, Working, Hashed
  <2>3. versions' \in [Hashes -> Texts \cup {None}]
    BY <1>5, <2>2, HashType DEF Insert, TypeOK
  <2> QED
    BY <1>1, <1>5, <2>1, <2>2, <2>3 DEF Insert, AfterPut, Hashed, TypeOK
<1>6. CASE Parse(t)
  <2>1. text[t] \notin Malformed /\ ~Async(t)
    BY <1>6 DEF Parse, PlaceInv, Hashed, Async
  <2> QED
    BY <1>1, <1>6, <2>1 DEF Parse, Hashed, stores, TypeOK
<1>7. ASSUME pc[t] \in Hashed
      PROVE  Exec(t) \in Execution /\ text[t] \in Texts \ Malformed
  BY <1>7 DEF PlaceInv, Working, Hashed, Exec, Execution, Job
<1>8. CASE SaveRun(t)
  <2>1. Exec(t) \in Execution /\ text[t] \in Texts \ Malformed /\ ~Async(t)
    BY <1>7, <1>8 DEF SaveRun, Hashed, PlaceInv, Async
  <2>2. SavedRecord(t) \in Record
    BY <2>1, HashType DEF SavedRecord, Record
  <2>3. runs' \in [RunIds -> Record \cup {None}]
    BY <1>8, <2>2 DEF SaveRun, TypeOK
  <2> QED
    BY <1>1, <1>8, <2>1, <2>3 DEF SaveRun, Hashed, TypeOK
<1>9. CASE SaveEvents(t)
  <2>1. Exec(t) \in Execution /\ text[t] \in Texts \ Malformed /\ ~Async(t)
    BY <1>7, <1>9 DEF SaveEvents, Hashed, PlaceInv, Async
  <2>2. events' \in [RunIds -> Execution \cup {OldExecution, None}]
    BY <1>9, <2>1 DEF SaveEvents, TypeOK
  <2> QED
    BY <1>1, <1>9, <2>1, <2>2 DEF SaveEvents, Hashed, TypeOK
<1>10. CASE Return(t)
  <2>1. CASE t \in Requests
    <3>1. Answer(t, "sync") /\ UNCHANGED <<lockMode, stores, queue, job, text>>
      BY <1>10, <2>1, NamesAssumption DEF Return
    <3> QED
      BY <1>10, <2>1, <3>1, RaiseType DEF Raise, Return, Working, Replies
  <2>2. CASE t \in Workers
    <3>1. /\ pc' = [pc EXCEPT ![t] = "idle"]
          /\ job' = [job EXCEPT ![t] = NoJob]
          /\ text' = [text EXCEPT ![t] = None]
          /\ UNCHANGED <<lockMode, stores, queue, reply, lock>>
      BY <1>10, <2>2, NamesAssumption DEF Return, TaskEnds, Goto
    <3>2. TypeOK'
      BY <2>2, <3>1 DEF TypeOK, stores
    <3>3. PlaceInv'
      BY <2>2, <3>1, NamesAssumption DEF TypeOK, PlaceInv, Working, Hashed, Threads
    <3> QED BY <3>2, <3>3
  <2> QED BY <2>1, <2>2 DEF Threads
<1>11. CASE PutRefuses(t) \/ InsertConflict(t) \/ ParseFails(t)
           \/ ExecuteRaises(t) \/ StoreFails(t)
  <2>1. PICK code \in {"422", "500", "503"} : Raise(t, code)
    BY <1>11 DEF PutRefuses, InsertConflict, ParseFails, ExecuteRaises, StoreFails
  <2>2. pc[t] \in Working /\ UNCHANGED <<lockMode, stores>>
    BY <1>11
    DEF PutRefuses, InsertConflict, ParseFails, ExecuteRaises, StoreFails, Working
  <2> QED
    BY <2>1, <2>2, RaiseType DEF Replies
<1> QED
  BY <1>2, <1>3, <1>4, <1>5, <1>6, <1>8, <1>9, <1>10, <1>11 DEF RunStep

LEMMA TakeType ==
    ASSUME TypeOK, PlaceInv, NEW w \in Workers, NEW m \in queue, Take(w, m)
    PROVE  TypeOK' /\ PlaceInv'
<1>1. m \in Job /\ m.text \in Texts
  BY DEF TypeOK, Job
<1>2. TypeOK'
  BY <1>1 DEF Take, Goto, TypeOK, stores, Threads
<1>3. PlaceInv'
  BY <1>1, NamesAssumption DEF Take, Goto, TypeOK, PlaceInv, Working, Hashed, Threads
<1> QED BY <1>2, <1>3

LEMMA TypeStep == TypeOK /\ PlaceInv /\ [Next]_vars => TypeOK' /\ PlaceInv'
<1> SUFFICES ASSUME TypeOK, PlaceInv, [Next]_vars PROVE TypeOK' /\ PlaceInv'
  OBVIOUS
<1>1. ASSUME NEW h \in Hashes, Expire(h) PROVE TypeOK' /\ PlaceInv'
  BY <1>1 DEF Expire, TypeOK, PlaceInv, stores
<1>2. ASSUME UNCHANGED vars PROVE TypeOK' /\ PlaceInv'
  BY <1>2 DEF vars, stores, TypeOK, PlaceInv
<1> QED
  BY <1>1, <1>2, ArriveType, RequestType, RunType, TakeType
     DEF Next, RequestStep, WorkerStep, Quiet, Threads

-----------------------------------------------------------------------------
(* What a step may change.                                                  *)

Raises(t, code) ==
    /\ pc[t] \in Working
    /\ Raise(t, code)
    /\ UNCHANGED <<lockMode, stores>>

\* A step is one of these; the exceptions of all places are alike.
LEMMA Steps ==
    ASSUME TypeOK, PlaceInv, [Next]_vars
    PROVE  \/ \E r \in Requests : Arrive(r)
           \/ \E r \in Requests : Claim(r) \/ Acquire(r) \/ Enqueue(r)
           \/ \E r \in Requests, code \in Replies :
                 /\ code # "sync"
                 /\ pc[r] \in {"claim", "lock", "enqueue"}
                 /\ pc[r] = "claim" => code = "409 key"
                 /\ Answer(r, code)
                 /\ UNCHANGED <<lockMode, stores, queue, job, text>>
           \/ \E t \in Threads :
                 \/ Pin(t) \/ PutFinds(t) \/ PutMisses(t) \/ Insert(t)
                 \/ Parse(t) \/ SaveRun(t) \/ SaveEvents(t) \/ Return(t)
           \/ \E t \in Threads, code \in {"422", "500", "503"} :
                 Raises(t, code) /\ (pc[t] = "claim" => code = "503")
           \/ \E w \in Workers, m \in queue : Take(w, m)
           \/ \E h \in Hashes : Expire(h)
           \/ UNCHANGED vars
<1>1. ASSUME NEW t \in Threads, RunStep(t)
      PROVE  \/ Pin(t) \/ PutFinds(t) \/ PutMisses(t) \/ Insert(t)
             \/ Parse(t) \/ SaveRun(t) \/ SaveEvents(t) \/ Return(t)
             \/ \E code \in {"422", "500", "503"} :
                   Raises(t, code) /\ (pc[t] = "claim" => code = "503")
  BY <1>1 DEF RunStep, PutRefuses, InsertConflict, ParseFails, ExecuteRaises, StoreFails,
              Raises, Working
<1>2. ASSUME NEW r \in Requests,
             ClaimConflict(r) \/ AcquireFails(r) \/ BrokerFails(r)
      PROVE  \E code \in Replies :
                 /\ code # "sync"
                 /\ pc[r] \in {"claim", "lock", "enqueue"}
                 /\ pc[r] = "claim" => code = "409 key"
                 /\ Answer(r, code)
                 /\ UNCHANGED <<lockMode, stores, queue, job, text>>
  <2>1. CASE ClaimConflict(r)
    BY <2>1 DEF ClaimConflict, Replies
  <2>2. CASE BrokerFails(r)
    BY <2>2 DEF BrokerFails, Replies
  <2>3. CASE AcquireFails(r)
    BY <2>3 DEF AcquireFails, Replies
  <2> QED BY <1>2, <2>1, <2>2, <2>3
<1> QED
  BY <1>1, <1>2 DEF Next, RequestStep, WorkerStep, Quiet, Threads

\* A version that is stored is not written again.
LEMMA VersionsGrow ==
    ASSUME TypeOK, PlaceInv, [Next]_vars
    PROVE  \A h \in Hashes : versions[h] # None => versions'[h] = versions[h]
<1>1. ASSUME NEW t \in Threads, Insert(t)
      PROVE  \A h \in Hashes : versions[h] # None => versions'[h] = versions[h]
  BY <1>1 DEF Insert, InsertFits, TypeOK
<1>2. CASE \E t \in Threads : Insert(t)
  BY <1>1, <1>2
<1>3. CASE ~ \E t \in Threads : Insert(t)
  <2>1. versions' = versions
    BY <1>3, Steps DEF Arrive, ArriveRun, ArriveRerun, RerunUnknown, Claim, Acquire,
       Enqueue, Pin, PutFinds, PutMisses, Parse, SaveRun, SaveEvents, Return, Raises,
       Take, Expire, vars, stores
  <2> QED BY <2>1
<1> QED BY <1>2, <1>3

\* Who changes jobs, messages, runs and events.
LEMMA DataChanges ==
    ASSUME TypeOK, PlaceInv, [Next]_vars
    PROVE  /\ \A r \in Requests : job'[r] = job[r] \/ Arrive(r)
           /\ \A r \in Requests : pc'[r] = "idle" => pc[r] = "idle"
           /\ \A w \in Workers : job'[w] \in {job[w], NoJob} \cup queue
           /\ \A m \in queue' \ queue :
                 \/ \E r \in Requests : Enqueue(r) /\ m = [job[r] EXCEPT !.pinned =
                                            IF @ = None THEN Hash[text[r]] ELSE @]
                 \/ \E w \in Workers : pc[w] \in Working /\ m = [job[w] EXCEPT !.tries =
                                            IF @ < MaxRetries THEN @ + 1 ELSE @]
           /\ runs' = runs \/ \E t \in Threads : SaveRun(t)
           /\ events' = events \/ \E t \in Threads : SaveEvents(t)
<1>1. ASSUME NEW t \in Threads,
             Return(t) \/ \E code \in {"422", "500", "503"} : Raises(t, code)
      PROVE  /\ \A r \in Requests : job'[r] = job[r]
             /\ \A r \in Requests : pc'[r] = "idle" => pc[r] = "idle"
             /\ \A w \in Workers : job'[w] \in {job[w], NoJob}
  BY <1>1, NamesAssumption DEF Return, Raises, Raise, Retry, TaskEnds, Answer, Goto,
     TypeOK, Threads
<1>2. ASSUME NEW r \in Requests, Arrive(r)
      PROVE  /\ \A q \in Requests : job'[q] = job[q] \/ q = r
             /\ \A q \in Requests : pc'[q] = "idle" => pc[q] = "idle"
             /\ \A w \in Workers : job'[w] = job[w]
  BY <1>2, NamesAssumption DEF Arrive, ArriveRun, ArriveRerun, RerunUnknown, Answer,
     Goto, TypeOK, Threads
<1>3. ASSUME NEW w \in Workers, NEW m \in queue, Take(w, m)
      PROVE  /\ \A r \in Requests : job'[r] = job[r] /\ pc'[r] = pc[r]
             /\ \A v \in Workers : job'[v] \in {job[v]} \cup queue
  BY <1>3, NamesAssumption DEF Take, Goto, TypeOK, Threads
<1>4. \A r \in Requests : job'[r] = job[r] \/ Arrive(r)
  BY <1>1, <1>2, <1>3, Steps DEF Claim, Acquire, Enqueue, Pin, PutFinds, PutMisses,
     Insert, Parse, SaveRun, SaveEvents, Expire, vars
<1>5. \A w \in Workers : job'[w] \in {job[w], NoJob} \cup queue
  BY <1>1, <1>2, <1>3, Steps DEF Claim, Acquire, Enqueue, Pin, PutFinds, PutMisses,
     Insert, Parse, SaveRun, SaveEvents, Expire, vars
<1>6. \A r \in Requests : pc'[r] = "idle" => pc[r] = "idle"
  <2>1. ASSUME NEW q \in Requests,
               Claim(q) \/ Acquire(q) \/ \E code \in Replies : Answer(q, code)
        PROVE  \A r \in Requests : pc'[r] = "idle" => pc[r] = "idle"
    BY <2>1 DEF Claim, Acquire, Answer, DispatchLabel, Goto, TypeOK, Threads
  <2>2. ASSUME NEW q \in Requests, Enqueue(q)
        PROVE  \A r \in Requests : pc'[r] = "idle" => pc[r] = "idle"
    BY <2>1, <2>2 DEF Enqueue, Replies
  <2>3. ASSUME NEW t \in Threads, Pin(t) \/ PutFinds(t) \/ PutMisses(t) \/ Insert(t)
                     \/ Parse(t) \/ SaveRun(t) \/ SaveEvents(t)
        PROVE  \A r \in Requests : pc'[r] = "idle" => pc[r] = "idle"
    BY <2>3 DEF Pin, PutFinds, PutMisses, Insert, Parse, SaveRun, SaveEvents,
       AfterPut, Goto, TypeOK, Threads
  <2> QED
    BY <1>1, <1>2, <1>3, <2>1, <2>2, <2>3, Steps DEF Expire, vars
<1>7. ASSUME NEW m \in queue' \ queue
      PROVE  \/ \E r \in Requests : Enqueue(r) /\ m = [job[r] EXCEPT !.pinned =
                                            IF @ = None THEN Hash[text[r]] ELSE @]
             \/ \E w \in Workers : pc[w] \in Working /\ m = [job[w] EXCEPT !.tries =
                                            IF @ < MaxRetries THEN @ + 1 ELSE @]
  <2>1. \/ \E r \in Requests : Enqueue(r)
        \/ \E w \in Workers, code \in {"422", "500", "503"} : Raises(w, code)
    BY <1>7, Steps, NamesAssumption DEF Arrive, ArriveRun, ArriveRerun,
       RerunUnknown, Claim, Acquire, Pin, PutFinds, PutMisses, Insert, Parse,
       SaveRun, SaveEvents, Return, Raises, Raise, Take, Expire, vars, Threads
  <2>2. ASSUME NEW r \in Requests, Enqueue(r)
        PROVE  m = [job[r] EXCEPT !.pinned = IF @ = None THEN Hash[text[r]] ELSE @]
    BY <1>7, <2>2 DEF Enqueue
  <2>3. ASSUME NEW w \in Workers, NEW code \in {"422", "500", "503"}, Raises(w, code)
        PROVE  /\ pc[w] \in Working
               /\ m = [job[w] EXCEPT !.tries = IF @ < MaxRetries THEN @ + 1 ELSE @]
    BY <1>7, <2>3, NamesAssumption DEF Raises, Raise, Retry
  <2> QED BY <2>1, <2>2, <2>3
<1>8. runs' = runs \/ \E t \in Threads : SaveRun(t)
  BY Steps DEF Arrive, ArriveRun, ArriveRerun, RerunUnknown, Claim, Acquire, Enqueue,
     Pin, PutFinds, PutMisses, Insert, Parse, SaveEvents, Return, Raises, Take,
     Expire, vars, stores
<1>9. events' = events \/ \E t \in Threads : SaveEvents(t)
  BY Steps DEF Arrive, ArriveRun, ArriveRerun, RerunUnknown, Claim, Acquire, Enqueue,
     Pin, PutFinds, PutMisses, Insert, Parse, SaveRun, Return, Raises, Take, Expire,
     vars, stores
<1> QED BY <1>4, <1>5, <1>6, <1>7, <1>8, <1>9

\* VersionsFinal: a stored version never changes, although put looks and
\* inserts in two steps.
THEOREM VersionsAreFinal == Spec => VersionsFinal
<1>1. TypeOK /\ PlaceInv /\ [Next]_vars =>
        [\A h \in Hashes : versions[h] # None => versions'[h] = versions[h]]_vars
  BY VersionsGrow
<1> QED
  BY <1>1, TypeInit, TypeStep, PTL DEF Spec, VersionsFinal

-----------------------------------------------------------------------------
(* Versions.                                                                *)

\* The places behind the put of the definition.
Kept == {"enqueue", "parse", "save", "events", "return"}

Stored(h) == h # None => versions[h] # None

VersionInv ==
    /\ \A h \in Hashes : versions[h] # None =>
          versions[h] \notin Malformed /\ Hash[versions[h]] = h
    /\ \A t \in Threads : pc[t] \in Kept => versions[Hash[text[t]]] # None
    /\ \A t \in Threads : Stored(job[t].pinned)
    /\ \A m \in queue : Stored(m.pinned)
    /\ \A i \in RunIds : runs[i] # None => Stored(runs[i].version)

\* What a thread works on has a hash once put has seen it, and its job pins
\* a hash or nothing.
LEMMA ThreadTypes ==
    ASSUME TypeOK, PlaceInv
    PROVE  /\ \A t \in Threads : job[t].pinned \in Hashes \cup {None}
           /\ \A m \in queue : m.pinned \in Hashes \cup {None}
           /\ \A i \in RunIds : runs[i] # None => runs[i].version \in Hashes
           /\ \A t \in Threads : pc[t] \in Hashed =>
                 text[t] \in Texts \ Malformed /\ Hash[text[t]] \in Hashes
<1>1. \A t \in Threads : job[t].pinned \in Hashes \cup {None}
  BY DEF TypeOK, Job, NoJob
<1>2. \A m \in queue : m.pinned \in Hashes \cup {None}
  BY DEF TypeOK, Job
<1>3. \A i \in RunIds : runs[i] # None => runs[i].version \in Hashes
  BY DEF TypeOK, Record
<1>4. \A t \in Threads : pc[t] \in Hashed =>
         text[t] \in Texts \ Malformed /\ Hash[text[t]] \in Hashes
  BY HashType DEF PlaceInv, Working, Hashed
<1> QED BY <1>1, <1>2, <1>3, <1>4

LEMMA VersionInit == Init => VersionInv
<1> SUFFICES ASSUME Init PROVE VersionInv
  OBVIOUS
<1>1. OldText \in Texts \ Malformed /\ Hash[OldText] \in Hashes
  BY TextsAssumption, HashType
<1>2. \A h \in Hashes : versions[h] # None => h = Hash[OldText] /\ versions[h] = OldText
  BY DEF Init
<1>3. versions[Hash[OldText]] # None
  BY <1>1, NamesAssumption DEF Init
<1>4. \A i \in RunIds : runs[i] # None => runs[i].version = Hash[OldText]
  BY DEF Init
<1>5. queue = {}
  BY DEF Init
<1> QED
  BY <1>1, <1>2, <1>3, <1>4, <1>5 DEF Init, VersionInv, Stored, NoJob, Kept

LEMMA VersionStep ==
    ASSUME TypeOK, PlaceInv, VersionInv, [Next]_vars
    PROVE  VersionInv'
<1>1. \A h \in Hashes : versions[h] # None => versions'[h] = versions[h]
  BY VersionsGrow
<1>2. \A h \in Hashes \cup {None} : Stored(h) => Stored(h)'
  BY <1>1 DEF Stored
<1>3. ASSUME NEW t \in Threads, pc[t] \in Kept
      PROVE  versions'[Hash[text[t]]] # None
  BY <1>1, <1>3, ThreadTypes DEF VersionInv, Kept, Hashed
<1>4. \A h \in Hashes : versions'[h] # None =>
         versions'[h] \notin Malformed /\ Hash[versions'[h]] = h
  <2>1. ASSUME NEW t \in Threads, Insert(t)
        PROVE  \A h \in Hashes : versions'[h] # None =>
                  versions'[h] \notin Malformed /\ Hash[versions'[h]] = h
    BY <2>1, ThreadTypes DEF Insert, VersionInv, TypeOK, Hashed
  <2>2. CASE ~ \E t \in Threads : Insert(t)
    <3>1. versions' = versions
      BY <2>2, Steps DEF Arrive, ArriveRun, ArriveRerun, RerunUnknown, Claim,
         Acquire, Enqueue, Pin, PutFinds, PutMisses, Parse, SaveRun, SaveEvents,
         Return, Raises, Take, Expire, vars, stores
    <3> QED BY <3>1 DEF VersionInv
  <2> QED BY <2>1, <2>2
<1>5. ASSUME NEW t \in Threads, pc'[t] \in Kept
      PROVE  versions'[Hash[text'[t]]] # None
  <2>1. CASE pc[t] \in Kept /\ text'[t] = text[t]
    BY <1>3, <2>1
  <2>2. CASE PutFinds(t)
    BY <1>1, <2>2, HashType DEF PutFinds, TypeOK, PlaceInv, Working
  <2>3. CASE Insert(t)
    BY <2>3, ThreadTypes, NamesAssumption DEF Insert, TypeOK, Hashed
  <2>4. \/ pc[t] \in Kept /\ text'[t] = text[t]
        \/ PutFinds(t) \/ Insert(t)
    <3>1. ASSUME NEW r \in Requests, Arrive(r) \/ Claim(r) \/ Acquire(r) \/ Enqueue(r)
          PROVE  pc[t] \in Kept /\ text'[t] = text[t]
      BY <1>5, <3>1 DEF Arrive, ArriveRun, ArriveRerun, RerunUnknown, Answer, Claim,
         Acquire, Enqueue, DispatchLabel, Goto, Kept, TypeOK, Threads
    <3>2. ASSUME NEW u \in Threads,
                 Pin(u) \/ PutFinds(u) \/ PutMisses(u) \/ Insert(u) \/ Parse(u)
                 \/ SaveRun(u) \/ SaveEvents(u)
          PROVE  \/ pc[t] \in Kept /\ text'[t] = text[t]
                 \/ PutFinds(t) \/ Insert(t)
      BY <1>5, <3>2 DEF Pin, PutFinds, PutMisses, Insert, Parse, SaveRun,
         SaveEvents, Goto, Kept, TypeOK
    <3>3. ASSUME NEW u \in Threads,
                 \/ Return(u)
                 \/ \E code \in {"422", "500", "503"} : Raises(u, code)
                 \/ u \in Requests /\ \E code \in Replies : Answer(u, code)
                       /\ UNCHANGED text
          PROVE  pc[t] \in Kept /\ text'[t] = text[t]
      BY <1>5, <3>3 DEF Return, Raises, Raise, Retry, TaskEnds, Answer, Goto,
         Kept, TypeOK
    <3>4. ASSUME NEW w \in Workers, NEW m \in queue, Take(w, m)
          PROVE  pc[t] \in Kept /\ text'[t] = text[t]
      BY <1>5, <3>4 DEF Take, Goto, Kept, TypeOK, Threads
    <3>5. ASSUME UNCHANGED vars \/ \E h \in Hashes : Expire(h)
          PROVE  pc[t] \in Kept /\ text'[t] = text[t]
      BY <1>5, <3>5 DEF Expire, vars
    <3> QED BY <3>1, <3>2, <3>3, <3>4, <3>5, Steps DEF Threads
  <2> QED BY <2>1, <2>2, <2>3, <2>4
<1>6. ASSUME NEW t \in Threads PROVE Stored(job[t].pinned)'
  <2>1. CASE job'[t] = job[t]
    BY <1>2, <2>1, ThreadTypes DEF VersionInv
  <2>2. CASE job'[t] = NoJob
    BY <2>2 DEF Stored, NoJob
  <2>3. ASSUME t \in Requests, Arrive(t) PROVE Stored(job[t].pinned)'
    <3>1. \/ job'[t] = job[t]
          \/ job'[t].pinned = None
          \/ \E i \in RunIds : runs[i] # None /\ job'[t].pinned = runs[i].version
      BY <2>3 DEF Arrive, ArriveRun, ArriveRerun, RerunUnknown, TypeOK
    <3> QED BY <1>2, <2>1, <3>1, ThreadTypes DEF VersionInv, Stored
  <2>4. CASE job'[t] \in queue
    BY <1>2, <2>4, ThreadTypes DEF VersionInv
  <2> QED BY <2>1, <2>2, <2>3, <2>4, DataChanges DEF Threads
<1>7. ASSUME NEW m \in queue' PROVE Stored(m.pinned)'
  <2>1. CASE m \in queue
    BY <1>2, <2>1, ThreadTypes DEF VersionInv
  <2>2. CASE m \notin queue
    <3>1. ASSUME NEW r \in Requests, Enqueue(r),
                 m = [job[r] EXCEPT !.pinned = IF @ = None THEN Hash[text[r]] ELSE @]
          PROVE  Stored(m.pinned)'
      <4>1. r \in Threads /\ job[r] \in Job /\ pc[r] \in Kept \cap Hashed
        BY <3>1 DEF Enqueue, PlaceInv, Working, Threads, Kept, Hashed
      <4>2. m.pinned \in {job[r].pinned, Hash[text[r]]}
        BY <3>1, <4>1 DEF Job
      <4> QED BY <1>2, <1>3, <4>1, <4>2, ThreadTypes DEF VersionInv, Stored
    <3>2. ASSUME NEW w \in Workers, pc[w] \in Working,
                 m = [job[w] EXCEPT !.tries = IF @ < MaxRetries THEN @ + 1 ELSE @]
          PROVE  Stored(m.pinned)'
      <4>1. w \in Threads /\ job[w] \in Job
        BY <3>2 DEF PlaceInv, Threads
      <4>2. m.pinned = job[w].pinned
        BY <3>2, <4>1 DEF Job
      <4> QED BY <1>2, <4>1, <4>2, ThreadTypes DEF VersionInv
    <3> QED BY <2>2, <3>1, <3>2, DataChanges
  <2> QED BY <2>1, <2>2
<1>8. ASSUME NEW i \in RunIds, runs'[i] # None PROVE Stored(runs[i].version)'
  <2>1. CASE runs'[i] = runs[i]
    BY <1>2, <1>8, <2>1, ThreadTypes DEF VersionInv
  <2>2. CASE runs'[i] # runs[i]
    <3>1. PICK t \in Threads : SaveRun(t)
      BY <2>2, DataChanges
    <3>2. runs'[i].version = Hash[text[t]]
      BY <2>2, <3>1 DEF SaveRun, SavedRecord, TypeOK
    <3> QED BY <1>3, <3>1, <3>2 DEF SaveRun, Kept, Stored
  <2> QED BY <2>1, <2>2
<1> QED BY <1>4, <1>5, <1>6, <1>7, <1>8 DEF VersionInv

-----------------------------------------------------------------------------
(* Locks.                                                                   *)

LockInv ==
    /\ LocksHeldInside
    /\ lockMode = "process" => \A r \in Requests : Inside(r) =>
          job[r].text \in Texts \ Malformed /\ lock[Hash[job[r].text]] = r

\* Who enters and leaves the with block, and what happens to the locks.
LEMMA LockChanges ==
    ASSUME TypeOK, PlaceInv, [Next]_vars
    PROVE  /\ \/ lock' = lock
              \/ \E r \in Requests : Acquire(r)
              \/ \E r \in Requests, code \in Replies : Answer(r, code)
              \/ \E h \in Hashes : Expire(h)
           /\ \A r \in Requests : Inside(r) =>
                 /\ job'[r] = job[r]
                 /\ Inside(r)' \/ \E code \in Replies : Answer(r, code)
           /\ \A r \in Requests : lockMode = "process" /\ Inside(r)' =>
                 Inside(r) \/ Acquire(r)
           /\ lockMode' = lockMode
<1>1. ASSUME NEW t \in Threads, NEW code \in {"422", "500", "503"}, Raises(t, code)
      PROVE  \/ t \in Requests /\ Answer(t, code) /\ job' = job
             \/ t \notin Requests /\ UNCHANGED lock
                /\ \A r \in Requests : pc'[r] = pc[r] /\ job'[r] = job[r]
  BY <1>1, NamesAssumption
     DEF Raises, Raise, Retry, TaskEnds, Goto, TypeOK, Threads
<1>2. ASSUME NEW t \in Threads, Return(t)
      PROVE  \/ t \in Requests /\ Answer(t, "sync") /\ job' = job
             \/ t \notin Requests /\ UNCHANGED lock
                /\ \A r \in Requests : pc'[r] = pc[r] /\ job'[r] = job[r]
  BY <1>2, NamesAssumption DEF Return, TaskEnds, Goto, TypeOK, Threads
<1>3. \/ lock' = lock
      \/ \E r \in Requests : Acquire(r)
      \/ \E r \in Requests, code \in Replies : Answer(r, code)
      \/ \E h \in Hashes : Expire(h)
  BY <1>1, <1>2, Steps DEF Arrive, ArriveRun, ArriveRerun, RerunUnknown, Claim,
     Enqueue, Pin, PutFinds, PutMisses, Insert, Parse, SaveRun, SaveEvents, Take,
     vars, Replies
<1>4. ASSUME NEW r \in Requests, Inside(r)
      PROVE  /\ job'[r] = job[r]
             /\ Inside(r)' \/ \E code \in Replies : Answer(r, code)
  <2>1. ASSUME NEW q \in Requests, Arrive(q) \/ Claim(q) \/ Acquire(q) \/ Enqueue(q)
        PROVE  pc'[r] = pc[r] /\ job'[r] = job[r]
    BY <1>4, <2>1 DEF Arrive, ArriveRun, ArriveRerun, RerunUnknown, Answer, Claim,
       Acquire, Enqueue, Inside, Goto, TypeOK, Threads, PlaceInv
  <2>2. ASSUME NEW t \in Threads, Pin(t) \/ PutFinds(t) \/ PutMisses(t) \/ Insert(t)
                     \/ Parse(t) \/ SaveRun(t) \/ SaveEvents(t)
        PROVE  job'[r] = job[r] /\ Inside(r)'
    BY <1>4, <2>2 DEF Pin, PutFinds, PutMisses, Insert, Parse, SaveRun,
       SaveEvents, Inside, Goto, TypeOK, Threads, AfterPut, Async
  <2>3. ASSUME NEW q \in Requests, NEW code \in Replies, Answer(q, code), job' = job
        PROVE  job'[r] = job[r] /\ (Inside(r)' \/ Answer(r, code))
    BY <1>4, <2>3 DEF Answer, Goto, Inside, TypeOK, Threads
  <2>4. ASSUME NEW w \in Workers, NEW m \in queue, Take(w, m)
        PROVE  pc'[r] = pc[r] /\ job'[r] = job[r]
    BY <2>4, NamesAssumption DEF Take, Goto, TypeOK, Threads
  <2>5. ASSUME UNCHANGED vars \/ \E h \in Hashes : Expire(h)
        PROVE  pc'[r] = pc[r] /\ job'[r] = job[r]
    BY <2>5 DEF Expire, vars
  <2> QED
    BY <1>1, <1>2, <1>4, <2>1, <2>2, <2>3, <2>4, <2>5, Steps DEF Inside, Replies
<1>5. ASSUME NEW r \in Requests, lockMode = "process", Inside(r)'
      PROVE  Inside(r) \/ Acquire(r)
  <2>1. ASSUME NEW q \in Requests, Arrive(q) \/ Claim(q) \/ Enqueue(q)
        PROVE  Inside(r)
    BY <1>5, <2>1 DEF Arrive, ArriveRun, ArriveRerun, RerunUnknown, Answer, Claim,
       Enqueue, DispatchLabel, Inside, Goto, TypeOK, Threads
  <2>2. ASSUME NEW q \in Requests, Acquire(q)
        PROVE  Inside(r) \/ Acquire(r)
    BY <1>5, <2>2 DEF Acquire, Inside, Goto, TypeOK, Threads
  <2>3. ASSUME NEW t \in Threads, Pin(t) \/ PutFinds(t) \/ PutMisses(t) \/ Insert(t)
                     \/ Parse(t) \/ SaveRun(t) \/ SaveEvents(t)
        PROVE  Inside(r)
    BY <1>5, <2>3 DEF Pin, PutFinds, PutMisses, Insert, Parse, SaveRun,
       SaveEvents, Inside, Goto, TypeOK, Threads
  <2>4. ASSUME NEW q \in Requests, NEW code \in Replies, Answer(q, code), job' = job
        PROVE  Inside(r)
    BY <1>5, <2>4 DEF Answer, Goto, Inside, TypeOK, Threads
  <2>5. ASSUME NEW w \in Workers, NEW m \in queue, Take(w, m)
        PROVE  pc'[r] = pc[r] /\ job'[r] = job[r]
    BY <2>5, NamesAssumption DEF Take, Goto, TypeOK, Threads
  <2>6. ASSUME UNCHANGED vars \/ \E h \in Hashes : Expire(h)
        PROVE  pc'[r] = pc[r] /\ job'[r] = job[r]
    BY <2>6 DEF Expire, vars
  <2> QED
    BY <1>1, <1>2, <1>5, <2>1, <2>2, <2>3, <2>4, <2>5, <2>6, Steps
       DEF Inside, Replies
<1>6. lockMode' = lockMode
  BY Steps DEF Arrive, ArriveRun, ArriveRerun, RerunUnknown, Claim, Acquire,
     Enqueue, Pin, PutFinds, PutMisses, Insert, Parse, SaveRun, SaveEvents,
     Return, Raises, Take, Expire, vars
<1> QED BY <1>3, <1>4, <1>5, <1>6

LEMMA LockInit == Init => LockInv
BY DEF Init, LockInv, LocksHeldInside, Inside, Threads

LEMMA LockStep ==
    ASSUME TypeOK, PlaceInv, LockInv, [Next]_vars
    PROVE  LockInv'
<1>1. ASSUME NEW r \in Requests, Acquire(r)
      PROVE  /\ job' = job
             /\ job[r].text \in Texts \ Malformed
             /\ Hash[job[r].text] \in Hashes
             /\ lock[Hash[job[r].text]] = None
             /\ lock' = [lock EXCEPT ![Hash[job[r].text]] = r]
             /\ Inside(r)'
  BY <1>1, HashType DEF Acquire, LockFree, Goto, Inside, TypeOK, PlaceInv, Working,
     Threads, Job
<1>2. ASSUME NEW h \in Hashes, lock'[h] # None
      PROVE  Inside(lock[h])' /\ Hash[job'[lock'[h]].text] = h
  <2>1. CASE lock'[h] = lock[h]
    <3>1. lock[h] \in Requests /\ Inside(lock[h]) /\ Hash[job[lock[h]].text] = h
      BY <1>2, <2>1 DEF LockInv, LocksHeldInside, TypeOK
    <3>2. ASSUME NEW code \in Replies, Answer(lock[h], code) PROVE FALSE
      BY <1>2, <2>1, <3>2 DEF Answer, Released
    <3> QED BY <2>1, <3>1, <3>2, LockChanges
  <2>2. CASE lock'[h] # lock[h]
    <3>1. PICK r \in Requests : Acquire(r)
      BY <1>2, <2>2, LockChanges DEF Answer, Released, Expire, TypeOK
    <3>2. h = Hash[job[r].text] /\ lock'[h] = r
      BY <1>1, <2>2, <3>1 DEF TypeOK
    <3> QED BY <1>1, <3>1, <3>2
  <2> QED BY <2>1, <2>2
<1>3. ASSUME NEW r \in Requests, lockMode' = "process", Inside(r)'
      PROVE  job'[r].text \in Texts \ Malformed /\ lock'[Hash[job'[r].text]] = r
  <2>1. CASE Inside(r)
    <3>1. /\ job'[r] = job[r]
          /\ job[r].text \in Texts \ Malformed
          /\ Hash[job[r].text] \in Hashes
          /\ lock[Hash[job[r].text]] = r
      BY <1>3, <2>1, LockChanges, HashType DEF LockInv
    <3>2. ASSUME NEW q \in Requests, Acquire(q)
          PROVE  lock'[Hash[job[r].text]] = r
      BY <1>1, <3>1, <3>2, NamesAssumption DEF TypeOK, Threads
    <3>3. ASSUME NEW q \in Requests, NEW code \in Replies, Answer(q, code)
          PROVE  lock'[Hash[job[r].text]] = r
      <4>1. q # r
        BY <1>3, <3>3 DEF Answer, Goto, Inside, TypeOK, Threads
      <4> QED BY <3>1, <3>3, <4>1 DEF Answer, Released
    <3>4. ~ \E h \in Hashes : Expire(h)
      BY <1>3 DEF Expire
    <3> QED BY <3>1, <3>2, <3>3, <3>4, LockChanges
  <2>2. CASE Acquire(r)
    BY <1>1, <2>2 DEF TypeOK
  <2> QED BY <1>3, <2>1, <2>2, LockChanges
<1> QED BY <1>2, <1>3 DEF LockInv, LocksHeldInside

-----------------------------------------------------------------------------
(* Idempotency keys.                                                        *)

\* The request has passed the claim of its key.
Owner(r) ==
    /\ job[r].key # None
    /\ pc[r] # "claim"
    /\ reply[r] \notin {"409 key", "503"}

KeyInv ==
    /\ \A r \in Requests : Owner(r) => job[r].key \in claims
    /\ \A r, q \in Requests :
          Owner(r) /\ Owner(q) /\ job[r].key = job[q].key => r = q

\* Only the claim makes an owner, and claims are kept.
LEMMA KeyChanges ==
    ASSUME TypeOK, PlaceInv, [Next]_vars
    PROVE  /\ claims \subseteq claims'
           /\ \A r \in Requests : Owner(r)' =>
                 /\ job'[r].key = job[r].key
                 /\ Owner(r) \/ Claim(r)
<1>1. claims \subseteq claims'
  BY Steps DEF Arrive, ArriveRun, ArriveRerun, RerunUnknown, Claim, Acquire,
     Enqueue, Pin, PutFinds, PutMisses, Insert, Parse, SaveRun, SaveEvents,
     Return, Raises, Take, Expire, vars, stores
<1>2. ASSUME NEW r \in Requests, Owner(r)'
      PROVE  job'[r].key = job[r].key /\ (Owner(r) \/ Claim(r))
  <2>1. ASSUME NEW q \in Requests, Arrive(q)
        PROVE  job'[r].key = job[r].key /\ Owner(r)
    <3>1. CASE r # q
      BY <1>2, <2>1, <3>1 DEF Arrive, ArriveRun, ArriveRerun, RerunUnknown, Answer,
         Owner, Goto, TypeOK, Threads
    <3>2. ASSUME NEW x \in Texts, NEW k \in Keys \cup {None}, NEW async \in BOOLEAN,
                 ArriveRun(r, x, k, async)
          PROVE  FALSE
      BY <1>2, <3>2 DEF ArriveRun, Owner, Goto, TypeOK, Threads
    <3>3. ASSUME NEW i \in RunIds, NEW async \in BOOLEAN, ArriveRerun(r, i, async)
          PROVE  FALSE
      BY <1>2, <3>3 DEF ArriveRerun, Owner, TypeOK, Threads
    <3>4. ASSUME NEW i \in RunIds, RerunUnknown(r, i)
          PROVE  FALSE
      <4>1. job'[r] = NoJob
        BY <3>4 DEF RerunUnknown, PlaceInv, Threads
      <4>2. NoJob.key = None
        BY DEF NoJob
      <4> QED BY <1>2, <4>1, <4>2 DEF Owner
    <3> QED BY <2>1, <3>1, <3>2, <3>3, <3>4 DEF Arrive
  <2>2. ASSUME NEW q \in Requests, Claim(q) \/ Acquire(q)
        PROVE  job'[r].key = job[r].key /\ (Owner(r) \/ Claim(r))
    BY <1>2, <2>2 DEF Claim, Acquire, Owner, Goto, TypeOK, Threads
  <2>3. ASSUME NEW q \in Requests, NEW code \in Replies, Answer(q, code), job' = job,
               pc[q] = "claim" => code \in {"409 key", "503"}, pc[q] \in Working
        PROVE  job'[r].key = job[r].key /\ Owner(r)
    <3>1. pc' = [pc EXCEPT ![q] = "answered"] /\ reply' = [reply EXCEPT ![q] = code]
      BY <2>3 DEF Answer, Goto
    <3>2. reply[q] = None /\ None \notin {"409 key", "503"}
      BY <2>3, NamesAssumption DEF PlaceInv, Working, Replies
    <3>3. CASE r = q
      BY <1>2, <2>3, <3>1, <3>2, <3>3 DEF Owner, TypeOK, Threads
    <3>4. CASE r # q
      BY <1>2, <2>3, <3>1, <3>4 DEF Owner, TypeOK, Threads
    <3> QED BY <3>3, <3>4
  <2>4. ASSUME NEW t \in Threads, Pin(t) \/ PutFinds(t) \/ PutMisses(t) \/ Insert(t)
                     \/ Parse(t) \/ SaveRun(t) \/ SaveEvents(t)
        PROVE  job'[r].key = job[r].key /\ Owner(r)
    BY <1>2, <2>4 DEF Pin, PutFinds, PutMisses, Insert, Parse, SaveRun,
       SaveEvents, Owner, Goto, TypeOK, Threads
  <2>5. ASSUME NEW w \in Workers, w \notin Requests,
               \/ Raise(w, "422") \/ Raise(w, "503") \/ Return(w)
               \/ \E m \in queue : Take(w, m)
        PROVE  job'[r].key = job[r].key /\ Owner(r)
    BY <1>2, <2>5, NamesAssumption DEF Raise, Retry, Return, TaskEnds, Take, Owner,
       Goto, TypeOK, Threads
  <2>6. ASSUME UNCHANGED vars \/ \E h \in Hashes : Expire(h)
        PROVE  job'[r].key = job[r].key /\ Owner(r)
    BY <1>2, <2>6 DEF Expire, vars, Owner
  <2>7. ASSUME NEW t \in Threads, NEW code \in {"422", "500", "503"}, Raises(t, code),
               pc[t] = "claim" => code = "503"
        PROVE  job'[r].key = job[r].key /\ Owner(r)
    BY <2>3, <2>5, <2>7, NamesAssumption DEF Raises, Raise, Replies, Threads
  <2>8. ASSUME NEW t \in Threads, Return(t)
        PROVE  job'[r].key = job[r].key /\ Owner(r)
    BY <2>3, <2>5, <2>8, NamesAssumption DEF Return, Replies, Threads, Working
  <2>9. ASSUME NEW q \in Requests, Enqueue(q)
        PROVE  job'[r].key = job[r].key /\ Owner(r)
    BY <2>3, <2>9 DEF Enqueue, Replies, Working
  <2>10. ASSUME NEW q \in Requests, NEW code \in Replies,
                pc[q] \in {"claim", "lock", "enqueue"},
                pc[q] = "claim" => code = "409 key", Answer(q, code), job' = job
         PROVE  job'[r].key = job[r].key /\ Owner(r)
    BY <2>3, <2>10 DEF Working
  <2>11. ASSUME NEW w \in Workers, NEW m \in queue, Take(w, m)
         PROVE  job'[r].key = job[r].key /\ Owner(r)
    BY <2>5, <2>11, NamesAssumption
  <2> QED
    BY <2>1, <2>2, <2>4, <2>6, <2>7, <2>8, <2>9, <2>10, <2>11, Steps
<1> QED BY <1>1, <1>2

LEMMA KeyInit == Init => KeyInv
<1>1. NoJob.key = None
  BY DEF NoJob
<1>2. Init => \A r \in Requests : job[r] = NoJob
  BY DEF Init, Threads
<1> QED BY <1>1, <1>2 DEF KeyInv, Owner

LEMMA KeyStep ==
    ASSUME TypeOK, PlaceInv, KeyInv, [Next]_vars
    PROVE  KeyInv'
<1>1. ASSUME NEW r \in Requests, Claim(r)
      PROVE  job[r].key \notin claims /\ claims' = claims \cup {job[r].key}
  BY <1>1 DEF Claim, Claimable
<1>2. ASSUME NEW r \in Requests, Owner(r)'
      PROVE  job'[r].key = job[r].key /\ job'[r].key \in claims'
  BY <1>1, <1>2, KeyChanges DEF KeyInv
<1>3. ASSUME NEW r \in Requests, NEW q \in Requests, Claim(r), Claim(q)
      PROVE  r = q
  BY <1>3 DEF Claim, Goto, DispatchLabel, TypeOK, Threads
<1>4. ASSUME NEW r \in Requests, NEW q \in Requests,
             Owner(r)', Owner(q)', job'[r].key = job'[q].key
      PROVE  r = q
  BY <1>1, <1>3, <1>4, KeyChanges DEF KeyInv
<1> QED BY <1>2, <1>4 DEF KeyInv

-----------------------------------------------------------------------------
(* Definitions of a run.                                                    *)

\* Two texts have one hash, and so one lock and one version.
Same(x, y) ==
    /\ x \notin Malformed /\ y \notin Malformed
    /\ Hash[x] = Hash[y]

Pins(j) == j.pinned # None => j.text \notin Malformed /\ j.pinned = Hash[j.text]

\* The message or task is due to an async request.
Due(m) ==
    /\ m.from \in Requests
    /\ job[m.from] \in Job
    /\ job[m.from].async
    /\ m.run = job[m.from].run /\ m.text = job[m.from].text

\* However often a run is executed again, its definition keeps its hash.
RunInv ==
    /\ \A t \in Threads : pc[t] \in Working =>
          text[t] = job[t].text \/ Same(text[t], job[t].text)
    /\ \A r \in Requests : Pins(job[r])
    /\ \A w \in Workers : job[w] \in Job => Pins(job[w]) /\ Due(job[w])
    /\ \A m \in queue : Pins(m) /\ Due(m)
    /\ \A q \in Requests : job[q] \in Job /\ job[q].run \in Requests =>
          pc[job[q].run] # "idle"
    /\ \A i \in Requests : runs[i] # None => pc[i] # "idle"
    /\ \A q, u \in Requests :
          q # u /\ job[q] \in Job /\ job[u] \in Job /\ job[q].run = job[u].run
          => Same(job[q].text, job[u].text)
    /\ \A i \in RunIds : runs[i] # None =>
          /\ runs[i].text \notin Malformed /\ Hash[runs[i].text] = runs[i].version
          /\ \A q \in Requests : job[q] \in Job /\ job[q].run = i =>
                Same(runs[i].text, job[q].text)

LEMMA RunInit == Init => RunInv
<1> SUFFICES ASSUME Init PROVE RunInv
  OBVIOUS
<1>1. \A t \in Threads : pc[t] = "idle" /\ job[t] = NoJob
  BY DEF Init
<1>2. \A t \in Threads : job[t] \notin Job /\ Pins(job[t])
  BY <1>1, NoJobNotAJob DEF Pins, NoJob
<1>3. \A i \in RunIds : runs[i] # None =>
         i = OldRun /\ runs[i].text = OldText /\ runs[i].version = Hash[OldText]
  BY DEF Init
<1>4. queue = {}
  BY DEF Init
<1>5. \A r \in Requests : Pins(job[r]) /\ job[r] \notin Job /\ runs[r] = None
  BY <1>2, <1>3, NamesAssumption DEF Threads, RunIds
<1>6. \A t \in Threads : pc[t] \notin Working
  BY <1>1 DEF Working
<1>7. \A i \in RunIds : runs[i] # None =>
         runs[i].text \notin Malformed /\ Hash[runs[i].text] = runs[i].version
  BY <1>3, TextsAssumption
<1> QED
  BY <1>2, <1>4, <1>5, <1>6, <1>7 DEF RunInv, Threads

LEMMA TextChanges ==
    ASSUME TypeOK, PlaceInv, [Next]_vars, NEW t \in Threads, pc'[t] \in Working
    PROVE  \/ pc[t] \in Working /\ text'[t] = text[t] /\ job'[t] = job[t]
           \/ Pin(t)
           \/ text'[t] = job'[t].text
<1>1. ASSUME NEW r \in Requests, Arrive(r)
      PROVE  \/ pc[t] \in Working /\ text'[t] = text[t] /\ job'[t] = job[t]
             \/ text'[t] = job'[t].text
  BY <1>1 DEF Arrive, ArriveRun, ArriveRerun, RerunUnknown, Answer, Goto, TypeOK,
     Threads, Working
<1>2. ASSUME NEW r \in Requests,
             \/ Claim(r) \/ Acquire(r) \/ Enqueue(r)
             \/ \E code \in Replies : Answer(r, code) /\ UNCHANGED <<job, text>>
      PROVE  pc[t] \in Working /\ text'[t] = text[t] /\ job'[t] = job[t]
  BY <1>2 DEF Claim, Acquire, Enqueue, Answer, Goto, TypeOK, Threads, Working
<1>3. ASSUME NEW u \in Threads, PutFinds(u) \/ PutMisses(u) \/ Insert(u)
                   \/ Parse(u) \/ SaveRun(u) \/ SaveEvents(u)
      PROVE  pc[t] \in Working /\ text'[t] = text[t] /\ job'[t] = job[t]
  BY <1>3 DEF PutFinds, PutMisses, Insert, Parse, SaveRun, SaveEvents, Goto,
     TypeOK, Working
<1>4. ASSUME NEW u \in Threads,
             Return(u) \/ \E code \in {"422", "500", "503"} : Raises(u, code)
      PROVE  pc[t] \in Working /\ text'[t] = text[t] /\ job'[t] = job[t]
  BY <1>4 DEF Return, Raises, Raise, Retry, TaskEnds, Answer, Goto, TypeOK, Working
<1>5. ASSUME NEW u \in Threads, Pin(u)
      PROVE  \/ pc[t] \in Working /\ text'[t] = text[t] /\ job'[t] = job[t]
             \/ Pin(t)
  BY <1>5 DEF Pin, Goto, TypeOK
<1>6. ASSUME NEW w \in Workers, NEW m \in queue, Take(w, m)
      PROVE  \/ pc[t] \in Working /\ text'[t] = text[t] /\ job'[t] = job[t]
             \/ text'[t] = job'[t].text
  BY <1>6 DEF Take, Goto, TypeOK, Threads
<1> QED
  BY <1>1, <1>2, <1>3, <1>4, <1>5, <1>6, Steps DEF Expire, vars

\* What a request dispatches: a new run, or again one that is stored.
LEMMA ArriveJob ==
    ASSUME TypeOK, PlaceInv, NEW r \in Requests, Arrive(r), job'[r] \in Job
    PROVE  /\ pc[r] = "idle"
           /\ pc'[r] # "idle"
           /\ job[r] = NoJob
           /\ job'[r].from = r
           /\ \/ job'[r].run = r /\ job'[r].pinned = None
              \/ \E i \in RunIds : /\ runs[i] # None
                                   /\ job'[r].run = i
                                   /\ job'[r].text = runs[i].text
                                   /\ job'[r].pinned = runs[i].version
<1>1. pc[r] = "idle" /\ job[r] = NoJob /\ pc'[r] # "idle"
  BY DEF Arrive, ArriveRun, ArriveRerun, RerunUnknown, Answer, DispatchLabel, Goto,
     PlaceInv, TypeOK, Threads
<1>2. ASSUME NEW x \in Texts, NEW k \in Keys \cup {None}, NEW async \in BOOLEAN,
             ArriveRun(r, x, k, async)
      PROVE  job'[r].from = r /\ job'[r].run = r /\ job'[r].pinned = None
  BY <1>2 DEF ArriveRun, TypeOK, Threads
<1>3. ASSUME NEW i \in RunIds, NEW async \in BOOLEAN, ArriveRerun(r, i, async)
      PROVE  /\ job'[r].from = r /\ runs[i] # None
             /\ job'[r].run = i /\ job'[r].text = runs[i].text
             /\ job'[r].pinned = runs[i].version
  BY <1>3 DEF ArriveRerun, TypeOK, Threads
<1>4. ASSUME NEW i \in RunIds, RerunUnknown(r, i)
      PROVE  FALSE
  BY <1>1, <1>4, NoJobNotAJob DEF RerunUnknown
<1> QED BY <1>1, <1>2, <1>3, <1>4 DEF Arrive

LEMMA RunInvStep ==
    ASSUME TypeOK, PlaceInv, VersionInv, RunInv, [Next]_vars
    PROVE  RunInv'
<1>1. TypeOK' /\ PlaceInv'
  BY TypeStep
<1>2. ASSUME NEW r \in Requests, job[r] \in Job
      PROVE  job'[r] = job[r] /\ pc[r] # "idle" /\ pc'[r] # "idle"
  BY <1>2, ArriveJob, DataChanges, NoJobNotAJob DEF PlaceInv, Threads, Arrive,
     ArriveRun, ArriveRerun, RerunUnknown
<1>3. ASSUME NEW r \in Requests, pc[r] # "idle" PROVE pc'[r] # "idle"
  BY <1>3, DataChanges
\* A message stays due, since the request's job stays.
<1>4. ASSUME NEW m, Due(m) PROVE Due(m)'
  BY <1>2, <1>4 DEF Due
<1>5. ASSUME NEW t \in Threads, pc'[t] \in Working
      PROVE  text'[t] = job'[t].text \/ Same(text'[t], job'[t].text)
  <2>1. CASE Pin(t)
    <3>1. job' = job /\ pc[t] \in Working
      BY <2>1 DEF Pin, Working
    <3>2. Pins(job[t]) /\ job[t].pinned \in Hashes \cup {None}
      BY <3>1, ThreadTypes DEF RunInv, PlaceInv, Threads
    <3>3. CASE job[t].pinned = None
      BY <2>1, <3>1, <3>3 DEF Pin, RunInv, TypeOK
    <3>4. CASE job[t].pinned # None
      <4>1. text'[t] = versions[job[t].pinned] /\ versions[job[t].pinned] # None
        BY <2>1, <3>4 DEF Pin, TypeOK
      <4> QED BY <3>1, <3>2, <3>4, <4>1 DEF VersionInv, Pins, Same
    <3> QED BY <3>3, <3>4
  <2> QED BY <1>5, <2>1, TextChanges DEF RunInv
\* What a new job pins, and what it has in common with others.
<1>6. ASSUME NEW r \in Requests, job'[r] \in Job, job'[r] # job[r]
      PROVE  /\ Pins(job'[r])
             /\ \A u \in Requests : u # r /\ job[u] \in Job /\ job[u].run = job'[r].run
                  => Same(job'[r].text, job[u].text)
             /\ \A u \in Requests : u # r => job'[u] = job[u]
             /\ runs' = runs
             /\ job'[r].run \in Requests => pc'[job'[r].run] # "idle"
             /\ \A i \in RunIds : runs[i] # None /\ job'[r].run = i
                  => Same(runs[i].text, job'[r].text)
  <2>1. Arrive(r)
    BY <1>6, DataChanges
  <2>2. runs' = runs /\ \A u \in Requests : u # r => job'[u] = job[u]
    BY <2>1 DEF Arrive, ArriveRun, ArriveRerun, RerunUnknown, stores, TypeOK, Threads
  <2>3. CASE job'[r].run = r /\ job'[r].pinned = None
    BY <1>6, <2>1, <2>2, <2>3, ArriveJob DEF RunInv, Pins
  <2>4. ASSUME NEW i \in RunIds, runs[i] # None, job'[r].run = i,
               job'[r].text = runs[i].text, job'[r].pinned = runs[i].version
        PROVE  /\ Pins(job'[r])
               /\ \A u \in Requests : u # r /\ job[u] \in Job /\ job[u].run = job'[r].run
                    => Same(job'[r].text, job[u].text)
               /\ job'[r].run \in Requests => pc'[job'[r].run] # "idle"
               /\ Same(runs[i].text, job'[r].text)
    BY <1>3, <2>4 DEF RunInv, Pins, Same
  <2> QED BY <1>6, <2>1, <2>2, <2>3, <2>4, ArriveJob
<1>7. ASSUME NEW r \in Requests PROVE Pins(job[r])'
  <2>1. CASE job'[r] = job[r]
    BY <2>1 DEF RunInv, Pins
  <2>2. CASE job'[r] \in Job /\ job'[r] # job[r]
    BY <1>6, <2>2 DEF Pins
  <2>3. CASE job'[r] \notin Job
    BY <1>1, <2>3 DEF TypeOK, Pins, NoJob, Threads
  <2> QED BY <2>1, <2>2, <2>3
<1>8. ASSUME NEW w \in Workers, job'[w] \in Job
      PROVE  Pins(job[w])' /\ Due(job[w])'
  <2>1. \/ job[w] \in Job /\ job'[w] = job[w]
        \/ job'[w] \in queue
    BY <1>8, DataChanges, NoJobNotAJob
  <2>2. Pins(job'[w]) /\ Due(job'[w])
    BY <2>1 DEF RunInv
  <2> QED BY <1>4, <2>2 DEF Pins, Due
<1>9. ASSUME NEW m \in queue' PROVE Pins(m) /\ Due(m)'
  <2>1. CASE m \in queue
    BY <1>4, <2>1 DEF RunInv
  <2>2. ASSUME NEW r \in Requests, Enqueue(r),
               m = [job[r] EXCEPT !.pinned = IF @ = None THEN Hash[text[r]] ELSE @]
        PROVE  Pins(m) /\ Due(m)
    <3>1. /\ r \in Threads /\ job[r] \in Job /\ job[r].async /\ job[r].from = r
          /\ text[r] \notin Malformed /\ pc[r] \in Working
      BY <2>2 DEF Enqueue, PlaceInv, Working, Hashed, Threads
    <3>2. /\ m.from = r /\ m.run = job[r].run /\ m.text = job[r].text
          /\ m.pinned = IF job[r].pinned = None THEN Hash[text[r]] ELSE job[r].pinned
      BY <2>2, <3>1 DEF Job
    <3>3. job[r].text \notin Malformed /\ Hash[text[r]] = Hash[job[r].text]
      BY <3>1 DEF RunInv, Same
    <3> QED BY <3>1, <3>2, <3>3 DEF RunInv, Pins, Due
  <2>3. ASSUME NEW w \in Workers, pc[w] \in Working,
               m = [job[w] EXCEPT !.tries = IF @ < MaxRetries THEN @ + 1 ELSE @]
        PROVE  Pins(m) /\ Due(m)
    <3>1. job[w] \in Job
      BY <2>3 DEF PlaceInv, Threads
    <3>2. /\ m.from = job[w].from /\ m.run = job[w].run
          /\ m.text = job[w].text /\ m.pinned = job[w].pinned
      BY <2>3, <3>1 DEF Job
    <3> QED BY <3>1, <3>2 DEF RunInv, Pins, Due
  <2> QED BY <1>4, <2>1, <2>2, <2>3, DataChanges
<1>10. ASSUME NEW q \in Requests, job'[q] \in Job, job'[q].run \in Requests
       PROVE  pc'[job'[q].run] # "idle"
  BY <1>3, <1>6, <1>10 DEF RunInv
<1>11. ASSUME NEW q \in Requests, NEW u \in Requests, q # u,
              job'[q] \in Job, job'[u] \in Job, job'[q].run = job'[u].run
       PROVE  Same(job'[q].text, job'[u].text)
  <2>1. CASE job'[q] = job[q] /\ job'[u] = job[u]
    BY <1>11, <2>1 DEF RunInv
  <2>2. CASE job'[q] # job[q]
    BY <1>6, <1>11, <2>2
  <2>3. CASE job'[u] # job[u]
    BY <1>6, <1>11, <2>3 DEF Same
  <2> QED BY <2>1, <2>2, <2>3
\* A run that is saved was asked for by a request.
<1>12. ASSUME NEW t \in Threads, SaveRun(t)
       PROVE  \E q \in Requests :
                  /\ job[q] \in Job
                  /\ job[q].run = job[t].run /\ job[q].text = job[t].text
  <2>1. job[t] \in Job
    BY <1>12 DEF SaveRun, PlaceInv, Working
  <2> QED BY <2>1 DEF RunInv, Due, Threads
<1>13. ASSUME NEW i \in RunIds, runs'[i] # None
       PROVE  /\ i \in Requests => pc'[i] # "idle"
              /\ runs'[i].text \notin Malformed
              /\ Hash[runs'[i].text] = runs'[i].version
              /\ \A q \in Requests : job'[q] \in Job /\ job'[q].run = i =>
                    Same(runs'[i].text, job'[q].text)
  <2>1. CASE runs'[i] = runs[i]
    BY <1>3, <1>6, <1>13, <2>1 DEF RunInv
  <2>2. CASE runs'[i] # runs[i]
    <3>1. PICK t \in Threads : SaveRun(t)
      BY <2>2, DataChanges
    <3>2. /\ i = job[t].run /\ runs'[i] = SavedRecord(t) /\ job' = job
          /\ text[t] \notin Malformed /\ pc[t] \in Working
      BY <2>2, <3>1 DEF SaveRun, TypeOK, PlaceInv, Working, Hashed
    <3>3. runs'[i].text = text[t] /\ runs'[i].version = Hash[text[t]]
      BY <3>2 DEF SavedRecord
    <3>4. Same(text[t], job[t].text)
      BY <3>2 DEF RunInv, Same
    <3>5. PICK f \in Requests : /\ job[f] \in Job
                                /\ job[f].run = i /\ job[f].text = job[t].text
      BY <1>12, <3>1, <3>2
    <3>6. i \in Requests => pc'[i] # "idle"
      BY <1>3, <3>5 DEF RunInv
    <3>7. ASSUME NEW q \in Requests, job[q] \in Job, job[q].run = i
          PROVE  Same(text[t], job[q].text)
      BY <3>4, <3>5, <3>7 DEF RunInv, Same
    <3> QED BY <3>2, <3>3, <3>6, <3>7
  <2> QED BY <2>1, <2>2
<1>14. \A m \in queue' : Pins(m)'
  BY <1>9 DEF Pins
<1>15. \A q, u \in Requests :
          q # u /\ job'[q] \in Job /\ job'[u] \in Job /\ job'[q].run = job'[u].run
          => Same(job'[q].text, job'[u].text)
  BY <1>11
<1> QED
  BY <1>5, <1>7, <1>8, <1>9, <1>10, <1>13, <1>14, <1>15
     DEF RunInv, Pins, Same, Due, RunIds

-----------------------------------------------------------------------------
(* The two saves.                                                           *)

\* The lock of the process protects the run of r: r is synchronous, and so
\* are all the requests for its run.
Protected(r) ==
    /\ lockMode = "process"
    /\ job[r] \in Job
    /\ ~job[r].async
    /\ \A q \in Requests : job[q].run = job[r].run => ~job[q].async

SaveInv ==
    \A r \in Requests :
        /\ reply[r] = "sync" => job[r] \in Job /\ ~job[r].async
        /\ Protected(r) =>
              /\ pc[r] \in {"events", "return"} => runs[job[r].run].exec = Exec(r)
              /\ pc[r] = "return" => events[job[r].run] = Exec(r)
              /\ reply[r] = "sync" /\ runs[job[r].run].exec = Exec(r) =>
                    events[job[r].run] = Exec(r)

LEMMA SaveInit == Init => SaveInv
<1>1. "sync" # None
  BY NamesAssumption DEF Replies
<1>2. Init => \A r \in Requests : reply[r] = None /\ pc[r] = "idle"
  BY DEF Init, Threads
<1> QED BY <1>1, <1>2 DEF SaveInv

\* A request is answered with success at the end of its run only.
LEMMA SyncChanges ==
    ASSUME TypeOK, PlaceInv, [Next]_vars, NEW r \in Requests
    PROVE  /\ reply'[r] = "sync" => reply[r] = "sync" \/ pc[r] = "return"
           /\ pc'[r] = "events" => pc[r] = "events" \/ SaveRun(r)
           /\ pc'[r] = "return" => pc[r] = "return" \/ SaveEvents(r)
<1>1. ASSUME NEW q \in Requests, Arrive(q) \/ Claim(q) \/ Acquire(q)
      PROVE  /\ reply'[r] = "sync" => reply[r] = "sync"
             /\ pc'[r] \in {"events", "return"} => pc'[r] = pc[r]
  BY <1>1 DEF Arrive, ArriveRun, ArriveRerun, RerunUnknown, Answer, Claim, Acquire,
     DispatchLabel, Goto, TypeOK, Threads
<1>2. ASSUME NEW q \in Requests, NEW code \in Replies, Answer(q, code),
             code = "sync" => pc[q] = "return"
      PROVE  /\ reply'[r] = "sync" => reply[r] = "sync" \/ pc[r] = "return"
             /\ pc'[r] \in {"events", "return"} => pc'[r] = pc[r]
  BY <1>2 DEF Answer, Goto, TypeOK, Threads
<1>3. ASSUME NEW t \in Threads, Pin(t) \/ PutFinds(t) \/ PutMisses(t) \/ Insert(t)
                   \/ Parse(t)
      PROVE  reply' = reply /\ (pc'[r] \in {"events", "return"} => pc'[r] = pc[r])
  BY <1>3 DEF Pin, PutFinds, PutMisses, Insert, Parse, AfterPut, Goto, TypeOK, Threads
<1>4. ASSUME NEW t \in Threads, SaveRun(t) \/ SaveEvents(t)
      PROVE  /\ reply' = reply
             /\ pc'[r] = "events" => pc[r] = "events" \/ SaveRun(r)
             /\ pc'[r] = "return" => pc[r] = "return" \/ SaveEvents(r)
  BY <1>4 DEF SaveRun, SaveEvents, Goto, TypeOK, Threads
<1>5. ASSUME NEW w \in Workers, w \notin Requests,
             \/ Raise(w, "422") \/ Raise(w, "503") \/ Return(w)
             \/ \E m \in queue : Take(w, m)
      PROVE  reply' = reply /\ pc'[r] = pc[r]
  BY <1>5, NamesAssumption DEF Raise, Retry, Return, TaskEnds, Take, Goto, TypeOK,
     Threads
<1>6. ASSUME NEW t \in Threads, NEW code \in {"422", "500", "503"}, Raises(t, code)
      PROVE  /\ reply'[r] = "sync" => reply[r] = "sync" \/ pc[r] = "return"
             /\ pc'[r] \in {"events", "return"} => pc'[r] = pc[r]
  BY <1>2, <1>5, <1>6, NamesAssumption DEF Raises, Raise, Replies, Threads
<1>7. ASSUME NEW t \in Threads, Return(t)
      PROVE  /\ reply'[r] = "sync" => reply[r] = "sync" \/ pc[r] = "return"
             /\ pc'[r] \in {"events", "return"} => pc'[r] = pc[r]
  BY <1>2, <1>5, <1>7, NamesAssumption DEF Return, Replies, Threads
<1>8. ASSUME NEW q \in Requests, Enqueue(q)
      PROVE  /\ reply'[r] = "sync" => reply[r] = "sync" \/ pc[r] = "return"
             /\ pc'[r] \in {"events", "return"} => pc'[r] = pc[r]
  BY <1>2, <1>8 DEF Enqueue, Replies
<1>9. ASSUME NEW w \in Workers, NEW m \in queue, Take(w, m)
      PROVE  reply' = reply /\ pc'[r] = pc[r]
  BY <1>5, <1>9, NamesAssumption
<1>10. ASSUME UNCHANGED vars \/ \E h \in Hashes : Expire(h)
       PROVE  reply' = reply /\ pc'[r] = pc[r]
  BY <1>10 DEF Expire, vars
<1> QED
  BY <1>1, <1>2, <1>3, <1>4, <1>6, <1>7, <1>8, <1>9, <1>10, Steps

LEMMA SaveStep ==
    ASSUME TypeOK, PlaceInv, LockInv, RunInv, SaveInv, [Next]_vars
    PROVE  SaveInv'
<1>1. ASSUME NEW r \in Requests, job[r] \in Job
      PROVE  job'[r] = job[r] /\ Exec(r)' = Exec(r)
  BY <1>1, DataChanges, NoJobNotAJob DEF PlaceInv, Threads, Arrive, ArriveRun,
     ArriveRerun, RerunUnknown, Exec
\* Only a request saves a protected run ...
<1>2. ASSUME NEW r \in Requests, Protected(r), NEW t \in Threads,
             pc[t] \in {"save", "events"}, job[t].run = job[r].run
      PROVE  t \in Requests /\ Protected(t) /\ Inside(t) /\ job[t].from = t
  <2>1. job[t] \in Job
    BY <1>2 DEF PlaceInv, Working
  <2>2. CASE t \in Workers
    BY <1>2, <2>1, <2>2 DEF RunInv, Due, Protected
  <2>3. CASE t \in Requests
    BY <1>2, <2>1, <2>3 DEF Protected, Inside, PlaceInv
  <2> QED BY <2>2, <2>3 DEF Threads
\* ... and that is r itself as long as r is inside.
<1>3. ASSUME NEW r \in Requests, Protected(r), Inside(r), NEW t \in Threads,
             pc[t] \in {"save", "events"}, job[t].run = job[r].run
      PROVE  t = r
  <2>1. t \in Requests /\ Inside(t) /\ job[t] \in Job
    BY <1>2, <1>3 DEF Protected
  <2>2. t # r => Hash[job[t].text] = Hash[job[r].text]
    BY <1>3, <2>1 DEF RunInv, Same, Protected
  <2> QED BY <1>3, <2>1, <2>2 DEF LockInv, Protected
<1>4. ASSUME NEW r \in Requests, reply'[r] = "sync"
      PROVE  job'[r] \in Job /\ ~job'[r].async
  <2>1. job[r] \in Job /\ ~job[r].async
    BY <1>4, SyncChanges DEF SaveInv, PlaceInv, Working, Threads
  <2> QED BY <1>1, <2>1
<1>5. ASSUME NEW r \in Requests, Protected(r)', reply'[r] = "sync" \/ Inside(r)'
      PROVE  Protected(r) /\ job'[r] = job[r] /\ Exec(r)' = Exec(r)
             /\ job[r].run \in RunIds
  <2>1. job[r] \in Job
    <3>1. CASE Inside(r)'
      <4>1. Inside(r) \/ Acquire(r)
        BY <1>5, <3>1, LockChanges DEF Protected
      <4> QED BY <4>1 DEF Inside, Acquire, PlaceInv, Working, Threads
    <3>2. CASE reply'[r] = "sync"
      BY <3>2, SyncChanges DEF SaveInv, PlaceInv, Working, Threads
    <3> QED BY <1>5, <3>1, <3>2
  <2>2. ASSUME NEW q \in Requests, job[q].run = job[r].run PROVE ~job[q].async
    <3>1. CASE job[q] \in Job
      BY <1>1, <1>5, <2>1, <2>2, <3>1 DEF Protected
    <3>2. CASE job[q] \notin Job
      BY <3>2 DEF TypeOK, NoJob, Threads
    <3> QED BY <3>1, <3>2
  <2> QED BY <1>1, <1>5, <2>1, <2>2, LockChanges DEF Protected, Job
\* What the step does to a run that is not saved by another thread.
<1>6. ASSUME NEW r \in Requests, NEW i \in RunIds,
             \A t \in Threads : pc[t] \in {"save", "events"} /\ job[t].run = i => t = r
      PROVE  /\ SaveRun(r) \/ runs'[i] = runs[i]
             /\ SaveEvents(r) \/ events'[i] = events[i]
  BY <1>6, DataChanges DEF SaveRun, SaveEvents, TypeOK
<1>7. ASSUME NEW r \in Requests, Protected(r)', pc'[r] \in {"events", "return"}
      PROVE  /\ runs'[job'[r].run].exec = Exec(r)'
             /\ pc'[r] = "return" => events'[job'[r].run] = Exec(r)'
  <2>1. Inside(r)'
    BY <1>7 DEF Inside, Protected
  <2>2. /\ Protected(r) /\ job'[r] = job[r] /\ Exec(r)' = Exec(r)
        /\ job[r].run \in RunIds
    BY <1>5, <1>7, <2>1
  <2>3. Inside(r)
    BY <1>7, <2>2, SyncChanges DEF Inside, Protected, SaveRun, SaveEvents
  <2>4. \A t \in Threads :
           pc[t] \in {"save", "events"} /\ job[t].run = job[r].run => t = r
    BY <1>3, <2>2, <2>3
  <2>5. CASE SaveRun(r)
    BY <1>7, <2>2, <2>5 DEF SaveRun, SavedRecord, Goto, TypeOK, Threads
  <2>6. CASE SaveEvents(r)
    BY <1>7, <2>2, <2>6 DEF SaveEvents, Goto, TypeOK, Threads, SaveInv
  <2>7. CASE ~SaveRun(r) /\ ~SaveEvents(r)
    BY <1>6, <1>7, <2>2, <2>4, <2>7, SyncChanges DEF SaveInv
  <2> QED BY <2>5, <2>6, <2>7
<1>8. ASSUME NEW r \in Requests, Protected(r)', reply'[r] = "sync",
             runs'[job'[r].run].exec = Exec(r)'
      PROVE  events'[job'[r].run] = Exec(r)'
  <2>1. /\ Protected(r) /\ job'[r] = job[r] /\ Exec(r)' = Exec(r)
        /\ job[r].run \in RunIds /\ job[r].from = r
    BY <1>5, <1>8 DEF Protected, PlaceInv
  <2>2. pc[r] \notin {"save", "events"}
    BY <1>8, NamesAssumption, SyncChanges DEF PlaceInv, Replies
  <2>3. CASE runs'[job[r].run] = runs[job[r].run] /\ events'[job[r].run] = events[job[r].run]
    <3>1. reply[r] = "sync" \/ pc[r] = "return"
      BY <1>8, SyncChanges
    <3> QED BY <1>8, <2>1, <2>3, <3>1 DEF SaveInv
  <2>4. ASSUME NEW t \in Threads, SaveRun(t), job[t].run = job[r].run
        PROVE  FALSE
    <3>1. t \in Requests /\ job[t].from = t /\ t # r
      BY <1>2, <2>1, <2>2, <2>4 DEF SaveRun
    <3>2. runs'[job[r].run].exec.from = t
      BY <2>1, <2>4, <3>1 DEF SaveRun, SavedRecord, Exec, TypeOK
    <3> QED BY <1>8, <2>1, <3>1, <3>2 DEF Exec
  <2>5. ASSUME NEW t \in Threads, SaveEvents(t), job[t].run = job[r].run
        PROVE  FALSE
    <3>1. t \in Requests /\ job[t].from = t /\ t # r /\ Protected(t)
      BY <1>2, <2>1, <2>2, <2>5 DEF SaveEvents
    <3>2. runs[job[r].run].exec = Exec(t) /\ runs' = runs
      BY <2>5, <3>1 DEF SaveInv, SaveEvents
    <3> QED BY <1>8, <2>1, <3>1, <3>2 DEF Exec
  <2> QED
    BY <2>1, <2>3, <2>4, <2>5, DataChanges DEF SaveRun, SaveEvents, TypeOK
<1> QED BY <1>4, <1>7, <1>8 DEF SaveInv

-----------------------------------------------------------------------------
(* Theorems.                                                                *)

\* All that is true of every state.
IInv ==
    /\ TypeOK /\ PlaceInv
    /\ VersionInv
    /\ LockInv
    /\ KeyInv
    /\ RunInv
    /\ SaveInv

\* The inductive invariant of handlers, workers and stores.
THEOREM Invariant == Spec => []IInv
<1>1. Init => IInv
  BY TypeInit, VersionInit, LockInit, KeyInit, RunInit, SaveInit DEF IInv
<1>2. IInv /\ [Next]_vars => IInv'
  BY TypeStep, VersionStep, LockStep, KeyStep, RunInvStep, SaveStep DEF IInv
<1> QED
  BY <1>1, <1>2, PTL DEF Spec

\* The variables have the shape the program gives them.
THEOREM TypeCorrect == Spec => []TypeOK
<1>1. IInv => TypeOK
  BY DEF IInv
<1> QED
  BY <1>1, Invariant, PTL

\* The lock of the process covers a synchronous run, and nothing else: no
\* two requests are between acquire and release for one definition, and no
\* failure leaves a lock behind.
THEOREM LocksAreSound == Spec => []LocksSound
<1>1. LockInv => LocksSound
  BY DEF LockInv, LocksSound, ExclusiveRuns, Overlap
<1> QED
  BY <1>1, Invariant, PTL DEF IInv

\* No thread frees or takes over the lock of another.
THEOREM ReleasesByOwner == Spec => ReleaseByOwner
<1>1. ASSUME TypeOK, PlaceInv, [Next]_vars, NEW h \in Hashes,
             lock[h] # None, lock'[h] # lock[h], pc' # pc
      PROVE  pc'[lock[h]] = "answered"
  <2>1. ASSUME NEW r \in Requests, Acquire(r) PROVE FALSE
    BY <1>1, <2>1, HashType DEF Acquire, LockFree, TypeOK, PlaceInv, Working,
       Threads, Job
  <2>2. ASSUME NEW r \in Requests, NEW code \in Replies, Answer(r, code)
        PROVE  pc'[lock[h]] = "answered"
    BY <1>1, <2>2 DEF Answer, Released, Goto, TypeOK, Threads
  <2>3. ~ \E g \in Hashes : Expire(g)
    BY <1>1 DEF Expire
  <2> QED BY <1>1, <2>1, <2>2, <2>3, LockChanges
<1>2. TypeOK /\ PlaceInv /\ [Next]_vars =>
        [\A h \in Hashes : lock[h] # None /\ lock'[h] # lock[h] /\ pc' # pc
                           => pc'[lock[h]] = "answered"]_vars
  BY <1>1
<1> QED
  BY <1>2, TypeInit, TypeStep, PTL DEF Spec, ReleaseByOwner

\* Of any number of requests with one idempotency key all but one are refused
\* or have failed in a store.
THEOREM KeyIsDispatchedOnce == Spec => []KeyDispatchedOnce
<1>1. KeyInv => KeyDispatchedOnce
  BY DEF KeyInv, Owner, KeyDispatchedOnce
<1> QED
  BY <1>1, Invariant, PTL DEF IInv

\* Whatever pins a version finds it stored.
THEOREM PinnedIsStored == Spec => []PinnedStored
<1>1. VersionInv => PinnedStored
  BY DEF VersionInv, Stored, PinnedStored
<1> QED
  BY <1>1, Invariant, PTL DEF IInv

\* Under the lock of the process a run that was answered with success, and
\* not executed again since, is stored with its own events.
THEOREM SavedRunIsConsistent == Spec => []SavedRunConsistent
<1>1. SaveInv => SavedRunConsistent
  BY DEF SaveInv, Protected, SavedRunConsistent
<1> QED
  BY <1>1, Invariant, PTL DEF IInv
=============================================================================
