--------------------------- MODULE WebhooksProofs ---------------------------
(***************************************************************************)
(* The webhook endpoints, for any number of requests, registrations, keys  *)
(* and clients: Spec implements the rate limiter's AccessSpec, and the     *)
(* invariants and the action property of Webhooks hold.                    *)
(***************************************************************************)
EXTENDS Webhooks, AccessProofs

USE WebhooksAssumption

-----------------------------------------------------------------------------
(* The endpoints drive the limiter as AccessSpec allows.                    *)

\* A request is counted in a bucket of the limiter.
LEMMA BucketType ==
    ASSUME NEW c \in Callers
    PROVE  Bucket(c.key, c.client) \in Buckets
BY DEF Bucket, Buckets

\* A handler touches the limiter in _check_access only, so that each of its
\* steps is a step of the limiter or leaves it alone.
LEMMA ServeAccess ==
    ASSUME NEW q \in Requests, Serve(q)
    PROVE  [AccessNext]_accessVars
<1>1. ASSUME NEW r \in RegisterContents \cup TriggerContents, Arrive(q, r)
      PROVE  AccessNext
  <2>1. r.from \in Callers
    BY DEF RegisterContents, TriggerContents
  <2>2. Bucket(r.from.key, r.from.client) \in Buckets
    BY <2>1, BucketType
  <2>3. Admit(Bucket(r.from.key, r.from.client)) \/ Limited(Bucket(r.from.key, r.from.client))
    BY <1>1 DEF Arrive
  <2> QED BY <2>2, <2>3 DEF AccessNext
<1>2. CASE RegisterInvalid(q) \/ RegisterInMemory(q) \/ RegisterLoad(q)
           \/ RegisterCommit(q) \/ RegisterConflict(q)
  BY <1>2 DEF RegisterInvalid, RegisterInMemory, RegisterLoad, RegisterCommit,
              RegisterConflict, accessVars
<1>3. CASE TriggerGet(q) \/ VerifySignature(q) \/ Claim(q) \/ ClaimConflict(q)
           \/ Fire(q) \/ Fails(q)
  BY <1>3 DEF TriggerGet, VerifySignature, Claim, ClaimConflict, Fire, Fails,
              accessVars
<1> QED BY <1>1, <1>2, <1>3 DEF Serve

\* The endpoints refine the limiter: whatever its theorems say holds of the
\* composed system.
THEOREM ImplementsAccess == Spec => AccessSpec
<1>1. Init => AccessInit
  BY DEF Init
<1>2. [Next]_vars => [AccessNext]_accessVars
  <2>1. ASSUME NEW c \in Busy, OtherRequest(c)
        PROVE  AccessNext
    <3>1. Bucket(c.key, c.client) \in Buckets
      BY BucketType
    <3> QED BY <2>1, <3>1 DEF OtherRequest, AccessNext
  <2>2. CASE UNCHANGED vars
    BY <2>2 DEF vars, accessVars
  <2> QED BY <2>1, <2>2, ServeAccess DEF Next, AccessNext
<1> QED BY <1>1, <1>2, PTL DEF Spec, AccessSpec

\* So the limiter is sound for the requests to all endpoints together: less
\* than twice the limit within a window length, and 429 only after the limit
\* has been used up within one.
THEOREM WebhooksLimiterSound == Spec => []LimiterSound
BY ImplementsAccess, LimiterIsSound, PTL

-----------------------------------------------------------------------------
(* The inductive invariant.                                                 *)

\* The request is past the claim of its key.
HoldsKey(q) == pc[q] \in {"dispatch", "fired"} /\ req[q].key # None

\* What the place of a request in its handler says of what it has read.
Local(q) ==
    /\ pc[q] \in {"register", "commit"} => req[q] \in RegisterContents
    /\ pc[q] \in {"get", "body", "claim", "dispatch", "fired"} =>
           req[q] \in TriggerContents
    /\ Open(q) => row \in during[q]
    /\ pc[q] = "commit" =>
           got[q] \in during[q] /\ (got[q] # None => row # None)
    /\ pc[q] = "body" => row # None
    /\ pc[q] \in {"body", "claim", "dispatch", "fired"} =>
           got[q] \in during[q] /\ got[q] # None
    /\ pc[q] \in {"claim", "dispatch", "fired"} =>
           \E r \in during[q] \ {None} : r.secret \in {None, "", req[q].sig}
    /\ pc[q] = "claim" => req[q].key # None
    /\ HoldsKey(q) => req[q].key \in claims

\* No two requests hold the same key.
Distinct ==
    \A q, p \in Requests :
        q # p /\ HoldsKey(q) /\ HoldsKey(p) => req[q].key # req[p].key

HookTypeOK ==
    /\ backend \in Backends
    /\ row \in Rows \cup {None}
    /\ claims \subseteq Keys \ {None}
    /\ pc \in [Requests -> Labels]
    /\ req \in [Requests -> RegisterContents \cup TriggerContents \cup {NoRequest}]
    /\ got \in [Requests -> Rows \cup {None}]
    /\ during \in [Requests -> SUBSET (Rows \cup {None})]

HookInv ==
    /\ HookTypeOK
    /\ \A q \in Requests : Local(q)
    /\ Distinct
    /\ KeyUsedByDispatch

LEMMA HookInit == Init => HookInv
BY DEF Init, HookInv, HookTypeOK, Local, Distinct, KeyUsedByDispatch, HoldsKey,
       Open, Labels, NoRequest

\* A step of q leaves what is known of another request true.
LEMMA Others ==
    ASSUME NEW p \in Requests, Local(p),
           pc'[p] = pc[p], req'[p] = req[p], got'[p] = got[p],
           during[p] \subseteq during'[p], claims \subseteq claims',
           row' = row \/ (row' # None /\ (Open(p) => row' \in during'[p]))
    PROVE  Local(p)'
BY DEF Local, Open, HoldsKey

\* A step that gives no request a key keeps the keys distinct.
LEMMA DistinctKept ==
    ASSUME Distinct,
           \A p \in Requests : HoldsKey(p)' => HoldsKey(p) /\ req'[p] = req[p]
    PROVE  Distinct'
BY DEF Distinct

\* A step that claims nothing keeps the claimed keys in use.
LEMMA KeysKept ==
    ASSUME KeyUsedByDispatch, claims' = claims,
           \A p \in Requests :
               pc[p] \in {"dispatch", "fired", "503"} =>
                   /\ pc'[p] \in {"dispatch", "fired", "503"}
                   /\ req'[p] = req[p]
    PROVE  KeyUsedByDispatch'
BY DEF KeyUsedByDispatch

\* The steps that only answer the request, or move it on.
LEMMA Answered ==
    ASSUME HookInv, NEW q \in Requests, NEW label \in Labels,
           Goto(q, label), Open(q),
           label \in {"401", "409", "422", "503"}
               \/ (label = "fired" /\ pc[q] = "dispatch"),
           UNCHANGED <<backend, row, claims, req, got, during>>,
           pc[q] = "dispatch" => label \in {"fired", "503"}
    PROVE  HookInv'
<1>1. HookTypeOK /\ pc' = [pc EXCEPT ![q] = label]
  BY DEF HookInv, Goto
<1>2. pc'[q] = label /\ \A p \in Requests : p # q => pc'[p] = pc[p]
  BY <1>1 DEF HookTypeOK
<1>3. HookTypeOK'
  BY <1>1 DEF HookTypeOK
<1>4. Local(q)'
  BY <1>2 DEF HookInv, Local, Open, HoldsKey
<1>5. ASSUME NEW p \in Requests, p # q
      PROVE  Local(p)'
  BY <1>2, <1>5, Others DEF HookInv
<1>6. Distinct'
  <2>1. \A p \in Requests : HoldsKey(p)' => HoldsKey(p) /\ req'[p] = req[p]
    BY <1>2 DEF HoldsKey
  <2> QED BY <2>1, DistinctKept DEF HookInv
<1>7. KeyUsedByDispatch'
  <2>1. \A p \in Requests :
            pc[p] \in {"dispatch", "fired", "503"} =>
                pc'[p] \in {"dispatch", "fired", "503"} /\ req'[p] = req[p]
    BY <1>2 DEF Open
  <2> QED BY <2>1, KeysKept DEF HookInv
<1> QED BY <1>3, <1>4, <1>5, <1>6, <1>7 DEF HookInv

\* A request that is refused in _check_access is answered; one that is
\* admitted has seen the row that is stored.
LEMMA ArriveInv ==
    ASSUME HookInv, NEW q \in Requests,
           NEW r \in RegisterContents \cup TriggerContents, Arrive(q, r)
    PROVE  HookInv'
<1>1. /\ HookTypeOK /\ pc[q] = "new"
      /\ UNCHANGED <<backend, row, claims, got, registered>>
  BY DEF HookInv, Arrive
<1>2. \/ \E code \in {"429", "401", "403"} : Refuse(q, code)
      \/ Accept(q, r)
  BY DEF Arrive
<1>3. /\ \A p \in Requests \ {q} :
             /\ pc'[p] = pc[p] /\ req'[p] = req[p] /\ got'[p] = got[p]
             /\ during'[p] = during[p]
      /\ \/ pc'[q] \in {"429", "401", "403"}
         \/ /\ pc'[q] = FirstLabel(r) /\ req'[q] = r
            /\ during'[q] = {row}
      /\ HookTypeOK'
  <2>1. CASE Accept(q, r)
    BY <2>1, <1>1 DEF Accept, Goto, HookTypeOK, Labels, FirstLabel
  <2>2. ASSUME NEW code \in {"429", "401", "403"}, Refuse(q, code)
        PROVE  <1>3!1
    BY <2>2, <1>1 DEF Refuse, Goto, HookTypeOK, Labels
  <2>3. ASSUME NEW code \in {"429", "401", "403"}, Refuse(q, code)
        PROVE  pc'[q] = code /\ HookTypeOK'
    BY <2>3, <1>1 DEF Refuse, Goto, HookTypeOK, Labels
  <2> QED BY <2>1, <2>2, <2>3, <1>2
<1>4. Local(q)'
  <2>1. CASE pc'[q] \in {"429", "401", "403"}
    BY <2>1 DEF Local, Open, HoldsKey
  <2>2. CASE r \in RegisterContents /\ pc'[q] = FirstLabel(r) /\ req'[q] = r
             /\ during'[q] = {row}
    <3>1. pc'[q] = "register"
      BY <2>2 DEF FirstLabel, RegisterContents
    <3> QED BY <2>2, <3>1, <1>1 DEF Local, Open, HoldsKey
  <2>3. CASE r \in TriggerContents /\ pc'[q] = FirstLabel(r) /\ req'[q] = r
             /\ during'[q] = {row}
    <3>1. pc'[q] = "get"
      BY <2>3 DEF FirstLabel, TriggerContents
    <3> QED BY <2>3, <3>1, <1>1 DEF Local, Open, HoldsKey
  <2> QED BY <2>1, <2>2, <2>3, <1>3
<1>5. ASSUME NEW p \in Requests, p # q
      PROVE  Local(p)'
  BY <1>1, <1>3, <1>5, Others DEF HookInv
<1>6. pc'[q] \notin {"dispatch", "fired"}
  BY <1>3 DEF FirstLabel
<1>7. Distinct'
  <2>1. \A p \in Requests : HoldsKey(p)' => HoldsKey(p) /\ req'[p] = req[p]
    BY <1>3, <1>6 DEF HoldsKey
  <2> QED BY <2>1, DistinctKept DEF HookInv
<1>8. KeyUsedByDispatch'
  <2>1. \A p \in Requests :
            pc[p] \in {"dispatch", "fired", "503"} =>
                pc'[p] \in {"dispatch", "fired", "503"} /\ req'[p] = req[p]
    BY <1>1, <1>3
  <2> QED BY <2>1, <1>1, KeysKept DEF HookInv
<1> QED BY <1>3, <1>4, <1>5, <1>7, <1>8 DEF HookInv

\* Storing a registration, in either of the stores: every request that is
\* served sees it.
LEMMA StoredInv ==
    ASSUME HookInv, NEW q \in Requests, NEW new \in Rows, Stored(new),
           Goto(q, "registered"), pc[q] \in {"register", "commit"},
           UNCHANGED <<backend, claims, req, got>>
    PROVE  HookInv'
<1>1. HookTypeOK /\ row' = new /\ new # None
  BY DEF HookInv, Stored
<1>2. /\ pc'[q] = "registered" /\ \A p \in Requests : p # q => pc'[p] = pc[p]
      /\ \A p \in Requests :
             during[p] \subseteq during'[p] /\ (Open(p) => new \in during'[p])
  BY <1>1 DEF HookTypeOK, Goto, Stored
<1>3. HookTypeOK'
  BY <1>1 DEF HookTypeOK, Goto, Stored, Labels
<1>4. Local(q)'
  BY <1>2 DEF Local, Open, HoldsKey
<1>5. ASSUME NEW p \in Requests, p # q
      PROVE  Local(p)'
  BY <1>1, <1>2, <1>5, Others DEF HookInv
<1>6. Distinct'
  <2>1. \A p \in Requests : HoldsKey(p)' => HoldsKey(p) /\ req'[p] = req[p]
    BY <1>2 DEF HoldsKey
  <2> QED BY <2>1, DistinctKept DEF HookInv
<1>7. KeyUsedByDispatch'
  <2>1. \A p \in Requests :
            pc[p] \in {"dispatch", "fired", "503"} =>
                pc'[p] \in {"dispatch", "fired", "503"} /\ req'[p] = req[p]
    BY <1>2
  <2> QED BY <2>1, KeysKept DEF HookInv
<1> QED BY <1>3, <1>4, <1>5, <1>6, <1>7 DEF HookInv

\* What a commit writes is a row, and a registration takes the place of the
\* one it has read.
LEMMA WrittenIsRow ==
    ASSUME HookTypeOK, NEW q \in Requests, req[q] \in RegisterContents,
           row # None \/ got[q] = None
    PROVE  /\ Written(q) \in Rows
           /\ req[q].trigger \in Rows
           /\ got[q] = row => Written(q) = req[q].trigger
<1>1. req[q].trigger \in Rows
  BY DEF RegisterContents
<1>2. CASE got[q] = None
  BY <1>1, <1>2 DEF Written
<1>3. CASE got[q] # None
  <2>1. got[q] \in Rows /\ row \in Rows
    BY <1>3 DEF HookTypeOK
  <2>2. req[q].trigger = [def |-> req[q].trigger.def, secret |-> req[q].trigger.secret]
    BY <1>1 DEF Rows
  <2> QED BY <1>1, <1>3, <2>1, <2>2 DEF Written, Rows
<1> QED BY <1>2, <1>3

\* A read of the registration, at the begin of either handler's work.
LEMMA ReadInv ==
    ASSUME HookInv, NEW q \in Requests, RegisterLoad(q) \/ TriggerGet(q)
    PROVE  HookInv'
<1>1. /\ HookTypeOK /\ pc[q] \in {"register", "get"}
      /\ got' = [got EXCEPT ![q] = row]
      /\ UNCHANGED <<backend, row, claims, req, during>>
  BY DEF HookInv, RegisterLoad, TriggerGet
<1>2. \/ pc[q] = "register" /\ Goto(q, "commit")
      \/ pc[q] = "get" /\ row = None /\ Goto(q, "404")
      \/ pc[q] = "get" /\ row # None /\ Goto(q, "body")
  BY DEF RegisterLoad, TriggerGet
<1>3. /\ got'[q] = row
      /\ \A p \in Requests : p # q => pc'[p] = pc[p] /\ got'[p] = got[p]
      /\ \/ pc[q] = "register" /\ pc'[q] = "commit"
         \/ pc[q] = "get" /\ pc'[q] = "404"
         \/ pc[q] = "get" /\ row # None /\ pc'[q] = "body"
  BY <1>1, <1>2 DEF HookTypeOK, Goto
<1>4. HookTypeOK'
  BY <1>1, <1>2 DEF HookTypeOK, Goto, Labels
<1>5. Local(q)'
  BY <1>1, <1>3 DEF HookInv, Local, Open, HoldsKey
<1>6. ASSUME NEW p \in Requests, p # q
      PROVE  Local(p)'
  BY <1>1, <1>3, <1>6, Others DEF HookInv
<1>7. Distinct'
  <2>1. \A p \in Requests : HoldsKey(p)' => HoldsKey(p) /\ req'[p] = req[p]
    BY <1>1, <1>3 DEF HoldsKey
  <2> QED BY <2>1, DistinctKept DEF HookInv
<1>8. KeyUsedByDispatch'
  <2>1. \A p \in Requests :
            pc[p] \in {"dispatch", "fired", "503"} =>
                pc'[p] \in {"dispatch", "fired", "503"} /\ req'[p] = req[p]
    BY <1>1, <1>3
  <2> QED BY <2>1, <1>1, KeysKept DEF HookInv
<1> QED BY <1>4, <1>5, <1>6, <1>7, <1>8 DEF HookInv

\* The second read: the row that accepts the signature is one that the
\* request has seen.  Without a key the request has nothing to claim.
LEMMA PassedInv ==
    ASSUME HookInv, NEW q \in Requests, VerifySignature(q), Passed(q)
    PROVE  HookInv'
<1>1. /\ HookTypeOK /\ pc[q] = "body"
      /\ UNCHANGED <<backend, row, claims, req, got, during>>
      /\ Accepts(row, req[q].sig)
  BY DEF HookInv, VerifySignature, Passed
<1>2. /\ \A p \in Requests : p # q => pc'[p] = pc[p]
      /\ \/ req[q].key = None /\ pc'[q] = "dispatch"
         \/ req[q].key # None /\ pc'[q] = "claim"
      /\ HookTypeOK'
  BY <1>1 DEF HookTypeOK, Passed, Goto, Labels
<1>3. Local(q)'
  <2>1. row \in during[q] \ {None} /\ row.secret \in {None, "", req[q].sig}
    BY <1>1 DEF HookInv, Local, Open, Accepts
  <2> QED BY <2>1, <1>1, <1>2 DEF HookInv, Local, Open, HoldsKey
<1>4. ASSUME NEW p \in Requests, p # q
      PROVE  Local(p)'
  BY <1>1, <1>2, <1>4, Others DEF HookInv
<1>5. Distinct'
  BY <1>1, <1>2 DEF HookInv, Distinct, HoldsKey
<1>6. KeyUsedByDispatch'
  <2>1. \A p \in Requests :
            pc[p] \in {"dispatch", "fired", "503"} =>
                pc'[p] \in {"dispatch", "fired", "503"} /\ req'[p] = req[p]
    BY <1>1, <1>2
  <2> QED BY <2>1, <1>1, KeysKept DEF HookInv
<1> QED BY <1>2, <1>3, <1>4, <1>5, <1>6 DEF HookInv

\* A key that can be claimed is held by no request.
LEMMA ClaimInv ==
    ASSUME HookInv, NEW q \in Requests, Claim(q)
    PROVE  HookInv'
<1>1. /\ HookTypeOK /\ pc[q] = "claim" /\ req[q].key \notin claims
      /\ claims' = claims \cup {req[q].key}
      /\ UNCHANGED <<backend, row, req, got, during>>
  BY DEF HookInv, Claim, Claimable
<1>2. pc'[q] = "dispatch" /\ \A p \in Requests : p # q => pc'[p] = pc[p]
  BY <1>1 DEF HookTypeOK, Claim, Goto
<1>3. req[q] \in TriggerContents /\ req[q].key # None
  BY <1>1 DEF HookInv, Local
<1>4. req[q].kind = "trigger" /\ req[q].key \in Keys
  BY <1>3 DEF TriggerContents
<1>5. HookTypeOK'
  BY <1>1, <1>3, <1>4 DEF HookTypeOK, Claim, Goto, Labels
<1>6. Local(q)'
  BY <1>1, <1>2 DEF HookInv, Local, Open, HoldsKey
<1>7. ASSUME NEW p \in Requests, p # q
      PROVE  Local(p)'
  BY <1>1, <1>2, <1>7, Others DEF HookInv
<1>8. Distinct'
  <2>1. \A p \in Requests : HoldsKey(p) => req[p].key \in claims
    BY DEF HookInv, Local
  <2> QED BY <2>1, <1>1, <1>2 DEF HookInv, Distinct, HoldsKey
<1>9. KeyUsedByDispatch'
  BY <1>1, <1>2, <1>4 DEF HookInv, KeyUsedByDispatch
<1> QED BY <1>5, <1>6, <1>7, <1>8, <1>9 DEF HookInv

\* HookInv is inductive.
LEMMA HookStep == HookInv /\ [Next]_vars => HookInv'
<1> SUFFICES ASSUME HookInv, [Next]_vars
             PROVE  HookInv'
  OBVIOUS
<1>1. CASE UNCHANGED hooks
  <2>1. UNCHANGED <<backend, row, claims, pc, req, got, during>>
    BY <1>1 DEF hooks
  <2>2. HookTypeOK'
    BY <2>1 DEF HookInv, HookTypeOK
  <2>3. \A q \in Requests : Local(q)'
    BY <2>1, Others DEF HookInv
  <2>4. Distinct'
    BY <2>1, DistinctKept DEF HookInv, HoldsKey
  <2>5. KeyUsedByDispatch'
    BY <2>1, KeysKept DEF HookInv
  <2> QED BY <2>2, <2>3, <2>4, <2>5 DEF HookInv
<1>2. ASSUME NEW q \in Requests, Serve(q)
      PROVE  HookInv'
  <2> USE <1>2
  <2>1. ASSUME NEW r \in RegisterContents \cup TriggerContents, Arrive(q, r)
        PROVE  HookInv'
    BY <2>1, ArriveInv
  <2>2. CASE RegisterInvalid(q)
    BY <2>2, Answered DEF RegisterInvalid, Open, Labels
  <2>3. CASE RegisterInMemory(q)
    <3>1. req[q].trigger \in Rows
      BY <2>3 DEF RegisterInMemory, HookInv, Local, RegisterContents
    <3> QED BY <2>3, <3>1, StoredInv DEF RegisterInMemory
  <2>4. CASE RegisterLoad(q) \/ TriggerGet(q)
    BY <2>4, ReadInv
  <2>5. CASE RegisterCommit(q)
    <3>1. /\ req[q] \in RegisterContents /\ HookTypeOK
          /\ row # None \/ got[q] = None
      BY <2>5 DEF RegisterCommit, HookInv, Local
    <3>2. Written(q) \in Rows
      BY <3>1, WrittenIsRow
    <3> QED BY <2>5, <3>2, StoredInv DEF RegisterCommit
  <2>6. CASE RegisterConflict(q)
    BY <2>6, Answered DEF RegisterConflict, Open, Labels
  <2>7. CASE VerifySignature(q)
    <3>1. CASE Rejected(q)
      BY <2>7, <3>1, Answered DEF VerifySignature, Rejected, Open, Labels
    <3> QED BY <2>7, <3>1, PassedInv DEF VerifySignature
  <2>8. CASE Claim(q)
    BY <2>8, ClaimInv
  <2>9. CASE ClaimConflict(q)
    BY <2>9, Answered DEF ClaimConflict, Open, Labels
  <2>10. CASE Fire(q)
    BY <2>10, Answered DEF Fire, Open, Labels
  <2>11. CASE Fails(q)
    BY <2>11, Answered DEF Fails, Open, Labels
  <2> QED BY <2>1, <2>2, <2>3, <2>4, <2>5, <2>6, <2>7, <2>8, <2>9, <2>10, <2>11
          DEF Serve
<1> QED BY <1>1, <1>2 DEF Next, OtherRequest, vars

\* HookInv holds in every reachable state.
THEOREM HookInvariant == Spec => []HookInv
BY HookInit, HookStep, PTL DEF Spec

-----------------------------------------------------------------------------
(* What follows from it.                                                    *)

\* The handlers, the stores and the limiter keep the shape of their state.
THEOREM WebhooksTypeCorrect == Spec => []TypeOK
<1>1. HookInv /\ AccessTypeOK => TypeOK
  BY DEF HookInv, HookTypeOK, TypeOK
<1> QED BY <1>1, HookInvariant, ImplementsAccess, AccessTypeCorrect, PTL

\* However re-registrations fall between the two reads of trigger_webhook,
\* the definition it fires and the secret it checks were both stored while
\* the request was served.
THEOREM FiresWhatWasRegistered == Spec => []FiredFromRegistration
<1>1. HookInv => FiredFromRegistration
  BY DEF HookInv, Local, FiredFromRegistration
<1> QED BY <1>1, HookInvariant, PTL

\* Of any number of requests with the same key at most one fires.
THEOREM OneFiringPerKey == Spec => []KeyFiredOnce
<1>1. HookInv => KeyFiredOnce
  BY DEF HookInv, Distinct, HoldsKey, KeyFiredOnce
<1> QED BY <1>1, HookInvariant, PTL

\* A key is never used up by a request that its signature has ruled out.
THEOREM KeysUsedByDispatch == Spec => []KeyUsedByDispatch
<1>1. HookInv => KeyUsedByDispatch
  BY DEF HookInv
<1> QED BY <1>1, HookInvariant, PTL

\* A key is used up by the one request that it fires.
THEOREM KeysAreSound == Spec => []KeysSound
<1>1. KeyFiredOnce /\ KeyUsedByDispatch => KeysSound
  BY DEF KeysSound
<1> QED BY <1>1, OneFiringPerKey, KeysUsedByDispatch, PTL

\* A registration that no other overlaps is stored as it was requested: an
\* update that writes the changed columns only has read the row it changes.
THEOREM LoneRegistrationIsStored == Spec => LoneRegistrationStored
<1>1. ASSUME HookInv, [Next]_vars, NEW q \in Requests,
             pc[q] # "registered", pc'[q] = "registered", during[q] = {row}
      PROVE  row' = req[q].trigger
  <2>1. HookTypeOK
    BY <1>1 DEF HookInv
  <2>2. PICK p \in Requests : Serve(p)
    BY <1>1 DEF Next, OtherRequest, hooks, vars
  <2>3. p = q /\ (RegisterInMemory(q) \/ RegisterCommit(q))
    <3>1. ASSUME NEW label \in Labels, Goto(p, label), label # "registered"
          PROVE  FALSE
      BY <1>1, <2>1, <3>1 DEF Goto, HookTypeOK
    <3>2. ASSUME NEW r \in RegisterContents \cup TriggerContents, Arrive(p, r)
          PROVE  FALSE
      <4>1. \E label \in {"429", "401", "403", "register", "get"} : Goto(p, label)
        BY <3>2 DEF Arrive, Refuse, Accept, FirstLabel
      <4> QED BY <3>1, <4>1 DEF Labels
    <3>3. CASE RegisterInvalid(p) \/ RegisterLoad(p) \/ RegisterConflict(p)
               \/ TriggerGet(p) \/ VerifySignature(p)
      <4>1. \E label \in {"422", "commit", "503", "404", "body", "401",
                           "dispatch", "claim"} : Goto(p, label)
        BY <3>3 DEF RegisterInvalid, RegisterLoad, RegisterConflict,
              TriggerGet, VerifySignature, Rejected, Passed
      <4> QED BY <3>1, <4>1 DEF Labels
    <3>4. CASE Claim(p) \/ ClaimConflict(p) \/ Fire(p) \/ Fails(p)
      <4>1. \E label \in {"dispatch", "409", "fired", "503"} : Goto(p, label)
        BY <3>4 DEF Claim, ClaimConflict, Fire, Fails
      <4> QED BY <3>1, <4>1 DEF Labels
    <3>5. CASE RegisterInMemory(p) \/ RegisterCommit(p)
      <4>1. Goto(p, "registered")
        BY <3>5 DEF RegisterInMemory, RegisterCommit
      <4>2. p = q
        BY <4>1, <1>1, <2>1 DEF Goto, HookTypeOK
      <4> QED BY <3>5, <4>2
    <3> QED BY <2>2, <3>2, <3>3, <3>4, <3>5 DEF Serve
  <2>4. CASE RegisterInMemory(q)
    BY <2>4 DEF RegisterInMemory, Stored
  <2>5. CASE RegisterCommit(q)
    <3>1. /\ req[q] \in RegisterContents /\ got[q] \in during[q]
          /\ row # None \/ got[q] = None
      BY <1>1, <2>5 DEF RegisterCommit, HookInv, Local
    <3>2. got[q] = row
      BY <1>1, <3>1
    <3>3. Written(q) = req[q].trigger
      BY <2>1, <3>1, <3>2, WrittenIsRow
    <3> QED BY <2>5, <3>3 DEF RegisterCommit, Stored
  <2> QED BY <2>3, <2>4, <2>5
<1>2. HookInv /\ [Next]_vars =>
          [\A q \in Requests :
              pc[q] # "registered" /\ pc'[q] = "registered" /\ during[q] = {row}
                  => row' = req[q].trigger]_vars
  BY <1>1
<1> QED BY <1>2, HookInvariant, PTL DEF Spec, LoneRegistrationStored
=============================================================================
