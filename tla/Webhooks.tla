------------------------------ MODULE Webhooks ------------------------------
(***************************************************************************)
(* The endpoints POST /webhooks/{name}/register and POST /webhooks/{name}  *)
(* (main.py) over WebhookRegistry and its two stores (webhooks.py,         *)
(* storage_db.py), behind _check_access (module Access).                   *)
(*                                                                         *)
(* All requests are about one name; names are keys of the stores and do    *)
(* not touch each other.  register_webhook runs in a thread of the pool,   *)
(* trigger_webhook is a coroutine of the event loop that waits for the     *)
(* body between two reads of the registration.  After the second read its  *)
(* steps depend on the idempotency records alone, so that they need not    *)
(* exclude those of other coroutines.  A signature is the secret it was    *)
(* made with.                                                              *)
(***************************************************************************)
EXTENDS Access

CONSTANTS
    Requests,
    Triggers,                   \* what may be registered: [def, secret]
    Invalid,                    \* YAML definitions that are refused
    Signatures,                 \* that come with requests, None for none
    Keys,                       \* idempotency keys, None for none
    Callers,                    \* the senders: [key, client] ...
    Busy,                       \* ... and those who use other endpoints too
    Backends,                   \* the stores: "memory", "database"
    None

\* The columns of the registration's row.
Rows == [def : {t.def : t \in Triggers}, secret : {t.secret : t \in Triggers}]

ASSUME WebhooksAssumption ==
    /\ Triggers \subseteq Rows /\ None \notin Rows
    /\ \A c \in Callers : c.client \in Clients
    /\ Backends \subseteq {"memory", "database"}
    /\ Busy \subseteq Callers
    /\ None \notin ApiKeys

VARIABLES
    backend,        \* the store of this process
    row,            \* the registration, None if there is none
    claims,         \* idempotency records of the name
    pc,             \* per request
    req,            \* per request: its contents
    got,            \* per request: the registration it has read
    registered,     \* history: all that was asked to be registered
    during          \* history, per request: what was stored while it was served

hooks == <<backend, row, claims, pc, req, got, registered, during>>
vars  == <<accessVars, hooks>>

\* WebhookRegisterPayload
RegisterContents == [kind : {"register"}, trigger : Triggers, from : Callers]

\* The headers of a request to fire the webhook.
TriggerContents ==
    [kind : {"trigger"}, sig : Signatures, key : Keys, from : Callers]

NoRequest == [kind |-> None]

\* A registration from before, or none.
Init ==
    /\ AccessInit
    /\ backend \in Backends
    /\ row \in {t \in Triggers : t.def \notin Invalid} \cup {None}
    /\ claims = {}
    /\ pc = [q \in Requests |-> "new"]
    /\ req = [q \in Requests |-> NoRequest]
    /\ got = [q \in Requests |-> None]
    /\ registered = {row}
    /\ during = [q \in Requests |-> {}]

Goto(q, label) == pc' = [pc EXCEPT ![q] = label]

\* Requests that have passed _check_access and have no answer yet.
Open(q) == pc[q] \in {"register", "commit", "get", "body", "claim", "dispatch"}

-----------------------------------------------------------------------------
(* Arrival and _check_access.  Both endpoints ask for the operator role.    *)

Operator == 2

\* The first statement of the two handlers.
FirstLabel(r) == IF r.kind = "register" THEN "register" ELSE "get"

\* Of a request that is refused nothing is kept.
Refuse(q, code) ==
    /\ Goto(q, code)
    /\ UNCHANGED <<req, during>>

Accept(q, r) ==
    /\ Goto(q, FirstLabel(r))
    /\ req' = [req EXCEPT ![q] = r]
    /\ during' = [during EXCEPT ![q] = {row}]

Arrive(q, r) ==
    /\ pc[q] = "new"
    /\ LET b == Bucket(r.from.key, r.from.client)
       IN  \/ Limited(b) /\ Refuse(q, "429")
           \/ /\ Admit(b)
              /\ ~Authorized(r.from.key, Operator)
              /\ Refuse(q, IF r.from.key = None THEN "401" ELSE "403")
           \/ /\ Admit(b)
              /\ Authorized(r.from.key, Operator)
              /\ Accept(q, r)
    /\ UNCHANGED <<backend, row, claims, got, registered>>

-----------------------------------------------------------------------------
(* register_webhook                                                         *)

Stored(new) ==
    /\ row' = new
    /\ during' = [q \in Requests |-> IF Open(q) THEN during[q] \cup {new}
                                                ELSE during[q]]

\* The definition is not accepted.
RegisterInvalid(q) ==
    /\ pc[q] = "register"
    /\ req[q].trigger.def \in Invalid
    /\ Goto(q, "422")
    /\ UNCHANGED <<accessVars, backend, row, claims, req, got, registered, during>>

\* InMemoryWebhookStore.put
RegisterInMemory(q) ==
    /\ pc[q] = "register"
    /\ backend = "memory"
    /\ req[q].trigger.def \notin Invalid
    /\ Stored(req[q].trigger)
    /\ registered' = registered \cup {req[q].trigger}
    /\ Goto(q, "registered")
    /\ UNCHANGED <<accessVars, backend, claims, req, got>>

\* DatabaseWebhookStore.put: the row is read ...
RegisterLoad(q) ==
    /\ pc[q] = "register"
    /\ backend = "database"
    /\ req[q].trigger.def \notin Invalid
    /\ got' = [got EXCEPT ![q] = row]
    /\ registered' = registered \cup {req[q].trigger}
    /\ Goto(q, "commit")
    /\ UNCHANGED <<accessVars, backend, row, claims, req, during>>

\* Faulty variant of Written: the secret of an existing row is not set.
WrittenWithoutSecret(q) ==
    LET new == req[q].trigger
    IN  IF got[q] = None THEN new ELSE [row EXCEPT !.def = new.def]

\* What the commit writes: a new row, or the columns in which the request
\* differs from the row that was read.
Written(q) ==
    LET new == req[q].trigger
    IN  IF got[q] = None THEN new
        ELSE [def    |-> IF new.def = got[q].def THEN row.def ELSE new.def,
              secret |-> IF new.secret = got[q].secret THEN row.secret
                         ELSE new.secret]

\* ... and inserted or updated.
RegisterCommit(q) ==
    /\ pc[q] = "commit"
    /\ got[q] = None => row = None
    /\ Stored(Written(q))
    /\ Goto(q, "registered")
    /\ UNCHANGED <<accessVars, backend, claims, req, got, registered>>

\* Another request has inserted the name since: IntegrityError.
RegisterConflict(q) ==
    /\ pc[q] = "commit"
    /\ got[q] = None /\ row # None
    /\ Goto(q, "503")
    /\ UNCHANGED <<accessVars, backend, row, claims, req, got, registered, during>>

-----------------------------------------------------------------------------
(* trigger_webhook                                                          *)

\* webhooks.get(name), then the wait for the body.
TriggerGet(q) ==
    /\ pc[q] = "get"
    /\ got' = [got EXCEPT ![q] = row]
    /\ Goto(q, IF row = None THEN "404" ELSE "body")
    /\ UNCHANGED <<accessVars, backend, row, claims, req, registered, during>>

\* Faulty variant of Accepts: a missing signature is not compared.
AcceptsUnsigned(r, sig) == r.secret \in {None, ""} \/ sig \in {None, r.secret}

\* A registration without a secret, or with an empty one, takes any request.
Accepts(r, sig) == r.secret \in {None, ""} \/ sig = r.secret

Rejected(q) ==
    /\ ~Accepts(row, req[q].sig)
    /\ Goto(q, "401")

Passed(q) ==
    /\ Accepts(row, req[q].sig)
    /\ Goto(q, IF req[q].key = None THEN "dispatch" ELSE "claim")

\* Faulty variant of VerifySignature: the key is claimed first.
VerifyAfterClaim(q) ==
    /\ pc[q] = "body"
    /\ Rejected(q) \/ Passed(q)
    /\ claims' = claims \cup ({req[q].key} \ {None})
    /\ UNCHANGED <<accessVars, backend, row, req, got, registered, during>>

\* The body has arrived: verify_signature reads the registration again.
\* Nothing unregisters a name.
VerifySignature(q) ==
    /\ pc[q] = "body"
    /\ Rejected(q) \/ Passed(q)
    /\ UNCHANGED <<accessVars, backend, row, claims, req, got, registered, during>>

Claimable(key) == key \notin claims

\* _claim_idempotency
Claim(q) ==
    /\ pc[q] = "claim"
    /\ Claimable(req[q].key)
    /\ claims' = claims \cup {req[q].key}
    /\ Goto(q, "dispatch")
    /\ UNCHANGED <<accessVars, backend, row, req, got, registered, during>>

ClaimConflict(q) ==
    /\ pc[q] = "claim"
    /\ ~Claimable(req[q].key)
    /\ Goto(q, "409")
    /\ UNCHANGED <<accessVars, backend, row, claims, req, got, registered, during>>

\* _dispatch is called with the definition that was read first; what comes of
\* that is the subject of module Dispatch.
Fire(q) ==
    /\ pc[q] = "dispatch"
    /\ Goto(q, "fired")
    /\ UNCHANGED <<accessVars, backend, row, claims, req, got, registered, during>>

-----------------------------------------------------------------------------

\* A statement on the database fails, in any of the steps: it is rolled
\* back, and SQLAlchemyError becomes 503.  So does a broker that _dispatch
\* does not reach.
Fails(q) ==
    /\ pc[q] = "dispatch" \/ (backend = "database" /\ Open(q))
    /\ Goto(q, "503")
    /\ UNCHANGED <<accessVars, backend, row, claims, req, got, registered, during>>

\* Other endpoints begin with _check_access too.
OtherRequest(c) ==
    /\ LET b == Bucket(c.key, c.client) IN Admit(b) \/ Limited(b)
    /\ UNCHANGED hooks

Serve(q) ==
    \/ \E r \in RegisterContents \cup TriggerContents : Arrive(q, r)
    \/ RegisterInvalid(q)
    \/ RegisterInMemory(q)
    \/ RegisterLoad(q)
    \/ RegisterCommit(q)
    \/ RegisterConflict(q)
    \/ TriggerGet(q)
    \/ VerifySignature(q)
    \/ Claim(q)
    \/ ClaimConflict(q)
    \/ Fire(q)
    \/ Fails(q)

Next ==
    \/ TimePasses /\ UNCHANGED hooks
    \/ \E c \in Busy : OtherRequest(c)
    \/ \E q \in Requests : Serve(q)

Spec == Init /\ [][Next]_vars

-----------------------------------------------------------------------------
(* Properties.                                                              *)

Labels ==
    {"new", "register", "commit", "get", "body", "claim", "dispatch",
     "registered", "fired", "401", "403", "404", "409", "422", "429", "503"}

\* The variables have the shape the stores and the handlers give them.
TypeOK ==
    /\ AccessTypeOK
    /\ backend \in Backends
    /\ row \in Rows \cup {None}
    /\ claims \subseteq Keys \ {None}
    /\ pc \in [Requests -> Labels]
    /\ req \in [Requests -> RegisterContents \cup TriggerContents \cup {NoRequest}]
    /\ got \in [Requests -> Rows \cup {None}]
    /\ during \in [Requests -> SUBSET (Rows \cup {None})]

\* What is fired is a definition that was registered while the request was
\* served, and the signature was accepted by a registration of that time:
\* not necessarily by the same one (see OneRegistrationFires).
FiredFromRegistration ==
    \A q \in Requests : pc[q] = "fired" =>
        /\ \E r \in during[q] \ {None} : r.def = got[q].def
        /\ \E r \in during[q] \ {None} : r.secret \in {None, "", req[q].sig}

\* An idempotency key fires the webhook once, however many requests carry
\* it and however they interleave.
KeyFiredOnce ==
    \A q, p \in Requests :
        /\ q # p
        /\ pc[q] = "fired" /\ pc[p] = "fired"
        /\ req[q].key # None
        => req[q].key # req[p].key

\* A key is used up only by a request that has got as far as dispatching:
\* one that was refused for its signature may be sent again with the same
\* key.
KeyUsedByDispatch ==
    \A k \in claims : \E q \in Requests :
        /\ req[q].kind = "trigger"
        /\ req[q].key = k
        /\ pc[q] \in {"dispatch", "fired", "503"}

\* A key is used up by the one request that it fires, and by no other.
KeysSound == KeyFiredOnce /\ KeyUsedByDispatch

\* A registration during which nothing else was stored is what is stored
\* when it has been answered: with its definition and its secret, whatever
\* was registered before.
LoneRegistrationStored ==
    [][\A q \in Requests :
        pc[q] # "registered" /\ pc'[q] = "registered" /\ during[q] = {row}
            => row' = req[q].trigger]_vars

\* "an HMAC signature is enforced when a secret was registered"
\* (README.md:26): the definition that is fired was registered with a
\* secret that accepts the signature.
OneRegistrationFires ==
    \A q \in Requests : pc[q] = "fired" =>
        \E r \in registered \ {None} :
            r.def = got[q].def /\ r.secret \in {None, "", req[q].sig}
=============================================================================
