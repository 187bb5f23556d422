------------------------------ MODULE Ingestion ------------------------------
(***************************************************************************)
(* POST /v1/webhooks/{source}: the checks of the route in their order      *)
(* (api/webhooks.py, api/signature.py, api/schemas.py), the insert that    *)
(* decides what is a duplicate (services/ingest.py), the answer; and what  *)
(* it meets outside: a provider that redelivers until it sees a 2xx,       *)
(* deliveries that arrive again later byte for byte, lost answers, dying   *)
(* processes, and retention deleting the rows that deduplication rests on. *)
(*                                                                         *)
(* A delivery is a record of what the route looks at.  A MAC is the triple *)
(* of what it is computed from, so equal MACs mean equal inputs.           *)
(***************************************************************************)
EXTENDS Integers

CONSTANTS
    NULL,
    Handlers,       \* requests that can be served at the same time
    Secrets,        \* signing keys
    webhook_secrets,\* source -> the key configured for it
    Templates,      \* deliveries a provider may send, but for the time signed
    Tolerance,      \* settings.signature_timestamp_tolerance_seconds
    Retention,      \* p_older_than of sp_purge_history
    RequestTime,    \* longest a request is served
    MaxTime         \* bound on the clock

Time == 0 .. MaxTime
Sources == {m.source : m \in Templates}

\* The deduplication keys: (source, idempotency_key), the key not blank.
RowKeys ==
    Sources \X (({m.id : m \in Templates} \cup {m.override : m \in Templates})
                 \ {NULL, ""})

\* What retention tells apart: not processed, processed without an effect, or
\* kept for good (an effect in the ledger, or dead-lettered).
RowStatus == {"pending", "effectless", "kept"}

ASSUME IngestionAssumption ==
    /\ Tolerance \in Nat /\ Retention \in Nat /\ RequestTime \in Nat
    /\ MaxTime \in Nat
    /\ NULL \notin Secrets
    /\ NULL \notin [by : Templates, t : Nat, status : RowStatus,
                 processed_at : Nat]
    /\ \A source \in DOMAIN webhook_secrets : webhook_secrets[source] \in Secrets

\* What makes a delivery captured off the wire useless in the end: retention
\* keeps a row for longer than a signature can stay valid.
ASSUME RetentionAssumption == Retention >= 2 * Tolerance + RequestTime

\* WebhookEnvelope: an envelope that validates has an id, of at least a character.
ASSUME TemplatesAssumption ==
    \A m \in Templates : m.envelope => m.id \notin {NULL, ""}

-----------------------------------------------------------------------------
(* api/signature.py                                                         *)

expected_signature(secret, timestamp, body) == <<secret, timestamp, body>>

\* The header a provider computes at time t with the keys it signs with: one t
\* field and a v1 field per key, two of them while keys are rotated.
Signed(m, t) ==
    [t |-> t, v1 |-> {expected_signature(s, t, m.body) : s \in m.keys}]

\* _parse_header refuses a missing, oversized or malformed header, and one
\* without a timestamp or without a signature.
Parses(m) == m.header # "malformed" /\ m.keys # {}

\* Variant: a timestamp in the future passes.
InToleranceOneSided(t, clock) == clock - t <= Tolerance

\* _check_timestamp, in both directions.
InTolerance(t, clock) == clock - t <= Tolerance /\ t - clock <= Tolerance

secret_for_source(source) ==
    IF source \in DOMAIN webhook_secrets THEN webhook_secrets[source] ELSE NULL

\* A header that parses and then makes verify_signature raise what is not a
\* SignatureError: a t too large for a float, in the subtraction; a v1 that is not
\* ASCII, in compare_digest, whatever else is offered.
VerifyRaises(m, t, clock) ==
    /\ Parses(m)
    /\ \/ m.header = "t_beyond_float"
       \/ m.header = "v1_not_ascii" /\ InTolerance(t, clock)

\* verify_signature: any of the offered signatures may match.
Verifies(m, t, clock) ==
    /\ Parses(m) /\ ~VerifyRaises(m, t, clock)
    /\ InTolerance(t, clock)
    /\ expected_signature(secret_for_source(m.source), t, m.body) \in Signed(m, t).v1

-----------------------------------------------------------------------------
(* api/schemas.py                                                           *)

\* Variant: a blank Idempotency-Key taken as it is.
RoutableBlank(m) == m.envelope

\* parse_envelope and resolve_idempotency_key: the header, when there is one,
\* overrides the provider's event id; a blank one is refused.
Routable(m) == m.envelope /\ m.override # ""

resolve_idempotency_key(m) == IF m.override = NULL THEN m.id ELSE m.override

RowKey(m) == <<m.source, resolve_idempotency_key(m)>>

\* An exception the route does not expect.
FailureCode == 500

\* The order of the checks: size, source and signature, body.  The route catches
\* SignatureError only.  A value that the envelope lets through and its column does
\* not hold (a sequence beyond bigint) makes the statement raise, at every
\* redelivery.
Verdict(m, t, clock) ==
    IF m.oversized THEN 413
    ELSE IF secret_for_source(m.source) = NULL THEN 401
    ELSE IF VerifyRaises(m, t, clock) THEN FailureCode
    ELSE IF ~Verifies(m, t, clock) THEN 401
    ELSE IF ~Routable(m) THEN 400
    ELSE IF ~m.storable THEN FailureCode
    ELSE 200

-----------------------------------------------------------------------------

VARIABLES
    now,        \* the clock
    row,        \* the row of a key: the delivery stored and what became of it
    pc,         \* where a request is in ingest
    msg,        \* the delivery it carries, and the time it was signed
    age,        \* ticks it has been served for
    resp,       \* the status code it will answer, and for which key
    acked,      \* keys for which the provider has seen a 2xx
    minted,     \* deliveries that have created a row, per key
    processed   \* keys of which an event has been processed

vars == <<now, row, pc, msg, age, resp, acked, minted, processed>>

NoMessage == [m |-> NULL, t |-> 0]
NoAnswer  == [code |-> 0, key |-> NULL]

IngestTypeOK ==
    /\ now \in Time
    /\ row \in [RowKeys -> [by : Templates, t : Time, status : RowStatus,
                            processed_at : Time] \cup {NULL}]
    /\ pc \in [Handlers -> {"idle", "verified", "conflict", "inserted",
                            "answering"}]
    /\ msg \in [Handlers -> [m : {m \in Templates : RowKey(m) \in RowKeys} \cup {NULL},
                             t : Time]]
    /\ age \in [Handlers -> 0 .. RequestTime]
    /\ resp \in [Handlers -> [code : {0, 200, 400, 401, 413, 500},
                             key : RowKeys \cup {NULL}]]
    /\ acked \subseteq RowKeys
    /\ minted \in [RowKeys -> SUBSET (Templates \X Time)]
    /\ processed \subseteq RowKeys

Init ==
    /\ now = 0
    /\ row = [k \in RowKeys |-> NULL]
    /\ pc = [r \in Handlers |-> "idle"]
    /\ msg = [r \in Handlers |-> NoMessage]
    /\ age = [r \in Handlers |-> 0]
    /\ resp = [r \in Handlers |-> NoAnswer]
    /\ acked = {}
    /\ minted = [k \in RowKeys |-> {}]
    /\ processed = {}

KeyOf(r) == IF pc[r] = "conflict" THEN resp[r].key ELSE RowKey(msg[r].m)

Answer(r, code, key) ==
    /\ pc' = [pc EXCEPT ![r] = "answering"]
    /\ msg' = [msg EXCEPT ![r] = NoMessage]
    /\ resp' = [resp EXCEPT ![r] = [code |-> code, key |-> key]]

-----------------------------------------------------------------------------
(* The route.                                                               *)

\* A delivery signed at t is read and checked, without an await in between.
Receive(r, m, t) ==
    /\ pc[r] = "idle"
    /\ IF Verdict(m, t, now) = 200
       THEN /\ pc' = [pc EXCEPT ![r] = "verified"]
            /\ msg' = [msg EXCEPT ![r] = [m |-> m, t |-> t]]
            /\ UNCHANGED resp
       ELSE Answer(r, Verdict(m, t, now), NULL)
    /\ UNCHANGED <<now, row, age, acked, minted, processed>>

\* Another request has inserted the key and not committed yet: the outcome of
\* the conflict is open and the insert waits.
Undecided(r) ==
    \E q \in Handlers \ {r} : pc[q] = "inserted" /\ KeyOf(q) = KeyOf(r)

\* INSERT ... ON CONFLICT DO NOTHING RETURNING id.
Insert(r) ==
    /\ pc[r] = "verified" /\ ~Undecided(r)
    /\ row[KeyOf(r)] = NULL
    /\ pc' = [pc EXCEPT ![r] = "inserted"]
    /\ UNCHANGED <<now, row, msg, age, resp, acked, minted, processed>>

\* Variant: ON CONFLICT DO UPDATE.
AfterConflictUpdated(r) ==
    [row EXCEPT ![KeyOf(r)].by = msg[r].m, ![KeyOf(r)].t = msg[r].t]

\* ON CONFLICT DO NOTHING: the existing row is left as it is.
AfterConflict(r) == row

\* No id comes back: all that is needed from here on is the key.
InsertConflicts(r) ==
    /\ pc[r] = "verified" /\ ~Undecided(r)
    /\ row[KeyOf(r)] # NULL
    /\ pc' = [pc EXCEPT ![r] = "conflict"]
    /\ row' = AfterConflict(r)
    /\ msg' = [msg EXCEPT ![r] = NoMessage]
    /\ resp' = [resp EXCEPT ![r] = [code |-> 0, key |-> KeyOf(r)]]
    /\ UNCHANGED <<now, age, acked, minted, processed>>

\* The row becomes visible when session_scope commits.
StoreRow(r) ==
    /\ row' = [row EXCEPT ![KeyOf(r)] =
                 [by |-> msg[r].m, t |-> msg[r].t, status |-> "pending",
                  processed_at |-> 0]]
    /\ minted' = [minted EXCEPT ![KeyOf(r)] = @ \cup {<<msg[r].m, msg[r].t>>}]

Commit(r) ==
    /\ pc[r] = "inserted"
    /\ StoreRow(r)
    /\ Answer(r, 200, KeyOf(r))
    /\ UNCHANGED <<now, age, acked, processed>>

\* Variant: a duplicate answered as a conflict.
DuplicateCodeConflict == 400

\* A duplicate is not an error.
DuplicateCode == 200

\* The SELECT for the id of the existing row: scalar_one raises when retention
\* has deleted the row since the conflict.
SelectExisting(r) ==
    /\ pc[r] = "conflict"
    /\ Answer(r, IF row[KeyOf(r)] # NULL THEN DuplicateCode ELSE FailureCode,
              KeyOf(r))
    /\ UNCHANGED <<now, row, age, acked, minted, processed>>

Release(r) ==
    /\ pc' = [pc EXCEPT ![r] = "idle"]
    /\ msg' = [msg EXCEPT ![r] = NoMessage]
    /\ age' = [age EXCEPT ![r] = 0]
    /\ resp' = [resp EXCEPT ![r] = NoAnswer]

\* The answer reaches the provider.
Respond(r) ==
    /\ pc[r] = "answering"
    /\ acked' = IF resp[r].code = 200 THEN acked \cup {resp[r].key} ELSE acked
    /\ Release(r)
    /\ UNCHANGED <<now, row, minted, processed>>

-----------------------------------------------------------------------------
(* What goes wrong.                                                         *)

\* Variant: session_scope rolls back and swallows the exception.
RolledBackCodeQuiet == 200

\* session_scope rolls back and raises again; the route does not catch it.
RolledBackCode == FailureCode

\* A statement or the commit fails: the transaction is rolled back.
DatabaseFails(r) ==
    /\ pc[r] \in {"verified", "conflict", "inserted"}
    /\ Answer(r, RolledBackCode, KeyOf(r))
    /\ UNCHANGED <<now, row, age, acked, minted, processed>>

\* The commit took effect and its acknowledgement was lost.
CommitAckLost(r) ==
    /\ pc[r] = "inserted"
    /\ StoreRow(r)
    /\ Answer(r, FailureCode, KeyOf(r))
    /\ UNCHANGED <<now, age, acked, processed>>

\* The process dies, or the answer is lost: the provider sees nothing.
Lost(r) ==
    /\ pc[r] # "idle"
    /\ Release(r)
    /\ UNCHANGED <<now, row, acked, minted, processed>>

-----------------------------------------------------------------------------
(* Around the route.                                                        *)

\* The worker settles the event.  Of processed_at only what retention looks at
\* is kept.
Settle(k, status) ==
    /\ row[k] # NULL /\ row[k].status = "pending"
    /\ row' = [row EXCEPT ![k] =
                 [by |-> row[k].by, t |-> row[k].t, status |-> status,
                  processed_at |-> IF status = "effectless" THEN now ELSE 0]]
    /\ processed' = processed \cup {k}
    /\ UNCHANGED <<now, pc, msg, age, resp, acked, minted>>

\* sp_purge_history deletes a succeeded event without an effect.
Purge(k) ==
    /\ row[k] # NULL /\ row[k].status = "effectless"
    /\ row[k].processed_at < now - Retention
    /\ row' = [row EXCEPT ![k] = NULL]
    /\ UNCHANGED <<now, pc, msg, age, resp, acked, minted, processed>>

Tick ==
    /\ now < MaxTime
    /\ \A r \in Handlers : pc[r] # "idle" => age[r] < RequestTime
    /\ now' = now + 1
    /\ age' = [r \in Handlers |-> IF pc[r] = "idle" THEN 0 ELSE age[r] + 1]
    /\ UNCHANGED <<row, pc, msg, resp, acked, minted, processed>>

Serve(r) ==
    \/ Insert(r) \/ InsertConflicts(r)
    \/ Commit(r) \/ SelectExisting(r) \/ Respond(r)

Fault(r) == DatabaseFails(r) \/ CommitAckLost(r) \/ Lost(r)

Next ==
    \/ \E r \in Handlers : Serve(r) \/ Fault(r)
    \/ \E r \in Handlers, m \in Templates, t \in Time : Receive(r, m, t)
    \/ \E k \in RowKeys, status \in {"effectless", "kept"} : Settle(k, status)
    \/ \E k \in RowKeys : Purge(k)
    \/ Tick

Spec == Init /\ [][Next]_vars

\* Deliveries that pass every check when they are signed now, and fit the table.
Sound == {m \in Templates : \A t \in Time : Verdict(m, t, t) = 200}

\* An event not acknowledged yet is sent again, signed now.
Redeliver(k) ==
    /\ k \notin acked
    /\ \E r \in Handlers, m \in Sound : RowKey(m) = k /\ Receive(r, m, now)

\* Whatever moves a request is its being served, not a fault.
Undisturbed ==
    \A r \in Handlers : pc[r] \in {"idle", pc'[r]} \/ Serve(r)

\* A request being served goes on; faults end; and the provider keeps its
\* promise: it delivers again, freshly signed, until it sees a 2xx.
Fairness ==
    /\ \A r \in Handlers : WF_vars(Serve(r))
    /\ \A k \in {RowKey(m) : m \in Sound} : SF_vars(Redeliver(k))
    /\ <>[][Undisturbed]_vars

FairSpec == Spec /\ Fairness

-----------------------------------------------------------------------------
(* Properties.                                                              *)

\* NFR-3: what the provider was told is accepted is stored, or has been
\* processed and then deleted by retention, whatever crashed, was answered late
\* or raced with a duplicate.
AcknowledgedIsStored == \A k \in acked : row[k] # NULL \/ k \in processed

\* FR-5: the delivery stored first stands.  No second delivery of its key, equal
\* or not, concurrent or late, replaces it.
FirstDeliveryStands ==
    [][\A k \in RowKeys :
          row[k] # NULL /\ row'[k] # NULL =>
              row'[k].by = row[k].by /\ row'[k].t = row[k].t]_vars

\* FR-4 and retention together: one signed delivery creates a row at most once,
\* even when it arrives again after retention has deleted the row it created.
CapturedStoredOnce ==
    [][\A k \in RowKeys :
          row[k] = NULL /\ row'[k] # NULL =>
              <<row'[k].by, row'[k].t>> \notin minted[k]]_vars

\* FR-5: a provider that redelivers until it sees a 2xx sees one, however many
\* of the answers to earlier deliveries were lost.
EventuallyAcknowledged == \A m \in Sound : <>(RowKey(m) \in acked)

-----------------------------------------------------------------------------
(* The invariant the proofs are by induction on.                            *)

\* A request past the checks carries a delivery with a proper key ...
Carried ==
    \A r \in Handlers : pc[r] \in {"verified", "inserted"} =>
        msg[r].m \in Templates /\ RowKey(msg[r].m) \in RowKeys

\* ... and one that lost the insert, or will answer 2xx, knows the key.
Keyed ==
    \A r \in Handlers :
        pc[r] = "conflict" \/ (pc[r] = "answering" /\ resp[r].code = 200) =>
            resp[r].key \in RowKeys

\* A 2xx on its way is as good as one that has arrived.
Promised ==
    \A r \in Handlers : pc[r] = "answering" /\ resp[r].code = 200 =>
        row[resp[r].key] # NULL \/ resp[r].key \in processed

\* A row that retention may delete is one of an event that was processed.
Settled ==
    \A k \in RowKeys : row[k] # NULL /\ row[k].status # "pending" =>
        k \in processed

\* An insert not committed yet holds its key alone.
Reserved ==
    \A r \in Handlers : pc[r] = "inserted" =>
        /\ row[RowKey(msg[r].m)] = NULL
        /\ \A q \in Handlers \ {r} :
              pc[q] = "inserted" => RowKey(msg[q].m) # RowKey(msg[r].m)

\* A signature was within the tolerance when it was checked, and that was when
\* the request began.
Fresh ==
    \A r \in Handlers : pc[r] \in {"verified", "inserted"} =>
        msg[r].t <= now + Tolerance /\ now - msg[r].t <= Tolerance + age[r]

\* A delivery that has created a row was signed at most a tolerance after now, and
\* after the settling of the row; once retention has taken the row, the signature
\* is too old for every request that is still being served.
Spent ==
    \A k \in RowKeys : \A d \in minted[k] :
        /\ d[2] <= now + Tolerance
        /\ row[k] # NULL /\ row[k].status = "effectless" =>
              d[2] <= row[k].processed_at + Tolerance
        /\ row[k] = NULL => now - d[2] > Tolerance + RequestTime

IngestInv ==
    /\ IngestTypeOK /\ AcknowledgedIsStored
    /\ Carried /\ Keyed /\ Promised /\ Settled /\ Reserved /\ Fresh /\ Spent
==============================================================================
