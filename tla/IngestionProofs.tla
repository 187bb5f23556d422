--------------------------- MODULE IngestionProofs ---------------------------
(***************************************************************************)
(* Proofs about module Ingestion, for any set of concurrent requests, any  *)
(* deliveries, and any tolerance and retention period that RetentionAssump-*)
(* tion allows: what was acknowledged is stored, the first delivery of a   *)
(* key stands, and a signed delivery creates a row at most once.           *)
(***************************************************************************)
EXTENDS Ingestion, TLAPS

-----------------------------------------------------------------------------
(* What the checks of the route establish.                                  *)

\* A delivery that passes the checks has a key that is not blank, from the
\* envelope or from the header that overrides it.
LEMMA RoutableHasKey ==
    ASSUME NEW m \in Templates, Routable(m)
    PROVE  RowKey(m) \in RowKeys
<1>1. m.source \in Sources
  BY DEF Sources
<1>2. resolve_idempotency_key(m) \in
          ({x.id : x \in Templates} \cup {x.override : x \in Templates})
            \ {NULL, ""}
  <2>1. CASE m.override = NULL
    BY <2>1, TemplatesAssumption DEF resolve_idempotency_key, Routable
  <2>2. CASE m.override # NULL
    BY <2>2 DEF resolve_idempotency_key, Routable
  <2> QED
    BY <2>1, <2>2
<1> QED
  BY <1>1, <1>2 DEF RowKey, RowKeys

\* The status codes of the checks; 200 is given only to a routable delivery
\* whose signature is within the tolerance.
LEMMA VerdictCode ==
    ASSUME NEW m \in Templates, NEW t \in Time, NEW clock \in Time
    PROVE  /\ Verdict(m, t, clock) \in {200, 400, 401, 413, 500}
           /\ Verdict(m, t, clock) = 200 =>
                 RowKey(m) \in RowKeys /\ InTolerance(t, clock)
<1>1. Verdict(m, t, clock) \in {200, 400, 401, 413, 500}
  BY DEF Verdict, FailureCode
<1>2. ASSUME Verdict(m, t, clock) = 200
      PROVE  Routable(m) /\ Verifies(m, t, clock)
  BY <1>2 DEF Verdict, FailureCode
<1> QED
  BY <1>1, <1>2, RoutableHasKey DEF Verifies

\* The key of a request that is not past a conflict is the one it carries.
LEMMA KeyOfCarried ==
    ASSUME NEW r \in Handlers, pc[r] # "conflict"
    PROVE  KeyOf(r) = RowKey(msg[r].m)
BY DEF KeyOf

\* A request between its checks and its answer has a proper key.
LEMMA KeyOfServed ==
    ASSUME Carried, Keyed, NEW r \in Handlers,
           pc[r] \in {"verified", "conflict", "inserted"}
    PROVE  KeyOf(r) \in RowKeys
BY DEF Carried, Keyed, KeyOf

\* A row is not the absence of one.
LEMMA RowIsNotNull ==
    ASSUME NEW m \in Templates, NEW t \in Time, NEW s \in RowStatus,
           NEW p \in Time
    PROVE  [by |-> m, t |-> t, status |-> s, processed_at |-> p] # NULL
BY IngestionAssumption DEF Time

-----------------------------------------------------------------------------
(* Type correctness.                                                        *)

LEMMA InitInv == Init => IngestInv
<1> SUFFICES ASSUME Init PROVE IngestInv
  OBVIOUS
<1>1. IngestTypeOK
  BY IngestionAssumption DEF Init, IngestTypeOK, Time, NoMessage, NoAnswer
<1>2. AcknowledgedIsStored /\ Carried /\ Keyed /\ Promised /\ Settled
         /\ Reserved /\ Fresh /\ Spent
  BY DEF Init, AcknowledgedIsStored, Carried, Keyed, Promised, Settled,
         Reserved, Fresh, Spent
<1> QED
  BY <1>1, <1>2 DEF IngestInv

\* A request that is answered or let go keeps the types of its own state.
LEMMA AnswerTypes ==
    ASSUME IngestTypeOK, NEW r \in Handlers,
           NEW code \in {200, 400, 401, 500, 413}, NEW key \in RowKeys \cup {NULL},
           Answer(r, code, key)
    PROVE  /\ pc' \in [Handlers -> {"idle", "verified", "conflict", "inserted",
                                    "answering"}]
           /\ msg' \in [Handlers -> [m : {m \in Templates : RowKey(m) \in RowKeys}
                                            \cup {NULL}, t : Time]]
           /\ resp' \in [Handlers -> [code : {0, 200, 400, 401, 413, 500},
                                      key : RowKeys \cup {NULL}]]
<1>1. NoMessage \in [m : {m \in Templates : RowKey(m) \in RowKeys} \cup {NULL},
                     t : Time]
  BY IngestionAssumption DEF NoMessage, Time
<1> QED
  BY <1>1 DEF IngestTypeOK, Answer

LEMMA ReleaseTypes ==
    ASSUME IngestTypeOK, NEW r \in Handlers, Release(r)
    PROVE  /\ pc' \in [Handlers -> {"idle", "verified", "conflict", "inserted",
                                    "answering"}]
           /\ msg' \in [Handlers -> [m : {m \in Templates : RowKey(m) \in RowKeys}
                                            \cup {NULL}, t : Time]]
           /\ age' \in [Handlers -> 0 .. RequestTime]
           /\ resp' \in [Handlers -> [code : {0, 200, 400, 401, 413, 500},
                                      key : RowKeys \cup {NULL}]]
<1>1. NoMessage \in [m : {m \in Templates : RowKey(m) \in RowKeys} \cup {NULL},
                     t : Time]
  BY IngestionAssumption DEF NoMessage, Time
<1>2. NoAnswer \in [code : {0, 200, 400, 401, 413, 500}, key : RowKeys \cup {NULL}]
  BY DEF NoAnswer
<1>3. 0 \in 0 .. RequestTime
  BY IngestionAssumption
<1> QED
  BY <1>1, <1>2, <1>3 DEF IngestTypeOK, Release

\* What a commit stores is a row, and a delivery of the provider.
LEMMA StoreTypes ==
    ASSUME IngestTypeOK, Carried, NEW r \in Handlers, pc[r] = "inserted", StoreRow(r)
    PROVE  /\ row' \in [RowKeys -> [by : Templates, t : Time, status : RowStatus,
                                    processed_at : Time] \cup {NULL}]
           /\ minted' \in [RowKeys -> SUBSET (Templates \X Time)]
<1>1. msg[r].m \in Templates /\ msg[r].t \in Time
  BY DEF Carried, IngestTypeOK
<1>2. 0 \in Time /\ "pending" \in RowStatus
  BY IngestionAssumption DEF Time, RowStatus
<1>3. [by |-> msg[r].m, t |-> msg[r].t, status |-> "pending", processed_at |-> 0]
          \in [by : Templates, t : Time, status : RowStatus, processed_at : Time]
  BY <1>1, <1>2
<1>4. <<msg[r].m, msg[r].t>> \in Templates \X Time
  BY <1>1
<1>5. minted' \in [RowKeys -> SUBSET (Templates \X Time)]
  <2> DEFINE d == <<msg[r].m, msg[r].t>>
  <2>1. minted' = [minted EXCEPT ![KeyOf(r)] = minted[KeyOf(r)] \cup {d}]
    BY DEF StoreRow
  <2>2. d \in Templates \X Time
    BY <1>4
  <2>3. minted \in [RowKeys -> SUBSET (Templates \X Time)]
    BY DEF IngestTypeOK
  <2> HIDE DEF d
  <2> QED
    BY <2>1, <2>2, <2>3
<1> QED
  BY <1>3, <1>5 DEF IngestTypeOK, StoreRow

-----------------------------------------------------------------------------
(* The requests.  Most of the invariant is about each request by itself, and*)
(* a step is about one of them; the others see what it did to the rows.     *)

\* A step that answers request r, or lets it go, and takes no row away from the
\* others, and none that an insert still holds.
LEMMA AnswerParts ==
    ASSUME IngestInv, NEW r \in Handlers, NEW code, NEW key,
           Answer(r, code, key), UNCHANGED <<now, age, processed>>,
           \A k \in RowKeys : row[k] # NULL => row'[k] # NULL,
           \A q \in Handlers \ {r} :
               pc[q] = "inserted" => row'[RowKey(msg[q].m)] = NULL,
           code = 200 => key \in RowKeys /\ row'[key] # NULL
    PROVE  Carried' /\ Keyed' /\ Promised' /\ Reserved' /\ Fresh'
<1>1. \A q \in Handlers \ {r} :
          pc'[q] = pc[q] /\ msg'[q] = msg[q] /\ resp'[q] = resp[q]
  BY DEF IngestInv, IngestTypeOK, Answer
<1>2. pc'[r] = "answering" /\ resp'[r] = [code |-> code, key |-> key]
  BY DEF IngestInv, IngestTypeOK, Answer
<1>3. Carried'
  BY <1>1, <1>2 DEF IngestInv, Carried
<1>4. Keyed'
  BY <1>1, <1>2 DEF IngestInv, Keyed
<1>5. Promised'
  <2> SUFFICES ASSUME NEW q \in Handlers, pc'[q] = "answering", resp'[q].code = 200
               PROVE  row'[resp'[q].key] # NULL \/ resp'[q].key \in processed
    BY DEF Promised
  <2>1. CASE q = r
    BY <2>1, <1>2
  <2>2. CASE q # r
    BY <2>2, <1>1 DEF IngestInv, Promised, Keyed
  <2> QED
    BY <2>1, <2>2
<1>6. Reserved'
  BY <1>1, <1>2 DEF IngestInv, Reserved
<1>7. Fresh'
  BY <1>1, <1>2 DEF IngestInv, Fresh
<1> QED
  BY <1>3, <1>4, <1>5, <1>6, <1>7

LEMMA ReleaseParts ==
    ASSUME IngestInv, NEW r \in Handlers, Release(r),
           UNCHANGED <<now, row, processed>>
    PROVE  Carried' /\ Keyed' /\ Promised' /\ Reserved' /\ Fresh'
<1>1. \A q \in Handlers \ {r} :
          /\ pc'[q] = pc[q] /\ msg'[q] = msg[q] /\ resp'[q] = resp[q]
          /\ age'[q] = age[q]
  BY DEF IngestInv, IngestTypeOK, Release
<1>2. pc'[r] = "idle"
  BY DEF IngestInv, IngestTypeOK, Release
<1>3. Carried' /\ Keyed'
  BY <1>1, <1>2 DEF IngestInv, Carried, Keyed
<1>4. Promised'
  BY <1>1, <1>2 DEF IngestInv, Promised
<1>5. Reserved'
  BY <1>1, <1>2 DEF IngestInv, Reserved
<1>6. Fresh'
  BY <1>1, <1>2 DEF IngestInv, Fresh
<1> QED
  BY <1>3, <1>4, <1>5, <1>6

\* The rows and their history as they were.
LEMMA RowsKept ==
    ASSUME IngestInv, UNCHANGED <<now, row, minted, processed>>
    PROVE  /\ Settled' /\ Spent'
           /\ acked' = acked => AcknowledgedIsStored'
BY DEF IngestInv, Settled, Spent, AcknowledgedIsStored

\* The checks: what they let through was signed within the tolerance of now.
LEMMA ReceiveInv ==
    ASSUME IngestInv, NEW r \in Handlers, NEW m \in Templates, NEW t \in Time,
           Receive(r, m, t)
    PROVE  IngestInv'
<1>1. now \in Time /\ pc[r] = "idle"
  BY DEF IngestInv, IngestTypeOK, Receive
<1>2. UNCHANGED <<now, row, age, acked, minted, processed>>
  BY DEF Receive
<1>3. Settled' /\ Spent' /\ AcknowledgedIsStored'
  BY <1>2, RowsKept
<1>4. CASE Verdict(m, t, now) = 200
  <2>1. RowKey(m) \in RowKeys /\ InTolerance(t, now)
    BY <1>1, <1>4, VerdictCode
  <2>2. /\ pc' = [pc EXCEPT ![r] = "verified"]
        /\ msg' = [msg EXCEPT ![r] = [m |-> m, t |-> t]]
        /\ resp' = resp
    BY <1>4 DEF Receive
  <2>3. IngestTypeOK'
    BY <1>2, <2>1, <2>2 DEF IngestInv, IngestTypeOK
  <2>4. \A q \in Handlers \ {r} : pc'[q] = pc[q] /\ msg'[q] = msg[q]
    BY <2>2 DEF IngestInv, IngestTypeOK
  <2>5. pc'[r] = "verified" /\ msg'[r].m = m /\ msg'[r].t = t
    BY <2>2 DEF IngestInv, IngestTypeOK
  <2>6. Carried' /\ Keyed'
    BY <2>1, <2>2, <2>4, <2>5 DEF IngestInv, Carried, Keyed
  <2>7. Promised'
    BY <1>2, <2>2, <2>4, <2>5 DEF IngestInv, Promised
  <2>8. Reserved'
    BY <1>2, <2>4, <2>5 DEF IngestInv, Reserved
  <2>9. Fresh'
    <3>1. t <= now + Tolerance /\ now - t <= Tolerance + age[r]
      BY <1>1, <2>1, IngestionAssumption DEF InTolerance, IngestInv, IngestTypeOK, Time
    <3> QED
      BY <1>2, <2>4, <2>5, <3>1 DEF IngestInv, Fresh
  <2> QED
    BY <1>3, <2>3, <2>6, <2>7, <2>8, <2>9 DEF IngestInv
<1>5. CASE Verdict(m, t, now) # 200
  <2>1. Answer(r, Verdict(m, t, now), NULL)
    BY <1>5 DEF Receive
  <2>2. Verdict(m, t, now) \in {200, 400, 401, 413, 500}
    BY <1>1, VerdictCode
  <2>3. IngestTypeOK'
    BY <1>2, <2>1, <2>2, AnswerTypes DEF IngestInv, IngestTypeOK
  <2>4. Carried' /\ Keyed' /\ Promised' /\ Reserved' /\ Fresh'
    BY <1>2, <1>5, <2>1, AnswerParts DEF IngestInv, Reserved
  <2> QED
    BY <1>3, <2>3, <2>4 DEF IngestInv
<1> QED
  BY <1>4, <1>5

\* The insert: nobody else holds the key, and there is no row of it.
LEMMA InsertInv ==
    ASSUME IngestInv, NEW r \in Handlers, Insert(r)
    PROVE  IngestInv'
<1>1. /\ UNCHANGED <<now, row, msg, age, resp, acked, minted, processed>>
      /\ pc' = [pc EXCEPT ![r] = "inserted"] /\ pc[r] = "verified"
  BY DEF Insert
<1>2. Settled' /\ Spent' /\ AcknowledgedIsStored'
  BY <1>1, RowsKept
<1>3. IngestTypeOK'
  BY <1>1 DEF IngestInv, IngestTypeOK
<1>4. (\A q \in Handlers \ {r} : pc'[q] = pc[q]) /\ pc'[r] = "inserted"
  BY <1>1 DEF IngestInv, IngestTypeOK
<1>5. Carried' /\ Keyed'
  BY <1>1, <1>4 DEF IngestInv, Carried, Keyed
<1>6. Promised' /\ Fresh'
  BY <1>1, <1>4 DEF IngestInv, Promised, Fresh
<1>7. Reserved'
  <2>1. row[RowKey(msg[r].m)] = NULL
    BY <1>1, KeyOfCarried DEF Insert
  <2>2. \A q \in Handlers \ {r} :
            pc[q] = "inserted" => RowKey(msg[q].m) # RowKey(msg[r].m)
    BY <1>1, KeyOfCarried DEF Insert, Undecided
  <2> QED
    BY <1>1, <1>4, <2>1, <2>2 DEF IngestInv, Reserved
<1> QED
  BY <1>2, <1>3, <1>5, <1>6, <1>7 DEF IngestInv

\* A conflict leaves the rows alone.
LEMMA InsertConflictsInv ==
    ASSUME IngestInv, NEW r \in Handlers, InsertConflicts(r)
    PROVE  IngestInv'
<1>1. /\ UNCHANGED <<now, row, age, acked, minted, processed>>
      /\ pc' = [pc EXCEPT ![r] = "conflict"] /\ pc[r] = "verified"
      /\ msg' = [msg EXCEPT ![r] = NoMessage]
      /\ resp' = [resp EXCEPT ![r] = [code |-> 0, key |-> KeyOf(r)]]
  BY DEF InsertConflicts, AfterConflict
<1>2. Settled' /\ Spent' /\ AcknowledgedIsStored'
  BY <1>1, RowsKept
<1>3. KeyOf(r) \in RowKeys
  BY <1>1, KeyOfServed DEF IngestInv
<1>4. IngestTypeOK'
  <2>1. NoMessage \in [m : {m \in Templates : RowKey(m) \in RowKeys} \cup {NULL},
                       t : Time]
    BY IngestionAssumption DEF NoMessage, Time
  <2> QED
    BY <1>1, <1>3, <2>1 DEF IngestInv, IngestTypeOK
<1>5. \A q \in Handlers \ {r} :
          pc'[q] = pc[q] /\ msg'[q] = msg[q] /\ resp'[q] = resp[q]
  BY <1>1 DEF IngestInv, IngestTypeOK
<1>6. pc'[r] = "conflict" /\ resp'[r].key = KeyOf(r)
  BY <1>1 DEF IngestInv, IngestTypeOK
<1>7. Carried' /\ Keyed'
  BY <1>3, <1>5, <1>6 DEF IngestInv, Carried, Keyed
<1>8. Promised' /\ Fresh'
  BY <1>1, <1>5, <1>6 DEF IngestInv, Promised, Fresh
<1>9. Reserved'
  BY <1>1, <1>5, <1>6 DEF IngestInv, Reserved
<1> QED
  BY <1>2, <1>4, <1>7, <1>8, <1>9 DEF IngestInv

\* The commit makes a row where there was none, whether or not its own
\* acknowledgement comes back.
LEMMA StoreInv ==
    ASSUME IngestInv, NEW r \in Handlers, pc[r] = "inserted", StoreRow(r),
           NEW code \in {200, 500}, Answer(r, code, KeyOf(r)),
           UNCHANGED <<now, age, acked, processed>>
    PROVE  IngestInv'
<1> DEFINE k == RowKey(msg[r].m)
           d == <<msg[r].m, msg[r].t>>
           new == [by |-> msg[r].m, t |-> msg[r].t, status |-> "pending",
                   processed_at |-> 0]
<1>1. KeyOf(r) = k /\ k \in RowKeys
  BY KeyOfCarried DEF IngestInv, Carried
<1>2. /\ row' = [row EXCEPT ![k] = new]
      /\ minted' = [minted EXCEPT ![k] = minted[k] \cup {d}]
  BY <1>1 DEF StoreRow
<1>3. row[k] = NULL
  BY DEF IngestInv, Reserved
<1>4. msg[r].m \in Templates /\ msg[r].t \in Time
  BY DEF IngestInv, Carried, IngestTypeOK
<1>5. new # NULL
  BY <1>4, RowIsNotNull, IngestionAssumption DEF RowStatus, Time
<1>6. IngestTypeOK'
  <2>1. /\ pc' \in [Handlers -> {"idle", "verified", "conflict", "inserted",
                                 "answering"}]
        /\ msg' \in [Handlers -> [m : {m \in Templates : RowKey(m) \in RowKeys}
                                         \cup {NULL}, t : Time]]
        /\ resp' \in [Handlers -> [code : {0, 200, 400, 401, 413, 500},
                                   key : RowKeys \cup {NULL}]]
    BY <1>1, AnswerTypes DEF IngestInv
  <2>2. /\ row' \in [RowKeys -> [by : Templates, t : Time, status : RowStatus,
                                 processed_at : Time] \cup {NULL}]
        /\ minted' \in [RowKeys -> SUBSET (Templates \X Time)]
    BY StoreTypes DEF IngestInv
  <2> QED
    BY <2>1, <2>2 DEF IngestInv, IngestTypeOK
<1> HIDE DEF k, d, new
<1>7. /\ row'[k] = new
      /\ \A j \in RowKeys \ {k} : row'[j] = row[j] /\ minted'[j] = minted[j]
      /\ minted'[k] = minted[k] \cup {d}
  BY <1>1, <1>2 DEF IngestInv, IngestTypeOK
<1>8. Carried' /\ Keyed' /\ Promised' /\ Reserved' /\ Fresh'
  <2>1. \A j \in RowKeys : row[j] # NULL => row'[j] # NULL
    BY <1>3, <1>7
  <2>2. \A q \in Handlers \ {r} :
            pc[q] = "inserted" => row'[RowKey(msg[q].m)] = NULL
    <3> SUFFICES ASSUME NEW q \in Handlers \ {r}, pc[q] = "inserted"
                 PROVE  row'[RowKey(msg[q].m)] = NULL
      OBVIOUS
    <3>1. RowKey(msg[q].m) # k /\ row[RowKey(msg[q].m)] = NULL
      BY DEF IngestInv, Reserved, k
    <3>2. RowKey(msg[q].m) \in RowKeys
      BY DEF IngestInv, Carried
    <3> QED
      BY <1>7, <3>1, <3>2
  <2> QED
    BY <1>1, <1>5, <1>7, <2>1, <2>2, AnswerParts
<1>9. AcknowledgedIsStored'
  BY <1>5, <1>7 DEF IngestInv, AcknowledgedIsStored, IngestTypeOK
<1>10. Settled'
  <2>1. new.status = "pending"
    BY DEF new
  <2> QED
    BY <1>7, <2>1 DEF IngestInv, Settled
<1>11. Spent'
  <2> SUFFICES ASSUME NEW j \in RowKeys, NEW x \in minted'[j]
               PROVE  /\ x[2] <= now + Tolerance
                      /\ row'[j] # NULL /\ row'[j].status = "effectless" =>
                            x[2] <= row'[j].processed_at + Tolerance
                      /\ row'[j] = NULL => now - x[2] > Tolerance + RequestTime
    BY DEF Spent
  <2>1. CASE j # k
    BY <1>7, <2>1 DEF IngestInv, Spent
  <2>2. CASE j = k
    <3>1. row'[j].status = "pending" /\ row'[j] # NULL
      BY <1>5, <1>7, <2>2 DEF new
    <3>2. CASE x \in minted[k]
      BY <1>1, <2>2, <3>1, <3>2 DEF IngestInv, Spent
    <3>3. CASE x = d
      <4>1. x[2] = msg[r].t
        BY <3>3 DEF d
      <4> QED
        BY <3>1, <4>1 DEF IngestInv, Fresh
    <3> QED
      BY <1>7, <2>2, <3>2, <3>3
  <2> QED
    BY <2>1, <2>2
<1> QED
  BY <1>6, <1>8, <1>9, <1>10, <1>11 DEF IngestInv

\* A duplicate answers 2xx only for a row that is there.
LEMMA SelectExistingInv ==
    ASSUME IngestInv, NEW r \in Handlers, SelectExisting(r)
    PROVE  IngestInv'
<1> DEFINE code == IF row[KeyOf(r)] # NULL THEN DuplicateCode ELSE FailureCode
<1>1. /\ pc[r] = "conflict" /\ Answer(r, code, KeyOf(r))
      /\ UNCHANGED <<now, row, age, acked, minted, processed>>
  BY DEF SelectExisting
<1>2. KeyOf(r) \in RowKeys
  BY <1>1, KeyOfServed DEF IngestInv
<1>3. code \in {200, 500} /\ (code = 200 => row[KeyOf(r)] # NULL)
  BY DEF DuplicateCode, FailureCode
<1> HIDE DEF code
<1>4. IngestTypeOK'
  BY <1>1, <1>2, <1>3, AnswerTypes DEF IngestInv, IngestTypeOK
<1>5. Carried' /\ Keyed' /\ Promised' /\ Reserved' /\ Fresh'
  BY <1>1, <1>2, <1>3, AnswerParts DEF IngestInv, Reserved
<1> QED
  BY <1>1, <1>4, <1>5, RowsKept DEF IngestInv

\* A rolled back transaction leaves nothing, and is not answered with a 2xx.
LEMMA DatabaseFailsInv ==
    ASSUME IngestInv, NEW r \in Handlers, DatabaseFails(r)
    PROVE  IngestInv'
<1>1. /\ pc[r] \in {"verified", "conflict", "inserted"}
      /\ Answer(r, 500, KeyOf(r))
      /\ UNCHANGED <<now, row, age, acked, minted, processed>>
  BY DEF DatabaseFails, RolledBackCode, FailureCode
<1>2. KeyOf(r) \in RowKeys
  BY <1>1, KeyOfServed DEF IngestInv
<1>3. IngestTypeOK'
  BY <1>1, <1>2, AnswerTypes DEF IngestInv, IngestTypeOK
<1>4. Carried' /\ Keyed' /\ Promised' /\ Reserved' /\ Fresh'
  BY <1>1, <1>2, AnswerParts DEF IngestInv, Reserved
<1> QED
  BY <1>1, <1>3, <1>4, RowsKept DEF IngestInv

\* The answer arrives, or does not.
LEMMA RespondInv ==
    ASSUME IngestInv, NEW r \in Handlers, Respond(r) \/ Lost(r)
    PROVE  IngestInv'
<1>1. Release(r) /\ UNCHANGED <<now, row, minted, processed>>
  BY DEF Respond, Lost
<1>2. Carried' /\ Keyed' /\ Promised' /\ Reserved' /\ Fresh'
  BY <1>1, ReleaseParts
<1>3. Settled' /\ Spent'
  BY <1>1, RowsKept
<1>4. \/ acked' = acked
      \/ /\ acked' = acked \cup {resp[r].key}
         /\ pc[r] = "answering" /\ resp[r].code = 200
  BY DEF Respond, Lost
<1>5. acked' \subseteq RowKeys
  BY <1>4 DEF IngestInv, IngestTypeOK, Keyed
<1>6. IngestTypeOK'
  BY <1>1, <1>5, ReleaseTypes DEF IngestInv, IngestTypeOK
<1>7. AcknowledgedIsStored'
  BY <1>1, <1>4 DEF IngestInv, AcknowledgedIsStored, Promised
<1> QED
  BY <1>2, <1>3, <1>6, <1>7 DEF IngestInv

-----------------------------------------------------------------------------
(* The rows: the worker, retention, and time.                               *)

\* An event is settled now, and every delivery of its key that ever created a
\* row was signed at most a tolerance later than now.
LEMMA SettleInv ==
    ASSUME IngestInv, NEW k \in RowKeys, NEW status \in {"effectless", "kept"},
           Settle(k, status)
    PROVE  IngestInv'
<1> DEFINE at == IF status = "effectless" THEN now ELSE 0
           new == [by |-> row[k].by, t |-> row[k].t, status |-> status,
                   processed_at |-> at]
<1>1. /\ row[k] # NULL /\ row' = [row EXCEPT ![k] = new]
      /\ processed' = processed \cup {k}
      /\ UNCHANGED <<now, pc, msg, age, resp, acked, minted>>
  BY DEF Settle
<1>2. at \in Time /\ row[k].by \in Templates /\ row[k].t \in Time
  BY <1>1, IngestionAssumption DEF IngestInv, IngestTypeOK, Time
<1>3. status \in RowStatus
  BY DEF RowStatus
<1>4. new # NULL /\ new.status = status /\ new.processed_at = at
  <2> HIDE DEF at
  <2> QED
    BY <1>2, <1>3, RowIsNotNull
<1>5. new \in [by : Templates, t : Time, status : RowStatus, processed_at : Time]
  <2> HIDE DEF at
  <2> QED
    BY <1>2, <1>3
<1>6. status = "effectless" => new.processed_at = now
  BY <1>4
<1> HIDE DEF new, at
<1>7. row'[k] = new /\ \A j \in RowKeys \ {k} : row'[j] = row[j]
  BY <1>1 DEF IngestInv, IngestTypeOK
<1>8. IngestTypeOK'
  BY <1>1, <1>5 DEF IngestInv, IngestTypeOK
<1>9. \A j \in RowKeys : row'[j] = NULL <=> row[j] = NULL
  BY <1>1, <1>4, <1>7
<1>10. AcknowledgedIsStored'
  BY <1>1, <1>9 DEF IngestInv, AcknowledgedIsStored, IngestTypeOK
<1>11. Carried' /\ Keyed' /\ Fresh'
  BY <1>1 DEF IngestInv, Carried, Keyed, Fresh
<1>12. Promised'
  BY <1>1, <1>9 DEF IngestInv, Promised, Keyed
<1>13. Settled'
  BY <1>1, <1>7 DEF IngestInv, Settled
<1>14. Reserved'
  BY <1>1, <1>9 DEF IngestInv, Reserved, Carried
<1>15. Spent'
  <2> SUFFICES ASSUME NEW j \in RowKeys, NEW d \in minted[j]
               PROVE  /\ d[2] <= now + Tolerance
                      /\ row'[j] # NULL /\ row'[j].status = "effectless" =>
                            d[2] <= row'[j].processed_at + Tolerance
                      /\ row'[j] = NULL => now - d[2] > Tolerance + RequestTime
    BY <1>1 DEF Spent
  <2>1. CASE j # k
    BY <1>7, <2>1 DEF IngestInv, Spent
  <2>2. CASE j = k
    <3>1. d[2] <= now + Tolerance
      BY DEF IngestInv, Spent
    <3>2. row'[j].status = "effectless" => row'[j].processed_at = now
      BY <1>4, <1>6, <1>7, <2>2
    <3> QED
      BY <1>4, <1>7, <2>2, <3>1, <3>2
  <2> QED
    BY <2>1, <2>2
<1> QED
  BY <1>8, <1>10, <1>11, <1>12, <1>13, <1>14, <1>15 DEF IngestInv

\* Retention deletes a row when every signature that led to it is long expired.
LEMMA PurgeInv ==
    ASSUME IngestInv, NEW k \in RowKeys, Purge(k)
    PROVE  IngestInv'
<1>1. /\ row[k] # NULL /\ row[k].status = "effectless"
      /\ row[k].processed_at < now - Retention
      /\ row' = [row EXCEPT ![k] = NULL]
      /\ UNCHANGED <<now, pc, msg, age, resp, acked, minted, processed>>
  BY DEF Purge
<1>2. row'[k] = NULL /\ \A j \in RowKeys \ {k} : row'[j] = row[j]
  BY <1>1 DEF IngestInv, IngestTypeOK
<1>3. k \in processed
  BY <1>1 DEF IngestInv, Settled
<1>4. IngestTypeOK'
  BY <1>1 DEF IngestInv, IngestTypeOK
<1>5. AcknowledgedIsStored'
  BY <1>1, <1>2, <1>3 DEF IngestInv, AcknowledgedIsStored, IngestTypeOK
<1>6. Carried' /\ Keyed' /\ Fresh'
  BY <1>1 DEF IngestInv, Carried, Keyed, Fresh
<1>7. Promised'
  BY <1>1, <1>2, <1>3 DEF IngestInv, Promised, Keyed
<1>8. Settled'
  BY <1>1, <1>2 DEF IngestInv, Settled
<1>9. Reserved'
  BY <1>1, <1>2 DEF IngestInv, Reserved, Carried
<1>10. Spent'
  <2> SUFFICES ASSUME NEW j \in RowKeys, NEW d \in minted[j]
               PROVE  /\ d[2] <= now + Tolerance
                      /\ row'[j] # NULL /\ row'[j].status = "effectless" =>
                            d[2] <= row'[j].processed_at + Tolerance
                      /\ row'[j] = NULL => now - d[2] > Tolerance + RequestTime
    BY <1>1 DEF Spent
  <2>1. CASE j # k
    BY <1>2, <2>1 DEF IngestInv, Spent
  <2>2. CASE j = k
    <3>1. d[2] <= now + Tolerance /\ d[2] <= row[k].processed_at + Tolerance
      BY <1>1, <2>2 DEF IngestInv, Spent
    <3>2. d[2] \in Nat /\ now \in Nat /\ row[k].processed_at \in Nat
      BY <1>1, <2>2, IngestionAssumption DEF IngestInv, IngestTypeOK, Time
    <3>3. now - d[2] > Tolerance + RequestTime
      BY <1>1, <3>1, <3>2, RetentionAssumption, IngestionAssumption
    <3> QED
      BY <1>2, <2>2, <3>1, <3>3
  <2> QED
    BY <2>1, <2>2
<1> QED
  BY <1>4, <1>5, <1>6, <1>7, <1>8, <1>9, <1>10 DEF IngestInv

\* As the clock advances, so does the age of every request being served.
LEMMA TickInv ==
    ASSUME IngestInv, Tick
    PROVE  IngestInv'
<1>1. /\ now < MaxTime /\ now' = now + 1
      /\ \A r \in Handlers : pc[r] # "idle" => age[r] < RequestTime
      /\ age' = [r \in Handlers |-> IF pc[r] = "idle" THEN 0 ELSE age[r] + 1]
      /\ UNCHANGED <<row, pc, msg, resp, acked, minted, processed>>
  BY DEF Tick
<1>2. now \in Nat /\ now' \in Time
  BY <1>1, IngestionAssumption DEF IngestInv, IngestTypeOK, Time
<1>3. age' \in [Handlers -> 0 .. RequestTime]
  BY <1>1, IngestionAssumption DEF IngestInv, IngestTypeOK
<1>4. IngestTypeOK'
  BY <1>1, <1>2, <1>3 DEF IngestInv, IngestTypeOK
<1>5. AcknowledgedIsStored' /\ Carried' /\ Keyed'
  BY <1>1 DEF IngestInv, AcknowledgedIsStored, Carried, Keyed
<1>6. Promised' /\ Settled' /\ Reserved'
  BY <1>1 DEF IngestInv, Promised, Settled, Reserved
<1>7. Fresh'
  <2> SUFFICES ASSUME NEW r \in Handlers, pc[r] \in {"verified", "inserted"}
               PROVE  /\ msg[r].t <= now' + Tolerance
                      /\ now' - msg[r].t <= Tolerance + age'[r]
    BY <1>1 DEF Fresh
  <2>1. age'[r] = age[r] + 1 /\ age[r] \in Nat /\ msg[r].t \in Nat
    BY <1>1, IngestionAssumption DEF IngestInv, IngestTypeOK, Time
  <2>2. msg[r].t <= now + Tolerance /\ now - msg[r].t <= Tolerance + age[r]
    BY DEF IngestInv, Fresh
  <2> QED
    BY <1>1, <1>2, <2>1, <2>2, IngestionAssumption
<1>8. Spent'
  <2> SUFFICES ASSUME NEW k \in RowKeys, NEW d \in minted[k]
               PROVE  /\ d[2] <= now' + Tolerance
                      /\ row[k] # NULL /\ row[k].status = "effectless" =>
                            d[2] <= row[k].processed_at + Tolerance
                      /\ row[k] = NULL => now' - d[2] > Tolerance + RequestTime
    BY <1>1 DEF Spent
  <2>1. d[2] \in Nat
    BY IngestionAssumption DEF IngestInv, IngestTypeOK, Time
  <2>2. /\ d[2] <= now + Tolerance
        /\ row[k] # NULL /\ row[k].status = "effectless" =>
              d[2] <= row[k].processed_at + Tolerance
        /\ row[k] = NULL => now - d[2] > Tolerance + RequestTime
    BY DEF IngestInv, Spent
  <2> QED
    BY <1>1, <1>2, <2>1, <2>2, IngestionAssumption
<1> QED
  BY <1>4, <1>5, <1>6, <1>7, <1>8 DEF IngestInv

-----------------------------------------------------------------------------
(* The theorems.                                                            *)

LEMMA StepInv == IngestInv /\ [Next]_vars => IngestInv'
<1> SUFFICES ASSUME IngestInv, [Next]_vars PROVE IngestInv'
  OBVIOUS
<1>1. ASSUME NEW r \in Handlers, Serve(r) PROVE IngestInv'
  <2>1. ASSUME Commit(r) PROVE IngestInv'
    BY <2>1, StoreInv DEF Commit
  <2> QED
    BY <1>1, <2>1, InsertInv, InsertConflictsInv, SelectExistingInv, RespondInv
    DEF Serve
<1>2. ASSUME NEW r \in Handlers, Fault(r) PROVE IngestInv'
  <2>1. ASSUME CommitAckLost(r) PROVE IngestInv'
    BY <2>1, StoreInv DEF CommitAckLost, FailureCode
  <2> QED
    BY <1>2, <2>1, DatabaseFailsInv, RespondInv DEF Fault
<1>3. CASE UNCHANGED vars
  BY <1>3 DEF vars, IngestInv, IngestTypeOK, AcknowledgedIsStored, Carried, Keyed,
              Promised, Settled, Reserved, Fresh, Spent
<1> QED
  BY <1>1, <1>2, <1>3, ReceiveInv, SettleInv, PurgeInv, TickInv DEF Next

\* IngestInv holds of every state the route, its faults, the worker, retention
\* and the clock can bring about.
THEOREM IngestInvariance == Spec => []IngestInv
<1>1. Init => IngestInv
  BY InitInv
<1>2. IngestInv /\ [Next]_vars => IngestInv'
  BY StepInv
<1> QED
  BY <1>1, <1>2, PTL DEF Spec

\* Type correctness: in particular no request past the checks carries a delivery
\* with a blank key.
THEOREM IngestTypeCorrect == Spec => []IngestTypeOK
<1>1. IngestInv => IngestTypeOK
  BY DEF IngestInv
<1> QED
  BY <1>1, IngestInvariance, PTL

\* NFR-3: what the provider was told is accepted is stored, or was processed
\* before retention deleted it.
THEOREM AcknowledgedKept == Spec => []AcknowledgedIsStored
<1>1. IngestInv => AcknowledgedIsStored
  BY DEF IngestInv
<1> QED
  BY <1>1, IngestInvariance, PTL

\* A step stores a row only for a key that has none, and of a delivery that
\* never created one: its signature is within the tolerance, and what created
\* a row that is gone was signed too long ago.
LEMMA StoredFirst ==
    ASSUME IngestInv, NEW r \in Handlers, pc[r] = "inserted", StoreRow(r),
           NEW k \in RowKeys, row'[k] # row[k]
    PROVE  /\ row[k] = NULL
           /\ <<row'[k].by, row'[k].t>> \notin minted[k]
<1>1. KeyOf(r) = RowKey(msg[r].m) /\ KeyOf(r) \in RowKeys
  BY KeyOfCarried DEF IngestInv, Carried
<1>2. k = KeyOf(r)
  BY <1>1 DEF StoreRow, IngestInv, IngestTypeOK
<1>3. row[k] = NULL
  BY <1>1, <1>2 DEF IngestInv, Reserved
<1>4. row'[k].by = msg[r].m /\ row'[k].t = msg[r].t
  BY <1>2 DEF StoreRow, IngestInv, IngestTypeOK
<1>5. <<msg[r].m, msg[r].t>> \notin minted[k]
  <2> SUFFICES ASSUME <<msg[r].m, msg[r].t>> \in minted[k] PROVE FALSE
    OBVIOUS
  <2>1. now - msg[r].t > Tolerance + RequestTime
    BY <1>3 DEF IngestInv, Spent
  <2>2. now - msg[r].t <= Tolerance + age[r]
    BY DEF IngestInv, Fresh
  <2>3. /\ now \in Nat /\ msg[r].t \in Nat
        /\ age[r] \in Nat /\ age[r] <= RequestTime
    BY IngestionAssumption DEF IngestInv, IngestTypeOK, Time
  <2> QED
    BY <2>1, <2>2, <2>3, IngestionAssumption
<1> QED
  BY <1>3, <1>4, <1>5

\* The steps that touch rows are the commits, the settling and retention.
LEMMA RowSteps ==
    ASSUME [Next]_vars
    PROVE  \/ row' = row
           \/ \E r \in Handlers : pc[r] = "inserted" /\ StoreRow(r)
           \/ \E k \in RowKeys, s \in {"effectless", "kept"} : Settle(k, s)
           \/ \E k \in RowKeys : Purge(k)
<1>1. ASSUME NEW r \in Handlers, Serve(r) \/ Fault(r)
      PROVE  row' = row \/ (pc[r] = "inserted" /\ StoreRow(r))
  BY <1>1 DEF Serve, Fault, Insert, InsertConflicts, AfterConflict, Commit,
              SelectExisting, Respond, DatabaseFails, CommitAckLost, Lost
<1>2. ASSUME NEW r \in Handlers, NEW m \in Templates, NEW t \in Time,
             Receive(r, m, t)
      PROVE  row' = row
  BY <1>2 DEF Receive
<1>3. CASE UNCHANGED vars
  BY <1>3 DEF vars
<1>4. CASE Tick
  BY <1>4 DEF Tick
<1> QED
  BY <1>1, <1>2, <1>3, <1>4 DEF Next

\* FR-5: no second delivery of a key, equal or not, concurrent or late, replaces
\* the one stored first.
THEOREM FirstStands == Spec => FirstDeliveryStands
<1>1. ASSUME IngestInv, [Next]_vars, NEW k \in RowKeys,
             row[k] # NULL, row'[k] # NULL
      PROVE  row'[k].by = row[k].by /\ row'[k].t = row[k].t
  <2>1. ASSUME NEW r \in Handlers, pc[r] = "inserted", StoreRow(r)
        PROVE  row'[k] = row[k]
    BY <1>1, <2>1, StoredFirst
  <2>2. ASSUME NEW j \in RowKeys, NEW s \in {"effectless", "kept"}, Settle(j, s)
        PROVE  row'[k].by = row[k].by /\ row'[k].t = row[k].t
    BY <1>1, <2>2 DEF Settle, IngestInv, IngestTypeOK
  <2>3. ASSUME NEW j \in RowKeys, Purge(j)
        PROVE  row'[k] = row[k]
    BY <1>1, <2>3 DEF Purge, IngestInv, IngestTypeOK
  <2> QED
    BY <1>1, <2>1, <2>2, <2>3, RowSteps
<1>2. IngestInv /\ [Next]_vars =>
          [\A k \in RowKeys :
              row[k] # NULL /\ row'[k] # NULL =>
                  row'[k].by = row[k].by /\ row'[k].t = row[k].t]_vars
  BY <1>1
<1> QED
  BY <1>2, IngestInvariance, PTL DEF Spec, FirstDeliveryStands

\* FR-4 with retention: a signed delivery that arrives again, however late and
\* however often, never creates a second row, since retention keeps a row for
\* longer than its signature stays valid.
THEOREM CapturedOnce == Spec => CapturedStoredOnce
<1>1. ASSUME IngestInv, [Next]_vars, NEW k \in RowKeys,
             row[k] = NULL, row'[k] # NULL
      PROVE  <<row'[k].by, row'[k].t>> \notin minted[k]
  <2>1. ASSUME NEW r \in Handlers, pc[r] = "inserted", StoreRow(r)
        PROVE  <<row'[k].by, row'[k].t>> \notin minted[k]
    BY <1>1, <2>1, StoredFirst
  <2>2. ASSUME NEW j \in RowKeys, NEW s \in {"effectless", "kept"}, Settle(j, s)
        PROVE  FALSE
    BY <1>1, <2>2 DEF Settle, IngestInv, IngestTypeOK
  <2>3. ASSUME NEW j \in RowKeys, Purge(j)
        PROVE  FALSE
    BY <1>1, <2>3 DEF Purge, IngestInv, IngestTypeOK
  <2> QED
    BY <1>1, <2>1, <2>2, <2>3, RowSteps
<1>2. IngestInv /\ [Next]_vars =>
          [\A k \in RowKeys :
              row[k] = NULL /\ row'[k] # NULL =>
                  <<row'[k].by, row'[k].t>> \notin minted[k]]_vars
  BY <1>1
<1> QED
  BY <1>2, IngestInvariance, PTL DEF Spec, CapturedStoredOnce
==============================================================================
