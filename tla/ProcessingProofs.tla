-------------------------- MODULE ProcessingProofs --------------------------
(***************************************************************************)
(* Theorems about Processing, for every set of processes, events, contents *)
(* and accounts, every lock key function and every bound.                  *)
(***************************************************************************)
EXTENDS Processing, SequenceTheorems, TLAPS

-----------------------------------------------------------------------------
(* Operators.                                                               *)

\* What a handler returns for an event it accepts is well typed, and is about
\* the account that the event's advisory lock covers.
LEMMA DispatchType ==
    ASSUME NEW c \in Contents, Dispatches(c)
    PROVE  /\ dispatch(c).account_ref = c.entity_id
           /\ c.entity_id \in Accounts
           /\ c.entity_type = ACCOUNT_ENTITY_TYPE
           /\ dispatch(c).minor \in Int
           /\ dispatch(c).sequence \in Nat
           /\ dispatch(c).absolute <=> c.event_type = SNAPSHOT
<1>1. c \in Content
  BY ContentsAssumption
<1>2. c.value \in Int
  BY <1>1 DEF Content, Dispatches, UsableMoney
<1>3. c.entity_id \in Accounts /\ c.provider_sequence \in Nat \cup {NULL}
  BY <1>1 DEF Content
<1>4. dispatch(c).minor \in Int
  BY <1>2 DEF dispatch
<1>5. dispatch(c).sequence \in Nat
  BY <1>3 DEF dispatch
<1>6. c.entity_type = ACCOUNT_ENTITY_TYPE
  BY DEF Dispatches, OwnsEntity
<1> QED
  BY <1>3, <1>4, <1>5, <1>6 DEF dispatch

\* An element of a sequence over S is in S.
LEMMA SeqElement ==
    ASSUME NEW S, NEW s \in Seq(S), NEW i \in DOMAIN s
    PROVE  s[i] \in S
<1>1. i \in 1 .. Len(s)
  BY LenProperties
<1> QED
  BY <1>1, ElementOfSeq, Zenon

\* The number after the highest recorded one is a natural number.
LEMMA RecordedNumbersNat ==
    ASSUME TypeOK, NEW e \in Events
    PROVE  RecordedNumbers(e) \subseteq Nat
<1>1. attempts[e] \in Seq([number : Nat, outcome : AttemptOutcome])
  BY DEF TypeOK
<1>2. ASSUME NEW i \in DOMAIN attempts[e]
      PROVE  attempts[e][i].number \in Nat
  <2>1. attempts[e][i] \in [number : Nat, outcome : AttemptOutcome]
    BY <1>1, SeqElement, Zenon
  <2> QED
    BY <2>1
<1> QED
  BY <1>2 DEF RecordedNumbers

\* The exceptions the model raises by name are exceptions.
LEMMA NamedExceptions ==
    /\ LockContentionError \in Exceptions
    /\ UnprocessableEventError \in Exceptions
    /\ NumericOutOfRange \in Exceptions
BY DEF LockContentionError, UnprocessableEventError, NumericOutOfRange, Raised,
       Exceptions, ExceptionClass, SqlState

-----------------------------------------------------------------------------
(* The steps of Next, grouped by what they change.                          *)

\* A transaction that ends in an exception, with nothing written.
Aborts(p) ==
    /\ InTransaction(p)
    /\ \E x \in Exceptions : Abort(p, x)
    /\ UNCHANGED <<rowVars, bookVars, batch, evt>>

\* A process that is back in its loop, with nothing written.
GivesUp(p) ==
    /\ Return(p)
    /\ batch' \in {batch, [batch EXCEPT ![p] = {}]}
    /\ UNCHANGED <<rowVars, bookVars>>

\* Every step of the specification is one of these.
LEMMA NextCases ==
    ASSUME Next
    PROVE  \/ \E e \in Events, c \in Contents : Ingest(e, c)
           \/ \E e \in Events : BackoffElapsed(e)
           \/ \E p \in Procs, ids \in SUBSET Events : Poll(p, ids)
           \/ \E p \in Procs, e \in Events : Claim(p, e)
           \/ \E p \in Procs, e \in Events : ClaimMiss(p, e)
           \/ \E p \in Procs, e \in Events, x \in Exceptions : ClaimFails(p, e, x)
           \/ \E p \in Procs : LockEntity(p)
           \/ \E p \in Procs : Aborts(p)
           \/ \E p \in Procs : ApplyEffect(p)
           \/ \E p \in Procs : Commit(p)
           \/ \E p \in Procs, x \in Exceptions : CommitAckLost(p, x)
           \/ \E p \in Procs : Reschedule(p)
           \/ \E p \in Procs : DeadLetter(p)
           \/ \E p \in Procs : GivesUp(p)
           \/ \E old \in SUBSET Events : PurgeHistory(old)
<1>1. ASSUME NEW p \in Procs, LockTimeout(p)
      PROVE  Aborts(p)
  BY <1>1, NamedExceptions DEF LockTimeout, Aborts, InTransaction
<1>2. ASSUME NEW p \in Procs, HandlerRefuses(p)
      PROVE  Aborts(p)
  BY <1>2, NamedExceptions DEF HandlerRefuses, Aborts, InTransaction
<1>3. ASSUME NEW p \in Procs, EffectOverflows(p)
      PROVE  Aborts(p)
  BY <1>3, NamedExceptions DEF EffectOverflows, Aborts, InTransaction
<1>4. ASSUME NEW p \in Procs, NEW x \in Faults, TransactionFails(p, x)
      PROVE  Aborts(p)
  BY <1>4, FaultsAssumption DEF TransactionFails, Aborts
<1>5. ASSUME NEW p \in Procs, EventVanished(p)
      PROVE  GivesUp(p)
  BY <1>5 DEF EventVanished, GivesUp
<1>6. ASSUME NEW p \in Procs, Crash(p)
      PROVE  GivesUp(p)
  BY <1>6 DEF Crash, GivesUp
<1>7. ASSUME NEW p \in Procs, Step(p)
      PROVE  \/ \E e \in Events : Claim(p, e)
             \/ \E e \in Events : ClaimMiss(p, e)
             \/ LockEntity(p) \/ Aborts(p) \/ ApplyEffect(p) \/ Commit(p)
             \/ Reschedule(p) \/ DeadLetter(p) \/ GivesUp(p)
  BY <1>2, <1>3, <1>5, <1>7, Zenon DEF Step
<1>8. ASSUME NEW p \in Procs, Fault(p)
      PROVE  \/ Aborts(p)
             \/ \E x \in Exceptions : CommitAckLost(p, x)
             \/ \E e \in Events, x \in Exceptions : ClaimFails(p, e, x)
  <2>1. \A x \in Faults : x \in Exceptions
    BY FaultsAssumption
  <2> QED
    BY <2>1, <1>1, <1>4, <1>8, Zenon DEF Fault
<1> QED
  <2>1. CASE \E p \in Procs : Crash(p)
    BY <2>1, <1>6, Zenon
  <2>2. CASE \E p \in Procs : Step(p)
    BY <2>2, <1>7, Zenon
  <2>3. CASE \E p \in Procs : Fault(p)
    BY <2>3, <1>8, Zenon
  <2>4. CASE \E p \in Workers, ids \in SUBSET Events : Poll(p, ids)
    <3>1. \A p \in Workers : p \in Procs
      BY ProcsAssumption
    <3> QED
      BY <2>4, <3>1, Zenon
  <2> QED
    BY <2>1, <2>2, <2>3, <2>4, Zenon DEF Next, Healthy

-----------------------------------------------------------------------------
(* Type correctness.                                                        *)

\* A process that aborts or returns keeps its local state well typed.
LEMMA AbortType ==
    ASSUME TypeOK, NEW p \in Procs, NEW x \in Exceptions, Abort(p, x)
    PROVE  /\ pc' \in [Procs -> {"idle", "claimed", "locked", "applied", "failed",
                               "recording"}]
           /\ exc' \in [Procs -> Exceptions \cup {NULL}]
           /\ txn' \in [Procs -> [number : Nat, used : Nat,
                                  result : EffectResult \cup {"none"},
                                  amount : Int]]
BY DEF TypeOK, Abort, NoTxn

\* The same for a process that returns from process_event.
LEMMA ReturnType ==
    ASSUME TypeOK, NEW p \in Procs, Return(p)
    PROVE  /\ pc' \in [Procs -> {"idle", "claimed", "locked", "applied", "failed",
                               "recording"}]
           /\ evt' \in [Procs -> Events \cup {NULL}]
           /\ exc' \in [Procs -> Exceptions \cup {NULL}]
           /\ txn' \in [Procs -> [number : Nat, used : Nat,
                                  result : EffectResult \cup {"none"},
                                  amount : Int]]
BY DEF TypeOK, Return, NoTxn

\* The writes of a commit keep the tables well typed; that the balance stays a
\* bigint is what EffectOverflows refused otherwise.
LEMMA CommitWritesType ==
    ASSUME IInv, NEW p \in Procs, pc[p] = "applied", CommitWrites(p)
    PROVE  /\ ledger' \in [Events -> Seq(BigInt)]
           /\ balance' \in [Accounts -> BigInt]
           /\ version' \in [Accounts -> Nat]
           /\ status' \in [Events -> {"unused", "pending", "succeeded",
                                      "dead_lettered", "purged"}]
           /\ attempt_count' \in [Events -> Nat]
           /\ attempts' \in [Events -> Seq([number : Nat, outcome : AttemptOutcome])]
<1> DEFINE e == evt[p]
           f == dispatch(content[e])
           t == txn[p]
<1>1. e \in Events /\ content[e] \in Contents /\ Dispatches(content[e])
  BY DEF IInv, Stored, TypeOK, BufferedIsCurrent, Buffered
<1>2. /\ f.account_ref \in Accounts /\ f.minor \in Int
      /\ f.sequence \in Nat /\ f.absolute \in BOOLEAN
  BY <1>1, DispatchType DEF dispatch
<1>3. ~Overflows(e, f) /\ t.result = ResultOf(e, f) /\ t.amount = Delta(f)
  BY DEF IInv, BufferedIsCurrent, Buffered
<1>4. TypeOK /\ t.number \in Nat /\ t.used \in Nat
  BY DEF IInv, TypeOK
<1>5. /\ ledger' \in [Events -> Seq(BigInt)]
      /\ balance' \in [Accounts -> BigInt]
      /\ version' \in [Accounts -> Nat]
  <2>1. CASE t.result = "applied"
    <3>1. ~Stale(f) /\ ledger[e] = <<>>
      BY <1>3, <2>1 DEF ResultOf
    <3>2. t.amount \in BigInt /\ balance[f.account_ref] + Delta(f) \in BigInt
      BY <3>1, <1>3 DEF Overflows
    <3>3. BalanceAfter(f) = balance[f.account_ref] + Delta(f)
      BY <1>2, <1>4 DEF BalanceAfter, Delta, TypeOK, BigInt
    <3>4. VersionAfter(f) \in Nat
      BY <1>2, <1>4 DEF VersionAfter, TypeOK
    <3>5. /\ ledger' = [ledger EXCEPT ![e] = Append(ledger[e], t.amount)]
          /\ balance' = [balance EXCEPT ![f.account_ref] = BalanceAfter(f)]
          /\ version' = [version EXCEPT ![f.account_ref] = VersionAfter(f)]
      BY <2>1 DEF CommitWrites, WriteBook
    <3>6. Append(ledger[e], t.amount) \in Seq(BigInt)
      BY <3>2, <1>1, <1>4 DEF TypeOK
    <3> HIDE DEF e, f, t
    <3> QED
      BY <3>2, <3>3, <3>4, <3>5, <3>6, <1>4 DEF TypeOK
  <2>2. CASE t.result # "applied"
    BY <2>2, <1>4 DEF CommitWrites, WriteBook, bookVars, TypeOK
  <2> QED
    BY <2>1, <2>2
<1>6. [number |-> t.number, outcome |-> SuccessOutcome(t.result)]
        \in [number : Nat, outcome : AttemptOutcome]
  BY <1>4 DEF SuccessOutcome, AttemptOutcome
<1>7. Append(attempts[e], [number |-> t.number,
                           outcome |-> SuccessOutcome(t.result)])
        \in Seq([number : Nat, outcome : AttemptOutcome])
  <2>1. attempts[e] \in Seq([number : Nat, outcome : AttemptOutcome])
    BY <1>1, <1>4 DEF TypeOK
  <2> QED
    BY <2>1, <1>6, AppendProperties, Zenon
<1>8. attempts' \in [Events -> Seq([number : Nat, outcome : AttemptOutcome])]
  BY <1>1, <1>4, <1>7 DEF CommitWrites, TypeOK
<1>9. /\ status' \in [Events -> {"unused", "pending", "succeeded",
                                 "dead_lettered", "purged"}]
      /\ attempt_count' \in [Events -> Nat]
  BY <1>1, <1>4 DEF CommitWrites, TypeOK
<1> QED
  BY <1>5, <1>8, <1>9

\* The attempt _record_failure logs, and the budget it charges, are well typed.
LEMMA RecordFailedAttemptType ==
    ASSUME TypeOK, NEW p \in Procs, evt[p] \in Events, RecordFailedAttempt(p)
    PROVE  /\ attempts' \in [Events -> Seq([number : Nat, outcome : AttemptOutcome])]
           /\ attempt_count' \in [Events -> Nat]
<1> DEFINE e == evt[p]
<1>1. PICK h \in RecordedNumbers(e) :
         attempts' = [attempts EXCEPT ![e] =
                        Append(attempts[e], [number |-> h + 1,
                                             outcome |-> ErrorOutcome(exc[p])])]
  BY DEF RecordFailedAttempt
<1>2. h + 1 \in Nat
  BY RecordedNumbersNat
<1>3. [number |-> h + 1, outcome |-> ErrorOutcome(exc[p])]
        \in [number : Nat, outcome : AttemptOutcome]
  BY <1>2 DEF ErrorOutcome, AttemptOutcome
<1>4. attempts[e] \in Seq([number : Nat, outcome : AttemptOutcome])
  BY DEF TypeOK
<1>5. Append(attempts[e], [number |-> h + 1, outcome |-> ErrorOutcome(exc[p])])
        \in Seq([number : Nat, outcome : AttemptOutcome])
  BY <1>3, <1>4, AppendProperties, Zenon
<1>6. attempts' \in [Events -> Seq([number : Nat, outcome : AttemptOutcome])]
  BY <1>1, <1>5 DEF TypeOK
<1>7. attempt_count' = [attempt_count EXCEPT ![e] = attempt_count[e] + 1]
  BY DEF RecordFailedAttempt, AttemptsUsed
<1>8. attempt_count' \in [Events -> Nat]
  BY <1>7 DEF TypeOK
<1> QED
  BY <1>6, <1>8

\* Every step keeps the state well typed: money inside its columns included.
LEMMA TypeStep == IInv /\ Next => TypeOK'
<1> SUFFICES ASSUME IInv, Next PROVE TypeOK'
  OBVIOUS
<1> USE DEF rowVars, bookVars, procVars
<1>0. TypeOK
  BY DEF IInv
<1>1. ASSUME NEW e \in Events, NEW c \in Contents, Ingest(e, c)
      PROVE  TypeOK'
  BY <1>0, <1>1 DEF TypeOK, Ingest
<1>2. ASSUME NEW e \in Events, BackoffElapsed(e)
      PROVE  TypeOK'
  BY <1>0, <1>2 DEF TypeOK, BackoffElapsed
<1>3. ASSUME NEW p \in Procs, NEW ids \in SUBSET Events, Poll(p, ids)
      PROVE  TypeOK'
  BY <1>0, <1>3 DEF TypeOK, Poll
<1>4. ASSUME NEW p \in Procs, NEW e \in Events, Claim(p, e)
      PROVE  TypeOK'
  <2>1. \A h \in RecordedNumbers(e) : h + 1 \in Nat
    BY <1>0, RecordedNumbersNat
  <2>2. txn' \in [Procs -> [number : Nat, used : Nat,
                            result : EffectResult \cup {"none"}, amount : Int]]
    BY <1>0, <1>4, <2>1 DEF TypeOK, Claim
  <2> QED
    BY <1>0, <1>4, <2>2 DEF TypeOK, Claim
<1>5. ASSUME NEW p \in Procs, NEW e \in Events, ClaimMiss(p, e)
      PROVE  TypeOK'
  BY <1>0, <1>5 DEF TypeOK, ClaimMiss
<1>6. ASSUME NEW p \in Procs, NEW e \in Events, NEW x \in Exceptions,
             ClaimFails(p, e, x)
      PROVE  TypeOK'
  <2>1. Abort(p, x)
    BY <1>6 DEF ClaimFails
  <2> QED
    BY <1>0, <1>6, <2>1, AbortType DEF TypeOK, ClaimFails
<1>7. ASSUME NEW p \in Procs, LockEntity(p)
      PROVE  TypeOK'
  BY <1>0, <1>7 DEF TypeOK, LockEntity
<1>8. ASSUME NEW p \in Procs, Aborts(p)
      PROVE  TypeOK'
  BY <1>0, <1>8, AbortType DEF TypeOK, Aborts
<1>9. ASSUME NEW p \in Procs, ApplyEffect(p)
      PROVE  TypeOK'
  <2> DEFINE e == evt[p]
             f == dispatch(content[e])
  <2>1. content[e] \in Contents /\ Dispatches(content[e])
    BY <1>0, <1>9 DEF IInv, Stored, TypeOK, ApplyEffect
  <2>2. Delta(f) \in Int
    <3>1. f.account_ref \in Accounts /\ f.minor \in Int
      BY <2>1, DispatchType
    <3> HIDE DEF e, f
    <3>2. balance[f.account_ref] \in Int
      BY <1>0, <3>1 DEF TypeOK, BigInt
    <3> QED
      BY <3>1, <3>2 DEF Delta
  <2>3. ResultOf(e, f) \in EffectResult
    BY DEF ResultOf, EffectResult
  <2>4. txn' = [txn EXCEPT ![p] = [number |-> txn[p].number, used |-> txn[p].used,
                                   result |-> ResultOf(e, f),
                                   amount |-> Delta(f)]]
    BY <1>9 DEF ApplyEffect
  <2> HIDE DEF e, f
  <2>5. txn' \in [Procs -> [number : Nat, used : Nat,
                            result : EffectResult \cup {"none"}, amount : Int]]
    BY <1>0, <2>2, <2>3, <2>4 DEF TypeOK
  <2> QED
    BY <1>0, <1>9, <2>5 DEF TypeOK, ApplyEffect
<1>10. ASSUME NEW p \in Procs, Commit(p)
       PROVE  TypeOK'
  <2>1. pc[p] = "applied" /\ CommitWrites(p) /\ Return(p) /\ batch' = batch
    BY <1>10 DEF Commit
  <2>2. content' = content /\ due' = due /\ dlq' = dlq
    BY <2>1 DEF CommitWrites
  <2> QED
    BY <1>0, <2>1, <2>2, CommitWritesType, ReturnType DEF TypeOK
<1>11. ASSUME NEW p \in Procs, NEW x \in Exceptions, CommitAckLost(p, x)
       PROVE  TypeOK'
  <2>1. /\ pc[p] = "applied" /\ CommitWrites(p) /\ Abort(p, x)
        /\ batch' = batch /\ evt' = evt
    BY <1>11 DEF CommitAckLost
  <2>2. content' = content /\ due' = due /\ dlq' = dlq
    BY <2>1 DEF CommitWrites
  <2> QED
    BY <1>0, <2>1, <2>2, CommitWritesType, AbortType DEF TypeOK
<1>12. ASSUME NEW p \in Procs, Reschedule(p)
       PROVE  TypeOK'
  <2>1. evt[p] \in Events
    BY <1>12 DEF IInv, Stored, Reschedule, FailureLoaded
  <2>2. RecordFailedAttempt(p) /\ Return(p)
    BY <1>12 DEF Reschedule
  <2> QED
    BY <1>0, <1>12, <2>1, <2>2, RecordFailedAttemptType, ReturnType
       DEF TypeOK, Reschedule
<1>13. ASSUME NEW p \in Procs, DeadLetter(p)
       PROVE  TypeOK'
  <2>1. evt[p] \in Events
    BY <1>13 DEF IInv, Stored, DeadLetter, FailureLoaded
  <2>2. RecordFailedAttempt(p) /\ Return(p)
    BY <1>13 DEF DeadLetter
  <2>3. dlq' \in [Events -> DlqStatus \cup {NULL}]
    BY <1>0, <1>13, <2>1 DEF TypeOK, DeadLetter, DlqAfter, DlqStatus
  <2> QED
    BY <1>0, <1>13, <2>1, <2>2, <2>3, RecordFailedAttemptType, ReturnType
       DEF TypeOK, DeadLetter
<1>14. ASSUME NEW p \in Procs, GivesUp(p)
       PROVE  TypeOK'
  BY <1>0, <1>14, ReturnType DEF TypeOK, GivesUp
<1>15. ASSUME NEW old \in SUBSET Events, PurgeHistory(old)
       PROVE  TypeOK'
  <2>1. attempts' \in [Events -> Seq([number : Nat, outcome : AttemptOutcome])]
    <3>1. <<>> \in Seq([number : Nat, outcome : AttemptOutcome])
      BY EmptySeq
    <3> QED
      BY <1>0, <1>15, <3>1 DEF TypeOK, PurgeHistory
  <2>2. /\ status' \in [Events -> {"unused", "pending", "succeeded",
                                   "dead_lettered", "purged"}]
        /\ dlq' \in [Events -> DlqStatus \cup {NULL}]
    BY <1>0, <1>15 DEF TypeOK, PurgeHistory
  <2> QED
    BY <1>0, <1>15, <2>1, <2>2 DEF TypeOK, PurgeHistory
<1> QED
  BY <1>1, <1>2, <1>3, <1>4, <1>5, <1>6, <1>7, <1>8, <1>9, <1>10, <1>11,
     <1>12, <1>13, <1>14, <1>15, NextCases, Zenon
-----------------------------------------------------------------------------
(* Who holds what.                                                          *)

\* What a commit leaves as it was: the payloads, and every other event's row.
LEMMA CommitWritesFrame ==
    ASSUME IInv, NEW p \in Procs, pc[p] = "applied", CommitWrites(p)
    PROVE  /\ content' = content
           /\ evt[p] \in Events /\ content[evt[p]] # NULL
           /\ status'[evt[p]] = "succeeded"
           /\ \A e \in Events \ {evt[p]} : /\ status'[e] = status[e]
                                          /\ ledger'[e] = ledger[e]
<1>1. evt[p] \in Events /\ content[evt[p]] # NULL
  BY DEF IInv, Stored
<1>2. TypeOK
  BY DEF IInv
<1>3. content' = content /\ status' = [status EXCEPT ![evt[p]] = "succeeded"]
  BY DEF CommitWrites
<1>4. \/ ledger' = ledger
      \/ \E s : ledger' = [ledger EXCEPT ![evt[p]] = s]
  BY DEF CommitWrites, WriteBook, bookVars
<1>5. \A e \in Events \ {evt[p]} : ledger'[e] = ledger[e]
  BY <1>4, <1>2 DEF TypeOK
<1> QED
  BY <1>1, <1>2, <1>3, <1>5 DEF TypeOK

\* Every step keeps rows and calls together.
LEMMA StoredStep == IInv /\ Next => Stored'
<1> SUFFICES ASSUME IInv, Next PROVE Stored'
  OBVIOUS
<1> USE DEF rowVars, bookVars, procVars
<1>0. TypeOK /\ Stored
  BY DEF IInv
<1>1. ASSUME NEW e \in Events, NEW c \in Contents, Ingest(e, c)
      PROVE  Stored'
  BY <1>0, <1>1, NullAssumption DEF TypeOK, Stored, Ingest
<1>2. ASSUME NEW e \in Events, BackoffElapsed(e)
      PROVE  Stored'
  BY <1>0, <1>2 DEF Stored, BackoffElapsed
<1>3. ASSUME NEW p \in Procs, NEW ids \in SUBSET Events, Poll(p, ids)
      PROVE  Stored'
  BY <1>0, <1>3 DEF TypeOK, Stored, Poll, Due
<1>4. ASSUME NEW p \in Procs, NEW e \in Events, Claim(p, e)
      PROVE  Stored'
  BY <1>0, <1>4 DEF TypeOK, Stored, Claim
<1>5. ASSUME NEW p \in Procs, NEW e \in Events, ClaimMiss(p, e)
      PROVE  Stored'
  BY <1>0, <1>5 DEF TypeOK, Stored, ClaimMiss
<1>6. ASSUME NEW p \in Procs, NEW e \in Events, NEW x \in Exceptions,
             ClaimFails(p, e, x)
      PROVE  Stored'
  BY <1>0, <1>6 DEF TypeOK, Stored, ClaimFails, Abort
<1>7. ASSUME NEW p \in Procs, LockEntity(p)
      PROVE  Stored'
  BY <1>0, <1>7 DEF TypeOK, Stored, LockEntity
<1>8. ASSUME NEW p \in Procs, Aborts(p)
      PROVE  Stored'
  BY <1>0, <1>8 DEF TypeOK, Stored, Aborts, Abort, InTransaction
<1>9. ASSUME NEW p \in Procs, ApplyEffect(p)
      PROVE  Stored'
  <2>1. /\ pc[p] = "locked" /\ pc' = [pc EXCEPT ![p] = "applied"]
        /\ UNCHANGED <<rowVars, bookVars, batch, evt, exc>>
    BY <1>9 DEF ApplyEffect
  <2> QED
    BY <1>0, <2>1 DEF TypeOK, Stored
<1>10. ASSUME NEW p \in Procs, Commit(p)
       PROVE  Stored'
  <2>1. pc[p] = "applied" /\ CommitWrites(p) /\ Return(p) /\ batch' = batch
    BY <1>10 DEF Commit
  <2> QED
    BY <1>0, <2>1, CommitWritesFrame DEF TypeOK, Stored, Return
<1>11. ASSUME NEW p \in Procs, NEW x \in Exceptions, CommitAckLost(p, x)
       PROVE  Stored'
  <2>1. /\ pc[p] = "applied" /\ CommitWrites(p) /\ Abort(p, x)
        /\ batch' = batch /\ evt' = evt
    BY <1>11 DEF CommitAckLost
  <2> QED
    BY <1>0, <2>1, CommitWritesFrame DEF TypeOK, Stored, Abort
<1>12. ASSUME NEW p \in Procs, Reschedule(p)
       PROVE  Stored'
  <2>1. /\ evt[p] \in Events /\ Present(evt[p]) /\ Return(p)
        /\ status' = [status EXCEPT ![evt[p]] = "pending"]
        /\ UNCHANGED <<content, ledger, batch>>
    BY <1>0, <1>12 DEF Stored, Reschedule, FailureLoaded
  <2> QED
    BY <1>0, <2>1 DEF TypeOK, Stored, Return, Present
<1>13. ASSUME NEW p \in Procs, DeadLetter(p)
       PROVE  Stored'
  <2>1. /\ evt[p] \in Events /\ Present(evt[p]) /\ Return(p)
        /\ status' = [status EXCEPT ![evt[p]] = "dead_lettered"]
        /\ UNCHANGED <<content, ledger, batch>>
    BY <1>0, <1>13 DEF Stored, DeadLetter, FailureLoaded
  <2> QED
    BY <1>0, <2>1 DEF TypeOK, Stored, Return, Present
<1>14. ASSUME NEW p \in Procs, GivesUp(p)
       PROVE  Stored'
  BY <1>0, <1>14 DEF TypeOK, Stored, GivesUp, Return
<1>15. ASSUME NEW old \in SUBSET Events, PurgeHistory(old)
       PROVE  Stored'
  <2>1. /\ \A e \in old : status[e] = "succeeded"
        /\ \A e \in Events : status'[e] \in {status[e], "purged"}
        /\ \A e \in Events : e \notin old => status'[e] = status[e]
        /\ UNCHANGED <<content, ledger, procVars>>
    BY <1>15 DEF PurgeHistory
  <2> QED
    BY <1>0, <2>1 DEF Stored
<1> QED
  BY <1>1, <1>2, <1>3, <1>4, <1>5, <1>6, <1>7, <1>8, <1>9, <1>10, <1>11,
     <1>12, <1>13, <1>14, <1>15, NextCases, Zenon

\* A commit that ends its transaction leaves the rows of the others pending.
LEMMA OthersUndisturbed ==
    ASSUME IInv, NEW p \in Procs, pc[p] = "applied", CommitWrites(p),
           ~InTransaction(p)',
           \A q \in Procs \ {p} : pc'[q] = pc[q] /\ evt'[q] = evt[q]
    PROVE  RowOwned'
<1>1. \A q \in Procs : InTransaction(q)' => q # p /\ InTransaction(q) /\ evt'[q] = evt[q]
  BY DEF InTransaction
<1>2. \A q \in Procs \ {p} : InTransaction(q) => evt[q] \in Events \ {evt[p]}
  BY DEF IInv, Stored, RowOwned, InTransaction
<1>3. \A q \in Procs : InTransaction(q)' => status'[evt'[q]] = "pending"
  BY <1>1, <1>2, CommitWritesFrame DEF IInv, RowOwned
<1> QED
  BY <1>1, <1>3 DEF IInv, RowOwned

\* Every step keeps rows owned by one transaction: a claim and a failure being
\* recorded both require the row to be free, and only a commit settles a row
\* that is owned.
LEMMA RowOwnedStep == IInv /\ Next => RowOwned'
<1> SUFFICES ASSUME IInv, Next PROVE RowOwned'
  OBVIOUS
<1> USE DEF rowVars, bookVars, procVars, InTransaction
<1>0. TypeOK /\ Stored /\ RowOwned
  BY DEF IInv
<1>1. ASSUME NEW e \in Events, NEW c \in Contents, Ingest(e, c)
      PROVE  RowOwned'
  BY <1>0, <1>1 DEF TypeOK, Stored, RowOwned, Ingest
<1>2. ASSUME NEW e \in Events, BackoffElapsed(e)
      PROVE  RowOwned'
  BY <1>0, <1>2 DEF RowOwned, BackoffElapsed
<1>3. ASSUME NEW p \in Procs, NEW ids \in SUBSET Events, Poll(p, ids)
      PROVE  RowOwned'
  BY <1>0, <1>3 DEF RowOwned, Poll
<1>4. ASSUME NEW p \in Procs, NEW e \in Events, Claim(p, e)
      PROVE  RowOwned'
  BY <1>0, <1>4 DEF TypeOK, RowOwned, Claim, Claimable, Due, RowFree, HoldsRow
<1>5. ASSUME NEW p \in Procs, NEW e \in Events, ClaimMiss(p, e)
      PROVE  RowOwned'
  BY <1>0, <1>5 DEF RowOwned, ClaimMiss
<1>6. ASSUME NEW p \in Procs, NEW e \in Events, NEW x \in Exceptions,
             ClaimFails(p, e, x)
      PROVE  RowOwned'
  BY <1>0, <1>6 DEF TypeOK, RowOwned, ClaimFails, Abort
<1>7. ASSUME NEW p \in Procs, LockEntity(p)
      PROVE  RowOwned'
  BY <1>0, <1>7 DEF TypeOK, RowOwned, LockEntity
<1>8. ASSUME NEW p \in Procs, Aborts(p)
      PROVE  RowOwned'
  BY <1>0, <1>8 DEF TypeOK, RowOwned, Aborts, Abort
<1>9. ASSUME NEW p \in Procs, ApplyEffect(p)
      PROVE  RowOwned'
  <2>1. /\ pc[p] = "locked" /\ pc' = [pc EXCEPT ![p] = "applied"]
        /\ UNCHANGED <<status, evt>>
    BY <1>9 DEF ApplyEffect
  <2> QED
    BY <1>0, <2>1 DEF TypeOK, RowOwned
<1>10. ASSUME NEW p \in Procs, Commit(p)
       PROVE  RowOwned'
  <2>1. pc[p] = "applied" /\ CommitWrites(p) /\ Return(p)
    BY <1>10 DEF Commit
  <2>2. ~InTransaction(p)' /\ \A q \in Procs \ {p} : pc'[q] = pc[q] /\ evt'[q] = evt[q]
    BY <1>0, <2>1 DEF TypeOK, Return
  <2> QED
    BY <2>1, <2>2, OthersUndisturbed
<1>11. ASSUME NEW p \in Procs, NEW x \in Exceptions, CommitAckLost(p, x)
       PROVE  RowOwned'
  <2>1. pc[p] = "applied" /\ CommitWrites(p) /\ Abort(p, x) /\ evt' = evt
    BY <1>11 DEF CommitAckLost
  <2>2. ~InTransaction(p)' /\ \A q \in Procs \ {p} : pc'[q] = pc[q] /\ evt'[q] = evt[q]
    BY <1>0, <2>1 DEF TypeOK, Abort
  <2> QED
    BY <2>1, <2>2, OthersUndisturbed
<1>12. ASSUME NEW p \in Procs, Reschedule(p)
       PROVE  RowOwned'
  <2>1. /\ evt[p] \in Events /\ RowFree(evt[p]) /\ Return(p)
        /\ status' = [status EXCEPT ![evt[p]] = "pending"]
    BY <1>0, <1>12 DEF Stored, Reschedule, FailureLoaded
  <2> QED
    BY <1>0, <2>1 DEF TypeOK, Stored, RowOwned, Return, RowFree, HoldsRow
<1>13. ASSUME NEW p \in Procs, DeadLetter(p)
       PROVE  RowOwned'
  <2>1. /\ evt[p] \in Events /\ RowFree(evt[p]) /\ Return(p)
        /\ status' = [status EXCEPT ![evt[p]] = "dead_lettered"]
    BY <1>0, <1>13 DEF Stored, DeadLetter, FailureLoaded
  <2> QED
    BY <1>0, <2>1 DEF TypeOK, Stored, RowOwned, Return, RowFree, HoldsRow
<1>14. ASSUME NEW p \in Procs, GivesUp(p)
       PROVE  RowOwned'
  BY <1>0, <1>14 DEF TypeOK, RowOwned, GivesUp, Return
<1>15. ASSUME NEW old \in SUBSET Events, PurgeHistory(old)
       PROVE  RowOwned'
  <2>1. /\ \A e \in old : status[e] = "succeeded"
        /\ \A e \in Events : e \notin old => status'[e] = status[e]
        /\ UNCHANGED procVars
    BY <1>15 DEF PurgeHistory
  <2> QED
    BY <1>0, <2>1 DEF Stored, RowOwned
<1> QED
  BY <1>1, <1>2, <1>3, <1>4, <1>5, <1>6, <1>7, <1>8, <1>9, <1>10, <1>11,
     <1>12, <1>13, <1>14, <1>15, NextCases, Zenon

\* A step that is neither an insert nor a lock_entity only takes processes out
\* of the locked part of the transaction, and leaves the payloads alone.
LEMMA LocksReleased ==
    ASSUME IInv, NEW p \in Procs,
           pc'[p] \in {"locked", "applied"} => pc[p] \in {"locked", "applied"},
           pc'[p] \in {"locked", "applied"} => evt'[p] = evt[p],
           \A q \in Procs \ {p} : pc'[q] = pc[q] /\ evt'[q] = evt[q],
           content' = content
    PROVE  EntityOwned'
<1> DEFINE L == {"locked", "applied"}
<1> SUFFICES ASSUME NEW a \in Procs, NEW b \in Procs,
                    pc'[a] \in L, pc'[b] \in L, KeyOf(evt[a])' = KeyOf(evt[b])'
             PROVE  a = b
  BY DEF EntityOwned
<1>1. /\ pc[a] \in L /\ evt'[a] = evt[a]
      /\ pc[b] \in L /\ evt'[b] = evt[b]
  OBVIOUS
<1>2. KeyOf(evt[a]) = KeyOf(evt[b])
  BY <1>1 DEF KeyOf
<1> QED
  BY <1>1, <1>2 DEF IInv, EntityOwned

\* Every step keeps lock keys owned by one transaction.
LEMMA EntityOwnedStep == IInv /\ Next => EntityOwned'
<1> SUFFICES ASSUME IInv, Next PROVE EntityOwned'
  OBVIOUS
<1> USE DEF rowVars, bookVars, procVars
<1>0. TypeOK /\ Stored /\ EntityOwned
  BY DEF IInv
<1>1. ASSUME NEW e \in Events, NEW c \in Contents, Ingest(e, c)
      PROVE  EntityOwned'
  <2>1. \A q \in Procs : pc[q] # "idle" => KeyOf(evt[q])' = KeyOf(evt[q])
    BY <1>0, <1>1 DEF TypeOK, Stored, Ingest, KeyOf
  <2>2. pc' = pc
    BY <1>1 DEF Ingest
  <2> QED
    BY <1>0, <2>1, <2>2 DEF EntityOwned
<1>2. ASSUME UNCHANGED <<content, pc, evt>>
      PROVE  EntityOwned'
  BY <1>0, <1>2 DEF EntityOwned, KeyOf
<1>3. ASSUME NEW p \in Procs, LockEntity(p)
      PROVE  EntityOwned'
  <2>1. /\ pc' = [pc EXCEPT ![p] = "locked"] /\ evt' = evt
        /\ \A q \in Procs : ~HoldsEntity(q, KeyOf(evt[p]))
        /\ \A q \in Procs : KeyOf(evt[q])' = KeyOf(evt[q])
    BY <1>3 DEF LockEntity, EntityFree, KeyOf
  <2> QED
    BY <1>0, <2>1 DEF TypeOK, EntityOwned, HoldsEntity
<1>4. ASSUME NEW p \in Procs, NEW e \in Events, Claim(p, e)
      PROVE  EntityOwned'
  BY <1>0, <1>4, LocksReleased DEF TypeOK, Claim
<1>5. ASSUME NEW p \in Procs, NEW e \in Events, NEW x \in Exceptions,
             ClaimFails(p, e, x)
      PROVE  EntityOwned'
  BY <1>0, <1>5, LocksReleased DEF TypeOK, ClaimFails, Abort
<1>6. ASSUME NEW p \in Procs, Aborts(p)
      PROVE  EntityOwned'
  BY <1>0, <1>6, LocksReleased DEF TypeOK, Aborts, Abort
<1>7. ASSUME NEW p \in Procs, ApplyEffect(p)
      PROVE  EntityOwned'
  <2>1. /\ pc[p] = "locked" /\ pc' = [pc EXCEPT ![p] = "applied"]
        /\ UNCHANGED <<content, evt>>
    BY <1>7 DEF ApplyEffect
  <2> QED
    BY <1>0, <2>1, LocksReleased DEF TypeOK
<1>8. ASSUME NEW p \in Procs, Return(p), content' = content
      PROVE  EntityOwned'
  BY <1>0, <1>8, LocksReleased DEF TypeOK, Return
<1>9. ASSUME NEW p \in Procs, NEW x \in Exceptions, CommitAckLost(p, x)
      PROVE  EntityOwned'
  <2>1. Abort(p, x) /\ UNCHANGED <<content, evt>>
    BY <1>9 DEF CommitAckLost, CommitWrites
  <2> QED
    BY <1>0, <2>1, LocksReleased DEF TypeOK, Abort
<1>10. ASSUME NEW p \in Procs, Commit(p) \/ Reschedule(p) \/ DeadLetter(p) \/ GivesUp(p)
       PROVE  EntityOwned'
  <2>1. Return(p) /\ content' = content
    BY <1>10 DEF Commit, CommitWrites, Reschedule, DeadLetter, GivesUp
  <2> QED
    BY <2>1, <1>8
<1>11. ASSUME \/ \E e \in Events : BackoffElapsed(e)
              \/ \E p \in Procs, ids \in SUBSET Events : Poll(p, ids)
              \/ \E p \in Procs, e \in Events : ClaimMiss(p, e)
              \/ \E old \in SUBSET Events : PurgeHistory(old)
       PROVE  EntityOwned'
  <2>1. UNCHANGED <<content, pc, evt>>
    BY <1>11 DEF BackoffElapsed, Poll, ClaimMiss, PurgeHistory
  <2> QED
    BY <2>1, <1>2
<1> QED
  BY <1>1, <1>3, <1>4, <1>5, <1>6, <1>7, <1>9, <1>10, <1>11, NextCases, Zenon

-----------------------------------------------------------------------------
(* What an open transaction has read is still true.                         *)

\* A buffered effect depends on its own event's payload and ledger and on its
\* own account, and on nothing else.
LEMMA BufferedFrame ==
    ASSUME NEW q \in Procs, Buffered(q),
           evt'[q] = evt[q], txn'[q] = txn[q],
           content'[evt[q]] = content[evt[q]],
           ledger'[evt[q]] = ledger[evt[q]],
           balance'[content[evt[q]].entity_id] = balance[content[evt[q]].entity_id],
           version'[content[evt[q]].entity_id] = version[content[evt[q]].entity_id]
    PROVE  Buffered(q)'
BY DEF Buffered, Overflows, Stale, Delta, ResultOf, dispatch, Dispatches,
       Registered, OwnsEntity, UsableMoney, UsableSequence

\* A commit does not touch the account of another transaction that is past
\* lock_entity: two accounts never share a row, and one account has one key.
LEMMA CommitElsewhere ==
    ASSUME IInv, NEW p \in Procs, pc[p] = "applied", CommitWrites(p),
           NEW q \in Procs \ {p}, pc[q] = "applied"
    PROVE  /\ evt[q] \in Events \ {evt[p]}
           /\ balance'[content[evt[q]].entity_id] = balance[content[evt[q]].entity_id]
           /\ version'[content[evt[q]].entity_id] = version[content[evt[q]].entity_id]
<1> DEFINE a == content[evt[p]].entity_id
           b == content[evt[q]].entity_id
<1>1. /\ evt[p] \in Events /\ content[evt[p]] \in Contents
      /\ evt[q] \in Events /\ content[evt[q]] \in Contents
  BY DEF IInv, TypeOK, Stored
<1>2. Dispatches(content[evt[p]]) /\ Dispatches(content[evt[q]])
  BY DEF IInv, BufferedIsCurrent, Buffered
<1>3. /\ a \in Accounts /\ b \in Accounts
      /\ content[evt[p]].entity_type = content[evt[q]].entity_type
  BY <1>1, <1>2, DispatchType
<1>4. a # b
  BY <1>3 DEF IInv, EntityOwned, KeyOf
<1>5. evt[q] # evt[p]
  BY DEF IInv, RowOwned, InTransaction
<1>6. dispatch(content[evt[p]]).account_ref = a
  BY DEF dispatch
<1>7. \/ balance' = balance /\ version' = version
      \/ \E m, v : /\ balance' = [balance EXCEPT ![a] = m]
                   /\ version' = [version EXCEPT ![a] = v]
  BY <1>6 DEF CommitWrites, WriteBook, bookVars
<1> HIDE DEF a, b
<1>8. balance'[b] = balance[b] /\ version'[b] = version[b]
  BY <1>3, <1>4, <1>7 DEF IInv, TypeOK
<1> QED
  BY <1>1, <1>5, <1>8 DEF b

\* A step that leaves payloads, ledger and accounts alone, and lets no process
\* enter "applied", keeps buffered effects current.
LEMMA BookUntouched ==
    ASSUME IInv,
           UNCHANGED <<content, ledger, balance, version>>,
           \A q \in Procs : pc'[q] = "applied" =>
               pc[q] = "applied" /\ evt'[q] = evt[q] /\ txn'[q] = txn[q]
    PROVE  BufferedIsCurrent'
<1>1. ASSUME NEW q \in Procs, pc'[q] = "applied"
      PROVE  Buffered(q)'
  <2>1. Buffered(q)
    BY <1>1 DEF IInv, BufferedIsCurrent
  <2> QED
    BY <1>1, <2>1, BufferedFrame
<1> QED
  BY <1>1 DEF BufferedIsCurrent

\* The same for a commit, after which the committing process is not "applied".
LEMMA BookCommitted ==
    ASSUME IInv, NEW p \in Procs, pc[p] = "applied", CommitWrites(p),
           pc'[p] # "applied",
           \A q \in Procs \ {p} : /\ pc'[q] = pc[q] /\ evt'[q] = evt[q]
                                  /\ txn'[q] = txn[q]
    PROVE  BufferedIsCurrent'
<1>1. ASSUME NEW q \in Procs, pc'[q] = "applied"
      PROVE  Buffered(q)'
  <2>1. q \in Procs \ {p} /\ pc[q] = "applied"
    BY <1>1
  <2>2. Buffered(q)
    BY <2>1 DEF IInv, BufferedIsCurrent
  <2>3. content' = content /\ ledger'[evt[q]] = ledger[evt[q]]
    BY <2>1, CommitElsewhere, CommitWritesFrame
  <2> QED
    BY <2>1, <2>2, <2>3, CommitElsewhere, BufferedFrame
<1> QED
  BY <1>1 DEF BufferedIsCurrent

\* Every step keeps buffered effects current: this is what the advisory lock
\* and the row lock are for.
LEMMA BufferedStep == IInv /\ Next => BufferedIsCurrent'
<1> SUFFICES ASSUME IInv, Next PROVE BufferedIsCurrent'
  OBVIOUS
<1> USE DEF rowVars, bookVars, procVars
<1>0. TypeOK /\ Stored
  BY DEF IInv
<1>1. ASSUME NEW e \in Events, NEW c \in Contents, Ingest(e, c)
      PROVE  BufferedIsCurrent'
  <2>1. ASSUME NEW q \in Procs, pc'[q] = "applied"
        PROVE  Buffered(q)'
    <3>1. pc[q] = "applied" /\ UNCHANGED <<evt, txn, ledger, balance, version>>
      BY <1>1, <2>1 DEF Ingest
    <3>2. Buffered(q)
      BY <3>1 DEF IInv, BufferedIsCurrent
    <3>3. content'[evt[q]] = content[evt[q]]
      BY <1>0, <1>1, <3>1 DEF TypeOK, Stored, Ingest
    <3> QED
      BY <3>1, <3>2, <3>3, BufferedFrame
  <2> QED
    BY <2>1 DEF BufferedIsCurrent
<1>2. ASSUME \/ \E e \in Events : BackoffElapsed(e)
             \/ \E p \in Procs, ids \in SUBSET Events : Poll(p, ids)
             \/ \E p \in Procs, e \in Events : ClaimMiss(p, e)
             \/ \E old \in SUBSET Events : PurgeHistory(old)
      PROVE  BufferedIsCurrent'
  <2>1. UNCHANGED <<content, ledger, balance, version, pc, evt, txn>>
    BY <1>2 DEF BackoffElapsed, Poll, ClaimMiss, PurgeHistory
  <2> QED
    BY <2>1, BookUntouched
<1>3. ASSUME NEW p \in Procs, NEW e \in Events, Claim(p, e)
      PROVE  BufferedIsCurrent'
  BY <1>0, <1>3, BookUntouched DEF TypeOK, Claim
<1>4. ASSUME NEW p \in Procs, NEW e \in Events, NEW x \in Exceptions,
             ClaimFails(p, e, x)
      PROVE  BufferedIsCurrent'
  BY <1>0, <1>4, BookUntouched DEF TypeOK, ClaimFails, Abort
<1>5. ASSUME NEW p \in Procs, LockEntity(p)
      PROVE  BufferedIsCurrent'
  BY <1>0, <1>5, BookUntouched DEF TypeOK, LockEntity
<1>6. ASSUME NEW p \in Procs, Aborts(p)
      PROVE  BufferedIsCurrent'
  BY <1>0, <1>6, BookUntouched DEF TypeOK, Aborts, Abort
<1>7. ASSUME NEW p \in Procs, ApplyEffect(p)
      PROVE  BufferedIsCurrent'
  <2> DEFINE e == evt[p]
             f == dispatch(content[e])
  <2>1. /\ Dispatches(content[e]) /\ ~Overflows(e, f)
        /\ UNCHANGED <<content, ledger, balance, version, evt>>
        /\ pc' = [pc EXCEPT ![p] = "applied"]
        /\ txn' = [txn EXCEPT ![p] = [number |-> txn[p].number,
                                      used |-> txn[p].used,
                                      result |-> ResultOf(e, f),
                                      amount |-> Delta(f)]]
    BY <1>7 DEF ApplyEffect
  <2>2. /\ txn'[p].result = ResultOf(e, f) /\ txn'[p].amount = Delta(f)
        /\ \A q \in Procs \ {p} : txn'[q] = txn[q] /\ pc'[q] = pc[q]
    <3> HIDE DEF e, f
    <3> QED
      BY <1>0, <2>1 DEF TypeOK
  <2>3. Buffered(p)'
    BY <2>1, <2>2 DEF Buffered, Overflows, Stale, Delta, ResultOf
  <2>4. ASSUME NEW q \in Procs \ {p}, pc'[q] = "applied"
        PROVE  Buffered(q)'
    <3>1. Buffered(q)
      BY <2>2, <2>4 DEF IInv, BufferedIsCurrent
    <3> QED
      BY <2>1, <2>2, <3>1, BufferedFrame
  <2> QED
    BY <2>3, <2>4 DEF BufferedIsCurrent
<1>8. ASSUME NEW p \in Procs, Commit(p)
      PROVE  BufferedIsCurrent'
  <2>1. pc[p] = "applied" /\ CommitWrites(p) /\ Return(p)
    BY <1>8 DEF Commit
  <2> QED
    BY <1>0, <2>1, BookCommitted DEF TypeOK, Return
<1>9. ASSUME NEW p \in Procs, NEW x \in Exceptions, CommitAckLost(p, x)
      PROVE  BufferedIsCurrent'
  <2>1. pc[p] = "applied" /\ CommitWrites(p) /\ Abort(p, x) /\ evt' = evt
    BY <1>9 DEF CommitAckLost
  <2> QED
    BY <1>0, <2>1, BookCommitted DEF TypeOK, Abort
<1>10. ASSUME NEW p \in Procs, Reschedule(p) \/ DeadLetter(p) \/ GivesUp(p)
       PROVE  BufferedIsCurrent'
  <2>1. Return(p) /\ UNCHANGED <<content, ledger, balance, version>>
    BY <1>10 DEF Reschedule, DeadLetter, GivesUp
  <2> QED
    BY <1>0, <2>1, BookUntouched DEF TypeOK, Return
<1> QED
  BY <1>1, <1>2, <1>3, <1>4, <1>5, <1>6, <1>7, <1>8, <1>9, <1>10,
     NextCases, Zenon

-----------------------------------------------------------------------------
(* The theorems.                                                            *)

\* The inductive invariant holds initially.
LEMMA InitIInv == Init => IInv
<1> SUFFICES ASSUME Init PROVE IInv
  OBVIOUS
<1>1. TypeOK
  <2>1. <<>> \in Seq(BigInt) /\ <<>> \in Seq([number : Nat, outcome : AttemptOutcome])
    BY EmptySeq
  <2>2. 0 \in BigInt
    BY BoundsAssumption DEF BigInt
  <2>3. NoTxn \in [number : Nat, used : Nat,
                   result : EffectResult \cup {"none"}, amount : Int]
    BY DEF NoTxn
  <2> QED
    BY <2>1, <2>2, <2>3 DEF Init, TypeOK
<1>2. Stored
  BY DEF Init, Stored
<1>3. RowOwned /\ EntityOwned /\ BufferedIsCurrent
  BY DEF Init, RowOwned, EntityOwned, BufferedIsCurrent, InTransaction
<1> QED
  BY <1>1, <1>2, <1>3 DEF IInv

\* A step that changes nothing preserves it.
LEMMA StutterIInv == IInv /\ UNCHANGED vars => IInv'
<1> SUFFICES ASSUME IInv, UNCHANGED vars PROVE IInv'
  OBVIOUS
<1> USE DEF vars, rowVars, bookVars, procVars
<1>1. TypeOK' /\ Stored'
  BY DEF IInv, TypeOK, Stored
<1>2. RowOwned' /\ EntityOwned'
  BY DEF IInv, RowOwned, EntityOwned, InTransaction, KeyOf
<1>3. BufferedIsCurrent'
  BY BookUntouched
<1> QED
  BY <1>1, <1>2, <1>3 DEF IInv

\* For any number of processes, events, accounts and attempts: rows and lock
\* keys have one owner, and what a transaction buffered is still what it would
\* do when it commits (services/process.py, adapters/queue.py, locks.py).
THEOREM Invariance == Spec => []IInv
<1>1. IInv /\ [Next]_vars => IInv'
  BY StutterIInv, TypeStep, StoredStep, RowOwnedStep, EntityOwnedStep,
     BufferedStep DEF IInv
<1> QED
  BY <1>1, InitIInv, PTL DEF Spec

\* Every column and every local of process_event keeps its type; for money
\* that is the bigint range, which apply_effect's refusals protect.
THEOREM TypeCorrect == Spec => []TypeOK
<1>1. IInv => TypeOK
  BY DEF IInv
<1> QED
  BY <1>1, Invariance, PTL

-----------------------------------------------------------------------------
(* The account book.                                                        *)

\* What the refinement mapping makes of a ledger: the amount of its first row.
Posted(l) == [e \in Events |-> IF l[e] = <<>> THEN NULL ELSE l[e][1]]

\* Steps that leave payloads, ledger and accounts alone are stutters.
LEMMA BookStutter ==
    ASSUME UNCHANGED <<content, ledger, balance, version>>
    PROVE  UNCHANGED Book!bookVars
BY DEF Book!bookVars

\* An insert stores the content.
LEMMA IngestStores ==
    ASSUME IInv, NEW e \in Events, NEW c \in Contents, Ingest(e, c)
    PROVE  Book!Store(e, c)
BY DEF IInv, Stored, Ingest, Book!Store, bookVars

\* A commit applies the event, or changes nothing in the book: the event was
\* already applied, or the account had moved past it.
LEMMA CommitApplies ==
    ASSUME IInv, NEW p \in Procs, pc[p] = "applied", CommitWrites(p)
    PROVE  (\E e \in Events : Book!Apply(e)) \/ UNCHANGED Book!bookVars
<1>0. PICK e \in Events : e = evt[p]
  BY DEF IInv, Stored
<1> DEFINE f == dispatch(content[e])
           t == txn[p]
<1>1. CASE t.result # "applied"
  <2>1. UNCHANGED <<content, ledger, balance, version>>
    BY <1>1 DEF CommitWrites, WriteBook, bookVars
  <2> QED
    BY <2>1, BookStutter
<1>2. CASE t.result = "applied"
  <2>0. TypeOK
    BY DEF IInv
  <2>1. /\ content[e] \in Contents /\ content[e] # NULL
        /\ Dispatches(content[e])
    BY <1>0 DEF IInv, Stored, TypeOK, BufferedIsCurrent, Buffered
  <2>2. t.result = ResultOf(e, f) /\ t.amount = Delta(f)
    BY <1>0 DEF IInv, BufferedIsCurrent, Buffered
  <2>3. ~Stale(f) /\ ledger[e] = <<>>
    BY <1>2, <2>2 DEF ResultOf
  <2>4. /\ f.account_ref \in Accounts /\ f.minor \in Int
        /\ f.sequence \in Nat /\ f.absolute \in BOOLEAN
    BY <2>1, DispatchType DEF dispatch
  <2>5. /\ ledger' = [ledger EXCEPT ![e] = Append(ledger[e], Delta(f))]
        /\ balance' = [balance EXCEPT ![f.account_ref] = BalanceAfter(f)]
        /\ version' = [version EXCEPT ![f.account_ref] = VersionAfter(f)]
        /\ content' = content
    BY <1>0, <1>2, <2>2 DEF CommitWrites, WriteBook
  <2> DEFINE g == Book!dispatch(content[e])
  <2>6. g = f /\ Book!Dispatches(content[e])
    BY <2>1 DEF dispatch, Book!dispatch, Dispatches, Book!Dispatches,
                Registered, Book!Registered, OwnsEntity, Book!OwnsEntity,
                UsableMoney, Book!UsableMoney, UsableSequence,
                Book!UsableSequence, CREDITED, DEBITED, SNAPSHOT,
                Book!CREDITED, Book!DEBITED, Book!SNAPSHOT,
                ACCOUNT_ENTITY_TYPE, Book!ACCOUNT_ENTITY_TYPE,
                MIN_SEQUENCE, Book!MIN_SEQUENCE
  <2>7. Posted(ledger)[e] = NULL
    BY <2>1, <2>3 DEF Posted
  <2>8. Posted(ledger') = [Posted(ledger) EXCEPT ![e] = Delta(f)]
    <3> HIDE DEF f
    <3>1. ledger'[e] = <<Delta(f)>>
      BY <2>0, <2>1, <2>3, <2>5 DEF TypeOK
    <3>2. ledger'[e] # <<>> /\ ledger'[e][1] = Delta(f)
      BY <3>1
    <3>3. \A d \in Events \ {e} : ledger'[d] = ledger[d]
      BY <2>0, <2>1, <2>5 DEF TypeOK
    <3> QED
      BY <2>1, <3>2, <3>3 DEF Posted
  <2>9. CASE f.absolute
    <3>1. Book!ApplySnapshot(e, g, g.account_ref)
      <4>1. f.sequence > version[f.account_ref]
        BY <2>0, <2>3, <2>4, <2>9 DEF Stale, TypeOK
      <4> HIDE DEF f, g
      <4> QED
        BY <4>1, <2>5, <2>6, <2>8, <2>9
           DEF Book!ApplySnapshot, Posted, Delta, BalanceAfter, VersionAfter
    <3>2. Book!Apply(e)
      BY <3>1, <2>1, <2>5, <2>6, <2>7 DEF Book!Apply, Posted
    <3> QED
      BY <3>2
  <2>10. CASE ~f.absolute
    <3>1. Book!ApplyCredit(e, g, g.account_ref)
      <4> HIDE DEF f, g
      <4> QED
        BY <2>5, <2>6, <2>8, <2>10
           DEF Book!ApplyCredit, Posted, Delta, BalanceAfter, VersionAfter
    <3>2. Book!Apply(e)
      BY <3>1, <2>1, <2>5, <2>6, <2>7 DEF Book!Apply, Posted
    <3> QED
      BY <3>2
  <2> QED
    BY <2>4, <2>9, <2>10
<1> QED
  BY <1>1, <1>2

\* Every step of the core is a step of the account book, or a stutter.
LEMMA BookStep == IInv /\ [Next]_vars => [Book!Next]_(Book!bookVars)
<1> SUFFICES ASSUME IInv, [Next]_vars PROVE Book!Next \/ UNCHANGED Book!bookVars
  OBVIOUS
<1> USE DEF rowVars, bookVars, procVars
<1>1. ASSUME NEW e \in Events, NEW c \in Contents, Ingest(e, c)
      PROVE  Book!Next
  BY <1>1, IngestStores DEF Book!Next
<1>2. ASSUME NEW p \in Procs, pc[p] = "applied", CommitWrites(p)
      PROVE  Book!Next \/ UNCHANGED Book!bookVars
  BY <1>2, CommitApplies, Zenon DEF Book!Next
<1>3. ASSUME NEW p \in Procs, Commit(p) \/ \E x \in Exceptions : CommitAckLost(p, x)
      PROVE  Book!Next \/ UNCHANGED Book!bookVars
  <2>1. pc[p] = "applied" /\ CommitWrites(p)
    BY <1>3 DEF Commit, CommitAckLost
  <2> QED
    BY <1>2, <2>1
<1>4. ASSUME NEW p \in Procs,
             \/ LockEntity(p) \/ Aborts(p) \/ ApplyEffect(p)
             \/ Reschedule(p) \/ DeadLetter(p) \/ GivesUp(p)
      PROVE  UNCHANGED Book!bookVars
  <2>1. UNCHANGED <<content, ledger, balance, version>>
    BY <1>4 DEF LockEntity, Aborts, ApplyEffect, Reschedule, DeadLetter, GivesUp
  <2> QED
    BY <2>1, BookStutter
<1>5. ASSUME NEW p \in Procs, NEW e \in Events,
             \/ Claim(p, e) \/ ClaimMiss(p, e)
             \/ \E x \in Exceptions : ClaimFails(p, e, x)
      PROVE  UNCHANGED Book!bookVars
  <2>1. UNCHANGED <<content, ledger, balance, version>>
    BY <1>5 DEF Claim, ClaimMiss, ClaimFails
  <2> QED
    BY <2>1, BookStutter
<1>6. ASSUME \/ \E e \in Events : BackoffElapsed(e)
             \/ \E p \in Procs, ids \in SUBSET Events : Poll(p, ids)
             \/ \E old \in SUBSET Events : PurgeHistory(old)
             \/ UNCHANGED vars
      PROVE  UNCHANGED Book!bookVars
  <2>1. UNCHANGED <<content, ledger, balance, version>>
    BY <1>6 DEF BackoffElapsed, Poll, PurgeHistory, vars
  <2> QED
    BY <2>1, BookStutter
<1> QED
  BY <1>1, <1>3, <1>4, <1>5, <1>6, NextCases, Zenon

\* The concurrent core implements the serial account book, for any number of
\* processes, events and accounts and whatever fails: each effect is applied at
\* most once and as if it were alone (services/process.py, adapters/ledger.py).
THEOREM Refinement == Spec => ImplementsAccountBook
<1>1. Init => Book!Init
  BY DEF Init, Book!Init
<1> QED
  BY <1>1, BookStep, Invariance, PTL DEF Spec, ImplementsAccountBook, Book!Spec

=============================================================================
