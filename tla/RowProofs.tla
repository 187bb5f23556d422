----------------------------- MODULE RowProofs ------------------------------
(***************************************************************************)
(* Theorems about the rows of Processing: budget, dead letters, attempt    *)
(* log, and one effect per key, for every number of processes, events and  *)
(* accounts.  Each rests on IInv (module ProcessingProofs) and on the part *)
(* of HInv that is named for it.                                           *)
(***************************************************************************)
EXTENDS ProcessingProofs, FiniteSetTheorems

-----------------------------------------------------------------------------
(* What the steps that write rows do to them.                               *)

\* The columns the parts of HInv that are about rows alone look at.
rows == <<content, status, attempt_count, attempts, dlq, ledger, version>>

\* A failure is recorded: an attempt is logged and charged, and the event goes
\* back to the queue or to the operators.
RecordsFailure(p) == Reschedule(p) \/ DeadLetter(p)

\* A transaction commits, acknowledged or not.
Commits(p) == pc[p] = "applied" /\ CommitWrites(p)

\* Attempt numbers rise along a log, and stay below a bound.
Rises(s) == \A i, j \in DOMAIN s : i < j => s[i].number < s[j].number
Below(s, n) == \A i \in DOMAIN s : s[i].number < n

\* The steps of Next, by what they write.
LEMMA RowCases ==
    ASSUME Next
    PROVE  \/ UNCHANGED rows
           \/ \E e \in Events, c \in Contents : Ingest(e, c)
           \/ \E p \in Procs : Commits(p)
           \/ \E p \in Procs : RecordsFailure(p)
           \/ \E old \in SUBSET Events : PurgeHistory(old)
<1> USE DEF rowVars, bookVars, procVars
<1>1. ASSUME NEW p \in Procs, Commit(p) \/ \E x \in Exceptions : CommitAckLost(p, x)
      PROVE  Commits(p)
  BY <1>1 DEF Commit, CommitAckLost, Commits
<1>2. ASSUME \/ \E p \in Procs, ids \in SUBSET Events : Poll(p, ids)
             \/ \E p \in Procs, e \in Events : Claim(p, e)
             \/ \E p \in Procs, e \in Events : ClaimMiss(p, e)
             \/ \E p \in Procs, e \in Events, x \in Exceptions : ClaimFails(p, e, x)
             \/ \E e \in Events : BackoffElapsed(e)
      PROVE  UNCHANGED rows
  BY <1>2 DEF Poll, Claim, ClaimMiss, ClaimFails, BackoffElapsed, rows
<1>3. ASSUME NEW p \in Procs,
             LockEntity(p) \/ Aborts(p) \/ ApplyEffect(p) \/ GivesUp(p)
      PROVE  UNCHANGED rows
  BY <1>3 DEF LockEntity, Aborts, ApplyEffect, GivesUp, rows
<1> QED
  BY <1>1, <1>2, <1>3, NextCases, Zenon DEF RecordsFailure

\* A commit: the ledger row is the event's first, an effect that is not applied
\* is there already or superseded, and no account's version falls.
LEMMA CommitEffect ==
    ASSUME IInv, NEW p \in Procs, Commits(p), NEW e, e = evt[p]
    PROVE  /\ e \in Events /\ content[e] \in Contents /\ content[e] # NULL
           /\ status[e] = "pending" /\ status' = [status EXCEPT ![e] = "succeeded"]
           /\ UNCHANGED <<content, dlq>>
           /\ attempt_count' = [attempt_count EXCEPT ![e] = txn[p].used]
           /\ attempts' = [attempts EXCEPT ![e] = Append(attempts[e],
                             [number |-> txn[p].number,
                              outcome |-> SuccessOutcome(txn[p].result)])]
           /\ \A f \in Events \ {e} : ledger'[f] = ledger[f]
           /\ \/ ledger[e] = <<>> /\ Len(ledger'[e]) = 1
              \/ ledger[e] # <<>> /\ ledger'[e] = ledger[e]
              \/ /\ ledger'[e] = ledger[e] /\ txn[p].result = "superseded"
                 /\ content[e].event_type = SNAPSHOT
                 /\ content[e].provider_sequence \in Nat
                 /\ content[e].provider_sequence <= version[content[e].entity_id]
           /\ \A a \in Accounts : version'[a] >= version[a]
<1> DEFINE f == dispatch(content[e])
           t == txn[p]
<1>0. TypeOK /\ pc[p] = "applied" /\ CommitWrites(p)
  BY DEF IInv, Commits
<1>1. e \in Events /\ content[e] \in Contents /\ content[e] # NULL
  BY <1>0 DEF IInv, Stored, TypeOK
<1>2. status[e] = "pending"
  BY <1>0 DEF IInv, RowOwned, InTransaction
<1>3. /\ status' = [status EXCEPT ![e] = "succeeded"]
      /\ UNCHANGED <<content, dlq>>
      /\ attempt_count' = [attempt_count EXCEPT ![e] = txn[p].used]
      /\ attempts' = [attempts EXCEPT ![e] = Append(attempts[e],
                        [number |-> txn[p].number,
                         outcome |-> SuccessOutcome(txn[p].result)])]
  BY <1>0 DEF CommitWrites
<1>4. \A g \in Events \ {e} : ledger'[g] = ledger[g]
  BY <1>0, CommitWritesFrame
<1>5. Dispatches(content[e]) /\ t.result = ResultOf(e, f) /\ t.amount = Delta(f)
  BY <1>0 DEF IInv, BufferedIsCurrent, Buffered
<1>6. /\ f.account_ref = content[e].entity_id /\ f.account_ref \in Accounts
      /\ f.sequence \in Nat /\ f.minor \in Int
      /\ f.absolute <=> content[e].event_type = SNAPSHOT
  BY <1>1, <1>5, DispatchType
<1>7. CASE t.result = "applied"
  <2>1. ledger[e] = <<>> /\ ~Stale(f)
    BY <1>5, <1>7 DEF ResultOf
  <2>2. /\ ledger' = [ledger EXCEPT ![e] = Append(ledger[e], t.amount)]
        /\ version' = [version EXCEPT ![f.account_ref] = VersionAfter(f)]
    BY <1>0, <1>7 DEF CommitWrites, WriteBook
  <2>3. Len(ledger'[e]) = 1
    <3>1. ledger'[e] = <<t.amount>>
      BY <1>0, <1>1, <2>1, <2>2 DEF TypeOK
    <3> QED
      BY <3>1
  <2>4. \A a \in Accounts : version'[a] >= version[a]
    <3>1. VersionAfter(f) >= version[f.account_ref]
      BY <1>0, <1>6, <2>1 DEF TypeOK, Stale, VersionAfter
    <3> HIDE DEF f
    <3> QED
      BY <1>0, <1>6, <2>2, <3>1 DEF TypeOK
  <2> QED
    BY <1>1, <1>2, <1>3, <1>4, <2>1, <2>3, <2>4
<1>8. CASE t.result # "applied"
  <2>1. UNCHANGED <<ledger, version>>
    BY <1>0, <1>8 DEF CommitWrites, WriteBook, bookVars
  <2>2. \A a \in Accounts : version'[a] >= version[a]
    BY <1>0, <2>1 DEF TypeOK
  <2>3. CASE Stale(f)
    <3>1. t.result = "superseded"
      BY <1>5, <2>3 DEF ResultOf
    <3>2. content[e].event_type = SNAPSHOT /\ f.sequence <= version[content[e].entity_id]
      BY <1>6, <2>3 DEF Stale
    <3>3. content[e].provider_sequence \in Nat \cup {NULL}
      BY <1>1, ContentsAssumption DEF Content
    <3>4. content[e].provider_sequence # NULL
      BY <1>5, <3>2 DEF Dispatches, UsableSequence
    <3>5. f.sequence = content[e].provider_sequence
      BY <3>4 DEF dispatch
    <3> QED
      BY <1>1, <1>2, <1>3, <1>4, <2>1, <2>2, <3>1, <3>2, <3>3, <3>4, <3>5
  <2>4. CASE ~Stale(f)
    <3>1. ledger[e] # <<>>
      BY <1>5, <1>8, <2>4 DEF ResultOf
    <3> QED
      BY <1>1, <1>2, <1>3, <1>4, <2>1, <2>2, <3>1
  <2> QED
    BY <2>3, <2>4
<1> QED
  BY <1>7, <1>8

\* A recorded failure: the attempt gets a number above all others, and the row
\* keeps room in its budget or is put on the operators' list.
LEMMA FailureEffect ==
    ASSUME IInv, NEW p \in Procs, RecordsFailure(p), NEW e, e = evt[p]
    PROVE  /\ e \in Events /\ content[e] # NULL
           /\ Present(e) /\ RowFree(e) /\ pc[p] = "failed" /\ Return(p)
           /\ UNCHANGED <<content, ledger, version, batch>>
           /\ attempt_count' = [attempt_count EXCEPT ![e] = attempt_count[e] + 1]
           /\ \A f \in Events \ {e} : attempts'[f] = attempts[f]
           /\ \E n \in Nat :
                 /\ Below(attempts[e], n)
                 /\ attempts'[e] = Append(attempts[e],
                                   [number |-> n, outcome |-> ErrorOutcome(exc[p])])
           /\ \/ /\ status' = [status EXCEPT ![e] = "pending"]
                 /\ attempt_count[e] + 1 < MaxAttempts
                 /\ dlq' = dlq
              \/ /\ status' = [status EXCEPT ![e] = "dead_lettered"]
                 /\ dlq' = [dlq EXCEPT ![e] = DlqAfter(e)]
<1>0. TypeOK /\ FailureLoaded(p) /\ RecordFailedAttempt(p) /\ Return(p)
  BY DEF IInv, RecordsFailure, Reschedule, DeadLetter
<1>1. e \in Events /\ content[e] # NULL
  BY <1>0 DEF FailureLoaded, IInv, Stored
<1>2. Present(e) /\ RowFree(e) /\ pc[p] = "failed"
  BY <1>0 DEF FailureLoaded
<1>3. UNCHANGED <<content, ledger, version, batch>>
  BY DEF RecordsFailure, Reschedule, DeadLetter, bookVars
<1>4. attempt_count' = [attempt_count EXCEPT ![e] = attempt_count[e] + 1]
  BY <1>0 DEF RecordFailedAttempt, AttemptsUsed
<1>5. PICK h \in RecordedNumbers(e) :
         /\ Highest(e, h)
         /\ attempts' = [attempts EXCEPT ![e] =
                           Append(attempts[e], [number |-> h + 1,
                                                outcome |-> ErrorOutcome(exc[p])])]
  BY <1>0 DEF RecordFailedAttempt
<1>6. RecordedNumbers(e) \subseteq Nat
  BY <1>0, <1>1, RecordedNumbersNat
<1>7. \A i \in DOMAIN attempts[e] : attempts[e][i].number \in RecordedNumbers(e)
  BY DEF RecordedNumbers
<1>8. h + 1 \in Nat /\ Below(attempts[e], h + 1)
  BY <1>5, <1>6, <1>7 DEF Highest, Below
<1>a. /\ \A f \in Events \ {e} : attempts'[f] = attempts[f]
      /\ attempts'[e] = Append(attempts[e], [number |-> h + 1,
                                             outcome |-> ErrorOutcome(exc[p])])
  BY <1>0, <1>1, <1>5 DEF TypeOK
<1>9. \/ /\ status' = [status EXCEPT ![e] = "pending"]
         /\ attempt_count[e] + 1 < MaxAttempts
         /\ dlq' = dlq
      \/ /\ status' = [status EXCEPT ![e] = "dead_lettered"]
         /\ dlq' = [dlq EXCEPT ![e] = DlqAfter(e)]
  <2>1. CASE Reschedule(p)
    <3>1. ~Exhausted(e) /\ status' = [status EXCEPT ![e] = "pending"] /\ dlq' = dlq
      BY <2>1 DEF Reschedule, Retries
    <3>2. attempt_count[e] \in Nat
      BY <1>0, <1>1 DEF TypeOK
    <3> QED
      BY <3>1, <3>2, BoundsAssumption DEF Exhausted, AttemptsUsed
  <2>2. CASE DeadLetter(p)
    BY <2>2 DEF DeadLetter
  <2> QED
    BY <2>1, <2>2 DEF RecordsFailure
<1> QED
  BY <1>0, <1>1, <1>2, <1>3, <1>4, <1>8, <1>9, <1>a

\* Retention, per event.
LEMMA PurgeEffect ==
    ASSUME IInv, NEW old \in SUBSET Events, PurgeHistory(old), NEW e \in Events
    PROVE  /\ UNCHANGED <<content, attempt_count, ledger, version, procVars>>
           /\ \/ /\ status'[e] = status[e] /\ dlq'[e] = dlq[e]
                 /\ attempts'[e] = attempts[e]
              \/ /\ status[e] = "succeeded" /\ RowFree(e)
                 /\ attempts'[e] = <<>>
                 /\ \/ /\ ledger[e] = <<>> /\ status'[e] = "purged"
                       /\ dlq'[e] = NULL
                    \/ /\ ledger[e] # <<>> /\ status'[e] = status[e]
                       /\ dlq'[e] = dlq[e]
BY DEF PurgeHistory, Effectless, bookVars

-----------------------------------------------------------------------------
(* The parts about rows alone.                                              *)

\* ON CONFLICT refuses a key whose row is still there, retention deletes only
\* rows without an effect, and a deleted row is never claimed again.
LEMMA KeyOwnedStep == IInv /\ KeyOwned /\ Next => KeyOwned'
<1> SUFFICES ASSUME IInv, KeyOwned, Next PROVE KeyOwned'
  OBVIOUS
<1>0. TypeOK /\ Stored
  BY DEF IInv
<1>1. ASSUME UNCHANGED rows PROVE KeyOwned'
  BY <1>1 DEF rows, KeyOwned
<1>2. ASSUME NEW e \in Events, NEW c \in Contents, Ingest(e, c) PROVE KeyOwned'
  <2>1. /\ content' = [content EXCEPT ![e] = c]
        /\ status' = [status EXCEPT ![e] = "pending"]
        /\ ledger' = ledger
        /\ \A f \in Events : Present(f) => content[f].key # c.key
    BY <1>2 DEF Ingest, bookVars
  <2>2. \A f \in Events : content[f] # NULL => Present(f) \/ status[f] = "purged"
    BY <1>0 DEF TypeOK, Stored, Present
  <2> QED
    BY <1>0, <2>1, <2>2 DEF TypeOK, KeyOwned
<1>3. ASSUME NEW p \in Procs, Commits(p) PROVE KeyOwned'
  <2>0. PICK e : e = evt[p]
    OBVIOUS
  <2>1. /\ e \in Events /\ content' = content
        /\ status[e] = "pending" /\ status' = [status EXCEPT ![e] = "succeeded"]
        /\ \A f \in Events \ {e} : ledger'[f] = ledger[f]
        /\ Len(ledger'[e]) = 1 \/ ledger'[e] = ledger[e]
    BY <1>3, <2>0, CommitEffect
  <2>2. \A f \in Events : Len(ledger'[f]) <= 1
    <3>1. CASE Len(ledger'[e]) = 1
      <4> TAKE f \in Events
      <4>1. CASE f = e
        <5>1. Len(ledger'[f]) = 1
          BY <3>1, <4>1
        <5> QED
          BY <5>1
      <4>2. CASE f # e
        <5>1. ledger'[f] = ledger[f] /\ Len(ledger[f]) <= 1
          BY <2>1, <4>2 DEF KeyOwned
        <5> QED
          BY <5>1, Zenon
      <4> QED
        BY <4>1, <4>2
    <3>2. CASE ledger'[e] = ledger[e]
      <4>1. \A f \in Events : ledger'[f] = ledger[f]
        BY <2>1, <3>2
      <4> QED
        BY <4>1 DEF KeyOwned
    <3> QED
      BY <2>1, <3>1, <3>2
  <2>3. \A f \in Events :
           status'[f] = "purged" <=> f # e /\ status[f] = "purged"
    BY <1>0, <2>1 DEF TypeOK
  <2>4. \A f \in Events : status'[f] = "purged" <=> status[f] = "purged"
    BY <2>1, <2>3
  <2> QED
    BY <2>1, <2>2, <2>3, <2>4 DEF KeyOwned
<1>4. ASSUME NEW p \in Procs, RecordsFailure(p) PROVE KeyOwned'
  <2>0. PICK e : e = evt[p]
    OBVIOUS
  <2>1. /\ e \in Events /\ Present(e) /\ UNCHANGED <<content, ledger>>
        /\ \/ status' = [status EXCEPT ![e] = "pending"]
           \/ status' = [status EXCEPT ![e] = "dead_lettered"]
    BY <1>4, <2>0, FailureEffect
  <2>2. \A f \in Events : status'[f] = "purged" <=> status[f] = "purged"
    BY <1>0, <2>1 DEF TypeOK, Present
  <2> QED
    BY <2>1, <2>2 DEF KeyOwned
<1>5. ASSUME NEW old \in SUBSET Events, PurgeHistory(old) PROVE KeyOwned'
  <2>1. /\ UNCHANGED <<content, ledger>>
        /\ \A e \in Events :
              status'[e] = status[e] \/ (ledger[e] = <<>> /\ status'[e] = "purged")
    BY <1>5 DEF PurgeHistory, Effectless, bookVars
  <2> QED
    BY <2>1 DEF KeyOwned
<1> QED
  BY <1>1, <1>2, <1>3, <1>4, <1>5, RowCases, Zenon

\* Only a commit makes an event succeeded, and it leaves an effect behind unless
\* the account is past it; accounts do not go back.
LEMMA NoEffectLostStep == IInv /\ NoEffectLost /\ Next => NoEffectLost'
<1> SUFFICES ASSUME IInv, NoEffectLost, Next PROVE NoEffectLost'
  OBVIOUS
<1>0. TypeOK /\ Stored
  BY DEF IInv
<1>1. ASSUME UNCHANGED rows PROVE NoEffectLost'
  BY <1>1 DEF rows, NoEffectLost
<1>2. ASSUME NEW e \in Events, NEW c \in Contents, Ingest(e, c) PROVE NoEffectLost'
  BY <1>0, <1>2 DEF TypeOK, Ingest, bookVars, NoEffectLost
<1>3. ASSUME NEW p \in Procs, Commits(p) PROVE NoEffectLost'
  <2>0. PICK e : e = evt[p]
    OBVIOUS
  <2> SUFFICES ASSUME NEW f \in Events, status'[f] = "succeeded", ledger'[f] = <<>>
               PROVE  /\ content'[f].event_type = SNAPSHOT
                      /\ content'[f].provider_sequence # NULL
                      /\ content'[f].provider_sequence <= version'[content'[f].entity_id]
    BY DEF NoEffectLost
  <2>1. /\ e \in Events /\ content' = content
        /\ status' = [status EXCEPT ![e] = "succeeded"]
        /\ \A g \in Events \ {e} : ledger'[g] = ledger[g]
        /\ \A a \in Accounts : version'[a] >= version[a]
    BY <1>3, <2>0, CommitEffect
  <2>2. content[f] \in Contents
    <3>1. CASE f = e
      BY <1>3, <2>0, <3>1, CommitEffect
    <3>2. CASE f # e
      <4>1. status[f] = "succeeded"
        BY <1>0, <2>1, <3>2 DEF TypeOK
      <4> QED
        BY <1>0, <4>1 DEF TypeOK, Stored
    <3> QED
      BY <3>1, <3>2
  <2>3. content[f] \in Content
    BY <2>2, ContentsAssumption
  <2>4. /\ content[f].entity_id \in Accounts
        /\ content[f].provider_sequence \in Nat \cup {NULL}
    BY <2>3 DEF Content
  <2>5. /\ version[content[f].entity_id] \in Nat
        /\ version'[content[f].entity_id] \in Nat
        /\ version'[content[f].entity_id] >= version[content[f].entity_id]
    <3>1. version' \in [Accounts -> Nat]
      BY <1>3, CommitWritesType DEF Commits
    <3> QED
      BY <1>0, <2>1, <2>4, <3>1 DEF TypeOK
  <2>6. /\ content[f].event_type = SNAPSHOT
        /\ content[f].provider_sequence \in Nat
        /\ content[f].provider_sequence <= version[content[f].entity_id]
    <3>1. CASE f = e
      <4>1. Len(ledger'[e]) # 1
        BY <3>1, EmptySeq
      <4>2. ledger'[e] # ledger[e] \/ ledger[e] = <<>>
        BY <3>1
      <4> QED
        BY <1>3, <2>0, <3>1, <4>1, <4>2, CommitEffect
    <3>2. CASE f # e
      <4>1. status[f] = "succeeded" /\ ledger[f] = <<>>
        BY <1>0, <2>1, <3>2 DEF TypeOK
      <4>2. /\ content[f].event_type = SNAPSHOT
            /\ content[f].provider_sequence # NULL
            /\ content[f].provider_sequence <= version[content[f].entity_id]
        BY <4>1 DEF NoEffectLost
      <4> QED
        BY <2>4, <4>2
    <3> QED
      BY <3>1, <3>2
  <2> QED
    BY <2>1, <2>5, <2>6, NullAssumption
<1>4. ASSUME NEW p \in Procs, RecordsFailure(p) PROVE NoEffectLost'
  <2>0. PICK e : e = evt[p]
    OBVIOUS
  <2>1. /\ e \in Events /\ UNCHANGED <<content, ledger, version>>
        /\ \/ status' = [status EXCEPT ![e] = "pending"]
           \/ status' = [status EXCEPT ![e] = "dead_lettered"]
    BY <1>4, <2>0, FailureEffect
  <2> QED
    BY <1>0, <2>1 DEF TypeOK, NoEffectLost
<1>5. ASSUME NEW old \in SUBSET Events, PurgeHistory(old) PROVE NoEffectLost'
  <2>1. /\ UNCHANGED <<content, ledger, version>>
        /\ \A e \in Events : status'[e] \in {status[e], "purged"}
    BY <1>5 DEF PurgeHistory, bookVars
  <2> QED
    BY <2>1 DEF NoEffectLost
<1> QED
  BY <1>1, <1>2, <1>3, <1>4, <1>5, RowCases, Zenon

\* A dead letter gets its entry in the transaction that makes it one, and
\* retention takes the entry away only with its event.
LEMMA DeadLetteredIsListedStep ==
    IInv /\ DeadLetteredIsListed /\ Next => DeadLetteredIsListed'
<1> SUFFICES ASSUME IInv, DeadLetteredIsListed, Next PROVE DeadLetteredIsListed'
  OBVIOUS
<1>0. TypeOK
  BY DEF IInv
<1>1. ASSUME UNCHANGED rows PROVE DeadLetteredIsListed'
  BY <1>1 DEF rows, DeadLetteredIsListed
<1>2. ASSUME NEW e \in Events, NEW c \in Contents, Ingest(e, c)
      PROVE  DeadLetteredIsListed'
  BY <1>0, <1>2 DEF TypeOK, Ingest, DeadLetteredIsListed
<1>3. ASSUME NEW p \in Procs, Commits(p) PROVE DeadLetteredIsListed'
  BY <1>0, <1>3 DEF TypeOK, Commits, CommitWrites, DeadLetteredIsListed
<1>4. ASSUME NEW p \in Procs, RecordsFailure(p) PROVE DeadLetteredIsListed'
  <2>0. PICK e : e = evt[p]
    OBVIOUS
  <2>1. /\ e \in Events
        /\ \/ status' = [status EXCEPT ![e] = "pending"] /\ dlq' = dlq
           \/ /\ status' = [status EXCEPT ![e] = "dead_lettered"]
              /\ dlq' = [dlq EXCEPT ![e] = DlqAfter(e)]
    BY <1>4, <2>0, FailureEffect
  <2>2. DlqAfter(e) # NULL
    BY NullAssumption DEF DlqAfter, DlqStatus
  <2> QED
    BY <1>0, <2>1, <2>2 DEF TypeOK, DeadLetteredIsListed
<1>5. ASSUME NEW old \in SUBSET Events, PurgeHistory(old) PROVE DeadLetteredIsListed'
  BY <1>0, <1>5 DEF TypeOK, PurgeHistory, DeadLetteredIsListed
<1> QED
  BY <1>1, <1>2, <1>3, <1>4, <1>5, RowCases, Zenon

\* A row enters the queue with its whole budget and comes back to it with at
\* least one attempt left.
LEMMA PendingHasBudgetStep ==
    IInv /\ PendingHasBudget /\ Charged /\ Next => PendingHasBudget'
<1> SUFFICES ASSUME IInv, PendingHasBudget, Charged, Next PROVE PendingHasBudget'
  OBVIOUS
<1>0. TypeOK
  BY DEF IInv
<1>1. ASSUME UNCHANGED rows PROVE PendingHasBudget'
  BY <1>1 DEF rows, PendingHasBudget
<1>2. ASSUME NEW e \in Events, NEW c \in Contents, Ingest(e, c)
      PROVE  PendingHasBudget'
  BY <1>0, <1>2, BoundsAssumption DEF TypeOK, Ingest, PendingHasBudget, Charged
<1>3. ASSUME NEW p \in Procs, Commits(p) PROVE PendingHasBudget'
  <2>0. PICK e : e = evt[p]
    OBVIOUS
  <2>1. /\ status' = [status EXCEPT ![e] = "succeeded"]
        /\ attempt_count' = [attempt_count EXCEPT ![e] = txn[p].used]
    BY <1>3, <2>0, CommitEffect
  <2> QED
    BY <1>0, <2>1 DEF TypeOK, PendingHasBudget
<1>4. ASSUME NEW p \in Procs, RecordsFailure(p) PROVE PendingHasBudget'
  <2>0. PICK e : e = evt[p]
    OBVIOUS
  <2>1. /\ e \in Events
        /\ attempt_count' = [attempt_count EXCEPT ![e] = attempt_count[e] + 1]
        /\ \/ /\ status' = [status EXCEPT ![e] = "pending"]
              /\ attempt_count[e] + 1 < MaxAttempts
           \/ status' = [status EXCEPT ![e] = "dead_lettered"]
    BY <1>4, <2>0, FailureEffect
  <2> QED
    BY <1>0, <2>1 DEF TypeOK, PendingHasBudget
<1>5. ASSUME NEW old \in SUBSET Events, PurgeHistory(old) PROVE PendingHasBudget'
  BY <1>0, <1>5 DEF TypeOK, PurgeHistory, PendingHasBudget
<1> QED
  BY <1>1, <1>2, <1>3, <1>4, <1>5, RowCases, Zenon

-----------------------------------------------------------------------------
(* The parts about what an open transaction has read.                       *)

\* A transaction that goes on, with what it read of its row still true.
Undisturbed(q) ==
    /\ InTransaction(q) /\ evt[q] \in Events /\ evt'[q] = evt[q]
    /\ txn'[q].used = txn[q].used /\ txn'[q].number = txn[q].number
    /\ attempt_count'[evt[q]] = attempt_count[evt[q]]
    /\ attempts'[evt[q]] = attempts[evt[q]]

\* Whoever is in a transaction after a step has just claimed its row, or is
\* undisturbed: the rows that commits, failures and retention write are not the
\* ones another transaction owns.
LEMMA TransactionFrame ==
    ASSUME IInv, Next, NEW q \in Procs, InTransaction(q)'
    PROVE  (\E e \in Events : Claim(q, e)) \/ Undisturbed(q)
<1> USE DEF rowVars, bookVars, procVars, InTransaction
<1>0. TypeOK /\ Stored /\ RowOwned
  BY DEF IInv
<1>a. pc[q] \in {"claimed", "locked", "applied"} => evt[q] \in Events
  BY <1>0 DEF Stored
<1>1. ASSUME NEW e \in Events, NEW c \in Contents, Ingest(e, c) PROVE Undisturbed(q)
  BY <1>a, <1>1 DEF Undisturbed, Ingest
<1>2. ASSUME NEW e \in Events, BackoffElapsed(e) PROVE Undisturbed(q)
  BY <1>a, <1>2 DEF Undisturbed, BackoffElapsed
<1>3. ASSUME NEW p \in Procs, NEW ids \in SUBSET Events, Poll(p, ids)
      PROVE  Undisturbed(q)
  BY <1>a, <1>3 DEF Undisturbed, Poll
<1>4. ASSUME NEW p \in Procs, NEW e \in Events, Claim(p, e)
      PROVE  Claim(q, e) \/ Undisturbed(q)
  <2>1. CASE p = q
    BY <1>4, <2>1
  <2>2. CASE p # q
    BY <1>0, <1>a, <1>4, <2>2 DEF TypeOK, Undisturbed, Claim
  <2> QED
    BY <2>1, <2>2
<1>5. ASSUME NEW p \in Procs, NEW e \in Events, ClaimMiss(p, e)
      PROVE  Undisturbed(q)
  BY <1>a, <1>5 DEF Undisturbed, ClaimMiss
<1>6. ASSUME NEW p \in Procs, NEW e \in Events, NEW x \in Exceptions,
             ClaimFails(p, e, x)
      PROVE  Undisturbed(q)
  BY <1>0, <1>a, <1>6 DEF TypeOK, Undisturbed, ClaimFails, Abort
<1>7. ASSUME NEW p \in Procs, LockEntity(p) PROVE Undisturbed(q)
  BY <1>0, <1>a, <1>7 DEF TypeOK, Undisturbed, LockEntity
<1>8. ASSUME NEW p \in Procs, Aborts(p) PROVE Undisturbed(q)
  BY <1>0, <1>a, <1>8 DEF TypeOK, Undisturbed, Aborts, Abort
<1>9. ASSUME NEW p \in Procs, ApplyEffect(p) PROVE Undisturbed(q)
  <2>1. PICK r, a : /\ pc[p] = "locked" /\ pc' = [pc EXCEPT ![p] = "applied"]
                    /\ txn' = [txn EXCEPT ![p] = [number |-> txn[p].number,
                                                  used |-> txn[p].used,
                                                  result |-> r, amount |-> a]]
                    /\ UNCHANGED <<attempt_count, attempts, evt>>
    BY <1>9 DEF ApplyEffect
  <2> QED
    BY <1>0, <1>a, <2>1 DEF TypeOK, Undisturbed
<1>10. ASSUME NEW p \in Procs, Commits(p), ~InTransaction(p)', NEW x,
              evt' = evt \/ evt' = [evt EXCEPT ![p] = NULL],
              txn' = [txn EXCEPT ![p] = NoTxn], pc' = [pc EXCEPT ![p] = x]
       PROVE  Undisturbed(q)
  <2>1. p # q /\ pc[q] \in {"claimed", "locked", "applied"} /\ evt'[q] = evt[q]
    BY <1>0, <1>10 DEF TypeOK
  <2>2. evt[q] # evt[p]
    BY <1>0, <1>10, <2>1 DEF RowOwned, Commits
  <2>3. txn'[q] = txn[q]
    BY <1>0, <1>10, <2>1 DEF TypeOK
  <2>4. /\ attempt_count'[evt[q]] = attempt_count[evt[q]]
        /\ attempts'[evt[q]] = attempts[evt[q]]
    BY <1>0, <1>a, <1>10, <2>1, <2>2 DEF TypeOK, Commits, CommitWrites
  <2> QED
    BY <1>a, <2>1, <2>3, <2>4 DEF Undisturbed
<1>11. ASSUME NEW p \in Procs, Commit(p) PROVE Undisturbed(q)
  <2>1. /\ Commits(p) /\ txn' = [txn EXCEPT ![p] = NoTxn]
        /\ pc' = [pc EXCEPT ![p] = "idle"] /\ evt' = [evt EXCEPT ![p] = NULL]
    BY <1>11 DEF Commit, Commits, Return
  <2>2. ~InTransaction(p)'
    BY <1>0, <2>1 DEF TypeOK
  <2> QED
    BY <1>10, <2>1, <2>2
<1>12. ASSUME NEW p \in Procs, NEW x \in Exceptions, CommitAckLost(p, x)
       PROVE  Undisturbed(q)
  <2>1. /\ Commits(p) /\ txn' = [txn EXCEPT ![p] = NoTxn]
        /\ pc' = [pc EXCEPT ![p] = "failed"] /\ evt' = evt
    BY <1>12 DEF CommitAckLost, Commits, Abort
  <2>2. ~InTransaction(p)'
    BY <1>0, <2>1 DEF TypeOK
  <2> QED
    BY <1>10, <2>1, <2>2
<1>13. ASSUME NEW p \in Procs, RecordsFailure(p) PROVE Undisturbed(q)
  <2>0. PICK e : e = evt[p]
    OBVIOUS
  <2>1. /\ e \in Events /\ RowFree(e) /\ pc[p] = "failed" /\ Return(p)
        /\ attempt_count' = [attempt_count EXCEPT ![e] = attempt_count[e] + 1]
        /\ \A f \in Events \ {e} : attempts'[f] = attempts[f]
    BY <1>13, <2>0, FailureEffect
  <2>2. /\ p # q /\ pc[q] \in {"claimed", "locked", "applied"} /\ evt'[q] = evt[q]
        /\ txn'[q] = txn[q]
    BY <1>0, <2>1 DEF TypeOK, Return
  <2>3. evt[q] # e
    BY <2>1, <2>2 DEF RowFree, HoldsRow
  <2>4. /\ attempt_count'[evt[q]] = attempt_count[evt[q]]
        /\ attempts'[evt[q]] = attempts[evt[q]]
    BY <1>0, <1>a, <2>1, <2>2, <2>3 DEF TypeOK
  <2> QED
    BY <1>a, <2>2, <2>4 DEF Undisturbed
<1>14. ASSUME NEW p \in Procs, GivesUp(p) PROVE Undisturbed(q)
  BY <1>0, <1>a, <1>14 DEF TypeOK, Undisturbed, GivesUp, Return
<1>15. ASSUME NEW old \in SUBSET Events, PurgeHistory(old) PROVE Undisturbed(q)
  <2>1. UNCHANGED <<procVars, attempt_count>>
    BY <1>15 DEF PurgeHistory
  <2>2. evt[q] \in Events /\ evt[q] \notin old
    BY <1>0, <1>a, <1>15, <2>1 DEF PurgeHistory, RowOwned
  <2>3. attempts'[evt[q]] = attempts[evt[q]]
    BY <1>15, <2>2 DEF PurgeHistory
  <2> QED
    BY <1>a, <2>1, <2>3 DEF Undisturbed
<1> QED
  BY <1>1, <1>2, <1>3, <1>4, <1>5, <1>6, <1>7, <1>8, <1>9, <1>11, <1>12,
     <1>13, <1>14, <1>15, NextCases, Zenon DEF RecordsFailure

\* What an attempt will charge is still one more than what was charged.
LEMMA ChargedStep == IInv /\ Charged /\ Next => Charged'
<1> SUFFICES ASSUME IInv, Charged, Next PROVE Charged'
  OBVIOUS
<1>0. TypeOK
  BY DEF IInv
<1>1. ASSUME NEW q \in Procs, InTransaction(q)'
      PROVE  txn'[q].used = attempt_count'[evt'[q]] + 1
  <2>1. ASSUME NEW e \in Events, Claim(q, e)
        PROVE  txn'[q].used = attempt_count'[evt'[q]] + 1
    <3>1. /\ evt'[q] = e /\ attempt_count' = attempt_count
          /\ txn'[q].used = attempt_count[e] + 1
      BY <1>0, <2>1 DEF TypeOK, Claim, rowVars
    <3> QED
      BY <3>1
  <2>2. CASE Undisturbed(q)
    BY <2>2 DEF Undisturbed, Charged
  <2> QED
    BY <1>1, <2>1, <2>2, TransactionFrame
<1>2. ASSUME NEW e \in Events, status'[e] = "unused"
      PROVE  attempt_count'[e] = 0
  <2>1. CASE UNCHANGED rows
    BY <1>2, <2>1 DEF rows, Charged
  <2>2. ASSUME NEW f \in Events, NEW c \in Contents, Ingest(f, c)
        PROVE  attempt_count'[e] = 0
    BY <1>0, <1>2, <2>2 DEF TypeOK, Ingest, Charged
  <2>3. ASSUME NEW p \in Procs, Commits(p) PROVE attempt_count'[e] = 0
    BY <1>0, <1>2, <2>3 DEF TypeOK, Commits, CommitWrites, Charged
  <2>4. ASSUME NEW p \in Procs, RecordsFailure(p) PROVE attempt_count'[e] = 0
    <3>0. PICK f : f = evt[p]
      OBVIOUS
    <3>1. /\ f \in Events
          /\ attempt_count' = [attempt_count EXCEPT ![f] = attempt_count[f] + 1]
          /\ \/ status' = [status EXCEPT ![f] = "pending"]
             \/ status' = [status EXCEPT ![f] = "dead_lettered"]
      BY <2>4, <3>0, FailureEffect
    <3> QED
      BY <1>0, <1>2, <3>1 DEF TypeOK, Charged
  <2>5. ASSUME NEW old \in SUBSET Events, PurgeHistory(old) PROVE attempt_count'[e] = 0
    BY <1>0, <1>2, <2>5 DEF TypeOK, PurgeHistory, Charged
  <2> QED
    BY <2>1, <2>2, <2>3, <2>4, <2>5, RowCases, Zenon
<1> QED
  BY <1>1, <1>2 DEF Charged

-----------------------------------------------------------------------------
(* The attempt log.                                                         *)

\* A log that rises still does with an entry above all the others.
LEMMA AppendRises ==
    ASSUME NEW S, NEW s \in Seq(S), NEW r, NEW n \in Nat,
           r.number = n, Rises(s), Below(s, n)
    PROVE  Rises(Append(s, r))
<1> DEFINE t == Append(s, r)
<1>1. s \in Seq(S \cup {r}) /\ Len(s) \in Nat
  BY SeqMonotonic, LenProperties, Zenon
<1>2. /\ DOMAIN t = 1 .. Len(s) + 1 /\ DOMAIN s = 1 .. Len(s)
      /\ \A i \in 1 .. Len(s) : t[i] = s[i]
      /\ t[Len(s) + 1] = r
  BY <1>1, AppendProperties, LenProperties
<1> HIDE DEF t
<1> SUFFICES ASSUME NEW i \in DOMAIN t, NEW j \in DOMAIN t, i < j
             PROVE  t[i].number < t[j].number
  BY DEF Rises, t
<1>3. i \in 1 .. Len(s) /\ t[i] = s[i]
  BY <1>1, <1>2
<1>4. CASE j = Len(s) + 1
  <2>1. s[i].number < n
    BY <1>2, <1>3 DEF Below
  <2>2. t[j].number = n
    BY <1>2, <1>4
  <2> QED
    BY <1>3, <2>1, <2>2
<1>5. CASE j # Len(s) + 1
  <2>1. j \in 1 .. Len(s) /\ t[j] = s[j]
    BY <1>1, <1>2, <1>5
  <2>2. s[i].number < s[j].number
    BY <1>2, <1>3, <2>1 DEF Rises
  <2> QED
    BY <1>3, <2>1, <2>2
<1> QED
  BY <1>4, <1>5

\* A claim takes a number above every recorded one, and keeps it so.
LEMMA NumberedStep == IInv /\ Numbered /\ Next => Numbered'
<1> SUFFICES ASSUME IInv, Numbered, Next, NEW q \in Procs, InTransaction(q)',
                    NEW i \in DOMAIN attempts'[evt'[q]]
             PROVE  attempts'[evt'[q]][i].number < txn'[q].number
  BY DEF Numbered
<1>0. TypeOK
  BY DEF IInv
<1>1. ASSUME NEW e \in Events, Claim(q, e)
      PROVE  attempts'[evt'[q]][i].number < txn'[q].number
  <2>1. evt'[q] = e /\ attempts' = attempts
    BY <1>0, <1>1 DEF TypeOK, Claim, rowVars
  <2>2. PICK h \in RecordedNumbers(e) : Highest(e, h) /\ txn'[q].number = h + 1
    BY <1>0, <1>1 DEF TypeOK, Claim
  <2>3. attempts[e][i].number \in RecordedNumbers(e)
    BY <2>1 DEF RecordedNumbers
  <2>4. RecordedNumbers(e) \subseteq Nat
    BY <1>0, RecordedNumbersNat
  <2>5. attempts[e][i].number < h + 1
    BY <2>2, <2>3, <2>4 DEF Highest
  <2> QED
    BY <2>1, <2>2, <2>5
<1>2. CASE Undisturbed(q)
  <2>1. /\ InTransaction(q) /\ evt'[q] = evt[q] /\ txn'[q].number = txn[q].number
        /\ attempts'[evt[q]] = attempts[evt[q]]
    BY <1>2 DEF Undisturbed
  <2>2. attempts[evt[q]][i].number < txn[q].number
    BY <2>1 DEF Numbered
  <2> QED
    BY <2>1, <2>2
<1> QED
  BY <1>1, <1>2, TransactionFrame

\* A log grows by one entry with a higher number, or is deleted.
LEMMA AttemptNumbersIncreaseStep ==
    IInv /\ Numbered /\ AttemptNumbersIncrease /\ Next => AttemptNumbersIncrease'
<1> SUFFICES ASSUME IInv, Numbered, AttemptNumbersIncrease, Next,
                    NEW e \in Events
             PROVE  Rises(attempts'[e])
  BY DEF AttemptNumbersIncrease, Rises
<1>0. TypeOK /\ Rises(attempts[e])
  BY DEF IInv, AttemptNumbersIncrease, Rises
<1>1. attempts[e] \in Seq([number : Nat, outcome : AttemptOutcome])
  BY <1>0 DEF TypeOK
<1>2. CASE attempts'[e] = attempts[e]
  BY <1>0, <1>2
<1>3. CASE UNCHANGED rows
  BY <1>0, <1>3 DEF rows
<1>4. ASSUME NEW f \in Events, NEW c \in Contents, Ingest(f, c)
      PROVE  Rises(attempts'[e])
  BY <1>0, <1>4 DEF Ingest
<1>5. ASSUME NEW p \in Procs, Commits(p) PROVE Rises(attempts'[e])
  <2>0. PICK f : f = evt[p]
    OBVIOUS
  <2>1. /\ f \in Events
        /\ attempts' = [attempts EXCEPT ![f] = Append(attempts[f],
                          [number |-> txn[p].number,
                           outcome |-> SuccessOutcome(txn[p].result)])]
    BY <1>5, <2>0, CommitEffect
  <2>2. CASE e = f
    <3>1. Below(attempts[e], txn[p].number)
      BY <1>5, <2>0, <2>2 DEF Commits, Numbered, InTransaction, Below
    <3>2. txn[p].number \in Nat
      BY <1>0 DEF TypeOK
    <3>3. attempts'[e] = Append(attempts[e], [number |-> txn[p].number,
                           outcome |-> SuccessOutcome(txn[p].result)])
      BY <1>0, <2>1, <2>2 DEF TypeOK
    <3>4. [number |-> txn[p].number,
           outcome |-> SuccessOutcome(txn[p].result)].number = txn[p].number
      OBVIOUS
    <3> QED
      BY <1>0, <1>1, <3>1, <3>2, <3>3, <3>4, AppendRises
  <2>3. CASE e # f
    BY <1>0, <1>2, <2>1, <2>3 DEF TypeOK
  <2> QED
    BY <2>2, <2>3
<1>6. ASSUME NEW p \in Procs, RecordsFailure(p) PROVE Rises(attempts'[e])
  <2>0. PICK f : f = evt[p]
    OBVIOUS
  <2>1. PICK n \in Nat :
           /\ Below(attempts[f], n)
           /\ attempts'[f] = Append(attempts[f],
                             [number |-> n, outcome |-> ErrorOutcome(exc[p])])
    BY <1>6, <2>0, FailureEffect
  <2>2. CASE e = f
    <3>1. [number |-> n, outcome |-> ErrorOutcome(exc[p])].number = n
      OBVIOUS
    <3> QED
      BY <1>0, <1>1, <2>1, <2>2, <3>1, AppendRises
  <2>3. CASE e # f
    BY <1>2, <1>6, <2>0, <2>3, FailureEffect
  <2> QED
    BY <2>2, <2>3
<1>7. ASSUME NEW old \in SUBSET Events, PurgeHistory(old) PROVE Rises(attempts'[e])
  <2>1. attempts'[e] = attempts[e] \/ attempts'[e] = <<>>
    BY <1>7 DEF PurgeHistory
  <2>2. Rises(<<>>)
    BY DEF Rises
  <2> QED
    BY <1>0, <2>1, <2>2
<1> QED
  BY <1>3, <1>4, <1>5, <1>6, <1>7, RowCases, Zenon

\* Whatever makes an event succeeded without an effect logs that it was
\* superseded, and retention does not take that log and leave the event.
LEMMA ExplainedStep == IInv /\ Explained /\ Next => Explained'
<1> SUFFICES ASSUME IInv, Explained, Next PROVE Explained'
  OBVIOUS
<1>0. TypeOK
  BY DEF IInv
<1>1. ASSUME UNCHANGED rows PROVE Explained'
  BY <1>1 DEF rows, Explained
<1>2. ASSUME NEW e \in Events, NEW c \in Contents, Ingest(e, c) PROVE Explained'
  BY <1>0, <1>2 DEF TypeOK, Ingest, bookVars, Explained
<1>3. ASSUME NEW p \in Procs, Commits(p) PROVE Explained'
  <2>0. PICK e : e = evt[p]
    OBVIOUS
  <2> SUFFICES ASSUME NEW f \in Events, status'[f] = "succeeded", ledger'[f] = <<>>
               PROVE  /\ attempts'[f] # <<>>
                      /\ attempts'[f][Len(attempts'[f])].outcome = "superseded"
    BY DEF Explained
  <2>1. /\ e \in Events
        /\ status' = [status EXCEPT ![e] = "succeeded"]
        /\ attempts' = [attempts EXCEPT ![e] = Append(attempts[e],
                          [number |-> txn[p].number,
                           outcome |-> SuccessOutcome(txn[p].result)])]
        /\ \A g \in Events \ {e} : ledger'[g] = ledger[g]
    BY <1>3, <2>0, CommitEffect
  <2>2. CASE f = e
    <3>1. Len(ledger'[e]) # 1
      BY <2>2, EmptySeq
    <3>2. ledger'[e] # ledger[e] \/ ledger[e] = <<>>
      BY <2>2
    <3>3. txn[p].result = "superseded"
      BY <1>3, <2>0, <3>1, <3>2, CommitEffect
    <3>4. attempts[e] \in Seq([number : Nat, outcome : AttemptOutcome])
      BY <1>0, <2>1 DEF TypeOK
    <3>5. attempts'[e] = Append(attempts[e], [number |-> txn[p].number,
                                              outcome |-> "superseded"])
      BY <1>0, <2>1, <3>3 DEF TypeOK, SuccessOutcome
    <3>6. [number |-> txn[p].number, outcome |-> "superseded"]
             \in [number : Nat, outcome : AttemptOutcome]
      BY <1>0 DEF TypeOK, AttemptOutcome
    <3>7. /\ Len(attempts'[e]) = Len(attempts[e]) + 1
          /\ attempts'[e][Len(attempts[e]) + 1].outcome = "superseded"
          /\ attempts'[e] # <<>>
      BY <3>4, <3>5, <3>6, AppendProperties
    <3> QED
      BY <2>2, <3>7
  <2>3. CASE f # e
    <3>1. /\ status[f] = "succeeded" /\ ledger[f] = <<>>
          /\ attempts'[f] = attempts[f]
      BY <1>0, <2>1, <2>3 DEF TypeOK
    <3> QED
      BY <3>1 DEF Explained
  <2> QED
    BY <2>2, <2>3
<1>4. ASSUME NEW p \in Procs, RecordsFailure(p) PROVE Explained'
  <2>0. PICK e : e = evt[p]
    OBVIOUS
  <2>1. /\ e \in Events /\ ledger' = ledger
        /\ \/ status' = [status EXCEPT ![e] = "pending"]
           \/ status' = [status EXCEPT ![e] = "dead_lettered"]
    BY <1>4, <2>0, FailureEffect
  <2>2. \A f \in Events : status'[f] = "succeeded" => f # e /\ status[f] = "succeeded"
    BY <1>0, <2>1 DEF TypeOK
  <2>3. \A f \in Events \ {e} : attempts'[f] = attempts[f]
    BY <1>4, <2>0, FailureEffect
  <2> QED
    BY <2>1, <2>2, <2>3 DEF Explained
<1>5. ASSUME NEW old \in SUBSET Events, PurgeHistory(old) PROVE Explained'
  <2>1. /\ ledger' = ledger
        /\ \A e \in Events : status'[e] = "succeeded" /\ ledger[e] = <<>> =>
              status[e] = "succeeded" /\ attempts'[e] = attempts[e]
    BY <1>0, <1>5 DEF TypeOK, PurgeHistory, Effectless, bookVars
  <2> QED
    BY <2>1 DEF Explained
<1> QED
  BY <1>1, <1>2, <1>3, <1>4, <1>5, RowCases, Zenon

-----------------------------------------------------------------------------
(* The overshoot.                                                           *)

\* What a step does to the events a process is engaged in: it goes on, or ends;
\* it takes up an event of its batch; or it polls events that are due.
Goes(q) ==
    /\ batch'[q] \subseteq batch[q]
    /\ Charging(q)' => Charging(q) /\ evt'[q] = evt[q]
TakesUp(q, e) == e \in batch[q] /\ evt'[q] = e /\ batch'[q] = batch[q] \ {e}
Polls(q) == ~Charging(q)' /\ \A e \in batch'[q] : status[e] = "pending"

\* Nothing else engages a process.
LEMMA EngagementCases ==
    ASSUME IInv, Next, NEW q \in Procs
    PROVE  Goes(q) \/ (\E e \in Events : TakesUp(q, e)) \/ Polls(q)
<1> USE DEF rowVars, bookVars, procVars, Charging
<1>0. TypeOK
  BY DEF IInv
<1>1. CASE UNCHANGED procVars
  BY <1>1 DEF Goes
<1>2. ASSUME NEW e \in Events, NEW c \in Contents, Ingest(e, c) PROVE Goes(q)
  BY <1>1, <1>2 DEF Ingest, Goes
<1>3. ASSUME NEW e \in Events, BackoffElapsed(e) PROVE Goes(q)
  BY <1>3 DEF BackoffElapsed, Goes
<1>4. ASSUME NEW p \in Procs, NEW ids \in SUBSET Events, Poll(p, ids)
      PROVE  Goes(q) \/ Polls(q)
  BY <1>0, <1>4 DEF TypeOK, Poll, Due, Goes, Polls
<1>5. ASSUME NEW p \in Procs, NEW e \in Events, Claim(p, e)
      PROVE  Goes(q) \/ TakesUp(q, e)
  <2>1. /\ e \in batch[p] /\ evt' = [evt EXCEPT ![p] = e]
        /\ pc' = [pc EXCEPT ![p] = "claimed"]
        /\ batch' = [batch EXCEPT ![p] = batch[p] \ {e}]
    BY <1>5 DEF Claim
  <2> QED
    BY <1>0, <2>1 DEF TypeOK, Goes, TakesUp
<1>6. ASSUME NEW p \in Procs, NEW e \in Events, ClaimMiss(p, e) PROVE Goes(q)
  BY <1>0, <1>6 DEF TypeOK, ClaimMiss, Goes
<1>7. ASSUME NEW p \in Procs, NEW e \in Events, NEW x \in Exceptions,
             ClaimFails(p, e, x)
      PROVE  Goes(q) \/ TakesUp(q, e)
  <2>1. /\ e \in batch[p] /\ evt' = [evt EXCEPT ![p] = e]
        /\ pc' = [pc EXCEPT ![p] = "failed"]
        /\ batch' = [batch EXCEPT ![p] = batch[p] \ {e}]
    BY <1>7 DEF ClaimFails, Abort
  <2> QED
    BY <1>0, <2>1 DEF TypeOK, Goes, TakesUp
<1>8. ASSUME NEW p \in Procs, LockEntity(p) PROVE Goes(q)
  BY <1>0, <1>8 DEF TypeOK, LockEntity, Goes
<1>9. ASSUME NEW p \in Procs, Aborts(p) PROVE Goes(q)
  BY <1>0, <1>9 DEF TypeOK, Aborts, Abort, InTransaction, Goes
<1>10. ASSUME NEW p \in Procs, ApplyEffect(p) PROVE Goes(q)
  <2>1. /\ pc[p] = "locked" /\ pc' = [pc EXCEPT ![p] = "applied"]
        /\ UNCHANGED <<batch, evt>>
    BY <1>10 DEF ApplyEffect
  <2> QED
    BY <1>0, <2>1 DEF TypeOK, Goes
<1>11. ASSUME NEW p \in Procs, Return(p), batch'[q] \subseteq batch[q] PROVE Goes(q)
  BY <1>0, <1>11 DEF TypeOK, Return, Goes
<1>12. ASSUME NEW p \in Procs, Commit(p) \/ Reschedule(p) \/ DeadLetter(p)
       PROVE  Goes(q)
  <2>1. Return(p) /\ batch' = batch
    BY <1>12 DEF Commit, Reschedule, DeadLetter
  <2> QED
    BY <1>11, <2>1
<1>13. ASSUME NEW p \in Procs, NEW x \in Exceptions, CommitAckLost(p, x)
       PROVE  Goes(q)
  <2>1. pc[p] = "applied" /\ Abort(p, x) /\ UNCHANGED <<batch, evt>>
    BY <1>13 DEF CommitAckLost
  <2> QED
    BY <1>0, <2>1 DEF TypeOK, Abort, Goes
<1>14. ASSUME NEW p \in Procs, GivesUp(p) PROVE Goes(q)
  <2>1. Return(p) /\ batch'[q] \subseteq batch[q]
    BY <1>0, <1>14 DEF TypeOK, GivesUp
  <2> QED
    BY <1>11, <2>1
<1>15. ASSUME NEW old \in SUBSET Events, PurgeHistory(old) PROVE Goes(q)
  BY <1>15 DEF PurgeHistory, Goes
<1> QED
  BY <1>2, <1>3, <1>4, <1>5, <1>6, <1>7, <1>8, <1>9, <1>10, <1>12, <1>13,
     <1>14, <1>15, NextCases, Zenon

\* Nobody takes up an event again that it is still charging, and nobody new
\* takes up an event that has no budget.
LEMMA EngagedShrinks ==
    ASSUME IInv, PendingHasBudget, NEW q \in Procs,
           Goes(q) \/ (\E f \in Events : TakesUp(q, f)) \/ Polls(q),
           NEW e \in Events, attempt_count[e] >= MaxAttempts, Engaged(q, e)'
    PROVE  Engaged(q, e)
<1>0. attempt_count[e] \in Nat /\ MaxAttempts \in Nat
  BY BoundsAssumption DEF IInv, TypeOK
<1>1. status[e] # "pending"
  BY <1>0 DEF PendingHasBudget
<1>2. CASE Goes(q)
  BY <1>2 DEF Goes, Engaged
<1>3. ASSUME NEW f \in Events, TakesUp(q, f) PROVE Engaged(q, e)
  BY <1>3 DEF TakesUp, Engaged
<1>4. CASE Polls(q)
  BY <1>1, <1>4 DEF Polls, Engaged
<1> QED
  BY <1>2, <1>3, <1>4

\* A process is charging an event or still has it in its batch, not both.
LEMMA EngagedOnce ==
    ASSUME NEW q \in Procs, Charging(q) => evt[q] \notin batch[q],
           Goes(q) \/ (\E f \in Events : TakesUp(q, f)) \/ Polls(q)
    PROVE  Charging(q)' => evt'[q] \notin batch'[q]
BY DEF Goes, TakesUp, Polls

\* The budget is crossed once, by an attempt of a row that was pending; from
\* then on each attempt takes a process off the event.
LEMMA OvershootStep ==
    IInv /\ PendingHasBudget /\ Charged /\ Overshoot /\ Next => Overshoot'
<1> SUFFICES ASSUME IInv, PendingHasBudget, Charged, Overshoot, Next
             PROVE  Overshoot'
  OBVIOUS
<1>0. TypeOK /\ RowOwned
  BY DEF IInv
<1>1. ASSUME NEW q \in Procs PROVE Charging(q)' => evt'[q] \notin batch'[q]
  BY EngagementCases, EngagedOnce DEF Overshoot
<1>2. ASSUME NEW e \in Events, attempt_count'[e] >= MaxAttempts
      PROVE  attempt_count'[e] + Cardinality({q \in Procs : Engaged(q, e)'})
                <= MaxAttempts + Cardinality(Procs)
  <2> DEFINE E == {q \in Procs : Engaged(q, e)}
             F == {q \in Procs : Engaged(q, e)'}
  <2>0. attempt_count[e] \in Nat /\ MaxAttempts \in Nat
    BY <1>0, BoundsAssumption DEF TypeOK
  <2>1. /\ IsFiniteSet(E) /\ Cardinality(E) \in Nat
        /\ IsFiniteSet(F) /\ Cardinality(F) \in Nat
        /\ Cardinality(Procs) \in Nat
        /\ Cardinality(F) <= Cardinality(Procs)
    <3>1. E \in SUBSET Procs /\ F \in SUBSET Procs
      OBVIOUS
    <3> QED
      BY <3>1, FiniteAssumption, FS_Subset, FS_CardinalityType
  <2> HIDE DEF E, F
  <2>2. ASSUME attempt_count[e] >= MaxAttempts
        PROVE  /\ attempt_count[e] + Cardinality(E) <= MaxAttempts + Cardinality(Procs)
               /\ F \subseteq E
    BY <2>2, EngagementCases, EngagedShrinks DEF Overshoot, E, F
  <2>3. CASE attempt_count'[e] = attempt_count[e]
    <3>1. /\ attempt_count[e] + Cardinality(E) <= MaxAttempts + Cardinality(Procs)
          /\ F \in SUBSET E
      BY <1>2, <2>2, <2>3
    <3>2. Cardinality(F) <= Cardinality(E)
      BY <2>1, <3>1, FS_Subset
    <3> QED
      BY <2>0, <2>1, <2>3, <3>1, <3>2 DEF F
  <2>4. CASE attempt_count'[e] = MaxAttempts
    BY <2>0, <2>1, <2>4 DEF F
  <2>5. ASSUME NEW p \in Procs, Commits(p)
        PROVE  attempt_count'[e] = attempt_count[e] \/ attempt_count'[e] = MaxAttempts
    <3>0. PICK f : f = evt[p]
      OBVIOUS
    <3>1. /\ f \in Events /\ status[f] = "pending"
          /\ attempt_count' = [attempt_count EXCEPT ![f] = txn[p].used]
      BY <2>5, <3>0, CommitEffect
    <3>2. txn[p].used = attempt_count[f] + 1
      BY <2>5, <3>0 DEF Commits, Charged, InTransaction
    <3>3. attempt_count[f] < MaxAttempts
      BY <3>1 DEF PendingHasBudget
    <3>4. CASE e = f
      <4>1. attempt_count'[e] = attempt_count[e] + 1
        BY <1>0, <3>1, <3>2, <3>4 DEF TypeOK
      <4> QED
        BY <1>2, <2>0, <3>3, <3>4, <4>1
    <3>5. CASE e # f
      BY <1>0, <3>1, <3>5 DEF TypeOK
    <3> QED
      BY <3>4, <3>5
  <2>6. ASSUME NEW p \in Procs, RecordsFailure(p), evt[p] = e
        PROVE  attempt_count'[e] + Cardinality(F) <= MaxAttempts + Cardinality(Procs)
    <3>1. /\ pc[p] = "failed" /\ Return(p) /\ batch' = batch
          /\ attempt_count' = [attempt_count EXCEPT ![e] = attempt_count[e] + 1]
      BY <2>6, FailureEffect
    <3>2. attempt_count'[e] = attempt_count[e] + 1
      BY <1>0, <3>1 DEF TypeOK
    <3>3. CASE attempt_count[e] < MaxAttempts
      BY <1>2, <2>0, <2>1, <3>2, <3>3
    <3>4. CASE attempt_count[e] >= MaxAttempts
      <4>1. /\ attempt_count[e] + Cardinality(E) <= MaxAttempts + Cardinality(Procs)
            /\ F \subseteq E
        BY <2>2, <3>4
      <4>2. p \in E
        BY <2>6, <3>1 DEF E, Engaged, Charging
      <4>3. p \notin F
        <5>1. pc'[p] = "idle"
          BY <1>0, <3>1 DEF TypeOK, Return
        <5>2. e \notin batch'[p]
          BY <2>6, <3>1 DEF Overshoot, Charging
        <5> QED
          BY <5>1, <5>2 DEF F, Engaged, Charging
      <4>4. F \in SUBSET (E \ {p})
        BY <4>1, <4>3
      <4>5. /\ IsFiniteSet(E \ {p})
            /\ Cardinality(E \ {p}) = Cardinality(E) - 1
        BY <2>1, <4>2, FS_RemoveElement
      <4>6. Cardinality(F) <= Cardinality(E) - 1
        BY <4>4, <4>5, FS_Subset
      <4> QED
        BY <2>0, <2>1, <3>2, <4>1, <4>6
    <3> QED
      BY <2>0, <3>3, <3>4
  <2>7. ASSUME NEW p \in Procs, RecordsFailure(p), evt[p] # e
        PROVE  attempt_count'[e] = attempt_count[e]
    <3>0. PICK f : f = evt[p]
      OBVIOUS
    <3>1. attempt_count' = [attempt_count EXCEPT ![f] = attempt_count[f] + 1]
      BY <2>7, <3>0, FailureEffect
    <3> QED
      BY <1>0, <2>7, <3>0, <3>1 DEF TypeOK
  <2>8. CASE UNCHANGED rows
    BY <2>3, <2>8 DEF rows
  <2>9. ASSUME NEW f \in Events, NEW c \in Contents, Ingest(f, c)
        PROVE  attempt_count'[e] = attempt_count[e]
    BY <2>9 DEF Ingest
  <2>10. ASSUME NEW old \in SUBSET Events, PurgeHistory(old)
         PROVE  attempt_count'[e] = attempt_count[e]
    BY <2>10 DEF PurgeHistory
  <2>11. \/ attempt_count'[e] = attempt_count[e] \/ attempt_count'[e] = MaxAttempts
         \/ \E p \in Procs : RecordsFailure(p) /\ evt[p] = e
         \/ UNCHANGED rows
    BY <2>5, <2>7, <2>9, <2>10, RowCases, Zenon
  <2> QED
    BY <2>3, <2>4, <2>6, <2>8, <2>11 DEF F
<1> QED
  BY <1>1, <1>2 DEF Overshoot

-----------------------------------------------------------------------------
(* The theorems.                                                            *)

\* Nothing is stored yet.
LEMMA InitHInv == Init => HInv
<1> SUFFICES ASSUME Init PROVE HInv
  OBVIOUS
<1>1. KeyOwned
  <2>1. Len(<<>>) <= 1
    BY EmptySeq
  <2> QED
    BY <2>1 DEF Init, KeyOwned
<1>2. NoEffectLost /\ DeadLetteredIsListed /\ PendingHasBudget /\ Explained
  BY DEF Init, NoEffectLost, DeadLetteredIsListed, PendingHasBudget, Explained
<1>3. Charged /\ Numbered
  BY DEF Init, Charged, Numbered, InTransaction
<1>4. AttemptNumbersIncrease
  BY DEF Init, AttemptNumbersIncrease
<1>5. Overshoot
  <2>1. \A p \in Procs : ~Charging(p)
    BY DEF Init, Charging
  <2>2. \A e \in Events : ~(attempt_count[e] >= MaxAttempts)
    BY BoundsAssumption DEF Init
  <2> QED
    BY <2>1, <2>2 DEF Overshoot
<1> QED
  BY <1>1, <1>2, <1>3, <1>4, <1>5 DEF HInv

\* A step that changes nothing preserves it.
LEMMA StutterHInv == HInv /\ UNCHANGED vars => HInv'
<1> SUFFICES ASSUME HInv, UNCHANGED vars PROVE HInv'
  OBVIOUS
<1> USE DEF vars, rowVars, bookVars, procVars
<1>1. KeyOwned' /\ NoEffectLost' /\ DeadLetteredIsListed' /\ PendingHasBudget'
  BY DEF HInv, KeyOwned, NoEffectLost, DeadLetteredIsListed, PendingHasBudget
<1>2. Charged' /\ Numbered' /\ AttemptNumbersIncrease' /\ Explained'
  BY DEF HInv, Charged, Numbered, AttemptNumbersIncrease, Explained, InTransaction
<1>3. Overshoot'
  BY DEF HInv, Overshoot, Engaged, Charging
<1> QED
  BY <1>1, <1>2, <1>3 DEF HInv

\* Every step of the core preserves it.
LEMMA HInvStep == IInv /\ HInv /\ Next => HInv'
BY KeyOwnedStep, NoEffectLostStep, DeadLetteredIsListedStep, PendingHasBudgetStep,
   ChargedStep, OvershootStep, AttemptNumbersIncreaseStep, NumberedStep,
   ExplainedStep DEF HInv

\* What is true of the rows whatever processes, faults, crashes and retention
\* do (adapters/queue.py, services/process.py, the constraints of migration
\* 0001 and the procedure of 0003).
THEOREM RowInvariance == Spec => []HInv
<1>1. IInv /\ HInv /\ [Next]_vars => HInv'
  BY StutterHInv, HInvStep
<1> QED
  BY <1>1, InitHInv, Invariance, PTL DEF Spec

\* FR-6: one ledger row per event and one effective row per key, through
\* redelivery after retention deleted the first row.
THEOREM EffectOnce == Spec => []EffectAtMostOncePerKey
<1>1. HInv => EffectAtMostOncePerKey
  BY DEF HInv, KeyOwned, EffectAtMostOncePerKey
<1> QED
  BY <1>1, RowInvariance, PTL

\* mark_succeeded never swallows an effect.
THEOREM EffectKept == Spec => []NoEffectLost
<1>1. HInv => NoEffectLost
  BY DEF HInv
<1> QED
  BY <1>1, RowInvariance, PTL

\* FR-13: what the queue serves has an attempt left.
THEOREM BudgetKept == Spec => []PendingHasBudget
<1>1. HInv => PendingHasBudget
  BY DEF HInv
<1> QED
  BY <1>1, RowInvariance, PTL

\* FR-14: a dead letter is on the operators' list.
THEOREM DeadLettersListed == Spec => []DeadLetteredIsListed
<1>1. HInv => DeadLetteredIsListed
  BY DEF HInv
<1> QED
  BY <1>1, RowInvariance, PTL

\* The attempt log of a row reads in order.
THEOREM LogInOrder == Spec => []AttemptNumbersIncrease
<1>1. HInv => AttemptNumbersIncrease
  BY DEF HInv
<1> QED
  BY <1>1, RowInvariance, PTL

\* Processes that fail on one event together overshoot the budget by one attempt
\* each and no more, however many of them there are.
THEOREM OvershootBounded == Spec => []AttemptCountBounded
<1>1. IInv /\ HInv => AttemptCountBounded
  <2> SUFFICES ASSUME IInv, HInv, NEW e \in Events
               PROVE  attempt_count[e] <= MaxAttempts + Cardinality(Procs)
    BY DEF AttemptCountBounded
  <2> DEFINE E == {p \in Procs : Engaged(p, e)}
  <2>1. attempt_count[e] \in Nat /\ MaxAttempts \in Nat
    BY BoundsAssumption DEF IInv, TypeOK
  <2>2. Cardinality(E) \in Nat /\ Cardinality(Procs) \in Nat
    <3>1. E \in SUBSET Procs
      OBVIOUS
    <3> QED
      BY <3>1, FiniteAssumption, FS_Subset, FS_CardinalityType
  <2>3. attempt_count[e] >= MaxAttempts =>
           attempt_count[e] + Cardinality(E) <= MaxAttempts + Cardinality(Procs)
    BY DEF HInv, Overshoot
  <2> HIDE DEF E
  <2> QED
    BY <2>1, <2>2, <2>3
<1> QED
  BY <1>1, Invariance, RowInvariance, PTL
=============================================================================
