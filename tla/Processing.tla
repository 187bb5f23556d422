----------------------------- MODULE Processing -----------------------------
(***************************************************************************)
(* The processing core: the webhook_event table used as a queue, the       *)
(* attempt log, the dead-letter table, the accounts and their ledger, and  *)
(* the processes that run process_event (services/process.py) over them:   *)
(* workers that poll, and any other caller.                                *)
(*                                                                         *)
(* One transaction per event: claim the row, lock the entity, apply the    *)
(* effect, commit.  Any exception rolls it back and _record_failure        *)
(* settles the event's fate in a second, fresh transaction; between the    *)
(* two the row is unlocked, and everything hard about this code lives in   *)
(* that gap.                                                               *)
(*                                                                         *)
(* Row locks and advisory locks are transaction-scoped, so they are not    *)
(* variables: a process holds them exactly while it is inside the          *)
(* transaction that took them.  Writes of an open transaction are invisible*)
(* to the others, so they are kept in txn[p] until the commit.             *)
(*                                                                         *)
(* Time is abstracted to one bit per row: due[e] is next_attempt_at <= now.*)
(***************************************************************************)
EXTENDS Domain, Sequences, FiniteSets

CONSTANTS
    Procs,          \* processes that call process_event
    Workers,        \* those of them that poll the queue
    Events,         \* row ids of webhook_event
    Contents,       \* the contents a delivery may carry
    Accounts,       \* external_ref of accounts (entity ids)
    Keys,           \* 64-bit advisory lock keys
    advisory_lock_key(_, _),
    Faults,         \* exceptions the database or a bug may raise
    MaxAttempts,    \* settings.max_attempts
    BatchSize,      \* settings.poll_batch_size
    MaxMinor        \* largest value of a money column (bigint)

Content == [key : Nat, event_type : STRING, entity_type : STRING,
            entity_id : Accounts, value : Int \cup {NULL},
            provider_sequence : Nat \cup {NULL}]

ASSUME NullAssumption == /\ NULL \notin Int
                         /\ NULL \notin Events
                         /\ NULL \notin Accounts
                         /\ NULL \notin Contents
                         /\ NULL \notin Exceptions
                         /\ NULL \notin DlqStatus
ASSUME ProcsAssumption == Workers \subseteq Procs
ASSUME FiniteAssumption == IsFiniteSet(Procs) /\ IsFiniteSet(Events)
ASSUME ContentsAssumption == Contents \subseteq Content
ASSUME KeysAssumption ==
    \A c \in Contents : advisory_lock_key(c.entity_type, c.entity_id) \in Keys
ASSUME FaultsAssumption == Faults \subseteq Exceptions
ASSUME BoundsAssumption == /\ MaxAttempts \in Nat \ {0}
                           /\ BatchSize \in Nat \ {0}
                           /\ MaxMinor \in Nat

VARIABLES
    content,        \* [Events -> Contents \cup {NULL}], the payload columns
    status,         \* webhook_event.status, or "unused" / "purged": no row
    attempt_count,  \* webhook_event.attempt_count, the budget spent
    due,            \* webhook_event.next_attempt_at <= now
    attempts,       \* processing_attempt rows of an event, in id order
    dlq,            \* status of the event's dead_letter_entry, or NULL
    ledger,         \* amount_minor of the event's ledger_entry rows
    balance,        \* account.balance_minor (0: no row yet)
    version,        \* account.version, the ordering high-water mark
    pc,             \* where a process is in process_event
    batch,          \* ids poll_once still has to hand to process_event
    evt,            \* the event process_event is called with
    txn,            \* what the open transaction read and will write
    exc             \* the exception _record_failure is called with

rowVars  == <<content, status, attempt_count, due, attempts, dlq>>
bookVars == <<ledger, balance, version>>
procVars == <<pc, batch, evt, txn, exc>>
vars     == <<rowVars, bookVars, procVars>>

BigInt == (0 - MaxMinor - 1) .. MaxMinor

NoTxn == [number |-> 0, used |-> 0, result |-> "none", amount |-> 0]

TypeOK ==
    /\ content \in [Events -> Contents \cup {NULL}]
    /\ status \in [Events -> {"unused", "pending", "succeeded",
                              "dead_lettered", "purged"}]
    /\ attempt_count \in [Events -> Nat]
    /\ due \in [Events -> BOOLEAN]
    /\ attempts \in [Events -> Seq([number : Nat, outcome : AttemptOutcome])]
    /\ dlq \in [Events -> DlqStatus \cup {NULL}]
    /\ ledger \in [Events -> Seq(BigInt)]
    /\ balance \in [Accounts -> BigInt]
    /\ version \in [Accounts -> Nat]
    /\ pc \in [Procs -> {"idle", "claimed", "locked", "applied", "failed",
                        "recording"}]
    /\ batch \in [Procs -> SUBSET Events]
    /\ evt \in [Procs -> Events \cup {NULL}]
    /\ txn \in [Procs -> [number : Nat, used : Nat,
                          result : EffectResult \cup {"none"}, amount : Int]]
    /\ exc \in [Procs -> Exceptions \cup {NULL}]

Init ==
    /\ content = [e \in Events |-> NULL]
    /\ status = [e \in Events |-> "unused"]
    /\ attempt_count = [e \in Events |-> 0]
    /\ due = [e \in Events |-> FALSE]
    /\ attempts = [e \in Events |-> <<>>]
    /\ dlq = [e \in Events |-> NULL]
    /\ ledger = [e \in Events |-> <<>>]
    /\ balance = [a \in Accounts |-> 0]
    /\ version = [a \in Accounts |-> 0]
    /\ pc = [p \in Procs |-> "idle"]
    /\ batch = [p \in Procs |-> {}]
    /\ evt = [p \in Procs |-> NULL]
    /\ txn = [p \in Procs |-> NoTxn]
    /\ exc = [p \in Procs |-> NULL]

-----------------------------------------------------------------------------
(* Rows and locks.                                                          *)

Present(e) == status[e] \in {"pending", "succeeded", "dead_lettered"}

\* A row lock (FOR UPDATE) lives as long as the transaction that took it.
InTransaction(p) == pc[p] \in {"claimed", "locked", "applied"}

\* "recording" is a caller's own transaction with a row that references the
\* event (module Replay), which a FOR UPDATE waits for, or skips, as well.
HoldsRow(p, e) == (InTransaction(p) \/ pc[p] = "recording") /\ evt[p] = e

\* Variant: the failure is recorded inside the transaction that failed, whose
\* locks are still held.
RowFreeNested(e) == \A p \in Procs : evt[p] # e

RowFree(e) == \A p \in Procs : ~HoldsRow(p, e)

\* pg_advisory_xact_lock on the entity of the event being processed.
KeyOf(e) == advisory_lock_key(content[e].entity_type, content[e].entity_id)

HoldsEntity(p, k) == pc[p] \in {"locked", "applied"} /\ KeyOf(evt[p]) = k

\* Variant for checking the checks: no advisory lock.
EntityFreeUnlocked(k) == k \in Keys

EntityFree(k) == \A p \in Procs : ~HoldsEntity(p, k)

Due(e) == status[e] = "pending" /\ due[e]

\* next_attempt_number is h + 1 where h is MAX(attempt_number) over the event's
\* recorded attempts, or 0 when it has none.
RecordedNumbers(e) ==
    {attempts[e][i].number : i \in DOMAIN attempts[e]} \cup {0}

Highest(e, h) == \A n \in RecordedNumbers(e) : n <= h

-----------------------------------------------------------------------------
(* Ingestion and the queue.                                                 *)

\* ingest_event inserts a new row; ON CONFLICT (source, idempotency_key) DO
\* NOTHING makes a delivery whose key already has a row a no-op.
Ingest(e, c) ==
    /\ status[e] = "unused"
    /\ \A f \in Events : Present(f) => content[f].key # c.key
    /\ content' = [content EXCEPT ![e] = c]
    /\ status' = [status EXCEPT ![e] = "pending"]
    /\ due' = [due EXCEPT ![e] = TRUE]
    /\ UNCHANGED <<attempt_count, attempts, dlq, bookVars, procVars>>

\* The deadline reschedule set has passed.
BackoffElapsed(e) ==
    /\ status[e] = "pending" /\ ~due[e]
    /\ due' = [due EXCEPT ![e] = TRUE]
    /\ UNCHANGED <<content, status, attempt_count, attempts, dlq,
                   bookVars, procVars>>

\* due_event_ids: an unlocked read of at most BatchSize due ids.  Which ones,
\* when more are due, is left open (the code takes the oldest deadlines).
Poll(p, ids) ==
    /\ pc[p] = "idle" /\ batch[p] = {}
    /\ ids # {}
    /\ \A e \in ids : Due(e)
    /\ \/ Cardinality(ids) = BatchSize
       \/ Cardinality(ids) < BatchSize /\ \A e \in Events : Due(e) => e \in ids
    /\ batch' = [batch EXCEPT ![p] = ids]
    /\ UNCHANGED <<rowVars, bookVars, pc, evt, txn, exc>>

\* Variant: a claim that takes the last attempt for one already spent.
ClaimableTooLate(e) == Due(e) /\ RowFree(e) /\ attempt_count[e] + 1 < MaxAttempts

\* claim: FOR UPDATE SKIP LOCKED, with the poll predicate checked again.
Claimable(e) == Due(e) /\ RowFree(e)

Claim(p, e) ==
    /\ pc[p] = "idle" /\ e \in batch[p]
    /\ Claimable(e)
    /\ \E h \in RecordedNumbers(e) :
          /\ Highest(e, h)
          /\ txn' = [txn EXCEPT ![p] = [number |-> h + 1,
                                        used |-> attempt_count[e] + 1,
                                        result |-> "none", amount |-> 0]]
    /\ pc' = [pc EXCEPT ![p] = "claimed"]
    /\ evt' = [evt EXCEPT ![p] = e]
    /\ batch' = [batch EXCEPT ![p] = @ \ {e}]
    /\ UNCHANGED <<rowVars, bookVars, exc>>

\* NOT_CLAIMED: locked by another process, or no longer due.
ClaimMiss(p, e) ==
    /\ pc[p] = "idle" /\ e \in batch[p]
    /\ ~Claimable(e)
    /\ batch' = [batch EXCEPT ![p] = @ \ {e}]
    /\ UNCHANGED <<rowVars, bookVars, pc, evt, txn, exc>>

-----------------------------------------------------------------------------
(* The happy path of _apply, inside the transaction that claimed the row.   *)

\* An exception leaves the transaction: it is rolled back, its locks are
\* released, and process_event goes on to _record_failure.
Abort(p, x) ==
    /\ pc' = [pc EXCEPT ![p] = "failed"]
    /\ exc' = [exc EXCEPT ![p] = x]
    /\ txn' = [txn EXCEPT ![p] = NoTxn]

\* lock_entity: waits while another process holds the entity...
LockEntity(p) ==
    /\ pc[p] = "claimed"
    /\ EntityFree(KeyOf(evt[p]))
    /\ pc' = [pc EXCEPT ![p] = "locked"]
    /\ UNCHANGED <<rowVars, bookVars, batch, evt, txn, exc>>

\* ... and gives up after lock_timeout.
LockTimeout(p) ==
    /\ pc[p] = "claimed"
    /\ ~EntityFree(KeyOf(evt[p]))
    /\ Abort(p, LockContentionError)
    /\ UNCHANGED <<rowVars, bookVars, batch, evt>>

\* No handler, or one that refuses the event.
HandlerRefuses(p) ==
    /\ pc[p] = "locked"
    /\ ~Dispatches(content[evt[p]])
    /\ Abort(p, UnprocessableEventError)
    /\ UNCHANGED <<rowVars, bookVars, batch, evt>>

\* Variants: the guard bound to every effect, or not strict.
StaleUniform(f) == f.sequence <= version[f.account_ref]
StaleNonStrict(f) == f.absolute /\ f.sequence < version[f.account_ref]

\* The ordering guard of _apply_set_balance, checked before the ledger.
Stale(f) == f.absolute /\ f.sequence <= version[f.account_ref]

\* What the ledger row would record: a credit's amount, or the difference a
\* snapshot makes to the balance that was read.
Delta(f) == IF f.absolute THEN f.minor - balance[f.account_ref] ELSE f.minor

\* Variant: money columns without a range.
OverflowsNever(e, f) == FALSE

\* A bigint column refuses the ledger amount, or the balance it leads to.
Overflows(e, f) ==
    /\ ~Stale(f)
    /\ \/ Delta(f) \notin BigInt
       \/ ledger[e] = <<>> /\ balance[f.account_ref] + Delta(f) \notin BigInt

\* Variant: the ledger has no unique constraint on the event.
ResultOfUnconstrained(e, f) == IF Stale(f) THEN "superseded" ELSE "applied"

\* _claim_ledger_row: ON CONFLICT (event_id) DO NOTHING decides whether this
\* call is the one that applies the effect.
ResultOf(e, f) ==
    IF Stale(f) THEN "superseded"
    ELSE IF ledger[e] # <<>> THEN "already_applied"
    ELSE "applied"

\* apply_effect reads the account and the ledger and issues its writes, which
\* stay inside the transaction until it commits.
ApplyEffect(p) ==
    LET e == evt[p]
        f == dispatch(content[e])
    IN  /\ pc[p] = "locked"
        /\ Dispatches(content[e])
        /\ ~Overflows(e, f)
        /\ txn' = [txn EXCEPT ![p] = [number |-> txn[p].number,
                                      used |-> txn[p].used,
                                      result |-> ResultOf(e, f),
                                      amount |-> Delta(f)]]
        /\ pc' = [pc EXCEPT ![p] = "applied"]
        /\ UNCHANGED <<rowVars, bookVars, batch, evt, exc>>

EffectOverflows(p) ==
    /\ pc[p] = "locked"
    /\ Dispatches(content[evt[p]])
    /\ Overflows(evt[p], dispatch(content[evt[p]]))
    /\ Abort(p, NumericOutOfRange)
    /\ UNCHANGED <<rowVars, bookVars, batch, evt>>

\* The account update: a credit adds in SQL and never lowers the high-water
\* mark, a snapshot assigns both columns.
BalanceAfter(f) ==
    IF f.absolute THEN f.minor ELSE balance[f.account_ref] + f.minor

\* Variant: assignment instead of GREATEST.
VersionAfterAssigned(f) == f.sequence

VersionAfter(f) ==
    IF f.absolute \/ f.sequence > version[f.account_ref]
    THEN f.sequence ELSE version[f.account_ref]

\* What the commit makes visible: ledger row and balance (when the effect was
\* applied), the attempt row, and mark_succeeded.
WriteBook(e, f, t) ==
    IF t.result = "applied"
    THEN /\ ledger' = [ledger EXCEPT ![e] = Append(@, t.amount)]
         /\ balance' = [balance EXCEPT ![f.account_ref] = BalanceAfter(f)]
         /\ version' = [version EXCEPT ![f.account_ref] = VersionAfter(f)]
    ELSE UNCHANGED bookVars

CommitWrites(p) ==
    LET e == evt[p]
        t == txn[p]
    IN  /\ WriteBook(e, dispatch(content[e]), t)
        /\ attempts' = [attempts EXCEPT ![e] = Append(@,
                          [number |-> t.number,
                           outcome |-> SuccessOutcome(t.result)])]
        /\ status' = [status EXCEPT ![e] = "succeeded"]
        /\ attempt_count' = [attempt_count EXCEPT ![e] = t.used]
        /\ UNCHANGED <<content, due, dlq>>

\* process_event returns to its caller, which goes on with its batch.
Return(p) ==
    /\ pc' = [pc EXCEPT ![p] = "idle"]
    /\ evt' = [evt EXCEPT ![p] = NULL]
    /\ txn' = [txn EXCEPT ![p] = NoTxn]
    /\ exc' = [exc EXCEPT ![p] = NULL]

Commit(p) ==
    /\ pc[p] = "applied"
    /\ CommitWrites(p)
    /\ Return(p)
    /\ UNCHANGED batch

-----------------------------------------------------------------------------
(* What goes wrong.                                                         *)

\* An exception raised by a statement of the open transaction.
TransactionFails(p, x) ==
    /\ InTransaction(p)
    /\ Abort(p, x)
    /\ UNCHANGED <<rowVars, bookVars, batch, evt>>

\* An exception before the row is claimed: no connection, or the claim itself
\* failing.  It is inside process_event's try, so it too counts as an attempt.
ClaimFails(p, e, x) ==
    /\ pc[p] = "idle" /\ e \in batch[p]
    /\ Abort(p, x)
    /\ evt' = [evt EXCEPT ![p] = e]
    /\ batch' = [batch EXCEPT ![p] = @ \ {e}]
    /\ UNCHANGED <<rowVars, bookVars>>

\* The commit took effect but its acknowledgement was lost with the
\* connection: the client sees an exception and treats it as a failure.
CommitAckLost(p, x) ==
    /\ pc[p] = "applied"
    /\ is_retryable(x)
    /\ CommitWrites(p)
    /\ Abort(p, x)
    /\ UNCHANGED <<batch, evt>>

\* The process dies, is cancelled, or _record_failure itself raises: the open
\* transaction is rolled back, nothing is recorded and the batch is dropped.
Crash(p) ==
    /\ pc[p] # "idle" \/ batch[p] # {}
    /\ Return(p)
    /\ batch' = [batch EXCEPT ![p] = {}]
    /\ UNCHANGED <<rowVars, bookVars>>

-----------------------------------------------------------------------------
(* _record_failure: a fresh transaction that waits for the row (it does not *)
(* skip a locked one) and then decides, whatever the row's status is.       *)

ErrorOutcome(x) ==
    IF is_retryable(x) THEN "retryable_error" ELSE "non_retryable_error"

AttemptsUsed(e) == attempt_count[e] + 1

\* Variant: one attempt too many.
ExhaustedOffByOne(e) == AttemptsUsed(e) > MaxAttempts

Exhausted(e) == AttemptsUsed(e) >= MaxAttempts

\* Variant: retry without looking at the budget.
RetriesForever(p) == is_retryable(exc[p])

Retries(p) == is_retryable(exc[p]) /\ ~Exhausted(evt[p])

\* Variant: the failure path reads the row without waiting for its lock.
FailureLoadedUnlocked(p) == pc[p] = "failed" /\ Present(evt[p])

FailureLoaded(p) == pc[p] = "failed" /\ Present(evt[p]) /\ RowFree(evt[p])

RecordFailedAttempt(p) ==
    LET e == evt[p]
    IN  /\ \E h \in RecordedNumbers(e) :
              /\ Highest(e, h)
              /\ attempts' = [attempts EXCEPT ![e] = Append(@,
                                [number |-> h + 1,
                                 outcome |-> ErrorOutcome(exc[p])])]
        /\ attempt_count' = [attempt_count EXCEPT ![e] = AttemptsUsed(e)]

Reschedule(p) ==
    /\ FailureLoaded(p)
    /\ Retries(p)
    /\ RecordFailedAttempt(p)
    /\ status' = [status EXCEPT ![evt[p]] = "pending"]
    /\ due' = [due EXCEPT ![evt[p]] = FALSE]
    /\ Return(p)
    /\ UNCHANGED <<content, dlq, bookVars, batch>>

\* Variant: the status is changed and the entry forgotten.
DlqAfterForgotten(e) == dlq[e]

\* The insert of the dead-letter entry is ON CONFLICT DO NOTHING.
DlqAfter(e) == IF dlq[e] = NULL THEN "needs_review" ELSE dlq[e]

DeadLetter(p) ==
    /\ FailureLoaded(p)
    /\ ~Retries(p)
    /\ RecordFailedAttempt(p)
    /\ status' = [status EXCEPT ![evt[p]] = "dead_lettered"]
    /\ dlq' = [dlq EXCEPT ![evt[p]] = DlqAfter(evt[p])]
    /\ Return(p)
    /\ UNCHANGED <<content, due, bookVars, batch>>

\* The row is gone: nothing to record the failure against.
EventVanished(p) ==
    /\ pc[p] = "failed" /\ ~Present(evt[p])
    /\ Return(p)
    /\ UNCHANGED <<rowVars, bookVars, batch>>

-----------------------------------------------------------------------------
(* sp_purge_history: drops the attempts of old succeeded events, and the    *)
(* event itself (cascading to its dead-letter entry) when it has no ledger  *)
(* row.  old is the set of succeeded events past the cutoff; a DELETE waits *)
(* for rows that others hold.                                               *)

\* Variant: retention that also deletes events with an effect.
EffectlessAlways(e) == TRUE

Effectless(e) == ledger[e] = <<>>

PurgeHistory(old) ==
    /\ old # {}
    /\ \A e \in old : status[e] = "succeeded" /\ RowFree(e)
    /\ attempts' = [e \in Events |-> IF e \in old THEN <<>> ELSE attempts[e]]
    /\ status' = [e \in Events |-> IF e \in old /\ Effectless(e)
                                  THEN "purged" ELSE status[e]]
    /\ dlq' = [e \in Events |-> IF e \in old /\ Effectless(e)
                               THEN NULL ELSE dlq[e]]
    /\ UNCHANGED <<content, attempt_count, due, bookVars, procVars>>

-----------------------------------------------------------------------------

\* One step of process_event that the database and the code take unprovoked.
Step(p) ==
    \/ \E e \in Events : Claim(p, e) \/ ClaimMiss(p, e)
    \/ LockEntity(p) \/ HandlerRefuses(p) \/ ApplyEffect(p)
    \/ EffectOverflows(p) \/ Commit(p)
    \/ Reschedule(p) \/ DeadLetter(p) \/ EventVanished(p)

Fault(p) ==
    \/ LockTimeout(p)
    \/ \E x \in Faults : \/ TransactionFails(p, x)
                        \/ CommitAckLost(p, x)
                        \/ \E e \in Events : ClaimFails(p, e, x)

Healthy ==
    \/ \E e \in Events, c \in Contents : Ingest(e, c)
    \/ \E e \in Events : BackoffElapsed(e)
    \/ \E p \in Workers, ids \in SUBSET Events : Poll(p, ids)
    \/ \E p \in Procs : Step(p) \/ Fault(p)
    \/ \E old \in SUBSET Events : PurgeHistory(old)

Next == Healthy \/ \E p \in Procs : Crash(p)

Spec == Init /\ [][Next]_vars

-----------------------------------------------------------------------------
(* Safety.                                                                  *)

\* FR-6 across the whole life of a key: whatever workers, retries, lost commit
\* acknowledgements and late failures do, and even when retention has deleted
\* the row and the provider delivers the key again, no event has a second
\* ledger row and no key has effects through two different rows.
EffectAtMostOncePerKey ==
    /\ \A e \in Events : Len(ledger[e]) <= 1
    /\ \A e, f \in Events :
          /\ content[e] # NULL /\ content[f] # NULL
          /\ content[e].key = content[f].key
          /\ ledger[e] # <<>> /\ ledger[f] # <<>>
          => e = f

\* An event the queue calls succeeded has its effect in the ledger, or is a
\* snapshot that the account had moved past: mark_succeeded never swallows an
\* effect, in particular not a late credit.
NoEffectLost ==
    \A e \in Events :
        status[e] = "succeeded" /\ ledger[e] = <<>> =>
            /\ content[e].event_type = SNAPSHOT
            /\ content[e].provider_sequence # NULL
            /\ content[e].provider_sequence <= version[content[e].entity_id]

\* The retry budget of FR-13: a pending event always has an attempt left, so
\* the queue never serves one whose next failure was due to be its last.
PendingHasBudget ==
    \A e \in Events : status[e] = "pending" => attempt_count[e] < MaxAttempts

\* FR-14: a dead-lettered event is on the operators' list.  The row's status
\* and the entry are written by different statements, of a transaction that
\* may find an entry left there earlier.
DeadLetteredIsListed ==
    \A e \in Events : status[e] = "dead_lettered" => dlq[e] # NULL

\* The attempt log of a row reads in order: ids and attempt numbers rise
\* together although a success takes its number when it claims the row and a
\* failure when it records itself, in another transaction.
AttemptNumbersIncrease ==
    \A e \in Events : \A i, j \in DOMAIN attempts[e] :
        i < j => attempts[e][i].number < attempts[e][j].number

\* FR-13 counts failures after the row lock was released and without looking at
\* the row's status, so processes that fail on one event together can overshoot
\* the bound: each of them by one attempt and no more.
AttemptCountBounded ==
    \A e \in Events : attempt_count[e] <= MaxAttempts + Cardinality(Procs)

\* FR-7, FR-13: every stored event ends up succeeded or dead-lettered and stays
\* so, however often the code's own retries, late failures and lost
\* acknowledgements send it round again.
EventuallySettled == \A e \in Events : <>[](status[e] # "pending")

-----------------------------------------------------------------------------
(* The inductive invariant behind the theorems: who holds what, and that    *)
(* what an open transaction has read is still true when it commits.         *)

\* Rows and calls exist together: an id is only ever handed to process_event
\* once its row is stored, and a stored row keeps its content.
Stored ==
    /\ \A e \in Events :
          /\ content[e] = NULL <=> status[e] = "unused"
          /\ content[e] = NULL => ledger[e] = <<>>
    /\ \A p \in Procs :
          /\ \A e \in batch[p] : content[e] # NULL
          /\ pc[p] # "idle" => evt[p] \in Events /\ content[evt[p]] # NULL
          /\ pc[p] = "failed" => exc[p] \in Exceptions

\* No two transactions own one row, and an owned row is still pending.
RowOwned ==
    /\ \A p, q \in Procs :
          InTransaction(p) /\ InTransaction(q) /\ evt[p] = evt[q] => p = q
    /\ \A p \in Procs : InTransaction(p) => status[evt[p]] = "pending"

\* No two transactions are past lock_entity for one lock key.
EntityOwned ==
    \A p, q \in Procs :
        /\ pc[p] \in {"locked", "applied"} /\ pc[q] \in {"locked", "applied"}
        /\ KeyOf(evt[p]) = KeyOf(evt[q])
        => p = q

\* The writes buffered by apply_effect are the ones it would issue now.
Buffered(p) ==
    LET e == evt[p]
        f == dispatch(content[e])
    IN  /\ Dispatches(content[e])
        /\ ~Overflows(e, f)
        /\ txn[p].result = ResultOf(e, f)
        /\ txn[p].amount = Delta(f)

BufferedIsCurrent == \A p \in Procs : pc[p] = "applied" => Buffered(p)

IInv == TypeOK /\ Stored /\ RowOwned /\ EntityOwned /\ BufferedIsCurrent

-----------------------------------------------------------------------------
(* What is true of the rows beyond that, one part per theorem.              *)

\* A deduplication key has one row, or others that retention has deleted, and
\* those never had an effect.
KeyOwned ==
    /\ \A e \in Events : Len(ledger[e]) <= 1
    /\ \A e \in Events : status[e] = "purged" => ledger[e] = <<>>
    /\ \A e, f \in Events :
          /\ content[e] # NULL /\ content[f] # NULL
          /\ content[e].key = content[f].key
          => e = f \/ status[e] = "purged" \/ status[f] = "purged"

\* What an attempt will charge to the budget is read with the claim and still
\* right at the commit.
Charged ==
    /\ \A e \in Events : status[e] = "unused" => attempt_count[e] = 0
    /\ \A p \in Procs :
          InTransaction(p) => txn[p].used = attempt_count[evt[p]] + 1

\* The number an attempt took when it claimed the row is above all the recorded
\* ones until it is recorded itself.
Numbered ==
    \A p \in Procs : InTransaction(p) =>
        \A i \in DOMAIN attempts[evt[p]] :
            attempts[evt[p]][i].number < txn[p].number

\* Processes that may still charge an attempt to the event.
Charging(p) == pc[p] \in {"claimed", "locked", "applied", "failed"}
Engaged(p, e) == e \in batch[p] \/ (Charging(p) /\ evt[p] = e)

\* Once the budget is spent nobody new takes the event up, so every attempt
\* beyond it is made by a process that was engaged then.
Overshoot ==
    /\ \A p \in Procs : Charging(p) => evt[p] \notin batch[p]
    /\ \A e \in Events :
          attempt_count[e] >= MaxAttempts =>
              attempt_count[e] + Cardinality({p \in Procs : Engaged(p, e)})
                  <= MaxAttempts + Cardinality(Procs)

\* The last attempt of an event that succeeded without an effect is the one that
\* found it superseded.
Explained ==
    \A e \in Events : status[e] = "succeeded" /\ ledger[e] = <<>> =>
        /\ attempts[e] # <<>>
        /\ attempts[e][Len(attempts[e])].outcome = "superseded"

HInv ==
    /\ KeyOwned /\ NoEffectLost /\ DeadLetteredIsListed
    /\ PendingHasBudget /\ Charged /\ Overshoot
    /\ AttemptNumbersIncrease /\ Numbered /\ Explained

-----------------------------------------------------------------------------
(* Refinement.                                                              *)

Book == INSTANCE AccountBook WITH
            posted <- [e \in Events |-> IF ledger[e] = <<>> THEN NULL
                                                           ELSE ledger[e][1]]

\* The core, with its concurrent workers, retries, faults, crashes and purges,
\* implements the account book: the effects it commits are those of applying
\* each event at most once and one after the other.
ImplementsAccountBook == Book!Spec
=============================================================================
