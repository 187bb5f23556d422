# A TLA+ verification of the webhook receiver

The service accepts webhooks, stores them in Postgres, and applies each one's
effect to an account exactly once: with several workers, retries, out-of-order
delivery, crashes, operators replaying events, and retention deleting old rows.
This project models the way of an event from the HTTP request to the ledger, the
processes that carry it and the operators who clean up after them, checks it with
TLC on small instances, and proves the central results with TLAPS for every number
of workers, events and accounts.

Paths below are relative to `src/src/webhook_receiver/` unless they start with
`src/`.

## 1. Inventory

| Part | State | Operations | Interacts through |
|---|---|---|---|
| Ingestion (`api/webhooks.py`, `api/signature.py`, `api/schemas.py`, `services/ingest.py`) | the request being served | verify, parse, `ingest_event` (insert, `ON CONFLICT DO NOTHING`, select), commit, answer | rows of `webhook_event`; the provider's redeliveries |
| Queue (`adapters/queue.py`) | `webhook_event`: status, `attempt_count`, `next_attempt_at`; `processing_attempt`; `dead_letter_entry` | `due_event_ids`, `claim`, `load_for_update`, `record_attempt`, `mark_succeeded`, `reschedule`, `dead_letter`, `requeue` | row locks |
| Processing (`services/process.py`) | one open transaction per process | `process_event`: `_apply`, then on any exception `_record_failure` | queue, ledger, locks |
| Ledger (`adapters/ledger.py`) | `account` (balance, version), `ledger_entry` | `apply_effect` for a credit or a snapshot | unique constraint on the event |
| Entity locks (`adapters/locks.py`) | Postgres advisory locks | `lock_entity`, with a timeout | the lock key |
| Domain (`domain/`) | none | handlers, retry taxonomy, triage table, backoff | pure |
| Worker (`worker/main.py`) | a batch of ids, consecutive failures, a shutdown flag | `await_schema`, `run`, `poll_once`, `_wait`, signals | calls `process_event`; migration and platform |
| Replay (`services/replay.py`, `api/admin.py`) | `replay_request`; a list of ids per request | `replay_event`: requeue, `process_event`, audit and settle | queue, DLQ |
| Triage (`adapters/dlq.py`, `api/admin.py`) | status of a `dead_letter_entry` | `transition` | row lock of the entry |
| Retention (`src/migrations/versions/0003_*.py`) | none | `sp_purge_history` | deletes rows |
| Views and load grading (`src/migrations/versions/0003_*.py`, `src/scripts/verify_load.py`) | none | queries | every table |
| Read side, metrics, logging, configuration, auth | none | queries | not modelled |

What is hard here:

* **The gap after a failure.** The failed transaction is rolled back, its row lock
  goes with it, and `_record_failure` takes the row again in a second transaction
  without asking what happened in between.
* **A commit whose acknowledgement is lost.** The code cannot tell it from a
  commit that failed.
* **Read, compute, assign.** A snapshot computes a delta from a balance it read.
* **Order.** Snapshots are last-writer-wins by sequence, credits must never be
  dropped; both arrive in any order.
* **Three transactions per replay**, nothing held between them, with workers,
  other operators and triage in the gaps.
* **Retention** deletes the rows that deduplication relies on, and signatures that
  are still in their window may outlive them.
* **Answers get lost**, so everything that was stored is delivered again.
* **The worker's surroundings**: a database that goes away, a migration that has
  not landed, a platform that restarts so often and no more.
* **Oldest first** is a promise of progress only as long as the oldest can be fixed.

What makes the parts correct: one effect per key for ever; the balance is the sum
of the ledger and the result of some serial order; a succeeded event has its
effect or was rightly passed over; the retry budget holds and a dead-lettered
event is listed; a ruling of a human is final; what was acknowledged is stored and
the first delivery of a key stands; a worker dies for cause only, and otherwise
polls; everything comes to an end.
`PROJECT.json` lists each hazard at its line with the properties aimed at it.

## 2. Modules

```
Domain ──┬── AccountBook                         abstract specification
         ├── Processing ──┬── Views ── MCProcessing ──┐
         │        │       └── Replay ─────────────────┴── MCReplay
         │        └── ProcessingProofs ──┬── RowProofs ── ViewsProofs (with Views) ──┐
         │                               └── ReplayProofs (with Replay) ─────────────┴── AuditProofs
         └── WorkerLoop (with Backoff) ──┬── MCWorkerLoop
                                         └── WorkerLoopProofs

Ingestion ──┬── MCIngestion          DlqDrain ── DlqDrainProofs
            └── IngestionProofs
```

* **Domain**: what an event means, what an exception means, how an entry may move.
  Pure operators. An exception is a record of what `is_retryable` looks at.
* **AccountBook**: what the core promises, without queue, processes or failures:
  deliveries are stored, and each is applied at most once, one at a time, by an
  indivisible step.
* **Processing**: the core. Variables are the columns of the tables plus, per
  process, where it is in `process_event`.
* **Replay**: operators and triage on top of it. An operator is a process of the
  core that never polls; `Requeue` hands it its event.
* **Views**: the views and functions of migration 0003 and the questions of the load
  test as operators over the variables of Processing, and the properties that are
  stated as an operator would see them.
* **Backoff**: the delays the jittered schedule may return, over whole seconds.
* **WorkerLoop**: the worker process around `process_event`, in ticks of time, with
  the database, the migration and the platform around it. It shares with Processing
  the retry taxonomy of Domain. `overdue` and `lag` measure and decide nothing:
  `overdue` runs while a database that is there goes unused, so a poll and a
  successful probe both reset it.
* **Ingestion**: requests from the first check to the answer, with a provider that
  redelivers, a wire that repeats and loses, and retention.
* **DlqDrain**: "replay the DLQ", called over and over, over entries ordered by age.
* **MCProcessing**, **MCReplay**, **MCWorkerLoop**, **MCIngestion**: instances, and
  the documented statements that the code contradicts.
* **ProcessingProofs**, **RowProofs**, **ViewsProofs**, **ReplayProofs**,
  **AuditProofs**, **IngestionProofs**, **WorkerLoopProofs**, **DlqDrainProofs**:
  theorems (section 5). The parts of the inductive invariants are defined in the
  component's own module, so that TLC can check them too; the exceptions are
  `Funded` and the sums behind it, in ViewsProofs.

Which action is which code:

| Action | Code |
|---|---|
| `Ingest` | `ingest_event` |
| `Poll` | `poll_once` reading `due_event_ids`; the batch is `batch[p]` |
| `Claim`, `ClaimMiss` | `queue.claim` (`SKIP LOCKED`), `next_attempt_number`; `NOT_CLAIMED` |
| `LockEntity`, `LockTimeout` | `lock_entity` |
| `HandlerRefuses` | `registry.dispatch` raising |
| `ApplyEffect`, `EffectOverflows` | `apply_effect`; a bigint column refusing a value |
| `Commit` | `record_attempt`, `mark_succeeded` and the commit |
| `TransactionFails`, `ClaimFails` | an exception inside `process_event`'s `try` |
| `CommitAckLost` | the commit happened, the client sees a lost connection |
| `Reschedule`, `DeadLetter`, `EventVanished` | the three ends of `_record_failure` |
| `Crash` | the process dies, is cancelled, or `_record_failure` raises |
| `PurgeHistory`, `Purge` | `sp_purge_history`, with the foreign keys |
| `Select` | `POST /admin/replay` |
| `Requeue`, `NotFound` | first transaction of `replay_event` |
| `NoteAttempt`, `InsertRequest`, `FinishRequest` | last transaction: `latest_attempt_id`, `record_replay_request` and the read in `_settle_dlq`, `transition` and the commit |
| `InsertRefused`, `FinishRefused`, `ReplayRaises` | that transaction failing: foreign key, illegal move, anything else |
| `Triage` | `POST /admin/dlq/{id}/{action}` |
| WorkerLoop: `BeginProbe`, `ProbeFinds`, `ProbeMisses`, `SchemaSkipped` | `await_schema`: a probe, found, not found or no answer, shutdown |
| `BeginPoll`, `PollReturns`, `EventDone` | `poll_once`: the read of ids, each `process_event` |
| `WaitsOut`, `Crashes` | the `except` of `run`: a recognised failure, anything else |
| `Wake`, `RequestShutdown`, `Stop` | `_wait` ending; `SIGTERM`; the end of `run` |
| `DatabaseLeaves`/`Returns`, `Migrate`, `Downgrade`, `Restart` | the world |
| Ingestion: `Receive` | `ingest` up to the transaction: size, source, signature, envelope, key |
| `Insert`, `InsertConflicts`, `SelectExisting`, `Commit` | `ingest_event` and the end of `session_scope` |
| `Respond`, `Lost`, `DatabaseFails`, `CommitAckLost` | the answer arrives, or not; the transaction fails, or seems to |
| `Settle`, `Purge` | what the worker and retention do to the row |
| DlqDrain: `SelectDlq`, `MarkReplaying`, `SettleDlq`, `Dies` | the DLQ selector, the first and the last transaction of `replay_event`, a dying call |

### Transactions and locks

Writes of an open transaction are invisible to others, so they are buffered in
`txn[p]` and appear at the commit. Locks live as long as the transaction, so they
are not variables: `HoldsRow` and `HoldsEntity` are read off `pc` and `evt`. The
steps of `_apply` between which another process can interfere (claim, entity
lock, effect, commit) are separate actions. `_record_failure` holds the row from
its first statement to its last and shares nothing else, so it is one action.

### Abstractions

* **Time** is one bit per row, `next_attempt_at <= now`. A process reads its clock
  when it claims; the code reads it an instant earlier, which can only turn a
  claim into a miss.
* **Which due ids** a poll returns, when more are due than fit, is left open. The
  code takes the oldest deadlines; every property holds without that.
* **Ids of attempts** are positions in the log. `noted` is a position too: an
  audit row whose attempt is purged and replaced by a new one at the same
  position within one transaction would keep its reference here, and be refused
  by the foreign key in the code.
* **The first transaction of a replay** is one step. A triage between its unlocked
  read of the entry and the lock makes it fail as `ReplayRaises` does.
* **Retention** may pick any set of succeeded rows, as one step: how old a row is
  does not matter to any property.
* **The triggers** of migration 0003 (append-only ledger, terminal entries) are
  left out on purpose: the checks show that the application does not need them.
* **Text, timestamps, counters and log lines** are left out.
* **A MAC** is the triple of key, time and body, so equal MACs come from equal
  inputs; that is what HMAC is trusted for, and the byte level is out of reach.
* **A request takes at most `RequestTime`, a unit of the worker's work at most
  `WorkTime`** (one statement answered, or its connection broken). The code sets no
  such limit itself except for the entity lock; the platform and the driver do. The
  bounds on time (`CapturedStoredOnce`, `ReadyPromptly`, `ResumesWithinCap`,
  `StopsAfterBatch`) are stated in terms of them.
* **Retention outlives the window**: `Retention >= 2 * Tolerance + RequestTime`
  (`RetentionAssumption`). The defaults are 90 days and 300 seconds; the parameter
  of `sp_purge_history` has no lower bound, so a caller could break it.
* **In Ingestion** a row is pending, processed without effect, or kept. A replay
  makes a row younger, never older, and is left to Replay.
* **In WorkerLoop** failures beyond `MAX_EXPONENT` are not counted: nothing depends
  on more. Delays are whole ticks. What a probe reads and its answer are one step;
  the bounds have a unit of work to spare for that. An outage at startup that
  outlasts the schema wait does end the process (`worker/main.py:117`), which
  `DiesForCause` names.
* **In DlqDrain** an event is fixed by a replay or poison for good, no two entries
  have the same age, and what a replay does to the event is left to Replay.
* **A view** is evaluated in one snapshot. `verify_load.py` reads its counts one
  after the other, after the queue was seen empty.

## 3. Runs

All values are small sets in the MC modules and `.cfg` files. `CHECK_DEADLOCK` is
off except in `worker`: when every event is settled and nothing is delivered or
asked for, the system rightly has nothing to do. A worker, however, always has
something to wait for.

| Run | Instance | Shows |
|---|---|---|
| `mixed` | 2 workers, 2 rows, 4 contents (credit, debit, snapshot, one no handler owns), budget 3, money in -3..2 | types and column ranges; `NoDrift`, `HighWaterMark`, `NoEffectLost`; `PendingHasBudget`, `AttemptCountBounded`, `AttemptNumbersIncrease`, `DeadLetteredIsListed`; `LoadIsExact`, `EffectlessIsSuperseded`; implements `AccountBook` |
| `snapshots` | 2 workers, 3 rows, snapshots with sequences 1, 1, 2 and a credit, retention and redelivery | `EffectAtMostOncePerKey`, `NewestSnapshotWins` |
| `replay` | 1 worker, 2 operators, 1 row, budget 1, 2 replay requests, triage, crashes | `CreditedOnce`, `VerdictStands`; still implements `AccountBook` |
| `replay_ends` | 1 worker, 1 operator, 2 rows of 2 entities with one lock key, one of them refused by its handler, budget 2, transient faults, one replay request | `RequestsEnd`, `EventuallySettled` |
| `worker` | batches of 2, backoff cap 5 reached at the third failure, deadline 5, poll interval 3, units of up to 2 ticks, migration at 0, 3, 6 or never, one restart | `DiesForCause`, `ReadyPromptly`, `ResumesWithinCap`, `StopsAfterBatch`, `KeepsPolling` |
| `ingestion` | 2 requests, 2 different deliveries of one key (by id and by header, with one key and with two), 9 that are refused, tolerance 1, retention 3, clock to 4 | `AcknowledgedIsStored`, `FirstDeliveryStands`, `CapturedStoredOnce`, `EventuallyAcknowledged` |
| `drain` | 2 operators, 3 entries, batches of 2, at most 1 poison event | `MakesProgress` |

**Why the bounds suffice.** The hazards are between two processes at one row or
one account, so two of each is the smallest instance in which all of them occur.
A budget of three lets an event be retried, fail late and still have an attempt
left after a success (which spends budget too). Money between -3 and 2 makes
overflow reachable in both directions. Three rows in `snapshots` are two
snapshots and a redelivery of a purged key. In `replay` a budget of one makes
dead-lettering and a second replay reachable within two requests. In `replay_ends`
worker and operator are the two processes, each able to hold the entity the other one
waits for; the ids of a request are served one after the other with nothing held in
between, so a request for one of them is enough (`drain` has batches). Every invariant
and every action property of these runs, and the refinement, is also proved for all
sizes (section 5); what rests on the bounds alone is liveness.

In `worker` the deadline falls between two probes and the migration before, after
or beyond it; the third failure reaches the cap. In `ingestion` the clock runs just
far enough for a row to be stored, processed, purged and its key delivered again,
while a delivery signed ahead of time is still in somebody's hands. In `drain` a
full batch, a poison event in front and an entry behind the batch all occur.

### Where the documents and the code part

Each of these runs checks what a document or a comment says, and TLC finds a
behaviour of the code that contradicts it. None of them costs or creates money.

| Run | Said | What happens |
|---|---|---|
| `listed_retried` | `obs/metrics.py:65`: dead-lettered events "will not be retried again without a human" | `_record_failure` ignores the row's status: the late failure of a second process returns a dead-lettered event to the queue |
| `unattended` | `adapters/queue.py:327`: "hand the event to a human" | a worker takes the event between a replay's requeue and its claim; the replay resolves the entry as skipped; the worker then dead-letters the event, whose entry stays resolved |
| `audited` | `adapters/queue.py:268`: the audit row is "written unconditionally" | triage between the read and the lock of `_settle_dlq` rolls it back |
| `drain_stuck` | `api/admin.py:253`, `src/docs/runbook.md:106`: oldest first, "so repeating the call makes progress" | a batch of old entries that keep failing keeps its age, and every call takes the same batch again |
| `one_event` | `src/railway.worker.toml:41`: "The loop checks its shutdown Event *between* events"; `drainingSeconds = 30` "is the budget for the one event that may be in flight when the signal arrives" | `poll_once` (`worker/main.py:156`) never looks at the event: the rest of the batch, by default up to 100 events, is worked off first |

`listed_retried` has a budget of three, because an event must survive one failure
and one success. `audited` and `unattended` need neither a fault nor a crash
(`CalmSpec`); `unattended` has no triage at all. `drain_stuck` is `drain` with as
many poison events as a batch holds: the two runs show where the promise ends.
`one_event` is the instance of `worker`, and its counterexample needs no fault: the
bound `StopsAfterBatch` that holds is one read and a *whole batch*, the bound
`DrainsOneEvent` that the deployment counts on is one read and *one* event. What a
platform does when the budget is over, a SIGKILL in the middle of a batch, is `Crash`
in Processing: the transaction under way is rolled back, nothing is half applied, and
the rest of the batch is due again. WorkerLoop measures how long a worker takes that
is left alone.

Relatives of these, seen in the model and not given a run of their own:

* a lost acknowledgement, or a late failure of a second process, reschedules an
  event whose effect is committed, although `src/docs/adr/0003-*.md:53` calls a
  ledger row against a pending event a state the design cannot produce. The next
  pass logs a second `succeeded` attempt for one ledger row, against
  `src/docs/adr/0006-*.md:51`. No second effect follows (`LoadIsExact`);
* the second pass over an *applied* snapshot meets its own version and is logged as
  superseded, against `services/process.py:63`. The converse holds
  (`EffectlessIsSuperseded`);
* a replay that dies after its first transaction leaves the entry in `replaying`,
  against `domain/dlq.py:35`; `MakesProgress` has to name the case (`Stranded`);
* an event ruled on, replayed and failing again gets no new entry (`ON CONFLICT DO
  NOTHING`), against `api/admin.py:214`;
* `resulting_attempt_id` is the event's latest attempt, which may be another
  process's (`adapters/queue.py:251`);
* `ingest_event` "never raises on a duplicate" (`services/ingest.py:42`), except when
  retention deletes the row between the conflict and the SELECT: the provider gets a
  500 and, by `EventuallyAcknowledged`, its 200 at a later delivery;
* `parse_envelope` raises "on anything unusable" (`api/schemas.py:84`), but a sequence
  beyond bigint passes, and every redelivery of it is answered with a 500;
* "every rejection raises a `SignatureError` subclass" (`api/signature.py:17`), but a
  timestamp too large for a float raises an `OverflowError` (line 104) and a `v1` that
  is not ASCII a `TypeError` (line 140): refused with a 500 in place of a 401
  (`VerifyRaises`). Nothing is stored in either case.

## 4. Fairness

* A worker polls again and again (`run` loops until shutdown, and waits a database
  failure out): weak fairness of `Poll`.
* `process_event` goes on: weak fairness of `Continue` and `Returns` for each
  process (its steps, as Replay composes them). Waiting for a
  row or an entity lock ends because the holder goes on too.
* A deadline passes: weak fairness of `BackoffElapsed`.
* A replay request that is being served takes its next step: weak fairness of
  `ReplayStep`.
* **Crashes end** (`<>[][ReplayHealthy]_allVars`). The code counts attempts that
  fail, not
  attempts that die, so a worker that dies every time is beyond what it promises.
  Failures that the code handles (timeouts, lost connections, bugs, lost
  acknowledgements) are *not* assumed to end: they may strike every attempt, and
  the retry budget alone makes `EventuallySettled` true.

* WorkerLoop: the process takes its next step, time passes, and the platform
  restarts a dead process while its budget lasts. Neither the database nor the
  migration owes anything: `KeepsPolling` is conditional on both being there for good.
* Ingestion: a request being served goes on, faults end (`Undisturbed`), and the
  provider redelivers, freshly signed, until it sees a 2xx. That is strong fairness:
  other traffic may occupy the handlers now and then. It is what FR-5 says of
  providers, and nothing in this service can replace it.
* DlqDrain: a call being served goes on, somebody repeats the call while anything
  awaits review, and calls do not die for ever.

Nothing is assumed about new deliveries, new replay requests, triage or retention.

## 5. Proofs

Eight modules, checked by TLAPS with no step left open. Between them they state
every invariant, every action property and the refinement that the runs check.

**Assumptions** are the ASSUMEs of the modules: NULL is none of the values, workers
are processes and operators are processes that are not workers, contents are
well-formed, lock keys are keys, faults are exceptions, numeric parameters are
natural numbers. There are finitely many processes and rows (`FiniteAssumption`;
ids are a bigint identity column), which `AttemptCountBounded` and the sums need.
`TemplatesAssumption`: an envelope that validates has a non-empty id.
`RetentionAssumption`: retention outlives the window of a signature. Nothing is
assumed about how many processes, events or accounts there are, nor that lock keys
differ.

### The core: ProcessingProofs

* `Invariance`: `Spec => []IInv`. `TypeOK` is not inductive by itself: the commit
  writes a balance computed from what the transaction read, so its range depends
  on that reading still being true. `IInv` adds
  - `Stored`: ids in hands of processes belong to stored rows;
  - `RowOwned`: one transaction per row, and an owned row is pending;
  - `EntityOwned`: one transaction past `lock_entity` per lock key;
  - `BufferedIsCurrent`: what `apply_effect` buffered is what it would issue now.
  The last is the heart. It is preserved because another commit either has a
  different lock key, hence a different account, or is excluded by `EntityOwned`;
  and the ledger rows of the event are protected by `RowOwned`.
* `TypeCorrect` follows. `Refinement`: `Spec => ImplementsAccountBook`. By
  `BufferedIsCurrent` a commit is `Apply` of the account book; an ingestion is
  `Store`; everything else stutters, late failures and purges included.

### Rows: RowProofs

`RowInvariance`: `Spec => []HInv`, on top of `IInv`. The theorems read off it are
`EffectOnce`, `EffectKept`, `BudgetKept`, `DeadLettersListed`, `LogInOrder` and
`OvershootBounded`. What each needed beyond itself:

* `KeyOwned`: two rows share a key only when retention deleted one of them, and it
  deletes no row with an effect, so a redelivery after a purge cannot repeat one.
* `Charged` and `Numbered`: the budget and the attempt number that a process read
  when it claimed are still right when it commits, because it holds the row.
* `Overshoot`: once the budget is spent nobody new takes the event up, so the
  processes that were engaged then (a batch in hand, a transaction or a failure to
  record) pay for every attempt beyond it. Counting them gives the bound.
* `Explained`: a success without effect has the `superseded` attempt as its last.
* `NoEffectLost` is inductive only together with `provider_sequence # NULL`: an
  event without a sequence is never passed over.

### What operators read: ViewsProofs

* `BookInvariance`: `Spec => []VInv`. `Marked`: no event applied to an account is
  above its version, and one is at it. `Shown`: with snapshots alone, the balance is
  that of the snapshot at the version. `VersionIsHighest` and `NewestShown` follow;
  `EffectlessExplained` follows from `Explained` and `AttemptNumbersIncrease`.
* `MoneyInvariance`: `Funded`, the balance is the sum of the ledger rows applied to
  the account, and `InFull`, a credit is posted with its own amount. A commit adds
  one event to `AppliedTo` of one account and the same delta to ledger and balance.
* Sums over sets are where induction over data would be needed, and the library's
  induction theorems cannot be instantiated here. `Sums(g, F, S)` says instead that
  `g` satisfies the recursion of `MapThenSumSet` on the subsets of S, and facts about
  it are shown by taking a *set* of good subsets and proving it to be all of them,
  with the well-foundedness of the natural numbers applied to cardinalities
  (`SubsetInduction`): such a function exists (`SumsExist`), any element may be added
  last (`SumsAny`), a sum depends on its summands only (`SumsAgree`), zeros may be
  left out (`SumsRestrict`), ones count (`SumsCount`). `RecordedSum`, `LedgerRowsSum`
  and `WorthSum` tie the queries' own sums to it.
* `BooksBalance`: `Spec => []NoDrift`. `LoadExact`: `Spec => []LoadIsExact`; equal
  counts of rows and successes make every row a success (`Graded`), which by
  `NoEffectLost` has its one ledger row.

### Replay: ReplayProofs and AuditProofs

* `ReplayInvariance`: `ReplaySpec => []RInv`, where `Serving` says that an operator
  is in `process_event` exactly when its request says so. Without it a requeue
  could hand out an event to an operator that is inside a transaction.
* `ReplayTypeCorrect`; `ReplayRefinement`: replays leave the account book intact.
* `RulingsAreFinal`: `ReplaySpec => VerdictStands`. It rests on `transition` reading
  the status again under the lock.
* `ReplayedRows`: `HInv` and `VInv` hold with operators at work; a requeue resets the
  budget only of a row nobody owns. Hence `ReplayedOnce`, `ReplayedBooksBalance` and
  `ReplayedLoadExact`.
* `CreditOnce`: `CreditHeld` says that the credit for an effect is one request's,
  written down or about to be, and that there is an effect; `OnTask` that the event
  in `process_event` is the one the request is about. A second request cannot earn a
  credit because the ledger row is already there, and a ledger row stays
  (`LedgerKept`).

### Ingestion, worker, drain

* `IngestInvariance`: `Spec => []IngestInv`. `Promised` gives `AcknowledgedKept` (a
  2xx on its way counts as one that arrived), `Reserved` that the commit of an insert
  overwrites nothing (`FirstStands`), `Fresh` and `Spent` that a delivery whose row was
  purged has a signature too old for every request still being served
  (`CapturedOnce`); this is where `RetentionAssumption` is used.
* `WorkerInvariance`: `Spec => []WorkerInv`. The measures are bounded together with
  what is left on the timer of the wait under way (`Neglect`, `Draining`), since a
  bound on the measure alone is not preserved by a tick. Four theorems follow:
  `DeathHasCause`, `SchemaNoticed`, `OutageOutlived`, `StopEndsBatch`.
* `DrainTypeCorrect`.

**Only model-checked**: liveness under fairness (`EventuallySettled`, `RequestsEnd`,
`KeepsPolling`, `EventuallyAcknowledged`, `MakesProgress`), which is beyond the prover.

## 6. Not modelled

* Admin authentication, middleware and the wiring of the application: one
  comparison per request, nothing that outlives it.
* The read side (`adapters/query.py`, health, metrics): filters over tables, with no
  claim beyond the filter.
* `v_processing_outcomes` and `fn_queue_lag`: durations, which the models do not keep.
* The triggers, on purpose (see Abstractions).
* The hash behind `advisory_lock_key`: any function will do, and colliding keys are
  checked and covered by the proofs.
* The bytes of HMAC and JSON, floating point, the random generator, log lines,
  counters.

## 7. Plan

Done: Domain, AccountBook, Processing, Views, Replay, Backoff, WorkerLoop, Ingestion,
DlqDrain with their runs; the theorems of section 5. Left:

1. Ingestion as a refinement: its rows are the `Store` steps of the account book.
2. Action properties worth stating of the core for all sizes: an account's version
   never falls, a ledger row never changes.
