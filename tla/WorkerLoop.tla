----------------------------- MODULE WorkerLoop -----------------------------
(***************************************************************************)
(* The worker process around process_event (worker/main.py): await_schema  *)
(* at startup, the poll loop of run, the interruptible _wait, the signal   *)
(* handlers, and around the process the things it must live with: a        *)
(* database that goes away and comes back, a migration that lands late,    *)
(* a platform that restarts a dead process a limited number of times.      *)
(*                                                                         *)
(* Time is counted in ticks.  Control points that do not await take none.  *)
(* One unit of work (the probe, the read of a batch, one process_event)    *)
(* takes at most WorkTime: the database answers or the connection breaks.  *)
(* What process_event does is module Processing; here it returns or lets   *)
(* an exception of _record_failure through.                                *)
(***************************************************************************)
EXTENDS Backoff, Domain

CONSTANTS
    SchemaWait,     \* settings.schema_wait_timeout_seconds
    PollInterval,   \* settings.poll_interval_seconds
    BatchSize,      \* settings.poll_batch_size
    WorkTime,       \* longest duration of one unit of work
    MigrationTimes, \* ticks until the migration lands; Never: it does not
    Never,
    RestartBudget,  \* restarts the platform grants a crashing process
    Weather,        \* what the driver raises while the database is away
    Bugs            \* exceptions nothing recognises

ASSUME WorkerAssumption ==
    /\ SchemaWait \in Nat /\ PollInterval \in Nat /\ WorkTime \in Nat \ {0}
    /\ BatchSize \in Nat \ {0} /\ RestartBudget \in Nat
    /\ Never \notin Nat /\ MigrationTimes \subseteq Nat \cup {Never}
    /\ Weather \subseteq Exceptions /\ Bugs \subseteq Exceptions
    /\ NULL \notin Exceptions
    /\ \A x \in Weather : is_retryable(x)
    /\ \A x \in Bugs : ~is_retryable(x)

VARIABLES
    pc,         \* where the process is
    timer,      \* ticks left of the wait, or of the unit of work, under way
    patience,   \* ticks left to the deadline of await_schema
    failures,   \* consecutive_failures; beyond MAX_EXPONENT it changes nothing
    left,       \* ids of the batch still to be handed to process_event
    shutdown,   \* the shutdown event is set
    killer,     \* the exception that ended the process, NULL: SchemaNotReadyError
    restarts,   \* restarts used up
    db,         \* the database answers
    broken,     \* it did not, at some time during the unit of work under way
    schema,     \* the table webhook_event exists
    landing,    \* ticks until the migration lands, or Never
    overdue,    \* measured: ticks the database has been ready and unused
    lag         \* measured: ticks since shutdown was requested

procVars  == <<pc, timer, patience, failures, left, killer>>
worldVars == <<restarts, db, schema, landing>>
vars      == <<procVars, worldVars, shutdown, broken, overdue, lag>>

Waits == {"awaiting", "backing_off", "idling"}
Units == {"probing", "polling", "working"}
Alive == pc \notin {"stopped", "dead"}

WorkerTypeOK ==
    /\ pc \in Waits \cup Units \cup {"starting", "looping", "stopped", "dead"}
    /\ timer \in Nat /\ patience \in 0 .. SchemaWait
    /\ failures \in 0 .. MAX_EXPONENT /\ left \in 0 .. BatchSize
    /\ shutdown \in BOOLEAN /\ killer \in Exceptions \cup {NULL}
    /\ restarts \in 0 .. RestartBudget
    /\ db \in BOOLEAN /\ broken \in BOOLEAN /\ schema \in BOOLEAN
    /\ landing \in Nat \cup {Never}
    /\ overdue \in Nat /\ lag \in Nat

\* A deployment starts the worker and the migration together; or the schema is
\* there from an earlier one.
Init ==
    /\ pc = "starting" /\ timer = 0 /\ patience = SchemaWait
    /\ failures = 0 /\ left = 0 /\ shutdown = FALSE /\ killer = NULL
    /\ restarts = 0 /\ broken = FALSE /\ overdue = 0 /\ lag = 0
    /\ db \in BOOLEAN
    /\ \/ schema = TRUE /\ landing = Never
       \/ schema = FALSE /\ landing \in MigrationTimes

-----------------------------------------------------------------------------
(* Units of work.                                                           *)

BeginUnit(next) ==
    /\ pc' = next
    /\ timer' = WorkTime
    /\ broken' = ~db

\* The unit of work under way gets an answer.
Answered == db /\ ~broken

\* What it may raise instead: a lost or refused connection, or a bug.
Raisable == Bugs \cup (IF Answered THEN {} ELSE Weather)

\* _wait(shutdown, seconds) begins ...
Sleep(next, seconds) == pc' = next /\ timer' = seconds

\* Variant: asyncio.sleep in its place.
AwakeDeaf == timer = 0

\* ... and ends when the time is over or shutdown is requested.
Awake == timer = 0 \/ shutdown

Die(x) == pc' = "dead" /\ timer' = 0 /\ killer' = x

-----------------------------------------------------------------------------
(* await_schema.                                                            *)

BeginProbe ==
    /\ pc = "starting" /\ ~shutdown
    /\ BeginUnit("probing")
    /\ UNCHANGED <<patience, failures, left, killer, worldVars, shutdown,
                   overdue, lag>>

\* The loop is not entered, or left, because of a shutdown: it simply returns.
SchemaSkipped ==
    /\ pc = "starting" /\ shutdown
    /\ pc' = "looping"
    /\ UNCHANGED <<timer, patience, failures, left, killer, worldVars,
                   shutdown, broken, overdue, lag>>

ProbeFinds ==
    /\ pc = "probing" /\ Answered /\ schema
    /\ pc' = "looping" /\ timer' = 0
    /\ overdue' = 0
    /\ UNCHANGED <<patience, failures, left, killer, worldVars, shutdown,
                   broken, lag>>

\* Variant: the schedule the retries use, as a first draft had it.
SchemaPauseBackoff == next_delay_seconds(MAX_EXPONENT)

\* A steady poll: how long the startup wait sleeps between two probes.
SchemaPause == {PollInterval}

\* Not there, or no answer: the clock is read after the probe, and a deadline
\* that has passed is fatal.
ProbeMisses ==
    /\ pc = "probing"
    /\ \/ Answered /\ ~schema
       \/ \E x \in Raisable : is_retryable(x)
    /\ IF patience = 0
       THEN Die(NULL)
       ELSE (\E d \in SchemaPause : Sleep("awaiting", d)) /\ UNCHANGED killer
    /\ UNCHANGED <<patience, failures, left, worldVars, shutdown, broken,
                   overdue, lag>>

\* Variant: the loop looks at its deadline before it probes again.
AfterPauseHasty == IF patience = 0 THEN "dead" ELSE "starting"

AfterPause == "starting"

-----------------------------------------------------------------------------
(* run.                                                                     *)

BeginPoll ==
    /\ pc = "looping" /\ ~shutdown
    /\ BeginUnit("polling")
    /\ overdue' = 0
    /\ UNCHANGED <<patience, failures, left, killer, worldVars, shutdown, lag>>

Stop ==
    /\ pc = "looping" /\ shutdown
    /\ pc' = "stopped"
    /\ UNCHANGED <<timer, patience, failures, left, killer, worldVars,
                   shutdown, broken, overdue, lag>>

\* due_event_ids returns n ids.  An empty poll waits, a batch is worked off and
\* the loop comes straight back.
PollReturns(n) ==
    /\ pc = "polling" /\ Answered /\ schema
    /\ IF n = 0
       THEN Sleep("idling", PollInterval) /\ failures' = 0 /\ UNCHANGED broken
       ELSE BeginUnit("working") /\ UNCHANGED failures
    /\ left' = n
    /\ overdue' = 0
    /\ UNCHANGED <<patience, killer, worldVars, shutdown, lag>>

\* Variant: the loop over the batch runs one event too far.
LastOfBatchLate == left = 0

LastOfBatch == left = 1

\* process_event returns, whatever became of the event (its own failures are
\* recorded and do not come out of it).
EventDone ==
    /\ pc = "working" /\ db /\ schema
    /\ left' = left - 1
    /\ IF LastOfBatch
       THEN pc' = "looping" /\ timer' = 0 /\ failures' = 0 /\ UNCHANGED broken
       ELSE BeginUnit("working") /\ UNCHANGED failures
    /\ overdue' = 0
    /\ UNCHANGED <<patience, killer, worldVars, shutdown, lag>>

\* Variant: the worker leaves the loop when its database goes away.
AfterFailureExit == "stopped"

AfterFailure == "backing_off"

Counted == IF failures < MAX_EXPONENT THEN failures + 1 ELSE failures

\* poll_once raises something the taxonomy recognises: the rest of the batch is
\* dropped and the failure waited out, on the schedule of the retries.
WaitsOut ==
    /\ pc \in {"polling", "working"}
    /\ \E x \in Raisable : is_retryable(x)
    /\ failures' = Counted
    /\ \E d \in next_delay_seconds(Counted) : Sleep(AfterFailure, d)
    /\ left' = 0
    /\ UNCHANGED <<patience, killer, worldVars, shutdown, broken, overdue, lag>>

\* Anything else ends the process, as does a table that is gone.
Crashes(x) ==
    /\ \/ pc \in Units /\ x \in Raisable
       \/ /\ pc \in {"polling", "working"}
          /\ Answered /\ ~schema /\ x = UndefinedTable
    /\ ~is_retryable(x)
    /\ Die(x)
    /\ left' = 0
    /\ UNCHANGED <<patience, failures, worldVars, shutdown, broken, overdue, lag>>

\* A wait is over.
Wake ==
    /\ pc \in Waits /\ Awake
    /\ pc' = IF pc = "awaiting" THEN AfterPause ELSE "looping"
    /\ timer' = 0
    /\ UNCHANGED <<patience, failures, left, killer, worldVars, shutdown,
                   broken, overdue, lag>>

-----------------------------------------------------------------------------
(* The world.                                                               *)

\* SIGTERM or SIGINT.
RequestShutdown ==
    /\ Alive /\ ~shutdown
    /\ shutdown' = TRUE
    /\ UNCHANGED <<procVars, worldVars, broken, overdue, lag>>

\* The platform starts a new process in place of a dead one.
Restart ==
    /\ pc = "dead" /\ restarts < RestartBudget
    /\ restarts' = restarts + 1
    /\ pc' = "starting" /\ patience' = SchemaWait /\ failures' = 0
    /\ killer' = NULL /\ shutdown' = FALSE /\ overdue' = 0 /\ lag' = 0
    /\ UNCHANGED <<timer, left, db, broken, schema, landing>>

DatabaseLeaves ==
    /\ db
    /\ db' = FALSE
    /\ broken' = TRUE
    /\ overdue' = IF Alive THEN 0 ELSE overdue
    /\ UNCHANGED <<procVars, restarts, schema, landing, shutdown, lag>>

DatabaseReturns ==
    /\ ~db
    /\ db' = TRUE
    /\ UNCHANGED <<procVars, restarts, schema, landing, shutdown, broken,
                   overdue, lag>>

Migrate ==
    /\ ~schema /\ landing = 0
    /\ schema' = TRUE /\ landing' = Never
    /\ UNCHANGED <<procVars, restarts, db, shutdown, broken, overdue, lag>>

\* A downgrade pulls the table out from under a running worker; an upgrade may
\* follow.
Downgrade ==
    /\ schema
    /\ schema' = FALSE
    /\ landing' \in MigrationTimes
    /\ overdue' = IF Alive THEN 0 ELSE overdue
    /\ UNCHANGED <<procVars, restarts, db, shutdown, broken, lag>>

\* Ready to be used, by a worker that has not been asked to stop.
Idle == db /\ schema /\ Alive /\ ~shutdown

\* Time passes unless something has to happen first.
Tick ==
    /\ Alive => timer > 0
    /\ pc \in Waits => ~Awake
    /\ ~schema => landing # 0
    /\ timer' = IF Alive THEN timer - 1 ELSE timer
    /\ patience' = IF pc \in {"probing", "awaiting"} /\ patience > 0
                   THEN patience - 1 ELSE patience
    /\ landing' = IF landing = Never THEN Never ELSE landing - 1
    /\ overdue' = IF Idle THEN overdue + 1 ELSE overdue
    /\ lag' = IF Alive /\ shutdown THEN lag + 1 ELSE lag
    /\ UNCHANGED <<pc, failures, left, killer, restarts, db, schema,
                   shutdown, broken>>

-----------------------------------------------------------------------------

Loop ==
    \/ BeginProbe \/ SchemaSkipped \/ ProbeFinds \/ ProbeMisses
    \/ BeginPoll \/ Stop \/ \E n \in 0 .. BatchSize : PollReturns(n)
    \/ EventDone \/ WaitsOut \/ Wake

World ==
    \/ \E x \in Bugs \cup {UndefinedTable} : Crashes(x)
    \/ RequestShutdown \/ Restart
    \/ DatabaseLeaves \/ DatabaseReturns \/ Migrate \/ Downgrade

Next == Loop \/ World \/ Tick

Spec == Init /\ [][Next]_vars

\* The process takes its next step, time passes, and the platform restarts.
Fairness == WF_vars(Loop) /\ WF_vars(Tick) /\ WF_vars(Restart)

FairSpec == Spec /\ Fairness

-----------------------------------------------------------------------------
(* Properties.                                                              *)

\* What kills a worker: a bug, a table that vanished while it ran, or a startup
\* wait that ran out; and that only when the database was not there, or not
\* migrated, until at most one probe before the end.  A transient database
\* failure never does (ADR-0009).
DiesForCause ==
    pc = "dead" =>
        \/ killer \in Bugs \cup {UndefinedTable}
        \/ killer = NULL /\ overdue <= WorkTime

\* A schema that has landed is noticed within one poll interval and the two
\* probes around it: the startup wait is a steady poll.
ReadyPromptly ==
    pc \in {"starting", "probing", "awaiting"} =>
        overdue <= 2 * WorkTime + PollInterval

LongestWait == IF cap_seconds > PollInterval THEN cap_seconds ELSE PollInterval

\* After an outage of any length, and however many polls failed in it, the
\* worker polls again within the backoff cap of the database's return.
ResumesWithinCap ==
    Alive /\ pc \notin {"starting", "probing", "awaiting"} =>
        overdue <= WorkTime + LongestWait

\* A worker that is asked to stop works off the batch it has read or is reading,
\* begins no further poll and sleeps through no wait, however long its backoff.
\* The whole batch: poll_once does not look at the shutdown event.  That is more
\* than railway.worker.toml allows for (DrainsOneEvent, in MCWorkerLoop).
StopsAfterBatch == lag <= WorkTime * (1 + BatchSize)

\* ADR-0009: a worker outlives its database.  Once database and schema are there
\* for good, and nobody asks it to stop, it polls again and again, unless the
\* platform's patience with earlier crashes is exhausted.
KeepsPolling ==
    <>[](db /\ schema /\ ~shutdown) =>
        []<>(pc = "polling") \/ <>[](pc = "dead" /\ restarts = RestartBudget)

-----------------------------------------------------------------------------
(* The invariant the proofs are by induction on.  A wait or a unit of work  *)
(* is entitled to the ticks left on its timer: the measures are bounded     *)
(* together with them.                                                      *)

\* A migration that has landed does not land again.
Landed == schema => landing = Never

\* What does not await takes no time, and a batch worked on is not finished.
Untimed ==
    /\ pc \in {"starting", "looping", "stopped", "dead"} => timer = 0
    /\ pc = "working" => left >= 1

\* The measure of neglect runs only while there is something to neglect.
Unready == Alive /\ ~(db /\ schema) => overdue = 0

\* How long the database may have been neglected when the timer runs out.  A
\* probe that cannot succeed any more began when there was nothing to neglect.
Neglect ==
    /\ pc \in {"starting", "awaiting"} => overdue + timer <= WorkTime + PollInterval
    /\ pc = "probing" =>
          /\ overdue + timer <= 2 * WorkTime + PollInterval
          /\ broken => overdue + timer <= WorkTime
    /\ pc \in {"polling", "working"} => overdue + timer <= WorkTime
    /\ pc \in {"looping", "backing_off", "idling"} =>
          overdue + timer <= WorkTime + LongestWait

\* How long the worker may still take to stop: the unit under way, and one more
\* for each event of the batch behind it.
Draining ==
    /\ ~shutdown => lag = 0
    /\ pc \in {"probing", "polling"} => lag + timer <= WorkTime
    /\ pc = "working" =>
          /\ timer <= WorkTime
          /\ lag + timer + WorkTime * (left - 1) <= WorkTime * (1 + BatchSize)

WorkerInv ==
    /\ WorkerTypeOK /\ Landed /\ Untimed /\ Unready /\ Neglect /\ Draining
    /\ DiesForCause /\ StopsAfterBatch
=============================================================================
