-------------------------- MODULE WorkerLoopProofs --------------------------
(***************************************************************************)
(* Proofs about module WorkerLoop, for any setting of its intervals, batch *)
(* size and restart budget, any backoff schedule with a cap, and whatever  *)
(* the database and the migration do: what may kill a worker, how long it  *)
(* may neglect a database that is ready, how long it may take to stop.     *)
(***************************************************************************)
EXTENDS WorkerLoop, TLAPS

-----------------------------------------------------------------------------
(* Arithmetic and the constants.                                            *)

LEMMA Constants ==
    /\ SchemaWait \in Nat /\ PollInterval \in Nat /\ WorkTime \in Nat
    /\ BatchSize \in Nat /\ BatchSize >= 1 /\ RestartBudget \in Nat
    /\ cap_seconds \in Nat /\ MAX_EXPONENT \in Nat /\ LongestWait \in Nat
    /\ cap_seconds <= LongestWait /\ PollInterval <= LongestWait
BY WorkerAssumption, BackoffAssumption DEF LongestWait

\* The time for n units of work, and for one more.
LEMMA OneMoreUnit ==
    ASSUME NEW w \in Nat, NEW n \in Int
    PROVE  w * n \in Int /\ w * (n + 1) = w * n + w
OBVIOUS

LEMMA MoreUnits ==
    ASSUME NEW w \in Nat, NEW m \in Nat, NEW n \in Nat, m <= n
    PROVE  w * m <= w * n /\ w * m \in Nat
OBVIOUS

LEMMA LessLeft ==
    ASSUME NEW a \in Int, NEW b \in Int, NEW c \in Int, NEW d \in Int,
           a <= b, b + c <= d
    PROVE  a + c <= d
OBVIOUS

LEMMA WaitAfter ==
    ASSUME NEW a \in Nat, NEW b \in Nat, NEW t \in Nat, NEW w \in Nat,
           NEW longest \in Nat, NEW bound \in Nat,
           a + b <= w, t <= bound, bound <= longest
    PROVE  a + t <= w + longest
OBVIOUS

LEMMA TickedWithin ==
    ASSUME NEW a \in Nat, NEW b \in Nat, NEW c \in Nat, NEW d \in Nat,
           NEW w \in Nat, a + b <= c + d, c + d <= w
    PROVE  a + b <= w
OBVIOUS

\* The batch as a whole: it is part of what a stopping worker is allowed.
LEMMA BatchTime ==
    ASSUME NEW n \in Nat, n <= BatchSize
    PROVE  /\ WorkTime * n \in Nat
           /\ WorkTime * (n - 1) \in Int
           /\ WorkTime * (n - 1) = WorkTime * n - WorkTime
           /\ WorkTime * (1 + BatchSize) \in Nat
           /\ WorkTime + WorkTime * n <= WorkTime * (1 + BatchSize)
<1>1. WorkTime \in Nat /\ BatchSize \in Nat
  BY Constants
<1>2. WorkTime * n <= WorkTime * BatchSize /\ WorkTime * n \in Nat
  BY <1>1, MoreUnits
<1>3. WorkTime * (BatchSize + 1) = WorkTime * BatchSize + WorkTime
  BY <1>1, OneMoreUnit
<1>4. 1 + BatchSize = BatchSize + 1
  BY <1>1
<1>5. WorkTime * (n - 1) \in Int /\ WorkTime * ((n - 1) + 1) = WorkTime * (n - 1) + WorkTime
  BY <1>1, OneMoreUnit
<1>6. (n - 1) + 1 = n
  OBVIOUS
<1>7. WorkTime * BatchSize \in Int
  BY <1>1, OneMoreUnit
<1>8. WorkTime * (1 + BatchSize) = WorkTime * BatchSize + WorkTime
  BY <1>3, <1>4
<1>9. WorkTime * n = WorkTime * (n - 1) + WorkTime
  BY <1>5, <1>6
<1>10. WorkTime * (1 + BatchSize) \in Nat
  BY <1>1, <1>2, <1>7, <1>8
<1> QED
  BY <1>1, <1>2, <1>5, <1>7, <1>8, <1>9, <1>10

\* The jittered delay is never longer than the cap, whatever the attempt.
LEMMA DelayWithinCap ==
    ASSUME NEW n, NEW d \in next_delay_seconds(n)
    PROVE  d \in Nat /\ d <= cap_seconds
BY Constants DEF next_delay_seconds

LEMMA UndefinedTableIsException == UndefinedTable \in Exceptions
BY DEF UndefinedTable, Exceptions, ExceptionClass, SqlState, RETRYABLE_SQLSTATES

-----------------------------------------------------------------------------

LEMMA InitInv == Init => WorkerInv
<1> SUFFICES ASSUME Init PROVE WorkerInv
  OBVIOUS
<1>1. WorkerTypeOK
  <2>1. landing \in Nat \cup {Never} /\ schema \in BOOLEAN
    BY WorkerAssumption DEF Init
  <2>2. /\ patience \in 0 .. SchemaWait /\ failures \in 0 .. MAX_EXPONENT
        /\ left \in 0 .. BatchSize /\ restarts \in 0 .. RestartBudget
        /\ timer \in Nat /\ overdue \in Nat /\ lag \in Nat
    BY Constants DEF Init
  <2> QED
    BY <2>1, <2>2 DEF Init, WorkerTypeOK
<1>2. Landed /\ Untimed /\ Unready /\ DiesForCause
  BY DEF Init, Landed, Untimed, Unready, DiesForCause
<1>3. Neglect /\ Draining
  BY Constants DEF Init, Neglect, Draining
<1>4. StopsAfterBatch
  <2>1. WorkTime * (1 + BatchSize) \in Nat
    BY Constants, BatchTime
  <2> QED
    BY <2>1 DEF Init, StopsAfterBatch
<1> QED
  BY <1>1, <1>2, <1>3, <1>4 DEF WorkerInv

-----------------------------------------------------------------------------
(* await_schema.                                                            *)

LEMMA BeginProbeInv ==
    ASSUME WorkerInv, BeginProbe
    PROVE  WorkerInv'
<1> USE Constants
<1>1. /\ pc = "starting" /\ pc' = "probing" /\ ~shutdown /\ timer' = WorkTime
      /\ broken' = ~db
      /\ UNCHANGED <<patience, failures, left, killer, restarts, db, schema,
                     landing, shutdown, overdue, lag>>
  BY DEF BeginProbe, BeginUnit, worldVars
<1>2. WorkerTypeOK'
  BY <1>1 DEF WorkerInv, WorkerTypeOK, Units
<1>3. Landed' /\ Untimed' /\ Unready' /\ DiesForCause' /\ StopsAfterBatch'
  BY <1>1 DEF WorkerInv, Landed, Untimed, Unready, Alive, DiesForCause,
              StopsAfterBatch
<1>4. Neglect'
  BY <1>1 DEF WorkerInv, WorkerTypeOK, Neglect, Unready, Alive, Untimed
<1>5. Draining'
  BY <1>1 DEF WorkerInv, WorkerTypeOK, Draining
<1> QED
  BY <1>2, <1>3, <1>4, <1>5 DEF WorkerInv

LEMMA SchemaSkippedInv ==
    ASSUME WorkerInv, SchemaSkipped
    PROVE  WorkerInv'
<1> USE Constants
<1>1. /\ pc = "starting" /\ pc' = "looping" /\ shutdown
      /\ UNCHANGED <<timer, patience, failures, left, killer, restarts, db,
                     schema, landing, shutdown, broken, overdue, lag>>
  BY DEF SchemaSkipped, worldVars
<1>2. WorkerTypeOK'
  BY <1>1 DEF WorkerInv, WorkerTypeOK
<1>3. Landed' /\ Untimed' /\ Unready' /\ DiesForCause' /\ StopsAfterBatch'
  BY <1>1 DEF WorkerInv, Landed, Untimed, Unready, Alive, DiesForCause,
              StopsAfterBatch
<1>4. Neglect' /\ Draining'
  BY <1>1 DEF WorkerInv, WorkerTypeOK, Neglect, Draining
<1> QED
  BY <1>2, <1>3, <1>4 DEF WorkerInv

LEMMA ProbeFindsInv ==
    ASSUME WorkerInv, ProbeFinds
    PROVE  WorkerInv'
<1> USE Constants
<1>1. /\ pc = "probing" /\ pc' = "looping" /\ timer' = 0 /\ overdue' = 0
      /\ UNCHANGED <<patience, failures, left, killer, restarts, db,
                     schema, landing, shutdown, broken, lag>>
  BY DEF ProbeFinds, worldVars
<1>2. WorkerTypeOK'
  BY <1>1 DEF WorkerInv, WorkerTypeOK
<1>3. Landed' /\ Untimed' /\ Unready' /\ DiesForCause' /\ StopsAfterBatch'
  BY <1>1 DEF WorkerInv, Landed, Untimed, Unready, Alive, DiesForCause,
              StopsAfterBatch
<1>4. Neglect' /\ Draining'
  BY <1>1 DEF WorkerInv, WorkerTypeOK, Neglect, Draining
<1> QED
  BY <1>2, <1>3, <1>4 DEF WorkerInv

\* A probe that found nothing, or got no answer, has not neglected the database
\* for longer than itself.
LEMMA ProbeMissesInv ==
    ASSUME WorkerInv, ProbeMisses
    PROVE  WorkerInv'
<1> USE Constants
<1>1. /\ pc = "probing"
      /\ UNCHANGED <<patience, failures, left, restarts, db, schema, landing,
                     shutdown, broken, overdue, lag>>
  BY DEF ProbeMisses, worldVars
<1>2. overdue <= WorkTime
  <2>1. CASE ~schema \/ ~db
    BY <1>1, <2>1 DEF WorkerInv, Unready, Alive
  <2>2. CASE broken
    BY <1>1, <2>2 DEF WorkerInv, WorkerTypeOK, Neglect
  <2>3. ASSUME NEW x \in Raisable, is_retryable(x), db, ~broken PROVE FALSE
    BY <2>3, WorkerAssumption DEF Raisable, Answered
  <2> QED
    BY <2>1, <2>2, <2>3 DEF ProbeMisses
<1>3. CASE patience = 0
  <2>1. pc' = "dead" /\ timer' = 0 /\ killer' = NULL
    BY <1>3 DEF ProbeMisses, Die
  <2>2. WorkerTypeOK'
    BY <1>1, <2>1 DEF WorkerInv, WorkerTypeOK
  <2>3. Landed' /\ Untimed' /\ Unready' /\ DiesForCause' /\ StopsAfterBatch'
    BY <1>1, <1>2, <2>1 DEF WorkerInv, Landed, Untimed, Unready, Alive,
                            DiesForCause, StopsAfterBatch
  <2>4. Neglect' /\ Draining'
    BY <1>1, <2>1 DEF WorkerInv, Neglect, Draining
  <2> QED
    BY <2>2, <2>3, <2>4 DEF WorkerInv
<1>4. CASE patience # 0
  <2>1. pc' = "awaiting" /\ timer' = PollInterval /\ killer' = killer
    BY <1>4 DEF ProbeMisses, SchemaPause, Sleep
  <2>2. WorkerTypeOK'
    BY <1>1, <2>1 DEF WorkerInv, WorkerTypeOK, Waits
  <2>3. Landed' /\ Untimed' /\ Unready' /\ DiesForCause' /\ StopsAfterBatch'
    BY <1>1, <2>1 DEF WorkerInv, Landed, Untimed, Unready, Alive,
                      DiesForCause, StopsAfterBatch
  <2>4. Neglect' /\ Draining'
    BY <1>1, <1>2, <2>1 DEF WorkerInv, WorkerTypeOK, Neglect, Draining
  <2> QED
    BY <2>2, <2>3, <2>4 DEF WorkerInv
<1> QED
  BY <1>3, <1>4

-----------------------------------------------------------------------------
(* run.                                                                     *)

LEMMA BeginPollInv ==
    ASSUME WorkerInv, BeginPoll
    PROVE  WorkerInv'
<1> USE Constants
<1>1. /\ pc = "looping" /\ pc' = "polling" /\ ~shutdown /\ timer' = WorkTime
      /\ broken' = ~db /\ overdue' = 0
      /\ UNCHANGED <<patience, failures, left, killer, restarts, db, schema,
                     landing, shutdown, lag>>
  BY DEF BeginPoll, BeginUnit, worldVars
<1>2. WorkerTypeOK'
  BY <1>1 DEF WorkerInv, WorkerTypeOK, Units
<1>3. Landed' /\ Untimed' /\ Unready' /\ DiesForCause' /\ StopsAfterBatch'
  BY <1>1 DEF WorkerInv, Landed, Untimed, Unready, Alive, DiesForCause,
              StopsAfterBatch
<1>4. Neglect' /\ Draining'
  BY <1>1 DEF WorkerInv, WorkerTypeOK, Neglect, Draining
<1> QED
  BY <1>2, <1>3, <1>4 DEF WorkerInv

LEMMA StopInv ==
    ASSUME WorkerInv, Stop
    PROVE  WorkerInv'
<1>1. /\ pc = "looping" /\ pc' = "stopped"
      /\ UNCHANGED <<timer, patience, failures, left, killer, restarts, db,
                     schema, landing, shutdown, broken, overdue, lag>>
  BY DEF Stop, worldVars
<1>2. WorkerTypeOK'
  BY <1>1 DEF WorkerInv, WorkerTypeOK
<1>3. Landed' /\ Untimed' /\ Unready' /\ DiesForCause' /\ StopsAfterBatch'
  BY <1>1 DEF WorkerInv, Landed, Untimed, Unready, Alive, DiesForCause,
              StopsAfterBatch
<1>4. Neglect' /\ Draining'
  BY <1>1 DEF WorkerInv, Neglect, Draining
<1> QED
  BY <1>2, <1>3, <1>4 DEF WorkerInv

\* A batch of n is n units more.
LEMMA PollReturnsInv ==
    ASSUME WorkerInv, NEW n \in 0 .. BatchSize, PollReturns(n)
    PROVE  WorkerInv'
<1> USE Constants
<1>1. /\ pc = "polling" /\ left' = n /\ overdue' = 0
      /\ UNCHANGED <<patience, killer, restarts, db, schema, landing,
                     shutdown, lag>>
  BY DEF PollReturns, worldVars
<1>2. CASE n = 0
  <2>1. /\ pc' = "idling" /\ timer' = PollInterval /\ failures' = 0
        /\ UNCHANGED broken
    BY <1>2 DEF PollReturns, Sleep
  <2>2. WorkerTypeOK'
    BY <1>1, <2>1 DEF WorkerInv, WorkerTypeOK, Waits
  <2>3. Landed' /\ Untimed' /\ Unready' /\ DiesForCause' /\ StopsAfterBatch'
    BY <1>1, <2>1 DEF WorkerInv, Landed, Untimed, Unready, Alive,
                      DiesForCause, StopsAfterBatch
  <2>4. Neglect' /\ Draining'
    BY <1>1, <2>1 DEF WorkerInv, WorkerTypeOK, Neglect, Draining
  <2> QED
    BY <2>2, <2>3, <2>4 DEF WorkerInv
<1>3. CASE n # 0
  <2>1. pc' = "working" /\ timer' = WorkTime /\ broken' = ~db /\ failures' = failures
    BY <1>3 DEF PollReturns, BeginUnit
  <2>2. WorkerTypeOK'
    BY <1>1, <2>1 DEF WorkerInv, WorkerTypeOK, Units
  <2>3. Landed' /\ Untimed' /\ Unready' /\ DiesForCause' /\ StopsAfterBatch'
    BY <1>1, <1>3, <2>1 DEF WorkerInv, Landed, Untimed, Unready, Alive,
                            DiesForCause, StopsAfterBatch
  <2>4. Neglect'
    BY <1>1, <2>1 DEF WorkerInv, WorkerTypeOK, Neglect
  <2>5. Draining'
    <3>1. /\ WorkTime * (n - 1) \in Int /\ WorkTime * n \in Nat
          /\ WorkTime * (n - 1) = WorkTime * n - WorkTime
          /\ WorkTime * (1 + BatchSize) \in Nat
          /\ WorkTime + WorkTime * n <= WorkTime * (1 + BatchSize)
      BY BatchTime
    <3>2. lag \in Nat /\ timer \in Nat /\ lag + timer <= WorkTime
      BY <1>1 DEF WorkerInv, WorkerTypeOK, Draining
    <3>3. lag + WorkTime + WorkTime * (n - 1) <= WorkTime * (1 + BatchSize)
      BY <3>1, <3>2
    <3> QED
      BY <1>1, <2>1, <3>3 DEF WorkerInv, WorkerTypeOK, Draining
  <2> QED
    BY <2>2, <2>3, <2>4, <2>5 DEF WorkerInv
<1> QED
  BY <1>2, <1>3

LEMMA EventDoneInv ==
    ASSUME WorkerInv, EventDone
    PROVE  WorkerInv'
<1> USE Constants
<1>1. /\ pc = "working" /\ left' = left - 1 /\ overdue' = 0
      /\ UNCHANGED <<patience, killer, restarts, db, schema, landing,
                     shutdown, lag>>
  BY DEF EventDone, worldVars
<1>2. left \in 1 .. BatchSize
  BY <1>1 DEF WorkerInv, WorkerTypeOK, Untimed
<1>3. CASE left = 1
  <2>1. pc' = "looping" /\ timer' = 0 /\ failures' = 0 /\ UNCHANGED broken
    BY <1>3 DEF EventDone, LastOfBatch
  <2>2. WorkerTypeOK'
    BY <1>1, <1>2, <2>1 DEF WorkerInv, WorkerTypeOK
  <2>3. Landed' /\ Untimed' /\ Unready' /\ DiesForCause' /\ StopsAfterBatch'
    BY <1>1, <2>1 DEF WorkerInv, Landed, Untimed, Unready, Alive,
                      DiesForCause, StopsAfterBatch
  <2>4. Neglect' /\ Draining'
    BY <1>1, <2>1 DEF WorkerInv, WorkerTypeOK, Neglect, Draining
  <2> QED
    BY <2>2, <2>3, <2>4 DEF WorkerInv
<1>4. CASE left # 1
  <2>1. pc' = "working" /\ timer' = WorkTime /\ broken' = ~db /\ failures' = failures
    BY <1>4 DEF EventDone, LastOfBatch, BeginUnit
  <2>2. WorkerTypeOK'
    BY <1>1, <1>2, <2>1 DEF WorkerInv, WorkerTypeOK, Units
  <2>3. Landed' /\ Untimed' /\ Unready' /\ DiesForCause' /\ StopsAfterBatch'
    BY <1>1, <1>2, <1>4, <2>1 DEF WorkerInv, Landed, Untimed, Unready, Alive,
                                  DiesForCause, StopsAfterBatch
  <2>4. Neglect'
    BY <1>1, <2>1 DEF WorkerInv, WorkerTypeOK, Neglect
  <2>5. Draining'
    <3> DEFINE n == left - 1
    <3>1. n \in Nat /\ n <= BatchSize
      BY <1>2
    <3>2. /\ WorkTime * (n - 1) \in Int
          /\ WorkTime * (n - 1) = WorkTime * n - WorkTime
          /\ WorkTime * n \in Nat /\ WorkTime * (1 + BatchSize) \in Nat
      BY <3>1, BatchTime
    <3>3. /\ lag \in Nat /\ timer \in Nat
          /\ lag + timer + WorkTime * n <= WorkTime * (1 + BatchSize)
      BY <1>1 DEF WorkerInv, WorkerTypeOK, Draining
    <3>4. lag + WorkTime + WorkTime * (n - 1) <= WorkTime * (1 + BatchSize)
      BY <3>2, <3>3
    <3> QED
      BY <1>1, <2>1, <3>4 DEF WorkerInv, WorkerTypeOK, Draining
  <2> QED
    BY <2>2, <2>3, <2>4, <2>5 DEF WorkerInv
<1> QED
  BY <1>3, <1>4

\* A failed poll is followed by a wait of at most the cap.
LEMMA WaitsOutInv ==
    ASSUME WorkerInv, WaitsOut
    PROVE  WorkerInv'
<1> USE Constants
<1>1. /\ pc \in {"polling", "working"} /\ pc' = "backing_off" /\ left' = 0
      /\ failures' = Counted /\ timer' \in Nat /\ timer' <= cap_seconds
      /\ UNCHANGED <<patience, killer, restarts, db, schema, landing,
                     shutdown, broken, overdue, lag>>
  <2>1. PICK d \in next_delay_seconds(Counted) : Sleep(AfterFailure, d)
    BY DEF WaitsOut
  <2>2. pc' = "backing_off" /\ timer' \in Nat /\ timer' <= cap_seconds
    BY <2>1, DelayWithinCap DEF Sleep, AfterFailure
  <2> QED
    BY <2>2 DEF WaitsOut, worldVars
<1>2. Counted \in 0 .. MAX_EXPONENT
  BY DEF WorkerInv, WorkerTypeOK, Counted
<1>3. WorkerTypeOK'
  BY <1>1, <1>2 DEF WorkerInv, WorkerTypeOK, Waits
<1>4. Landed' /\ Untimed' /\ Unready' /\ DiesForCause' /\ StopsAfterBatch'
  BY <1>1 DEF WorkerInv, Landed, Untimed, Unready, Alive, DiesForCause,
              StopsAfterBatch
<1>5. Neglect'
  <2>1. overdue \in Nat /\ timer \in Nat /\ overdue + timer <= WorkTime
    BY <1>1 DEF WorkerInv, WorkerTypeOK, Neglect
  <2>2. overdue + timer' <= WorkTime + LongestWait
    BY <1>1, <2>1, WaitAfter
  <2>3. pc' = "backing_off" /\ overdue' = overdue
    BY <1>1
  <2> QED
    BY <1>3, <2>2, <2>3 DEF WorkerTypeOK, Neglect
<1>6. Draining'
  BY <1>1 DEF WorkerInv, Draining
<1> QED
  BY <1>3, <1>4, <1>5, <1>6 DEF WorkerInv

LEMMA CrashesInv ==
    ASSUME WorkerInv, NEW x \in Bugs \cup {UndefinedTable}, Crashes(x)
    PROVE  WorkerInv'
<1> USE Constants
<1>1. /\ pc' = "dead" /\ timer' = 0 /\ killer' = x /\ left' = 0
      /\ UNCHANGED <<patience, failures, restarts, db, schema, landing,
                     shutdown, broken, overdue, lag>>
  BY DEF Crashes, Die, worldVars
<1>2. x \in Exceptions
  BY WorkerAssumption, UndefinedTableIsException
<1>3. WorkerTypeOK'
  BY <1>1, <1>2 DEF WorkerInv, WorkerTypeOK
<1>4. Landed' /\ Untimed' /\ Unready' /\ DiesForCause' /\ StopsAfterBatch'
  BY <1>1 DEF WorkerInv, Landed, Untimed, Unready, Alive, DiesForCause,
              StopsAfterBatch
<1>5. Neglect' /\ Draining'
  BY <1>1 DEF WorkerInv, Neglect, Draining
<1> QED
  BY <1>3, <1>4, <1>5 DEF WorkerInv

LEMMA WakeInv ==
    ASSUME WorkerInv, Wake
    PROVE  WorkerInv'
<1> USE Constants
<1>1. /\ pc \in {"awaiting", "backing_off", "idling"}
      /\ pc' = (IF pc = "awaiting" THEN "starting" ELSE "looping") /\ timer' = 0
      /\ UNCHANGED <<patience, failures, left, killer, restarts, db, schema,
                     landing, shutdown, broken, overdue, lag>>
  BY DEF Wake, Waits, AfterPause, worldVars
<1>2. WorkerTypeOK'
  BY <1>1 DEF WorkerInv, WorkerTypeOK
<1>3. Landed' /\ Untimed' /\ Unready' /\ DiesForCause' /\ StopsAfterBatch'
  BY <1>1 DEF WorkerInv, Landed, Untimed, Unready, Alive, DiesForCause,
              StopsAfterBatch
<1>4. Neglect' /\ Draining'
  BY <1>1 DEF WorkerInv, WorkerTypeOK, Neglect, Draining
<1> QED
  BY <1>2, <1>3, <1>4 DEF WorkerInv

-----------------------------------------------------------------------------
(* The world.                                                               *)

LEMMA RequestShutdownInv ==
    ASSUME WorkerInv, RequestShutdown
    PROVE  WorkerInv'
<1>1. /\ shutdown' = TRUE
      /\ UNCHANGED <<pc, timer, patience, failures, left, killer, restarts, db,
                     schema, landing, broken, overdue, lag>>
  BY DEF RequestShutdown, procVars, worldVars
<1>2. WorkerTypeOK'
  BY <1>1 DEF WorkerInv, WorkerTypeOK
<1>3. Landed' /\ Untimed' /\ Unready' /\ DiesForCause' /\ StopsAfterBatch'
  BY <1>1 DEF WorkerInv, Landed, Untimed, Unready, Alive, DiesForCause,
              StopsAfterBatch
<1>4. Neglect' /\ Draining'
  BY <1>1 DEF WorkerInv, Neglect, Draining
<1> QED
  BY <1>2, <1>3, <1>4 DEF WorkerInv

LEMMA RestartInv ==
    ASSUME WorkerInv, Restart
    PROVE  WorkerInv'
<1> USE Constants
<1>1. /\ pc = "dead" /\ restarts < RestartBudget /\ restarts' = restarts + 1
      /\ pc' = "starting" /\ patience' = SchemaWait /\ failures' = 0
      /\ killer' = NULL /\ shutdown' = FALSE /\ overdue' = 0 /\ lag' = 0
      /\ UNCHANGED <<timer, left, db, broken, schema, landing>>
  BY DEF Restart
<1>2. WorkerTypeOK'
  <2>1. /\ restarts' \in 0 .. RestartBudget /\ patience' \in 0 .. SchemaWait
        /\ failures' \in 0 .. MAX_EXPONENT /\ overdue' \in Nat /\ lag' \in Nat
    BY <1>1 DEF WorkerInv, WorkerTypeOK
  <2> QED
    BY <1>1, <2>1 DEF WorkerInv, WorkerTypeOK
<1>3. Landed' /\ Untimed' /\ Unready' /\ DiesForCause'
  BY <1>1 DEF WorkerInv, Landed, Untimed, Unready, Alive, DiesForCause
<1>4. StopsAfterBatch'
  BY <1>1, BatchTime DEF StopsAfterBatch
<1>5. Neglect' /\ Draining'
  BY <1>1 DEF WorkerInv, WorkerTypeOK, Neglect, Draining, Untimed
<1> QED
  BY <1>2, <1>3, <1>4, <1>5 DEF WorkerInv

\* The database goes away: nothing is neglected from now on, and the unit under
\* way is spoiled.
LEMMA DatabaseLeavesInv ==
    ASSUME WorkerInv, DatabaseLeaves
    PROVE  WorkerInv'
<1> USE Constants
<1>1. /\ db' = FALSE /\ broken' = TRUE
      /\ overdue' = (IF Alive THEN 0 ELSE overdue)
      /\ UNCHANGED <<pc, timer, patience, failures, left, killer, restarts,
                     schema, landing, shutdown, lag>>
  BY DEF DatabaseLeaves, procVars
<1>2. WorkerTypeOK'
  BY <1>1 DEF WorkerInv, WorkerTypeOK
<1>3. Landed' /\ Untimed' /\ Unready' /\ DiesForCause' /\ StopsAfterBatch'
  BY <1>1 DEF WorkerInv, Landed, Untimed, Unready, Alive, DiesForCause,
              StopsAfterBatch
<1>4. overdue' \in Nat /\ overdue' <= overdue /\ timer \in Nat /\ lag \in Nat
  BY <1>1 DEF WorkerInv, WorkerTypeOK
<1>5. pc = "probing" => overdue' = 0 /\ timer <= WorkTime
  BY <1>1, <1>4 DEF WorkerInv, Draining, Alive
<1>6. Neglect' /\ Draining'
  BY <1>1, <1>4, <1>5 DEF WorkerInv, WorkerTypeOK, Neglect, Draining
<1> QED
  BY <1>2, <1>3, <1>6 DEF WorkerInv

\* The database comes back, or the migration lands: time begins to count, and
\* not before.
LEMMA DatabaseReturnsInv ==
    ASSUME WorkerInv, DatabaseReturns
    PROVE  WorkerInv'
<1>1. /\ db' = TRUE
      /\ UNCHANGED <<pc, timer, patience, failures, left, killer, restarts,
                     schema, landing, shutdown, broken, overdue, lag>>
  BY DEF DatabaseReturns, procVars
<1>2. WorkerTypeOK'
  BY <1>1 DEF WorkerInv, WorkerTypeOK
<1>3. Landed' /\ Untimed' /\ Unready' /\ DiesForCause' /\ StopsAfterBatch'
  BY <1>1 DEF WorkerInv, Landed, Untimed, Unready, Alive, DiesForCause,
              StopsAfterBatch
<1>4. Neglect' /\ Draining'
  BY <1>1 DEF WorkerInv, Neglect, Draining
<1> QED
  BY <1>2, <1>3, <1>4 DEF WorkerInv

LEMMA MigrateInv ==
    ASSUME WorkerInv, Migrate
    PROVE  WorkerInv'
<1>1. /\ schema' = TRUE /\ landing' = Never
      /\ UNCHANGED <<pc, timer, patience, failures, left, killer, restarts,
                     db, shutdown, broken, overdue, lag>>
  BY DEF Migrate, procVars
<1>2. WorkerTypeOK'
  BY <1>1 DEF WorkerInv, WorkerTypeOK
<1>3. Landed' /\ Untimed' /\ Unready' /\ DiesForCause' /\ StopsAfterBatch'
  BY <1>1 DEF WorkerInv, Landed, Untimed, Unready, Alive, DiesForCause,
              StopsAfterBatch
<1>4. Neglect' /\ Draining'
  BY <1>1 DEF WorkerInv, Neglect, Draining
<1> QED
  BY <1>2, <1>3, <1>4 DEF WorkerInv

LEMMA DowngradeInv ==
    ASSUME WorkerInv, Downgrade
    PROVE  WorkerInv'
<1> USE Constants
<1>1. /\ schema' = FALSE /\ landing' \in MigrationTimes
      /\ overdue' = (IF Alive THEN 0 ELSE overdue)
      /\ UNCHANGED <<pc, timer, patience, failures, left, killer, restarts, db,
                     shutdown, broken, lag>>
  BY DEF Downgrade, procVars
<1>2. WorkerTypeOK'
  BY <1>1, WorkerAssumption DEF WorkerInv, WorkerTypeOK
<1>3. Landed' /\ Untimed' /\ Unready' /\ DiesForCause' /\ StopsAfterBatch'
  BY <1>1 DEF WorkerInv, Landed, Untimed, Unready, Alive, DiesForCause,
              StopsAfterBatch
<1>4. overdue' \in Nat /\ overdue' <= overdue /\ timer \in Nat /\ lag \in Nat
  BY <1>1 DEF WorkerInv, WorkerTypeOK
<1>5. Neglect' /\ Draining'
  BY <1>1, <1>4 DEF WorkerInv, WorkerTypeOK, Neglect, Draining
<1> QED
  BY <1>2, <1>3, <1>5 DEF WorkerInv

\* A tick takes from the timer what it adds to the measures.
LEMMA TickInv ==
    ASSUME WorkerInv, Tick
    PROVE  WorkerInv'
<1> USE Constants
<1>1. /\ Alive => timer > 0
      /\ pc \in Waits => ~Awake
      /\ ~schema => landing # 0
      /\ timer' = (IF Alive THEN timer - 1 ELSE timer)
      /\ patience' = (IF pc \in {"probing", "awaiting"} /\ patience > 0
                      THEN patience - 1 ELSE patience)
      /\ landing' = (IF landing = Never THEN Never ELSE landing - 1)
      /\ overdue' = (IF Idle THEN overdue + 1 ELSE overdue)
      /\ lag' = (IF Alive /\ shutdown THEN lag + 1 ELSE lag)
      /\ UNCHANGED <<pc, failures, left, killer, restarts, db, schema,
                     shutdown, broken>>
  BY DEF Tick
<1>2. timer \in Nat /\ overdue \in Nat /\ lag \in Nat /\ patience \in 0 .. SchemaWait
  BY DEF WorkerInv, WorkerTypeOK
<1>3. timer' \in Nat /\ overdue' \in Nat /\ lag' \in Nat /\ patience' \in 0 .. SchemaWait
  BY <1>1, <1>2
<1>4. landing' \in Nat \cup {Never} /\ (schema => landing' = Never)
  BY <1>1, WorkerAssumption DEF WorkerInv, WorkerTypeOK, Landed
<1>5. WorkerTypeOK'
  BY <1>1, <1>3, <1>4 DEF WorkerInv, WorkerTypeOK
<1>6. Landed' /\ Untimed' /\ Unready'
  BY <1>1, <1>2, <1>4 DEF WorkerInv, Landed, Untimed, Unready, Alive, Idle
<1>7. DiesForCause'
  BY <1>1 DEF WorkerInv, DiesForCause, Idle, Alive
<1>8. /\ Alive => overdue' + timer' <= overdue + timer
      /\ Alive => lag' + timer' <= lag + timer
  BY <1>1, <1>2
<1>9. Neglect'
  BY <1>1, <1>2, <1>3, <1>8 DEF WorkerInv, Neglect, Alive, Untimed
<1>10. Draining'
  <2>1. ~shutdown => lag' = 0
    BY <1>1 DEF WorkerInv, Draining
  <2>2. ASSUME pc \in {"probing", "polling"}
        PROVE  lag' + timer' <= WorkTime
    <3>1. lag + timer <= WorkTime
      BY <2>2 DEF WorkerInv, Draining
    <3>2. lag' + timer' <= lag + timer
      BY <1>8, <2>2 DEF Alive
    <3> QED
      BY <1>2, <1>3, <3>1, <3>2, TickedWithin
  <2>3. ASSUME pc = "working"
        PROVE  /\ timer' <= WorkTime
               /\ lag' + timer' + WorkTime * (left - 1) <= WorkTime * (1 + BatchSize)
    <3>1. /\ timer <= WorkTime
          /\ lag + timer + WorkTime * (left - 1) <= WorkTime * (1 + BatchSize)
      BY <2>3 DEF WorkerInv, Draining
    <3>2. lag' + timer' <= lag + timer /\ timer' <= timer
      BY <1>1, <1>2, <1>8, <2>3 DEF Alive
    <3>3. WorkTime * (left - 1) \in Int /\ WorkTime * (1 + BatchSize) \in Nat
      BY BatchTime DEF WorkerInv, WorkerTypeOK
    <3>4. lag' + timer' \in Int /\ lag + timer \in Int /\ timer' <= WorkTime
      BY <1>2, <1>3, <3>1, <3>2
    <3>5. (lag' + timer') + WorkTime * (left - 1) <= WorkTime * (1 + BatchSize)
      BY <3>1, <3>2, <3>3, <3>4, LessLeft
    <3> QED
      BY <3>4, <3>5
  <2> QED
    BY <1>1, <2>1, <2>2, <2>3 DEF Draining
<1>11. StopsAfterBatch'
  <2>1. CASE ~(Alive /\ shutdown)
    BY <1>1, <2>1 DEF WorkerInv, StopsAfterBatch
  <2>2. CASE Alive /\ shutdown
    <3>1. pc \in {"probing", "polling", "working"}
      BY <1>1, <2>2 DEF WorkerInv, WorkerTypeOK, Untimed, Alive, Waits, Units, Awake
    <3>2. left \in Nat /\ left <= BatchSize
      BY DEF WorkerInv, WorkerTypeOK
    <3>3. /\ WorkTime * (1 + BatchSize) \in Nat
          /\ WorkTime * 0 \in Nat /\ WorkTime + WorkTime * 0 <= WorkTime * (1 + BatchSize)
      BY BatchTime
    <3>4. CASE pc \in {"probing", "polling"}
      BY <1>1, <1>2, <1>3, <1>10, <3>3, <3>4 DEF Draining, StopsAfterBatch
    <3>5. CASE pc = "working"
      <4>1. left - 1 \in Nat /\ left - 1 <= BatchSize
        BY <3>2, <3>5 DEF WorkerInv, Untimed
      <4>2. WorkTime * (left - 1) \in Nat
        BY <4>1, BatchTime
      <4>3. lag' + timer' + WorkTime * (left - 1) <= WorkTime * (1 + BatchSize)
        BY <1>1, <1>10, <3>5 DEF Draining
      <4> QED
        BY <1>3, <3>3, <4>2, <4>3 DEF StopsAfterBatch
    <3> QED
      BY <3>1, <3>4, <3>5
  <2> QED
    BY <2>1, <2>2
<1> QED
  BY <1>5, <1>6, <1>7, <1>9, <1>10, <1>11 DEF WorkerInv

-----------------------------------------------------------------------------
(* The theorems.                                                            *)

LEMMA StepInv == WorkerInv /\ [Next]_vars => WorkerInv'
<1> SUFFICES ASSUME WorkerInv, [Next]_vars PROVE WorkerInv'
  OBVIOUS
<1>1. CASE Loop
  BY <1>1, BeginProbeInv, SchemaSkippedInv, ProbeFindsInv, ProbeMissesInv,
     BeginPollInv, StopInv, PollReturnsInv, EventDoneInv, WaitsOutInv, WakeInv
  DEF Loop
<1>2. CASE World
  BY <1>2, CrashesInv, RequestShutdownInv, RestartInv, DatabaseLeavesInv,
     DatabaseReturnsInv, MigrateInv, DowngradeInv
  DEF World
<1>3. CASE UNCHANGED vars
  BY <1>3 DEF vars, procVars, worldVars, WorkerInv, WorkerTypeOK, Landed, Untimed,
              Unready, Alive, Neglect, Draining, DiesForCause, StopsAfterBatch
<1> QED
  BY <1>1, <1>2, <1>3, TickInv DEF Next

\* WorkerInv holds of every state the process, its platform, its database and
\* the migration can bring about.
THEOREM WorkerInvariance == Spec => []WorkerInv
<1>1. Init => WorkerInv
  BY InitInv
<1>2. WorkerInv /\ [Next]_vars => WorkerInv'
  BY StepInv
<1> QED
  BY <1>1, <1>2, PTL DEF Spec

\* Type correctness: in particular the batch never runs past its end.
THEOREM WorkerTypeCorrect == Spec => []WorkerTypeOK
<1>1. WorkerInv => WorkerTypeOK
  BY DEF WorkerInv
<1> QED
  BY <1>1, WorkerInvariance, PTL

\* ADR-0009: a worker dies of a bug, of a table that vanished, or of a startup
\* wait that ran out on a database not ready until at most one probe before.
THEOREM DeathHasCause == Spec => []DiesForCause
<1>1. WorkerInv => DiesForCause
  BY DEF WorkerInv
<1> QED
  BY <1>1, WorkerInvariance, PTL

\* await_schema: a schema that has landed is noticed within one poll interval
\* and the two probes around it.
THEOREM SchemaNoticed == Spec => []ReadyPromptly
<1>1. WorkerInv => ReadyPromptly
  BY Constants DEF WorkerInv, WorkerTypeOK, Neglect, ReadyPromptly
<1> QED
  BY <1>1, WorkerInvariance, PTL

\* run: however long the outage and however many polls failed in it, the worker
\* polls again within the longest wait it may have begun, and one unit of work.
THEOREM OutageOutlived == Spec => []ResumesWithinCap
<1>1. WorkerInv => ResumesWithinCap
  BY Constants DEF WorkerInv, WorkerTypeOK, Neglect, ResumesWithinCap, Alive, Waits,
                   Units
<1> QED
  BY <1>1, WorkerInvariance, PTL

\* A worker asked to stop finishes the unit under way and the batch behind it,
\* and sleeps through no wait.
THEOREM StopEndsBatch == Spec => []StopsAfterBatch
<1>1. WorkerInv => StopsAfterBatch
  BY DEF WorkerInv
<1> QED
  BY <1>1, WorkerInvariance, PTL
=============================================================================
