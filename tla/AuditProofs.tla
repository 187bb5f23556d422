----------------------------- MODULE AuditProofs -----------------------------
(***************************************************************************)
(* Theorems about the whole system, replay and triage included: what is    *)
(* true of rows and accounts stays true with operators at work, and the    *)
(* audit gives the credit for an effect to one replay at most.             *)
(***************************************************************************)
EXTENDS ReplayProofs, ViewsProofs

-----------------------------------------------------------------------------
(* Rows and accounts.                                                       *)

\* A step that logs no attempt and applies nothing, and where a row stays as it
\* is or is requeued with a clean budget while nobody owns it.
LEMMA RequeuedOrKept ==
    ASSUME IInv, HInv, UNCHANGED <<content, attempts, ledger, version>>,
           \A e \in Events :
              \/ /\ status'[e] = status[e] /\ attempt_count'[e] = attempt_count[e]
                 /\ dlq[e] # NULL => dlq'[e] # NULL
              \/ Present(e) /\ status'[e] = "pending" /\ attempt_count'[e] = 0,
           \A q \in Procs : InTransaction(q)' => Undisturbed(q),
           \A q \in Procs : Charging(q)' => evt'[q] \notin batch'[q],
           \A q \in Procs, e \in Events :
              attempt_count'[e] = attempt_count[e] /\ Engaged(q, e)' => Engaged(q, e)
               \/ attempt_count[e] < MaxAttempts
    PROVE  HInv'
<1>0. TypeOK /\ Stored /\ MaxAttempts \in Nat \ {0}
  BY BoundsAssumption DEF IInv
<1>1. KeyOwned'
  <2>1. \A e \in Events : status'[e] = "purged" <=> status[e] = "purged"
    BY DEF Present
  <2> QED
    BY <2>1 DEF HInv, KeyOwned
<1>2. NoEffectLost' /\ Explained'
  <2>1. \A e \in Events : status'[e] = "succeeded" => status[e] = "succeeded"
    BY DEF Present
  <2> QED
    BY <2>1 DEF HInv, NoEffectLost, Explained
<1>3. DeadLetteredIsListed'
  BY DEF HInv, DeadLetteredIsListed
<1>4. PendingHasBudget'
  BY <1>0 DEF HInv, PendingHasBudget
<1>5. Charged'
  <2>1. \A q \in Procs : InTransaction(q)' => txn'[q].used = attempt_count'[evt'[q]] + 1
    BY DEF Undisturbed, HInv, Charged
  <2>2. \A e \in Events : status'[e] = "unused" => attempt_count'[e] = 0
    BY DEF HInv, Charged
  <2> QED
    BY <2>1, <2>2 DEF Charged
<1>6. AttemptNumbersIncrease'
  BY DEF HInv, AttemptNumbersIncrease
<1>7. Numbered'
  BY DEF Undisturbed, HInv, Numbered
<1>8. Overshoot'
  <2> SUFFICES ASSUME NEW e \in Events, attempt_count'[e] >= MaxAttempts
               PROVE  attempt_count'[e] + Cardinality({q \in Procs : Engaged(q, e)'})
                        <= MaxAttempts + Cardinality(Procs)
    BY DEF Overshoot
  <2> DEFINE E == {q \in Procs : Engaged(q, e)}
             F == {q \in Procs : Engaged(q, e)'}
  <2>1. attempt_count'[e] = attempt_count[e] /\ attempt_count[e] \in Nat
    BY <1>0 DEF TypeOK
  <2>2. F \in SUBSET E /\ E \in SUBSET Procs
    BY <1>0, <2>1
  <2>3. attempt_count[e] + Cardinality(E) <= MaxAttempts + Cardinality(Procs)
    BY <2>1 DEF HInv, Overshoot
  <2> HIDE DEF E, F
  <2>4. /\ Cardinality(F) <= Cardinality(E)
        /\ Cardinality(F) \in Nat /\ Cardinality(E) \in Nat /\ Cardinality(Procs) \in Nat
    BY <2>2, FiniteAssumption, FS_Subset, FS_CardinalityType
  <2> QED
    BY <1>0, <2>1, <2>3, <2>4 DEF F
<1> QED
  BY <1>1, <1>2, <1>3, <1>4, <1>5, <1>6, <1>7, <1>8 DEF HInv

\* The first transaction of a replay.
LEMMA RequeueRows ==
    ASSUME RInv, HInv, NEW o \in Operators, Requeue(o)
    PROVE  HInv'
<1>0. PICK e : e = Head(todo[o])
  OBVIOUS
<1>1. IInv /\ TypeOK /\ Stored /\ o \in Procs
  BY OperatorsAssumption DEF RInv, IInv
<1>2. e \in Events
  <2>1. todo[o] \in Seq(Events) /\ todo[o] # <<>>
    BY DEF RInv, ReplayTypeOK, Requeue
  <2> QED
    BY <1>0, <2>1, HeadTailProperties, Zenon
<1>3. /\ Present(e) /\ RowFree(e) /\ pc[o] = "idle"
      /\ status' = [status EXCEPT ![e] = "pending"]
      /\ attempt_count' = [attempt_count EXCEPT ![e] = 0]
      /\ dlq' = [dlq EXCEPT ![e] = MarkReplaying(e)]
      /\ batch' = [batch EXCEPT ![o] = {e}]
      /\ UNCHANGED <<content, attempts, ledger, version, pc, evt, txn>>
  BY <1>0 DEF Requeue, Requeueable, bookVars, RInv, Serving
<1>4. ASSUME NEW g \in Events
      PROVE  \/ /\ status'[g] = status[g] /\ attempt_count'[g] = attempt_count[g]
                /\ dlq[g] # NULL => dlq'[g] # NULL
             \/ Present(g) /\ status'[g] = "pending" /\ attempt_count'[g] = 0
  BY <1>1, <1>2, <1>3 DEF TypeOK
<1>5. ASSUME NEW q \in Procs, InTransaction(q)' PROVE Undisturbed(q)
  <2>1. InTransaction(q) /\ evt[q] \in Events
    BY <1>1, <1>3, <1>5 DEF InTransaction, Stored
  <2>2. evt[q] # e
    BY <1>3, <2>1 DEF RowFree, HoldsRow
  <2> QED
    BY <1>1, <1>3, <2>1, <2>2 DEF TypeOK, Undisturbed
<1>6. ASSUME NEW q \in Procs, Charging(q)' PROVE evt'[q] \notin batch'[q]
  BY <1>1, <1>3, <1>6 DEF TypeOK, HInv, Overshoot, Charging
<1>7. ASSUME NEW q \in Procs, NEW g \in Events,
             attempt_count'[g] = attempt_count[g], Engaged(q, g)'
      PROVE  Engaged(q, g) \/ attempt_count[g] < MaxAttempts
  <2>1. CASE g = e
    <3>1. attempt_count[g] = 0
      BY <1>1, <1>2, <1>3, <1>7, <2>1 DEF TypeOK
    <3> QED
      BY <3>1, BoundsAssumption
  <2>2. CASE g # e
    BY <1>1, <1>3, <1>7, <2>2 DEF TypeOK, Engaged, Charging
  <2> QED
    BY <2>1, <2>2
<1> QED
  BY <1>1, <1>3, <1>4, <1>5, <1>6, <1>7, RequeuedOrKept

\* The other steps that are not the core's: a process leaves process_event, or
\* the last transaction of a replay opens; entries move, and stay entries.
LEMMA QuietRows ==
    ASSUME IInv, HInv, NEW p \in Procs,
           UNCHANGED <<content, status, attempt_count, attempts, ledger, version>>,
           \A e \in Events : dlq[e] # NULL => dlq'[e] # NULL,
           batch'[p] \subseteq batch[p],
           Charging(p)' => Charging(p) /\ InTransaction(p)' = InTransaction(p)
                           /\ evt'[p] = evt[p] /\ txn'[p] = txn[p],
           \A q \in Procs \ {p} : /\ pc'[q] = pc[q] /\ evt'[q] = evt[q]
                                  /\ txn'[q] = txn[q] /\ batch'[q] = batch[q]
    PROVE  HInv'
<1>0. TypeOK /\ Stored
  BY DEF IInv
<1>1. \A q \in Procs : InTransaction(q) => Charging(q)
  BY DEF InTransaction, Charging
<1>2. \A q \in Procs : InTransaction(q)' => Charging(q)'
  BY DEF InTransaction, Charging
<1>3. ASSUME NEW q \in Procs, InTransaction(q)' PROVE Undisturbed(q)
  <2>1. InTransaction(q) /\ evt'[q] = evt[q] /\ txn'[q] = txn[q]
    <3>1. CASE q = p
      BY <1>2, <1>3, <3>1
    <3>2. CASE q # p
      BY <1>3, <3>2 DEF InTransaction
    <3> QED
      BY <3>1, <3>2
  <2>2. evt[q] \in Events
    BY <1>0, <2>1 DEF InTransaction, Stored
  <2> QED
    BY <2>1, <2>2 DEF Undisturbed
<1>4. ASSUME NEW q \in Procs, Charging(q)'
      PROVE  Charging(q) /\ evt'[q] = evt[q] /\ batch'[q] \subseteq batch[q]
  BY <1>4 DEF Charging
<1>5. ASSUME NEW q \in Procs, Charging(q)' PROVE evt'[q] \notin batch'[q]
  BY <1>4, <1>5 DEF HInv, Overshoot
<1>6. ASSUME NEW q \in Procs, NEW e \in Events, Engaged(q, e)' PROVE Engaged(q, e)
  <2>1. batch'[q] \subseteq batch[q]
    OBVIOUS
  <2> QED
    BY <1>4, <1>6, <2>1 DEF Engaged
<1> QED
  BY <1>3, <1>5, <1>6, RequeuedOrKept

\* What is true of the rows survives replay and triage.
LEMMA ReplayRowsStep == RInv /\ HInv /\ [ReplayNext]_allVars => HInv'
<1> SUFFICES ASSUME RInv, HInv, [ReplayNext]_allVars PROVE HInv'
  OBVIOUS
<1>0. IInv /\ TypeOK
  BY DEF RInv, IInv
<1>1. ASSUME Next PROVE HInv'
  BY <1>0, <1>1, HInvStep
<1>2. ASSUME UNCHANGED vars PROVE HInv'
  BY <1>2, StutterHInv
<1>3. ASSUME NEW o \in Operators, InsertRequest(o) PROVE HInv'
  <2>0. PICK e : e = Head(todo[o])
    OBVIOUS
  <2>1. /\ pc' = [pc EXCEPT ![o] = "recording"] /\ evt' = [evt EXCEPT ![o] = e]
        /\ UNCHANGED <<content, status, attempt_count, attempts, dlq, ledger,
                       version, txn, batch>>
    BY <1>3, <2>0 DEF InsertRequest, rowVars, bookVars
  <2>2. o \in Procs /\ ~Charging(o)'
    BY <1>0, <2>1, OperatorsAssumption DEF TypeOK, Charging
  <2> QED
    BY <1>0, <2>1, <2>2, QuietRows DEF TypeOK
<1>4. ASSUME NEW p \in Procs, Return(p), batch' \in {batch, [batch EXCEPT ![p] = {}]},
             UNCHANGED <<content, status, attempt_count, attempts, ledger, version>>,
             \A e \in Events : dlq[e] # NULL => dlq'[e] # NULL
      PROVE  HInv'
  <2>1. ~Charging(p)' /\ batch'[p] \subseteq batch[p]
    BY <1>0, <1>4 DEF TypeOK, Charging, Return
  <2>2. \A q \in Procs \ {p} : /\ pc'[q] = pc[q] /\ evt'[q] = evt[q]
                               /\ txn'[q] = txn[q] /\ batch'[q] = batch[q]
    BY <1>0, <1>4 DEF TypeOK, Return
  <2> QED
    BY <1>0, <1>4, <2>1, <2>2, QuietRows
<1>5. ASSUME NEW o \in Operators, FinishRequest(o) PROVE HInv'
  <2>0. PICK e : e = Head(todo[o])
    OBVIOUS
  <2>1. /\ o \in Procs /\ Return(o)
        /\ UNCHANGED <<content, status, attempt_count, attempts, ledger, version, batch>>
        /\ dlq' = [dlq EXCEPT ![e] = IF Settles(o) THEN SettleTarget(o) ELSE dlq[e]]
    BY <1>5, <2>0, OperatorsAssumption DEF FinishRequest, bookVars
  <2>2. SettleTarget(o) # NULL
    BY NullAssumption DEF SettleTarget, DlqStatus
  <2>3. \A g \in Events : dlq[g] # NULL => dlq'[g] # NULL
    BY <1>0, <2>1, <2>2 DEF TypeOK
  <2> QED
    BY <1>4, <2>1, <2>3
<1>6. ASSUME NEW p \in Procs, GivesUp(p) PROVE HInv'
  BY <1>4, <1>6 DEF GivesUp, rowVars, bookVars
<1>7. ASSUME NEW e \in Events, NEW v \in Verdicts, Triage(e, v) PROVE HInv'
  <2>1. /\ dlq' = [dlq EXCEPT ![e] = v]
        /\ UNCHANGED <<content, status, attempt_count, attempts, ledger, version,
                       pc, batch, evt, txn>>
    BY <1>7 DEF Triage, bookVars, procVars
  <2>2. v # NULL
    BY VerdictsAssumption, NullAssumption DEF DlqStatus
  <2>3. \A g \in Events : dlq[g] # NULL => dlq'[g] # NULL
    BY <1>0, <2>1, <2>2 DEF TypeOK
  <2>4. ASSUME NEW p \in Procs PROVE HInv'
    BY <1>0, <2>1, <2>3, <2>4, QuietRows DEF Charging, InTransaction
  <2>5. CASE Procs = {}
    <3>1. \A q \in Procs : InTransaction(q)' => Undisturbed(q)
      BY <2>5
    <3> QED
      BY <1>0, <2>1, <2>3, <2>5, <3>1, RequeuedOrKept
  <2> QED
    BY <2>4, <2>5
<1>8. ASSUME UNCHANGED allVars PROVE UNCHANGED vars
  BY <1>8 DEF allVars
<1> QED
  BY <1>1, <1>2, <1>3, <1>5, <1>6, <1>7, <1>8, RequeueRows, ReplayCases, Zenon

\* Replay and triage never touch a payload or the book.
LEMMA ReplayBookStep == RInv /\ VInv /\ [ReplayNext]_allVars => VInv'
<1> SUFFICES ASSUME RInv, VInv, [ReplayNext]_allVars PROVE VInv'
  OBVIOUS
<1>1. ASSUME Next PROVE VInv'
  BY <1>1, MarkedStep, ShownStep DEF RInv, VInv
<1>2. ASSUME \/ UNCHANGED vars
             \/ \E o \in Operators : Requeue(o)
             \/ \E o \in Operators : InsertRequest(o)
             \/ \E o \in Operators : FinishRequest(o)
             \/ \E p \in Procs : GivesUp(p)
             \/ \E e \in Events, v \in Verdicts : Triage(e, v)
      PROVE  VInv'
  <2>1. UNCHANGED bookRows
    BY <1>2 DEF Requeue, InsertRequest, FinishRequest, GivesUp, Triage,
                vars, rowVars, bookVars, bookRows
  <2> QED
    BY <2>1, StutterVInv
<1>3. ASSUME UNCHANGED allVars PROVE UNCHANGED vars
  BY <1>3 DEF allVars
<1> QED
  BY <1>1, <1>2, <1>3, ReplayCases, Zenon

\* Rows, attempt log, budget, versions and snapshots are as the core promises,
\* with any number of operators replaying and ruling on events.
THEOREM ReplayedRows == ReplaySpec => [](HInv /\ VInv)
<1>1. ReplayInit => HInv /\ VInv
  BY InitHInv, InitVInv DEF ReplayInit
<1>2. RInv /\ HInv /\ VInv /\ [ReplayNext]_allVars => HInv' /\ VInv'
  BY ReplayRowsStep, ReplayBookStep
<1> QED
  BY <1>1, <1>2, ReplayInvariance, PTL DEF ReplaySpec

\* FR-17: however often an event is replayed, it has one effect.
THEOREM ReplayedOnce == ReplaySpec => []EffectAtMostOncePerKey
<1>1. HInv => EffectAtMostOncePerKey
  BY DEF HInv, KeyOwned, EffectAtMostOncePerKey
<1> QED
  BY <1>1, ReplayedRows, PTL

\* Neither does replay or triage move money.
LEMMA ReplayMoneyStep ==
    RInv /\ (Funded /\ InFull) /\ [ReplayNext]_allVars => (Funded /\ InFull)'
<1> SUFFICES ASSUME RInv, Funded, InFull, [ReplayNext]_allVars PROVE (Funded /\ InFull)'
  OBVIOUS
<1>1. ASSUME Next PROVE (Funded /\ InFull)'
  BY <1>1, FundedStep, InFullStep DEF RInv
<1>2. ASSUME \/ UNCHANGED vars
             \/ \E o \in Operators : Requeue(o)
             \/ \E o \in Operators : InsertRequest(o)
             \/ \E o \in Operators : FinishRequest(o)
             \/ \E p \in Procs : GivesUp(p)
             \/ \E e \in Events, v \in Verdicts : Triage(e, v)
      PROVE  (Funded /\ InFull)'
  <2>1. UNCHANGED bookRows
    BY <1>2 DEF Requeue, InsertRequest, FinishRequest, GivesUp, Triage,
                vars, rowVars, bookVars, bookRows
  <2> QED
    BY <2>1, StutterFunded
<1>3. ASSUME UNCHANGED allVars PROVE UNCHANGED vars
  BY <1>3 DEF allVars
<1> QED
  BY <1>1, <1>2, <1>3, ReplayCases, Zenon

\* The balance stays the sum of what was applied, replays included.
THEOREM ReplayedMoney == ReplaySpec => [](Funded /\ InFull)
<1>1. ReplayInit => Funded /\ InFull
  BY InitFunded DEF ReplayInit
<1> QED
  BY <1>1, ReplayMoneyStep, ReplayInvariance, PTL DEF ReplaySpec

\* NFR-1 with operators at work: replaying, batching and ruling on events never
\* makes an account drift from its ledger.
THEOREM ReplayedBooksBalance == ReplaySpec => []NoDrift
<1>1. RInv /\ HInv /\ Funded => NoDrift
  BY Driftless DEF RInv, IInv, HInv
<1> QED
  BY <1>1, ReplayInvariance, ReplayedRows, ReplayedMoney, PTL

\* A load whose dead letters were replayed until none was left grades like one
\* that never had any.
THEOREM ReplayedLoadExact == ReplaySpec => []LoadIsExact
<1>1. RInv => IInv
  BY DEF RInv
<1> QED
  BY <1>1, LoadGraded, ReplayInvariance, ReplayedRows, ReplayedMoney, PTL

-----------------------------------------------------------------------------
(* The credit for an effect.                                                *)

\* A ledger row stays.
LEMMA LedgerKept ==
    ASSUME RInv, [ReplayNext]_allVars, NEW e \in Events, ledger[e] # <<>>
    PROVE  ledger'[e] # <<>>
<1>0. IInv /\ TypeOK
  BY DEF RInv, IInv
<1>1. CASE ledger' = ledger
  BY <1>1
<1>2. ASSUME UNCHANGED bookRows PROVE ledger' = ledger
  BY <1>2 DEF bookRows
<1>3. ASSUME NEW g \in Events, NEW c \in Contents, Ingest(g, c) PROVE ledger' = ledger
  BY <1>3 DEF Ingest, bookVars
<1>4. ASSUME NEW p \in Procs, Commits(p) PROVE ledger'[e] # <<>>
  <2>0. PICK f : f = evt[p]
    OBVIOUS
  <2>1. CASE e = f
    <3>1. ledger'[e] = ledger[e]
      BY <1>0, <1>4, <2>0, <2>1, CommitEffect
    <3> QED
      BY <3>1
  <2>2. CASE e # f
    BY <1>0, <1>4, <2>0, <2>2, CommitEffect
  <2> QED
    BY <2>1, <2>2
<1>5. ASSUME \/ UNCHANGED vars
             \/ UNCHANGED allVars
             \/ \E o \in Operators : Requeue(o)
             \/ \E o \in Operators : InsertRequest(o)
             \/ \E o \in Operators : FinishRequest(o)
             \/ \E p \in Procs : GivesUp(p)
             \/ \E g \in Events, v \in Verdicts : Triage(g, v)
      PROVE  ledger' = ledger
  BY <1>5 DEF Requeue, InsertRequest, FinishRequest, GivesUp, Triage,
              allVars, vars, bookVars
<1>6. ASSUME Next PROVE ledger'[e] # <<>>
  BY <1>1, <1>2, <1>3, <1>4, <1>6, BookCases, Zenon
<1> QED
  BY <1>1, <1>5, <1>6, ReplayCases, Zenon

\* Where nobody gains a credit, none is held twice.
LEMMA CreditFrame ==
    ASSUME CreditHeld,
           \A e \in Events : ledger[e] # <<>> => ledger'[e] # <<>>,
           \A e \in Events : \A i \in DOMAIN requests'[e] :
              Won(e, i)' => i \in DOMAIN requests[e] /\ Won(e, i),
           \A o \in Operators, e \in Events : Crediting(o, e)' => Crediting(o, e)
    PROVE  CreditHeld'
BY DEF CreditHeld

\* A request that is dropped, or has not got its result, is owed nothing.
LEMMA CreditDropped ==
    ASSUME ReplayTypeOK, NEW o \in Operators,
           stage'[o] \in {"none", "processing"},
           \A q \in Operators \ {o} :
              stage'[q] = stage[q] /\ todo'[q] = todo[q] /\ result'[q] = result[q],
           NEW q \in Operators, NEW e \in Events, Crediting(q, e)'
    PROVE  Crediting(q, e)
BY DEF Crediting

\* What a process of the core works on only changes when it takes an event from
\* its batch.
LEMMA ContinueTask ==
    ASSUME TypeOK, NEW p \in Procs, Continue(p)
    PROVE  /\ \A q \in Procs \ {p} : evt'[q] = evt[q]
           /\ \/ pc[p] # "idle" /\ evt'[p] = evt[p]
              \/ evt'[p] \in batch[p]
<1>1. ASSUME NEW e \in Events, Claim(p, e) \/ \E x \in Faults : ClaimFails(p, e, x)
      PROVE  e \in batch[p] /\ evt' = [evt EXCEPT ![p] = e]
  BY <1>1 DEF Claim, ClaimFails
<1>2. ASSUME \/ LockEntity(p) \/ HandlerRefuses(p) \/ ApplyEffect(p)
             \/ EffectOverflows(p) \/ LockTimeout(p)
             \/ \E x \in Faults : TransactionFails(p, x) \/ CommitAckLost(p, x)
      PROVE  evt' = evt /\ pc[p] # "idle"
  BY <1>2 DEF LockEntity, HandlerRefuses, ApplyEffect, EffectOverflows,
              LockTimeout, TransactionFails, CommitAckLost, InTransaction
<1>3. CASE \E e \in Events : Claim(p, e) \/ \E x \in Faults : ClaimFails(p, e, x)
  BY <1>1, <1>3 DEF TypeOK
<1>4. CASE \/ LockEntity(p) \/ HandlerRefuses(p) \/ ApplyEffect(p)
           \/ EffectOverflows(p) \/ LockTimeout(p)
           \/ \E x \in Faults : TransactionFails(p, x) \/ CommitAckLost(p, x)
  BY <1>2, <1>4
<1> QED
  BY <1>3, <1>4, Zenon DEF Continue, Fault

\* process_event stays on the event it was called for.
LEMMA OnTaskStep == RInv /\ OnTask /\ ReplayNext => OnTask'
<1> SUFFICES ASSUME RInv, OnTask, ReplayNext PROVE OnTask'
  OBVIOUS
<1>0. /\ TypeOK /\ ReplayTypeOK /\ Serving
      /\ \A o \in Operators : o \in Procs /\ o \notin Workers
  BY OperatorsAssumption DEF RInv, IInv
<1>1. ASSUME UNCHANGED <<pc, evt, todo, stage>> PROVE OnTask'
  BY <1>1 DEF OnTask
<1>2. ASSUME NEW o \in Operators,
             stage'[o] # "processing" \/ pc'[o] = "idle",
             \A q \in Operators \ {o} : /\ stage'[q] = stage[q] /\ todo'[q] = todo[q]
                                        /\ pc'[q] = pc[q] /\ evt'[q] = evt[q]
      PROVE  OnTask'
  BY <1>2 DEF OnTask
<1>3. ASSUME NEW p \in Procs, Continue(p), UNCHANGED replayVars PROVE OnTask'
  <2>1. UNCHANGED <<stage, todo>>
    BY <1>3 DEF replayVars
  <2>2. \A q \in Procs \ {p} : pc'[q] = pc[q] /\ evt'[q] = evt[q]
    BY <1>0, <1>3, ContinueActor, ContinueTask
  <2>3. ASSUME p \in Operators, stage[p] = "processing" PROVE evt'[p] = Head(todo[p])
    BY <1>0, <1>3, <2>3, ContinueTask DEF Serving, OnTask
  <2> QED
    BY <1>0, <2>1, <2>2, <2>3 DEF OnTask
<1>4. ASSUME NEW p \in Procs, NEW r \in ProcessResult, Returns(p, r) PROVE OnTask'
  <2>1. Finish(p, r) /\ todo' = todo
    BY <1>4 DEF Returns
  <2>2. \A q \in Procs \ {p} : pc'[q] = pc[q]
    BY <1>0, <2>1, FinishActor
  <2>3. pc'[p] = "idle"
    BY <1>0, <2>1, FinishActor
  <2>4. \A q \in Procs \ {p} : evt'[q] = evt[q]
    BY <1>0, <2>1 DEF TypeOK, Finish, Commit, Reschedule, DeadLetter, EventVanished,
                      ClaimMiss, Return
  <2>5. \A q \in Operators \ {p} : stage'[q] = stage[q]
    BY <1>0, <1>4 DEF Returns, ReplayTypeOK
  <2> QED
    BY <1>0, <2>1, <2>2, <2>3, <2>4, <2>5 DEF OnTask
<1>5. ASSUME NEW o \in Operators, NEW ids \in Requests, Select(o, ids) PROVE OnTask'
  <2>1. /\ stage[o] = "none" /\ todo' = [todo EXCEPT ![o] = ids]
        /\ UNCHANGED <<pc, evt, stage>>
    BY <1>5 DEF Select, vars, procVars
  <2> QED
    BY <1>0, <1>2, <2>1 DEF ReplayTypeOK
<1>6. ASSUME NEW o \in Operators,
             NotFound(o) \/ InsertRefused(o) \/ FinishRefused(o) \/ ReplayRaises(o)
      PROVE  OnTask'
  <2>1. Abandon(o) /\ (UNCHANGED <<pc, evt>> \/ Return(o))
    BY <1>6 DEF NotFound, InsertRefused, FinishRefused, ReplayRaises, vars, procVars
  <2> QED
    BY <1>0, <1>2, <2>1 DEF Abandon, Return, TypeOK, ReplayTypeOK
<1>7. ASSUME NEW o \in Operators, Requeue(o) PROVE OnTask'
  <2>1. /\ stage[o] = "none" /\ stage' = [stage EXCEPT ![o] = "processing"]
        /\ UNCHANGED <<pc, evt, todo>>
    BY <1>7 DEF Requeue
  <2>2. pc'[o] = "idle"
    BY <1>0, <2>1 DEF Serving
  <2> QED
    BY <1>0, <1>2, <2>1, <2>2 DEF ReplayTypeOK
<1>8. ASSUME NEW o \in Operators, NoteAttempt(o) PROVE OnTask'
  <2>1. stage' = [stage EXCEPT ![o] = "noted"] /\ UNCHANGED <<pc, evt, todo>>
    BY <1>8 DEF NoteAttempt, vars, procVars
  <2> QED
    BY <1>0, <1>2, <2>1 DEF ReplayTypeOK
<1>9. ASSUME NEW o \in Operators, InsertRequest(o) PROVE OnTask'
  <2>0. PICK e : e = Head(todo[o])
    OBVIOUS
  <2>1. /\ stage' = [stage EXCEPT ![o] = "recorded"]
        /\ pc' = [pc EXCEPT ![o] = "recording"]
        /\ evt' = [evt EXCEPT ![o] = e] /\ todo' = todo
    BY <1>9, <2>0 DEF InsertRequest
  <2> QED
    BY <1>0, <1>2, <2>1 DEF TypeOK, ReplayTypeOK
<1>10. ASSUME NEW o \in Operators, FinishRequest(o) PROVE OnTask'
  <2>1. /\ stage' = [stage EXCEPT ![o] = "none"] /\ Return(o)
        /\ todo' = [todo EXCEPT ![o] = Tail(todo[o])]
    BY <1>10 DEF FinishRequest
  <2> QED
    BY <1>0, <1>2, <2>1 DEF TypeOK, ReplayTypeOK, Return
<1>11. ASSUME NEW p \in Procs, Dies(p) PROVE OnTask'
  <2>1. Return(p)
    BY <1>11 DEF Dies, Crash
  <2>2. CASE p \in Operators
    BY <1>0, <1>2, <1>11, <2>1, <2>2 DEF Dies, Abandon, Return, TypeOK, ReplayTypeOK
  <2>3. CASE p \notin Operators
    <3>1. UNCHANGED <<stage, todo>>
      BY <1>11, <2>3 DEF Dies, replayVars
    <3> QED
      BY <1>0, <2>1, <2>3, <3>1 DEF OnTask, Return, TypeOK
  <2> QED
    BY <2>2, <2>3
<1>12. ASSUME \/ \E e \in Events, v \in Verdicts : Triage(e, v)
              \/ \E old \in SUBSET Events : Purge(old)
       PROVE  OnTask'
  <2>1. UNCHANGED <<pc, evt, todo, stage>>
    BY <1>12 DEF Triage, Purge, PurgeHistory, procVars, replayVars
  <2> QED
    BY <1>1, <2>1
<1>13. ASSUME Core PROVE OnTask'
  <2>1. ASSUME UNCHANGED replayVars,
               \/ \E e \in Events, c \in Contents : Ingest(e, c)
               \/ \E e \in Events : BackoffElapsed(e)
               \/ \E p \in Workers, ids \in SUBSET Events : Poll(p, ids)
        PROVE  OnTask'
    <3>1. UNCHANGED <<pc, evt, todo, stage>>
      BY <2>1 DEF Ingest, BackoffElapsed, Poll, procVars, replayVars
    <3> QED
      BY <1>1, <3>1
  <2> QED
    BY <1>3, <1>13, <2>1, Zenon DEF Core
<1>14. ASSUME NEW o \in Operators, ReplayStep(o) PROVE OnTask'
  BY <1>6, <1>7, <1>8, <1>9, <1>10, <1>14, Zenon DEF ReplayStep
<1> QED
  BY <1>4, <1>5, <1>6, <1>11, <1>12, <1>13, <1>14, Zenon
     DEF ReplayNext, ReplayHealthy

\* The call that applies the effect finds an event without one, so nobody holds
\* the credit yet.
LEMMA CreditEarned ==
    ASSUME RInv, OnTask, CreditHeld, NEW p \in Operators, Commit(p),
           txn[p].result = "applied",
           stage' = [stage EXCEPT ![p] = "processed"],
           UNCHANGED <<todo, requests>>,
           \A q \in Operators \ {p} : result'[q] = result[q],
           \A e \in Events : ledger[e] # <<>> => ledger'[e] # <<>>
    PROVE  CreditHeld'
<1>0. PICK e : e = evt[p]
  OBVIOUS
<1>1. /\ p \in Procs /\ IInv /\ ReplayTypeOK /\ Commits(p) /\ TypeOK
      /\ pc[p] = "applied"
  BY OperatorsAssumption DEF RInv, IInv, Commit, Commits
<1>2. /\ e \in Events /\ ledger[e] = <<>>
      /\ \E d : ledger' = [ledger EXCEPT ![e] = <<d>>]
  <2>1. PICK a, f : a = content[e].entity_id /\ f = dispatch(content[e])
    OBVIOUS
  <2> QED
    BY <1>0, <1>1, <2>1, AppliedCommit
<1>3. ledger'[e] # <<>>
  BY <1>1, <1>2 DEF TypeOK
<1>4. stage[p] = "processing" /\ Head(todo[p]) = e
  BY <1>0, <1>1 DEF RInv, Serving, OnTask
<1>5. \A i \in DOMAIN requests[e] : ~Won(e, i)
  BY <1>2 DEF CreditHeld
<1>6. \A q \in Operators : ~Crediting(q, e)
  BY <1>2 DEF CreditHeld
<1>7. ASSUME NEW q \in Operators, NEW g \in Events, Crediting(q, g)'
      PROVE  Crediting(q, g) \/ (q = p /\ g = e)
  <2>1. CASE q = p
    BY <1>4, <1>7, <2>1 DEF Crediting
  <2>2. CASE q # p
    BY <1>1, <1>7, <2>2 DEF Crediting, ReplayTypeOK
  <2> QED
    BY <2>1, <2>2
<1>8. \A g \in Events : \A i \in DOMAIN requests'[g] :
         Won(g, i)' => i \in DOMAIN requests[g] /\ Won(g, i)
  BY DEF Won
<1>9. ASSUME NEW g \in Events, NEW i \in DOMAIN requests'[g], Won(g, i)'
      PROVE  /\ ledger'[g] # <<>>
             /\ \A j \in DOMAIN requests'[g] : Won(g, j)' => i = j
             /\ \A o \in Operators : ~Crediting(o, g)'
  <2>1. i \in DOMAIN requests[g] /\ Won(g, i) /\ g # e
    BY <1>5, <1>8, <1>9
  <2> QED
    BY <1>7, <1>8, <2>1 DEF CreditHeld
<1>10. ASSUME NEW g \in Events, NEW o \in Operators, Crediting(o, g)'
       PROVE  /\ ledger'[g] # <<>>
              /\ \A q \in Operators : Crediting(q, g)' => o = q
  <2>1. CASE g = e
    BY <1>3, <1>6, <1>7, <1>10, <2>1
  <2>2. CASE g # e
    <3>1. Crediting(o, g) /\ \A q \in Operators : Crediting(q, g)' => Crediting(q, g)
      BY <1>7, <1>10, <2>2
    <3> QED
      BY <3>1 DEF CreditHeld
  <2> QED
    BY <2>1, <2>2
<1> QED
  BY <1>9, <1>10 DEF CreditHeld

\* The audit row takes the credit over from the request that writes it.
LEMMA CreditWritten ==
    ASSUME RInv, CreditHeld, NEW o \in Operators, FinishRequest(o)
    PROVE  CreditHeld'
<1>0. PICK e, r : /\ e = Head(todo[o])
                  /\ r = [outcome |-> OutcomeOf(result[o]), attempt |-> noted[o]]
  OBVIOUS
<1>1. /\ stage[o] = "recorded" /\ stage' = [stage EXCEPT ![o] = "none"]
      /\ todo' = [todo EXCEPT ![o] = Tail(todo[o])]
      /\ result' = [result EXCEPT ![o] = "none"]
      /\ requests' = [requests EXCEPT ![e] = Append(requests[e], r)]
      /\ ledger' = ledger
  BY <1>0 DEF FinishRequest, bookVars
<1>2. ReplayTypeOK /\ todo[o] \in Seq(Events) /\ todo[o] # <<>>
  BY <1>1 DEF RInv, ReplayTypeOK, Serving
<1>3. e \in Events
  BY <1>0, <1>2, HeadTailProperties, Zenon
<1>4. PICK n \in Nat :
         /\ n = Len(requests[e]) + 1
         /\ DOMAIN requests'[e] = DOMAIN requests[e] \cup {n}
         /\ n \notin DOMAIN requests[e]
         /\ \A i \in DOMAIN requests[e] : requests'[e][i] = requests[e][i]
         /\ requests'[e][n] = r
  <2> DEFINE R == [outcome : ReplayOutcome, attempt : Nat]
  <2>1. requests[e] \in Seq(R) /\ r \in R
    BY <1>0, <1>2, <1>3 DEF ReplayTypeOK, OutcomeOf, ReplayOutcome
  <2>2. requests'[e] = Append(requests[e], r)
    BY <1>1, <1>2, <1>3 DEF ReplayTypeOK
  <2> HIDE DEF R
  <2>3. /\ Len(requests[e]) \in Nat
        /\ DOMAIN requests[e] = 1 .. Len(requests[e])
        /\ Append(requests[e], r) \in Seq(R)
        /\ Len(Append(requests[e], r)) = Len(requests[e]) + 1
        /\ \A i \in 1 .. Len(requests[e]) : Append(requests[e], r)[i] = requests[e][i]
        /\ Append(requests[e], r)[Len(requests[e]) + 1] = r
    BY <2>1, LenProperties, AppendProperties
  <2>4. DOMAIN Append(requests[e], r) = 1 .. Len(requests[e]) + 1
    BY <2>3, LenProperties
  <2> QED
    BY <2>2, <2>3, <2>4
<1>5. \A g \in Events \ {e} : requests'[g] = requests[g]
  BY <1>1, <1>2 DEF ReplayTypeOK
<1>6. ASSUME NEW q \in Operators, NEW g \in Events, Crediting(q, g)'
      PROVE  q # o /\ Crediting(q, g)
  <2>1. q # o
    BY <1>1, <1>2, <1>6 DEF Crediting, ReplayTypeOK
  <2> QED
    BY <1>1, <1>2, <1>6, <2>1 DEF Crediting, ReplayTypeOK
<1>7. r.outcome = "succeeded" => Crediting(o, e)
  BY <1>0, <1>1 DEF Crediting, OutcomeOf
<1>8. CASE r.outcome = "succeeded"
  <2>1. /\ Crediting(o, e) /\ ledger[e] # <<>>
        /\ \A q \in Operators : Crediting(q, e) => o = q
        /\ \A i \in DOMAIN requests[e] : ~Won(e, i)
    BY <1>3, <1>7, <1>8 DEF CreditHeld
  <2>2. \A i \in DOMAIN requests'[e] : Won(e, i)' => i = n
    BY <1>4, <2>1 DEF Won
  <2>3. \A q \in Operators : ~Crediting(q, e)'
    BY <1>3, <1>6, <2>1
  <2>4. ASSUME NEW g \in Events, NEW i \in DOMAIN requests'[g], Won(g, i)'
        PROVE  /\ ledger'[g] # <<>>
               /\ \A j \in DOMAIN requests'[g] : Won(g, j)' => i = j
               /\ \A q \in Operators : ~Crediting(q, g)'
    <3>1. CASE g = e
      BY <1>1, <2>1, <2>2, <2>3, <2>4, <3>1
    <3>2. CASE g # e
      <4>1. requests'[g] = requests[g]
        BY <1>5, <3>2
      <4>2. \A j \in DOMAIN requests[g] : Won(g, j)' <=> Won(g, j)
        BY <4>1 DEF Won
      <4> QED
        BY <1>1, <1>6, <2>4, <4>1, <4>2 DEF CreditHeld
    <3> QED
      BY <3>1, <3>2
  <2>5. ASSUME NEW g \in Events, NEW q \in Operators, Crediting(q, g)'
        PROVE  /\ ledger'[g] # <<>>
               /\ \A s \in Operators : Crediting(s, g)' => q = s
    BY <1>1, <1>6, <2>5 DEF CreditHeld
  <2> QED
    BY <2>4, <2>5 DEF CreditHeld
<1>9. CASE r.outcome # "succeeded"
  <2>1. ASSUME NEW g \in Events, NEW i \in DOMAIN requests'[g], Won(g, i)'
        PROVE  i \in DOMAIN requests[g] /\ Won(g, i)
    BY <1>4, <1>5, <1>9, <2>1 DEF Won
  <2> QED
    BY <1>1, <1>6, <2>1, CreditFrame
<1> QED
  BY <1>8, <1>9

\* Every step keeps the credit in one place.
LEMMA CreditStep == RInv /\ OnTask /\ CreditHeld /\ ReplayNext => CreditHeld'
<1> SUFFICES ASSUME RInv, OnTask, CreditHeld, ReplayNext PROVE CreditHeld'
  OBVIOUS
<1>0. ReplayTypeOK /\ \A o \in Operators : o \in Procs
  BY OperatorsAssumption DEF RInv
<1>1. \A e \in Events : ledger[e] # <<>> => ledger'[e] # <<>>
  BY LedgerKept
<1>2. ASSUME requests' = requests,
             \A o \in Operators, e \in Events : Crediting(o, e)' => Crediting(o, e)
      PROVE  CreditHeld'
  <2>1. \A e \in Events : \A i \in DOMAIN requests'[e] :
           Won(e, i)' => i \in DOMAIN requests[e] /\ Won(e, i)
    BY <1>2 DEF Won
  <2> QED
    BY <1>1, <1>2, <2>1, CreditFrame
<1>3. ASSUME NEW o \in Operators, requests' = requests,
             stage'[o] \in {"none", "processing"},
             \A q \in Operators \ {o} :
                stage'[q] = stage[q] /\ todo'[q] = todo[q] /\ result'[q] = result[q]
      PROVE  CreditHeld'
  BY <1>0, <1>2, <1>3, CreditDropped
<1>4. ASSUME UNCHANGED replayVars PROVE CreditHeld'
  BY <1>2, <1>4 DEF replayVars, Crediting
<1>5. ASSUME NEW o \in Operators, Abandon(o) PROVE CreditHeld'
  BY <1>0, <1>3, <1>5 DEF Abandon, ReplayTypeOK
<1>6. ASSUME NEW o \in Operators, NEW ids \in Requests, Select(o, ids)
      PROVE  CreditHeld'
  <2>1. /\ stage[o] = "none" /\ todo' = [todo EXCEPT ![o] = ids]
        /\ UNCHANGED <<stage, result, requests>>
    BY <1>6 DEF Select
  <2> QED
    BY <1>0, <1>3, <2>1 DEF ReplayTypeOK
<1>7. ASSUME NEW o \in Operators, Requeue(o) PROVE CreditHeld'
  <2>1. /\ stage' = [stage EXCEPT ![o] = "processing"]
        /\ UNCHANGED <<todo, result, requests>>
    BY <1>7 DEF Requeue
  <2> QED
    BY <1>0, <1>3, <2>1 DEF ReplayTypeOK
<1>8. ASSUME NEW o \in Operators, NoteAttempt(o) \/ InsertRequest(o) PROVE CreditHeld'
  <2>1. /\ stage[o] \in {"processed", "noted"}
        /\ \E s : stage' = [stage EXCEPT ![o] = s]
        /\ UNCHANGED <<todo, result, requests>>
    BY <1>8 DEF NoteAttempt, InsertRequest
  <2>2. ASSUME NEW q \in Operators, NEW e \in Events, Crediting(q, e)'
        PROVE  Crediting(q, e)
    <3>1. CASE q = o
      BY <2>1, <2>2, <3>1 DEF Crediting
    <3>2. CASE q # o
      BY <1>0, <2>1, <2>2, <3>2 DEF Crediting, ReplayTypeOK
    <3> QED
      BY <3>1, <3>2
  <2> QED
    BY <1>2, <2>1, <2>2
<1>9. ASSUME NEW p \in Procs, NEW r \in ProcessResult, Returns(p, r)
      PROVE  CreditHeld'
  <2>1. Finish(p, r) /\ UNCHANGED <<todo, requests>>
    BY <1>9 DEF Returns
  <2>2. CASE p \notin Operators
    BY <1>2, <1>9, <2>1, <2>2 DEF Returns, Crediting
  <2>3. CASE p \in Operators
    <3>1. /\ result' = [result EXCEPT ![p] = r]
          /\ stage' = [stage EXCEPT ![p] = "processed"]
      BY <1>9, <2>3 DEF Returns
    <3>2. \A q \in Operators \ {p} : result'[q] = result[q] /\ stage'[q] = stage[q]
      BY <1>0, <3>1 DEF ReplayTypeOK
    <3>3. CASE r = "applied"
      <4>1. Commit(p) /\ txn[p].result = "applied"
        BY <2>1, <3>3 DEF Finish
      <4> QED
        BY <1>1, <2>1, <2>3, <3>1, <3>2, <4>1, CreditEarned
    <3>4. CASE r # "applied"
      <4>1. result'[p] # "applied"
        BY <1>0, <2>3, <3>1, <3>4 DEF ReplayTypeOK
      <4> QED
        BY <1>2, <2>1, <3>2, <4>1 DEF Crediting
    <3> QED
      BY <3>3, <3>4
  <2> QED
    BY <2>2, <2>3
<1>10. ASSUME NEW old \in SUBSET Events, Purge(old) PROVE CreditHeld'
  <2>1. /\ UNCHANGED <<todo, stage, result>>
        /\ requests' = [e \in Events |->
             IF e \notin old THEN requests[e]
             ELSE IF Effectless(e) THEN <<>>
             ELSE [i \in DOMAIN requests[e] |-> [requests[e][i] EXCEPT !.attempt = 0]]]
    BY <1>10 DEF Purge
  <2>2. ASSUME NEW e \in Events, NEW i \in DOMAIN requests'[e], Won(e, i)'
        PROVE  i \in DOMAIN requests[e] /\ Won(e, i)
    <3> DEFINE cut == [j \in DOMAIN requests[e] |-> [requests[e][j] EXCEPT !.attempt = 0]]
    <3>1. CASE requests'[e] = requests[e]
      BY <2>2, <3>1 DEF Won
    <3>2. CASE requests'[e] = <<>>
      BY <2>2, <3>2
    <3>3. CASE requests'[e] = cut
      <4>1. i \in DOMAIN requests[e]
        BY <2>2, <3>3
      <4>2. requests[e][i] \in [outcome : ReplayOutcome, attempt : Nat]
        BY <1>0, <4>1, SeqElement DEF ReplayTypeOK
      <4>3. requests'[e][i].outcome = requests[e][i].outcome
        BY <3>3, <4>1, <4>2
      <4> QED
        BY <2>2, <4>1, <4>3 DEF Won
    <3> QED
      BY <2>1, <3>1, <3>2, <3>3
  <2>3. \A o \in Operators, e \in Events : Crediting(o, e)' => Crediting(o, e)
    BY <2>1 DEF Crediting
  <2> QED
    BY <1>1, <2>2, <2>3, CreditFrame
<1>11. ASSUME Core \/ \E e \in Events, v \in Verdicts : Triage(e, v)
       PROVE  UNCHANGED replayVars
  BY <1>11 DEF Core, Triage
<1>12. ASSUME NEW o \in Operators,
              NotFound(o) \/ InsertRefused(o) \/ FinishRefused(o) \/ ReplayRaises(o)
       PROVE  CreditHeld'
  BY <1>5, <1>12 DEF NotFound, InsertRefused, FinishRefused, ReplayRaises
<1>13. ASSUME NEW p \in Procs, Dies(p) PROVE CreditHeld'
  BY <1>4, <1>5, <1>13 DEF Dies
<1>14. ASSUME NEW o \in Operators, ReplayStep(o) PROVE CreditHeld'
  BY <1>7, <1>8, <1>12, <1>14, CreditWritten, Zenon DEF ReplayStep
<1> QED
  BY <1>4, <1>6, <1>9, <1>10, <1>11, <1>12, <1>13, <1>14, Zenon
     DEF ReplayNext, ReplayHealthy

\* FR-17 as the audit tells it: of all replays of an event, however many race
\* with each other and with the workers, at most one claims to have applied it,
\* and then it is applied (services/replay.py, adapters/queue.py).
THEOREM CreditOnce == ReplaySpec => []CreditedOnce
<1>1. ReplayInit => OnTask /\ CreditHeld
  BY DEF ReplayInit, OnTask, CreditHeld, Crediting
<1>2. RInv /\ OnTask /\ CreditHeld /\ [ReplayNext]_allVars => OnTask' /\ CreditHeld'
  <2>1. OnTask /\ UNCHANGED allVars => OnTask'
    BY DEF OnTask, allVars, vars, procVars, replayVars
  <2>2. CreditHeld /\ UNCHANGED allVars => CreditHeld'
    BY DEF CreditHeld, Crediting, Won, allVars, vars, bookVars, replayVars
  <2> QED
    BY <2>1, <2>2, OnTaskStep, CreditStep
<1>3. CreditHeld => CreditedOnce
  <2> SUFFICES ASSUME CreditHeld, NEW e \in Events,
                      NEW won,
                      won = {i \in DOMAIN requests[e] :
                                requests[e][i].outcome = "succeeded"}
               PROVE  Cardinality(won) <= 1 /\ (won # {} => ledger[e] # <<>>)
    BY DEF CreditedOnce
  <2>1. CASE won = {}
    <3>1. Cardinality(won) = 0
      BY <2>1, FS_EmptySet, Zenon
    <3> QED
      BY <2>1, <3>1
  <2>2. CASE won # {}
    <3>1. PICK i : i \in won
      BY <2>2
    <3>2. won = {i} /\ ledger[e] # <<>>
      BY <3>1 DEF CreditHeld, Won
    <3>3. Cardinality(won) = 1
      BY <3>2, FS_Singleton, Zenon
    <3> QED
      BY <3>2, <3>3
  <2> QED
    BY <2>1, <2>2
<1> QED
  BY <1>1, <1>2, <1>3, ReplayInvariance, PTL DEF ReplaySpec

\* What a request being served keeps, and the audit table, have their types.
THEOREM ReplayTypeCorrect == ReplaySpec => []ReplayTypeOK
<1>1. RInv => ReplayTypeOK
  BY DEF RInv
<1> QED
  BY <1>1, ReplayInvariance, PTL
==============================================================================
