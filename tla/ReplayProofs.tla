---------------------------- MODULE ReplayProofs ----------------------------
(***************************************************************************)
(* Theorems about Replay: what the core guarantees survives operators who  *)
(* replay and rule on events while the workers run, for any number of      *)
(* either.                                                                 *)
(***************************************************************************)
EXTENDS Replay, ProcessingProofs

\* Every step of the larger system is a step of the core, or one of these,
\* none of which touches payloads, ledger or accounts.
LEMMA ReplayCases ==
    ASSUME ReplayNext
    PROVE  \/ Next
           \/ UNCHANGED vars
           \/ \E o \in Operators : Requeue(o)
           \/ \E o \in Operators : InsertRequest(o)
           \/ \E o \in Operators : FinishRequest(o)
           \/ \E p \in Procs : GivesUp(p)
           \/ \E e \in Events, v \in Verdicts : Triage(e, v)
<1>1. ASSUME Core PROVE Next
  BY <1>1, Zenon DEF Core, Continue, Next, Healthy, Step
<1>2. ASSUME NEW p \in Procs, NEW r \in ProcessResult, Returns(p, r)
      PROVE  Next
  BY <1>2, Zenon DEF Returns, Finish, Next, Healthy, Step
<1>3. ASSUME NEW o \in Operators, NEW ids \in Requests, Select(o, ids)
      PROVE  UNCHANGED vars
  BY <1>3 DEF Select
<1>4. ASSUME NEW o \in Operators, NotFound(o) \/ NoteAttempt(o) \/ InsertRefused(o)
      PROVE  UNCHANGED vars
  BY <1>4 DEF NotFound, NoteAttempt, InsertRefused
<1>5. ASSUME NEW o \in Operators, FinishRefused(o) \/ ReplayRaises(o)
      PROVE  o \in Procs /\ GivesUp(o)
  BY <1>5, OperatorsAssumption DEF FinishRefused, ReplayRaises, GivesUp
<1>6. ASSUME NEW old \in SUBSET Events, Purge(old)
      PROVE  Next
  BY <1>6, Zenon DEF Purge, Next, Healthy
<1>7. ASSUME NEW p \in Procs, Dies(p)
      PROVE  Next
  BY <1>7, Zenon DEF Dies, Next
<1>8. ASSUME NEW o \in Operators, ReplayStep(o)
      PROVE  \/ UNCHANGED vars
             \/ Requeue(o) \/ InsertRequest(o) \/ FinishRequest(o)
             \/ \E p \in Procs : GivesUp(p)
  BY <1>4, <1>5, <1>8, Zenon DEF ReplayStep
<1> QED
  BY <1>1, <1>2, <1>3, <1>5, <1>6, <1>7, <1>8, Zenon
     DEF ReplayNext, ReplayHealthy

-----------------------------------------------------------------------------
(* The core's invariant.                                                    *)

\* The first transaction of a replay: the row is nobody's, so making it pending
\* takes nothing from a transaction that owns it.
LEMMA RequeueKeeps ==
    ASSUME RInv, NEW o \in Operators, Requeue(o)
    PROVE  IInv'
<1>0. PICK e : e = Head(todo[o])
  OBVIOUS
<1>1. o \in Procs
  BY OperatorsAssumption
<1>2. e \in Events
  <2>1. todo[o] \in Seq(Events) /\ todo[o] # <<>>
    BY DEF RInv, ReplayTypeOK, Requeue
  <2> QED
    BY <1>0, <2>1, HeadTailProperties, Zenon
<1>3. /\ Present(e) /\ RowFree(e)
      /\ status' = [status EXCEPT ![e] = "pending"]
      /\ attempt_count' = [attempt_count EXCEPT ![e] = 0]
      /\ due' = [due EXCEPT ![e] = TRUE]
      /\ dlq' = [dlq EXCEPT ![e] = MarkReplaying(e)]
      /\ batch' = [batch EXCEPT ![o] = {e}]
      /\ UNCHANGED <<content, attempts, ledger, balance, version, pc, evt, txn, exc>>
  BY <1>0 DEF Requeue, Requeueable, bookVars
<1>4. TypeOK /\ Stored /\ RowOwned /\ EntityOwned
  BY DEF RInv, IInv
<1>5. TypeOK'
  <2>1. MarkReplaying(e) \in DlqStatus \cup {NULL}
    BY <1>2, <1>4 DEF TypeOK, MarkReplaying, DlqStatus
  <2> QED
    BY <1>1, <1>2, <1>3, <1>4, <2>1 DEF TypeOK
<1>6. Stored'
  BY <1>1, <1>2, <1>3, <1>4 DEF TypeOK, Stored, Present
<1>7. RowOwned'
  BY <1>2, <1>3, <1>4 DEF TypeOK, Stored, RowOwned, InTransaction
<1>8. EntityOwned'
  BY <1>3, <1>4 DEF EntityOwned, KeyOf
<1>9. BufferedIsCurrent'
  BY <1>3, BookUntouched DEF RInv
<1> QED
  BY <1>5, <1>6, <1>7, <1>8, <1>9 DEF IInv

\* The last transaction opens: the operator points at a stored row.
LEMMA InsertKeeps ==
    ASSUME RInv, NEW o \in Operators, InsertRequest(o)
    PROVE  IInv'
<1>0. PICK e : e = Head(todo[o])
  OBVIOUS
<1>1. o \in Procs
  BY OperatorsAssumption
<1>2. TypeOK /\ Stored /\ RowOwned
  BY DEF RInv, IInv
<1>3. /\ Present(e)
      /\ pc' = [pc EXCEPT ![o] = "recording"]
      /\ evt' = [evt EXCEPT ![o] = e]
      /\ UNCHANGED <<content, status, attempt_count, due, attempts, dlq,
                     ledger, balance, version, batch, txn, exc>>
  BY <1>0 DEF InsertRequest, References, rowVars, bookVars
<1>4. e \in Events
  <2>1. todo[o] \in Seq(Events)
    BY DEF RInv, ReplayTypeOK
  <2>2. stage[o] # "none"
    BY DEF InsertRequest
  <2> QED
    BY <1>0, <2>1, <2>2, HeadTailProperties DEF RInv, Serving
<1>5. TypeOK'
  BY <1>1, <1>2, <1>3, <1>4 DEF TypeOK
<1>6. Stored'
  BY <1>1, <1>2, <1>3, <1>4 DEF TypeOK, Stored, Present
<1>7. RowOwned'
  BY <1>1, <1>2, <1>3 DEF TypeOK, RowOwned, InTransaction
<1>8. EntityOwned'
  BY <1>1, <1>2, <1>3, LocksReleased DEF RInv, TypeOK
<1>9. BufferedIsCurrent'
  BY <1>1, <1>2, <1>3, BookUntouched DEF RInv, TypeOK
<1> QED
  BY <1>5, <1>6, <1>7, <1>8, <1>9 DEF IInv

\* A process that returns to its loop, while the entries move or stay.
LEMMA ReturnKeeps ==
    ASSUME IInv, NEW p \in Procs, Return(p),
           batch' \in {batch, [batch EXCEPT ![p] = {}]},
           dlq' \in [Events -> DlqStatus \cup {NULL}],
           UNCHANGED <<content, status, attempt_count, due, attempts,
                       ledger, balance, version>>
    PROVE  IInv'
<1>1. TypeOK /\ Stored /\ RowOwned
  BY DEF IInv
<1>2. TypeOK'
  BY <1>1, ReturnType DEF TypeOK
<1>3. Stored'
  BY <1>1 DEF TypeOK, Stored, Return
<1>4. RowOwned'
  BY <1>1 DEF TypeOK, RowOwned, Return, InTransaction
<1>5. EntityOwned'
  BY <1>1, LocksReleased DEF TypeOK, Return
<1>6. BufferedIsCurrent'
  BY <1>1, BookUntouched DEF TypeOK, Return
<1> QED
  BY <1>2, <1>3, <1>4, <1>5, <1>6 DEF IInv

\* What the last transaction of a replay makes of the entry.
LEMMA FinishDlq ==
    ASSUME RInv, NEW o \in Operators, FinishRequest(o)
    PROVE  /\ dlq' \in [Events -> DlqStatus \cup {NULL}]
           /\ \A e \in Events : dlq[e] \in {"resolved", "discarded"} => dlq'[e] = dlq[e]
<1>0. PICK e : e = Head(todo[o])
  OBVIOUS
<1>1. dlq' = [dlq EXCEPT ![e] = IF Settles(o) THEN SettleTarget(o) ELSE dlq[e]]
  BY <1>0 DEF FinishRequest
<1>2. dlq \in [Events -> DlqStatus \cup {NULL}]
  BY DEF RInv, IInv, TypeOK
<1>3. SettleTarget(o) \in DlqStatus
  BY DEF SettleTarget, DlqStatus
<1>4. dlq' \in [Events -> DlqStatus \cup {NULL}]
  BY <1>1, <1>2, <1>3
<1>5. ASSUME NEW g \in Events, dlq[g] \in {"resolved", "discarded"}
      PROVE  dlq'[g] = dlq[g]
  <2>1. CASE g = e
    <3>1. AllowedMoves(dlq[e]) = {}
      BY <1>5, <2>1 DEF AllowedMoves
    <3>2. ~LegalMove(o)
      BY <1>0, <3>1 DEF LegalMove
    <3>3. ~Settles(o)
      BY <3>2 DEF FinishRequest
    <3> QED
      BY <1>1, <1>2, <2>1, <3>3
  <2>2. CASE g # e
    BY <1>1, <1>2, <2>2
  <2> QED
    BY <2>1, <2>2
<1> QED
  BY <1>4, <1>5

\* What triage makes of the entry.
LEMMA TriageDlq ==
    ASSUME IInv, NEW e \in Events, NEW v \in Verdicts, Triage(e, v)
    PROVE  /\ dlq' \in [Events -> DlqStatus \cup {NULL}]
           /\ \A g \in Events : dlq[g] \in {"resolved", "discarded"} => dlq'[g] = dlq[g]
<1>1. dlq \in [Events -> DlqStatus \cup {NULL}] /\ v \in DlqStatus
  BY VerdictsAssumption DEF IInv, TypeOK, DlqStatus
<1>2. dlq' = [dlq EXCEPT ![e] = v] /\ v \in AllowedMoves(dlq[e])
  BY DEF Triage
<1>3. dlq[e] \notin {"resolved", "discarded"}
  BY <1>2 DEF AllowedMoves
<1> QED
  BY <1>1, <1>2, <1>3

\* A triage decision moves an entry and nothing else.
LEMMA TriageKeeps ==
    ASSUME IInv, NEW e \in Events, NEW v \in Verdicts, Triage(e, v)
    PROVE  IInv'
<1>1. UNCHANGED <<content, status, attempt_count, due, attempts, ledger,
                  balance, version, pc, batch, evt, txn, exc>>
  BY DEF Triage, bookVars, procVars
<1>2. TypeOK /\ Stored /\ RowOwned /\ EntityOwned
  BY DEF IInv
<1>3. TypeOK'
  BY <1>1, <1>2, TriageDlq DEF TypeOK
<1>4. Stored' /\ RowOwned' /\ EntityOwned'
  BY <1>1, <1>2 DEF Stored, RowOwned, EntityOwned, InTransaction, KeyOf
<1>5. BufferedIsCurrent'
  BY <1>1, BookUntouched
<1> QED
  BY <1>3, <1>4, <1>5 DEF IInv

\* The core's inductive invariant survives every step of the larger system.
LEMMA CoreKept == RInv /\ [ReplayNext]_allVars => IInv'
<1> SUFFICES ASSUME RInv, [ReplayNext]_allVars PROVE IInv'
  OBVIOUS
<1>0. IInv
  BY DEF RInv
<1>1. ASSUME Next PROVE IInv'
  BY <1>0, <1>1, TypeStep, StoredStep, RowOwnedStep, EntityOwnedStep,
     BufferedStep DEF IInv
<1>2. ASSUME UNCHANGED vars PROVE IInv'
  BY <1>0, <1>2, StutterIInv
<1>3. ASSUME NEW o \in Operators, FinishRequest(o) PROVE IInv'
  <2>1. /\ o \in Procs /\ Return(o) /\ batch' = batch
        /\ UNCHANGED <<content, status, attempt_count, due, attempts,
                       ledger, balance, version>>
    BY <1>3, OperatorsAssumption DEF FinishRequest, bookVars
  <2> QED
    BY <1>0, <1>3, <2>1, FinishDlq, ReturnKeeps
<1>4. ASSUME NEW p \in Procs, GivesUp(p) PROVE IInv'
  <2>1. dlq' \in [Events -> DlqStatus \cup {NULL}]
    BY <1>0, <1>4 DEF GivesUp, rowVars, IInv, TypeOK
  <2> QED
    BY <1>0, <1>4, <2>1, ReturnKeeps DEF GivesUp, rowVars, bookVars
<1>5. ASSUME UNCHANGED allVars PROVE UNCHANGED vars
  BY <1>5 DEF allVars
<1> QED
  BY <1>0, <1>1, <1>2, <1>3, <1>4, <1>5, RequeueKeeps, InsertKeeps, TriageKeeps,
     ReplayCases, Zenon

-----------------------------------------------------------------------------
(* The requests being served.                                               *)

\* A dropped request keeps its types.
LEMMA AbandonType ==
    ASSUME ReplayTypeOK, NEW o \in Operators, Abandon(o)
    PROVE  ReplayTypeOK'
<1>1. <<>> \in Seq(Events)
  BY EmptySeq
<1> QED
  BY <1>1 DEF ReplayTypeOK, Abandon

\* Retention keeps the types of the audit rows it leaves.
LEMMA PurgeType ==
    ASSUME ReplayTypeOK, NEW old \in SUBSET Events, Purge(old)
    PROVE  ReplayTypeOK'
<1> DEFINE R == [outcome : ReplayOutcome, attempt : Nat]
           cut(e) == [i \in DOMAIN requests[e] |-> [requests[e][i] EXCEPT !.attempt = 0]]
<1>1. <<>> \in Seq(R)
  BY EmptySeq
<1>2. ASSUME NEW e \in Events
      PROVE  cut(e) \in Seq(R)
  <2>1. requests[e] \in Seq(R)
    BY DEF ReplayTypeOK
  <2>2. DOMAIN requests[e] = 1 .. Len(requests[e]) /\ Len(requests[e]) \in Nat
    BY <2>1, LenProperties
  <2>3. ASSUME NEW i \in 1 .. Len(requests[e])
        PROVE  [requests[e][i] EXCEPT !.attempt = 0] \in R
    <3>1. requests[e][i] \in R
      BY <2>1, ElementOfSeq, Zenon
    <3> QED
      BY <3>1
  <2>4. cut(e) \in [1 .. Len(requests[e]) -> R]
    BY <2>2, <2>3
  <2> HIDE DEF R
  <2> QED
    BY <2>2, <2>4, SeqDef
<1>3. requests' \in [Events -> Seq(R)]
  <2>1. requests' = [e \in Events |->
             IF e \notin old THEN requests[e]
             ELSE IF Effectless(e) THEN <<>> ELSE cut(e)]
    BY DEF Purge
  <2>2. requests \in [Events -> Seq(R)]
    BY DEF ReplayTypeOK
  <2> HIDE DEF R, cut
  <2> QED
    BY <1>1, <1>2, <2>1, <2>2
<1> QED
  BY <1>3 DEF Purge, ReplayTypeOK

\* Every step keeps the requests well typed.
LEMMA ReplayTypeStep == RInv /\ ReplayNext => ReplayTypeOK'
<1> SUFFICES ASSUME RInv, ReplayNext PROVE ReplayTypeOK'
  OBVIOUS
<1>0. ReplayTypeOK
  BY DEF RInv
<1>1. ASSUME UNCHANGED replayVars PROVE ReplayTypeOK'
  BY <1>0, <1>1 DEF replayVars, ReplayTypeOK
<1>2. ASSUME NEW p \in Procs, NEW r \in ProcessResult, Returns(p, r)
      PROVE  ReplayTypeOK'
  BY <1>0, <1>2 DEF Returns, ReplayTypeOK
<1>3. ASSUME NEW o \in Operators, NEW ids \in Requests, Select(o, ids)
      PROVE  ReplayTypeOK'
  <2>1. ids \in Seq(Events)
    <3>1. PICK n \in 1 .. ReplayMaxBatch : ids \in [1 .. n -> Events]
      BY DEF Requests
    <3>2. n \in Nat
      BY ReplayBoundsAssumption
    <3> QED
      BY <3>1, <3>2, SeqDef
  <2>2. /\ todo' = [todo EXCEPT ![o] = ids] /\ calls' = calls + 1
        /\ UNCHANGED <<stage, result, noted, seen, requests>>
    BY <1>3 DEF Select
  <2>3. todo' \in [Operators -> Seq(Events)]
    BY <1>0, <2>1, <2>2 DEF ReplayTypeOK
  <2>4. calls' \in Nat
    BY <1>0, <2>2 DEF ReplayTypeOK
  <2>5. UNCHANGED <<stage, result, noted, seen, requests>>
    BY <2>2
  <2> HIDE <2>2
  <2> QED
    BY <1>0, <2>3, <2>4, <2>5 DEF ReplayTypeOK
<1>4. ASSUME NEW o \in Operators, NotFound(o) \/ InsertRefused(o) \/ FinishRefused(o) \/ ReplayRaises(o)
      PROVE  ReplayTypeOK'
  BY <1>0, <1>4, AbandonType DEF NotFound, InsertRefused, FinishRefused, ReplayRaises
<1>5. ASSUME NEW o \in Operators, Requeue(o)
      PROVE  ReplayTypeOK'
  BY <1>0, <1>5 DEF Requeue, ReplayTypeOK
<1>6. ASSUME NEW o \in Operators, NoteAttempt(o)
      PROVE  ReplayTypeOK'
  <2>1. Head(todo[o]) \in Events
    BY <1>0, <1>6, HeadTailProperties DEF NoteAttempt, RInv, Serving, ReplayTypeOK
  <2>2. attempts[Head(todo[o])] \in Seq([number : Nat, outcome : AttemptOutcome])
    BY <2>1 DEF RInv, IInv, TypeOK
  <2>3. Len(attempts[Head(todo[o])]) \in Nat
    BY <2>2, LenProperties
  <2> QED
    BY <1>0, <1>6, <2>3 DEF NoteAttempt, ReplayTypeOK
<1>7. ASSUME NEW o \in Operators, InsertRequest(o)
      PROVE  ReplayTypeOK'
  <2>1. Head(todo[o]) \in Events
    BY <1>0, <1>7, HeadTailProperties DEF InsertRequest, RInv, Serving, ReplayTypeOK
  <2>2. dlq[Head(todo[o])] \in DlqStatus \cup {NULL}
    BY <2>1 DEF RInv, IInv, TypeOK
  <2> QED
    BY <1>0, <1>7, <2>2 DEF InsertRequest, ReplayTypeOK
<1>8. ASSUME NEW o \in Operators, FinishRequest(o)
      PROVE  ReplayTypeOK'
  <2>1. todo[o] \in Seq(Events) /\ todo[o] # <<>>
    BY <1>0, <1>8 DEF FinishRequest, RInv, Serving, ReplayTypeOK
  <2>2. Head(todo[o]) \in Events /\ Tail(todo[o]) \in Seq(Events)
    BY <2>1, HeadTailProperties
  <2>3. [outcome |-> OutcomeOf(result[o]), attempt |-> noted[o]]
          \in [outcome : ReplayOutcome, attempt : Nat]
    BY <1>0 DEF OutcomeOf, ReplayOutcome, ReplayTypeOK
  <2>4. Append(requests[Head(todo[o])],
               [outcome |-> OutcomeOf(result[o]), attempt |-> noted[o]])
          \in Seq([outcome : ReplayOutcome, attempt : Nat])
    <3>1. requests[Head(todo[o])] \in Seq([outcome : ReplayOutcome, attempt : Nat])
      BY <1>0, <2>2 DEF ReplayTypeOK
    <3> QED
      BY <2>3, <3>1, AppendProperties, Zenon
  <2>5. requests' \in [Events -> Seq([outcome : ReplayOutcome, attempt : Nat])]
    BY <1>0, <1>8, <2>4 DEF FinishRequest, ReplayTypeOK
  <2>6. todo' \in [Operators -> Seq(Events)]
    BY <1>0, <1>8, <2>2 DEF FinishRequest, ReplayTypeOK
  <2> QED
    BY <1>0, <1>8, <2>5, <2>6 DEF FinishRequest, ReplayTypeOK
<1>9. ASSUME NEW p \in Procs, Dies(p)
      PROVE  ReplayTypeOK'
  BY <1>0, <1>1, <1>9, AbandonType DEF Dies
<1>10. ASSUME Core \/ \E e \in Events, v \in Verdicts : Triage(e, v)
       PROVE  UNCHANGED replayVars
  BY <1>10 DEF Core, Triage
<1>11. ASSUME NEW o \in Operators, ReplayStep(o)
       PROVE  ReplayTypeOK'
  BY <1>4, <1>5, <1>6, <1>7, <1>8, <1>11, Zenon DEF ReplayStep
<1>12. ASSUME NEW old \in SUBSET Events, Purge(old)
       PROVE  ReplayTypeOK'
  BY <1>0, <1>12, PurgeType
<1> QED
  BY <1>1, <1>2, <1>3, <1>4, <1>9, <1>10, <1>11, <1>12, Zenon
     DEF ReplayNext, ReplayHealthy

\* One process of the core moves at a time.  An operator's moves inside
\* process_event that do not return from it need a call to be under way.
LEMMA ContinueActor ==
    ASSUME TypeOK, NEW p \in Procs, Continue(p)
    PROVE  /\ \A q \in Procs \ {p} : pc'[q] = pc[q] /\ batch'[q] = batch[q]
           /\ pc[p] = "idle" => batch[p] # {}
           /\ pc'[p] # "idle" /\ pc[p] # "recording"
           /\ batch'[p] \subseteq batch[p]
           /\ pc[p] = "idle" => \E e \in batch[p] : batch'[p] = batch[p] \ {e}
<1>1. ASSUME NEW e \in Events, Claim(p, e) \/ \E x \in Faults : ClaimFails(p, e, x)
      PROVE  /\ pc[p] = "idle" /\ e \in batch[p]
             /\ batch' = [batch EXCEPT ![p] = batch[p] \ {e}]
             /\ \E l \in {"claimed", "failed"} : pc' = [pc EXCEPT ![p] = l]
  BY <1>1 DEF Claim, ClaimFails, Abort
<1>2. ASSUME \/ LockEntity(p) \/ HandlerRefuses(p) \/ ApplyEffect(p)
             \/ EffectOverflows(p) \/ LockTimeout(p)
             \/ \E x \in Faults : TransactionFails(p, x) \/ CommitAckLost(p, x)
      PROVE  /\ pc[p] \in {"claimed", "locked", "applied"}
             /\ batch' = batch
             /\ \E l \in {"locked", "applied", "failed"} : pc' = [pc EXCEPT ![p] = l]
  BY <1>2 DEF LockEntity, HandlerRefuses, ApplyEffect, EffectOverflows,
              LockTimeout, TransactionFails, CommitAckLost, Abort, InTransaction
<1>3. CASE \E e \in Events : Claim(p, e) \/ \E x \in Faults : ClaimFails(p, e, x)
  <2>1. PICK e \in Events : Claim(p, e) \/ \E x \in Faults : ClaimFails(p, e, x)
    BY <1>3
  <2>2. /\ pc[p] = "idle" /\ e \in batch[p]
        /\ batch' = [batch EXCEPT ![p] = batch[p] \ {e}]
        /\ \E l \in {"claimed", "failed"} : pc' = [pc EXCEPT ![p] = l]
    BY <1>1, <2>1
  <2>3. /\ batch'[p] = batch[p] \ {e}
        /\ pc'[p] \in {"claimed", "failed"}
        /\ \A q \in Procs \ {p} : pc'[q] = pc[q] /\ batch'[q] = batch[q]
    BY <2>2 DEF TypeOK
  <2> QED
    BY <2>2, <2>3
<1>4. CASE \/ LockEntity(p) \/ HandlerRefuses(p) \/ ApplyEffect(p)
           \/ EffectOverflows(p) \/ LockTimeout(p)
           \/ \E x \in Faults : TransactionFails(p, x) \/ CommitAckLost(p, x)
  BY <1>2, <1>4 DEF TypeOK
<1> QED
  BY <1>3, <1>4, Zenon DEF Continue, Fault

\* When process_event returns, its caller is back in its loop.
LEMMA FinishActor ==
    ASSUME TypeOK, NEW p \in Procs, NEW r \in ProcessResult, Finish(p, r)
    PROVE  /\ \A q \in Procs \ {p} : pc'[q] = pc[q] /\ batch'[q] = batch[q]
           /\ pc'[p] = "idle" /\ pc[p] # "recording"
           /\ \/ pc[p] # "idle" /\ batch'[p] = batch[p]
              \/ \E e \in batch[p] : batch'[p] = batch[p] \ {e}
<1>1. ASSUME Commit(p) \/ Reschedule(p) \/ DeadLetter(p) \/ EventVanished(p)
      PROVE  /\ pc[p] \in {"applied", "failed"} /\ batch' = batch
             /\ pc' = [pc EXCEPT ![p] = "idle"]
  BY <1>1 DEF Commit, Reschedule, DeadLetter, EventVanished, FailureLoaded, Return
<1>2. ASSUME NEW e \in Events, ClaimMiss(p, e)
      PROVE  /\ pc[p] = "idle" /\ e \in batch[p] /\ pc' = pc
             /\ batch' = [batch EXCEPT ![p] = batch[p] \ {e}]
  BY <1>2 DEF ClaimMiss
<1>3. CASE Commit(p) \/ Reschedule(p) \/ DeadLetter(p) \/ EventVanished(p)
  BY <1>1, <1>3 DEF TypeOK
<1>4. CASE \E e \in Events : ClaimMiss(p, e)
  BY <1>2, <1>4 DEF TypeOK
<1> QED
  BY <1>3, <1>4, Zenon DEF Finish

\* A dropped request leaves its process in its loop.
LEMMA AbandonServing ==
    ASSUME RInv, NEW o \in Operators, Abandon(o),
           pc'[o] = "idle", batch'[o] = {},
           \A q \in Operators \ {o} : pc'[q] = pc[q] /\ batch'[q] = batch[q]
    PROVE  Serving'
BY DEF RInv, ReplayTypeOK, Serving, Abandon

\* Every step keeps requests and calls of process_event together.
LEMMA ServingStep == RInv /\ ReplayNext => Serving'
<1> SUFFICES ASSUME RInv, ReplayNext PROVE Serving'
  OBVIOUS
<1>0. /\ TypeOK /\ ReplayTypeOK /\ Serving
      /\ \A o \in Operators : o \in Procs /\ o \notin Workers
  BY OperatorsAssumption DEF RInv, IInv
<1>1. ASSUME UNCHANGED <<pc, batch, todo, stage>>
      PROVE  Serving'
  BY <1>0, <1>1 DEF Serving
<1>2. ASSUME NEW p \in Workers, NEW ids \in SUBSET Events, Poll(p, ids),
             UNCHANGED replayVars
      PROVE  Serving'
  BY <1>0, <1>2 DEF Poll, replayVars, TypeOK, Serving
<1>3. ASSUME NEW p \in Procs, Continue(p), UNCHANGED replayVars
      PROVE  Serving'
  BY <1>0, <1>3, ContinueActor DEF replayVars, Serving
<1>4. ASSUME NEW p \in Procs, NEW r \in ProcessResult, Returns(p, r)
      PROVE  Serving'
  <2>1. Finish(p, r) /\ todo' = todo
    BY <1>4 DEF Returns
  <2>2. CASE p \in Operators
    <3>1. stage' = [stage EXCEPT ![p] = "processed"]
      BY <1>4, <2>2 DEF Returns
    <3>2. stage[p] = "processing" /\ todo[p] # <<>> /\ batch'[p] = {}
      BY <1>0, <2>1, <2>2, FinishActor DEF Serving
    <3>3. pc'[p] = "idle" /\ \A q \in Procs \ {p} : pc'[q] = pc[q] /\ batch'[q] = batch[q]
      BY <1>0, <2>1, FinishActor
    <3> QED
      BY <1>0, <2>1, <2>2, <3>1, <3>2, <3>3 DEF ReplayTypeOK, Serving
  <2>3. CASE p \notin Operators
    <3>1. stage' = stage
      BY <1>4, <2>3 DEF Returns
    <3> QED
      BY <1>0, <2>1, <2>3, <3>1, FinishActor DEF Serving
  <2> QED
    BY <2>2, <2>3
<1>5. ASSUME NEW o \in Operators, NEW ids \in Requests, Select(o, ids)
      PROVE  Serving'
  <2>1. /\ stage[o] = "none" /\ todo' = [todo EXCEPT ![o] = ids]
        /\ UNCHANGED <<pc, batch, stage>>
    BY <1>5 DEF Select, vars, procVars
  <2> QED
    BY <1>0, <2>1 DEF ReplayTypeOK, Serving
<1>6. ASSUME NEW o \in Operators, NotFound(o) \/ InsertRefused(o)
      PROVE  Serving'
  <2>1. /\ Abandon(o) /\ stage[o] \in {"none", "noted"}
        /\ UNCHANGED <<pc, batch>>
    BY <1>6 DEF NotFound, InsertRefused, vars, procVars
  <2> QED
    BY <1>0, <2>1, AbandonServing DEF Serving
<1>7. ASSUME NEW o \in Operators, FinishRefused(o) \/ ReplayRaises(o)
      PROVE  Serving'
  <2>1. /\ Abandon(o) /\ Return(o) /\ stage[o] # "processing" /\ batch' = batch
    BY <1>7 DEF FinishRefused, ReplayRaises, OutsideProcessing
  <2> QED
    BY <1>0, <2>1, AbandonServing DEF Serving, Return, TypeOK
<1>8. ASSUME NEW o \in Operators, Requeue(o)
      PROVE  Serving'
  <2>1. /\ stage[o] = "none" /\ todo[o] # <<>>
        /\ stage' = [stage EXCEPT ![o] = "processing"]
        /\ batch' = [batch EXCEPT ![o] = {Head(todo[o])}]
        /\ UNCHANGED <<pc, todo>>
    BY <1>8 DEF Requeue
  <2> QED
    BY <1>0, <2>1 DEF TypeOK, ReplayTypeOK, Serving
<1>9. ASSUME NEW o \in Operators, NoteAttempt(o)
      PROVE  Serving'
  <2>1. /\ stage[o] = "processed" /\ stage' = [stage EXCEPT ![o] = "noted"]
        /\ UNCHANGED <<pc, batch, todo>>
    BY <1>9 DEF NoteAttempt, vars, procVars
  <2> QED
    BY <1>0, <2>1 DEF ReplayTypeOK, Serving
<1>10. ASSUME NEW o \in Operators, InsertRequest(o)
       PROVE  Serving'
  <2>1. /\ stage[o] = "noted" /\ stage' = [stage EXCEPT ![o] = "recorded"]
        /\ pc' = [pc EXCEPT ![o] = "recording"]
        /\ UNCHANGED <<batch, todo>>
    BY <1>10 DEF InsertRequest
  <2> QED
    BY <1>0, <2>1 DEF TypeOK, ReplayTypeOK, Serving
<1>11. ASSUME NEW o \in Operators, FinishRequest(o)
       PROVE  Serving'
  <2>1. /\ stage[o] = "recorded" /\ stage' = [stage EXCEPT ![o] = "none"]
        /\ pc' = [pc EXCEPT ![o] = "idle"]
        /\ todo' = [todo EXCEPT ![o] = Tail(todo[o])]
        /\ batch' = batch
    BY <1>11 DEF FinishRequest, Return
  <2> QED
    BY <1>0, <2>1 DEF TypeOK, ReplayTypeOK, Serving
<1>12. ASSUME NEW p \in Procs, Dies(p)
       PROVE  Serving'
  <2>1. /\ pc' = [pc EXCEPT ![p] = "idle"]
        /\ batch' = [batch EXCEPT ![p] = {}]
    BY <1>12 DEF Dies, Crash, Return
  <2>2. CASE p \in Operators
    BY <1>0, <1>12, <2>1, <2>2, AbandonServing DEF Dies, TypeOK
  <2>3. CASE p \notin Operators
    <3>1. UNCHANGED <<todo, stage>>
      BY <1>12, <2>3 DEF Dies, replayVars
    <3> QED
      BY <1>0, <2>1, <2>3, <3>1 DEF TypeOK, Serving
  <2> QED
    BY <2>2, <2>3
<1>13. ASSUME \/ \E e \in Events, v \in Verdicts : Triage(e, v)
              \/ \E old \in SUBSET Events : Purge(old)
       PROVE  Serving'
  <2>1. UNCHANGED <<pc, batch, todo, stage>>
    BY <1>13 DEF Triage, Purge, PurgeHistory, procVars, replayVars
  <2> QED
    BY <2>1, <1>1
<1>14. ASSUME Core PROVE Serving'
  <2>1. ASSUME UNCHANGED replayVars,
               \/ \E e \in Events, c \in Contents : Ingest(e, c)
               \/ \E e \in Events : BackoffElapsed(e)
        PROVE  Serving'
    <3>1. UNCHANGED <<pc, batch, todo, stage>>
      BY <2>1 DEF Ingest, BackoffElapsed, procVars, replayVars
    <3> QED
      BY <3>1, <1>1
  <2> QED
    BY <1>2, <1>3, <1>14, <2>1, Zenon DEF Core
<1>15. ASSUME NEW o \in Operators, ReplayStep(o)
       PROVE  Serving'
  BY <1>6, <1>7, <1>8, <1>9, <1>10, <1>11, <1>15, Zenon DEF ReplayStep
<1> QED
  BY <1>4, <1>5, <1>7, <1>12, <1>13, <1>14, <1>15, Zenon
     DEF ReplayNext, ReplayHealthy

-----------------------------------------------------------------------------
(* The theorems.                                                            *)

\* The inductive invariant of the larger system: the core's, with requests well
\* typed and every operator inside process_event exactly when its request says.
THEOREM ReplayInvariance == ReplaySpec => []RInv
<1>1. ReplayInit => RInv
  <2> SUFFICES ASSUME ReplayInit PROVE RInv
    OBVIOUS
  <2>1. IInv
    BY InitIInv DEF ReplayInit
  <2>2. ReplayTypeOK
    <3>1. <<>> \in Seq(Events) /\ <<>> \in Seq([outcome : ReplayOutcome, attempt : Nat])
      BY EmptySeq
    <3> QED
      BY <3>1 DEF ReplayInit, ReplayTypeOK
  <2>3. Serving
    BY OperatorsAssumption DEF ReplayInit, Init, Serving
  <2> QED
    BY <2>1, <2>2, <2>3 DEF RInv
<1>2. RInv /\ [ReplayNext]_allVars => RInv'
  <2> SUFFICES ASSUME RInv, [ReplayNext]_allVars PROVE RInv'
    OBVIOUS
  <2>1. IInv'
    BY CoreKept
  <2>2. CASE ReplayNext
    BY <2>1, <2>2, ReplayTypeStep, ServingStep DEF RInv
  <2>3. CASE UNCHANGED allVars
    <3>1. UNCHANGED <<pc, batch, todo, stage, result, noted, seen, requests, calls>>
      BY <2>3 DEF allVars, vars, procVars, replayVars
    <3> QED
      BY <2>1, <3>1 DEF RInv, ReplayTypeOK, Serving
  <2> QED
    BY <2>2, <2>3
<1> QED
  BY <1>1, <1>2, PTL DEF ReplaySpec

\* FR-17, for any number of operators and workers: with replays and triage the
\* system still implements the serial account book, so a replay never applies
\* an effect a second time (services/replay.py, adapters/ledger.py).
THEOREM ReplayRefinement == ReplaySpec => ImplementsAccountBook
<1>1. ReplayInit => Book!Init
  BY DEF ReplayInit, Init, Book!Init
<1>2. RInv /\ [ReplayNext]_allVars => [Book!Next]_(Book!bookVars)
  <2> SUFFICES ASSUME RInv, [ReplayNext]_allVars
               PROVE  [Book!Next]_(Book!bookVars)
    OBVIOUS
  <2>1. ASSUME Next \/ UNCHANGED vars PROVE [Book!Next]_(Book!bookVars)
    BY <2>1, BookStep DEF RInv
  <2>2. ASSUME \/ \E o \in Operators : Requeue(o)
               \/ \E o \in Operators : InsertRequest(o)
               \/ \E o \in Operators : FinishRequest(o)
               \/ \E p \in Procs : GivesUp(p)
               \/ \E e \in Events, v \in Verdicts : Triage(e, v)
        PROVE  UNCHANGED Book!bookVars
    <3>1. UNCHANGED <<content, ledger, balance, version>>
      BY <2>2 DEF Requeue, InsertRequest, FinishRequest, GivesUp, Triage,
                  rowVars, bookVars
    <3> QED
      BY <3>1, BookStutter
  <2>3. ASSUME UNCHANGED allVars PROVE UNCHANGED vars
    BY <2>3 DEF allVars
  <2> QED
    BY <2>1, <2>2, <2>3, ReplayCases, Zenon
<1> QED
  BY <1>1, <1>2, ReplayInvariance, PTL DEF ReplaySpec, ImplementsAccountBook, Book!Spec

\* A step of the core leaves a ruled entry alone, or retention deletes it:
\* dead-lettering an event again does not touch the entry it finds.
LEMMA CoreVerdict ==
    ASSUME IInv, Next, NEW e \in Events, dlq[e] \in {"resolved", "discarded"}
    PROVE  dlq'[e] \in {dlq[e], NULL}
<1>1. ASSUME \/ \E p \in Procs : Commit(p)
             \/ \E p \in Procs, x \in Exceptions : CommitAckLost(p, x)
             \/ \E p \in Procs : Reschedule(p)
             \/ \E g \in Events, c \in Contents : Ingest(g, c)
             \/ \E g \in Events : BackoffElapsed(g)
      PROVE  dlq' = dlq
  BY <1>1 DEF Commit, CommitAckLost, CommitWrites, Reschedule, Ingest, BackoffElapsed
<1>2. ASSUME \/ \E p \in Procs, ids \in SUBSET Events : Poll(p, ids)
             \/ \E p \in Procs, g \in Events : Claim(p, g)
             \/ \E p \in Procs, g \in Events : ClaimMiss(p, g)
             \/ \E p \in Procs, g \in Events, x \in Exceptions : ClaimFails(p, g, x)
             \/ \E p \in Procs : LockEntity(p)
             \/ \E p \in Procs : Aborts(p)
             \/ \E p \in Procs : ApplyEffect(p)
             \/ \E p \in Procs : GivesUp(p)
      PROVE  dlq' = dlq
  BY <1>2 DEF Poll, Claim, ClaimMiss, ClaimFails, LockEntity, Aborts,
              ApplyEffect, GivesUp, rowVars
<1>3. ASSUME NEW p \in Procs, DeadLetter(p)
      PROVE  dlq'[e] = dlq[e]
  <2>1. dlq' = [dlq EXCEPT ![evt[p]] = DlqAfter(evt[p])]
    BY <1>3 DEF DeadLetter
  <2>2. dlq[e] # NULL
    BY NullAssumption DEF DlqStatus
  <2> QED
    BY <2>1, <2>2 DEF DlqAfter, IInv, TypeOK
<1>4. ASSUME NEW old \in SUBSET Events, PurgeHistory(old)
      PROVE  dlq'[e] \in {dlq[e], NULL}
  BY <1>4 DEF PurgeHistory
<1>5. dlq' = dlq => dlq'[e] \in {dlq[e], NULL}
  OBVIOUS
<1>6. dlq'[e] = dlq[e] => dlq'[e] \in {dlq[e], NULL}
  OBVIOUS
<1> QED
  BY <1>1, <1>2, <1>3, <1>4, <1>5, <1>6, NextCases, Zenon

\* FR-15: no step of any operator, worker or late failure reopens or rewrites a
\* ruling on a dead-letter entry (adapters/dlq.py, domain/dlq.py).
THEOREM RulingsAreFinal == ReplaySpec => VerdictStands
<1> DEFINE Ruled(e) == dlq[e] \in {"resolved", "discarded"}
           Stands == \A e \in Events : Ruled(e) => dlq'[e] \in {dlq[e], NULL}
<1>1. RInv /\ [ReplayNext]_allVars => [Stands]_allVars
  <2> SUFFICES ASSUME RInv, ReplayNext, NEW e \in Events, Ruled(e)
               PROVE  dlq'[e] \in {dlq[e], NULL}
    BY Zenon
  <2>0. IInv
    BY DEF RInv
  <2>1. CASE Next
    BY <2>0, <2>1, CoreVerdict
  <2>2. CASE UNCHANGED vars
    BY <2>2 DEF vars, rowVars
  <2>3. CASE \E o \in Operators : Requeue(o)
    <3>1. PICK o \in Operators : Requeue(o)
      BY <2>3
    <3>2. PICK g : g = Head(todo[o])
      OBVIOUS
    <3>3. dlq' = [dlq EXCEPT ![g] = MarkReplaying(g)]
      BY <3>1, <3>2 DEF Requeue
    <3>4. dlq \in [Events -> DlqStatus \cup {NULL}]
      BY <2>0 DEF IInv, TypeOK
    <3> QED
      BY <3>3, <3>4 DEF MarkReplaying
  <2>4. CASE \E o \in Operators : InsertRequest(o)
    BY <2>4 DEF InsertRequest, rowVars
  <2>5. CASE \E o \in Operators : FinishRequest(o)
    BY <2>5, FinishDlq
  <2>6. CASE \E p \in Procs : GivesUp(p)
    BY <2>6 DEF GivesUp, rowVars
  <2>7. CASE \E g \in Events, v \in Verdicts : Triage(g, v)
    BY <2>0, <2>7, TriageDlq
  <2> QED
    BY <2>1, <2>2, <2>3, <2>4, <2>5, <2>6, <2>7, ReplayCases, Zenon
<1> QED
  BY <1>1, ReplayInvariance, PTL DEF ReplaySpec, VerdictStands
=============================================================================
