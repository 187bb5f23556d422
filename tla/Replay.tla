------------------------------- MODULE Replay -------------------------------
(***************************************************************************)
(* Replay and triage, on top of the processing core: services/replay.py,   *)
(* adapters/dlq.py, and the two admin routes that change state             *)
(* (api/admin.py).                                                         *)
(*                                                                         *)
(* replay_event is three transactions: requeue the event and mark its      *)
(* dead-letter entry `replaying`; process_event, which is the core's; then *)
(* write the audit row and settle the entry.  Nothing is held between      *)
(* them, so workers, other operators and triage all come in between.       *)
(*                                                                         *)
(* An operator is a process of the core that never polls: Requeue hands it *)
(* one event through batch, and what process_event returns is kept in      *)
(* result.  The event of the replay under way is the head of todo.         *)
(***************************************************************************)
EXTENDS Processing

CONSTANTS
    Operators,      \* requests of POST /admin/replay being served
    ReplayMaxBatch, \* settings.replay_max_batch
    Verdicts,       \* statuses triage may ask for
    MaxCalls        \* bound on the replay requests of a behaviour

ASSUME OperatorsAssumption == Operators \subseteq Procs \ Workers
ASSUME VerdictsAssumption == Verdicts \subseteq {"resolved", "discarded"}
ASSUME ReplayBoundsAssumption == ReplayMaxBatch \in Nat /\ MaxCalls \in Nat

VARIABLES
    todo,       \* ids replay_events has not finished with
    stage,      \* where replay_event is, for the head of todo
    result,     \* what process_event returned
    noted,      \* latest_attempt_id, as the last transaction read it
    seen,       \* the entry's status, as _settle_dlq read it
    requests,   \* replay_request rows of an event, in id order
    calls       \* replay requests made so far

replayVars == <<todo, stage, result, noted, seen, requests, calls>>
allVars    == <<vars, replayVars>>

ReplayOutcome == {"succeeded", "skipped_already_processed", "failed"}
ProcessResult == EffectResult \cup {"failed", "not_claimed"}

\* The audit table and what a request being served keeps have their types.
ReplayTypeOK ==
    /\ todo \in [Operators -> Seq(Events)]
    /\ stage \in [Operators -> {"none", "processing", "processed", "noted",
                                "recorded"}]
    /\ result \in [Operators -> ProcessResult \cup {"none"}]
    /\ noted \in [Operators -> Nat]
    /\ seen \in [Operators -> DlqStatus \cup {NULL}]
    /\ requests \in [Events -> Seq([outcome : ReplayOutcome, attempt : Nat])]
    /\ calls \in Nat

ReplayInit ==
    /\ Init
    /\ todo = [o \in Operators |-> <<>>]
    /\ stage = [o \in Operators |-> "none"]
    /\ result = [o \in Operators |-> "none"]
    /\ noted = [o \in Operators |-> 0]
    /\ seen = [o \in Operators |-> NULL]
    /\ requests = [e \in Events |-> <<>>]
    /\ calls = 0

-----------------------------------------------------------------------------
(* The request and the first transaction.                                   *)

\* POST /admin/replay with a list of ids (known or not, repeated or not) or a
\* selector that reads one from the database, of at most replay_max_batch ids.
Select(o, ids) ==
    /\ stage[o] = "none" /\ todo[o] = <<>>
    /\ ids # <<>> /\ Len(ids) <= ReplayMaxBatch
    /\ calls < MaxCalls
    /\ todo' = [todo EXCEPT ![o] = ids]
    /\ calls' = calls + 1
    /\ UNCHANGED <<vars, stage, result, noted, seen, requests>>

\* _mark_dlq_replaying: only an entry that awaits review moves.
MarkReplaying(e) == IF dlq[e] = "needs_review" THEN "replaying" ELSE dlq[e]

\* load_for_update waits for the row.
Requeueable(e) == Present(e) /\ RowFree(e)

\* queue.requeue: due now, with a clean budget.
Requeue(o) ==
    LET e == Head(todo[o])
    IN  /\ stage[o] = "none" /\ todo[o] # <<>>
        /\ Requeueable(e)
        /\ status' = [status EXCEPT ![e] = "pending"]
        /\ attempt_count' = [attempt_count EXCEPT ![e] = 0]
        /\ due' = [due EXCEPT ![e] = TRUE]
        /\ dlq' = [dlq EXCEPT ![e] = MarkReplaying(e)]
        /\ batch' = [batch EXCEPT ![o] = {e}]
        /\ stage' = [stage EXCEPT ![o] = "processing"]
        /\ UNCHANGED <<content, attempts, bookVars, pc, evt, txn, exc,
                       todo, result, noted, seen, requests, calls>>

\* An exception out of replay_event ends the whole request: its transaction is
\* rolled back and the remaining ids are dropped.
Abandon(o) ==
    /\ todo' = [todo EXCEPT ![o] = <<>>]
    /\ stage' = [stage EXCEPT ![o] = "none"]
    /\ result' = [result EXCEPT ![o] = "none"]
    /\ noted' = [noted EXCEPT ![o] = 0]
    /\ seen' = [seen EXCEPT ![o] = NULL]
    /\ UNCHANGED <<requests, calls>>

\* EventNotFoundError.
NotFound(o) ==
    /\ stage[o] = "none" /\ todo[o] # <<>>
    /\ ~Present(Head(todo[o]))
    /\ Abandon(o)
    /\ UNCHANGED vars

-----------------------------------------------------------------------------
(* process_event, and what the caller gets back from it.                    *)

Continue(p) ==
    \/ \E e \in Events : Claim(p, e)
    \/ LockEntity(p) \/ HandlerRefuses(p) \/ ApplyEffect(p) \/ EffectOverflows(p)
    \/ Fault(p)

Finish(p, r) ==
    \/ Commit(p) /\ r = txn[p].result
    \/ (Reschedule(p) \/ DeadLetter(p)) /\ r = "failed"
    \/ (EventVanished(p) \/ \E e \in Events : ClaimMiss(p, e)) /\ r = "not_claimed"

Returns(p, r) ==
    /\ Finish(p, r)
    /\ IF p \in Operators
       THEN /\ result' = [result EXCEPT ![p] = r]
            /\ stage' = [stage EXCEPT ![p] = "processed"]
       ELSE UNCHANGED <<result, stage>>
    /\ UNCHANGED <<todo, noted, seen, requests, calls>>

-----------------------------------------------------------------------------
(* The last transaction: record_replay_request and _settle_dlq.             *)

\* Variants: a replay that found the effect there takes the credit for it, and
\* the result of process_event stored as it is.
OutcomeOfVerbatim(r) == r

OutcomeOfGenerous(r) ==
    IF r \in {"applied", "already_applied"} THEN "succeeded"
    ELSE IF r = "failed" THEN "failed" ELSE "skipped_already_processed"

OutcomeOf(r) ==
    IF r = "applied" THEN "succeeded"
    ELSE IF r = "failed" THEN "failed" ELSE "skipped_already_processed"

\* latest_attempt_id: whichever attempt of the event is the last one now.
NoteAttempt(o) ==
    /\ stage[o] = "processed"
    /\ noted' = [noted EXCEPT ![o] = Len(attempts[Head(todo[o])])]
    /\ stage' = [stage EXCEPT ![o] = "noted"]
    /\ UNCHANGED <<vars, todo, result, seen, requests, calls>>

\* The foreign keys of the audit row: the event and the attempt still exist.
References(o) ==
    Present(Head(todo[o])) /\ noted[o] <= Len(attempts[Head(todo[o])])

\* The insert takes a key-share lock on the event: it waits for a FOR UPDATE,
\* not for another replay's insert.  Then _settle_dlq reads the entry.
InsertRequest(o) ==
    LET e == Head(todo[o])
    IN  /\ stage[o] = "noted"
        /\ References(o)
        /\ \A p \in Procs : ~(InTransaction(p) /\ evt[p] = e)
        /\ pc' = [pc EXCEPT ![o] = "recording"]
        /\ evt' = [evt EXCEPT ![o] = e]
        /\ seen' = [seen EXCEPT ![o] = dlq[e]]
        /\ stage' = [stage EXCEPT ![o] = "recorded"]
        /\ UNCHANGED <<rowVars, bookVars, batch, txn, exc,
                       todo, result, noted, requests, calls>>

InsertRefused(o) ==
    /\ stage[o] = "noted"
    /\ ~References(o)
    /\ Abandon(o)
    /\ UNCHANGED vars

Settles(o) == seen[o] = "replaying"

SettleTarget(o) ==
    IF OutcomeOf(result[o]) = "failed" THEN "needs_review" ELSE "resolved"

\* Variant: transition trusts the status that was read before the lock.
LegalMoveStale(o) == SettleTarget(o) \in AllowedMoves(seen[o])

\* dlq.transition reads the status again, FOR UPDATE, before it moves it.
LegalMove(o) == SettleTarget(o) \in AllowedMoves(dlq[Head(todo[o])])

FinishRequest(o) ==
    LET e == Head(todo[o])
    IN  /\ stage[o] = "recorded"
        /\ Settles(o) => LegalMove(o)
        /\ dlq' = [dlq EXCEPT ![e] = IF Settles(o) THEN SettleTarget(o) ELSE @]
        /\ requests' = [requests EXCEPT ![e] =
                          Append(@, [outcome |-> OutcomeOf(result[o]),
                                     attempt |-> noted[o]])]
        /\ todo' = [todo EXCEPT ![o] = Tail(@)]
        /\ stage' = [stage EXCEPT ![o] = "none"]
        /\ result' = [result EXCEPT ![o] = "none"]
        /\ noted' = [noted EXCEPT ![o] = 0]
        /\ seen' = [seen EXCEPT ![o] = NULL]
        /\ Return(o)
        /\ UNCHANGED <<content, status, attempt_count, due, attempts,
                       bookVars, batch, calls>>

\* InvalidDlqTransitionError: the entry moved between the read and the lock.
FinishRefused(o) ==
    /\ stage[o] = "recorded"
    /\ Settles(o) /\ ~LegalMove(o)
    /\ Return(o)
    /\ Abandon(o)
    /\ UNCHANGED <<rowVars, bookVars, batch>>

-----------------------------------------------------------------------------
(* Failures, triage, and the rest of the system.                            *)

OutsideProcessing(o) == todo[o] # <<>> /\ stage[o] # "processing"

\* The first or the last transaction fails, or the request is dropped there.
ReplayRaises(o) ==
    /\ OutsideProcessing(o)
    /\ Return(o)
    /\ Abandon(o)
    /\ UNCHANGED <<rowVars, bookVars, batch>>

\* A process dies inside process_event; for an operator, the request with it.
Dies(p) ==
    /\ p \in Operators => stage[p] = "processing"
    /\ Crash(p)
    /\ IF p \in Operators THEN Abandon(p) ELSE UNCHANGED replayVars

\* POST /admin/dlq/{entry_id}/{action}.
Triage(e, v) ==
    /\ dlq[e] # NULL
    /\ v \in AllowedMoves(dlq[e])
    /\ dlq' = [dlq EXCEPT ![e] = v]
    /\ UNCHANGED <<content, status, attempt_count, due, attempts, bookVars,
                   procVars, replayVars>>

\* Retention, with the foreign keys of replay_request: the rows of a deleted
\* event go with it (CASCADE), a deleted attempt is forgotten (SET NULL).
Purge(old) ==
    /\ PurgeHistory(old)
    /\ requests' = [e \in Events |->
          IF e \notin old THEN requests[e]
          ELSE IF Effectless(e) THEN <<>>
          ELSE [i \in DOMAIN requests[e] |-> [requests[e][i] EXCEPT !.attempt = 0]]]
    /\ UNCHANGED <<todo, stage, result, noted, seen, calls>>

Core ==
    /\ \/ \E e \in Events, c \in Contents : Ingest(e, c)
       \/ \E e \in Events : BackoffElapsed(e)
       \/ \E p \in Workers, ids \in SUBSET Events : Poll(p, ids)
       \/ \E p \in Procs : Continue(p)
    /\ UNCHANGED replayVars

Requests == UNION {[1 .. n -> Events] : n \in 1 .. ReplayMaxBatch}

ReplayStep(o) ==
    \/ NotFound(o) \/ Requeue(o) \/ NoteAttempt(o) \/ InsertRequest(o)
    \/ InsertRefused(o) \/ FinishRequest(o) \/ FinishRefused(o)

ReplayHealthy ==
    \/ Core
    \/ \E p \in Procs, r \in ProcessResult : Returns(p, r)
    \/ \E o \in Operators : \/ \E ids \in Requests : Select(o, ids)
                            \/ ReplayStep(o)
    \/ \E e \in Events, v \in Verdicts : Triage(e, v)
    \/ \E old \in SUBSET Events : Purge(old)

ReplayNext ==
    \/ ReplayHealthy
    \/ \E o \in Operators : ReplayRaises(o)
    \/ \E p \in Procs : Dies(p)

ReplaySpec == ReplayInit /\ [][ReplayNext]_allVars

\* No process dies and no transaction of the replay itself fails.
CalmSpec == ReplayInit /\ [][ReplayHealthy]_allVars

\* A worker keeps polling while something is due, process_event and a request that
\* is being served take their next step, a deadline passes, and crashes are not
\* endless (a process that dies in every attempt records none of them).  Faults the
\* code handles need no assumption: they may strike at every attempt.
ReplayFairness ==
    /\ \A p \in Workers :
          WF_allVars((\E ids \in SUBSET Events : Poll(p, ids)) /\ UNCHANGED replayVars)
    /\ \A p \in Procs :
          WF_allVars(\/ Continue(p) /\ UNCHANGED replayVars
                     \/ \E r \in ProcessResult : Returns(p, r))
    /\ \A o \in Operators : WF_allVars(ReplayStep(o))
    /\ \A e \in Events : WF_allVars(BackoffElapsed(e) /\ UNCHANGED replayVars)
    /\ <>[][ReplayHealthy]_allVars

ReplayFairSpec == ReplaySpec /\ ReplayFairness

-----------------------------------------------------------------------------
(* Properties.                                                              *)

\* FR-17 as the audit tells it: of all the replays of an event, by however many
\* operators and racing with workers, at most one claims to have succeeded, and
\* only when the event has an effect.
CreditedOnce ==
    \A e \in Events :
        LET won == {i \in DOMAIN requests[e] : requests[e][i].outcome = "succeeded"}
        IN  Cardinality(won) <= 1 /\ (won # {} => ledger[e] # <<>>)

\* FR-15: once an entry is resolved or discarded no step reopens or rewrites it,
\* whoever read its status before that; only retention removes it.
VerdictStands ==
    [][\A e \in Events :
          dlq[e] \in {"resolved", "discarded"} => dlq'[e] \in {dlq[e], NULL}]_allVars

\* Every replay request comes to an end, although it waits for the row and the
\* entity of its event while workers claim them, fail on them and retry.
RequestsEnd == \A o \in Operators : []<>(todo[o] = <<>>)

-----------------------------------------------------------------------------
(* The inductive invariant of the larger system.                            *)

\* An operator is in process_event exactly while its request says so, and then
\* for the head of its list.
Serving ==
    \A o \in Operators :
        /\ stage[o] # "none" => todo[o] # <<>>
        /\ IF stage[o] = "processing"
           THEN /\ batch[o] \subseteq {Head(todo[o])}
                /\ pc[o] # "idle" => batch[o] = {}
           ELSE /\ batch[o] = {}
                /\ pc[o] = IF stage[o] = "recorded" THEN "recording" ELSE "idle"

RInv == IInv /\ ReplayTypeOK /\ Serving

\* What process_event works on is the event the request is about.
OnTask ==
    \A o \in Operators :
        stage[o] = "processing" /\ pc[o] # "idle" => evt[o] = Head(todo[o])

\* The request has applied the event's effect and not written its audit row yet.
Crediting(o, e) ==
    /\ stage[o] \in {"processed", "noted", "recorded"}
    /\ Head(todo[o]) = e
    /\ result[o] = "applied"

Won(e, i) == requests[e][i].outcome = "succeeded"

\* The credit for an effect is one request's: written down, or about to be.
CreditHeld ==
    \A e \in Events :
        /\ \A i \in DOMAIN requests[e] : Won(e, i) =>
              /\ ledger[e] # <<>>
              /\ \A j \in DOMAIN requests[e] : Won(e, j) => i = j
              /\ \A o \in Operators : ~Crediting(o, e)
        /\ \A o \in Operators : Crediting(o, e) =>
              /\ ledger[e] # <<>>
              /\ \A q \in Operators : Crediting(q, e) => o = q
=============================================================================
