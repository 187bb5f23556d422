------------------------------ MODULE DlqDrain -------------------------------
(***************************************************************************)
(* Draining the dead-letter queue: POST /v1/admin/replay with              *)
(* dead_lettered, called over and over.  Each call takes the oldest        *)
(* REPLAY_MAX_BATCH entries that await review and replays their events one *)
(* after the other; what fails goes back to needs_review as old as before. *)
(*                                                                         *)
(* What a replay does to the event is module Replay's subject.  Here an    *)
(* event is one that a replay fixes or one (poison) whose cause is still   *)
(* there, and an entry is named by its rank in dead_lettered_at, which no  *)
(* statement ever updates.                                                 *)
(***************************************************************************)
EXTENDS Integers, FiniteSets

CONSTANTS
    NULL,
    Entries,            \* ranks of the entries in dead_lettered_at
    Operators,          \* callers of the replay route
    replay_max_batch,   \* settings.replay_max_batch
    MaxPoison           \* how many events a replay cannot fix

ASSUME DrainAssumption ==
    /\ Entries \subseteq Nat /\ IsFiniteSet(Entries)
    /\ replay_max_batch \in Nat \ {0}
    /\ MaxPoison \in Nat
    /\ NULL \notin Entries
    /\ NULL \notin {"needs_review", "replaying", "resolved", "discarded"}

VARIABLES
    status,     \* status of an entry, NULL before it is dead-lettered
    poison,     \* events a replay fails on
    batch,      \* ids a call has still to replay
    current     \* the event a call is replaying, or NULL

vars == <<status, poison, batch, current>>

DrainTypeOK ==
    /\ status \in [Entries -> {"needs_review", "replaying", "resolved",
                               "discarded", NULL}]
    /\ poison \subseteq Entries
    /\ batch \in [Operators -> SUBSET Entries]
    /\ \A o \in Operators : Cardinality(batch[o]) <= replay_max_batch
    /\ current \in [Operators -> Entries \cup {NULL}]

Init ==
    /\ status = [e \in Entries |-> NULL]
    /\ poison \in {P \in SUBSET Entries : Cardinality(P) <= MaxPoison}
    /\ batch = [o \in Operators |-> {}]
    /\ current = [o \in Operators |-> NULL]

\* dead_letter: an event that fails for good is listed, younger than all others.
DeadLetter(e) ==
    /\ status[e] = NULL
    /\ \A f \in Entries : f < e => status[f] # NULL
    /\ status' = [status EXCEPT ![e] = "needs_review"]
    /\ UNCHANGED <<poison, batch, current>>

\* The triage route closes an entry that is still open.
Triage(e, target) ==
    /\ status[e] \in {"needs_review", "replaying"}
    /\ target \in {"resolved", "discarded"}
    /\ status' = [status EXCEPT ![e] = target]
    /\ UNCHANGED <<poison, batch, current>>

\* Variant: the WHERE clause is missing.
SelectableAny == {e \in Entries : status[e] # NULL}

Selectable == {e \in Entries : status[e] = "needs_review"}

\* Variant: the LIMIT is missing.
WithinLimitAny(ids) == ids = Selectable

WithinLimit(ids) ==
    \/ Cardinality(ids) = replay_max_batch
    \/ Cardinality(ids) < replay_max_batch /\ ids = Selectable

\* dead_lettered_event_ids: ORDER BY dead_lettered_at LIMIT replay_max_batch.
SelectDlq(o, ids) ==
    /\ batch[o] = {} /\ current[o] = NULL
    /\ ids # {} /\ ids \subseteq Selectable
    /\ WithinLimit(ids)
    /\ \A e \in ids, f \in Selectable \ ids : e < f
    /\ batch' = [batch EXCEPT ![o] = ids]
    /\ UNCHANGED <<status, poison, current>>

\* The first transaction of replay_event, for the next id of the batch: an
\* entry that is no longer awaiting review is left alone, its event is not.
MarkReplaying(o, e) ==
    /\ current[o] = NULL
    /\ e \in batch[o] /\ \A f \in batch[o] : e <= f
    /\ status' = [status EXCEPT ![e] = IF @ = "needs_review" THEN "replaying" ELSE @]
    /\ batch' = [batch EXCEPT ![o] = @ \ {e}]
    /\ current' = [current EXCEPT ![o] = e]
    /\ UNCHANGED poison

\* The last one.  A poison event fails, unless somebody else got hold of it
\* first: then this replay calls it processed already and closes the entry.
SettleDlq(o, failed) ==
    LET e == current[o]
    IN  /\ e # NULL
        /\ failed => e \in poison
        /\ status' = [status EXCEPT ![e] =
                        IF @ # "replaying" THEN @
                        ELSE IF failed THEN "needs_review" ELSE "resolved"]
        /\ current' = [current EXCEPT ![o] = NULL]
        /\ UNCHANGED <<poison, batch>>

\* The call dies; an entry it was replaying stays as it is.
Dies(o) ==
    /\ batch[o] # {} \/ current[o] # NULL
    /\ batch' = [batch EXCEPT ![o] = {}]
    /\ current' = [current EXCEPT ![o] = NULL]
    /\ UNCHANGED <<status, poison>>

Serve(o) ==
    \/ \E e \in Entries : MarkReplaying(o, e)
    \/ \E failed \in BOOLEAN : SettleDlq(o, failed)

Next ==
    \/ \E o \in Operators : Serve(o) \/ Dies(o)
    \/ \E o \in Operators, ids \in SUBSET Entries : SelectDlq(o, ids)
    \/ \E e \in Entries : DeadLetter(e)
    \/ \E e \in Entries, target \in {"resolved", "discarded"} : Triage(e, target)

Spec == Init /\ [][Next]_vars

\* What a call lets go of, it has replayed.
Undisturbed(o) ==
    \/ batch[o] \subseteq batch'[o] /\ current[o] \in {NULL, current'[o]}
    \/ Serve(o)

\* A call being served goes on, one of the operators repeats the call while
\* anything awaits review, and calls do not die for ever.
Fairness ==
    /\ \A o \in Operators : WF_vars(Serve(o))
    /\ WF_vars(\E o \in Operators, ids \in SUBSET Entries : SelectDlq(o, ids))
    /\ <>[][\A o \in Operators : Undisturbed(o)]_vars

FairSpec == Spec /\ Fairness

-----------------------------------------------------------------------------
\* A replay that died on the entry left it where no call will find it.
Stranded(e) ==
    status[e] = "replaying" /\ \A o \in Operators : current[o] # e

\* api/admin.py and the runbook: the selector drains oldest-first, "so repeating
\* the call makes progress".  An entry whose event a replay would fix is closed
\* in the end (or stranded by a replay that died), wherever it stands in the
\* list, whatever fails before it and whatever arrives after it.
MakesProgress ==
    \A e \in Entries :
        status[e] = "needs_review" /\ e \notin poison ~>
            status[e] \in {"resolved", "discarded"} \/ Stranded(e)
==============================================================================
