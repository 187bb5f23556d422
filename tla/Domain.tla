------------------------------- MODULE Domain -------------------------------
(***************************************************************************)
(* The pure half of the service: what an event means (domain/balance.py,   *)
(* domain/handlers.py, domain/effects.py), what an exception means         *)
(* (adapters/failures.py) and how a dead-letter entry may move             *)
(* (domain/dlq.py).  No state: every definition is a function of its       *)
(* arguments.                                                              *)
(*                                                                         *)
(* An event's content is a record of the columns the processing path       *)
(* reads: the deduplication key, the event type, the entity, the money     *)
(* field of the payload ("amount" or "balance", NULL when it is missing or *)
(* not an integer) and the provider's sequence (NULL when it gives none).  *)
(***************************************************************************)
EXTENDS Integers

CONSTANT NULL     \* "no value": Python's None, SQL's NULL

CREDITED == "balance.credited"
DEBITED  == "balance.debited"
SNAPSHOT == "balance.snapshot"

ACCOUNT_ENTITY_TYPE == "account"
MIN_SEQUENCE == 1

\* The registry holds one handler per event type of the demo domain.
Registered(c) == c.event_type \in {CREDITED, DEBITED, SNAPSHOT}

\* _account_ref: the balance handlers own account entities only.  (Its other
\* refusal, an empty entity_id, cannot be met: the envelope requires one
\* character.)
OwnsEntity(c) == c.entity_type = ACCOUNT_ENTITY_TYPE

\* _minor_units and _non_negative: an integer, and for a credit or a debit not
\* a negative one, because the event type carries the direction.
UsableMoney(c) ==
    /\ c.value # NULL
    /\ c.event_type \in {CREDITED, DEBITED} => c.value >= 0

\* handle_snapshot: a last-writer-wins effect needs a sequence to order it.
UsableSequence(c) ==
    c.event_type = SNAPSHOT =>
        /\ c.provider_sequence # NULL
        /\ c.provider_sequence >= MIN_SEQUENCE

\* registry.dispatch succeeds; otherwise it raises a NonRetryableError
\* (UnknownEventTypeError or UnprocessableEventError).
Dispatches(c) ==
    Registered(c) /\ OwnsEntity(c) /\ UsableMoney(c) /\ UsableSequence(c)

\* The Effect a handler returns.  Credit(account_ref, amount_minor) and
\* SetBalance(account_ref, balance_minor, sequence) share one record shape.
dispatch(c) ==
    [absolute    |-> c.event_type = SNAPSHOT,
     account_ref |-> c.entity_id,
     minor       |-> IF c.event_type = DEBITED THEN 0 - c.value ELSE c.value,
     sequence    |-> IF c.provider_sequence = NULL THEN 0
                                                   ELSE c.provider_sequence]

-----------------------------------------------------------------------------
(* EffectResult, AttemptOutcome and the table process._SUCCESS.             *)

EffectResult == {"applied", "already_applied", "superseded"}

AttemptOutcome ==
    {"succeeded", "superseded", "retryable_error", "non_retryable_error"}

\* Variant: a superseded event logged as a plain success.
SuccessOutcomeUniform(result) == "succeeded"

SuccessOutcome(result) ==
    IF result = "superseded" THEN "superseded" ELSE "succeeded"

-----------------------------------------------------------------------------
(* Exceptions, as is_retryable tells them apart.                            *)

ExceptionClass ==
    {"NonRetryableError", "RetryableError", "SQLAlchemyTimeoutError",
     "DBAPIError", "ConnectionError", "TimeoutError", "gaierror", "Exception"}

RETRYABLE_SQLSTATES ==
    {"40001", "40P01", "55P03", "53300", "57P01", "57P02", "57P03",
     "08000", "08003", "08006"}

\* 22003 is Postgres' numeric_value_out_of_range, 42P01 undefined_table, "" an
\* error without a code.
SqlState == RETRYABLE_SQLSTATES \cup {"22003", "42P01", ""}

Exceptions == [class : ExceptionClass,
               connection_invalidated : BOOLEAN,
               sqlstate : SqlState]

Raised(class) ==
    [class |-> class, connection_invalidated |-> FALSE, sqlstate |-> ""]

LockContentionError     == Raised("RetryableError")
UnprocessableEventError == Raised("NonRetryableError")
NumericOutOfRange == [class |-> "DBAPIError",
                      connection_invalidated |-> FALSE, sqlstate |-> "22003"]
UndefinedTable == [class |-> "DBAPIError",
                   connection_invalidated |-> FALSE, sqlstate |-> "42P01"]

\* A driver error is retryable when the connection died or the SQLSTATE is
\* listed; anything unclassified is not.
is_retryable(x) ==
    \/ x.class \in {"RetryableError", "SQLAlchemyTimeoutError",
                    "ConnectionError", "TimeoutError", "gaierror"}
    \/ /\ x.class = "DBAPIError"
       /\ x.connection_invalidated \/ x.sqlstate \in RETRYABLE_SQLSTATES

-----------------------------------------------------------------------------
(* The triage state machine of a dead-letter entry (domain/dlq._ALLOWED).   *)

DlqStatus == {"needs_review", "replaying", "resolved", "discarded"}

AllowedMoves(s) ==
    CASE s = "needs_review" -> {"replaying", "resolved", "discarded"}
      [] s = "replaying"    -> {"resolved", "needs_review", "discarded"}
      [] OTHER              -> {}
=============================================================================
