-------------------------------- MODULE Views --------------------------------
(***************************************************************************)
(* What operators and scripts see of the processing core: the views and    *)
(* functions of migration 0003 and the questions scripts/verify_load.py    *)
(* asks the database.  A query only reads, so each is an operator over the *)
(* variables of Processing, evaluated in one snapshot.                     *)
(***************************************************************************)
EXTENDS Processing, FiniteSetsExt

\* v_queue_health, without the age of the oldest due event.
v_queue_health ==
    LET count(S) == Cardinality({e \in Events : status[e] \in S})
    IN  [pending            |-> count({"pending"}),
         due_now            |-> Cardinality({e \in Events : Due(e)}),
         waiting_on_backoff |-> count({"pending"})
                                    - Cardinality({e \in Events : Due(e)}),
         succeeded          |-> count({"succeeded"}),
         dead_lettered      |-> count({"dead_lettered"})]

\* Events with a ledger row on the account.
AppliedTo(a) ==
    {e \in Events : /\ content[e] # NULL
                    /\ content[e].entity_id = a
                    /\ ledger[e] # <<>>}

\* The sum of an event's ledger rows.
Recorded(e) == LET sum[i \in 0 .. Len(ledger[e])] ==
                       IF i = 0 THEN 0 ELSE sum[i - 1] + ledger[e][i]
               IN  sum[Len(ledger[e])]

\* The balance an account can prove.
fn_account_balance(a) == MapThenSumSet(Recorded, AppliedTo(a))

LedgerRows(e) == Len(ledger[e])

\* v_account_reconciliation, the row of an account.
v_account_reconciliation(a) ==
    [balance_minor |-> balance[a],
     ledger_sum    |-> fn_account_balance(a),
     drift         |-> balance[a] - fn_account_balance(a),
     ledger_rows   |-> MapThenSumSet(LedgerRows, AppliedTo(a))]

fn_ledger_invariant_ok ==
    \A a \in Accounts : v_account_reconciliation(a).drift = 0

\* The events of the open entries.
v_dlq_open ==
    {e \in Events : Present(e) /\ dlq[e] \in {"needs_review", "replaying"}}

\* v_event_overview, the row of a stored event: how its last attempt went, and
\* whether it had an effect.
v_event_overview(e) ==
    [status            |-> status[e],
     attempts_recorded |-> Len(attempts[e]),
     last_outcome      |->
        IF attempts[e] = <<>> THEN NULL
        ELSE LET last == CHOOSE i \in DOMAIN attempts[e] :
                            Highest(e, attempts[e][i].number)
             IN  attempts[e][last].outcome,
     has_effect        |-> ledger[e] # <<>>]

-----------------------------------------------------------------------------
(* scripts/verify_load.py                                                   *)

Rows == {e \in Events : Present(e)}

\* _drain has seen an empty queue.
Drained == v_queue_health.pending = 0

\* The script grades a load of plain credits: every event is worth its amount.
\* (A debit is a credit of the opposite sign.)
Gradable == \A e \in Rows : content[e].event_type # SNAPSHOT

Worth(e) == dispatch(content[e]).minor

\* _checks, the four questions: nothing dead-lettered and every event succeeded,
\* one row per key, one ledger row per event, no drift, and the balance that
\* arithmetic predicts.
EverySucceeded ==
    /\ v_queue_health.dead_lettered = 0
    /\ v_queue_health.succeeded = Cardinality(Rows)

EffectsMatchEvents ==
    /\ Cardinality({content[e].key : e \in Rows}) = Cardinality(Rows)
    /\ MapThenSumSet(LedgerRows, Events) = Cardinality(Rows)
    /\ fn_ledger_invariant_ok
    /\ \A a \in Accounts :
          balance[a] = MapThenSumSet(Worth, {e \in Rows : content[e].entity_id = a})

-----------------------------------------------------------------------------
(* Properties.                                                              *)

\* The provider's sequence of an event, as the account's version takes it.
Mark(e) == dispatch(content[e]).sequence

\* NFR-1 as the database asks it (fn_ledger_invariant_ok): whatever interleaves,
\* the balance of every account is the sum of its ledger.
NoDrift == fn_ledger_invariant_ok

\* The claim behind `make load`: as soon as a load of credits has drained and
\* nothing was dead-lettered, the effects in the books are those of every stored
\* event once, although processes may still be about to record late failures.
LoadIsExact == Drained /\ Gradable /\ EverySucceeded => EffectsMatchEvents

\* Migration 0003 on v_event_overview: "An event that is `succeeded` with
\* `has_effect = false` is not a bug -- it is a superseded event", and its last
\* attempt says so, whichever processes failed on it, retried it or lost their
\* acknowledgement in between.
EffectlessIsSuperseded ==
    \A e \in Rows :
        v_event_overview(e).status = "succeeded" /\ ~v_event_overview(e).has_effect
            => v_event_overview(e).last_outcome = "superseded"

\* ADR-0004: an account's version is the highest sequence among the events
\* applied to it, in whatever order they were applied.
HighWaterMark ==
    \A a \in Accounts : version[a] = Max({Mark(e) : e \in AppliedTo(a)} \cup {0})

\* FR-10: an account moved by snapshots alone shows the newest snapshot that
\* was applied to it, in whatever order they arrived and were retried.
NewestSnapshotWins ==
    \A a \in Accounts :
        (\A e \in AppliedTo(a) : content[e].event_type = SNAPSHOT) =>
            \A e \in AppliedTo(a) :
                (\A f \in AppliedTo(a) : Mark(f) <= Mark(e)) =>
                    balance[a] = content[e].value

-----------------------------------------------------------------------------
(* What the last two rest on, step by step.                                 *)

\* No event applied to an account is above its version, and one is at it.
Marked ==
    \A a \in Accounts :
        /\ \A e \in AppliedTo(a) : Dispatches(content[e]) /\ Mark(e) <= version[a]
        /\ version[a] = 0 \/ \E e \in AppliedTo(a) : Mark(e) = version[a]

\* While only snapshots moved the account, its balance is that of the one whose
\* sequence the version is.
Shown ==
    \A a \in Accounts :
        (\A e \in AppliedTo(a) : content[e].event_type = SNAPSHOT) =>
            \A e \in AppliedTo(a) :
                Mark(e) = version[a] => balance[a] = content[e].value

VInv == Marked /\ Shown

\* A credit or a debit that was applied is in the ledger with its own amount.
InFull ==
    \A e \in Events :
        ledger[e] # <<>> /\ content[e].event_type # SNAPSHOT =>
            ledger[e][1] = Worth(e)
==============================================================================
