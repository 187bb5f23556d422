---------------------------- MODULE MCProcessing ----------------------------
(***************************************************************************)
(* Instances of Processing for TLC, and what the documentation says of the *)
(* program that the code does not do.                                      *)
(***************************************************************************)
EXTENDS Views, TLC

Delivery(key, type, entity, account, value, sequence) ==
    [key |-> key, event_type |-> type, entity_type |-> entity,
     entity_id |-> account, value |-> value, provider_sequence |-> sequence]

ConnectionLost == [class |-> "DBAPIError",
                   connection_invalidated |-> TRUE, sqlstate |-> ""]
Bug == Raised("Exception")

\* Distinct entities have distinct lock keys.
EntityKey(entity_type, entity_id) == <<entity_type, entity_id>>

\* A hash collision: every entity has the same lock key.
CollidingKey(entity_type, entity_id) == 0

OneAccount == {"acct"}
OneAccountKeys == {"account", "order"} \X OneAccount
CollidingKeys == {0}

\* A credit, a debit, a snapshot of one account, and an event no balance
\* handler owns.
MixedContents ==
    {Delivery(1, CREDITED, "account", "acct", 2, 3),
     Delivery(2, DEBITED, "account", "acct", 1, NULL),
     Delivery(3, SNAPSHOT, "account", "acct", 1, 2),
     Delivery(4, CREDITED, "order", "acct", 1, NULL)}

\* Snapshots of one account, two of them with the same sequence, and a credit.
SnapshotContents ==
    {Delivery(1, SNAPSHOT, "account", "acct", 2, 1),
     Delivery(2, SNAPSHOT, "account", "acct", 1, 1),
     Delivery(3, SNAPSHOT, "account", "acct", 0, 2),
     Delivery(4, CREDITED, "account", "acct", 1, NULL)}

\* Two entities that share a lock key, and a type that is refused for one of them.
CollidingContents ==
    {Delivery(1, CREDITED, "account", "acct", 1, NULL),
     Delivery(2, CREDITED, "order", "acct", 1, NULL)}

TransientAndBug == {ConnectionLost, Bug}
Transient == {ConnectionLost}

Symmetry == Permutations(Procs) \cup Permutations(Events)

-----------------------------------------------------------------------------
(* What the documentation says of the program, and the code does not do.    *)

\* obs/metrics.py on webhook_events_dead_lettered_total: "Events that will not
\* be retried again without a human."  No human acts in this specification, so
\* an event awaiting review would never be pending.
ListedIsNotRetried ==
    \A e \in Events : dlq[e] = "needs_review" => status[e] # "pending"
=============================================================================
