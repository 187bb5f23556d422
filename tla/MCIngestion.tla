----------------------------- MODULE MCIngestion -----------------------------
(***************************************************************************)
(* A small instance of Ingestion: two different events that an override    *)
(* puts under one key, signed with one key or, during a rotation, with two;*)
(* and one delivery for each way of being turned away.                     *)
(***************************************************************************)
EXTENDS Ingestion, TLC

Event(body, override, keys) ==
    [source |-> "shop", id |-> "e1", override |-> override, body |-> body,
     keys |-> keys, header |-> "ok", oversized |-> FALSE, envelope |-> TRUE,
     storable |-> TRUE]

First  == Event("b1", NULL, {"current"})
Second == Event("b2", "e1", {"next", "current"})

Refused ==
    {[First EXCEPT !.oversized = TRUE, !.keys = {}],
     [First EXCEPT !.source = "unknown"],
     [First EXCEPT !.header = "malformed", !.envelope = FALSE],
     [First EXCEPT !.header = "t_beyond_float"],
     [First EXCEPT !.header = "v1_not_ascii"],
     [First EXCEPT !.keys = {"next"}],
     [First EXCEPT !.envelope = FALSE],
     [First EXCEPT !.override = ""],
     [First EXCEPT !.storable = FALSE]}

Deliveries == {First, Second} \cup Refused
ShopSecret == [source \in {"shop"} |-> "current"]
==============================================================================
