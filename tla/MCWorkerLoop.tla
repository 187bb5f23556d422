---------------------------- MODULE MCWorkerLoop ----------------------------
(***************************************************************************)
(* A small instance of WorkerLoop.  The backoff ceiling is 2 after one     *)
(* failure, 4 after two, and the cap (5) after more; a migration may land  *)
(* at once, before the deadline of the startup wait, after it, or never.   *)
(* And what the deployment says of a shutdown, which the code contradicts. *)
(***************************************************************************)
EXTENDS WorkerLoop

\* cannot_connect_now, and a refused connection.
StartingUp == [class |-> "DBAPIError",
               connection_invalidated |-> FALSE, sqlstate |-> "57P03"]
Away == {StartingUp, Raised("ConnectionError")}
OneBug == {Raised("Exception")}
Landings == {0, 3, 6, Never}

\* src/railway.worker.toml:41: "The loop checks its shutdown Event *between*
\* events", and the time the platform grants before it kills "is the budget for
\* the one event that may be in flight when the signal arrives".  One event, and
\* the read of the batch it comes from when the signal arrives in that: the bound
\* of StopsAfterBatch for a batch of one.
DrainsOneEvent == lag <= WorkTime * (1 + 1)
=============================================================================
