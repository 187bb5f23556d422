------------------------------ MODULE MCReplay ------------------------------
(***************************************************************************)
(* Small instances of Replay, and what the documentation says of replay    *)
(* that the code does not do.                                              *)
(***************************************************************************)
EXTENDS Replay, MCProcessing

ReplaySymmetry == Permutations(Operators)

\* An event that the handlers accept, and one that they refuse.
OneCredit == {Delivery(1, CREDITED, "account", "acct", 1, NULL)}
OneRefused == {Delivery(1, CREDITED, "order", "acct", 1, NULL)}
ReplayedContents == OneCredit \cup OneRefused
NoFaults == {}

-----------------------------------------------------------------------------
(* Statements of the documentation that the code contradicts.               *)

\* "Stop retrying and hand the event to a human" (adapters/queue.py,
\* dead_letter): unless an operator closed it, and none does in this instance,
\* the entry of a dead-lettered event is open.
DeadLetteredAwaitsDecision ==
    \A e \in Events :
        status[e] = "dead_lettered" => e \in v_dlq_open

\* "Written unconditionally, including for a replay that failed or did nothing"
\* (adapters/queue.py, record_replay_request): a replay that has processed its
\* event leaves an audit row behind.
EveryReplayIsAudited ==
    [][\A o \in Operators :
          stage[o] = "recorded" /\ stage'[o] # "recorded" =>
              Len(requests'[Head(todo[o])]) > Len(requests[Head(todo[o])])]_allVars
=============================================================================
