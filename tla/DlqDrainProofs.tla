--------------------------- MODULE DlqDrainProofs ---------------------------
(***************************************************************************)
(* Proofs about module DlqDrain, for any number of entries and operators   *)
(* and any batch limit: a call never has more than replay_max_batch events *)
(* to replay, and works on listed entries only.                            *)
(***************************************************************************)
EXTENDS DlqDrain, FiniteSetTheorems, TLAPS

\* The ids of a call are entries, and finitely many.
LEMMA BatchFinite ==
    ASSUME NEW ids \in SUBSET Entries
    PROVE  IsFiniteSet(ids) /\ Cardinality(ids) \in Nat
BY DrainAssumption, FS_Subset, FS_CardinalityType

LEMMA DrainInit == Init => DrainTypeOK
<1> SUFFICES ASSUME Init PROVE DrainTypeOK
  OBVIOUS
<1>1. \A o \in Operators : Cardinality(batch[o]) <= replay_max_batch
  BY FS_EmptySet, DrainAssumption DEF Init
<1> QED
  BY <1>1 DEF Init, DrainTypeOK

\* The limit of the selection, taken literally: the ids do not exceed it.
LEMMA SelectDlqTypes ==
    ASSUME DrainTypeOK, NEW o \in Operators, NEW ids \in SUBSET Entries,
           SelectDlq(o, ids)
    PROVE  DrainTypeOK'
<1>1. batch' = [batch EXCEPT ![o] = ids] /\ UNCHANGED <<status, poison, current>>
  BY DEF SelectDlq
<1>2. Cardinality(ids) <= replay_max_batch
  BY BatchFinite, DrainAssumption DEF SelectDlq, WithinLimit
<1>3. \A p \in Operators : batch'[p] = IF p = o THEN ids ELSE batch[p]
  BY <1>1 DEF DrainTypeOK
<1>4. \A p \in Operators : Cardinality(batch'[p]) <= replay_max_batch
  BY <1>2, <1>3 DEF DrainTypeOK
<1> QED
  BY <1>1, <1>4 DEF DrainTypeOK

LEMMA MarkReplayingTypes ==
    ASSUME DrainTypeOK, NEW o \in Operators, NEW e \in Entries, MarkReplaying(o, e)
    PROVE  DrainTypeOK'
<1>1. /\ batch' = [batch EXCEPT ![o] = batch[o] \ {e}]
      /\ current' = [current EXCEPT ![o] = e] /\ poison' = poison
      /\ status' = [status EXCEPT ![e] =
                      IF status[e] = "needs_review" THEN "replaying" ELSE status[e]]
  BY DEF MarkReplaying
<1>2. batch[o] \in SUBSET Entries /\ Cardinality(batch[o]) <= replay_max_batch
  BY DEF DrainTypeOK
<1>3. Cardinality(batch[o] \ {e}) <= replay_max_batch
  <2>1. Cardinality(batch[o]) \in Nat /\ Cardinality(batch[o] \ {e}) \in Nat
    BY <1>2, BatchFinite
  <2>2. \/ Cardinality(batch[o] \ {e}) = Cardinality(batch[o])
        \/ Cardinality(batch[o] \ {e}) = Cardinality(batch[o]) - 1
    BY <1>2, BatchFinite, FS_RemoveElement
  <2> QED
    BY <1>2, <2>1, <2>2, DrainAssumption
<1>4. \A p \in Operators :
          batch'[p] = IF p = o THEN batch[o] \ {e} ELSE batch[p]
  BY <1>1 DEF DrainTypeOK
<1>5. \A p \in Operators : Cardinality(batch'[p]) <= replay_max_batch
  BY <1>3, <1>4 DEF DrainTypeOK
<1>6. batch' \in [Operators -> SUBSET Entries]
  BY <1>1, <1>2 DEF DrainTypeOK
<1>7. status' \in [Entries -> {"needs_review", "replaying", "resolved",
                               "discarded", NULL}]
  BY <1>1 DEF DrainTypeOK
<1> QED
  BY <1>1, <1>5, <1>6, <1>7 DEF DrainTypeOK

LEMMA SettleDlqTypes ==
    ASSUME DrainTypeOK, NEW o \in Operators, NEW failed \in BOOLEAN,
           SettleDlq(o, failed)
    PROVE  DrainTypeOK'
BY DEF DrainTypeOK, SettleDlq

LEMMA DiesTypes ==
    ASSUME DrainTypeOK, NEW o \in Operators, Dies(o)
    PROVE  DrainTypeOK'
<1>1. /\ batch' = [batch EXCEPT ![o] = {}]
      /\ current' = [current EXCEPT ![o] = NULL] /\ UNCHANGED <<status, poison>>
  BY DEF Dies
<1>2. \A p \in Operators : Cardinality(batch'[p]) <= replay_max_batch
  BY <1>1, FS_EmptySet, DrainAssumption DEF DrainTypeOK
<1> QED
  BY <1>1, <1>2 DEF DrainTypeOK

LEMMA DrainStep == DrainTypeOK /\ [Next]_vars => DrainTypeOK'
<1> SUFFICES ASSUME DrainTypeOK, [Next]_vars PROVE DrainTypeOK'
  OBVIOUS
<1>1. ASSUME NEW e \in Entries, DeadLetter(e) PROVE DrainTypeOK'
  BY <1>1 DEF DrainTypeOK, DeadLetter
<1>2. ASSUME NEW e \in Entries, NEW target \in {"resolved", "discarded"},
             Triage(e, target)
      PROVE  DrainTypeOK'
  BY <1>2 DEF DrainTypeOK, Triage
<1>3. ASSUME NEW o \in Operators, Serve(o) PROVE DrainTypeOK'
  BY <1>3, MarkReplayingTypes, SettleDlqTypes DEF Serve
<1>4. CASE UNCHANGED vars
  BY <1>4 DEF vars, DrainTypeOK
<1> QED
  BY <1>1, <1>2, <1>3, <1>4, DiesTypes, SelectDlqTypes DEF Next

\* Type correctness: no call, however many run at once and whatever fails, has
\* more than replay_max_batch events left to replay.
THEOREM DrainTypeCorrect == Spec => []DrainTypeOK
<1>1. Init => DrainTypeOK
  BY DrainInit
<1>2. DrainTypeOK /\ [Next]_vars => DrainTypeOK'
  BY DrainStep
<1> QED
  BY <1>1, <1>2, PTL DEF Spec
=============================================================================
