----------------------------- MODULE ViewsProofs -----------------------------
(***************************************************************************)
(* Theorems about what operators read of the processing core (Views): the  *)
(* account's version, the newest snapshot, the explanation of an event     *)
(* without an effect, the ledger's sum and the grading of a load.          *)
(***************************************************************************)
EXTENDS Views, RowProofs

-----------------------------------------------------------------------------
(* The book, and who writes it.                                             *)

bookRows == <<content, ledger, balance, version>>

\* Only an insert and a commit touch payloads or the book.
LEMMA BookCases ==
    ASSUME Next
    PROVE  \/ UNCHANGED bookRows
           \/ \E e \in Events, c \in Contents : Ingest(e, c)
           \/ \E p \in Procs : Commits(p)
<1> USE DEF rowVars, bookVars, procVars
<1>1. ASSUME NEW p \in Procs, Commit(p) \/ \E x \in Exceptions : CommitAckLost(p, x)
      PROVE  Commits(p)
  BY <1>1 DEF Commit, CommitAckLost, Commits
<1>2. ASSUME \/ \E p \in Procs, ids \in SUBSET Events : Poll(p, ids)
             \/ \E p \in Procs, e \in Events : Claim(p, e)
             \/ \E p \in Procs, e \in Events : ClaimMiss(p, e)
             \/ \E p \in Procs, e \in Events, x \in Exceptions : ClaimFails(p, e, x)
             \/ \E e \in Events : BackoffElapsed(e)
             \/ \E old \in SUBSET Events : PurgeHistory(old)
      PROVE  UNCHANGED bookRows
  BY <1>2 DEF Poll, Claim, ClaimMiss, ClaimFails, BackoffElapsed, PurgeHistory, bookRows
<1>3. ASSUME NEW p \in Procs,
             \/ LockEntity(p) \/ Aborts(p) \/ ApplyEffect(p) \/ GivesUp(p)
             \/ Reschedule(p) \/ DeadLetter(p)
      PROVE  UNCHANGED bookRows
  BY <1>3 DEF LockEntity, Aborts, ApplyEffect, GivesUp, Reschedule, DeadLetter, bookRows
<1> QED
  BY <1>1, <1>2, <1>3, NextCases, Zenon

\* What a commit that applies an effect writes.
LEMMA AppliedCommit ==
    ASSUME IInv, NEW p \in Procs, Commits(p), txn[p].result = "applied",
           NEW e, e = evt[p], NEW a, a = content[e].entity_id,
           NEW f, f = dispatch(content[e])
    PROVE  /\ e \in Events /\ content[e] \in Contents /\ content[e] # NULL
           /\ a \in Accounts /\ f.account_ref = a
           /\ f.minor \in Int /\ f.sequence \in Nat
           /\ f.absolute <=> content[e].event_type = SNAPSHOT
           /\ Dispatches(content[e]) /\ ~Stale(f) /\ content' = content
           /\ ledger[e] = <<>>
           /\ ledger' = [ledger EXCEPT ![e] = <<Delta(f)>>]
           /\ balance' = [balance EXCEPT ![a] = BalanceAfter(f)]
           /\ version' = [version EXCEPT ![a] = VersionAfter(f)]
<1>0. TypeOK /\ pc[p] = "applied" /\ CommitWrites(p)
  BY DEF IInv, Commits
<1>1. e \in Events /\ content[e] \in Contents /\ content[e] # NULL /\ content' = content
  BY CommitEffect
<1>2. /\ Dispatches(content[e]) /\ txn[p].result = ResultOf(e, f)
      /\ txn[p].amount = Delta(f)
  BY <1>0 DEF IInv, BufferedIsCurrent, Buffered
<1>3. ledger[e] = <<>> /\ ~Stale(f)
  BY <1>2 DEF ResultOf
<1>4. /\ f.account_ref = a /\ a \in Accounts /\ f.minor \in Int /\ f.sequence \in Nat
      /\ f.absolute <=> content[e].event_type = SNAPSHOT
  BY <1>1, <1>2, DispatchType
<1>5. /\ ledger' = [ledger EXCEPT ![e] = Append(ledger[e], txn[p].amount)]
      /\ balance' = [balance EXCEPT ![f.account_ref] = BalanceAfter(f)]
      /\ version' = [version EXCEPT ![f.account_ref] = VersionAfter(f)]
  BY <1>0 DEF CommitWrites, WriteBook
<1>6. Append(ledger[e], txn[p].amount) = <<Delta(f)>>
  BY <1>2, <1>3
<1> QED
  BY <1>1, <1>2, <1>3, <1>4, <1>5, <1>6

\* A commit that applies nothing.
LEMMA IdleCommit ==
    ASSUME NEW p \in Procs, Commits(p), txn[p].result # "applied"
    PROVE  UNCHANGED bookRows
BY DEF Commits, CommitWrites, WriteBook, bookVars, bookRows

\* The event joins those applied to its account, and no other account changes.
LEMMA AppliedGrows ==
    ASSUME IInv, NEW p \in Procs, Commits(p), txn[p].result = "applied",
           NEW e, e = evt[p], NEW a, a = content[e].entity_id, NEW b \in Accounts
    PROVE  AppliedTo(b)' = IF b = a THEN AppliedTo(b) \cup {e} ELSE AppliedTo(b)
<1>0. PICK f : f = dispatch(content[e])
  OBVIOUS
<1>1. /\ e \in Events /\ content[e] # NULL /\ content' = content /\ ledger[e] = <<>>
      /\ ledger' = [ledger EXCEPT ![e] = <<Delta(f)>>]
  BY <1>0, AppliedCommit
<1>2. \A g \in Events : ledger'[g] # <<>> <=> g = e \/ ledger[g] # <<>>
  BY <1>1 DEF IInv, TypeOK
<1> QED
  BY <1>1, <1>2 DEF AppliedTo

\* A stored event has no effect, and so is applied to no account.
LEMMA IngestApplied ==
    ASSUME IInv, NEW e \in Events, NEW c \in Contents, Ingest(e, c), NEW b \in Accounts
    PROVE  /\ AppliedTo(b)' = AppliedTo(b)
           /\ \A g \in AppliedTo(b) : content'[g] = content[g]
           /\ UNCHANGED <<ledger, balance, version>>
<1>1. /\ content' = [content EXCEPT ![e] = c] /\ UNCHANGED <<ledger, balance, version>>
      /\ status[e] = "unused"
  BY DEF Ingest, bookVars
<1>2. content[e] = NULL /\ ledger[e] = <<>>
  BY <1>1 DEF IInv, Stored
<1>3. \A g \in Events : g # e => content'[g] = content[g]
  BY <1>1 DEF IInv, TypeOK
<1> QED
  BY <1>1, <1>2, <1>3 DEF AppliedTo

-----------------------------------------------------------------------------
(* The version and the newest snapshot.                                     *)

\* An event applied raises the version to its own sequence or leaves it above.
LEMMA MarkedStep == IInv /\ Marked /\ Next => Marked'
<1> SUFFICES ASSUME IInv, Marked, Next, NEW a \in Accounts
             PROVE  /\ \A e \in AppliedTo(a)' :
                          Dispatches(content'[e]) /\ Mark(e)' <= version'[a]
                    /\ version'[a] = 0 \/ \E e \in AppliedTo(a)' : Mark(e)' = version'[a]
  BY DEF Marked
<1> DEFINE Goal == /\ \A e \in AppliedTo(a)' :
                         Dispatches(content'[e]) /\ Mark(e)' <= version'[a]
                   /\ version'[a] = 0 \/ \E e \in AppliedTo(a)' : Mark(e)' = version'[a]
<1>0. TypeOK
  BY DEF IInv
<1>1. ASSUME AppliedTo(a)' = AppliedTo(a), version'[a] = version[a],
             \A e \in AppliedTo(a) : content'[e] = content[e]
      PROVE  Goal
  <2>1. \A e \in AppliedTo(a) : Mark(e)' = Mark(e)
    BY <1>1 DEF Mark
  <2> QED
    BY <1>1, <2>1 DEF Marked
<1>2. CASE UNCHANGED bookRows
  <2>1. AppliedTo(a)' = AppliedTo(a)
    BY <1>2 DEF AppliedTo, bookRows
  <2> QED
    BY <1>1, <1>2, <2>1 DEF bookRows
<1>3. ASSUME NEW e \in Events, NEW c \in Contents, Ingest(e, c) PROVE Goal
  BY <1>1, <1>3, IngestApplied
<1>4. ASSUME NEW p \in Procs, Commits(p), txn[p].result = "applied" PROVE Goal
  <2>0. PICK e, b, f : e = evt[p] /\ b = content[e].entity_id /\ f = dispatch(content[e])
    OBVIOUS
  <2>1. /\ e \in Events /\ content' = content /\ b \in Accounts /\ f.sequence \in Nat
        /\ f.account_ref = b /\ f.absolute \in BOOLEAN
        /\ Dispatches(content[e]) /\ ~Stale(f)
        /\ version' = [version EXCEPT ![b] = VersionAfter(f)]
    BY <1>4, <2>0, AppliedCommit DEF dispatch
  <2>2. CASE a # b
    <3>1. AppliedTo(a)' = AppliedTo(a)
      BY <1>4, <2>0, <2>2, AppliedGrows
    <3>2. version'[a] = version[a]
      BY <1>0, <2>1, <2>2 DEF TypeOK
    <3> QED
      BY <1>1, <2>1, <3>1, <3>2
  <2>3. CASE a = b
    <3>1. AppliedTo(a)' = AppliedTo(a) \cup {e}
      BY <1>4, <2>0, <2>3, AppliedGrows
    <3>2. version'[a] = VersionAfter(f) /\ version[a] \in Nat
      BY <1>0, <2>1, <2>3 DEF TypeOK
    <3>3. Mark(e)' = f.sequence /\ \A g \in AppliedTo(a) : Mark(g)' = Mark(g)
      BY <2>0, <2>1 DEF Mark
    <3>4. /\ f.sequence <= VersionAfter(f) /\ version[a] <= VersionAfter(f)
          /\ VersionAfter(f) \in {f.sequence, version[a]}
      BY <2>1, <2>3, <3>2 DEF VersionAfter, Stale
    <3>5. \A g \in AppliedTo(a) : Dispatches(content[g]) /\ Mark(g) <= version[a]
      BY DEF Marked
    <3>6. \A g \in AppliedTo(a) : Mark(g) \in Nat
      <4> TAKE g \in AppliedTo(a)
      <4>1. content[g] \in Contents /\ Dispatches(content[g])
        BY <1>0, <3>5 DEF AppliedTo, TypeOK
      <4> QED
        BY <4>1, DispatchType DEF Mark
    <3>7. ASSUME NEW g \in AppliedTo(a)'
          PROVE  Dispatches(content'[g]) /\ Mark(g)' <= version'[a]
      <4>1. CASE g = e
        BY <2>1, <3>2, <3>3, <3>4, <4>1
      <4>2. CASE g # e
        <5>1. g \in AppliedTo(a)
          BY <3>1, <4>2
        <5> QED
          BY <2>1, <3>2, <3>3, <3>4, <3>5, <3>6, <5>1
      <4> QED
        BY <4>1, <4>2
    <3>8. version'[a] = 0 \/ \E g \in AppliedTo(a)' : Mark(g)' = version'[a]
      <4>1. CASE VersionAfter(f) = f.sequence
        BY <3>1, <3>2, <3>3, <4>1
      <4>2. CASE VersionAfter(f) = version[a]
        BY <3>1, <3>2, <3>3, <4>2 DEF Marked
      <4> QED
        BY <3>4, <4>1, <4>2
    <3> QED
      BY <3>7, <3>8
  <2> QED
    BY <2>2, <2>3
<1>5. ASSUME NEW p \in Procs, Commits(p), txn[p].result # "applied" PROVE Goal
  BY <1>2, <1>5, IdleCommit
<1> QED
  BY <1>2, <1>3, <1>4, <1>5, BookCases, Zenon

\* A snapshot that is applied is above every other; a credit ends the claim.
LEMMA ShownStep == IInv /\ Marked /\ Shown /\ Next => Shown'
<1> SUFFICES ASSUME IInv, Marked, Shown, Next, NEW a \in Accounts,
                    \A e \in AppliedTo(a)' : content'[e].event_type = SNAPSHOT,
                    NEW g \in AppliedTo(a)', Mark(g)' = version'[a]
             PROVE  balance'[a] = content'[g].value
  BY DEF Shown
<1> DEFINE Goal == balance'[a] = content'[g].value
<1>0. TypeOK
  BY DEF IInv
<1>1. ASSUME AppliedTo(a)' = AppliedTo(a), version'[a] = version[a],
             balance'[a] = balance[a],
             \A e \in AppliedTo(a) : content'[e] = content[e]
      PROVE  Goal
  <2>1. \A e \in AppliedTo(a) : Mark(e)' = Mark(e)
    BY <1>1 DEF Mark
  <2>2. \A e \in AppliedTo(a) : content[e].event_type = SNAPSHOT
    BY <1>1
  <2> QED
    BY <1>1, <2>1, <2>2 DEF Shown
<1>2. CASE UNCHANGED bookRows
  <2>1. AppliedTo(a)' = AppliedTo(a)
    BY <1>2 DEF AppliedTo, bookRows
  <2> QED
    BY <1>1, <1>2, <2>1 DEF bookRows
<1>3. ASSUME NEW e \in Events, NEW c \in Contents, Ingest(e, c) PROVE Goal
  BY <1>1, <1>3, IngestApplied
<1>4. ASSUME NEW p \in Procs, Commits(p), txn[p].result = "applied" PROVE Goal
  <2>0. PICK e, b, f : e = evt[p] /\ b = content[e].entity_id /\ f = dispatch(content[e])
    OBVIOUS
  <2>1. /\ e \in Events /\ content' = content /\ b \in Accounts /\ f.sequence \in Nat
        /\ f.account_ref = b /\ (f.absolute <=> content[e].event_type = SNAPSHOT)
        /\ ~Stale(f)
        /\ balance' = [balance EXCEPT ![b] = BalanceAfter(f)]
        /\ version' = [version EXCEPT ![b] = VersionAfter(f)]
    BY <1>4, <2>0, AppliedCommit
  <2>2. CASE a # b
    <3>1. AppliedTo(a)' = AppliedTo(a)
      BY <1>4, <2>0, <2>2, AppliedGrows
    <3>2. version'[a] = version[a] /\ balance'[a] = balance[a]
      BY <1>0, <2>1, <2>2 DEF TypeOK
    <3> QED
      BY <1>1, <2>1, <3>1, <3>2
  <2>3. CASE a = b
    <3>1. AppliedTo(a)' = AppliedTo(a) \cup {e}
      BY <1>4, <2>0, <2>3, AppliedGrows
    <3>2. content[e].event_type = SNAPSHOT /\ f.absolute
      BY <2>1, <3>1
    <3>3. /\ version'[a] = f.sequence /\ balance'[a] = f.minor
          /\ version[a] \in Nat /\ ~(f.sequence <= version[a])
      BY <1>0, <2>1, <2>3, <3>2 DEF TypeOK, VersionAfter, BalanceAfter, Stale
    <3>4. CASE g = e
      <4>1. f.minor = content[e].value
        BY <2>0, <3>2 DEF dispatch, SNAPSHOT, DEBITED
      <4> QED
        BY <2>1, <3>3, <3>4, <4>1
    <3>5. CASE g # e
      <4>1. g \in AppliedTo(a)
        BY <3>1, <3>5
      <4>2. Mark(g) <= version[a] /\ Mark(g)' = Mark(g) /\ Dispatches(content[g])
        BY <2>1, <4>1 DEF Marked, Mark
      <4>3. content[g] \in Contents
        BY <1>0, <4>1 DEF AppliedTo, TypeOK
      <4>4. Mark(g) \in Nat
        BY <4>2, <4>3, DispatchType DEF Mark
      <4> QED
        BY <2>1, <3>3, <4>2, <4>4
    <3> QED
      BY <3>4, <3>5
  <2> QED
    BY <2>2, <2>3
<1>5. ASSUME NEW p \in Procs, Commits(p), txn[p].result # "applied" PROVE Goal
  BY <1>2, <1>5, IdleCommit
<1> QED
  BY <1>2, <1>3, <1>4, <1>5, BookCases, Zenon

-----------------------------------------------------------------------------
(* Sums over finite sets.  MapThenSumSet is a recursive function over the   *)
(* subsets of a set, taking away a chosen element at a time; what it is     *)
(* worth is that the choice does not matter.                                *)

\* The choice of MapThenSumSet: which element is added next.
Pick(s) == CHOOSE x \in s : TRUE

\* The function by which MapThenSumSet computes the sum of F over the subsets
\* of S.
Sums(g, F, S) ==
    g = [s \in SUBSET S |-> IF s = {} THEN 0 ELSE F[Pick(s)] + g[s \ {Pick(s)}]]

\* Induction on the subsets of a finite set, as a statement about sets.
LEMMA SubsetInduction ==
    ASSUME NEW S, IsFiniteSet(S), NEW T \in SUBSET (SUBSET S),
           \A s \in SUBSET S : (\A r \in SUBSET s : r # s => r \in T) => s \in T
    PROVE  T = SUBSET S
<1> DEFINE U == (SUBSET S) \ T
<1> SUFFICES ASSUME U # {} PROVE FALSE
  OBVIOUS
<1>1. IsWellFoundedOn(StrictSubsetOrdering(S), SUBSET S)
  <2>1. FiniteSubsetsOf(S) = SUBSET S
    BY FS_FiniteSubsetsOfFinite
  <2>2. IsWellFoundedOn(StrictSubsetOrdering(S), FiniteSubsetsOf(S))
    BY FS_StrictSubsetOrderingWellFounded
  <2> QED
    BY <2>1, <2>2, Zenon
<1>2. U \subseteq SUBSET S
  OBVIOUS
<1>3. PICK s \in U : \A r \in U : <<r, s>> \notin StrictSubsetOrdering(S)
  <2> HIDE DEF U
  <2> QED
    BY <1>1, <1>2, WFMin
<1>4. \A r \in SUBSET s : r # s => r \in T
  BY <1>3 DEF StrictSubsetOrdering
<1> QED
  BY <1>3, <1>4

\* Induction on the naturals, likewise.
LEMMA SuccessorInduction ==
    ASSUME NEW T \in SUBSET Nat, 0 \in T, \A n \in T : n + 1 \in T
    PROVE  T = Nat
<1> SUFFICES ASSUME T # Nat PROVE FALSE
  OBVIOUS
<1>1. Nat \ T \subseteq Nat /\ Nat \ T # {}
  OBVIOUS
<1>2. PICK n \in Nat \ T : \A m \in Nat \ T : <<m, n>> \notin OpToRel(<, Nat)
  BY <1>1, WFMin, NatLessThanWellFounded, Zenon
<1>3. n # 0 /\ n - 1 \in Nat /\ n - 1 < n
  OBVIOUS
<1>4. <<n - 1, n>> \in OpToRel(<, Nat)
  BY <1>3 DEF OpToRel
<1>5. n - 1 \in T
  BY <1>2, <1>3, <1>4, Zenon
<1> QED
  BY <1>3, <1>5

\* A sum is what its definition says: the choice of the next element exists and
\* the recursion is well-founded.
LEMMA SumsExist ==
    ASSUME NEW S, IsFiniteSet(S), NEW F
    PROVE  \E g : Sums(g, F, S)
<1> DEFINE D(n) == {s \in SUBSET S : Cardinality(s) <= n}
           Unfold(g, s) == IF s = {} THEN 0 ELSE F[Pick(s)] + g[s \ {Pick(s)}]
           T == {n \in Nat : \E g : g = [s \in D(n) |-> Unfold(g, s)]}
<1>1. \A s \in SUBSET S : IsFiniteSet(s) /\ Cardinality(s) \in Nat
  BY FS_Subset, FS_CardinalityType
<1>2. \A s \in SUBSET S : s # {} =>
          /\ Pick(s) \in s /\ s \ {Pick(s)} \in SUBSET S
          /\ Cardinality(s \ {Pick(s)}) = Cardinality(s) - 1
  BY <1>1, FS_RemoveElement DEF Pick
<1>3. 0 \in T
  <2>1. \A s \in D(0) : s = {}
    BY <1>1, FS_EmptySet
  <2> DEFINE g == [s \in D(0) |-> 0]
  <2>2. g = [s \in D(0) |-> Unfold(g, s)]
    BY <2>1
  <2> QED
    BY <2>2
<1>4. ASSUME NEW n \in T PROVE n + 1 \in T
  <2>1. PICK g : g = [s \in D(n) |-> Unfold(g, s)]
    OBVIOUS
  <2> DEFINE h == [s \in D(n + 1) |-> Unfold(g, s)]
  <2>2. n \in Nat /\ n + 1 \in Nat
    OBVIOUS
  <2>3. \A s \in D(n) : s \in D(n + 1)
    BY <1>1, <2>2
  <2>4. \A s \in D(n) : g[s] = Unfold(g, s)
    <3> HIDE DEF D
    <3> QED
      BY <2>1
  <2>5. \A s \in D(n) : h[s] = g[s]
    <3> HIDE DEF D
    <3> QED
      BY <2>3, <2>4
  <2>6. \A s \in D(n + 1) : s # {} => s \ {Pick(s)} \in D(n)
    BY <1>1, <1>2, <2>2
  <2>7. \A s \in D(n + 1) : h[s] = Unfold(h, s)
    <3> HIDE DEF D
    <3> QED
      BY <2>5, <2>6
  <2>8. h = [s \in D(n + 1) |-> Unfold(h, s)]
    <3> DEFINE k == [s \in D(n + 1) |-> Unfold(h, s)]
    <3>1. DOMAIN h = D(n + 1) /\ DOMAIN k = D(n + 1)
      OBVIOUS
    <3>2. \A s \in D(n + 1) : h[s] = k[s]
      BY <2>7
    <3> QED
      BY <3>1, <3>2
  <2> HIDE DEF h, Unfold, D
  <2> QED
    BY <2>2, <2>8
<1>5. T = Nat
  <2> HIDE DEF T
  <2>1. T \subseteq Nat
    BY DEF T
  <2> QED
    BY <1>3, <1>4, <2>1, SuccessorInduction
<1>6. Cardinality(S) \in T
  BY <1>1, <1>5
<1>7. D(Cardinality(S)) = SUBSET S
  BY <1>1, FS_Subset
<1> QED
  BY <1>6, <1>7 DEF Sums

\* One step of the recursion.
LEMMA SumsUnfold ==
    ASSUME NEW S, NEW F, NEW g, Sums(g, F, S)
    PROVE  /\ g[{}] = 0
           /\ \A s \in SUBSET S : s # {} =>
                 Pick(s) \in s /\ g[s] = F[Pick(s)] + g[s \ {Pick(s)}]
<1>1. \A s \in SUBSET S : s # {} => Pick(s) \in s
  BY DEF Pick
<1>2. \A s \in SUBSET S :
          g[s] = IF s = {} THEN 0 ELSE F[Pick(s)] + g[s \ {Pick(s)}]
  BY DEF Sums
<1> QED
  BY <1>1, <1>2

LEMMA Swapped ==
    ASSUME NEW a \in Int, NEW b \in Int, NEW c \in Int
    PROVE  a + (b + c) = b + (a + c)
OBVIOUS

LEMMA SumsInt ==
    ASSUME NEW S, IsFiniteSet(S), NEW F, \A x \in S : F[x] \in Int,
           NEW g, Sums(g, F, S)
    PROVE  \A s \in SUBSET S : g[s] \in Int
<1> DEFINE T == {s \in SUBSET S : g[s] \in Int}
<1>0. /\ g[{}] = 0
      /\ \A s \in SUBSET S : s # {} =>
            Pick(s) \in s /\ g[s] = F[Pick(s)] + g[s \ {Pick(s)}]
  BY SumsUnfold
<1>1. ASSUME NEW s \in SUBSET S, \A r \in SUBSET s : r # s => r \in T
      PROVE  s \in T
  <2>1. CASE s = {}
    BY <1>0, <2>1
  <2>2. CASE s # {}
    <3>1. Pick(s) \in s /\ g[s] = F[Pick(s)] + g[s \ {Pick(s)}]
      BY <1>0, <2>2
    <3>2. s \ {Pick(s)} \in T
      BY <1>1, <3>1
    <3> QED
      BY <3>1, <3>2
  <2> QED
    BY <2>1, <2>2
<1>2. T = SUBSET S
  <2> HIDE DEF T
  <2>1. T \subseteq SUBSET S
    BY DEF T
  <2> QED
    BY <1>1, <2>1, SubsetInduction
<1> QED
  BY <1>2

\* The order does not matter: any element may be the one added last.
LEMMA SumsAny ==
    ASSUME NEW S, IsFiniteSet(S), NEW F, \A x \in S : F[x] \in Int,
           NEW g, Sums(g, F, S)
    PROVE  \A s \in SUBSET S : \A x \in s : g[s] = F[x] + g[s \ {x}]
<1> DEFINE T == {s \in SUBSET S : \A x \in s : g[s] = F[x] + g[s \ {x}]}
<1>0. /\ g[{}] = 0
      /\ \A s \in SUBSET S : s # {} =>
            Pick(s) \in s /\ g[s] = F[Pick(s)] + g[s \ {Pick(s)}]
  BY SumsUnfold
<1>1. ASSUME NEW s \in SUBSET S, \A r \in SUBSET s : r # s => r \in T
      PROVE  s \in T
  <2> SUFFICES ASSUME NEW x \in s PROVE g[s] = F[x] + g[s \ {x}]
    OBVIOUS
  <2> DEFINE c == Pick(s)
  <2>1. c \in s /\ g[s] = F[c] + g[s \ {c}]
    BY <1>0
  <2> HIDE DEF c
  <2>2. CASE x # c
    <3>1. s \ {c} \in T /\ x \in s \ {c} /\ s \ {x} \in T /\ c \in s \ {x}
      BY <1>1, <2>1, <2>2
    <3>2. g[s \ {c}] = F[x] + g[(s \ {c}) \ {x}]
      BY <3>1
    <3>3. g[s \ {x}] = F[c] + g[(s \ {x}) \ {c}]
      BY <3>1
    <3>4. (s \ {c}) \ {x} = (s \ {x}) \ {c} /\ (s \ {x}) \ {c} \in SUBSET S
      OBVIOUS
    <3>5. F[x] \in Int /\ F[c] \in Int /\ g[(s \ {x}) \ {c}] \in Int
      BY <2>1, <3>4, SumsInt
    <3> DEFINE rest == g[(s \ {x}) \ {c}]
    <3>6. g[s] = F[c] + (F[x] + rest) /\ g[s \ {x}] = F[c] + rest
      BY <2>1, <3>2, <3>3, <3>4
    <3>7. F[c] + (F[x] + rest) = F[x] + (F[c] + rest)
      BY <3>5, Swapped
    <3> QED
      BY <3>6, <3>7
  <2> QED
    BY <2>1, <2>2
<1>2. T = SUBSET S
  <2> HIDE DEF T
  <2>1. T \subseteq SUBSET S
    BY DEF T
  <2> QED
    BY <1>1, <2>1, SubsetInduction
<1> QED
  BY <1>2

\* The sum over a set depends on the summands only, not on what else there is.
LEMMA SumsAgree ==
    ASSUME NEW S, IsFiniteSet(S), NEW T, S \subseteq T, NEW F, NEW G,
           \A x \in S : F[x] = G[x],
           NEW g, Sums(g, F, S), NEW h, Sums(h, G, T)
    PROVE  \A s \in SUBSET S : g[s] = h[s]
<1> DEFINE E == {s \in SUBSET S : g[s] = h[s]}
<1>0. /\ g[{}] = 0 /\ h[{}] = 0
      /\ \A s \in SUBSET S : s # {} =>
            Pick(s) \in s /\ g[s] = F[Pick(s)] + g[s \ {Pick(s)}]
      /\ \A s \in SUBSET T : s # {} => h[s] = G[Pick(s)] + h[s \ {Pick(s)}]
  <2>1. /\ g[{}] = 0
        /\ \A s \in SUBSET S : s # {} =>
              Pick(s) \in s /\ g[s] = F[Pick(s)] + g[s \ {Pick(s)}]
    BY SumsUnfold
  <2>2. /\ h[{}] = 0
        /\ \A s \in SUBSET T : s # {} =>
              Pick(s) \in s /\ h[s] = G[Pick(s)] + h[s \ {Pick(s)}]
    BY SumsUnfold
  <2> QED
    BY <2>1, <2>2
<1>1. ASSUME NEW s \in SUBSET S, \A r \in SUBSET s : r # s => r \in E
      PROVE  s \in E
  <2>1. s \in SUBSET T
    OBVIOUS
  <2>2. CASE s = {}
    BY <1>0, <2>2
  <2>3. CASE s # {}
    <3>1. Pick(s) \in s /\ g[s] = F[Pick(s)] + g[s \ {Pick(s)}]
      BY <1>0, <2>3
    <3>2. h[s] = G[Pick(s)] + h[s \ {Pick(s)}]
      BY <1>0, <2>1, <2>3
    <3>3. s \ {Pick(s)} \in E
      BY <1>1, <3>1
    <3> QED
      BY <3>1, <3>2, <3>3
  <2> QED
    BY <2>2, <2>3
<1>2. E = SUBSET S
  <2> HIDE DEF E
  <2>1. E \subseteq SUBSET S
    BY DEF E
  <2> QED
    BY <1>1, <2>1, SubsetInduction
<1> QED
  BY <1>2

\* What adds nothing may be left out.
LEMMA SumsRestrict ==
    ASSUME NEW T, IsFiniteSet(T), NEW F, \A x \in T : F[x] \in Int,
           NEW h, Sums(h, F, T), NEW S, S \subseteq T,
           \A x \in T \ S : F[x] = 0
    PROVE  h[T] = h[S]
<1> DEFINE E == {s \in SUBSET T : h[s] = h[s \cap S]}
<1>1. ASSUME NEW s \in SUBSET T, \A r \in SUBSET s : r # s => r \in E
      PROVE  s \in E
  <2>1. CASE s \subseteq S
    <3>1. s \cap S = s
      BY <2>1
    <3> QED
      BY <3>1
  <2>2. CASE ~(s \subseteq S)
    <3>1. PICK x \in s : x \notin S
      BY <2>2
    <3>2. h[s] = F[x] + h[s \ {x}] /\ F[x] = 0
      BY <3>1, SumsAny
    <3>3. h[s \ {x}] = h[(s \ {x}) \cap S]
      BY <1>1, <3>1
    <3>4. (s \ {x}) \cap S = s \cap S
      BY <3>1
    <3>5. s \ {x} \in SUBSET T
      OBVIOUS
    <3>6. h[s \ {x}] \in Int
      BY <3>5, SumsInt
    <3>7. h[s] = h[s \cap S]
      <4> HIDE DEF E
      <4> QED
        BY <3>2, <3>3, <3>4, <3>6
    <3> QED
      BY <3>7
  <2> QED
    BY <2>1, <2>2
<1>2. E = SUBSET T
  <2> HIDE DEF E
  <2>1. E \subseteq SUBSET T
    BY DEF E
  <2> QED
    BY <1>1, <2>1, SubsetInduction
<1>3. T \cap S = S
  OBVIOUS
<1> QED
  BY <1>2, <1>3

\* Ones add up to the number of elements.
LEMMA SumsCount ==
    ASSUME NEW S, IsFiniteSet(S), NEW F, \A x \in S : F[x] = 1,
           NEW g, Sums(g, F, S)
    PROVE  g[S] = Cardinality(S)
<1> DEFINE E == {s \in SUBSET S : g[s] = Cardinality(s)}
<1>0. /\ g[{}] = 0
      /\ \A s \in SUBSET S : s # {} =>
            Pick(s) \in s /\ g[s] = F[Pick(s)] + g[s \ {Pick(s)}]
  BY SumsUnfold
<1>1. ASSUME NEW s \in SUBSET S, \A r \in SUBSET s : r # s => r \in E
      PROVE  s \in E
  <2>1. CASE s = {}
    BY <1>0, <2>1, FS_EmptySet
  <2>2. CASE s # {}
    <3>1. Pick(s) \in s /\ g[s] = F[Pick(s)] + g[s \ {Pick(s)}]
      BY <1>0, <2>2
    <3>2. g[s \ {Pick(s)}] = Cardinality(s \ {Pick(s)})
      BY <1>1, <3>1
    <3>3. IsFiniteSet(s) /\ Cardinality(s) \in Nat
      BY FS_Subset, FS_CardinalityType
    <3>4. Cardinality(s \ {Pick(s)}) = Cardinality(s) - 1
      BY <3>1, <3>3, FS_RemoveElement
    <3>5. F[Pick(s)] = 1
      BY <3>1
    <3> QED
      BY <3>1, <3>2, <3>3, <3>4, <3>5
  <2> QED
    BY <2>1, <2>2
<1>2. E = SUBSET S
  <2> HIDE DEF E
  <2>1. E \subseteq SUBSET S
    BY DEF E
  <2> QED
    BY <1>1, <2>1, SubsetInduction
<1> QED
  BY <1>2

-----------------------------------------------------------------------------
(* The money.                                                               *)

\* What the ledger says of an event, which has one row at most.
Amounts == [e \in Events |-> ledger[e][1]]

\* The balance of an account is the sum of what was applied to it.
Funded ==
    \A a \in Accounts : \A g :
        Sums(g, Amounts, AppliedTo(a)) => balance[a] = g[AppliedTo(a)]

LEMMA AppliedFinite ==
    ASSUME NEW a
    PROVE  AppliedTo(a) \subseteq Events /\ IsFiniteSet(AppliedTo(a))
BY FiniteAssumption, FS_Subset DEF AppliedTo

LEMMA LedgerFirst ==
    ASSUME TypeOK, NEW e \in Events, ledger[e] # <<>>
    PROVE  Len(ledger[e]) \in Nat /\ Len(ledger[e]) >= 1 /\ ledger[e][1] \in Int
<1>1. e \in Events /\ ledger[e] \in Seq(BigInt) /\ ledger[e] # <<>>
  BY DEF TypeOK
<1>2. Len(ledger[e]) \in Nat /\ Len(ledger[e]) >= 1
  BY <1>1, LenProperties, EmptySeq
<1>3. ledger[e][1] \in BigInt
  BY <1>1, <1>2
<1>4. BigInt \subseteq Int
  BY BoundsAssumption DEF BigInt
<1> QED
  BY <1>2, <1>3, <1>4

LEMMA AmountsInt ==
    ASSUME TypeOK, NEW a
    PROVE  \A e \in AppliedTo(a) : Amounts[e] \in Int
BY LedgerFirst DEF AppliedTo, Amounts

\* What an account was funded by stays, and nothing else changed it.
LEMMA FundedKept ==
    ASSUME IInv, Funded, NEW a \in Accounts, AppliedTo(a)' = AppliedTo(a),
           balance'[a] = balance[a],
           \A e \in AppliedTo(a) : Amounts'[e] = Amounts[e],
           NEW h, Sums(h, Amounts', AppliedTo(a))
    PROVE  balance'[a] = h[AppliedTo(a)]
<1>1. PICK g : Sums(g, Amounts, AppliedTo(a))
  BY AppliedFinite, SumsExist
<1>2. g[AppliedTo(a)] = h[AppliedTo(a)]
  BY <1>1, AppliedFinite, SumsAgree
<1> QED
  BY <1>1, <1>2 DEF Funded

\* The ledger row of an event records the difference its effect makes.
LEMMA FundedStep == IInv /\ Funded /\ Next => Funded'
<1> SUFFICES ASSUME IInv, Funded, Next, NEW a \in Accounts,
                    NEW h, Sums(h, Amounts', AppliedTo(a)')
             PROVE  balance'[a] = h[AppliedTo(a)']
  BY DEF Funded
<1> DEFINE Goal == balance'[a] = h[AppliedTo(a)']
<1>0. TypeOK
  BY DEF IInv
<1>1. ASSUME AppliedTo(a)' = AppliedTo(a), balance'[a] = balance[a],
             \A e \in AppliedTo(a) : ledger'[e] = ledger[e]
      PROVE  Goal
  <2>1. \A e \in AppliedTo(a) : Amounts'[e] = Amounts[e]
    BY <1>1 DEF Amounts, AppliedTo
  <2> QED
    BY <1>1, <2>1, FundedKept
<1>2. CASE UNCHANGED bookRows
  <2>1. AppliedTo(a)' = AppliedTo(a)
    BY <1>2 DEF AppliedTo, bookRows
  <2> QED
    BY <1>1, <1>2, <2>1 DEF bookRows
<1>3. ASSUME NEW e \in Events, NEW c \in Contents, Ingest(e, c) PROVE Goal
  BY <1>1, <1>3, IngestApplied
<1>4. ASSUME NEW p \in Procs, Commits(p), txn[p].result = "applied" PROVE Goal
  <2>0. PICK e, b, f : e = evt[p] /\ b = content[e].entity_id /\ f = dispatch(content[e])
    OBVIOUS
  <2>1. /\ e \in Events /\ b \in Accounts /\ f.account_ref = b /\ f.minor \in Int
        /\ ledger[e] = <<>> /\ ledger' = [ledger EXCEPT ![e] = <<Delta(f)>>]
        /\ balance' = [balance EXCEPT ![b] = BalanceAfter(f)]
    BY <1>4, <2>0, AppliedCommit
  <2>2. \A g \in Events \ {e} : ledger'[g] = ledger[g]
    BY <1>0, <2>1 DEF TypeOK
  <2>3. \A c \in Accounts : e \notin AppliedTo(c)
    BY <2>1 DEF AppliedTo
  <2>4. \A g \in AppliedTo(a) : ledger'[g] = ledger[g]
    BY <2>2, <2>3, AppliedFinite
  <2>5. CASE a # b
    <3>1. AppliedTo(a)' = AppliedTo(a)
      BY <1>4, <2>0, <2>5, AppliedGrows
    <3>2. balance'[a] = balance[a]
      BY <1>0, <2>1, <2>5 DEF TypeOK
    <3> QED
      BY <1>1, <2>4, <3>1, <3>2
  <2>6. CASE a = b
    <3> DEFINE A == AppliedTo(a)
               B == A \cup {e}
    <3>1. AppliedTo(a)' = B /\ B \ {e} = A /\ A \in SUBSET B
      BY <1>4, <2>0, <2>3, <2>6, AppliedGrows
    <3>2. IsFiniteSet(A) /\ IsFiniteSet(B) /\ A \subseteq Events
      BY AppliedFinite, FS_AddElement
    <3>3. Amounts'[e] = Delta(f)
      BY <1>0, <2>1 DEF Amounts, TypeOK
    <3>4. \A g \in A : Amounts'[g] = Amounts[g] /\ Amounts[g] \in Int
      BY <1>0, <2>4, <3>2, AmountsInt DEF Amounts
    <3>5. balance[a] \in Int /\ Delta(f) \in Int
          /\ balance'[a] = Delta(f) + balance[a]
      <4>1. balance[a] \in Int
        BY <1>0, BoundsAssumption DEF TypeOK, BigInt
      <4> QED
        BY <1>0, <2>1, <2>6, <4>1 DEF TypeOK, BalanceAfter, Delta
    <3> HIDE DEF A, B
    <3>6. \A x \in B : Amounts'[x] \in Int
      BY <3>3, <3>4, <3>5 DEF B
    <3>7. Sums(h, Amounts', B)
      BY <3>1
    <3>8. h[B] = Amounts'[e] + h[A]
      <4>1. e \in B
        BY DEF B
      <4>2. h[B] = Amounts'[e] + h[B \ {e}]
        BY <3>2, <3>6, <3>7, <4>1, SumsAny
      <4> QED
        BY <3>1, <4>2
    <3>9. PICK g : Sums(g, Amounts, A)
      BY <3>2, SumsExist
    <3>10. h[A] = g[A]
      <4>1. \A s \in SUBSET A : g[s] = h[s]
        <5>1. A \subseteq B /\ \A x \in A : Amounts[x] = Amounts'[x]
          BY <3>1, <3>4
        <5> QED
          BY <3>2, <3>7, <3>9, <5>1, SumsAgree
      <4> QED
        BY <4>1
    <3>11. g[A] = balance[a]
      BY <3>9 DEF Funded, A
    <3> QED
      BY <3>1, <3>3, <3>5, <3>8, <3>10, <3>11
  <2> QED
    BY <2>5, <2>6
<1>5. ASSUME NEW p \in Procs, Commits(p), txn[p].result # "applied" PROVE Goal
  BY <1>2, <1>5, IdleCommit
<1> QED
  BY <1>2, <1>3, <1>4, <1>5, BookCases, Zenon

\* A credit's ledger row is written with the amount of its payload, and neither
\* changes afterwards.
LEMMA InFullStep == IInv /\ InFull /\ Next => InFull'
<1> SUFFICES ASSUME IInv, InFull, Next, NEW e \in Events, ledger'[e] # <<>>,
                    content'[e].event_type # SNAPSHOT
             PROVE  ledger'[e][1] = Worth(e)'
  BY DEF InFull
<1> DEFINE Goal == ledger'[e][1] = Worth(e)'
<1>0. TypeOK
  BY DEF IInv
<1>1. ASSUME ledger'[e] = ledger[e], content'[e] = content[e] PROVE Goal
  BY <1>1 DEF InFull, Worth
<1>2. CASE UNCHANGED bookRows
  BY <1>1, <1>2 DEF bookRows
<1>3. ASSUME NEW d \in Events, NEW c \in Contents, Ingest(d, c) PROVE Goal
  <2>1. /\ content' = [content EXCEPT ![d] = c] /\ ledger' = ledger
        /\ status[d] = "unused"
    BY <1>3 DEF Ingest, bookVars
  <2>2. ledger[d] = <<>>
    BY <2>1 DEF IInv, Stored
  <2>3. e # d
    BY <2>1, <2>2
  <2> QED
    BY <1>0, <1>1, <2>1, <2>3 DEF TypeOK
<1>4. ASSUME NEW p \in Procs, Commits(p), txn[p].result = "applied" PROVE Goal
  <2>0. PICK d, b, f : d = evt[p] /\ b = content[d].entity_id /\ f = dispatch(content[d])
    OBVIOUS
  <2>1. /\ d \in Events /\ content' = content
        /\ f.absolute <=> content[d].event_type = SNAPSHOT
        /\ ledger' = [ledger EXCEPT ![d] = <<Delta(f)>>]
    BY <1>4, <2>0, AppliedCommit
  <2>2. CASE e # d
    BY <1>0, <1>1, <2>1, <2>2 DEF TypeOK
  <2>3. CASE e = d
    <3>1. ledger'[e][1] = Delta(f) /\ ~f.absolute
      BY <1>0, <2>1, <2>3 DEF TypeOK
    <3>2. Delta(f) = f.minor
      BY <3>1 DEF Delta
    <3> QED
      BY <2>0, <2>1, <2>3, <3>1, <3>2 DEF Worth
  <2> QED
    BY <2>2, <2>3
<1>5. ASSUME NEW p \in Procs, Commits(p), txn[p].result # "applied" PROVE Goal
  BY <1>2, <1>5, IdleCommit
<1> QED
  BY <1>2, <1>3, <1>4, <1>5, BookCases, Zenon

LEMMA InitFunded == Init => Funded /\ InFull
<1> SUFFICES ASSUME Init PROVE Funded /\ InFull
  OBVIOUS
<1>1. \A a \in Accounts : AppliedTo(a) = {} /\ balance[a] = 0
  BY DEF Init, AppliedTo
<1>2. ASSUME NEW a \in Accounts, NEW g, Sums(g, Amounts, AppliedTo(a))
      PROVE  balance[a] = g[AppliedTo(a)]
  <2>1. g[{}] = 0
    BY <1>2, SumsUnfold
  <2> QED
    BY <1>1, <2>1
<1>3. InFull
  BY DEF Init, InFull
<1> QED
  BY <1>2, <1>3 DEF Funded

LEMMA StutterFunded == Funded /\ InFull /\ UNCHANGED bookRows => Funded' /\ InFull'
<1> SUFFICES ASSUME Funded, InFull, UNCHANGED bookRows PROVE Funded' /\ InFull'
  OBVIOUS
<1>1. (\A a : AppliedTo(a)' = AppliedTo(a)) /\ Amounts' = Amounts
  BY DEF AppliedTo, Amounts, bookRows
<1>2. \A e : Worth(e)' = Worth(e)
  BY DEF Worth, bookRows
<1> QED
  BY <1>1, <1>2 DEF Funded, InFull, bookRows

\* The sums that the queries ask for, as functions over the subsets.
LEMMA RecordedSum ==
    ASSUME NEW S, IsFiniteSet(S), NEW F, \A x \in S : Recorded(x) = F[x]
    PROVE  \E g : Sums(g, F, S) /\ MapThenSumSet(Recorded, S) = g[S]
<1> DEFINE B(g) == g = [s \in SUBSET S |-> IF s = {} THEN 0
                            ELSE Recorded(Pick(s)) + g[s \ {Pick(s)}]]
<1>1. MapThenSumSet(Recorded, S) = (CHOOSE g : B(g))[S]
  BY DEF MapThenSumSet, MapThenFoldSet, Pick
<1>2. \A s \in SUBSET S : s # {} => Pick(s) \in S
  BY DEF Pick
<1>3. \A g : B(g) <=> Sums(g, F, S)
  BY <1>2 DEF Sums
<1>4. B(CHOOSE g : B(g))
  BY <1>3, SumsExist
<1> QED
  BY <1>1, <1>3, <1>4

LEMMA LedgerRowsSum ==
    ASSUME NEW S, IsFiniteSet(S), NEW F, \A x \in S : LedgerRows(x) = F[x]
    PROVE  \E g : Sums(g, F, S) /\ MapThenSumSet(LedgerRows, S) = g[S]
<1> DEFINE B(g) == g = [s \in SUBSET S |-> IF s = {} THEN 0
                            ELSE LedgerRows(Pick(s)) + g[s \ {Pick(s)}]]
<1>1. MapThenSumSet(LedgerRows, S) = (CHOOSE g : B(g))[S]
  BY DEF MapThenSumSet, MapThenFoldSet, Pick
<1>2. \A s \in SUBSET S : s # {} => Pick(s) \in S
  BY DEF Pick
<1>3. \A g : B(g) <=> Sums(g, F, S)
  BY <1>2 DEF Sums
<1>4. B(CHOOSE g : B(g))
  BY <1>3, SumsExist
<1> QED
  BY <1>1, <1>3, <1>4

LEMMA WorthSum ==
    ASSUME NEW S, IsFiniteSet(S), NEW F, \A x \in S : Worth(x) = F[x]
    PROVE  \E g : Sums(g, F, S) /\ MapThenSumSet(Worth, S) = g[S]
<1> DEFINE B(g) == g = [s \in SUBSET S |-> IF s = {} THEN 0
                            ELSE Worth(Pick(s)) + g[s \ {Pick(s)}]]
<1>1. MapThenSumSet(Worth, S) = (CHOOSE g : B(g))[S]
  BY DEF MapThenSumSet, MapThenFoldSet, Pick
<1>2. \A s \in SUBSET S : s # {} => Pick(s) \in S
  BY DEF Pick
<1>3. \A g : B(g) <=> Sums(g, F, S)
  BY <1>2 DEF Sums
<1>4. B(CHOOSE g : B(g))
  BY <1>3, SumsExist
<1> QED
  BY <1>1, <1>3, <1>4

\* Of one ledger row, the sum is the row.
LEMMA RecordedOne ==
    ASSUME TypeOK, NEW e \in Events, Len(ledger[e]) <= 1, ledger[e] # <<>>
    PROVE  Recorded(e) = ledger[e][1] /\ Len(ledger[e]) = 1
<1> DEFINE B(g) == g = [i \in 0 .. Len(ledger[e]) |->
                          IF i = 0 THEN 0 ELSE g[i - 1] + ledger[e][i]]
<1>1. Len(ledger[e]) \in Nat /\ Len(ledger[e]) >= 1 /\ ledger[e][1] \in Int
  BY LedgerFirst
<1>2. Len(ledger[e]) = 1
  <2>1. \A n \in Nat : n <= 1 /\ n >= 1 => n = 1
    OBVIOUS
  <2> QED
    BY <1>1, <2>1, Zenon
<1>3. ledger[e][1] \in Int
  BY <1>1
<1>4. Recorded(e) = (CHOOSE g : B(g))[1]
  BY <1>2 DEF Recorded
<1>5. \E g : B(g)
  <2> DEFINE w == [i \in 0 .. 1 |-> IF i = 0 THEN 0 ELSE ledger[e][1]]
             v == [i \in 0 .. 1 |-> IF i = 0 THEN 0 ELSE w[i - 1] + ledger[e][i]]
  <2>1. w[0] = 0 /\ v[0] = 0
    OBVIOUS
  <2>2. w[1] = ledger[e][1] /\ v[1] = 0 + ledger[e][1]
    BY <2>1
  <2>3. \A i \in 0 .. 1 : i = 0 \/ i = 1
    OBVIOUS
  <2>4. \A i \in 0 .. 1 : w[i] = v[i]
    BY <1>3, <2>1, <2>2, <2>3
  <2>5. w = v
    BY <2>4
  <2>6. B(w)
    BY <1>2, <2>5
  <2> QED
    BY <2>6
<1>6. B(CHOOSE g : B(g))
  BY <1>5
<1> DEFINE g == CHOOSE g : B(g)
<1>7. g[0] = 0 /\ g[1] = g[0] + ledger[e][1]
  <2> HIDE DEF g
  <2>1. g = [i \in 0 .. 1 |-> IF i = 0 THEN 0 ELSE g[i - 1] + ledger[e][i]]
    BY <1>2, <1>6 DEF g
  <2> QED
    BY <2>1
<1> QED
  BY <1>2, <1>3, <1>4, <1>7

-----------------------------------------------------------------------------
(* The theorems.                                                            *)

\* No account has moved yet.
LEMMA InitVInv == Init => VInv
<1> SUFFICES ASSUME Init PROVE VInv
  OBVIOUS
<1>1. \A a \in Accounts : AppliedTo(a) = {} /\ version[a] = 0
  BY DEF Init, AppliedTo
<1> QED
  BY <1>1 DEF VInv, Marked, Shown

\* A step that leaves payloads and book alone preserves it.
LEMMA StutterVInv == VInv /\ UNCHANGED bookRows => VInv'
<1> SUFFICES ASSUME VInv, UNCHANGED bookRows PROVE VInv'
  OBVIOUS
<1>1. \A a : AppliedTo(a)' = AppliedTo(a)
  BY DEF AppliedTo, bookRows
<1>2. \A e : Mark(e)' = Mark(e)
  BY DEF Mark, bookRows
<1> QED
  BY <1>1, <1>2 DEF VInv, Marked, Shown, bookRows

\* Versions and snapshots stay in step with the ledger in every behaviour.
THEOREM BookInvariance == Spec => []VInv
<1>1. IInv /\ VInv /\ [Next]_vars => VInv'
  <2>1. UNCHANGED vars => UNCHANGED bookRows
    BY DEF vars, rowVars, bookVars, bookRows
  <2> QED
    BY <2>1, MarkedStep, ShownStep, StutterVInv DEF VInv
<1> QED
  BY <1>1, InitVInv, Invariance, PTL DEF Spec

\* The sequence of an event that was applied is a natural number.
LEMMA MarkType ==
    ASSUME TypeOK, Marked, NEW a \in Accounts, NEW e \in AppliedTo(a)
    PROVE  Mark(e) \in Nat
<1>1. content[e] \in Contents /\ Dispatches(content[e])
  BY DEF AppliedTo, TypeOK, Marked
<1> QED
  BY <1>1, DispatchType DEF Mark

\* ADR-0004: a version is the highest sequence applied (GREATEST in
\* _apply_credit, the guard and the assignment in _apply_set_balance).
THEOREM VersionIsHighest == Spec => []HighWaterMark
<1>1. IInv /\ VInv => HighWaterMark
  <2> SUFFICES ASSUME IInv, VInv, NEW a \in Accounts
               PROVE  version[a] = Max({Mark(e) : e \in AppliedTo(a)} \cup {0})
    BY DEF HighWaterMark
  <2> DEFINE M == {Mark(e) : e \in AppliedTo(a)} \cup {0}
  <2>0. TypeOK /\ Marked
    BY DEF IInv, VInv
  <2>1. version[a] \in Nat
    BY <2>0 DEF TypeOK
  <2>2. M \subseteq Nat
    BY <2>0, MarkType
  <2>3. version[a] \in M /\ \A m \in M : version[a] >= m
    BY <2>0, <2>1, <2>2 DEF Marked
  <2>4. \A m \in M : (\A n \in M : m >= n) => m = version[a]
    BY <2>1, <2>2, <2>3
  <2> HIDE DEF M
  <2>5. Max(M) = version[a]
    BY <2>3, <2>4 DEF Max
  <2> QED
    BY <2>5 DEF M
<1> QED
  BY <1>1, Invariance, BookInvariance, PTL

\* FR-10: among snapshots the newest applied one is what the account shows.
THEOREM NewestShown == Spec => []NewestSnapshotWins
<1>1. IInv /\ VInv => NewestSnapshotWins
  <2> SUFFICES ASSUME IInv, VInv, NEW a \in Accounts,
                      \A e \in AppliedTo(a) : content[e].event_type = SNAPSHOT,
                      NEW e \in AppliedTo(a),
                      \A f \in AppliedTo(a) : Mark(f) <= Mark(e)
               PROVE  balance[a] = content[e].value
    BY DEF NewestSnapshotWins
  <2>0. TypeOK /\ Marked /\ Shown
    BY DEF IInv, VInv
  <2>1. Mark(e) \in Nat /\ version[a] \in Nat /\ Mark(e) <= version[a]
    BY <2>0, MarkType DEF TypeOK, Marked
  <2>2. version[a] <= Mark(e)
    BY <2>0, <2>1 DEF Marked
  <2>3. Mark(e) = version[a]
    BY <2>1, <2>2
  <2> QED
    BY <2>0, <2>3 DEF Shown
<1> QED
  BY <1>1, Invariance, BookInvariance, PTL

\* v_event_overview explains every success without an effect: the attempt with
\* the highest number, which is the last one logged, says superseded.
THEOREM EffectlessExplained == Spec => []EffectlessIsSuperseded
<1>1. IInv /\ HInv => EffectlessIsSuperseded
  <2> SUFFICES ASSUME IInv, HInv, NEW e \in Events,
                      status[e] = "succeeded", ledger[e] = <<>>
               PROVE  v_event_overview(e).last_outcome = "superseded"
    BY DEF EffectlessIsSuperseded, v_event_overview, Rows
  <2> DEFINE s == attempts[e]
             last == CHOOSE i \in DOMAIN s : Highest(e, s[i].number)
  <2>1. s # <<>> /\ s[Len(s)].outcome = "superseded"
    BY DEF HInv, Explained
  <2>2. s \in Seq([number : Nat, outcome : AttemptOutcome])
    BY DEF IInv, TypeOK
  <2>3. DOMAIN s = 1 .. Len(s) /\ Len(s) \in Nat /\ Len(s) \in DOMAIN s
    BY <2>1, <2>2, LenProperties, EmptySeq
  <2>4. \A i \in DOMAIN s : s[i].number \in Nat
    <3> TAKE i \in DOMAIN s
    <3>1. s[i] \in [number : Nat, outcome : AttemptOutcome]
      BY <2>2, SeqElement, Zenon
    <3> QED
      BY <3>1
  <2>5. \A i, j \in DOMAIN s : i < j => s[i].number < s[j].number
    BY DEF HInv, AttemptNumbersIncrease
  <2> HIDE DEF s
  <2>6. \A i \in DOMAIN s : i # Len(s) => i < Len(s)
    BY <2>3
  <2>7. Highest(e, s[Len(s)].number)
    BY <2>3, <2>4, <2>5, <2>6 DEF Highest, RecordedNumbers, s
  <2>8. last \in DOMAIN s /\ Highest(e, s[last].number)
    BY <2>3, <2>7, Zenon
  <2> HIDE DEF last
  <2>9. s[Len(s)].number <= s[last].number
    BY <2>3, <2>8 DEF Highest, RecordedNumbers, s
  <2>10. last = Len(s)
    <3> SUFFICES ASSUME last # Len(s) PROVE FALSE
      OBVIOUS
    <3>1. s[last].number < s[Len(s)].number
      BY <2>3, <2>5, <2>6, <2>8
    <3> QED
      BY <2>3, <2>4, <2>8, <2>9, <3>1
  <2> QED
    BY <2>1, <2>10 DEF v_event_overview, s, last
<1> QED
  BY <1>1, Invariance, RowInvariance, PTL

-----------------------------------------------------------------------------
(* The books balance.                                                       *)

\* What was applied to an account funds its balance, and a credit is posted in
\* full, in every behaviour.
THEOREM MoneyInvariance == Spec => [](Funded /\ InFull)
<1>1. IInv /\ (Funded /\ InFull) /\ [Next]_vars => (Funded /\ InFull)'
  <2>1. UNCHANGED vars => UNCHANGED bookRows
    BY DEF vars, rowVars, bookVars, bookRows
  <2> QED
    BY <2>1, FundedStep, InFullStep, StutterFunded
<1> QED
  BY <1>1, InitFunded, Invariance, PTL DEF Spec

\* The query of fn_account_balance answers the stored balance.
LEMMA Balanced ==
    ASSUME TypeOK, KeyOwned, Funded, NEW a \in Accounts
    PROVE  fn_account_balance(a) = balance[a] /\ balance[a] \in Int
<1>1. \A x \in AppliedTo(a) : Recorded(x) = Amounts[x]
  <2> TAKE x \in AppliedTo(a)
  <2>1. x \in Events /\ ledger[x] # <<>>
    BY DEF AppliedTo
  <2>2. Len(ledger[x]) <= 1
    BY <2>1 DEF KeyOwned
  <2> QED
    BY <2>1, <2>2, RecordedOne DEF Amounts
<1>2. PICK g : /\ Sums(g, Amounts, AppliedTo(a))
               /\ MapThenSumSet(Recorded, AppliedTo(a)) = g[AppliedTo(a)]
  BY <1>1, AppliedFinite, RecordedSum
<1>3. balance[a] = g[AppliedTo(a)]
  BY <1>2 DEF Funded
<1>4. balance[a] \in Int
  BY BoundsAssumption DEF TypeOK, BigInt
<1> QED
  BY <1>2, <1>3, <1>4 DEF fn_account_balance

LEMMA NothingLeft ==
    ASSUME NEW m \in Int, NEW n, n = m
    PROVE  m - n = 0
OBVIOUS

LEMMA Driftless ==
    ASSUME TypeOK, KeyOwned, Funded
    PROVE  NoDrift
<1> SUFFICES ASSUME NEW a \in Accounts PROVE v_account_reconciliation(a).drift = 0
  BY DEF NoDrift, fn_ledger_invariant_ok
<1>1. balance[a] - fn_account_balance(a) = 0
  BY Balanced, NothingLeft
<1>2. v_account_reconciliation(a).drift = balance[a] - fn_account_balance(a)
  BY DEF v_account_reconciliation
<1> QED
  BY <1>1, <1>2

\* NFR-1 as fn_ledger_invariant_ok asks it: whatever interleaves, no account
\* drifts from the sum of its ledger.
THEOREM BooksBalance == Spec => []NoDrift
<1>1. IInv /\ HInv /\ Funded => NoDrift
  BY Driftless DEF IInv, HInv
<1> QED
  BY <1>1, Invariance, RowInvariance, MoneyInvariance, PTL

-----------------------------------------------------------------------------
(* A drained load.                                                          *)

RowsFacts ==
    /\ Rows \subseteq Events /\ IsFiniteSet(Rows)
    /\ \A e \in Rows : /\ status[e] = "succeeded" /\ content[e] # NULL
                       /\ ledger[e] # <<>> /\ Len(ledger[e]) = 1
    /\ \A e \in Events \ Rows : ledger[e] = <<>>

\* Counting alone shows that every stored event succeeded; then each has its one
\* ledger row, and nothing else has any.
LEMMA Graded ==
    ASSUME IInv, HInv, Gradable, EverySucceeded
    PROVE  RowsFacts
<1> DEFINE D == {e \in Events : status[e] \in {"succeeded"}}
<1>0. TypeOK /\ Stored /\ KeyOwned /\ NoEffectLost
  BY DEF IInv, HInv
<1>1. Rows \subseteq Events /\ IsFiniteSet(Rows)
  BY FiniteAssumption, FS_Subset DEF Rows
<1>2. D \in SUBSET Rows
  BY DEF Rows, Present
<1>3. Cardinality(Rows) = Cardinality(D)
  BY DEF EverySucceeded, v_queue_health
<1>4. Rows = D
  <2> HIDE DEF D
  <2> QED
    BY <1>1, <1>2, <1>3, FS_Subset
<1>5. \A e \in Rows : e \in Events /\ status[e] = "succeeded"
  BY <1>1, <1>4
<1>6. \A e \in Rows : content[e] # NULL /\ ledger[e] # <<>>
  BY <1>0, <1>5 DEF Stored, NoEffectLost, Gradable
<1>7. \A e \in Rows : Len(ledger[e]) = 1
  <2> TAKE e \in Rows
  <2>1. e \in Events /\ ledger[e] # <<>>
    BY <1>5, <1>6
  <2>2. Len(ledger[e]) <= 1
    BY <1>0, <2>1 DEF KeyOwned
  <2> QED
    BY <1>0, <2>1, <2>2, RecordedOne
<1>8. \A e \in Events \ Rows : ledger[e] = <<>>
  <2> TAKE e \in Events \ Rows
  <2>1. status[e] \in {"unused", "purged"}
    BY <1>0 DEF TypeOK, Rows, Present
  <2> QED
    BY <1>0, <2>1 DEF Stored, KeyOwned
<1> QED
  BY <1>1, <1>5, <1>6, <1>7, <1>8 DEF RowsFacts

\* One row per deduplication key.
LEMMA KeysDistinct ==
    ASSUME KeyOwned, RowsFacts
    PROVE  Cardinality({content[e].key : e \in Rows}) = Cardinality(Rows)
<1> DEFINE T == {content[e].key : e \in Rows}
           f == [e \in Rows |-> content[e].key]
<1>1. \A d, e \in Rows : content[d].key = content[e].key => d = e
  BY DEF KeyOwned, RowsFacts
<1>2. f \in [Rows -> T] /\ \A t \in T : \E e \in Rows : f[e] = t
  OBVIOUS
<1>3. f \in Injection(Rows, T) /\ f \in Surjection(Rows, T)
  BY <1>1, <1>2 DEF Injection, Surjection, IsInjective
<1> HIDE DEF T, f
<1>4. Cardinality(T) = Cardinality(Rows)
  BY <1>3, FS_Surjection DEF RowsFacts
<1> QED
  BY <1>4 DEF T

\* One ledger row per event.
LEMMA RowPerEvent ==
    ASSUME RowsFacts
    PROVE  MapThenSumSet(LedgerRows, Events) = Cardinality(Rows)
<1> DEFINE F == [e \in Events |-> IF e \in Rows THEN 1 ELSE 0]
<1>1. \A e \in Events : LedgerRows(e) = F[e]
  BY EmptySeq DEF LedgerRows, RowsFacts
<1>2. \A e \in Events : F[e] \in Int
  OBVIOUS
<1>3. (\A e \in Rows : F[e] = 1) /\ (\A e \in Events \ Rows : F[e] = 0)
  BY DEF RowsFacts
<1>4. Rows \subseteq Events /\ IsFiniteSet(Rows) /\ IsFiniteSet(Events)
  BY FiniteAssumption DEF RowsFacts
<1> HIDE DEF F
<1>5. PICK h : Sums(h, F, Events) /\ MapThenSumSet(LedgerRows, Events) = h[Events]
  BY <1>1, <1>4, LedgerRowsSum
<1>6. h[Events] = h[Rows]
  BY <1>2, <1>3, <1>4, <1>5, SumsRestrict
<1>7. PICK g : Sums(g, F, Rows)
  BY <1>4, SumsExist
<1>8. g[Rows] = Cardinality(Rows)
  BY <1>3, <1>4, <1>7, SumsCount
<1>9. g[Rows] = h[Rows]
  BY <1>4, <1>5, <1>7, SumsAgree
<1> QED
  BY <1>5, <1>6, <1>8, <1>9

\* The balance that arithmetic predicts.
LEMMA PredictedBalance ==
    ASSUME RowsFacts, Gradable, Funded, InFull, NEW a \in Accounts
    PROVE  balance[a] = MapThenSumSet(Worth, {e \in Rows : content[e].entity_id = a})
<1> DEFINE S == {e \in Rows : content[e].entity_id = a}
<1>1. S = AppliedTo(a)
  BY DEF RowsFacts, AppliedTo
<1>2. \A x \in S : Worth(x) = Amounts[x]
  BY DEF RowsFacts, Gradable, InFull, Amounts
<1>3. IsFiniteSet(S)
  BY <1>1, AppliedFinite
<1> HIDE DEF S
<1>4. PICK g : Sums(g, Amounts, S) /\ MapThenSumSet(Worth, S) = g[S]
  BY <1>2, <1>3, WorthSum
<1>5. balance[a] = g[S]
  BY <1>1, <1>4 DEF Funded
<1> QED
  BY <1>4, <1>5 DEF S

LEMMA LoadGraded == IInv /\ HInv /\ Funded /\ InFull => LoadIsExact
<1> SUFFICES ASSUME IInv, HInv, Funded, InFull, Gradable, EverySucceeded
             PROVE  EffectsMatchEvents
  BY DEF LoadIsExact
<1>0. TypeOK /\ KeyOwned /\ RowsFacts
  BY Graded DEF IInv, HInv
<1>1. Cardinality({content[e].key : e \in Rows}) = Cardinality(Rows)
  BY <1>0, KeysDistinct
<1>2. MapThenSumSet(LedgerRows, Events) = Cardinality(Rows)
  BY <1>0, RowPerEvent
<1>3. fn_ledger_invariant_ok
  BY <1>0, Driftless DEF NoDrift
<1>4. \A a \in Accounts :
          balance[a] = MapThenSumSet(Worth, {e \in Rows : content[e].entity_id = a})
  BY <1>0, PredictedBalance
<1> QED
  BY <1>1, <1>2, <1>3, <1>4 DEF EffectsMatchEvents

\* The claim behind `make load`: when the queue of a load of credits has drained
\* and nothing was dead-lettered, verify_load finds every effect once, whatever
\* faults, retries and crashed workers it went through.
THEOREM LoadExact == Spec => []LoadIsExact
BY LoadGraded, Invariance, RowInvariance, MoneyInvariance, PTL
==============================================================================
