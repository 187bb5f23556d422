---------------------------- MODULE AccountBook -----------------------------
(***************************************************************************)
(* What the processing core promises about money, with no queue, no        *)
(* processes, no locks and no failures: deliveries are stored, and each    *)
(* stored event is applied at most once, one event at a time, by a single  *)
(* indivisible step that reads the account and writes it.  "Firing several *)
(* events at one entity concurrently ends in the same state as running     *)
(* them one by one" (FR-9), "exactly one effect" (FR-6) and "a later state *)
(* can't be clobbered by an earlier event" (FR-10) are all behaviours of   *)
(* this specification.                                                     *)
(***************************************************************************)
EXTENDS Domain

CONSTANTS Events, Contents, Accounts

VARIABLES
    content,    \* what was stored under an event id, or NULL
    posted,     \* what applying the event added to its account, or NULL
    balance,
    version

bookVars == <<content, posted, balance, version>>

Init ==
    /\ content = [e \in Events |-> NULL]
    /\ posted = [e \in Events |-> NULL]
    /\ balance = [a \in Accounts |-> 0]
    /\ version = [a \in Accounts |-> 0]

Store(e, c) ==
    /\ content[e] = NULL
    /\ content' = [content EXCEPT ![e] = c]
    /\ UNCHANGED <<posted, balance, version>>

\* A credit or a debit moves the balance and may raise the version.
ApplyCredit(e, f, a) ==
    /\ ~f.absolute
    /\ posted' = [posted EXCEPT ![e] = f.minor]
    /\ balance' = [balance EXCEPT ![a] = @ + f.minor]
    /\ version' = [version EXCEPT ![a] = IF f.sequence > @ THEN f.sequence ELSE @]

\* A snapshot newer than everything applied so far replaces both.
ApplySnapshot(e, f, a) ==
    /\ f.absolute
    /\ f.sequence > version[a]
    /\ posted' = [posted EXCEPT ![e] = f.minor - balance[a]]
    /\ balance' = [balance EXCEPT ![a] = f.minor]
    /\ version' = [version EXCEPT ![a] = f.sequence]

Apply(e) ==
    LET f == dispatch(content[e])
    IN  /\ content[e] # NULL
        /\ Dispatches(content[e])
        /\ posted[e] = NULL
        /\ \/ ApplyCredit(e, f, f.account_ref)
           \/ ApplySnapshot(e, f, f.account_ref)
        /\ UNCHANGED content

Next ==
    \/ \E e \in Events, c \in Contents : Store(e, c)
    \/ \E e \in Events : Apply(e)

Spec == Init /\ [][Next]_bookVars
=============================================================================
