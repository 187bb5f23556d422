------------------------------- MODULE Backoff -------------------------------
(***************************************************************************)
(* When to try again (domain/backoff.py): full jitter under an exponential *)
(* ceiling.  Seconds are whole units of time.                              *)
(***************************************************************************)
EXTENDS Integers

CONSTANTS
    base_seconds,   \* settings.backoff_base_seconds
    cap_seconds,    \* settings.backoff_cap_seconds
    MAX_EXPONENT    \* 32 in the code; 2^32 is out of TLC's range

\* What Settings insists on (_cap_bounds_base).
cap_bounds_base == base_seconds <= cap_seconds

ASSUME BackoffAssumption ==
    /\ base_seconds \in Nat \ {0} /\ cap_seconds \in Nat /\ MAX_EXPONENT \in Nat
    /\ cap_bounds_base

exponent(attempt) == IF attempt < MAX_EXPONENT THEN attempt ELSE MAX_EXPONENT

\* Variant: the cap forgotten.
next_delay_uncapped(attempt) == 0 .. base_seconds * 2^exponent(attempt)

\* The delays rng.uniform(0, min(cap, base * 2**exponent)) may return.
next_delay_seconds(attempt) ==
    {d \in 0 .. cap_seconds : d <= base_seconds * 2^exponent(attempt)}
==============================================================================
