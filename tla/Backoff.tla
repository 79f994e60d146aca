------------------------------ MODULE Backoff ------------------------------
(***************************************************************************)
(* calculateExponentialBackoff of internal/processor/worker.go in the      *)
(* arithmetic of its integers: `1 << attempt' and the product with the     *)
(* base delay keep their low Width bits (64 in the program), a conversion  *)
(* from float truncates towards zero.  Rounding of the floats themselves   *)
(* is left out.                                                            *)
(***************************************************************************)
EXTENDS Integers

CONSTANTS
    Width,     \* bits of int and time.Duration
    MaxDelay   \* 30 s in the code

\* With a cap above an eighth of the integer's range an overflow can hit a
\* delay that has not reached it.
ASSUME WidthAssumption == Width \in Nat \ {0, 1, 2}
ASSUME MaxDelayAssumption == MaxDelay \in 1 .. 2^(Width - 3)

Wrap(x) == ((x + 2^(Width - 1)) % 2^Width) - 2^(Width - 1)

Truncated(n, d) == IF n >= 0 THEN n \div d ELSE 0 - ((0 - n) \div d)

\* 1 << attempt
Multiplier_HalfInt(attempt) ==
    IF attempt < Width \div 2 - 1 THEN 2^attempt ELSE 0 - 2^(Width \div 2 - 1)
Multiplier(attempt) == IF attempt < Width THEN Wrap(2^attempt) ELSE 0

\* A tenth of the delay, times 0.5 + 0.5 * (attempt % 10) / 10.
Jitter(delay, attempt) == Truncated(Truncated(delay, 10) * (10 + (attempt % 10)), 20)

ExponentialBackoff(attempt, base) ==
    LET delay    == Wrap(Multiplier(attempt) * base)
        jittered == Wrap(delay + Jitter(delay, attempt))
    IN  IF jittered > MaxDelay THEN MaxDelay ELSE jittered
=============================================================================
