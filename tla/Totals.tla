------------------------------- MODULE Totals -------------------------------
(***************************************************************************)
(* Python's sum(f[k] for k in keys): the keys are a sequence, as they are  *)
(* in the code, and the sum is taken from the left.                        *)
(***************************************************************************)
EXTENDS Integers, Sequences

\* The sums of the first n keys.
Partial(f, keys) ==
    LET sum[n \in 0 .. Len(keys)] ==
            IF n = 0 THEN 0 ELSE sum[n - 1] + f[keys[n]]
    IN  sum

Total(f, keys) == Partial(f, keys)[Len(keys)]
=============================================================================
