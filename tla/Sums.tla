-------------------------------- MODULE Sums --------------------------------
(***************************************************************************)
(* Sums of finite sequences of naturals, the one recursive idea the        *)
(* program needs: the share total of a configuration and the running       *)
(* total_sent of a distribution loop.  The running totals are a recursive  *)
(* function, so that facts about them can be proved for every length.      *)
(***************************************************************************)
EXTENDS Naturals, Sequences

\* RunningTotals(f)[i] is f[1] + ... + f[i]: the accumulator of a loop over
\* f after i iterations.
RunningTotals(f) ==
  LET acc[i \in 0..Len(f)] == IF i = 0 THEN 0 ELSE acc[i-1] + f[i]
  IN  acc

Total(f) == RunningTotals(f)[Len(f)]

=============================================================================
