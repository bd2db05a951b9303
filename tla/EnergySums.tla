----------------------------- MODULE EnergySums -----------------------------
(***************************************************************************)
(* Sums of the per-slot energy dictionaries.  The code adds the values of  *)
(* a {time_slot: energy} dict over the slots that satisfy a condition on   *)
(* the time slot; slots are numbered 0, 1, 2, ... here, so such a sum is   *)
(* the difference of two partial sums.                                     *)
(*                                                                         *)
(* The partial sums are a recursive function and not a RECURSIVE operator, *)
(* so that EnergySumsProofs can prove what they compute.                   *)
(***************************************************************************)
EXTENDS Integers

(* PartialSums(f, n)[i] is f[0] + ... + f[i-1], for i in 0..n. *)
PartialSums(f, n) ==
    LET sum[i \in 0..n] == IF i = 0 THEN 0 ELSE sum[i-1] + f[i-1]
    IN  sum

(* The sum of f[lo], ..., f[hi-1]. *)
SumRange(f, lo, hi) == PartialSums(f, hi)[hi] - PartialSums(f, hi)[lo]

(* Pointwise sum and difference of two energy dictionaries. *)
Plus(f, g) == [s \in DOMAIN f |-> f[s] + g[s]]

(* The sum of all values of a function whose domain is finite, taken away  *)
(* one by one.                                                             *)
Element(T) == CHOOSE x \in T : TRUE
Total(g) ==
    LET sum[T \in SUBSET DOMAIN g] ==
            IF T = {} THEN 0 ELSE g[Element(T)] + sum[T \ {Element(T)}]
    IN  sum[DOMAIN g]
=============================================================================
