------------------------------- MODULE Numbers -------------------------------
(***************************************************************************)
(* Numbers that the code writes as bits and bytes.                         *)
(***************************************************************************)
EXTENDS Integers

\* 1 << n
PowerOf2(n) ==
  LET power[k \in 0 .. n] == IF k = 0 THEN 1 ELSE 2 * power[k - 1] IN power[n]

\* The number that the first n digits stand for, the most significant first.
ValueOf(digits, base, n) ==
  LET value[k \in 0 .. n] == IF k = 0 THEN 0 ELSE value[k - 1] * base + digits[k - 1] IN value[n]
=============================================================================
