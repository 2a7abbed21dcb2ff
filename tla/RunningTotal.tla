---------------------------- MODULE RunningTotal ----------------------------
(***************************************************************************)
(* The running balance of a list of signed amounts, as the roster history  *)
(* page adds it up: element i is the sum of the first i amounts.           *)
(***************************************************************************)
EXTENDS Integers, Sequences

Running(amounts) ==
  LET balance[i \in 0..Len(amounts)] ==
        IF i = 0 THEN 0 ELSE balance[i - 1] + amounts[i]
  IN balance

Total(amounts) == Running(amounts)[Len(amounts)]

=============================================================================
