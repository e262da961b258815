-------------------------------- MODULE Totals --------------------------------
(***************************************************************************)
(* The total of a sequence of integers, taken by everything that learns.   *)
(***************************************************************************)
EXTENDS Integers, SequencesExt

(* sum                                                                     *)
Total(numbers) == FoldLeft(+, 0, numbers)
=============================================================================
