------------------------ MODULE MCMultiRoutineRunner ------------------------
(***************************************************************************)
(* Up to five items on up to four goroutines: block sizes that divide the  *)
(* items and that do not, and a last goroutine whose block starts past the *)
(* last item (five items on four goroutines).                              *)
(***************************************************************************)
EXTENDS MultiRoutineRunner

MCItemsCounts == 0..5
MCItemsPerRoutine == 1..3
MCMaxRoutines == {1, 2, 4}
=============================================================================
