-------------------------------- MODULE Nothing --------------------------------
(***************************************************************************)
(* null and undefined, which the parts of the program take for the same:   *)
(* the value of what is absent, has not come yet, or was taken away.       *)
(***************************************************************************)
CONSTANT None
================================================================================
