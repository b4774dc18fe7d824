------------------------------ MODULE MCTrainCalls ------------------------------
(* Small instances of TrainCalls. *)
EXTENDS TrainCallsInv, TLC
===============================================================================
