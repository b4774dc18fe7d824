-------------------------------- MODULE TrainRun --------------------------------
(***************************************************************************)
(* What a training run on a folder is, whatever the number of calls it     *)
(* takes: epochs one after the other up to its end, an account that never  *)
(* goes down, and an end without result that is final.                     *)
(***************************************************************************)
EXTENDS Naturals

CONSTANT Epochs

VARIABLES epochs, ended, over, charge

vars == <<epochs, ended, over, charge>>

Init == epochs = 0 /\ ended = FALSE /\ over = FALSE /\ charge = 0

Charge == charge' \in Nat /\ charge' >= charge

FinishEpoch ==
  /\ ~ended /\ ~over /\ epochs < Epochs
  /\ epochs' = epochs + 1
  /\ ended' \in BOOLEAN /\ (epochs' = Epochs => ended')
  /\ Charge
  /\ UNCHANGED over

(* A call begins or ends. *)
Account == Charge /\ UNCHANGED <<epochs, ended, over>>

GiveUp == Charge /\ over' = TRUE /\ UNCHANGED <<epochs, ended>>

Next == FinishEpoch \/ Account \/ GiveUp

Spec == Init /\ [][Next]_vars
===============================================================================
