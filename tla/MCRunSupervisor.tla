----------------------------- MODULE MCRunSupervisor -----------------------------
(***************************************************************************)
(* Small instances of RunSupervisor for TLC: the second stage reads what   *)
(* the first one writes.                                                   *)
(***************************************************************************)
EXTENDS RunSupervisorInv, TLC

CONSTANTS k1, k2, k3, s1, s2, a, b, c1, c2

OneStage == <<s1>>
TwoStages == <<s1, s2>>
Reading == [s \in Stages |-> IF s = s1 THEN {} ELSE {a}]
Writing == [s \in Stages |-> IF s = s1 THEN {a} ELSE {b}]

(* The notes of a call: its E6 records (0 is the run's) and its stop. *)
CallNotes == Calls \X {"e6", "stop"} \X (0..Len(Plan))

(* The plan declares the inputs and outputs of begin and finish. *)
PlanInputs == {Reading[s] : s \in Stages}
PlanOutputs == {Writing[s] : s \in Stages}

CallSymmetry == Permutations(Calls)
===============================================================================
