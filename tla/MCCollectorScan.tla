----------------------------- MODULE MCCollectorScan -----------------------------
(* Small instances of CollectorScan. *)
EXTENDS CollectorScanInv, TLC

CONSTANTS k1, k2

(* Every match is of the last player by name. *)
SomeOwner == [m \in Matches |-> 2]

(* The last player may leave. *)
SomeRosters == {{1, 2}, {1}}

(* It starts with a key that the server accepts, the other is as good. *)
StartInit == CollectorInit /\ file = k1 /\ valid = Keys
StartSpec == StartInit /\ [][CollectorNext]_allVars /\ Fairness
===============================================================================
