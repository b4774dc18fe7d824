---------------------------- MODULE MCHoldoutAccess ----------------------------
(* A small instance of HoldoutAccess: two TEST runs, a DEV run of their    *)
(* set-up and a DEV run of another set-up.                                 *)
EXTENDS HoldoutAccessInv

CONSTANTS d1, d2, t1, t2

Setups == [r \in Runs |-> IF r = d2 THEN "another" ELSE "the same"]
===============================================================================
