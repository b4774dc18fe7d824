------------------------------- MODULE MCKeyWait -------------------------------
(* Small instances of KeyWait: three keys as model values. *)
EXTENDS KeyWait, TLC

CONSTANTS k1, k2, k3
===============================================================================
