---------------------------- MODULE MCMatchCollector ----------------------------
(* Small instances of MatchCollector: two processes, two contents of files. *)
EXTENDS MatchCollectorInv

CONSTANTS p1, p2, g1, g2
===============================================================================
