----------------------------- MODULE MCRunLedger -----------------------------
(***************************************************************************)
(* Small instances of RunLedger for TLC.                                   *)
(***************************************************************************)
EXTENDS RunLedgerInv

CONSTANTS o1, s1, s2, s3, a, b, c1, c2, n1

SomeInputs == {{}, {a}, {a, b}}
SomeOutputs == {{a}, {b}}

OneInput == {{}, {a}}
OneOutput == {{a}}
===============================================================================
