------------------------------- MODULE StageLog -------------------------------
(***************************************************************************)
(* What the run ledger of c_ept/run/ledger.py promises to its callers: a   *)
(* log of certified stages.  A stage is certified once, with the digests   *)
(* of what it read and wrote; a certified record is never changed or       *)
(* removed; and what a stage read of an earlier stage's output is what     *)
(* that stage certified.                                                   *)
(***************************************************************************)
EXTENDS Naturals, Sequences

CONSTANTS Stages,     \* the stage names
          Files,      \* the paths a stage may read or write
          Contents    \* what a file may hold (its SHA-256 stands for it)

VARIABLE log          \* the certified records, in the order of certification

(* Path -> SHA-256, for some set of paths. *)
Digests == UNION {[X -> Contents] : X \in SUBSET Files}

Record == [stage : Stages, inputs : Digests, outputs : Digests]

(* The positions of l whose record lists p among its outputs. *)
ProducersOf(l, p) == {i \in DOMAIN l : p \in DOMAIN l[i].outputs}

(* Every input in digests that a record of l wrote has the digest of the   *)
(* last record that wrote it.                                              *)
AgreesWith(l, digests) ==
  \A p \in DOMAIN digests : \A i \in ProducersOf(l, p) :
     (\A j \in ProducersOf(l, p) : j <= i) => l[i].outputs[p] = digests[p]

Certify(r) ==
  /\ \A i \in DOMAIN log : log[i].stage # r.stage
  /\ AgreesWith(log, r.inputs)
  /\ log' = Append(log, r)

Init == log = <<>>
Next == \E r \in Record : Certify(r)
Spec == Init /\ [][Next]_log
===============================================================================
