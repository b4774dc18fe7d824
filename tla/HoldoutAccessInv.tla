--------------------------- MODULE HoldoutAccessInv ---------------------------
(* The inductive invariant behind the safety properties of HoldoutAccess.  *)
EXTENDS HoldoutAccess

(* Who has opened TEST, or is about to write the entry. *)
Opens(r) == wrote[r] # None \/ pc[r] = "write"

(* Runs between lock and unlock hold the lock. *)
LockHeld == \A r \in Runs : pc[r] \in Locked => lock = r

(* A TEST run that has passed the gate works on the ledger that the S5     *)
(* lock names.                                                             *)
GateHolds == \A r \in Tests : pc[r] \in Active => ledger.making = 1

(* An opening leaves a marker that goes only with the ledger itself. *)
OpeningMarked == \A r \in Tests : Opens(r) => marker \/ ledger.making > 1

OneOpener == \A r, q \in Tests : Opens(r) /\ Opens(q) => r = q

(* What was read under the lock is what is there, unless entries were cut. *)
ReadIsCurrent ==
  \A r \in Runs : pc[r] \in {"mark", "write"} =>
    read[r].making = ledger.making /\ (cuts = 0 => read[r] = ledger)

(* A run has its entry before it makes a number, and the entry is the last *)
(* one of the ledger it wrote.                                             *)
EntryFirst ==
  /\ \A r \in Runs : pc[r] \in {"entered", "compute", "done"} \/ r \in numbers => wrote[r] # None
  /\ \A r \in Runs : wrote[r] # None =>
       Len(wrote[r].entries) > 0 /\ wrote[r].entries[Len(wrote[r].entries)] = r

EntriesKept ==
  \A r \in Runs : wrote[r] # None =>
    /\ wrote[r].making <= ledger.making
    /\ cuts = 0 => wrote[r].making < ledger.making \/ Holds(wrote[r], ledger)

(* The rehearsal that the gate has seen is still there. *)
RehearsalKept ==
  cuts = 0 => \A r \in Tests : pc[r] \in Active => \E d \in Runs : Rehearses(d, r)

(* The inductive invariant: with it every step keeps TestOpenedOnce,       *)
(* NumbersAreLogged and RehearsedFirst.                                    *)
IInv ==
  /\ TypeOK /\ LockHeld /\ GateHolds /\ OpeningMarked /\ OneOpener /\ ReadIsCurrent
  /\ EntryFirst /\ EntriesKept /\ RehearsalKept /\ RehearsedFirst
===============================================================================
