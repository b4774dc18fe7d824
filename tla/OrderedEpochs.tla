----------------------------- MODULE OrderedEpochs -----------------------------
(***************************************************************************)
(* What the consumer of a batch source sees, with or without prefetch: the *)
(* batches of an epoch in the order of the source, then the end - or, at   *)
(* the batch that the source cannot make, its error - unless the consumer  *)
(* has closed the epoch before.                                            *)
(***************************************************************************)
EXTENDS Naturals, Sequences

CONSTANTS Epochs,   \* the epochs, 1..k in the order of the calls
          Batches   \* the number of batches of an epoch

VARIABLES bad,      \* the batch at which the source fails; Batches: at none
          out,      \* the batches the consumer has taken, by number
          result    \* how the epoch ended for the consumer

vars == <<bad, out, result>>

Init ==
  /\ bad \in [Epochs -> 0..Batches]
  /\ out = [e \in Epochs |-> <<>>]
  /\ result = [e \in Epochs |-> "open"]

Take(e) ==
  /\ result[e] = "open"
  /\ Len(out[e]) < bad[e]
  /\ out' = [out EXCEPT ![e] = Append(@, Len(@))]
  /\ UNCHANGED <<bad, result>>

Finishes(e, r) == result[e] = "open" /\ result' = [result EXCEPT ![e] = r] /\ UNCHANGED <<bad, out>>

(* The end comes after the last batch, an error at the batch that fails -  *)
(* or after the last one, from a source that cannot be closed.             *)
End(e) == Len(out[e]) = Batches /\ Finishes(e, "ended")
Error(e) == Len(out[e]) \in {bad[e], Batches} /\ Finishes(e, "failed")
Close(e) == Finishes(e, "closed")

Next == \E e \in Epochs : Take(e) \/ End(e) \/ Error(e) \/ Close(e)

Spec == Init /\ [][Next]_vars
===============================================================================
