------------------------------ MODULE PrefetchInv ------------------------------
(***************************************************************************)
(* The inductive invariant of Prefetch: who holds the wrapper, what a slot *)
(* stands for, and - as long as no batch was lost to an interrupt and the  *)
(* epoch is not cancelled - where every batch of the epoch is.             *)
(***************************************************************************)
EXTENDS Prefetch

(* The wrapper is held for the newest epoch, and only its producer lives.  *)
WrapperOK ==
  /\ busy <=> current # 0
  /\ current \in {0, opened}
  /\ con \in {"get", "empty", "done", "got", "join"} => current # 0
  /\ con \in {"get", "empty", "done", "got"} => ~finished[current]
  /\ \A e \in Epochs :
       /\ Alive(e) => current = e
       /\ current = e => at[e] # "none"
       /\ e > opened => at[e] = "none"

(* The values of the queue; a terminal item is the last one of the queue.  *)
Values(e) ==
  IF items[e] # <<>> /\ items[e][Len(items[e])].kind # "value"
    THEN Len(items[e]) - 1
    ELSE Len(items[e])

QueueOK(e) ==
  /\ \A i \in 1..(Len(items[e]) - 1) : items[e][i].kind = "value"
  /\ Values(e) < Len(items[e]) => at[e] \in {"queued", "ended"}

(* The attempt to make a batch that is not yet in the queue. *)
Attempt(e) == IF at[e] \in {"making", "put", "closing", "closed", "queued", "ended"} THEN 1 ELSE 0

(* No attempt follows one that failed. *)
AttemptsOK(e) == made[e] <= bad[e] + Attempt(e) /\ (at[e] = "put" => made[e] <= bad[e])

(* A batch in the making or made holds a slot until it is taken. *)
SlotsOK(e) ==
  /\ slots[e] + made[e] + (IF at[e] = "recheck" THEN 1 ELSE 0) <= Depth + Len(out[e])
  /\ Len(out[e]) + Got(e) + Values(e) + (IF at[e] \in {"making", "put"} THEN 1 ELSE 0) <= made[e]

(* Nothing of the epoch was lost and nobody has cancelled it. *)
Lossless(e) == ~cancel[e] /\ ~(con = "unwinding" /\ current = e)

InOrder(e) ==
  /\ made[e] = Len(out[e]) + Got(e) + Values(e) + Attempt(e)
  /\ \A i \in 1..Values(e) : items[e][i].batch = Len(out[e]) + Got(e) + i - 1
  /\ Got(e) = 1 => held = Len(out[e])
  /\ at[e] \in {"closing", "closed", "queued", "ended"} =>
       /\ terminal[e] # "none"
       /\ terminal[e] = "end" => made[e] = Batches + 1
       /\ terminal[e] = "error" => made[e] \in {bad[e] + 1, Batches + 1}
  /\ at[e] \in {"queued", "ended"} => items[e] # <<>> /\ items[e][Len(items[e])].kind = terminal[e]

EpochOK(e) ==
  /\ cancel[e] => finished[e] \/ con = "gone"
  /\ finished[e] => cancel[e]
  /\ result[e] = "open" <=> ~finished[e]
  /\ result[e] # "died"
  /\ terminal[e] # "none" => at[e] \in {"closing", "closed", "queued", "ended"}
  /\ at[e] = "none" => /\ ~cancel[e] /\ items[e] = <<>> /\ made[e] = 0 /\ out[e] = <<>>
  /\ QueueOK(e)
  /\ AttemptsOK(e)
  /\ SlotsOK(e)
  /\ Lossless(e) => InOrder(e)

(* The inductive invariant: the wrapper, and every epoch. *)
IInv ==
  /\ TypeOK
  /\ con = "done" => at[current] = "ended"
  /\ WrapperOK
  /\ \A e \in Epochs : EpochOK(e)
===============================================================================
