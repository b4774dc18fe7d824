----------------------------- MODULE PrefetchProofs -----------------------------
(***************************************************************************)
(* Proofs about Prefetch: (PRE-2), one producer, no false death, and       *)
(* (PRE-1) with (PRE-3) as a refinement of the plain epochs, for every     *)
(* number of epochs and batches and every depth.                           *)
(***************************************************************************)
EXTENDS PrefetchInv, TLAPS

QueueItem == [kind : Kinds, batch : 0..Batches]

USE PrefetchAssumption, EpochsAssumption

(* The types of what belongs to one epoch. *)
LEMMA EpochTypes ==
  ASSUME TypeOK, NEW e \in Epochs
  PROVE  /\ bad[e] \in 0..Batches /\ at[e] \in ProducerAt
         /\ made[e] \in Nat /\ made[e] <= Batches + 1
         /\ terminal[e] \in {"none", "end", "error"}
         /\ slots[e] \in Nat /\ slots[e] <= Depth
         /\ items[e] \in Seq(QueueItem) /\ Len(items[e]) \in Nat
         /\ cancel[e] \in BOOLEAN /\ finished[e] \in BOOLEAN /\ joined[e] \in BOOLEAN
         /\ out[e] \in Seq(0..Batches) /\ Len(out[e]) \in Nat
         /\ result[e] \in Results
         /\ Values(e) \in Nat /\ Values(e) <= Len(items[e]) /\ Len(items[e]) <= Values(e) + 1
         /\ Got(e) \in {0, 1} /\ Attempt(e) \in {0, 1}
<1>0. items \in [Epochs -> Seq(QueueItem)]
  BY DEF TypeOK, QueueItem
<1>1. items[e] \in Seq(QueueItem)
  BY <1>0
<1>2. Len(items[e]) \in Nat /\ (items[e] # <<>> => Len(items[e]) >= 1)
  BY <1>1
<1>3. Values(e) \in Nat /\ Values(e) <= Len(items[e]) /\ Len(items[e]) <= Values(e) + 1
  BY <1>2 DEF Values
<1>4. out[e] \in Seq(0..Batches) /\ Len(out[e]) \in Nat
  BY DEF TypeOK
<1>5. /\ bad[e] \in 0..Batches /\ at[e] \in ProducerAt
      /\ terminal[e] \in {"none", "end", "error"}
      /\ cancel[e] \in BOOLEAN /\ finished[e] \in BOOLEAN /\ joined[e] \in BOOLEAN
      /\ result[e] \in Results
  BY DEF TypeOK
<1>6. made[e] \in 0..(Batches + 1) /\ slots[e] \in 0..Depth
  BY DEF TypeOK
<1>7. Got(e) \in {0, 1} /\ Attempt(e) \in {0, 1}
  BY DEF Got, Attempt
<1> QED
  BY <1>1, <1>2, <1>3, <1>4, <1>5, <1>6, <1>7

(* An epoch that a step leaves alone stays as it was. *)
LEMMA Frame ==
  ASSUME NEW f \in Epochs, EpochOK(f),
         at'[f] = at[f], made'[f] = made[f], terminal'[f] = terminal[f],
         slots'[f] = slots[f], items'[f] = items[f], cancel'[f] = cancel[f],
         finished'[f] = finished[f], out'[f] = out[f], result'[f] = result[f],
         bad' = bad, Got(f)' = Got(f), Got(f) = 1 => held' = held,
         con = "gone" => con' = "gone",
         Lossless(f)' => Lossless(f)
  PROVE  EpochOK(f)'
<1>1. Values(f)' = Values(f) /\ Attempt(f)' = Attempt(f)
  BY DEF Values, Attempt
<1>2. QueueOK(f)'
  BY <1>1 DEF QueueOK, EpochOK
<1>3. SlotsOK(f)' /\ AttemptsOK(f)'
  BY <1>1 DEF SlotsOK, AttemptsOK, EpochOK
<1>4. Lossless(f)' => InOrder(f)'
  BY <1>1 DEF InOrder, EpochOK
<1> QED
  BY <1>2, <1>3, <1>4 DEF EpochOK

(* Only the epoch e has moved. *)
Others(e) ==
  \A f \in Epochs \ {e} :
    /\ at'[f] = at[f] /\ made'[f] = made[f] /\ terminal'[f] = terminal[f]
    /\ slots'[f] = slots[f] /\ items'[f] = items[f] /\ cancel'[f] = cancel[f]
    /\ finished'[f] = finished[f] /\ out'[f] = out[f] /\ result'[f] = result[f]

(* A step of the producer of e keeps the invariant if it keeps that of e.  *)
LEMMA ProducerStep ==
  ASSUME IInv, NEW e \in Epochs, Alive(e), ProducerOnly, TypeOK', Others(e),
         at'[e] # "none", EpochOK(e)'
  PROVE  IInv'
<1>1. ASSUME NEW f \in Epochs PROVE EpochOK(f)'
  <2>1. CASE f = e
    BY <2>1
  <2>2. CASE f # e
    <3>1. EpochOK(f)
      BY DEF IInv
    <3>2. Got(f)' = Got(f) /\ (Lossless(f)' => Lossless(f))
      BY <2>2 DEF ProducerOnly, wrapper, Others, Got, Lossless
    <3> QED
      BY <2>2, <3>1, <3>2, Frame DEF Others, ProducerOnly
  <2> QED
    BY <2>1, <2>2
<1>2. WrapperOK'
  <2>1. ASSUME NEW f \in Epochs
        PROVE  /\ Alive(f)' => current' = f
               /\ current' = f => at'[f] # "none"
               /\ f > opened' => at'[f] = "none"
    <3>1. CASE f = e
      BY <3>1 DEF IInv, WrapperOK, Alive, ProducerOnly, wrapper
    <3>2. CASE f # e
      BY <3>2 DEF IInv, WrapperOK, Alive, ProducerOnly, wrapper, Others
    <3> QED
      BY <3>1, <3>2
  <2>2. UNCHANGED <<busy, current, opened, con, finished>>
    BY DEF ProducerOnly, wrapper, iterator
  <2> QED
    BY <2>1, <2>2 DEF IInv, WrapperOK
<1>3. (con = "done" => at[current] = "ended")'
  <2>1. con = "done" => current # e /\ current \in Epochs
    BY DEF IInv, Alive, WrapperOK, TypeOK
  <2> QED
    BY <2>1 DEF IInv, ProducerOnly, wrapper, Others
<1> QED
  BY <1>1, <1>2, <1>3 DEF IInv

(* The loop test keeps the invariant. *)
LEMMA LoopInvariant ==
  ASSUME IInv, NEW e \in Epochs, Loop(e)
  PROVE  IInv'
<1>0. TypeOK /\ EpochOK(e)
  BY DEF IInv
<1>1. TypeOK'
  BY <1>0 DEF TypeOK, Loop, Goes, ProducerAt, ProducerOnly, wrapper, iterator, shared
<1>2. at'[e] = (IF cancel[e] THEN "closing" ELSE "acquire") /\ at[e] = "loop"
  BY <1>0 DEF TypeOK, Loop, Goes
<1>3. /\ UNCHANGED <<made, terminal, slots, items, cancel, finished, con, current, out, result, bad, held>>
  BY DEF Loop, ProducerOnly, shared, iterator, wrapper
<1>4. Values(e)' = Values(e) /\ Got(e)' = Got(e) /\ Lossless(e)' = Lossless(e)
  BY <1>3 DEF Values, Got, Lossless
<1>5. EpochOK(e)'
  <2>1. QueueOK(e)'
    BY <1>0, <1>2, <1>3, <1>4 DEF EpochOK, QueueOK
  <2>2. SlotsOK(e)' /\ AttemptsOK(e)'
    BY <1>0, <1>2, <1>3, <1>4, EpochTypes DEF EpochOK, SlotsOK, AttemptsOK, Attempt
  <2>3. Lossless(e)' => InOrder(e)'
    BY <1>0, <1>2, <1>3, <1>4 DEF EpochOK, InOrder, Lossless, Attempt
  <2> QED
    BY <1>0, <1>2, <1>3, <2>1, <2>2, <2>3 DEF EpochOK
<1>6. Others(e)
  BY <1>0, <1>3 DEF Others, Loop, Goes, TypeOK
<1> QED
  BY <1>0, <1>1, <1>2, <1>5, <1>6, ProducerStep DEF Loop, Alive

(* The timed acquire keeps the invariant: the slot is now the producer's.  *)
LEMMA AcquireInvariant ==
  ASSUME IInv, NEW e \in Epochs, Acquire(e)
  PROVE  IInv'
<1>0. TypeOK /\ EpochOK(e) /\ slots[e] \in Nat /\ made[e] \in Nat /\ Len(out[e]) \in Nat
  BY EpochTypes DEF IInv
<1>1. TypeOK'
  <2>1. slots' \in [Epochs -> 0..Depth]
    <3>1. slots \in [Epochs -> 0..Depth]
      BY <1>0 DEF TypeOK
    <3>2. slots[e] > 0 => slots[e] - 1 \in 0..Depth
      BY <3>1
    <3> QED
      BY <3>1, <3>2 DEF Acquire
  <2> QED
    BY <1>0, <2>1 DEF TypeOK, Acquire, Goes, ProducerAt, ProducerOnly, wrapper, iterator
<1>2. /\ at[e] = "acquire"
      /\ \/ slots[e] > 0 /\ slots'[e] = slots[e] - 1 /\ at'[e] = "recheck"
         \/ slots'[e] = slots[e] /\ at'[e] = "loop"
  BY <1>0 DEF TypeOK, Acquire, Goes
<1>3. UNCHANGED <<made, terminal, items, cancel, finished, con, current, out, result, bad, held>>
  BY DEF Acquire, ProducerOnly, iterator, wrapper
<1>4. Values(e)' = Values(e) /\ Got(e)' = Got(e) /\ Lossless(e)' = Lossless(e) /\ Attempt(e)' = Attempt(e)
  BY <1>2, <1>3 DEF Values, Got, Lossless, Attempt
<1>5. EpochOK(e)'
  <2>1. QueueOK(e)'
    BY <1>0, <1>2, <1>3, <1>4 DEF EpochOK, QueueOK
  <2>2. SlotsOK(e)' /\ AttemptsOK(e)'
    BY <1>0, <1>2, <1>3, <1>4, EpochTypes DEF EpochOK, SlotsOK, AttemptsOK
  <2>3. Lossless(e)' => InOrder(e)'
    BY <1>0, <1>2, <1>3, <1>4 DEF EpochOK, InOrder
  <2> QED
    BY <1>0, <1>2, <1>3, <2>1, <2>2, <2>3 DEF EpochOK
<1>6. Others(e)
  BY <1>0, <1>3 DEF Others, Acquire, Goes, TypeOK
<1> QED
  BY <1>0, <1>1, <1>2, <1>5, <1>6, ProducerStep DEF Acquire, Alive

(* The second look at cancel keeps it: the slot becomes an attempt. *)
LEMMA RecheckInvariant ==
  ASSUME IInv, NEW e \in Epochs, Recheck(e)
  PROVE  IInv'
<1>0. /\ TypeOK /\ EpochOK(e) /\ slots[e] \in Nat /\ made[e] \in Nat /\ Len(out[e]) \in Nat
      /\ bad[e] \in 0..Batches /\ Values(e) \in Nat /\ Got(e) \in {0, 1}
  BY EpochTypes DEF IInv
<1>2. /\ at[e] = "recheck"
      /\ \/ cancel[e] /\ made'[e] = made[e] /\ at'[e] = "closing"
         \/ ~cancel[e] /\ made'[e] = made[e] + 1 /\ at'[e] = "making"
  BY <1>0 DEF TypeOK, Recheck, Goes
<1>3. UNCHANGED <<terminal, slots, items, cancel, finished, con, current, out, result, bad, held>>
  BY DEF Recheck, ProducerOnly, shared, iterator, wrapper
<1>4. Values(e)' = Values(e) /\ Got(e)' = Got(e) /\ Lossless(e)' = Lossless(e)
  BY <1>2, <1>3 DEF Values, Got, Lossless
<1>5. made[e] <= bad[e] /\ made[e] + 1 \in 0..(Batches + 1)
  BY <1>0, <1>2 DEF EpochOK, AttemptsOK, Attempt
<1>1. TypeOK'
  BY <1>0, <1>5 DEF TypeOK, Recheck, Goes, ProducerAt, ProducerOnly, wrapper, iterator, shared
<1>6. EpochOK(e)'
  <2>1. QueueOK(e)'
    BY <1>0, <1>2, <1>3, <1>4 DEF EpochOK, QueueOK
  <2>a. Attempt(e) = 0 /\ Attempt(e)' = 1
    BY <1>2 DEF Attempt
  <2>b. AttemptsOK(e)'
    BY <1>0, <1>2, <1>3, <2>a DEF EpochOK, AttemptsOK
  <2>c. slots[e] + made'[e] + (IF at'[e] = "recheck" THEN 1 ELSE 0) <= Depth + Len(out[e])
    BY <1>0, <1>2, <1>5 DEF EpochOK, SlotsOK
  <2>d. Len(out[e]) + Got(e) + Values(e) + (IF at'[e] \in {"making", "put"} THEN 1 ELSE 0) <= made'[e]
    BY <1>0, <1>2, <1>5 DEF EpochOK, SlotsOK
  <2>2. SlotsOK(e)' /\ AttemptsOK(e)'
    BY <1>3, <1>4, <2>b, <2>c, <2>d DEF SlotsOK
  <2>3. Lossless(e)' => InOrder(e)'
    BY <1>0, <1>2, <1>3, <1>4 DEF EpochOK, InOrder, Lossless, Attempt
  <2> QED
    BY <1>0, <1>2, <1>3, <2>1, <2>2, <2>3 DEF EpochOK
<1>7. Others(e)
  BY <1>0, <1>3 DEF Others, Recheck, Goes, TypeOK
<1> QED
  BY <1>0, <1>1, <1>2, <1>6, <1>7, ProducerStep DEF Recheck, Alive

(* An attempt of the source keeps it: a batch, the end or an error. *)
LEMMA MakeInvariant ==
  ASSUME IInv, NEW e \in Epochs, Make(e)
  PROVE  IInv'
<1>0. /\ TypeOK /\ EpochOK(e) /\ slots[e] \in Nat /\ made[e] \in Nat /\ Len(out[e]) \in Nat
      /\ bad[e] \in 0..Batches /\ Values(e) \in Nat /\ Got(e) \in {0, 1}
  BY EpochTypes DEF IInv
<1>1. TypeOK'
  BY <1>0 DEF TypeOK, Make, Goes, ProducerAt, ProducerOnly, wrapper, iterator, shared
<1>2. /\ at[e] = "making"
      /\ \/ made[e] - 1 < bad[e] /\ at'[e] = "put" /\ terminal'[e] = terminal[e]
         \/ made[e] - 1 = bad[e] /\ at'[e] = "closing" /\ terminal'[e] = "error"
         \/ made[e] - 1 = Batches /\ at'[e] = "closing" /\ terminal'[e] = "end"
  BY <1>0 DEF TypeOK, Make, Goes
<1>3. UNCHANGED <<made, slots, items, cancel, finished, con, current, out, result, bad, held>>
  BY DEF Make, ProducerOnly, shared, iterator, wrapper
<1>4. Values(e)' = Values(e) /\ Got(e)' = Got(e) /\ Lossless(e)' = Lossless(e) /\ Attempt(e)' = Attempt(e)
  BY <1>2, <1>3 DEF Values, Got, Lossless, Attempt
<1>6. EpochOK(e)'
  <2>1. QueueOK(e)'
    BY <1>0, <1>2, <1>3, <1>4 DEF EpochOK, QueueOK
  <2>b. AttemptsOK(e)'
    BY <1>0, <1>2, <1>3, <1>4 DEF EpochOK, AttemptsOK, Attempt
  <2>c. Len(out[e]) + Got(e) + Values(e) + (IF at'[e] \in {"making", "put"} THEN 1 ELSE 0) <= made[e]
    BY <1>0, <1>2 DEF EpochOK, SlotsOK
  <2>2. SlotsOK(e)' /\ AttemptsOK(e)'
    BY <1>0, <1>2, <1>3, <1>4, <2>b, <2>c DEF EpochOK, SlotsOK
  <2>d. at'[e] \in {"closing", "closed", "queued", "ended"} =>
          /\ terminal'[e] # "none"
          /\ terminal'[e] = "end" => made[e] = Batches + 1
          /\ terminal'[e] = "error" => made[e] \in {bad[e] + 1, Batches + 1}
    BY <1>0, <1>2
  <2>e. at'[e] \notin {"queued", "ended"}
    BY <1>2
  <2>3. Lossless(e)' => InOrder(e)'
    BY <1>0, <1>3, <1>4, <2>d, <2>e DEF EpochOK, InOrder
  <2>4. terminal'[e] # "none" => at'[e] \in {"closing", "closed", "queued", "ended"}
    BY <1>0, <1>2 DEF EpochOK
  <2> QED
    BY <1>0, <1>2, <1>3, <2>1, <2>2, <2>3, <2>4 DEF EpochOK
<1>7. Others(e)
  BY <1>0, <1>3 DEF Others, Make, Goes, TypeOK
<1> QED
  BY <1>0, <1>1, <1>2, <1>6, <1>7, ProducerStep DEF Make, Alive

(* Closing the source keeps it: an end can still become an error. *)
LEMMA CloseSourceInvariant ==
  ASSUME IInv, NEW e \in Epochs, CloseSource(e)
  PROVE  IInv'
<1>0. /\ TypeOK /\ EpochOK(e) /\ slots[e] \in Nat /\ made[e] \in Nat /\ Len(out[e]) \in Nat
      /\ bad[e] \in 0..Batches /\ Values(e) \in Nat /\ Got(e) \in {0, 1}
      /\ terminal[e] \in {"none", "end", "error"}
  BY EpochTypes DEF IInv
<1>1. TypeOK'
  BY <1>0 DEF TypeOK, CloseSource, Goes, ProducerAt, ProducerOnly, wrapper, iterator, shared
<1>2. /\ at[e] = "closing" /\ at'[e] = "closed"
      /\ terminal'[e] \in {terminal[e], "error"}
  BY <1>0 DEF TypeOK, CloseSource, Goes
<1>3. UNCHANGED <<made, slots, items, cancel, finished, con, current, out, result, bad, held>>
  BY DEF CloseSource, ProducerOnly, shared, iterator, wrapper
<1>4. Values(e)' = Values(e) /\ Got(e)' = Got(e) /\ Lossless(e)' = Lossless(e) /\ Attempt(e)' = Attempt(e)
  BY <1>2, <1>3 DEF Values, Got, Lossless, Attempt
<1>6. EpochOK(e)'
  <2>1. QueueOK(e)'
    BY <1>0, <1>2, <1>3, <1>4 DEF EpochOK, QueueOK
  <2>2. SlotsOK(e)' /\ AttemptsOK(e)'
    BY <1>0, <1>2, <1>3, <1>4 DEF EpochOK, SlotsOK, AttemptsOK, Attempt
  <2>3. Lossless(e)' => InOrder(e)'
    BY <1>0, <1>2, <1>3, <1>4 DEF EpochOK, InOrder, Attempt
  <2> QED
    BY <1>0, <1>2, <1>3, <2>1, <2>2, <2>3 DEF EpochOK
<1>7. Others(e)
  BY <1>0, <1>3 DEF Others, CloseSource, Goes, TypeOK
<1> QED
  BY <1>0, <1>1, <1>2, <1>6, <1>7, ProducerStep DEF CloseSource, Alive

(* Done is set: the producer has ended. *)
LEMMA SetDoneInvariant ==
  ASSUME IInv, NEW e \in Epochs, SetDone(e)
  PROVE  IInv'
<1>0. /\ TypeOK /\ EpochOK(e) /\ slots[e] \in Nat /\ made[e] \in Nat /\ Len(out[e]) \in Nat
      /\ bad[e] \in 0..Batches /\ Values(e) \in Nat /\ Got(e) \in {0, 1}
  BY EpochTypes DEF IInv
<1>1. TypeOK'
  BY <1>0 DEF TypeOK, SetDone, Goes, ProducerAt, ProducerOnly, wrapper, iterator, shared
<1>2. at[e] = "queued" /\ at'[e] = "ended"
  BY <1>0 DEF TypeOK, SetDone, Goes
<1>3. UNCHANGED <<made, terminal, slots, items, cancel, finished, con, current, out, result, bad, held>>
  BY DEF SetDone, ProducerOnly, shared, iterator, wrapper
<1>4. Values(e)' = Values(e) /\ Got(e)' = Got(e) /\ Lossless(e)' = Lossless(e) /\ Attempt(e)' = Attempt(e)
  BY <1>2, <1>3 DEF Values, Got, Lossless, Attempt
<1>6. EpochOK(e)'
  <2>1. QueueOK(e)'
    BY <1>0, <1>2, <1>3, <1>4 DEF EpochOK, QueueOK
  <2>2. SlotsOK(e)' /\ AttemptsOK(e)'
    BY <1>0, <1>2, <1>3, <1>4 DEF EpochOK, SlotsOK, AttemptsOK
  <2>3. Lossless(e)' => InOrder(e)'
    BY <1>0, <1>2, <1>3, <1>4 DEF EpochOK, InOrder
  <2> QED
    BY <1>0, <1>2, <1>3, <2>1, <2>2, <2>3 DEF EpochOK
<1>7. Others(e)
  BY <1>0, <1>3 DEF Others, SetDone, Goes, TypeOK
<1> QED
  BY <1>0, <1>1, <1>2, <1>6, <1>7, ProducerStep DEF SetDone, Alive

(* What an append does to a queue. *)
LEMMA AppendFacts ==
  ASSUME NEW S, NEW q \in Seq(S), NEW x \in S
  PROVE  /\ Append(q, x) \in Seq(S) /\ Append(q, x) # <<>>
         /\ Len(Append(q, x)) = Len(q) + 1
         /\ Append(q, x)[Len(q) + 1] = x
         /\ \A i \in 1..Len(q) : Append(q, x)[i] = q[i]
  OBVIOUS

(* What taking the head does to a queue. *)
LEMMA TailFacts ==
  ASSUME NEW S, NEW q \in Seq(S), q # <<>>
  PROVE  /\ Head(q) = q[1] /\ Head(q) \in S /\ Len(q) \in Nat /\ Len(q) >= 1
         /\ Tail(q) \in Seq(S) /\ Len(Tail(q)) = Len(q) - 1
         /\ \A i \in 1..(Len(q) - 1) : Tail(q)[i] = q[i + 1]
  OBVIOUS

(* The put keeps it: the batch made last is now the last of the queue. *)
LEMMA PutInvariant ==
  ASSUME IInv, NEW e \in Epochs, Put(e)
  PROVE  IInv'
<1>0. /\ TypeOK /\ EpochOK(e) /\ slots[e] \in Nat /\ made[e] \in Nat /\ Len(out[e]) \in Nat
      /\ bad[e] \in 0..Batches /\ Values(e) \in Nat /\ Got(e) \in {0, 1}
      /\ items[e] \in Seq(QueueItem) /\ Len(items[e]) \in Nat
  BY EpochTypes DEF IInv
<1> DEFINE x == Item("value", made[e] - 1)
<1>2. at[e] = "put" /\ at'[e] = "loop" /\ items'[e] = Append(items[e], x)
  BY <1>0 DEF TypeOK, Put, Goes
<1>3. UNCHANGED <<made, terminal, slots, cancel, finished, con, current, out, result, bad, held>>
  BY DEF Put, ProducerOnly, iterator, wrapper
<1>4. Values(e) = Len(items[e]) /\ made[e] >= 1 /\ made[e] <= bad[e]
  BY <1>0, <1>2, EpochTypes DEF EpochOK, QueueOK, SlotsOK, AttemptsOK, IInv
<1>5. x \in QueueItem /\ x.kind = "value" /\ x.batch = made[e] - 1
  BY <1>0, <1>4 DEF QueueItem, Item, Kinds
<1> HIDE DEF x
<1>6. /\ items'[e] \in Seq(QueueItem) /\ items'[e] # <<>>
      /\ Len(items'[e]) = Len(items[e]) + 1
      /\ items'[e][Len(items[e]) + 1] = x
      /\ \A i \in 1..Len(items[e]) : items'[e][i] = items[e][i]
  BY <1>0, <1>2, <1>5, AppendFacts
<1>1. TypeOK'
  <2>1. items' \in [Epochs -> Seq(QueueItem)]
    <3>1. items \in [Epochs -> Seq(QueueItem)]
      BY <1>0 DEF TypeOK, QueueItem
    <3>2. items' = [items EXCEPT ![e] = items'[e]]
      BY <3>1 DEF Put
    <3> QED
      BY <1>6, <3>1, <3>2
  <2>2. items' \in [Epochs -> Seq([kind : Kinds, batch : 0..Batches])]
    BY <2>1 DEF QueueItem
  <2> QED
    BY <1>0, <2>2 DEF TypeOK, Put, Goes, ProducerAt, ProducerOnly, wrapper, iterator
<1>7. Values(e)' = Values(e) + 1 /\ Got(e)' = Got(e) /\ Lossless(e)' = Lossless(e)
  BY <1>0, <1>3, <1>4, <1>5, <1>6 DEF Values, Got, Lossless
<1>8. Attempt(e) = 1 /\ Attempt(e)' = 0
  BY <1>2 DEF Attempt
<1>9. EpochOK(e)'
  <2>0. \A i \in 1..Len(items[e]) : items[e][i].kind = "value"
    BY <1>0, <1>4 DEF Values, EpochOK, QueueOK
  <2>1. QueueOK(e)'
    BY <1>0, <1>4, <1>6, <1>7, <2>0 DEF QueueOK
  <2>2. AttemptsOK(e)'
    BY <1>2, <1>3, <1>4, <1>8, <1>0 DEF AttemptsOK
  <2>3. SlotsOK(e)'
    BY <1>0, <1>2, <1>3, <1>7 DEF EpochOK, SlotsOK
  <2>4. Lossless(e)' => InOrder(e)'
    <3> SUFFICES ASSUME Lossless(e)' PROVE InOrder(e)'
      OBVIOUS
    <3>1. InOrder(e)
      BY <1>0, <1>7 DEF EpochOK
    <3>2. made[e] = Len(out[e]) + Got(e) + Values(e) + 1
      BY <3>1, <1>8 DEF InOrder
    <3>3. ASSUME NEW i \in 1..(Values(e) + 1)
          PROVE  items'[e][i].batch = Len(out[e]) + Got(e) + i - 1
      <4>1. CASE i = Len(items[e]) + 1
        BY <4>1, <1>0, <1>4, <1>5, <1>6, <3>2
      <4>2. CASE i \in 1..Len(items[e])
        <5>1. items[e][i].batch = Len(out[e]) + Got(e) + i - 1
          BY <4>2, <1>4, <3>1 DEF InOrder
        <5>2. items'[e][i] = items[e][i]
          BY <4>2, <1>6
        <5> QED
          BY <5>1, <5>2
      <4>3. i = Len(items[e]) + 1 \/ i \in 1..Len(items[e])
        BY <1>0, <1>4
      <4> QED
        BY <4>1, <4>2, <4>3
    <3>4. \A i \in 1..Values(e)' : items'[e][i].batch = Len(out'[e]) + Got(e)' + i - 1
      BY <1>3, <1>7, <3>3
    <3>5. made'[e] = Len(out'[e]) + Got(e)' + Values(e)' + Attempt(e)'
      <4>1. made'[e] = made[e] /\ out'[e] = out[e] /\ Values(e)' = Values(e) + 1 /\ Got(e)' = Got(e)
        BY <1>3, <1>7
      <4>2. Values(e) \in Nat /\ Got(e) \in {0, 1} /\ Len(out[e]) \in Nat
        BY <1>0
      <4> QED
        BY <4>1, <4>2, <1>8, <3>2
    <3>6. Got(e)' = 1 => held' = Len(out'[e])
      BY <1>3, <1>7, <3>1 DEF InOrder
    <3> QED
      BY <1>2, <3>4, <3>5, <3>6 DEF InOrder
  <2> QED
    BY <1>0, <1>2, <1>3, <2>1, <2>2, <2>3, <2>4 DEF EpochOK
<1>a. Others(e)
  BY <1>0, <1>3 DEF Others, Put, Goes, TypeOK
<1> QED
  BY <1>0, <1>1, <1>2, <1>9, <1>a, ProducerStep DEF Put, Alive

(* The terminal item keeps it: it is the last of the queue. *)
LEMMA PutTerminalInvariant ==
  ASSUME IInv, NEW e \in Epochs, PutTerminal(e)
  PROVE  IInv'
<1>0. /\ TypeOK /\ EpochOK(e) /\ slots[e] \in Nat /\ made[e] \in Nat /\ Len(out[e]) \in Nat
      /\ bad[e] \in 0..Batches /\ Values(e) \in Nat /\ Got(e) \in {0, 1}
      /\ items[e] \in Seq(QueueItem) /\ Len(items[e]) \in Nat
      /\ terminal[e] \in {"none", "end", "error"} /\ cancel[e] \in BOOLEAN
  BY EpochTypes DEF IInv
<1> DEFINE x == Item(terminal[e], 0)
<1>2. /\ at[e] = "closed" /\ at'[e] = "queued"
      /\ \/ terminal[e] # "none" /\ ~cancel[e] /\ items' = [items EXCEPT ![e] = Append(@, x)]
         \/ (terminal[e] = "none" \/ cancel[e]) /\ items' = items
  BY <1>0 DEF TypeOK, PutTerminal, Goes
<1>3. UNCHANGED <<made, terminal, slots, cancel, finished, con, current, out, result, bad, held>>
  BY DEF PutTerminal, ProducerOnly, iterator, wrapper
<1>4. Values(e) = Len(items[e])
  BY <1>0, <1>2, EpochTypes DEF EpochOK, QueueOK, IInv
<1>5. terminal[e] # "none" => x \in QueueItem /\ x.kind = terminal[e] /\ x.kind # "value"
  BY <1>0 DEF QueueItem, Item, Kinds
<1> HIDE DEF x
<1>6. items \in [Epochs -> Seq(QueueItem)]
  BY <1>0 DEF TypeOK, QueueItem
<1>9. /\ items' \in [Epochs -> Seq(QueueItem)] /\ Values(e)' = Values(e) /\ QueueOK(e)'
      /\ InOrder(e) => \A i \in 1..Values(e) : items'[e][i].batch = Len(out[e]) + Got(e) + i - 1
      /\ ~cancel[e] /\ terminal[e] # "none" =>
           items'[e] # <<>> /\ items'[e][Len(items'[e])].kind = terminal[e]
  <2>1. CASE terminal[e] # "none" /\ ~cancel[e] /\ items' = [items EXCEPT ![e] = Append(@, x)]
    <3>1. items'[e] = Append(items[e], x)
      BY <1>6, <2>1
    <3>2. /\ items'[e] \in Seq(QueueItem) /\ items'[e] # <<>>
          /\ Len(items'[e]) = Len(items[e]) + 1
          /\ items'[e][Len(items[e]) + 1] = x
          /\ \A i \in 1..Len(items[e]) : items'[e][i] = items[e][i]
      BY <1>0, <1>5, <2>1, <3>1, AppendFacts
    <3>3. items' \in [Epochs -> Seq(QueueItem)]
      BY <1>6, <2>1, <3>1, <3>2
    <3>4. Values(e)' = Values(e)
      BY <1>0, <1>4, <1>5, <2>1, <3>2 DEF Values
    <3>5. \A i \in 1..Len(items[e]) : items[e][i].kind = "value"
      BY <1>0, <1>4 DEF Values, EpochOK, QueueOK
    <3>6. QueueOK(e)'
      <4>1. \A i \in 1..(Len(items'[e]) - 1) : items'[e][i].kind = "value"
        <5>1. Len(items'[e]) - 1 = Len(items[e])
          BY <1>0, <3>2
        <5> QED
          BY <3>2, <3>5, <5>1
      <4> QED
        BY <1>2, <4>1 DEF QueueOK
    <3>7. InOrder(e) => \A i \in 1..Values(e) : items'[e][i].batch = Len(out[e]) + Got(e) + i - 1
      BY <1>4, <3>2 DEF InOrder
    <3>8. items'[e] # <<>> /\ items'[e][Len(items'[e])].kind = terminal[e]
      BY <1>0, <1>5, <2>1, <3>2
    <3> QED
      BY <3>3, <3>4, <3>6, <3>7, <3>8
  <2>2. CASE (terminal[e] = "none" \/ cancel[e]) /\ items' = items
    <3>1. Values(e)' = Values(e)
      BY <2>2 DEF Values
    <3>2. QueueOK(e)'
      BY <1>0, <1>2, <2>2, <3>1 DEF EpochOK, QueueOK
    <3>3. InOrder(e) => \A i \in 1..Values(e) : items'[e][i].batch = Len(out[e]) + Got(e) + i - 1
      BY <2>2 DEF InOrder
    <3> QED
      BY <1>6, <2>2, <3>1, <3>2, <3>3
  <2> QED
    BY <1>2, <2>1, <2>2
<1>1. TypeOK'
  <2>1. items' \in [Epochs -> Seq([kind : Kinds, batch : 0..Batches])]
    BY <1>9 DEF QueueItem
  <2> QED
    BY <1>0, <2>1 DEF TypeOK, PutTerminal, Goes, ProducerAt, ProducerOnly, wrapper, iterator
<1>a. Got(e)' = Got(e) /\ Lossless(e)' = Lossless(e) /\ Attempt(e)' = Attempt(e)
  BY <1>2, <1>3 DEF Got, Lossless, Attempt
<1>b. EpochOK(e)'
  <2>1. SlotsOK(e)' /\ AttemptsOK(e)'
    BY <1>0, <1>2, <1>3, <1>9, <1>a DEF EpochOK, SlotsOK, AttemptsOK
  <2>2. Lossless(e)' => InOrder(e)'
    <3> SUFFICES ASSUME Lossless(e) PROVE InOrder(e)'
      BY <1>a
    <3>1. InOrder(e) /\ ~cancel[e]
      BY <1>0 DEF EpochOK, Lossless
    <3>2. /\ terminal[e] # "none"
          /\ terminal[e] = "end" => made[e] = Batches + 1
          /\ terminal[e] = "error" => made[e] \in {bad[e] + 1, Batches + 1}
      BY <1>2, <3>1 DEF InOrder
    <3>3. /\ made[e] = Len(out[e]) + Got(e) + Values(e) + Attempt(e)
          /\ Got(e) = 1 => held = Len(out[e])
      BY <3>1 DEF InOrder
    <3>4. /\ \A i \in 1..Values(e)' : items'[e][i].batch = Len(out'[e]) + Got(e)' + i - 1
          /\ items'[e] # <<>> /\ items'[e][Len(items'[e])].kind = terminal'[e]
      BY <1>3, <1>9, <1>a, <3>1, <3>2
    <3> QED
      BY <1>3, <1>9, <1>a, <3>2, <3>3, <3>4 DEF InOrder
  <2> QED
    BY <1>0, <1>2, <1>3, <1>9, <2>1, <2>2 DEF EpochOK
<1>c. Others(e)
  BY <1>0, <1>2, <1>3, <1>6 DEF Others, PutTerminal, Goes, TypeOK
<1> QED
  BY <1>0, <1>1, <1>2, <1>b, <1>c, ProducerStep DEF PutTerminal, Alive

(* A step of the consumer inside the epoch e keeps the invariant if it     *)
(* keeps that of e.                                                        *)
LEMMA ConsumerStep ==
  ASSUME IInv, NEW e \in Epochs, current = e, con # "gone", con' # "gone", TypeOK', Others(e),
         UNCHANGED <<bad, busy, current, opened, at>>, EpochOK(e)',
         con' \in {"get", "empty", "done", "got"} => ~finished'[e],
         con' = "done" => at[e] = "ended"
  PROVE  IInv'
<1>1. ASSUME NEW f \in Epochs PROVE EpochOK(f)'
  <2>1. CASE f = e
    BY <2>1
  <2>2. CASE f # e
    <3>1. EpochOK(f)
      BY DEF IInv
    <3>2. Got(f) = 0 /\ Got(f)' = 0 /\ (Lossless(f)' => Lossless(f))
      BY <2>2 DEF Others, Got, Lossless
    <3> QED
      BY <2>2, <3>1, <3>2, Frame DEF Others
  <2> QED
    BY <2>1, <2>2
<1>2. WrapperOK'
  <2>1. e # 0
    BY DEF Epochs
  <2> QED
    BY <2>1 DEF IInv, WrapperOK, Alive
<1> QED
  BY <1>1, <1>2 DEF IInv

(* Where the consumer stands says what it knows of the epoch: an iterator  *)
(* in use is not finished, so nobody has cancelled its producer.           *)
LEMMA InUse ==
  ASSUME IInv, NEW e \in Epochs, current = e, con \in {"get", "empty", "done", "got"}
  PROVE  /\ ~finished[e] /\ ~cancel[e] /\ result[e] = "open" /\ at[e] # "none"
         /\ Lossless(e) /\ InOrder(e) /\ EpochOK(e) /\ TypeOK
<1>1. EpochOK(e) /\ WrapperOK
  BY DEF IInv
<1>2. ~finished[e] /\ at[e] # "none"
  BY <1>1 DEF WrapperOK
<1>3. ~cancel[e] /\ result[e] = "open"
  BY <1>1, <1>2 DEF EpochOK
<1>4. Lossless(e)
  BY <1>3 DEF Lossless
<1> QED
  BY <1>1, <1>2, <1>3, <1>4 DEF EpochOK, IInv

(* A step that only moves the consumer, between places where it holds no   *)
(* batch, keeps the invariant.                                             *)
LEMMA OnlyConMoves ==
  ASSUME IInv, NEW e \in Epochs, current = e, con # "unwinding", con # "gone", con # "got",
         con' \in {"idle", "get", "empty", "done"},
         UNCHANGED <<bad, wrapper, producer, shared, iterator, held, out, result>>,
         con' # "idle" => ~finished[e],
         con' = "done" => at[e] = "ended"
  PROVE  IInv'
<1>1. TypeOK'
  BY DEF IInv, TypeOK, ConsumerAt, wrapper, producer, shared, iterator
<1>2. /\ UNCHANGED <<bad, busy, current, opened, at>> /\ Others(e)
      /\ UNCHANGED <<made, terminal, slots, items, cancel, finished, out, result>>
  BY DEF wrapper, producer, shared, iterator, Others
<1>3. EpochOK(e)'
  <2>1. Got(e) = 0 /\ Got(e)' = 0 /\ (Lossless(e)' => Lossless(e))
    BY <1>2 DEF Got, Lossless
  <2> QED
    BY <1>2, <2>1, Frame DEF IInv
<1> QED
  BY <1>1, <1>2, <1>3, ConsumerStep

(* A wait that begins or finds nothing keeps the invariant. *)
LEMMA WaitInvariant ==
  ASSUME IInv, NEW e \in Epochs,
         NextItem(e) \/ GetEmpty(e) \/ SeeDone(e) \/ JoinTimesOut(e)
  PROVE  IInv'
<1>1. CASE NextItem(e)
  BY <1>1, OnlyConMoves DEF NextItem
<1>2. CASE GetEmpty(e)
  BY <1>2, OnlyConMoves, InUse DEF GetEmpty
<1>3. CASE SeeDone(e)
  BY <1>3, OnlyConMoves, InUse DEF SeeDone
<1>4. CASE JoinTimesOut(e)
  BY <1>4, OnlyConMoves DEF JoinTimesOut
<1> QED
  BY <1>1, <1>2, <1>3, <1>4

(* The look into the queue after done keeps it: the queue is never empty,  *)
(* for the terminal item was put before done was set.                      *)
LEMMA SeeEmptyInvariant ==
  ASSUME IInv, NEW e \in Epochs, SeeEmpty(e)
  PROVE  items[e] # <<>> /\ IInv'
<1>1. con = "done" /\ current = e
  BY DEF SeeEmpty
<1>2. at[e] = "ended" /\ InOrder(e) /\ ~finished[e]
  BY <1>1, InUse DEF IInv
<1>3. items[e] # <<>>
  BY <1>2 DEF InOrder
<1>4. con' = "get" /\ UNCHANGED <<bad, wrapper, producer, shared, iterator, held, out, result>>
  BY <1>3 DEF SeeEmpty, shared, iterator
<1> QED
  BY <1>1, <1>2, <1>3, <1>4, OnlyConMoves

(* A finish keeps the epoch as the invariant wants it: it is cancelled,    *)
(* and of its batches nothing more is said than how many there are.        *)
LEMMA FinishKeeps ==
  ASSUME TypeOK, NEW e \in Epochs, EpochOK(e), at[e] # "none",
         NEW r \in {"ended", "failed", "closed"}, Finish(e, r),
         UNCHANGED <<bad, at, made, terminal, slots, out>>,
         QueueOK(e)', Values(e)' \in Nat, Values(e)' <= Values(e)
  PROVE  EpochOK(e)' /\ UNCHANGED Attempt(e)
<1>1. finished'[e] = TRUE /\ cancel'[e] = TRUE /\ con' = "join"
  BY DEF Finish, TypeOK
<1>2. result'[e] # "open" /\ result'[e] # "died"
  BY DEF Finish, TypeOK, EpochOK
<1>3. Got(e)' = 0 /\ ~Lossless(e)' /\ Attempt(e)' = Attempt(e)
  BY <1>1 DEF Got, Lossless, Attempt
<1>4. AttemptsOK(e)'
  BY <1>3 DEF EpochOK, AttemptsOK
<1>5. SlotsOK(e)'
  <2>1. slots[e] + made[e] + (IF at[e] = "recheck" THEN 1 ELSE 0) <= Depth + Len(out[e])
    BY DEF EpochOK, SlotsOK
  <2>2. Len(out[e]) + 0 + Values(e)' + (IF at[e] \in {"making", "put"} THEN 1 ELSE 0) <= made[e]
    <3>1. /\ Len(out[e]) \in Nat /\ Got(e) \in {0, 1} /\ Values(e) \in Nat /\ made[e] \in Nat
      BY EpochTypes
    <3>2. Len(out[e]) + Got(e) + Values(e) + (IF at[e] \in {"making", "put"} THEN 1 ELSE 0) <= made[e]
      BY DEF EpochOK, SlotsOK
    <3> QED
      BY <3>1, <3>2
  <2> QED
    BY <1>3, <2>1, <2>2 DEF SlotsOK
<1> QED
  BY <1>1, <1>2, <1>3, <1>4, <1>5 DEF EpochOK

(* The types after a finish. *)
LEMMA FinishTypes ==
  ASSUME TypeOK, NEW e \in Epochs, NEW r \in Results, Finish(e, r)
  PROVE  /\ finished' \in [Epochs -> BOOLEAN] /\ cancel' \in [Epochs -> BOOLEAN]
         /\ result' \in [Epochs -> Results] /\ con' \in ConsumerAt
         /\ \A f \in Epochs \ {e} :
              finished'[f] = finished[f] /\ cancel'[f] = cancel[f] /\ result'[f] = result[f]
  BY DEF TypeOK, Finish, ConsumerAt

(* A close keeps the invariant. *)
LEMMA CloseInvariant ==
  ASSUME IInv, NEW e \in Epochs, Close(e)
  PROVE  IInv'
<1>1. /\ TypeOK /\ EpochOK(e) /\ at[e] # "none" /\ current = e /\ con # "gone"
      /\ Finish(e, "closed") /\ con' = "join"
  BY DEF IInv, WrapperOK, Close, Finish
<1>2. UNCHANGED <<bad, wrapper, producer, slots, items, joined, held, out>>
  BY DEF Close
<1>3. /\ finished' \in [Epochs -> BOOLEAN] /\ cancel' \in [Epochs -> BOOLEAN]
      /\ result' \in [Epochs -> Results] /\ con' \in ConsumerAt
      /\ \A f \in Epochs \ {e} :
           finished'[f] = finished[f] /\ cancel'[f] = cancel[f] /\ result'[f] = result[f]
  BY <1>1, FinishTypes DEF Results
<1>4. TypeOK'
  BY <1>1, <1>2, <1>3 DEF TypeOK, wrapper, producer
<1>5. Others(e)
  BY <1>2, <1>3 DEF Others, wrapper, producer
<1>6. EpochOK(e)'
  <2>1. Values(e)' = Values(e) /\ QueueOK(e)'
    <3>1. items'[e] = items[e] /\ at'[e] = at[e]
      BY <1>2 DEF producer
    <3>2. Values(e)' = Values(e)
      BY <3>1 DEF Values
    <3>3. QueueOK(e)
      BY <1>1 DEF EpochOK
    <3> QED
      BY <3>1, <3>2, <3>3 DEF QueueOK
  <2> QED
    BY <1>1, <1>2, <2>1, FinishKeeps, EpochTypes DEF producer
<1> QED
  BY <1>1, <1>2, <1>4, <1>5, <1>6, ConsumerStep DEF wrapper, producer

(* The next() that takes the batch gives its slot back. *)
LEMMA TakeInvariant ==
  ASSUME IInv, NEW e \in Epochs, Take(e)
  PROVE  IInv' /\ held = Len(out[e]) /\ Len(out[e]) < bad[e]
<1>1. /\ con = "got" /\ current = e /\ con' = "idle"
      /\ UNCHANGED <<bad, busy, current, opened, at, made, terminal, items, cancel, finished, joined, held, result>>
  BY DEF Take, wrapper, producer, iterator
<1>2. /\ ~finished[e] /\ ~cancel[e] /\ result[e] = "open" /\ at[e] # "none"
      /\ Lossless(e) /\ InOrder(e) /\ EpochOK(e) /\ TypeOK
  BY <1>1, InUse
<1>3. /\ slots[e] \in Nat /\ made[e] \in Nat /\ Values(e) \in Nat /\ bad[e] \in Nat
      /\ out[e] \in Seq(0..Batches) /\ Len(out[e]) \in Nat /\ Attempt(e) \in {0, 1}
  BY <1>2, EpochTypes
<1>4. Got(e) = 1 /\ Got(e)' = 0 /\ Values(e)' = Values(e) /\ Attempt(e)' = Attempt(e)
  BY <1>1 DEF Got, Values, Attempt
<1>5. held = Len(out[e]) /\ made[e] = Len(out[e]) + 1 + Values(e) + Attempt(e)
  BY <1>2, <1>4 DEF InOrder
<1>6. Len(out[e]) < bad[e]
  BY <1>2, <1>3, <1>5 DEF EpochOK, AttemptsOK
<1>7. slots'[e] = slots[e] + 1 /\ slots' = [slots EXCEPT ![e] = @ + 1] /\ slots[e] + 1 <= Depth
  <2>1. slots[e] + made[e] <= Depth + Len(out[e])
    BY <1>2, <1>3 DEF EpochOK, SlotsOK
  <2> QED
    BY <1>2, <1>3, <1>5, <2>1 DEF TypeOK, Take
<1>8. /\ out'[e] = Append(out[e], held) /\ out' = [out EXCEPT ![e] = Append(@, held)]
      /\ held \in 0..Batches
  BY <1>2 DEF TypeOK, Take
<1>9. out'[e] \in Seq(0..Batches) /\ Len(out'[e]) = Len(out[e]) + 1
  BY <1>3, <1>8
<1>a. TypeOK'
  <2>1. slots' \in [Epochs -> 0..Depth]
    <3>1. slots \in [Epochs -> 0..Depth]
      BY <1>2 DEF TypeOK
    <3>2. slots[e] + 1 \in 0..Depth
      BY <1>3, <1>7
    <3> QED
      BY <1>7, <3>1, <3>2
  <2>2. out' \in [Epochs -> Seq(0..Batches)]
    BY <1>2, <1>8, <1>9 DEF TypeOK
  <2> QED
    BY <1>1, <1>2, <2>1, <2>2 DEF TypeOK, ConsumerAt
<1>b. EpochOK(e)'
  <2>1. QueueOK(e)'
    BY <1>1, <1>2, <1>4 DEF EpochOK, QueueOK
  <2>2. AttemptsOK(e)'
    BY <1>1, <1>2, <1>4 DEF EpochOK, AttemptsOK
  <2>3. SlotsOK(e)'
    <3>1. slots[e] + 1 + made[e] + (IF at[e] = "recheck" THEN 1 ELSE 0) <= Depth + (Len(out[e]) + 1)
      BY <1>2, <1>3 DEF EpochOK, SlotsOK
    <3>2. (Len(out[e]) + 1) + 0 + Values(e) + (IF at[e] \in {"making", "put"} THEN 1 ELSE 0) <= made[e]
      BY <1>2, <1>3, <1>4 DEF EpochOK, SlotsOK
    <3> QED
      BY <1>1, <1>4, <1>7, <1>9, <3>1, <3>2 DEF SlotsOK
  <2>4. InOrder(e)'
    <3>1. made[e] = (Len(out[e]) + 1) + 0 + Values(e) + Attempt(e)
      BY <1>3, <1>5
    <3>2. \A i \in 1..Values(e) : items[e][i].batch = (Len(out[e]) + 1) + 0 + i - 1
      <4>1. \A i \in 1..Values(e) : items[e][i].batch = Len(out[e]) + 1 + i - 1
        BY <1>2, <1>4 DEF InOrder
      <4> QED
        BY <1>3, <4>1
    <3>3. at[e] \in {"closing", "closed", "queued", "ended"} =>
            /\ terminal[e] # "none"
            /\ terminal[e] = "end" => made[e] = Batches + 1
            /\ terminal[e] = "error" => made[e] \in {bad[e] + 1, Batches + 1}
      BY <1>2 DEF InOrder
    <3>4. at[e] \in {"queued", "ended"} => items[e] # <<>> /\ items[e][Len(items[e])].kind = terminal[e]
      BY <1>2 DEF InOrder
    <3> QED
      BY <1>1, <1>4, <1>9, <3>1, <3>2, <3>3, <3>4 DEF InOrder
  <2> QED
    BY <1>1, <1>2, <2>1, <2>2, <2>3, <2>4 DEF EpochOK
<1>c. Others(e)
  BY <1>1, <1>2, <1>7, <1>8 DEF Others, TypeOK
<1>d. IInv'
  BY <1>1, <1>a, <1>b, <1>c, ConsumerStep
<1> QED
  BY <1>d, <1>5, <1>6

(* The empty sequence is the one without length. *)
LEMMA EmptyFacts ==
  ASSUME NEW S, NEW q \in Seq(S)
  PROVE  q = <<>> <=> Len(q) = 0
  OBVIOUS

(* What the queue holds after its head has been taken. *)
LEMMA QueueTail ==
  ASSUME TypeOK, NEW e \in Epochs, QueueOK(e), items[e] # <<>>, items'[e] = Tail(items[e]),
         at'[e] = at[e]
  PROVE  /\ QueueOK(e)'
         /\ Head(items[e]) = items[e][1] /\ Head(items[e]) \in QueueItem
         /\ items'[e] \in Seq(QueueItem)
         /\ \A i \in 1..(Len(items[e]) - 1) : items'[e][i] = items[e][i + 1]
         /\ Len(items'[e]) = Len(items[e]) - 1 /\ Len(items[e]) >= 1
         /\ Head(items[e]).kind = "value" => Values(e)' = Values(e) - 1 /\ Values(e) >= 1
         /\ Head(items[e]).kind # "value" =>
              /\ Len(items[e]) = 1 /\ Values(e) = 0 /\ Values(e)' = 0
              /\ at[e] \in {"queued", "ended"}
<1>0. items[e] \in Seq(QueueItem)
  BY EpochTypes
<1>1. /\ Head(items[e]) = items[e][1] /\ Head(items[e]) \in QueueItem
      /\ items'[e] \in Seq(QueueItem) /\ Len(items'[e]) = Len(items[e]) - 1
      /\ \A i \in 1..(Len(items[e]) - 1) : items'[e][i] = items[e][i + 1]
      /\ Len(items[e]) \in Nat /\ Len(items[e]) >= 1
  BY <1>0, TailFacts
<1>a. Len(items[e]) \in Nat /\ Len(items[e]) >= 1 /\ Len(items'[e]) = Len(items[e]) - 1
  BY <1>1
<1>c. (Len(items[e]) = 1 \/ Len(items[e]) > 1) /\ (Len(items[e]) > 1 => Len(items'[e]) # 0)
  <2>1. \A n \in Nat : n >= 1 => (n = 1 \/ n > 1) /\ (n > 1 => n - 1 # 0)
    OBVIOUS
  <2> QED
    BY <1>a, <2>1
<1>b. items'[e] = <<>> <=> Len(items'[e]) = 0
  BY <1>1, EmptyFacts
<1>2. \A i \in 1..(Len(items[e]) - 1) : items[e][i].kind = "value"
  BY DEF QueueOK
<1>3. \A i \in 1..(Len(items'[e]) - 1) : items'[e][i].kind = "value"
  <2> SUFFICES ASSUME NEW i \in 1..(Len(items'[e]) - 1) PROVE items'[e][i].kind = "value"
    OBVIOUS
  <2>1. i \in 1..(Len(items[e]) - 1) /\ i + 1 \in 1..(Len(items[e]) - 1)
    BY <1>1
  <2>2. items'[e][i] = items[e][i + 1]
    BY <1>1, <2>1
  <2> QED
    BY <1>2, <2>1, <2>2
<1>4. CASE Len(items[e]) = 1
  <2>1. items'[e] = <<>> /\ Len(items'[e]) = 0
    BY <1>4, <1>a, <1>b
  <2>2. Values(e)' = 0
    BY <2>1 DEF Values
  <2>3. Values(e) = IF items[e][1].kind # "value" THEN 0 ELSE 1
    BY <1>4 DEF Values
  <2>4. items[e][1].kind # "value" => at[e] \in {"queued", "ended"}
    BY <1>4, <2>3 DEF QueueOK
  <2>5. QueueOK(e)'
    <3>1. \A n \in {0} : ~(n < n)
      OBVIOUS
    <3>2. ~(Values(e)' < Len(items'[e]))
      BY <2>1, <2>2, <3>1
    <3> QED
      BY <1>3, <3>2 DEF QueueOK
  <2> QED
    BY <1>1, <1>4, <2>2, <2>3, <2>4, <2>5
<1>5. CASE Len(items[e]) > 1
  <2>1. items[e][1].kind = "value"
    BY <1>1, <1>2, <1>5
  <2>2. /\ items'[e] # <<>> /\ items'[e][Len(items'[e])] = items[e][Len(items[e])]
    <3>1. Len(items[e]) - 1 \in 1..(Len(items[e]) - 1) /\ (Len(items[e]) - 1) + 1 = Len(items[e])
      BY <1>1, <1>5
    <3>2. items'[e][Len(items[e]) - 1] = items[e][(Len(items[e]) - 1) + 1]
      BY <1>1, <3>1
    <3>3. Len(items'[e]) # 0
      BY <1>c, <1>5
    <3>4. items'[e] # <<>>
      BY <1>b, <3>3
    <3> QED
      BY <1>1, <3>1, <3>2, <3>4
  <2>3. Values(e)' = Values(e) - 1 /\ Values(e) >= 1
    BY <1>1, <1>5, <2>2 DEF Values
  <2>4. QueueOK(e)'
    <3>1. Values(e)' < Len(items'[e]) => Values(e) < Len(items[e])
      BY <1>1, <2>3, EpochTypes
    <3> QED
      BY <1>3, <3>1 DEF QueueOK
  <2> QED
    BY <1>1, <2>1, <2>3, <2>4
<1> QED
  BY <1>4, <1>5, <1>c

(* The get of an item keeps the invariant; what it tells the consumer is   *)
(* what the source has come to.                                            *)
LEMMA GetInvariant ==
  ASSUME IInv, NEW e \in Epochs, Get(e)
  PROVE  /\ IInv'
         /\ Head(items[e]).kind = "end" => Len(out[e]) = Batches
         /\ Head(items[e]).kind = "error" => Len(out[e]) \in {bad[e], Batches}
<1>1. /\ con = "get" /\ current = e /\ items[e] # <<>>
      /\ items' = [items EXCEPT ![e] = Tail(@)]
      /\ UNCHANGED <<bad, busy, current, opened, at, made, terminal, slots, joined, out>>
  BY DEF Get, wrapper, producer
<1>2. /\ ~finished[e] /\ ~cancel[e] /\ result[e] = "open" /\ at[e] # "none"
      /\ Lossless(e) /\ InOrder(e) /\ EpochOK(e) /\ TypeOK
  BY <1>1, InUse
<1>3. /\ slots[e] \in Nat /\ made[e] \in Nat /\ Values(e) \in Nat /\ bad[e] \in Nat
      /\ Len(out[e]) \in Nat /\ Attempt(e) \in {0, 1}
  BY <1>2, EpochTypes
<1>4. items \in [Epochs -> Seq(QueueItem)]
  BY <1>2 DEF TypeOK, QueueItem
<1>5. items'[e] = Tail(items[e]) /\ \A f \in Epochs \ {e} : items'[f] = items[f]
  BY <1>1, <1>4
<1>6. QueueOK(e)
  BY <1>2 DEF EpochOK
<1>7. /\ QueueOK(e)'
      /\ Head(items[e]) = items[e][1] /\ Head(items[e]) \in QueueItem
      /\ items'[e] \in Seq(QueueItem)
      /\ \A i \in 1..(Len(items[e]) - 1) : items'[e][i] = items[e][i + 1]
      /\ Len(items'[e]) = Len(items[e]) - 1 /\ Len(items[e]) >= 1
      /\ Head(items[e]).kind = "value" => Values(e)' = Values(e) - 1 /\ Values(e) >= 1
      /\ Head(items[e]).kind # "value" =>
           /\ Len(items[e]) = 1 /\ Values(e) = 0 /\ Values(e)' = 0
           /\ at[e] \in {"queued", "ended"}
  BY <1>1, <1>2, <1>5, <1>6, QueueTail
<1>8. items' \in [Epochs -> Seq([kind : Kinds, batch : 0..Batches])]
  BY <1>1, <1>4, <1>5, <1>7 DEF QueueItem
<1>9. Got(e) = 0 /\ Attempt(e)' = Attempt(e)
  BY <1>1 DEF Got, Attempt
<1>a. CASE Head(items[e]).kind = "value"
  <2>1. /\ con' = "got" /\ held' = Head(items[e]).batch
        /\ UNCHANGED <<cancel, finished, result>>
    BY <1>a DEF Get
  <2>2. held' \in 0..Batches
    BY <1>7, <2>1 DEF QueueItem
  <2>3. TypeOK'
    BY <1>1, <1>2, <1>8, <2>1, <2>2 DEF TypeOK, ConsumerAt
  <2>4. Got(e)' = 1 /\ Lossless(e)'
    BY <1>1, <1>2, <2>1 DEF Got, Lossless
  <2>5. AttemptsOK(e)'
    BY <1>1, <1>2, <1>9 DEF EpochOK, AttemptsOK
  <2>6. SlotsOK(e)'
    <3>1. Len(out[e]) + 1 + (Values(e) - 1) + (IF at[e] \in {"making", "put"} THEN 1 ELSE 0) <= made[e]
      BY <1>2, <1>3, <1>9 DEF EpochOK, SlotsOK
    <3>2. slots[e] + made[e] + (IF at[e] = "recheck" THEN 1 ELSE 0) <= Depth + Len(out[e])
      BY <1>2 DEF EpochOK, SlotsOK
    <3> QED
      BY <1>1, <1>7, <1>a, <2>4, <3>1, <3>2 DEF SlotsOK
  <2>7. InOrder(e)'
    <3>1. made[e] = Len(out[e]) + 1 + (Values(e) - 1) + Attempt(e)
      BY <1>2, <1>3, <1>9 DEF InOrder
    <3>2. \A i \in 1..Values(e) : items[e][i].batch = Len(out[e]) + 0 + i - 1
      BY <1>2, <1>9 DEF InOrder
    <3>3. held' = Len(out[e])
      <4>1. 1 \in 1..Values(e)
        BY <1>3, <1>7, <1>a
      <4>2. items[e][1].batch = Len(out[e]) + 0 + 1 - 1
        BY <3>2, <4>1
      <4> QED
        BY <1>3, <1>7, <2>1, <4>2
    <3>4. \A i \in 1..(Values(e) - 1) : items'[e][i].batch = Len(out[e]) + 1 + i - 1
      <4> SUFFICES ASSUME NEW i \in 1..(Values(e) - 1)
                   PROVE  items'[e][i].batch = Len(out[e]) + 1 + i - 1
        OBVIOUS
      <4>1. i \in 1..(Len(items[e]) - 1) /\ i + 1 \in 1..Values(e)
        BY <1>2, <1>3, EpochTypes
      <4>2. items'[e][i] = items[e][i + 1]
        BY <1>7, <4>1
      <4>3. items[e][i + 1].batch = Len(out[e]) + 0 + (i + 1) - 1
        BY <3>2, <4>1
      <4> QED
        BY <1>3, <4>2, <4>3
    <3>5. at[e] \in {"closing", "closed", "queued", "ended"} =>
            /\ terminal[e] # "none"
            /\ terminal[e] = "end" => made[e] = Batches + 1
            /\ terminal[e] = "error" => made[e] \in {bad[e] + 1, Batches + 1}
      BY <1>2 DEF InOrder
    <3>6. at[e] \in {"queued", "ended"} =>
            items'[e] # <<>> /\ items'[e][Len(items'[e])].kind = terminal[e]
      <4> SUFFICES ASSUME at[e] \in {"queued", "ended"}
                   PROVE  items'[e] # <<>> /\ items'[e][Len(items'[e])].kind = terminal[e]
        OBVIOUS
      <4>1. items[e][Len(items[e])].kind = terminal[e] /\ terminal[e] # "none" /\ terminal[e] # "value"
        BY <1>2, EpochTypes DEF InOrder
      <4>2. Len(items[e]) > 1
        BY <1>7, <1>a, <1>2, <4>1, EpochTypes
      <4>3. Len(items[e]) - 1 \in 1..(Len(items[e]) - 1) /\ (Len(items[e]) - 1) + 1 = Len(items[e])
        BY <1>2, <4>2, EpochTypes
      <4>4. items'[e][Len(items[e]) - 1] = items[e][(Len(items[e]) - 1) + 1]
        BY <1>7, <4>3
      <4> QED
        BY <1>7, <4>1, <4>2, <4>3, <4>4
    <3> QED
      BY <1>1, <1>7, <1>9, <1>a, <2>4, <3>1, <3>3, <3>4, <3>5, <3>6 DEF InOrder
  <2>8. EpochOK(e)'
    BY <1>1, <1>2, <1>7, <2>1, <2>5, <2>6, <2>7 DEF EpochOK
  <2>9. Others(e)
    BY <1>1, <1>5, <2>1 DEF Others
  <2>10. IInv'
    BY <1>1, <1>2, <2>1, <2>3, <2>8, <2>9, ConsumerStep
  <2> QED
    BY <1>a, <2>10
<1>b. CASE Head(items[e]).kind # "value"
  <2> DEFINE r == IF Head(items[e]).kind = "end" THEN "ended" ELSE "failed"
  <2>1. Finish(e, r) /\ held' = held /\ r \in {"ended", "failed", "closed"} /\ con' = "join"
    BY <1>b DEF Get, Finish
  <2> HIDE DEF r
  <2>2. /\ finished' \in [Epochs -> BOOLEAN] /\ cancel' \in [Epochs -> BOOLEAN]
        /\ result' \in [Epochs -> Results] /\ con' \in ConsumerAt
        /\ \A f \in Epochs \ {e} :
             finished'[f] = finished[f] /\ cancel'[f] = cancel[f] /\ result'[f] = result[f]
    BY <1>2, <2>1, FinishTypes DEF Results
  <2>3. TypeOK'
    BY <1>1, <1>2, <1>8, <2>1, <2>2 DEF TypeOK
  <2>4. Others(e)
    BY <1>1, <1>5, <2>2 DEF Others
  <2>5. EpochOK(e)'
    BY <1>1, <1>2, <1>7, <1>b, <2>1, FinishKeeps
  <2>6. IInv'
    BY <1>1, <1>2, <2>1, <2>3, <2>4, <2>5, ConsumerStep
  <2>7. made[e] = Len(out[e]) + 1 /\ terminal[e] = Head(items[e]).kind
    <3>1. Attempt(e) = 1
      BY <1>7, <1>b DEF Attempt
    <3>2. made[e] = Len(out[e]) + 0 + 0 + 1
      BY <1>2, <1>7, <1>9, <1>b, <3>1 DEF InOrder
    <3>3. items[e][Len(items[e])].kind = terminal[e]
      BY <1>2, <1>7, <1>b DEF InOrder
    <3> QED
      BY <1>3, <1>7, <1>b, <3>2, <3>3
  <2>8. /\ terminal[e] = "end" => made[e] = Batches + 1
        /\ terminal[e] = "error" => made[e] \in {bad[e] + 1, Batches + 1}
    BY <1>2, <1>7, <1>b DEF InOrder
  <2> QED
    BY <1>3, <2>6, <2>7, <2>8
<1> QED
  BY <1>a, <1>b

(* The join of a producer that has ended frees the wrapper. *)
LEMMA JoinInvariant ==
  ASSUME IInv, NEW e \in Epochs, Join(e)
  PROVE  IInv'
<1>1. /\ con = "join" /\ con' = "idle" /\ current = e /\ current' = 0 /\ busy' = FALSE /\ ~Alive(e)
      /\ joined' = [joined EXCEPT ![e] = TRUE]
      /\ UNCHANGED <<bad, opened, at, made, terminal, slots, items, cancel, finished, held, out, result>>
  BY DEF Join, producer, shared
<1>2. TypeOK'
  BY <1>1 DEF IInv, TypeOK, ConsumerAt
<1>3. ASSUME NEW f \in Epochs PROVE EpochOK(f)'
  <2>1. Got(f) = 0 /\ Got(f)' = 0 /\ (Lossless(f)' => Lossless(f))
    BY <1>1 DEF Got, Lossless
  <2>2. EpochOK(f)
    BY DEF IInv
  <2> QED
    BY <1>1, <2>1, <2>2, Frame
<1>4. WrapperOK'
  <2>1. ASSUME NEW f \in Epochs PROVE ~Alive(f)' /\ current' # f /\ (f > opened => at[f] = "none")
    BY <1>1 DEF IInv, WrapperOK, Alive, Epochs
  <2> QED
    BY <1>1, <2>1 DEF WrapperOK
<1> QED
  BY <1>1, <1>2, <1>3, <1>4 DEF IInv

(* An interrupt may lose the batch in the hands of next(), no slot count.  *)
LEMMA InterruptInvariant ==
  ASSUME IInv, Interrupt
  PROVE  IInv'
<1>1. /\ con \in {"get", "empty", "done", "got", "join"} /\ con' = "unwinding"
      /\ UNCHANGED <<bad, busy, current, opened, at, made, terminal, slots, items, cancel,
                     finished, joined, held, out, result>>
  BY DEF Interrupt, wrapper, producer, shared, iterator
<1>2. TypeOK'
  BY <1>1 DEF IInv, TypeOK, ConsumerAt
<1>3. ASSUME NEW f \in Epochs PROVE EpochOK(f)'
  <2>1. EpochOK(f) /\ TypeOK
    BY DEF IInv
  <2>2. CASE f # current
    <3>1. Got(f) = 0 /\ Got(f)' = 0 /\ (Lossless(f)' => Lossless(f))
      BY <1>1, <2>2 DEF Got, Lossless
    <3> QED
      BY <1>1, <2>1, <3>1, Frame
  <2>3. CASE f = current
    <3>1. Got(f)' = 0 /\ Values(f)' = Values(f) /\ Attempt(f)' = Attempt(f) /\ ~Lossless(f)'
      BY <1>1, <2>3 DEF Got, Values, Attempt, Lossless
    <3>2. QueueOK(f)' /\ AttemptsOK(f)'
      BY <1>1, <2>1, <3>1 DEF EpochOK, QueueOK, AttemptsOK
    <3>3. SlotsOK(f)'
      <4>1. /\ Len(out[f]) \in Nat /\ Got(f) \in {0, 1} /\ Values(f) \in Nat /\ made[f] \in Nat
        BY <2>1, EpochTypes
      <4>2. Len(out[f]) + Got(f) + Values(f) + (IF at[f] \in {"making", "put"} THEN 1 ELSE 0) <= made[f]
        BY <2>1 DEF EpochOK, SlotsOK
      <4>3. Len(out[f]) + 0 + Values(f) + (IF at[f] \in {"making", "put"} THEN 1 ELSE 0) <= made[f]
        BY <4>1, <4>2
      <4>4. slots[f] + made[f] + (IF at[f] = "recheck" THEN 1 ELSE 0) <= Depth + Len(out[f])
        BY <2>1 DEF EpochOK, SlotsOK
      <4> QED
        BY <1>1, <3>1, <4>3, <4>4 DEF SlotsOK
    <3> QED
      BY <1>1, <2>1, <3>1, <3>2, <3>3 DEF EpochOK
  <2> QED
    BY <2>2, <2>3
<1>4. WrapperOK'
  BY <1>1 DEF IInv, WrapperOK, Alive
<1> QED
  BY <1>1, <1>2, <1>3, <1>4 DEF IInv

(* A wrapper that is dropped cancels the producer of its epoch. *)
LEMMA AbandonInvariant ==
  ASSUME IInv, Abandon
  PROVE  IInv'
<1>1. /\ con \in {"idle", "unwinding"} /\ con' = "gone"
      /\ cancel' = [e \in Epochs |-> cancel[e] \/ e = current]
      /\ UNCHANGED <<bad, busy, current, opened, at, made, terminal, slots, items,
                     finished, joined, held, out, result>>
  BY DEF Abandon, wrapper, producer, iterator
<1>2. TypeOK'
  <2>1. cancel' \in [Epochs -> BOOLEAN]
    BY <1>1 DEF IInv, TypeOK
  <2> QED
    BY <1>1, <2>1 DEF IInv, TypeOK, ConsumerAt
<1>3. ASSUME NEW f \in Epochs PROVE EpochOK(f)'
  <2>1. EpochOK(f) /\ cancel[f] \in BOOLEAN /\ WrapperOK
    BY DEF IInv, TypeOK
  <2>2. Got(f) = 0 /\ Got(f)' = 0
    BY <1>1 DEF Got
  <2>3. CASE f # current
    <3>1. cancel'[f] = cancel[f] /\ (Lossless(f)' => Lossless(f))
      BY <1>1, <2>1, <2>3 DEF Lossless
    <3> QED
      BY <1>1, <2>1, <2>2, <3>1, Frame
  <2>4. CASE f = current
    <3>1. cancel'[f] = TRUE /\ ~Lossless(f)' /\ at[f] # "none"
      BY <1>1, <2>1, <2>4 DEF Lossless, WrapperOK
    <3>2. Values(f)' = Values(f) /\ Attempt(f)' = Attempt(f)
      BY <1>1 DEF Values, Attempt
    <3>3. QueueOK(f)' /\ AttemptsOK(f)'
      BY <1>1, <2>1, <3>2 DEF EpochOK, QueueOK, AttemptsOK
    <3>4. SlotsOK(f)'
      BY <1>1, <2>1, <2>2, <3>2 DEF EpochOK, SlotsOK
    <3> QED
      BY <1>1, <2>1, <3>1, <3>3, <3>4 DEF EpochOK
  <2> QED
    BY <2>3, <2>4
<1>4. WrapperOK'
  BY <1>1 DEF IInv, WrapperOK, Alive
<1> QED
  BY <1>1, <1>2, <1>3, <1>4 DEF IInv

(* The first step of an epoch: its producer starts on an empty queue, when *)
(* no other producer lives.                                                *)
LEMMA EpochInvariant ==
  ASSUME IInv, Epoch, NEW e \in Epochs, e = opened + 1
  PROVE  IInv'
<1>1. /\ con = "idle" /\ ~busy /\ e \in Epochs /\ busy' = TRUE /\ opened' = e /\ current' = e
      /\ at' = [at EXCEPT ![e] = "loop"]
      /\ UNCHANGED <<bad, made, terminal, slots, items, cancel, finished, joined, con, held, out, result>>
  BY DEF Epoch, Goes, shared, iterator
<1>2. TypeOK /\ EpochOK(e) /\ WrapperOK /\ current = 0 /\ opened \in Nat
  <2>1. TypeOK /\ EpochOK(e) /\ WrapperOK
    BY DEF IInv
  <2>2. current = 0
    BY <1>1, <2>1 DEF WrapperOK
  <2>3. opened \in Nat
    BY <2>1 DEF TypeOK, Epochs
  <2> QED
    BY <2>1, <2>2, <2>3
<1>3. at[e] = "none"
  BY <1>1, <1>2 DEF WrapperOK
<1>4. at'[e] = "loop" /\ \A f \in Epochs \ {e} : at'[f] = at[f]
  BY <1>1, <1>2 DEF TypeOK
<1>5. e \in Epochs
  BY <1>1
<1>6. \A f \in Epochs : ~Alive(f)
  BY <1>2 DEF WrapperOK, Epochs
<1>7. WrapperOK'
  <2>1. e # 0 /\ \A f \in Epochs : (f > e => f > opened) /\ f # 0
    BY <1>2 DEF Epochs
  <2>2. ASSUME NEW f \in Epochs
        PROVE  Alive(f)' => f = e /\ (f = e => at'[f] # "none") /\ (f > e => at'[f] = "none")
    <3>1. CASE f = e
      BY <1>4, <3>1
    <3>2. CASE f # e
      BY <1>4, <1>6, <3>2 DEF Alive
    <3> QED
      BY <3>1, <3>2
  <2>3. \A f \in Epochs : f > e => at'[f] = "none"
    <3>1. \A f \in Epochs : f > e => f # e
      BY <1>2 DEF Epochs
    <3> QED
      BY <1>2, <1>4, <2>1, <3>1 DEF WrapperOK
  <2> QED
    BY <1>1, <1>4, <2>1, <2>2, <2>3 DEF WrapperOK, Alive
<1>8. TypeOK'
  BY <1>1, <1>2 DEF TypeOK, ProducerAt
<1>9. ASSUME NEW f \in Epochs PROVE EpochOK(f)'
  <2>1. CASE f # e
    <3>1. EpochOK(f) /\ at'[f] = at[f]
      BY <1>4, <2>1 DEF IInv
    <3>2. Got(f) = 0 /\ Got(f)' = 0 /\ (Lossless(f)' => Lossless(f))
      BY <1>1 DEF Got, Lossless
    <3> QED
      BY <1>1, <3>1, <3>2, Frame
  <2>2. CASE f = e
    <3>1. /\ ~cancel[e] /\ items[e] = <<>> /\ made[e] = 0 /\ out[e] = <<>>
          /\ ~finished[e] /\ terminal[e] = "none" /\ result[e] = "open"
      BY <1>2, <1>3 DEF EpochOK
    <3>2. slots[e] \in Nat /\ slots[e] <= Depth /\ bad[e] \in Nat /\ terminal[e] \in {"none", "end", "error"}
      BY <1>2, <1>5, EpochTypes
    <3>3. Len(items[e]) = 0 /\ Len(out[e]) = 0
      BY <3>1
    <3>4. Values(e)' = 0 /\ Got(e)' = 0 /\ Attempt(e)' = 0
      BY <1>1, <1>4, <3>1, <3>3 DEF Values, Got, Attempt
    <3>5. QueueOK(e)'
      <4>1. ~(0 < 0) /\ 1..(0 - 1) = {}
        OBVIOUS
      <4> QED
        BY <1>1, <3>3, <3>4, <4>1 DEF QueueOK
    <3>6. AttemptsOK(e)' /\ SlotsOK(e)'
      BY <1>1, <1>4, <3>1, <3>2, <3>3, <3>4 DEF AttemptsOK, SlotsOK
    <3>7. InOrder(e)'
      <4>1. made'[e] = 0 /\ Len(out'[e]) = 0
        BY <1>1, <3>1, <3>3
      <4>2. 1..0 = {} /\ 0 = 0 + 0 + 0 + 0
        OBVIOUS
      <4> QED
        BY <1>4, <3>4, <4>1, <4>2 DEF InOrder
    <3> QED
      BY <1>1, <1>4, <2>2, <3>1, <3>5, <3>6, <3>7 DEF EpochOK
  <2> QED
    BY <2>1, <2>2
<1> QED
  BY <1>1, <1>7, <1>8, <1>9 DEF IInv

(* The first states: nothing is open and every slot is free. *)
LEMMA InitInvariant == Init => IInv
<1> SUFFICES ASSUME Init PROVE IInv
  OBVIOUS
<1>1. TypeOK
  <2>1. \A S : <<>> \in Seq(S)
    OBVIOUS
  <2>2. items \in [Epochs -> Seq([kind : Kinds, batch : 0..Batches])]
    BY <2>1 DEF Init
  <2>3. out \in [Epochs -> Seq(0..Batches)]
    BY <2>1 DEF Init
  <2>4. 0 \in 0..Batches /\ 0 \in 0..(Batches + 1) /\ Depth \in 0..Depth
    OBVIOUS
  <2>5. /\ made \in [Epochs -> 0..(Batches + 1)] /\ slots \in [Epochs -> 0..Depth]
        /\ held \in 0..Batches
    BY <2>4 DEF Init
  <2> QED
    BY <2>2, <2>3, <2>5 DEF Init, TypeOK, ProducerAt, ConsumerAt, Results
<1>2. WrapperOK
  BY DEF Init, WrapperOK, Alive, Epochs
<1>3. ASSUME NEW f \in Epochs PROVE EpochOK(f)
  <2>1. /\ at[f] = "none" /\ made[f] = 0 /\ terminal[f] = "none" /\ slots[f] = Depth /\ items[f] = <<>>
        /\ cancel[f] = FALSE /\ finished[f] = FALSE /\ con = "idle" /\ out[f] = <<>> /\ result[f] = "open"
    BY DEF Init
  <2>2. Len(items[f]) = 0 /\ Len(out[f]) = 0 /\ bad[f] \in Nat
    BY <2>1, <1>1 DEF TypeOK
  <2>3. Values(f) = 0 /\ Got(f) = 0 /\ Attempt(f) = 0
    BY <2>1, <2>2 DEF Values, Got, Attempt
  <2>4. QueueOK(f)
    <3>1. ~(0 < 0) /\ 1..(0 - 1) = {}
      OBVIOUS
    <3> QED
      BY <2>2, <2>3, <3>1 DEF QueueOK
  <2>5. AttemptsOK(f) /\ SlotsOK(f)
    BY <2>1, <2>2, <2>3 DEF AttemptsOK, SlotsOK
  <2>6. InOrder(f)
    <3>1. 1..0 = {} /\ 0 = 0 + 0 + 0 + 0
      OBVIOUS
    <3> QED
      BY <2>1, <2>2, <2>3, <3>1 DEF InOrder
  <2> QED
    BY <2>1, <2>4, <2>5, <2>6 DEF EpochOK
<1> QED
  BY <1>1, <1>2, <1>3 DEF IInv, Init

(* Every step keeps the invariant. *)
LEMMA NextInvariant == IInv /\ [Next]_vars => IInv'
<1> SUFFICES ASSUME IInv, [Next]_vars PROVE IInv'
  OBVIOUS
<1>1. CASE UNCHANGED vars
  <2>1. UNCHANGED <<bad, busy, current, opened, at, made, terminal, slots, items, cancel,
                    finished, joined, con, held, out, result>>
    BY <1>1 DEF vars, wrapper, producer, shared, iterator
  <2>2. ASSUME NEW f \in Epochs PROVE EpochOK(f)'
    <3>1. EpochOK(f) /\ Got(f)' = Got(f) /\ (Lossless(f)' => Lossless(f))
      BY <2>1 DEF IInv, Got, Lossless
    <3> QED
      BY <2>1, <3>1, Frame
  <2>3. TypeOK' /\ WrapperOK' /\ (con = "done" => at[current] = "ended")'
    BY <2>1 DEF IInv, TypeOK, WrapperOK, Alive
  <2> QED
    BY <2>2, <2>3 DEF IInv
<1>2. ASSUME NEW e \in Epochs, Produce(e) PROVE IInv'
  BY <1>2, LoopInvariant, AcquireInvariant, RecheckInvariant, MakeInvariant, PutInvariant,
     CloseSourceInvariant, PutTerminalInvariant, SetDoneInvariant DEF Produce
<1>3. ASSUME NEW e \in Epochs, Returns(e) PROVE IInv'
  BY <1>3, GetInvariant, WaitInvariant, SeeEmptyInvariant, TakeInvariant, JoinInvariant DEF Returns
<1>4. ASSUME NEW e \in Epochs, NextItem(e) \/ Close(e) \/ JoinTimesOut(e) PROVE IInv'
  BY <1>4, WaitInvariant, CloseInvariant
<1>5. CASE Epoch
  <2>1. opened + 1 \in Epochs
    BY <1>5 DEF Epoch
  <2> QED
    BY <1>5, <2>1, EpochInvariant
<1>6. CASE Interrupt
  BY <1>6, InterruptInvariant
<1>7. CASE Abandon
  BY <1>7, AbandonInvariant
<1> QED
  BY <1>1, <1>2, <1>3, <1>4, <1>5, <1>6, <1>7 DEF Next

(* IInv, and with it the types, holds in every state that the prefetch can *)
(* reach.                                                                  *)
THEOREM InductiveInvariant == Spec => []IInv
<1> QED
  BY InitInvariant, NextInvariant, PTL DEF Spec

(* The types of the prefetch's state. *)
THEOREM TypeCorrect == Spec => []TypeOK
<1>1. IInv => TypeOK
  BY DEF IInv
<1> QED
  BY <1>1, InductiveInvariant, PTL

(* (PRE-2): made - taken <= D at every moment, for every depth D: a slot   *)
(* is taken before the batch is made and given back when it is taken.      *)
THEOREM DepthBound == Spec => []AtMostDepthAhead
<1>1. ASSUME IInv, NEW e \in Epochs PROVE Ahead(e) <= Depth
  <2>1. TypeOK /\ EpochOK(e)
    BY <1>1 DEF IInv
  <2>2. /\ slots[e] \in Nat /\ made[e] \in Nat /\ Len(out[e]) \in Nat /\ Got(e) \in {0, 1}
    BY <2>1, EpochTypes
  <2>3. slots[e] + made[e] + (IF at[e] = "recheck" THEN 1 ELSE 0) <= Depth + Len(out[e])
    BY <2>1 DEF EpochOK, SlotsOK
  <2> QED
    BY <2>2, <2>3 DEF Ahead
<1>2. IInv => AtMostDepthAhead
  BY <1>1 DEF AtMostDepthAhead
<1> QED
  BY <1>2, InductiveInvariant, PTL

(* No producer ever runs beside another one, also after a close that could *)
(* not stop its producer.                                                  *)
THEOREM SingleProducer == Spec => []OneProducer
<1>1. IInv => OneProducer
  BY DEF IInv, WrapperOK, OneProducer
<1> QED
  BY <1>1, InductiveInvariant, PTL

(* The consumer's look at done and then at the queue never mistakes a      *)
(* producer that has put its terminal item for one that died.              *)
THEOREM DeathIsReal == Spec => []NoFalseDeath
<1>1. IInv => NoFalseDeath
  BY DEF IInv, EpochOK, NoFalseDeath
<1> QED
  BY <1>1, InductiveInvariant, PTL

(* (PRE-1) and (PRE-3), as a step: what the consumer sees moves as it does *)
(* without the prefetch, or does not move.                                 *)
LEMMA PlainStep == IInv /\ [Next]_vars => [Plain!Next]_(Plain!vars)
<1> SUFFICES ASSUME IInv, [Next]_vars PROVE Plain!Next \/ UNCHANGED Plain!vars
  OBVIOUS
<1> USE DEF Plain!vars
<1>1. CASE UNCHANGED vars
  BY <1>1 DEF vars
<1>2. ASSUME NEW e \in Epochs, Produce(e) PROVE UNCHANGED <<bad, out, result>>
  BY <1>2 DEF Produce, Loop, Acquire, Recheck, Make, Put, CloseSource, PutTerminal, SetDone, ProducerOnly
<1>3. ASSUME NEW e \in Epochs, GetEmpty(e) \/ SeeDone(e) \/ Join(e) \/ NextItem(e) \/ JoinTimesOut(e)
      PROVE  UNCHANGED <<bad, out, result>>
  BY <1>3 DEF GetEmpty, SeeDone, Join, NextItem, JoinTimesOut
<1>4. CASE Epoch \/ Interrupt \/ Abandon
  BY <1>4 DEF Epoch, Interrupt, Abandon
<1>5. ASSUME NEW e \in Epochs, SeeEmpty(e) PROVE UNCHANGED <<bad, out, result>>
  BY <1>5, SeeEmptyInvariant DEF SeeEmpty
<1>6. ASSUME NEW e \in Epochs, Take(e) PROVE Plain!Take(e)
  <2>1. result[e] = "open"
    BY <1>6, InUse DEF Take
  <2>2. held = Len(out[e]) /\ Len(out[e]) < bad[e]
    BY <1>6, TakeInvariant
  <2>3. out' = [out EXCEPT ![e] = Append(@, held)] /\ UNCHANGED <<bad, result>>
    BY <1>6 DEF Take
  <2> QED
    BY <2>1, <2>2, <2>3 DEF Plain!Take
<1>7. ASSUME NEW e \in Epochs, NEW r \in Results, Finish(e, r), result[e] = "open", UNCHANGED <<bad, out>>
      PROVE  Plain!Finishes(e, r)
  BY <1>7 DEF Finish, Plain!Finishes, IInv, TypeOK
<1>8. ASSUME NEW e \in Epochs, Get(e)
      PROVE  UNCHANGED <<bad, out, result>> \/ Plain!End(e) \/ Plain!Error(e)
  <2>1. result[e] = "open" /\ TypeOK /\ items[e] # <<>>
    BY <1>8, InUse DEF Get
  <2>2. /\ Head(items[e]).kind = "end" => Len(out[e]) = Batches
        /\ Head(items[e]).kind = "error" => Len(out[e]) \in {bad[e], Batches}
    BY <1>8, GetInvariant
  <2>3. UNCHANGED <<bad, out>>
    BY <1>8 DEF Get
  <2>4. Head(items[e]).kind \in Kinds
    <3>1. items[e] \in Seq(QueueItem)
      BY <2>1, EpochTypes
    <3>2. Head(items[e]) \in QueueItem
      BY <2>1, <3>1, TailFacts
    <3> QED
      BY <3>2 DEF QueueItem
  <2>5. CASE Head(items[e]).kind = "value"
    BY <1>8, <2>3, <2>5 DEF Get
  <2>6. CASE Head(items[e]).kind = "end"
    <3>1. Finish(e, "ended")
      BY <1>8, <2>6 DEF Get
    <3> QED
      BY <1>7, <2>1, <2>2, <2>3, <2>6, <3>1 DEF Plain!End, Results
  <2>7. CASE Head(items[e]).kind = "error"
    <3>1. Finish(e, "failed")
      BY <1>8, <2>7 DEF Get
    <3> QED
      BY <1>7, <2>1, <2>2, <2>3, <2>7, <3>1 DEF Plain!Error, Results
  <2> QED
    BY <2>4, <2>5, <2>6, <2>7 DEF Kinds
<1>9. ASSUME NEW e \in Epochs, Close(e) PROVE UNCHANGED <<bad, out, result>> \/ Plain!Close(e)
  <2>1. Finish(e, "closed") /\ UNCHANGED <<bad, out>>
    BY <1>9 DEF Close
  <2>2. CASE result[e] = "open"
    BY <1>7, <2>1, <2>2 DEF Plain!Close, Results
  <2>3. CASE result[e] # "open"
    BY <2>1, <2>3 DEF Finish, IInv, TypeOK
  <2> QED
    BY <2>2, <2>3
<1> QED
  BY <1>1, <1>2, <1>3, <1>4, <1>5, <1>6, <1>8, <1>9 DEF Next, Returns, Plain!Next

(* (PRE-1) and (PRE-3): what the consumer sees of the epochs is what it    *)
(* would see without the prefetch.                                         *)
THEOREM Transparent == Spec => ImplementsPlainEpochs
<1>1. Init => Plain!Init
  BY DEF Init, Plain!Init
<1> QED
  BY <1>1, PlainStep, InductiveInvariant, PTL DEF Spec, ImplementsPlainEpochs, Plain!Spec
===============================================================================
