-------------------------------- MODULE Prefetch --------------------------------
(***************************************************************************)
(* The ordered prefetch of c_ept/run/prefetch.py: the epochs of a batch    *)
(* source made ahead by one producer thread, for one consumer (the thread  *)
(* that trains).  Every epoch has a producer and a _Shared of its own; the *)
(* wrapper's lock lets one epoch run at a time.                            *)
(*                                                                         *)
(* A batch is its number in the epoch.  A wait with a timeout may return   *)
(* empty-handed whenever there is nothing to take.  A join runs into its   *)
(* time limit only while the producer is inside the source, its transform  *)
(* or its close: what else it does takes no time beside 30 s.              *)
(***************************************************************************)
EXTENDS Naturals, Sequences

CONSTANTS LastEpoch, \* how many epochs are called (a bound)
          Batches,   \* the number of batches of an epoch
          Depth      \* how many batches are made ahead

ASSUME PrefetchAssumption == Batches \in Nat /\ Depth \in Nat \ {0}
ASSUME EpochsAssumption == LastEpoch \in Nat \ {0}

Epochs == 1..LastEpoch

VARIABLES busy,      \* the wrapper's lock
          current,   \* the epoch whose iterator the wrapper holds (0: none)
          opened,    \* the epochs called so far
          bad,       \* the batch at which the source fails; Batches: at none
          at,        \* where the producer thread of the epoch is
          made,      \* the batches whose production has begun
          terminal,  \* the terminal item of the producer, or "none"
          slots,     \* the semaphore
          items,     \* the queue: (kind, batch), at most one terminal item last
          cancel,    \* the event
          finished, joined,   \* of the iterator
          con,       \* where the consumer is
          held,      \* the batch that __next__ has got but not yet returned
          out,       \* the batches the consumer has taken
          result     \* how the epoch ended for the consumer

wrapper == <<busy, current, opened>>
producer == <<at, made, terminal>>
shared == <<slots, items, cancel>>
iterator == <<finished, joined>>
vars == <<bad, wrapper, producer, shared, iterator, con, held, out, result>>

ProducerAt == {"none", "loop", "acquire", "recheck", "making", "put",
               "closing", "closed", "queued", "ended"}
ConsumerAt == {"idle", "get", "empty", "done", "got", "join", "unwinding", "gone"}
Results == {"open", "ended", "failed", "closed", "died"}
Kinds == {"value", "error", "end"}
Item(k, b) == [kind |-> k, batch |-> b]

Alive(e) == at[e] \notin {"none", "ended"}
InTheSource(e) == at[e] \in {"making", "closing"}
-------------------------------------------------------------------------------
Init ==
  /\ busy = FALSE
  /\ current = 0
  /\ opened = 0
  /\ bad \in [Epochs -> 0..Batches]
  /\ at = [e \in Epochs |-> "none"]
  /\ made = [e \in Epochs |-> 0]
  /\ terminal = [e \in Epochs |-> "none"]
  /\ slots = [e \in Epochs |-> Depth]
  /\ items = [e \in Epochs |-> <<>>]
  /\ cancel = [e \in Epochs |-> FALSE]
  /\ finished = [e \in Epochs |-> FALSE]
  /\ joined = [e \in Epochs |-> FALSE]
  /\ con = "idle"
  /\ held = 0
  /\ out = [e \in Epochs |-> <<>>]
  /\ result = [e \in Epochs |-> "open"]

(* The producer thread, _produce. *)
Goes(e, l) == at' = [at EXCEPT ![e] = l]
ProducerOnly == UNCHANGED <<bad, wrapper, iterator, con, held, out, result>>

(* Bug: the loop does not look at cancel. *)
LoopForever(e) ==
  /\ at[e] = "loop"
  /\ Goes(e, "acquire")
  /\ UNCHANGED <<made, terminal, shared>>
  /\ ProducerOnly

Loop(e) ==
  /\ at[e] = "loop"
  /\ Goes(e, IF cancel[e] THEN "closing" ELSE "acquire")
  /\ UNCHANGED <<made, terminal, shared>>
  /\ ProducerOnly

(* Bug: the answer of the timed acquire is not looked at. *)
AcquireUnchecked(e) ==
  /\ at[e] = "acquire"
  /\ slots' = [slots EXCEPT ![e] = IF @ > 0 THEN @ - 1 ELSE 0]
  /\ Goes(e, "recheck")
  /\ UNCHANGED <<made, terminal, items, cancel>>
  /\ ProducerOnly

(* A slot, or the timeout. *)
Acquire(e) ==
  /\ at[e] = "acquire"
  /\ IF slots[e] > 0
       THEN slots' = [slots EXCEPT ![e] = @ - 1] /\ Goes(e, "recheck")
       ELSE Goes(e, "loop") /\ UNCHANGED slots
  /\ UNCHANGED <<made, terminal, items, cancel>>
  /\ ProducerOnly

Recheck(e) ==
  /\ at[e] = "recheck"
  /\ IF cancel[e]
       THEN Goes(e, "closing") /\ UNCHANGED made
       ELSE Goes(e, "making") /\ made' = [made EXCEPT ![e] = @ + 1]
  /\ UNCHANGED <<terminal, shared>>
  /\ ProducerOnly

(* Bug: a StopIteration of the transform ends the epoch. *)
MakeEndsOnError(e) ==
  /\ at[e] = "making"
  /\ LET b == made[e] - 1 IN
     \/ b < bad[e] /\ Goes(e, "put") /\ UNCHANGED terminal
     \/ b = bad[e] /\ Goes(e, "closing") /\ terminal' = [terminal EXCEPT ![e] = "end"]
  /\ UNCHANGED <<made, shared>>
  /\ ProducerOnly

(* next of the source, and the transform. *)
Make(e) ==
  /\ at[e] = "making"
  /\ LET b == made[e] - 1 IN
     \/ b < bad[e] /\ Goes(e, "put") /\ UNCHANGED terminal
     \/ b = bad[e] /\ b < Batches /\ Goes(e, "closing")
        /\ terminal' = [terminal EXCEPT ![e] = "error"]
     \/ b = Batches /\ Goes(e, "closing") /\ terminal' = [terminal EXCEPT ![e] = "end"]
  /\ UNCHANGED <<made, shared>>
  /\ ProducerOnly

Put(e) ==
  /\ at[e] = "put"
  /\ items' = [items EXCEPT ![e] = Append(@, Item("value", made[e] - 1))]
  /\ Goes(e, "loop")
  /\ UNCHANGED <<made, terminal, slots, cancel>>
  /\ ProducerOnly

(* The source is closed; an error of the close is reported unless another  *)
(* error is.                                                               *)
CloseSource(e) ==
  /\ at[e] = "closing"
  /\ Goes(e, "closed")
  /\ terminal' \in {terminal, [terminal EXCEPT ![e] = "error"]}
  /\ UNCHANGED <<made, shared>>
  /\ ProducerOnly

(* The terminal item, once, unless nobody waits for it. *)
PutTerminal(e) ==
  /\ at[e] = "closed"
  /\ IF terminal[e] # "none" /\ ~cancel[e]
       THEN items' = [items EXCEPT ![e] = Append(@, Item(terminal[e], 0))]
       ELSE UNCHANGED items
  /\ Goes(e, "queued")
  /\ UNCHANGED <<made, terminal, slots, cancel>>
  /\ ProducerOnly

(* done is set, and the thread ends. *)
SetDone(e) ==
  /\ at[e] = "queued"
  /\ Goes(e, "ended")
  /\ UNCHANGED <<made, terminal, shared>>
  /\ ProducerOnly

Produce(e) ==
  Loop(e) \/ Acquire(e) \/ Recheck(e) \/ Make(e) \/ Put(e) \/ CloseSource(e)
    \/ PutTerminal(e) \/ SetDone(e)
-------------------------------------------------------------------------------
(* The consumer. *)

(* Prefetch.epoch: one epoch at a time.  A source that refuses the epoch   *)
(* leaves the wrapper as it was: the lock is taken and given back.         *)
Epoch ==
  /\ con = "idle"
  /\ ~busy
  /\ opened + 1 \in Epochs
  /\ busy' = TRUE
  /\ opened' = opened + 1
  /\ current' = opened + 1
  /\ Goes(opened + 1, "loop")
  /\ UNCHANGED <<bad, made, terminal, shared, iterator, con, held, out, result>>

(* __next__: an iterator that is finished only says so. *)
NextItem(e) ==
  /\ con = "idle" /\ current = e
  /\ ~finished[e]
  /\ con' = "get"
  /\ UNCHANGED <<bad, wrapper, producer, shared, iterator, held, out, result>>

(* _finish begins: finished and cancel are set, the join follows. *)
Finish(e, r) ==
  /\ finished' = [finished EXCEPT ![e] = TRUE]
  /\ cancel' = [cancel EXCEPT ![e] = TRUE]
  /\ result' = [result EXCEPT ![e] = IF @ = "open" THEN r ELSE @]
  /\ con' = "join"

(* Bug: an error is raised at once, before the batches made before it. *)
GetErrorFirst(e) ==
  /\ con = "get" /\ current = e
  /\ items[e] # <<>>
  /\ LET error == items[e][Len(items[e])].kind = "error"
         x == IF error THEN items[e][Len(items[e])] ELSE Head(items[e]) IN
     /\ items' = [items EXCEPT ![e] = IF error THEN <<>> ELSE Tail(@)]
     /\ IF x.kind = "value"
          THEN con' = "got" /\ held' = x.batch /\ UNCHANGED <<cancel, finished, result>>
          ELSE Finish(e, IF x.kind = "end" THEN "ended" ELSE "failed") /\ UNCHANGED held
  /\ UNCHANGED <<bad, wrapper, producer, slots, joined, out>>

Get(e) ==
  /\ con = "get" /\ current = e
  /\ items[e] # <<>>
  /\ items' = [items EXCEPT ![e] = Tail(@)]
  /\ LET x == Head(items[e]) IN
     IF x.kind = "value"
       THEN con' = "got" /\ held' = x.batch /\ UNCHANGED <<cancel, finished, result>>
       ELSE Finish(e, IF x.kind = "end" THEN "ended" ELSE "failed") /\ UNCHANGED held
  /\ UNCHANGED <<bad, wrapper, producer, slots, joined, out>>

(* queue.Empty after the timeout; then done.is_set(), then items.empty().  *)
GetEmpty(e) ==
  /\ con = "get" /\ current = e
  /\ items[e] = <<>>
  /\ con' = "empty"
  /\ UNCHANGED <<bad, wrapper, producer, shared, iterator, held, out, result>>

(* Bug: done alone is taken for an end without a word. *)
SeeDoneAlone(e) ==
  /\ con = "empty" /\ current = e
  /\ IF at[e] = "ended"
       THEN Finish(e, "died")
       ELSE con' = "get" /\ UNCHANGED <<finished, cancel, result>>
  /\ UNCHANGED <<bad, wrapper, producer, slots, items, joined, held, out>>

SeeDone(e) ==
  /\ con = "empty" /\ current = e
  /\ con' = IF at[e] = "ended" THEN "done" ELSE "get"
  /\ UNCHANGED <<bad, wrapper, producer, shared, iterator, held, out, result>>

SeeEmpty(e) ==
  /\ con = "done" /\ current = e
  /\ IF items[e] = <<>>
       THEN Finish(e, "died")
       ELSE con' = "get" /\ UNCHANGED <<finished, cancel, result>>
  /\ UNCHANGED <<bad, wrapper, producer, slots, items, joined, held, out>>

(* Bug: the slot is not given back. *)
TakeKeepsSlot(e) ==
  /\ con = "got" /\ current = e
  /\ out' = [out EXCEPT ![e] = Append(@, held)]
  /\ con' = "idle"
  /\ UNCHANGED <<bad, wrapper, producer, shared, iterator, held, result>>

(* The slot is given back and the batch returned. *)
Take(e) ==
  /\ con = "got" /\ current = e
  /\ slots' = [slots EXCEPT ![e] = @ + 1]
  /\ out' = [out EXCEPT ![e] = Append(@, held)]
  /\ con' = "idle"
  /\ UNCHANGED <<bad, wrapper, producer, items, cancel, iterator, held, result>>

(* close, of the iterator or of the wrapper. *)
Close(e) ==
  /\ con \in {"idle", "unwinding"} /\ current = e
  /\ ~joined[e]
  /\ Finish(e, "closed")
  /\ UNCHANGED <<bad, wrapper, producer, slots, items, joined, held, out>>

(* The join: the producer has ended and the wrapper is free again ... *)
Join(e) ==
  /\ con = "join" /\ current = e
  /\ ~Alive(e)
  /\ joined' = [joined EXCEPT ![e] = TRUE]
  /\ current' = 0
  /\ busy' = FALSE
  /\ con' = "idle"
  /\ UNCHANGED <<bad, opened, producer, shared, finished, held, out, result>>

(* Bug: the wrapper is freed although the producer has not ended. *)
JoinTimesOutAndFrees(e) ==
  /\ con = "join" /\ current = e
  /\ InTheSource(e)
  /\ con' = "idle"
  /\ current' = 0
  /\ busy' = FALSE
  /\ UNCHANGED <<bad, opened, producer, shared, iterator, held, out, result>>

(* ... or it is still making a batch after join_seconds: PrefetchError, and *)
(* the wrapper stays busy.                                                  *)
JoinTimesOut(e) ==
  /\ con = "join" /\ current = e
  /\ InTheSource(e)
  /\ con' = "idle"
  /\ UNCHANGED <<bad, wrapper, producer, shared, iterator, held, out, result>>

(* KeyboardInterrupt in next() or close(); the runner's close_all follows. *)
Interrupt ==
  /\ con \in {"get", "empty", "done", "got", "join"}
  /\ con' = "unwinding"
  /\ UNCHANGED <<bad, wrapper, producer, shared, iterator, held, out, result>>

(* Bug: the dropped iterator has no finalizer. *)
AbandonUnnoticed ==
  /\ con \in {"idle", "unwinding"}
  /\ con' = "gone"
  /\ UNCHANGED <<bad, wrapper, producer, shared, iterator, held, out, result>>

(* The wrapper is dropped and collected: the finalizer cancels. *)
Abandon ==
  /\ con \in {"idle", "unwinding"}
  /\ con' = "gone"
  /\ cancel' = [e \in Epochs |-> cancel[e] \/ e = current]
  /\ UNCHANGED <<bad, wrapper, producer, slots, items, iterator, held, out, result>>

(* What the consumer's thread does once it is inside next() or close(). *)
Returns(e) == Get(e) \/ GetEmpty(e) \/ SeeDone(e) \/ SeeEmpty(e) \/ Take(e) \/ Join(e)

Next ==
  \/ \E e \in Epochs : Produce(e) \/ Returns(e) \/ NextItem(e) \/ Close(e) \/ JoinTimesOut(e)
  \/ Epoch \/ Interrupt \/ Abandon

Spec == Init /\ [][Next]_vars

(* Both threads run on; a read of the source returns. *)
FairSpec == Spec /\ \A e \in Epochs : WF_vars(Produce(e)) /\ WF_vars(Returns(e))
-------------------------------------------------------------------------------
(* Properties. *)

TypeOK ==
  /\ busy \in BOOLEAN
  /\ current \in Epochs \cup {0}
  /\ opened \in Epochs \cup {0}
  /\ bad \in [Epochs -> 0..Batches]
  /\ at \in [Epochs -> ProducerAt]
  /\ made \in [Epochs -> 0..(Batches + 1)]
  /\ terminal \in [Epochs -> {"none", "end", "error"}]
  /\ slots \in [Epochs -> 0..Depth]
  /\ items \in [Epochs -> Seq([kind : Kinds, batch : 0..Batches])]
  /\ cancel \in [Epochs -> BOOLEAN]
  /\ finished \in [Epochs -> BOOLEAN]
  /\ joined \in [Epochs -> BOOLEAN]
  /\ con \in ConsumerAt
  /\ held \in 0..Batches
  /\ out \in [Epochs -> Seq(0..Batches)]
  /\ result \in [Epochs -> Results]

Got(e) == IF con = "got" /\ current = e THEN 1 ELSE 0

(* (PRE-2): made - taken <= D at every moment; a batch in the making or in *)
(* the queue is made and not taken, one in the hands of next() is taken.   *)
Ahead(e) == made[e] - Len(out[e]) - Got(e)
AtMostDepthAhead == \A e \in Epochs : Ahead(e) <= Depth

(* "no second producer is ever started beside it": after a close that could *)
(* not stop its producer no epoch starts until it has ended.                *)
OneProducer == \A e, f \in Epochs : Alive(e) /\ Alive(f) => e = f

(* A producer always leaves an end marker for a consumer that waits: the   *)
(* error "ended without an end marker" is never a race of the two threads. *)
NoFalseDeath == \A e \in Epochs : result[e] # "died"

(* (PRE-1) and (PRE-3): what the consumer sees is what the source itself   *)
(* gives - the same batches in order, its end or its error at its place.   *)
Plain == INSTANCE OrderedEpochs
ImplementsPlainEpochs == Plain!Spec

(* Every next() and close() returns or is interrupted. *)
NextReturns == con \in {"get", "empty", "done", "got", "join"} ~> con \in {"idle", "unwinding"}

(* A producer that is cancelled - by a close that timed out as well - or   *)
(* whose wrapper is abandoned ends, even when all slots are taken.         *)
Deserted(e) == cancel[e] \/ (con = "gone" /\ current = e)
CancelledProducerEnds == \A e \in Epochs : Deserted(e) ~> ~Alive(e)

===============================================================================
