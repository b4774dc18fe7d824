----------------------------- MODULE TrainCallsInv -----------------------------
(***************************************************************************)
(* The inductive invariant of TrainCalls.                                  *)
(***************************************************************************)
EXTENDS TrainCalls

Running == pc \in Armed \cup Closing

(* Every call but the last has its end; the last has none while it runs.   *)
MarkersInv ==
  /\ MarkersLoad
  /\ Running \/ pc = "adopt" => Orphan
  /\ pc \in {"ready", "read", "store", "closed"} => ~Orphan
  /\ \A n \in 1..Len(calls) : calls[n].outcome = "open" <=> calls[n].status = "open"
  /\ Orphan => LastCall.from <= Len(heads)

(* The clock of a call: when it began, its last heartbeat, and now. *)
ClockInv ==
  Running => /\ LastCall.start.seconds = prior.seconds + origin
             /\ origin + LastCall.beat.seconds = beatAt
             /\ beatAt <= t /\ t <= beatAt + Period
             /\ spent <= prior.seconds
             /\ Base.seconds <= prior.seconds + t

ChargeInv == NeverUndercharged /\ (calls = <<>> => spent = 0)

(* A call at work has not been refused. *)
NotOverInv == pc \in Armed \cup {"adopt", "ready"} => ~failed /\ ~SomeExceeded

(* The folders: what the newest head names is there, and so is the best    *)
(* state of the call at work.                                              *)
HeadsInv ==
  /\ HeadVerifies
  /\ heads # <<>> => /\ Len(Newest.last.loop.stops) = Len(heads)
                     /\ Newest.last.loop.best \in 1..Len(heads)
  /\ RunEnded \/ Len(heads) < Epochs

LoopInv ==
  /\ pc \in {"train", "saved", "end"} =>
       /\ Epoch = Len(heads)
       /\ (IF heads = <<>> THEN loop = Fresh ELSE loop = Newest.last.loop)
  /\ pc = "train" => ~RunEnded
  /\ pc \in {"last", "best", "head"} =>
       /\ ~RunEnded
       /\ Epoch = Len(heads) + 1
       /\ loop.best \in 1..Epoch
       /\ loop.best # Epoch => best[loop.best] = loop.by
  /\ pc \in {"best", "head"} => last[Epoch] = Content
  /\ pc = "best" => loop.best = Epoch
  /\ pc = "head" => best[loop.best] = loop.by

CallsInv ==
  /\ TypeOK
  /\ MarkersInv /\ ClockInv /\ ChargeInv /\ NotOverInv
  /\ HeadsInv /\ LoopInv
  /\ DyingCallsAdvance

(* The losses of a run: every head goes on where the one before it was,    *)
(* its best epoch is the first minimum, and it says done exactly when       *)
(* patience is over, at the horizon or at the cap; then it is the last one. *)
(* The epoch that is being saved goes on in the same way.                  *)
FirstOf(s, i) == i \in 1..Len(s) /\ \A j \in 1..Len(s) : s[i] <= s[j] /\ (j < i => s[i] < s[j])
AsUncut(l) == FirstOf(l.stops, l.best) /\ l.bad = Len(l.stops) - l.best
StartsAs(l, j) == \A i \in 1..j : l.stops[i] = heads[j].last.loop.stops[i]

EndsRun(h, k) == \/ h.last.loop.bad >= Patience
                 \/ k = Epochs
                 \/ mode = "best_stop" /\ h.acct.seconds >= WallCap

UncutInv ==
  /\ \A k \in 1..Len(heads) :
       LET l == heads[k].last.loop IN
       /\ Len(l.stops) = k /\ AsUncut(l)
       /\ \A j \in 1..k : StartsAs(l, j)
       /\ k < Len(heads) => ~heads[k].done
       /\ heads[k].done <=> EndsRun(heads[k], k)
  /\ pc \in {"last", "best", "head"} =>
       AsUncut(loop) /\ \A j \in 1..Len(heads) : StartsAs(loop, j)

IInv == CallsInv /\ UncutInv
===============================================================================
