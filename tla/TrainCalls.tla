------------------------------- MODULE TrainCalls -------------------------------
(***************************************************************************)
(* The resumable training of the EPT (c_ept/ept/train.py, checkpoints.py): *)
(* every call of train() on a run folder resumes from the newest complete  *)
(* checkpoint, leaves a pending and a final marker in calls/, writes       *)
(* heartbeats while it runs, and ends the run for good over a bound.  A    *)
(* power cut may come between any two steps.                               *)
(*                                                                         *)
(* One unit of time is a fraction of the heartbeat period.  The memory is  *)
(* one fact, 'hot': a sampled peak at the cap or above; what the code does *)
(* with maxima of peaks is a disjunction here.  One process trains at a    *)
(* time (the lock of the run supervisor).  A record is written by          *)
(* write_atomic, whose temporary file nothing reads.                       *)
(***************************************************************************)
EXTENDS Naturals, Sequences

CONSTANTS Modes,      \* the values of cfg.on_wall_cap
          Epochs,     \* the horizon
          Patience,   \* cfg.patience
          Losses,     \* the values of the STOP loss
          Period,     \* BEAT_INTERVAL_S
          WallCap,    \* WALL_CAP_SECONDS
          MaxSeconds, \* a bound on the clock of a run
          MaxFaults   \* a bound on power cuts and exceptions

ASSUME TrainAssumption ==
  /\ Modes \subseteq {"fail", "best_stop"}
  /\ Epochs \in Nat \ {0} /\ Patience \in Nat \ {0} /\ Losses \subseteq Nat
  /\ Period \in Nat \ {0} /\ WallCap \in Nat /\ MaxSeconds \in Nat /\ MaxFaults \in Nat

VARIABLES mode,
          last, best, heads,   \* of the epoch folders: last.pt, best.pt, head.json
          calls, failed,       \* calls/; whether a resource_failure file is there
          pc, t, prior, hot,   \* the call: its clock, what it adopted, its peak
          loop,                \* its training state
          origin, beatAt,      \* of its heartbeat
          spent,               \* history: what the calls that have ended really took
          faults

files == <<last, best, heads>>
clock == <<t, prior, hot, origin, beatAt>>
vars == <<mode, files, calls, failed, pc, clock, loop, spent, faults>>

Armed == {"train", "last", "best", "head", "saved", "end"}
Closing == {"close_completed", "close_interrupted", "close_exceeded", "close_unmeasured"}
Places == {"off", "adopt", "store", "ready", "read", "closed"} \cup Armed \cup Closing

-------------------------------------------------------------------------------
(* Accounting. *)

Zero == [seconds |-> 0, hot |-> FALSE]

(* _merge_accounting: the elementwise maximum. *)
Merge(a, b) == [seconds |-> IF a.seconds >= b.seconds THEN a.seconds ELSE b.seconds,
                hot |-> a.hot \/ b.hot]

(* _violation: the memory is bounded in both modes, the seconds only where *)
(* 'wall' says so.                                                         *)
Broken(a, wall) == a.hot \/ (wall /\ a.seconds > WallCap)

Newest == heads[Len(heads)]
Base == IF heads = <<>> THEN Zero ELSE Newest.acct
RunEnded == heads # <<>> /\ Newest.done

LastCall == calls[Len(calls)]
Orphan == calls # <<>> /\ LastCall.outcome = "open"
LastFinal == IF calls = <<>> THEN Zero ELSE LastCall.acct

Snapshot == [seconds |-> prior.seconds + t, hot |-> prior.hot \/ hot]
Violation == Broken(Snapshot, mode = "fail")

(* Bug: the unrecorded tail is not charged. *)
ClaimWithoutTail(c) == [seconds |-> c.start.seconds + c.beat.seconds, hot |-> c.start.hot \/ c.beat.hot]

(* (TRN-6): what a call without an end is charged.                         *)
Claim(c) == [seconds |-> c.start.seconds + c.beat.seconds + Period, hot |-> c.start.hot \/ c.beat.hot]

-------------------------------------------------------------------------------
(* A call up to its pending marker. *)

Fresh == [stops |-> <<>>, best |-> 0, by |-> 0, bad |-> 0]

Init ==
  /\ mode \in Modes
  /\ last = [k \in 1..Epochs |-> [loop |-> Fresh, by |-> 0]]
  /\ best = [k \in 1..Epochs |-> 0]
  /\ heads = <<>> /\ calls = <<>> /\ failed = FALSE
  /\ pc = "off" /\ t = 0 /\ prior = Zero /\ hot = FALSE
  /\ loop = Fresh /\ origin = 0 /\ beatAt = 0
  /\ spent = 0 /\ faults = 0

(* The process ends, with everything it held. *)
Quit ==
  /\ pc' = "off" /\ t' = 0 /\ prior' = Zero /\ hot' = FALSE
  /\ loop' = Fresh /\ origin' = 0 /\ beatAt' = 0

(* latest_checkpoint: what the newest head names must be there as it was.  *)
HeadVerifies ==
  heads # <<>> => /\ last[Len(heads)] = Newest.last
                  /\ best[Newest.last.loop.best] = Newest.last.loop.by

(* _load_calls: every marker but the last has its end, ... *)
MarkersLoad == \A n \in 1..Len(calls) - 1 : calls[n].outcome # "open"
(* ... and an end over a bound ends the run.                               *)
SomeExceeded == \E n \in 1..Len(calls) : calls[n].status = "exceeded"

(* Bug: the failure files are not looked for. *)
StartUnrefused ==
  /\ pc = "off" /\ HeadVerifies /\ MarkersLoad /\ ~SomeExceeded
  /\ pc' = IF Orphan THEN "adopt" ELSE "ready"
  /\ UNCHANGED <<mode, files, calls, failed, clock, loop, spent, faults>>

(* A call reads the folder; what it refuses it leaves as it is. *)
Start ==
  /\ pc = "off" /\ ~failed /\ HeadVerifies /\ MarkersLoad /\ ~SomeExceeded
  /\ pc' = IF Orphan THEN "adopt" ELSE "ready"
  /\ UNCHANGED <<mode, files, calls, failed, clock, loop, spent, faults>>

(* Bug: only two calls without any new epoch are seen. *)
CrashLoopOfBoth ==
  /\ Orphan /\ Len(calls) > 1
  /\ calls[Len(calls) - 1].outcome = "hard_interrupted"
  /\ calls[Len(calls) - 1].from = Len(heads)

(* Two hard interrupts in a row, and the second call finished no epoch. *)
CrashLoop ==
  /\ Orphan /\ Len(calls) > 1
  /\ calls[Len(calls) - 1].outcome = "hard_interrupted"
  /\ LastCall.from = Len(heads)

Final(c, outcome, acct) ==
  [c EXCEPT !.outcome = outcome, !.acct = acct, !.to = Len(heads),
            !.status = IF outcome = "unmeasured" THEN outcome
                       ELSE IF outcome = "exceeded" \/ (outcome = "hard_interrupted" /\ Broken(acct, TRUE))
                         THEN "exceeded" ELSE "ok"]

SetFinal(outcome, acct) == calls' = [calls EXCEPT ![Len(calls)] = Final(@, outcome, acct)]

(* _adopt_orphan: the missing end is written; the seconds count in both    *)
(* modes.                                                                  *)
Adopt ==
  /\ pc = "adopt"
  /\ ~CrashLoop
  /\ LET charged == Merge(Base, Claim(LastCall)) IN
     /\ SetFinal("hard_interrupted", charged)
     /\ pc' = IF Broken(charged, TRUE) THEN "store" ELSE "ready"
  /\ UNCHANGED <<mode, files, failed, clock, loop, spent, faults>>

RefuseCrashLoop ==
  /\ pc = "adopt" /\ CrashLoop
  /\ Quit
  /\ UNCHANGED <<mode, files, calls, failed, spent, faults>>

(* _record_failure, and the call ends. *)
StoreFailure ==
  /\ pc = "store"
  /\ failed' = TRUE
  /\ Quit
  /\ UNCHANGED <<mode, files, calls, spent, faults>>

Prior == Merge(Base, LastFinal)
AtGuard == [seconds |-> Prior.seconds + t, hot |-> Prior.hot \/ hot]
GuardWall == mode = "fail" \/ ~RunEnded

(* A run that is over a bound before it begins. *)
RefuseOver ==
  /\ pc = "ready"
  /\ Broken(AtGuard, GuardWall)
  /\ failed' = TRUE
  /\ Quit
  /\ UNCHANGED <<mode, files, calls, spent, faults>>

(* A run that has ended is read; no call is opened. *)
ReadResult ==
  /\ pc = "ready" /\ RunEnded
  /\ ~Broken(AtGuard, GuardWall)
  /\ prior' = Prior
  /\ pc' = "read"
  /\ UNCHANGED <<mode, files, calls, failed, t, hot, origin, beatAt, loop, spent, faults>>

(* The two ends of that: a result, or a bound broken while it is read. *)
ReturnResult ==
  /\ pc = "read"
  /\ failed' = (failed \/ Violation)
  /\ Quit
  /\ UNCHANGED <<mode, files, calls, spent, faults>>

-------------------------------------------------------------------------------
(* The call at work. *)

NewCall(acct) == [from |-> Len(heads), start |-> acct, beat |-> Zero,
                  outcome |-> "open", status |-> "open", to |-> 0, acct |-> Zero]

(* Bug: patience counts anew in every call. *)
BeginResetsPatience ==
  /\ pc = "ready" /\ ~RunEnded
  /\ ~Broken(AtGuard, GuardWall)
  /\ calls' = Append(calls, NewCall(AtGuard))
  /\ prior' = Prior
  /\ origin' = t /\ beatAt' = t
  /\ loop' = IF heads = <<>> THEN Fresh ELSE [last[Len(heads)].loop EXCEPT !.bad = 0]
  /\ pc' = "train"
  /\ UNCHANGED <<mode, files, failed, t, hot, spent, faults>>

(* Bug: the state is not restored. *)
BeginAnew ==
  /\ pc = "ready" /\ ~RunEnded
  /\ ~Broken(AtGuard, GuardWall)
  /\ calls' = Append(calls, NewCall(AtGuard))
  /\ prior' = Prior
  /\ origin' = t /\ beatAt' = t
  /\ loop' = Fresh
  /\ pc' = "train"
  /\ UNCHANGED <<mode, files, failed, t, hot, spent, faults>>

(* _Call.begin: the pending marker and the heartbeat start at one instant; *)
(* then the state of the last epoch is restored.                           *)
Begin ==
  /\ pc = "ready" /\ ~RunEnded
  /\ ~Broken(AtGuard, GuardWall)
  /\ calls' = Append(calls, NewCall(AtGuard))
  /\ prior' = Prior
  /\ origin' = t /\ beatAt' = t
  /\ loop' = IF heads = <<>> THEN Fresh ELSE last[Len(heads)].loop
  /\ pc' = "train"
  /\ UNCHANGED <<mode, files, failed, t, hot, spent, faults>>

(* Time passes, but not from the last guard of an epoch to its checkpoint: *)
(* there the code reads the clock for done and then for the account.  The  *)
(* sampling thread is never late by more than a period, and its write does *)
(* not fail: what the bound of (TRN-6) is conditional on.                  *)
Tick ==
  /\ pc \in {"ready", "read", "train", "end"}
  /\ pc \in Armed => t - beatAt < Period
  /\ prior.seconds + t < MaxSeconds
  /\ t' = t + 1
  /\ UNCHANGED <<mode, files, calls, failed, pc, prior, hot, origin, beatAt, loop, spent, faults>>

(* A sample at the memory cap or above, while it can still tell. *)
Hot ==
  /\ pc \in Armed \cup {"ready", "read", "close_completed", "closed"} /\ ~hot
  /\ hot' = TRUE
  /\ UNCHANGED <<mode, files, calls, failed, pc, t, prior, origin, beatAt, loop, spent, faults>>

(* Bug: a heartbeat counts from the start of the process. *)
BeatFromStart ==
  /\ pc \in Armed
  /\ t - beatAt >= Period
  /\ calls' = [calls EXCEPT ![Len(calls)].beat = [seconds |-> t, hot |-> prior.hot \/ hot]]
  /\ beatAt' = t
  /\ UNCHANGED <<mode, files, failed, pc, t, prior, hot, origin, loop, spent, faults>>

(* _Resources._beat *)
Beat ==
  /\ pc \in Armed
  /\ t - beatAt >= Period
  /\ calls' = [calls EXCEPT ![Len(calls)].beat = [seconds |-> t - origin, hot |-> prior.hot \/ hot]]
  /\ beatAt' = t
  /\ UNCHANGED <<mode, files, failed, pc, t, prior, hot, origin, loop, spent, faults>>

Improves(v) == loop.best = 0 \/ v < loop.stops[loop.best]

(* The end of an epoch with the STOP loss v, the guard after it passed.    *)
(* 'by' is the call that serialised the best state: the hash of best.pt.   *)
EpochEnd(v) ==
  LET k == Len(loop.stops) + 1 IN
  /\ pc = "train" /\ ~Violation
  /\ loop' = [stops |-> Append(loop.stops, v),
              best |-> IF Improves(v) THEN k ELSE loop.best,
              by |-> IF Improves(v) THEN Len(calls) ELSE loop.by,
              bad |-> IF Improves(v) THEN 0 ELSE loop.bad + 1]
  /\ pc' = "last"
  /\ UNCHANGED <<mode, files, calls, failed, clock, spent, faults>>

(* save_checkpoint of the folder of this epoch: last.pt, best.pt when the  *)
(* best has changed, and head.json.  A folder without head is used again.  *)
Epoch == Len(loop.stops)
Content == [loop |-> loop, by |-> Len(calls)]

StoppedEarly == loop.bad >= Patience

(* (TRN-11): the epoch that reaches the cap is the last one. *)
BudgetEnd == /\ mode = "best_stop" /\ ~StoppedEarly /\ Epoch < Epochs
             /\ Snapshot.seconds >= WallCap
Done == StoppedEarly \/ Epoch = Epochs \/ BudgetEnd

(* Bug: head.json is written first. *)
WriteLastAndHead ==
  /\ pc = "last"
  /\ Epoch = Len(heads) + 1
  /\ heads' = Append(heads, [acct |-> Snapshot, done |-> Done, last |-> Content])
  /\ pc' = "head"
  /\ UNCHANGED <<mode, last, best, calls, failed, clock, loop, spent, faults>>

WriteLast ==
  /\ pc = "last"
  /\ Epoch = Len(heads) + 1
  /\ last' = [last EXCEPT ![Epoch] = Content]
  /\ pc' = IF loop.best = Epoch THEN "best" ELSE "head"
  /\ UNCHANGED <<mode, best, heads, calls, failed, clock, loop, spent, faults>>

WriteBest ==
  /\ pc = "best"
  /\ best' = [best EXCEPT ![Epoch] = loop.by]
  /\ pc' = "head"
  /\ UNCHANGED <<mode, last, heads, calls, failed, clock, loop, spent, faults>>

WriteHead ==
  /\ pc = "head"
  /\ heads' = Append(heads, [acct |-> Snapshot, done |-> Done, last |-> Content])
  /\ pc' = "saved"
  /\ UNCHANGED <<mode, last, best, calls, failed, clock, loop, spent, faults>>

NextEpoch ==
  /\ pc = "saved" /\ ~Violation
  /\ pc' = IF Newest.done THEN "end" ELSE "train"
  /\ UNCHANGED <<mode, files, calls, failed, clock, loop, spent, faults>>

(* The best state is loaded, the guard passes. *)
EndRun ==
  /\ pc = "end" /\ ~Violation
  /\ pc' = "close_completed"
  /\ UNCHANGED <<mode, files, calls, failed, clock, loop, spent, faults>>

-------------------------------------------------------------------------------
(* The end of a call. *)

Abort(outcome) ==
  /\ pc' = outcome
  /\ UNCHANGED <<mode, files, calls, clock, loop, spent>>

(* guard: over a bound, train() stores the failure before the marker. *)
GuardFails ==
  /\ pc \in {"train", "saved", "end"} /\ Violation
  /\ failed' = TRUE
  /\ Abort("close_exceeded")
  /\ UNCHANGED faults

(* Any other exception - a check, an interrupt, a write - or a guard       *)
(* without a sample it can read: _abort says what it was.                  *)
Exception ==
  /\ pc \in Armed
  /\ faults < MaxFaults /\ faults' = faults + 1
  /\ \/ Violation /\ failed' = TRUE /\ Abort("close_exceeded")
     \/ ~Violation /\ UNCHANGED failed /\ Abort("close_interrupted")
     \/ pc \in {"train", "saved", "end"} /\ UNCHANGED failed /\ Abort("close_unmeasured")

Outcome == IF pc = "close_completed" THEN (IF Violation THEN "exceeded" ELSE "completed")
           ELSE IF pc = "close_interrupted" THEN (IF Violation THEN "exceeded" ELSE "interrupted")
           ELSE IF pc = "close_exceeded" THEN "exceeded" ELSE "unmeasured"

(* _Call.finish: the final marker of a call that ends by itself. *)
Finish ==
  /\ pc \in Closing
  /\ SetFinal(Outcome, Snapshot)
  /\ spent' = spent + t
  /\ IF pc = "close_completed" THEN pc' = "closed" /\ UNCHANGED <<clock, loop>> ELSE Quit
  /\ UNCHANGED <<mode, files, failed, faults>>

(* The bounds hold through the write of the marker, or a failure is stored.*)
Closed ==
  /\ pc = "closed"
  /\ failed' = (failed \/ LastCall.status # "ok" \/ Violation)
  /\ Quit
  /\ UNCHANGED <<mode, files, calls, spent, faults>>

(* A kill, or a power cut that loses no write that was over: write_atomic  *)
(* syncs the file and not its folder.                                      *)
PowerCut ==
  /\ pc # "off"
  /\ faults < MaxFaults /\ faults' = faults + 1
  /\ spent' = spent + IF pc \in Armed \cup Closing THEN t ELSE 0
  /\ Quit
  /\ UNCHANGED <<mode, files, calls, failed>>

Step ==
  \/ Start \/ Adopt \/ RefuseCrashLoop \/ StoreFailure \/ RefuseOver
  \/ Begin \/ (\E v \in Losses : EpochEnd(v)) \/ WriteLast \/ WriteBest \/ WriteHead
  \/ NextEpoch \/ EndRun \/ GuardFails \/ Finish \/ Closed

Next == Step \/ ReadResult \/ ReturnResult \/ Tick \/ Hot \/ Beat \/ Exception \/ PowerCut

Spec == Init /\ [][Next]_vars

(* The supervisor and its user call train() again until the run has ended, *)
(* and a call goes on.                                                     *)
FairSpec == Spec /\ WF_vars(Step \/ ReadResult \/ ReturnResult)
-------------------------------------------------------------------------------
(* Properties. *)

Accounts == [seconds : Nat, hot : BOOLEAN]
Loops == [stops : Seq(Losses), best : 0..Epochs, by : Nat, bad : Nat]
Contents == [loop : Loops, by : Nat]

Heads == [acct : Accounts, done : BOOLEAN, last : Contents]
Outcomes == {"completed", "interrupted", "hard_interrupted", "exceeded", "unmeasured"}
Markers == [from : 0..Epochs, start : Accounts, beat : Accounts, outcome : Outcomes \cup {"open"},
            status : {"open", "ok", "exceeded", "unmeasured"}, to : 0..Epochs, acct : Accounts]

TypeOK ==
  /\ mode \in Modes
  /\ last \in [1..Epochs -> Contents] /\ best \in [1..Epochs -> Nat]
  /\ heads \in Seq(Heads) /\ Len(heads) <= Epochs
  /\ calls \in Seq(Markers)
  /\ failed \in BOOLEAN
  /\ pc \in Places
  /\ t \in Nat /\ prior \in Accounts /\ hot \in BOOLEAN /\ loop \in Loops
  /\ origin \in Nat /\ beatAt \in Nat /\ spent \in Nat /\ faults \in 0..MaxFaults

(* (TRN-6): no second that a call was at work is lost, at whatever moment  *)
(* it is cut: what its markers and heartbeats charge covers it.            *)
NeverUndercharged ==
  calls # <<>> =>
    spent + (IF pc \in Armed \cup Closing THEN t ELSE 0)
      <= (IF Orphan THEN Claim(LastCall) ELSE LastCall.acct).seconds

(* "files first, head.json last": wherever a call is cut, the next one     *)
(* reads a checkpoint that is whole and markers it need not guess about.   *)
EveryCutIsReadable == HeadVerifies /\ (pc = "off" => MarkersLoad)

(* "two consecutive hard interrupts without a new epoch: a crash loop":    *)
(* of two calls in a row that died the second finished an epoch.           *)
DyingCallsAdvance ==
  \A n \in 1..Len(calls) - 1 :
    calls[n].outcome = "hard_interrupted" /\ calls[n + 1].outcome = "hard_interrupted"
      => calls[n + 1].to > calls[n + 1].from

(* (TRN-3), over all the calls of a run: the best epoch of a checkpoint is *)
(* the first minimum of all STOP losses so far, patience counts the epochs *)
(* since, and the run ends where the uncut run does - exactly when         *)
(* Patience epochs in a row brought no new minimum, at the horizon, or,    *)
(* under 'best_stop', with the epoch that reaches the cap - and not before.*)
FirstMinimum(s) ==
  CHOOSE i \in 1..Len(s) : \A j \in 1..Len(s) : s[i] <= s[j] /\ (j < i => s[i] < s[j])

StopsAsUncut ==
  \A k \in 1..Len(heads) :
    LET l == heads[k].last.loop IN
    /\ Len(l.stops) = k
    /\ \A j \in 1..k : SubSeq(l.stops, 1, j) = heads[j].last.loop.stops
    /\ l.best = FirstMinimum(l.stops)
    /\ l.bad = k - l.best
    /\ heads[k].done <=> \/ k - l.best >= Patience
                         \/ k = Epochs
                         \/ mode = "best_stop" /\ heads[k].acct.seconds >= WallCap
    /\ k < Len(heads) => ~heads[k].done

(* The run as a whole: an epoch is finished once and in order, none after  *)
(* the end or after a refusal, and the recorded account never goes down.   *)
Over == \/ failed \/ SomeExceeded
        \/ CrashLoop /\ pc \notin Armed \cup Closing
Recorded == Merge(Base, IF Orphan THEN LastCall.start ELSE LastFinal).seconds

Run == INSTANCE TrainRun WITH epochs <- Len(heads), ended <- RunEnded, over <- Over,
                              charge <- Recorded
ImplementsTrainRun == Run!Spec

(* However often it is cut and called again, a run comes to a result or to *)
(* its final refusal.                                                      *)
EveryRunEnds == <>(Over \/ (RunEnded /\ ~Orphan /\ pc = "off"))

(* "a run that has ended is read, not charged again: over the cap by the   *)
(* epoch that reached it is its normal state under 'best_stop'".           *)
EndedRunIsRead == mode = "best_stop" /\ RunEnded /\ pc = "store" => LastCall.acct.hot
===============================================================================
