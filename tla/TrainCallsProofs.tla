---------------------------- MODULE TrainCallsProofs ----------------------------
(***************************************************************************)
(* Proofs about TrainCalls, for every horizon, patience, heartbeat period  *)
(* and bound, any number of calls and any power cuts between their steps.  *)
(***************************************************************************)
EXTENDS TrainCallsInv, SequenceTheorems, TLAPS

-------------------------------------------------------------------------------
(* Types of the records. *)

(* The larger of two accounts is an account, at or above each of them. *)
LEMMA MergeIsAbove ==
  ASSUME NEW a \in Accounts, NEW b \in Accounts
  PROVE  /\ Merge(a, b) \in Accounts
         /\ Merge(a, b).seconds >= a.seconds
         /\ Merge(a, b).seconds >= b.seconds
BY DEF Merge, Accounts

(* The account of nothing is an account. *)
LEMMA ZeroType == Zero \in Accounts /\ Zero.seconds = 0
BY DEF Zero, Accounts

(* The newest head is a head. *)
LEMMA NewestType ==
  ASSUME TypeOK, heads # <<>>
  PROVE  /\ Len(heads) \in 1..Epochs
         /\ Newest \in Heads
         /\ Newest.acct \in Accounts /\ Newest.done \in BOOLEAN
         /\ Newest.last \in Contents /\ Newest.last.loop \in Loops
<1>1. Len(heads) \in 1..Len(heads) /\ Len(heads) \in 1..Epochs
  BY TrainAssumption DEF TypeOK
<1>2. Newest \in Heads
  BY <1>1 DEF TypeOK, Newest
<1>3. Newest.acct \in Accounts /\ Newest.done \in BOOLEAN /\ Newest.last \in Contents
  BY <1>2 DEF Heads
<1> QED BY <1>1, <1>2, <1>3 DEF Contents

(* The last marker is a marker. *)
LEMMA LastCallType ==
  ASSUME TypeOK, calls # <<>>
  PROVE  /\ Len(calls) \in 1..Len(calls)
         /\ LastCall \in Markers
         /\ LastCall.start \in Accounts /\ LastCall.beat \in Accounts /\ LastCall.acct \in Accounts
         /\ LastCall.from \in 0..Epochs
<1>1. Len(calls) \in 1..Len(calls)
  BY DEF TypeOK
<1>2. LastCall \in Markers
  BY <1>1 DEF TypeOK, LastCall
<1> QED BY <1>1, <1>2 DEF Markers

(* The accounts that a call starts from are accounts. *)
LEMMA AccountTypes ==
  ASSUME TypeOK
  PROVE  /\ Base \in Accounts /\ LastFinal \in Accounts
         /\ Prior \in Accounts /\ AtGuard \in Accounts /\ Snapshot \in Accounts
<1>1. Base \in Accounts
  BY NewestType, ZeroType DEF Base
<1>2. LastFinal \in Accounts
  BY LastCallType, ZeroType DEF LastFinal
<1>3. Prior \in Accounts
  BY <1>1, <1>2, MergeIsAbove DEF Prior
<1>4. AtGuard \in Accounts
  BY <1>3 DEF AtGuard, Accounts, TypeOK
<1>5. Snapshot \in Accounts
  BY DEF Snapshot, Accounts, TypeOK
<1> QED BY <1>1, <1>2, <1>3, <1>4, <1>5

(* A claim is an account, and its parts add up. *)
LEMMA ClaimType ==
  ASSUME NEW c \in Markers
  PROVE  /\ Claim(c) \in Accounts
         /\ Claim(c).seconds = c.start.seconds + c.beat.seconds + Period
         /\ Claim(c).seconds >= c.start.seconds
<1>1. c.start \in Accounts /\ c.beat \in Accounts
  BY DEF Markers
<1> QED BY <1>1, TrainAssumption DEF Claim, Accounts

(* What is recorded of a run is a number. *)
LEMMA RecordedType == ASSUME TypeOK PROVE Recorded \in Nat
<1>1. CASE Orphan
  <2>1. LastCall.start \in Accounts
    BY <1>1, LastCallType DEF Orphan
  <2>2. Merge(Base, LastCall.start) \in Accounts
    BY <2>1, AccountTypes, MergeIsAbove
  <2> QED BY <1>1, <2>2 DEF Recorded, Accounts
<1>2. CASE ~Orphan
  <2>1. Merge(Base, LastFinal) \in Accounts
    BY AccountTypes, MergeIsAbove
  <2> QED BY <1>2, <2>1 DEF Recorded, Accounts
<1> QED BY <1>1, <1>2

(* The end of the last call: only its marker changes, and how. *)
LEMMA SetFinalSets ==
  ASSUME TypeOK, calls # <<>>, NEW o \in Outcomes, NEW a \in Accounts, SetFinal(o, a)
  PROVE  /\ calls' \in Seq(Markers) /\ Len(calls') = Len(calls) /\ calls' # <<>>
         /\ \A n \in 1..Len(calls) - 1 : calls'[n] = calls[n]
         /\ LastCall' = Final(LastCall, o, a)
         /\ LastCall'.outcome = o /\ LastCall'.acct = a /\ LastCall'.to = Len(heads)
         /\ LastCall'.from = LastCall.from /\ LastCall'.start = LastCall.start
         /\ LastCall'.status # "open"
         /\ LastCall'.status = "exceeded" <=>
              o = "exceeded" \/ (o = "hard_interrupted" /\ Broken(a, TRUE))
<1> DEFINE f == Final(LastCall, o, a)
<1>1. LastCall \in Markers /\ Len(calls) \in 1..Len(calls)
  BY LastCallType
<1>2. Len(heads) \in 0..Epochs
  BY TrainAssumption DEF TypeOK
<1>3. f \in Markers
  BY <1>1, <1>2 DEF Final, Markers, Outcomes
<1>4. /\ f.outcome = o /\ f.acct = a /\ f.to = Len(heads)
      /\ f.from = LastCall.from /\ f.start = LastCall.start /\ f.beat = LastCall.beat
      /\ f.status # "open"
      /\ f.status = "exceeded" <=>
           o = "exceeded" \/ (o = "hard_interrupted" /\ Broken(a, TRUE))
  BY <1>1 DEF Final, Markers, Outcomes
<1>5. calls' = [calls EXCEPT ![Len(calls)] = f]
  BY DEF SetFinal, LastCall
<1> HIDE DEF f
<1>6. /\ calls' \in Seq(Markers) /\ Len(calls') = Len(calls)
      /\ \A n \in 1..Len(calls) - 1 : calls'[n] = calls[n]
      /\ calls'[Len(calls)] = f
  BY <1>1, <1>3, <1>5 DEF TypeOK
<1>7. LastCall' = f
  BY <1>6 DEF LastCall
<1>8. calls' # <<>>
  BY <1>1, <1>6
<1>9. LastCall' = Final(LastCall, o, a)
  BY <1>7 DEF f
<1>10. /\ LastCall'.outcome = o /\ LastCall'.acct = a /\ LastCall'.to = Len(heads)
       /\ LastCall'.from = LastCall.from /\ LastCall'.start = LastCall.start
       /\ LastCall'.status # "open"
       /\ LastCall'.status = "exceeded" <=>
            o = "exceeded" \/ (o = "hard_interrupted" /\ Broken(a, TRUE))
  BY <1>4, <1>7
<1> QED BY <1>6, <1>8, <1>9, <1>10

-------------------------------------------------------------------------------
(* Steps that leave some of the state alone. *)

(* The folders stay good while nobody writes them. *)
LEMMA HeadsQuiet ==
  ASSUME HeadsInv, UNCHANGED files PROVE HeadsInv'
<1>1. last' = last /\ best' = best /\ heads' = heads
  BY DEF files
<1> QED BY <1>1 DEF HeadsInv, HeadVerifies, Newest, RunEnded

(* So do the facts about pairs of calls. *)
LEMMA DyingQuiet ==
  ASSUME DyingCallsAdvance, UNCHANGED calls PROVE DyingCallsAdvance'
BY DEF DyingCallsAdvance

(* The process ends and the folder stays: nothing but the account counts.  *)
LEMMA QuitKeeps ==
  ASSUME CallsInv, Quit, UNCHANGED <<mode, files, calls>>,
         failed' \in BOOLEAN, faults' \in 0..MaxFaults, spent' \in Nat,
         IF calls = <<>> THEN spent' = 0
         ELSE spent' <= (IF Orphan THEN Claim(LastCall) ELSE LastCall.acct).seconds
  PROVE  CallsInv'
<1>1. /\ mode' = mode /\ last' = last /\ best' = best /\ heads' = heads /\ calls' = calls
      /\ UNCHANGED files
      /\ pc' = "off" /\ t' = 0 /\ prior' = Zero /\ hot' = FALSE
      /\ loop' = Fresh /\ origin' = 0 /\ beatAt' = 0
  BY DEF Quit, files
<1>2. Fresh \in Loops
  BY TrainAssumption DEF Fresh, Loops
<1>3. TypeOK'
  BY <1>1, <1>2, ZeroType DEF CallsInv, TypeOK, Places
<1>4. ~Running' /\ pc' \notin Armed
  BY <1>1 DEF Running, Armed, Closing
<1>5. MarkersInv'
  BY <1>1, <1>4 DEF CallsInv, MarkersInv, MarkersLoad, Orphan, LastCall
<1>6. ClockInv' /\ NotOverInv'
  BY <1>1, <1>4 DEF ClockInv, NotOverInv, Armed
<1>7. ChargeInv'
  BY <1>1, <1>4 DEF ChargeInv, NeverUndercharged, Running, Orphan, LastCall, Claim
<1>8. LoopInv'
  BY <1>1 DEF LoopInv
<1>9. HeadsInv' /\ DyingCallsAdvance'
  BY <1>1, HeadsQuiet, DyingQuiet DEF CallsInv
<1> QED BY <1>3, <1>5, <1>6, <1>7, <1>8, <1>9 DEF CallsInv

(* The same when the call is not at work, and is charged for nothing.      *)
LEMMA QuitIdle ==
  ASSUME CallsInv, Quit, ~Running, UNCHANGED <<mode, files, calls, spent>>,
         failed' \in BOOLEAN, faults' \in 0..MaxFaults
  PROVE  CallsInv'
<1>1. IF calls = <<>> THEN spent = 0
      ELSE spent <= (IF Orphan THEN Claim(LastCall) ELSE LastCall.acct).seconds
  BY DEF CallsInv, ChargeInv, NeverUndercharged, Running, TypeOK
<1>2. spent' = spent /\ spent' \in Nat
  BY DEF CallsInv, TypeOK
<1> QED BY <1>1, <1>2, QuitKeeps

(* Only the place changes, and not whether the call is at work.            *)
LEMMA MoveKeeps ==
  ASSUME CallsInv, UNCHANGED <<mode, files, calls, clock, loop, spent>>,
         failed' \in BOOLEAN, faults' \in 0..MaxFaults,
         pc' \in Places, Running' = Running,
         pc' \in {"adopt", "ready", "read", "store", "closed"} => pc' = pc,
         NotOverInv', LoopInv'
  PROVE  CallsInv'
<1>1. /\ mode' = mode /\ last' = last /\ best' = best /\ heads' = heads /\ calls' = calls
      /\ t' = t /\ prior' = prior /\ hot' = hot /\ loop' = loop /\ origin' = origin
      /\ beatAt' = beatAt /\ spent' = spent /\ UNCHANGED files
  BY DEF files, clock
<1>2. TypeOK'
  BY <1>1 DEF CallsInv, TypeOK
<1>3. MarkersInv'
  BY <1>1 DEF CallsInv, MarkersInv, MarkersLoad, Orphan, LastCall
<1>4. ClockInv'
  BY <1>1 DEF CallsInv, ClockInv, LastCall, Base, Newest
<1>5. ChargeInv'
  BY <1>1 DEF CallsInv, ChargeInv, NeverUndercharged, Running, Orphan, LastCall, Claim
<1>6. HeadsInv' /\ DyingCallsAdvance'
  BY <1>1, HeadsQuiet, DyingQuiet DEF CallsInv
<1> QED BY <1>2, <1>3, <1>4, <1>5, <1>6 DEF CallsInv

-------------------------------------------------------------------------------
(* A call before it is at work. *)

(* What a call reads it leaves alone, and it begins on a run not over.     *)
LEMMA StartKeeps == ASSUME CallsInv, Start PROVE CallsInv'
<1>1. /\ pc = "off" /\ ~failed /\ ~SomeExceeded /\ MarkersLoad
      /\ pc' = (IF Orphan THEN "adopt" ELSE "ready")
      /\ UNCHANGED <<mode, files, calls, failed, clock, loop, spent, faults>>
  BY DEF Start
<1>2. /\ mode' = mode /\ last' = last /\ best' = best /\ heads' = heads /\ calls' = calls
      /\ t' = t /\ prior' = prior /\ hot' = hot /\ loop' = loop /\ origin' = origin
      /\ beatAt' = beatAt /\ spent' = spent /\ UNCHANGED files /\ failed' = failed /\ faults' = faults
  BY <1>1 DEF files, clock
<1>3. TypeOK'
  BY <1>1, <1>2 DEF CallsInv, TypeOK, Places
<1>4. ~Running /\ ~Running' /\ pc' \in {"adopt", "ready"}
  BY <1>1 DEF Running, Armed, Closing
<1>5. MarkersInv'
  BY <1>1, <1>2, <1>4 DEF CallsInv, MarkersInv, MarkersLoad, Orphan, LastCall
<1>6. ClockInv'
  BY <1>4 DEF ClockInv
<1>7. ChargeInv'
  BY <1>2, <1>4 DEF CallsInv, ChargeInv, NeverUndercharged, Running, Orphan, LastCall, Claim
<1>8. NotOverInv'
  BY <1>1, <1>2 DEF NotOverInv, SomeExceeded
<1>9. LoopInv'
  BY <1>4 DEF LoopInv
<1>10. HeadsInv' /\ DyingCallsAdvance'
  BY <1>2, HeadsQuiet, DyingQuiet DEF CallsInv
<1> QED BY <1>3, <1>5, <1>6, <1>7, <1>8, <1>9, <1>10 DEF CallsInv

(* The adopted call is charged its claim at least; two that died in a row  *)
(* are adopted only when the second went on.                               *)
LEMMA AdoptKeeps == ASSUME CallsInv, Adopt PROVE CallsInv'
<1> DEFINE charged == Merge(Base, Claim(LastCall))
<1>1. /\ pc = "adopt" /\ ~CrashLoop
      /\ SetFinal("hard_interrupted", charged)
      /\ pc' = (IF Broken(charged, TRUE) THEN "store" ELSE "ready")
      /\ UNCHANGED <<mode, files, failed, clock, loop, spent, faults>>
  BY DEF Adopt
<1>2. /\ mode' = mode /\ last' = last /\ best' = best /\ heads' = heads
      /\ t' = t /\ prior' = prior /\ hot' = hot /\ loop' = loop /\ origin' = origin
      /\ beatAt' = beatAt /\ spent' = spent /\ UNCHANGED files /\ failed' = failed /\ faults' = faults
  BY <1>1 DEF files, clock
<1>3. TypeOK /\ Orphan /\ calls # <<>> /\ LastCall \in Markers /\ Len(calls) \in 1..Len(calls)
  BY <1>1, LastCallType DEF CallsInv, MarkersInv, Orphan
<1>4. charged \in Accounts /\ charged.seconds >= Claim(LastCall).seconds
  BY <1>3, ClaimType, AccountTypes, MergeIsAbove
<1> HIDE DEF charged
<1>5. "hard_interrupted" \in Outcomes
  BY DEF Outcomes
<1>6. /\ calls' \in Seq(Markers) /\ Len(calls') = Len(calls) /\ calls' # <<>>
      /\ \A n \in 1..Len(calls) - 1 : calls'[n] = calls[n]
      /\ LastCall'.outcome = "hard_interrupted" /\ LastCall'.acct = charged
      /\ LastCall'.to = Len(heads) /\ LastCall'.from = LastCall.from
      /\ LastCall'.status # "open"
      /\ LastCall'.status = "exceeded" <=> Broken(charged, TRUE)
  BY <1>1, <1>3, <1>4, <1>5, SetFinalSets
<1>7. TypeOK'
  BY <1>1, <1>2, <1>6 DEF CallsInv, TypeOK, Places
<1>8. ~Running /\ ~Running' /\ pc' \in {"store", "ready"}
  BY <1>1 DEF Running, Armed, Closing
<1>9. \A n \in 1..Len(calls) : n \in 1..Len(calls) - 1 \/ n = Len(calls)
  BY <1>3
<1>10. MarkersInv'
  <2>1. calls'[Len(calls)] = LastCall'
    BY <1>6 DEF LastCall
  <2>2. MarkersLoad'
    BY <1>6 DEF CallsInv, MarkersInv, MarkersLoad
  <2>3. ~Orphan'
    BY <1>6 DEF Orphan
  <2>4. \A n \in 1..Len(calls') : calls'[n].outcome = "open" <=> calls'[n].status = "open"
    BY <1>6, <1>9, <2>1 DEF CallsInv, MarkersInv
  <2> QED BY <1>8, <2>2, <2>3, <2>4 DEF MarkersInv
<1>11. ChargeInv'
  <2>1. spent <= Claim(LastCall).seconds
    BY <1>3, <1>8 DEF CallsInv, ChargeInv, NeverUndercharged, Running, TypeOK
  <2>2. spent \in Nat /\ Claim(LastCall).seconds \in Nat /\ charged.seconds \in Nat
    BY <1>3, <1>4, ClaimType DEF TypeOK, Accounts
  <2>3. spent <= charged.seconds
    BY <1>4, <2>1, <2>2
  <2>4. ~Orphan'
    BY <1>6 DEF Orphan
  <2> QED BY <1>2, <1>6, <1>8, <2>2, <2>3, <2>4 DEF ChargeInv, NeverUndercharged, Running
<1>12. NotOverInv'
  <2>1. ~failed /\ \A n \in 1..Len(calls) : calls[n].status # "exceeded"
    BY <1>1 DEF CallsInv, NotOverInv, SomeExceeded
  <2>2. CASE Broken(charged, TRUE)
    BY <1>1, <2>2 DEF NotOverInv, Armed
  <2>3. CASE ~Broken(charged, TRUE)
    <3>1. calls'[Len(calls)].status # "exceeded"
      BY <1>6, <2>3 DEF LastCall
    <3>2. \A n \in 1..Len(calls') : calls'[n].status # "exceeded"
      BY <1>6, <1>9, <2>1, <3>1
    <3> QED BY <1>2, <2>1, <3>2 DEF NotOverInv, SomeExceeded
  <2> QED BY <2>2, <2>3
<1>13. DyingCallsAdvance'
  <2> SUFFICES ASSUME NEW n \in 1..Len(calls') - 1,
                      calls'[n].outcome = "hard_interrupted",
                      calls'[n + 1].outcome = "hard_interrupted"
               PROVE  calls'[n + 1].to > calls'[n + 1].from
    BY DEF DyingCallsAdvance
  <2>1. calls'[n] = calls[n]
    BY <1>6
  <2>2. CASE n + 1 \in 1..Len(calls) - 1
    BY <1>6, <2>1, <2>2 DEF CallsInv, DyingCallsAdvance
  <2>3. CASE n + 1 = Len(calls)
    <3>1. calls[Len(calls) - 1].outcome = "hard_interrupted" /\ Len(calls) > 1
      BY <1>3, <2>1, <2>3
    <3>2. LastCall.from # Len(heads)
      BY <1>1, <1>3, <3>1 DEF CrashLoop
    <3>3. LastCall.from <= Len(heads) /\ LastCall.from \in Nat /\ Len(heads) \in Nat
      BY <1>3, LastCallType DEF CallsInv, MarkersInv, TypeOK
    <3>4. calls'[n + 1] = LastCall'
      BY <1>6, <2>3 DEF LastCall
    <3> QED BY <1>6, <3>2, <3>3, <3>4
  <2> QED BY <1>3, <1>6, <2>2, <2>3
<1>14. ClockInv' /\ LoopInv'
  BY <1>8 DEF ClockInv, LoopInv
<1>15. HeadsInv'
  BY <1>2, HeadsQuiet DEF CallsInv
<1> QED BY <1>7, <1>10, <1>11, <1>12, <1>13, <1>14, <1>15 DEF CallsInv

(* The refusals and the ends without a call of their own. *)
LEMMA RefusalsKeep ==
  ASSUME CallsInv, RefuseCrashLoop \/ StoreFailure \/ RefuseOver \/ ReturnResult \/ Closed
  PROVE  CallsInv'
<1>1. ~Running
  BY DEF RefuseCrashLoop, StoreFailure, RefuseOver, ReturnResult, Closed, Running, Armed, Closing
<1>2. failed \in BOOLEAN /\ faults \in 0..MaxFaults
  BY DEF CallsInv, TypeOK
<1>3. Quit /\ UNCHANGED <<mode, files, calls, spent, faults>> /\ failed' \in BOOLEAN
  <2>1. CASE RefuseCrashLoop
    BY <1>2, <2>1 DEF RefuseCrashLoop
  <2>2. CASE StoreFailure \/ RefuseOver
    BY <2>2 DEF StoreFailure, RefuseOver
  <2>3. CASE ReturnResult \/ Closed
    BY <1>2, <2>3 DEF ReturnResult, Closed
  <2> QED BY <2>1, <2>2, <2>3
<1> QED BY <1>1, <1>2, <1>3, QuitIdle

(* A run that has ended is read: no call begins. *)
LEMMA ReadResultKeeps == ASSUME CallsInv, ReadResult PROVE CallsInv'
<1>1. /\ pc = "ready" /\ prior' = Prior /\ pc' = "read"
      /\ UNCHANGED <<mode, files, calls, failed, t, hot, origin, beatAt, loop, spent, faults>>
  BY DEF ReadResult
<1>2. UNCHANGED <<last, best, heads>>
  BY <1>1 DEF files
<1>3. TypeOK'
  BY <1>1, <1>2, AccountTypes DEF CallsInv, TypeOK, Places
<1>4. ~Running /\ ~Running'
  BY <1>1 DEF Running, Armed, Closing
<1>5. MarkersInv'
  BY <1>1, <1>2, <1>4 DEF CallsInv, MarkersInv, MarkersLoad, Orphan, LastCall
<1>6. ChargeInv'
  BY <1>1, <1>4 DEF CallsInv, ChargeInv, NeverUndercharged, Running, Orphan, LastCall, Claim
<1>7. ClockInv' /\ NotOverInv' /\ LoopInv'
  BY <1>1, <1>4 DEF ClockInv, NotOverInv, LoopInv, Armed
<1>8. HeadsInv' /\ DyingCallsAdvance'
  BY <1>1, HeadsQuiet, DyingQuiet DEF CallsInv
<1> QED BY <1>3, <1>5, <1>6, <1>7, <1>8 DEF CallsInv

-------------------------------------------------------------------------------
(* A call at work: its markers and its clock. *)

(* A call begins: on its own marker, above all that was charged before.    *)
LEMMA BeginKeeps == ASSUME CallsInv, Begin PROVE CallsInv'
<1> DEFINE c == NewCall(AtGuard)
<1>1. /\ pc = "ready" /\ ~RunEnded
      /\ calls' = Append(calls, c)
      /\ prior' = Prior /\ origin' = t /\ beatAt' = t
      /\ loop' = (IF heads = <<>> THEN Fresh ELSE last[Len(heads)].loop)
      /\ pc' = "train"
      /\ UNCHANGED <<mode, files, failed, t, hot, spent, faults>>
  BY DEF Begin
<1>2. /\ mode' = mode /\ last' = last /\ best' = best /\ heads' = heads /\ UNCHANGED files
      /\ failed' = failed /\ t' = t /\ hot' = hot /\ spent' = spent /\ faults' = faults
  BY <1>1 DEF files
<1>3. TypeOK /\ ~Orphan /\ MarkersLoad
  BY <1>1 DEF CallsInv, MarkersInv
<1>4. Prior \in Accounts /\ AtGuard \in Accounts /\ AtGuard.seconds = Prior.seconds + t
  BY <1>3, AccountTypes DEF AtGuard
<1>5. Len(heads) \in 0..Epochs /\ t \in Nat /\ spent \in Nat /\ Prior.seconds \in Nat /\ Period \in Nat
  BY <1>3, <1>4, TrainAssumption DEF TypeOK, Accounts
<1>6. /\ c \in Markers /\ c.outcome = "open" /\ c.status = "open" /\ c.from = Len(heads)
      /\ c.start = AtGuard /\ c.beat = Zero
  <2>1. Zero \in Accounts /\ 0 \in 0..Epochs
    BY ZeroType, TrainAssumption
  <2>2. c \in Markers
    BY <1>4, <1>5, <2>1 DEF NewCall, Markers
  <2> QED BY <2>2 DEF NewCall
<1> HIDE DEF c
<1>7. /\ calls' \in Seq(Markers) /\ Len(calls') = Len(calls) + 1 /\ calls' # <<>>
      /\ \A n \in 1..Len(calls) : calls'[n] = calls[n]
      /\ calls'[Len(calls) + 1] = c /\ Len(calls) \in Nat
  BY <1>1, <1>3, <1>6 DEF TypeOK
<1>8. LastCall' = c /\ Orphan'
  BY <1>6, <1>7 DEF LastCall, Orphan
<1>9. loop' \in Loops
  <2>1. Fresh \in Loops
    BY TrainAssumption DEF Fresh, Loops
  <2>2. ASSUME heads # <<>> PROVE last[Len(heads)].loop \in Loops
    <3>1. last[Len(heads)] \in Contents
      BY <1>3, <2>2, NewestType DEF TypeOK
    <3> QED BY <3>1 DEF Contents
  <2> QED BY <1>1, <2>1, <2>2
<1>10. TypeOK'
  BY <1>1, <1>2, <1>3, <1>4, <1>7, <1>9 DEF TypeOK, Places, Armed
<1>11. Running' /\ ~Running
  BY <1>1 DEF Running, Armed, Closing
<1>12. \A n \in 1..Len(calls) : calls[n].outcome # "open"
  BY <1>3, <1>7 DEF MarkersLoad, Orphan, LastCall
<1>13. MarkersInv'
  <2>1. MarkersLoad'
    BY <1>7, <1>12 DEF MarkersLoad
  <2>2. \A n \in 1..Len(calls') : n \in 1..Len(calls) \/ n = Len(calls) + 1
    BY <1>7
  <2>3. \A n \in 1..Len(calls') : calls'[n].outcome = "open" <=> calls'[n].status = "open"
    BY <1>6, <1>7, <2>2 DEF CallsInv, MarkersInv
  <2>4. LastCall'.from <= Len(heads')
    BY <1>2, <1>5, <1>6, <1>8
  <2> QED BY <1>1, <1>8, <2>1, <2>3, <2>4 DEF MarkersInv
<1>14. spent <= Prior.seconds
  <2>1. CASE calls = <<>>
    BY <1>5, <2>1 DEF CallsInv, ChargeInv
  <2>2. CASE calls # <<>>
    <3>1. spent <= LastFinal.seconds
      BY <1>3, <1>5, <1>11, <2>2 DEF CallsInv, ChargeInv, NeverUndercharged, Running, LastFinal
    <3>2. LastFinal \in Accounts /\ LastFinal.seconds <= Prior.seconds
      BY <1>3, AccountTypes, MergeIsAbove DEF Prior
    <3>3. LastFinal.seconds \in Nat
      BY <3>2 DEF Accounts
    <3> QED BY <1>5, <3>1, <3>2, <3>3
  <2> QED BY <2>1, <2>2
<1>15. Base.seconds <= Prior.seconds /\ Base.seconds \in Nat
  BY <1>3, AccountTypes, MergeIsAbove DEF Prior, Accounts
<1>16. ClockInv'
  <2>1. LastCall'.start.seconds = prior'.seconds + origin'
    BY <1>1, <1>4, <1>6, <1>8
  <2>2. origin' + LastCall'.beat.seconds = beatAt'
    BY <1>1, <1>5, <1>6, <1>8, ZeroType
  <2>3. beatAt' <= t' /\ t' <= beatAt' + Period
    BY <1>1, <1>2, <1>5
  <2>4. spent' <= prior'.seconds
    BY <1>1, <1>2, <1>14
  <2>5. Base'.seconds <= prior'.seconds + t'
    BY <1>1, <1>2, <1>5, <1>15 DEF Base, Newest
  <2> QED BY <2>1, <2>2, <2>3, <2>4, <2>5 DEF ClockInv
<1>17. ChargeInv'
  <2>1. Claim(LastCall)' = Claim(c)
    BY <1>8 DEF Claim
  <2>2. Claim(c).seconds = Prior.seconds + t + 0 + Period
    BY <1>4, <1>5, <1>6, ClaimType, ZeroType
  <2>3. spent' + t' <= Claim(c).seconds
    BY <1>2, <1>5, <1>14, <2>2
  <2> QED BY <1>7, <1>8, <1>11, <2>1, <2>3 DEF ChargeInv, NeverUndercharged, Running
<1>18. NotOverInv'
  <2>1. ~failed /\ \A n \in 1..Len(calls) : calls[n].status # "exceeded"
    BY <1>1 DEF CallsInv, NotOverInv, SomeExceeded
  <2>2. \A n \in 1..Len(calls') : calls'[n].status # "exceeded"
    BY <1>6, <1>7, <2>1
  <2> QED BY <1>2, <2>1, <2>2 DEF NotOverInv, SomeExceeded
<1>19. HeadsInv'
  BY <1>2, HeadsQuiet DEF CallsInv
<1>20. LoopInv'
  <2>1. CASE heads = <<>>
    <3>1. loop' = Fresh /\ heads' = <<>>
      BY <1>1, <1>2, <2>1
    <3>2. Epoch' = Len(heads')
      BY <3>1 DEF Epoch, Fresh
    <3> QED BY <1>1, <3>1, <3>2 DEF LoopInv, RunEnded
  <2>2. CASE heads # <<>>
    <3>1. loop' = Newest.last.loop /\ Len(Newest.last.loop.stops) = Len(heads)
      BY <1>1, <2>2 DEF CallsInv, HeadsInv, HeadVerifies
    <3>2. Epoch' = Len(heads') /\ heads' # <<>> /\ loop' = Newest'.last.loop /\ ~RunEnded'
      BY <1>1, <1>2, <2>2, <3>1 DEF Epoch, Newest, RunEnded
    <3> QED BY <1>1, <3>2 DEF LoopInv
  <2> QED BY <2>1, <2>2
<1>21. DyingCallsAdvance'
  <2> SUFFICES ASSUME NEW n \in 1..Len(calls') - 1,
                      calls'[n].outcome = "hard_interrupted",
                      calls'[n + 1].outcome = "hard_interrupted"
               PROVE  calls'[n + 1].to > calls'[n + 1].from
    BY DEF DyingCallsAdvance
  <2>1. n + 1 # Len(calls) + 1
    BY <1>6, <1>7
  <2>2. n \in 1..Len(calls) - 1 /\ n + 1 \in 1..Len(calls) /\ n \in 1..Len(calls)
    BY <1>7, <2>1
  <2>3. calls'[n] = calls[n] /\ calls'[n + 1] = calls[n + 1]
    BY <1>7, <2>2
  <2> QED BY <2>2, <2>3 DEF CallsInv, DyingCallsAdvance
<1> QED BY <1>10, <1>13, <1>16, <1>17, <1>18, <1>19, <1>20, <1>21 DEF CallsInv

(* The claim of a call at work, in terms of its clock.                     *)
LEMMA ClaimOfRunning ==
  ASSUME CallsInv, Running
  PROVE  /\ calls # <<>> /\ Orphan /\ LastCall \in Markers
         /\ Claim(LastCall).seconds = prior.seconds + beatAt + Period
         /\ prior.seconds \in Nat /\ beatAt \in Nat /\ origin \in Nat /\ t \in Nat
         /\ spent \in Nat /\ Period \in Nat \ {0}
         /\ spent <= prior.seconds /\ beatAt <= t /\ t <= beatAt + Period /\ origin <= beatAt
         /\ LastCall.start.seconds = prior.seconds + origin
<1>1. Orphan /\ calls # <<>> /\ TypeOK
  BY DEF CallsInv, MarkersInv, Orphan
<1>2. /\ LastCall \in Markers /\ LastCall.start.seconds \in Nat /\ LastCall.beat.seconds \in Nat
      /\ Claim(LastCall).seconds = LastCall.start.seconds + LastCall.beat.seconds + Period
  BY <1>1, LastCallType, ClaimType DEF Accounts
<1>3. /\ prior.seconds \in Nat /\ beatAt \in Nat /\ origin \in Nat /\ t \in Nat
      /\ spent \in Nat /\ Period \in Nat \ {0}
  BY <1>1, TrainAssumption DEF TypeOK, Accounts
<1>4. /\ LastCall.start.seconds = prior.seconds + origin
      /\ origin + LastCall.beat.seconds = beatAt
      /\ spent <= prior.seconds /\ beatAt <= t /\ t <= beatAt + Period
  BY DEF CallsInv, ClockInv
<1>5. Claim(LastCall).seconds = prior.seconds + beatAt + Period /\ origin <= beatAt
  BY <1>2, <1>3, <1>4
<1> QED BY <1>1, <1>2, <1>3, <1>4, <1>5

(* Time passes, never more than a period after a heartbeat. *)
LEMMA TickKeeps == ASSUME CallsInv, Tick PROVE CallsInv'
<1>1. /\ pc \in {"ready", "read", "train", "end"} /\ t' = t + 1
      /\ pc \in Armed => t - beatAt < Period
      /\ UNCHANGED <<mode, files, calls, failed, pc, prior, hot, origin, beatAt, loop, spent, faults>>
  BY DEF Tick
<1>2. UNCHANGED <<last, best, heads>> /\ Running' = Running
  BY <1>1 DEF files, Running
<1>3. TypeOK'
  BY <1>1, <1>2 DEF CallsInv, TypeOK
<1>4. MarkersInv'
  BY <1>1, <1>2 DEF CallsInv, MarkersInv, MarkersLoad, Orphan, LastCall
<1>5. ASSUME Running PROVE t' \in Nat /\ beatAt <= t' /\ t' <= beatAt + Period
  <2>1. pc \in Armed
    BY <1>1, <1>5 DEF Running, Armed, Closing
  <2> QED BY <1>1, <1>5, <2>1, ClaimOfRunning
<1>6. ClockInv'
  <2> SUFFICES ASSUME Running' PROVE ClockInv'
    BY DEF ClockInv
  <2>1. Running
    BY <1>2
  <2>2. Base.seconds <= prior.seconds + t /\ Base.seconds \in Nat
    BY <2>1, AccountTypes DEF CallsInv, ClockInv, Accounts
  <2>3. Base.seconds <= prior.seconds + t'
    BY <1>1, <2>1, <2>2, ClaimOfRunning
  <2>4. Base' = Base /\ LastCall' = LastCall
    BY <1>1, <1>2 DEF Base, Newest, LastCall
  <2> QED BY <1>1, <1>5, <2>1, <2>3, <2>4 DEF CallsInv, ClockInv
<1>7. ChargeInv'
  <2>1. CASE Running
    <3>1. spent + t' <= Claim(LastCall).seconds
      BY <1>5, <2>1, ClaimOfRunning
    <3> QED BY <1>1, <1>2, <2>1, <3>1, ClaimOfRunning
            DEF ChargeInv, NeverUndercharged, Running, Orphan, LastCall, Claim
  <2>2. CASE ~Running
    BY <1>1, <2>2 DEF CallsInv, ChargeInv, NeverUndercharged, Running, Orphan, LastCall, Claim
  <2> QED BY <2>1, <2>2
<1>8. NotOverInv' /\ LoopInv'
  BY <1>1, <1>2 DEF CallsInv, NotOverInv, SomeExceeded, LoopInv, Newest, RunEnded, Epoch, Content
<1>9. HeadsInv' /\ DyingCallsAdvance'
  BY <1>1, HeadsQuiet, DyingQuiet DEF CallsInv
<1> QED BY <1>3, <1>4, <1>6, <1>7, <1>8, <1>9 DEF CallsInv

(* A hot sample is kept in memory only. *)
LEMMA HotKeeps == ASSUME CallsInv, Hot PROVE CallsInv'
<1>1. /\ hot' = TRUE
      /\ UNCHANGED <<mode, files, calls, failed, pc, t, prior, origin, beatAt, loop, spent, faults>>
  BY DEF Hot
<1>2. UNCHANGED <<last, best, heads>> /\ Running' = Running
  BY <1>1 DEF files, Running
<1>3. TypeOK'
  BY <1>1, <1>2 DEF CallsInv, TypeOK
<1>4. MarkersInv'
  BY <1>1, <1>2 DEF CallsInv, MarkersInv, MarkersLoad, Orphan, LastCall
<1>5. ClockInv'
  BY <1>1, <1>2 DEF CallsInv, ClockInv, LastCall, Base, Newest
<1>6. ChargeInv'
  BY <1>1, <1>2 DEF CallsInv, ChargeInv, NeverUndercharged, Running, Orphan, LastCall, Claim
<1>7. NotOverInv' /\ LoopInv'
  BY <1>1, <1>2 DEF CallsInv, NotOverInv, SomeExceeded, LoopInv, Newest, RunEnded, Epoch, Content
<1>8. HeadsInv' /\ DyingCallsAdvance'
  BY <1>1, HeadsQuiet, DyingQuiet DEF CallsInv
<1> QED BY <1>3, <1>4, <1>5, <1>6, <1>7, <1>8 DEF CallsInv

(* A heartbeat writes the time since the marker: the claim grows with it.  *)
LEMMA BeatSets ==
  ASSUME CallsInv, Beat
  PROVE  /\ Running /\ UNCHANGED <<mode, files, failed, pc, t, prior, hot, origin, loop, spent, faults>>
         /\ beatAt' = t
         /\ calls' \in Seq(Markers) /\ Len(calls') = Len(calls) /\ calls' # <<>>
         /\ \A n \in 1..Len(calls) : /\ calls'[n].outcome = calls[n].outcome
                                     /\ calls'[n].status = calls[n].status
                                     /\ calls'[n].from = calls[n].from
                                     /\ calls'[n].to = calls[n].to
                                     /\ calls'[n].start = calls[n].start
                                     /\ calls'[n].acct = calls[n].acct
         /\ LastCall'.beat.seconds = t - origin
<1> DEFINE b == [seconds |-> t - origin, hot |-> prior.hot \/ hot]
           c == [LastCall EXCEPT !.beat = b]
<1>1. /\ pc \in Armed
      /\ calls' = [calls EXCEPT ![Len(calls)].beat = b]
      /\ beatAt' = t
      /\ UNCHANGED <<mode, files, failed, pc, t, prior, hot, origin, loop, spent, faults>>
  BY DEF Beat
<1>2. Running
  BY <1>1 DEF Running
<1>3. TypeOK /\ calls # <<>> /\ LastCall \in Markers /\ Len(calls) \in 1..Len(calls)
  BY <1>2, ClaimOfRunning, LastCallType DEF CallsInv
<1>4. b \in Accounts
  <2>1. t - origin \in Nat
    BY <1>2, ClaimOfRunning
  <2>2. (prior.hot \/ hot) \in BOOLEAN
    BY <1>3 DEF TypeOK, Accounts
  <2> QED BY <2>1, <2>2 DEF Accounts
<1>5. /\ c \in Markers /\ c.outcome = LastCall.outcome /\ c.status = LastCall.status
      /\ c.from = LastCall.from /\ c.to = LastCall.to /\ c.start = LastCall.start
      /\ c.acct = LastCall.acct /\ c.beat = b
  <2> HIDE DEF b
  <2> QED BY <1>3, <1>4 DEF Markers
<1>6. calls' = [calls EXCEPT ![Len(calls)] = c]
  BY <1>1 DEF LastCall
<1>7. b.seconds = t - origin
  OBVIOUS
<1> HIDE DEF c, b
<1>8. /\ calls' \in Seq(Markers) /\ Len(calls') = Len(calls)
      /\ \A n \in 1..Len(calls) : calls'[n] = IF n = Len(calls) THEN c ELSE calls[n]
  BY <1>3, <1>5, <1>6 DEF TypeOK
<1>9. calls' # <<>> /\ LastCall' = c
  BY <1>3, <1>8 DEF LastCall
<1>10. \A n \in 1..Len(calls) : /\ calls'[n].outcome = calls[n].outcome
                               /\ calls'[n].status = calls[n].status
                               /\ calls'[n].from = calls[n].from
                               /\ calls'[n].to = calls[n].to
                               /\ calls'[n].start = calls[n].start
                               /\ calls'[n].acct = calls[n].acct
  BY <1>5, <1>8 DEF LastCall
<1> QED BY <1>1, <1>2, <1>5, <1>7, <1>8, <1>9, <1>10

(* A heartbeat keeps the invariant. *)
LEMMA BeatKeeps == ASSUME CallsInv, Beat PROVE CallsInv'
<1>1. /\ Running /\ UNCHANGED <<mode, files, failed, pc, t, prior, hot, origin, loop, spent, faults>>
      /\ beatAt' = t
      /\ calls' \in Seq(Markers) /\ Len(calls') = Len(calls) /\ calls' # <<>>
      /\ LastCall'.beat.seconds = t - origin
  BY BeatSets
<1>2. \A n \in 1..Len(calls) : /\ calls'[n].outcome = calls[n].outcome
                              /\ calls'[n].status = calls[n].status
                              /\ calls'[n].from = calls[n].from
                              /\ calls'[n].to = calls[n].to
                              /\ calls'[n].start = calls[n].start
                              /\ calls'[n].acct = calls[n].acct
  BY BeatSets
<1>3. UNCHANGED <<last, best, heads>> /\ Running'
  BY <1>1 DEF files, Running
<1>4. /\ TypeOK /\ calls # <<>> /\ Orphan /\ Len(calls) \in 1..Len(calls)
      /\ spent <= prior.seconds /\ origin <= t /\ LastCall.start.seconds = prior.seconds + origin
      /\ spent \in Nat /\ prior.seconds \in Nat /\ origin \in Nat /\ t \in Nat /\ Period \in Nat \ {0}
  BY <1>1, ClaimOfRunning, LastCallType DEF CallsInv
<1>5. TypeOK'
  BY <1>1, <1>3, <1>4 DEF TypeOK
<1>6. /\ LastCall'.start = LastCall.start /\ LastCall'.from = LastCall.from
      /\ LastCall'.outcome = LastCall.outcome
  BY <1>1, <1>2, <1>4 DEF LastCall
<1>7. Orphan'
  BY <1>1, <1>4, <1>6 DEF Orphan
<1>8. MarkersInv'
  <2>1. MarkersLoad'
    BY <1>1, <1>2, <1>4 DEF CallsInv, MarkersInv, MarkersLoad
  <2>2. \A n \in 1..Len(calls') : calls'[n].outcome = "open" <=> calls'[n].status = "open"
    BY <1>1, <1>2 DEF CallsInv, MarkersInv
  <2>3. pc' \notin {"ready", "read", "store", "closed"}
    BY <1>1 DEF Running, Armed, Closing
  <2> QED BY <1>3, <1>4, <1>6, <1>7, <2>1, <2>2, <2>3 DEF CallsInv, MarkersInv
<1>9. ClockInv'
  <2>1. origin + (t - origin) = t /\ t <= t /\ t <= t + Period
    BY <1>4
  <2>2. Base' = Base /\ Base.seconds <= prior.seconds + t
    BY <1>1, <1>3 DEF CallsInv, ClockInv, Base, Newest
  <2> QED BY <1>1, <1>4, <1>6, <2>1, <2>2 DEF ClockInv
<1>10. ChargeInv'
  <2>1. LastCall' \in Markers
    BY <1>5, <1>1, LastCallType DEF TypeOK, LastCall
  <2>2. Claim(LastCall)' = Claim(LastCall')
    BY DEF Claim
  <2>3. Claim(LastCall)'.seconds = LastCall'.start.seconds + LastCall'.beat.seconds + Period
    BY <2>1, <2>2, ClaimType
  <2>4. Claim(LastCall)'.seconds = prior.seconds + origin + (t - origin) + Period
    BY <1>1, <1>4, <1>6, <2>3
  <2>5. spent + t <= Claim(LastCall)'.seconds
    BY <1>4, <2>4
  <2> QED BY <1>1, <1>3, <1>7, <2>5 DEF ChargeInv, NeverUndercharged, Running
<1>11. NotOverInv'
  <2>1. SomeExceeded' <=> SomeExceeded
    BY <1>1, <1>2 DEF SomeExceeded
  <2> QED BY <1>1, <2>1 DEF CallsInv, NotOverInv
<1>12. LoopInv'
  <2>1. Len(calls') = Len(calls)
    BY <1>1
  <2> QED BY <1>1, <1>3, <2>1 DEF CallsInv, LoopInv, Newest, RunEnded, Epoch, Content
<1>13. HeadsInv'
  BY <1>1, HeadsQuiet DEF CallsInv
<1>14. DyingCallsAdvance'
  <2> SUFFICES ASSUME NEW n \in 1..Len(calls') - 1,
                      calls'[n].outcome = "hard_interrupted",
                      calls'[n + 1].outcome = "hard_interrupted"
               PROVE  calls'[n + 1].to > calls'[n + 1].from
    BY DEF DyingCallsAdvance
  <2>1. n \in 1..Len(calls) - 1 /\ n \in 1..Len(calls) /\ n + 1 \in 1..Len(calls)
    BY <1>1, <1>4
  <2> QED BY <1>2, <2>1 DEF CallsInv, DyingCallsAdvance
<1> QED BY <1>5, <1>8, <1>9, <1>10, <1>11, <1>12, <1>13, <1>14 DEF CallsInv

-------------------------------------------------------------------------------
(* A call at work: its epochs and their files. *)

(* The loop between epochs is the loop of the newest head: its best epoch  *)
(* is there and its best state is in the folder.                           *)
LEMMA LoopBetween ==
  ASSUME CallsInv, pc = "train"
  PROVE  /\ Epoch = Len(heads) /\ Len(heads) \in Nat /\ Len(heads) + 1 \in 1..Epochs
         /\ ~RunEnded
         /\ loop.best = 0 \/ loop.best \in 1..Len(heads)
         /\ loop.best # 0 => best[loop.best] = loop.by
<1>1. TypeOK /\ HeadsInv /\ LoopInv
  BY DEF CallsInv
<1>2. Epoch = Len(heads) /\ ~RunEnded
  BY <1>1 DEF LoopInv
<1>3. Len(heads) \in Nat /\ Len(heads) + 1 \in 1..Epochs
  BY <1>1, <1>2, TrainAssumption DEF HeadsInv, TypeOK
<1>4. CASE heads = <<>>
  BY <1>1, <1>2, <1>3, <1>4 DEF LoopInv, Fresh
<1>5. CASE heads # <<>>
  <2>1. loop = Newest.last.loop
    BY <1>1, <1>5 DEF LoopInv
  <2>2. Newest.last.loop.best \in 1..Len(heads) /\ best[Newest.last.loop.best] = Newest.last.loop.by
    BY <1>1, <1>5 DEF HeadsInv, HeadVerifies
  <2> QED BY <1>2, <1>3, <2>1, <2>2
<1> QED BY <1>4, <1>5

(* An epoch ends: its loop names a best epoch that will be in the folder.  *)
LEMMA EpochEndKeeps == ASSUME CallsInv, NEW v \in Losses, EpochEnd(v) PROVE CallsInv'
<1> DEFINE k == Len(loop.stops) + 1
           l == [stops |-> Append(loop.stops, v),
                 best |-> IF Improves(v) THEN k ELSE loop.best,
                 by |-> IF Improves(v) THEN Len(calls) ELSE loop.by,
                 bad |-> IF Improves(v) THEN 0 ELSE loop.bad + 1]
<1>1. /\ pc = "train" /\ loop' = l /\ pc' = "last"
      /\ UNCHANGED <<mode, files, calls, failed, clock, spent, faults>>
  BY DEF EpochEnd
<1>2. /\ mode' = mode /\ last' = last /\ best' = best /\ heads' = heads /\ calls' = calls
      /\ t' = t /\ prior' = prior /\ hot' = hot /\ origin' = origin
      /\ beatAt' = beatAt /\ spent' = spent /\ UNCHANGED files /\ failed' = failed /\ faults' = faults
  BY <1>1 DEF files, clock
<1>3. TypeOK /\ loop \in Loops /\ Len(calls) \in Nat
  BY DEF CallsInv, TypeOK
<1>4. /\ Epoch = Len(heads) /\ Len(heads) \in Nat /\ Len(heads) + 1 \in 1..Epochs /\ ~RunEnded
      /\ loop.best = 0 \/ loop.best \in 1..Len(heads)
      /\ loop.best # 0 => best[loop.best] = loop.by
  BY <1>1, LoopBetween
<1>5. /\ loop.stops \in Seq(Losses) /\ loop.best \in 0..Epochs /\ loop.by \in Nat /\ loop.bad \in Nat
      /\ k = Len(heads) + 1
  BY <1>3, <1>4 DEF Loops, Epoch
<1>6. /\ Append(loop.stops, v) \in Seq(Losses)
      /\ Len(Append(loop.stops, v)) = Len(heads) + 1
  BY <1>4, <1>5 DEF Epoch
<1>7. l \in Loops
  <2>1. (IF Improves(v) THEN k ELSE loop.best) \in 0..Epochs
    BY <1>4, <1>5, TrainAssumption
  <2>2. (IF Improves(v) THEN Len(calls) ELSE loop.by) \in Nat /\ (IF Improves(v) THEN 0 ELSE loop.bad + 1) \in Nat
    BY <1>3, <1>5
  <2> QED BY <1>6, <2>1, <2>2 DEF Loops
<1>8. /\ Len(l.stops) = Len(heads) + 1
      /\ l.best \in 1..Len(heads) + 1
      /\ l.best # Len(heads) + 1 => best[l.best] = l.by
  <2>1. CASE Improves(v)
    BY <1>4, <1>5, <1>6, <2>1
  <2>2. CASE ~Improves(v)
    <3>1. loop.best # 0
      BY <2>2 DEF Improves
    <3> QED BY <1>4, <1>6, <2>2, <3>1
  <2> QED BY <2>1, <2>2
<1> HIDE DEF l, k
<1>9. TypeOK'
  BY <1>1, <1>2, <1>3, <1>7 DEF TypeOK, Places, Armed
<1>10. Running /\ Running' /\ pc' \in Armed /\ pc \in Armed
  BY <1>1 DEF Running, Armed
<1>11. MarkersInv'
  BY <1>1, <1>2, <1>10 DEF CallsInv, MarkersInv, MarkersLoad, Orphan, LastCall
<1>12. ClockInv'
  BY <1>2, <1>10 DEF CallsInv, ClockInv, LastCall, Base, Newest
<1>13. ChargeInv'
  BY <1>2, <1>10 DEF CallsInv, ChargeInv, NeverUndercharged, Running, Orphan, LastCall, Claim
<1>14. NotOverInv'
  BY <1>2, <1>10 DEF CallsInv, NotOverInv, SomeExceeded
<1>15. LoopInv'
  <2>1. Epoch' = Len(heads) + 1 /\ loop'.best \in 1..Epoch' /\ ~RunEnded'
    BY <1>1, <1>2, <1>4, <1>8 DEF Epoch, RunEnded, Newest
  <2>2. loop'.best # Epoch' => best'[loop'.best] = loop'.by
    BY <1>1, <1>2, <1>8, <2>1
  <2> QED BY <1>1, <1>2, <2>1, <2>2 DEF LoopInv
<1>16. HeadsInv' /\ DyingCallsAdvance'
  BY <1>2, HeadsQuiet, DyingQuiet DEF CallsInv
<1> QED BY <1>9, <1>11, <1>12, <1>13, <1>14, <1>15, <1>16 DEF CallsInv

(* The steps on the folder of an epoch change neither markers nor clock.   *)
LEMMA FolderQuiet ==
  ASSUME CallsInv, pc \in Armed, pc' \in Armed, UNCHANGED <<mode, calls, failed, clock, loop, spent, faults>>
  PROVE  /\ ChargeInv' /\ NotOverInv' /\ DyingCallsAdvance'
         /\ TypeOK /\ t' = t /\ prior' = prior /\ loop' = loop /\ calls' = calls /\ mode' = mode
         /\ hot' = hot /\ origin' = origin /\ beatAt' = beatAt /\ spent' = spent
         /\ failed' = failed /\ faults' = faults /\ Running /\ Running'
<1>1. /\ TypeOK /\ t' = t /\ prior' = prior /\ loop' = loop /\ calls' = calls /\ mode' = mode
      /\ hot' = hot /\ origin' = origin /\ beatAt' = beatAt /\ spent' = spent
      /\ failed' = failed /\ faults' = faults
  BY DEF clock, CallsInv
<1>2. Running /\ Running'
  BY DEF Running
<1>3. ChargeInv'
  BY <1>1, <1>2 DEF CallsInv, ChargeInv, NeverUndercharged, Running, Orphan, LastCall, Claim
<1>4. NotOverInv'
  BY <1>1 DEF CallsInv, NotOverInv, SomeExceeded
<1> QED BY <1>1, <1>2, <1>3, <1>4, DyingQuiet DEF CallsInv

(* last.pt goes into the folder after the newest head.                     *)
LEMMA WriteLastKeeps == ASSUME CallsInv, WriteLast PROVE CallsInv'
<1>1. /\ pc = "last" /\ Epoch = Len(heads) + 1
      /\ last' = [last EXCEPT ![Epoch] = Content]
      /\ pc' = (IF loop.best = Epoch THEN "best" ELSE "head")
      /\ UNCHANGED <<mode, best, heads, calls, failed, clock, loop, spent, faults>>
  BY DEF WriteLast
<1>2. pc \in Armed /\ pc' \in {"best", "head"} /\ pc' \in Armed
  BY <1>1 DEF Armed
<1>3. /\ ChargeInv' /\ NotOverInv' /\ DyingCallsAdvance'
      /\ TypeOK /\ t' = t /\ prior' = prior /\ loop' = loop /\ calls' = calls /\ mode' = mode
      /\ hot' = hot /\ origin' = origin /\ beatAt' = beatAt /\ spent' = spent
      /\ failed' = failed /\ faults' = faults /\ Running /\ Running'
  BY <1>1, <1>2, FolderQuiet
<1>4. /\ HeadsInv /\ ~RunEnded /\ loop.best \in 1..Epoch
      /\ loop.best # Epoch => best[loop.best] = loop.by
  BY <1>1 DEF CallsInv, LoopInv
<1>5. Len(heads) \in Nat /\ Epoch \in 1..Epochs
  BY <1>1, <1>3, <1>4, TrainAssumption DEF HeadsInv, TypeOK
<1>6. Content \in Contents
  BY <1>3 DEF Content, Contents, TypeOK
<1>7. TypeOK'
  BY <1>1, <1>2, <1>3, <1>5, <1>6 DEF TypeOK, Places
<1>8. MarkersInv'
  BY <1>1, <1>2, <1>3 DEF CallsInv, MarkersInv, MarkersLoad, Orphan, LastCall
<1>9. ClockInv'
  BY <1>1, <1>3 DEF CallsInv, ClockInv, LastCall, Base, Newest
<1>10. /\ last' \in [1..Epochs -> Contents] /\ last'[Epoch] = Content
       /\ \A j \in 1..Epochs : j # Epoch => last'[j] = last[j]
  BY <1>1, <1>3, <1>5, <1>6 DEF TypeOK
<1>11. HeadsInv'
  <2>1. ASSUME heads # <<>> PROVE last'[Len(heads)] = last[Len(heads)]
    <3>1. Len(heads) \in 1..Epochs /\ Len(heads) # Epoch
      BY <1>1, <1>3, <1>5, <2>1, NewestType
    <3> QED BY <1>10, <3>1
  <2> QED BY <1>1, <1>4, <2>1 DEF HeadsInv, HeadVerifies, Newest, RunEnded
<1>12. LoopInv'
  <2>1. Epoch' = Epoch /\ Content' = Content /\ ~RunEnded'
    BY <1>1, <1>3, <1>4 DEF Epoch, Content, RunEnded, Newest
  <2> QED BY <1>1, <1>2, <1>3, <1>4, <1>10, <2>1 DEF LoopInv
<1> QED BY <1>3, <1>7, <1>8, <1>9, <1>11, <1>12 DEF CallsInv

(* best.pt goes into the same folder, not over the best state of a head.   *)
LEMMA WriteBestKeeps == ASSUME CallsInv, WriteBest PROVE CallsInv'
<1>1. /\ pc = "best" /\ pc' = "head"
      /\ best' = [best EXCEPT ![Epoch] = loop.by]
      /\ UNCHANGED <<mode, last, heads, calls, failed, clock, loop, spent, faults>>
  BY DEF WriteBest
<1>2. pc \in Armed /\ pc' \in Armed
  BY <1>1 DEF Armed
<1>3. /\ ChargeInv' /\ NotOverInv' /\ DyingCallsAdvance'
      /\ TypeOK /\ t' = t /\ prior' = prior /\ loop' = loop /\ calls' = calls /\ mode' = mode
      /\ hot' = hot /\ origin' = origin /\ beatAt' = beatAt /\ spent' = spent
      /\ failed' = failed /\ faults' = faults /\ Running /\ Running'
  BY <1>1, <1>2, FolderQuiet
<1>4. /\ HeadsInv /\ ~RunEnded /\ loop.best = Epoch /\ Epoch = Len(heads) + 1
      /\ last[Epoch] = Content
  BY <1>1 DEF CallsInv, LoopInv
<1>5. Len(heads) \in Nat /\ Epoch \in 1..Epochs /\ loop.by \in Nat
  BY <1>3, <1>4, TrainAssumption DEF HeadsInv, TypeOK, Loops
<1>6. /\ best' \in [1..Epochs -> Nat] /\ best'[Epoch] = loop.by
      /\ \A j \in 1..Epochs : j # Epoch => best'[j] = best[j]
  BY <1>1, <1>3, <1>5 DEF TypeOK
<1>7. TypeOK'
  BY <1>1, <1>2, <1>3, <1>6 DEF TypeOK, Places
<1>8. MarkersInv'
  BY <1>1, <1>2, <1>3 DEF CallsInv, MarkersInv, MarkersLoad, Orphan, LastCall
<1>9. ClockInv'
  BY <1>1, <1>3 DEF CallsInv, ClockInv, LastCall, Base, Newest
<1>10. HeadsInv'
  <2>1. ASSUME heads # <<>> PROVE best'[Newest.last.loop.best] = best[Newest.last.loop.best]
    <3>1. Newest.last.loop.best \in 1..Len(heads) /\ Len(heads) \in 1..Epochs
      BY <1>3, <1>4, <2>1, NewestType DEF HeadsInv
    <3>2. Newest.last.loop.best \in 1..Epochs /\ Newest.last.loop.best # Epoch
      BY <1>4, <1>5, <3>1, TrainAssumption
    <3> QED BY <1>6, <3>2
  <2> QED BY <1>1, <1>4, <2>1 DEF HeadsInv, HeadVerifies, Newest, RunEnded
<1>11. LoopInv'
  <2>1. Epoch' = Epoch /\ Content' = Content /\ ~RunEnded'
    BY <1>1, <1>3, <1>4 DEF Epoch, Content, RunEnded, Newest
  <2>2. loop.best \in 1..Epoch
    BY <1>4, <1>5
  <2> QED BY <1>1, <1>3, <1>4, <1>6, <2>1, <2>2 DEF LoopInv
<1> QED BY <1>3, <1>7, <1>8, <1>9, <1>10, <1>11 DEF CallsInv

(* What a new head is of: one more epoch, and the account at its writing.  *)
LEMMA WriteHeadSets ==
  ASSUME CallsInv, WriteHead
  PROVE  /\ TypeOK /\ Running /\ ~RunEnded /\ Epoch = Len(heads) + 1 /\ Len(heads) \in Nat /\ Epoch \in 1..Epochs
         /\ heads' \in Seq(Heads) /\ Len(heads') = Len(heads) + 1 /\ heads' # <<>>
         /\ Newest'.acct = Snapshot /\ Newest'.done = Done
         /\ Newest'.last = Content
         /\ Base' = Snapshot /\ (RunEnded' <=> Done)
<1> DEFINE h == [acct |-> Snapshot, done |-> Done, last |-> Content]
<1>1. pc = "head" /\ heads' = Append(heads, h)
  BY DEF WriteHead
<1>2. TypeOK /\ ~RunEnded /\ Epoch = Len(heads) + 1 /\ HeadsInv
  BY <1>1 DEF CallsInv, LoopInv
<1>3. Len(heads) \in Nat /\ Epoch \in 1..Epochs
  BY <1>2, TrainAssumption DEF HeadsInv, TypeOK
<1>4. h \in Heads
  <2>1. Content \in Contents
    BY <1>2 DEF Content, Contents, TypeOK
  <2>2. Done \in BOOLEAN
    BY DEF Done, StoppedEarly, BudgetEnd
  <2>3. Snapshot \in Accounts
    BY <1>2, AccountTypes
  <2> HIDE DEF Done, Content, Snapshot
  <2> QED BY <2>1, <2>2, <2>3 DEF Heads
<1>5. h.acct = Snapshot /\ h.done = Done /\ h.last = Content
  OBVIOUS
<1> HIDE DEF h
<1>6. heads' \in Seq(Heads) /\ Len(heads') = Len(heads) + 1 /\ heads' # <<>> /\ heads'[Len(heads')] = h
  BY <1>1, <1>2, <1>3, <1>4 DEF TypeOK
<1>7. Newest' = h
  BY <1>6 DEF Newest
<1>8. Base' = Snapshot
  BY <1>5, <1>6, <1>7 DEF Base
<1>9. (RunEnded' <=> Done)
  <2>1. Done \in BOOLEAN
    BY DEF Done, StoppedEarly, BudgetEnd
  <2> HIDE DEF Done
  <2> QED BY <1>5, <1>6, <1>7, <2>1 DEF RunEnded
<1>10. Running
  BY <1>1 DEF Running, Armed
<1> QED BY <1>2, <1>3, <1>5, <1>6, <1>7, <1>8, <1>9, <1>10

(* head.json comes last, over files that are all there. *)
LEMMA WriteHeadKeeps == ASSUME CallsInv, WriteHead PROVE CallsInv'
<1>1. /\ pc = "head" /\ pc' = "saved"
      /\ UNCHANGED <<mode, last, best, calls, failed, clock, loop, spent, faults>>
  BY DEF WriteHead
<1>2. /\ Running /\ ~RunEnded /\ Epoch = Len(heads) + 1 /\ Len(heads) \in Nat /\ Epoch \in 1..Epochs
      /\ heads' \in Seq(Heads) /\ Len(heads') = Len(heads) + 1 /\ heads' # <<>>
      /\ Newest'.last = Content /\ Newest'.done = Done
      /\ Base' = Snapshot /\ (RunEnded' <=> Done)
  BY WriteHeadSets
<1>3. pc \in Armed /\ pc' \in Armed
  BY <1>1 DEF Armed
<1>4. /\ ChargeInv' /\ NotOverInv' /\ DyingCallsAdvance'
      /\ TypeOK /\ t' = t /\ prior' = prior /\ loop' = loop /\ calls' = calls /\ mode' = mode
      /\ hot' = hot /\ origin' = origin /\ beatAt' = beatAt /\ spent' = spent
      /\ failed' = failed /\ faults' = faults /\ Running /\ Running'
  BY <1>1, <1>3, FolderQuiet
<1>5. /\ loop.best \in 1..Epoch /\ last[Epoch] = Content /\ best[loop.best] = loop.by
  BY <1>1 DEF CallsInv, LoopInv
<1>6. Len(heads') <= Epochs
  BY <1>2, TrainAssumption
<1>7. TypeOK'
  BY <1>1, <1>2, <1>3, <1>4, <1>6 DEF TypeOK, Places
<1>8. MarkersInv'
  <2>1. Orphan => LastCall.from <= Len(heads')
    BY <1>2, <1>4, LastCallType, TrainAssumption DEF CallsInv, MarkersInv, Orphan
  <2> QED BY <1>1, <1>4, <2>1 DEF CallsInv, MarkersInv, MarkersLoad, Orphan, LastCall
<1>9. ClockInv'
  <2>1. Base'.seconds = prior.seconds + t
    BY <1>2 DEF Snapshot
  <2>2. Base'.seconds <= prior'.seconds + t'
    <3>1. prior.seconds + t \in Nat
      BY <1>2, ClaimOfRunning
    <3> QED BY <1>4, <2>1, <3>1
  <2> QED BY <1>4, <2>2 DEF CallsInv, ClockInv, LastCall
<1>10. Content.loop = loop /\ Len(loop.stops) = Epoch
  BY DEF Content, Epoch
<1>11. HeadsInv'
  <2>1. last'[Len(heads')] = Newest'.last
    BY <1>1, <1>2, <1>5
  <2>2. best'[Newest'.last.loop.best] = Newest'.last.loop.by
    BY <1>1, <1>2, <1>5, <1>10
  <2>3. Len(Newest'.last.loop.stops) = Len(heads') /\ Newest'.last.loop.best \in 1..Len(heads')
    BY <1>2, <1>5, <1>10
  <2>4. RunEnded' \/ Len(heads') < Epochs
    <3>1. CASE Epoch = Epochs
      BY <1>2, <3>1 DEF Done
    <3>2. CASE Epoch # Epochs
      BY <1>2, <3>2, TrainAssumption
    <3> QED BY <3>1, <3>2
  <2> QED BY <2>1, <2>2, <2>3, <2>4 DEF HeadsInv, HeadVerifies
<1>12. LoopInv'
  <2>1. Epoch' = Len(heads') /\ loop' = Newest'.last.loop
    BY <1>2, <1>4, <1>10 DEF Epoch
  <2> QED BY <1>1, <1>2, <2>1 DEF LoopInv
<1> QED BY <1>4, <1>7, <1>8, <1>9, <1>11, <1>12 DEF CallsInv

(* The next epoch, or the end of the run. *)
LEMMA NextEpochKeeps == ASSUME CallsInv, NextEpoch \/ EndRun PROVE CallsInv'
<1>1. UNCHANGED <<mode, files, calls, failed, clock, loop, spent, faults>>
  BY DEF NextEpoch, EndRun
<1>2. \/ pc = "saved" /\ pc' = (IF Newest.done THEN "end" ELSE "train")
      \/ pc = "end" /\ pc' = "close_completed"
  BY DEF NextEpoch, EndRun
<1>3. /\ UNCHANGED <<last, best, heads>> /\ calls' = calls /\ loop' = loop /\ failed' = failed
      /\ failed' \in BOOLEAN /\ faults' \in 0..MaxFaults
  BY <1>1 DEF files, CallsInv, TypeOK
<1>4. pc' \in Places /\ Running' = Running /\ pc \in Armed
      /\ pc' \notin {"adopt", "ready", "read", "store", "closed"}
  BY <1>2 DEF Running, Places, Armed, Closing
<1>5. NotOverInv'
  BY <1>3, <1>4 DEF CallsInv, NotOverInv, SomeExceeded
<1>6. LoopInv'
  <2>1. pc = "saved" => (pc' = "train" => ~RunEnded)
    BY <1>2, <1>3 DEF RunEnded, Newest
  <2>2. RunEnded' = RunEnded /\ Epoch' = Epoch /\ Newest' = Newest
    BY <1>3 DEF RunEnded, Epoch, Newest
  <2> QED BY <1>2, <1>3, <2>1, <2>2 DEF CallsInv, LoopInv
<1> QED BY <1>1, <1>3, <1>4, <1>5, <1>6, MoveKeeps

-------------------------------------------------------------------------------
(* The end of a call. *)

(* A guard or any other exception: the call only goes to its end.          *)
LEMMA AbortKeeps == ASSUME CallsInv, GuardFails \/ Exception PROVE CallsInv'
<1>1. /\ pc \in Armed /\ pc' \in Closing /\ failed' \in BOOLEAN /\ faults' \in 0..MaxFaults
      /\ UNCHANGED <<mode, files, calls, clock, loop, spent>>
  <2>1. failed \in BOOLEAN /\ faults \in 0..MaxFaults /\ MaxFaults \in Nat
    BY TrainAssumption DEF CallsInv, TypeOK
  <2>2. CASE GuardFails
    BY <2>1, <2>2 DEF GuardFails, Abort, Armed, Closing
  <2>3. CASE Exception
    <3>1. faults' \in 0..MaxFaults
      BY <2>1, <2>3 DEF Exception
    <3>2. /\ pc \in Armed /\ pc' \in Closing /\ failed' \in BOOLEAN
          /\ UNCHANGED <<mode, files, calls, clock, loop, spent>>
      BY <2>1, <2>3 DEF Exception, Abort, Closing
    <3> QED BY <3>1, <3>2
  <2> QED BY <2>2, <2>3
<1>2. pc' \in Places /\ Running' = Running
  BY <1>1 DEF Running, Places
<1>3. pc' \notin {"adopt", "ready", "read", "store", "closed"} /\ pc' \notin Armed
  BY <1>1 DEF Closing, Armed
<1>4. NotOverInv' /\ LoopInv'
  BY <1>3 DEF NotOverInv, LoopInv, Armed
<1> QED BY <1>1, <1>2, <1>3, <1>4, MoveKeeps

(* The final marker of a call that ends by itself. *)
LEMMA FinishSets ==
  ASSUME CallsInv, Finish
  PROVE  /\ Running /\ TypeOK /\ Outcome \in Outcomes /\ Outcome # "hard_interrupted"
         /\ Snapshot \in Accounts /\ spent' = spent + t /\ spent' \in Nat /\ spent' <= Snapshot.seconds
         /\ calls' \in Seq(Markers) /\ Len(calls') = Len(calls) /\ calls' # <<>>
         /\ \A n \in 1..Len(calls) - 1 : calls'[n] = calls[n]
         /\ LastCall'.outcome = Outcome /\ LastCall'.acct = Snapshot
         /\ LastCall'.from = LastCall.from /\ LastCall'.status # "open"
         /\ UNCHANGED <<mode, files, failed, faults>>
         /\ Quit \/ (pc' = "closed" /\ UNCHANGED <<clock, loop>>)
<1>1. /\ pc \in Closing /\ SetFinal(Outcome, Snapshot) /\ spent' = spent + t
      /\ UNCHANGED <<mode, files, failed, faults>>
      /\ Quit \/ (pc' = "closed" /\ UNCHANGED <<clock, loop>>)
  BY DEF Finish
<1>2. Running
  BY <1>1 DEF Running
<1>3. Outcome \in Outcomes /\ Outcome # "hard_interrupted"
  BY DEF Outcome, Outcomes
<1>4. TypeOK /\ Snapshot \in Accounts /\ calls # <<>>
  BY <1>2, AccountTypes, ClaimOfRunning DEF CallsInv
<1>5. spent' \in Nat /\ spent' <= Snapshot.seconds
  BY <1>1, <1>2, ClaimOfRunning DEF Snapshot
<1>6. /\ calls' \in Seq(Markers) /\ Len(calls') = Len(calls) /\ calls' # <<>>
      /\ \A n \in 1..Len(calls) - 1 : calls'[n] = calls[n]
      /\ LastCall'.outcome = Outcome /\ LastCall'.acct = Snapshot
      /\ LastCall'.from = LastCall.from /\ LastCall'.status # "open"
  BY <1>1, <1>3, <1>4, SetFinalSets
<1> QED BY <1>1, <1>2, <1>3, <1>4, <1>5, <1>6

(* It covers all that the calls have taken so far. *)
LEMMA FinishKeeps == ASSUME CallsInv, Finish PROVE CallsInv'
<1>1. /\ Running /\ TypeOK /\ Outcome \in Outcomes /\ Outcome # "hard_interrupted"
      /\ Snapshot \in Accounts /\ spent' \in Nat /\ spent' <= Snapshot.seconds
      /\ calls' \in Seq(Markers) /\ Len(calls') = Len(calls) /\ calls' # <<>>
      /\ \A n \in 1..Len(calls) - 1 : calls'[n] = calls[n]
      /\ LastCall'.outcome = Outcome /\ LastCall'.acct = Snapshot
      /\ LastCall'.from = LastCall.from /\ LastCall'.status # "open"
      /\ UNCHANGED <<mode, files, failed, faults>>
      /\ Quit \/ (pc' = "closed" /\ UNCHANGED <<clock, loop>>)
  BY FinishSets
<1>2. UNCHANGED <<last, best, heads>> /\ mode' = mode /\ failed' = failed /\ faults' = faults /\ UNCHANGED files
  BY <1>1 DEF files
<1>3. pc' \in {"off", "closed"}
  BY <1>1 DEF Quit
<1>4. ~Running' /\ pc' \notin Armed
  BY <1>3 DEF Running, Armed, Closing
<1>5. /\ t' \in Nat /\ prior' \in Accounts /\ hot' \in BOOLEAN /\ loop' \in Loops
      /\ origin' \in Nat /\ beatAt' \in Nat
  <2>1. CASE Quit
    <3>1. Fresh \in Loops
      BY TrainAssumption DEF Fresh, Loops
    <3> QED BY <2>1, <3>1, ZeroType DEF Quit
  <2>2. CASE UNCHANGED <<clock, loop>>
    BY <1>1, <2>2 DEF clock, TypeOK
  <2> QED BY <1>1, <2>1, <2>2
<1>6. TypeOK'
  BY <1>1, <1>2, <1>3, <1>5 DEF TypeOK, Places
<1>7. Len(calls) \in 1..Len(calls) /\ \A n \in 1..Len(calls) : n \in 1..Len(calls) - 1 \/ n = Len(calls)
  BY <1>1, ClaimOfRunning, LastCallType
<1>8. calls'[Len(calls)] = LastCall'
  BY <1>1 DEF LastCall
<1>9. LastCall'.outcome # "open"
  BY <1>1 DEF Outcomes
<1>10. MarkersInv'
  <2>1. MarkersLoad'
    BY <1>1 DEF CallsInv, MarkersInv, MarkersLoad
  <2>2. \A n \in 1..Len(calls') : calls'[n].outcome = "open" <=> calls'[n].status = "open"
    BY <1>1, <1>7, <1>8, <1>9 DEF CallsInv, MarkersInv
  <2> QED BY <1>3, <1>4, <1>9, <2>1, <2>2 DEF MarkersInv, Orphan
<1>11. ChargeInv'
  BY <1>1, <1>4, <1>9 DEF ChargeInv, NeverUndercharged, Running, Orphan, Accounts
<1>12. ClockInv' /\ NotOverInv' /\ LoopInv'
  BY <1>3, <1>4 DEF ClockInv, NotOverInv, LoopInv, Armed
<1>13. HeadsInv'
  BY <1>2, HeadsQuiet DEF CallsInv
<1>14. DyingCallsAdvance'
  <2> SUFFICES ASSUME NEW n \in 1..Len(calls') - 1,
                      calls'[n].outcome = "hard_interrupted",
                      calls'[n + 1].outcome = "hard_interrupted"
               PROVE  calls'[n + 1].to > calls'[n + 1].from
    BY DEF DyingCallsAdvance
  <2>1. n + 1 # Len(calls)
    BY <1>1, <1>8
  <2>2. n \in 1..Len(calls) - 1 /\ n + 1 \in 1..Len(calls) - 1
    BY <1>1, <1>7, <2>1
  <2> QED BY <1>1, <2>2 DEF CallsInv, DyingCallsAdvance
<1> QED BY <1>6, <1>10, <1>11, <1>12, <1>13, <1>14 DEF CallsInv

(* A cut call is left without its end: its claim covers it. *)
LEMMA PowerCutKeeps == ASSUME CallsInv, PowerCut PROVE CallsInv'
<1>1. /\ Quit /\ UNCHANGED <<mode, files, calls, failed>>
      /\ spent' = spent + (IF Running THEN t ELSE 0)
      /\ faults < MaxFaults /\ faults' = faults + 1
  BY DEF PowerCut, Running
<1>2. TypeOK /\ failed' \in BOOLEAN /\ faults' \in 0..MaxFaults /\ spent \in Nat /\ t \in Nat
  BY <1>1, TrainAssumption DEF CallsInv, TypeOK
<1>3. spent' \in Nat
  BY <1>1, <1>2
<1>4. CASE Running
  <2>1. calls # <<>> /\ Orphan /\ spent + t <= Claim(LastCall).seconds
    BY <1>4, ClaimOfRunning
  <2> QED BY <1>1, <1>2, <1>3, <1>4, <2>1, QuitKeeps
<1>5. CASE ~Running
  BY <1>1, <1>2, <1>5, QuitIdle
<1> QED BY <1>4, <1>5

-------------------------------------------------------------------------------
(* The invariant. *)

(* It holds in an empty folder. *)
LEMMA InitInvariant == Init => CallsInv
<1> SUFFICES ASSUME Init PROVE CallsInv
  OBVIOUS
<1>1. /\ mode \in Modes /\ heads = <<>> /\ calls = <<>> /\ failed = FALSE
      /\ pc = "off" /\ t = 0 /\ prior = Zero /\ hot = FALSE
      /\ loop = Fresh /\ origin = 0 /\ beatAt = 0 /\ spent = 0 /\ faults = 0
      /\ best = [k \in 1..Epochs |-> 0]
      /\ last = [k \in 1..Epochs |-> [loop |-> Fresh, by |-> 0]]
  BY DEF Init
<1>2. Fresh \in Loops
  BY TrainAssumption DEF Fresh, Loops
<1>3. [loop |-> Fresh, by |-> 0] \in Contents
  BY <1>2 DEF Contents
<1>4. last \in [1..Epochs -> Contents] /\ best \in [1..Epochs -> Nat]
  BY <1>1, <1>3
<1>5. heads \in Seq(Heads) /\ Len(heads) = 0 /\ calls \in Seq(Markers) /\ Len(calls) = 0
  BY <1>1
<1>6. TypeOK
  <2>1. Len(heads) <= Epochs /\ faults \in 0..MaxFaults
    BY <1>1, <1>5, TrainAssumption
  <2>2. failed \in BOOLEAN /\ hot \in BOOLEAN /\ pc \in Places /\ loop \in Loops /\ prior \in Accounts
    BY <1>1, <1>2, ZeroType DEF Places
  <2>3. t \in Nat /\ origin \in Nat /\ beatAt \in Nat /\ spent \in Nat
    BY <1>1
  <2>4. mode \in Modes
    BY <1>1
  <2> QED BY <1>4, <1>5, <2>1, <2>2, <2>3, <2>4 DEF TypeOK
<1>7. ~Running /\ ~Orphan
  BY <1>1 DEF Running, Armed, Closing, Orphan
<1>8. MarkersInv
  BY <1>1, <1>5, <1>7 DEF MarkersInv, MarkersLoad
<1>9. ClockInv /\ NotOverInv /\ LoopInv
  BY <1>1, <1>7 DEF ClockInv, NotOverInv, LoopInv, Armed
<1>10. ChargeInv
  BY <1>1 DEF ChargeInv, NeverUndercharged
<1>11. HeadsInv
  BY <1>1, <1>5, TrainAssumption DEF HeadsInv, HeadVerifies, RunEnded
<1>12. DyingCallsAdvance
  BY <1>5 DEF DyingCallsAdvance
<1> QED BY <1>6, <1>8, <1>9, <1>10, <1>11, <1>12 DEF CallsInv

(* A step that changes nothing. *)
LEMMA StutterKeeps == ASSUME CallsInv, UNCHANGED vars PROVE CallsInv'
<1>1. /\ UNCHANGED <<mode, last, best, heads, calls, failed, pc, t, prior, hot, loop, origin, beatAt, spent, faults>>
      /\ UNCHANGED <<mode, files, calls, clock, loop, spent>>
  BY DEF vars, files, clock
<1>2. failed' \in BOOLEAN /\ faults' \in 0..MaxFaults /\ pc' \in Places /\ Running' = Running
  BY <1>1 DEF CallsInv, TypeOK, Running
<1>3. NotOverInv' /\ LoopInv'
  BY <1>1 DEF CallsInv, NotOverInv, SomeExceeded, LoopInv, Newest, RunEnded, Epoch, Content
<1> QED BY <1>1, <1>2, <1>3, MoveKeeps

(* Every step keeps the invariant. *)
LEMMA StepInvariant == ASSUME CallsInv, [Next]_vars PROVE CallsInv'
<1>1. UNCHANGED vars => CallsInv'
  BY StutterKeeps
<1>2. Start => CallsInv'
  BY StartKeeps
<1>3. Adopt => CallsInv'
  BY AdoptKeeps
<1>4. ReadResult => CallsInv'
  BY ReadResultKeeps
<1>5. Begin => CallsInv'
  BY BeginKeeps
<1>6. Tick => CallsInv'
  BY TickKeeps
<1>7. Hot => CallsInv'
  BY HotKeeps
<1>8. Beat => CallsInv'
  BY BeatKeeps
<1>9. RefuseCrashLoop \/ StoreFailure \/ RefuseOver \/ ReturnResult \/ Closed => CallsInv'
  BY RefusalsKeep
<1>10. \A v \in Losses : EpochEnd(v) => CallsInv'
  BY EpochEndKeeps
<1>11. WriteLast => CallsInv'
  BY WriteLastKeeps
<1>12. WriteBest => CallsInv'
  BY WriteBestKeeps
<1>13. WriteHead => CallsInv'
  BY WriteHeadKeeps
<1>14. NextEpoch \/ EndRun => CallsInv'
  BY NextEpochKeeps
<1>15. GuardFails \/ Exception => CallsInv'
  BY AbortKeeps
<1>16. Finish => CallsInv'
  BY FinishKeeps
<1>17. PowerCut => CallsInv'
  BY PowerCutKeeps
<1> HIDE DEF CallsInv
<1> QED BY <1>1, <1>2, <1>3, <1>4, <1>5, <1>6, <1>7, <1>8, <1>9, <1>10, <1>11, <1>12, <1>13, <1>14,
           <1>15, <1>16, <1>17 DEF Next, Step

(* The part of the invariant on markers, clocks, account and folders. *)
LEMMA CallsInvariant == Spec => []CallsInv
<1>1. Init => CallsInv
  BY InitInvariant
<1>2. CallsInv /\ [Next]_vars => CallsInv'
  BY StepInvariant
<1> QED BY <1>1, <1>2, PTL DEF Spec

(* (TRN-6): what the markers and heartbeats charge covers what the calls   *)
(* of a run really took, wherever they are cut.                            *)
THEOREM NothingIsUndercharged == Spec => []NeverUndercharged
<1>1. CallsInv => NeverUndercharged
  BY DEF CallsInv, ChargeInv
<1> QED BY <1>1, CallsInvariant, PTL

(* Wherever a call is cut, its folder can be read: the newest head names   *)
(* files that are there, and only the last call may lack its end.          *)
THEOREM CutsAreReadable == Spec => []EveryCutIsReadable
<1>1. CallsInv => EveryCutIsReadable
  BY DEF CallsInv, HeadsInv, MarkersInv, EveryCutIsReadable
<1> QED BY <1>1, CallsInvariant, PTL

(* Two calls in a row are adopted only when the second finished an epoch.  *)
THEOREM NoCrashLoopGoesOn == Spec => []DyingCallsAdvance
<1>1. CallsInv => DyingCallsAdvance
  BY DEF CallsInv
<1> QED BY <1>1, CallsInvariant, PTL

-------------------------------------------------------------------------------
(* TrainCalls implements TrainRun. *)

(* A step that finishes no epoch, takes back no refusal and lowers no      *)
(* account is a step of the run.                                           *)
LEMMA RunStep ==
  ASSUME heads' = heads, Recorded' \in Nat, Recorded' >= Recorded, Over => Over'
  PROVE  Run!Next
<1>1. Len(heads') = Len(heads) /\ RunEnded' = RunEnded
  BY DEF RunEnded, Newest
<1>2. CASE Over'
  BY <1>1, <1>2 DEF Run!Next, Run!GiveUp, Run!Charge
<1>3. CASE ~Over'
  <2>1. Over' = Over
    BY <1>3 DEF Over
  <2> QED BY <1>1, <2>1 DEF Run!Next, Run!Account, Run!Charge
<1> QED BY <1>2, <1>3

(* Above all a step that writes neither a head nor a marker. *)
LEMMA RunQuiet ==
  ASSUME TypeOK, heads' = heads, calls' = calls, failed => failed', Running' => Running
  PROVE  Run!Next
<1>1. Recorded' = Recorded
  BY DEF Recorded, Base, Newest, Orphan, LastCall, LastFinal
<1>2. Recorded' \in Nat /\ Recorded' >= Recorded
  BY <1>1, RecordedType
<1>3. SomeExceeded' = SomeExceeded /\ CrashLoop' = CrashLoop
  BY DEF SomeExceeded, CrashLoop, Orphan, LastCall
<1>4. Over => Over'
  BY <1>3 DEF Over, Running
<1> QED BY <1>2, <1>4, RunStep

(* The account that a call starts from lies on or above the recorded one.  *)
LEMMA RunBegin == ASSUME CallsInv, Begin PROVE Run!Next
<1> DEFINE c == NewCall(AtGuard)
<1>1. /\ pc = "ready" /\ calls' = Append(calls, c) /\ UNCHANGED <<files, t>>
  BY DEF Begin
<1>2. heads' = heads
  BY <1>1 DEF files
<1>3. TypeOK /\ ~Orphan /\ ~failed /\ ~SomeExceeded
  BY <1>1 DEF CallsInv, MarkersInv, NotOverInv
<1>4. ~Over
  BY <1>3 DEF Over, CrashLoop
<1>5. /\ Prior \in Accounts /\ AtGuard \in Accounts /\ Base \in Accounts /\ t \in Nat
      /\ AtGuard.seconds = Prior.seconds + t
  BY <1>3, AccountTypes DEF AtGuard, TypeOK
<1>6. c.outcome = "open" /\ c.start = AtGuard
  BY DEF NewCall
<1> HIDE DEF c
<1>7. calls' # <<>> /\ LastCall' = c
  <2>1. calls \in Seq(Markers)
    BY <1>3 DEF TypeOK
  <2>2. Len(calls') = Len(calls) + 1 /\ calls'[Len(calls) + 1] = c /\ Len(calls) \in Nat
    BY <1>1, <2>1
  <2> QED BY <2>2 DEF LastCall
<1>8. Orphan' /\ LastCall'.start = AtGuard
  BY <1>7, <1>6 DEF Orphan
<1>9. Recorded' = Merge(Base, AtGuard).seconds
  BY <1>2, <1>8 DEF Recorded, Base, Newest
<1>10. Recorded = Prior.seconds
  BY <1>3 DEF Recorded, Prior
<1>11. Recorded' \in Nat /\ Recorded' >= Recorded
  <2>1. Merge(Base, AtGuard) \in Accounts /\ Merge(Base, AtGuard).seconds >= AtGuard.seconds
    BY <1>5, MergeIsAbove
  <2>2. Merge(Base, AtGuard).seconds \in Nat /\ AtGuard.seconds \in Nat /\ Prior.seconds \in Nat
    BY <1>5, <2>1 DEF Accounts
  <2> QED BY <1>5, <1>9, <1>10, <2>1, <2>2
<1> QED BY <1>2, <1>4, <1>11, RunStep

(* An adopted call is charged more than its start. *)
LEMMA RunAdopt == ASSUME CallsInv, Adopt PROVE Run!Next
<1> DEFINE charged == Merge(Base, Claim(LastCall))
<1>1. /\ pc = "adopt" /\ ~CrashLoop /\ SetFinal("hard_interrupted", charged) /\ UNCHANGED files
  BY DEF Adopt
<1>2. heads' = heads /\ UNCHANGED <<last, best>>
  BY <1>1 DEF files
<1>3. TypeOK /\ Orphan /\ calls # <<>> /\ LastCall \in Markers /\ LastCall.start \in Accounts
  BY <1>1, LastCallType DEF CallsInv, MarkersInv, Orphan
<1>4. ~Over
  BY <1>1 DEF Over, CallsInv, NotOverInv
<1>5. /\ Claim(LastCall) \in Accounts /\ Claim(LastCall).seconds >= LastCall.start.seconds
      /\ Base \in Accounts
  BY <1>3, ClaimType, AccountTypes
<1>6. /\ charged \in Accounts /\ charged.seconds >= Base.seconds
      /\ charged.seconds >= Claim(LastCall).seconds
  BY <1>5, MergeIsAbove
<1> HIDE DEF charged
<1>7. "hard_interrupted" \in Outcomes
  BY DEF Outcomes
<1>8. LastCall'.outcome = "hard_interrupted" /\ LastCall'.acct = charged /\ calls' # <<>>
  BY <1>1, <1>3, <1>6, <1>7, SetFinalSets
<1>9. ~Orphan' /\ LastFinal' = charged
  BY <1>8 DEF Orphan, LastFinal
<1>10. Recorded' = Merge(Base, charged).seconds
  BY <1>2, <1>9 DEF Recorded, Base, Newest
<1>11. Recorded = Merge(Base, LastCall.start).seconds
  BY <1>3 DEF Recorded
<1>12. Recorded' \in Nat /\ Recorded' >= Recorded
  <2>1. Merge(Base, charged) \in Accounts /\ Merge(Base, charged).seconds >= charged.seconds
    BY <1>5, <1>6, MergeIsAbove
  <2>2. Merge(Base, LastCall.start).seconds \in {Base.seconds, LastCall.start.seconds}
    BY DEF Merge
  <2>3. /\ Merge(Base, charged).seconds \in Nat /\ charged.seconds \in Nat /\ Base.seconds \in Nat
        /\ LastCall.start.seconds \in Nat /\ Claim(LastCall).seconds \in Nat
    BY <1>3, <1>5, <1>6, <2>1 DEF Accounts
  <2> QED BY <1>5, <1>6, <1>10, <1>11, <2>1, <2>2, <2>3
<1> QED BY <1>2, <1>4, <1>12, RunStep

(* A heartbeat is no part of the recorded account. *)
LEMMA RunBeat == ASSUME CallsInv, Beat PROVE Run!Next
<1>1. /\ Running /\ UNCHANGED <<files, failed, pc>> /\ calls' # <<>> /\ Len(calls') = Len(calls)
      /\ TypeOK
  BY BeatSets DEF CallsInv
<1>2. \A n \in 1..Len(calls) : /\ calls'[n].outcome = calls[n].outcome
                              /\ calls'[n].status = calls[n].status
                              /\ calls'[n].start = calls[n].start
  BY BeatSets
<1>3. heads' = heads /\ Running' /\ failed' = failed
  BY <1>1 DEF files, Running
<1>4. Orphan /\ calls # <<>> /\ Len(calls) \in 1..Len(calls)
  BY <1>1, ClaimOfRunning, LastCallType
<1>5. LastCall'.outcome = LastCall.outcome /\ LastCall'.start = LastCall.start
  BY <1>1, <1>2, <1>4 DEF LastCall
<1>6. Orphan'
  BY <1>1, <1>4, <1>5 DEF Orphan
<1>7. Recorded' = Recorded
  BY <1>3, <1>4, <1>5, <1>6 DEF Recorded, Base, Newest
<1>8. Recorded' \in Nat /\ Recorded' >= Recorded
  BY <1>1, <1>7, RecordedType
<1>9. SomeExceeded => SomeExceeded'
  BY <1>1, <1>2 DEF SomeExceeded
<1>10. Over => Over'
  BY <1>1, <1>3, <1>9 DEF Over, Running
<1> QED BY <1>3, <1>8, <1>10, RunStep

(* A final marker records no less than the call began with. *)
LEMMA RunFinish == ASSUME CallsInv, Finish PROVE Run!Next
<1>1. /\ Running /\ TypeOK /\ Outcome \in Outcomes /\ Snapshot \in Accounts
      /\ Len(calls') = Len(calls) /\ calls' # <<>>
      /\ \A n \in 1..Len(calls) - 1 : calls'[n] = calls[n]
      /\ LastCall'.outcome = Outcome /\ LastCall'.acct = Snapshot
      /\ UNCHANGED <<files, failed>>
  BY FinishSets
<1>2. heads' = heads
  BY <1>1 DEF files
<1>3. /\ Orphan /\ calls # <<>> /\ LastCall.start \in Accounts /\ Len(calls) \in 1..Len(calls)
      /\ LastCall.start.seconds = prior.seconds + origin /\ origin <= t
      /\ prior.seconds \in Nat /\ origin \in Nat /\ t \in Nat
  BY <1>1, ClaimOfRunning, LastCallType
<1>4. ~Orphan' /\ LastFinal' = Snapshot
  BY <1>1 DEF Orphan, LastFinal, Outcomes
<1>5. Recorded' = Merge(Base, Snapshot).seconds /\ Recorded = Merge(Base, LastCall.start).seconds
  BY <1>2, <1>3, <1>4 DEF Recorded, Base, Newest
<1>6. Recorded' \in Nat /\ Recorded' >= Recorded
  <2>1. Base \in Accounts
    BY <1>1, AccountTypes
  <2>2. /\ Merge(Base, Snapshot) \in Accounts /\ Merge(Base, Snapshot).seconds >= Base.seconds
        /\ Merge(Base, Snapshot).seconds >= Snapshot.seconds
    BY <1>1, <2>1, MergeIsAbove
  <2>3. Merge(Base, LastCall.start).seconds \in {Base.seconds, LastCall.start.seconds}
    BY DEF Merge
  <2>4. Snapshot.seconds = prior.seconds + t /\ Snapshot.seconds >= LastCall.start.seconds
    BY <1>3 DEF Snapshot
  <2>5. /\ Merge(Base, Snapshot).seconds \in Nat /\ Base.seconds \in Nat
        /\ LastCall.start.seconds \in Nat /\ Snapshot.seconds \in Nat
    BY <1>1, <1>3, <2>1, <2>2 DEF Accounts
  <2> QED BY <1>5, <2>2, <2>3, <2>4, <2>5
<1>7. calls[Len(calls)].status = "open"
  BY <1>3 DEF CallsInv, MarkersInv, Orphan, LastCall
<1>8. SomeExceeded => SomeExceeded'
  <2> SUFFICES ASSUME NEW n \in 1..Len(calls), calls[n].status = "exceeded"
               PROVE  SomeExceeded'
    BY DEF SomeExceeded
  <2>1. n \in 1..Len(calls) - 1
    BY <1>3, <1>7
  <2> QED BY <1>1, <2>1 DEF SomeExceeded
<1>9. Over => Over'
  BY <1>1, <1>8 DEF Over, Running
<1> QED BY <1>2, <1>6, <1>9, RunStep

(* A head is the next epoch of a run that is not over. *)
LEMMA RunHead == ASSUME CallsInv, WriteHead PROVE Run!Next
<1>1. /\ pc = "head" /\ pc' = "saved" /\ calls' = calls /\ failed' = failed
  BY DEF WriteHead
<1>2. /\ TypeOK /\ Running /\ ~RunEnded /\ Epoch = Len(heads) + 1 /\ Len(heads) \in Nat /\ Epoch \in 1..Epochs
      /\ Len(heads') = Len(heads) + 1 /\ Base' = Snapshot /\ (RunEnded' <=> Done)
  BY WriteHeadSets
<1>3. ~Over
  BY <1>1, <1>2 DEF CallsInv, NotOverInv, Armed, Over, Running
<1>4. ~Over'
  BY <1>1, <1>3 DEF Over, SomeExceeded, Armed
<1>5. Len(heads) < Epochs /\ (Len(heads') = Epochs => RunEnded')
  BY <1>2, TrainAssumption DEF Done
<1>6. /\ Orphan /\ LastCall.start \in Accounts /\ Base.seconds <= Snapshot.seconds
      /\ LastCall.start.seconds <= Snapshot.seconds
  <2>1. Orphan /\ LastCall.start.seconds = prior.seconds + origin /\ origin <= t /\ calls # <<>>
        /\ prior.seconds \in Nat /\ origin \in Nat /\ t \in Nat
    BY <1>2, ClaimOfRunning
  <2>2. Base.seconds <= prior.seconds + t
    BY <1>2 DEF CallsInv, ClockInv
  <2> QED BY <1>2, <2>1, <2>2, LastCallType DEF Snapshot
<1>7. Recorded' = Merge(Snapshot, LastCall.start).seconds /\ Recorded = Merge(Base, LastCall.start).seconds
  BY <1>1, <1>2, <1>6 DEF Recorded, Orphan, LastCall
<1>8. Recorded' \in Nat /\ Recorded' >= Recorded
  <2>1. Snapshot \in Accounts /\ Base \in Accounts
    BY <1>2, AccountTypes
  <2>2. Merge(Snapshot, LastCall.start) \in Accounts
        /\ Merge(Snapshot, LastCall.start).seconds >= Snapshot.seconds
    BY <1>6, <2>1, MergeIsAbove
  <2>3. Merge(Base, LastCall.start).seconds \in {Base.seconds, LastCall.start.seconds}
    BY DEF Merge
  <2>4. /\ Merge(Snapshot, LastCall.start).seconds \in Nat /\ Base.seconds \in Nat
        /\ LastCall.start.seconds \in Nat /\ Snapshot.seconds \in Nat
    BY <1>6, <2>1, <2>2 DEF Accounts
  <2> QED BY <1>6, <1>7, <2>2, <2>3, <2>4
<1>9. RunEnded' \in BOOLEAN
  BY <1>2 DEF RunEnded, Done, StoppedEarly, BudgetEnd
<1>10. Over' = Over
  BY <1>3, <1>4 DEF Over
<1> QED BY <1>2, <1>3, <1>5, <1>8, <1>9, <1>10 DEF Run!Next, Run!FinishEpoch, Run!Charge

(* Every step of the calls is a step of the run, or leaves it as it is.    *)
LEMMA RunNext == ASSUME CallsInv, [Next]_vars PROVE [Run!Next]_Run!vars
<1>0. TypeOK /\ failed \in BOOLEAN
  BY DEF CallsInv, TypeOK
<1>1. CASE UNCHANGED vars
  <2>1. heads' = heads /\ calls' = calls /\ failed' = failed /\ Running' = Running
    BY <1>1 DEF vars, files, Running
  <2> QED BY <1>0, <2>1, RunQuiet
<1>2. CASE Start \/ ReadResult \/ Tick \/ Hot \/ (\E v \in Losses : EpochEnd(v))
           \/ WriteLast \/ WriteBest \/ NextEpoch \/ EndRun
  <2>1. heads' = heads /\ calls' = calls /\ failed' = failed
    BY <1>2 DEF Start, ReadResult, Tick, Hot, EpochEnd, WriteLast, WriteBest, NextEpoch, EndRun, files
  <2>2. Running' => Running
    BY <1>2 DEF Start, ReadResult, Tick, Hot, EpochEnd, WriteLast, WriteBest, NextEpoch, EndRun,
                Running, Armed, Closing
  <2> QED BY <1>0, <2>1, <2>2, RunQuiet
<1>3. CASE RefuseCrashLoop \/ StoreFailure \/ RefuseOver \/ ReturnResult \/ Closed \/ PowerCut
  <2>1. heads' = heads /\ calls' = calls
    BY <1>3 DEF RefuseCrashLoop, StoreFailure, RefuseOver, ReturnResult, Closed, PowerCut, files
  <2>2. failed => failed'
    <3>1. CASE ReturnResult \/ Closed
      BY <1>0, <3>1 DEF ReturnResult, Closed
    <3>2. CASE RefuseCrashLoop \/ StoreFailure \/ RefuseOver \/ PowerCut
      BY <3>2 DEF RefuseCrashLoop, StoreFailure, RefuseOver, PowerCut
    <3> QED BY <1>3, <3>1, <3>2
  <2>3. ~Running'
    BY <1>3 DEF RefuseCrashLoop, StoreFailure, RefuseOver, ReturnResult, Closed, PowerCut, Quit,
                Running, Armed, Closing
  <2> QED BY <1>0, <2>1, <2>2, <2>3, RunQuiet
<1>4. CASE GuardFails \/ Exception
  <2>1. heads' = heads /\ calls' = calls /\ (failed => failed') /\ Running
    BY <1>4 DEF GuardFails, Exception, Abort, files, Running, Armed
  <2> QED BY <1>0, <2>1, RunQuiet
<1>5. CASE Begin
  BY <1>5, RunBegin
<1>6. CASE Adopt
  BY <1>6, RunAdopt
<1>7. CASE Beat
  BY <1>7, RunBeat
<1>8. CASE WriteHead
  BY <1>8, RunHead
<1>9. CASE Finish
  BY <1>9, RunFinish
<1> QED BY <1>1, <1>2, <1>3, <1>4, <1>5, <1>6, <1>7, <1>8, <1>9 DEF Next, Step

(* TrainCalls implements TrainRun: however many calls a run takes and      *)
(* however they end, its epochs come one after the other, none after its   *)
(* end, its account never goes down and its refusal is final.              *)
THEOREM CallsImplementRun == Spec => ImplementsTrainRun
<1>1. Init => Run!Init
  <2> SUFFICES ASSUME Init PROVE Run!Init
    OBVIOUS
  <2>1. heads = <<>> /\ calls = <<>> /\ failed = FALSE
    BY DEF Init
  <2>2. ~Orphan /\ ~SomeExceeded /\ Len(heads) = 0 /\ Len(calls) = 0
    BY <2>1 DEF Orphan, SomeExceeded
  <2>3. Over = FALSE /\ RunEnded = FALSE
    BY <2>1, <2>2 DEF Over, CrashLoop, RunEnded
  <2>4. Recorded = 0
    BY <2>1, <2>2, ZeroType DEF Recorded, Base, LastFinal, Merge
  <2> QED BY <2>2, <2>3, <2>4 DEF Run!Init
<1>2. CallsInv /\ [Next]_vars => [Run!Next]_Run!vars
  BY RunNext
<1> QED BY <1>1, <1>2, CallsInvariant, PTL DEF Spec, ImplementsTrainRun, Run!Spec

-------------------------------------------------------------------------------
(* The losses over all the calls of a run. *)

(* There is one first minimum. *)
LEMMA FirstOfIsUnique ==
  ASSUME NEW s \in Seq(Nat), NEW i, FirstOf(s, i)
  PROVE  i = FirstMinimum(s)
<1> DEFINE P(k) == \A j \in 1..Len(s) : s[k] <= s[j] /\ (j < k => s[k] < s[j])
<1>1. i \in 1..Len(s) /\ P(i)
  BY DEF FirstOf
<1>2. ASSUME NEW k \in 1..Len(s), P(k) PROVE k = i
  <2>1. s[i] \in Nat /\ s[k] \in Nat
    BY <1>1
  <2>2. ~(i < k) /\ ~(k < i)
    BY <1>1, <1>2, <2>1
  <2> QED BY <1>1, <2>2
<1>3. FirstMinimum(s) = CHOOSE k \in 1..Len(s) : P(k)
  BY DEF FirstMinimum
<1> HIDE DEF P
<1> QED BY <1>1, <1>2, <1>3

(* The elements of a sequence of losses. *)
LEMMA SeqOfLosses ==
  ASSUME NEW s \in Seq(Losses), Losses \subseteq Nat
  PROVE  s \in Seq(Nat) /\ Len(s) \in Nat /\ \A i \in 1..Len(s) : s[i] \in Nat
<1>1. Len(s) \in Nat /\ \A i \in 1..Len(s) : s[i] \in Losses
  OBVIOUS
<1>2. s = [i \in 1..Len(s) |-> s[i]]
  OBVIOUS
<1> QED BY <1>1, <1>2, SeqDef

(* A sequence that is longer by one keeps its elements. *)
LEMMA AppendIs ==
  ASSUME NEW S, NEW s \in Seq(S), NEW v
  PROVE  /\ Len(Append(s, v)) = Len(s) + 1 /\ Append(s, v)[Len(s) + 1] = v
         /\ \A i \in 1..Len(s) : Append(s, v)[i] = s[i]
OBVIOUS

(* An epoch that ends goes on where the newest head was. *)
LEMMA EpochEndUncut ==
  ASSUME CallsInv, UncutInv, NEW v \in Losses, EpochEnd(v)
  PROVE  AsUncut(loop') /\ \A j \in 1..Len(heads) : StartsAs(loop', j)
<1> DEFINE n == Len(heads)
           s == loop.stops
           u == Append(s, v)
<1>1. /\ TypeOK /\ loop \in Loops /\ Losses \subseteq Nat
      /\ s \in Seq(Losses) /\ Len(s) = n /\ n \in Nat /\ v \in Nat
      /\ IF heads = <<>> THEN loop = Fresh ELSE loop = Newest.last.loop
  BY LoopBetween, TrainAssumption DEF EpochEnd, CallsInv, TypeOK, LoopInv, Loops, Epoch
<1>2. /\ Len(u) = n + 1 /\ u[n + 1] = v
      /\ \A i \in 1..n : u[i] = s[i] /\ s[i] \in Nat
  BY <1>1, SeqOfLosses, AppendIs
<1>3. /\ loop'.stops = u
      /\ loop'.best = IF Improves(v) THEN n + 1 ELSE loop.best
      /\ loop'.bad = IF Improves(v) THEN 0 ELSE loop.bad + 1
  BY <1>1 DEF EpochEnd, Epoch
<1> HIDE DEF u
<1>4. CASE heads = <<>>
  <2>1. n = 0 /\ Improves(v)
    BY <1>1, <1>4 DEF Fresh, Improves
  <2>2. FirstOf(u, n + 1)
    BY <1>1, <1>2, <2>1 DEF FirstOf
  <2>3. AsUncut(loop')
    BY <1>1, <1>2, <1>3, <2>1, <2>2 DEF AsUncut
  <2>4. 1..Len(heads) = {}
    BY <2>1
  <2> QED BY <2>3, <2>4
<1>5. CASE heads # <<>>
  <2>1. n \in 1..n /\ loop = heads[n].last.loop
    BY <1>1, <1>5 DEF Newest
  <2>2. AsUncut(loop) /\ \A j \in 1..n : StartsAs(loop, j)
    BY <2>1 DEF UncutInv
  <2>3. AsUncut(loop')
    <3>0. /\ loop.best \in 1..n /\ loop.best \in Nat /\ loop.bad = n - loop.best
          /\ \A i \in 1..n : s[loop.best] <= s[i] /\ (i < loop.best => s[loop.best] < s[i])
      BY <1>1, <2>2 DEF AsUncut, FirstOf
    <3>1. CASE Improves(v)
      <4>1. v < s[loop.best]
        BY <3>0, <3>1 DEF Improves
      <4>2. \A i \in 1..n : v < s[i]
        BY <1>1, <1>2, <3>0, <4>1
      <4>3. FirstOf(u, n + 1)
        <5> SUFFICES ASSUME NEW i \in 1..n + 1
                     PROVE  u[n + 1] <= u[i] /\ (i < n + 1 => u[n + 1] < u[i])
          BY <1>1, <1>2 DEF FirstOf
        <5>1. CASE i = n + 1
          BY <1>1, <1>2, <5>1
        <5>2. CASE i \in 1..n
          BY <1>1, <1>2, <4>2, <5>2
        <5> QED BY <1>1, <5>1, <5>2
      <4> QED BY <1>1, <1>2, <1>3, <3>1, <4>3 DEF AsUncut
    <3>2. CASE ~Improves(v)
      <4>1. s[loop.best] <= v /\ u[loop.best] = s[loop.best]
        BY <1>1, <1>2, <3>0, <3>2 DEF Improves
      <4>2. FirstOf(u, loop.best)
        <5> SUFFICES ASSUME NEW i \in 1..n + 1
                     PROVE  u[loop.best] <= u[i] /\ (i < loop.best => u[loop.best] < u[i])
          BY <1>1, <1>2, <3>0 DEF FirstOf
        <5>1. CASE i = n + 1
          BY <1>1, <1>2, <3>0, <4>1, <5>1
        <5>2. CASE i \in 1..n
          BY <1>2, <3>0, <4>1, <5>2
        <5> QED BY <1>1, <5>1, <5>2
      <4> QED BY <1>1, <1>2, <1>3, <3>0, <3>2, <4>2 DEF AsUncut
    <3> QED BY <3>1, <3>2
  <2>4. \A j \in 1..n : StartsAs(loop', j)
    BY <1>1, <1>2, <1>3, <2>2 DEF StartsAs
  <2> QED BY <2>3, <2>4
<1> QED BY <1>4, <1>5

(* The head of an epoch takes its losses into the chain. *)
LEMMA WriteHeadUncut == ASSUME CallsInv, UncutInv, WriteHead PROVE UncutInv'
<1> DEFINE n == Len(heads)
           h == [acct |-> Snapshot, done |-> Done, last |-> Content]
<1>1. /\ pc = "head" /\ pc' = "saved" /\ heads' = Append(heads, h) /\ loop' = loop
  BY DEF WriteHead
<1>2. /\ ~RunEnded /\ Epoch = n + 1 /\ n \in Nat /\ heads' \in Seq(Heads) /\ Len(heads') = n + 1
      /\ heads \in Seq(Heads)
  BY WriteHeadSets DEF TypeOK
<1>3. /\ h.last.loop = loop /\ h.acct = Snapshot
      /\ h.done <=> EndsRun(h, n + 1)
  <2>1. h.last.loop = loop /\ h.acct = Snapshot /\ h.done = Done
    BY DEF Content
  <2>2. n + 1 <= Epochs /\ Epochs \in Nat
    BY <1>2, TrainAssumption DEF CallsInv, HeadsInv
  <2>3. Done <=> \/ loop.bad >= Patience
                 \/ n + 1 = Epochs
                 \/ mode = "best_stop" /\ Snapshot.seconds >= WallCap
    BY <1>2, <2>2 DEF Done, StoppedEarly, BudgetEnd
  <2> HIDE DEF h
  <2> QED BY <2>1, <2>3 DEF EndsRun
<1>4. AsUncut(loop) /\ (\A j \in 1..n : StartsAs(loop, j)) /\ Len(loop.stops) = n + 1
  BY <1>1, <1>2 DEF UncutInv, Epoch
<1> HIDE DEF h
<1>5. heads'[n + 1] = h /\ \A k \in 1..n : heads'[k] = heads[k]
  BY <1>1, <1>2
<1>6. ASSUME NEW k \in 1..n + 1
      PROVE  LET l == heads'[k].last.loop IN
             /\ Len(l.stops) = k /\ AsUncut(l)
             /\ \A j \in 1..k : \A i \in 1..j : l.stops[i] = heads'[j].last.loop.stops[i]
             /\ k < n + 1 => ~heads'[k].done
             /\ heads'[k].done <=> EndsRun(heads'[k], k)
  <2>1. CASE k = n + 1
    <3>1. \A j \in 1..n : \A i \in 1..j : loop.stops[i] = heads'[j].last.loop.stops[i]
      BY <1>4, <1>5 DEF StartsAs
    <3>2. \A j \in 1..k : \A i \in 1..j : loop.stops[i] = heads'[j].last.loop.stops[i]
      BY <1>2, <1>3, <1>5, <2>1, <3>1
    <3> QED BY <1>3, <1>4, <1>5, <2>1, <3>2
  <2>2. CASE k # n + 1
    <3>1. k \in 1..n /\ heads'[k] = heads[k] /\ (n \in 1..n) /\ heads # <<>>
      BY <1>2, <1>5, <2>2
    <3>2. ~heads[k].done
      <4>1. CASE k = n
        BY <1>2, <3>1, <4>1 DEF RunEnded, Newest
      <4>2. CASE k # n
        BY <1>2, <3>1, <4>2 DEF UncutInv
      <4> QED BY <4>1, <4>2
    <3>3. \A j \in 1..k : \A i \in 1..j : heads[k].last.loop.stops[i] = heads'[j].last.loop.stops[i]
      BY <1>2, <1>5, <3>1 DEF UncutInv, StartsAs
    <3> QED BY <3>1, <3>2, <3>3 DEF UncutInv
  <2> QED BY <2>1, <2>2
<1>7. mode' = mode
  BY DEF WriteHead
<1>8. (\A k \in 1..Len(heads) :
         LET l == heads[k].last.loop IN
         /\ Len(l.stops) = k /\ AsUncut(l)
         /\ \A j \in 1..k : StartsAs(l, j)
         /\ k < Len(heads) => ~heads[k].done
         /\ heads[k].done <=> EndsRun(heads[k], k))'
  <2> SUFFICES ASSUME NEW k \in 1..n + 1
               PROVE  /\ Len(heads'[k].last.loop.stops) = k /\ AsUncut(heads'[k].last.loop)
                      /\ \A j \in 1..k : StartsAs(heads[k].last.loop, j)'
                      /\ k < n + 1 => ~heads'[k].done
                      /\ heads'[k].done <=> EndsRun(heads[k], k)'
    BY <1>2 DEF AsUncut, FirstOf
  <2>1. EndsRun(heads[k], k)' <=> EndsRun(heads'[k], k)
    BY <1>7 DEF EndsRun
  <2> QED BY <1>6, <2>1 DEF StartsAs
<1> QED BY <1>1, <1>8 DEF UncutInv

(* No other step changes the heads, or the losses of an epoch being saved. *)
LEMMA OtherUncut ==
  ASSUME CallsInv, UncutInv, UNCHANGED <<mode, heads>>,
         \/ pc' \notin {"last", "best", "head"}
         \/ pc \in {"last", "best", "head"} /\ loop' = loop
  PROVE  UncutInv'
BY DEF UncutInv, StartsAs, AsUncut, FirstOf, EndsRun

(* Every step keeps the part on the losses. *)
LEMMA UncutStep == ASSUME CallsInv, UncutInv, [Next]_vars PROVE UncutInv'
<1>1. ASSUME NEW v \in Losses, EpochEnd(v) PROVE UncutInv'
  <2>1. UNCHANGED <<mode, heads>> /\ AsUncut(loop') /\ \A j \in 1..Len(heads) : StartsAs(loop', j)
    BY <1>1, EpochEndUncut DEF EpochEnd, files
  <2> QED BY <2>1 DEF UncutInv, StartsAs, EndsRun
<1>2. CASE Start \/ Adopt \/ RefuseCrashLoop \/ StoreFailure \/ RefuseOver \/ ReadResult \/ ReturnResult
  BY <1>2, OtherUncut DEF Start, Adopt, RefuseCrashLoop, StoreFailure, RefuseOver, ReadResult,
                          ReturnResult, Quit, files
<1>3. CASE Begin \/ WriteLast \/ WriteBest \/ NextEpoch \/ EndRun
  BY <1>3, OtherUncut DEF Begin, WriteLast, WriteBest, NextEpoch, EndRun, files
<1>4. CASE GuardFails \/ Exception \/ Closed \/ PowerCut
  BY <1>4, OtherUncut DEF GuardFails, Exception, Abort, Closed, PowerCut, Quit, files
<1>5. CASE Finish
  BY <1>5, OtherUncut DEF Finish, Quit, files
<1>6. CASE Tick \/ Hot \/ Beat \/ UNCHANGED vars
  BY <1>6, OtherUncut DEF Tick, Hot, Beat, files, vars
<1> QED BY <1>1, <1>2, <1>3, <1>4, <1>5, <1>6, WriteHeadUncut DEF Next, Step

(* The invariant of TrainCalls holds for every horizon, patience, heartbeat*)
(* period and cap, any number of calls and power cuts.                     *)
THEOREM InductiveInvariant == Spec => []IInv
<1>1. Init => UncutInv
  BY DEF Init, UncutInv
<1>2. CallsInv /\ UncutInv /\ [Next]_vars => UncutInv'
  BY UncutStep
<1>3. IInv <=> CallsInv /\ UncutInv
  BY DEF IInv
<1> QED BY <1>1, <1>2, <1>3, CallsInvariant, PTL DEF Spec

(* (TRN-3): a run stops where the run without a cut would have stopped -   *)
(* its best epoch is the first minimum of all its STOP losses, and it is   *)
(* done exactly when the patience that counts from there, the horizon or,  *)
(* under 'best_stop', the cap ends it.                                     *)
THEOREM CutsDoNotMoveTheStop == Spec => []StopsAsUncut
<1>1. IInv => StopsAsUncut
  <2> SUFFICES ASSUME IInv, NEW k \in 1..Len(heads)
               PROVE  LET l == heads[k].last.loop IN
                      /\ Len(l.stops) = k
                      /\ \A j \in 1..k : SubSeq(l.stops, 1, j) = heads[j].last.loop.stops
                      /\ l.best = FirstMinimum(l.stops)
                      /\ l.bad = k - l.best
                      /\ heads[k].done <=>
                           \/ k - l.best >= Patience
                           \/ k = Epochs
                           \/ mode = "best_stop" /\ heads[k].acct.seconds >= WallCap
                      /\ k < Len(heads) => ~heads[k].done
    BY DEF StopsAsUncut
  <2> DEFINE l == heads[k].last.loop
  <2>1. /\ Len(l.stops) = k /\ AsUncut(l)
        /\ \A j \in 1..k : StartsAs(l, j)
        /\ k < Len(heads) => ~heads[k].done
        /\ heads[k].done <=> EndsRun(heads[k], k)
    BY DEF IInv, UncutInv
  <2>2. \A j \in 1..Len(heads) : heads[j].last.loop.stops \in Seq(Losses)
    <3> SUFFICES ASSUME NEW j \in 1..Len(heads)
                 PROVE  heads[j].last.loop.stops \in Seq(Losses)
      OBVIOUS
    <3>1. heads[j] \in Heads
      BY DEF IInv, CallsInv, TypeOK
    <3>2. heads[j].last.loop \in Loops
      BY <3>1 DEF Heads, Contents
    <3> QED BY <3>2 DEF Loops
  <2>3. l.stops \in Seq(Nat)
    BY <2>2, TrainAssumption, SeqOfLosses
  <2>4. l.best = FirstMinimum(l.stops)
    BY <2>1, <2>3, FirstOfIsUnique DEF AsUncut
  <2>5. ASSUME NEW j \in 1..k PROVE SubSeq(l.stops, 1, j) = heads[j].last.loop.stops
    <3>1. j \in 1..Len(heads) /\ Len(heads) \in Nat
      BY DEF IInv, CallsInv, TypeOK
    <3>2. heads[j].last.loop.stops \in Seq(Losses) /\ Len(heads[j].last.loop.stops) = j
      BY <2>2, <3>1 DEF IInv, UncutInv
    <3>3. \A i \in 1..j : l.stops[i] = heads[j].last.loop.stops[i]
      BY <2>1 DEF StartsAs
    <3>4. l.stops \in Seq(Losses)
      BY <2>2
    <3> HIDE DEF l
    <3> QED BY <2>1, <3>2, <3>3, <3>4
  <2>6. l.bad = k - l.best
    BY <2>1 DEF AsUncut
  <2>7. heads[k].done <=> \/ k - l.best >= Patience
                          \/ k = Epochs
                          \/ mode = "best_stop" /\ heads[k].acct.seconds >= WallCap
    <3>1. EndsRun(heads[k], k) <=> \/ l.bad >= Patience
                                   \/ k = Epochs
                                   \/ mode = "best_stop" /\ heads[k].acct.seconds >= WallCap
      BY DEF EndsRun
    <3>2. heads[k].done <=> EndsRun(heads[k], k)
      BY <2>1
    <3>3. (l.bad >= Patience) <=> (k - l.best >= Patience)
      BY <2>6
    <3> HIDE DEF l
    <3> QED BY <3>1, <3>2, <3>3
  <2> QED BY <2>1, <2>4, <2>5, <2>6, <2>7
<1> QED BY <1>1, InductiveInvariant, PTL
===============================================================================
