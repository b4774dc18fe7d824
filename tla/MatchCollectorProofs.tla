-------------------------- MODULE MatchCollectorProofs --------------------------
(***************************************************************************)
(* Proofs about MatchCollector: database and folders agree, the quota is   *)
(* kept and a settled match stays so, for any processes, matches, attempts *)
(* and quota, and any faults.                                              *)
(***************************************************************************)
EXTENDS MatchCollectorInv, FiniteSetTheorems, WellFoundedInduction, TLAPS

-------------------------------------------------------------------------------
(* Numbers and counts. *)

(* A set of numbers that is not empty has a least member. *)
LEMMA LeastMember ==
  ASSUME NEW S \in SUBSET Nat, S # {}
  PROVE  Min(S) \in S
<1> DEFINE R == {ss \in Nat \X Nat : ss[1] < ss[2]}
<1>1. IsWellFoundedOn(R, Nat) BY NatLessThanWellFounded DEF OpToRel
<1>2. \E x \in S : \A y \in S : ~ (<<y, x>> \in R)
  <2> HIDE DEF R
  <2> QED BY <1>1, WFMin
<1>3. PICK x \in S : \A y \in S : ~ (<<y, x>> \in R) BY <1>2
<1>4. \A y \in S : x <= y
  <2> SUFFICES ASSUME NEW y \in S, y < x PROVE FALSE OBVIOUS
  <2>1. <<y, x>> \in Nat \X Nat /\ <<y, x>>[1] < <<y, x>>[2] OBVIOUS
  <2>2. <<y, x>> \in R BY <2>1
  <2> QED BY <1>3, <2>2
<1> QED BY <1>4 DEF Min

(* The queue is finite, and so is what is complete of it. *)
LEMMA CompleteIsFinite ==
  IsFiniteSet(Complete) /\ Cardinality(Complete) \in Nat
<1>1. IsFiniteSet(Matches) BY CollectorAssumption, FS_Interval DEF Matches
<1>2. Complete \in SUBSET Matches BY DEF Complete
<1> QED BY <1>1, <1>2, FS_Subset, FS_CardinalityType

(* One match changes its status: the others are complete as before. *)
LEMMA CompleteAfter ==
  ASSUME TypeOK, NEW m \in Matches, status[m] = "open",
         NEW st, status' = [status EXCEPT ![m] = st]
  PROVE  /\ st = "complete" => Complete' = Complete \cup {m}
         /\ st # "complete" => Complete' = Complete
<1>1. \A n \in Matches : status'[n] = IF n = m THEN st ELSE status[n]
  BY DEF TypeOK
<1> QED BY <1>1 DEF Complete

-------------------------------------------------------------------------------
(* The database and the folders. *)

DiskInv == CompleteIsStored /\ ExcludedLeavesNoPair /\ QuotaIsKept

(* Files of an open match may change: nothing settled speaks of them. *)
LEMMA FilesMove ==
  ASSUME TypeOK, DiskInv, NEW m \in Matches, status[m] = "open", UNCHANGED <<status, recorded>>,
         \A n \in Matches \ {m} : detail'[n] = detail[n] /\ timeline'[n] = timeline[n]
  PROVE  DiskInv'
<1>1. Complete' = Complete /\ Complete \subseteq Matches \ {m}
  BY DEF Complete
<1>2. CompleteIsStored' BY <1>1 DEF DiskInv, CompleteIsStored
<1>3. ExcludedLeavesNoPair'
  <2> SUFFICES ASSUME NEW n \in Matches, status'[n] = "excluded" PROVE ~Pair(n)'
    BY DEF ExcludedLeavesNoPair
  <2>1. n # m /\ ~Pair(n) BY DEF DiskInv, ExcludedLeavesNoPair
  <2> QED BY <2>1 DEF Pair
<1>4. QuotaIsKept' BY <1>1 DEF DiskInv, QuotaIsKept
<1> QED BY <1>2, <1>3, <1>4 DEF DiskInv

(* An open match is given back, exhausted, or excluded without a pair. *)
LEMMA MatchLeaves ==
  ASSUME TypeOK, DiskInv, NEW m \in Matches, status[m] = "open",
         NEW st \in {"open", "exhausted", "excluded"}, st = "excluded" => ~Pair(m),
         status' = [status EXCEPT ![m] = st], UNCHANGED <<recorded, raw>>
  PROVE  DiskInv'
<1> USE DEF raw
<1>1. Complete' = Complete BY CompleteAfter
<1>2. \A n \in Matches : status'[n] = IF n = m THEN st ELSE status[n] BY DEF TypeOK
<1>3. CompleteIsStored' BY <1>1 DEF DiskInv, CompleteIsStored
<1>4. ExcludedLeavesNoPair' BY <1>2 DEF DiskInv, ExcludedLeavesNoPair, Pair
<1>5. QuotaIsKept' BY <1>1 DEF DiskInv, QuotaIsKept
<1> QED BY <1>3, <1>4, <1>5 DEF DiskInv

(* A good pair that lies in the folders is recorded, below the quota. *)
LEMMA MatchCompletes ==
  ASSUME TypeOK, DiskInv, NEW m \in Matches, status[m] = "open", ~QuotaReached,
         NEW pair, GoodPair(pair), pair = [detail |-> detail[m], timeline |-> timeline[m]],
         MarkComplete(m, pair), UNCHANGED raw
  PROVE  DiskInv'
<1> USE DEF raw, MarkComplete
<1>1. Complete' = Complete \cup {m} BY CompleteAfter
<1>2. \A n \in Matches : /\ status'[n] = IF n = m THEN "complete" ELSE status[n]
                         /\ recorded'[n] = IF n = m THEN pair ELSE recorded[n]
  BY DEF TypeOK
<1>3. CompleteIsStored'
  <2> SUFFICES ASSUME NEW n \in Complete'
               PROVE  /\ GoodPair(recorded'[n])
                      /\ recorded'[n] = [detail |-> detail'[n], timeline |-> timeline'[n]]
    BY DEF CompleteIsStored, GoodPair
  <2>1. n \in Matches BY DEF Complete
  <2>2. CASE n = m BY <1>2, <2>1, <2>2
  <2>3. CASE n # m
    <3>1. n \in Complete BY <1>1, <2>3
    <3> QED BY <3>1, <2>1, <2>3, <1>2 DEF DiskInv, CompleteIsStored
  <2> QED BY <2>2, <2>3
<1>4. ExcludedLeavesNoPair' BY <1>2 DEF DiskInv, ExcludedLeavesNoPair, Pair
<1>5. QuotaIsKept'
  <2>1. Cardinality(Complete \cup {m}) = Cardinality(Complete) + 1
    <3>1. m \notin Complete BY DEF Complete
    <3> QED BY <3>1, CompleteIsFinite, FS_AddElement
  <2>2. Cardinality(Complete) < Quota
    BY CompleteIsFinite, CollectorAssumption DEF QuotaReached
  <2> QED BY <1>1, <2>1, <2>2, CompleteIsFinite, CollectorAssumption DEF QuotaIsKept
<1> QED BY <1>3, <1>4, <1>5 DEF DiskInv

-------------------------------------------------------------------------------
(* The processes. *)

(* A process moves that has the lock, or takes it: the others are off. *)
LEMMA AgentsAfter ==
  ASSUME IInv, NEW p \in Agents, NEW x \in Places, pc[p] # "off" \/ owner = None,
         pc' = [pc EXCEPT ![p] = x], owner' = IF x = "off" THEN None ELSE p,
         \A q \in Agents \ {p} : todo'[q] = todo[q],
         AgentInv(p)'
  PROVE  LockHeld' /\ \A q \in Agents : AgentInv(q)'
<1>1. \A q \in Agents : pc'[q] = IF q = p THEN x ELSE pc[q] BY DEF IInv, TypeOK
<1>2. \A q \in Agents \ {p} : pc[q] = "off"
  BY CollectorAssumption DEF IInv, LockHeld
<1>3. LockHeld' BY <1>1, <1>2 DEF LockHeld
<1>4. ASSUME NEW q \in Agents \ {p} PROVE AgentInv(q)'
  <2>1. pc'[q] = "off" /\ todo'[q] = {}
    BY <1>1, <1>2 DEF IInv, AgentInv, WorkIsOpen
  <2> QED BY <2>1 DEF AgentInv, WorkIsOpen, ItemIsOpen, FilesOfItem, InHand
<1> QED BY <1>3, <1>4

(* The match in hand, for a process that has one. *)
LEMMA InHandFacts ==
  ASSUME IInv, NEW p \in Agents, pc[p] \in InHand
  PROVE  /\ owner = p /\ DiskInv
         /\ cur[p] \in Matches \ todo[p] /\ status[cur[p]] = "open" /\ ~QuotaReached
         /\ todo[p] \subseteq Matches
         /\ \A m \in todo[p] : status[m] = "open" /\ attempts[m] < MaxAttempts
         /\ FilesOfItem(p)
BY DEF IInv, LockHeld, AgentInv, WorkIsOpen, ItemIsOpen, InHand, DiskInv, TypeOK
-------------------------------------------------------------------------------
(* Steps that keep the database and the folders. *)

(* A process that holds no match and no work: it may be anywhere outside   *)
(* the lock, or between two cycles.                                        *)
LEMMA RestInv ==
  ASSUME NEW p \in Agents, pc'[p] \in {"off", "idle"}, todo'[p] = {}
  PROVE  AgentInv(p)'
BY DEF AgentInv, WorkIsOpen, ItemIsOpen, FilesOfItem, InHand

(* A match is laid down. *)
LEMMA LayDownType ==
  ASSUME TypeOK, NEW p \in Agents, NEW x \in {"off", "idle", "next"}, LayDown(p, x)
  PROVE  /\ pc' \in [Agents -> Places] /\ todo' \in [Agents -> SUBSET Matches]
         /\ cur' \in [Agents -> Matches \cup {0}] /\ got' \in [Agents -> Pairs]
         /\ pc' = [pc EXCEPT ![p] = x] /\ x \in Places
         /\ pc'[p] = x
         /\ todo'[p] = IF x = "next" THEN todo[p] ELSE {}
         /\ \A q \in Agents \ {p} : todo'[q] = todo[q]
<1>1. Nothing \in Pairs BY DEF Nothing, Pairs
<1>2. x \in Places BY DEF Places
<1> QED BY <1>1, <1>2 DEF TypeOK, LayDown

(* The database is as it was: crashes, failures and ends of cycles. *)
LEMMA QuietLayDown ==
  ASSUME IInv, NEW p \in Agents, NEW x \in {"off", "idle"}, pc[p] # "off", LayDown(p, x),
         owner' = IF x = "off" THEN None ELSE owner,
         UNCHANGED <<db, raw>>, faults' \in 0..MaxFaults
  PROVE  IInv'
<1> USE DEF db, raw
<1>1. owner = p BY DEF IInv, LockHeld
<1>2. TypeOK' BY LayDownType, <1>1 DEF IInv, TypeOK
<1>3. AgentInv(p)' BY LayDownType, RestInv DEF IInv
<1>4. LockHeld' /\ \A q \in Agents : AgentInv(q)'
  BY LayDownType, AgentsAfter, <1>1, <1>3 DEF IInv
<1>5. DiskInv' BY DEF IInv, DiskInv, CompleteIsStored, ExcludedLeavesNoPair, QuotaIsKept, Complete, Pair
<1> QED BY <1>2, <1>4, <1>5 DEF IInv, DiskInv

(* All ends of cycles and of processes. *)
LEMMA EndsKeep ==
  ASSUME IInv, NEW p \in Agents, EndCycle(p) \/ Finished(p) \/ CutShort(p) \/ Crash(p) \/ Failure(p)
  PROVE  IInv'
<1>0. faults \in 0..MaxFaults /\ MaxFaults \in Nat BY CollectorAssumption DEF IInv, TypeOK
<1>1. CASE EndCycle(p) BY <1>0, <1>1, QuietLayDown DEF EndCycle
<1>2. CASE Finished(p) BY <1>0, <1>2, QuietLayDown DEF Finished
<1>3. CASE CutShort(p) BY <1>0, <1>3, QuietLayDown DEF CutShort
<1>4. CASE Crash(p) BY <1>0, <1>4, QuietLayDown DEF Crash
<1>5. CASE Failure(p) BY <1>0, <1>5, QuietLayDown DEF Failure
<1> QED BY <1>1, <1>2, <1>3, <1>4, <1>5

(* A process takes the lock. *)
LEMMA StartKeeps ==
  ASSUME IInv, NEW p \in Agents, Start(p) PROVE IInv'
<1> USE DEF Start, db, raw
<1>1. TypeOK' BY DEF IInv, TypeOK, Places
<1>2. pc'[p] = "idle" /\ todo'[p] = {} BY DEF IInv, TypeOK, AgentInv, WorkIsOpen
<1>3. AgentInv(p)' BY <1>2, RestInv
<1>4. LockHeld' /\ \A q \in Agents : AgentInv(q)'
  BY AgentsAfter, <1>3 DEF Places
<1>5. DiskInv' BY DEF IInv, DiskInv, CompleteIsStored, ExcludedLeavesNoPair, QuotaIsKept, Complete, Pair
<1> QED BY <1>1, <1>4, <1>5 DEF IInv, DiskInv

(* A new match is entered. *)
LEMMA EnqueueKeeps ==
  ASSUME IInv, NEW p \in Agents, NEW m \in Matches, Enqueue(p, m) PROVE IInv'
<1> USE DEF Enqueue, raw
<1>1. TypeOK' BY DEF IInv, TypeOK
<1>2. \A n \in Matches : status'[n] = IF n = m THEN "open" ELSE status[n] BY DEF IInv, TypeOK
<1>3. Complete' = Complete BY <1>2 DEF Complete
<1>4. DiskInv' BY <1>2, <1>3 DEF IInv, DiskInv, CompleteIsStored, ExcludedLeavesNoPair, QuotaIsKept, Pair
<1>5. pc[p] = "idle" /\ todo[p] = {} BY DEF IInv, AgentInv, WorkIsOpen
<1>6. AgentInv(p)' BY <1>5, RestInv
<1>7. pc' = [pc EXCEPT ![p] = "idle"] /\ owner' = p BY <1>5 DEF IInv, TypeOK, LockHeld
<1>8. LockHeld' /\ \A q \in Agents : AgentInv(q)'
  BY AgentsAfter, <1>5, <1>6, <1>7 DEF Places
<1> QED BY <1>1, <1>4, <1>8 DEF IInv, DiskInv

(* A cycle begins: its work is open, what has no attempt left is not.      *)
LEMMA BeginKeeps ==
  ASSUME IInv, NEW p \in Agents, BeginDownloads(p) PROVE IInv'
<1> USE DEF BeginDownloads, raw
<1> DEFINE due == {m \in Open : attempts[m] < MaxAttempts}
<1>1. /\ status' = [m \in Matches |-> IF m \in Open \ due THEN "exhausted" ELSE status[m]]
      /\ todo' = [todo EXCEPT ![p] = {m \in due : Cardinality({k \in due : k < m}) < PerCycle}]
  OBVIOUS
<1>2. due \subseteq Matches /\ \A m \in due : status[m] = "open" /\ attempts[m] < MaxAttempts
  BY DEF Open
<1> HIDE DEF due
<1>3. todo'[p] \subseteq due /\ todo' \in [Agents -> SUBSET Matches]
  BY <1>1, <1>2 DEF IInv, TypeOK
<1>4. TypeOK' BY <1>1, <1>3 DEF IInv, TypeOK, Places
<1>5. Complete' = Complete BY <1>1 DEF IInv, TypeOK, Complete, Open
<1>6. \A m \in Matches : status'[m] = "excluded" => status[m] = "excluded" BY <1>1
<1>7. DiskInv'
  BY <1>5, <1>6 DEF IInv, DiskInv, CompleteIsStored, ExcludedLeavesNoPair, QuotaIsKept, Pair
<1>8. pc'[p] = "next" BY DEF IInv, TypeOK
<1>9. AgentInv(p)'
  <2>1. \A m \in todo'[p] : status'[m] = "open" /\ attempts'[m] < MaxAttempts
    BY <1>1, <1>2, <1>3
  <2> QED BY <2>1, <1>8 DEF AgentInv, WorkIsOpen, ItemIsOpen, FilesOfItem, InHand
<1>10. LockHeld' /\ \A q \in Agents : AgentInv(q)'
  <2>1. owner' = p BY DEF IInv, LockHeld
  <2>2. \A q \in Agents \ {p} : todo'[q] = todo[q] BY <1>1 DEF IInv, TypeOK
  <2> QED BY AgentsAfter, <1>9, <2>1, <2>2 DEF Places
<1> QED BY <1>4, <1>7, <1>10 DEF IInv, DiskInv

(* The first match of the work is taken. *)
LEMMA TakeItemKeeps ==
  ASSUME IInv, NEW p \in Agents, TakeItem(p) PROVE IInv'
<1> USE DEF TakeItem, db, raw
<1>0. todo[p] \subseteq Matches /\ Matches \subseteq Nat
  BY CollectorAssumption DEF IInv, TypeOK, Matches
<1>1. Min(todo[p]) \in todo[p] BY <1>0, LeastMember
<1>2. /\ cur'[p] = Min(todo[p]) /\ pc'[p] = "examine"
      /\ todo'[p] = todo[p] \ {Min(todo[p])}
  BY DEF IInv, TypeOK
<1>3. TypeOK' BY <1>0, <1>1 DEF IInv, TypeOK, Places
<1>4. Complete' = Complete BY DEF Complete
<1>5. AgentInv(p)'
  <2>1. \A m \in todo[p] : status[m] = "open" /\ attempts[m] < MaxAttempts
    BY DEF IInv, AgentInv, WorkIsOpen
  <2>2. WorkIsOpen(p)' BY <1>2, <2>1 DEF WorkIsOpen
  <2>3. ItemIsOpen(p)' BY <1>0, <1>1, <1>2, <1>4, <2>1 DEF ItemIsOpen, QuotaReached
  <2>4. FilesOfItem(p)' BY <1>2 DEF FilesOfItem
  <2> QED BY <2>2, <2>3, <2>4 DEF AgentInv
<1>6. LockHeld' /\ \A q \in Agents : AgentInv(q)'
  <2>1. owner' = p BY DEF IInv, LockHeld
  <2>2. \A q \in Agents \ {p} : todo'[q] = todo[q] BY DEF IInv, TypeOK
  <2> QED BY AgentsAfter, <1>5, <2>1, <2>2 DEF Places
<1>7. DiskInv' BY <1>4 DEF IInv, DiskInv, CompleteIsStored, ExcludedLeavesNoPair, QuotaIsKept, Pair
<1> QED BY <1>3, <1>6, <1>7 DEF IInv, DiskInv
-------------------------------------------------------------------------------
(* The match in hand. *)

(* It is laid down; its row may have changed, no other. *)
LEMMA LaidDown ==
  ASSUME IInv, NEW p \in Agents, pc[p] \in InHand, NEW x \in {"idle", "next"}, LayDown(p, x),
         NEW st \in {"open", "complete", "excluded", "exhausted"},
         status' = [status EXCEPT ![cur[p]] = st], recorded' \in [Matches -> Pairs],
         UNCHANGED <<attempts, raw, owner, faults>>, DiskInv'
  PROVE  IInv'
<1> USE DEF raw
<1>1. TypeOK' BY LayDownType DEF IInv, TypeOK
<1>2. pc'[p] = x /\ todo'[p] \subseteq todo[p] /\ owner' = p
  BY LayDownType, InHandFacts DEF IInv
<1>3. \A m \in Matches \ {cur[p]} : status'[m] = status[m] BY DEF IInv, TypeOK
<1>4. AgentInv(p)'
  <2>1. CASE x = "idle"
    <3>1. todo'[p] = {} BY <2>1, LayDownType DEF IInv
    <3> QED BY <3>1, <2>1, <1>2, RestInv
  <2>2. CASE x = "next"
    <3>1. \A m \in todo'[p] : status'[m] = "open" /\ attempts'[m] < MaxAttempts
      BY <1>2, <1>3, InHandFacts
    <3> QED BY <3>1, <2>2, <1>2 DEF AgentInv, WorkIsOpen, ItemIsOpen, FilesOfItem, InHand
  <2> QED BY <2>1, <2>2
<1>5. LockHeld' /\ \A q \in Agents : AgentInv(q)'
  BY LayDownType, AgentsAfter, <1>2, <1>4 DEF IInv, InHand
<1> QED BY <1>1, <1>5 DEF IInv, DiskInv

(* The process goes on with it; an attempt may be counted for it. *)
LEMMA GoneOn ==
  ASSUME IInv, NEW p \in Agents, pc[p] \in InHand, NEW x \in InHand, On(p, x),
         UNCHANGED <<status, recorded>>, attempts' \in [Matches -> 0..MaxAttempts],
         \A m \in Matches \ {cur[p]} : attempts'[m] = attempts[m],
         x \in {"examine", "move_detail", "move_timeline", "exclude", "attempt"}
           => attempts'[cur[p]] < MaxAttempts,
         detail' \in [Matches -> {None, "old", "bad"} \cup Good],
         timeline' \in [Matches -> {None, "bad"} \cup Good],
         got' \in [Agents -> Pairs],
         FilesOfItem(p)', DiskInv'
  PROVE  IInv'
<1> USE DEF On
<1>1. TypeOK' BY DEF IInv, TypeOK, InHand
<1>2. pc'[p] = x /\ owner' = p /\ x \in Places \ {"off", "idle"} BY InHandFacts DEF IInv, TypeOK, InHand
<1>3. Complete' = Complete BY DEF Complete
<1>4. AgentInv(p)'
  <2>1. WorkIsOpen(p)' BY InHandFacts, <1>2 DEF WorkIsOpen
  <2>2. ItemIsOpen(p)' BY InHandFacts, <1>2, <1>3 DEF ItemIsOpen, QuotaReached
  <2> QED BY <2>1, <2>2 DEF AgentInv
<1>5. LockHeld' /\ \A q \in Agents : AgentInv(q)'
  BY AgentsAfter, <1>2, <1>4 DEF IInv, InHand
<1> QED BY <1>1, <1>5 DEF IInv, DiskInv

(* With the row as it was too. *)
LEMMA LaidDownAsItWas ==
  ASSUME IInv, NEW p \in Agents, pc[p] \in InHand, NEW x \in {"idle", "next"}, LayDown(p, x),
         UNCHANGED <<db, raw, owner, faults>>
  PROVE  IInv'
<1> USE DEF db, raw
<1>1. status' = [status EXCEPT ![cur[p]] = "open"] BY InHandFacts DEF IInv, TypeOK
<1>2. DiskInv' BY <1>1, InHandFacts, MatchLeaves DEF IInv
<1>3. recorded' \in [Matches -> Pairs] BY DEF IInv, TypeOK
<1> QED BY <1>1, <1>2, <1>3, LaidDown

(* Excluded without a pair in the folders. *)
LEMMA LaidDownExcluded ==
  ASSUME IInv, NEW p \in Agents, pc[p] \in InHand, NEW x \in {"idle", "next"}, LayDown(p, x),
         MarkExcluded(cur[p]), ~Pair(cur[p]), UNCHANGED <<raw, owner, faults>>
  PROVE  IInv'
<1> USE DEF MarkExcluded, raw
<1>1. DiskInv' BY InHandFacts, MatchLeaves DEF IInv
<1> QED BY <1>1, LaidDown DEF IInv, TypeOK

(* Given back or exhausted. *)
LEMMA LaidDownForRetry ==
  ASSUME IInv, NEW p \in Agents, pc[p] \in InHand, NEW x \in {"idle", "next"}, LayDown(p, x),
         MarkRetry(cur[p]), UNCHANGED <<raw, owner, faults>>
  PROVE  IInv'
<1> USE DEF MarkRetry, raw
<1> DEFINE st == IF attempts[cur[p]] >= MaxAttempts THEN "exhausted" ELSE "open"
<1>1. st \in {"open", "exhausted"} /\ status' = [status EXCEPT ![cur[p]] = st] OBVIOUS
<1> HIDE DEF st
<1>2. DiskInv' BY <1>1, InHandFacts, MatchLeaves DEF IInv
<1> QED BY <1>1, <1>2, LaidDown DEF IInv, TypeOK

(* Recorded with the pair that lies in the folders. *)
LEMMA LaidDownComplete ==
  ASSUME IInv, NEW p \in Agents, pc[p] \in InHand, LayDown(p, "next"),
         NEW pair \in Pairs, GoodPair(pair),
         pair = [detail |-> detail[cur[p]], timeline |-> timeline[cur[p]]],
         MarkComplete(cur[p], pair), UNCHANGED <<raw, owner, faults>>
  PROVE  IInv'
<1> USE DEF MarkComplete, raw
<1>1. DiskInv' BY InHandFacts, MatchCompletes DEF IInv
<1>2. recorded' \in [Matches -> Pairs] BY DEF IInv, TypeOK
<1> QED BY <1>1, <1>2, LaidDown DEF IInv

(* What lies in the folders first. *)
LEMMA ExamineKeeps ==
  ASSUME IInv, NEW p \in Agents, Examine(p) PROVE IInv'
<1> USE DEF Examine, db, raw
<1> DEFINE m == cur[p]
           pair == [detail |-> detail[m], timeline |-> timeline[m]]
<1>1. pc[p] \in InHand /\ pc[p] = "examine" BY DEF InHand, Places
<1>2. pair \in Pairs BY InHandFacts, <1>1 DEF IInv, TypeOK, Pairs
<1>3. attempts[m] < MaxAttempts BY <1>1 DEF IInv, AgentInv, ItemIsOpen
<1>4. CASE ~Pair(m) /\ On(p, "attempt") /\ UNCHANGED <<got, db>>
  <2>1. FilesOfItem(p)' BY <1>1, <1>4 DEF FilesOfItem, On, IInv, TypeOK, Pair
  <2>2. DiskInv' BY <1>1, <1>4, InHandFacts, FilesMove DEF IInv
  <2> QED BY <1>1, <1>3, <1>4, <2>1, <2>2, GoneOn DEF IInv, TypeOK, InHand, Places
<1>5. CASE Pair(m) /\ GoodPair(pair) /\ MarkComplete(m, pair) /\ LayDown(p, "next")
           /\ UNCHANGED <<owner, faults>>
  BY <1>1, <1>2, <1>5, LaidDownComplete
<1>6. CASE Pair(m) /\ ~GoodPair(pair) /\ got' = [got EXCEPT ![p] = pair]
           /\ On(p, "move_detail") /\ UNCHANGED db
  <2>1. FilesOfItem(p)' BY <1>1, <1>6 DEF FilesOfItem, On, IInv, TypeOK
  <2>2. DiskInv' BY <1>1, <1>6, InHandFacts, FilesMove DEF IInv
  <2>3. got' \in [Agents -> Pairs] BY <1>2, <1>6 DEF IInv, TypeOK
  <2> QED BY <1>1, <1>3, <1>6, <2>1, <2>2, <2>3, GoneOn DEF IInv, TypeOK, InHand, Places
<1> QED BY <1>4, <1>5, <1>6

(* The files of the match in hand are moved away, or put. *)
LEMMA FilesKeep ==
  ASSUME IInv, NEW p \in Agents, MoveDetail(p) \/ MoveTimeline(p) \/ PutDetail(p) \/ PutTimeline(p)
  PROVE  IInv'
<1> USE DEF db
<1>0. pc[p] \in {"move_detail", "move_timeline", "put_detail", "put_timeline"} /\ pc[p] \in InHand
  BY DEF MoveDetail, MoveTimeline, PutDetail, PutTimeline, InHand, Places
<1> DEFINE m == cur[p]
<1>1. m \in Matches /\ status[m] = "open" /\ DiskInv /\ FilesOfItem(p) BY <1>0, InHandFacts
<1>2. /\ UNCHANGED <<db, got>>
      /\ \A n \in Matches \ {m} : detail'[n] = detail[n] /\ timeline'[n] = timeline[n]
  BY DEF IInv, TypeOK, MoveDetail, MoveTimeline, PutDetail, PutTimeline
<1>3. DiskInv' BY <1>1, <1>2, FilesMove DEF IInv
<1>4. CASE MoveDetail(p)
  <2>1. detail'[m] = None /\ pc'[p] = "move_timeline" BY <1>1, <1>4 DEF MoveDetail, On, IInv, TypeOK
  <2>2. FilesOfItem(p)' BY <2>1, <1>4 DEF MoveDetail, On, FilesOfItem
  <2>3. detail' \in [Matches -> {None, "old", "bad"} \cup Good] BY <1>4 DEF MoveDetail, IInv, TypeOK
  <2>4. attempts[m] < MaxAttempts BY <1>4 DEF MoveDetail, IInv, AgentInv, ItemIsOpen, InHand, Places
  <2> QED BY <1>0, <1>2, <1>3, <1>4, <2>2, <2>3, <2>4, GoneOn DEF MoveDetail, IInv, TypeOK, InHand, Places
<1>5. CASE MoveTimeline(p)
  <2>1. /\ detail'[m] = None /\ timeline'[m] = None
        /\ pc'[p] \in {"exclude", "attempt"}
    BY <1>1, <1>5 DEF MoveTimeline, On, IInv, TypeOK, FilesOfItem
  <2>2. FilesOfItem(p)' BY <2>1, <1>5 DEF MoveTimeline, On, FilesOfItem, Pair
  <2>3. timeline' \in [Matches -> {None, "bad"} \cup Good] BY <1>5 DEF MoveTimeline, IInv, TypeOK
  <2>4. attempts[m] < MaxAttempts BY <1>5 DEF MoveTimeline, IInv, AgentInv, ItemIsOpen, InHand, Places
  <2>5. PICK x \in {"exclude", "attempt"} : On(p, x) BY <1>5 DEF MoveTimeline
  <2> QED BY <1>0, <1>2, <1>3, <1>5, <2>2, <2>3, <2>4, <2>5, GoneOn DEF MoveTimeline, IInv, TypeOK, InHand, Places
<1>6. CASE PutDetail(p)
  <2>1. detail'[m] = got[p].detail /\ pc'[p] = "put_timeline" BY <1>1, <1>6 DEF PutDetail, On, IInv, TypeOK
  <2>2. FilesOfItem(p)' BY <1>1, <1>2, <2>1, <1>6 DEF PutDetail, On, FilesOfItem, GoodPair
  <2>3. detail' \in [Matches -> {None, "old", "bad"} \cup Good]
    BY <1>1, <1>6 DEF PutDetail, IInv, TypeOK, FilesOfItem, GoodPair
  <2> QED BY <1>0, <1>2, <1>3, <1>6, <2>2, <2>3, GoneOn DEF PutDetail, IInv, TypeOK, InHand, Places
<1>7. CASE PutTimeline(p)
  <2>1. timeline'[m] = got[p].timeline /\ pc'[p] = "record" BY <1>1, <1>7 DEF PutTimeline, On, IInv, TypeOK
  <2>2. FilesOfItem(p)' BY <1>1, <1>2, <2>1, <1>7 DEF PutTimeline, On, FilesOfItem, GoodPair
  <2>3. timeline' \in [Matches -> {None, "bad"} \cup Good]
    BY <1>1, <1>7 DEF PutTimeline, IInv, TypeOK, FilesOfItem, GoodPair
  <2> QED BY <1>0, <1>2, <1>3, <1>7, <2>2, <2>3, GoneOn DEF PutTimeline, IInv, TypeOK, InHand, Places
<1> QED BY <1>4, <1>5, <1>6, <1>7
(* What is given up, or out of scope, is excluded; an attempt is counted. *)
LEMMA ExcludeKeeps ==
  ASSUME IInv, NEW p \in Agents, Exclude(p) PROVE IInv'
<1>1. pc[p] = "exclude" /\ pc[p] \in InHand BY DEF Exclude, InHand, Places
<1>2. ~Pair(cur[p]) BY <1>1, InHandFacts DEF FilesOfItem, Pair
<1> QED BY <1>1, <1>2, LaidDownExcluded DEF Exclude

(* mark_attempt keeps the invariant: it counts, and settles nothing. *)
LEMMA AttemptKeeps ==
  ASSUME IInv, NEW p \in Agents, Attempt(p) PROVE IInv'
<1> USE DEF Attempt, raw
<1> DEFINE m == cur[p]
<1>1. pc[p] = "attempt" /\ pc[p] \in InHand BY DEF InHand, Places
<1>2. m \in Matches /\ attempts[m] < MaxAttempts
  BY <1>1, InHandFacts DEF IInv, AgentInv, ItemIsOpen
<1>3. attempts' \in [Matches -> 0..MaxAttempts]
  BY <1>2, CollectorAssumption DEF IInv, TypeOK
<1>4. \A n \in Matches \ {m} : attempts'[n] = attempts[n] BY DEF IInv, TypeOK
<1>5. FilesOfItem(p)'
  <2>1. pc'[p] = "ask_detail" BY DEF On, IInv, TypeOK
  <2> QED BY <1>1, <2>1, InHandFacts DEF FilesOfItem, On, Pair
<1>6. DiskInv' BY <1>1, InHandFacts, FilesMove DEF IInv
<1> QED BY <1>1, <1>3, <1>4, <1>5, <1>6, GoneOn DEF IInv, TypeOK, InHand, Places

(* An answer of the API. *)
LEMMA AskKeeps ==
  ASSUME IInv, NEW p \in Agents, AskDetail(p) \/ AskTimeline(p) PROVE IInv'
<1> USE DEF db, raw
<1> DEFINE m == cur[p]
<1>1. pc[p] \in {"ask_detail", "ask_timeline"} /\ pc[p] \in InHand /\ UNCHANGED raw
  BY DEF AskDetail, AskTimeline, InHand, Places
<1>2. ~Pair(m) /\ m \in Matches /\ FilesOfItem(p) BY <1>1, InHandFacts DEF FilesOfItem
<1>3. ASSUME UNCHANGED <<status, recorded>> PROVE DiskInv'
  BY <1>1, <1>3, InHandFacts, FilesMove DEF IInv
<1>4. CASE UNCHANGED <<owner, faults>> /\ \E x \in {"idle", "next"} :
             LayDown(p, x) /\ (MarkExcluded(m) \/ MarkRetry(m) \/ UNCHANGED db)
  <2>1. PICK x \in {"idle", "next"} : LayDown(p, x) /\ (MarkExcluded(m) \/ MarkRetry(m) \/ UNCHANGED db)
    BY <1>4
  <2>2. CASE MarkExcluded(m) BY <1>1, <1>2, <1>4, <2>1, <2>2, LaidDownExcluded
  <2>3. CASE MarkRetry(m) BY <1>1, <1>4, <2>1, <2>3, LaidDownForRetry
  <2>4. CASE UNCHANGED db BY <1>1, <1>4, <2>1, <2>4, LaidDownAsItWas
  <2> QED BY <2>1, <2>2, <2>3, <2>4
<1>5. ASSUME pc[p] = "ask_detail", NEW d \in Good, got' = [got EXCEPT ![p].detail = d],
             On(p, "ask_timeline"), UNCHANGED db
      PROVE  IInv'
  <2>1. got' \in [Agents -> Pairs] /\ got'[p].detail \in Good /\ pc'[p] = "ask_timeline"
    BY <1>5 DEF IInv, TypeOK, Pairs, On
  <2>2. FilesOfItem(p)' BY <1>1, <1>2, <1>5, <2>1 DEF FilesOfItem, On, Pair
  <2> QED BY <1>1, <1>3, <1>5, <2>1, <2>2, GoneOn DEF IInv, TypeOK, InHand, Places
<1>6. ASSUME pc[p] = "ask_timeline", NEW d \in Good, got' = [got EXCEPT ![p].timeline = d],
             On(p, "put_detail"), UNCHANGED db
      PROVE  IInv'
  <2>1. got' \in [Agents -> Pairs] /\ GoodPair(got'[p]) /\ pc'[p] = "put_detail"
    BY <1>2, <1>6 DEF IInv, TypeOK, Pairs, On, FilesOfItem, GoodPair
  <2>2. FilesOfItem(p)' BY <1>1, <1>6, <2>1 DEF FilesOfItem, On, GoodPair
  <2> QED BY <1>1, <1>3, <1>6, <2>1, <2>2, GoneOn DEF IInv, TypeOK, InHand, Places
<1>7. CASE AskDetail(p) BY <1>4, <1>5, <1>7 DEF AskDetail
<1>8. CASE AskTimeline(p) BY <1>4, <1>6, <1>8 DEF AskTimeline
<1> QED BY <1>7, <1>8

(* The pair that was put is recorded. *)
LEMMA RecordKeeps ==
  ASSUME IInv, NEW p \in Agents, Record(p) PROVE IInv'
<1>1. pc[p] = "record" /\ pc[p] \in InHand BY DEF Record, InHand, Places
<1>2. GoodPair(got[p]) /\ got[p] = [detail |-> detail[cur[p]], timeline |-> timeline[cur[p]]]
  BY <1>1, InHandFacts DEF FilesOfItem, IInv, TypeOK, Pairs
<1>3. got[p] \in Pairs BY DEF IInv, TypeOK
<1> QED BY <1>1, <1>2, <1>3, LaidDownComplete DEF Record

-------------------------------------------------------------------------------
(* The theorems. *)

(* The invariant holds at first, whatever files lie in the folders. *)
LEMMA InitInvariant == Init => IInv
<1> SUFFICES ASSUME Init PROVE IInv OBVIOUS
<1> USE DEF Init
<1>1. Nothing \in Pairs BY DEF Nothing, Pairs
<1>2. TypeOK BY <1>1, CollectorAssumption DEF TypeOK, Places
<1>3. Complete = {} BY DEF Complete
<1>4. QuotaIsKept BY <1>3, FS_EmptySet, CollectorAssumption DEF QuotaIsKept
<1>5. CompleteIsStored /\ ExcludedLeavesNoPair BY <1>3 DEF CompleteIsStored, ExcludedLeavesNoPair
<1>6. LockHeld /\ \A p \in Agents : AgentInv(p)
  BY DEF LockHeld, AgentInv, WorkIsOpen, ItemIsOpen, FilesOfItem, InHand
<1> QED BY <1>2, <1>4, <1>5, <1>6 DEF IInv

(* Every step keeps the invariant. *)
LEMMA StepInvariant == ASSUME IInv, [Next]_vars PROVE IInv'
<1>1. ASSUME NEW p \in Agents, Work(p) PROVE IInv'
  BY <1>1, BeginKeeps, EndsKeep, TakeItemKeeps, ExamineKeeps, FilesKeep, ExcludeKeeps,
     AttemptKeeps, AskKeeps, RecordKeeps DEF Work
<1>2. CASE Next BY <1>1, <1>2, StartKeeps, EndsKeep, EnqueueKeeps DEF Next
<1>3. CASE UNCHANGED vars
  BY <1>3 DEF vars, db, raw, IInv, TypeOK, LockHeld, AgentInv, WorkIsOpen, ItemIsOpen, FilesOfItem,
              QuotaReached, CompleteIsStored, ExcludedLeavesNoPair, QuotaIsKept, Complete, Pair
<1> QED BY <1>2, <1>3

(* The lock, the work and the files of the running process are what the    *)
(* places of its program say, and database and folders agree.              *)
THEOREM InductiveInvariant == Spec => []IInv
<1>1. IInv /\ [Next]_vars => IInv' BY StepInvariant
<1> QED BY InitInvariant, <1>1, PTL DEF Spec

(* What the database calls complete lies in the folders as recorded, for   *)
(* any crash or failure between the writes of the two stores.              *)
THEOREM StoresAgree == Spec => []CompleteIsStored
<1>1. IInv => CompleteIsStored BY DEF IInv
<1> QED BY InductiveInvariant, <1>1, PTL

(* The analysis finds no pair of an excluded match. *)
THEOREM ExcludedAreUnpaired == Spec => []ExcludedLeavesNoPair
<1>1. IInv => ExcludedLeavesNoPair BY DEF IInv
<1> QED BY InductiveInvariant, <1>1, PTL

(* No cycle, recovery or restart passes the quota. *)
THEOREM QuotaHolds == Spec => []QuotaIsKept
<1>1. IInv => QuotaIsKept BY DEF IInv
<1> QED BY InductiveInvariant, <1>1, PTL
(* A step changes the row of an open match, or enters an unknown one. *)
LEMMA SettledIsKept ==
  ASSUME IInv, [Next]_vars, NEW m \in Matches, Settled(m)
  PROVE  status'[m] = status[m] /\ recorded'[m] = recorded[m]
<1> USE DEF db, MarkExcluded, MarkComplete, MarkRetry, On
<1>0. status[m] \notin {"unknown", "open"} BY DEF Settled
<1>1. ASSUME NEW p \in Agents, pc[p] \in InHand, NEW st, status' = [status EXCEPT ![cur[p]] = st],
             \/ UNCHANGED recorded
             \/ \E pair : recorded' = [recorded EXCEPT ![cur[p]] = pair]
      PROVE  status'[m] = status[m] /\ recorded'[m] = recorded[m]
  <2>1. cur[p] # m BY <1>0, <1>1, InHandFacts
  <2> QED BY <1>1, <2>1 DEF IInv, TypeOK
<1>2. ASSUME NEW p \in Agents,
             Examine(p) \/ Exclude(p) \/ AskDetail(p) \/ AskTimeline(p) \/ Record(p)
      PROVE  status'[m] = status[m] /\ recorded'[m] = recorded[m]
  <2>1. pc[p] \in InHand
    BY <1>2 DEF Examine, Exclude, AskDetail, AskTimeline, Record, InHand, Places
  <2>2. CASE UNCHANGED <<status, recorded>> BY <2>2
  <2>3. CASE MarkExcluded(cur[p]) BY <1>1, <2>1, <2>3
  <2>4. CASE MarkRetry(cur[p]) BY <1>1, <2>1, <2>4
  <2>5. CASE \E pair : MarkComplete(cur[p], pair) BY <1>1, <2>1, <2>5
  <2> QED BY <1>2, <2>2, <2>3, <2>4, <2>5 DEF Examine, Exclude, AskDetail, AskTimeline, Record
<1>3. ASSUME NEW p \in Agents, BeginDownloads(p) \/ \E n \in Matches : Enqueue(p, n)
      PROVE  status'[m] = status[m] /\ recorded'[m] = recorded[m]
  <2>1. CASE BeginDownloads(p) BY <1>0, <2>1 DEF BeginDownloads, Open
  <2>2. CASE \E n \in Matches : Enqueue(p, n) BY <1>0, <2>2 DEF Enqueue, IInv, TypeOK
  <2> QED BY <1>3, <2>1, <2>2
<1>4. ASSUME NEW p \in Agents,
             \/ Start(p) \/ EndCycle(p) \/ Finished(p) \/ CutShort(p) \/ Crash(p) \/ Failure(p)
             \/ TakeItem(p) \/ MoveDetail(p) \/ MoveTimeline(p) \/ Attempt(p) \/ PutDetail(p)
             \/ PutTimeline(p)
      PROVE  status'[m] = status[m] /\ recorded'[m] = recorded[m]
  BY <1>4 DEF Start, EndCycle, Finished, CutShort, Crash, Failure, TakeItem, MoveDetail,
              MoveTimeline, Attempt, PutDetail, PutTimeline
<1>5. CASE Next BY <1>2, <1>3, <1>4, <1>5 DEF Next, Work
<1>6. CASE UNCHANGED vars BY <1>6 DEF vars
<1> QED BY <1>5, <1>6

(* However often a scan finds a match again, a settled row stays. *)
THEOREM SettledForGood == Spec => SettledStays
<1>1. IInv /\ [Next]_vars => [\A m \in Matches : Settled(m) => status'[m] = status[m] /\ recorded'[m] = recorded[m]]_vars
  BY SettledIsKept
<1> QED BY InductiveInvariant, <1>1, PTL DEF Spec, SettledStays
===============================================================================
