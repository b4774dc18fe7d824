----------------------------- MODULE MatchCollector -----------------------------
(***************************************************************************)
(* The download queue of the match collector (COG/acquisition): the SQLite *)
(* state of state.py, the raw folders of raw_store.py, the loop of         *)
(* collector.py and the lock and the restarts of supervisor.py.            *)
(*                                                                         *)
(* Matches are numbered in the order of the queue.  'pending' and 'retry'  *)
(* are one status, "open": every query asks for both.  An answer of the    *)
(* API is what the collector makes of it; the client's own retries come    *)
(* before it.  The wait for a new key after a 401 or 403 is part of the    *)
(* step from "idle": KeyWait models it.  Temporary files are left out:     *)
(* nothing reads them.                                                     *)
(***************************************************************************)
EXTENDS Naturals, FiniteSets, FiniteSetsExt

CONSTANTS Agents,      \* processes of the collector
          Last,        \* the number of matches
          Good,        \* contents of files that validate and are in scope
          MaxAttempts, \* MAX_MATCH_ATTEMPTS
          PerCycle,    \* matches_per_cycle
          Quota,       \* max_complete_matches
          MaxFaults,   \* a bound on crashes, failures and cycles cut short
          None

ASSUME CollectorAssumption ==
  /\ Last \in Nat /\ MaxAttempts \in Nat \ {0} /\ PerCycle \in Nat \ {0}
  /\ Quota \in Nat /\ MaxFaults \in Nat
  /\ None \notin Agents

Matches == 1..Last

VARIABLES status, attempts, recorded, \* the table matches (recorded: its hashes)
          detail, timeline,           \* the two raw folders
          owner,                      \* the lock file, locked by one process
          pc, todo, cur, got,         \* of each process; got: what it has read
          faults

db == <<status, attempts, recorded>>
raw == <<detail, timeline>>
vars == <<db, raw, owner, pc, todo, cur, got, faults>>

Nothing == [detail |-> None, timeline |-> None]
Places == {"off", "idle", "next", "examine", "move_detail", "move_timeline", "exclude",
           "attempt", "ask_detail", "ask_timeline", "put_detail", "put_timeline", "record"}

Open == {m \in Matches : status[m] = "open"}
Complete == {m \in Matches : status[m] = "complete"}
Settled(m) == status[m] \in {"complete", "excluded", "exhausted"}
QuotaReached == Cardinality(Complete) >= Quota
Pair(m) == detail[m] # None /\ timeline[m] # None

(* Files may lie in the folders before the first run: good ones, of an old *)
(* patch, or broken.                                                       *)
Init ==
  /\ status = [m \in Matches |-> "unknown"]
  /\ attempts = [m \in Matches |-> 0]
  /\ recorded = [m \in Matches |-> Nothing]
  /\ detail \in [Matches -> {None, "old", "bad"} \cup Good]
  /\ timeline \in [Matches -> {None, "bad"} \cup Good]
  /\ owner = None
  /\ pc = [p \in Agents |-> "off"]
  /\ todo = [p \in Agents |-> {}]
  /\ cur = [p \in Agents |-> 0]
  /\ got = [p \in Agents |-> Nothing]
  /\ faults = 0

(* The process goes on with the match in hand, or lays it down. *)
On(p, place) == pc' = [pc EXCEPT ![p] = place] /\ UNCHANGED <<owner, todo, cur, faults>>
LayDown(p, place) ==
  /\ pc' = [pc EXCEPT ![p] = place]
  /\ todo' = [todo EXCEPT ![p] = IF place = "next" THEN @ ELSE {}]
  /\ cur' = [cur EXCEPT ![p] = 0]
  /\ got' = [got EXCEPT ![p] = Nothing]
-------------------------------------------------------------------------------
(* Processes and cycles. *)

(* Bug: the lock file is opened but not locked. *)
StartUnlocked(p) ==
  /\ pc[p] = "off"
  /\ owner' = p
  /\ pc' = [pc EXCEPT ![p] = "idle"]
  /\ UNCHANGED <<db, raw, todo, cur, got, faults>>

(* A process starts if no other holds the lock; else AlreadyRunning. *)
Start(p) ==
  /\ pc[p] = "off"
  /\ owner = None
  /\ owner' = p
  /\ pc' = [pc EXCEPT ![p] = "idle"]
  /\ UNCHANGED <<db, raw, todo, cur, got, faults>>

(* Bug: a match that is found again is entered anew. *)
EnqueueAnew(p, m) ==
  /\ pc[p] = "idle"
  /\ status' = [status EXCEPT ![m] = "open"]
  /\ UNCHANGED <<attempts, recorded, raw, owner, pc, todo, cur, got, faults>>

(* A scan finds the match - again and again, for the windows overlap: only *)
(* the first time enters it.                                               *)
Enqueue(p, m) ==
  /\ pc[p] = "idle"
  /\ status[m] = "unknown"
  /\ status' = [status EXCEPT ![m] = "open"]
  /\ UNCHANGED <<attempts, recorded, raw, owner, pc, todo, cur, got, faults>>

(* pending_matches: what has no attempt left is exhausted, of the rest the *)
(* first ones are the work of the cycle.                                   *)
BeginDownloads(p) ==
  /\ pc[p] = "idle"
  /\ ~QuotaReached
  /\ LET due == {m \in Open : attempts[m] < MaxAttempts} IN
     /\ status' = [m \in Matches |-> IF m \in Open \ due THEN "exhausted" ELSE status[m]]
     /\ todo' = [todo EXCEPT ![p] = {m \in due : Cardinality({k \in due : k < m}) < PerCycle}]
  /\ pc' = [pc EXCEPT ![p] = "next"]
  /\ UNCHANGED <<attempts, recorded, raw, owner, cur, got, faults>>

(* The cycle is over. *)
EndCycle(p) ==
  /\ pc[p] = "next"
  /\ todo[p] = {} \/ QuotaReached
  /\ LayDown(p, "idle")
  /\ UNCHANGED <<db, raw, owner, faults>>

(* With the quota reached the program ends: at the end of a cycle, or      *)
(* before the next one.                                                    *)
Finished(p) ==
  /\ pc[p] = "idle"
  /\ QuotaReached
  /\ LayDown(p, "off")
  /\ owner' = None
  /\ UNCHANGED <<db, raw, faults>>

(* The work budget of the cycle or the disk is used up. *)
CutShort(p) ==
  /\ pc[p] = "next"
  /\ faults < MaxFaults
  /\ faults' = faults + 1
  /\ LayDown(p, "idle")
  /\ UNCHANGED <<db, raw, owner>>

(* The process dies or is stopped; the system unlocks its file. *)
Crash(p) ==
  /\ pc[p] # "off"
  /\ faults < MaxFaults
  /\ faults' = faults + 1
  /\ LayDown(p, "off")
  /\ owner' = None
  /\ UNCHANGED <<db, raw>>

(* An operation on a file or on the database fails: the cycle ends, the    *)
(* process lives.                                                          *)
Failure(p) ==
  /\ pc[p] \notin {"off", "idle", "next", "ask_detail", "ask_timeline"}
  /\ faults < MaxFaults
  /\ faults' = faults + 1
  /\ LayDown(p, "idle")
  /\ UNCHANGED <<db, raw, owner>>
-------------------------------------------------------------------------------
(* The match in hand. *)

(* Bug: the quota is only looked at between the cycles. *)
TakeItemUnchecked(p) ==
  /\ pc[p] = "next"
  /\ todo[p] # {}
  /\ cur' = [cur EXCEPT ![p] = Min(todo[p])]
  /\ todo' = [todo EXCEPT ![p] = @ \ {Min(@)}]
  /\ pc' = [pc EXCEPT ![p] = "examine"]
  /\ UNCHANGED <<db, raw, owner, got, faults>>

TakeItem(p) ==
  /\ pc[p] = "next"
  /\ todo[p] # {} /\ ~QuotaReached
  /\ cur' = [cur EXCEPT ![p] = Min(todo[p])]
  /\ todo' = [todo EXCEPT ![p] = @ \ {Min(@)}]
  /\ pc' = [pc EXCEPT ![p] = "examine"]
  /\ UNCHANGED <<db, raw, owner, got, faults>>

MarkExcluded(m) == status' = [status EXCEPT ![m] = "excluded"] /\ UNCHANGED <<attempts, recorded>>
MarkComplete(m, pair) ==
  /\ status' = [status EXCEPT ![m] = "complete"]
  /\ recorded' = [recorded EXCEPT ![m] = pair]
  /\ UNCHANGED attempts

MarkRetry(m) ==
  /\ status' = [status EXCEPT ![m] = IF attempts[m] >= MaxAttempts THEN "exhausted" ELSE "open"]
  /\ UNCHANGED <<attempts, recorded>>

OldPair(pair) == pair.detail = "old" /\ pair.timeline \in Good
GoodPair(pair) == pair.detail \in Good /\ pair.timeline \in Good

(* Bug: a file that exists counts as done. *)
ExamineExistence(p) ==
  /\ pc[p] = "examine"
  /\ IF detail[cur[p]] # None
       THEN MarkComplete(cur[p], Nothing) /\ LayDown(p, "next") /\ UNCHANGED <<owner, faults>>
       ELSE On(p, "attempt") /\ UNCHANGED <<got, db>>
  /\ UNCHANGED raw

(* Bug: a pair out of scope is excluded where it lies. *)
ExamineExcludesInPlace(p) ==
  LET m == cur[p]
      pair == [detail |-> detail[m], timeline |-> timeline[m]] IN
  /\ pc[p] = "examine"
  /\ \/ ~Pair(m) /\ On(p, "attempt") /\ UNCHANGED <<got, db>>
     \/ Pair(m) /\ GoodPair(pair) /\ MarkComplete(m, pair) /\ LayDown(p, "next")
        /\ UNCHANGED <<owner, faults>>
     \/ Pair(m) /\ ~GoodPair(pair) /\ MarkExcluded(m) /\ LayDown(p, "next")
        /\ UNCHANGED <<owner, faults>>
  /\ UNCHANGED raw

(* _recover_existing_pair: a pair that validates and is in scope is        *)
(* recorded as it lies, any other pair goes to quarantine.                 *)
Examine(p) ==
  LET m == cur[p]
      pair == [detail |-> detail[m], timeline |-> timeline[m]] IN
  /\ pc[p] = "examine"
  /\ \/ ~Pair(m) /\ On(p, "attempt") /\ UNCHANGED <<got, db>>
     \/ Pair(m) /\ GoodPair(pair) /\ MarkComplete(m, pair) /\ LayDown(p, "next")
        /\ UNCHANGED <<owner, faults>>
     \/ Pair(m) /\ ~GoodPair(pair) /\ got' = [got EXCEPT ![p] = pair]
        /\ On(p, "move_detail") /\ UNCHANGED db
  /\ UNCHANGED raw

MoveDetail(p) ==
  /\ pc[p] = "move_detail"
  /\ detail' = [detail EXCEPT ![cur[p]] = None]
  /\ On(p, "move_timeline")
  /\ UNCHANGED <<db, timeline, got>>

MoveTimeline(p) ==
  /\ pc[p] = "move_timeline"
  /\ timeline' = [timeline EXCEPT ![cur[p]] = None]
  /\ On(p, IF OldPair(got[p]) THEN "exclude" ELSE "attempt")
  /\ UNCHANGED <<db, detail, got>>

Exclude(p) ==
  /\ pc[p] = "exclude"
  /\ MarkExcluded(cur[p])
  /\ LayDown(p, "next")
  /\ UNCHANGED <<raw, owner, faults>>

(* Bug: the attempt is counted when it has an answer only. *)
AttemptUncounted(p) ==
  /\ pc[p] = "attempt"
  /\ On(p, "ask_detail")
  /\ UNCHANGED <<db, raw, got>>

(* mark_attempt, before the request. *)
Attempt(p) ==
  /\ pc[p] = "attempt"
  /\ attempts' = [attempts EXCEPT ![cur[p]] = @ + 1]
  /\ On(p, "ask_detail")
  /\ UNCHANGED <<status, recorded, raw, got>>

(* match_detail: 404, out of scope and invalid exclude the match; an error *)
(* of the API is marked and ends the cycle, a refused key ends the cycle.  *)
AskDetail(p) ==
  LET m == cur[p] IN
  /\ pc[p] = "ask_detail"
  /\ \/ \E d \in Good : got' = [got EXCEPT ![p].detail = d] /\ On(p, "ask_timeline") /\ UNCHANGED db
     \/ MarkExcluded(m) /\ LayDown(p, "next") /\ UNCHANGED <<owner, faults>>
     \/ MarkRetry(m) /\ LayDown(p, "idle") /\ UNCHANGED <<owner, faults>>
     \/ LayDown(p, "idle") /\ UNCHANGED <<db, owner, faults>>
  /\ UNCHANGED raw

(* match_timeline: 404 is marked for a retry, invalid excludes. *)
AskTimeline(p) ==
  LET m == cur[p] IN
  /\ pc[p] = "ask_timeline"
  /\ \/ \E t \in Good : got' = [got EXCEPT ![p].timeline = t] /\ On(p, "put_detail") /\ UNCHANGED db
     \/ MarkRetry(m) /\ LayDown(p, "next") /\ UNCHANGED <<owner, faults>>
     \/ MarkExcluded(m) /\ LayDown(p, "next") /\ UNCHANGED <<owner, faults>>
     \/ MarkRetry(m) /\ LayDown(p, "idle") /\ UNCHANGED <<owner, faults>>
     \/ LayDown(p, "idle") /\ UNCHANGED <<db, owner, faults>>
  /\ UNCHANGED raw

(* write_pair: two replacements. *)
PutDetail(p) ==
  /\ pc[p] = "put_detail"
  /\ detail' = [detail EXCEPT ![cur[p]] = got[p].detail]
  /\ On(p, "put_timeline")
  /\ UNCHANGED <<db, timeline, got>>

PutTimeline(p) ==
  /\ pc[p] = "put_timeline"
  /\ timeline' = [timeline EXCEPT ![cur[p]] = got[p].timeline]
  /\ On(p, "record")
  /\ UNCHANGED <<db, detail, got>>

Record(p) ==
  /\ pc[p] = "record"
  /\ MarkComplete(cur[p], got[p])
  /\ LayDown(p, "next")
  /\ UNCHANGED <<raw, owner, faults>>

(* What a process does of itself. *)
Work(p) ==
  \/ BeginDownloads(p) \/ EndCycle(p) \/ Finished(p) \/ TakeItem(p) \/ Examine(p)
  \/ MoveDetail(p) \/ MoveTimeline(p) \/ Exclude(p) \/ Attempt(p) \/ AskDetail(p)
  \/ AskTimeline(p) \/ PutDetail(p) \/ PutTimeline(p) \/ Record(p)

Next ==
  \E p \in Agents :
    \/ Start(p) \/ Work(p) \/ CutShort(p) \/ Crash(p) \/ Failure(p)
    \/ \E m \in Matches : Enqueue(p, m)

Spec == Init /\ [][Next]_vars

(* The watchdog starts a process, requests have time limits. *)
FairSpec == Spec /\ WF_vars(\E p \in Agents : Start(p)) /\ \A p \in Agents : WF_vars(Work(p))
-------------------------------------------------------------------------------
(* Properties. *)

Pairs == [detail : {None, "old", "bad"} \cup Good, timeline : {None, "bad"} \cup Good]

TypeOK ==
  /\ status \in [Matches -> {"unknown", "open", "complete", "excluded", "exhausted"}]
  /\ attempts \in [Matches -> 0..MaxAttempts]
  /\ recorded \in [Matches -> Pairs]
  /\ detail \in [Matches -> {None, "old", "bad"} \cup Good]
  /\ timeline \in [Matches -> {None, "bad"} \cup Good]
  /\ owner \in Agents \cup {None}
  /\ pc \in [Agents -> Places]
  /\ todo \in [Agents -> SUBSET Matches]
  /\ cur \in [Agents -> Matches \cup {0}]
  /\ got \in [Agents -> Pairs]
  /\ faults \in 0..MaxFaults

(* What the database calls complete lies in the folders with the recorded  *)
(* hashes, whatever was there before and wherever a run was stopped.       *)
CompleteIsStored ==
  \A m \in Complete : /\ GoodPair(recorded[m])
                      /\ recorded[m] = [detail |-> detail[m], timeline |-> timeline[m]]

(* The analysis pairs the files by name, without the database: an excluded *)
(* match leaves no pair there.                                             *)
ExcludedLeavesNoPair == \A m \in Matches : status[m] = "excluded" => ~Pair(m)

(* "stops without overshoot": recovered pairs count as well. *)
QuotaIsKept == Cardinality(Complete) <= Quota

(* A match that is settled stays as it is, although every scan with an     *)
(* overlap finds it again.                                                 *)
SettledStays ==
  [][\A m \in Matches : Settled(m) => status'[m] = status[m] /\ recorded'[m] = recorded[m]]_vars

(* Every match that was found is settled in the end, or the quota is       *)
(* reached: a failing match never blocks the queue for ever.               *)
EveryMatchSettles == \A m \in Matches : status[m] = "open" ~> Settled(m) \/ QuotaReached

(* "Crash during write: ... a later retry validates and promotes a         *)
(* complete pair": no match is given up whose complete pair lies in the    *)
(* folders, where the analysis finds it.                                   *)
CompletePairIsPromoted ==
  \A m \in Matches :
    status[m] = "exhausted" => ~GoodPair([detail |-> detail[m], timeline |-> timeline[m]])
===============================================================================
