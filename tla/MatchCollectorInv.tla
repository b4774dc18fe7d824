--------------------------- MODULE MatchCollectorInv ---------------------------
(***************************************************************************)
(* The inductive invariant of MatchCollector: what the process that holds  *)
(* the lock knows of the database and of the folders, place by place.      *)
(***************************************************************************)
EXTENDS MatchCollector

InHand == Places \ {"off", "idle", "next"}

(* Only the owner of the lock file is running. *)
LockHeld == \A p \in Agents : pc[p] # "off" => owner = p

(* The work of a cycle is open, with an attempt left. *)
WorkIsOpen(p) ==
  /\ pc[p] \in {"off", "idle"} => todo[p] = {}
  /\ \A m \in todo[p] : status[m] = "open" /\ attempts[m] < MaxAttempts

(* So is the match in hand, for which the quota has room. *)
ItemIsOpen(p) ==
  pc[p] \in InHand =>
    /\ cur[p] \in Matches \ todo[p]
    /\ status[cur[p]] = "open"
    /\ ~QuotaReached
    /\ pc[p] \in {"examine", "move_detail", "move_timeline", "exclude", "attempt"}
         => attempts[cur[p]] < MaxAttempts

(* A pair that is not good goes before anything is asked or excluded, and  *)
(* what is recorded is what was put.                                       *)
FilesOfItem(p) ==
  /\ pc[p] \in {"move_timeline", "exclude"} => detail[cur[p]] = None
  /\ pc[p] = "exclude" => timeline[cur[p]] = None
  /\ pc[p] \in {"attempt", "ask_detail", "ask_timeline"} => ~Pair(cur[p])
  /\ pc[p] = "ask_timeline" => got[p].detail \in Good
  /\ pc[p] \in {"put_detail", "put_timeline", "record"} => GoodPair(got[p])
  /\ pc[p] \in {"put_timeline", "record"} => detail[cur[p]] = got[p].detail
  /\ pc[p] = "record" => timeline[cur[p]] = got[p].timeline

AgentInv(p) == WorkIsOpen(p) /\ ItemIsOpen(p) /\ FilesOfItem(p)

(* The inductive invariant. *)
IInv ==
  /\ TypeOK
  /\ LockHeld
  /\ \A p \in Agents : AgentInv(p)
  /\ CompleteIsStored /\ ExcludedLeavesNoPair /\ QuotaIsKept
===============================================================================
