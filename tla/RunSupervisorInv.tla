--------------------------- MODULE RunSupervisorInv ---------------------------
(***************************************************************************)
(* The inductive invariant of RunSupervisor: what RUN.lock, the places of  *)
(* the calls, the ledgers they hold or are about to write, and the stage   *)
(* files have to do with each other.  A stop note may put back an older    *)
(* ledger at any time, so nothing here says that a call's object holds the *)
(* ledger on disk: every operation checks that for itself.                 *)
(***************************************************************************)
EXTENDS RunSupervisor

SupervisorTypeOK ==
  /\ pc \in [Calls -> Locations]
  /\ lock \in Calls \cup {Nobody}
  /\ existing \in [Calls -> BOOLEAN]
  /\ at \in [Calls -> 0..Len(Plan)]
  /\ owns \in [Calls -> BOOLEAN]
  /\ tree \in [Calls -> {"none", "gated", "running", "orphans"}]
  /\ code \in [Calls -> {"none", "ok", "error"}]

(* The with block of RUN.lock. *)
UnderLock ==
  Locations \ {"idle", "checked", "unlocked", "stopNote", "exited", "dead"}

(* From _State.ledger to the end of a stage. *)
InPlan ==
  {"owned", "runNote", "loop", "stageNote", "noted", "beginning", "begun", "child",
   "reaped", "finishing"}

(* Of two calls in the block the lock would name both. *)
LockIsHeld ==
  \A c \in Calls : /\ pc[c] \in UnderLock => lock = c
                   /\ tree[c] # "none" => pc[c] = "child"

(* The stage in progress is a stage of the plan, and the call's ledger     *)
(* finishes the stages before it.  A stage that is begun has no stage file.*)
StageInProgress(c) ==
  /\ pc[c] \in {"idle", "checked", "locked", "creating"} => at[c] = 0
  /\ pc[c] \in {"stageNote", "noted", "beginning", "begun", "child", "reaped", "finishing"}
       => at[c] < Len(Plan)
  /\ pc[c] \in InPlan => NumFinished(obj[c].doc.entries) = at[c]
  /\ pc[c] \in {"runNote", "stageNote", "beginning"} => NumFinished(obj[c].pending.entries) = at[c]
  /\ pc[c] = "finishing" => NumFinished(obj[c].pending.entries) = at[c] + 1
  /\ pc[c] \in {"beginning", "begun"} => stageFile[Next1(c)] = NoDoc

(* Every ledger, on disk or about to be, has the shape that opening asks   *)
(* for and is a start of the plan.                                         *)
PlanLedger(es) == WellFormed(es) /\ Bound(es)
LedgersFollowThePlan ==
  PlanLedger(Entries) /\ \A c \in Calls : PlanLedger(obj[c].pending.entries)

(* There is no ledger while one is created, and there is one for every     *)
(* other open object; only one call creates.                               *)
OneCreation ==
  \A c \in Calls :
     /\ obj[c].at = "creating" => ledger = NoDoc /\ header /\ pc[c] = "creating"
     /\ obj[c].at \in Busy \cup {"idle"} => ledger # NoDoc

(* While a call may write the ledger, no finished stage lacks its stage    *)
(* file, neither in the ledger that it read nor in one about to be written.*)
HasReceipts(sf, es) ==
  \A i \in DOMAIN es : es[i].state = "finished" => sf[es[i].stage] # NoDoc
MayWrite(c) == obj[c].resumed \/ obj[c].at \in Busy
ReceiptsWhileWriting ==
  /\ (\E c \in Calls : MayWrite(c)) => HasReceipts(stageFile, Entries)
  /\ \A c \in Calls : obj[c].at \in Busy => HasReceipts(stageFile, obj[c].pending.entries)

(* The inductive invariant. *)
SupervisorInv ==
  /\ TypeOK /\ SupervisorTypeOK
  /\ LockIsHeld
  /\ \A c \in Calls : StageInProgress(c)
  /\ LedgersFollowThePlan
  /\ OneCreation
  /\ ReceiptsWhileWriting
===============================================================================
