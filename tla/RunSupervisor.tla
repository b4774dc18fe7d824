----------------------------- MODULE RunSupervisor -----------------------------
(***************************************************************************)
(* The supervisor of c_ept/run/supervisor.py: calls of run() on one run    *)
(* folder.  A call passes its gates, takes RUN.lock, creates or resumes    *)
(* the ledger, runs the child of every stage that is not finished in a     *)
(* Job, and verifies the ledger again before it exits with success.        *)
(*                                                                         *)
(* The ledger operations are the actions of RunLedger, whose owners are    *)
(* the calls; nothing here says that there is one owner at a time, RUN.lock*)
(* has to see to it.  A budget that runs out, a stop request, an OSError   *)
(* or a refused identity may end a call at any point after its gates.      *)
(***************************************************************************)
EXTENDS RunLedger

CONSTANTS Plan,     \* the stages of the plan, in order
          In, Out,  \* the declared inputs and outputs of every stage
          Nobody    \* the value of lock when RUN.lock does not exist

Calls == Owners

ASSUME PlanAssumption ==
  /\ Plan \in Seq(Stages) /\ \A i, j \in DOMAIN Plan : Plan[i] = Plan[j] => i = j
  /\ \A s \in Stages : In[s] \subseteq Files /\ Out[s] \subseteq Files
ASSUME NobodyAssumption == Nobody \notin Calls

(* What the calls write are notes: the E6 records - 0 is the run's - and   *)
(* the stop of every call.                                                 *)
ASSUME NotesAssumption == Calls \X {"e6", "stop"} \X (0..Len(Plan)) \subseteq Notes

VARIABLES pc,        \* where each call is
          lock,      \* the call that created RUN.lock, or Nobody
          existing,  \* what the call saw of the run folder before its lock
          at,        \* how many stages of the plan the call knows finished
          owns,      \* _State.ledger is set: a stop is recorded
          tree,      \* the processes of the stage in the call's Job
          code       \* the exit code of the stage's child, then of the call: 0 ("ok") or an
                     \* error (2 and 3 are not told apart)

callVars == <<pc, existing, at, owns, tree, code>>
allVars == <<vars, pc, lock, existing, at, owns, tree, code>>

Locations ==
  {"idle", "checked", "locked", "creating", "opened", "resuming", "owned", "runNote",
   "loop", "stageNote", "noted", "beginning", "begun", "child", "reaped", "finishing",
   "verified", "failing", "unlocked", "stopNote", "exited", "dead"}

Go(c, l) == pc' = [pc EXCEPT ![c] = l]
Gone(c) == pc[c] \in {"exited", "dead"}
Next1(c) == Plan[at[c] + 1]      \* the stage in progress
Exists == header \/ ledger # NoDoc

(* _bind: the stages in the ledger are the start of the plan. *)
Bound(es) == Len(es) <= Len(Plan) /\ \A i \in DOMAIN es : es[i].stage = Plan[i]

NumFinished(es) ==
  IF es # <<>> /\ es[Len(es)].state = "begun" THEN Len(es) - 1 ELSE Len(es)
-------------------------------------------------------------------------------
SupervisorInit ==
  /\ header = FALSE
  /\ ledger = NoDoc
  /\ stageFile = [s \in Stages |-> NoDoc]
  /\ file = [p \in Files |-> Missing]
  /\ obj = [c \in Calls |-> Closed]
  /\ pc = [c \in Calls |-> "idle"]
  /\ lock = Nobody
  /\ existing = [c \in Calls |-> FALSE]
  /\ at = [c \in Calls |-> 0]
  /\ owns = [c \in Calls |-> FALSE]
  /\ tree = [c \in Calls |-> "none"]
  /\ code = [c \in Calls |-> "none"]

(* Steps 1 to 4: the gates, the plan and, for a folder that has a run, the *)
(* read-only probe.  Nothing is written.                                   *)
Check(c) ==
  /\ pc[c] = "idle"
  /\ Exists => header /\ ledger # NoDoc /\ WellFormed(ledger.entries) /\ Bound(ledger.entries)
  /\ existing' = [existing EXCEPT ![c] = Exists]
  /\ Go(c, "checked")
  /\ UNCHANGED <<vars, lock, at, owns, tree, code>>

(* A gate refuses, or the probe does: the call ends without a trace. *)
Refuse(c) ==
  /\ pc[c] \in {"idle", "checked"}
  /\ Go(c, "exited")
  /\ code' = [code EXCEPT ![c] = "error"]
  /\ UNCHANGED <<vars, lock, existing, at, owns, tree>>

(* Bug: the lock file is opened without O_EXCL. *)
TakeLockShared(c) ==
  /\ pc[c] = "checked"
  /\ lock' = c
  /\ Go(c, "locked")
  /\ UNCHANGED <<vars, existing, at, owns, tree, code>>

(* RUN.lock is created exclusively: RunLocked (Refuse) if it exists. *)
TakeLock(c) ==
  /\ pc[c] = "checked"
  /\ lock = Nobody
  /\ lock' = c
  /\ Go(c, "locked")
  /\ UNCHANGED <<vars, existing, at, owns, tree, code>>

(* A new run: HEADER.json, then LEDGER.json. *)
CreateRun(c) ==
  /\ pc[c] = "locked"
  /\ ~existing[c] /\ ~Exists
  /\ CreateHeader(c)
  /\ Go(c, "creating")
  /\ UNCHANGED <<lock, existing, at, owns, tree, code>>

CreateRunLedger(c) ==
  /\ pc[c] = "creating"
  /\ CreateLedger(c)
  /\ owns' = [owns EXCEPT ![c] = TRUE]
  /\ Go(c, "owned")
  /\ UNCHANGED <<lock, existing, at, tree, code>>

(* An existing run: opened again, then verified by resume. *)
OpenRun(c) ==
  /\ pc[c] = "locked"
  /\ existing[c] /\ Exists
  /\ Open(c)
  /\ Go(c, "opened")
  /\ UNCHANGED <<lock, existing, at, owns, tree, code>>

(* The call knows the finished stages es of the plan. *)
Owned(c, es) ==
  /\ Bound(es)
  /\ at' = [at EXCEPT ![c] = NumFinished(es)]
  /\ owns' = [owns EXCEPT ![c] = TRUE]
  /\ Go(c, "owned")

ResumeRun(c) ==
  /\ pc[c] = "opened"
  /\ Resume(c)
  /\ IF HalfFinished(obj[c].doc.entries)
       THEN Go(c, "resuming") /\ UNCHANGED <<at, owns>>
       ELSE Owned(c, obj[c].doc.entries)
  /\ UNCHANGED <<lock, existing, tree, code>>

CompleteResume(c) ==
  /\ pc[c] = "resuming"
  /\ Commit(c)
  /\ Owned(c, obj[c].pending.entries)
  /\ UNCHANGED <<lock, existing, tree, code>>

(* The E6 record of the run, and of every stage before it begins. *)
NoteE6(c) ==
  /\ pc[c] \in {"owned", "loop"}
  /\ pc[c] = "loop" => at[c] < Len(Plan)
  /\ Note(c, <<c, "e6", IF pc[c] = "owned" THEN 0 ELSE at[c] + 1>>)
  /\ Go(c, IF pc[c] = "owned" THEN "runNote" ELSE "stageNote")
  /\ UNCHANGED <<lock, existing, at, owns, tree, code>>

WriteNote(c) ==
  /\ pc[c] \in {"runNote", "stageNote"}
  /\ Commit(c)
  /\ Go(c, IF pc[c] = "runNote" THEN "loop" ELSE "noted")
  /\ UNCHANGED <<lock, existing, at, owns, tree, code>>

BeginStage(c) ==
  /\ pc[c] = "noted"
  /\ LET s == Next1(c) IN
     \/ Begin(c, s, In[s]) /\ Go(c, "beginning")
     \/ BegunAgain(c, s, In[s]) /\ Go(c, "begun") /\ UNCHANGED vars
  /\ UNCHANGED <<lock, existing, at, owns, tree, code>>

WriteBegin(c) ==
  /\ pc[c] = "beginning"
  /\ Commit(c)
  /\ Go(c, "begun")
  /\ UNCHANGED <<lock, existing, at, owns, tree, code>>

(* The child is started, blocked on its first read, and put into the Job.  *)
SpawnChild(c) ==
  /\ pc[c] = "begun"
  /\ tree' = [tree EXCEPT ![c] = "gated"]
  /\ Go(c, "child")
  /\ UNCHANGED <<vars, lock, existing, at, owns, code>>

ReleaseChild(c) ==
  /\ pc[c] = "child" /\ tree[c] = "gated"
  /\ tree' = [tree EXCEPT ![c] = "running"]
  /\ UNCHANGED <<vars, lock, pc, existing, at, owns, code>>

(* The stage's processes write files - a body is any function - and so do  *)
(* descendants that outlive the child.                                     *)
ChildWrites(c) ==
  /\ tree[c] \in {"running", "orphans"}
  /\ \E p \in Files : \E v \in Contents : ChangeFile(p, v)
  /\ UNCHANGED <<callVars, lock>>

(* The child exits, and may leave descendants. *)
ChildExits(c) ==
  /\ tree[c] = "running"
  /\ \E left \in {"none", "orphans"} : tree' = [tree EXCEPT ![c] = left]
  /\ \E r \in {"ok", "error"} : code' = [code EXCEPT ![c] = r]
  /\ UNCHANGED <<vars, lock, pc, existing, at, owns>>

(* Bug: what the child left running is not stopped. *)
ReapChildOnly(c) ==
  /\ pc[c] = "child" /\ tree[c] \in {"none", "orphans"}
  /\ code' = [code EXCEPT ![c] = IF @ = "ok" THEN "none" ELSE @]
  /\ Go(c, IF code[c] = "ok" THEN "reaped" ELSE "failing")
  /\ UNCHANGED <<vars, lock, existing, at, owns, tree>>

(* run_owned returns after what the child left running has been stopped.   *)
ReapChild(c) ==
  /\ pc[c] = "child" /\ tree[c] \in {"none", "orphans"}
  /\ tree' = [tree EXCEPT ![c] = "none"]
  /\ code' = [code EXCEPT ![c] = IF @ = "ok" THEN "none" ELSE @]
  /\ Go(c, IF code[c] = "ok" THEN "reaped" ELSE "failing")
  /\ UNCHANGED <<vars, lock, existing, at, owns>>

FinishStage(c) ==
  /\ pc[c] = "reaped"
  /\ Finish(c, Next1(c), Out[Next1(c)])
  /\ Go(c, "finishing")
  /\ UNCHANGED <<lock, existing, at, owns, tree, code>>

WriteFinish(c) ==
  /\ pc[c] = "finishing"
  /\ Commit(c)
  /\ at' = [at EXCEPT ![c] = @ + 1]
  /\ Go(c, "loop")
  /\ UNCHANGED <<lock, existing, owns, tree, code>>

(* Bug: the call ends without the last resume. *)
VerifyRunByCount(c) ==
  /\ pc[c] = "loop" /\ at[c] = Len(Plan)
  /\ Go(c, "verified")
  /\ UNCHANGED <<vars, lock, existing, at, owns, tree, code>>

(* Step 7: the last resume verifies everything once more. *)
VerifyRun(c) ==
  /\ pc[c] = "loop" /\ at[c] = Len(Plan)
  /\ Resume(c) /\ ~HalfFinished(obj[c].doc.entries)
  /\ NumFinished(obj[c].doc.entries) = Len(Plan)
  /\ Go(c, "verified")
  /\ UNCHANGED <<lock, existing, at, owns, tree, code>>

(* Bug: the stop check is not called while the child runs. *)
FailOutsideTheChild(c) ==
  /\ ~Gone(c)
  /\ pc[c] \notin {"idle", "checked", "child", "verified", "failing", "unlocked", "stopNote"}
  /\ tree' = [tree EXCEPT ![c] = "none"]
  /\ code' = [code EXCEPT ![c] = "error"]
  /\ Go(c, "failing")
  /\ IF obj[c].at \in Busy THEN CommitFails(c)
     ELSE IF obj[c].at = "creating" THEN Stop(c)
     ELSE UNCHANGED vars
  /\ UNCHANGED <<lock, existing, at, owns>>

(* An error ends the work: the stage's processes are stopped (run_owned),  *)
(* a write that was due is not made.                                       *)
Fail(c) ==
  /\ ~Gone(c) /\ pc[c] \notin {"idle", "checked", "verified", "failing", "unlocked", "stopNote"}
  /\ tree' = [tree EXCEPT ![c] = "none"]
  /\ code' = [code EXCEPT ![c] = "error"]
  /\ Go(c, "failing")
  /\ IF obj[c].at \in Busy THEN CommitFails(c)
     ELSE IF obj[c].at = "creating" THEN Stop(c)
     ELSE UNCHANGED vars
  /\ UNCHANGED <<lock, existing, at, owns>>

(* The lock is released when the with block is left; a failed unlink only  *)
(* warns.  Success exits here.                                             *)
ReleaseLock(c) ==
  /\ pc[c] \in {"verified", "failing"}
  /\ lock' \in {Nobody, lock}
  /\ IF pc[c] = "verified"
       THEN Stop(c) /\ Go(c, "exited") /\ code' = [code EXCEPT ![c] = "ok"]
       ELSE Go(c, "unlocked") /\ UNCHANGED <<vars, code>>
  /\ UNCHANGED <<existing, at, owns, tree>>

(* _record_stop: the error handler of run() writes the stop reason; it     *)
(* runs outside the with block of the lock.                                *)
NoteStop(c) ==
  /\ pc[c] = "unlocked"
  /\ owns[c]
  /\ Note(c, <<c, "stop", at[c]>>)
  /\ Go(c, "stopNote")
  /\ UNCHANGED <<lock, existing, at, owns, tree, code>>

WriteStop(c) ==
  /\ pc[c] = "stopNote"
  /\ Commit(c)
  /\ Go(c, "unlocked")
  /\ owns' = [owns EXCEPT ![c] = FALSE]
  /\ UNCHANGED <<lock, existing, at, tree, code>>

(* The call ends; a stop that could not be recorded keeps its silence. *)
Exit(c) ==
  /\ pc[c] \in {"unlocked", "stopNote"}
  /\ IF obj[c].at = "closed" THEN UNCHANGED vars ELSE Stop(c)
  /\ Go(c, "exited")
  /\ UNCHANGED <<lock, existing, at, owns, tree, code>>

(* Bug: the Job does not kill its processes when it is closed. *)
KillTheCallOnly(c) ==
  /\ ~Gone(c) /\ pc[c] # "idle"
  /\ IF obj[c].at = "closed" THEN UNCHANGED vars ELSE Stop(c)
  /\ Go(c, "dead")
  /\ UNCHANGED <<lock, existing, at, owns, tree, code>>

(* The call's process is killed: the Job is closed with it, so the stage's *)
(* processes die; RUN.lock stays.                                          *)
Kill(c) ==
  /\ ~Gone(c) /\ pc[c] # "idle"
  /\ tree' = [tree EXCEPT ![c] = "none"]
  /\ IF obj[c].at = "closed" THEN UNCHANGED vars ELSE Stop(c)
  /\ Go(c, "dead")
  /\ UNCHANGED <<lock, existing, at, owns, code>>

(* The operator deletes a lock that no running call holds. *)
DeleteLock ==
  /\ lock # Nobody /\ Gone(lock)
  /\ lock' = Nobody
  /\ UNCHANGED <<vars, callVars>>

(* A power cut ends every call, and may lose the newest stage file. *)
PowerCut(s) ==
  /\ PowerLoss(s)
  /\ pc' = [c \in Calls |-> IF pc[c] = "idle" \/ Gone(c) THEN pc[c] ELSE "dead"]
  /\ tree' = [c \in Calls |-> "none"]
  /\ UNCHANGED <<lock, existing, at, owns, code>>
-------------------------------------------------------------------------------
(* What a call does by itself, and what its child does. *)
Step(c) ==
  \/ Check(c) \/ TakeLock(c) \/ CreateRun(c) \/ CreateRunLedger(c) \/ OpenRun(c)
  \/ ResumeRun(c) \/ CompleteResume(c) \/ NoteE6(c) \/ WriteNote(c)
  \/ BeginStage(c) \/ WriteBegin(c) \/ SpawnChild(c) \/ ReleaseChild(c) \/ ReapChild(c)
  \/ FinishStage(c) \/ WriteFinish(c) \/ VerifyRun(c)
  \/ ReleaseLock(c) \/ NoteStop(c) \/ WriteStop(c) \/ Exit(c)
  \/ Refuse(c) \/ Fail(c)

SupervisorNext ==
  \/ \E c \in Calls : Step(c) \/ ChildWrites(c) \/ ChildExits(c) \/ Kill(c)
  \/ DeleteLock

SupervisorSpec == SupervisorInit /\ [][SupervisorNext]_allVars

(* The same, on a machine that may also lose power. *)
PowerSpec == SupervisorInit /\ [][SupervisorNext \/ \E s \in Stages : PowerCut(s)]_allVars

(* The call's own code runs on; nothing is assumed of the child or of the  *)
(* operator.  The stop check of the budget, called at every poll of the    *)
(* child and during every hash, ends a call that does not end by itself:   *)
(* Fail is part of Step.                                                   *)
FairSpec == SupervisorSpec /\ \A c \in Calls : WF_allVars(Step(c))
-------------------------------------------------------------------------------
(* Properties. *)

(* The processes of a stage run only under the lock of the call that       *)
(* started them - so never beside those of another call - even when a      *)
(* call is killed and the operator deletes its lock.                       *)
StageRunsUnderLock == \A c \in Calls : tree[c] # "none" => lock = c

(* A stage whose stage file exists is never computed again, whatever       *)
(* ledger a late stop note has put back.                                   *)
CertifiedStageIsNotRerun ==
  [][\A c \in Calls : tree[c] = "none" /\ tree'[c] = "gated" => stageFile[Next1(c)] = NoDoc]_allVars

(* While the outputs of a stage are hashed and certified no process of a   *)
(* stage is alive that could still write them.                             *)
QuietWhenCertified ==
  [][stageFile' # stageFile => \A c \in Calls : tree[c] = "none"]_allVars

(* A call that reports success has, at that moment, the whole plan         *)
(* finished on disk, every stage file and every recorded file as recorded. *)
SuccessIsVerified ==
  [][\A c \in Calls : pc[c] # "verified" /\ pc'[c] = "verified" =>
       /\ ledger # NoDoc
       /\ Len(Entries) = Len(Plan)
       /\ \A i \in DOMAIN Plan :
            LET d == stageFile[Plan[i]] IN
            /\ d # NoDoc
            /\ Entries[i] = FinishedEntry(d)
            /\ Match(d.inputs) /\ Match(d.outputs)]_allVars

(* A call that has started ends, by exit or kill, whatever its children    *)
(* and the other calls do.                                                 *)
EveryCallEnds == \A c \in Calls : pc[c] = "checked" ~> Gone(c)
===============================================================================
