----------------------------- MODULE HoldoutAccess -----------------------------
(***************************************************************************)
(* The access ledger of the DEV and TEST splits (c_ept/run/evaluate.py:    *)
(* AccessLedger, HoldoutGate, evaluate).  Every evaluation of DEV is       *)
(* entered before it makes a number; TEST is opened once, after a DEV      *)
(* rehearsal of the same set-up.                                           *)
(*                                                                         *)
(* A run is one execution of the evaluate stage: a stage that is begun     *)
(* again is another run of the same set-up.  An entry is the run that      *)
(* wrote it: no run writes two.  Entries are chained by hashes, so the     *)
(* hash of an entry stands for all entries up to it and for the 'created'  *)
(* entry, which is the number of the making of the ledger; the S5 lock     *)
(* names the first one.  The set-up of a run is what the gate compares:    *)
(* profile without role, code, sources, training records.  The rehearsal's *)
(* own files are not changed.                                              *)
(***************************************************************************)
EXTENDS Naturals, Sequences

CONSTANTS Runs, Tests,   \* evaluation runs, those with the role TEST
          Setup,         \* the set-up of each run
          MaxChanges,    \* a bound on what people do to the folder
          None

Ledgers == [making : Nat \ {0}, entries : Seq(Runs)]

ASSUME HoldoutAssumption ==
  Tests \subseteq Runs /\ None \notin Runs /\ None \notin Ledgers /\ MaxChanges \in Nat

VARIABLES ledger,     \* ACCESS_LEDGER.json: the entries, and the making they belong to
          marker,     \* TEST_OPENED.json exists
          lock,       \* ACCESS_LEDGER.lock
          pc,
          read,       \* what each run has read of the ledger
          wrote,      \* the ledger up to the entry of the run, None before it
          numbers,    \* runs that have made a number
          cuts, changes

disk == <<ledger, marker, lock>>
vars == <<disk, pc, read, wrote, numbers, cuts, changes>>

Locked == {"read", "mark", "write", "leave", "entered"}
Active == Locked \cup {"access", "append", "compute"}
Over == {"done", "refused", "dead"}

Prefix(s, t) == Len(s) <= Len(t) /\ \A i \in 1..Len(s) : s[i] = t[i]
Holds(old, new) == old.making = new.making /\ Prefix(old.entries, new.entries)
Opened == marker \/ \E i \in DOMAIN ledger.entries : ledger.entries[i] \in Tests

Init ==
  /\ ledger = [making |-> 1, entries |-> <<>>]
  /\ marker = FALSE
  /\ lock = None
  /\ pc = [r \in Runs |-> "start"]
  /\ read = [r \in Runs |-> [making |-> 1, entries |-> <<>>]]
  /\ wrote = [r \in Runs |-> None]
  /\ numbers = {}
  /\ cuts = 0 /\ changes = 0

Go(r, place) == pc' = [pc EXCEPT ![r] = place]
-------------------------------------------------------------------------------
(* The gate of TEST. *)

(* Bug: the set-up of the rehearsal is not compared. *)
RehearsesAnySetup(d, r) ==
  /\ d \in Runs \ Tests /\ pc[d] = "done"
  /\ wrote[d] # None /\ Holds(wrote[d], ledger)

(* A finished DEV run of the same set-up whose own entry is in the ledger. *)
Rehearses(d, r) ==
  /\ d \in Runs \ Tests /\ pc[d] = "done" /\ Setup[d] = Setup[r]
  /\ wrote[d] # None /\ Holds(wrote[d], ledger)

(* check_evidence: the ledger that the lock names, a rehearsal, not opened. *)
Evidence(r) == ledger.making = 1 /\ ~Opened /\ \E d \in Runs : Rehearses(d, r)

(* A DEV run goes on to its entry, a TEST run is checked: early, before    *)
(* the models are checked, and again by open.                              *)
Start(r) ==
  /\ pc[r] = "start"
  /\ Go(r, IF r \notin Tests THEN "append" ELSE IF Evidence(r) THEN "access" ELSE "refused")
  /\ UNCHANGED <<disk, read, wrote, numbers, cuts, changes>>

Open(r) ==
  /\ pc[r] = "access"
  /\ Go(r, IF Evidence(r) THEN "append" ELSE "refused")
  /\ UNCHANGED <<disk, read, wrote, numbers, cuts, changes>>
-------------------------------------------------------------------------------
(* append. *)

(* Bug: a lock that is there is taken for one that a crash left. *)
TakeLockAnyway(r) ==
  /\ pc[r] = "append"
  /\ lock' = r /\ Go(r, "read")
  /\ UNCHANGED <<ledger, marker, read, wrote, numbers, cuts, changes>>

(* The lock is created exclusively, or the run is refused. *)
TakeLock(r) ==
  /\ pc[r] = "append"
  /\ IF lock = None THEN lock' = r /\ Go(r, "read") ELSE Go(r, "refused") /\ UNCHANGED lock
  /\ UNCHANGED <<ledger, marker, read, wrote, numbers, cuts, changes>>

(* Bug: only the entries tell whether TEST was opened. *)
ReadEntriesOnly(r) ==
  /\ pc[r] = "read"
  /\ read' = [read EXCEPT ![r] = ledger]
  /\ Go(r, IF r \notin Tests THEN "write"
           ELSE IF \E i \in DOMAIN ledger.entries : ledger.entries[i] \in Tests THEN "leave" ELSE "write")
  /\ UNCHANGED <<disk, wrote, numbers, cuts, changes>>

Read(r) ==
  /\ pc[r] = "read"
  /\ read' = [read EXCEPT ![r] = ledger]
  /\ Go(r, IF r \notin Tests THEN "write" ELSE IF Opened THEN "leave" ELSE "mark")
  /\ UNCHANGED <<disk, wrote, numbers, cuts, changes>>

(* The marker is created exclusively, before the entry is written. *)
Mark(r) ==
  /\ pc[r] = "mark"
  /\ marker' = TRUE
  /\ Go(r, IF marker THEN "leave" ELSE "write")
  /\ UNCHANGED <<ledger, lock, read, wrote, numbers, cuts, changes>>

Write(r) ==
  /\ pc[r] = "write"
  /\ ledger' = [read[r] EXCEPT !.entries = Append(@, r)]
  /\ wrote' = [wrote EXCEPT ![r] = ledger']
  /\ Go(r, "entered")
  /\ UNCHANGED <<marker, lock, read, numbers, cuts, changes>>

(* A read, the marker or the write fails. *)
Fails(r) ==
  /\ pc[r] \in {"read", "mark", "write"}
  /\ Go(r, "leave")
  /\ UNCHANGED <<disk, read, wrote, numbers, cuts, changes>>

(* The lock is removed on every way out; a removal that fails is passed over. *)
Unlock(r) ==
  /\ pc[r] \in {"leave", "entered"}
  /\ lock' \in {None, lock}
  /\ Go(r, IF pc[r] = "entered" THEN "compute" ELSE "refused")
  /\ UNCHANGED <<ledger, marker, read, wrote, numbers, cuts, changes>>
-------------------------------------------------------------------------------
(* The evaluation, and what ends a run or changes the folder. *)

(* Numbers are made; the run finishes, or fails after it made some. *)
Compute(r) ==
  /\ pc[r] = "compute"
  /\ numbers' = numbers \cup {r}
  /\ \E place \in {"done", "refused"} : Go(r, place)
  /\ UNCHANGED <<disk, read, wrote, cuts, changes>>

(* The process is killed; the lock stays. *)
Crash(r) ==
  /\ pc[r] \in Active
  /\ Go(r, "dead")
  /\ UNCHANGED <<disk, read, wrote, numbers, cuts, changes>>

(* "If none is running, a crash left the lock: delete that file yourself". *)
DeleteLock ==
  /\ lock # None /\ pc[lock] \in Over
  /\ lock' = None
  /\ UNCHANGED <<ledger, marker, pc, read, wrote, numbers, cuts, changes>>

(* Someone cuts the last entry out of the ledger. *)
CutBack ==
  /\ changes < MaxChanges /\ changes' = changes + 1
  /\ ledger.entries # <<>>
  /\ ledger' = [ledger EXCEPT !.entries = SubSeq(@, 1, Len(@) - 1)]
  /\ cuts' = cuts + 1
  /\ UNCHANGED <<marker, lock, pc, read, wrote, numbers>>

(* Someone deletes the ledger with its marker and makes a new one, while   *)
(* no run is under way.                                                    *)
MakeAgain ==
  /\ changes < MaxChanges /\ changes' = changes + 1
  /\ \A r \in Runs : pc[r] \notin Active
  /\ ledger' = [making |-> ledger.making + 1, entries |-> <<>>]
  /\ marker' = FALSE
  /\ UNCHANGED <<lock, pc, read, wrote, numbers, cuts>>

Step(r) ==
  \/ Start(r) \/ Open(r) \/ TakeLock(r) \/ Read(r) \/ Mark(r) \/ Write(r) \/ Fails(r)
  \/ Unlock(r) \/ Compute(r) \/ Crash(r)

Next == (\E r \in Runs : Step(r)) \/ DeleteLock \/ CutBack \/ MakeAgain

Spec == Init /\ [][Next]_vars
-------------------------------------------------------------------------------
(* Properties. *)

TypeOK ==
  /\ ledger \in Ledgers
  /\ marker \in BOOLEAN
  /\ lock \in Runs \cup {None}
  /\ pc \in [Runs -> {"start"} \cup Active \cup Over]
  /\ read \in [Runs -> Ledgers]
  /\ wrote \in [Runs -> Ledgers \cup {None}]
  /\ numbers \subseteq Runs
  /\ cuts \in Nat /\ changes \in Nat

(* TEST is opened once: no two runs ever hold an opening, although runs    *)
(* crash between marker and entry, entries are cut out of the ledger, and  *)
(* the ledger is made again.                                               *)
TestOpenedOnce == \A r, q \in Tests : wrote[r] # None /\ wrote[q] # None => r = q

(* Who has made a number stands in the ledger, and no entry is lost to     *)
(* another run's: unless someone cuts the ledger or makes it again.        *)
NumbersAreLogged ==
  cuts = 0 => \A r \in Runs :
    /\ r \in numbers => wrote[r] # None
    /\ wrote[r] # None => wrote[r].making < ledger.making \/ Holds(wrote[r], ledger)

(* The opening of TEST stands in the ledger after the entry of a finished  *)
(* DEV run of the same set-up.                                             *)
RehearsedFirst ==
  cuts = 0 => \A r \in Tests : wrote[r] # None =>
    \E d \in Runs \ Tests : /\ pc[d] = "done" /\ Setup[d] = Setup[r]
                            /\ \E i \in 1..Len(wrote[r].entries) : wrote[r].entries[i] = d
===============================================================================
