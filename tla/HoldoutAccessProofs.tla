-------------------------- MODULE HoldoutAccessProofs --------------------------
(***************************************************************************)
(* Proofs about HoldoutAccess: TEST is opened once, after a rehearsal, and *)
(* no number is made without its entry, for every set of runs and every    *)
(* number of changes to the folder.                                        *)
(***************************************************************************)
EXTENDS HoldoutAccessInv, TLAPS

Places == {"start"} \cup Active \cup Over

-------------------------------------------------------------------------------
(* The ledger. *)

(* An appended ledger is a ledger. *)
LEMMA AppendType ==
  ASSUME NEW l \in Ledgers, NEW r \in Runs
  PROVE  /\ [l EXCEPT !.entries = Append(@, r)] \in Ledgers
         /\ [l EXCEPT !.entries = Append(@, r)].making = l.making
         /\ [l EXCEPT !.entries = Append(@, r)].entries = Append(l.entries, r)
<1>1. l.entries \in Seq(Runs) BY DEF Ledgers
<1>2. Append(l.entries, r) \in Seq(Runs) BY <1>1
<1> QED BY <1>2 DEF Ledgers

(* What a ledger holds, it holds after one more entry. *)
LEMMA HoldsAfterAppend ==
  ASSUME NEW w \in Ledgers, NEW l \in Ledgers, NEW r \in Runs, Holds(w, l)
  PROVE  Holds(w, [l EXCEPT !.entries = Append(@, r)])
<1> DEFINE new == Append(l.entries, r)
<1>1. w.entries \in Seq(Runs) /\ l.entries \in Seq(Runs) BY DEF Ledgers
<1>2. Len(new) = Len(l.entries) + 1 /\ \A i \in 1..Len(l.entries) : new[i] = l.entries[i]
  BY <1>1
<1>3. Len(w.entries) <= Len(new) BY <1>1, <1>2 DEF Holds, Prefix
<1>4. \A i \in 1..Len(w.entries) : w.entries[i] = new[i]
  <2> SUFFICES ASSUME NEW i \in 1..Len(w.entries) PROVE w.entries[i] = new[i]
    OBVIOUS
  <2>1. i \in 1..Len(l.entries) BY <1>1 DEF Holds, Prefix
  <2>2. w.entries[i] = l.entries[i] BY DEF Holds, Prefix
  <2> QED BY <1>2, <2>1, <2>2
<1> QED BY <1>3, <1>4, AppendType DEF Holds, Prefix

(* A ledger holds itself. *)
LEMMA HoldsItself ==
  ASSUME NEW l \in Ledgers PROVE Holds(l, l)
<1>1. l.entries \in Seq(Runs) BY DEF Ledgers
<1> QED BY <1>1 DEF Holds, Prefix

-------------------------------------------------------------------------------
(* Steps of one run that do not write the ledger. *)

(* They keep the entries, the rehearsals and what the gate has seen.       *)
LEMMA QuietStep ==
  ASSUME IInv, NEW r \in Runs, NEW p \in Places, Go(r, p), pc[r] # "done",
         UNCHANGED <<ledger, wrote, cuts>>,
         r \in Tests /\ p \in Active => pc[r] \in Active \/ Evidence(r)
  PROVE  GateHolds' /\ EntriesKept' /\ RehearsalKept' /\ RehearsedFirst'
<1> USE DEF Go
<1>0. pc \in [Runs -> Places] BY DEF IInv, TypeOK, Places
<1>1. pc' = [pc EXCEPT ![r] = p] OBVIOUS
<1>2. \A d \in Runs : pc[d] = "done" => pc'[d] = "done" BY <1>0, <1>1
<1>3. GateHolds'
  <2> SUFFICES ASSUME NEW t \in Tests, pc'[t] \in Active PROVE ledger.making = 1
    BY DEF GateHolds
  <2>1. t \in Runs BY HoldoutAssumption
  <2>2. CASE t = r BY <2>2, <1>0, <1>1 DEF IInv, GateHolds, Evidence
  <2>3. CASE t # r BY <2>1, <2>3, <1>0, <1>1 DEF IInv, GateHolds
  <2> QED BY <2>2, <2>3
<1>4. EntriesKept'
  BY DEF IInv, EntriesKept, Holds
<1>5. RehearsalKept'
  <2> SUFFICES ASSUME cuts = 0, NEW t \in Tests, pc'[t] \in Active
               PROVE  \E d \in Runs : Rehearses(d, t)'
    BY DEF RehearsalKept
  <2>1. t \in Runs BY HoldoutAssumption
  <2>2. \E d \in Runs : Rehearses(d, t)
    <3>1. CASE t = r BY <3>1, <1>0, <1>1 DEF IInv, RehearsalKept, Evidence
    <3>2. CASE t # r BY <2>1, <3>2, <1>0, <1>1 DEF IInv, RehearsalKept
    <3> QED BY <3>1, <3>2
  <2>3. PICK d \in Runs : Rehearses(d, t) BY <2>2
  <2>4. Rehearses(d, t)' BY <2>3, <1>2 DEF Rehearses, Holds
  <2> QED BY <2>4
<1>6. RehearsedFirst'
  BY <1>2 DEF IInv, RehearsedFirst
<1> QED BY <1>3, <1>4, <1>5, <1>6

(* A step outside the lock, which takes no lock, opens nothing and makes   *)
(* no number, keeps the rest too.                                          *)
LEMMA UnlockedStep ==
  ASSUME IInv, NEW r \in Runs, NEW p \in Places \ (Locked \cup {"compute", "done"}), Go(r, p),
         UNCHANGED <<disk, read, wrote, numbers, cuts, changes>>
  PROVE  /\ TypeOK' /\ LockHeld' /\ OpeningMarked' /\ OneOpener' /\ ReadIsCurrent' /\ EntryFirst'
<1> USE DEF Go, disk
<1>0. pc \in [Runs -> Places] /\ Tests \subseteq Runs BY HoldoutAssumption DEF IInv, TypeOK, Places
<1>1. pc' = [pc EXCEPT ![r] = p] /\ pc' \in [Runs -> Places] BY <1>0
<1>2. \A q \in Runs : pc'[q] \in Locked \cup {"compute", "done"} => pc'[q] = pc[q]
  BY <1>0, <1>1
<1>3. \A q \in Runs : Opens(q)' => Opens(q) BY <1>2 DEF Opens, Locked
<1>4. TypeOK' BY <1>1 DEF IInv, TypeOK, Places
<1>5. LockHeld' BY <1>2 DEF IInv, LockHeld
<1>6. OpeningMarked' BY <1>0, <1>3 DEF IInv, OpeningMarked
<1>7. OneOpener' BY <1>0, <1>3 DEF IInv, OneOpener
<1>8. ReadIsCurrent' BY <1>2 DEF IInv, ReadIsCurrent, Locked
<1>9. EntryFirst' BY <1>2 DEF IInv, EntryFirst, Locked
<1> QED BY <1>4, <1>5, <1>6, <1>7, <1>8, <1>9
-------------------------------------------------------------------------------
(* One lemma per action: the inductive invariant is kept. *)

(* The start and the second look of the gate. *)
LEMMA StartInv ==
  ASSUME IInv, NEW r \in Runs, Start(r) \/ Open(r) PROVE IInv'
<1>1. PICK p \in {"append", "access", "refused"} :
        Go(r, p) /\ (r \in Tests /\ p \in Active => pc[r] \in Active \/ Evidence(r))
  BY DEF Start, Open, Go, Active, Locked
<1>2. UNCHANGED <<disk, read, wrote, numbers, cuts, changes>> /\ pc[r] \in {"start", "access"}
  BY DEF Start, Open
<1>3. p \in Places \ (Locked \cup {"compute", "done"}) BY DEF Places, Active, Over, Locked
<1>4. GateHolds' /\ EntriesKept' /\ RehearsalKept' /\ RehearsedFirst'
  BY <1>1, <1>2, <1>3, QuietStep DEF disk
<1>5. TypeOK' /\ LockHeld' /\ OpeningMarked' /\ OneOpener' /\ ReadIsCurrent' /\ EntryFirst'
  BY <1>1, <1>2, <1>3, UnlockedStep
<1> QED BY <1>4, <1>5 DEF IInv

(* A crash of the process. *)
LEMMA CrashInv ==
  ASSUME IInv, NEW r \in Runs, Crash(r) PROVE IInv'
<1>1. "dead" \in Places \ (Locked \cup {"compute", "done"}) /\ "dead" \notin Active
  BY DEF Places, Active, Over, Locked
<1>2. pc[r] # "done" BY DEF Crash, Active, Locked
<1>3. GateHolds' /\ EntriesKept' /\ RehearsalKept' /\ RehearsedFirst'
  BY <1>1, <1>2, QuietStep DEF disk, Crash
<1>4. TypeOK' /\ LockHeld' /\ OpeningMarked' /\ OneOpener' /\ ReadIsCurrent' /\ EntryFirst'
  BY <1>1, UnlockedStep DEF Crash
<1> QED BY <1>3, <1>4 DEF IInv

(* Taking the lock: nobody else holds it. *)
LEMMA TakeLockInv ==
  ASSUME IInv, NEW r \in Runs, TakeLock(r) PROVE IInv'
<1> USE DEF Go, disk
<1>0. /\ pc \in [Runs -> Places] /\ Tests \subseteq Runs /\ None \notin Runs
      /\ pc[r] = "append" /\ pc[r] \in Active
  BY HoldoutAssumption DEF IInv, TypeOK, Places, TakeLock, Active
<1>1. CASE lock # None
  <2>1. Go(r, "refused") /\ UNCHANGED <<disk, read, wrote, numbers, cuts, changes>>
    BY <1>1 DEF TakeLock
  <2>2. "refused" \in Places \ (Locked \cup {"compute", "done"}) /\ "refused" \notin Active
    BY DEF Places, Active, Over, Locked
  <2>3. GateHolds' /\ EntriesKept' /\ RehearsalKept' /\ RehearsedFirst'
    BY <1>0, <2>1, <2>2, QuietStep
  <2>4. TypeOK' /\ LockHeld' /\ OpeningMarked' /\ OneOpener' /\ ReadIsCurrent' /\ EntryFirst'
    BY <2>1, <2>2, UnlockedStep
  <2> QED BY <2>3, <2>4 DEF IInv
<1>2. CASE lock = None
  <2>1. /\ lock' = r /\ pc' = [pc EXCEPT ![r] = "read"]
        /\ UNCHANGED <<ledger, marker, read, wrote, numbers, cuts, changes>>
    BY <1>2 DEF TakeLock
  <2>2. "read" \in Places BY DEF Places, Active, Locked
  <2>3. \A q \in Runs : pc[q] \notin Locked BY <1>0, <1>2 DEF IInv, LockHeld
  <2>4. pc' \in [Runs -> Places] /\ pc'[r] = "read" /\ \A q \in Runs \ {r} : pc'[q] = pc[q]
    BY <1>0, <2>1, <2>2
  <2>5. \A q \in Runs : Opens(q)' => Opens(q) BY <2>1, <2>4 DEF Opens
  <2>6. GateHolds' /\ EntriesKept' /\ RehearsalKept' /\ RehearsedFirst'
    BY <1>0, <2>1, <2>2, QuietStep
  <2>7. TypeOK' BY <2>1, <2>4 DEF IInv, TypeOK, Places
  <2>8. LockHeld' BY <2>1, <2>3, <2>4 DEF LockHeld
  <2>9. OpeningMarked' /\ OneOpener'
    BY <1>0, <2>1, <2>5 DEF IInv, OpeningMarked, OneOpener
  <2>10. ReadIsCurrent' BY <2>1, <2>4 DEF IInv, ReadIsCurrent
  <2>11. EntryFirst' BY <2>1, <2>4 DEF IInv, EntryFirst
  <2> QED BY <2>6, <2>7, <2>8, <2>9, <2>10, <2>11 DEF IInv
<1> QED BY <1>1, <1>2

(* Under the lock a run is the only one that can be at "mark" or "write". *)
LEMMA OneUnderLock ==
  ASSUME IInv, NEW r \in Runs, NEW q \in Runs, pc[r] \in Locked, pc[q] \in Locked
  PROVE  q = r
BY DEF IInv, LockHeld

(* Reading the ledger: what was read is what is there. *)
LEMMA ReadInv ==
  ASSUME IInv, NEW r \in Runs, Read(r) PROVE IInv'
<1> USE DEF Go, disk
<1>0. /\ pc \in [Runs -> Places] /\ Tests \subseteq Runs /\ ledger \in Ledgers
      /\ read \in [Runs -> Ledgers] /\ pc[r] = "read" /\ pc[r] \in Locked /\ pc[r] \in Active
  BY HoldoutAssumption DEF IInv, TypeOK, Places, Read, Active, Locked
<1>1. PICK p \in {"write", "leave", "mark"} :
        /\ pc' = [pc EXCEPT ![r] = p] /\ (p = "write" => r \notin Tests)
  BY DEF Read
<1>2. read' = [read EXCEPT ![r] = ledger] /\ UNCHANGED <<disk, wrote, numbers, cuts, changes>>
  BY DEF Read
<1>3. p \in Places /\ p \in Locked BY DEF Places, Active, Locked
<1>4. pc' \in [Runs -> Places] /\ pc'[r] = p /\ \A q \in Runs \ {r} : pc'[q] = pc[q]
  BY <1>0, <1>1, <1>3
<1>5. \A q \in Tests : Opens(q)' => Opens(q) BY <1>0, <1>1, <1>2, <1>4 DEF Opens
<1>6. GateHolds' /\ EntriesKept' /\ RehearsalKept' /\ RehearsedFirst'
  BY <1>0, <1>1, <1>2, <1>3, QuietStep
<1>7. TypeOK' BY <1>0, <1>2, <1>4 DEF IInv, TypeOK, Places
<1>8. LockHeld' BY <1>0, <1>2, <1>4 DEF IInv, LockHeld
<1>9. OpeningMarked' /\ OneOpener' BY <1>2, <1>5 DEF IInv, OpeningMarked, OneOpener
<1>10. ReadIsCurrent' BY <1>0, <1>2, <1>4 DEF IInv, ReadIsCurrent
<1>11. EntryFirst' BY <1>2, <1>4 DEF IInv, EntryFirst
<1> QED BY <1>6, <1>7, <1>8, <1>9, <1>10, <1>11 DEF IInv

(* The marker: an earlier opening would have left one, as the ledger was   *)
(* not made again.                                                         *)
LEMMA MarkInv ==
  ASSUME IInv, NEW r \in Runs, Mark(r) PROVE IInv'
<1> USE DEF Go, disk
<1>0. /\ pc \in [Runs -> Places] /\ Tests \subseteq Runs
      /\ pc[r] = "mark" /\ pc[r] \in Locked /\ pc[r] \in Active
  BY HoldoutAssumption DEF IInv, TypeOK, Places, Mark, Active, Locked
<1>1. PICK p \in {"write", "leave"} :
        pc' = [pc EXCEPT ![r] = p] /\ (p = "write" => ~marker)
  BY DEF Mark
<1>2. marker' = TRUE /\ UNCHANGED <<ledger, lock, read, wrote, numbers, cuts, changes>>
  BY DEF Mark
<1>3. p \in Places /\ p \in Locked BY DEF Places, Active, Locked
<1>4. pc' \in [Runs -> Places] /\ pc'[r] = p /\ \A q \in Runs \ {r} : pc'[q] = pc[q]
  BY <1>0, <1>1, <1>3
<1>5. GateHolds' /\ EntriesKept' /\ RehearsalKept' /\ RehearsedFirst'
  BY <1>0, <1>1, <1>2, <1>3, QuietStep
<1>6. TypeOK' BY <1>2, <1>4 DEF IInv, TypeOK, Places
<1>7. LockHeld' BY <1>0, <1>2, <1>4 DEF IInv, LockHeld
<1>8. OpeningMarked' BY <1>2 DEF OpeningMarked
<1>9. OneOpener'
  <2>1. CASE p = "write" /\ r \in Tests
    <3>1. ledger.making = 1 BY <1>0, <2>1 DEF IInv, GateHolds
    <3>2. \A q \in Tests : ~Opens(q) BY <1>1, <2>1, <3>1 DEF IInv, OpeningMarked
    <3>3. \A q \in Tests : Opens(q)' => q = r BY <1>0, <1>2, <1>4, <3>2 DEF Opens
    <3> QED BY <3>3 DEF OneOpener
  <2>2. CASE ~(p = "write" /\ r \in Tests)
    <3>1. \A q \in Tests : Opens(q)' => Opens(q) BY <1>0, <1>2, <1>4, <2>2 DEF Opens
    <3> QED BY <3>1 DEF IInv, OneOpener
  <2> QED BY <2>1, <2>2
<1>10. ReadIsCurrent' BY <1>0, <1>2, <1>4 DEF IInv, ReadIsCurrent
<1>11. EntryFirst' BY <1>2, <1>4 DEF IInv, EntryFirst
<1> QED BY <1>5, <1>6, <1>7, <1>8, <1>9, <1>10, <1>11 DEF IInv

(* The entry: what was read is still there, so that nothing is lost, and   *)
(* the rehearsal that the gate has seen is in it.                          *)
LEMMA WriteInv ==
  ASSUME IInv, NEW r \in Runs, Write(r) PROVE IInv'
<1> USE DEF Go, disk
<1>0. /\ pc \in [Runs -> Places] /\ Tests \subseteq Runs /\ ledger \in Ledgers /\ read[r] \in Ledgers
      /\ wrote \in [Runs -> Ledgers \cup {None}] /\ None \notin Ledgers
      /\ pc[r] = "write" /\ pc[r] \in Locked /\ pc[r] \in Active
  BY HoldoutAssumption DEF IInv, TypeOK, Places, Write, Active, Locked
<1>1. /\ pc' = [pc EXCEPT ![r] = "entered"] /\ wrote' = [wrote EXCEPT ![r] = ledger']
      /\ ledger' = [read[r] EXCEPT !.entries = Append(@, r)]
      /\ UNCHANGED <<marker, lock, read, numbers, cuts, changes>>
  BY DEF Write
<1>2. "entered" \in Places /\ "entered" \in Locked BY DEF Places, Active, Locked
<1>3. pc' \in [Runs -> Places] /\ pc'[r] = "entered" /\ \A q \in Runs \ {r} : pc'[q] = pc[q]
  BY <1>0, <1>1, <1>2
<1>4. /\ ledger' \in Ledgers /\ ledger'.making = ledger.making
      /\ ledger'.entries = Append(read[r].entries, r)
  BY <1>0, <1>1, AppendType DEF IInv, ReadIsCurrent
<1>5. wrote'[r] = ledger' /\ wrote'[r] # None /\ \A q \in Runs \ {r} : wrote'[q] = wrote[q]
  BY <1>0, <1>1, <1>4
<1>6. \A q \in Runs : Opens(q)' => Opens(q) BY <1>0, <1>3, <1>5 DEF Opens
<1>7. cuts = 0 => \A w \in Ledgers : Holds(w, ledger) => Holds(w, ledger')
  BY <1>0, <1>1, HoldsAfterAppend DEF IInv, ReadIsCurrent
<1>8. Len(ledger'.entries) > 0 /\ ledger'.entries[Len(ledger'.entries)] = r
  <2>1. read[r].entries \in Seq(Runs) BY <1>0 DEF Ledgers
  <2> QED BY <1>4, <2>1
<1>9. TypeOK'
  <2>1. wrote' \in [Runs -> Ledgers \cup {None}] BY <1>0, <1>1, <1>4
  <2> QED BY <1>1, <1>3, <1>4, <2>1 DEF IInv, TypeOK, Places
<1>10. LockHeld' BY <1>0, <1>1, <1>3 DEF IInv, LockHeld
<1>11. GateHolds' BY <1>0, <1>3, <1>4 DEF IInv, GateHolds
<1>12. OpeningMarked' BY <1>0, <1>1, <1>4, <1>6 DEF IInv, OpeningMarked
<1>13. OneOpener' BY <1>0, <1>6 DEF IInv, OneOpener
<1>14. ReadIsCurrent'
  <2> SUFFICES ASSUME NEW q \in Runs, pc'[q] \in {"mark", "write"} PROVE FALSE
    BY DEF ReadIsCurrent
  <2>1. q # r /\ pc[q] \in Locked BY <1>3 DEF Locked
  <2> QED BY <1>0, <2>1, OneUnderLock
<1>15. EntryFirst'
  <2>1. \A q \in Runs : pc'[q] \in {"entered", "compute", "done"} \/ q \in numbers' => wrote'[q] # None
    BY <1>1, <1>3, <1>5 DEF IInv, EntryFirst
  <2>2. \A q \in Runs : wrote'[q] # None =>
          Len(wrote'[q].entries) > 0 /\ wrote'[q].entries[Len(wrote'[q].entries)] = q
    BY <1>5, <1>8 DEF IInv, EntryFirst
  <2> QED BY <2>1, <2>2 DEF EntryFirst
<1>16. EntriesKept'
  <2> SUFFICES ASSUME NEW q \in Runs, wrote'[q] # None
               PROVE  /\ wrote'[q].making <= ledger'.making
                      /\ cuts = 0 => wrote'[q].making < ledger'.making \/ Holds(wrote'[q], ledger')
    BY <1>1 DEF EntriesKept, Holds
  <2>1. CASE q = r
    <3>1. wrote'[q] = ledger' /\ Holds(ledger', ledger') BY <1>4, <1>5, <2>1, HoldsItself
    <3>2. ledger'.making \in Nat BY <1>4 DEF Ledgers
    <3> QED BY <3>1, <3>2
  <2>2. CASE q # r
    <3>1. wrote[q] # None /\ wrote'[q] = wrote[q] /\ wrote[q] \in Ledgers BY <1>0, <1>5, <2>2
    <3> QED BY <1>4, <1>7, <3>1 DEF IInv, EntriesKept
  <2> QED BY <2>1, <2>2
<1>17. \A d, t \in Runs : cuts = 0 /\ Rehearses(d, t) => Rehearses(d, t)'
  <2> SUFFICES ASSUME NEW d \in Runs, NEW t \in Runs, cuts = 0, Rehearses(d, t)
               PROVE  Rehearses(d, t)'
    OBVIOUS
  <2>1. d # r /\ pc'[d] = "done" /\ wrote'[d] = wrote[d] BY <1>0, <1>3, <1>5 DEF Rehearses
  <2>2. wrote[d] \in Ledgers BY <1>0 DEF Rehearses
  <2>3. Holds(wrote[d], ledger') BY <1>7, <2>2 DEF Rehearses
  <2> QED BY <2>1, <2>3 DEF Rehearses, Holds
<1>18. RehearsalKept'
  BY <1>0, <1>1, <1>3, <1>17 DEF IInv, RehearsalKept
<1>19. RehearsedFirst'
  <2> SUFFICES ASSUME cuts = 0, NEW t \in Tests, wrote'[t] # None
      PROVE \E d \in Runs \ Tests : /\ pc'[d] = "done" /\ Setup[d] = Setup[t]
              /\ \E i \in 1..Len(wrote'[t].entries) : wrote'[t].entries[i] = d
    BY <1>1 DEF RehearsedFirst
  <2>1. CASE t = r
    <3>1. PICK d \in Runs : Rehearses(d, r) BY <1>0, <2>1 DEF IInv, RehearsalKept
    <3>2. Rehearses(d, r)' BY <1>17, <3>1
    <3>3. /\ d \in Runs \ Tests /\ pc'[d] = "done" /\ Setup[d] = Setup[r]
          /\ wrote'[d] # None /\ Holds(wrote'[d], ledger')
      BY <3>2 DEF Rehearses, Holds
    <3>4. Len(wrote'[d].entries) > 0 /\ wrote'[d].entries[Len(wrote'[d].entries)] = d
      BY <1>15, <3>3 DEF EntryFirst
    <3>5. wrote'[d].entries \in Seq(Runs) BY <1>9, <3>3 DEF TypeOK, Ledgers
    <3>6. Len(wrote'[d].entries) \in 1..Len(wrote'[d].entries) BY <3>4, <3>5
    <3>7. /\ Len(wrote'[d].entries) <= Len(ledger'.entries)
          /\ ledger'.entries[Len(wrote'[d].entries)] = d
      BY <3>3, <3>4, <3>6 DEF Holds, Prefix
    <3>8. ledger'.entries \in Seq(Runs) BY <1>4 DEF Ledgers
    <3>9. Len(wrote'[d].entries) \in 1..Len(ledger'.entries) BY <3>6, <3>7, <3>8
    <3> QED BY <1>5, <2>1, <3>3, <3>7, <3>9
  <2>2. CASE t # r
    <3>1. t \in Runs /\ wrote'[t] = wrote[t] BY <1>0, <1>5, <2>2
    <3>2. PICK d \in Runs \ Tests : /\ pc[d] = "done" /\ Setup[d] = Setup[t]
              /\ \E i \in 1..Len(wrote[t].entries) : wrote[t].entries[i] = d
      BY <3>1 DEF IInv, RehearsedFirst
    <3>3. pc'[d] = "done" BY <1>0, <1>3, <3>2
    <3> QED BY <3>1, <3>2, <3>3
  <2> QED BY <2>1, <2>2
<1> QED BY <1>9, <1>10, <1>11, <1>12, <1>13, <1>14, <1>15, <1>16, <1>18, <1>19 DEF IInv

(* A failed read, marker or write. *)
LEMMA FailsInv ==
  ASSUME IInv, NEW r \in Runs, Fails(r) PROVE IInv'
<1> USE DEF Go, disk
<1>0. /\ pc \in [Runs -> Places] /\ Tests \subseteq Runs
      /\ pc[r] \in {"read", "mark", "write"} /\ pc[r] \in Locked /\ pc[r] \in Active
  BY HoldoutAssumption DEF IInv, TypeOK, Places, Fails, Active, Locked
<1>1. /\ pc' = [pc EXCEPT ![r] = "leave"]
      /\ UNCHANGED <<disk, read, wrote, numbers, cuts, changes>>
  BY DEF Fails
<1>2. "leave" \in Places BY DEF Places, Active, Locked
<1>3. pc' \in [Runs -> Places] /\ pc'[r] = "leave" /\ \A q \in Runs \ {r} : pc'[q] = pc[q]
  BY <1>0, <1>1, <1>2
<1>4. \A q \in Runs : Opens(q)' => Opens(q) BY <1>1, <1>3 DEF Opens
<1>5. GateHolds' /\ EntriesKept' /\ RehearsalKept' /\ RehearsedFirst'
  BY <1>0, <1>1, <1>2, QuietStep
<1>6. TypeOK' BY <1>1, <1>3 DEF IInv, TypeOK, Places
<1>7. LockHeld' BY <1>0, <1>1, <1>3 DEF IInv, LockHeld
<1>8. OpeningMarked' /\ OneOpener' BY <1>0, <1>1, <1>4 DEF IInv, OpeningMarked, OneOpener
<1>9. ReadIsCurrent' BY <1>1, <1>3 DEF IInv, ReadIsCurrent
<1>10. EntryFirst' BY <1>1, <1>3 DEF IInv, EntryFirst
<1> QED BY <1>5, <1>6, <1>7, <1>8, <1>9, <1>10 DEF IInv

(* The removal of the lock: only its holder is between lock and unlock. *)
LEMMA UnlockInv ==
  ASSUME IInv, NEW r \in Runs, Unlock(r) PROVE IInv'
<1> USE DEF Go
<1>0. /\ pc \in [Runs -> Places] /\ Tests \subseteq Runs /\ lock \in Runs \cup {None}
      /\ pc[r] \in {"leave", "entered"} /\ pc[r] \in Locked /\ pc[r] \in Active
  BY HoldoutAssumption DEF IInv, TypeOK, Places, Unlock, Active, Locked
<1>1. PICK p \in {"compute", "refused"} :
        pc' = [pc EXCEPT ![r] = p] /\ (p = "compute" => pc[r] = "entered")
  BY DEF Unlock
<1>2. lock' \in {None, lock} /\ UNCHANGED <<ledger, marker, read, wrote, numbers, cuts, changes>>
  BY DEF Unlock
<1>3. p \in Places /\ p \notin Locked BY DEF Places, Active, Over, Locked
<1>4. pc' \in [Runs -> Places] /\ pc'[r] = p /\ \A q \in Runs \ {r} : pc'[q] = pc[q]
  BY <1>0, <1>1, <1>3
<1>5. \A q \in Runs : Opens(q)' => Opens(q) BY <1>1, <1>2, <1>4 DEF Opens
<1>6. GateHolds' /\ EntriesKept' /\ RehearsalKept' /\ RehearsedFirst'
  BY <1>0, <1>1, <1>2, <1>3, QuietStep
<1>7. TypeOK' BY <1>0, <1>2, <1>4 DEF IInv, TypeOK, Places
<1>8. LockHeld'
  <2>1. \A q \in Runs : pc'[q] \notin Locked BY <1>0, <1>3, <1>4, OneUnderLock
  <2> QED BY <2>1 DEF LockHeld
<1>9. OpeningMarked' /\ OneOpener' BY <1>0, <1>2, <1>5 DEF IInv, OpeningMarked, OneOpener
<1>10. ReadIsCurrent' BY <1>1, <1>2, <1>4 DEF IInv, ReadIsCurrent
<1>11. EntryFirst' BY <1>1, <1>2, <1>4 DEF IInv, EntryFirst
<1> QED BY <1>6, <1>7, <1>8, <1>9, <1>10, <1>11 DEF IInv

(* The evaluation: who makes numbers has its entry. *)
LEMMA ComputeInv ==
  ASSUME IInv, NEW r \in Runs, Compute(r) PROVE IInv'
<1> USE DEF Go, disk
<1>0. /\ pc \in [Runs -> Places] /\ Tests \subseteq Runs
      /\ pc[r] = "compute" /\ pc[r] \in Active /\ wrote[r] # None
  BY HoldoutAssumption DEF IInv, TypeOK, Places, Compute, Active, EntryFirst
<1>1. PICK p \in {"done", "refused"} : pc' = [pc EXCEPT ![r] = p] BY DEF Compute
<1>2. numbers' = numbers \cup {r} /\ UNCHANGED <<disk, read, wrote, cuts, changes>>
  BY DEF Compute
<1>3. p \in Places /\ p \notin Locked BY DEF Places, Over, Locked
<1>4. pc' \in [Runs -> Places] /\ pc'[r] = p /\ \A q \in Runs \ {r} : pc'[q] = pc[q]
  BY <1>0, <1>1, <1>3
<1>5. \A q \in Runs : Opens(q)' => Opens(q) BY <1>1, <1>2, <1>4 DEF Opens
<1>6. GateHolds' /\ EntriesKept' /\ RehearsalKept' /\ RehearsedFirst'
  BY <1>0, <1>1, <1>2, <1>3, QuietStep
<1>7. TypeOK' BY <1>2, <1>4 DEF IInv, TypeOK, Places
<1>8. LockHeld' BY <1>2, <1>3, <1>4 DEF IInv, LockHeld
<1>9. OpeningMarked' /\ OneOpener' BY <1>0, <1>2, <1>5 DEF IInv, OpeningMarked, OneOpener
<1>10. ReadIsCurrent' BY <1>1, <1>2, <1>4 DEF IInv, ReadIsCurrent
<1>11. EntryFirst' BY <1>0, <1>2, <1>4 DEF IInv, EntryFirst
<1> QED BY <1>6, <1>7, <1>8, <1>9, <1>10, <1>11 DEF IInv

(* A lock deleted by hand: its holder is over, so nobody is under the lock. *)
LEMMA DeleteLockInv ==
  ASSUME IInv, DeleteLock PROVE IInv'
<1>1. /\ lock' = None /\ lock \in Runs /\ pc[lock] \in Over
      /\ UNCHANGED <<ledger, marker, pc, read, wrote, numbers, cuts, changes>>
  BY DEF DeleteLock, IInv, TypeOK
<1>2. \A q \in Runs : pc[q] \notin Locked BY <1>1 DEF IInv, LockHeld, Locked, Over
<1>3. TypeOK' BY <1>1 DEF IInv, TypeOK
<1>4. LockHeld' BY <1>1, <1>2 DEF LockHeld
<1>5. GateHolds' /\ OpeningMarked' /\ OneOpener' /\ ReadIsCurrent' /\ EntryFirst'
  BY <1>1 DEF IInv, GateHolds, OpeningMarked, OneOpener, ReadIsCurrent, EntryFirst, Opens
<1>6. EntriesKept' /\ RehearsedFirst'
  BY <1>1 DEF IInv, EntriesKept, RehearsedFirst, Holds
<1>7. RehearsalKept' BY <1>1 DEF IInv, RehearsalKept, Rehearses, Holds
<1> QED BY <1>3, <1>4, <1>5, <1>6, <1>7 DEF IInv

(* An entry cut out of the ledger: the marker and the making stay. *)
LEMMA CutBackInv ==
  ASSUME IInv, CutBack PROVE IInv'
<1>1. /\ ledger' = [ledger EXCEPT !.entries = SubSeq(@, 1, Len(@) - 1)] /\ ledger.entries # <<>>
      /\ cuts' = cuts + 1 /\ changes' = changes + 1
      /\ UNCHANGED <<marker, lock, pc, read, wrote, numbers>>
  BY DEF CutBack
<1>2. ledger \in Ledgers /\ cuts \in Nat /\ changes \in Nat BY DEF IInv, TypeOK
<1>3. ledger' \in Ledgers /\ ledger'.making = ledger.making
  <2>1. ledger.entries \in Seq(Runs) BY <1>2 DEF Ledgers
  <2>2. SubSeq(ledger.entries, 1, Len(ledger.entries) - 1) \in Seq(Runs) BY <1>1, <2>1
  <2> QED BY <1>1, <1>2, <2>2 DEF Ledgers
<1>4. cuts' \in Nat /\ cuts' # 0 /\ changes' \in Nat BY <1>1, <1>2
<1>5. TypeOK' BY <1>1, <1>3, <1>4 DEF IInv, TypeOK
<1>6. LockHeld' /\ GateHolds' BY <1>1, <1>3 DEF IInv, LockHeld, GateHolds
<1>7. OpeningMarked' /\ OneOpener' BY <1>1, <1>3 DEF IInv, OpeningMarked, OneOpener, Opens
<1>8. ReadIsCurrent' /\ EntryFirst' BY <1>1, <1>3, <1>4 DEF IInv, ReadIsCurrent, EntryFirst
<1>9. EntriesKept' BY <1>1, <1>3, <1>4 DEF IInv, EntriesKept
<1>10. RehearsalKept' /\ RehearsedFirst' BY <1>4 DEF RehearsalKept, RehearsedFirst
<1> QED BY <1>5, <1>6, <1>7, <1>8, <1>9, <1>10 DEF IInv

(* A new ledger: every entry is of an older making, and no TEST run passes *)
(* the gate any more.                                                      *)
LEMMA MakeAgainInv ==
  ASSUME IInv, MakeAgain PROVE IInv'
<1>1. /\ ledger' = [making |-> ledger.making + 1, entries |-> <<>>] /\ changes' = changes + 1
      /\ \A r \in Runs : pc[r] \notin Active
      /\ UNCHANGED <<lock, pc, read, wrote, numbers, cuts>>
  BY DEF MakeAgain
<1>2. /\ ledger \in Ledgers /\ changes \in Nat /\ Tests \subseteq Runs
      /\ wrote \in [Runs -> Ledgers \cup {None}]
  BY HoldoutAssumption DEF IInv, TypeOK
<1>3. ledger.making \in Nat \ {0} BY <1>2 DEF Ledgers
<1>4. ledger'.making = ledger.making + 1 /\ ledger' \in Ledgers BY <1>1, <1>3 DEF Ledgers
<1>5. \A r \in Runs : pc[r] \notin Locked BY <1>1 DEF Active
<1>6. TypeOK'
  <2>1. marker' \in BOOLEAN BY DEF MakeAgain
  <2>2. changes' \in Nat BY <1>1, <1>2
  <2> QED BY <1>1, <1>4, <2>1, <2>2 DEF IInv, TypeOK
<1>7. LockHeld' /\ GateHolds' /\ ReadIsCurrent' /\ RehearsalKept'
  BY <1>1, <1>2, <1>5 DEF LockHeld, GateHolds, ReadIsCurrent, RehearsalKept, Locked
<1>8. OpeningMarked' BY <1>3, <1>4 DEF OpeningMarked
<1>9. OneOpener' /\ EntryFirst' /\ RehearsedFirst'
  BY <1>1 DEF IInv, OneOpener, EntryFirst, RehearsedFirst, Opens
<1>10. EntriesKept'
  <2> SUFFICES ASSUME NEW q \in Runs, wrote[q] # None
               PROVE  wrote[q].making < ledger'.making
    <3>1. \A q \in Runs : wrote[q] # None => wrote[q].making \in Nat BY <1>2 DEF Ledgers
    <3>2. ledger'.making \in Nat BY <1>4 DEF Ledgers
    <3> QED BY <1>1, <3>1, <3>2 DEF EntriesKept
  <2>1. wrote[q].making <= ledger.making BY DEF IInv, EntriesKept
  <2>2. wrote[q].making \in Nat BY <1>2 DEF Ledgers
  <2> QED BY <1>3, <1>4, <2>1, <2>2
<1> QED BY <1>6, <1>7, <1>8, <1>9, <1>10 DEF IInv

-------------------------------------------------------------------------------
(* The theorems. *)

(* The inductive invariant holds at first. *)
LEMMA InitInv ==
  ASSUME Init PROVE IInv
<1>1. [making |-> 1, entries |-> <<>>] \in Ledgers BY DEF Ledgers
<1>2. TypeOK BY <1>1 DEF Init, TypeOK
<1>3. \A r \in Runs : pc[r] = "start" /\ wrote[r] = None BY DEF Init
<1>4. LockHeld /\ GateHolds /\ OpeningMarked /\ OneOpener /\ ReadIsCurrent
  BY <1>3, HoldoutAssumption DEF LockHeld, GateHolds, OpeningMarked, OneOpener, ReadIsCurrent, Opens, Locked, Active
<1>5. EntryFirst /\ EntriesKept /\ RehearsalKept /\ RehearsedFirst
  BY <1>3, HoldoutAssumption DEF Init, EntryFirst, EntriesKept, RehearsalKept, RehearsedFirst, Locked, Active
<1> QED BY <1>2, <1>4, <1>5 DEF IInv

(* A step that changes nothing keeps the invariant. *)
LEMMA StutterInv ==
  ASSUME IInv, UNCHANGED vars PROVE IInv'
<1> USE DEF vars, disk
<1>1. TypeOK' /\ LockHeld' /\ GateHolds' BY DEF IInv, TypeOK, LockHeld, GateHolds
<1>2. OpeningMarked' /\ OneOpener' /\ ReadIsCurrent' /\ EntryFirst'
  BY DEF IInv, OpeningMarked, OneOpener, ReadIsCurrent, EntryFirst, Opens
<1>3. EntriesKept' /\ RehearsalKept' /\ RehearsedFirst'
  BY DEF IInv, EntriesKept, RehearsalKept, RehearsedFirst, Rehearses, Holds
<1> QED BY <1>1, <1>2, <1>3 DEF IInv

(* The inductive invariant of HoldoutAccess holds for every set of runs. *)
THEOREM InductiveInvariant == Spec => []IInv
<1>1. Init => IInv BY InitInv
<1>2. IInv /\ [Next]_vars => IInv'
  <2> SUFFICES ASSUME IInv, [Next]_vars PROVE IInv'
    OBVIOUS
  <2>1. ASSUME NEW r \in Runs, Step(r) PROVE IInv'
    BY <2>1, StartInv, TakeLockInv, ReadInv, MarkInv, WriteInv, FailsInv, UnlockInv, ComputeInv, CrashInv
    DEF Step
  <2>2. CASE DeleteLock BY <2>2, DeleteLockInv
  <2>3. CASE CutBack BY <2>3, CutBackInv
  <2>4. CASE MakeAgain BY <2>4, MakeAgainInv
  <2>5. CASE UNCHANGED vars BY <2>5, StutterInv
  <2> QED BY <2>1, <2>2, <2>3, <2>4, <2>5 DEF Next
<1> QED BY <1>1, <1>2, PTL DEF Spec

(* The variables keep their types. *)
THEOREM TypeCorrect == Spec => []TypeOK
<1>1. IInv => TypeOK BY DEF IInv
<1> QED BY <1>1, InductiveInvariant, PTL

(* TEST is opened once, whatever crashes, cuts of the ledger and new       *)
(* ledgers come between (AccessLedger.append, HoldoutGate).                *)
THEOREM OpenedOnce == Spec => []TestOpenedOnce
<1>1. IInv => TestOpenedOnce BY DEF IInv, OneOpener, TestOpenedOnce, Opens
<1> QED BY <1>1, InductiveInvariant, PTL

(* No number without its entry and no entry lost to another writer, as     *)
(* long as nobody cuts the ledger (AccessLedger.append, evaluate).         *)
THEOREM NumbersHaveEntries == Spec => []NumbersAreLogged
<1>1. IInv => NumbersAreLogged BY DEF IInv, EntryFirst, EntriesKept, NumbersAreLogged
<1> QED BY <1>1, InductiveInvariant, PTL

(* The opening comes after its rehearsal in the ledger (HoldoutGate).      *)
THEOREM RehearsalFirst == Spec => []RehearsedFirst
<1>1. IInv => RehearsedFirst BY DEF IInv
<1> QED BY <1>1, InductiveInvariant, PTL
===============================================================================
