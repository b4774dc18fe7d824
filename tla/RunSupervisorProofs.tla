-------------------------- MODULE RunSupervisorProofs --------------------------
(***************************************************************************)
(* Proofs about RunSupervisor, for any number of calls and any plan: a     *)
(* stage runs under its call's lock, is not run again once it is           *)
(* certified, a lost receipt stops the run, and success is verified.       *)
(***************************************************************************)
EXTENDS RunSupervisorInv, RunLedgerProofs

-------------------------------------------------------------------------------
(* What the operations do to a ledger that follows the plan. *)

(* The empty ledger follows any plan. *)
LEMMA NewLedgerFollows ==
  /\ NewLedger \in LedgerDoc /\ PlanLedger(NewLedger.entries)
  /\ NumFinished(NewLedger.entries) = 0
  /\ \A sf : \A i \in DOMAIN NewLedger.entries : sf[NewLedger.entries[i].stage] # NoDoc
<1>1. Len(Plan) \in Nat
  BY PlanAssumption
<1> QED BY <1>1 DEF NewLedger, LedgerDoc, PlanLedger, WellFormed, Bound, NumFinished

(* How many entries are finished. *)
LEMMA FinishedCount ==
  ASSUME NEW es \in Seq(Entry), PlanLedger(es)
  PROVE  NumFinished(es) \in 0..Len(Plan)
<1>1. Len(Plan) \in Nat /\ Len(es) \in Nat /\ Len(es) <= Len(Plan)
  BY PlanAssumption DEF PlanLedger, Bound
<1>2. es # <<>> => Len(es) > 0
  OBVIOUS
<1> QED BY <1>1, <1>2 DEF NumFinished

(* begin appends the next stage of the plan to a ledger of finished stages.*)
LEMMA BeginFollows ==
  ASSUME NEW es \in Seq(Entry), PlanLedger(es), NumFinished(es) < Len(Plan),
         NEW s \in Stages, s = Plan[NumFinished(es) + 1], NEW dg \in Digests,
         \A i \in DOMAIN es : es[i].stage = s => es[i].state # "finished",
         \A i \in DOMAIN es : es[i].state = "begun" => es[i].stage = s,
         ~HasBegun(es, s)
  PROVE  LET fs == Append(es, BegunEntry(s, dg)) IN
         /\ PlanLedger(fs) /\ NumFinished(fs) = NumFinished(es)
         /\ \A i \in DOMAIN fs : fs[i].state = "finished" => i \in DOMAIN es /\ fs[i] = es[i]
<1> DEFINE e  == BegunEntry(s, dg)
           fs == Append(es, e)
<1>1. e \in Entry /\ e.stage = s /\ e.state = "begun"
  BY BegunEntryType DEF BegunEntry
<1> HIDE DEF e
<1>2. /\ fs \in Seq(Entry) /\ Len(es) \in Nat
      /\ Len(fs) = Len(es) + 1
      /\ DOMAIN fs = DOMAIN es \cup {Len(fs)}
      /\ fs[Len(fs)] = e
      /\ \A i \in DOMAIN es : fs[i] = es[i] /\ i # Len(fs) /\ i \in Nat /\ 1 <= i /\ i <= Len(es)
  BY <1>1
<1>2a. fs # <<>> /\ (es # <<>> => Len(es) \in DOMAIN es)
  BY <1>2
<1>3. \A i \in DOMAIN es : es[i].state \in {"begun", "finished"}
  BY EntryFields
<1> HIDE DEF fs
<1>4. \A i \in DOMAIN es : es[i].state = "finished" /\ es[i].stage # s
  BY <1>2, <1>3, <1>2a DEF HasBegun, PlanLedger, WellFormed
<1>5. NumFinished(es) = Len(es)
  BY <1>2, <1>4, <1>2a DEF NumFinished
<1>6. WellFormed(fs)
  BY <1>1, <1>2, <1>4 DEF PlanLedger, WellFormed, ChainBefore
<1>7. Bound(fs)
  <2>1. Len(Plan) \in Nat
    BY PlanAssumption
  <2> QED BY <1>1, <1>2, <1>5, <2>1 DEF PlanLedger, Bound
<1>8. NumFinished(fs) = Len(es)
  BY <1>1, <1>2, <1>2a DEF NumFinished
<1> QED BY <1>1, <1>2, <1>5, <1>6, <1>7, <1>8 DEF PlanLedger, fs, e

(* The entry of a begun stage is replaced by the finished one: finish, and *)
(* resume for a half-finished stage.                                       *)
LEMMA CompletionFollows ==
  ASSUME NEW es \in Seq(Entry), PlanLedger(es), es # <<>>, es[Len(es)].state = "begun",
         NEW d \in StageDoc, d.stage = es[Len(es)].stage, d.previous = ChainBefore(es, Len(es))
  PROVE  LET fs == [es EXCEPT ![Len(es)] = FinishedEntry(d)] IN
         /\ PlanLedger(fs) /\ NumFinished(fs) = NumFinished(es) + 1
         /\ \A i \in DOMAIN fs : fs[i].state = "finished" =>
              fs[i].stage = d.stage \/ (i \in DOMAIN es /\ fs[i] = es[i])
<1> DEFINE n  == Len(es)
           e  == FinishedEntry(d)
           fs == [es EXCEPT ![n] = e]
<1>1. /\ n \in Nat \ {0} /\ n \in DOMAIN es /\ DOMAIN es = 1..n
  OBVIOUS
<1>2. /\ e \in Entry /\ e.stage = es[n].stage /\ e.stage = d.stage /\ e.state = "finished"
      /\ e.previous = ChainBefore(es, n)
  BY FinishedEntryType DEF FinishedEntry
<1> HIDE DEF e
<1>3. /\ fs \in Seq(Entry) /\ Len(fs) = n /\ DOMAIN fs = DOMAIN es /\ fs[n] = e
      /\ \A i \in DOMAIN es : i # n => fs[i] = es[i]
  BY <1>1, <1>2, ReplaceLast
<1> HIDE DEF fs, n
<1>4. \A i \in DOMAIN es : fs[i].stage = es[i].stage
  BY <1>2, <1>3
<1>5. \A i \in DOMAIN es : i # n => ChainBefore(fs, i) = ChainBefore(es, i)
  BY <1>1, <1>3 DEF ChainBefore
<1>6. ChainBefore(fs, n) = ChainBefore(es, n)
  BY <1>1, <1>3 DEF ChainBefore
<1>7. WellFormed(fs)
  BY <1>1, <1>2, <1>3, <1>4, <1>5, <1>6 DEF PlanLedger, WellFormed, n
<1>8. Bound(fs)
  BY <1>3, <1>4 DEF PlanLedger, Bound, n
<1>9. fs # <<>> /\ NumFinished(fs) = n /\ NumFinished(es) = n - 1
  BY <1>1, <1>2, <1>3 DEF NumFinished, n
<1> QED BY <1>1, <1>2, <1>3, <1>7, <1>8, <1>9 DEF PlanLedger, fs, e, n
-------------------------------------------------------------------------------
(* What an operation of call c on the run folder keeps, whatever the other *)
(* calls hold.                                                             *)
LedgerMove(c) ==
  /\ TypeOK'
  /\ \A q \in Calls \ {c} : obj'[q] = obj[q]
  /\ header => header'
  /\ \A s \in Stages : stageFile[s] # NoDoc => stageFile'[s] # NoDoc
  /\ \/ ledger' = ledger
     \/ ledger' # NoDoc /\ HasReceipts(stageFile', Entries') /\ obj[c].at \in Busy \cup {"creating"}
  /\ PlanLedger(Entries') /\ PlanLedger(obj'[c].pending.entries)
  /\ obj'[c].at \in Busy \cup {"idle"} => ledger' # NoDoc
  /\ obj'[c].at = "creating" => ledger' = NoDoc /\ header'
  /\ MayWrite(c)' => HasReceipts(stageFile', Entries')
  /\ obj'[c].at \in Busy => HasReceipts(stageFile', obj'[c].pending.entries)

(* An operation that passes _unchanged works on the ledger on disk.        *)
LEMMA KnownLedger ==
  ASSUME SupervisorInv, NEW c \in Calls, obj[c].at = "idle", Unchanged(c)
  PROVE  /\ ledger # NoDoc /\ ledger \in LedgerDoc /\ obj[c].doc = ledger
         /\ Entries = ledger.entries /\ Entries \in Seq(Entry) /\ PlanLedger(Entries)
         /\ obj[c].resumed => HasReceipts(stageFile, Entries)
BY DEF SupervisorInv, TypeOK, OneCreation, Unchanged, Entries, LedgerDoc, LedgersFollowThePlan,
       ReceiptsWhileWriting, MayWrite, Calls

(* No call touches the folder or an object: its files may change. *)
LEMMA NothingMoves ==
  ASSUME SupervisorInv, TypeOK', NEW c \in Calls, UNCHANGED <<header, ledger, stageFile, obj>>
  PROVE  LedgerMove(c)
BY DEF LedgerMove, SupervisorInv, LedgersFollowThePlan, OneCreation, ReceiptsWhileWriting,
       HasReceipts, MayWrite, Entries

(* The checks of begin: the write they leave due has no new finished stage. *)
LEMMA BeginMoves ==
  ASSUME SupervisorInv, NEW c \in Calls, NEW s \in Stages, NEW X \in SUBSET Files, Begin(c, s, X),
         NumFinished(obj[c].doc.entries) < Len(Plan),
         s = Plan[NumFinished(obj[c].doc.entries) + 1]
  PROVE  /\ LedgerMove(c)
         /\ obj'[c].doc = obj[c].doc /\ obj'[c].at = "begin"
         /\ NumFinished(obj'[c].pending.entries) = NumFinished(obj[c].doc.entries)
<1> DEFINE es == Entries
           fs == Append(es, BegunEntry(s, Digest(X)))
           l  == [ledger EXCEPT !.entries = fs]
<1>0. TypeOK /\ TypeOK' /\ c \in Owners
  BY BeginTypes DEF SupervisorInv, Calls
<1>1. /\ ledger # NoDoc /\ ledger \in LedgerDoc /\ obj[c].doc = ledger
      /\ es = ledger.entries /\ es \in Seq(Entry) /\ PlanLedger(es) /\ HasReceipts(stageFile, es)
  BY KnownLedger DEF Begin, BeginChecks, Ready
<1>2. Digest(X) \in Digests
  BY <1>0, DigestType DEF Begin, BeginChecks
<1>3. /\ \A i \in DOMAIN es : es[i].stage = s => es[i].state # "finished"
      /\ \A i \in DOMAIN es : es[i].state = "begun" => es[i].stage = s
      /\ ~HasBegun(es, s)
  BY <1>1 DEF Begin, BeginChecks
<1>4. /\ PlanLedger(fs) /\ NumFinished(fs) = NumFinished(es)
      /\ \A i \in DOMAIN fs : fs[i].state = "finished" => i \in DOMAIN es /\ fs[i] = es[i]
  BY <1>1, <1>2, <1>3, BeginFollows
<1>5. /\ obj' = [obj EXCEPT ![c].at = "begin", ![c].pending = l]
      /\ UNCHANGED <<header, ledger, stageFile, file>>
  BY <1>1 DEF Begin, Due, disk
<1>6. l.entries = fs
  BY <1>1 DEF LedgerDoc
<1> HIDE DEF l
<1>7. /\ obj'[c].at = "begin" /\ obj'[c].doc = obj[c].doc /\ obj'[c].pending = l
      /\ \A q \in Calls \ {c} : obj'[q] = obj[q]
  BY <1>0, <1>5 DEF TypeOK, Object, Calls
<1> HIDE DEF fs
<1>8. Entries' = es
  BY <1>5 DEF Entries
<1>9. HasReceipts(stageFile, fs) /\ stageFile' = stageFile
  BY <1>1, <1>4, <1>5 DEF HasReceipts
<1>10. LedgerMove(c)
  BY <1>0, <1>1, <1>4, <1>5, <1>6, <1>7, <1>8, <1>9 DEF LedgerMove
<1> QED BY <1>1, <1>4, <1>6, <1>7, <1>10

(* finish up to its commit: the due write has one finished stage more. *)
LEMMA FinishMoves ==
  ASSUME SupervisorInv, NEW c \in Calls, NEW s \in Stages, NEW Y \in SUBSET Files, Finish(c, s, Y)
  PROVE  /\ LedgerMove(c)
         /\ obj'[c].doc = obj[c].doc /\ obj'[c].at = "finish"
         /\ NumFinished(obj'[c].pending.entries) = NumFinished(obj[c].doc.entries) + 1
<1> DEFINE es == Entries
           d  == [stage |-> s, previous |-> ChainBefore(es, Len(es)),
                  inputs |-> es[Len(es)].inputs, outputs |-> Digest(Y)]
           fs == [es EXCEPT ![Len(es)] = FinishedEntry(d)]
           l  == [ledger EXCEPT !.entries = fs]
<1>0. TypeOK /\ TypeOK' /\ c \in Owners
  BY FinishTypes DEF SupervisorInv, Calls
<1>1. /\ ledger # NoDoc /\ ledger \in LedgerDoc /\ obj[c].doc = ledger
      /\ es = ledger.entries /\ es \in Seq(Entry) /\ PlanLedger(es) /\ HasReceipts(stageFile, es)
  BY KnownLedger DEF Finish, Ready
<1>2. /\ es # <<>> /\ es[Len(es)].state = "begun" /\ es[Len(es)].stage = s
      /\ d \in StageDoc /\ d.stage = s /\ d.previous = ChainBefore(es, Len(es))
  <2>1. HasBegun(es, s) /\ Present(Y)
    BY <1>1 DEF Finish
  <2> QED BY <1>0, <1>1, <2>1, StageFileType DEF HasBegun
<1>3. /\ stageFile' = [stageFile EXCEPT ![s] = d]
      /\ obj' = [obj EXCEPT ![c].at = "finish", ![c].pending = l]
      /\ UNCHANGED <<header, ledger, file>>
  BY <1>1 DEF Finish, Due
<1> HIDE DEF d
<1>4. /\ PlanLedger(fs) /\ NumFinished(fs) = NumFinished(es) + 1
      /\ \A i \in DOMAIN fs : fs[i].state = "finished" =>
           fs[i].stage = s \/ (i \in DOMAIN es /\ fs[i] = es[i])
  BY <1>1, <1>2, CompletionFollows
<1>5. l.entries = fs
  BY <1>1 DEF LedgerDoc
<1> HIDE DEF l
<1>6. /\ obj'[c].at = "finish" /\ obj'[c].doc = obj[c].doc /\ obj'[c].pending = l
      /\ \A q \in Calls \ {c} : obj'[q] = obj[q]
  BY <1>0, <1>3 DEF TypeOK, Object, Calls
<1>7. /\ stageFile'[s] # NoDoc
      /\ \A r \in Stages : stageFile[r] # NoDoc => stageFile'[r] # NoDoc
      /\ \A i \in DOMAIN es : es[i].stage \in Stages
  BY <1>0, <1>1, <1>2, <1>3, NoDocAssumption, EntryFields DEF TypeOK
<1> HIDE DEF fs
<1>8. Entries' = es
  BY <1>3 DEF Entries
<1>9. HasReceipts(stageFile', fs) /\ HasReceipts(stageFile', es)
  BY <1>1, <1>4, <1>7 DEF HasReceipts
<1>10. LedgerMove(c)
  BY <1>0, <1>1, <1>3, <1>4, <1>5, <1>6, <1>7, <1>8, <1>9 DEF LedgerMove
<1> QED BY <1>1, <1>4, <1>5, <1>6, <1>10

(* note up to its commit: the due write has the same entries. *)
LEMMA NoteMoves ==
  ASSUME SupervisorInv, NEW c \in Calls, NEW n \in Notes, Note(c, n)
  PROVE  /\ LedgerMove(c)
         /\ obj'[c].doc = obj[c].doc /\ obj'[c].at = "note"
         /\ obj'[c].pending.entries = obj[c].doc.entries
<1> DEFINE l == [ledger EXCEPT !.notes = @ \cup {n}]
<1>0. TypeOK /\ TypeOK' /\ c \in Owners
  BY NoteTypes DEF SupervisorInv, Calls
<1>1. /\ ledger # NoDoc /\ ledger \in LedgerDoc /\ obj[c].doc = ledger
      /\ Entries = ledger.entries /\ PlanLedger(Entries) /\ HasReceipts(stageFile, Entries)
  BY KnownLedger DEF Note, Ready
<1>2. /\ obj' = [obj EXCEPT ![c].at = "note", ![c].pending = l]
      /\ UNCHANGED <<header, ledger, stageFile, file>>
  BY <1>1 DEF Note, Due, disk
<1>3. l.entries = Entries
  BY <1>1 DEF LedgerDoc
<1> HIDE DEF l
<1>4. /\ obj'[c].at = "note" /\ obj'[c].doc = obj[c].doc /\ obj'[c].pending = l
      /\ \A q \in Calls \ {c} : obj'[q] = obj[q]
  BY <1>0, <1>2 DEF TypeOK, Object, Calls
<1>5. Entries' = Entries
  BY <1>2 DEF Entries
<1>6. LedgerMove(c)
  BY <1>0, <1>1, <1>2, <1>3, <1>4, <1>5 DEF LedgerMove
<1> QED BY <1>1, <1>3, <1>4, <1>6

(* The entries that resume accepts have their stage files. *)
LEMMA AcceptedHasReceipts ==
  ASSUME NEW es, ResumeAccepts(es)
  PROVE  HasReceipts(stageFile, es)
BY DEF ResumeAccepts, Verified, HasReceipts

(* resume: it leaves a write due when a stage is half finished. *)
LEMMA ResumeMoves ==
  ASSUME SupervisorInv, NEW c \in Calls, Resume(c)
  PROVE  /\ LedgerMove(c) /\ PlanLedger(obj[c].doc.entries) /\ obj'[c].doc = obj[c].doc
         /\ stageFile' = stageFile /\ obj'[c].at # "creating"
         /\ HalfFinished(obj[c].doc.entries) => obj'[c].at = "resume"
         /\ ~HalfFinished(obj[c].doc.entries) => obj'[c].pending = obj[c].pending
<1> DEFINE es == Entries
           d  == stageFile[es[Len(es)].stage]
           fs == [es EXCEPT ![Len(es)] = FinishedEntry(d)]
           l  == [ledger EXCEPT !.entries = fs]
<1>0. TypeOK /\ TypeOK' /\ c \in Owners
  BY ResumeTypes DEF SupervisorInv, Calls
<1>1. /\ ledger # NoDoc /\ ledger \in LedgerDoc /\ obj[c].doc = ledger
      /\ es = ledger.entries /\ es \in Seq(Entry) /\ PlanLedger(es)
  BY KnownLedger DEF Resume
<1>2. HasReceipts(stageFile, es) /\ UNCHANGED <<header, ledger, stageFile, file>> /\ Entries' = es
  BY <1>1, AcceptedHasReceipts DEF Resume, disk, Entries
<1>3. ASSUME HalfFinished(es)
      PROVE  LedgerMove(c) /\ obj'[c].doc = obj[c].doc /\ obj'[c].at = "resume"
  <2>1. /\ es # <<>> /\ es[Len(es)].state = "begun" /\ d \in StageDoc /\ d # NoDoc
        /\ Len(es) \in DOMAIN es
    BY <1>0, <1>1, <1>3 DEF HalfFinished, HasBegun, TypeOK
  <2>2. d.stage = es[Len(es)].stage /\ d.previous = ChainBefore(es, Len(es))
    BY <1>1, <1>3 DEF Resume, ResumeAccepts, Verified
  <2>3. obj' = [obj EXCEPT ![c].at = "resume", ![c].pending = l]
    BY <1>1, <1>3 DEF Resume, Due, FinishLast
  <2>4. l.entries = fs
    BY <1>1 DEF LedgerDoc
  <2> HIDE DEF l
  <2>5. /\ obj'[c].at = "resume" /\ obj'[c].doc = obj[c].doc /\ obj'[c].pending = l
        /\ \A q \in Calls \ {c} : obj'[q] = obj[q]
    BY <1>0, <2>3 DEF TypeOK, Object, Calls
  <2>6. stageFile[d.stage] # NoDoc
    BY <2>1, <2>2
  <2> HIDE DEF d
  <2>7. /\ PlanLedger(fs)
        /\ \A i \in DOMAIN fs : fs[i].state = "finished" =>
             fs[i].stage = d.stage \/ (i \in DOMAIN es /\ fs[i] = es[i])
    BY <1>1, <2>1, <2>2, CompletionFollows
  <2> HIDE DEF fs
  <2>8. HasReceipts(stageFile, fs)
    BY <1>2, <2>6, <2>7 DEF HasReceipts
  <2> QED BY <1>0, <1>1, <1>2, <2>4, <2>5, <2>7, <2>8 DEF LedgerMove
<1>4. ASSUME ~HalfFinished(es)
      PROVE  /\ LedgerMove(c) /\ obj'[c].doc = obj[c].doc /\ obj'[c].pending = obj[c].pending
             /\ obj'[c].at = "idle"
  <2>1. obj' = [obj EXCEPT ![c].resumed = TRUE] /\ obj[c].at = "idle"
    BY <1>1, <1>4 DEF Resume
  <2>2. /\ obj'[c].at = "idle" /\ obj'[c].doc = obj[c].doc /\ obj'[c].pending = obj[c].pending
        /\ \A q \in Calls \ {c} : obj'[q] = obj[q]
    BY <1>0, <2>1 DEF TypeOK, Object, Calls
  <2>3. "idle" \notin Busy /\ "idle" # "creating"
    BY DEF Busy
  <2> QED BY <1>0, <1>1, <1>2, <2>2, <2>3 DEF LedgerMove, SupervisorInv, LedgersFollowThePlan
<1> QED BY <1>1, <1>2, <1>3, <1>4

(* A commit: the due document is the ledger from now on. *)
LEMMA CommitMoves ==
  ASSUME SupervisorInv, NEW c \in Calls, Commit(c)
  PROVE  /\ LedgerMove(c) /\ stageFile' = stageFile
         /\ obj'[c].doc = obj[c].pending /\ obj'[c].at = "idle"
<1> DEFINE l == obj[c].pending
<1>0. TypeOK /\ TypeOK' /\ c \in Owners
  BY OtherTypes DEF SupervisorInv, Calls
<1>1. /\ obj[c].at \in Busy /\ ledger' = l /\ UNCHANGED <<header, stageFile, file>>
      /\ obj'[c].at = "idle" /\ obj'[c].doc = l /\ obj'[c].pending = NewLedger
      /\ \A q \in Calls \ {c} : obj'[q] = obj[q]
  BY <1>0 DEF Commit, TypeOK, Calls
<1>2. l \in LedgerDoc /\ l # NoDoc
  BY <1>0, NoDocAssumption DEF TypeOK, Object
<1>3. Entries' = l.entries
  BY <1>1, <1>2 DEF Entries
<1>4. PlanLedger(l.entries) /\ HasReceipts(stageFile, l.entries)
  BY <1>1 DEF SupervisorInv, LedgersFollowThePlan, ReceiptsWhileWriting
<1>5. "idle" \notin Busy /\ "idle" # "creating"
  BY DEF Busy
<1> HIDE DEF l
<1> QED BY <1>0, <1>1, <1>2, <1>3, <1>4, <1>5, NewLedgerFollows DEF LedgerMove, l

(* A commit that fails leaves the disk as it is. *)
LEMMA CommitFailsMoves ==
  ASSUME SupervisorInv, NEW c \in Calls, CommitFails(c)
  PROVE  LedgerMove(c) /\ stageFile' = stageFile /\ obj'[c].at = "idle"
<1>0. TypeOK /\ TypeOK' /\ c \in Owners
  BY OtherTypes DEF SupervisorInv, Calls
<1>1. /\ obj[c].at \in Busy /\ UNCHANGED <<header, ledger, stageFile, file>>
      /\ obj'[c].at = "idle" /\ obj'[c].pending = NewLedger
      /\ \A q \in Calls \ {c} : obj'[q] = obj[q]
  BY <1>0 DEF CommitFails, TypeOK, Object, Calls, disk
<1>2. PlanLedger(Entries) /\ HasReceipts(stageFile, Entries) /\ ledger # NoDoc /\ Entries' = Entries
  BY <1>1 DEF SupervisorInv, LedgersFollowThePlan, ReceiptsWhileWriting, MayWrite, OneCreation, Entries
<1>3. "idle" \notin Busy /\ "idle" # "creating"
  BY DEF Busy
<1> QED BY <1>0, <1>1, <1>2, <1>3, NewLedgerFollows DEF LedgerMove

(* The end of a process takes its object. *)
LEMMA StopMoves ==
  ASSUME SupervisorInv, NEW c \in Calls, Stop(c)
  PROVE  LedgerMove(c) /\ stageFile' = stageFile /\ obj'[c].at = "closed"
<1>0. TypeOK /\ TypeOK' /\ c \in Owners
  BY OtherTypes DEF SupervisorInv, Calls
<1>1. /\ UNCHANGED <<header, ledger, stageFile, file>> /\ obj'[c] = Closed
      /\ \A q \in Calls \ {c} : obj'[q] = obj[q]
  BY <1>0 DEF Stop, TypeOK, Calls, disk
<1>2. PlanLedger(Entries) /\ Entries' = Entries
  BY <1>1 DEF SupervisorInv, LedgersFollowThePlan, Entries
<1>3. /\ Closed.at \notin Busy \cup {"idle", "creating"} /\ Closed.at = "closed"
      /\ ~Closed.resumed /\ Closed.pending = NewLedger
  BY DEF Closed, Busy
<1> HIDE DEF Closed
<1> QED BY <1>0, <1>1, <1>2, <1>3, NewLedgerFollows DEF LedgerMove, MayWrite

(* The header, before there is a ledger. *)
LEMMA CreateHeaderMoves ==
  ASSUME SupervisorInv, NEW c \in Calls, CreateHeader(c)
  PROVE  LedgerMove(c) /\ stageFile' = stageFile /\ obj'[c].at = "creating"
<1>0. TypeOK /\ TypeOK' /\ c \in Owners
  BY OtherTypes DEF SupervisorInv, Calls
<1>1. /\ header' /\ ledger = NoDoc /\ UNCHANGED <<ledger, stageFile, file>>
      /\ obj'[c].at = "creating" /\ obj'[c].pending = obj[c].pending
      /\ obj'[c].resumed = obj[c].resumed
      /\ \A q \in Calls \ {c} : obj'[q] = obj[q]
  BY <1>0 DEF CreateHeader, TypeOK, Object, Calls
<1>2. /\ PlanLedger(Entries) /\ PlanLedger(obj[c].pending.entries)
      /\ HasReceipts(stageFile, Entries) /\ Entries' = Entries
  BY <1>1 DEF SupervisorInv, LedgersFollowThePlan, Entries, HasReceipts
<1>3. "creating" \notin Busy /\ "idle" # "creating"
  BY DEF Busy
<1> QED BY <1>0, <1>1, <1>2, <1>3 DEF LedgerMove

(* The first ledger, after the header. *)
LEMMA CreateLedgerMoves ==
  ASSUME SupervisorInv, NEW c \in Calls, CreateLedger(c)
  PROVE  /\ LedgerMove(c) /\ stageFile' = stageFile
         /\ obj'[c].at = "idle" /\ NumFinished(obj'[c].doc.entries) = 0
<1>0. TypeOK /\ TypeOK' /\ c \in Owners
  BY OtherTypes DEF SupervisorInv, Calls
<1>1. /\ obj[c].at = "creating" /\ ledger' = NewLedger /\ UNCHANGED <<header, stageFile, file>>
      /\ obj'[c].at = "idle" /\ obj'[c].doc = NewLedger /\ obj'[c].pending = NewLedger
      /\ \A q \in Calls \ {c} : obj'[q] = obj[q]
  BY <1>0 DEF CreateLedger, TypeOK, Calls
<1>2. NewLedger # NoDoc /\ Entries' = NewLedger.entries
  BY <1>1, NewLedgerFollows, NoDocAssumption DEF Entries
<1>3. "idle" \notin Busy /\ "idle" # "creating"
  BY DEF Busy
<1>4. HasReceipts(stageFile, NewLedger.entries)
  BY DEF HasReceipts, NewLedger
<1> QED BY <1>0, <1>1, <1>2, <1>3, <1>4, NewLedgerFollows DEF LedgerMove

(* Opening a ledger changes nothing on disk. *)
LEMMA OpenMoves ==
  ASSUME SupervisorInv, NEW c \in Calls, Open(c)
  PROVE  LedgerMove(c) /\ stageFile' = stageFile /\ obj'[c].at = "idle"
<1>0. TypeOK /\ TypeOK' /\ c \in Owners
  BY OtherTypes DEF SupervisorInv, Calls
<1>1. /\ ledger # NoDoc /\ UNCHANGED <<header, ledger, stageFile, file>>
      /\ obj'[c].at = "idle" /\ ~obj'[c].resumed /\ obj'[c].pending = NewLedger
      /\ \A q \in Calls \ {c} : obj'[q] = obj[q]
  BY <1>0 DEF Open, TypeOK, Calls, disk
<1>2. PlanLedger(Entries) /\ Entries' = Entries
  BY <1>1 DEF SupervisorInv, LedgersFollowThePlan, Entries
<1>3. "idle" \notin Busy /\ "idle" # "creating"
  BY DEF Busy
<1> QED BY <1>0, <1>1, <1>2, <1>3, NewLedgerFollows DEF LedgerMove, MayWrite
-------------------------------------------------------------------------------
(* What a step of call c keeps of its places and of the lock. *)
CallMove(c) ==
  /\ SupervisorTypeOK'
  /\ \A q \in Calls \ {c} : pc'[q] = pc[q] /\ at'[q] = at[q] /\ tree'[q] = tree[q]
  /\ lock' = lock \/ lock \in {Nobody, c}
  /\ pc'[c] \in UnderLock => lock' = c
  /\ tree'[c] # "none" => pc'[c] = "child"
  /\ obj'[c].at = "creating" => pc'[c] = "creating"
  /\ stageFile' = stageFile \/ pc[c] \in UnderLock
  /\ StageInProgress(c)'

(* Two calls are not under the lock at once. *)
LEMMA OneUnderLock ==
  ASSUME SupervisorInv, NEW c \in Calls, NEW q \in Calls, pc[c] \in UnderLock, pc[q] \in UnderLock
  PROVE  c = q
BY DEF SupervisorInv, LockIsHeld

(* Such a step keeps the invariant: what the other calls know stays true.  *)
LEMMA OneCallMoves ==
  ASSUME SupervisorInv, NEW c \in Calls, LedgerMove(c), CallMove(c)
  PROVE  SupervisorInv'
<1>1. TypeOK' /\ SupervisorTypeOK'
  BY DEF LedgerMove, CallMove
<1>2. ASSUME NEW q \in Calls, q # c
      PROVE  pc'[q] = pc[q] /\ at'[q] = at[q] /\ tree'[q] = tree[q] /\ obj'[q] = obj[q]
  BY <1>2 DEF CallMove, LedgerMove
<1>3. LockIsHeld'
  <2> SUFFICES ASSUME NEW q \in Calls
               PROVE  /\ pc'[q] \in UnderLock => lock' = q
                      /\ tree'[q] # "none" => pc'[q] = "child"
    BY DEF LockIsHeld
  <2>1. CASE q = c
    BY <2>1 DEF CallMove
  <2>2. CASE q # c
    BY <1>2, <2>2, NobodyAssumption DEF CallMove, SupervisorInv, LockIsHeld
  <2> QED BY <2>1, <2>2
<1>4. ASSUME NEW q \in Calls PROVE StageInProgress(q)'
  <2>1. CASE q = c
    BY <2>1 DEF CallMove
  <2>2. CASE q # c
    <3>1. pc[q] \in {"beginning", "begun"} => stageFile' = stageFile
      BY <2>2, OneUnderLock DEF CallMove, UnderLock, Locations
    <3>2. StageInProgress(q)
      BY DEF SupervisorInv
    <3> QED BY <1>2, <2>2, <3>1, <3>2 DEF StageInProgress, Next1
  <2> QED BY <2>1, <2>2
<1>5. LedgersFollowThePlan'
  BY <1>2 DEF LedgerMove, SupervisorInv, LedgersFollowThePlan
<1>6. OneCreation'
  <2> SUFFICES ASSUME NEW q \in Calls
               PROVE  /\ obj'[q].at = "creating" => ledger' = NoDoc /\ header' /\ pc'[q] = "creating"
                      /\ obj'[q].at \in Busy \cup {"idle"} => ledger' # NoDoc
    BY DEF OneCreation
  <2>1. CASE q = c
    BY <2>1 DEF CallMove, LedgerMove
  <2>2. CASE q # c
    <3>1. ASSUME obj[q].at = "creating" PROVE ledger' = ledger
      <4>1. ledger = NoDoc /\ pc[q] = "creating"
        BY <3>1 DEF SupervisorInv, OneCreation
      <4>2. obj[c].at = "creating" => pc[c] = "creating"
        BY DEF SupervisorInv, OneCreation
      <4>3. obj[c].at \notin Busy \cup {"creating"}
        BY <2>2, <4>1, <4>2, OneUnderLock DEF SupervisorInv, OneCreation, UnderLock, Locations
      <4> QED BY <4>3 DEF LedgerMove
    <3>2. obj[q].at \in Busy \cup {"idle"} => ledger' # NoDoc
      BY DEF LedgerMove, SupervisorInv, OneCreation
    <3> QED BY <1>2, <2>2, <3>1, <3>2 DEF LedgerMove, SupervisorInv, OneCreation
  <2> QED BY <2>1, <2>2
<1>7. ReceiptsWhileWriting'
  <2>0. \A es \in Seq(Entry) : HasReceipts(stageFile, es) => HasReceipts(stageFile', es)
    BY EntryFields DEF LedgerMove, HasReceipts
  <2>1. Entries \in Seq(Entry) /\ \A q \in Calls : obj[q].pending.entries \in Seq(Entry)
    <3>1. Entries \in Seq(Entry)
      BY DEF SupervisorInv, TypeOK, Entries, LedgerDoc
    <3> QED BY <3>1 DEF SupervisorInv, TypeOK, Object, LedgerDoc, Calls
  <2>2. ASSUME NEW q \in Calls, MayWrite(q)' PROVE HasReceipts(stageFile', Entries')
    <3>1. CASE q = c
      BY <2>2, <3>1 DEF LedgerMove
    <3>2. CASE q # c
      <4>1. MayWrite(q)
        BY <1>2, <2>2, <3>2 DEF MayWrite
      <4>2. HasReceipts(stageFile, Entries)
        BY <4>1 DEF SupervisorInv, ReceiptsWhileWriting
      <4>3. ledger' = ledger => Entries' = Entries
        BY DEF Entries
      <4> QED BY <2>0, <2>1, <4>2, <4>3 DEF LedgerMove
    <3> QED BY <3>1, <3>2
  <2>3. ASSUME NEW q \in Calls, obj'[q].at \in Busy
        PROVE  HasReceipts(stageFile', obj'[q].pending.entries)
    <3>1. CASE q = c
      BY <2>3, <3>1 DEF LedgerMove
    <3>2. CASE q # c
      BY <1>2, <2>0, <2>1, <2>3, <3>2 DEF SupervisorInv, ReceiptsWhileWriting
    <3> QED BY <3>1, <3>2
  <2> QED BY <2>2, <2>3 DEF ReceiptsWhileWriting
<1> QED BY <1>1, <1>3, <1>4, <1>5, <1>6, <1>7 DEF SupervisorInv
-------------------------------------------------------------------------------
(* The steps of a call. *)

(* A step that leaves the ledger and its objects alone. *)
LEMMA QuietMoves ==
  ASSUME SupervisorInv, NEW c \in Calls, UNCHANGED vars
  PROVE  LedgerMove(c) /\ stageFile' = stageFile /\ obj'[c] = obj[c]
<1>1. TypeOK'
  BY DEF SupervisorInv, TypeOK, vars
<1> QED BY <1>1, NothingMoves DEF vars

(* Before the lock: the gates, the probe, the lock itself. *)
LEMMA ApproachKeeps ==
  ASSUME SupervisorInv, NEW c \in Calls, Check(c) \/ Refuse(c) \/ TakeLock(c)
  PROVE  SupervisorInv'
<1>1. LedgerMove(c) /\ stageFile' = stageFile /\ obj'[c] = obj[c]
  BY QuietMoves DEF Check, Refuse, TakeLock
<1>2. CallMove(c)
  <2>1. CASE Check(c)
    <3>1. Exists \in BOOLEAN
      BY DEF Exists
    <3> QED BY <1>1, <2>1, <3>1 DEF Check, CallMove, StageInProgress, SupervisorInv, SupervisorTypeOK, LockIsHeld, OneCreation,
       UnderLock, InPlan, Locations, Next1, Go
  <2>2. CASE Refuse(c)
    BY <1>1, <2>2 DEF Refuse, CallMove, StageInProgress, SupervisorInv, SupervisorTypeOK, LockIsHeld, OneCreation,
       UnderLock, InPlan, Locations, Next1, Go
  <2>3. CASE TakeLock(c)
    BY <1>1, <2>3 DEF TakeLock, CallMove, StageInProgress, SupervisorInv, SupervisorTypeOK, LockIsHeld, OneCreation,
       UnderLock, InPlan, Locations, Next1, Go
  <2> QED BY <2>1, <2>2, <2>3
<1> QED BY <1>1, <1>2, OneCallMoves

(* The creation, the opening and the resume of a run. *)
LEMMA CreateRunKeeps ==
  ASSUME SupervisorInv, NEW c \in Calls, CreateRun(c)
  PROVE  SupervisorInv'
<1>1. LedgerMove(c) /\ stageFile' = stageFile /\ obj'[c].at = "creating"
  BY CreateHeaderMoves DEF CreateRun
<1>2. CallMove(c)
  BY <1>1 DEF CreateRun, CallMove, StageInProgress, SupervisorInv, SupervisorTypeOK, LockIsHeld, OneCreation,
     UnderLock, InPlan, Locations, Next1, Go
<1> QED BY <1>1, <1>2, OneCallMoves

(* The first ledger of a run. *)
LEMMA CreateRunLedgerKeeps ==
  ASSUME SupervisorInv, NEW c \in Calls, CreateRunLedger(c)
  PROVE  SupervisorInv'
<1>1. /\ LedgerMove(c) /\ stageFile' = stageFile
      /\ obj'[c].at = "idle" /\ NumFinished(obj'[c].doc.entries) = 0
  BY CreateLedgerMoves DEF CreateRunLedger
<1>2. CallMove(c)
  BY <1>1 DEF CreateRunLedger, CallMove, StageInProgress, SupervisorInv, SupervisorTypeOK, LockIsHeld, OneCreation,
     UnderLock, InPlan, Locations, Next1, Go
<1> QED BY <1>1, <1>2, OneCallMoves

(* The call opens the ledger under its lock. *)
LEMMA OpenRunKeeps ==
  ASSUME SupervisorInv, NEW c \in Calls, OpenRun(c)
  PROVE  SupervisorInv'
<1>1. LedgerMove(c) /\ stageFile' = stageFile /\ obj'[c].at = "idle"
  BY OpenMoves DEF OpenRun
<1>2. CallMove(c)
  BY <1>1 DEF OpenRun, CallMove, StageInProgress, SupervisorInv, SupervisorTypeOK, LockIsHeld, OneCreation,
     UnderLock, InPlan, Locations, Next1, Go
<1> QED BY <1>1, <1>2, OneCallMoves

(* A step of the work under the lock, without processes of a stage before  *)
(* or after it: what is left to show is the stage in progress.             *)
LEMMA WorkMoves ==
  ASSUME SupervisorInv, NEW c \in Calls, NEW l \in Locations, NEW k \in 0..Len(Plan),
         pc[c] \in UnderLock, pc[c] # "child", Go(c, l), at' = [at EXCEPT ![c] = k],
         owns' \in [Calls -> BOOLEAN], UNCHANGED <<lock, existing, tree, code>>,
         obj'[c].at = "creating" => l = "creating"
  PROVE  /\ pc'[c] = l /\ at'[c] = k
         /\ StageInProgress(c)' => CallMove(c)
<1>1. /\ pc' = [pc EXCEPT ![c] = l] /\ pc' \in [Calls -> Locations]
      /\ pc'[c] = l /\ \A q \in Calls \ {c} : pc'[q] = pc[q]
  BY DEF Go, SupervisorInv, SupervisorTypeOK
<1>2. /\ at' \in [Calls -> 0..Len(Plan)]
      /\ at'[c] = k /\ \A q \in Calls \ {c} : at'[q] = at[q]
  BY DEF SupervisorInv, SupervisorTypeOK
<1>3. SupervisorTypeOK'
  BY <1>1, <1>2 DEF SupervisorInv, SupervisorTypeOK
<1>4. lock' = lock /\ lock = c /\ tree' = tree /\ tree[c] = "none"
  BY DEF SupervisorInv, LockIsHeld, SupervisorTypeOK
<1> QED BY <1>1, <1>2, <1>3, <1>4 DEF CallMove

(* The same when the number of finished stages and owns are unchanged. *)
LEMMA PlaceMoves ==
  ASSUME SupervisorInv, NEW c \in Calls, NEW l \in Locations,
         pc[c] \in UnderLock, pc[c] # "child", Go(c, l),
         UNCHANGED <<lock, existing, at, owns, tree, code>>,
         obj'[c].at = "creating" => l = "creating"
  PROVE  /\ pc'[c] = l /\ at'[c] = at[c]
         /\ StageInProgress(c)' => CallMove(c)
<1>1. at[c] \in 0..Len(Plan) /\ at' = [at EXCEPT ![c] = at[c]] /\ owns' \in [Calls -> BOOLEAN]
  BY DEF SupervisorInv, SupervisorTypeOK
<1>2. UNCHANGED <<lock, existing, tree, code>>
  OBVIOUS
<1> QED BY <1>1, <1>2, WorkMoves

(* The number that Owned takes over is the number of a ledger of the plan. *)
LEMMA OwnedCount ==
  ASSUME SupervisorInv, NEW c \in Calls
  PROVE  /\ PlanLedger(obj[c].doc.entries) => NumFinished(obj[c].doc.entries) \in 0..Len(Plan)
         /\ NumFinished(obj[c].pending.entries) \in 0..Len(Plan)
<1>1. obj[c].doc.entries \in Seq(Entry) /\ obj[c].pending.entries \in Seq(Entry)
  BY DEF SupervisorInv, TypeOK, Object, LedgerDoc, Calls
<1>2. PlanLedger(obj[c].pending.entries)
  BY DEF SupervisorInv, LedgersFollowThePlan
<1> QED BY <1>1, <1>2, FinishedCount

(* The checks of resume. *)
LEMMA ResumeRunKeeps ==
  ASSUME SupervisorInv, NEW c \in Calls, ResumeRun(c)
  PROVE  SupervisorInv'
<1> DEFINE es == obj[c].doc.entries
<1>1. /\ LedgerMove(c) /\ PlanLedger(es) /\ obj'[c].doc = obj[c].doc
      /\ stageFile' = stageFile /\ obj'[c].at # "creating"
  BY ResumeMoves DEF ResumeRun
<1>2. CASE HalfFinished(es)
  <2>1. pc'[c] = "resuming" /\ (StageInProgress(c)' => CallMove(c))
    BY <1>1, <1>2, PlaceMoves DEF ResumeRun, UnderLock, Locations
  <2>2. StageInProgress(c)'
    BY <2>1 DEF StageInProgress, InPlan
  <2> QED BY <1>1, <2>1, <2>2, OneCallMoves
<1>3. CASE ~HalfFinished(es)
  <2>1. NumFinished(es) \in 0..Len(Plan)
    BY <1>1, OwnedCount
  <2>2. /\ at' = [at EXCEPT ![c] = NumFinished(es)] /\ owns' \in [Calls -> BOOLEAN]
        /\ Go(c, "owned") /\ pc[c] = "opened" /\ UNCHANGED <<lock, existing, tree, code>>
    BY <1>3 DEF ResumeRun, Owned, SupervisorInv, SupervisorTypeOK
  <2>3. /\ pc'[c] = "owned" /\ at'[c] = NumFinished(es)
        /\ (StageInProgress(c)' => CallMove(c))
    BY <1>1, <2>1, <2>2, WorkMoves DEF UnderLock, Locations
  <2>4. StageInProgress(c)'
    BY <1>1, <2>3 DEF StageInProgress, InPlan
  <2> QED BY <1>1, <2>3, <2>4, OneCallMoves
<1> QED BY <1>2, <1>3

(* The write that completes a half-finished stage. *)
LEMMA CompleteResumeKeeps ==
  ASSUME SupervisorInv, NEW c \in Calls, CompleteResume(c)
  PROVE  SupervisorInv'
<1> DEFINE k == NumFinished(obj[c].pending.entries)
<1>1. /\ LedgerMove(c) /\ stageFile' = stageFile
      /\ obj'[c].doc = obj[c].pending /\ obj'[c].at = "idle"
  BY CommitMoves DEF CompleteResume
<1>2. /\ k \in 0..Len(Plan)
      /\ at' = [at EXCEPT ![c] = k] /\ owns' \in [Calls -> BOOLEAN]
      /\ Go(c, "owned") /\ pc[c] = "resuming" /\ UNCHANGED <<lock, existing, tree, code>>
  BY OwnedCount DEF CompleteResume, Owned, SupervisorInv, SupervisorTypeOK
<1>3. pc'[c] = "owned" /\ at'[c] = k /\ (StageInProgress(c)' => CallMove(c))
  BY <1>1, <1>2, WorkMoves DEF UnderLock, Locations
<1>4. StageInProgress(c)'
  BY <1>1, <1>3 DEF StageInProgress, InPlan
<1> QED BY <1>1, <1>3, <1>4, OneCallMoves

(* The E6 records. *)
LEMMA NoteE6Keeps ==
  ASSUME SupervisorInv, NEW c \in Calls, NoteE6(c)
  PROVE  SupervisorInv'
<1> DEFINE k == IF pc[c] = "owned" THEN 0 ELSE at[c] + 1
           n == <<c, "e6", k>>
           l == IF pc[c] = "owned" THEN "runNote" ELSE "stageNote"
<1>1. Len(Plan) \in Nat
  BY PlanAssumption
<1>2. k \in 0..Len(Plan)
  BY <1>1 DEF NoteE6, SupervisorInv, SupervisorTypeOK
<1>3. n \in Notes
  BY <1>2, NotesAssumption
<1>4. Note(c, n)
  BY DEF NoteE6
<1> HIDE DEF n
<1>5. /\ LedgerMove(c) /\ obj'[c].doc = obj[c].doc /\ obj'[c].at = "note"
      /\ obj'[c].pending.entries = obj[c].doc.entries /\ stageFile' = stageFile
  BY <1>3, <1>4, NoteMoves DEF Note, disk
<1>6. /\ pc[c] \in {"owned", "loop"} /\ Go(c, l) /\ l \in Locations
      /\ UNCHANGED <<lock, existing, at, owns, tree, code>>
  BY DEF NoteE6, Locations
<1>7. /\ l = "stageNote" => at[c] < Len(Plan)
      /\ NumFinished(obj[c].doc.entries) = at[c]
  BY <1>6 DEF NoteE6, SupervisorInv, StageInProgress, InPlan
<1>8. l \in {"runNote", "stageNote"}
  OBVIOUS
<1> HIDE DEF l
<1>9. pc'[c] = l /\ at'[c] = at[c] /\ (StageInProgress(c)' => CallMove(c))
  BY <1>5, <1>6, PlaceMoves DEF UnderLock, Locations
<1>10. StageInProgress(c)'
  BY <1>5, <1>6, <1>7, <1>8, <1>9 DEF StageInProgress
<1> QED BY <1>5, <1>9, <1>10, OneCallMoves

(* The write of the note before the stages. *)
LEMMA WriteNoteKeeps ==
  ASSUME SupervisorInv, NEW c \in Calls, WriteNote(c)
  PROVE  SupervisorInv'
<1> DEFINE l == IF pc[c] = "runNote" THEN "loop" ELSE "noted"
<1>1. /\ LedgerMove(c) /\ stageFile' = stageFile
      /\ obj'[c].doc = obj[c].pending /\ obj'[c].at = "idle"
  BY CommitMoves DEF WriteNote
<1>2. /\ pc[c] \in {"runNote", "stageNote"} /\ Go(c, l) /\ l \in Locations
      /\ UNCHANGED <<lock, existing, at, owns, tree, code>>
  BY DEF WriteNote, Locations
<1>3. /\ l = "noted" => at[c] < Len(Plan)
      /\ NumFinished(obj[c].pending.entries) = at[c]
  BY <1>2 DEF SupervisorInv, StageInProgress
<1>4. l \in {"loop", "noted"}
  OBVIOUS
<1> HIDE DEF l
<1>5. pc'[c] = l /\ at'[c] = at[c] /\ (StageInProgress(c)' => CallMove(c))
  BY <1>1, <1>2, PlaceMoves DEF UnderLock, Locations
<1>6. StageInProgress(c)'
  BY <1>1, <1>2, <1>3, <1>4, <1>5 DEF StageInProgress
<1> QED BY <1>1, <1>5, <1>6, OneCallMoves

(* begin, and the start of the stage's child. *)
LEMMA BeginStageKeeps ==
  ASSUME SupervisorInv, NEW c \in Calls, BeginStage(c)
  PROVE  SupervisorInv'
<1> DEFINE s == Next1(c)
<1>1. at[c] < Len(Plan) /\ at[c] \in 0..Len(Plan) /\ NumFinished(obj[c].doc.entries) = at[c]
  BY DEF BeginStage, SupervisorInv, StageInProgress, SupervisorTypeOK, InPlan
<1>2. s \in Stages /\ In[s] \in SUBSET Files /\ s = Plan[at[c] + 1]
  BY <1>1, PlanAssumption DEF Next1
<1>3. pc[c] = "noted" /\ UNCHANGED <<lock, existing, at, owns, tree, code>>
  BY DEF BeginStage
<1>4. CASE Begin(c, s, In[s]) /\ Go(c, "beginning")
  <2>1. /\ LedgerMove(c) /\ obj'[c].doc = obj[c].doc /\ obj'[c].at = "begin"
        /\ NumFinished(obj'[c].pending.entries) = NumFinished(obj[c].doc.entries)
    BY <1>1, <1>2, <1>4, BeginMoves
  <2>2. stageFile[s] = NoDoc /\ stageFile' = stageFile
    BY <1>4 DEF Begin, BeginChecks, disk
  <2>3. pc'[c] = "beginning" /\ at'[c] = at[c] /\ (StageInProgress(c)' => CallMove(c))
    BY <1>3, <1>4, <2>1, PlaceMoves DEF UnderLock, Locations
  <2>4. StageInProgress(c)'
    BY <1>1, <2>1, <2>2, <2>3 DEF StageInProgress, Next1
  <2> QED BY <2>1, <2>3, <2>4, OneCallMoves
<1>5. CASE BegunAgain(c, s, In[s]) /\ Go(c, "begun") /\ UNCHANGED vars
  <2>1. LedgerMove(c) /\ stageFile' = stageFile /\ obj'[c] = obj[c]
    BY <1>5, QuietMoves
  <2>2. stageFile[s] = NoDoc /\ obj[c].at = "idle"
    BY <1>5 DEF BegunAgain, BeginChecks, Ready
  <2>3. pc'[c] = "begun" /\ at'[c] = at[c] /\ (StageInProgress(c)' => CallMove(c))
    BY <1>3, <1>5, <2>1, <2>2, PlaceMoves DEF UnderLock, Locations
  <2>4. StageInProgress(c)'
    BY <1>1, <2>1, <2>2, <2>3 DEF StageInProgress, Next1
  <2> QED BY <2>1, <2>3, <2>4, OneCallMoves
<1> QED BY <1>4, <1>5 DEF BeginStage

(* The write that begins a stage. *)
LEMMA WriteBeginKeeps ==
  ASSUME SupervisorInv, NEW c \in Calls, WriteBegin(c)
  PROVE  SupervisorInv'
<1>1. /\ LedgerMove(c) /\ stageFile' = stageFile
      /\ obj'[c].doc = obj[c].pending /\ obj'[c].at = "idle"
  BY CommitMoves DEF WriteBegin
<1>2. /\ pc[c] = "beginning" /\ Go(c, "begun")
      /\ UNCHANGED <<lock, existing, at, owns, tree, code>>
  BY DEF WriteBegin
<1>3. /\ at[c] < Len(Plan) /\ NumFinished(obj[c].pending.entries) = at[c]
      /\ stageFile[Next1(c)] = NoDoc
  BY <1>2 DEF SupervisorInv, StageInProgress
<1>4. pc'[c] = "begun" /\ at'[c] = at[c] /\ (StageInProgress(c)' => CallMove(c))
  BY <1>1, <1>2, PlaceMoves DEF UnderLock, Locations
<1>5. StageInProgress(c)'
  BY <1>1, <1>3, <1>4 DEF StageInProgress, Next1
<1> QED BY <1>1, <1>4, <1>5, OneCallMoves

(* The child of a stage. *)
LEMMA ChildKeeps ==
  ASSUME SupervisorInv, NEW c \in Calls,
         SpawnChild(c) \/ ReleaseChild(c) \/ ChildExits(c) \/ ReapChild(c)
  PROVE  SupervisorInv'
<1>1. LedgerMove(c) /\ stageFile' = stageFile /\ obj'[c] = obj[c]
  BY QuietMoves DEF SpawnChild, ReleaseChild, ChildExits, ReapChild
<1>2. CallMove(c)
  <2>1. CASE SpawnChild(c)
    BY <1>1, <2>1 DEF SpawnChild, CallMove, StageInProgress, SupervisorInv, SupervisorTypeOK, LockIsHeld, OneCreation,
       UnderLock, InPlan, Locations, Next1, Go
  <2>2. CASE ReleaseChild(c)
    BY <1>1, <2>2 DEF ReleaseChild, CallMove, StageInProgress, SupervisorInv, SupervisorTypeOK, LockIsHeld, OneCreation,
       UnderLock, InPlan, Locations, Next1, Go
  <2>3. CASE ChildExits(c)
    BY <1>1, <2>3 DEF ChildExits, CallMove, StageInProgress, SupervisorInv, SupervisorTypeOK, LockIsHeld, OneCreation,
       UnderLock, InPlan, Locations, Next1, Go
  <2>4. CASE ReapChild(c)
    BY <1>1, <2>4 DEF ReapChild, CallMove, StageInProgress, SupervisorInv, SupervisorTypeOK, LockIsHeld, OneCreation,
       UnderLock, InPlan, Locations, Next1, Go
  <2> QED BY <2>1, <2>2, <2>3, <2>4
<1> QED BY <1>1, <1>2, OneCallMoves

(* A process of a stage writes a file. *)
LEMMA ChildWritesKeeps ==
  ASSUME SupervisorInv, NEW c \in Calls, ChildWrites(c)
  PROVE  SupervisorInv'
<1>1. TypeOK' /\ UNCHANGED <<header, ledger, stageFile, obj>>
  <2>1. PICK p \in Files, v \in Contents : ChangeFile(p, v)
    BY DEF ChildWrites
  <2>2. v \in Contents \cup {Missing}
    OBVIOUS
  <2> QED BY <2>1, <2>2, ChangeFileTypes DEF ChangeFile, disk, SupervisorInv
<1>2. LedgerMove(c)
  BY <1>1, NothingMoves
<1>3. CallMove(c)
  BY <1>1 DEF ChildWrites, callVars, CallMove, StageInProgress, SupervisorInv, SupervisorTypeOK, LockIsHeld, OneCreation,
     UnderLock, InPlan, Locations, Next1, Go
<1> QED BY <1>2, <1>3, OneCallMoves

(* finish, and the last resume. *)
LEMMA FinishStageKeeps ==
  ASSUME SupervisorInv, NEW c \in Calls, FinishStage(c)
  PROVE  SupervisorInv'
<1> DEFINE s == Next1(c)
<1>1. at[c] < Len(Plan) /\ at[c] \in 0..Len(Plan) /\ NumFinished(obj[c].doc.entries) = at[c]
  BY DEF FinishStage, SupervisorInv, StageInProgress, SupervisorTypeOK, InPlan
<1>2. s \in Stages /\ Out[s] \in SUBSET Files
  BY <1>1, PlanAssumption DEF Next1
<1>3. /\ LedgerMove(c) /\ obj'[c].doc = obj[c].doc /\ obj'[c].at = "finish"
      /\ NumFinished(obj'[c].pending.entries) = NumFinished(obj[c].doc.entries) + 1
  BY <1>2, FinishMoves DEF FinishStage
<1>4. pc'[c] = "finishing" /\ at'[c] = at[c] /\ (StageInProgress(c)' => CallMove(c))
  BY <1>3, PlaceMoves DEF FinishStage, UnderLock, Locations
<1>5. StageInProgress(c)'
  BY <1>1, <1>3, <1>4 DEF StageInProgress
<1> QED BY <1>3, <1>4, <1>5, OneCallMoves

(* The write that finishes a stage. *)
LEMMA WriteFinishKeeps ==
  ASSUME SupervisorInv, NEW c \in Calls, WriteFinish(c)
  PROVE  SupervisorInv'
<1>1. /\ LedgerMove(c) /\ stageFile' = stageFile
      /\ obj'[c].doc = obj[c].pending /\ obj'[c].at = "idle"
  BY CommitMoves DEF WriteFinish
<1>2. /\ pc[c] = "finishing" /\ Go(c, "loop") /\ at' = [at EXCEPT ![c] = at[c] + 1]
      /\ owns' \in [Calls -> BOOLEAN] /\ UNCHANGED <<lock, existing, tree, code>>
  BY DEF WriteFinish, SupervisorInv, SupervisorTypeOK
<1>3. /\ at[c] \in 0..Len(Plan) /\ at[c] < Len(Plan) /\ Len(Plan) \in Nat
      /\ NumFinished(obj[c].pending.entries) = at[c] + 1
  BY <1>2, PlanAssumption DEF SupervisorInv, SupervisorTypeOK, StageInProgress
<1>4. at[c] + 1 \in 0..Len(Plan)
  BY <1>3
<1>5. pc'[c] = "loop" /\ at'[c] = at[c] + 1 /\ (StageInProgress(c)' => CallMove(c))
  BY <1>1, <1>2, <1>4, WorkMoves DEF UnderLock, Locations
<1>6. StageInProgress(c)'
  BY <1>1, <1>3, <1>5 DEF StageInProgress
<1> QED BY <1>1, <1>5, <1>6, OneCallMoves

(* The verification at the end is a resume. *)
LEMMA VerifyRunKeeps ==
  ASSUME SupervisorInv, NEW c \in Calls, VerifyRun(c)
  PROVE  SupervisorInv'
<1>1. LedgerMove(c) /\ stageFile' = stageFile /\ obj'[c].at # "creating"
  BY ResumeMoves DEF VerifyRun
<1>2. CallMove(c)
  BY <1>1 DEF VerifyRun, CallMove, StageInProgress, SupervisorInv, SupervisorTypeOK, LockIsHeld, OneCreation,
     UnderLock, InPlan, Locations, Next1, Go
<1> QED BY <1>1, <1>2, OneCallMoves

(* A step towards the end of a call: no process of its stage is left. *)
LEMMA EndMoves ==
  ASSUME SupervisorInv, NEW c \in Calls,
         NEW l \in {"failing", "unlocked", "stopNote", "exited", "dead"}, Go(c, l),
         UNCHANGED <<existing, at>>, owns' \in [Calls -> BOOLEAN],
         code' \in [Calls -> {"none", "ok", "error"}],
         tree' \in {tree, [tree EXCEPT ![c] = "none"]}, tree'[c] = "none",
         lock' = lock \/ (lock = c /\ lock' = Nobody), l = "failing" => lock' = c,
         stageFile' = stageFile, obj'[c].at # "creating"
  PROVE  CallMove(c)
<1>1. /\ pc' \in [Calls -> Locations]
      /\ pc'[c] = l /\ \A q \in Calls \ {c} : pc'[q] = pc[q]
  BY DEF Go, SupervisorInv, SupervisorTypeOK, Locations
<1>2. /\ tree' \in [Calls -> {"none", "gated", "running", "orphans"}]
      /\ \A q \in Calls \ {c} : tree'[q] = tree[q]
  BY DEF SupervisorInv, SupervisorTypeOK
<1>3. SupervisorTypeOK'
  BY <1>1, <1>2 DEF SupervisorInv, SupervisorTypeOK
<1>4. StageInProgress(c)'
  BY <1>1 DEF StageInProgress, InPlan
<1>5. pc'[c] \in UnderLock => lock' = c
  BY <1>1 DEF UnderLock
<1> QED BY <1>1, <1>2, <1>3, <1>4, <1>5 DEF CallMove

(* An error ends the work under the lock. *)
LEMMA FailKeeps ==
  ASSUME SupervisorInv, NEW c \in Calls, Fail(c)
  PROVE  SupervisorInv'
<1>1. pc[c] \in UnderLock /\ lock = c
  BY DEF Fail, Gone, SupervisorInv, SupervisorTypeOK, LockIsHeld, UnderLock
<1>2. LedgerMove(c) /\ stageFile' = stageFile /\ obj'[c].at # "creating"
  <2>1. CASE obj[c].at \in Busy
    BY <2>1, CommitFailsMoves DEF Fail
  <2>2. CASE obj[c].at = "creating"
    BY <2>2, StopMoves DEF Fail, Busy
  <2>3. CASE obj[c].at \notin Busy \cup {"creating"}
    BY <2>3, QuietMoves DEF Fail
  <2> QED BY <2>1, <2>2, <2>3
<1>3. /\ Go(c, "failing") /\ UNCHANGED <<lock, existing, at>>
      /\ owns' \in [Calls -> BOOLEAN] /\ code' \in [Calls -> {"none", "ok", "error"}]
      /\ tree' = [tree EXCEPT ![c] = "none"] /\ tree'[c] = "none"
  BY DEF Fail, SupervisorInv, SupervisorTypeOK
<1>4. CallMove(c)
  BY <1>1, <1>2, <1>3, EndMoves
<1> QED BY <1>2, <1>4, OneCallMoves

(* The end of the with block, with success or without. *)
LEMMA ReleaseLockKeeps ==
  ASSUME SupervisorInv, NEW c \in Calls, ReleaseLock(c)
  PROVE  SupervisorInv'
<1>1. /\ pc[c] \in {"verified", "failing"} /\ lock = c /\ tree[c] = "none"
      /\ obj[c].at # "creating"
  BY DEF ReleaseLock, SupervisorInv, SupervisorTypeOK, LockIsHeld, OneCreation, UnderLock, Locations
<1>2. /\ lock' \in {Nobody, lock} /\ UNCHANGED <<existing, at, tree>>
      /\ owns' \in [Calls -> BOOLEAN]
  BY DEF ReleaseLock, SupervisorInv, SupervisorTypeOK
<1>3. CASE pc[c] = "verified"
  <2>1. LedgerMove(c) /\ stageFile' = stageFile /\ obj'[c].at # "creating"
    BY <1>3, StopMoves DEF ReleaseLock
  <2>2. Go(c, "exited") /\ code' \in [Calls -> {"none", "ok", "error"}]
    BY <1>3 DEF ReleaseLock, SupervisorInv, SupervisorTypeOK
  <2>3. CallMove(c)
    BY <1>1, <1>2, <2>1, <2>2, EndMoves
  <2> QED BY <2>1, <2>3, OneCallMoves
<1>4. CASE pc[c] # "verified"
  <2>1. LedgerMove(c) /\ stageFile' = stageFile /\ obj'[c].at # "creating"
    BY <1>1, <1>4, QuietMoves DEF ReleaseLock
  <2>2. Go(c, "unlocked") /\ code' \in [Calls -> {"none", "ok", "error"}]
    BY <1>4 DEF ReleaseLock, SupervisorInv, SupervisorTypeOK
  <2>3. CallMove(c)
    BY <1>1, <1>2, <2>1, <2>2, EndMoves
  <2> QED BY <2>1, <2>3, OneCallMoves
<1> QED BY <1>3, <1>4

(* The stop note, which is written without the lock. *)
LEMMA NoteStopKeeps ==
  ASSUME SupervisorInv, NEW c \in Calls, NoteStop(c)
  PROVE  SupervisorInv'
<1> DEFINE n == <<c, "stop", at[c]>>
<1>1. n \in Notes
  BY NotesAssumption DEF SupervisorInv, SupervisorTypeOK
<1>2. /\ Note(c, n) /\ Go(c, "stopNote") /\ UNCHANGED <<lock, existing, at, tree>>
      /\ owns' \in [Calls -> BOOLEAN] /\ code' \in [Calls -> {"none", "ok", "error"}]
      /\ tree[c] = "none"
  BY DEF NoteStop, SupervisorInv, SupervisorTypeOK, LockIsHeld
<1> HIDE DEF n
<1>3. LedgerMove(c) /\ obj'[c].at # "creating" /\ stageFile' = stageFile
  BY <1>1, <1>2, NoteMoves DEF Note, disk
<1>4. CallMove(c)
  BY <1>2, <1>3, EndMoves
<1> QED BY <1>3, <1>4, OneCallMoves

(* The stop note, written without the lock, over whatever ledger lies there. *)
LEMMA WriteStopKeeps ==
  ASSUME SupervisorInv, NEW c \in Calls, WriteStop(c)
  PROVE  SupervisorInv'
<1>1. LedgerMove(c) /\ stageFile' = stageFile /\ obj'[c].at # "creating"
  BY CommitMoves DEF WriteStop
<1>2. /\ Go(c, "unlocked") /\ UNCHANGED <<lock, existing, at, tree>>
      /\ owns' \in [Calls -> BOOLEAN] /\ code' \in [Calls -> {"none", "ok", "error"}]
      /\ tree[c] = "none"
  BY DEF WriteStop, SupervisorInv, SupervisorTypeOK, LockIsHeld
<1>3. CallMove(c)
  BY <1>1, <1>2, EndMoves
<1> QED BY <1>1, <1>3, OneCallMoves

(* The end of a call, by exit or kill. *)
LEMMA EndKeeps ==
  ASSUME SupervisorInv, NEW c \in Calls, Exit(c) \/ Kill(c)
  PROVE  SupervisorInv'
<1>1. LedgerMove(c) /\ stageFile' = stageFile /\ obj'[c].at # "creating"
  <2>1. CASE obj[c].at = "closed"
    BY <2>1, QuietMoves DEF Exit, Kill
  <2>2. CASE obj[c].at # "closed"
    BY <2>2, StopMoves DEF Exit, Kill
  <2> QED BY <2>1, <2>2
<1>2. PICK l \in {"exited", "dead"} : Go(c, l)
  BY DEF Exit, Kill
<1>3. /\ UNCHANGED <<lock, existing, at>>
      /\ owns' \in [Calls -> BOOLEAN] /\ code' \in [Calls -> {"none", "ok", "error"}]
  BY DEF Exit, Kill, SupervisorInv, SupervisorTypeOK
<1>4. tree' \in {tree, [tree EXCEPT ![c] = "none"]} /\ tree'[c] = "none"
  BY DEF Exit, Kill, SupervisorInv, SupervisorTypeOK, LockIsHeld
<1>5. CallMove(c)
  BY <1>1, <1>2, <1>3, <1>4, EndMoves
<1> QED BY <1>1, <1>5, OneCallMoves

(* The operator deletes the lock of a call that is gone. *)
LEMMA DeleteLockKeeps ==
  ASSUME SupervisorInv, DeleteLock
  PROVE  SupervisorInv'
<1>1. UNCHANGED <<header, ledger, stageFile, file, obj, pc, existing, at, owns, tree, code>>
  BY DEF DeleteLock, vars, callVars
<1>2. \A c \in Calls : pc[c] \in UnderLock => lock # c
  BY DEF DeleteLock, Gone, UnderLock
<1>3. SupervisorTypeOK' /\ LockIsHeld'
  BY <1>1, <1>2 DEF DeleteLock, SupervisorInv, SupervisorTypeOK, LockIsHeld
<1> QED BY <1>1, <1>3 DEF SupervisorInv, TypeOK, StageInProgress, Next1, LedgersFollowThePlan,
                          OneCreation, ReceiptsWhileWriting, MayWrite, Entries

(* A power cut closes every object: what is on disk is a ledger of the     *)
(* plan, and nobody may write it before a resume has found its receipts.   *)
LEMMA PowerCutKeeps ==
  ASSUME SupervisorInv, NEW s \in Stages, PowerCut(s)
  PROVE  SupervisorInv'
<1>1. /\ stageFile' = [stageFile EXCEPT ![s] = NoDoc] /\ obj' = [c \in Calls |-> Closed]
      /\ UNCHANGED <<header, ledger, file, lock, existing, at, owns, code>>
      /\ pc' = [c \in Calls |-> IF pc[c] = "idle" \/ Gone(c) THEN pc[c] ELSE "dead"]
      /\ tree' = [c \in Calls |-> "none"]
  BY DEF PowerCut, PowerLoss, Calls
<1>2. /\ Closed \in Object /\ Closed.at \notin Busy \cup {"idle", "creating"}
      /\ ~Closed.resumed /\ Closed.pending = NewLedger
  BY NewLedgerFollows DEF Closed, Object, Busy
<1> HIDE DEF Closed
<1>3. TypeOK'
  BY <1>1, <1>2 DEF SupervisorInv, TypeOK, Calls
<1>4. SupervisorTypeOK'
  BY <1>1 DEF SupervisorInv, SupervisorTypeOK, Locations
<1>5. \A c \in Calls : pc'[c] \in {"idle", "exited", "dead"} /\ (pc'[c] = "idle" => pc[c] = "idle")
  BY <1>1 DEF Gone
<1>6. LockIsHeld'
  BY <1>1, <1>5 DEF LockIsHeld, UnderLock
<1>7. \A c \in Calls : StageInProgress(c)'
  BY <1>1, <1>5 DEF SupervisorInv, StageInProgress, InPlan
<1>8. LedgersFollowThePlan'
  BY <1>1, <1>2, NewLedgerFollows DEF SupervisorInv, LedgersFollowThePlan, Entries
<1>9. OneCreation'
  BY <1>1, <1>2 DEF OneCreation
<1>10. ReceiptsWhileWriting'
  BY <1>1, <1>2 DEF ReceiptsWhileWriting, MayWrite
<1> QED BY <1>3, <1>4, <1>6, <1>7, <1>8, <1>9, <1>10 DEF SupervisorInv
-------------------------------------------------------------------------------
(* The invariant and the properties. *)

(* The invariant holds before the first call. *)
LEMMA SupervisorInitInvariant == SupervisorInit => SupervisorInv
<1> SUFFICES ASSUME SupervisorInit PROVE SupervisorInv
  OBVIOUS
<1>1. Closed \in Object /\ Closed.at \notin Busy \cup {"idle", "creating"}
      /\ ~Closed.resumed /\ Closed.pending = NewLedger
  BY NewLedgerFollows DEF Closed, Object, Busy
<1> HIDE DEF Closed
<1>2. \A c \in Calls : obj[c] = Closed /\ pc[c] = "idle" /\ at[c] = 0 /\ tree[c] = "none"
  BY DEF SupervisorInit
<1>3. TypeOK
  BY <1>1 DEF SupervisorInit, TypeOK, Calls
<1>4. SupervisorTypeOK
  BY PlanAssumption DEF SupervisorInit, SupervisorTypeOK, Locations
<1>5. LockIsHeld /\ \A c \in Calls : StageInProgress(c)
  BY <1>2 DEF LockIsHeld, UnderLock, StageInProgress, InPlan
<1>6. PlanLedger(Entries)
  BY NewLedgerFollows DEF SupervisorInit, Entries, NewLedger
<1>7. LedgersFollowThePlan
  BY <1>1, <1>2, <1>6, NewLedgerFollows DEF LedgersFollowThePlan
<1>8. OneCreation /\ ReceiptsWhileWriting
  BY <1>1, <1>2 DEF OneCreation, ReceiptsWhileWriting, MayWrite
<1> QED BY <1>3, <1>4, <1>5, <1>7, <1>8 DEF SupervisorInv

(* Every step keeps the invariant. *)
LEMMA SupervisorStepInvariant ==
  ASSUME SupervisorInv, [SupervisorNext \/ \E s \in Stages : PowerCut(s)]_allVars
  PROVE  SupervisorInv'
<1>1. ASSUME NEW c \in Calls, Step(c) PROVE SupervisorInv'
  BY <1>1, ApproachKeeps, CreateRunKeeps, CreateRunLedgerKeeps, OpenRunKeeps, ResumeRunKeeps,
     CompleteResumeKeeps, NoteE6Keeps, WriteNoteKeeps, BeginStageKeeps, WriteBeginKeeps,
     ChildKeeps, FinishStageKeeps, WriteFinishKeeps, VerifyRunKeeps, ReleaseLockKeeps,
     NoteStopKeeps, WriteStopKeeps, EndKeeps, FailKeeps DEF Step
<1>2. CASE UNCHANGED allVars
  BY <1>2 DEF allVars, vars, SupervisorInv, TypeOK, SupervisorTypeOK, LockIsHeld, StageInProgress,
              Next1, LedgersFollowThePlan, OneCreation, ReceiptsWhileWriting, MayWrite, Entries
<1> QED BY <1>1, <1>2, ChildWritesKeeps, ChildKeeps, EndKeeps, DeleteLockKeeps, PowerCutKeeps
        DEF SupervisorNext

(* Lock and places, ledgers and stage files are what SupervisorInv says,   *)
(* for any number of calls, kills and power cuts.                          *)
THEOREM SupervisorInvariant == PowerSpec => []SupervisorInv
<1>1. SupervisorInv /\ [SupervisorNext \/ \E s \in Stages : PowerCut(s)]_allVars => SupervisorInv'
  BY SupervisorStepInvariant
<1> QED BY <1>1, SupervisorInitInvariant, PTL DEF PowerSpec

(* A machine that loses no power is one that may. *)
LEMMA CalmSpec == SupervisorSpec => PowerSpec
<1>1. [SupervisorNext]_allVars => [SupervisorNext \/ \E s \in Stages : PowerCut(s)]_allVars
  OBVIOUS
<1> QED BY <1>1, PTL DEF SupervisorSpec, PowerSpec

(* The processes of a stage run only under the lock of their call, so      *)
(* never beside those of another call.                                     *)
THEOREM StagesRunUnderTheirLock == PowerSpec => []StageRunsUnderLock
<1>1. SupervisorInv => StageRunsUnderLock
  BY DEF SupervisorInv, LockIsHeld, StageRunsUnderLock, UnderLock, Locations
<1> QED BY <1>1, SupervisorInvariant, PTL

(* Only SpawnChild starts the processes of a stage. *)
LEMMA ChildIsSpawned ==
  ASSUME SupervisorInv, [SupervisorNext \/ \E s \in Stages : PowerCut(s)]_allVars,
         NEW c \in Calls, tree[c] = "none", tree'[c] = "gated"
  PROVE  SpawnChild(c) /\ stageFile' = stageFile
<1>0. tree \in [Calls -> {"none", "gated", "running", "orphans"}]
  BY DEF SupervisorInv, SupervisorTypeOK
<1>1. ASSUME NEW q \in Calls, Step(q) PROVE SpawnChild(c) /\ stageFile' = stageFile
  <2>1. CASE SpawnChild(q)
    BY <1>0, <2>1 DEF SpawnChild, vars
  <2>2. CASE ~SpawnChild(q)
    BY <1>0, <1>1, <2>2 DEF Step, Check, TakeLock, CreateRun, CreateRunLedger, OpenRun, ResumeRun,
       CompleteResume, NoteE6, WriteNote, BeginStage, WriteBegin, ReleaseChild, ReapChild,
       FinishStage, WriteFinish, VerifyRun, ReleaseLock, NoteStop, WriteStop, Exit, Refuse, Fail
  <2> QED BY <2>1, <2>2
<1>2. ASSUME NEW q \in Calls, ChildWrites(q) \/ ChildExits(q) \/ Kill(q) PROVE FALSE
  BY <1>0, <1>2 DEF ChildWrites, ChildExits, Kill, callVars
<1>3. ASSUME DeleteLock \/ (\E s \in Stages : PowerCut(s)) \/ UNCHANGED allVars PROVE FALSE
  BY <1>0, <1>3 DEF DeleteLock, PowerCut, callVars, allVars
<1> QED BY <1>1, <1>2, <1>3 DEF SupervisorNext

(* No stage runs again once its stage file is there, whatever ledger a     *)
(* late stop note has put back.                                            *)
THEOREM CertifiedStagesAreNotRerun == PowerSpec => CertifiedStageIsNotRerun
<1>1. SupervisorInv /\ [SupervisorNext \/ \E s \in Stages : PowerCut(s)]_allVars
        => [\A c \in Calls : tree[c] = "none" /\ tree'[c] = "gated"
              => stageFile[Next1(c)] = NoDoc]_allVars
  <2> SUFFICES ASSUME SupervisorInv, [SupervisorNext \/ \E s \in Stages : PowerCut(s)]_allVars,
                      NEW c \in Calls, tree[c] = "none", tree'[c] = "gated"
               PROVE  stageFile[Next1(c)] = NoDoc
    OBVIOUS
  <2>1. pc[c] = "begun"
    BY ChildIsSpawned DEF SpawnChild
  <2> QED BY <2>1 DEF SupervisorInv, StageInProgress
<1> QED BY <1>1, SupervisorInvariant, PTL DEF PowerSpec, CertifiedStageIsNotRerun

(* LEDGER.json is written by a call that creates it or has checked it. *)
LEMMA LedgerIsWrittenOnPurpose ==
  ASSUME [SupervisorNext \/ \E s \in Stages : PowerCut(s)]_allVars, ledger' # ledger
  PROVE  \E c \in Calls : obj[c].at \in Busy \cup {"creating"}
<1>1. ASSUME NEW c \in Calls, Step(c) PROVE obj[c].at \in Busy \cup {"creating"}
  <2>1. CASE Check(c) \/ TakeLock(c) \/ CreateRun(c) \/ OpenRun(c) \/ ResumeRun(c) \/ NoteE6(c)
    BY <2>1 DEF Check, TakeLock, CreateRun, CreateHeader, OpenRun, Open, ResumeRun, Resume,
                NoteE6, Note, disk, vars
  <2>2. CASE CreateRunLedger(c) \/ CompleteResume(c) \/ WriteNote(c) \/ WriteBegin(c)
             \/ WriteFinish(c) \/ WriteStop(c)
    BY <2>2 DEF CreateRunLedger, CreateLedger, CompleteResume, WriteNote, WriteBegin,
                WriteFinish, WriteStop, Commit
  <2>3. CASE BeginStage(c) \/ FinishStage(c) \/ VerifyRun(c) \/ NoteStop(c)
    BY <2>3 DEF BeginStage, Begin, FinishStage, Finish, VerifyRun, Resume, NoteStop, Note, disk, vars
  <2>4. CASE SpawnChild(c) \/ ReleaseChild(c) \/ ReapChild(c) \/ Refuse(c)
    BY <2>4 DEF SpawnChild, ReleaseChild, ReapChild, Refuse, vars
  <2>5. CASE Fail(c) \/ ReleaseLock(c) \/ Exit(c)
    BY <2>5 DEF Fail, ReleaseLock, Exit, CommitFails, Stop, disk, vars
  <2> QED BY <1>1, <2>1, <2>2, <2>3, <2>4, <2>5 DEF Step
<1>2. ASSUME NEW c \in Calls, ChildWrites(c) \/ ChildExits(c) \/ Kill(c) PROVE FALSE
  BY <1>2 DEF ChildWrites, ChildExits, Kill, ChangeFile, Stop, disk, vars
<1>3. ASSUME DeleteLock \/ (\E s \in Stages : PowerCut(s)) \/ UNCHANGED allVars PROVE FALSE
  BY <1>3 DEF DeleteLock, PowerCut, PowerLoss, allVars, vars
<1> QED BY <1>1, <1>2, <1>3 DEF SupervisorNext

(* A run that lost a receipt stops: no call writes its ledger. *)
THEOREM LostReceiptsStopTheRun == PowerSpec => LostReceiptStopsTheRun
<1> DEFINE Stopped == (\E i \in DOMAIN Entries : /\ Entries[i].state = "finished"
                                                /\ stageFile[Entries[i].stage] = NoDoc
                                                /\ stageFile'[Entries[i].stage] = NoDoc)
                        => UNCHANGED ledger
<1>1. SupervisorInv /\ [SupervisorNext \/ \E s \in Stages : PowerCut(s)]_allVars => [Stopped]_vars
  <2> SUFFICES ASSUME SupervisorInv, [SupervisorNext \/ \E s \in Stages : PowerCut(s)]_allVars,
                      NEW i \in DOMAIN Entries, Entries[i].state = "finished",
                      stageFile[Entries[i].stage] = NoDoc, ledger' # ledger
               PROVE  FALSE
    OBVIOUS
  <2>1. PICK c \in Calls : obj[c].at \in Busy \cup {"creating"}
    BY LedgerIsWrittenOnPurpose
  <2>2. CASE obj[c].at \in Busy
    BY <2>2 DEF SupervisorInv, ReceiptsWhileWriting, MayWrite, HasReceipts
  <2>3. CASE obj[c].at = "creating"
    <3>1. Entries = <<>>
      BY <2>3 DEF SupervisorInv, OneCreation, Entries
    <3> QED BY <3>1
  <2> QED BY <2>1, <2>2, <2>3
<1>2. LostReceiptStopsTheRun <=> [][Stopped]_vars
  BY DEF LostReceiptStopsTheRun
<1> HIDE DEF Stopped
<1> QED BY <1>1, <1>2, SupervisorInvariant, PTL DEF PowerSpec

(* Stage files are written by finish alone, or lost in a power cut. *)
LEMMA StageFileIsWritten ==
  ASSUME [SupervisorNext]_allVars, stageFile' # stageFile
  PROVE  \E c \in Calls : pc[c] = "reaped"
<1>1. ASSUME NEW c \in Calls, Step(c) PROVE pc[c] = "reaped"
  <2>1. CASE Check(c) \/ TakeLock(c) \/ CreateRun(c) \/ OpenRun(c) \/ ResumeRun(c) \/ NoteE6(c)
    BY <2>1 DEF Check, TakeLock, CreateRun, CreateHeader, OpenRun, Open, ResumeRun, Resume,
                NoteE6, Note, disk, vars
  <2>2. CASE CreateRunLedger(c) \/ CompleteResume(c) \/ WriteNote(c) \/ WriteBegin(c)
             \/ WriteFinish(c) \/ WriteStop(c)
    BY <2>2 DEF CreateRunLedger, CreateLedger, CompleteResume, WriteNote, WriteBegin,
                WriteFinish, WriteStop, Commit
  <2>3. CASE BeginStage(c) \/ FinishStage(c) \/ VerifyRun(c) \/ NoteStop(c)
    BY <2>3 DEF BeginStage, Begin, FinishStage, VerifyRun, Resume, NoteStop, Note, disk, vars
  <2>4. CASE SpawnChild(c) \/ ReleaseChild(c) \/ ReapChild(c) \/ Refuse(c)
    BY <2>4 DEF SpawnChild, ReleaseChild, ReapChild, Refuse, vars
  <2>5. CASE Fail(c) \/ ReleaseLock(c) \/ Exit(c)
    BY <2>5 DEF Fail, ReleaseLock, Exit, CommitFails, Stop, disk, vars
  <2> QED BY <1>1, <2>1, <2>2, <2>3, <2>4, <2>5 DEF Step
<1>2. ASSUME NEW c \in Calls, ChildWrites(c) \/ ChildExits(c) \/ Kill(c) PROVE FALSE
  BY <1>2 DEF ChildWrites, ChildExits, Kill, ChangeFile, Stop, disk, vars
<1>3. ASSUME DeleteLock \/ UNCHANGED allVars PROVE FALSE
  BY <1>3 DEF DeleteLock, allVars, vars
<1> QED BY <1>1, <1>2, <1>3 DEF SupervisorNext

(* No process of a stage, of any call, is alive when outputs are certified.*)
THEOREM CertifiedInQuiet == SupervisorSpec => QuietWhenCertified
<1>1. SupervisorInv /\ [SupervisorNext]_allVars
        => [stageFile' # stageFile => \A c \in Calls : tree[c] = "none"]_allVars
  <2> SUFFICES ASSUME SupervisorInv, [SupervisorNext]_allVars, stageFile' # stageFile, NEW c \in Calls
               PROVE  tree[c] = "none"
    OBVIOUS
  <2>1. PICK q \in Calls : pc[q] = "reaped"
    BY StageFileIsWritten
  <2>2. pc[c] = "child" => c = q
    BY <2>1, OneUnderLock DEF UnderLock, Locations
  <2> QED BY <2>1, <2>2 DEF SupervisorInv, LockIsHeld
<1> QED BY <1>1, CalmSpec, SupervisorInvariant, PTL DEF SupervisorSpec, QuietWhenCertified

(* Only VerifyRun leads to success. *)
LEMMA SuccessIsByVerifyRun ==
  ASSUME SupervisorInv, [SupervisorNext \/ \E s \in Stages : PowerCut(s)]_allVars,
         NEW c \in Calls, pc[c] # "verified", pc'[c] = "verified"
  PROVE  VerifyRun(c)
<1>0. pc \in [Calls -> Locations]
  BY DEF SupervisorInv, SupervisorTypeOK
<1>1. ASSUME NEW q \in Calls, Step(q) PROVE VerifyRun(c)
  <2>1. CASE VerifyRun(q)
    BY <1>0, <2>1 DEF VerifyRun, Go
  <2>2. CASE ~VerifyRun(q)
    BY <1>0, <1>1, <2>2 DEF Step, Check, TakeLock, CreateRun, CreateRunLedger, OpenRun, ResumeRun, Owned,
       CompleteResume, NoteE6, WriteNote, BeginStage, WriteBegin, SpawnChild, ReleaseChild, ReapChild,
       FinishStage, WriteFinish, ReleaseLock, NoteStop, WriteStop, Exit, Refuse, Fail, Go
  <2> QED BY <2>1, <2>2
<1>2. ASSUME NEW q \in Calls, ChildWrites(q) \/ ChildExits(q) \/ Kill(q) PROVE FALSE
  BY <1>0, <1>2 DEF ChildWrites, ChildExits, Kill, callVars, Go
<1>3. ASSUME DeleteLock \/ (\E s \in Stages : PowerCut(s)) \/ UNCHANGED allVars PROVE FALSE
  BY <1>0, <1>3 DEF DeleteLock, PowerCut, callVars, allVars
<1> QED BY <1>1, <1>2, <1>3 DEF SupervisorNext

(* What the last resume accepts of a ledger that follows the plan and has  *)
(* all its stages finished is the whole plan, receipted and as recorded.   *)
LEMMA WholePlan ==
  ASSUME NEW es \in Seq(Entry), PlanLedger(es), ResumeAccepts(es), NumFinished(es) = Len(Plan)
  PROVE  /\ Len(es) = Len(Plan)
         /\ \A i \in DOMAIN Plan :
              LET d == stageFile[Plan[i]] IN
              d # NoDoc /\ es[i] = FinishedEntry(d) /\ Match(d.inputs) /\ Match(d.outputs)
<1>1. Len(Plan) \in Nat /\ DOMAIN Plan = 1..Len(Plan) /\ Len(es) \in Nat /\ DOMAIN es = 1..Len(es)
  BY PlanAssumption
<1>2. Len(es) = Len(Plan) /\ (es # <<>> => es[Len(es)].state # "begun")
  <2>1. CASE es # <<>> /\ es[Len(es)].state = "begun"
    BY <1>1, <2>1 DEF PlanLedger, Bound, NumFinished
  <2>2. CASE ~(es # <<>> /\ es[Len(es)].state = "begun")
    BY <1>1, <2>2 DEF NumFinished
  <2> QED BY <2>1, <2>2
<1> SUFFICES ASSUME NEW i \in DOMAIN Plan
             PROVE  LET d == stageFile[Plan[i]] IN
                    d # NoDoc /\ es[i] = FinishedEntry(d) /\ Match(d.inputs) /\ Match(d.outputs)
  BY <1>2
<1> DEFINE d == stageFile[Plan[i]]
<1>3. i \in DOMAIN es /\ es # <<>> /\ es[i] \in Entry /\ es[i].stage = Plan[i]
  BY <1>1, <1>2 DEF PlanLedger, Bound
<1>4. es[i].state = "finished" /\ es[i].previous = ChainBefore(es, i)
  BY <1>2, <1>3, EntryFields DEF PlanLedger, WellFormed
<1>5. Verified(es, i)
  BY <1>3, <1>4 DEF ResumeAccepts
<1>6. /\ d # NoDoc /\ d.stage = es[i].stage /\ d.previous = es[i].previous
      /\ d.inputs = es[i].inputs /\ d.outputs = es[i].outputs /\ Sha(d) = es[i].sha
      /\ Match(d.inputs) /\ Match(d.outputs)
  BY <1>3, <1>4, <1>5 DEF Verified
<1> HIDE DEF d
<1>7. es[i] = FinishedEntry(d)
  BY <1>3, <1>4, <1>6 DEF Entry, FinishedEntry
<1> QED BY <1>6, <1>7 DEF d

(* A call that reports success has the whole plan finished on disk, with   *)
(* every stage file and every recorded file as recorded.                   *)
THEOREM SuccessMeansTheWholePlan == PowerSpec => SuccessIsVerified
<1>1. SupervisorInv /\ [SupervisorNext \/ \E s \in Stages : PowerCut(s)]_allVars
        => [\A c \in Calls : pc[c] # "verified" /\ pc'[c] = "verified" =>
              /\ ledger # NoDoc
              /\ Len(Entries) = Len(Plan)
              /\ \A i \in DOMAIN Plan :
                   LET d == stageFile[Plan[i]] IN
                   /\ d # NoDoc
                   /\ Entries[i] = FinishedEntry(d)
                   /\ Match(d.inputs) /\ Match(d.outputs)]_allVars
  <2> SUFFICES ASSUME SupervisorInv, [SupervisorNext \/ \E s \in Stages : PowerCut(s)]_allVars,
                      NEW c \in Calls, pc[c] # "verified", pc'[c] = "verified"
               PROVE  /\ ledger # NoDoc
                      /\ Len(Entries) = Len(Plan)
                      /\ \A i \in DOMAIN Plan :
                           LET d == stageFile[Plan[i]] IN
                           /\ d # NoDoc
                           /\ Entries[i] = FinishedEntry(d)
                           /\ Match(d.inputs) /\ Match(d.outputs)
    OBVIOUS
  <2>1. Resume(c) /\ NumFinished(obj[c].doc.entries) = Len(Plan)
    BY SuccessIsByVerifyRun DEF VerifyRun
  <2>2. /\ ledger # NoDoc /\ obj[c].doc = ledger /\ Entries = ledger.entries
        /\ Entries \in Seq(Entry) /\ PlanLedger(Entries)
    BY <2>1, KnownLedger DEF Resume
  <2>3. ResumeAccepts(Entries) /\ NumFinished(Entries) = Len(Plan)
    BY <2>1, <2>2 DEF Resume
  <2> QED BY <2>2, <2>3, WholePlan
<1> QED BY <1>1, SupervisorInvariant, PTL DEF PowerSpec, SuccessIsVerified
===============================================================================
