--------------------------- MODULE RunLedgerProofs ---------------------------
(***************************************************************************)
(* Proofs about RunLedger: its safety properties for every set of owners,  *)
(* stages, files and contents, and that it implements StageLog.            *)
(***************************************************************************)
EXTENDS RunLedgerInv, TLAPS

-------------------------------------------------------------------------------
(* Types of the documents. *)

(* The digests that are taken of present files are a digest map. *)
LEMMA DigestType ==
  ASSUME TypeOK, NEW X \in SUBSET Files, Present(X)
  PROVE  Digest(X) \in Digests
<1>1. Digest(X) \in [X -> Contents]
  BY DEF Digest, Present, TypeOK
<1> QED BY <1>1 DEF Digests

(* No path is hashed when none is declared. *)
LEMMA NoFilesType == NoFiles \in Digests
<1>1. NoFiles \in [{} -> Contents]
  BY DEF NoFiles
<1> QED BY <1>1 DEF Digests

(* The entry of a begun stage is an entry. *)
LEMMA BegunEntryType ==
  ASSUME NEW s \in Stages, NEW d \in Digests
  PROVE  BegunEntry(s, d) \in Entry
BY NoFilesType DEF BegunEntry, Entry, HeaderHash, Hash

(* The entry that certifies a stage file is an entry. *)
LEMMA FinishedEntryType ==
  ASSUME NEW d \in StageDoc
  PROVE  FinishedEntry(d) \in Entry
<1>1. Sha(d) \in Hash
  BY DEF Sha, Hash, RecordOf, Record, StageDoc
<1> QED BY <1>1 DEF FinishedEntry, Entry, StageDoc

(* The chain value before an entry is a hash. *)
LEMMA ChainType ==
  ASSUME NEW es \in Seq(Entry), NEW i \in DOMAIN es
  PROVE  ChainBefore(es, i) \in Hash
<1>1. CASE i = 1
  BY <1>1 DEF ChainBefore, HeaderHash, Hash
<1>2. CASE i # 1
  <2>1. i - 1 \in DOMAIN es
    BY <1>2
  <2>2. es[i - 1] \in Entry
    BY <2>1
  <2>3. es[i - 1].sha \in Hash
    BY <2>2 DEF Entry
  <2> QED BY <1>2, <2>3 DEF ChainBefore
<1> QED BY <1>1, <1>2

(* The fields of an entry of a ledger have their types. *)
LEMMA EntryFields ==
  ASSUME NEW es \in Seq(Entry), NEW i \in DOMAIN es
  PROVE  /\ es[i].stage \in Stages
         /\ es[i].state \in {"begun", "finished"}
         /\ es[i].inputs \in Digests
<1>1. es[i] \in Entry
  OBVIOUS
<1> QED BY <1>1 DEF Entry

(* Replacing the last entry of a ledger leaves a ledger. *)
LEMMA ReplaceLast ==
  ASSUME NEW es \in Seq(Entry), es # <<>>, NEW e \in Entry
  PROVE  /\ [es EXCEPT ![Len(es)] = e] \in Seq(Entry)
         /\ Len([es EXCEPT ![Len(es)] = e]) = Len(es)
         /\ DOMAIN [es EXCEPT ![Len(es)] = e] = DOMAIN es
OBVIOUS

(* Every operation keeps the types: begin and finish for any declared      *)
(* files, the others for any caller.                                       *)
LEMMA BeginTypes ==
  ASSUME TypeOK, NEW o \in Owners, NEW s \in Stages, NEW X \in SUBSET Files, Begin(o, s, X)
  PROVE  TypeOK'
<1> DEFINE es == obj[o].doc.entries
           d  == [obj[o].doc EXCEPT !.entries = Append(es, BegunEntry(s, Digest(X)))]
<1>1. Digest(X) \in Digests
  BY DigestType DEF Begin, BeginChecks
<1>2. BegunEntry(s, Digest(X)) \in Entry
  BY <1>1, BegunEntryType
<1>3. obj[o].doc \in LedgerDoc
  BY DEF TypeOK, Object
<1>4. d \in LedgerDoc
  <2>1. Append(es, BegunEntry(s, Digest(X))) \in Seq(Entry)
    BY <1>2, <1>3 DEF LedgerDoc
  <2> QED BY <1>3, <2>1 DEF LedgerDoc
<1>5. obj' = [obj EXCEPT ![o].at = "begin", ![o].pending = d] /\ UNCHANGED <<disk, file>>
  BY DEF Begin, Due
<1> HIDE DEF d, es
<1> QED BY <1>4, <1>5 DEF TypeOK, Object, Busy, disk

(* The stage file that finish writes has its type. *)
LEMMA StageFileType ==
  ASSUME TypeOK, NEW o \in Owners, NEW s \in Stages, NEW Y \in SUBSET Files,
         HasBegun(obj[o].doc.entries, s), Present(Y)
  PROVE  LET es == obj[o].doc.entries IN
         /\ es \in Seq(Entry) /\ es # <<>> /\ Len(es) \in DOMAIN es
         /\ [stage |-> s, previous |-> ChainBefore(es, Len(es)),
             inputs |-> es[Len(es)].inputs, outputs |-> Digest(Y)] \in StageDoc
<1> DEFINE es == obj[o].doc.entries
<1>1. Digest(Y) \in Digests
  BY DigestType
<1>2. es \in Seq(Entry) /\ es # <<>>
  BY DEF TypeOK, Object, LedgerDoc, HasBegun
<1>3. Len(es) \in DOMAIN es
  BY <1>2
<1>4. es[Len(es)].inputs \in Digests
  BY <1>2, <1>3, EntryFields
<1>5. ChainBefore(es, Len(es)) \in Hash
  BY <1>2, <1>3, ChainType
<1> QED BY <1>1, <1>2, <1>3, <1>4, <1>5 DEF StageDoc

(* finish: the stage file and the ledger about to be written. *)
LEMMA FinishTypes ==
  ASSUME TypeOK, NEW o \in Owners, NEW s \in Stages, NEW Y \in SUBSET Files, Finish(o, s, Y)
  PROVE  TypeOK'
<1> DEFINE es == obj[o].doc.entries
           d  == [stage |-> s, previous |-> ChainBefore(es, Len(es)),
                  inputs |-> es[Len(es)].inputs, outputs |-> Digest(Y)]
           l  == [obj[o].doc EXCEPT !.entries = [es EXCEPT ![Len(es)] = FinishedEntry(d)]]
<1>1. /\ obj[o].doc \in LedgerDoc /\ es \in Seq(Entry) /\ es # <<>>
      /\ d \in StageDoc
  BY StageFileType DEF TypeOK, Object, Finish
<1>2. [es EXCEPT ![Len(es)] = FinishedEntry(d)] \in Seq(Entry)
  BY <1>1, FinishedEntryType, ReplaceLast
<1>3. l \in LedgerDoc
  BY <1>1, <1>2 DEF LedgerDoc
<1>4. /\ stageFile' = [stageFile EXCEPT ![s] = d]
      /\ obj' = [obj EXCEPT ![o].at = "finish", ![o].pending = l]
      /\ UNCHANGED <<header, ledger, file>>
  BY DEF Finish, Due
<1> HIDE DEF d, es, l
<1>5. stageFile' \in [Stages -> StageDoc \cup {NoDoc}]
  BY <1>1, <1>4 DEF TypeOK
<1>6. obj' \in [Owners -> Object]
  BY <1>3, <1>4 DEF TypeOK, Object, Busy
<1>7. header' = header /\ ledger' = ledger /\ file' = file
  BY <1>4
<1> QED BY <1>5, <1>6, <1>7 DEF TypeOK

(* A note that is due is a note of a ledger. *)
LEMMA NoteTypes ==
  ASSUME TypeOK, NEW o \in Owners, NEW n \in Notes, Note(o, n)
  PROVE  TypeOK'
<1> DEFINE l == [obj[o].doc EXCEPT !.notes = @ \cup {n}]
<1>1. l \in LedgerDoc
  BY DEF TypeOK, Object, LedgerDoc
<1>2. obj' = [obj EXCEPT ![o].at = "note", ![o].pending = l] /\ UNCHANGED <<disk, file>>
  BY DEF Note, Due
<1> HIDE DEF l
<1> QED BY <1>1, <1>2 DEF TypeOK, Object, Busy, disk

(* resume: the ledger that completes a half-finished stage. *)
LEMMA ResumeTypes ==
  ASSUME TypeOK, NEW o \in Owners, Resume(o)
  PROVE  TypeOK'
<1> DEFINE es == obj[o].doc.entries
           l  == [obj[o].doc EXCEPT !.entries = FinishLast(es)]
<1>1. obj[o].doc \in LedgerDoc /\ es \in Seq(Entry)
  BY DEF TypeOK, Object, LedgerDoc
<1>2. CASE HalfFinished(es)
  <2>1. es # <<>> /\ Len(es) \in DOMAIN es
    BY <1>1, <1>2 DEF HalfFinished, HasBegun
  <2>2. stageFile[es[Len(es)].stage] \in StageDoc
    BY <1>1, <1>2, <2>1 DEF HalfFinished, HasBegun, TypeOK
  <2>3. FinishLast(es) \in Seq(Entry)
    BY <1>1, <2>1, <2>2, FinishedEntryType, ReplaceLast DEF FinishLast
  <2>4. l \in LedgerDoc
    BY <1>1, <2>3 DEF LedgerDoc
  <2>5. obj' = [obj EXCEPT ![o].at = "resume", ![o].pending = l] /\ UNCHANGED <<disk, file>>
    BY <1>2 DEF Resume, Due
  <2> HIDE DEF es, l
  <2> QED BY <2>4, <2>5 DEF TypeOK, Object, Busy, disk
<1>3. CASE ~HalfFinished(es)
  BY <1>3 DEF Resume, TypeOK, Object, disk
<1> QED BY <1>2, <1>3

(* Creation, opening, the write, a failed write and a stop. *)
LEMMA OtherTypes ==
  ASSUME TypeOK, NEW o \in Owners,
         \/ CreateHeader(o) \/ CreateLedger(o) \/ Open(o)
         \/ Commit(o) \/ CommitFails(o) \/ Stop(o)
  PROVE  TypeOK'
<1>0. NewLedger \in LedgerDoc
  BY DEF NewLedger, LedgerDoc
<1>1. CASE CreateHeader(o)
  BY <1>1 DEF CreateHeader, TypeOK, Object
<1>2. CASE CreateLedger(o)
  BY <1>2, <1>0 DEF CreateLedger, TypeOK, Object
<1>3. CASE Open(o)
  BY <1>3, <1>0 DEF Open, disk, TypeOK, Object
<1>4. CASE Commit(o)
  BY <1>4, <1>0 DEF Commit, TypeOK, Object, Busy
<1>5. CASE CommitFails(o)
  BY <1>5, <1>0 DEF CommitFails, TypeOK, Object, disk
<1>6. CASE Stop(o)
  BY <1>6, <1>0 DEF Stop, TypeOK, Object, Closed, disk
<1> QED BY <1>1, <1>2, <1>3, <1>4, <1>5, <1>6

(* A file is changed under the objects. *)
LEMMA ChangeFileTypes ==
  ASSUME TypeOK, NEW p \in Files, NEW c \in Contents \cup {Missing}, ChangeFile(p, c)
  PROVE  TypeOK'
BY DEF ChangeFile, TypeOK, disk

(* The type invariant holds initially and every step keeps it. *)
THEOREM TypeCorrect == Spec => []TypeOK
<1>1. Init => TypeOK
  <2> SUFFICES ASSUME Init PROVE TypeOK
    OBVIOUS
  <2>1. Closed \in Object
    BY DEF Closed, Object, NewLedger, LedgerDoc
  <2> QED BY <2>1 DEF Init, TypeOK
<1>2. TypeOK /\ [Next]_vars => TypeOK'
  <2> SUFFICES ASSUME TypeOK, [Next]_vars PROVE TypeOK'
    OBVIOUS
  <2>1. ASSUME NEW o \in Owners, Operation(o) PROVE TypeOK'
    BY <2>1, PathAssumption, BeginTypes, FinishTypes, NoteTypes, ResumeTypes, OtherTypes
       DEF Operation
  <2>2. CASE UNCHANGED vars
    BY <2>2 DEF vars, TypeOK
  <2> QED BY <2>1, <2>2, OtherTypes, ChangeFileTypes DEF Next
<1> QED BY <1>1, <1>2, PTL DEF Spec
-------------------------------------------------------------------------------
(* What an operation does to a good ledger document es, over stage files sf. *)

StageFiles == [Stages -> StageDoc \cup {NoDoc}]

(* The entries before position j are the same in two ledgers that agree on *)
(* them, so the certified inputs of position j are too.                    *)
LEMMA SamePrefix ==
  ASSUME NEW es \in Seq(Entry), NEW fs \in Seq(Entry), NEW j \in Nat \ {0},
         j - 1 <= Len(es), j - 1 <= Len(fs), \A i \in 1..(j - 1) : es[i] = fs[i]
  PROVE  SubSeq(es, 1, j - 1) = SubSeq(fs, 1, j - 1)
OBVIOUS

(* Only what finished entries record as outputs decides which inputs are   *)
(* certified: a begun entry at the end changes nothing.                    *)
LEMMA CertifiedByFinished ==
  ASSUME NEW es \in Seq(Entry), NEW j \in DOMAIN es, NEW fs \in Seq(Entry),
         Len(fs) >= Len(es), \A i \in 1..(j - 1) : es[i] = fs[i],
         fs[j].inputs = es[j].inputs,
         Certified(SubSeq(es, 1, j - 1), es[j].inputs)
  PROVE  Certified(SubSeq(fs, 1, j - 1), fs[j].inputs)
<1>1. SubSeq(es, 1, j - 1) = SubSeq(fs, 1, j - 1)
  BY SamePrefix
<1> QED BY <1>1

(* begin appends a begun entry to a ledger whose entries are all finished: *)
(* the document stays good, nothing recorded changes and nothing more is   *)
(* certified.                                                              *)
LEMMA BeginKeeps ==
  ASSUME NEW sf \in StageFiles, NEW es \in Seq(Entry), DocumentOK(sf, es),
         NEW s \in Stages, NEW dg \in Digests, sf[s] = NoDoc, Certified(es, dg),
         \A i \in DOMAIN es : es[i].state = "finished" /\ es[i].stage # s
  PROVE  LET fs == Append(es, BegunEntry(s, dg)) IN
         DocumentOK(sf, fs) /\ Keeps(es, fs) /\ LogOf(sf, fs) = LogOf(sf, es)
<1> DEFINE e  == BegunEntry(s, dg)
           fs == Append(es, e)
<1>1. e \in Entry /\ e.stage = s /\ e.state = "begun" /\ e.inputs = dg
  BY BegunEntryType DEF BegunEntry
<1> HIDE DEF e
<1>2. /\ fs \in Seq(Entry)
      /\ Len(fs) = Len(es) + 1
      /\ DOMAIN fs = DOMAIN es \cup {Len(fs)}
      /\ fs[Len(fs)] = e
      /\ \A i \in DOMAIN es : fs[i] = es[i] /\ i # Len(fs) /\ i \in Nat /\ 1 <= i /\ i <= Len(es)
  BY <1>1
<1> HIDE DEF fs
<1>3. WellFormed(fs)
  BY <1>1, <1>2 DEF DocumentOK, WellFormed, ChainBefore
<1>4. Receipted(sf, fs)
  BY <1>1, <1>2 DEF DocumentOK, Receipted
<1>5. HalfFinishedIsOurs(sf, fs)
  BY <1>1, <1>2 DEF HalfFinishedIsOurs
<1>6. FolderExplained(sf, fs)
  BY <1>2 DEF DocumentOK, FolderExplained
<1>7. Reads(fs)
  <2>1. ASSUME NEW j \in DOMAIN es PROVE Certified(SubSeq(fs, 1, j - 1), fs[j].inputs)
    <3>1. \A i \in 1..(j - 1) : i \in DOMAIN es
      BY <1>2
    <3> QED BY <1>2, <2>1, <3>1, CertifiedByFinished DEF DocumentOK, Reads
  <2>2. SubSeq(fs, 1, Len(fs) - 1) = es
    BY <1>2
  <2> QED BY <1>1, <1>2, <2>1, <2>2 DEF Reads
<1>8. Keeps(es, fs)
  BY <1>2 DEF Keeps
<1>9. LogOf(sf, fs) = LogOf(sf, es)
  <2>1. CertifiedStages(sf, fs) = Len(es)
    BY <1>1, <1>2 DEF CertifiedStages
  <2>2. CertifiedStages(sf, es) = Len(es)
    BY <1>2 DEF CertifiedStages
  <2>3. \A i \in 1..Len(es) : fs[i] = es[i]
    BY <1>2
  <2> QED BY <2>1, <2>2, <2>3 DEF LogOf
<1> QED BY <1>3, <1>4, <1>5, <1>6, <1>7, <1>8, <1>9 DEF DocumentOK, fs, e
(* The stage file that finish writes for the begun last entry leaves the   *)
(* ledger on disk a good document and appends its record to the log.       *)
LEMMA StageFileCertifies ==
  ASSUME NEW sf \in StageFiles, NEW es \in Seq(Entry), DocumentOK(sf, es),
         es # <<>>, es[Len(es)].state = "begun", NEW d \in StageDoc,
         d.stage = es[Len(es)].stage, d.inputs = es[Len(es)].inputs,
         d.previous = ChainBefore(es, Len(es)), sf[d.stage] = NoDoc
  PROVE  LET tf == [sf EXCEPT ![d.stage] = d] IN
         DocumentOK(tf, es) /\ LogOf(tf, es) = Append(LogOf(sf, es), RecordOf(d))
<1> DEFINE tf == [sf EXCEPT ![d.stage] = d]
           n  == Len(es)
<1>1. /\ n \in Nat \ {0} /\ n \in DOMAIN es /\ DOMAIN es = 1..n
      /\ d.stage \in Stages /\ d # NoDoc
  BY NoDocAssumption DEF StageDoc
<1>2. /\ tf[d.stage] = d
      /\ \A s \in Stages : s # d.stage => tf[s] = sf[s]
  BY <1>1 DEF StageFiles
<1>3. \A i \in DOMAIN es : es[i].stage \in Stages /\ es[i].state \in {"begun", "finished"}
  BY EntryFields
<1>4. \A i \in DOMAIN es : i # n => es[i].state = "finished" /\ es[i].stage # d.stage
  BY <1>1, <1>3 DEF DocumentOK, WellFormed
<1> HIDE DEF tf
<1>5. Receipted(tf, es)
  BY <1>1, <1>2, <1>3, <1>4 DEF DocumentOK, Receipted
<1>6. HalfFinishedIsOurs(tf, es)
  BY <1>1, <1>2, <1>4 DEF HalfFinishedIsOurs
<1>7. FolderExplained(tf, es)
  BY <1>1, <1>2 DEF DocumentOK, FolderExplained
<1>8. DocumentOK(tf, es)
  BY <1>5, <1>6, <1>7 DEF DocumentOK
<1>9. LogOf(tf, es) = Append(LogOf(sf, es), RecordOf(d))
  <2>1. CertifiedStages(sf, es) = n - 1
    BY <1>1 DEF CertifiedStages
  <2>2. CertifiedStages(tf, es) = n
    BY <1>1, <1>2 DEF CertifiedStages
  <2> DEFINE rec(i) == RecordOf(IF es[i].state = "finished" THEN es[i] ELSE tf[es[i].stage])
  <2>3. LogOf(sf, es) = [i \in 1..(n - 1) |-> rec(i)]
    BY <1>1, <1>4, <2>1 DEF LogOf
  <2>4. LogOf(tf, es) = [i \in 1..n |-> rec(i)]
    BY <2>2 DEF LogOf
  <2>5. rec(n) = RecordOf(d)
    BY <1>2
  <2> HIDE DEF rec, n
  <2>6. Append([i \in 1..(n - 1) |-> rec(i)], rec(n)) = [i \in 1..n |-> rec(i)]
    BY <1>1
  <2> QED BY <2>3, <2>4, <2>5, <2>6
<1> QED BY <1>8, <1>9 DEF tf

(* Completing the ledger for a stage whose stage file is there (the second *)
(* write of finish, or resume's) keeps the document good, keeps what is    *)
(* recorded and certifies nothing new.                                     *)
LEMMA CompletionKeeps ==
  ASSUME NEW sf \in StageFiles, NEW es \in Seq(Entry), DocumentOK(sf, es),
         es # <<>>, es[Len(es)].state = "begun", NEW d \in StageDoc,
         sf[es[Len(es)].stage] = d, d.stage = es[Len(es)].stage
  PROVE  LET fs == [es EXCEPT ![Len(es)] = FinishedEntry(d)] IN
         DocumentOK(sf, fs) /\ Keeps(es, fs) /\ LogOf(sf, fs) = LogOf(sf, es)
<1> DEFINE n  == Len(es)
           e  == FinishedEntry(d)
           fs == [es EXCEPT ![n] = e]
<1>1. /\ n \in Nat \ {0} /\ n \in DOMAIN es /\ DOMAIN es = 1..n
      /\ d # NoDoc
  BY NoDocAssumption
<1>2. d.inputs = es[n].inputs /\ d.previous = ChainBefore(es, n)
  BY <1>1, NoDocAssumption DEF DocumentOK, HalfFinishedIsOurs
<1>3. /\ e \in Entry /\ e.stage = es[n].stage /\ e.state = "finished" /\ e.inputs = es[n].inputs
      /\ e.outputs = d.outputs /\ e.previous = ChainBefore(es, n)
  BY <1>2, FinishedEntryType DEF FinishedEntry
<1>4. FinishedEntry(d) = e
  OBVIOUS
<1> HIDE DEF e
<1>5. /\ fs \in Seq(Entry) /\ Len(fs) = n /\ DOMAIN fs = DOMAIN es /\ fs[n] = e
      /\ \A i \in DOMAIN es : i # n => fs[i] = es[i]
  BY <1>1, <1>3, ReplaceLast
<1>6. \A i \in DOMAIN es : i # n => es[i].state = "finished"
  BY <1>1, EntryFields DEF DocumentOK, WellFormed
<1> HIDE DEF fs, n
<1>7. WellFormed(fs)
  <2>1. \A i \in DOMAIN es : fs[i].stage = es[i].stage
    BY <1>3, <1>5
  <2>2. \A i \in DOMAIN es : ChainBefore(fs, i) = ChainBefore(es, i)
    BY <1>1, <1>5 DEF ChainBefore
  <2> QED BY <1>1, <1>3, <1>5, <1>6, <2>1, <2>2 DEF DocumentOK, WellFormed
<1>8. Receipted(sf, fs)
  BY <1>1, <1>3, <1>4, <1>5, NoDocAssumption DEF DocumentOK, Receipted, n
<1>9. HalfFinishedIsOurs(sf, fs)
  BY <1>3, <1>5, <1>6 DEF HalfFinishedIsOurs
<1>10. FolderExplained(sf, fs)
  BY <1>3, <1>5 DEF DocumentOK, FolderExplained
<1>11. Reads(fs)
  <2> SUFFICES ASSUME NEW j \in DOMAIN es PROVE Certified(SubSeq(fs, 1, j - 1), fs[j].inputs)
    BY <1>5 DEF Reads
  <2>1. \A i \in 1..(j - 1) : es[i] = fs[i]
    BY <1>1, <1>5
  <2>2. fs[j].inputs = es[j].inputs
    BY <1>3, <1>5
  <2>3. Len(fs) >= Len(es)
    BY <1>1, <1>5 DEF n
  <2> QED BY <1>5, <2>1, <2>2, <2>3, CertifiedByFinished DEF DocumentOK, Reads
<1>12. Keeps(es, fs)
  BY <1>3, <1>5 DEF Keeps
<1>13. LogOf(sf, fs) = LogOf(sf, es)
  <2>1. CertifiedStages(sf, fs) = n
    BY <1>1, <1>3, <1>5 DEF CertifiedStages
  <2>2. CertifiedStages(sf, es) = n
    BY <1>1 DEF CertifiedStages, n
  <2>3. ASSUME NEW i \in 1..n
        PROVE  RecordOf(IF fs[i].state = "finished" THEN fs[i] ELSE sf[fs[i].stage])
               = RecordOf(IF es[i].state = "finished" THEN es[i] ELSE sf[es[i].stage])
    <3>1. CASE i = n
      BY <1>1, <1>2, <1>3, <1>5, <3>1 DEF RecordOf, n
    <3>2. CASE i # n
      BY <1>1, <1>5, <3>2
    <3> QED BY <3>1, <3>2
  <2> QED BY <2>1, <2>2, <2>3 DEF LogOf
<1> QED BY <1>7, <1>8, <1>9, <1>10, <1>11, <1>12, <1>13 DEF DocumentOK, fs, e, n
-------------------------------------------------------------------------------
(* The inductive invariant. *)

(* A step that changes one object only, all others being closed, keeps the *)
(* facts about objects when the changed object satisfies them.             *)
LEMMA OneObjectMoves ==
  ASSUME TypeOK, NEW o \in Owners, \A q \in Owners : q # o => obj[q].at = "closed",
         NEW ob, obj' = [obj EXCEPT ![o] = ob],
         ob.at = "creating" => ledger' = NoDoc,
         ob.at \in Busy \cup {"idle"} => ledger' # NoDoc /\ ob.doc = ledger',
         ob.at \in Busy => /\ DocumentOK(stageFile', ob.pending.entries)
                           /\ Keeps(Entries', ob.pending.entries)
                           /\ LogOf(stageFile', ob.pending.entries) = LogOf(stageFile', Entries')
  PROVE  OneOwner' /\ OwnersKnowTheLedger' /\ DueWritesAreSafe'
<1>1. obj'[o] = ob /\ \A q \in Owners : q # o => obj'[q] = obj[q]
  BY DEF TypeOK
<1>2. "closed" # "creating" /\ "closed" \notin Busy \cup {"idle"}
  BY DEF Busy
<1>3. OneOwner'
  BY <1>1 DEF OneOwner
<1>4. OwnersKnowTheLedger'
  BY <1>1, <1>2 DEF OwnersKnowTheLedger
<1>5. DueWritesAreSafe'
  BY <1>1, <1>2 DEF DueWritesAreSafe
<1> QED BY <1>3, <1>4, <1>5

(* When an object is not closed, it is the only one. *)
LEMMA OthersAreClosed ==
  ASSUME OneOwner, NEW o \in Owners, obj[o].at # "closed"
  PROVE  \A q \in Owners : q # o => obj[q].at = "closed"
BY DEF OneOwner

(* An open object's document is the ledger on disk, whose entries are a    *)
(* good document.                                                          *)
LEMMA OpenObject ==
  ASSUME IInv, NEW o \in Owners, obj[o].at \in Busy \cup {"idle"}
  PROVE  /\ ledger # NoDoc /\ ledger \in LedgerDoc /\ obj[o].doc = ledger
         /\ Entries = ledger.entries /\ Entries \in Seq(Entry)
         /\ obj[o].at # "closed"
BY DEF IInv, TypeOK, OwnersKnowTheLedger, Entries, LedgerDoc, Busy

(* The empty folder satisfies the invariant. *)
LEMMA InitInvariant == Init => IInv
<1> SUFFICES ASSUME Init PROVE IInv
  OBVIOUS
<1>1. TypeOK
  <2>1. Closed \in Object
    BY DEF Closed, Object, NewLedger, LedgerDoc
  <2> QED BY <2>1 DEF Init, TypeOK
<1>2. Entries = <<>>
  BY DEF Init, Entries
<1>3. DocumentOK(stageFile, Entries)
  BY <1>2 DEF Init, DocumentOK, WellFormed, Receipted, HalfFinishedIsOurs, FolderExplained, Reads
<1>4. StageFilesOK
  BY DEF Init, StageFilesOK
<1>5. \A o \in Owners : obj[o].at = "closed"
  BY DEF Init, Closed
<1>6. OneOwner /\ OwnersKnowTheLedger /\ DueWritesAreSafe
  BY <1>5 DEF OneOwner, OwnersKnowTheLedger, DueWritesAreSafe, Busy
<1> QED BY <1>1, <1>3, <1>4, <1>6 DEF IInv

(* Steps that leave the disk alone: what they must show of the object.     *)
LEMMA DiskUnchanged ==
  ASSUME IInv, UNCHANGED disk
  PROVE  DocumentOK(stageFile', Entries') /\ StageFilesOK' /\ Entries' = Entries
BY DEF IInv, disk, Entries, StageFilesOK

(* The two writes of create keep it: nothing is recorded yet. *)
LEMMA CreateInvariant ==
  ASSUME IInv, TypeOK', NEW o \in Owners,
         (Alone /\ (CreateHeader(o) \/ Open(o))) \/ CreateLedger(o)
  PROVE  IInv'
<1>1. CASE Alone /\ CreateHeader(o)
  <2>1. stageFile' = stageFile /\ ledger' = ledger /\ ledger = NoDoc /\ Entries' = Entries
    BY <1>1 DEF CreateHeader, Entries
  <2>2. DocumentOK(stageFile', Entries') /\ StageFilesOK'
    BY <2>1 DEF IInv, StageFilesOK
  <2> DEFINE ob == [obj[o] EXCEPT !.at = "creating"]
  <2>3. obj' = [obj EXCEPT ![o] = ob] /\ ob.at = "creating"
    BY <1>1 DEF CreateHeader, IInv, TypeOK, Object
  <2> HIDE DEF ob
  <2>4. OneOwner' /\ OwnersKnowTheLedger' /\ DueWritesAreSafe'
    BY <1>1, <2>1, <2>3, OneObjectMoves DEF Alone, Busy, IInv
  <2> QED BY <2>2, <2>4 DEF IInv
<1>2. CASE Alone /\ Open(o)
  <2>1. DocumentOK(stageFile', Entries') /\ StageFilesOK' /\ ledger' = ledger /\ ledger # NoDoc
    BY <1>2, DiskUnchanged DEF Open, disk
  <2> DEFINE ob == [at |-> "idle", doc |-> ledger, resumed |-> FALSE, pending |-> NewLedger]
  <2>2. obj' = [obj EXCEPT ![o] = ob] /\ ob.at = "idle" /\ ob.doc = ledger
    BY <1>2 DEF Open
  <2> HIDE DEF ob
  <2>3. OneOwner' /\ OwnersKnowTheLedger' /\ DueWritesAreSafe'
    BY <1>2, <2>1, <2>2, OneObjectMoves DEF Alone, Busy, IInv
  <2> QED BY <2>1, <2>3 DEF IInv
<1>3. CASE CreateLedger(o)
  <2>1. obj[o].at = "creating" /\ ledger = NoDoc /\ Entries = <<>>
    BY <1>3 DEF CreateLedger, IInv, OwnersKnowTheLedger, Entries
  <2>2. NewLedger \in LedgerDoc /\ NewLedger # NoDoc
    <3>1. NewLedger \in LedgerDoc
      BY DEF NewLedger, LedgerDoc
    <3> QED BY <3>1, NoDocAssumption
  <2>3. ledger' = NewLedger /\ stageFile' = stageFile /\ Entries' = <<>>
    BY <1>3, <2>2 DEF CreateLedger, Entries, NewLedger
  <2>4. DocumentOK(stageFile', Entries')
    BY <2>1, <2>3 DEF IInv
  <2>5. StageFilesOK'
    BY <2>2, <2>3 DEF IInv, StageFilesOK
  <2> DEFINE ob == [at |-> "idle", doc |-> NewLedger, resumed |-> TRUE, pending |-> NewLedger]
  <2>6. obj' = [obj EXCEPT ![o] = ob] /\ ob.at = "idle" /\ ob.doc = NewLedger
    BY <1>3 DEF CreateLedger
  <2> HIDE DEF ob
  <2>7. \A q \in Owners : q # o => obj[q].at = "closed"
    BY <2>1, OthersAreClosed DEF IInv
  <2>8. OneOwner' /\ OwnersKnowTheLedger' /\ DueWritesAreSafe'
    BY <2>2, <2>3, <2>6, <2>7, OneObjectMoves DEF Busy, IInv
  <2> QED BY <2>4, <2>5, <2>8 DEF IInv
<1> QED BY <1>1, <1>2, <1>3
(* begin of a new stage. *)
LEMMA BeginInvariant ==
  ASSUME IInv, TypeOK', NEW o \in Owners, NEW s \in Stages, NEW X \in InputSets, Begin(o, s, X)
  PROVE  IInv'
<1> DEFINE es == Entries
           fs == Append(es, BegunEntry(s, Digest(X)))
           ob == [obj[o] EXCEPT !.at = "begin", !.pending = [ledger EXCEPT !.entries = fs]]
<1>1. /\ obj[o].at = "idle" /\ ledger # NoDoc /\ ledger \in LedgerDoc /\ obj[o].doc = ledger
      /\ es = ledger.entries /\ es \in Seq(Entry)
      /\ \A q \in Owners : q # o => obj[q].at = "closed"
  BY OpenObject, OthersAreClosed DEF Begin, BeginChecks, Ready, IInv
<1>2. /\ \A i \in DOMAIN es : es[i].stage = s => es[i].state # "finished"
      /\ \A i \in DOMAIN es : es[i].state = "begun" => es[i].stage = s
      /\ stageFile[s] = NoDoc /\ Present(X) /\ Certified(es, Digest(X)) /\ ~HasBegun(es, s)
  BY <1>1 DEF Begin, BeginChecks
<1>3. Digest(X) \in Digests
  BY <1>2, DigestType, PathAssumption DEF IInv
<1>4. DocumentOK(stageFile, es) /\ stageFile \in StageFiles
  BY DEF IInv, TypeOK, StageFiles
<1>5. \A i \in DOMAIN es : es[i].state = "finished" /\ es[i].stage # s
  <2> SUFFICES ASSUME NEW i \in DOMAIN es, es[i].state = "begun" PROVE FALSE
    BY <1>1, <1>2, EntryFields
  <2>1. i = Len(es) /\ es # <<>> /\ es[i].stage = s
    BY <1>1, <1>2, <1>4 DEF DocumentOK, WellFormed
  <2> QED BY <1>2, <2>1 DEF HasBegun
<1>6. DocumentOK(stageFile, fs) /\ Keeps(es, fs) /\ LogOf(stageFile, fs) = LogOf(stageFile, es)
  BY <1>1, <1>2, <1>3, <1>4, <1>5, BeginKeeps
<1>7. UNCHANGED disk /\ obj' = [obj EXCEPT ![o] = ob]
  BY <1>1 DEF Begin, Due, IInv, TypeOK, Object
<1>8. ob.at = "begin" /\ ob.doc = ledger /\ ob.pending.entries = fs
  BY <1>1 DEF IInv, TypeOK, Object, LedgerDoc
<1> HIDE DEF ob, fs
<1>9. OneOwner' /\ OwnersKnowTheLedger' /\ DueWritesAreSafe'
  <2>1. ledger' = ledger /\ stageFile' = stageFile /\ Entries' = es
    BY <1>7, DiskUnchanged DEF disk
  <2> QED BY <1>1, <1>6, <1>7, <1>8, <2>1, OneObjectMoves DEF IInv
<1> QED BY <1>7, <1>9, DiskUnchanged DEF IInv

(* finish: the first of its two writes. *)
LEMMA FinishInvariant ==
  ASSUME IInv, TypeOK', NEW o \in Owners, NEW s \in Stages, NEW Y \in OutputSets, Finish(o, s, Y)
  PROVE  /\ IInv'
         /\ \E d \in StageDoc :
              /\ Entries # <<>> /\ Entries' = Entries
              /\ d.stage = Entries[Len(Entries)].stage
              /\ d.inputs = Entries[Len(Entries)].inputs
              /\ Entries[Len(Entries)].state = "begun"
              /\ stageFile[d.stage] = NoDoc
              /\ stageFile' = [stageFile EXCEPT ![d.stage] = d]
              /\ LogOf(stageFile', Entries) = Append(LogOf(stageFile, Entries), RecordOf(d))
<1> DEFINE es == Entries
           d  == [stage |-> s, previous |-> ChainBefore(es, Len(es)),
                  inputs |-> es[Len(es)].inputs, outputs |-> Digest(Y)]
           tf == [stageFile EXCEPT ![s] = d]
           fs == [es EXCEPT ![Len(es)] = FinishedEntry(d)]
           ob == [obj[o] EXCEPT !.at = "finish", !.pending = [ledger EXCEPT !.entries = fs]]
<1>1. /\ obj[o].at = "idle" /\ ledger # NoDoc /\ ledger \in LedgerDoc /\ obj[o].doc = ledger
      /\ es = ledger.entries /\ es \in Seq(Entry)
      /\ \A q \in Owners : q # o => obj[q].at = "closed"
  BY OpenObject, OthersAreClosed DEF Finish, Ready, IInv
<1>2. /\ es # <<>> /\ es[Len(es)].state = "begun" /\ es[Len(es)].stage = s
      /\ stageFile[s] = NoDoc /\ Present(Y)
  BY <1>1 DEF Finish, HasBegun
<1>3. DocumentOK(stageFile, es) /\ stageFile \in StageFiles
  BY DEF IInv, TypeOK, StageFiles
<1>4. Digest(Y) \in Digests
  BY <1>2, DigestType, PathAssumption DEF IInv
<1>5. Len(es) \in DOMAIN es
  BY <1>1, <1>2
<1>6. es[Len(es)].inputs \in Digests /\ ChainBefore(es, Len(es)) \in Hash
  BY <1>1, <1>5, EntryFields, ChainType
<1>7. /\ d \in StageDoc /\ d.stage = s /\ d.inputs = es[Len(es)].inputs
      /\ d.previous = ChainBefore(es, Len(es))
  BY <1>4, <1>6 DEF StageDoc
<1>8. /\ stageFile' = tf /\ UNCHANGED <<header, ledger, file>>
      /\ obj' = [obj EXCEPT ![o] = ob]
  BY <1>1 DEF Finish, Due, IInv, TypeOK, Object
<1>9. ob.at = "finish" /\ ob.doc = ledger /\ ob.pending.entries = fs
  BY <1>1 DEF IInv, TypeOK, Object, LedgerDoc
<1>10. tf[s] = d /\ tf \in StageFiles /\ \A q \in Stages : q # s => tf[q] = stageFile[q]
  BY <1>3, <1>7 DEF StageFiles
<1> HIDE DEF d
<1>11. DocumentOK(tf, es) /\ LogOf(tf, es) = Append(LogOf(stageFile, es), RecordOf(d))
  BY <1>1, <1>2, <1>3, <1>7, StageFileCertifies
<1> HIDE DEF tf
<1>12. DocumentOK(tf, fs) /\ Keeps(es, fs) /\ LogOf(tf, fs) = LogOf(tf, es)
  <2>1. tf[es[Len(es)].stage] = d /\ d.stage = es[Len(es)].stage /\ d \in StageDoc
    BY <1>2, <1>7, <1>10
  <2>2. tf \in StageFiles /\ es \in Seq(Entry) /\ es # <<>> /\ es[Len(es)].state = "begun"
        /\ DocumentOK(tf, es)
    BY <1>1, <1>2, <1>10, <1>11
  <2> HIDE DEF es
  <2> QED BY <2>1, <2>2, CompletionKeeps
<1> HIDE DEF fs, ob
<1>13. Entries' = es
  BY <1>8 DEF Entries
<1>14. StageFilesOK'
  BY <1>1, <1>7, <1>8, <1>10 DEF IInv, StageFilesOK
<1>15. OneOwner' /\ OwnersKnowTheLedger' /\ DueWritesAreSafe'
  BY <1>1, <1>8, <1>9, <1>12, <1>13, OneObjectMoves DEF IInv
<1>16. IInv'
  BY <1>8, <1>11, <1>13, <1>14, <1>15 DEF IInv
<1> QED BY <1>2, <1>7, <1>8, <1>11, <1>13, <1>16 DEF tf

(* resume: the begun stage's stage file is there, or nothing is to be done. *)
LEMMA ResumeInvariant ==
  ASSUME IInv, TypeOK', NEW o \in Owners, Resume(o)
  PROVE  IInv'
<1> DEFINE es == Entries
           d  == stageFile[es[Len(es)].stage]
           fs == [es EXCEPT ![Len(es)] = FinishedEntry(d)]
<1>1. /\ obj[o].at = "idle" /\ ledger # NoDoc /\ ledger \in LedgerDoc /\ obj[o].doc = ledger
      /\ es = ledger.entries /\ es \in Seq(Entry)
      /\ \A q \in Owners : q # o => obj[q].at = "closed"
  BY OpenObject, OthersAreClosed DEF Resume, IInv
<1>2. DocumentOK(stageFile, es) /\ stageFile \in StageFiles /\ obj[o] \in Object
  BY DEF IInv, TypeOK, StageFiles
<1>3. ledger' = ledger /\ stageFile' = stageFile /\ Entries' = es /\ StageFilesOK'
  BY DiskUnchanged DEF Resume, disk
<1>4. CASE HalfFinished(es)
  <2> DEFINE ob == [obj[o] EXCEPT !.at = "resume", !.pending = [ledger EXCEPT !.entries = fs]]
  <2>1. es # <<>> /\ es[Len(es)].state = "begun" /\ d # NoDoc /\ es[Len(es)].stage \in Stages
    BY <1>4 DEF HalfFinished, HasBegun
  <2>2. d \in StageDoc /\ d.stage = es[Len(es)].stage
    BY <1>2, <2>1 DEF IInv, StageFilesOK, StageFiles
  <2>3. DocumentOK(stageFile, fs) /\ Keeps(es, fs) /\ LogOf(stageFile, fs) = LogOf(stageFile, es)
    BY <1>1, <1>2, <2>1, <2>2, CompletionKeeps
  <2>4. obj' = [obj EXCEPT ![o] = ob]
    BY <1>1, <1>2, <1>4 DEF Resume, Due, FinishLast, IInv, TypeOK, Object
  <2>5. ob.at = "resume" /\ ob.doc = ledger /\ ob.pending.entries = fs
    BY <1>1, <1>2 DEF Object, LedgerDoc
  <2> HIDE DEF ob, fs, d
  <2> QED BY <1>1, <1>2, <1>3, <2>3, <2>4, <2>5, OneObjectMoves DEF IInv
<1>5. CASE ~HalfFinished(es)
  <2> DEFINE ob == [obj[o] EXCEPT !.resumed = TRUE]
  <2>1. obj' = [obj EXCEPT ![o] = ob]
    BY <1>1, <1>5 DEF Resume
  <2>2. ob.at = "idle" /\ ob.doc = ledger
    BY <1>1, <1>2 DEF Object
  <2> HIDE DEF ob
  <2> QED BY <1>1, <1>2, <1>3, <2>1, <2>2, OneObjectMoves DEF IInv, Busy
<1> QED BY <1>4, <1>5
(* note: the entries stay. *)
LEMMA NoteInvariant ==
  ASSUME IInv, TypeOK', NEW o \in Owners, NEW n \in Notes, Note(o, n)
  PROVE  IInv'
<1> DEFINE ob == [obj[o] EXCEPT !.at = "note", !.pending = [ledger EXCEPT !.notes = @ \cup {n}]]
<1>1. /\ obj[o].at = "idle" /\ ledger # NoDoc /\ ledger \in LedgerDoc /\ obj[o].doc = ledger
      /\ Entries = ledger.entries /\ obj[o] \in Object
      /\ \A q \in Owners : q # o => obj[q].at = "closed"
  BY OpenObject, OthersAreClosed DEF Note, Ready, IInv, TypeOK
<1>2. ledger' = ledger /\ stageFile' = stageFile /\ Entries' = Entries /\ StageFilesOK'
  BY DiskUnchanged DEF Note, disk
<1>3. obj' = [obj EXCEPT ![o] = ob]
  BY <1>1 DEF Note, Due, IInv, TypeOK, Object
<1>4. ob.at = "note" /\ ob.doc = ledger /\ ob.pending.entries = Entries
  BY <1>1 DEF Object, LedgerDoc
<1>5. Keeps(Entries, Entries)
  BY DEF Keeps
<1> HIDE DEF ob
<1> QED BY <1>1, <1>2, <1>3, <1>4, <1>5, OneObjectMoves DEF IInv

(* The write of LEDGER.json: the due document becomes the ledger. *)
LEMMA CommitInvariant ==
  ASSUME IInv, TypeOK', NEW o \in Owners, Commit(o)
  PROVE  IInv' /\ Keeps(Entries, Entries') /\ LogOf(stageFile', Entries') = LogOf(stageFile, Entries)
<1> DEFINE new == obj[o].pending
           ob  == [at |-> "idle", doc |-> new, resumed |-> obj[o].resumed \/ obj[o].at = "resume",
                   pending |-> NewLedger]
<1>1. /\ obj[o].at \in Busy /\ ledger # NoDoc
      /\ \A q \in Owners : q # o => obj[q].at = "closed"
  BY OpenObject, OthersAreClosed DEF Commit, IInv
<1>2. new \in LedgerDoc /\ new # NoDoc
  BY NoDocAssumption DEF IInv, TypeOK, Object
<1>3. /\ DocumentOK(stageFile, new.entries) /\ Keeps(Entries, new.entries)
      /\ LogOf(stageFile, new.entries) = LogOf(stageFile, Entries)
  BY <1>1 DEF IInv, DueWritesAreSafe
<1>4. ledger' = new /\ stageFile' = stageFile /\ obj' = [obj EXCEPT ![o] = ob]
  BY DEF Commit
<1>5. Entries' = new.entries
  BY <1>2, <1>4 DEF Entries
<1>6. ob.at = "idle" /\ ob.doc = new
  OBVIOUS
<1> HIDE DEF ob, new
<1>7. StageFilesOK'
  BY <1>2, <1>4 DEF IInv, StageFilesOK
<1>8. OneOwner' /\ OwnersKnowTheLedger' /\ DueWritesAreSafe'
  BY <1>1, <1>2, <1>4, <1>6, OneObjectMoves DEF IInv, Busy
<1> QED BY <1>3, <1>4, <1>5, <1>7, <1>8 DEF IInv

(* A failed write, the end of a process, a changed file. *)
LEMMA FaultInvariant ==
  ASSUME IInv, TypeOK',
         \/ \E o \in Owners : CommitFails(o) \/ Stop(o)
         \/ \E p \in Files : \E c \in Contents \cup {Missing} : ChangeFile(p, c)
  PROVE  IInv'
<1>1. ASSUME NEW o \in Owners, CommitFails(o) PROVE IInv'
  <2> DEFINE ob == [obj[o] EXCEPT !.at = "idle", !.pending = NewLedger]
  <2>1. /\ ledger # NoDoc /\ obj[o].doc = ledger /\ obj[o] \in Object
        /\ \A q \in Owners : q # o => obj[q].at = "closed"
    BY <1>1, OpenObject, OthersAreClosed DEF CommitFails, IInv, TypeOK
  <2>2. /\ ledger' = ledger /\ stageFile' = stageFile /\ StageFilesOK'
        /\ DocumentOK(stageFile', Entries')
    BY <1>1, DiskUnchanged DEF CommitFails, disk
  <2>3. obj' = [obj EXCEPT ![o] = ob]
    BY <1>1, <2>1 DEF CommitFails, IInv, TypeOK, Object
  <2>4. ob.at = "idle" /\ ob.doc = ledger
    BY <2>1 DEF Object
  <2> HIDE DEF ob
  <2> QED BY <2>1, <2>2, <2>3, <2>4, OneObjectMoves DEF IInv, Busy
<1>2. ASSUME NEW o \in Owners, Stop(o) PROVE IInv'
  <2>1. \A q \in Owners : q # o => obj[q].at = "closed"
    BY <1>2, OthersAreClosed DEF Stop, IInv
  <2>2. StageFilesOK' /\ DocumentOK(stageFile', Entries')
    BY <1>2, DiskUnchanged DEF Stop, disk
  <2>3. obj' = [obj EXCEPT ![o] = Closed] /\ Closed.at = "closed"
    BY <1>2 DEF Stop, Closed
  <2> HIDE DEF Closed
  <2> QED BY <2>1, <2>2, <2>3, OneObjectMoves DEF IInv, Busy
<1>3. ASSUME NEW p \in Files, NEW c \in Contents \cup {Missing}, ChangeFile(p, c) PROVE IInv'
  <2>1. UNCHANGED disk /\ obj' = obj
    BY <1>3 DEF ChangeFile
  <2>2. StageFilesOK' /\ DocumentOK(stageFile', Entries') /\ Entries' = Entries
    BY <2>1, DiskUnchanged
  <2>3. ledger' = ledger /\ stageFile' = stageFile
    BY <2>1 DEF disk
  <2>4. OneOwner' /\ OwnersKnowTheLedger' /\ DueWritesAreSafe'
    BY <2>1, <2>2, <2>3 DEF IInv, OneOwner, OwnersKnowTheLedger, DueWritesAreSafe
  <2> QED BY <2>2, <2>4 DEF IInv
<1> QED BY <1>1, <1>2, <1>3

(* Every step keeps it: one case per operation. *)
LEMMA NextInvariant ==
  ASSUME IInv, TypeOK', [Next]_vars
  PROVE  IInv'
<1>1. CASE UNCHANGED vars
  <2>1. UNCHANGED disk /\ obj' = obj /\ ledger' = ledger /\ stageFile' = stageFile
    BY <1>1 DEF vars, disk
  <2>2. StageFilesOK' /\ DocumentOK(stageFile', Entries') /\ Entries' = Entries
    BY <2>1, DiskUnchanged
  <2>3. OneOwner' /\ OwnersKnowTheLedger' /\ DueWritesAreSafe'
    BY <2>1, <2>2 DEF IInv, OneOwner, OwnersKnowTheLedger, DueWritesAreSafe
  <2> QED BY <2>2, <2>3 DEF IInv
<1>2. CASE Next
  BY <1>2, CreateInvariant, BeginInvariant, FinishInvariant, ResumeInvariant, NoteInvariant,
     CommitInvariant, FaultInvariant DEF Next, Operation
<1> QED BY <1>1, <1>2

(* IInv is inductive, so every reachable state satisfies it. *)
THEOREM InductiveInvariant == Spec => []IInv
<1>1. IInv /\ TypeOK' /\ [Next]_vars => IInv'
  BY NextInvariant
<1> QED BY <1>1, InitInvariant, TypeCorrect, PTL DEF Spec
-------------------------------------------------------------------------------
(* The safety properties. *)

(* The ledger never says finished of a stage without its stage file.       *)
THEOREM FinishedStagesAreReceipted == Spec => []FinishedHasItsStageFile
<1>1. IInv => FinishedHasItsStageFile
  BY DEF IInv, DocumentOK, FinishedHasItsStageFile
<1> QED BY <1>1, InductiveInvariant, PTL

(* In the ledger every stage read what the stages before it recorded.      *)
THEOREM StagesReadWhatWasRecorded == Spec => []ReadsWhatWasRecorded
<1>1. IInv => ReadsWhatWasRecorded
  BY DEF IInv, DocumentOK, ReadsWhatWasRecorded
<1> QED BY <1>1, InductiveInvariant, PTL

(* Wherever a process stopped, the run can be resumed as long as the       *)
(* recorded files are as recorded.                                         *)
THEOREM Recoverability == Spec => []EveryStopIsRecoverable
<1>1. IInv => EveryStopIsRecoverable
  <2> SUFFICES ASSUME IInv, ledger # NoDoc, FilesAsRecorded
               PROVE  WellFormed(Entries) /\ ResumeAccepts(Entries)
    BY DEF EveryStopIsRecoverable
  <2>1. DocumentOK(stageFile, Entries) /\ Entries \in Seq(Entry)
    BY DEF IInv, TypeOK, Entries, LedgerDoc
  <2>2. \A i \in DOMAIN Entries : Entries[i].stage \in Stages
    BY <2>1, EntryFields
  <2>3. ASSUME NEW i \in DOMAIN Entries, stageFile[Entries[i].stage] # NoDoc
        PROVE  Verified(Entries, i)
    <3> DEFINE d == stageFile[Entries[i].stage]
    <3>1. d.stage = Entries[i].stage /\ Match(d.inputs) /\ Match(d.outputs)
      BY <2>2, <2>3 DEF IInv, StageFilesOK, FilesAsRecorded
    <3>2. CASE Entries[i].state = "finished"
      <4>1. Entries[i] = FinishedEntry(d)
        BY <2>1, <3>2 DEF DocumentOK, Receipted
      <4>2. /\ Entries[i].inputs = d.inputs /\ Entries[i].outputs = d.outputs
            /\ Entries[i].previous = d.previous /\ Entries[i].sha = Sha(d)
        BY <4>1 DEF FinishedEntry
      <4>3. d.previous = ChainBefore(Entries, i)
        BY <2>1, <3>2, <4>2 DEF DocumentOK, WellFormed
      <4> QED BY <2>3, <3>1, <4>2, <4>3 DEF Verified
    <3>3. CASE Entries[i].state = "begun"
      BY <2>1, <2>3, <3>1, <3>3 DEF DocumentOK, HalfFinishedIsOurs, Verified
    <3> QED BY <2>1, <3>2, <3>3, EntryFields
  <2>4. \A i \in DOMAIN Entries : Entries[i].state = "finished" => Verified(Entries, i)
    BY <2>1, <2>3 DEF DocumentOK, Receipted
  <2>5. HalfFinished(Entries) => Verified(Entries, Len(Entries))
    <3> SUFFICES ASSUME HalfFinished(Entries) PROVE Verified(Entries, Len(Entries))
      OBVIOUS
    <3>1. Entries # <<>> /\ stageFile[Entries[Len(Entries)].stage] # NoDoc
      BY DEF HalfFinished, HasBegun
    <3>2. Len(Entries) \in DOMAIN Entries
      BY <2>1, <3>1
    <3> QED BY <2>3, <3>1, <3>2
  <2> QED BY <2>1, <2>4, <2>5 DEF DocumentOK, ResumeAccepts
<1> QED BY <1>1, InductiveInvariant, PTL
-------------------------------------------------------------------------------
(* The action properties and the implementation of StageLog. *)

(* What a step can do to the documents on disk: finish adds the stage file *)
(* of the begun stage; a write of the ledger keeps what is recorded and    *)
(* certifies nothing; no other step changes them.                          *)
LEMMA DocumentSteps ==
  ASSUME IInv, TypeOK', [Next]_vars
  PROVE  \/ stageFile' = stageFile /\ Entries' = Entries
         \/ /\ stageFile' = stageFile
            /\ Keeps(Entries, Entries')
            /\ LogOf(stageFile', Entries') = LogOf(stageFile, Entries)
         \/ \E d \in StageDoc :
              /\ Entries # <<>> /\ Entries' = Entries
              /\ d.stage = Entries[Len(Entries)].stage
              /\ d.inputs = Entries[Len(Entries)].inputs
              /\ Entries[Len(Entries)].state = "begun"
              /\ stageFile[d.stage] = NoDoc
              /\ stageFile' = [stageFile EXCEPT ![d.stage] = d]
              /\ LogOf(stageFile', Entries) = Append(LogOf(stageFile, Entries), RecordOf(d))
<1>1. CASE UNCHANGED vars
  BY <1>1, DiskUnchanged DEF vars, disk
<1>2. ASSUME NEW o \in Owners, CreateHeader(o) PROVE stageFile' = stageFile /\ Entries' = Entries
  BY <1>2 DEF CreateHeader, Entries
<1>3. ASSUME NEW o \in Owners, CreateLedger(o) PROVE stageFile' = stageFile /\ Entries' = Entries
  <2>1. ledger = NoDoc /\ NewLedger.entries = <<>>
    BY <1>3 DEF CreateLedger, IInv, OwnersKnowTheLedger, NewLedger
  <2> QED BY <1>3, <2>1 DEF CreateLedger, Entries
<1>4. ASSUME NEW o \in Owners, Open(o) PROVE UNCHANGED disk
  BY <1>4 DEF Open
<1>5. ASSUME NEW o \in Owners, NEW s \in Stages, NEW X \in InputSets, Begin(o, s, X)
      PROVE  UNCHANGED disk
  BY <1>5 DEF Begin
<1>6. ASSUME NEW o \in Owners, NEW n \in Notes, Note(o, n) PROVE UNCHANGED disk
  BY <1>6 DEF Note
<1>7. ASSUME NEW o \in Owners, Resume(o) \/ CommitFails(o) \/ Stop(o) PROVE UNCHANGED disk
  BY <1>7 DEF Resume, CommitFails, Stop
<1>8. ASSUME NEW p \in Files, NEW c \in Contents \cup {Missing}, ChangeFile(p, c)
      PROVE  UNCHANGED disk
  BY <1>8 DEF ChangeFile
<1>9. ASSUME NEW o \in Owners, Commit(o)
      PROVE  /\ stageFile' = stageFile /\ Keeps(Entries, Entries')
             /\ LogOf(stageFile', Entries') = LogOf(stageFile, Entries)
  BY <1>9, CommitInvariant DEF Commit
<1>10. UNCHANGED disk => stageFile' = stageFile /\ Entries' = Entries
  BY DiskUnchanged DEF disk
<1> QED BY <1>1, <1>2, <1>3, <1>4, <1>5, <1>6, <1>7, <1>8, <1>9, <1>10, FinishInvariant
      DEF Next, Operation

(* A run folder never mixes two sets of inputs. *)
THEOREM InputsAreFixedByBegin == Spec => OneSetOfInputs
<1>1. IInv /\ TypeOK' /\ [Next]_vars => [Keeps(Entries, Entries')]_vars
  <2> SUFFICES ASSUME IInv, TypeOK', [Next]_vars PROVE Keeps(Entries, Entries')
    OBVIOUS
  <2>1. Keeps(Entries, Entries)
    BY DEF Keeps
  <2> QED BY <2>1, DocumentSteps
<1> QED BY <1>1, InductiveInvariant, TypeCorrect, PTL DEF Spec, OneSetOfInputs

(* No call replaces or removes a stage file. *)
THEOREM ReceiptsAreImmutable == Spec => ReceiptsAreKept
<1>1. IInv /\ TypeOK' /\ [Next]_vars
        => [\A s \in Stages : stageFile[s] # NoDoc => stageFile'[s] = stageFile[s]]_vars
  <2> SUFFICES ASSUME IInv, TypeOK', [Next]_vars, NEW s \in Stages, stageFile[s] # NoDoc
               PROVE  stageFile'[s] = stageFile[s]
    OBVIOUS
  <2>1. ASSUME NEW d \in StageDoc, stageFile[d.stage] = NoDoc,
               stageFile' = [stageFile EXCEPT ![d.stage] = d]
        PROVE  stageFile'[s] = stageFile[s]
    BY <2>1 DEF IInv, TypeOK
  <2> QED BY <2>1, DocumentSteps
<1> QED BY <1>1, InductiveInvariant, TypeCorrect, PTL DEF Spec, ReceiptsAreKept

(* The record that finish certifies is one StageLog may append. *)
LEMMA CertifyStep ==
  ASSUME IInv, NEW d \in StageDoc, Entries # <<>>,
         d.stage = Entries[Len(Entries)].stage,
         d.inputs = Entries[Len(Entries)].inputs,
         Entries[Len(Entries)].state = "begun", stageFile[d.stage] = NoDoc
  PROVE  LET log == LogOf(stageFile, Entries) IN
         /\ RecordOf(d) \in Log!Record
         /\ \A i \in DOMAIN log : log[i].stage # RecordOf(d).stage
         /\ Log!AgreesWith(log, RecordOf(d).inputs)
<1> DEFINE es  == Entries
           n   == Len(es)
           log == LogOf(stageFile, es)
<1>1. DocumentOK(stageFile, es) /\ es \in Seq(Entry) /\ n \in Nat \ {0} /\ n \in DOMAIN es
      /\ DOMAIN es = 1..n
  BY DEF IInv, TypeOK, Entries, LedgerDoc
<1>2. log = [i \in 1..(n - 1) |->
               RecordOf(IF es[i].state = "finished" THEN es[i] ELSE stageFile[es[i].stage])]
  BY <1>1 DEF LogOf, CertifiedStages
<1>3. \A i \in 1..(n - 1) : es[i].state = "finished" /\ es[i].stage # d.stage
  BY <1>1, EntryFields DEF DocumentOK, WellFormed
<1>4. DOMAIN log = 1..(n - 1) /\ \A i \in 1..(n - 1) : log[i] = RecordOf(es[i])
  BY <1>2, <1>3
<1>5. \A i \in 1..(n - 1) : log[i].stage = es[i].stage /\ log[i].outputs = es[i].outputs
  BY <1>4 DEF RecordOf
<1>6. RecordOf(d) \in Log!Record
  BY DEF RecordOf, StageDoc, Log!Record, Log!Digests, Digests
<1>7. RecordOf(d).stage = d.stage /\ RecordOf(d).inputs = es[n].inputs
  BY DEF RecordOf
<1> DEFINE before == SubSeq(es, 1, n - 1)
<1>8. DOMAIN before = 1..(n - 1) /\ \A i \in 1..(n - 1) : before[i] = es[i]
  BY <1>1
<1>9. Certified(before, es[n].inputs)
  BY <1>1 DEF DocumentOK, Reads
<1> HIDE DEF before, log, es, n
<1>10. \A p : Log!ProducersOf(log, p) = Producers(before, p)
  BY <1>3, <1>4, <1>5, <1>8 DEF Log!ProducersOf, Producers
<1>11. \A p : \A i \in Producers(before, p) : before[i].outputs = log[i].outputs
  BY <1>5, <1>8 DEF Producers
<1>12. Log!AgreesWith(log, es[n].inputs)
  BY <1>9, <1>10, <1>11 DEF Log!AgreesWith, Certified
<1> QED BY <1>3, <1>4, <1>5, <1>6, <1>7, <1>12 DEF log, es, n

(* The ledger implements the certified log: each stage is certified once,  *)
(* in one step of finish, and stays certified through every crash, failed  *)
(* write and resume.                                                       *)
THEOREM LedgerImplementsStageLog == Spec => ImplementsStageLog
<1>1. Init => Log!Init
  <2> SUFFICES ASSUME Init PROVE LogOf(stageFile, Entries) = <<>>
    BY DEF Log!Init
  <2>1. Entries = <<>>
    BY DEF Init, Entries
  <2> QED BY <2>1 DEF LogOf, CertifiedStages
<1>2. IInv /\ TypeOK' /\ [Next]_vars => [Log!Next]_(LogOf(stageFile, Entries))
  <2> SUFFICES ASSUME IInv, TypeOK', [Next]_vars
               PROVE  Log!Next \/ LogOf(stageFile, Entries)' = LogOf(stageFile, Entries)
    OBVIOUS
  <2>1. ASSUME NEW d \in StageDoc, Entries # <<>>, Entries' = Entries,
               d.stage = Entries[Len(Entries)].stage,
               d.inputs = Entries[Len(Entries)].inputs,
               Entries[Len(Entries)].state = "begun",
               stageFile[d.stage] = NoDoc,
               LogOf(stageFile', Entries) = Append(LogOf(stageFile, Entries), RecordOf(d))
        PROVE  Log!Next
    BY <2>1, CertifyStep DEF Log!Next, Log!Certify
  <2> QED BY <2>1, DocumentSteps
<1> QED BY <1>1, <1>2, InductiveInvariant, TypeCorrect, PTL DEF Spec, ImplementsStageLog, Log!Spec
===============================================================================
