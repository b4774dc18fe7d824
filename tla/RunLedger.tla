------------------------------- MODULE RunLedger -------------------------------
(***************************************************************************)
(* The run ledger of c_ept/run/ledger.py: one run folder on disk           *)
(* (HEADER.json, LEDGER.json, stages/<s>.json and the files the stages     *)
(* read and write) and the Ledger objects that processes hold on it.       *)
(*                                                                         *)
(* A SHA-256 is represented by what it is the hash of: the digest of a     *)
(* file is its content, the hash of LEDGER.json is the document, and the   *)
(* hash of a stage file - whose bytes name the hash of the stage file      *)
(* before it - is the sequence of the records of the chain up to it.  The  *)
(* header hash is the empty chain.                                         *)
(*                                                                         *)
(* An operation that writes LEDGER.json is two steps, the checks (with     *)
(* every hash that is taken) and the write, so that a crash, a failed      *)
(* write or a changed file can fall between them.                          *)
(***************************************************************************)
EXTENDS Naturals, Sequences

CONSTANTS Owners,      \* the processes that may hold a Ledger object
          Stages,      \* the stage names
          Files,       \* the paths a stage may declare
          Contents,    \* what a file may hold
          Missing,     \* a path with no regular file
          NoDoc,       \* a document that is not on disk
          Notes,       \* the notes that callers write
          InputSets,   \* the lists of inputs that callers give to begin
          OutputSets   \* the lists of outputs that callers give to finish

ASSUME MissingAssumption == Missing \notin Contents
ASSUME PathAssumption == InputSets \subseteq SUBSET Files /\ OutputSets \subseteq SUBSET Files

VARIABLES header,      \* HEADER.json is in the folder
          ledger,      \* LEDGER.json, or NoDoc
          stageFile,   \* stages/<s>.json of every stage, or NoDoc
          file,        \* the content of every path
          obj          \* the Ledger object of every owner

disk == <<header, ledger, stageFile>>
vars == <<header, ledger, stageFile, file, obj>>
-------------------------------------------------------------------------------
(* The documents. *)

Digests == UNION {[X -> Contents] : X \in SUBSET Files}
NoFiles == [p \in {} |-> Missing]

Record == [stage : Stages, inputs : Digests, outputs : Digests]
Hash == Seq(Record)
HeaderHash == <<>>

StageDoc == [stage : Stages, previous : Hash, inputs : Digests, outputs : Digests]
RecordOf(d) == [stage |-> d.stage, inputs |-> d.inputs, outputs |-> d.outputs]
Sha(d) == Append(d.previous, RecordOf(d))

(* An entry of the ledger.  A begun entry has no outputs, sha or previous  *)
(* member: they hold their empty values here.                              *)
Entry == [stage : Stages, state : {"begun", "finished"}, inputs : Digests,
          outputs : Digests, sha : Hash, previous : Hash]
BegunEntry(s, inputs) ==
  [stage |-> s, state |-> "begun", inputs |-> inputs, outputs |-> NoFiles,
   sha |-> HeaderHash, previous |-> HeaderHash]
FinishedEntry(d) ==
  [stage |-> d.stage, state |-> "finished", inputs |-> d.inputs, outputs |-> d.outputs,
   sha |-> Sha(d), previous |-> d.previous]

LedgerDoc == [entries : Seq(Entry), notes : SUBSET Notes]
NewLedger == [entries |-> <<>>, notes |-> {}]

ASSUME NoDocAssumption == NoDoc \notin LedgerDoc /\ NoDoc \notin StageDoc

(* The object: what it last read or wrote, whether resume has succeeded in *)
(* it, the operation that is between its checks and its write of           *)
(* LEDGER.json, and the document that this write will put there.           *)
Busy == {"begin", "finish", "note", "resume"}
Object == [at : {"closed", "creating", "idle"} \cup Busy, doc : LedgerDoc,
           resumed : BOOLEAN, pending : LedgerDoc]
Closed == [at |-> "closed", doc |-> NewLedger, resumed |-> FALSE, pending |-> NewLedger]
-------------------------------------------------------------------------------
(* What the checks read. *)

ChainBefore(es, i) == IF i = 1 THEN HeaderHash ELSE es[i - 1].sha

Producers(es, p) ==
  {i \in DOMAIN es : es[i].state = "finished" /\ p \in DOMAIN es[i].outputs}

(* The inputs that an earlier finished stage recorded as an output still   *)
(* have the digest that was recorded last.                                 *)
Certified(es, digests) ==
  \A p \in DOMAIN digests : \A i \in Producers(es, p) :
     (\A j \in Producers(es, p) : j <= i) => es[i].outputs[p] = digests[p]

Present(X) == \A p \in X : file[p] # Missing
Digest(X) == [p \in X |-> file[p]]
Match(digests) == \A p \in DOMAIN digests : file[p] = digests[p]

(* What opening a ledger document requires of it. *)
WellFormed(es) ==
  /\ \A i, j \in DOMAIN es : es[i].stage = es[j].stage => i = j
  /\ \A i \in DOMAIN es : es[i].state = "begun" => i = Len(es)
  /\ \A i \in DOMAIN es : es[i].state = "finished" => es[i].previous = ChainBefore(es, i)

(* _unchanged: the owner check that starts every operation. *)
Unchanged(o) == header /\ ledger = obj[o].doc

Ready(o) == obj[o].at = "idle" /\ Unchanged(o) /\ obj[o].resumed

HasBegun(es, s) == es # <<>> /\ es[Len(es)].state = "begun" /\ es[Len(es)].stage = s

(* _verify_stage of the i-th entry. *)
Verified(es, i) ==
  LET d == stageFile[es[i].stage] IN
  /\ d # NoDoc
  /\ d.stage = es[i].stage
  /\ d.previous = ChainBefore(es, i)
  /\ d.inputs = es[i].inputs
  /\ es[i].state = "finished" => d.outputs = es[i].outputs /\ Sha(d) = es[i].sha
  /\ Match(d.inputs) /\ Match(d.outputs)

(* The begun stage whose stage file is already there: the stop between the *)
(* two writes of finish.                                                   *)
HalfFinished(es) == \E s \in Stages : HasBegun(es, s) /\ stageFile[s] # NoDoc

FolderExplained(sf, es) ==
  \A s \in Stages : sf[s] # NoDoc => \E i \in DOMAIN es : es[i].stage = s

(* Bug (the S4a stage ledger): a begun stage with a stage file is refused. *)
ResumeRefusesHalfFinished(es) ==
  /\ FolderExplained(stageFile, es)
  /\ \A i \in DOMAIN es : es[i].state = "finished" => Verified(es, i)
  /\ ~HalfFinished(es)

(* Bug: what the ledger calls finished is believed without its stage file. *)
ResumeTrustsTheLedger(es) ==
  /\ FolderExplained(stageFile, es)
  /\ HalfFinished(es) => Verified(es, Len(es))

(* Everything that resume checks before it writes or returns. *)
ResumeAccepts(es) ==
  /\ FolderExplained(stageFile, es)
  /\ \A i \in DOMAIN es : es[i].state = "finished" => Verified(es, i)
  /\ HalfFinished(es) => Verified(es, Len(es))

(* Bug: the completion takes the (empty) outputs of the begun entry. *)
FinishLastFromTheEntry(es) ==
  LET e == es[Len(es)]
      d == [stageFile[e.stage] EXCEPT !.outputs = e.outputs]
  IN  [es EXCEPT ![Len(es)] = FinishedEntry(d)]

FinishLast(es) ==
  [es EXCEPT ![Len(es)] = FinishedEntry(stageFile[es[Len(es)].stage])]
-------------------------------------------------------------------------------
Init ==
  /\ header = FALSE
  /\ ledger = NoDoc
  /\ stageFile = [s \in Stages |-> NoDoc]
  /\ file \in [Files -> Contents \cup {Missing}]
  /\ obj = [o \in Owners |-> Closed]

(* The object o has done its checks; its write of LEDGER.json is due. *)
Due(o, op, d) == obj' = [obj EXCEPT ![o].at = op, ![o].pending = d]

(* create: the header is written first, then the empty ledger.  A stop     *)
(* between the two leaves a folder that create and open both refuse.       *)
CreateHeader(o) ==
  /\ obj[o].at = "closed"
  /\ ~header /\ ledger = NoDoc
  /\ header' = TRUE
  /\ obj' = [obj EXCEPT ![o].at = "creating"]
  /\ UNCHANGED <<ledger, stageFile, file>>

CreateLedger(o) ==
  /\ obj[o].at = "creating"
  /\ ledger' = NewLedger
  /\ obj' = [obj EXCEPT ![o] = [at |-> "idle", doc |-> NewLedger, resumed |-> TRUE,
                                pending |-> NewLedger]]
  /\ UNCHANGED <<header, stageFile, file>>

(* Ledger(run_dir): read and validate; nothing is written. *)
Open(o) ==
  /\ obj[o].at = "closed"
  /\ header /\ ledger # NoDoc
  /\ WellFormed(ledger.entries)
  /\ obj' = [obj EXCEPT ![o] = [at |-> "idle", doc |-> ledger, resumed |-> FALSE,
                                pending |-> NewLedger]]
  /\ UNCHANGED <<disk, file>>

(* Bug: an input is not compared with the output recorded for it. *)
BeginTakesAnyInput(o, s, X) ==
  LET es == obj[o].doc.entries IN
  /\ Ready(o)
  /\ \A i \in DOMAIN es : es[i].stage = s => es[i].state # "finished"
  /\ \A i \in DOMAIN es : es[i].state = "begun" => es[i].stage = s
  /\ stageFile[s] = NoDoc
  /\ Present(X)

(* What begin requires, whether it then writes or finds the stage begun.   *)
BeginChecks(o, s, X) ==
  LET es == obj[o].doc.entries IN
  /\ Ready(o)
  /\ \A i \in DOMAIN es : es[i].stage = s => es[i].state # "finished"
  /\ \A i \in DOMAIN es : es[i].state = "begun" => es[i].stage = s
  /\ stageFile[s] = NoDoc
  /\ Present(X)
  /\ Certified(es, Digest(X))

(* Bug: a stage that is begun again is begun on the inputs of now. *)
BeginAnew(o, s, X) ==
  LET es == obj[o].doc.entries
      e  == BegunEntry(s, Digest(X))
  IN
  /\ BeginChecks(o, s, X)
  /\ Due(o, "begin", [obj[o].doc EXCEPT !.entries =
                        IF HasBegun(es, s) THEN [es EXCEPT ![Len(es)] = e] ELSE Append(es, e)])
  /\ UNCHANGED <<disk, file>>

Begin(o, s, X) ==
  LET es == obj[o].doc.entries IN
  /\ BeginChecks(o, s, X)
  /\ ~HasBegun(es, s)
  /\ Due(o, "begin", [obj[o].doc EXCEPT !.entries = Append(es, BegunEntry(s, Digest(X)))])
  /\ UNCHANGED <<disk, file>>

(* begin of a stage that is begun on inputs with the same hashes: no write. *)
BegunAgain(o, s, X) ==
  LET es == obj[o].doc.entries IN
  /\ BeginChecks(o, s, X)
  /\ HasBegun(es, s)
  /\ es[Len(es)].inputs = Digest(X)

(* Bug: the ledger is written without the stage file. *)
FinishLedgerOnly(o, s, Y) ==
  LET es == obj[o].doc.entries
      d  == [stage |-> s, previous |-> ChainBefore(es, Len(es)),
             inputs |-> es[Len(es)].inputs, outputs |-> Digest(Y)]
  IN
  /\ Ready(o) /\ HasBegun(es, s) /\ stageFile[s] = NoDoc
  /\ Match(es[Len(es)].inputs) /\ Present(Y)
  /\ Due(o, "finish", [obj[o].doc EXCEPT !.entries = [es EXCEPT ![Len(es)] = FinishedEntry(d)]])
  /\ UNCHANGED <<disk, file>>

(* Bug: a second finish, after a failed write of the ledger, writes the    *)
(* stage file again.                                                       *)
FinishAgain(o, s, Y) ==
  LET es == obj[o].doc.entries
      d  == [stage |-> s, previous |-> ChainBefore(es, Len(es)),
             inputs |-> es[Len(es)].inputs, outputs |-> Digest(Y)]
  IN
  /\ Ready(o) /\ HasBegun(es, s)
  /\ Match(es[Len(es)].inputs) /\ Present(Y)
  /\ stageFile' = [stageFile EXCEPT ![s] = d]
  /\ Due(o, "finish", [obj[o].doc EXCEPT !.entries = [es EXCEPT ![Len(es)] = FinishedEntry(d)]])
  /\ UNCHANGED <<header, ledger, file>>

(* finish: the inputs still have their begin hashes, the outputs are       *)
(* hashed, and the stage file is written; the ledger follows.              *)
Finish(o, s, Y) ==
  LET es == obj[o].doc.entries
      d  == [stage |-> s, previous |-> ChainBefore(es, Len(es)),
             inputs |-> es[Len(es)].inputs, outputs |-> Digest(Y)]
  IN
  /\ Ready(o)
  /\ HasBegun(es, s)
  /\ stageFile[s] = NoDoc
  /\ Match(es[Len(es)].inputs)
  /\ Present(Y)
  /\ stageFile' = [stageFile EXCEPT ![s] = d]
  /\ Due(o, "finish", [obj[o].doc EXCEPT !.entries = [es EXCEPT ![Len(es)] = FinishedEntry(d)]])
  /\ UNCHANGED <<header, ledger, file>>

Note(o, n) ==
  /\ Ready(o)
  /\ Due(o, "note", [obj[o].doc EXCEPT !.notes = @ \cup {n}])
  /\ UNCHANGED <<disk, file>>

(* resume: verify; complete the half-finished stage, or nothing to write.  *)
Resume(o) ==
  LET es == obj[o].doc.entries IN
  /\ obj[o].at = "idle"
  /\ Unchanged(o)
  /\ ResumeAccepts(es)
  /\ IF HalfFinished(es)
       THEN Due(o, "resume", [obj[o].doc EXCEPT !.entries = FinishLast(es)])
       ELSE obj' = [obj EXCEPT ![o].resumed = TRUE]
  /\ UNCHANGED <<disk, file>>

(* _commit: the one atomic write of LEDGER.json; the object takes the new  *)
(* state after it.                                                         *)
Commit(o) ==
  /\ obj[o].at \in Busy
  /\ ledger' = obj[o].pending
  /\ obj' = [obj EXCEPT ![o] = [at |-> "idle", doc |-> obj[o].pending,
                                resumed |-> obj[o].resumed \/ obj[o].at = "resume",
                                pending |-> NewLedger]]
  /\ UNCHANGED <<header, stageFile, file>>

(* The write raises before the rename: the file and the object are as they *)
(* were, and a stage file that finish has written stays.                   *)
CommitFails(o) ==
  /\ obj[o].at \in Busy
  /\ obj' = [obj EXCEPT ![o].at = "idle", ![o].pending = NewLedger]
  /\ UNCHANGED <<disk, file>>

(* The process of o ends, or drops the object, at any point. *)
Stop(o) ==
  /\ obj[o].at # "closed"
  /\ obj' = [obj EXCEPT ![o] = Closed]
  /\ UNCHANGED <<disk, file>>

(* A stage's child, or anyone, writes or removes a file. *)
ChangeFile(p, c) ==
  /\ file[p] # c
  /\ file' = [file EXCEPT ![p] = c]
  /\ UNCHANGED <<disk, obj>>

(* A power cut: the rename of the newest stage file was not durable (the   *)
(* folder is not fsynced), whatever later renames were.                    *)
PowerLoss(s) ==
  /\ stageFile[s] # NoDoc
  /\ ledger # NoDoc /\ ledger.entries # <<>> /\ ledger.entries[Len(ledger.entries)].stage = s
  /\ stageFile' = [stageFile EXCEPT ![s] = NoDoc]
  /\ obj' = [o \in Owners |-> Closed]
  /\ UNCHANGED <<header, ledger, file>>
-------------------------------------------------------------------------------
(* The operations that an owner may call on a ledger that it holds. *)
Operation(o) ==
  \/ CreateLedger(o)
  \/ \E s \in Stages : \E X \in InputSets : Begin(o, s, X)
  \/ \E s \in Stages : \E Y \in OutputSets : Finish(o, s, Y)
  \/ \E n \in Notes : Note(o, n)
  \/ Resume(o)
  \/ Commit(o)
  \/ CommitFails(o)
  \/ Stop(o)

(* One owner at a time: the rule that the supervisor's RUN.lock enforces.  *)
Alone == \A o \in Owners : obj[o].at = "closed"

Next ==
  \/ \E o \in Owners : Alone /\ (CreateHeader(o) \/ Open(o))
  \/ \E o \in Owners : Operation(o)
  \/ \E p \in Files : \E c \in Contents \cup {Missing} : ChangeFile(p, c)

Spec == Init /\ [][Next]_vars
-------------------------------------------------------------------------------
(* Properties. *)

TypeOK ==
  /\ header \in BOOLEAN
  /\ ledger \in LedgerDoc \cup {NoDoc}
  /\ stageFile \in [Stages -> StageDoc \cup {NoDoc}]
  /\ file \in [Files -> Contents \cup {Missing}]
  /\ obj \in [Owners -> Object]

Entries == IF ledger = NoDoc THEN <<>> ELSE ledger.entries

(* The files that the certified records name have the digests recorded. *)
FilesAsRecorded ==
  \A s \in Stages : stageFile[s] # NoDoc => Match(stageFile[s].inputs) /\ Match(stageFile[s].outputs)

(* Every stop after the creation is recoverable: whatever write a process  *)
(* was stopped at, as long as the recorded files are what was recorded,    *)
(* the ledger on disk opens and its resume accepts it (A5-F7: the crash    *)
(* windows of finish).                                                     *)
EveryStopIsRecoverable ==
  ledger # NoDoc /\ FilesAsRecorded => WellFormed(Entries) /\ ResumeAccepts(Entries)

(* LEDGER.json never says finished of a stage whose stage file is not      *)
(* there with exactly that record: the stage file is written first.        *)
Receipted(sf, es) ==
  \A i \in DOMAIN es : es[i].state = "finished" =>
     LET d == sf[es[i].stage] IN d # NoDoc /\ es[i] = FinishedEntry(d)
FinishedHasItsStageFile == Receipted(stageFile, Entries)

(* A stage never starts from a file that differs from the output last      *)
(* recorded for it, so in the ledger every stage read what the stages      *)
(* before it wrote - across crashes, repeated begins and completions.      *)
Reads(es) == \A j \in DOMAIN es : Certified(SubSeq(es, 1, j - 1), es[j].inputs)
ReadsWhatWasRecorded == Reads(Entries)

(* A run folder never mixes two sets of inputs: once a stage is begun its  *)
(* recorded inputs stay, through re-begins on changed files and restarts.  *)
Keeps(es, fs) ==
  \A i \in DOMAIN es : i \in DOMAIN fs /\ fs[i].stage = es[i].stage /\ fs[i].inputs = es[i].inputs
OneSetOfInputs == [][Keeps(Entries, Entries')]_vars

(* A stage file is a receipt: no call, after any failed write or restart,  *)
(* replaces or removes one that is there.                                  *)
ReceiptsAreKept ==
  [][\A s \in Stages : stageFile[s] # NoDoc => stageFile'[s] = stageFile[s]]_vars

(* Fail closed: while a finished stage's stage file is gone, no call       *)
(* writes the ledger - a run that lost a receipt stops instead of going on.*)
LostReceiptStopsTheRun ==
  [][(\E i \in DOMAIN Entries : /\ Entries[i].state = "finished"
                               /\ stageFile[Entries[i].stage] = NoDoc
                               /\ stageFile'[Entries[i].stage] = NoDoc)
       => UNCHANGED ledger]_vars

(* The certified log: the records of the finished stages, and of the begun *)
(* stage once its stage file is there - the stage file is the commit point *)
(* of finish, the ledger entry only follows it.                            *)
CertifiedStages(sf, es) ==
  IF es # <<>> /\ es[Len(es)].state = "begun" /\ sf[es[Len(es)].stage] = NoDoc
    THEN Len(es) - 1
    ELSE Len(es)

LogOf(sf, es) ==
  [i \in 1..CertifiedStages(sf, es) |->
     RecordOf(IF es[i].state = "finished" THEN es[i] ELSE sf[es[i].stage])]

Log == INSTANCE StageLog WITH log <- LogOf(stageFile, Entries)

(* The ledger implements the certified log. *)
ImplementsStageLog == Log!Spec
===============================================================================
