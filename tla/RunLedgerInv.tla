----------------------------- MODULE RunLedgerInv -----------------------------
(***************************************************************************)
(* The inductive invariant of RunLedger.  The safety properties speak of   *)
(* the ledger on disk; they are inductive only with what is known of the   *)
(* document that an operation is about to write over it, and of the        *)
(* stage file of a begun stage.                                            *)
(***************************************************************************)
EXTENDS RunLedger

(* The stage file of a begun stage is the one finish wrote for that entry. *)
HalfFinishedIsOurs(sf, es) ==
  \A i \in DOMAIN es : es[i].state = "begun" /\ sf[es[i].stage] # NoDoc =>
     /\ sf[es[i].stage].inputs = es[i].inputs
     /\ sf[es[i].stage].previous = ChainBefore(es, i)

DocumentOK(sf, es) ==
  /\ WellFormed(es)
  /\ Receipted(sf, es)
  /\ HalfFinishedIsOurs(sf, es)
  /\ FolderExplained(sf, es)
  /\ Reads(es)

StageFilesOK ==
  /\ \A s \in Stages : stageFile[s] # NoDoc => stageFile[s].stage = s
  /\ ledger = NoDoc => \A s \in Stages : stageFile[s] = NoDoc

OneOwner ==
  \A o, q \in Owners : obj[o].at # "closed" /\ obj[q].at # "closed" => o = q

(* An open object holds the document that is on disk. *)
OwnersKnowTheLedger ==
  \A o \in Owners :
     /\ obj[o].at = "creating" => ledger = NoDoc
     /\ obj[o].at \in Busy \cup {"idle"} => ledger # NoDoc /\ obj[o].doc = ledger

(* A write that is due keeps the ledger a good document, keeps what is     *)
(* recorded, and certifies nothing: the stage file has done that.          *)
DueWritesAreSafe ==
  \A o \in Owners : obj[o].at \in Busy =>
     /\ DocumentOK(stageFile, obj[o].pending.entries)
     /\ Keeps(Entries, obj[o].pending.entries)
     /\ LogOf(stageFile, obj[o].pending.entries) = LogOf(stageFile, Entries)

(* The inductive invariant: documents and stage files agree, one owner     *)
(* knows the document on disk, and every due write keeps it so.            *)
IInv ==
  /\ TypeOK
  /\ DocumentOK(stageFile, Entries)
  /\ StageFilesOK
  /\ OneOwner
  /\ OwnersKnowTheLedger
  /\ DueWritesAreSafe
===============================================================================
