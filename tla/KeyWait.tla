-------------------------------- MODULE KeyWait --------------------------------
(***************************************************************************)
(* The key of the match collector (COG/acquisition): the file the user     *)
(* replaces, the requests that read it anew each time (client.py,          *)
(* key_provider.py), and the wait for another key after a 401 or 403       *)
(* (supervisor.py, _wait_for_auth).                                        *)
(*                                                                         *)
(* A request is two steps: it reads the file, waits for the rate limiter,  *)
(* and is answered with the key it has read.  'tested' is the variable     *)
(* `changed` of _wait_for_auth: the key the poll has seen in the file;     *)
(* the probe reads the file again, at every retry.                         *)
(***************************************************************************)
EXTENDS Naturals

CONSTANTS Keys,
          Reinstall,  \* whether the user may put back a key that was in the file before
          MaxChanges, \* a bound on what the user and the server do to the keys
          MaxErrors,  \* a bound on errors of the network and on restarts
          None

ASSUME KeyWaitAssumption ==
  /\ Reinstall \in BOOLEAN /\ MaxChanges \in Nat /\ MaxErrors \in Nat /\ None \notin Keys

VARIABLES file,   \* the key in the file, None: no usable one
          used,   \* the keys that have been in it
          valid,  \* the keys the server accepts
          pc,     \* working or waiting, before or after the request has read the key
          key,    \* what the request has read
          tested, previous,
          changes, errors

user == <<file, used, valid, changes>>
vars == <<user, pc, key, tested, previous, errors>>

Working == {"work", "work_sent"}

Init ==
  /\ file \in Keys \cup {None}
  /\ used = {file}
  /\ valid \in SUBSET Keys
  /\ pc = "work"
  /\ key = None
  /\ tested = None /\ previous = None
  /\ changes = 0 /\ errors = 0
-------------------------------------------------------------------------------
(* The user and the server. *)

Change == changes < MaxChanges /\ changes' = changes + 1

Replace(k) ==
  /\ Change
  /\ k # file /\ (k = None \/ k \notin used \/ Reinstall)
  /\ file' = k
  /\ used' = used \cup {k}
  /\ UNCHANGED <<valid, pc, key, tested, previous, errors>>

(* A development key expires; it never becomes valid again. *)
Expire(k) ==
  /\ Change
  /\ k \in valid
  /\ valid' = valid \ {k}
  /\ UNCHANGED <<file, used, pc, key, tested, previous, errors>>
-------------------------------------------------------------------------------
(* The collector. *)

Wait(fingerprint) == pc' = "wait" /\ previous' = fingerprint

(* Any request of a cycle: the key is read before the limiter is asked. *)
Read ==
  /\ pc = "work"
  /\ \/ file # None /\ key' = file /\ pc' = "work_sent" /\ UNCHANGED previous
     \/ file = None /\ Wait(None) /\ UNCHANGED key
  /\ UNCHANGED <<user, tested, errors>>

(* Bug: the wait starts from the key that lies in the file by now. *)
AnswerForgets ==
  /\ pc = "work_sent"
  /\ IF key \in valid THEN pc' = "work" /\ UNCHANGED previous ELSE Wait(file)
  /\ key' = None
  /\ UNCHANGED <<user, tested, errors>>

(* AuthenticationRejected carries the fingerprint of the key that was sent. *)
Answer ==
  /\ pc = "work_sent"
  /\ IF key \in valid THEN pc' = "work" /\ UNCHANGED previous ELSE Wait(key)
  /\ key' = None
  /\ UNCHANGED <<user, tested, errors>>

Poll ==
  /\ pc = "wait"
  /\ file # None /\ file # previous
  /\ tested' = file
  /\ pc' = "probe"
  /\ UNCHANGED <<user, key, previous, errors>>

ProbeRead ==
  /\ pc = "probe"
  /\ \/ file # None /\ key' = file /\ pc' = "probe_sent" /\ UNCHANGED tested
     \/ file = None /\ pc' = "wait" /\ tested' = None /\ UNCHANGED key
  /\ UNCHANGED <<user, previous, errors>>

(* A refused probe: the next poll looks for another key than the one the   *)
(* last poll has seen.                                                     *)
ProbeAnswer ==
  /\ pc = "probe_sent"
  /\ IF key \in valid THEN pc' = "work" /\ previous' = None ELSE Wait(tested)
  /\ key' = None /\ tested' = None
  /\ UNCHANGED <<user, errors>>

(* An error of the network or of the server: the request is made again and *)
(* reads the file again, or the retries are used up.                       *)
Error ==
  /\ errors < MaxErrors /\ errors' = errors + 1
  /\ \/ pc = "work_sent" /\ pc' = "work"
     \/ pc = "probe_sent" /\ pc' \in {"probe", "wait"}
  /\ key' = None
  /\ UNCHANGED <<user, tested, previous>>

(* The watchdog restarts a process that has died: it knows no rejected key. *)
Restart ==
  /\ errors < MaxErrors /\ errors' = errors + 1
  /\ pc' = "work"
  /\ key' = None /\ tested' = None /\ previous' = None
  /\ UNCHANGED user

Collector == Read \/ Answer \/ Poll \/ ProbeRead \/ ProbeAnswer

Next ==
  \/ \E k \in Keys \cup {None} : Replace(k)
  \/ \E k \in Keys : Expire(k)
  \/ Collector \/ Error \/ Restart

(* Polls and requests have time limits, the collector always goes on. *)
FairSpec == Init /\ [][Next]_vars /\ WF_vars(Collector)
-------------------------------------------------------------------------------
(* Properties. *)

(* The types; a probe is made for a key, never for an empty file. *)
TypeOK ==
  /\ file \in Keys \cup {None} /\ used \subseteq Keys \cup {None} /\ valid \subseteq Keys
  /\ pc \in Working \cup {"wait", "probe", "probe_sent"}
  /\ key \in Keys \cup {None} /\ previous \in Keys \cup {None}
  /\ tested \in IF pc \in {"probe", "probe_sent"} THEN Keys ELSE Keys \cup {None}
  /\ changes \in 0..MaxChanges /\ errors \in 0..MaxErrors

(* "wait for a different key, probe, then resume": a collector that waits  *)
(* while the file holds a key the server accepts goes back to work.        *)
Resumes == pc \notin Working /\ file \in valid ~> pc \in Working \/ file \notin valid
===============================================================================
