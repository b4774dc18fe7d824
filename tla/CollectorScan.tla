----------------------------- MODULE CollectorScan -----------------------------
(***************************************************************************)
(* The discovery of matches by the collector process: every request of     *)
(* PlayerScan is made with the key of KeyWait.  A rejected or missing key  *)
(* drops the cycle and waits, other errors retry the request or drop the   *)
(* cycle (run_forever, supervisor.py).                                     *)
(***************************************************************************)
EXTENDS KeyWait, PlayerScan

allVars == <<vars, scanVars>>

CollectorInit == Init /\ ScanInit

(* The probe of a cycle, the roster and a page are requests. *)
Asks == phase \in {"idle", "roster", "page"}

Ask ==
  /\ Asks /\ Read
  /\ IF pc' = "wait" THEN Abandon ELSE UNCHANGED scanVars

Answered ==
  /\ Answer
  /\ IF key \in valid
       THEN StartCycle \/ (\E roster \in Rosters : Record(roster)) \/ Page
       ELSE Abandon

(* What a cycle does between its requests. *)
Work == pc = "work" /\ (Finalize \/ Pick \/ EndCycle) /\ UNCHANGED vars

Waiting == (Poll \/ ProbeRead \/ ProbeAnswer) /\ UNCHANGED scanVars

Fails ==
  \/ Error /\ (UNCHANGED scanVars \/ (pc = "work_sent" /\ Abandon))
  \/ Restart /\ Abandon

Process == Ask \/ Answered \/ Work \/ Waiting

User ==
  /\ (\E k \in Keys \cup {None} : Replace(k)) \/ (\E k \in Keys : Expire(k))
  /\ UNCHANGED scanVars

Server == (Clock \/ \E m \in Matches : List(m)) /\ UNCHANGED vars
Game == (\E m \in Matches : Play(m)) /\ UNCHANGED vars

CollectorNext == Process \/ Fails \/ User \/ Server \/ Game

(* The process goes on, again and again with time left for a player, and   *)
(* the clock and the server go on.                                         *)
Fairness == WF_allVars(Process) /\ SF_allVars(Work /\ Pick) /\ WF_allVars(Server)

CollectorSpec == CollectorInit /\ [][CollectorNext]_allVars /\ Fairness
-------------------------------------------------------------------------------
(* Properties. *)

(* With a key that the server accepts in the end, every match of a player  *)
(* who stays on the roster is found: after key waits, errors and restarts, *)
(* and beside players who are scanned first.                               *)
EveryMatchIsFound ==
  (<>[](file \in valid)) =>
    \A m \in Matches :
      [](at[m] # 0 /\ at[m] + Lag < MaxTime /\ [](row[Owner[m]].active)
           => <>(m \in known \/ (since[Owner[m]] # 0 /\ at[m] < since[Owner[m]])))
===============================================================================
