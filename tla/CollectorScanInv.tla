---------------------------- MODULE CollectorScanInv ----------------------------
(***************************************************************************)
(* The inductive invariant of the discovery of matches.                    *)
(***************************************************************************)
EXTENDS CollectorScan

Rows == [active : BOOLEAN, seen : Nat, lastEnd : Nat, start : Nat, end : Nat, next : Nat]
Windows == [start : Nat, end : Nat, next : Nat, pages : Nat]

ScanTypeOK ==
  /\ now \in Nat /\ at \in [Matches -> Nat] /\ listed \subseteq Matches
  /\ row \in [Players -> Rows] /\ refreshed \in Nat
  /\ known \subseteq Matches /\ since \in [Players -> Nat]
  /\ phase \in {"idle", "roster", "recorded", "pick", "page"} /\ began \in Nat
  /\ queue \in Seq(Players) /\ window \in Windows

(* A match is listed Lag after it was played, at the latest. *)
ServerInv ==
  /\ Lookback <= now
  /\ \A m \in Matches : /\ at[m] <= now
                        /\ m \in listed => at[m] # 0
                        /\ m \notin listed /\ at[m] # 0 => now <= at[m] + Lag

CycleInv ==
  /\ phase # "idle" => Lookback <= began /\ began <= now
  /\ phase = "page" => queue # <<>> /\ window.end # 0 /\ window.pages # 0

(* A match of p that was listed before the window w ended. *)
Early(p, w, m) == Owner[m] = p /\ at[m] # 0 /\ w.start <= at[m] /\ at[m] + Lag < w.end

(* What the cursor of w has passed is known: the server's list grows at    *)
(* its head only, so nothing that was not taken moves before the cursor.   *)
Covered(p, w) ==
  /\ w.end <= now
  /\ \A m \in Matches : Early(p, w, m) => m \in known \/ w.next <= Rank(InWindow(p, w), m)

(* The window w starts where the scans of p started, or Overlap before the *)
(* end of the last one.                                                    *)
Continues(p, w) ==
  IF row[p].lastEnd = 0 THEN row[p].end # 0 => since[p] = w.start
  ELSE w.start = 0 \/ w.start + Overlap <= row[p].lastEnd

CursorInv ==
  /\ \A p \in Players : row[p].lastEnd <= now
  /\ \A p \in Players : Unfinished(row[p]) => Covered(p, row[p]) /\ Continues(p, row[p])
  /\ phase = "page" => Covered(Head(queue), window) /\ Continues(Head(queue), window)

ScanInv == ScanTypeOK /\ ServerInv /\ CycleInv /\ CursorInv /\ NothingMissed
===============================================================================
