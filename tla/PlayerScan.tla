------------------------------- MODULE PlayerScan -------------------------------
(***************************************************************************)
(* The discovery of matches (COG/acquisition: collector.py, state.py): the *)
(* roster of players, the window of time in which a player is scanned, its *)
(* pages, and the cursor that is committed with every page.                *)
(*                                                                         *)
(* The server lists the matches of a player newest first, and a match up   *)
(* to Lag after it was played; lists only grow.  Players are numbers, for  *)
(* the order of their names, and matches are numbered as they are played.  *)
(* Time 0 stands for NULL.                                                 *)
(***************************************************************************)
EXTENDS Naturals, Sequences, FiniteSets

CONSTANTS Players, Matches,
          Owner,          \* whose match it is
          Rosters,        \* what the server may answer for the ranks
          Lag,            \* of the server's lists
          Lookback, Overlap, Refresh,  \* the *_seconds of CollectorConfig
          Count,          \* matches of a full page
          Pages,          \* match_pages_per_player
          PerCycle,       \* players_per_cycle
          MaxTime         \* a bound on the clock

ASSUME ScanAssumption ==
  /\ Players \subseteq Nat /\ IsFiniteSet(Players)
  /\ Matches \subseteq Nat /\ IsFiniteSet(Matches)
  /\ Owner \in [Matches -> Players]
  /\ Rosters \subseteq SUBSET Players
  /\ Lookback \in Nat \ {0} /\ Refresh \in Nat \ {0}
  /\ Count \in Nat \ {0} /\ Pages \in Nat \ {0} /\ PerCycle \in Nat \ {0}
  /\ Lag \in Nat /\ Overlap \in Nat /\ Lag <= Overlap
  /\ MaxTime \in Nat /\ Lookback <= MaxTime

VARIABLES now, at, listed,     \* the clock; the server: when played, what it lists
          row, refreshed,      \* the players table; when the roster was taken
          known,               \* the matches table
          since,               \* history: the start of a player's first window
          phase, began, queue, \* the cycle: its place, its time, players to scan
          window               \* the scan of the first of them

server == <<now, at, listed>>
disk == <<row, refreshed, known, since>>
cycle == <<phase, began, queue, window>>
scanVars == <<server, disk, cycle>>

NoWindow == [start |-> 0, end |-> 0, next |-> 0, pages |-> 0]

ScanInit ==
  /\ now = Lookback /\ at = [m \in Matches |-> 0] /\ listed = {}
  /\ row = [p \in Players |-> [active |-> FALSE, seen |-> 0, lastEnd |-> 0, start |-> 0, end |-> 0, next |-> 0]]
  /\ refreshed = 0 /\ known = {} /\ since = [p \in Players |-> 0]
  /\ phase = "idle" /\ began = 0 /\ queue = <<>> /\ window = NoWindow
-------------------------------------------------------------------------------
(* The players and the server. *)

Play(m) ==
  /\ now + Lag <= MaxTime /\ at[m] = 0 /\ \A n \in Matches : n < m => at[n] # 0
  /\ at' = [at EXCEPT ![m] = now]
  /\ UNCHANGED <<now, listed, disk, cycle>>

List(m) ==
  /\ at[m] # 0 /\ m \notin listed
  /\ listed' = listed \cup {m}
  /\ UNCHANGED <<now, at, disk, cycle>>

Clock ==
  /\ now < MaxTime
  /\ \A m \in Matches \ listed : at[m] # 0 => now < at[m] + Lag
  /\ now' = now + 1
  /\ UNCHANGED <<at, listed, disk, cycle>>

InWindow(p, w) == {m \in listed : Owner[m] = p /\ w.start <= at[m] /\ at[m] <= w.end}

(* The place of a match in a list, from 0. *)
Rank(all, m) == Cardinality({n \in all : n > m})
Batch(p, w) ==
  LET all == InWindow(p, w)
  IN {m \in all : w.next <= Rank(all, m) /\ Rank(all, m) < w.next + Count}
-------------------------------------------------------------------------------
(* A cycle. *)

Unfinished(r) == r.end # 0

(* The first PerCycle elements of due in an order, a set of pairs. *)
Limited(due, order) ==
  LET n == IF Cardinality(due) < PerCycle THEN Cardinality(due) ELSE PerCycle
  IN {q \in [1..n -> due] :
        /\ \A i, j \in 1..n : i < j => <<q[i], q[j]>> \in order
        /\ \A p \in due : (\E i \in 1..n : p = q[i]) \/ \A i \in 1..n : <<q[i], p>> \in order}

Candidates(table) == {p \in Players : table[p].active \/ Unfinished(table[p])}

(* Bug: in the order of names. *)
DueByName(table) == Limited(Candidates(table), {o \in Players \X Players : o[1] < o[2]})

(* players_due: unfinished windows, then who was never scanned, then the   *)
(* longest not scanned.  There is one such order.                          *)
Due(table) ==
  LET Class(p) == IF Unfinished(table[p]) THEN 0 ELSE IF table[p].lastEnd = 0 THEN 1 ELSE 2
      Before(p, q) == \/ Class(p) < Class(q)
                      \/ Class(p) = Class(q) /\ table[p].lastEnd < table[q].lastEnd
                      \/ Class(p) = Class(q) /\ table[p].lastEnd = table[q].lastEnd /\ p < q
  IN Limited(Candidates(table), {o \in Players \X Players : Before(o[1], o[2])})

(* discover_matches, up to its loop. *)
Discover(table) == queue' \in Due(table) /\ phase' = "pick"

RefreshDue == refreshed = 0 \/ now - refreshed >= Refresh

StartCycle ==
  /\ phase = "idle"
  /\ began' = now
  /\ IF RefreshDue THEN phase' = "roster" /\ UNCHANGED queue ELSE Discover(row)
  /\ UNCHANGED <<server, disk, window>>

(* refresh_rank_snapshot: all tiers are asked before the first is written. *)
Record(roster) ==
  /\ phase = "roster"
  /\ row' = [p \in Players |-> IF p \in roster THEN [row[p] EXCEPT !.active = TRUE, !.seen = began] ELSE row[p]]
  /\ phase' = "recorded"
  /\ UNCHANGED <<server, refreshed, known, since, began, queue, window>>

(* finalize_rank_snapshot: who is not in this roster is no longer active.  *)
(* last_rank_refresh is a transaction of its own just after it; a cut      *)
(* between the two only repeats the refresh.                               *)
Finalize ==
  /\ phase = "recorded"
  /\ row' = [p \in Players |-> [row[p] EXCEPT !.active = row[p].seen = began]]
  /\ refreshed' = began
  /\ Discover(row')
  /\ UNCHANGED <<server, known, since, began, window>>

(* Bug: the next window starts where the last one ended. *)
WindowWithoutOverlap(r) ==
  IF Unfinished(r) THEN [start |-> r.start, end |-> r.end, next |-> r.next, pages |-> Pages]
  ELSE [start |-> IF r.lastEnd = 0 THEN began - Lookback ELSE r.lastEnd, end |-> began, next |-> 0, pages |-> Pages]

(* _discover_for_player: an unfinished window goes on as it was. *)
WindowOf(r) ==
  IF Unfinished(r) THEN [start |-> r.start, end |-> r.end, next |-> r.next, pages |-> Pages]
  ELSE [start |-> IF r.lastEnd = 0 THEN began - Lookback
                  ELSE IF r.lastEnd > Overlap THEN r.lastEnd - Overlap ELSE 0,
        end |-> began, next |-> 0, pages |-> Pages]

Pick ==
  /\ phase = "pick" /\ queue # <<>>
  /\ window' = WindowOf(row[Head(queue)])
  /\ phase' = "page"
  /\ UNCHANGED <<server, disk, began, queue>>

(* A page, and commit_player_scan_page: its matches and the cursor in one  *)
(* transaction.                                                            *)
Page ==
  LET p == Head(queue)
      batch == Batch(p, window)
      complete == Cardinality(batch) < Count
      next == window.next + Cardinality(batch)
      leaves == complete \/ window.pages = 1
  IN
  /\ phase = "page"
  /\ known' = known \cup batch
  /\ row' = [row EXCEPT ![p] = IF complete
                                THEN [@ EXCEPT !.lastEnd = window.end, !.start = 0, !.end = 0, !.next = 0]
                                ELSE [@ EXCEPT !.start = window.start, !.end = window.end, !.next = next]]
  /\ since' = [since EXCEPT ![p] = IF row[p].lastEnd = 0 /\ row[p].end = 0 THEN window.start ELSE @]
  /\ window' = IF leaves THEN NoWindow ELSE [window EXCEPT !.next = next, !.pages = @ - 1]
  /\ queue' = IF leaves THEN Tail(queue) ELSE queue
  /\ phase' = IF leaves THEN "pick" ELSE "page"
  /\ UNCHANGED <<server, refreshed, began>>

Forget == phase' = "idle" /\ began' = 0 /\ queue' = <<>> /\ window' = NoWindow

(* The players are scanned, or the deadline has passed. *)
EndCycle ==
  /\ phase = "pick"
  /\ Forget /\ UNCHANGED <<server, disk>>

(* The cycle ends by an exception, or with its process. *)
Abandon == Forget /\ UNCHANGED <<server, disk>>
-------------------------------------------------------------------------------
(* Properties. *)

(* However a scan was cut into cycles, pages and processes, and whatever   *)
(* the server listed in between: a match that was listed before a window   *)
(* of its player ended is known when that window is done.                  *)
NothingMissed ==
  \A m \in Matches :
    LET p == Owner[m] IN
    at[m] # 0 /\ row[p].lastEnd # 0 /\ since[p] <= at[m] /\ at[m] + Lag < row[p].lastEnd
      => m \in known
===============================================================================
