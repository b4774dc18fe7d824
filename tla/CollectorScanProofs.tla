-------------------------- MODULE CollectorScanProofs --------------------------
(***************************************************************************)
(* Proofs about the discovery of matches: nothing that was listed before a *)
(* window ended is missed, for any number of players and matches, any page *)
(* size, and any cutting of the scans into pages, cycles and processes.    *)
(***************************************************************************)
EXTENDS CollectorScanInv, FiniteSetTheorems, TLAPS

(* The lists of the server: the place of a match, and a page of a list. *)
Slice(S, k) == {m \in S : k <= Rank(S, m) /\ Rank(S, m) < k + Count}

(* A place is a number. *)
LEMMA RankType == ASSUME NEW S, IsFiniteSet(S), NEW m PROVE Rank(S, m) \in Nat
<1>1. {n \in S : n > m} \in SUBSET S
  OBVIOUS
<1> QED BY <1>1, FS_Subset, FS_CardinalityType DEF Rank

(* A list that grows moves a match back, never forward. *)
LEMMA RankGrows ==
  ASSUME NEW T, IsFiniteSet(T), NEW S \in SUBSET T, NEW m
  PROVE  Rank(S, m) <= Rank(T, m)
<1> DEFINE A == {n \in S : n > m}
           B == {n \in T : n > m}
<1>1. A \in SUBSET B /\ B \in SUBSET T
  OBVIOUS
<1>2. IsFiniteSet(B)
  BY <1>1, FS_Subset
<1>3. Cardinality(A) <= Cardinality(B)
  BY <1>1, <1>2, FS_Subset
<1> QED BY <1>3 DEF Rank

(* Different matches have different places, the newest the first. *)
LEMMA RankOrders ==
  ASSUME NEW S \in SUBSET Nat, IsFiniteSet(S), NEW m \in S, NEW n \in S, m < n
  PROVE  Rank(S, n) < Rank(S, m)
<1> DEFINE A == {k \in S : k > n}
           B == {k \in S : k > m}
<1>1. A \in SUBSET B /\ B \in SUBSET S /\ n \in B /\ n \notin A
  <2>1. m \in Nat /\ n \in Nat /\ \A k \in S : k \in Nat
    OBVIOUS
  <2>2. ASSUME NEW k \in A PROVE k \in B
    BY <2>1
  <2>3. n \in B /\ n \notin A
    BY <2>1
  <2> QED BY <2>2, <2>3
<1>2. IsFiniteSet(B) /\ Cardinality(A) <= Cardinality(B) /\ Cardinality(A) # Cardinality(B)
  BY <1>1, FS_Subset
<1>3. Cardinality(A) \in Nat /\ Cardinality(B) \in Nat
  BY <1>1, <1>2, FS_Subset, FS_CardinalityType
<1> HIDE DEF A, B
<1>4. Cardinality(A) < Cardinality(B)
  BY <1>2, <1>3
<1> QED BY <1>4 DEF Rank, A, B

(* Two matches never share a place. *)
LEMMA RankIsOneToOne ==
  ASSUME NEW S \in SUBSET Nat, IsFiniteSet(S), NEW m \in S, NEW n \in S, Rank(S, m) = Rank(S, n)
  PROVE  m = n
<1>1. Rank(S, m) \in Nat
  BY RankType
<1>2. ~(m < n) /\ ~(n < m)
  BY <1>1, RankOrders
<1> QED BY <1>2

(* The places of a list of N matches are 0..N - 1, and every place is taken. *)
LEMMA RankBelow ==
  ASSUME NEW S \in SUBSET Nat, IsFiniteSet(S), NEW m \in S
  PROVE  Rank(S, m) \in 0..Cardinality(S) - 1
<1> DEFINE A == {k \in S : k > m}
<1>1. A \in SUBSET S /\ m \notin A
  OBVIOUS
<1>2. Cardinality(A) <= Cardinality(S) /\ Cardinality(A) # Cardinality(S)
  BY <1>1, FS_Subset
<1>3. Cardinality(A) \in Nat /\ Cardinality(S) \in Nat
  BY <1>1, FS_Subset, FS_CardinalityType
<1> HIDE DEF A
<1>4. Cardinality(A) \in 0..Cardinality(S) - 1
  BY <1>2, <1>3
<1> QED BY <1>4 DEF Rank, A

(* No place of a list is empty. *)
LEMMA EveryPlaceIsTaken ==
  ASSUME NEW S \in SUBSET Nat, IsFiniteSet(S), NEW k \in 0..Cardinality(S) - 1
  PROVE  \E m \in S : Rank(S, m) = k
<1> DEFINE T == 0..Cardinality(S) - 1
           f == [m \in S |-> Rank(S, m)]
<1>1. Cardinality(S) \in Nat
  BY FS_CardinalityType
<1>2. IsFiniteSet(T) /\ Cardinality(T) = Cardinality(S)
  BY <1>1, FS_Interval
<1>3. f \in [S -> T]
  BY RankBelow
<1>4. f \in Injection(S, T)
  BY <1>3, RankIsOneToOne DEF Injection, IsInjective
<1>5. f \in Surjection(S, T)
  BY <1>2, <1>4, FS_Injection
<1>6. \E m \in S : f[m] = k
  BY <1>5 DEF Surjection
<1> QED BY <1>6

(* A page holds Count matches at most, and a short one is the last of the  *)
(* list.                                                                   *)
LEMMA SliceIsShort ==
  ASSUME NEW S \in SUBSET Nat, IsFiniteSet(S), NEW k \in Nat
  PROVE  /\ IsFiniteSet(Slice(S, k)) /\ Cardinality(Slice(S, k)) \in 0..Count
         /\ Cardinality(Slice(S, k)) < Count => \A m \in S : Rank(S, m) < k + Count
<1> DEFINE P == Slice(S, k)
           T == k..k + Count - 1
           f == [m \in P |-> Rank(S, m)]
<1>1. Count \in Nat \ {0}
  BY ScanAssumption
<1>2. IsFiniteSet(T) /\ Cardinality(T) = Count
  BY <1>1, FS_Interval
<1>3. P \in SUBSET S /\ IsFiniteSet(P) /\ Cardinality(P) \in Nat
  <2>1. P \in SUBSET S
    BY DEF Slice
  <2> QED BY <2>1, FS_Subset, FS_CardinalityType
<1>4. f \in [P -> T]
  <2> SUFFICES ASSUME NEW m \in P PROVE Rank(S, m) \in T
    OBVIOUS
  <2>1. Rank(S, m) \in Nat
    BY RankType
  <2> QED BY <1>1, <2>1 DEF Slice
<1>5. f \in Injection(P, T)
  <2>1. ASSUME NEW m \in P, NEW n \in P, f[m] = f[n] PROVE m = n
    BY <1>3, <2>1, RankIsOneToOne
  <2> HIDE DEF f
  <2> QED BY <1>4, <2>1 DEF Injection, IsInjective
<1>6. Cardinality(P) <= Count /\ (Cardinality(P) = Count <=> f \in Surjection(P, T))
  BY <1>2, <1>5, FS_Injection
<1>7. ASSUME NEW m \in S, ~(Rank(S, m) < k + Count) PROVE Cardinality(P) = Count
  <2>1. Rank(S, m) \in 0..Cardinality(S) - 1 /\ Cardinality(S) \in Nat
    BY RankBelow, FS_CardinalityType
  <2>2. ASSUME NEW j \in T PROVE \E n \in P : f[n] = j
    <3>1. j \in 0..Cardinality(S) - 1 /\ k <= j /\ j < k + Count
      BY <1>1, <1>7, <2>1
    <3>2. PICK n \in S : Rank(S, n) = j
      BY <3>1, EveryPlaceIsTaken
    <3> QED BY <3>1, <3>2 DEF Slice
  <2>3. f \in Surjection(P, T)
    BY <1>4, <2>2 DEF Surjection
  <2> QED BY <1>6, <2>3
<1> QED BY <1>1, <1>3, <1>6, <1>7
-------------------------------------------------------------------------------
(* The windows of the players. *)

(* A list holds finitely many matches. *)
LEMMA ListIsFinite ==
  ASSUME NEW p, NEW w, ScanTypeOK
  PROVE  InWindow(p, w) \in SUBSET Nat /\ IsFiniteSet(InWindow(p, w))
<1>1. InWindow(p, w) \in SUBSET Matches
  BY DEF InWindow, ScanTypeOK
<1> QED BY <1>1, ScanAssumption, FS_Subset

(* The players whose turn it is. *)
LEMMA DueType ==
  ASSUME NEW table, NEW q \in Due(table)
  PROVE  q \in Seq(Players)
<1> DEFINE due == Candidates(table)
           n == IF Cardinality(due) < PerCycle THEN Cardinality(due) ELSE PerCycle
<1>1. due \in SUBSET Players /\ Cardinality(due) \in Nat
  BY ScanAssumption, FS_Subset, FS_CardinalityType DEF Candidates
<1>2. n \in Nat
  BY <1>1, ScanAssumption
<1>3. q \in [1..n -> due]
  BY DEF Due, Limited
<1> HIDE DEF n, due
<1> QED BY <1>1, <1>2, <1>3

(* A step of the server: nothing that was listed changes, and what is new  *)
(* was played after now - Lag.                                             *)
LEMMA ServerSteps ==
  ASSUME ScanTypeOK, ServerInv, Server \/ Game
  PROVE  /\ now' \in Nat /\ at' \in [Matches -> Nat] /\ listed' \subseteq Matches
         /\ now <= now' /\ listed \subseteq listed' /\ ServerInv'
         /\ \A m \in listed : at'[m] = at[m]
         /\ \A m \in Matches : m \notin listed /\ at'[m] # 0 => now <= at'[m] + Lag
         /\ UNCHANGED <<disk, cycle>>
<1>0. Lag \in Nat /\ Lookback \in Nat \ {0}
  BY ScanAssumption
<1>1. CASE Clock
  BY <1>0, <1>1 DEF Clock, ScanTypeOK, ServerInv
<1>2. ASSUME NEW n \in Matches, List(n)
      PROVE  /\ now' = now /\ at' = at /\ listed' = listed \cup {n} /\ at[n] # 0
             /\ UNCHANGED <<disk, cycle>>
  BY <1>2 DEF List
<1>3. CASE \E n \in Matches : List(n)
  BY <1>0, <1>2, <1>3 DEF ScanTypeOK, ServerInv
<1>4. ASSUME NEW n \in Matches, Play(n)
      PROVE  /\ now' = now /\ at[n] = 0 /\ at' = [at EXCEPT ![n] = now] /\ listed' = listed
             /\ UNCHANGED <<disk, cycle>>
  BY <1>4 DEF Play
<1>5. CASE \E n \in Matches : Play(n)
  <2> PICK n \in Matches : Play(n)
    BY <1>5
  <2>1. /\ now' = now /\ at[n] = 0 /\ at' = [at EXCEPT ![n] = now] /\ listed' = listed
        /\ UNCHANGED <<disk, cycle>>
    BY <1>4
  <2>2. /\ now \in Nat /\ now # 0 /\ n \notin listed /\ at' \in [Matches -> Nat]
        /\ at'[n] = now /\ \A m \in Matches : m # n => at'[m] = at[m]
    BY <1>0, <2>1 DEF ScanTypeOK, ServerInv
  <2>3. \A m \in listed : m \in Matches /\ at'[m] = at[m]
    BY <2>2 DEF ScanTypeOK
  <2>4. \A m \in Matches : m \notin listed /\ at'[m] # 0 => now <= at'[m] + Lag
    BY <1>0, <2>2 DEF ScanTypeOK, ServerInv
  <2>5. ServerInv'
    BY <1>0, <2>1, <2>2, <2>4 DEF ServerInv
  <2> QED BY <2>1, <2>2, <2>3, <2>4, <2>5 DEF ScanTypeOK
<1> QED BY <1>1, <1>3, <1>5 DEF Server, Game

(* It leaves what a window has passed as it is: a match that is played or  *)
(* listed from now on was not listed before the window ended, and comes    *)
(* before all others.                                                      *)
LEMMA ServerKeepsWindow ==
  ASSUME ScanTypeOK, ServerInv, Server \/ Game,
         NEW p, NEW w, w.end \in Nat, w.next \in Nat, Covered(p, w)
  PROVE  Covered(p, w)'
<1> DEFINE S == InWindow(p, w)
<1>1. /\ now \in Nat /\ now' \in Nat /\ at \in [Matches -> Nat] /\ at' \in [Matches -> Nat] /\ Lag \in Nat
      /\ listed \subseteq listed' /\ now <= now' /\ w.end <= now /\ listed' \subseteq Matches /\ listed \subseteq Matches
      /\ \A m \in listed : at'[m] = at[m] /\ at[m] # 0
      /\ \A m \in Matches : m \notin listed /\ at'[m] # 0 => now <= at'[m] + Lag
      /\ known' = known
  BY ServerSteps, ScanAssumption DEF ScanTypeOK, ServerInv, Covered, disk
<1>2. S \in SUBSET S' /\ IsFiniteSet(S')
  <2>1. S \in SUBSET S'
    BY <1>1 DEF InWindow
  <2>2. S' \in SUBSET Matches
    BY <1>1 DEF InWindow
  <2> QED BY <2>1, <2>2, ScanAssumption, FS_Subset
<1>3. ASSUME NEW m \in Matches, Early(p, w, m)' PROVE m \in known' \/ w.next <= Rank(S', m)
  <2>1. /\ Owner[m] = p /\ at'[m] # 0 /\ w.start <= at'[m] /\ at'[m] + Lag < w.end
    BY <1>3 DEF Early
  <2>2. m \in listed
    BY <1>1, <2>1
  <2>3. m \in known \/ w.next <= Rank(S, m)
    BY <1>1, <2>1, <2>2 DEF Covered, Early
  <2>4. Rank(S, m) <= Rank(S', m)
    BY <1>2, RankGrows
  <2>5. Rank(S, m) \in Nat /\ Rank(S', m) \in Nat
    BY <1>2, FS_Subset, RankType
  <2> QED BY <1>1, <2>3, <2>4, <2>5
<1> QED BY <1>1, <1>3 DEF Covered

(* A step of the server or of the players of the game keeps the invariant. *)
LEMMA ServerKeeps == ASSUME ScanInv, Server \/ Game PROVE ScanInv'
<1>1. ScanTypeOK /\ ServerInv /\ CycleInv /\ CursorInv /\ NothingMissed
  BY DEF ScanInv
<1>2. /\ now' \in Nat /\ at' \in [Matches -> Nat] /\ listed' \subseteq Matches
      /\ now <= now' /\ listed \subseteq listed' /\ ServerInv'
      /\ \A m \in listed : at'[m] = at[m]
      /\ \A m \in Matches : m \notin listed /\ at'[m] # 0 => now <= at'[m] + Lag
      /\ UNCHANGED <<row, refreshed, known, since, phase, began, queue, window>>
  BY <1>1, ServerSteps DEF disk, cycle
<1>3. ScanTypeOK'
  BY <1>1, <1>2 DEF ScanTypeOK
<1>4. CycleInv'
  BY <1>1, <1>2, ScanAssumption DEF CycleInv, ScanTypeOK
<1>5. CursorInv'
  <2>1. ASSUME NEW p \in Players PROVE row'[p].lastEnd <= now'
    BY <1>1, <1>2, <2>1 DEF CursorInv, ScanTypeOK, Rows
  <2>2. ASSUME NEW p \in Players, Unfinished(row'[p]) PROVE (Covered(p, row[p]) /\ Continues(p, row[p]))'
    <3>1. PICK w : w = row[p]
      OBVIOUS
    <3>2. w \in Rows /\ Covered(p, w) /\ Continues(p, w)
      BY <1>1, <1>2, <2>2, <3>1 DEF CursorInv, ScanTypeOK
    <3>3. Covered(p, w)'
      BY <1>1, <3>2, ServerKeepsWindow DEF Rows
    <3>4. row'[p] = w
      BY <1>2, <3>1
    <3> QED BY <1>2, <3>2, <3>3, <3>4 DEF Covered, Continues, Early, InWindow
  <2>3. ASSUME phase' = "page" PROVE (Covered(Head(queue), window) /\ Continues(Head(queue), window))'
    <3>1. PICK w : w = window
      OBVIOUS
    <3>2. PICK p : p = Head(queue)
      OBVIOUS
    <3>3. w \in Windows /\ Covered(p, w) /\ Continues(p, w)
      BY <1>1, <1>2, <2>3, <3>1, <3>2 DEF CursorInv, ScanTypeOK
    <3>4. Covered(p, w)'
      BY <1>1, <3>3, ServerKeepsWindow DEF Windows
    <3>5. window' = w /\ Head(queue)' = p
      BY <1>2, <3>1, <3>2
    <3> QED BY <1>2, <3>3, <3>4, <3>5 DEF Covered, Continues, Early, InWindow
  <2> QED BY <1>2, <2>1, <2>2, <2>3 DEF CursorInv
<1>6. NothingMissed'
  <2> SUFFICES ASSUME NEW m \in Matches, NEW p, p = Owner[m],
                      at'[m] # 0, row[p].lastEnd # 0, since[p] <= at'[m], at'[m] + Lag < row[p].lastEnd
               PROVE  m \in known
    BY <1>2 DEF NothingMissed
  <2>1. p \in Players /\ Lag \in Nat
    BY ScanAssumption
  <2>2. row[p].lastEnd \in Nat /\ row[p].lastEnd <= now
    BY <1>1, <2>1 DEF ScanTypeOK, Rows, CursorInv
  <2>3. m \in listed
    BY <1>1, <1>2, <2>1, <2>2 DEF ScanTypeOK
  <2> QED BY <1>1, <1>2, <2>3 DEF NothingMissed
<1> QED BY <1>2, <1>3, <1>4, <1>5, <1>6 DEF ScanInv

(* Steps of a cycle that scan nobody. *)
LEMMA QuietKeeps ==
  ASSUME ScanInv, ScanTypeOK', CycleInv', phase' # "page",
         UNCHANGED <<server, known, since>>,
         \A p \in Players : /\ row'[p].lastEnd = row[p].lastEnd /\ row'[p].start = row[p].start
                            /\ row'[p].end = row[p].end /\ row'[p].next = row[p].next
  PROVE  ScanInv'
<1>1. ScanTypeOK /\ ServerInv /\ CursorInv /\ NothingMissed
  BY DEF ScanInv
<1>2. ServerInv'
  BY <1>1 DEF ServerInv, server
<1>3. NothingMissed'
  BY <1>1, ScanAssumption DEF NothingMissed, server
<1>4. CursorInv'
  <2> SUFFICES ASSUME NEW p \in Players
               PROVE  /\ row'[p].lastEnd <= now'
                      /\ Unfinished(row'[p]) => (Covered(p, row[p]) /\ Continues(p, row[p]))'
    BY DEF CursorInv
  <2>1. row'[p].lastEnd <= now'
    BY <1>1 DEF CursorInv, server
  <2>2. Unfinished(row'[p]) => Covered(p, row[p]) /\ Continues(p, row[p])
    BY <1>1 DEF CursorInv, Unfinished
  <2>3. InWindow(p, row[p])' = InWindow(p, row[p])
    BY DEF InWindow, server
  <2> QED BY <2>1, <2>2, <2>3 DEF Covered, Continues, Early, server
<1> QED BY <1>2, <1>3, <1>4 DEF ScanInv

(* A cycle starts, and takes the roster. *)
LEMMA StartKeeps == ASSUME ScanInv, StartCycle PROVE ScanInv'
<1>1. /\ ScanTypeOK /\ ServerInv /\ began' = now /\ UNCHANGED <<server, disk, window>>
      /\ \/ phase' = "roster" /\ queue' = queue
         \/ phase' = "pick" /\ queue' \in Due(row)
  BY DEF ScanInv, StartCycle, Discover
<1>2. queue' \in Seq(Players)
  BY <1>1, DueType DEF ScanTypeOK
<1>3. ScanTypeOK' /\ CycleInv'
  BY <1>1, <1>2 DEF ScanTypeOK, CycleInv, ServerInv, server, disk
<1> QED BY <1>1, <1>3, QuietKeeps DEF server, disk

(* The first transaction of the roster: new rows, no cursor. *)
LEMMA RecordKeeps == ASSUME ScanInv, NEW roster, Record(roster) PROVE ScanInv'
<1>1. /\ ScanTypeOK /\ CycleInv /\ phase = "roster" /\ phase' = "recorded"
      /\ row' = [p \in Players |-> IF p \in roster THEN [row[p] EXCEPT !.active = TRUE, !.seen = began] ELSE row[p]]
      /\ UNCHANGED <<server, refreshed, known, since, began, queue, window>>
  BY DEF ScanInv, Record
<1>2. /\ row' \in [Players -> Rows]
      /\ \A p \in Players : /\ row'[p].lastEnd = row[p].lastEnd /\ row'[p].start = row[p].start
                            /\ row'[p].end = row[p].end /\ row'[p].next = row[p].next
  BY <1>1 DEF ScanTypeOK, Rows
<1>3. ScanTypeOK' /\ CycleInv'
  BY <1>1, <1>2 DEF ScanTypeOK, CycleInv, server
<1> QED BY <1>1, <1>2, <1>3, QuietKeeps

(* The second one: who is active, and who is scanned in this cycle. *)
LEMMA FinalizeKeeps == ASSUME ScanInv, Finalize PROVE ScanInv'
<1>1. /\ ScanTypeOK /\ CycleInv /\ phase = "recorded" /\ phase' = "pick"
      /\ row' = [p \in Players |-> [row[p] EXCEPT !.active = row[p].seen = began]]
      /\ refreshed' = began /\ queue' \in Due(row')
      /\ UNCHANGED <<server, known, since, began, window>>
  BY DEF ScanInv, Finalize, Discover
<1>2. /\ row' \in [Players -> Rows]
      /\ \A p \in Players : /\ row'[p].lastEnd = row[p].lastEnd /\ row'[p].start = row[p].start
                            /\ row'[p].end = row[p].end /\ row'[p].next = row[p].next
  BY <1>1 DEF ScanTypeOK, Rows
<1>3. queue' \in Seq(Players)
  BY <1>1, DueType
<1>4. ScanTypeOK' /\ CycleInv'
  BY <1>1, <1>2, <1>3 DEF ScanTypeOK, CycleInv, server
<1> QED BY <1>1, <1>2, <1>4, QuietKeeps

(* A cycle that ends, or is abandoned, at any place loses no cursor: every *)
(* page has been committed with it.                                        *)
LEMMA ForgetKeeps == ASSUME ScanInv, Forget, UNCHANGED <<server, disk>> PROVE ScanInv'
<1>1. /\ ScanTypeOK /\ phase' = "idle" /\ began' = 0 /\ queue' = <<>> /\ window' = NoWindow
  BY DEF ScanInv, Forget
<1>2. ScanTypeOK' /\ CycleInv'
  BY <1>1 DEF ScanTypeOK, CycleInv, NoWindow, Windows, server, disk
<1> QED BY <1>1, <1>2, QuietKeeps DEF disk

(* A scan begins or goes on. *)
LEMMA PickKeeps == ASSUME ScanInv, Pick PROVE ScanInv'
<1> DEFINE p == Head(queue)
<1>1. /\ ScanTypeOK /\ ServerInv /\ CycleInv /\ CursorInv /\ NothingMissed
      /\ phase = "pick" /\ queue # <<>> /\ window' = WindowOf(row[p]) /\ phase' = "page"
      /\ UNCHANGED <<server, disk, began, queue>>
  BY DEF ScanInv, Pick
<1>2. /\ p \in Players /\ row[p] \in Rows /\ row[p].lastEnd <= now
      /\ began \in Nat /\ began <= now /\ Lookback <= began
  BY <1>1 DEF ScanTypeOK, CycleInv, CursorInv
<1>3. PICK w : w = WindowOf(row[p])
  OBVIOUS
<1>4. /\ Lookback \in Nat \ {0} /\ Overlap \in Nat /\ Pages \in Nat \ {0}
  BY ScanAssumption
<1>5. w \in Windows /\ w.end # 0 /\ w.pages # 0 /\ Covered(p, w) /\ Continues(p, w)
  <2>1. CASE Unfinished(row[p])
    <3>1. w = [start |-> row[p].start, end |-> row[p].end, next |-> row[p].next, pages |-> Pages]
      BY <1>3, <2>1 DEF WindowOf
    <3>2. Covered(p, row[p]) /\ Continues(p, row[p])
      BY <1>1, <1>2, <2>1 DEF CursorInv
    <3>3. w.start = row[p].start /\ w.end = row[p].end /\ w.next = row[p].next
      BY <3>1
    <3>4. InWindow(p, w) = InWindow(p, row[p])
      BY <3>3 DEF InWindow
    <3>5. Covered(p, w) /\ Continues(p, w)
      BY <3>2, <3>3, <3>4 DEF Covered, Continues, Early
    <3> QED BY <1>2, <1>4, <2>1, <3>1, <3>5 DEF Rows, Windows, Unfinished
  <2>2. CASE ~Unfinished(row[p])
    <3>1. /\ w.end = began /\ w.next = 0 /\ w.pages = Pages
          /\ w.start = IF row[p].lastEnd = 0 THEN began - Lookback
                       ELSE IF row[p].lastEnd > Overlap THEN row[p].lastEnd - Overlap ELSE 0
          /\ w = [start |-> w.start, end |-> began, next |-> 0, pages |-> Pages]
      BY <1>3, <2>2 DEF WindowOf
    <3>2. /\ w.start \in Nat
          /\ row[p].lastEnd # 0 => w.start = 0 \/ w.start + Overlap <= row[p].lastEnd
      BY <1>2, <1>4, <3>1 DEF Rows
    <3>3. w \in Windows
      BY <1>2, <1>4, <3>1, <3>2 DEF Windows
    <3>4. Continues(p, w)
      BY <2>2, <3>2 DEF Continues, Unfinished
    <3>5. \A m : Rank(InWindow(p, w), m) \in Nat
      BY <1>1, ListIsFinite, RankType
    <3>6. Covered(p, w)
      BY <1>2, <3>1, <3>5 DEF Covered
    <3> QED BY <1>2, <1>4, <3>1, <3>3, <3>4, <3>6
  <2> QED BY <2>1, <2>2
<1>6. window' = w /\ Head(queue)' = p
  BY <1>1, <1>3
<1>7. ScanTypeOK' /\ ServerInv' /\ CycleInv'
  BY <1>1, <1>5, <1>6 DEF ScanTypeOK, ServerInv, CycleInv, server, disk
<1>8. NothingMissed'
  BY <1>1 DEF NothingMissed, server, disk
<1>9. CursorInv'
  <2>1. (Covered(Head(queue), window) /\ Continues(Head(queue), window))'
    BY <1>1, <1>5, <1>6 DEF Covered, Continues, Early, InWindow, server, disk
  <2>2. ASSUME NEW q \in Players
        PROVE  /\ row'[q].lastEnd <= now'
               /\ Unfinished(row'[q]) => (Covered(q, row[q]) /\ Continues(q, row[q]))'
    BY <1>1, <2>2 DEF CursorInv, Unfinished, Covered, Continues, Early, InWindow, server, disk
  <2> QED BY <2>1, <2>2 DEF CursorInv
<1> QED BY <1>7, <1>8, <1>9 DEF ScanInv

(* A page: what it passes is known with the cursor, and a short page has   *)
(* passed the whole window.                                                *)
LEMMA PagePasses ==
  ASSUME ScanTypeOK, ServerInv, NEW p, NEW w \in Windows, Covered(p, w),
         NEW m \in Matches, Early(p, w, m), m \notin known \cup Batch(p, w)
  PROVE  /\ w.next + Cardinality(Batch(p, w)) <= Rank(InWindow(p, w), m)
         /\ ~(Cardinality(Batch(p, w)) < Count)
<1> DEFINE S == InWindow(p, w)
           B == Batch(p, w)
<1>1. S \in SUBSET Nat /\ IsFiniteSet(S) /\ B = Slice(S, w.next) /\ w.next \in Nat
  BY ListIsFinite DEF Batch, Slice, Windows
<1>2. /\ Cardinality(B) \in 0..Count /\ Count \in Nat
      /\ Cardinality(B) < Count => \A n \in S : Rank(S, n) < w.next + Count
  BY <1>1, SliceIsShort, ScanAssumption
<1>3. m \in S
  <2>1. /\ Owner[m] = p /\ at[m] # 0 /\ w.start <= at[m] /\ at[m] + Lag < w.end /\ w.end <= now
        /\ at[m] \in Nat /\ Lag \in Nat /\ w.end \in Nat /\ now \in Nat
    BY ScanAssumption DEF Early, Covered, ScanTypeOK, Windows
  <2>2. m \in listed /\ at[m] <= w.end
    BY <2>1 DEF ServerInv
  <2> QED BY <2>1, <2>2 DEF InWindow
<1>4. w.next <= Rank(S, m) /\ Rank(S, m) \in Nat
  BY <1>1, RankType DEF Covered
<1>5. ~(Rank(S, m) < w.next + Count)
  BY <1>1, <1>3, <1>4 DEF Slice
<1> HIDE DEF S, B
<1>6. ~(Cardinality(B) < Count)
  BY <1>2, <1>3, <1>5
<1>7. w.next + Cardinality(B) <= Rank(S, m)
  BY <1>1, <1>2, <1>4, <1>5
<1> QED BY <1>6, <1>7 DEF S, B

(* The window that continues what was scanned before joins it. *)
LEMMA WindowJoins ==
  ASSUME ScanTypeOK, NothingMissed, NEW p \in Players, NEW w \in Windows, Continues(p, w),
         NEW m \in Matches, Owner[m] = p, at[m] # 0, at[m] < w.start,
         row[p].lastEnd # 0, since[p] <= at[m]
  PROVE  m \in known
<1>1. /\ at[m] \in Nat /\ w.start \in Nat /\ row[p].lastEnd \in Nat
      /\ Lag \in Nat /\ Overlap \in Nat /\ Lag <= Overlap
  BY ScanAssumption DEF ScanTypeOK, Windows, Rows
<1>2. w.start + Overlap <= row[p].lastEnd
  BY <1>1 DEF Continues
<1>3. at[m] + Lag < row[p].lastEnd
  BY <1>1, <1>2
<1> QED BY <1>3 DEF NothingMissed

(* The commit of a page keeps the invariant, for the full and the short page. *)
LEMMA PageKeeps == ASSUME ScanInv, Page PROVE ScanInv'
<1>1. /\ ScanTypeOK /\ ServerInv /\ CycleInv /\ CursorInv /\ NothingMissed /\ phase = "page"
  BY DEF ScanInv, Page
<1>2. PICK p : p = Head(queue)
  OBVIOUS
<1>3. PICK w : w = window
  OBVIOUS
<1>4. /\ p \in Players /\ w \in Windows /\ w.end # 0 /\ w.pages # 0 /\ queue # <<>> /\ queue \in Seq(Players)
      /\ Covered(p, w) /\ Continues(p, w) /\ row[p] \in Rows /\ w.end <= now /\ now \in Nat
  BY <1>1, <1>2, <1>3 DEF ScanTypeOK, CycleInv, CursorInv, Covered
<1> DEFINE batch == Batch(p, w)
           c == Cardinality(batch)
           leaves == c < Count \/ w.pages = 1
<1>5. /\ known' = known \cup batch
      /\ row' = [row EXCEPT ![p] = IF c < Count
                                   THEN [@ EXCEPT !.lastEnd = w.end, !.start = 0, !.end = 0, !.next = 0]
                                   ELSE [@ EXCEPT !.start = w.start, !.end = w.end, !.next = w.next + c]]
      /\ since' = [since EXCEPT ![p] = IF row[p].lastEnd = 0 /\ row[p].end = 0 THEN w.start ELSE @]
      /\ window' = IF leaves THEN NoWindow ELSE [w EXCEPT !.next = w.next + c, !.pages = @ - 1]
      /\ queue' = IF leaves THEN Tail(queue) ELSE queue
      /\ phase' = IF leaves THEN "pick" ELSE "page"
      /\ UNCHANGED <<server, refreshed, began>>
  BY <1>2, <1>3 DEF Page
<1>6. batch \in SUBSET Matches /\ c \in Nat /\ IsFiniteSet(batch)
  <2>1. batch \in SUBSET Matches
    BY <1>1 DEF Batch, InWindow, ScanTypeOK
  <2> QED BY <2>1, ScanAssumption, FS_Subset, FS_CardinalityType
<1>7. ASSUME NEW m \in Matches, Early(p, w, m), m \notin known'
      PROVE  w.next + c <= Rank(InWindow(p, w), m) /\ ~(c < Count)
  BY <1>1, <1>4, <1>5, <1>7, PagePasses
<1> HIDE DEF batch, c
<1>8. /\ \A q \in Players : q # p => row'[q] = row[q] /\ since'[q] = since[q]
      /\ since'[p] = IF row[p].lastEnd = 0 /\ row[p].end = 0 THEN w.start ELSE since[p]
      /\ c < Count => row'[p].lastEnd = w.end /\ row'[p].end = 0
      /\ ~(c < Count) => /\ row'[p].lastEnd = row[p].lastEnd
                         /\ row'[p].start = w.start /\ row'[p].end = w.end /\ row'[p].next = w.next + c
      /\ row' \in [Players -> Rows] /\ since' \in [Players -> Nat]
  <2>1. w.end \in Nat /\ w.start \in Nat /\ w.next + c \in Nat
    BY <1>4, <1>6 DEF Windows
  <2>2. row \in [Players -> Rows] /\ since \in [Players -> Nat]
    BY <1>1 DEF ScanTypeOK
  <2>3. since' \in [Players -> Nat] /\ \A q \in Players : q # p => since'[q] = since[q]
    BY <1>4, <1>5, <2>1, <2>2
  <2>4. since'[p] = IF row[p].lastEnd = 0 /\ row[p].end = 0 THEN w.start ELSE since[p]
    BY <1>4, <1>5, <2>2
  <2>5. CASE c < Count
    BY <1>4, <1>5, <2>1, <2>2, <2>3, <2>4, <2>5 DEF Rows
  <2>6. CASE ~(c < Count)
    BY <1>4, <1>5, <2>1, <2>2, <2>3, <2>4, <2>6 DEF Rows
  <2> QED BY <2>5, <2>6
<1>9. ScanTypeOK' /\ ServerInv' /\ CycleInv'
  <2>1. window' \in Windows /\ queue' \in Seq(Players) /\ phase' \in {"pick", "page"}
        /\ (phase' = "page" => queue' # <<>> /\ window'.end # 0 /\ window'.pages # 0)
    <3>1. CASE leaves
      BY <1>4, <1>5, <3>1 DEF NoWindow, Windows
    <3>2. CASE ~leaves
      <4>1. window' = [w EXCEPT !.next = w.next + c, !.pages = @ - 1] /\ queue' = queue
        BY <1>5, <3>2
      <4>2. w.next \in Nat /\ w.pages \in Nat /\ w.pages - 1 \in Nat /\ w.pages - 1 # 0
        BY <1>4, <3>2 DEF Windows
      <4>3. window' \in Windows /\ window'.end = w.end /\ window'.pages = w.pages - 1
        <5>1. \A n \in Nat, k \in Nat : [w EXCEPT !.next = n, !.pages = k] \in Windows
          BY <1>4 DEF Windows
        <5>2. window' = [w EXCEPT !.next = w.next + c, !.pages = w.pages - 1]
          BY <1>4, <4>1 DEF Windows
        <5>3. w.next + c \in Nat /\ window'.end = w.end /\ window'.pages = w.pages - 1
          BY <1>4, <1>6, <4>2, <5>2 DEF Windows
        <5> QED BY <4>2, <5>1, <5>2, <5>3
      <4> QED BY <1>4, <1>5, <4>1, <4>2, <4>3
    <3> QED BY <3>1, <3>2
  <2>2. known' \subseteq Matches
    BY <1>1, <1>5, <1>6 DEF ScanTypeOK
  <2> QED BY <1>1, <1>5, <1>8, <2>1, <2>2 DEF ScanTypeOK, ServerInv, CycleInv, server
<1>10. NothingMissed'
  <2> SUFFICES ASSUME NEW m \in Matches, NEW q \in Players, q = Owner[m],
                      at[m] # 0, row'[q].lastEnd # 0, since'[q] <= at[m], at[m] + Lag < row'[q].lastEnd
               PROVE  m \in known'
    BY <1>5, ScanAssumption DEF NothingMissed, server
  <2>1. CASE q # p
    BY <1>1, <1>5, <1>8, <2>1 DEF NothingMissed
  <2>2. CASE q = p /\ ~(c < Count)
    BY <1>1, <1>5, <1>8, <2>2 DEF NothingMissed
  <2>3. CASE q = p /\ c < Count
    <3>1. /\ at[m] + Lag < w.end /\ at[m] \in Nat /\ w.start \in Nat
      BY <1>1, <1>4, <1>8, <2>3 DEF ScanTypeOK, Windows
    <3>2. CASE w.start <= at[m]
      <4>1. Early(p, w, m)
        BY <2>3, <3>1, <3>2 DEF Early
      <4> QED BY <1>7, <2>3, <4>1
    <3>3. CASE ~(w.start <= at[m])
      <4>1. at[m] < w.start /\ since'[p] # w.start
        BY <2>3, <3>1, <3>3
      <4>2. since'[p] = since[p] /\ row[p].lastEnd # 0
        BY <1>4, <1>8, <4>1 DEF Continues
      <4> QED BY <1>1, <1>4, <1>5, <2>3, <4>1, <4>2, WindowJoins
    <3> QED BY <3>2, <3>3
  <2> QED BY <2>1, <2>2, <2>3
<1>11. CursorInv'
  <2>1. InWindow(p, w)' = InWindow(p, w) /\ now' = now /\ at' = at
    BY <1>5 DEF InWindow, server
  <2>2. ASSUME NEW v, v.start = w.start, v.end = w.end, v.next = w.next + c
        PROVE  Covered(p, v)'
    <3>1. InWindow(p, v)' = InWindow(p, w)
      BY <2>1, <2>2 DEF InWindow
    <3>2. \A m \in Matches : Early(p, v, m)' => Early(p, w, m)
      BY <2>1, <2>2 DEF Early
    <3> QED BY <1>4, <1>7, <2>1, <2>2, <3>1, <3>2 DEF Covered
  <2>3. ASSUME NEW v, v.start = w.start, ~(c < Count)
        PROVE  Continues(p, v)'
    BY <1>4, <1>8, <2>3 DEF Continues
  <2>4. ASSUME NEW q \in Players
        PROVE  /\ row'[q].lastEnd <= now'
               /\ Unfinished(row'[q]) => (Covered(q, row[q]) /\ Continues(q, row[q]))'
    <3>1. CASE q # p
      <4>1. /\ row'[q] = row[q] /\ since'[q] = since[q] /\ row[q].lastEnd <= now
            /\ Unfinished(row[q]) => Covered(q, row[q]) /\ Continues(q, row[q])
        BY <1>1, <1>8, <3>1 DEF CursorInv
      <4>2. InWindow(q, row[q])' = InWindow(q, row[q])
        BY <1>5, <4>1 DEF InWindow, server
      <4> QED BY <1>5, <2>1, <4>1, <4>2 DEF Covered, Continues, Early
    <3>2. CASE q = p /\ c < Count
      BY <1>4, <1>8, <2>1, <3>2 DEF Unfinished
    <3>3. CASE q = p /\ ~(c < Count)
      <4>1. PICK v : v = row'[p]
        OBVIOUS
      <4>2. Covered(p, v)' /\ Continues(p, v)'
        BY <1>8, <2>2, <2>3, <3>3, <4>1
      <4>3. row'[p].lastEnd <= now'
        BY <1>1, <1>4, <1>8, <2>1, <3>3 DEF CursorInv
      <4> QED BY <3>3, <4>1, <4>2, <4>3 DEF Covered, Continues, Early, InWindow
    <3> QED BY <3>1, <3>2, <3>3
  <2>5. ASSUME phase' = "page" PROVE (Covered(Head(queue), window) /\ Continues(Head(queue), window))'
    <3>1. ~leaves /\ window' = [w EXCEPT !.next = w.next + c, !.pages = @ - 1] /\ Head(queue)' = p
      BY <1>2, <1>5, <2>5
    <3>2. PICK v : v = window'
      OBVIOUS
    <3>3. v.start = w.start /\ v.end = w.end /\ v.next = w.next + c
      BY <1>4, <3>1, <3>2 DEF Windows
    <3>4. Covered(p, v)' /\ Continues(p, v)'
      BY <2>2, <2>3, <3>1, <3>3
    <3> QED BY <3>1, <3>2, <3>4 DEF Covered, Continues, Early, InWindow
  <2> QED BY <2>4, <2>5 DEF CursorInv
<1> QED BY <1>9, <1>10, <1>11 DEF ScanInv

(* Every step of the collector process, of its user, of the server and of  *)
(* the players of the game.                                                *)
LEMMA ScanStep == ASSUME ScanInv, [CollectorNext]_allVars PROVE ScanInv'
<1>1. ASSUME UNCHANGED scanVars PROVE ScanInv'
  BY <1>1 DEF scanVars, server, disk, cycle, ScanInv, ScanTypeOK, ServerInv, CycleInv, CursorInv,
              NothingMissed, Covered, Continues, Early, InWindow
<1>2. ASSUME Abandon PROVE ScanInv'
  BY <1>2, ForgetKeeps DEF Abandon
<1>3. CASE Ask \/ Waiting \/ User \/ Fails
  BY <1>1, <1>2, <1>3 DEF Ask, Waiting, User, Fails
<1>4. CASE Answered
  BY <1>2, <1>4, StartKeeps, RecordKeeps, PageKeeps DEF Answered
<1>5. CASE Work
  BY <1>5, FinalizeKeeps, PickKeeps, ForgetKeeps DEF Work, EndCycle
<1>6. CASE Server \/ Game
  BY <1>6, ServerKeeps
<1>7. CASE UNCHANGED allVars
  BY <1>1, <1>7 DEF allVars
<1> QED BY <1>3, <1>4, <1>5, <1>6, <1>7 DEF CollectorNext, Process

(* Before the first cycle nothing was scanned. *)
LEMMA ScanStart == ASSUME ScanInit PROVE ScanInv
<1>1. Lookback \in Nat \ {0}
  BY ScanAssumption
<1>2. ScanTypeOK
  BY <1>1 DEF ScanInit, ScanTypeOK, Rows, Windows, NoWindow
<1>3. ServerInv /\ CycleInv
  BY <1>1 DEF ScanInit, ServerInv, CycleInv
<1>4. CursorInv /\ NothingMissed
  BY <1>1, ScanAssumption DEF ScanInit, CursorInv, Unfinished, NothingMissed
<1> QED BY <1>2, <1>3, <1>4 DEF ScanInv

(* What the cursors of the players have passed is known, and every window  *)
(* joins the one before it: for any number of players and matches, any lag *)
(* of the server within the overlap, any pages, cycles, errors, restarts.  *)
THEOREM ScanInvariant == CollectorSpec => []ScanInv
<1>1. CollectorInit => ScanInv
  BY ScanStart DEF CollectorInit
<1>2. ScanInv /\ [CollectorNext]_allVars => ScanInv'
  BY ScanStep
<1> QED BY <1>1, <1>2, PTL DEF CollectorSpec

(* A match that was listed before a window of its player ended is known    *)
(* when that window is done, however the scan was cut and whatever the     *)
(* server listed in between.                                               *)
THEOREM NothingIsMissed == CollectorSpec => []NothingMissed
<1>1. ScanInv => NothingMissed
  BY DEF ScanInv
<1> QED BY <1>1, ScanInvariant, PTL
===============================================================================
