# Verification of the run kernel, the training calls and the match collector

TLA+ models of the stateful core of this repository, model-checked with TLC on small instances, with safety theorems proved in TLAPS for every size. The definitions are translated from the source; `PROJECT.json` maps each one to its file and lines.

    tlc -workers 2 -config RunLedger.cfg MCRunLedger.tla      # a run; PROJECT.json lists them
    tlapm RunLedgerProofs.tla                                 # a proof module

## 1. Inventory

The repository is a research monorepo. Most of it is numeric code (models, metrics, fight detection) and dated studies. The parts below keep state that outlives a call, or run things side by side. Those are the parts where the order of steps decides whether the system is correct.

| Part | State it keeps | Operations | What is hard | What makes it correct |
|---|---|---|---|---|
| Run ledger (`c_ept/run/ledger.py`, `io.py`) | `HEADER.json`, `LEDGER.json`, `stages/<s>.json` | create, open, begin, finish, note, resume | stops and failed writes between two files, files changed meanwhile, power loss | a certified stage stays certified; every stop can be resumed; no mixed inputs |
| Run supervisor (`supervisor.py`, `job.py`) | `RUN.lock`, the child's job, the exit code | `run()`: gates, lock, stages, stop note | kills anywhere, orphans, hand-deleted locks, a note written without the lock | stages run under the lock; success means verified; no stage computed twice; every call ends |
| Prefetch (`prefetch.py`) | queue, semaphore, events, wrapper lock | produce, next, close, epoch | two threads, timeouts, interrupts, an abandoned iterator | the plain epochs, bounded memory, one producer, no lost thread |
| Holdout access (`evaluate.py`) | access ledger, TEST marker, lock, rehearsal runs | check, open, append | check before the lock, crashes, edited or remade ledgers | TEST opened once, after a rehearsal; no unlogged number |
| Match collector (`COG/acquisition/collector.py`, `state.py`, `raw_store.py`) | SQLite queue, two raw folders | enqueue, recover, request, store, settle | database and folders are two stores; crashes; spent attempts; quota | database and folders agree; settled stays settled; the queue never blocks |
| Key wait (`COG/acquisition/supervisor.py`, `key_provider.py`) | key file, remembered fingerprint | poll, probe, resume | the file is read at several moments | collection resumes with a good key |
| Player discovery (`collector.py`, `state.py`) | players table, scan windows and cursors, roster | rank snapshot, choose, page, commit | matches listed late, pages that shift, windows cut into cycles and restarts, waits for a key | no match missed; every player gets its turn |
| Training calls (`c_ept/ept/train.py`, `checkpoints.py`) | call markers, heartbeats, checkpoint folders, failure files | call, adopt, guard, save, abort | dying without a marker, torn folders, crash loops, a budget over many calls | no second lost; every cut readable; a run cut into calls is the uncut run; it ends |
| Rate limiter (`client.py`) | request times | acquire, block | none: one sequential caller | never over a limit |
| Comparison campaign (`c_ept/comparison/infrastructure.py`) | campaign ledger, budget | begin, finish, abort, seal | controller and worker processes | caps hold, a phase runs once |

**How they interact.** A supervisor call owns a ledger object and starts one child for each stage. A training child reads its batches through the prefetch. An evaluation child goes through the access ledger, and its rehearsal is another run folder, certified by another run ledger. The collector supervisor restarts the collector cycle and waits for keys. The cycle uses the state, the raw store and the client. The two groups (EPT and acquisition) share no state.

Everything else (stores, models, labels, reports, copies in `master_ver`) is listed as `not_modelled` in `PROJECT.json` with its reason. Mostly it is sequential, numeric, or superseded by the run kernel.

## 2. Modules and code

| Module | Models | Composition |
|---|---|---|
| `StageLog` | what a ledger promises: an append-only log of certified stages | abstract |
| `RunLedger` | `Ledger`, operation by operation, write by write | implements `StageLog` |
| `RunLedgerInv`, `RunLedgerProofs` | inductive invariant; proofs | extend `RunLedger` |
| `RunSupervisor` | whole calls of `run()`, with child, lock, notes, exit code | extends `RunLedger`: its ledger steps *are* RunLedger's |
| `RunSupervisorInv`, `RunSupervisorProofs` | inductive invariant; proofs | extend `RunSupervisor`, and use the lemmas of `RunLedgerProofs` |
| `OrderedEpochs` | what a consumer sees of a batch source without prefetch | abstract |
| `Prefetch` | producer thread, consumer thread, wrapper | implements `OrderedEpochs` |
| `PrefetchInv`, `PrefetchProofs` | inductive invariant; proofs | extend `Prefetch` |
| `HoldoutAccess` | `AccessLedger`, `HoldoutGate`, the access step of `evaluate` | alone |
| `HoldoutAccessInv`, `HoldoutAccessProofs` | inductive invariant; proofs | extend `HoldoutAccess` |
| `TrainRun` | what a training run is, whatever its calls: epochs in order, an account that never goes down, a final refusal | abstract |
| `TrainCalls` | `train()`, its markers, heartbeats, guard and checkpoints, call after call | implements `TrainRun` |
| `TrainCallsInv`, `TrainCallsProofs` | inductive invariant; proofs | extend `TrainCalls` |
| `MatchCollector` | download queue, raw pairs, instance lock, restarts | alone |
| `MatchCollectorInv`, `MatchCollectorProofs` | inductive invariant; proofs | extend `MatchCollector` |
| `KeyWait` | key file, requests, `_wait_for_auth` | part of `CollectorScan`; `MatchCollector` has the wait as part of one step |
| `PlayerScan` | rank snapshot, `players_due`, windows, pages, cursor; the server's lists | part of `CollectorScan` |
| `CollectorScan` | the loop of the collector process | composes `KeyWait` and `PlayerScan`: every request of a cycle is a request of `KeyWait` |
| `CollectorScanInv`, `CollectorScanProofs` | inductive invariant; proofs | extend `CollectorScan` |
| `MC*` | model values and small definitions for TLC | extend the module they name |

Operators named `...Anyway`, `...Unchecked` and the like, under a comment that begins with "Bug:", are wrong variants. `PROJECT.json` ("mutants") uses each in the place of a real definition to show that a property notices.

**RunLedger.** `header`, `ledger` and `stageFile` are the three kinds of documents, `file` the files that stages read and write, `obj[o]` the Python object of a process. An operation that writes `LEDGER.json` takes two steps: the checks, which compute the document (`pending`), and `Commit` (`write_json_atomic`). `CommitFails`, `Stop` and `ChangeFile` fall anywhere between. `Finish` writes the stage file; the ledger entry follows in `Commit`. `Resume` verifies and completes a half-finished stage. A hash is represented by what it hashes. Taking all digests of one call is one step, and so is reading a document.

**RunSupervisor.** `pc[c]` walks through `_execute`. `tree[c]` is the child with its descendants in the job object. `Kill` ends the call and, as the job is closed with it, the tree. `Fail` is any error of the call. `PowerCut` ends all calls and may lose the newest stage file. `NoteStop` and `WriteStop` are the stop note, which `run()` writes *after* the lock is gone (supervisor.py:591). A call is one process, so a restart is another call. Exit codes 2 and 3 are both "error".

**Prefetch.** Each epoch has its own `_Shared` (`slots`, `items`, `cancel`, `done`) and producer; `at[e]` and `con` are the two program counters. Waits with a timeout may give up whenever they would block. A join runs into its limit only while the producer is inside the source, its transform or its close.

**HoldoutAccess.** A run is one execution of the evaluate stage. `ledger.making` stands for the `created` entry that the S5 lock names, so a ledger made again has another. `append` is `TakeLock`, `Read`, `Mark` (TEST only), `Write`, `Unlock`; the gate is checked at `Start` and at `Open`, before the lock. People may delete a lock whose holder is over, cut entries, and remake the ledger. The default backend refuses TEST for now (`Backend.evaluates`); the model is of the gate that is there for it.

**MatchCollector.** The statuses `pending` and `retry` are one, as every query asks for both. `Examine` is `read_valid_pair` with what follows from it, `Attempt` is `mark_attempt`, `AskDetail` and `AskTimeline` the requests, `PutDetail` and `PutTimeline` the two replacements of `write_pair`, `Record` is `mark_complete`. Files of any kind may lie in the folders at first.

**KeyWait.** A request reads the file (`Read`, `ProbeRead`) and is answered later with that key (`Answer`, `ProbeAnswer`). `tested` is the key the poll saw, `previous` the one the loop waits to see replaced.

**TrainCalls.** `last`, `best` and `heads` are the files of the epoch folders, `calls` the pending and final markers with the last heartbeat, `failed` a resource failure file. `pc` follows `_run`: `Start` reads the folder, `Adopt` gives a call without end its final marker, `Begin` writes the pending marker and restores the state, `EpochEnd` to `WriteHead` are an epoch and its checkpoint, `Finish` is the final marker. Time is a clock that ticks, `Beat` a heartbeat. The memory bound is one fact: a sample at the cap. A sample that cannot be read matters at the guards only. No time passes while a checkpoint or a marker is written (in the code `done` is decided at line 1695 and the account read at 1703). The STOP loss is any value, so nothing depends on the numeric step being repeatable.

**PlayerScan, CollectorScan.** `row` is a row of the players table, `known` the matches table. `phase`, `began`, `queue` and `window` are the locals of `run_cycle`, `discover_matches` and `_discover_for_player`; every way out of the cycle forgets them (`Abandon`, `EndCycle`). `Due` is the set of orders that the query of `players_due` may return - there is one, as names differ. `Page` is `commit_player_scan_page`, one transaction. `last_rank_refresh` is set by `Finalize`. The server is external: it lists the matches of a player newest first and each at most `Lag` after it was played. The model assumes `Lag <= Overlap`, which is what `scan_overlap_seconds` is for. Downloads are left out of these cycles; they read the matches table only.

## 3. Runs

| Run | Shows | Bounds |
|---|---|---|
| `ledger` | recoverability, receipts, fixed inputs, refinement of `StageLog`, the inductive invariant | one owner at a time (restarts reuse it), 2 stages, 2 files, 2 contents, 1 note |
| `supervisor` | lock, quiet certification, verified success, every call ends | 2 calls, 2 stages, 2 contents |
| `supervisor_restarts` | a certified stage is never computed again; a run that lost a stage file with the power stops | 3 calls, 1 stage, symmetric calls |
| `stale_stop_note` | *violation*: see findings | 2 calls, 1 stage |
| `prefetch` | plain epochs, depth, one producer, no false death, progress | depth 2 (the depth of the code), up to 3 batches, 2 epochs |
| `holdout` | TEST opened once, rehearsed, numbers logged, the inductive invariant | 2 TEST runs, 2 DEV runs (one of another set-up), 2 changes by people |
| `collector` | folders and database agree, quota, settled stays, all settles, the inductive invariant | 2 processes, 2 matches, 2 attempts, quota 1, 2 faults |
| `collector_last_attempt` | *violation*: see findings | 1 process, 1 match |
| `scan` | no window misses a match, a wait for a key ends, every match is found | 2 players, 2 matches, pages of 1, 2 pages a cycle, 1 player a cycle, time to 3, 2 keys with 2 changes, 1 error |
| `key_put_back` | *violation*: see findings | 3 keys that may be put back, 4 changes, 2 errors |
| `train` | the account, readable cuts, crash loops, patience, best epoch and end as in the uncut run, refinement of `TrainRun`, every run ends, the inductive invariant | 4 epochs, patience 2, 2 losses, heartbeat period 1, cap 1, clock to 2, 2 faults, both settings of `on_wall_cap` |
| `budget_end` | *violation*: see findings | 2 epochs, patience 1, cap 2, clock to 3, `best_stop`, 1 fault |

**Why these bounds.** Two is the least number at which the hazards exist: two stages for an input that another stage certified; two calls for a lock; two TEST runs for a second opening; two matches for a queue with a head. Three calls let a late note fall between two others; three batches against depth 2 make both threads wait, and let two batches, or batches with the end or an error behind them, wait in the queue together; a page of one match makes every page a full one and every insertion a shift; a cap of one period is reached within an epoch or at its end, and passed by the second charge of an orphan. A restart is another owner or call, and in `ledger` one owner may restart any number of times. `MaxChanges`, `MaxErrors` and `MaxFaults` bound people, the network and crashes. What they bound may happen at every step; two faults put one inside the recovery from another. Two faults also make the crash loop: two calls that die one after the other. A patience of two lets a call begin with a count of one, and four epochs keep the end by patience apart from the horizon. `MaxTime` and `MaxSeconds` bound clocks. The proofs of section 5 remove the bounds for the modules they are about.

**Deadlock** is not checked where the system may rightly stop: all calls have exited (`RunSupervisor`), all epochs are used (`Prefetch`), all runs are over (`HoldoutAccess`), a run is refused for good (`TrainCalls`), no change is left (`KeyWait`).

**Fairness.** It is weak, with one exception, and on a process's own steps. `RunSupervisor`: the call's code, which includes the budget check at every poll and hash; nothing of the child or of people. `Prefetch`: the two threads, and that a read of the source returns. `MatchCollector`: the loop, which has request time limits, and that a stopped process is started again (the watchdog). `TrainCalls`: the steps of a call, and that a call is repeated until the run has ended, as the supervisor's user does; nothing of the clock. `CollectorScan`: the loop, the clock and the server's lists; and strong fairness of `Pick`: a cycle may end by its deadline before any player, but not every cycle does (the work budget is 3000 seconds, a roster three requests). Faults are not fair, and bounded where named, so `EveryMatchSettles` says nothing of a move that fails for ever (hazard raw_store.py:272).

## 4. Findings

1. **A stale stop note can make a run unresumable** (`stale_stop_note`, supervisor.py:559). The note compares and then replaces `LEDGER.json` without the lock. If another call begins and finishes a stage in between, the old ledger comes back, and `resume` meets a stage file that no entry explains. The docstring says "Every later stop is recoverable". `CertifiedStageIsNotRerun` still holds: the run stops and nothing is recomputed.
2. **A complete pair can be given up** (`collector_last_attempt`, state.py:400). A stop after the last replacement of the last attempt, before `mark_complete`: the match becomes `exhausted` with its valid pair in the folders. The document promises that a later retry promotes it.
3. **A key that is put back may never be probed** (`key_put_back`, supervisor.py:203). After a rejected probe the loop remembers the key its poll saw and not the one the probe sent.
4. **A run that ended at its budget can be refused** (`budget_end`, train.py:1401). Under `on_wall_cap='best_stop'` the epoch that reaches the cap is the last one and its checkpoint says `done`. If the call is cut between that checkpoint and its final marker, the next call charges it over the cap, marks it `exceeded`, stores a failure file, and no later call reads the result. The comment at train.py:1578 says that such a run "is read, not charged again".

## 5. Proofs

All proofs are in the `*Proofs` modules. They assume only the named `ASSUME`s of the modules: the path sets are subsets of the files, the special values are no data, `Depth > 0`, `Tests` is a subset of `Runs`, the notes that a call writes are notes, there are finitely many players and matches, the server's lag is within the overlap, and so on. Each module states its own at its head, and TLC evaluates them in the runs.

**RunLedgerProofs**: `TypeCorrect`, `InductiveInvariant`, `FinishedStagesAreReceipted`, `StagesReadWhatWasRecorded`, `Recoverability`, `InputsAreFixedByBegin`, `ReceiptsAreImmutable`, `LedgerImplementsStageLog`, for any stages, files, contents and owners. The disk properties are not inductive: between the checks and the write of an operation, nothing on disk says that the coming document is right. `IInv` adds that a due write is a good document that keeps every entry and certifies nothing by itself (`DueWritesAreSafe`), that the open object holds what is on disk, and that the stage file of a begun stage is the one `finish` wrote (`HalfFinishedIsOurs`). The refinement rests on the stage file being the commit point: every other step stutters. The theorems need the one owner that `RUN.lock` provides (`Alone`); finding 1 is what happens without it.

**PrefetchProofs**: `TypeCorrect`, `InductiveInvariant`, `DepthBound`, `SingleProducer`, `DeathIsReal`, `Transparent` (the refinement of `OrderedEpochs`), for any depth, batches and epochs. `IInv` accounts for every slot (`SlotsOK`) and, while nothing was interrupted or cancelled, for the place of every batch: returned, held, queued or being made (`InOrder`).

**HoldoutAccessProofs**: `InductiveInvariant`, `TypeCorrect`, `OpenedOnce`, `NumbersHaveEntries`, `RehearsalFirst`, for any runs, set-ups and changes. The argument for `OpenedOnce`: an opening, written or about to be, leaves a marker that goes only with the ledger itself (`OpeningMarked`); a TEST run beyond the gate is on the first making (`GateHolds`), so at its exclusive creation of the marker no other opening exists. For `RehearsalFirst`: the rehearsal that the gate saw before the lock is still held when the entry is written, because nobody else writes under the lock (`ReadIsCurrent`) and appends keep prefixes (lemma `HoldsAfterAppend`).

**TrainCallsProofs**: `InductiveInvariant`, `NothingIsUndercharged`, `CutsAreReadable`, `NoCrashLoopGoesOn`, `CallsImplementRun`, for any epochs, patience, losses, period, cap and faults. For the account: the pending marker and the heartbeat count from one instant (`ClockInv`), so start + heartbeat + one period is never behind the clock of the call, and the next call starts from no less than that. This needs the sampling thread to be late by no more than a period, which `Tick` assumes and (TRN-6) names as its condition. For the cuts: `head.json` is the last file, a torn folder is one no head names, and the best state of a call at work lies in a folder that is whole (`HeadsInv`, `LoopInv`). For the refinement: an epoch is finished by `WriteHead`; what is refused stays refused because a failure file, a marker `exceeded` and a crash loop are never taken back (`NotOverInv`), and the recorded account is a maximum that includes the newest head.

Its second part, `UncutInv`, is about the losses (`CutsDoNotMoveTheStop`): every head goes on from the losses of the head before it, its best epoch is *the* first minimum (`FirstOf`, and lemma `FirstOfIsUnique` for the `CHOOSE` in the property), a head says `done` exactly when patience, the horizon or the cap ends the run (`EndsRun`), and only the last one does. An epoch that was lost with its call was never a head, so the next call repeats it from the same losses. `InductiveInvariant` is both parts together.

**RunSupervisorProofs**: `SupervisorInvariant`, `StagesRunUnderTheirLock`, `CertifiedStagesAreNotRerun`, `LostReceiptsStopTheRun`, `SuccessMeansTheWholePlan`, for any plan, runs, calls and notes and with power cuts (`PowerSpec`); `CertifiedInQuiet` without them (a power cut takes a stage file away while processes may be alive, which is no certification). The difficulty is the stop note, which writes without the lock: `Alone` of `RunLedger` does not hold, and an older ledger may come back at any time. So `SupervisorInv` never says that the object of a call holds the ledger on disk. It says what survives: every ledger, on disk or due, is a start of the plan (`LedgersFollowThePlan`), the call's own object finishes the stages before the one at hand, and the stage it has begun has no stage file (`StageInProgress`); while any call may write, no finished stage of a ledger lacks its stage file (`ReceiptsWhileWriting`). Each ledger operation is first proved to be such a move (`BeginMoves` to `OpenMoves`), whoever makes it; then each step of a call keeps the places. `SuccessMeansTheWholePlan` needs that the last step of a call verifies every stage file and hash again, on the disk of that moment.

**MatchCollectorProofs**: `InductiveInvariant`, `StoresAgree`, `ExcludedAreUnpaired`, `QuotaHolds`, `SettledForGood`, for any agents, matches, attempts and quota, and files of any kind in the folders at first. Nothing makes the two stores atomic. What helps is the instance lock (`LockHeld`): the work ahead is open in the database (`WorkIsOpen`), for the match in hand the quota has room (`ItemIsOpen`), and its files are still what the examination or the last replacement left (`FilesOfItem`). A crash forgets the work, and the next start examines the files anew. The properties that the run checks are conjuncts of `IInv`: they need each other.

**CollectorScanProofs**: `ScanInvariant`, `NothingIsMissed`, for any players and matches, page size, number of pages, lookback and refresh, and any lag within the overlap. A window is read by position in a list that grows while it is read. `Covered` says: a match that was listed before the window ended is known, or its place in the server's list of this moment (`Rank`) is not before the cursor. A match that is listed later comes before the others, so it moves them back and never across the cursor (`RankGrows`, `ServerKeepsWindow`). That a short page ends the window is a counting argument: the places of a list are exactly 0..N-1 (`RankIsOneToOne`, `EveryPlaceIsTaken`), so a page that is not full has reached the end (`SliceIsShort`). `Continues` and `WindowJoins` are why `scan_overlap_seconds` has to be no less than the lag. The composition with `KeyWait` adds nothing to the argument, and that is its point: the cursor is committed with its page, so a cycle may be dropped between any two requests.

**What the invariants were checked with.** `IInv` of `RunLedger`, `Prefetch`, `HoldoutAccess`, `MatchCollector` and `TrainCalls` is a property of a run. `SupervisorInv` and `ScanInv` are not, to keep those runs short: they were checked by adding each as an `INVARIANT` to `RunSupervisor.cfg`, `RunSupervisorRestarts.cfg` and `CollectorScan.cfg`, and `ScanInv` also with pages of two, three matches, a lookback of 2 and a clock to 5. Nothing depends on it now: both are proved.

**Only model-checked.** All liveness (`EveryCallEnds`, `NextReturns`, `CancelledProducerEnds`, `EveryMatchSettles`, `EveryRunEnds`, `EveryMatchIsFound`, `Resumes`), which is out of the prover's reach. Every invariant and action property of the passing runs is a theorem. That `Due` is never empty follows by induction over the set of players, which the provers cannot do; in `scan` an empty one would stop the cycle and `EveryMatchIsFound` with it.

## 6. Not modelled, and assumptions

- Hash collisions, the contents of notes, and the limit `MAX_NOTES` on them; path syntax; the growth check of the specification file.
- A `_terminate` that cannot confirm the end of the tree: the job object is taken to kill.
- `HoldoutAccess`: the old ledger put back with its marker deleted (the code names it as what it cannot stop); a ledger remade *while* a run is between gate and entry; two creations at once; a changed rehearsal folder.
- `MatchCollector`: temporary files; power loss, after which SQLite may know a pair that the unsynced folders lost; the storage pause (it cuts a cycle short, as the deadline does); metadata and reasons.
- `KeyWait`: a key that has expired becomes valid again; the refresh command (it is the user who replaces the file).
- `Prefetch`: an interrupt that lands in `epoch()` itself, after the thread is started (prefetch.py:206-209). The wrapper is free then while the finalizer still winds that producer down; the runner does not go on from there.
- `TrainCalls`: a heartbeat that cannot be written (train.py:1205): the call ends at its next guard, but a call that is killed before that is charged less than it used. Power loss that takes a finished rename with it: `write_atomic` syncs files and not folders (checkpoints.py:61), so `EveryCutIsReadable` is about kills and orderly power cuts. The time between `done`, the account and the checkpoint of one epoch. Two processes on one folder (the run lock keeps them apart), damaged files (they are refused), the identity of a run, legacy schemas, the metrics tables.
- `PlayerScan`: cuts between the tiers of a roster and between `finalize_rank_snapshot` and `last_rank_refresh` (collector.py:99-110); the refresh is repeated and records the same rows. A server that drops or reorders a list; a player whose request always fails, who stays first in the queue (hazard state.py:262); other platforms.
- The rate limiter: its two windows serve one sequential client.
- Floating point, tensors, statistics, reports.

## 7. Plan

Done: the run kernel (ledger, supervisor, prefetch, holdout access), the training calls, the collector's queue and the discovery with its key wait, in that order: the ledger first, as all else of the kernel stands on it; and the proofs of their safety properties. Next:

1. `CampaignLedger`: phases and caps of the comparison campaign.
2. A counter of notes in `RunLedger`, for `MAX_NOTES`.
3. Proofs: an abstract specification of the collector's queue that `MatchCollector` implements; type correctness of `KeyWait`.
