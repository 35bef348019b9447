# Bindery in TLA+

A verification project for Bindery, a single Go server with a SQLite database
that searches indexers for the books of a library, hands releases to download
clients, and imports what they finish. The modules here model the parts of it
that several actors work on at once: **the life of a download**, from the grab
to the library; **the library scan**, from the request to the stored result; and
the neighbours of the two that keep state several actors write: client jobs that
rows share, held formats, files on their way into the library, the wanted search,
requests, the limits of an indexer, the delivery queue for Calibre, and the row
of a book. TLC checks small instances; TLAPS proves the most important
safety properties for every value of the constants.

Contents: [1 the system](#1-the-system), [2 the modules](#2-the-modules-and-the-code),
[3 the runs](#3-the-runs), [4 what disagrees with the comments](#4-where-code-and-comments-disagree),
[5 the proofs](#5-the-proofs), [6 limits](#6-abstractions-and-limits), [7 the plan](#7-plan).

Paths are relative to `src/internal/` unless they start with `src/`.

## 1 The system

One process, one SQLite database with a **single connection** (every statement
is atomic, two statements are not), goroutines for HTTP requests, cron jobs
(`scheduler/scheduler.go`, each wrapped so that a job never overlaps itself)
and detached jobs (`jobs/jobs.go`).

| Component | State it keeps | Operations | Hard behaviour | What makes it correct | Here |
|---|---|---|---|---|---|
| Download row and its state machine (`models/download_state.go`, `db/downloads.go`) | table `downloads`, GUID unique: status, client ids, `import_retry_count`, `dead_at`, `import_path`, dates | create; three claims for a re-grab; guarded status writes; unguarded `SetError`; column writes; recovery sweeps | read, check, write in separate statements; ids that survive a re-grab | transitions follow the table; `dead_at` describes the attempt in the row | `DownloadStates`, `DownloadRows`, `DownloadRow`, `DownloadRowCas` |
| Grab (`api/queue.go`, `scheduler/scheduler.go`, `scheduler/regrab.go`) | the row, and a goroutine between look-up, claim, send, record | by a person; by the wanted search | two grabs of one release; failure after the client accepted | the scheduler never replaces an attempt inside the cooldown; the job id is the grab's own | `DownloadGrab` |
| Download poller (`importer/scanner_poll.go`) | copies of rows and of the client's listing; skip streaks in memory | every 15 s per client: complete, failed, retry, skip, stale pass | works on copies minutes old; incomplete listings | retry budget kept; failed imports settle | `DownloadPoller` |
| Import of a finished download (`importer/scanner.go`, `api/manual_import.go`) | row status, files, `book_files` | by the poller; by Match to book | a refused status write is logged and ignored; two imports of one row | imported means filed; nobody left importing | `DownloadImport` |
| Stall checker, queue, boot sweep (`scheduler/scheduler.go`, `api/queue.go`, `src/cmd/bindery/main.go:615`) | rows | fail, retry, remove, re-arm | act on copies; a crash at any point | no budget overrun, no row left importing | `DownloadLifecycle` |
| Pair gating (`importer/scanner_pair_gating.go`) | `importHeld` rows | hold one format until its sibling arrives or a deadline | both arriving at once; settings changed meanwhile | a held format leaves the hold, and alone only late | `PairGating` |
| Shared client jobs and removal (`downloader/shared_removal.go`) | rows that name one torrent | remove unless shared | concurrent removals | removed when, and only when, nobody uses it | `SharedJobs` |
| File placement and renaming (`importer/scanner.go`, `renamer.go`, `flatten.go`, `path_owned.go`) | files, folders, `book_files` | an ebook: stage, record, rename into place, roll back; an audiobook: place, record, take back | a crash or failure at each step; merges into a folder in use | nothing lost, nothing written over, imported means whole | `ImportPlacement`, `AudiobookPlacement` |
| Series, authors and books (`db/books.go`, `api/books.go`) | `books`, `book_files` | track, untrack, refresh, edit | refreshes and edits of one row | the row says what the files say; edits stay | `BookStatus` |
| Library scan gate (`importer/scanner.go:3838`) | gate, pending flag, scan ids | start, queue one follow-up, run, release | lost requests, panics, shutdown | an accepted request gets a scan that starts after it | `ScanRequests`, `LibraryScan` |
| Background job group and pools (`jobs/jobs.go`, `concurrency/pool.go`) | active set, closed flag | start, end, shut down | start racing shutdown | nothing runs after the drain | `LibraryScan` |
| Scheduler jobs other than downloads (`scheduler/scheduler.go`) | queue and snapshot of the wanted search | search, choose, grab | minutes old snapshot | one release per format | `WantedSearch` |
| Pending releases and delay profiles (`db/pending_releases.go`, `api/pending.go`) | parked releases | park, take by a search or by hand | one that cannot be taken in front of one that can | not parked for ever | `WantedSearch` |
| Requests and their quotas (`api/requests.go`, `db/requests.go`) | request rows, claims with a lease | create, reopen, withdraw, decline, approve | claims that go stale while the add runs | cap kept, a claim held to its end | `Requests` |
| Indexer search, cooldown and quota (`indexer/quota.go`, `cooldown.go`) | hourly counts in memory and in the table; holds | search legs, flush, reload | concurrent legs at the cap; flushes that overlap | cap kept, nothing written twice | `IndexerLimits` |
| Calibre delivery queue (`calibre/delivery_worker.go`, `delivery_pull.go`) | queue table with attempts and backoff | push, pull, calibredb, record, re-arm | lost answers, Calibre down | nothing waits for ever or past its attempts | `CalibreDelivery` |
| Process lifecycle (`src/cmd/bindery/main.go`) | none | boot, shut down | order of sweep and scheduler | | in `DownloadLifecycle` |
| Blocklist and search holds; decision rules | entries; none | bar a release, judge it | pure predicates | | only as sets in `WantedSearch` |
| Calibre import and sync; Audiobookshelf import | run records, snapshots | run, resume, roll back | restart in the middle | a rollback restores what the run changed | not modelled |
| Metadata aggregation; client health and no-metadata tracking | caches, quota, in-memory maps | fetch, merge, notify | concurrent fetches | one fetch per key | not modelled |
| Authentication and sessions | cookies, epochs, limiter | log in, revoke | a request in flight at the revocation | a revoked session is not honoured | not modelled |
| Download clients; notifications; import lists; database and backup; HTTP API, OPDS, web UI; telemetry; packaging | records or none | I/O and rendering | outside the process, or data-driven | | not modelled |

How they interact: grabs, poller, imports, stall checker and queue requests
share nothing but **rows of one table** (and the client's jobs). Each reads a
row, works for seconds to half an hour, and writes by row id. A GUID that is
grabbed again reuses its row, so an id does not tell one grab from the next.
An import places files, tracks them, and refreshes the book's row; a format the
library is complete with is no longer wanted, which the wanted search sees at its
next sweep. The library scan shares the database with them but neither rows nor locks; it
meets only the job group, the scheduler and the shutdown. Requests, an indexer's
limits and the delivery queue each keep tables of their own that no other part writes.

## 2 The modules and the code

```
DownloadStates                      models/download_state.go: states and transition table
  DownloadRows                      one row, and every statement of DownloadRepo as a function on it
    DownloadRow                     abstract: every statement is one instant
    DownloadRowCas                  UpdateStatus/SetErrorWithStatus as SELECT, check, guarded UPDATE
                                    (implements DownloadRow)          MCDownloadRowCas
    DownloadSystem                  variables shared by the actors of one book's downloads
                                    (its actors together implement DownloadRow, row by row)
      DownloadGrab                  api/queue.go grab, scheduler searchAndGrabFormat
      DownloadPoller                importer/scanner_poll.go and the stale pass
      DownloadImport                tryImportInternal; MatchDownload
        DownloadLifecycle           composition: + stall checker, queue, client, clock, restart
          DownloadClaims            statements of comments that the code does not keep
                                                                      MCDownloadLifecycle
  DownloadRowsProofs, DownloadRowCasProofs, DownloadLifecycleProofs   theorems

SharedJobs                          downloader/shared_removal.go and its three callers
ImportPlacement                     the ebook branch of tryImportInternal, renamer.go
AudiobookPlacement                  its audiobook branch, renamer.go, flatten.go
Requests                            api/requests.go, db/requests.go
IndexerLimits                       indexer/quota.go, cooldown.go
BookStatus                          db/books.go refreshBookStatus, the book page       all in MCShared
PairGating                          importer/scanner_pair_gating.go
CalibreDelivery                     calibre/delivery_worker.go, delivery_pull.go       both in MCWaiting
WantedSearch                        scheduler/scheduler.go searchWanted                MCWanted
  SharedJobsProofs (with WantedSearch), QuotaProofs,               theorems
  DeliveryProofs (with PairGating), PlacementProofs (with BookStatus and
  AudiobookPlacement)

ScanRequests                        abstract: what a request for a library scan is promised
  LibraryScan                       importer/scanner.go gate and runScans, jobs/jobs.go, shutdown
                                    (implements ScanRequests)
  LibraryScanProofs                 theorems
```

**`DownloadRows`.** `Row` is the columns that decide anything. `dead_at` is
`"null"`, `"fresh"` or `"old"` because the code only compares it with
`DeadRegrabCooldown`; the age of a grab is `"young"` or `"old"` because the code
only compares it with `neverArrivedGrace` and the stall timeout; an error
message is `"none"` or `"some"` because only the skip streak compares it.
`grab` is a ghost: it numbers the grab a row holds, so that properties can say
"of this grab"; `path` is the number of the grab whose files `import_path`
names. Each operator is one statement: a status write whose guard refuses
returns the row unchanged, which is what `RowsAffected = 0` amounts to.

**`DownloadRowCas`.** Callers pause between their SELECT and their UPDATE while
any other statement runs. It implements `DownloadRow`, so the composed model may
take each guarded write as one step.

**`DownloadRow`** is the abstract specification both ends meet at: the row's life as the
repository promises it, with a claim only of a row whose grab is over, and no other
change of state but by the statements. `DownloadRowCas` implements it from below, and every
row of `DownloadLifecycle` from above (`RowsImplementDownloadRow`, with `row[g]` for its row;
a number given to a grab of another release is its `OtherGrab`): what grabs, polls,
imports and people decide from stale copies never shows as anything else.

**`DownloadGrab`.** `GrabRead` is the look-up and the gate (`how` is which of the
four ways the row will be taken), `GrabClaim` the INSERT or claiming UPDATE that
re-checks its own condition, `GrabSend` the client call with its three
outcomes, `GrabError`, `GrabRecordId` and `GrabDone` the writes after it.

**`DownloadPoller`.** `PollFirst` and `PollSecond` take the two copies, rows first
for qBittorrent and the listing first for the other clients. `PollBackfill`,
`PollComplete`, `PollRetry`, `PollSkip`, `PollFailed` and `PollPass` are the
branches of the per-row loop (a completed download whose content is gone is two statements,
as in the code: marked completed, and failed by `ImportVerdict`); `StaleList` to `PollEnd` are
`blockStaleImportFailures` with its own second copy of the rows.
`ClientKind` selects what differs: `"qbittorrent"` (row order, name matching,
content look-up, completed rows re-imported), `"torrent"` (Transmission,
Deluge, rTorrent), `"usenet"` (SABnzbd, NZBGet: history, new id per grab).

**`DownloadImport`.** One action per status write of the import and per decision
that another actor could overtake. The idempotency guard and the placement are
separate steps because nothing holds them together for the poller's import;
`MatchLock` is `lockManualBook`, which only manual imports take.

**`DownloadLifecycle`.** Adds `StallList/Report/Fail`, the queue's retry and
remove, the deletion of the book, the client on its own (external: jobs
complete, fail, lose their files, get them back, vanish), the two timers and
`Restart`, which clears everything in memory and runs the boot sweep.

**`LibraryScan`.** `running`, `pending` and `seq` are `scanRunning`,
`scanPending` and `scanSeq`; an id is the pair of the process's life (`boot`,
for `scanBootID`) and the number of a scan. Each critical section under `scanMu`
or the job group's mutex is one action: `Request` is `claimScanID`, `Launch` and
`LaunchRefused` the two answers of `jobs.Group.Go`, `CronScan` the scheduled
`ScanLibrary`, `BeginScan`, `ScanLibrary`, `FinishScan` the loop of `runScans`,
`Panic` and `ReleaseScan` its deferred release, `EndJob` the group's `end`, and
`ShutDown` the stages of `Group.Shutdown`. The request that took the gate holds
no number until its goroutine reaches `BeginScan`, which is where ids could go
wrong. `reply[r].covered` and `scan[t].covers` are ghosts: which requests a walk
began after, and which it answered. The stored result keeps only its `scan_id`; its
write may fail. After SIGTERM a request still in its handler may arrive at any
stage of the shutdown. **`ScanRequests`** knows requests and walks only: a walk
answers exactly the requests made before it began, and walks do not overlap.

**`SharedJobs`.** One job of a torrent client and the rows that may name it. `use` is
a row's status as `stillUsesClientJob` tells statuses apart; `pass` is the step each
of three removal paths is at for each row: `"queue"` (`removeQueueItem`,
`BulkDelete`), `"import"` (the cleanup of a client set to remove on import) and
`"stall"`. `JobIsFree`/`JobIsShared` are `ClientJobShared`'s answers, `JobRemove`
the client call after it; between the two anything may happen. A row is sent (`JobSend`, or
`JobSendFails` when the client refuses) if it is new or one of the claims takes it: a failed row
for anyone, an import that failed or was blocked (both `"kept"`) or an imported one for a person. The
claim and the send are one step. The queue works on the copy it read: `QueueRead` is that
read, `"blind"` a copy that named no job yet, and `QueueDelete` removes the row whatever it is by then and
goes on to the job by what the *copy* named. `joined` and `leftWith` are
ghosts: rows that took the job up after a removal was decided, which no check can
help, and the reason for which a job may stay (`"other"`: a user kept it, a call failed, it
failed downloading, its rows were trimmed, the copy named no job; `"stall"`: the stall checker).

**`PairGating`.** Two importers, the poller's and a person's, each with a sweep of
overdue rows (`SweepRow`), the gate (`GateHandsOff`, `GateFails`, `GateBlocks`, `GateHolds`,
`GateDrops`), and for a pair the placement of both formats in turn (`PlaceOwn`, `ReleaseSibling`,
`FinishOwn`), which is what `dropToFolder` does between its status writes.
`PairChange` is what a user or a disk does meanwhile: a folder unset or set again, files gone,
the book deleted. `PairTick` is the drop of another book, whose sweep includes this one.

**`ImportPlacement`.** Each file goes through `PlaceStage`, `PlaceRecord` and
`PlaceCommit`, or back by `UndoStage`; every step may fail, and `PlaceCrash`
stops the process between any two. `placing` is how a file leaves the download:
it stays (hardlink, copy mode), is renamed, or is copied and then deleted (a move
across file systems). `ilock` counts files by outcome as the code's slices do;
`PlaceEnd` is the verdict over them and the clearing of sources.

**`AudiobookPlacement`.** An import of an audiobook goes from `AudioBegin` (is there one
already; `UniqueDir`) over `AudioOpen` (the folder is made, or the whole source renamed to it),
`AudioTrack`, `AudioPlaced` and `AudioClear` (a moved source is removed) to `AudioRecord` and
`AudioEnd`. `Shape` is how the download lies, which the code tells apart in
`resolveAudiobookSource` and by the settings: a whole folder, one whose tracks are renamed
(`flatten.go`), a lone file, or loose files; `moves` are the downloads that are moved, the
others are copied or linked. What a failing step takes back differs in each: the folder with
everything in it (`RemoveAll`), the files placed and the folder if that empties it
(`RollBack`), or nothing, where the files are the only copy or the folder is the ebook's.
`cut` are the tracks of which a part was written, by a copy that failed in a merge or when the
process stopped. A folder is a name and the number `UniqueDir` appended (1 for none).
`torn` and `stopped` are ghosts: the imports that ended half done, and those the
process stopped.

**`Requests`.** An actor is an HTTP request being served: a create between its check of the cap,
the provider lookup and its INSERT, or an approval between claim, add and completion.
The claim is a token with a lease (`fresh`); `Lapse` is `RequestClaimTTL` running out,
`Renew` the ticker. `NewTokens` picks a token nothing holds, for 16 random bytes.

**`IndexerLimits`.** `Consult` is `load`, `LegAsk` a `Take` and the query it admits,
`FlushMark` and `FlushWrite` the two halves of `flush`, which releases its lock between
them; `Note`, `LegStart` and `LegEnd` are the hold. `entry` is the indexer's entry in
`indexerCooldowns`, recorded since the last edit or before it: it outlives its hold until
a leg looks, which also forgets the rung if the entry is from before the edit. Time is counted in hours, as the counts are.

**`BookStatus`.** `RefreshRead`, `RefreshDerive`, `RefreshWrite` are the three parts of
`refreshBookStatusOnce` with its guard and its bounded retry (the read merges `GetByID` and the
SELECT of the raw paths, the derivation its two queries); `EditRead` and `EditWrite` are
`BookHandler.Update`, which writes back the whole row it read.

**`CalibreDelivery`.** One job at a time: a pass of the worker, or in pull a listing and what the
plugin does with it. `row` is the ledger; `job.attempts` is the copy the pass read, `job.stale` a
ghost for rows deleted since: a push still sends from its copy, the plugin is refused the
file. `Send` may act and lose its answer. What Calibre does with
a file is external (`Taken`, `LibraryWith`).

**`WantedSearch`.** Two searchers over one book in two formats: the sweep, with the
snapshot of blocklist and monitored authors taken when it built its queue, and
`SearchAndGrabBook`, which reads afresh. `FormatOf` is the format a release is searched for. A
download row does not keep it: the sweep's queue reads it back from the words of the title and the
recorded quality, which is `DownloadMediaType` over `Named`, the formats those words
name. It is wrong for an audiobook that names its PDF booklet only, and `""` for words of
both kinds or of none; a row read as `""` holds the whole book (`InFlight`). The same words decide
`isBookAlreadyImported` (`AlreadyImported`). `SweepBlind` is the queue built when the
rows in flight could not be listed, as if nothing flew. `SearchFormat` is the choice, with parking
and the fall-back to parked releases; `SearchEnds` a search that stops on a failed look-up, or finds no
client for any result; `SearchGrab` re-checks the row it chose against. `since` is a ghost: what
took off after the sweep had built its queue, or everything if it was built blind.

**`MCShared`, `MCWaiting`.** They let several modules share a run. Their parts have no variable in
common and do not interact: `part` is chosen at the start, and each behaviour is one part's.

## 3 The runs

| Run | Instance | Question | Result |
|---|---|---|---|
| `row_cas` | 2 callers, 1 job, 2 grabs, retry count up to 2 | do read-check-write calls behave as one instant (`ImplementsDownloadRow`)? is `dead_at` right in between (`DeadStampAccurate`)? | holds, 0.7 M states |
| `grab_race` | qBittorrent, 1 release, a person and the scheduler, 2 grabs | can the scheduler replace an attempt inside its cooldown (`NoHotAutoRegrab`)? | never, 3.2 M states |
| `poll_restart` | qBittorrent, 1 grab, retry and skip limit 2, incomplete listings, both import modes, one request of any kind, one crash, fairness | `TypeOK` with the streak bound, `DeadStampAccurate`, `RetryBudget`; does a failed import settle (`FailedImportSettles`, liveness)? | hold, 1.0 M states |
| `usenet_regrab` | usenet, a person and the scheduler, 2 grabs, own job ids | can a re-grabbed row show the job of the grab it replaced (`JobOfThisGrab`)? | never, 1.1 M states |
| `match_vs_poll` | torrent, 2 grabs, one Match to book, imports slower than the grace | `ImportedIsFiled`, `NoOrphanedImport`; is every step on a row one the repository promises (`RowsImplementDownloadRow`)? | hold, 4.7 M states |
| `library_scan` | 2 requests, the cron job, 1 panic, 1 restart, shutdown at any point, fairness | is the gate ever left closed (`GateIsHeld`), an accepted request forgotten (`PromiseIsHeld`) or never answered (`RequestIsServed`, liveness), a result mistaken for the answer (`KnownByItsId`)? does anything walk after the drain (`DrainedIsQuiet`)? do walks overlap or answer what came after them (`ImplementsScanRequests`)? | never, 0.7 M states |
| `shared` | two rows on a job; two downloads of two books with three files and a stray, two failures; two items, two actors, a cap of 1; two legs, a cap of 2, three hours; three files, three workers, one edit; audiobooks of two books with two tracks and one, every shape, moved or copied, two failures or stops | is a job removed from under a user (`RemovalSparesUsers`) or left behind (`NothingLeftBehind`)? a payload lost (`PayloadRemains`), a foreign file written over (`OthersFilesStay`)? the cap passed (`PendingWithinCap`), a claim lost (`ClaimIsKept`), a request approved by someone else (`ApprovedByItsHolder`)? the window overspent (`CapHolds`), a count written twice (`FlushedIsStored`)? a book's row wrong after concurrent imports (`ConcurrentImportsAgree`), an edit reverted (`RefreshKeepsEdits`)? a track lost (`TracksRemain`), a folder emptied of what another import put there (`FoldersStay`), an audiobook imported with a part of it (`ImportedIsWhole`), or litter left that a retry builds beside (`NothingLeftOver`)? | never, 3.0 M states |
| `waiting` | one download of each format, one change; two files over three transports, one fault, one outage, one reset; fairness | is a format handed off alone too early (`DropsAloneOnlyLate`) or held for ever (`HeldIsReleased`)? does a row wait past its attempts (`WaitingHasAttemptsLeft`) or for ever (`QueueDrains`)? do formats held for a newer plugin follow by themselves (`HeldFormatsFollow`)? | never, 0.2 M states |
| `wanted` | one book: an audiobook that names its PDF only, one that names m4b (pinned, perhaps another book's), a costly ebook that names nothing; the audiobooks delayed or not; two interventions, fairness | does the sweep grab twice what it could have known of (`SweepTakesOnePerFormat`)? is a parked release it could take left parked (`ParkedIsTaken`)? | never, 0.4 M states |
| `claim_*` | the smallest instance that shows it | the three statements of section 4 that are listed as findings | violated |

**Bounds.** `MaxGrabs` counts grabs, `MaxAsks` requests by users, `MaxCrashes`
restarts, `MaxCopies` placements (an import that would exceed it fails instead,
which the code also can), `MaxRetry` the retry column in `row_cas`. Everything
else is finite. Two grabs are enough for every confusion of one grab with the
next; the limits of 1 and 2 are the smallest at which "one left" and "none
left" both occur (`importRetryLimit` is 5 and `importSkipLimit` 120 in the
code; the proofs cover every value). One release per run is enough where
actors only meet on a row; `ClaimNeverArrived.cfg` uses two because one row's
import delays another's stale check. Only `row_cas` uses symmetry, over its
callers. Each request for a scan is made once; `MaxScans` bounds the scans of one life of
the process, `MaxPanics` and `MaxBoots` the panics and the lives. Two
requests and a cron job that may scan again let a request run, wait behind
another scan, and arrive at any point of a follow-up; the proofs cover more.
In `shared`, `MaxFailures`, `MaxEvents`, `MaxMishaps` and `MaxEdits` bound what goes wrong or is
edited: two failures are the step that fails and its way back, or a crash after
a failure; two events a lapse and a crash. `MaxSuffix` is 2 (999 in the code): a taken name and a
free one, or none. `Window` is one hour and `DailyLimit` 2, so that counts age out
of the window and two legs can meet at the cap. Of three workers two refresh and one
edits or untracks; `Attempts` is 2, a refresh that uses them up is excused (`stuck`).
For audiobooks `MaxTwin` is 3 (999 in the code), more than two imports and a leftover
need, and `MaxBreaks` of 2 a failure and its retry's, or a stop between them. `MCLayouts`
lets two folders come to one name, in which the first book may have an ebook, and
sets a lone file and loose files apart: where one of those meets another import in a folder name,
`FoldersStay` does not hold (section 4).
In `waiting`, `MaxChanges`, `MaxFaults`, `MaxOutages` and `MaxResets` of 1 let each happen
at every point of a pass; `MaxAttempts` is 2 (8 in the code), a first failure and the
last. In `wanted` two `MaxPokes` let two people, clients or settings act between the
sweep's snapshot and its grab; the three releases are one for each way a row is read: rightly,
wrongly, and not at all.

**Deadlock** is checked in every run of downloads: the poller can always poll
again. `library_scan` sets `CHECK_DEADLOCK FALSE`, because a process that has shut
down, or has answered every request, really has nothing left to do; so do `shared`,
`waiting` and `wanted`, where every row may be settled, every file placed and delivered, and every
bound on what people do used up.

**Fairness** (`FairSpec`): weak, of each grab in flight, of the poll job, and of
each running import. These are goroutines of the server and a cron entry that
fires every 15 s; each waits for nothing that another actor may hold for ever
(the poll waits for its own import only, an import for the book's lock only).
Nothing is assumed of users, the client, the timers or crashes. In
`FailedImportSettles` the poll's listing may come back incomplete every time,
and the job's files may come and go; what it needs is that the job stays
listed as complete. For the scans, fairness is weak, of each goroutine that
launches or runs one (the walk of a library ends); nothing is assumed of
requests, the cron job, the signal, the shutdown or the restart.
In `PairFairness` an import that started goes on, the deadline passes, and the
poller imports a drop of some book now and then: the sweep has no timer of its own, so a hold
without any further drop is *not* promised an end. In `CalFairness` the worker's tick
(every minute) or the plugin's own check goes on, time passes, and a closed Calibre
is opened again; faults and outages are bounded and owe nothing. In `SearchFairness` the
sweep is a cron job and a search that began goes on; `ParkedIsTaken` then speaks of
a release that could *always* be taken from some point on, because that is all weak
fairness of a sweep gives.

## 4 Where code and comments disagree

Three are runs of the project that TLC ends with a counterexample; `PROJECT.json` quotes the comment
and the lines.

- `claim_double_import`. "The importer's own idempotency guards ... prevent a
  double-import": a Match to book and the poller's retry both pass the guard
  before either has filed the book.
- `claim_quota`. "The count is part of the claim, not a separate read, so a burst of
  creates cannot all pass it" (`api/requests.go:697`): the count is of approved rows, and
  a claimed row is not approved yet. Two creates at once pass a quota that has room for one.
- `claim_merge_retry`. A failed merge of an audiobook into the folder of its book's ebook is
  "self-correcting: a retry re-runs the merge and skips whatever already landed"
  (`importer/renamer.go:1094`): the file that was being copied when it failed stays under its name
  (`copyFileRooted` does not remove it, as `copyFileCtx` does), the retry skips it, and the download
  is imported with a track cut short.

The others have a configuration of their own; `tlc -config X.cfg M` shows each
(`ClaimLimits`, with two of them, wants `-workers 1 -continue`).

| Configuration, module | The comment | What the code does |
|---|---|---|
| `ClaimRequeued`, `MCDownloadLifecycle` | a wedged completed row is re-queued as `importPending` "so the normal CheckDownloads tick will pick them up" (`db/downloads.go:766`) | the poll takes `grabbed`, `downloading`, `completed` and retryable `importFailed` rows (`importer/scanner_poll.go:643`); the row waits for the next restart |
| `ClaimFailedTable`, same | "validTransitions defines which state transitions are allowed" (`models/download_state.go:45`) | `SetError` is guarded by the id alone (`db/downloads.go:651`): the stall checker fails a row that completed after it looked |
| `ClaimNeverArrived`, same | a download fails as never arrived only if the client has no record of it (`importer/scanner.go:1225` on) | the set of seen jobs comes from rows read before the listing, the candidates from rows read after the imports |
| `ClaimImportPath`, same | "the claimed row carries nothing of the grab it replaces" (`db/downloads.go:343`) | an import of the replaced grab still writes its path onto the row (`importer/scanner.go:991`) |
| `ClaimColumn`, `MCShared` | the path column "is not user-writable and is not stale" (`db/books.go:143`) | the book page writes the whole row it read back over a refresh: the path of a file that is gone returns |
| `ClaimLimits`, same: `MeantimeIsCounted` | with unreadable counts "the requests counted in the meantime are still added to whatever the stored buckets already hold" (`indexer/quota.go:114`) | the successful read replaces the counts; those not flushed by then are lost. With them the cap is not kept, which is why `shared` has `ReadsFail = FALSE` |
| `ClaimLimits`, same: `HoldIsOfThisConfig` | waiting out "a lockout that belonged to the old configuration would be the wrong answer" (`indexer/cooldown.go:199`) | a leg that began before the edit records its hold after it, dated later than the edit |
| `ClaimImportedComplete`, same | marking a download imported early "would mark an incomplete multi-file download as fully imported" (`importer/scanner.go:2779`) | a retry that finds the download empty does so if its book has any file of the format (`importer/scanner.go:1733`), and after a crash the missing file may still be under its staging name |
| `ClaimAudio`, same, with `PROPERTY BlockedRetryRecords` | an audiobook was moved but not recorded: "the files are preserved there — retry the import to record them" (`importer/scanner.go:2527`) | the retry looks at the download's path, finds nothing and fails: the files stay in a folder nothing records |
| `ClaimAudio`, same, with `PROPERTY FoldersStay` | `destDir` "came from UniqueDir, so this import created it and it holds only what was just placed: remove it" (`importer/scanner.go:2490`) | two imports that run beside each other are given one name by `UniqueDir`, and a lone file, or loose ones, go into a folder that exists by then: what one removes takes the other's track with it |
| `ClaimPlaceRace`, same | "the importer holds a per-download lock so two stage calls for the same dst cannot race" (`importer/renamer.go:1765`) | two downloads of one book have different locks and the same destination |
| `ClaimLastPass`, same | "the last row of a shared stalled torrent is the one whose pass removes it" (`scheduler/scheduler.go:2360`) | a row is marked failed after its own check: a queue removal, or an import, that looks in between leaves the job to nobody |
| `ClaimHeldRetry`, `MCWaiting` | a held row whose format no longer drops: "a manual retry imports it under the current settings" (`importer/scanner_pair_gating.go:231`) | `ResetImportRetry` takes `importFailed` and `importBlocked` only |
| `ClaimDelivered`, same | delivered "reached Calibre" (`models/calibre_delivery.go:13`) | if the record of a first format's delivery fails, the next format is sent as a first one too, and the plugin's 409 counts as delivered although it added nothing |
| `ClaimUnmonitored`, `MCWanted` | "An unmonitored author's books are never grabbed automatically" (`scheduler/scheduler.go:801`) | the sweep asks the snapshot it took minutes earlier |

Further comments are wrong in a way one reading shows, and nothing is spent on
them. An external hand-off "can only be retired by a manual retry"
(`models/download_state.go:62`), but `ResetImportRetry` does not take it. The id returned with `ErrScanQueued` is "naming the
follow-up scan" (`importer/scanner.go:3953`), but a request queued before the
scan ahead of it has numbered itself gets *that* scan's id: `NextId` is
`scanSeq + 1`, and the number moves in `BeginScan`. That walk does answer the
request, as `KnownByItsId` says; the follow-up it queued walks again for nobody.
A `book_files` row left by a failed rename is said to be reconciled away by the next
scan (`importer/scanner.go:2764`), which deletes no such rows. Observations without a comment to
contradict: a request's `Complete` and `Release` run under the caller's context, so a caller
who hangs up leaves the row claimed until its lease lapses; a parked release is deleted
before the grab that may fail (`scheduler/scheduler.go:1850`).

The comment on `downloadMediaType` (`scheduler/scheduler.go:2088`) says itself that the format read off a row
"can still be wrong". `SweepTakesOnePerFormat` keeps that as an exception by name
(`~Misread`): without it TLC shows the sweep grab the second audiobook of `wanted`
while the first, which names its PDF only, flies.

Several of these explain properties that are *not* stated: there is no invariant that
`completed` rows are eventually imported, `MaxCopies` may exceed
one, `ConcurrentImportsAgree` leaves out behaviours with an edit, and `DeliveredReachedCalibre` is
a claim and not a promise.

## 5 The proofs

`DownloadRowsProofs` has the lemmas about the statements: each keeps a row
well-typed and its stamp accurate (`StampedRow`).

`DownloadRowCasProofs`, for any number of callers:
- `InductiveInvariant`, `StampAlwaysAccurate` (states `DeadStampAccurate`);
- `CasRefinesRow` (states `ImplementsDownloadRow`). Key lemma `WriteIsAtomic`: if
  the UPDATE matches, the status is the one the check accepted, so the write is
  the abstract `UpdateStatus` or `SetErrorWithStatus` of the row *now*; if not,
  the step is a stutter. The invariant needed is only that each pending call
  passed its check; no relation between the call and the current row is.

`DownloadLifecycleProofs`, for any sets of releases, jobs, grabbers and matchers,
any client kind, modes, limits and bounds that satisfy the named assumptions:
- `LifecycleInvariant`: `IInv` is inductive, where
  `IInv == CountInv /\ RowInv /\ GrabInv /\ PollInv /\ ImpInv /\ StallInv /\ SkipInv /\ CopyInv`;
- `TypeCorrect` (`TypeOK`), `DeadStampAlwaysAccurate` (`DeadStampAccurate`),
  `RetryBudgetKept` (`RetryBudget`), `SchedulerWaits` (`NoHotAutoRegrab`);
- `ImportedAlwaysFiled` (`ImportedIsFiled`), under the hypothesis that users do not delete the
  book (`"delete book" \notin Requests`, as in the run that checks it: with the book
  its files go, and the row says imported of none). Its invariant is `FiledInv`: an import
  about to close its row, and a closed row, have a filed copy behind them;
- `IdAlwaysOfThisGrab` (`JobOfThisGrab`), invariant `IdInv`, and `ImportingIsWorkedOn`
  (`NoOrphanedImport`), invariant `WorkInv`, under the hypothesis `MaxCrashes = 0` (after a
  restart it is the boot sweep that ends an orphan);
- `LifecycleRefinesRow` (`RowsImplementDownloadRow`), with no hypothesis: every step of every
  actor is a claim (`ClaimStep`) or moves each row by one statement or not at all
  (`RowsMove`, `EveryStepMoves`), and either is a step of `DownloadRow` (`ClaimRefines`,
  `MovedRefines`). The invariant it adds is `NamedInv`: the grabs that rows, copies and imports
  name are recorded ones, so the path an import writes is of a grab there was. With
  `CasRefinesRow` the chain is closed: the composed system moves its rows as the abstract row
  does, and the repository's read, check, write sequences are no coarser than that.

Why the conjuncts: `TypeOK` alone does not say that an import with a verdict has
one of the two verdicts, or that an active grab has a number, which the
statements' lemmas need (`GrabInv`, `ImpInv`, `StallInv`). `RetryBudget` is not
inductive: the poller compares *its copy* of the counter with the limit and then
increments the *table's*. `CopyInv` closes the gap: while the poller may still
count from a copy, the row of the same id in the table has been tried no more
often than the copy says. Every statement of another actor keeps or resets the
counter (`StatementsTame`); the only other increment is the boot sweep's, which
ends the poll with everything else in memory; and the poller drops its copy
when it counts (`RetryCounted`). Ids matter: a deleted row's GUID may come back
with a smaller counter but never with the same id (`row[g].id <= grabs`).

`IdAlwaysOfThisGrab` is about usenet jobs (a torrent's id is its hash whoever records it). A
row with its client's id not yet recorded must not be failed by anyone but its own grab,
or a re-grab could take it and the late answer would be recorded in the new one. `OpenInv`
says the row stays as the grab left it, and the others are its reasons: what the poller fails
is a copy with an id (`CopiedInv`), and a job the listing shows as failed is never the job of
a row whose import has come up (`LateInv`), because jobs are numbered by grab and a job once
seen complete does not fail (`JobInv`). Steps that write nothing of this are taken together
(`AllCalm`, `CalmKept`). For `NoOrphanedImport` it is not enough that *some* import has the row:
its next write must be one the transition table allows. So `WorkInv` says where that import
stands: a pending row has one that has not begun on the files, an importing row one that has.

`LibraryScanProofs`, for any number of requests and any bounds: `ScanInvariant`
(`IInv` is inductive), and from it `GateAlwaysHeld`, `PromiseAlwaysHeld`,
`IdsAreTrue`, `AlwaysQuiet` and `ScanRefinesRequests`, one for each property of
the `library_scan` run. `GateIsHeld` needs that the gate has *one* holder
(`OneHolder`), or its release could leave another one inside. `PromiseIsHeld` needs
that whatever drops the pending flag without a follow-up has a reason that the
promise excludes (`LossInv`): a group closes only after the signal, and only a
panic or a refusal reaches the deferred release. `KnownByItsId` needs the order of
ids (`IdInv`): an id handed out is at most one ahead of `scanSeq`, a stored one
never ahead, and the walk that bears a request's id covers the request.
`DrainedIsQuiet` needs that a goroutine in `runScans` is one of the group's jobs
(`JobInv`).

`SharedJobsProofs`, for any number of rows: `JobsInvariant`, `JobsNotLeftBehind` (states
`NothingLeftBehind`), `JobsOfOthersSpared` (`RemovalSparesUsers`). `DecidedInv` says that
a removal that was decided has no user but its own row and those that joined since;
`ReasonInv` that a job which stays without a reason is wanted or has a path still to look.
A path lets go of the job *before* it looks, which is what makes the last one look
after everybody has let go; the stall checker is the exception and a reason of its own, and so is
a queue removal whose copy named no job.
And of the wanted search, for any set of releases: `SweepInvariant`, `OneReleasePerFormat`
(`SweepTakesOnePerFormat`). `AheadInv` says that whatever is under way and is read as of a format the
sweep still looks ahead to, or as of none, took off since it looked: a queue built from formats nothing
was read as stays so until a launch the ghost `since` records, and a queue built blind is excused
altogether. From how a row is read the theorem comes to what it is: words that do not name
the other format only are read as the row's own format or hold the whole book (`ReadInItsSlot`).

`QuotaProofs`, for any number of items, actors and tokens: `RequestInvariant`
(`RInv == RequestTypeOK /\ ActorInv /\ FreshInv /\ ClaimIsKept /\ PendingWithinCap`),
`CapAlwaysKept`, `ClaimAlwaysKept`, `ApprovedOnlyByHolder`, one for each property of requests
in `shared`. `ClaimIsKept` needs that two approvals never share a token (`ActorInv`) and
that a claim which has not lapsed is fresh in the table (`FreshInv`), so that nobody may
take it over. The cap is a cardinality: a step adds at most the one item it checked room for.
And of an indexer's limits, for any legs, hours, window and cap, `LimitInvariant`,
`EveryRequestIsWrittenOnce` (`FlushedIsStored`) and `CapAlwaysHolds` (`CapHolds`), under the
hypothesis that the stored counts can be read (`~ReadsFail`; without it the cap is not kept,
see `ClaimLimits` in section 4). `FlushedIsStored` is an equation per hour: what is stored and what each leg has in
hand to write make up what was counted and not forgotten. A flush that marks, writes, or puts
back moves a delta from one term to another, so the equation needs a sum over the legs of which one
term changes; `PendingIsBeingWritten` says the others are still. `CapHolds` follows a sum over
the hours of the window: `CountsAreKnown` says that the counts a process has loaded are what was
asked in each hour and not forgotten, so the leg that was let through found room in the true
sum, and `NothingAhead` that hours not yet begun add nothing when the window moves.
The sums are `SumFunctionOnSet` of the community modules, a fold. What it returns is proved here
from its definition (`SumPicks`, `SumTakes`, `SumMonotone`, `SumMoves` and others), each by a smallest
counterexample among the subsets of a finite set (`SmallestOf`), which the
well-foundedness of the natural numbers gives without an induction rule.

`DeliveryProofs`, for any files and any limit: `DeliveryInvariant`, `AttemptsAlwaysLeft`
(`WaitingHasAttemptsLeft`). `MarkFailed` judges *its copy* of the attempts and increments
the *table's*; `CopyInv` says the row is never ahead of the copy, unless it was deleted
meanwhile (retries and re-arms only set it back). And of pair gating, for any number of
downloads and importers: `PairInvariant`, `AloneOnlyLate` (`DropsAloneOnlyLate`). The gate is
passed many steps before the drop, so `ImporterInv` carries the permission across: an importer
that is past the gate, or finishes for a sibling, has a download that `MayDrop`; what
permits it (a deadline, the other format's arrival, a change) is never taken back.

`PlacementProofs`, for any files, downloads and failures: `PlacementInvariant`,
`PayloadNeverLost` (`PayloadRemains`), `NothingWrittenOver` (`OthersFilesStay`), under the
hypothesis `OneDownloadPerBook`. It is needed: two imports of one book may take the same
destination (`ClaimPlaceRace.cfg`), and three of them break both statements. The invariant is that
a destination in hand, as long as it may still be taken, is empty. And for
any files and workers: `RefreshInvariant`, `EditsSurviveRefreshes` (`RefreshKeepsEdits`),
`AgreeInvariant`, `ImportsAgree` (`ConcurrentImportsAgree`). The guard of the refresh does not
exclude a write that lost a race: a column may hold again what an older refresh read. What
saves it, as long as nobody edits, is that a refresh only improves on the paths it read
(`AsGood`): if these are still in the row and are the right ones, the late write changes nothing.
Otherwise somebody else still has the right ones to write (`Pending`), or attempts ran out.
And for any audiobook downloads, tracks and failures: `AudioInvariant`, `TracksNeverLost`
(`TracksRemain`), `FoldersAlwaysStay` (`FoldersStay`), under the hypothesis `HomesApart`: a
folder name that serves two downloads serves whole folders only, without which `FoldersStay`
fails (section 4, `ClaimAudio`). A folder an import has made holds its tracks and nobody
else's (`OwnFolder`, `FolderInv`), because a whole folder is refused where one exists; as long as
it is being filled, everything in it is still at the download, and a source is removed only of
tracks that are whole in it (`TracksInv`). So what is taken back with a folder are copies.
`AttemptsInvariant`, `ImportedAlwaysWhole` (`ImportedIsWhole`) and `NothingAlwaysLeftOver`
(`NothingLeftOver`), under the same hypothesis, follow a download over any number of attempts.
`AttemptInv` says what an attempt finds and leaves unless it ended half done: all tracks are
at the download, or none is and all lie whole in the folder. `RowsInv` carries that to the record: a
recorded folder has all of one of its book's downloads, settled, with no attempt that could
still touch it. It must speak of *one of the book's* downloads, not of the imported one: a
retry that finds its book's folder recorded ends as imported with what another download
placed. `LeftoverInv` says of every folder nobody works in that what is in it is missing from its
download, so that an empty or copied remnant is always taken away by the attempt that made it.

A lemma per actor or action, a step per disjunct, and a `PTL` step at the end is the layout of
each; `LibraryScanProofs` has one lemma per conjunct, because its actions are few.

**Model-checked only:** the liveness properties (`FailedImportSettles`, `RequestIsServed`,
`HeldIsReleased`, `QueueDrains`, `HeldFormatsFollow`, `ParkedIsTaken`), which are beyond the
prover, and the violated statements of section 4. Every safety and refinement property of a passing run is
stated by a theorem. Of the theorems, those that have a hypothesis beyond the modules' assumptions are
named with it above; the run that checks the property satisfies the hypothesis too, and
section 4 shows what fails without it or, for restarts and deleted books, the text above says so.

## 6 Abstractions and limits

- A GUID is one release of one book; the lifecycle is of the downloads of *one*
  book, with one format. Whether a file is filed is `copies > 0`.
- One download client per instance; the poller of another client works on other
  rows.
- In the lifecycle file work is reduced to its outcome: everything placed, something, or
  nothing. The steps inside are `ImportPlacement` and `AudiobookPlacement`; upgrades, `Reorganize` and
  the path templates are not modelled.
- Of audiobooks: that two imports find a folder absent and one then makes it is two steps
  (`UniqueDir` and the placement), but the placement's own check and its mkdir are one. Left out: the
  refusal of a manual import when the book has an audiobook, of links, and of a source that holds
  another book's files; language and content checks; sidecars and download artifacts; a rollback that
  fails as well; a source folder that reappears.
- Database and client errors appear where the code acts on them (send, removal,
  listing completeness). A failed status write is not distinguished from a
  refused one: the code ignores both.
- Out of the model: Transmission's legacy-id reconciliation; the stall checker's
  blocklisting and search for an alternative (it does not touch the row); the cap
  of 50 rows per wedge sweep; history, notifications, metrics; pair gating
  (a module of its own: in the lifecycle `importHeld` is never entered); upgrades; the guard for an
  empty library directory (`importer/scanner.go:1645`), which configuration
  defaults make unreachable.
- The retry a user asks for is atomic: one UPDATE after a read whose stale
  answer only changes the HTTP response.
- Of the library scan: what a walk records, `testScanHook`, the path without a job
  group (tests only), and `ScanState`, a read. The scheduler's own stop, which
  waits for the cron job before the database closes, is not modelled, so
  `DrainedIsQuiet` speaks of the group's jobs only.
- The neighbours are not composed with the lifecycle. `SharedJobs` has a row's life only as
  far as the question of sharing tells states apart, `PairGating` begins at completed rows, `WantedSearch`
  has the row's life as `RowMoves`. Composing them multiplies states without a new
  interaction: what they share is the row, and each has the row's states it reads.
- Of the searches: which legs are sent, ranking, profiles and quality are a nondeterministic
  choice among the approved releases. `Named` stands for the tokens of a title and its quality, as far as
  they name a format. Liveness with rows that are read as nothing is as weak as the code's: a hand-off
  has no automatic end, so one of undetermined format can keep its book out of the sweep for good, and
  `ParkedIsTaken` promises nothing while it does. Of requests: the limits on provider lookups, the
  notifications. Of indexers: the hint of a rate limit is any number of hours up to the longest.
- Of a book's row: the reads a refresh makes before it derives are one step, and so are those it derives
  from. Its UPDATE is guarded by every column it read, so what could come between is refused there.
- Of Calibre: metadata, covers, switching the transport while rows wait, and two passes
  at once, which the scheduler's wrapper and the plugin exclude.
- Not modelled at all: the components marked so in section 1, most of the repository's lines.
  They transform data (metadata, parsing, rendering, record editing, migrations), talk to one
  service (clients, notifiers), or run one at a time (imports from Calibre, Audiobookshelf
  and lists), and have few states that two actors can disagree on.
- What no proof here can reach: liveness and `ENABLED`, and what recursive definitions
  compute for every input, except where a smallest counterexample does (the sums of section 5).

## 7 Plan

Done: the row, the lifecycle, the library scan with the job group, and the neighbours of
section 2. What is worth adding next:

1. Upgrades, which replace a file, and `Reorganize`, which moves them, beside an import.
2. Session epochs and revocation against requests in flight; the request cache and the
   daily quota of metadata; Audiobookshelf run checkpoint, resume and rollback.
3. `SharedJobs` and `PairGating` composed with the lifecycle's rows, if a property
   turns up that needs both.
4. Theorems: the refinement of an abstract ledger of deliveries by `CalibreDelivery`, and of
   the request table's promises by `Requests`, as for rows and scans.
