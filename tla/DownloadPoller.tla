--------------------------- MODULE DownloadPoller ---------------------------
(***************************************************************************)
(* One check-downloads run over one client.  It works on two copies taken  *)
(* one after the other, of the rows and of the client's jobs: qBittorrent's*)
(* poller reads the rows first, the others ask the client first.  The runs *)
(* never overlap, and a run waits for each import it starts.               *)
(***************************************************************************)
EXTENDS DownloadSystem

RowsFirst == ClientKind = "qbittorrent"

PollReadsRows(next) ==
  poll' = [poll EXCEPT !.rows = row, !.pc = next]

PollReadsJobs(next) ==
  \E c \in ListComplete :
    poll' = [poll EXCEPT !.jobs = job, !.complete = c, !.pc = next]

PollFirst ==
  /\ poll.pc = "idle"
  /\ IF RowsFirst THEN PollReadsRows("second") ELSE PollReadsJobs("second")
  /\ UNCHANGED <<row, grabs, job, copies, grabber, imp, stall, skips, asks, crashes>>

\* The job a copied row is paired with: the one it names, or, for
\* qBittorrent, the listed torrent of the same release name.
SourceOf(g, r) ==
  IF r.job # NoJob THEN r.job
  ELSE IF ClientKind = "qbittorrent" /\ r.status \notin {Absent, "imported", "failed"}
    THEN g ELSE NoJob

InListing(jobs, g, r) ==
  SourceOf(g, r) # NoJob /\ jobs[SourceOf(g, r)] \in ListedStates

\* The second copy, and with it the rows this run will look at.
PollSecond ==
  /\ poll.pc = "second"
  /\ \E c \in (IF RowsFirst THEN ListComplete ELSE {poll.complete}) :
       LET rows  == IF RowsFirst THEN poll.rows ELSE row
           jobs  == IF RowsFirst THEN job ELSE poll.jobs
           found == {g \in Guids : InListing(jobs, g, rows[g])}
       IN poll' = [pc |-> "rows", jobs |-> jobs, complete |-> c, todo |-> found,
                   seen |-> {rows[g].id : g \in found},
                   rows |-> [g \in Guids |-> IF g \in found THEN rows[g] ELSE NoRow]]
  /\ UNCHANGED <<row, grabs, job, copies, grabber, imp, stall, skips, asks, crashes>>

\* The poller has finished with a row of its copy.
Handled(g) == [poll EXCEPT !.todo = @ \ {g}, !.rows[g] = NoRow]

\* The poller is about to look at the copy of g's row.
AtRow(g) == poll.pc = "rows" /\ g \in poll.todo /\ imp["poll"].pc = "idle"

Src(g) == SourceOf(g, poll.rows[g])
ReportsComplete(g) == poll.jobs[Src(g)] \in {"complete", "emptied"}
ReportsFailed(g)   == poll.jobs[Src(g)] = "failed"

Importable(s) ==
  s \in {"grabbed", "downloading"} \/ (ClientKind = "qbittorrent" /\ s = "completed")

PollImport(g, pc, verdict) ==
  imp' = [imp EXCEPT !["poll"] =
            [pc |-> pc, guid |-> g, id |-> poll.rows[g].id, src |-> Src(g),
             grab |-> poll.rows[g].grab, book |-> poll.rows[g].book,
             verdict |-> verdict]]

\* qBittorrent: a row with no hash takes the hash of the torrent it matched.
PollBackfill(g) ==
  LET r == poll.rows[g] IN
  /\ AtRow(g) /\ r.job = NoJob
  /\ Put(g, r.id, SetJob(row[g], g))
  /\ poll' = [poll EXCEPT !.rows[g].job = g]
  /\ UNCHANGED <<grabs, job, copies, grabber, imp, stall, skips, asks, crashes>>

\* The client reports the job complete and the copy says the row is waiting
\* for it.  Only qBittorrent's poller looks for the content first: content
\* that is gone is an import already done, or a miss to be recorded.
PollComplete(g) ==
  LET r    == poll.rows[g]
      done == IF r.status = "completed" THEN row[g] ELSE UpdateStatus(row[g], "completed")
  IN
  /\ AtRow(g) /\ r.job # NoJob /\ ReportsComplete(g) /\ Importable(r.status)
  /\ \/ /\ RowsFirst => PayloadPresent(Src(g))
        /\ Put(g, r.id, done)
        /\ PollImport(g, "start", "none")
     \/ /\ RowsFirst /\ ~PayloadPresent(Src(g)) /\ AlreadyImported(r.book)
        /\ Put(g, r.id, done)
        /\ PollImport(g, "walk", "none")
     \/ /\ RowsFirst /\ ~PayloadPresent(Src(g)) /\ ~AlreadyImported(r.book)
        /\ Put(g, r.id, done)
        /\ PollImport(g, "verdict", "importFailed")
  /\ poll' = Handled(g)
  /\ UNCHANGED <<grabs, job, copies, grabber, stall, skips, asks, crashes>>

\* Mutant: one attempt more than the limit.
RetryableAtLimit(r) == r.status = "importFailed" /\ r.retry <= RetryLimit

Retryable(r) == r.status = "importFailed" /\ r.retry < RetryLimit

\* A failed import with budget left and something on disk: one more attempt.
PollRetry(g) ==
  LET r == poll.rows[g] IN
  /\ AtRow(g) /\ r.job # NoJob /\ ReportsComplete(g) /\ Retryable(r)
  /\ \/ /\ PayloadPresent(Src(g))
        /\ Put(g, r.id, IncrementImportRetryCount(row[g]))
        /\ PollImport(g, "start", "none")
     \/ /\ RowsFirst /\ ~PayloadPresent(Src(g)) /\ AlreadyImported(r.book)
        /\ PollImport(g, "walk", "none")
        /\ UNCHANGED row
  /\ poll' = Handled(g)
  /\ UNCHANGED <<grabs, job, copies, grabber, stall, skips, asks, crashes>>

\* Mutant: every skip starts a streak of its own.
StreakRestarts(g) == 1

\* recordImportSkip: the streak goes on only while the copied row shows the
\* retry count and the message it had when the streak began.
Streak(g) ==
  LET r == poll.rows[g]
      s == skips[g]
  IN IF s.id = r.id /\ s.retry = r.retry /\ s.msg = r.msg THEN s.n + 1 ELSE 1

\* Mutant: one poll too many.
SkipsExhaustedLate(g) == Streak(g) > SkipLimit

SkipsExhausted(g) == Streak(g) >= SkipLimit

\* skipImportRetry: nothing on disk, so no attempt is spent; the streak of
\* such polls is bounded and ends in a block.
PollSkip(g) ==
  LET r == poll.rows[g] IN
  /\ AtRow(g) /\ r.job # NoJob /\ ReportsComplete(g) /\ Retryable(r)
  /\ ~PayloadPresent(Src(g))
  /\ ~(RowsFirst /\ AlreadyImported(r.book))
  /\ IF SkipsExhausted(g)
       THEN /\ skips' = [skips EXCEPT ![g] = NoSkip]
            /\ Put(g, r.id, SetErrorWithStatus(row[g], "importBlocked"))
       ELSE /\ skips' = [skips EXCEPT ![g] =
                 [id |-> r.id, n |-> Streak(g), retry |-> r.retry, msg |-> r.msg]]
            /\ UNCHANGED row
  /\ poll' = Handled(g)
  /\ UNCHANGED <<grabs, job, copies, grabber, imp, stall, asks, crashes>>

\* The client reports the job failed.  Usenet pollers fail any row that is
\* not failed yet; torrent pollers leave imported rows alone.
PollFailed(g) ==
  LET r == poll.rows[g] IN
  /\ AtRow(g) /\ r.job # NoJob /\ ReportsFailed(g)
  /\ r.status \notin (IF IsTorrent THEN {"imported", "failed"} ELSE {"failed"})
  /\ Put(g, r.id, SetError(row[g]))
  /\ poll' = Handled(g)
  /\ UNCHANGED <<grabs, job, copies, grabber, imp, stall, skips, asks, crashes>>

\* Nothing to do for this row in this run.
PollPass(g) ==
  LET r == poll.rows[g] IN
  /\ AtRow(g) /\ r.job # NoJob
  /\ ~(ReportsComplete(g) /\ (Importable(r.status) \/ Retryable(r)))
  /\ ~(ReportsFailed(g)
       /\ r.status \notin (IF IsTorrent THEN {"imported", "failed"} ELSE {"failed"}))
  /\ poll' = Handled(g)
  /\ UNCHANGED <<row, grabs, job, copies, grabber, imp, stall, skips, asks, crashes>>

-----------------------------------------------------------------------------
(* The end of a poll: blockStaleImportFailures, over a fresh copy of the     *)
(* rows that are downloading or waiting for an import retry.                 *)

IsStaleCandidate(r) == r.status \in {"downloading", "importFailed"}

StaleList ==
  /\ poll.pc = "rows" /\ poll.todo = {} /\ imp["poll"].pc = "idle"
  /\ LET found == {g \in Guids : IsStaleCandidate(row[g])} IN
     /\ poll' = [poll EXCEPT !.pc = "stale", !.todo = found,
                   !.rows = [g \in Guids |-> IF g \in found THEN row[g] ELSE NoRow]]
     /\ skips' = [g \in Guids |->
                    IF row[g].status = "importFailed" /\ row[g].id = skips[g].id
                      THEN skips[g] ELSE NoSkip]
  /\ UNCHANGED <<row, grabs, job, copies, grabber, imp, stall, asks, crashes>>

AtStale(g) == poll.pc = "stale" /\ g \in poll.todo

Unseen(r) == poll.complete /\ r.id \notin poll.seen

\* The retry budget is spent, or the source is gone from a complete listing.
StaleBlocks(r) ==
  r.status = "importFailed" /\ (r.retry >= RetryLimit \/ Unseen(r))

\* failDownloadThatNeverArrived and its three guards.
NeverArrived(r) ==
  r.status = "downloading" /\ Unseen(r) /\ r.job # NoJob /\ r.age = "old"

StaleBlock(g) ==
  /\ AtStale(g) /\ StaleBlocks(poll.rows[g])
  /\ Put(g, poll.rows[g].id, SetErrorWithStatus(row[g], "importBlocked"))
  /\ poll' = Handled(g)
  /\ UNCHANGED <<grabs, job, copies, grabber, imp, stall, skips, asks, crashes>>

StaleFail(g) ==
  /\ AtStale(g) /\ NeverArrived(poll.rows[g])
  /\ Put(g, poll.rows[g].id, SetError(row[g]))
  /\ poll' = Handled(g)
  /\ UNCHANGED <<grabs, job, copies, grabber, imp, stall, skips, asks, crashes>>

StalePass(g) ==
  /\ AtStale(g) /\ ~StaleBlocks(poll.rows[g]) /\ ~NeverArrived(poll.rows[g])
  /\ poll' = Handled(g)
  /\ UNCHANGED <<row, grabs, job, copies, grabber, imp, stall, skips, asks, crashes>>

PollEnd ==
  /\ poll.pc = "stale" /\ poll.todo = {}
  /\ poll' = NoPoll
  /\ UNCHANGED <<row, grabs, job, copies, grabber, imp, stall, skips, asks, crashes>>

PollRow(g) == PollBackfill(g) \/ PollComplete(g) \/ PollRetry(g) \/ PollSkip(g)
              \/ PollFailed(g) \/ PollPass(g)

PollStep ==
  \/ PollFirst \/ PollSecond \/ StaleList \/ PollEnd
  \/ \E g \in Guids : PollRow(g) \/ StaleBlock(g) \/ StaleFail(g) \/ StalePass(g)

=============================================================================
