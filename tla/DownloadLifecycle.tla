------------------------- MODULE DownloadLifecycle --------------------------
(***************************************************************************)
(* The life of the downloads of one book, from the grab to the library, with*)
(* everything that writes their rows concurrently: grabs, the poller and its*)
(* import, imports started by Match to book, the stall checker, the queue's*)
(* own requests, the download client, the clock, and a restart with its boot*)
(* sweep.                                                                  *)
(***************************************************************************)
EXTENDS DownloadGrab, DownloadPoller, DownloadImport

(* The stall checker (torrents): rows that have been downloading for longer  *)
(* than stall.timeout_minutes, and then the client's own opinion of them.    *)

StallUnchanged == UNCHANGED <<grabs, copies, grabber, poll, imp, skips, asks, crashes>>

StallList(g) ==
  /\ IsTorrent /\ stall.pc = "idle"
  /\ row[g].status = "downloading" /\ row[g].age = "old" /\ row[g].job # NoJob
  /\ stall' = [pc |-> "report", guid |-> g, id |-> row[g].id, job |-> row[g].job]
  /\ StallUnchanged /\ UNCHANGED <<row, job>>

\* The report names an unfinished torrent as stalled, and it is removed from
\* the client unless the removal fails; any other torrent is left alone.
StallReport ==
  /\ stall.pc = "report"
  /\ \/ /\ job[stall.job] = "running"
        /\ job' \in {job, [job EXCEPT ![stall.job] = "none"]}
        /\ stall' = [stall EXCEPT !.pc = "fail"]
     \/ stall' = NoStall /\ UNCHANGED job
  /\ StallUnchanged /\ UNCHANGED row

StallFail ==
  /\ stall.pc = "fail"
  /\ Put(stall.guid, stall.id, SetError(row[stall.guid]))
  /\ stall' = NoStall
  /\ StallUnchanged /\ UNCHANGED job

StallStep == (\E g \in Guids : StallList(g)) \/ StallReport \/ StallFail

-----------------------------------------------------------------------------
(* What a user asks of the queue.                                            *)

RetryImport(g) ==
  /\ Ask("retry")
  /\ row[g].status # Absent
  /\ row' = [row EXCEPT ![g] = ResetImportRetry(@)]
  /\ UNCHANGED <<grabs, job, copies, grabber, poll, imp, stall, skips, crashes>>

\* removeQueueItem: the row goes first, then perhaps the client's job.  (The
\* client may lose the job at any later time too: JobVanishes.)
RemoveItem(g) ==
  /\ Ask("remove")
  /\ row[g].status # Absent
  /\ row' = [row EXCEPT ![g] = NoRow]
  /\ job' \in {job} \cup {[job EXCEPT ![j] = "none"] : j \in Jobs \cap {row[g].job}}
  /\ UNCHANGED <<grabs, copies, grabber, poll, imp, stall, skips, crashes>>

\* The book is deleted: its file records go with it and every row keeps going
\* without a book; a running import can no longer record a file against it.
DeleteBook ==
  /\ Ask("delete book")
  /\ copies' = 0
  /\ row' = [g \in Guids |-> SetBook(row[g], FALSE)]
  /\ imp' = [t \in Threads |-> [imp[t] EXCEPT !.book = FALSE]]
  /\ UNCHANGED <<grabs, job, grabber, poll, stall, skips, crashes>>

UserStep ==
  \/ \E g \in Guids : RetryImport(g) \/ RemoveItem(g)
  \/ \E g \in Guids, t \in Matchers : MatchRead(g, t)
  \/ DeleteBook

-----------------------------------------------------------------------------
(* The download client, the clock and the process.                           *)

Becomes(j, from, to) ==
  /\ job[j] \in from
  /\ job' = [job EXCEPT ![j] = to]
  /\ UNCHANGED <<row, grabs, copies, grabber, poll, imp, stall, skips, asks, crashes>>

\* A finished job's files may be out of reach for a while, or for good.
JobCompletes(j) == Becomes(j, {"running"}, "complete")
JobFails(j)     == Becomes(j, {"running"}, "failed")
JobEmptied(j)   == Becomes(j, {"complete"}, "emptied")
JobRefilled(j)  == Becomes(j, {"emptied"}, "complete")
JobVanishes(j)  == Becomes(j, JobState \ {"none"}, "none")

ClientStep ==
  \E j \in Jobs : \/ JobCompletes(j) \/ JobFails(j) \/ JobEmptied(j)
                  \/ JobRefilled(j)  \/ JobVanishes(j)

CooldownElapses(g) ==
  /\ row[g].dead = "fresh"
  /\ row' = [row EXCEPT ![g] = CooldownOver(@)]
  /\ UNCHANGED <<grabs, job, copies, grabber, poll, imp, stall, skips, asks, crashes>>

\* neverArrivedGrace is ten minutes; a poll that runs no import is over in far
\* less, so a row does not grow old during one unless imports may be slow.
GraceElapses(g) ==
  /\ row[g].status # Absent /\ row[g].age = "young"
  /\ \/ poll.pc = "idle"
     \/ SlowImports /\ imp["poll"].pc # "idle"
  /\ row' = [row EXCEPT ![g] = GraceOver(@)]
  /\ UNCHANGED <<grabs, job, copies, grabber, poll, imp, stall, skips, asks, crashes>>

\* The process dies and comes back: everything in memory is gone and the boot
\* sweep has run before any other actor starts.
Restart ==
  /\ crashes < MaxCrashes /\ crashes' = crashes + 1
  /\ row'     = [g \in Guids |-> BootSweep(row[g], copies > 0)]
  /\ grabber' = [p \in Grabbers |-> NoGrab]
  /\ poll'    = NoPoll
  /\ imp'     = [t \in Threads |-> NoImp]
  /\ stall'   = NoStall
  /\ skips'   = [g \in Guids |-> NoSkip]
  /\ UNCHANGED <<grabs, job, copies, asks>>

-----------------------------------------------------------------------------
Hows(p) == IF p \in Manual THEN {"create", "dead", "forced", "auto"} ELSE {"create", "auto"}

Grabbing == \E p \in Grabbers :
  GrabStep(p) \/ \E g \in Guids, how \in Hows(p) : GrabRead(p, g, how)

Importing == \/ \E t \in Threads : ImportStep(t)
             \/ \E t \in Matchers : MatchStep(t)

ClockStep == \E g \in Guids : CooldownElapses(g) \/ GraceElapses(g)

Next == Grabbing \/ PollStep \/ Importing \/ StallStep \/ UserStep
        \/ ClientStep \/ ClockStep \/ Restart

Spec == Init /\ [][Next]_vars

\* The server's own goroutines run to their end and the poll job comes round
\* again; users, the client, the clock and crashes owe nothing.
FairSpec ==
  /\ Spec
  /\ \A p \in Grabbers : WF_vars(GrabStep(p))
  /\ WF_vars(PollStep)
  /\ \A t \in Threads : WF_vars(ImportStep(t) \/ MatchStep(t))

-----------------------------------------------------------------------------
PollPC == {"idle", "second", "rows", "stale"}
ImpPC  == {"idle", "attach", "rearm", "queued", "start", "discover", "tiny",
           "match", "check", "place", "verdict", "finish", "cleanup", "walk", "walk2"}

\* Every variable stays in its domain, an import is of a row it names by id,
\* and a skip streak is cut off before it reaches importSkipLimit.
TypeOK ==
  /\ row \in [Guids -> Row] /\ grabs \in Nat
  /\ job \in [Jobs -> JobState] /\ copies \in Nat
  /\ \A p \in Grabbers : grabber[p].pc \in {"idle", "claim", "send", "error",
                                             "record", "update"}
  /\ poll.pc \in PollPC /\ poll.rows \in [Guids -> Row] /\ poll.todo \subseteq Guids
  /\ \A t \in Threads : imp[t].pc \in ImpPC /\ imp[t].id \in 0 .. grabs
  /\ stall.pc \in {"idle", "report", "fail"}
  /\ \A g \in Guids : skips[g].n < SkipLimit
  /\ asks \in Nat /\ crashes \in Nat

\* dead_at is set exactly while a row is in a state it cannot leave on its own,
\* whatever the poller, imports, grabs and users do to it in between: the
\* scheduler's cooldown is measured from the death of the attempt in the row.
DeadStampAccurate ==
  \A g \in Guids : row[g].dead # "null" <=> IsDeadForRegrab(row[g].status)

\* No row is tried more often than importRetryLimit, although the poller
\* counts from a copy of the row and the boot sweep counts as well.
RetryBudget == \A g \in Guids : row[g].retry <= RetryLimit

\* A row marked imported whose book still exists has a file in the library:
\* no stale thread or refused write closes a download that filed nothing.
ImportedIsFiled ==
  \A g \in Guids : row[g].status = "imported" /\ row[g].book => copies > 0

\* Without restarts, a row shown as importing always has an import at work
\* on it: whichever writes are refused on the way, the last import to leave
\* leaves the row in a state the queue can act on.
NoOrphanedImport ==
  \A g \in Guids :
    row[g].status \in {"importPending", "importing"} =>
      \E t \in Threads : imp[t].guid = g /\ imp[t].id = row[g].id

\* The client id a row holds is the one its own grab was answered with, never
\* that of a grab it replaced (usenet, where the ids differ).
JobOfThisGrab ==
  \A g \in Guids : row[g].job # NoJob => row[g].job = JobFor(g, row[g].grab)

\* The scheduler never replaces an attempt that died within the cooldown, not
\* even one that died after the scheduler looked at the row.
NoHotAutoRegrab ==
  [][\A p \in Scheduler :
       grabber[p].pc = "claim" /\ grabber'[p].pc = "send" =>
         row[grabber[p].guid].dead # "fresh"]_vars

\* One release's row, as the repository promises it to be.
RowOf(g) == INSTANCE DownloadRow WITH row <- row[g]

\* Grabs, polls, imports, users, the clock and restarts move each row by what the
\* repository promises of it, whatever they read before: no claim takes a row whose
\* grab is not over, no other write changes its state but along the transition table.
RowsImplementDownloadRow ==
  /\ \A g \in Guids : RowOf(g)!Init
  /\ [][\A g \in Guids : [RowOf(g)!Next]_<<row[g], grabs>>]_vars

\* A failed import whose job the client still reports complete does not stay
\* a failed import: it is tried again, and once the tries or the empty polls
\* are used up it is blocked.
FailedImportSettles ==
  \A g \in Guids :
    LET waits == /\ row[g].status = "importFailed" /\ row[g].job # NoJob
                 /\ job[row[g].job] \in {"complete", "emptied"}
    IN waits ~> ~waits

=============================================================================
