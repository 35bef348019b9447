--------------------------- MODULE DownloadImport ---------------------------
(***************************************************************************)
(* Scanner.tryImportInternal, run by the poller or, for Match to book, in  *)
(* a goroutine of its own.  The results of its status writes are never     *)
(* looked at: a refused write does not stop the import.                    *)
(***************************************************************************)
EXTENDS DownloadSystem

ImpUnchanged == UNCHANGED <<grabs, grabber, poll, stall, skips, asks, crashes>>

ImpGoes(t, pc) == imp' = [imp EXCEPT ![t].pc = pc]
ImpEnds(t)     == imp' = [imp EXCEPT ![t] = NoImp]

ImpPut(t, new) == Put(imp[t].guid, imp[t].id, new)
ImpRow(t)      == row[imp[t].guid]

ImportPending(t) ==
  /\ imp[t].pc = "start"
  /\ ImpPut(t, UpdateStatus(ImpRow(t), "importPending"))
  /\ ImpGoes(t, "discover") /\ ImpUnchanged /\ UNCHANGED <<job, copies>>

\* External mode with no drop folder: hand the files off and stop.
ImportHandOff(t) ==
  /\ imp[t].pc = "discover" /\ "external" \in ImportModes
  /\ ImpPut(t, UpdateStatus(ImpRow(t), "importExternal"))
  /\ ImpEnds(t) /\ ImpUnchanged /\ UNCHANGED <<job, copies>>

\* No usable file at the path; or, a poller's import only, none big enough to
\* be a book, and then where they are is recorded first.
ImportNoFiles(t) ==
  /\ imp[t].pc = "discover" /\ "library" \in ImportModes
  /\ \/ /\ AlreadyImported(imp[t].book)
        /\ ImpPut(t, UpdateStatus(ImpRow(t), "importing"))
        /\ ImpGoes(t, "finish")
     \/ /\ ~AlreadyImported(imp[t].book)
        /\ ImpPut(t, SetErrorWithStatus(ImpRow(t), "importFailed"))
        /\ ImpEnds(t)
     \/ /\ t = "poll"
        /\ ~AlreadyImported(imp[t].book) /\ PayloadPresent(imp[t].src)
        /\ ImpPut(t, SetImportPath(ImpRow(t), imp[t].grab))
        /\ ImpGoes(t, "tiny")
  /\ ImpUnchanged /\ UNCHANGED <<job, copies>>

\* Mutant: straight to the block, which importPending does not allow.
ImportTinyDirect(t) ==
  /\ imp[t].pc = "tiny"
  /\ imp' = [imp EXCEPT ![t].pc = "verdict", ![t].verdict = "importBlocked"]
  /\ ImpUnchanged /\ UNCHANGED <<row, job, copies>>

\* blockTinyOnlyDownload passes through importing on its way to the block.
ImportTiny(t) ==
  /\ imp[t].pc = "tiny"
  /\ ImpPut(t, UpdateStatus(ImpRow(t), "importing"))
  /\ imp' = [imp EXCEPT ![t].pc = "verdict", ![t].verdict = "importBlocked"]
  /\ ImpUnchanged /\ UNCHANGED <<job, copies>>

ImportBegin(t) ==
  /\ imp[t].pc = "discover" /\ "library" \in ImportModes
  /\ PayloadPresent(imp[t].src)
  /\ ImpPut(t, UpdateStatus(ImpRow(t), "importing"))
  /\ ImpGoes(t, "match") /\ ImpUnchanged /\ UNCHANGED <<job, copies>>

Verdicts == {"importFailed", "importBlocked"}

\* The import will end with v.
ImpJudged(t, v) == imp' = [imp EXCEPT ![t].pc = "verdict", ![t].verdict = v]

\* A video among the files blocks the download.  Else the import is of the
\* book the copied row names, or of one recovered from the files and saved.
\* With neither, the place of the files is recorded for Match to book.
ImportMatch(t) ==
  /\ imp[t].pc = "match"
  /\ \/ ImpJudged(t, "importBlocked") /\ UNCHANGED row
     \/ imp[t].book /\ ImpGoes(t, "check") /\ UNCHANGED row
     \/ /\ ~imp[t].book
        /\ ImpPut(t, SetBook(ImpRow(t), TRUE))
        /\ imp' = [imp EXCEPT ![t].pc = "check", ![t].book = TRUE]
     \/ /\ ~imp[t].book
        /\ ImpPut(t, SetImportPath(ImpRow(t), imp[t].grab))
        /\ \E v \in Verdicts : ImpJudged(t, v)
  /\ ImpUnchanged /\ UNCHANGED <<job, copies>>

\* A format, pack, language or content check refuses the files: their place
\* is recorded for Match to book and the download is blocked.
ImportReject(t) ==
  /\ imp[t].pc = "check"
  /\ ImpPut(t, SetImportPath(ImpRow(t), imp[t].grab))
  /\ ImpJudged(t, "importBlocked")
  /\ ImpUnchanged /\ UNCHANGED <<job, copies>>

\* The idempotency guard: a file that is recorded is not placed again.  The
\* other files of the download may still fail.
ImportGuard(t) ==
  /\ imp[t].pc = "check"
  /\ IF AlreadyImported(imp[t].book)
       THEN ImpGoes(t, "finish") \/ \E v \in Verdicts : ImpJudged(t, v)
       ELSE ImpGoes(t, "place")
  /\ ImpUnchanged /\ UNCHANGED <<row, job, copies>>

\* The files are placed and recorded; all of them, some, or none.
ImportPlace(t) ==
  /\ imp[t].pc = "place"
  /\ \/ /\ imp[t].book /\ copies < MaxCopies
        /\ copies' = copies + 1
        /\ ImpGoes(t, "finish") \/ \E v \in Verdicts : ImpJudged(t, v)
     \/ /\ \E v \in Verdicts : ImpJudged(t, v)
        /\ UNCHANGED copies
  /\ ImpUnchanged /\ UNCHANGED <<row, job>>

ImportVerdict(t) ==
  /\ imp[t].pc = "verdict"
  /\ ImpPut(t, SetErrorWithStatus(ImpRow(t), imp[t].verdict))
  /\ ImpEnds(t) /\ ImpUnchanged /\ UNCHANGED <<job, copies>>

ImportFinish(t) ==
  /\ imp[t].pc = "finish"
  /\ ImpPut(t, UpdateStatus(ImpRow(t), "imported"))
  /\ ImpGoes(t, "cleanup") /\ ImpUnchanged /\ UNCHANGED <<job, copies>>

\* Move mode empties the download; the poller's imports may also remove the
\* job from the client.
ImportCleanup(t) ==
  /\ imp[t].pc = "cleanup"
  /\ \/ UNCHANGED job
     \/ job[imp[t].src] = "complete" /\ job' = [job EXCEPT ![imp[t].src] = "emptied"]
     \/ t = "poll" /\ job' = [job EXCEPT ![imp[t].src] = "none"]
  /\ ImpEnds(t) /\ ImpUnchanged /\ UNCHANGED <<row, copies>>

\* qBittorrent, content gone but the book filed: straight to imported.
ImportWalk(t) ==
  /\ \/ /\ imp[t].pc = "walk"
        /\ ImpPut(t, UpdateStatus(ImpRow(t), "importPending"))
        /\ ImpGoes(t, "walk2")
     \/ /\ imp[t].pc = "walk2"
        /\ ImpPut(t, UpdateStatus(ImpRow(t), "importing"))
        /\ ImpGoes(t, "finish")
  /\ ImpUnchanged /\ UNCHANGED <<job, copies>>

ImportStep(t) ==
  ImportPending(t) \/ ImportHandOff(t) \/ ImportNoFiles(t) \/ ImportTiny(t)
  \/ ImportBegin(t) \/ ImportMatch(t) \/ ImportReject(t) \/ ImportGuard(t)
  \/ ImportPlace(t) \/ ImportVerdict(t) \/ ImportFinish(t) \/ ImportCleanup(t)
  \/ ImportWalk(t)

-----------------------------------------------------------------------------
(* Match to book: MatchDownload and ImportFromPath.                          *)

\* MatchDownload reads the row; its import, if there is one, works from this
\* copy and from the recorded path, the files of the grab that recorded it.
MatchRead(g, t) ==
  /\ Ask("match")
  /\ imp[t].pc = "idle" /\ row[g].status \in {"importFailed", "importBlocked"}
  /\ imp' = [imp EXCEPT ![t] =
       [pc |-> "attach", guid |-> g, id |-> row[g].id, grab |-> row[g].path,
        src |-> IF row[g].path = 0 THEN NoJob ELSE JobFor(g, row[g].path),
        book |-> TRUE, verdict |-> "none"]]
  /\ UNCHANGED <<row, grabs, job, copies, grabber, poll, stall, skips, crashes>>

\* It attaches the book, unless the book is gone by then, and imports straight
\* from the path, or without a usable one leaves the import to the poller.
MatchAttach(t) ==
  /\ imp[t].pc = "attach"
  /\ IF imp[t].book
       THEN /\ ImpPut(t, SetBook(ImpRow(t), TRUE))
            /\ IF imp[t].grab # 0 /\ PayloadPresent(imp[t].src)
                 THEN ImpGoes(t, "queued") ELSE ImpGoes(t, "rearm")
       ELSE ImpEnds(t) /\ UNCHANGED row
  /\ ImpUnchanged /\ UNCHANGED <<job, copies>>

MatchRearm(t) ==
  /\ imp[t].pc = "rearm"
  /\ ImpPut(t, ResetImportRetry(ImpRow(t)))
  /\ ImpEnds(t) /\ ImpUnchanged /\ UNCHANGED <<job, copies>>

\* lockManualBook: manual imports of one book run one at a time.
MatchLock(t) ==
  /\ imp[t].pc = "queued"
  /\ \A u \in Matchers : imp[u].pc \in {"idle", "attach", "rearm", "queued"}
  /\ ImpGoes(t, "start") /\ ImpUnchanged /\ UNCHANGED <<row, job, copies>>

MatchStep(t) == MatchAttach(t) \/ MatchRearm(t) \/ MatchLock(t)

=============================================================================
