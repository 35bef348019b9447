--------------------------- MODULE DownloadClaims ---------------------------
(***************************************************************************)
(* What comments of the repository say of the life of a download and the   *)
(* code does not keep.  Each statement is checked by a run of its own that *)
(* finds it violated; the README quotes the comment and tells the story.   *)
(***************************************************************************)
EXTENDS DownloadLifecycle

\* db/downloads.go: the boot sweep re-queues a completed row as importPending
\* "so the normal CheckDownloads tick will pick them up".
RequeuedIsPickedUp ==
  \A g \in Guids :
    LET waits == /\ row[g].status = "importPending" /\ row[g].job # NoJob
                 /\ job[row[g].job] = "complete"
    IN waits ~> ~waits

\* importer/scanner_poll.go: "The importer's own idempotency guards ...
\* prevent a double-import".
NoDoubleImport == copies <= 1

\* models/download_state.go: "validTransitions defines which state transitions
\* are allowed", and only a grabbed or downloading row may become failed.
FailedAlongTheTable ==
  [][\A g \in Guids :
       row'[g].status = "failed" /\ row[g].status # "failed" =>
         CanTransitionTo(row[g].status, "failed")]_vars

\* importer/scanner.go: a download is failed as never arrived only when "the
\* client has no record of it", absence being "definitive" under a complete
\* listing: the listing of this poll does not show its job.
NeverArrivedIsAbsent ==
  [][\A g \in Guids :
       StaleFail(g) /\ row[g].id = poll.rows[g].id =>
         poll.jobs[poll.rows[g].job] = "none"]_vars

\* db/downloads.go: "the claimed row carries nothing of the grab it replaces",
\* its import_path in particular, from which Match to book imports.
PathIsOfThisGrab == \A g \in Guids : row[g].path \in {0, row[g].grab}

=============================================================================
