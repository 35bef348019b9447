----------------------------- MODULE SharedJobs ------------------------------
(***************************************************************************)
(* One job in a download client and the download rows that name it.  A     *)
(* torrent client adopts a torrent it already holds, so several grabs may  *)
(* end up on one job; whoever is done with it (a queue removal, an import  *)
(* on a client set to remove on import, the stall check) first asks        *)
(* whether another row still uses the job, and removes it only if none     *)
(* does.  The question and the removal are two calls.                      *)
(***************************************************************************)
EXTENDS FiniteSets

CONSTANT JobRows      \* the rows that may come to name the job

VARIABLES removeOnImport,  \* DownloadClient.RemoveOnImport
          use,             \* the status of each row
          held,            \* the client holds the job
          pass,            \* the step each removal path is at, for each row
          joined,          \* ghost: rows that took the job up while a removal was under way
          leftWith         \* ghost: why the job may stay although nobody wants it

jobVars == <<removeOnImport, use, held, pass, joined, leftWith>>

\* "sent": the client has the job, the row does not name it yet.  "kept":
\* importFailed, importBlocked, importExternal and importHeld.
UseStates == {"none", "sent", "downloading", "importing", "kept", "imported",
              "failed", "gone"}
Paths == {"queue", "import", "stall"}
PassSteps == {"idle", "work", "blind", "check", "remove", "mark"}

\* "other": a user kept the job, a call failed, the row named no job when it was removed,
\* failed, or was trimmed; it outweighs "stall".
Reasons == {"nothing", "stall", "other"}

JobsTypeOK ==
  /\ removeOnImport \in BOOLEAN
  /\ use \in [JobRows -> UseStates]
  /\ held \in BOOLEAN
  /\ pass \in [Paths -> [JobRows -> PassSteps]]
  /\ joined \subseteq JobRows
  /\ leftWith \in Reasons

JobsInit ==
  /\ removeOnImport \in BOOLEAN
  /\ use = [r \in JobRows |-> "none"]
  /\ held = FALSE
  /\ pass = [p \in Paths |-> [r \in JobRows |-> "idle"]]
  /\ joined = {} /\ leftWith = "nothing"

-----------------------------------------------------------------------------

\* ListByClientTorrentID, ListByClientNzoID: the rows that name the job.
Names(r) == use[r] \notin {"none", "sent", "gone"}

\* Mutant: every failed import has let go of the job.
StillUsesIgnoresKept(r) ==
  /\ Names(r) /\ use[r] \notin {"failed", "kept"}
  /\ use[r] = "imported" => ~removeOnImport

\* stillUsesClientJob
StillUses(r) ==
  /\ Names(r) /\ use[r] # "failed"
  /\ use[r] = "imported" => ~removeOnImport

\* OtherDownloadUsingClientJob
Shared(r) == \E o \in JobRows \ {r} : StillUses(o)

Removing == \E p \in Paths, r \in JobRows : pass[p][r] = "remove"

Step(p, r, from, to) == pass[p][r] = from /\ pass' = [pass EXCEPT ![p][r] = to]

-----------------------------------------------------------------------------
(* A row's life. *)

\* A new row, or one whose attempt is over (a person may also claim an importBlocked or
\* an imported one), which the claim makes name no job.
Grabbable(r) == use[r] \in {"none", "failed", "kept", "imported"}

\* SendDownload: the client adds the job, or adopts the one it holds.
JobSend(r) ==
  /\ Grabbable(r)
  /\ use' = [use EXCEPT ![r] = "sent"]
  /\ leftWith' = IF held THEN leftWith ELSE "nothing"
  /\ held' = TRUE
  /\ UNCHANGED <<removeOnImport, pass, joined>>

\* The client refuses: the row failed, and no longer names what it named.
JobSendFails(r) ==
  /\ Grabbable(r) /\ Names(r)
  /\ use' = [use EXCEPT ![r] = "failed"]
  /\ leftWith' = IF StillUses(r) THEN "other" ELSE leftWith
  /\ UNCHANGED <<removeOnImport, held, pass, joined>>

\* SetTorrentID or SetNzoID, and the move to downloading.
JobRecord(r) ==
  /\ use[r] = "sent"
  /\ use' = [use EXCEPT ![r] = "downloading"]
  /\ joined' = IF Removing THEN joined \cup {r} ELSE joined
  /\ UNCHANGED <<removeOnImport, held, pass, leftWith>>

\* The poller, or Match to book, claims the row and imports its payload.
JobImport(r) ==
  /\ use[r] \in {"downloading", "kept"} /\ held
  /\ Step("import", r, "idle", "work")
  /\ use' = [use EXCEPT ![r] = "importing"]
  /\ UNCHANGED <<removeOnImport, held, joined, leftWith>>

\* The row is marked imported first; then the cleanup, where there is one, runs
\* whether or not the row took the status.
JobImported(r) ==
  /\ Step("import", r, "work", IF removeOnImport THEN "check" ELSE "idle")
  /\ use' = [use EXCEPT ![r] = IF @ = "importing" THEN "imported" ELSE @]
  /\ UNCHANGED <<removeOnImport, held, joined, leftWith>>

JobImportFails(r) ==
  /\ Step("import", r, "work", "idle")
  /\ use' = [use EXCEPT ![r] = IF @ = "importing" THEN "kept" ELSE @]
  /\ UNCHANGED <<removeOnImport, held, joined, leftWith>>

\* The client reports the download failed: the row is over and its job stays.
JobFails(r) ==
  /\ use[r] = "downloading"
  /\ use' = [use EXCEPT ![r] = "failed"]
  /\ leftWith' = "other"
  /\ UNCHANGED <<removeOnImport, held, pass, joined>>

\* TrimTerminal deletes some of the old rows.  A row stays while another that
\* is not itself old and terminal names its job.
JobTrim(rows) ==
  /\ rows # {} /\ \A r \in rows : use[r] \in {"imported", "failed"}
  /\ \A o \in JobRows : Names(o) => use[o] \in {"imported", "failed"}
  /\ use' = [r \in JobRows |-> IF r \in rows THEN "gone" ELSE use[r]]
  /\ leftWith' = "other"
  /\ UNCHANGED <<removeOnImport, held, pass, joined>>

-----------------------------------------------------------------------------
(* The removal paths. *)

\* Delete, BulkDelete: the row is read.
QueueRead(r) ==
  /\ use[r] \notin {"none", "gone"}
  /\ Step("queue", r, "idle", IF use[r] = "sent" THEN "blind" ELSE "work")
  /\ UNCHANGED <<removeOnImport, use, held, joined, leftWith>>

\* Mutant: the item looks at the other rows before its own is deleted.
DeleteAfterLooking(r) ==
  /\ \/ use' = use /\ Step("queue", r, "work", IF Shared(r) THEN "mark" ELSE "blind")
     \/ Step("queue", r, "mark", "idle") /\ use' = [use EXCEPT ![r] = "gone"]
     \/ Step("queue", r, "blind", "remove") /\ use' = [use EXCEPT ![r] = "gone"]
  /\ UNCHANGED <<removeOnImport, held, joined, leftWith>>

\* removeQueueItem: the row goes first, whatever it is by now.  If the copy read names no
\* job yet, the client is left alone.
QueueDelete(r) ==
  /\ \/ Step("queue", r, "work", "check") /\ UNCHANGED leftWith
     \/ Step("queue", r, "blind", "idle") /\ leftWith' = "other"
  /\ use' = [use EXCEPT ![r] = "gone"]
  /\ UNCHANGED <<removeOnImport, held, joined>>

\* The same with removeFromClient unset.
QueueForget(r) ==
  /\ use[r] \notin {"none", "gone"} /\ pass["queue"][r] = "idle"
  /\ use' = [use EXCEPT ![r] = "gone"]
  /\ leftWith' = "other"
  /\ UNCHANGED <<removeOnImport, held, pass, joined>>

\* checkStalledDownloads read the row while it was downloading.
StallFound(r) ==
  /\ use[r] = "downloading" /\ held
  /\ Step("stall", r, "idle", "check")
  /\ UNCHANGED <<removeOnImport, use, held, joined, leftWith>>

\* What a path does once it is done with the client: the stall check goes on
\* to mark its row.
AfterClient(p) == IF p = "stall" THEN "mark" ELSE "idle"

\* ClientJobShared says no: the client is called next.
JobIsFree(p, r) ==
  /\ ~Shared(r)
  /\ Step(p, r, "check", "remove")
  /\ UNCHANGED <<removeOnImport, use, held, joined, leftWith>>

\* ClientJobShared says yes, or cannot tell: the job stays.
JobIsShared(p, r) ==
  /\ Step(p, r, "check", AfterClient(p))
  /\ \/ Shared(r) /\ leftWith' = leftWith
     \/ leftWith' = "other"
  /\ UNCHANGED <<removeOnImport, use, held, joined>>

\* RemoveDownload.
JobRemove(p, r) ==
  /\ Step(p, r, "remove", AfterClient(p))
  /\ \/ held' = FALSE /\ leftWith' = "nothing"
     \/ held' = held /\ leftWith' = "other"
  /\ joined' = IF Removing' THEN joined ELSE {}
  /\ UNCHANGED <<removeOnImport, use>>

\* SetError: whatever the row is by then, it is marked failed.  Only here does a
\* row let go of the job after its own pass has looked.
StallMark(r) ==
  /\ Step("stall", r, "mark", "idle")
  /\ use' = [use EXCEPT ![r] = IF @ \in {"none", "gone"} THEN @ ELSE "failed"]
  /\ leftWith' = IF (use[r] = "sent" \/ StillUses(r)) /\ leftWith = "nothing" THEN "stall"
                ELSE leftWith
  /\ UNCHANGED <<removeOnImport, held, joined>>

JobsNext ==
  \/ \E r \in JobRows :
       \/ JobSend(r) \/ JobSendFails(r) \/ JobRecord(r) \/ JobImport(r) \/ JobImported(r)
       \/ JobImportFails(r) \/ JobFails(r)
       \/ QueueRead(r) \/ QueueDelete(r) \/ QueueForget(r) \/ StallFound(r) \/ StallMark(r)
  \/ \E rows \in SUBSET JobRows : JobTrim(rows)
  \/ \E p \in Paths, r \in JobRows :
       JobIsFree(p, r) \/ JobIsShared(p, r) \/ JobRemove(p, r)

JobsSpec == JobsInit /\ [][JobsNext]_jobVars

-----------------------------------------------------------------------------
(* Properties. *)

\* The client loses the job only when no row uses it, the removed row's own
\* and the rows that took the job up after the removal was decided excepted
\* (scheduler, queue and import ask ClientJobShared before RemoveDownload).
RemovalSparesUsers ==
  [][held /\ ~held' =>
       \E p \in Paths, r \in JobRows :
         /\ pass[p][r] = "remove"
         /\ \A o \in JobRows \ ({r} \cup joined) : ~StillUses(o)]_jobVars

JobsQuiet == \A p \in Paths, r \in JobRows : pass[p][r] = "idle"

Unwanted == \A r \in JobRows : use[r] # "sent" /\ ~StillUses(r)

\* Once nobody uses the job and no removal is under way, it has left the client,
\* unless a user kept it, a call failed, or the path that let it go asks
\* for no removal (removeQueueItem deletes its row before it looks, an import
\* marks its row imported before it looks: whichever looks last removes it).
NothingLeftBehind == JobsQuiet /\ Unwanted /\ leftWith = "nothing" => ~held

\* The comment over removeStalledFromClient: the last row of a shared stalled
\* torrent is the one whose pass removes it.
LastPassRemoves == JobsQuiet /\ Unwanted /\ leftWith # "other" => ~held

=============================================================================
