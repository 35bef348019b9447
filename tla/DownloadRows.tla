---------------------------- MODULE DownloadRows ----------------------------
(***************************************************************************)
(* One row of the downloads table and the statements of db.DownloadRepo    *)
(* that write it, each as an operator from the row before to the row after.*)
(* A statement that matches no row, or whose guard refuses, returns the    *)
(* row unchanged.                                                          *)
(*                                                                         *)
(* Abstractions of the columns: dead_at is only compared with the re-grab  *)
(* cooldown, so it is "null", "fresh" (the cooldown is still running) or   *)
(* "old"; grabbed_at/added_at only with the never-arrived grace, so the    *)
(* row's age is "young" or "old"; an error message is "none" or "some".    *)
(* `grab' numbers the grab attempt the row holds.  It is not a column: it  *)
(* tells apart what belongs to the grab a row holds now from what belongs  *)
(* to one it replaced, and import_path is modelled by the number of the    *)
(* grab whose files it names (0 is the empty path).                        *)
(***************************************************************************)
EXTENDS DownloadStates, Naturals

CONSTANTS Jobs,        \* the ids a download client hands out
          NoJob,       \* no torrent id and no NZO id recorded
          RetryLimit   \* importRetryLimit

ASSUME RowAssumption == NoJob \notin Jobs /\ RetryLimit \in Nat

DeadAt == {"null", "fresh", "old"}

Row == [status : DownloadState \cup {Absent},
        id     : Nat,              \* the AUTOINCREMENT primary key, never reused
        grab   : Nat,
        book   : BOOLEAN,          \* book_id is not NULL
        job    : Jobs \cup {NoJob},
        retry  : Nat,              \* import_retry_count
        dead   : DeadAt,
        msg    : {"none", "some"},
        path   : Nat,
        age    : {"young", "old"}]

NoRow == [status |-> Absent, id |-> 0, grab |-> 0, book |-> FALSE,
          job |-> NoJob, retry |-> 0, dead |-> "null", msg |-> "none",
          path |-> 0, age |-> "young"]

\* Mutant: the stamp follows the scheduler's narrower rule.
DeadStampForgetsBlocked(next) ==
  IF IsDeadForAutoRegrab(next) THEN "fresh" ELSE "null"

\* What deadStamp writes into dead_at for a row moving to next.
DeadStamp(next) == IF IsDeadForRegrab(next) THEN "fresh" ELSE "null"

CreatedRow(id, grab, book) ==
  [NoRow EXCEPT !.status = "grabbed", !.id = id, !.grab = grab, !.book = book]

-----------------------------------------------------------------------------
(* Claims of an existing row for a new grab of the same release. *)

IsOrphanedImport(r) == r.status = "imported" /\ ~r.book

RetryFailedTakes(r) == IsDeadForRegrab(r.status) \/ IsOrphanedImport(r)

RetryImportedTakes(r) == r.status = "imported"

\* The cooldown is re-checked by the statement itself.
RetryDeadForAutoGrabTakes(r) ==
  \/ IsDeadForAutoRegrab(r.status) /\ r.dead # "fresh"
  \/ IsOrphanedImport(r)

\* Mutant: the claim keeps the client's id of the grab it replaces.
ClaimKeepsJob(r, grab, book) == [CreatedRow(r.id, grab, book) EXCEPT !.job = r.job]

\* regrabClaimSQL: every per-grab column is rewritten or reset.
ClaimedRow(r, grab, book) == CreatedRow(r.id, grab, book)

-----------------------------------------------------------------------------
(* Status writes. *)

\* Entering downloading or completed backfills grabbed_at, which restarts the
\* never-arrived grace of a row that had none.
AgeOn(r, next) ==
  IF r.status = "grabbed" /\ next \in {"downloading", "completed"}
    THEN "young" ELSE r.age

\* UpdateStatus: refused unless the table allows the move.  The branches for
\* downloading, completed and imported leave dead_at alone.
UpdateStatus(r, next) ==
  IF CanTransitionTo(r.status, next)
    THEN [r EXCEPT !.status = next,
                   !.age  = AgeOn(r, next),
                   !.msg  = IF next = "imported" THEN "none" ELSE @,
                   !.dead = IF next \in {"downloading", "completed", "imported"}
                              THEN @ ELSE DeadStamp(next)]
    ELSE r

\* SetErrorWithStatus: as UpdateStatus, but a row already in the state takes
\* the new message.
SetErrorWithStatus(r, next) ==
  IF r.status = next \/ CanTransitionTo(r.status, next)
    THEN [r EXCEPT !.status = next, !.msg = "some", !.dead = DeadStamp(next)]
    ELSE r

\* SetError: guarded by the id alone, whatever state the row is in.
SetError(r) ==
  IF r.status = Absent THEN r
  ELSE [r EXCEPT !.status = "failed", !.msg = "some", !.dead = "fresh"]

\* Mutant: a re-armed row stays stamped as dead.
ResetKeepsDeath(r) ==
  IF r.status \in {"importFailed", "importBlocked"}
    THEN [r EXCEPT !.status = "importFailed", !.retry = 0, !.msg = "none"]
    ELSE r

\* ResetImportRetry: the queue's Retry import.
ResetImportRetry(r) ==
  IF r.status \in {"importFailed", "importBlocked"}
    THEN [r EXCEPT !.status = "importFailed", !.retry = 0, !.msg = "none",
                   !.dead = "null"]
    ELSE r

IncrementImportRetryCount(r) ==
  IF r.status = Absent THEN r ELSE [r EXCEPT !.retry = @ + 1]

\* SetTorrentID and SetNzoID, SetImportPath, SetBookID, ON DELETE SET NULL.
SetJob(r, j)        == IF r.status = Absent THEN r ELSE [r EXCEPT !.job = j]
SetImportPath(r, g) == IF r.status = Absent THEN r ELSE [r EXCEPT !.path = g]
SetBook(r, b)       == IF r.status = Absent THEN r ELSE [r EXCEPT !.book = b]

-----------------------------------------------------------------------------
(* The boot sweep (Scanner.RecoverInterruptedImports), in its order: imports *)
(* a restart interrupted, then completed rows whose import never started.    *)

RecoverInterrupted(r) ==
  IF r.status \in {"importing", "importPending"}
    THEN [r EXCEPT !.status = "importFailed", !.msg = "some"] ELSE r

IsWedged(r, filed) ==
  r.status = "completed" /\ r.retry < RetryLimit /\ (~r.book \/ ~filed)

RecoverWedged(r, filed) ==
  IF IsWedged(r, filed)
    THEN [r EXCEPT !.status = "importPending", !.retry = @ + 1, !.msg = "some"]
    ELSE r

BootSweep(r, filed) == RecoverWedged(RecoverInterrupted(r), filed)

\* Wall-clock time.
CooldownOver(r) == [r EXCEPT !.dead = IF @ = "fresh" THEN "old" ELSE @]
GraceOver(r)    == [r EXCEPT !.age = "old"]

=============================================================================
