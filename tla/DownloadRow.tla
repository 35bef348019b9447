----------------------------- MODULE DownloadRow -----------------------------
(***************************************************************************)
(* What db.DownloadRepo promises of one GUID's row, whoever calls it and   *)
(* in whatever order: every statement takes effect at one instant, a       *)
(* guarded status write only along the transition table, a claim only of a *)
(* row whose grab is over.  DownloadRowCas shows that the repository's     *)
(* read, validate, write sequences implement this specification.           *)
(***************************************************************************)
EXTENDS DownloadRows

VARIABLES row,         \* the row that holds the GUID, or NoRow
          grabs        \* grabs recorded so far; also the last id handed out

vars == <<row, grabs>>

Init == row = NoRow /\ grabs = 0

\* Create: the GUID is UNIQUE, so there is no second row to insert.
Create ==
  /\ row.status = Absent
  /\ grabs' = grabs + 1
  /\ \E b \in BOOLEAN : row' = CreatedRow(grabs + 1, grabs + 1, b)

\* RetryFailed, RetryDeadForAutoGrab and RetryImported, one guarded UPDATE each.
Claim ==
  /\ \/ RetryFailedTakes(row)
     \/ RetryDeadForAutoGrabTakes(row)
     \/ RetryImportedTakes(row)
  /\ grabs' = grabs + 1
  /\ \E b \in BOOLEAN : row' = ClaimedRow(row, grabs + 1, b)

StatusWrite ==
  \/ \E next \in DownloadState : row' = UpdateStatus(row, next)
  \/ \E next \in DownloadState : row' = SetErrorWithStatus(row, next)
  \/ row' = SetError(row)
  \/ row' = ResetImportRetry(row)
  \/ \E filed \in BOOLEAN : row' = BootSweep(row, filed)

ColumnWrite ==
  \/ row' = IncrementImportRetryCount(row)
  \/ \E j \in Jobs : row' = SetJob(row, j)
  \/ \E n \in 0 .. grabs : row' = SetImportPath(row, n)
  \/ \E b \in BOOLEAN : row' = SetBook(row, b)

Delete == row' = NoRow

\* The number goes to a grab of another GUID.
OtherGrab == grabs' = grabs + 1 /\ UNCHANGED row

TimePasses == row' = CooldownOver(row) \/ row' = GraceOver(row)

Next ==
  \/ Create \/ Claim \/ OtherGrab
  \/ (StatusWrite \/ ColumnWrite \/ Delete \/ TimePasses) /\ UNCHANGED grabs

Spec == Init /\ [][Next]_vars

-----------------------------------------------------------------------------
\* dead_at is set exactly while the row is in a state it cannot leave on its
\* own, so the stamp always describes the attempt the row holds: deadStamp in
\* UpdateStatus and SetErrorWithStatus, SetError, ResetImportRetry, the claims.
DeadStampAccurate ==
  row.dead # "null" <=> IsDeadForRegrab(row.status)

=============================================================================
