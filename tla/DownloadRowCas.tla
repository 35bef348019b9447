--------------------------- MODULE DownloadRowCas ---------------------------
(***************************************************************************)
(* UpdateStatus and SetErrorWithStatus as the repository runs them: a      *)
(* SELECT of the current status, the check against the transition table in *)
(* Go, and an UPDATE that matches only while the status is still the one   *)
(* that was read.  Between the two statements any other caller may write.  *)
(* Every other statement of the repository is a single UPDATE, INSERT or   *)
(* DELETE and takes effect at once.                                        *)
(***************************************************************************)
EXTENDS DownloadRows

CONSTANTS Writers,     \* callers of the two read-then-write methods
          MaxGrabs,    \* bound: grabs recorded for the GUID
          MaxRetry     \* bound: import_retry_count

VARIABLES row, grabs,
          call         \* what each writer has read and is about to write

vars == <<row, grabs, call>>

Methods == {"UpdateStatus", "SetErrorWithStatus"}

NoCall == [method |-> "none", id |-> 0, current |-> Absent, next |-> Absent]

Calls == [method : Methods, id : Nat, current : DownloadState,
          next : DownloadState] \cup {NoCall}

TypeOK == row \in Row /\ grabs \in Nat /\ call \in [Writers -> Calls]

Init == row = NoRow /\ grabs = 0 /\ call = [w \in Writers |-> NoCall]

-----------------------------------------------------------------------------
Accepts(method, current, next) ==
  \/ CanTransitionTo(current, next)
  \/ method = "SetErrorWithStatus" /\ current = next

\* The SELECT and the check.  A refusal returns here, before any write.
Read(w, method, next) ==
  /\ call[w] = NoCall
  /\ row.status # Absent
  /\ Accepts(method, row.status, next)
  /\ call' = [call EXCEPT ![w] = [method |-> method, id |-> row.id,
                                  current |-> row.status, next |-> next]]
  /\ UNCHANGED <<row, grabs>>

\* Mutant: the UPDATE is guarded by the id alone, as SetError is.
RowMatchesById(c) == row.id = c.id

\* UPDATE ... WHERE id=? AND status=?
RowMatches(c) == row.id = c.id /\ row.status = c.current

\* The SET clauses of the branch the method takes.
Written(c) ==
  IF c.method = "UpdateStatus"
    THEN [row EXCEPT
            !.status = c.next,
            !.age    = AgeOn(row, c.next),
            !.msg    = IF c.next = "imported" THEN "none" ELSE @,
            !.dead   = IF c.next \in {"downloading", "completed", "imported"}
                         THEN @ ELSE DeadStamp(c.next)]
    ELSE [row EXCEPT !.status = c.next, !.msg = "some",
                     !.dead = DeadStamp(c.next)]

Write(w) ==
  /\ call[w] # NoCall
  /\ row' = IF RowMatches(call[w]) THEN Written(call[w]) ELSE row
  /\ call' = [call EXCEPT ![w] = NoCall]
  /\ UNCHANGED grabs

-----------------------------------------------------------------------------
(* The single-statement writes, by anybody. *)

Create ==
  /\ row.status = Absent /\ grabs < MaxGrabs
  /\ grabs' = grabs + 1
  /\ \E b \in BOOLEAN : row' = CreatedRow(grabs + 1, grabs + 1, b)
  /\ UNCHANGED call

Claim ==
  /\ grabs < MaxGrabs
  /\ \/ RetryFailedTakes(row)
     \/ RetryDeadForAutoGrabTakes(row)
     \/ RetryImportedTakes(row)
  /\ grabs' = grabs + 1
  /\ \E b \in BOOLEAN : row' = ClaimedRow(row, grabs + 1, b)
  /\ UNCHANGED call

Fail      == row' = SetError(row) /\ UNCHANGED <<grabs, call>>
Rearm     == row' = ResetImportRetry(row) /\ UNCHANGED <<grabs, call>>
CountTry  == row.retry < MaxRetry /\ row' = IncrementImportRetryCount(row)
             /\ UNCHANGED <<grabs, call>>
RecordJob == \E j \in Jobs : row' = SetJob(row, j) /\ UNCHANGED <<grabs, call>>
Remove    == row' = NoRow /\ UNCHANGED <<grabs, call>>
Detach    == row' = SetBook(row, FALSE) /\ UNCHANGED <<grabs, call>>
Cooldown  == row' = CooldownOver(row) /\ UNCHANGED <<grabs, call>>

\* A restart: the callers are gone and the boot sweep runs before any other.
Restart ==
  /\ row.retry < MaxRetry
  /\ \E filed \in BOOLEAN : row' = BootSweep(row, filed)
  /\ call' = [w \in Writers |-> NoCall]
  /\ UNCHANGED grabs

Other == Create \/ Claim \/ Fail \/ Rearm \/ CountTry \/ RecordJob
         \/ Remove \/ Detach \/ Cooldown \/ Restart

Next ==
  \/ \E w \in Writers, m \in Methods, next \in DownloadState : Read(w, m, next)
  \/ \E w \in Writers : Write(w)
  \/ Other

Spec == Init /\ [][Next]_vars

-----------------------------------------------------------------------------
\* The refinement mapping is the identity on the stored state: what a caller
\* has read and not yet written is invisible.
Abs == INSTANCE DownloadRow

\* The read, validate, guarded-write sequences of db.DownloadRepo behave as
\* single instants along the transition table: no interleaving with another
\* writer makes a status write land on a state its check did not see.
ImplementsDownloadRow == Abs!Spec

\* dead_at is set exactly while the row is in a state it cannot leave on its
\* own, with writers caught between their SELECT and their UPDATE: the stamp
\* a late UPDATE writes still describes the state it moves the row to.
DeadStampAccurate == Abs!DeadStampAccurate

=============================================================================
