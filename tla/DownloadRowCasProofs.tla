------------------------ MODULE DownloadRowCasProofs ------------------------
(***************************************************************************)
(* The repository's read-then-write methods implement the single-instant   *)
(* specification of a download row, for any number of writers, any ids of  *)
(* client jobs, any retry limit and any bounds.                            *)
(***************************************************************************)
EXTENDS DownloadRowCas, DownloadRowsProofs

\* What a writer holds between its two statements was accepted by the table.
CallsAccepted ==
  \A w \in Writers :
    call[w] # NoCall => Accepts(call[w].method, call[w].current, call[w].next)

IInv == TypeOK /\ StampedRow(row) /\ CallsAccepted

-----------------------------------------------------------------------------
\* A guarded UPDATE that matches does what the method does at one instant.
LEMMA WriteIsAtomic ==
  ASSUME IInv, NEW w \in Writers, call[w] # NoCall, RowMatches(call[w])
  PROVE  \/ Written(call[w]) = UpdateStatus(row, call[w].next)
         \/ Written(call[w]) = SetErrorWithStatus(row, call[w].next)
<1> DEFINE c == call[w]
<1>1. c \in [method : Methods, id : Nat, current : DownloadState, next : DownloadState]
  BY DEF IInv, TypeOK, Calls
<1>2. Accepts(c.method, row.status, c.next)
  BY DEF IInv, CallsAccepted, RowMatches
<1>3. CASE c.method = "UpdateStatus"
  <2>1. CanTransitionTo(row.status, c.next)
    BY <1>2, <1>3 DEF Accepts
  <2> QED BY <1>3, <2>1 DEF Written, UpdateStatus
<1>4. CASE c.method = "SetErrorWithStatus"
  <2>1. row.status = c.next \/ CanTransitionTo(row.status, c.next)
    BY <1>2, <1>4 DEF Accepts
  <2> QED BY <1>4, <2>1 DEF Written, SetErrorWithStatus
<1> QED BY <1>1, <1>3, <1>4 DEF Methods

\* The first half of a call: what it stores was accepted.
LEMMA ReadPreserves ==
  ASSUME IInv, NEW w \in Writers, NEW m \in Methods, NEW next \in DownloadState,
         Read(w, m, next)
  PROVE  IInv'
<1>1. row' = row /\ grabs' = grabs
  BY DEF Read
<1>2. [method |-> m, id |-> row.id, current |-> row.status, next |-> next] \in Calls
  BY DEF IInv, TypeOK, Row, Calls, Read
<1>3. call' \in [Writers -> Calls]
  BY <1>2 DEF IInv, TypeOK, Read
<1>4. CallsAccepted'
  BY DEF IInv, TypeOK, CallsAccepted, Read
<1> QED BY <1>1, <1>3, <1>4 DEF IInv, TypeOK, StampedRow

\* The second half: the UPDATE, whether or not it matches.
LEMMA WritePreserves ==
  ASSUME IInv, NEW w \in Writers, Write(w)
  PROVE  IInv'
<1>1. StampedRow(row')
  <2>1. CASE ~RowMatches(call[w])
    BY <2>1 DEF IInv, Write
  <2>2. CASE RowMatches(call[w])
    <3>1. call[w].next \in DownloadState
      BY DEF IInv, TypeOK, Calls, Write
    <3> QED BY <2>2, <3>1, WriteIsAtomic, UpdateStatusStamped,
               SetErrorWithStatusStamped DEF IInv, Write
  <2> QED BY <2>1, <2>2
<1>2. NoCall \in Calls
  BY DEF Calls
<1>3. call' \in [Writers -> Calls] /\ CallsAccepted'
  BY <1>2 DEF IInv, TypeOK, CallsAccepted, Write
<1> QED BY <1>1, <1>3 DEF IInv, TypeOK, StampedRow, Write

\* Every single-statement write keeps the row well formed and its stamp right.
LEMMA OtherPreserves ==
  ASSUME IInv, Other
  PROVE  IInv'
<1> USE DEF IInv
<1>1. CASE Create
  BY <1>1, CreatedStamped DEF Create, TypeOK, StampedRow, CallsAccepted
<1>2. CASE Claim
  BY <1>2, ClaimedStamped DEF Claim, TypeOK, StampedRow, CallsAccepted
<1>3. CASE Fail
  BY <1>3, SetErrorStamped DEF Fail, TypeOK, StampedRow, CallsAccepted
<1>4. CASE Rearm
  BY <1>4, ResetStamped DEF Rearm, TypeOK, StampedRow, CallsAccepted
<1>5. CASE CountTry
  <2>1. StampedRow(row')
    BY <1>5, ColumnsStamped DEF CountTry, TypeOK, Row
  <2> QED BY <1>5, <2>1 DEF CountTry, TypeOK, StampedRow, CallsAccepted
<1>6. CASE RecordJob
  <2>1. StampedRow(row')
    BY <1>6, ColumnsStamped DEF RecordJob
  <2> QED BY <1>6, <2>1 DEF RecordJob, TypeOK, StampedRow, CallsAccepted
<1>7. CASE Remove
  BY <1>7, NoRowStamped DEF Remove, TypeOK, StampedRow, CallsAccepted
<1>8. CASE Detach
  <2>1. StampedRow(row')
    BY <1>8, ColumnsStamped DEF Detach
  <2> QED BY <1>8, <2>1 DEF Detach, TypeOK, StampedRow, CallsAccepted
<1>9. CASE Cooldown
  <2>1. StampedRow(row')
    BY <1>9, ColumnsStamped DEF Cooldown
  <2> QED BY <1>9, <2>1 DEF Cooldown, TypeOK, StampedRow, CallsAccepted
<1>10. CASE Restart
  <2>1. StampedRow(row')
    BY <1>10, BootSweepStamped DEF Restart
  <2> QED BY <1>10, <2>1 DEF Restart, TypeOK, StampedRow, CallsAccepted, Calls
<1> QED BY <1>1, <1>2, <1>3, <1>4, <1>5, <1>6, <1>7, <1>8, <1>9, <1>10 DEF Other

\* The inductive invariant holds throughout.
THEOREM InductiveInvariant == Spec => []IInv
<1>1. Init => IInv
  BY NoRowStamped DEF Init, IInv, TypeOK, StampedRow, CallsAccepted, Calls
<1>2. IInv /\ [Next]_vars => IInv'
  <2> SUFFICES ASSUME IInv, [Next]_vars PROVE IInv'
    OBVIOUS
  <2>1. CASE \E w \in Writers, m \in Methods, next \in DownloadState : Read(w, m, next)
    BY <2>1, ReadPreserves
  <2>2. CASE \E w \in Writers : Write(w)
    BY <2>2, WritePreserves
  <2>3. CASE Other
    BY <2>3, OtherPreserves
  <2>4. CASE UNCHANGED vars
    BY <2>4 DEF vars, IInv, TypeOK, StampedRow, CallsAccepted
  <2> QED BY <2>1, <2>2, <2>3, <2>4 DEF Next
<1> QED BY <1>1, <1>2, PTL DEF Spec

\* dead_at describes the state the row is in, whatever the callers of
\* UpdateStatus, SetErrorWithStatus, SetError, ResetImportRetry, the claims and
\* the boot sweep do, and wherever a caller is between its two statements.
THEOREM StampAlwaysAccurate == Spec => []DeadStampAccurate
<1>1. IInv => DeadStampAccurate
  BY DEF IInv, StampedRow, DeadStampAccurate, Abs!DeadStampAccurate,
         IsDeadForRegrab, Abs!IsDeadForRegrab
<1> QED BY <1>1, InductiveInvariant, PTL

-----------------------------------------------------------------------------
(* The refinement.  The instance Abs carries its own copy of the operators  *)
(* of DownloadRows; the lemma says that they are the same ones.             *)

\* The statements of the detailed and of the abstract specification agree.
LEMMA SameStatements ==
  ASSUME NEW r, NEW t, NEW x, NEW y, NEW z
  PROVE  /\ UpdateStatus(r, t) = Abs!UpdateStatus(r, t)
         /\ SetErrorWithStatus(r, t) = Abs!SetErrorWithStatus(r, t)
         /\ SetError(r) = Abs!SetError(r)
         /\ ResetImportRetry(r) = Abs!ResetImportRetry(r)
         /\ BootSweep(r, x) = Abs!BootSweep(r, x)
         /\ IncrementImportRetryCount(r) = Abs!IncrementImportRetryCount(r)
         /\ SetJob(r, x) = Abs!SetJob(r, x)
         /\ SetBook(r, x) = Abs!SetBook(r, x)
         /\ CooldownOver(r) = Abs!CooldownOver(r)
         /\ CreatedRow(x, y, z) = Abs!CreatedRow(x, y, z)
         /\ ClaimedRow(r, y, z) = Abs!ClaimedRow(r, y, z)
         /\ NoRow = Abs!NoRow
<1>1. \A a, b : CanTransitionTo(a, b) <=> Abs!CanTransitionTo(a, b)
  BY DEF CanTransitionTo, Abs!CanTransitionTo, ValidTransitions, Abs!ValidTransitions
<1>2. \A a : DeadStamp(a) = Abs!DeadStamp(a)
  BY DEF DeadStamp, Abs!DeadStamp, IsDeadForRegrab, Abs!IsDeadForRegrab
<1>3. AgeOn(r, t) = Abs!AgeOn(r, t)
  BY DEF AgeOn, Abs!AgeOn
<1>4. NoRow = Abs!NoRow /\ Absent = Abs!Absent
  BY DEF NoRow, Abs!NoRow, Absent, Abs!Absent
<1>5. UpdateStatus(r, t) = Abs!UpdateStatus(r, t)
  BY <1>1, <1>2, <1>3 DEF UpdateStatus, Abs!UpdateStatus
<1>6. SetErrorWithStatus(r, t) = Abs!SetErrorWithStatus(r, t)
  BY <1>1, <1>2 DEF SetErrorWithStatus, Abs!SetErrorWithStatus
<1>7. BootSweep(r, x) = Abs!BootSweep(r, x)
  <2>1. RecoverInterrupted(r) = Abs!RecoverInterrupted(r)
    BY DEF RecoverInterrupted, Abs!RecoverInterrupted
  <2>2. \A q : RecoverWedged(q, x) = Abs!RecoverWedged(q, x)
    BY DEF RecoverWedged, Abs!RecoverWedged, IsWedged, Abs!IsWedged
  <2> QED BY <2>1, <2>2 DEF BootSweep, Abs!BootSweep
<1>8. CreatedRow(x, y, z) = Abs!CreatedRow(x, y, z)
  BY <1>4 DEF CreatedRow, Abs!CreatedRow
<1>9. ClaimedRow(r, y, z) = Abs!ClaimedRow(r, y, z)
  BY <1>4 DEF ClaimedRow, Abs!ClaimedRow, CreatedRow, Abs!CreatedRow
<1>10. /\ SetError(r) = Abs!SetError(r)
       /\ ResetImportRetry(r) = Abs!ResetImportRetry(r)
       /\ IncrementImportRetryCount(r) = Abs!IncrementImportRetryCount(r)
       /\ SetJob(r, x) = Abs!SetJob(r, x)
       /\ SetBook(r, x) = Abs!SetBook(r, x)
       /\ CooldownOver(r) = Abs!CooldownOver(r)
  BY <1>4 DEF SetError, Abs!SetError, ResetImportRetry, Abs!ResetImportRetry,
     IncrementImportRetryCount, Abs!IncrementImportRetryCount, SetJob, Abs!SetJob,
     SetBook, Abs!SetBook, CooldownOver, Abs!CooldownOver
<1> QED BY <1>4, <1>5, <1>6, <1>7, <1>8, <1>9, <1>10

\* An UPDATE that comes late either matches, and is then one status write of
\* the abstract specification, or matches nothing and is no step at all.
LEMMA WriteRefines ==
  ASSUME IInv, NEW w \in Writers, Write(w)
  PROVE  [Abs!Next]_(Abs!vars)
<1>1. CASE ~RowMatches(call[w])
  BY <1>1 DEF Write, Abs!vars
<1>2. CASE RowMatches(call[w])
  <2>1. call[w].next \in DownloadState /\ DownloadState = Abs!DownloadState
    BY DEF IInv, TypeOK, Calls, Write, DownloadState, Abs!DownloadState
  <2>2. \/ row' = Abs!UpdateStatus(row, call[w].next)
        \/ row' = Abs!SetErrorWithStatus(row, call[w].next)
    BY <1>2, WriteIsAtomic, SameStatements DEF Write
  <2>3. Abs!StatusWrite /\ UNCHANGED grabs
    BY <2>1, <2>2 DEF Abs!StatusWrite, Write
  <2> QED BY <2>3 DEF Abs!Next
<1> QED BY <1>1, <1>2

\* Every single-statement write is a step of the abstract specification.
LEMMA OtherRefines ==
  ASSUME IInv, Other
  PROVE  [Abs!Next]_(Abs!vars)
<1>1. CASE Create
  <2>1. row.status = Abs!Absent
    BY <1>1 DEF Create, Absent, Abs!Absent
  <2>2. \E b \in BOOLEAN : row' = Abs!CreatedRow(grabs + 1, grabs + 1, b)
    BY <1>1, SameStatements DEF Create
  <2> QED BY <1>1, <2>1, <2>2 DEF Create, Abs!Create, Abs!Next
<1>2. CASE Claim
  <2>1. \E b \in BOOLEAN : row' = Abs!ClaimedRow(row, grabs + 1, b)
    BY <1>2, SameStatements DEF Claim
  <2>2. \/ Abs!RetryFailedTakes(row)
        \/ Abs!RetryDeadForAutoGrabTakes(row)
        \/ Abs!RetryImportedTakes(row)
    BY <1>2 DEF Claim, RetryFailedTakes, RetryDeadForAutoGrabTakes,
       RetryImportedTakes, IsOrphanedImport, IsDeadForRegrab, IsDeadForAutoRegrab,
       Abs!RetryFailedTakes, Abs!RetryDeadForAutoGrabTakes, Abs!RetryImportedTakes,
       Abs!IsOrphanedImport, Abs!IsDeadForRegrab, Abs!IsDeadForAutoRegrab
  <2> QED BY <1>2, <2>1, <2>2 DEF Claim, Abs!Claim, Abs!Next
<1>3. CASE Fail \/ Rearm \/ Restart
  <2>1. Abs!StatusWrite /\ UNCHANGED grabs
    BY <1>3, SameStatements DEF Fail, Rearm, Restart, Abs!StatusWrite
  <2> QED BY <2>1 DEF Abs!Next
<1>4. CASE CountTry \/ RecordJob \/ Detach
  <2>1. Abs!ColumnWrite /\ UNCHANGED grabs
    BY <1>4, SameStatements DEF CountTry, RecordJob, Detach, Abs!ColumnWrite
  <2> QED BY <2>1 DEF Abs!Next
<1>5. CASE Remove
  <2>1. Abs!Delete /\ UNCHANGED grabs
    BY <1>5, SameStatements DEF Remove, Abs!Delete
  <2> QED BY <2>1 DEF Abs!Next
<1>6. CASE Cooldown
  <2>1. Abs!TimePasses /\ UNCHANGED grabs
    BY <1>6, SameStatements DEF Cooldown, Abs!TimePasses
  <2> QED BY <2>1 DEF Abs!Next
<1> QED BY <1>1, <1>2, <1>3, <1>4, <1>5, <1>6 DEF Other

\* The repository implements the single-instant row: the guard status=current
\* makes each read-then-write call atomic against every other writer.
THEOREM CasRefinesRow == Spec => ImplementsDownloadRow
<1>1. Init => Abs!Init
  BY SameStatements DEF Init, Abs!Init
<1>2. IInv /\ [Next]_vars => [Abs!Next]_(Abs!vars)
  <2> SUFFICES ASSUME IInv, [Next]_vars PROVE [Abs!Next]_(Abs!vars)
    OBVIOUS
  <2>1. CASE \E w \in Writers, m \in Methods, next \in DownloadState : Read(w, m, next)
    BY <2>1 DEF Read, Abs!vars
  <2>2. CASE \E w \in Writers : Write(w)
    BY <2>2, WriteRefines
  <2>3. CASE Other
    BY <2>3, OtherRefines
  <2>4. CASE UNCHANGED vars
    BY <2>4 DEF vars, Abs!vars
  <2> QED BY <2>1, <2>2, <2>3, <2>4 DEF Next
<1> QED BY <1>1, <1>2, InductiveInvariant, PTL DEF Spec, ImplementsDownloadRow, Abs!Spec

=============================================================================
