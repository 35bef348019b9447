------------------------- MODULE DownloadRowsProofs -------------------------
(***************************************************************************)
(* What each statement of the repository preserves, whatever row it is     *)
(* given.  The theorems about the specifications built from these          *)
(* statements cite these lemmas, one per statement.                        *)
(***************************************************************************)
EXTENDS DownloadRows, TLAPS

\* A well-formed row whose dead_at describes the state it is in.
StampedRow(r) ==
  /\ r \in Row
  /\ r.dead # "null" <=> IsDeadForRegrab(r.status)

\* No row at all is well formed.
LEMMA NoRowStamped == StampedRow(NoRow)
BY RowAssumption DEF StampedRow, NoRow, Row, DeadAt, IsDeadForRegrab, Absent

\* INSERT and the claims leave a live row with no stamp.
LEMMA CreatedStamped ==
  ASSUME NEW id \in Nat, NEW g \in Nat, NEW b \in BOOLEAN
  PROVE  StampedRow(CreatedRow(id, g, b))
BY NoRowStamped
   DEF CreatedRow, StampedRow, NoRow, Row, DownloadState, DeadAt, IsDeadForRegrab

\* A claim keeps the id and the well-formedness of the row it takes over.
LEMMA ClaimedStamped ==
  ASSUME NEW r, StampedRow(r), NEW g \in Nat, NEW b \in BOOLEAN
  PROVE  StampedRow(ClaimedRow(r, g, b))
<1>1. r.id \in Nat
  BY DEF StampedRow, Row
<1> QED BY <1>1, CreatedStamped DEF ClaimedRow

\* The stamp deadStamp writes for a state is the one that state calls for.
LEMMA DeadStampIsRight ==
  ASSUME NEW s
  PROVE  /\ DeadStamp(s) \in DeadAt
         /\ DeadStamp(s) # "null" <=> IsDeadForRegrab(s)
BY DEF DeadStamp, DeadAt

\* The table leads to states of the type, and never out of a state that is
\* not in it.
LEMMA TableTyped ==
  ASSUME NEW s, NEW t, CanTransitionTo(s, t)
  PROVE  t \in DownloadState
BY DEF CanTransitionTo, ValidTransitions, DownloadState

\* The three branches of UpdateStatus that do not write dead_at are entered
\* from states in which it is already NULL, and lead to such states.
LEMMA UnstampedBranches ==
  ASSUME NEW s, NEW t \in {"downloading", "completed", "imported"},
         CanTransitionTo(s, t)
  PROVE  ~IsDeadForRegrab(s) /\ ~IsDeadForRegrab(t)
BY DEF CanTransitionTo, ValidTransitions, IsDeadForRegrab

\* A guarded status write, allowed or refused.
LEMMA UpdateStatusStamped ==
  ASSUME NEW r, StampedRow(r), NEW t
  PROVE  StampedRow(UpdateStatus(r, t))
<1>1. CASE ~CanTransitionTo(r.status, t)
  BY <1>1 DEF UpdateStatus
<1>2. CASE CanTransitionTo(r.status, t) /\ t \in {"downloading", "completed", "imported"}
  <2>1. t \in DownloadState /\ ~IsDeadForRegrab(r.status) /\ ~IsDeadForRegrab(t)
    BY <1>2, TableTyped, UnstampedBranches
  <2>2. AgeOn(r, t) \in {"young", "old"}
    BY DEF AgeOn, StampedRow, Row
  <2> QED BY <1>2, <2>1, <2>2 DEF UpdateStatus, StampedRow, Row
<1>3. CASE CanTransitionTo(r.status, t) /\ t \notin {"downloading", "completed", "imported"}
  <2>1. t \in DownloadState
    BY <1>3, TableTyped
  <2>2. AgeOn(r, t) \in {"young", "old"}
    BY DEF AgeOn, StampedRow, Row
  <2> QED BY <1>3, <2>1, <2>2, DeadStampIsRight DEF UpdateStatus, StampedRow, Row
<1> QED BY <1>1, <1>2, <1>3

\* A failure recorded with its message.
LEMMA SetErrorWithStatusStamped ==
  ASSUME NEW r, StampedRow(r), NEW t \in DownloadState
  PROVE  StampedRow(SetErrorWithStatus(r, t))
BY DeadStampIsRight DEF SetErrorWithStatus, StampedRow, Row

\* The unguarded failure.
LEMMA SetErrorStamped ==
  ASSUME NEW r, StampedRow(r)
  PROVE  StampedRow(SetError(r))
BY DEF SetError, StampedRow, Row, DownloadState, DeadAt, IsDeadForRegrab

\* Retry import.
LEMMA ResetStamped ==
  ASSUME NEW r, StampedRow(r)
  PROVE  StampedRow(ResetImportRetry(r))
BY DEF ResetImportRetry, StampedRow, Row, DownloadState, DeadAt, IsDeadForRegrab

\* The boot sweep moves rows only between states that carry no stamp.
LEMMA BootSweepStamped ==
  ASSUME NEW r, StampedRow(r), NEW filed \in BOOLEAN
  PROVE  StampedRow(BootSweep(r, filed))
<1>1. StampedRow(RecoverInterrupted(r))
  BY DEF RecoverInterrupted, StampedRow, Row, DownloadState, IsDeadForRegrab
<1>2. ASSUME NEW q, StampedRow(q) PROVE StampedRow(RecoverWedged(q, filed))
  <2>1. CASE ~IsWedged(q, filed)
    BY <1>2, <2>1 DEF RecoverWedged
  <2>2. CASE IsWedged(q, filed)
    <3>1. q \in Row /\ q.status = "completed" /\ q.dead = "null"
      BY <1>2, <2>2 DEF IsWedged, StampedRow, IsDeadForRegrab
    <3>2. RecoverWedged(q, filed) =
            [q EXCEPT !.status = "importPending", !.retry = q.retry + 1, !.msg = "some"]
      BY <2>2 DEF RecoverWedged
    <3>3. q.retry + 1 \in Nat
      BY <3>1 DEF Row
    <3>4. RecoverWedged(q, filed) \in Row
      BY <3>1, <3>2, <3>3 DEF Row, DownloadState
    <3>5. /\ RecoverWedged(q, filed).dead = "null"
          /\ RecoverWedged(q, filed).status = "importPending"
      BY <3>1, <3>2 DEF Row
    <3> QED BY <3>4, <3>5 DEF StampedRow, IsDeadForRegrab
  <2> QED BY <2>1, <2>2
<1> QED BY <1>1, <1>2 DEF BootSweep

\* The writes that leave the status alone.
LEMMA ColumnsStamped ==
  ASSUME NEW r, StampedRow(r), NEW j \in Jobs \cup {NoJob}, NEW g \in Nat,
         NEW b \in BOOLEAN
  PROVE  /\ StampedRow(IncrementImportRetryCount(r))
         /\ StampedRow(SetJob(r, j))
         /\ StampedRow(SetImportPath(r, g))
         /\ StampedRow(SetBook(r, b))
         /\ StampedRow(CooldownOver(r))
         /\ StampedRow(GraceOver(r))
BY DEF IncrementImportRetryCount, SetJob, SetImportPath, SetBook, CooldownOver,
       GraceOver, StampedRow, Row, DeadAt

=============================================================================
