---------------------- MODULE DownloadLifecycleProofs -----------------------
(***************************************************************************)
(* Safety of the composed life of a download, for any number of releases,  *)
(* grabs and Match-to-book imports, any client kind and any limits.  The   *)
(* inductive invariant has one part per actor, and one part, CopyInv, that *)
(* relates the table to the copy the poller took of it earlier.            *)
(***************************************************************************)
EXTENDS DownloadLifecycle, DownloadRowsProofs

GrabPC == {"idle", "claim", "send", "error", "record", "update"}
AnyHow == {"none", "create", "dead", "forced", "auto"}

\* The payload an import may be working from.
Sources == Jobs \cup {NoJob} \cup {JobFor(g, n) : g \in Guids, n \in Nat}

GrabRecord == [pc : GrabPC, guid : Guids \cup {"none"}, id : Nat, how : AnyHow,
               grab : Nat]
ImpRecord  == [pc : ImpPC, guid : Guids \cup {"none"}, id : Nat, grab : Nat,
               src : Sources, book : BOOLEAN, verdict : Verdicts \cup {"none"}]
PollRecord == [pc : PollPC, rows : [Guids -> Row], jobs : [Jobs -> JobState],
               todo : SUBSET Guids, seen : SUBSET Nat, complete : BOOLEAN]
StallRecord == [pc : {"idle", "report", "fail"}, guid : Guids \cup {"none"},
                id : Nat, job : Jobs \cup {NoJob}]
SkipRecord == [id : Nat, n : 0 .. SkipLimit - 1, retry : Nat, msg : {"none", "some"}]

CountInv == /\ grabs \in Nat /\ copies \in Nat /\ asks \in Nat /\ crashes \in Nat
            /\ job \in [Jobs -> JobState]

RowInv ==
  /\ row \in [Guids -> Row]
  /\ \A g \in Guids : /\ StampedRow(row[g]) /\ row[g].id <= grabs
                      /\ row[g].retry <= RetryLimit

\* A grab in flight is of a release and, once it has its row, has a number.
GrabInv ==
  /\ grabber \in [Grabbers -> GrabRecord]
  /\ \A p \in Grabbers :
       /\ grabber[p].pc # "idle" => grabber[p].guid \in Guids
       /\ grabber[p].pc \notin {"idle", "claim"} => grabber[p].grab \in 1 .. MaxGrabs
       /\ grabber[p].pc = "claim" => grabber[p].how \in Hows(p)

PollInv ==
  /\ poll \in PollRecord
  /\ \A g \in Guids : poll.rows[g].id <= grabs
  /\ poll.pc = "rows" =>
       \A g \in poll.todo : poll.rows[g].job = NoJob => ClientKind = "qbittorrent"

ImpInv ==
  /\ imp \in [Threads -> ImpRecord]
  /\ \A t \in Threads : /\ imp[t].id <= grabs
                        /\ imp[t].pc # "idle" => imp[t].guid \in Guids
                        /\ imp[t].pc = "verdict" => imp[t].verdict \in Verdicts

StallInv == stall \in StallRecord /\ (stall.pc # "idle" => stall.guid \in Guids)

SkipInv == skips \in [Guids -> SkipRecord]

\* The poller still counts from its copy of g's row.
CopyLive(g) == \/ poll.pc = "second" /\ RowsFirst
               \/ poll.pc = "rows" /\ g \in poll.todo

\* Nobody has counted a try of that row since the copy was taken.
CopyInv ==
  \A g \in Guids :
    CopyLive(g) /\ row[g].id = poll.rows[g].id => row[g].retry <= poll.rows[g].retry

IInv == CountInv /\ RowInv /\ GrabInv /\ PollInv /\ ImpInv /\ StallInv /\ SkipInv
        /\ CopyInv

-----------------------------------------------------------------------------
(* What one write does to a row, as far as the invariant is concerned.       *)

\* The row stays the same row and is tried no more often, or it starts afresh
\* with an id handed out by now.
Tame(r, new, n) ==
  /\ StampedRow(new)
  /\ \/ new.id = r.id /\ new.retry <= r.retry
     \/ new.id <= n /\ new.retry = 0

\* Every statement but the counting ones is tame.
LEMMA StatementsTame ==
  ASSUME NEW r, StampedRow(r), NEW n \in Nat, NEW s, NEW d \in DownloadState,
         NEW j \in Jobs \cup {NoJob}, NEW k \in Nat, NEW b \in BOOLEAN
  PROVE  /\ Tame(r, r, n)
         /\ Tame(r, UpdateStatus(r, s), n)
         /\ Tame(r, SetErrorWithStatus(r, d), n)
         /\ Tame(r, SetError(r), n)
         /\ Tame(r, ResetImportRetry(r), n)
         /\ Tame(r, SetJob(r, j), n)
         /\ Tame(r, SetImportPath(r, k), n)
         /\ Tame(r, SetBook(r, b), n)
         /\ Tame(r, CooldownOver(r), n)
         /\ Tame(r, GraceOver(r), n)
         /\ Tame(r, NoRow, n)
         /\ Tame(r, ClaimedRow(r, k, b), n)
<1>1. r \in Row /\ r.id \in Nat /\ r.retry \in Nat
  BY DEF StampedRow, Row
<1>2. /\ UpdateStatus(r, s).id = r.id /\ UpdateStatus(r, s).retry = r.retry
      /\ SetErrorWithStatus(r, d).id = r.id /\ SetErrorWithStatus(r, d).retry = r.retry
      /\ SetError(r).id = r.id /\ SetError(r).retry = r.retry
  BY <1>1 DEF UpdateStatus, SetErrorWithStatus, SetError, Row
<1>3. ResetImportRetry(r).id = r.id /\ ResetImportRetry(r).retry <= r.retry
  BY <1>1 DEF ResetImportRetry, Row
<1>4. /\ SetJob(r, j).id = r.id /\ SetJob(r, j).retry = r.retry
      /\ SetImportPath(r, k).id = r.id /\ SetImportPath(r, k).retry = r.retry
      /\ SetBook(r, b).id = r.id /\ SetBook(r, b).retry = r.retry
      /\ CooldownOver(r).id = r.id /\ CooldownOver(r).retry = r.retry
      /\ GraceOver(r).id = r.id /\ GraceOver(r).retry = r.retry
  BY <1>1 DEF SetJob, SetImportPath, SetBook, CooldownOver, GraceOver, Row
<1>5. NoRow.id = 0 /\ NoRow.retry = 0
  BY DEF NoRow
<1>6. ClaimedRow(r, k, b).id = r.id /\ ClaimedRow(r, k, b).retry = 0
  BY DEF ClaimedRow, CreatedRow, NoRow
<1>7. /\ StampedRow(UpdateStatus(r, s)) /\ StampedRow(SetErrorWithStatus(r, d))
      /\ StampedRow(SetError(r)) /\ StampedRow(ResetImportRetry(r))
      /\ StampedRow(NoRow) /\ StampedRow(ClaimedRow(r, k, b))
  BY UpdateStatusStamped, SetErrorWithStatusStamped, SetErrorStamped, ResetStamped,
     NoRowStamped, ClaimedStamped
<1>8. /\ StampedRow(SetJob(r, j)) /\ StampedRow(SetImportPath(r, k))
      /\ StampedRow(SetBook(r, b)) /\ StampedRow(CooldownOver(r))
      /\ StampedRow(GraceOver(r))
  BY ColumnsStamped
<1> QED BY <1>1, <1>2, <1>3, <1>4, <1>5, <1>6, <1>7, <1>8 DEF Tame

\* The poller's copies of the rows it has still to look at are not renewed.
CopyKept ==
  \A g \in Guids :
    CopyLive(g)' => /\ CopyLive(g)
                    /\ poll'.rows[g].id = poll.rows[g].id
                    /\ poll'.rows[g].retry = poll.rows[g].retry

\* A step that writes rows tamely keeps the table and the copy in order.
LEMMA TameStep ==
  ASSUME IInv, CopyKept, grabs' \in Nat, grabs <= grabs', row' \in [Guids -> Row],
         poll' \in PollRecord,
         \A g \in Guids : Tame(row[g], row'[g], grabs')
  PROVE  RowInv' /\ CopyInv'
<1>1. \A g \in Guids : /\ row[g] \in Row /\ row[g].id \in Nat /\ row[g].retry \in Nat
                       /\ row'[g].id \in Nat /\ row'[g].retry \in Nat
  BY DEF IInv, RowInv, Row
<1>2. \A g \in Guids : /\ StampedRow(row'[g]) /\ row'[g].id <= grabs'
                       /\ row'[g].retry <= RetryLimit
  BY <1>1, RowAssumption DEF IInv, RowInv, CountInv, Tame
<1>3. ASSUME NEW g \in Guids, CopyLive(g)', row'[g].id = poll'.rows[g].id
      PROVE  row'[g].retry <= poll'.rows[g].retry
  <2>1. poll'.rows[g].retry \in Nat
    BY DEF PollRecord, Row
  <2>2. CASE row'[g].retry = 0
    BY <2>1, <2>2
  <2>3. CASE row'[g].id = row[g].id /\ row'[g].retry <= row[g].retry
    <3>1. CopyLive(g) /\ row[g].id = poll.rows[g].id
      BY <1>3, <2>3 DEF CopyKept
    <3>2. row[g].retry <= poll.rows[g].retry
      BY <3>1 DEF IInv, CopyInv
    <3>3. poll'.rows[g].retry = poll.rows[g].retry
      BY <1>3 DEF CopyKept
    <3> QED BY <1>1, <2>1, <2>3, <3>2, <3>3
  <2> QED BY <2>2, <2>3 DEF Tame
<1> QED BY <1>2, <1>3 DEF RowInv, CopyInv

\* The same for the usual step: one write by id, no new row.
LEMMA TamePut ==
  ASSUME IInv, CopyKept, poll' \in PollRecord, UNCHANGED grabs, NEW g \in Guids,
         NEW id, NEW new, Tame(row[g], new, grabs), Put(g, id, new)
  PROVE  RowInv' /\ CopyInv'
<1>1. \A h \in Guids : StampedRow(row[h]) /\ row[h] \in Row
  BY DEF IInv, RowInv
<1>2. new \in Row /\ grabs \in Nat
  BY DEF Tame, StampedRow, IInv, CountInv
<1>3. row' \in [Guids -> Row]
  BY <1>1, <1>2 DEF IInv, RowInv, Put
<1>4. \A h \in Guids : row'[h] = row[h] \/ (h = g /\ row'[h] = new)
  BY DEF IInv, RowInv, Put
<1>5. \A h \in Guids : Tame(row[h], row[h], grabs)
  BY <1>1, <1>2 DEF Tame, Row
<1>6. \A h \in Guids : Tame(row[h], row'[h], grabs)
  BY <1>4, <1>5
<1> QED BY <1>2, <1>3, <1>6, TameStep

\* A step that leaves the table, the numbers and the poller alone.
LEMMA RowsKept ==
  ASSUME IInv, UNCHANGED <<row, grabs, poll>>
  PROVE  RowInv' /\ PollInv' /\ CopyInv'
BY DEF IInv, RowInv, PollInv, CopyInv, CopyLive

\* With the poller standing still its copy is kept.
LEMMA PollStands ==
  ASSUME IInv, UNCHANGED poll
  PROVE  CopyKept /\ poll' \in PollRecord
BY DEF IInv, PollInv, CopyKept, CopyLive

-----------------------------------------------------------------------------
(* One lemma per actor.                                                      *)

\* The imports stand still while others work.
LEMMA ImpStands ==
  ASSUME IInv, UNCHANGED imp, grabs' \in Nat, grabs <= grabs'
  PROVE  ImpInv'
<1>1. \A t \in Threads : imp[t].id \in Nat /\ imp[t].id <= grabs
  BY DEF IInv, ImpInv, ImpRecord
<1> QED BY <1>1 DEF IInv, ImpInv, CountInv

\* A grab's read, claim, send and writes keep the invariant: the claim is the
\* only step here that gives a row a new grab, and a row that is claimed has
\* its retry count reset.
LEMMA GrabPreserves ==
  ASSUME IInv, Grabbing
  PROVE  IInv'
<1>1. ASSUME NEW p \in Grabbers, NEW g \in Guids, NEW how \in Hows(p), GrabRead(p, g, how)
      PROVE  IInv'
  <2>1. grabber' \in [Grabbers -> GrabRecord]
    <3>1. row[g].id \in Nat /\ how \in AnyHow
      BY <1>1 DEF IInv, RowInv, Row, Hows, AnyHow
    <3> QED BY <1>1, <3>1 DEF IInv, GrabInv, GrabRecord, GrabPC, GrabRead
  <2>2. GrabInv'
    BY <1>1, <2>1 DEF IInv, GrabInv, GrabRead, Hows, GrabRecord
  <2>3. RowInv' /\ PollInv' /\ CopyInv'
    BY <1>1, RowsKept DEF GrabRead
  <2> QED BY <1>1, <2>2, <2>3 DEF GrabRead, IInv, CountInv, ImpInv, StallInv, SkipInv
<1>2. ASSUME NEW p \in Grabbers, GrabClaim(p)
      PROVE  IInv'
  <2> DEFINE h == grabber[p]
  <2>1. h \in GrabRecord /\ h.guid \in Guids /\ grabs \in Nat
    BY <1>2 DEF GrabClaim, IInv, GrabInv, CountInv
  <2>2. CASE UNCHANGED <<row, grabs>> /\ grabber' = [grabber EXCEPT ![p] = NoGrab]
    <3>1. NoGrab \in GrabRecord
      BY DEF NoGrab, GrabRecord, GrabPC, AnyHow
    <3>2. GrabInv'
      BY <2>2, <3>1 DEF IInv, GrabInv, NoGrab
    <3>3. RowInv' /\ PollInv' /\ CopyInv'
      BY <1>2, <2>2, RowsKept DEF GrabClaim
    <3> QED BY <1>2, <2>2, <3>2, <3>3
            DEF GrabClaim, IInv, CountInv, ImpInv, StallInv, SkipInv
  <2>3. CASE /\ grabs < MaxGrabs /\ grabs' = grabs + 1
             /\ \E b \in BOOLEAN :
                  row' = [row EXCEPT ![h.guid] =
                            IF h.how = "create"
                              THEN CreatedRow(grabs + 1, grabs + 1, b)
                              ELSE ClaimedRow(row[h.guid], grabs + 1, b)]
             /\ grabber' = [grabber EXCEPT ![p] =
                  [h EXCEPT !.pc = "send", !.grab = grabs + 1,
                            !.id = IF h.how = "create" THEN grabs + 1 ELSE h.id]]
    <3>1. grabs' \in Nat /\ grabs <= grabs' /\ grabs' \in 1 .. MaxGrabs
      BY <2>1, <2>3, LifecycleAssumption
    <3>2. CopyKept /\ poll' = poll /\ poll' \in PollRecord
      BY <1>2, PollStands DEF GrabClaim
    <3>3. PICK b \in BOOLEAN :
            row' = [row EXCEPT ![h.guid] =
                      IF h.how = "create"
                        THEN CreatedRow(grabs', grabs', b)
                        ELSE ClaimedRow(row[h.guid], grabs', b)]
      BY <2>3
    <3>4. /\ StampedRow(CreatedRow(grabs', grabs', b))
          /\ CreatedRow(grabs', grabs', b).id = grabs'
          /\ CreatedRow(grabs', grabs', b).retry = 0
      BY <3>1, CreatedStamped DEF CreatedRow, NoRow
    <3>5. Tame(row[h.guid], CreatedRow(grabs', grabs', b), grabs')
      BY <3>1, <3>4 DEF Tame
    <3>6. Tame(row[h.guid], ClaimedRow(row[h.guid], grabs', b), grabs')
      <4>1. StampedRow(row[h.guid])
        BY <2>1 DEF IInv, RowInv
      <4> QED BY <3>1, <4>1, StatementsTame DEF DownloadState
    <3>7. \A k \in Guids : Tame(row[k], row[k], grabs')
      <4>1. \A k \in Guids : StampedRow(row[k]) /\ row[k].retry \in Nat
        BY DEF IInv, RowInv, Row
      <4> QED BY <4>1 DEF Tame
    <3>8. \A k \in Guids : Tame(row[k], row'[k], grabs')
      BY <3>3, <3>5, <3>6, <3>7 DEF IInv, RowInv
    <3>9. row' \in [Guids -> Row]
      BY <3>3, <3>5, <3>6 DEF IInv, RowInv, Tame, StampedRow
    <3>10. RowInv' /\ CopyInv'
      BY <3>1, <3>2, <3>8, <3>9, TameStep
    <3>11. GrabInv'
      <4>1. PICK n \in Nat : grabber' = [grabber EXCEPT ![p] =
                                [h EXCEPT !.pc = "send", !.grab = grabs', !.id = n]]
        BY <2>1, <2>3, <3>1 DEF GrabRecord
      <4>2. [h EXCEPT !.pc = "send", !.grab = grabs', !.id = n] \in GrabRecord
        BY <2>1, <3>1 DEF GrabRecord, GrabPC
      <4> QED BY <2>1, <3>1, <4>1, <4>2 DEF IInv, GrabInv, GrabRecord
    <3>12. PollInv'
      <4>1. \A k \in Guids : poll.rows[k].id \in Nat /\ poll.rows[k].id <= grabs
        BY DEF IInv, PollInv, PollRecord, Row
      <4> QED BY <2>1, <3>1, <3>2, <4>1 DEF IInv, PollInv
    <3>13. ImpInv'
      BY <1>2, <3>1, ImpStands DEF GrabClaim
    <3> QED BY <1>2, <3>1, <3>10, <3>11, <3>12, <3>13
            DEF GrabClaim, IInv, CountInv, StallInv, SkipInv
  <2> QED BY <1>2, <2>2, <2>3 DEF GrabClaim
<1>3. ASSUME NEW p \in Grabbers, GrabSend(p)
      PROVE  IInv'
  <2>1. PICK next \in {"record", "error", "update"} :
          grabber' = [grabber EXCEPT ![p].pc = next]
    BY <1>3 DEF GrabSend
  <2>2. GrabInv'
    BY <1>3, <2>1 DEF GrabSend, IInv, GrabInv, GrabRecord, GrabPC
  <2>3. job' \in [Jobs -> JobState]
    BY <1>3 DEF GrabSend, IInv, CountInv, JobState
  <2>4. RowInv' /\ PollInv' /\ CopyInv'
    BY <1>3, RowsKept DEF GrabSend
  <2> QED BY <1>3, <2>2, <2>3, <2>4
          DEF GrabSend, IInv, CountInv, ImpInv, StallInv, SkipInv
\* The three actions that end in a write of the row the grab holds.
<1>4. ASSUME NEW p \in Grabbers, GrabError(p) \/ GrabRecordId(p) \/ GrabDone(p)
      PROVE  IInv'
  <2> DEFINE h == grabber[p]
  <2>1. h \in GrabRecord /\ h.guid \in Guids /\ h.grab \in 1 .. MaxGrabs
    BY <1>4 DEF IInv, GrabInv, GrabError, GrabRecordId, GrabDone
  <2>2. JobFor(h.guid, h.grab) \in Jobs /\ StampedRow(row[h.guid]) /\ grabs \in Nat
    BY <2>1, LifecycleAssumption DEF IInv, RowInv, CountInv
  <2>3. PICK new : Tame(row[h.guid], new, grabs) /\ Put(h.guid, h.id, new)
    BY <1>4, <2>1, <2>2, StatementsTame
       DEF GrabError, GrabRecordId, GrabDone, DownloadState
  <2>4. RowInv' /\ CopyInv'
    BY <1>4, <2>1, <2>3, TamePut, PollStands DEF GrabError, GrabRecordId, GrabDone
  <2>5. NoGrab \in GrabRecord /\ [h EXCEPT !.pc = "update"] \in GrabRecord
    BY <2>1 DEF NoGrab, GrabRecord, GrabPC, AnyHow
  <2>6. GrabInv'
    <3>1. CASE grabber' = [grabber EXCEPT ![p] = NoGrab]
      BY <2>5, <3>1 DEF IInv, GrabInv, NoGrab
    <3>2. CASE grabber' = [grabber EXCEPT ![p].pc = "update"]
      BY <2>1, <2>5, <3>2 DEF IInv, GrabInv, GrabRecord
    <3> QED BY <1>4, <3>1, <3>2 DEF GrabError, GrabRecordId, GrabDone
  <2> QED BY <1>4, <2>4, <2>6
          DEF GrabError, GrabRecordId, GrabDone, IInv, CountInv, PollInv, ImpInv,
              StallInv, SkipInv
<1> QED BY <1>1, <1>2, <1>3, <1>4 DEF Grabbing, GrabStep

\* Whatever an import does next, its record stays in order.
LEMMA ImportRecordKept ==
  ASSUME IInv, NEW t \in Threads, ImportStep(t) \/ MatchStep(t)
  PROVE  ImpInv'
<1> DEFINE m == imp[t]
<1>1. m \in ImpRecord /\ m.guid \in Guids /\ m.id <= grabs
  BY DEF IInv, ImpInv, ImportStep, MatchStep, ImportPending, ImportHandOff,
         ImportNoFiles, ImportTiny, ImportBegin, ImportMatch, ImportReject,
         ImportGuard, ImportPlace, ImportVerdict, ImportFinish, ImportCleanup,
         ImportWalk, MatchAttach, MatchRearm, MatchLock
<1>2. \/ \E pc \in ImpPC \ {"idle", "verdict"} : ImpGoes(t, pc)
      \/ ImpEnds(t)
      \/ \E v \in Verdicts : ImpJudged(t, v)
      \/ imp' = [imp EXCEPT ![t].pc = "check", ![t].book = TRUE]
  BY DEF ImportStep, MatchStep, ImportPending, ImportHandOff, ImportNoFiles,
         ImportTiny, ImportBegin, ImportMatch, ImportReject, ImportGuard,
         ImportPlace, ImportVerdict, ImportFinish, ImportCleanup, ImportWalk,
         MatchAttach, MatchRearm, MatchLock, ImpJudged, Verdicts, ImpPC
<1>3. UNCHANGED grabs /\ grabs \in Nat
  BY DEF IInv, CountInv, ImportStep, MatchStep, ImportPending, ImportHandOff,
         ImportNoFiles, ImportTiny, ImportBegin, ImportMatch, ImportReject,
         ImportGuard, ImportPlace, ImportVerdict, ImportFinish, ImportCleanup,
         ImportWalk, MatchAttach, MatchRearm, MatchLock, ImpUnchanged
<1>4. CASE \E pc \in ImpPC \ {"idle", "verdict"} : ImpGoes(t, pc)
  <2>1. PICK pc \in ImpPC \ {"idle", "verdict"} : imp' = [imp EXCEPT ![t].pc = pc]
    BY <1>4 DEF ImpGoes
  <2>2. [m EXCEPT !.pc = pc] \in ImpRecord
    BY <1>1, <2>1 DEF ImpRecord
  <2> QED BY <1>1, <1>3, <2>1, <2>2 DEF IInv, ImpInv, ImpRecord
<1>5. CASE ImpEnds(t)
  <2>1. NoImp \in ImpRecord
    BY DEF NoImp, ImpRecord, ImpPC, Sources
  <2> QED BY <1>3, <1>5, <2>1 DEF IInv, ImpInv, ImpEnds, NoImp
<1>6. CASE \E v \in Verdicts : ImpJudged(t, v)
  <2>1. PICK v \in Verdicts : imp' = [imp EXCEPT ![t].pc = "verdict", ![t].verdict = v]
    BY <1>6 DEF ImpJudged
  <2>2. [m EXCEPT !.pc = "verdict", !.verdict = v] \in ImpRecord
    BY <1>1, <2>1 DEF ImpRecord, ImpPC
  <2>3. imp' = [imp EXCEPT ![t] = [m EXCEPT !.pc = "verdict", !.verdict = v]]
    BY <2>1 DEF IInv, ImpInv
  <2> QED BY <1>1, <1>3, <2>1, <2>2, <2>3 DEF IInv, ImpInv, ImpRecord
<1>7. CASE imp' = [imp EXCEPT ![t].pc = "check", ![t].book = TRUE]
  BY <1>1, <1>3, <1>7 DEF IInv, ImpInv, ImpRecord, ImpPC
<1> QED BY <1>2, <1>4, <1>5, <1>6, <1>7

\* Whatever an import writes, it writes by the statements.
LEMMA ImportWrites ==
  ASSUME IInv, NEW t \in Threads, ImportStep(t) \/ MatchStep(t)
  PROVE  \/ UNCHANGED row
         \/ \E s \in DownloadState : \/ ImpPut(t, UpdateStatus(ImpRow(t), s))
                                    \/ ImpPut(t, SetErrorWithStatus(ImpRow(t), s))
         \/ ImpPut(t, SetImportPath(ImpRow(t), imp[t].grab))
         \/ ImpPut(t, SetBook(ImpRow(t), TRUE))
         \/ ImpPut(t, ResetImportRetry(ImpRow(t)))
<1>1. imp[t].pc = "verdict" => imp[t].verdict \in DownloadState
  BY DEF IInv, ImpInv, Verdicts, DownloadState
<1>2. CASE ImportPending(t) \/ ImportHandOff(t) \/ ImportTiny(t) \/ ImportBegin(t)
           \/ ImportFinish(t) \/ ImportWalk(t)
  BY <1>2 DEF ImportPending, ImportHandOff, ImportTiny, ImportBegin, ImportFinish,
              ImportWalk, DownloadState
<1>3. CASE ImportNoFiles(t) \/ ImportVerdict(t)
  BY <1>1, <1>3 DEF ImportNoFiles, ImportVerdict, DownloadState
<1>4. CASE ImportMatch(t) \/ ImportReject(t) \/ ImportGuard(t) \/ ImportPlace(t)
           \/ ImportCleanup(t)
  BY <1>4 DEF ImportMatch, ImportReject, ImportGuard, ImportPlace, ImportCleanup
<1>5. CASE MatchStep(t)
  BY <1>5 DEF MatchStep, MatchAttach, MatchRearm, MatchLock
<1> QED BY <1>2, <1>3, <1>4, <1>5 DEF ImportStep

\* And none of it counts a try or makes a new row.
LEMMA ImportRowKept ==
  ASSUME IInv, NEW t \in Threads, ImportStep(t) \/ MatchStep(t)
  PROVE  RowInv' /\ PollInv' /\ CopyInv'
<1> DEFINE m == imp[t]
<1>1. m \in ImpRecord /\ m.guid \in Guids
  BY DEF IInv, ImpInv, ImportStep, MatchStep, ImportPending, ImportHandOff,
         ImportNoFiles, ImportTiny, ImportBegin, ImportMatch, ImportReject,
         ImportGuard, ImportPlace, ImportVerdict, ImportFinish, ImportCleanup,
         ImportWalk, MatchAttach, MatchRearm, MatchLock
<1>2. UNCHANGED <<grabs, poll>> /\ grabs \in Nat
  BY DEF IInv, CountInv, ImportStep, MatchStep, ImportPending, ImportHandOff,
         ImportNoFiles, ImportTiny, ImportBegin, ImportMatch, ImportReject,
         ImportGuard, ImportPlace, ImportVerdict, ImportFinish, ImportCleanup,
         ImportWalk, MatchAttach, MatchRearm, MatchLock, ImpUnchanged
<1>3. StampedRow(ImpRow(t)) /\ m.grab \in Nat
  BY <1>1 DEF IInv, RowInv, ImpRow, ImpRecord
<1>4. \/ UNCHANGED row
      \/ \E new : Tame(row[m.guid], new, grabs) /\ Put(m.guid, m.id, new)
  <2> DEFINE r == ImpRow(t)
  <2>1. ASSUME NEW s, NEW d \in DownloadState
        PROVE  /\ Tame(r, UpdateStatus(r, s), grabs)
               /\ Tame(r, SetErrorWithStatus(r, d), grabs)
               /\ Tame(r, SetImportPath(r, m.grab), grabs)
               /\ Tame(r, SetBook(r, TRUE), grabs)
               /\ Tame(r, ResetImportRetry(r), grabs)
    BY <1>2, <1>3, StatementsTame
  <2>2. \E d \in DownloadState : TRUE
    BY DEF DownloadState
  <2> QED BY <2>1, <2>2, ImportWrites DEF ImpPut, ImpRow
<1>5. CASE UNCHANGED row
  BY <1>2, <1>5, RowsKept
<1>6. CASE \E new : Tame(row[m.guid], new, grabs) /\ Put(m.guid, m.id, new)
  <2>1. RowInv' /\ CopyInv'
    BY <1>1, <1>2, <1>6, TamePut, PollStands
  <2> QED BY <1>2, <2>1 DEF IInv, PollInv
<1> QED BY <1>4, <1>5, <1>6

\* Every step of an import, by the poller or by Match to book, keeps the
\* invariant.
LEMMA ImportPreserves ==
  ASSUME IInv, Importing
  PROVE  IInv'
<1>1. PICK t \in Threads : ImportStep(t) \/ MatchStep(t)
  BY DEF Importing, Threads
<1>2. ImpInv' /\ RowInv' /\ PollInv' /\ CopyInv'
  BY <1>1, ImportRecordKept, ImportRowKept
<1>3. UNCHANGED <<grabs, grabber, stall, skips, asks, crashes>>
  BY <1>1
     DEF ImportStep, MatchStep, ImportPending, ImportHandOff, ImportNoFiles,
         ImportTiny, ImportBegin, ImportMatch, ImportReject, ImportGuard,
         ImportPlace, ImportVerdict, ImportFinish, ImportCleanup, ImportWalk,
         MatchAttach, MatchRearm, MatchLock, ImpUnchanged
<1>4. copies' \in Nat /\ job' \in [Jobs -> JobState]
  <2>1. CASE ImportPlace(t)
    BY <2>1 DEF ImportPlace, IInv, CountInv
  <2>2. CASE ImportCleanup(t)
    BY <2>2 DEF ImportCleanup, IInv, CountInv, JobState
  <2>3. CASE ~ImportPlace(t) /\ ~ImportCleanup(t)
    <3>1. UNCHANGED <<job, copies>>
      BY <1>1, <2>3
         DEF ImportStep, MatchStep, ImportPending, ImportHandOff, ImportNoFiles,
             ImportTiny, ImportBegin, ImportMatch, ImportReject, ImportGuard,
             ImportVerdict, ImportFinish, ImportWalk, MatchAttach, MatchRearm, MatchLock
    <3> QED BY <3>1 DEF IInv, CountInv
  <2> QED BY <2>1, <2>2, <2>3
<1> QED BY <1>2, <1>3, <1>4 DEF IInv, CountInv, GrabInv, StallInv, SkipInv

\* The poller has finished with a row: its copies of the others are kept.
LEMMA HandledKept ==
  ASSUME IInv, NEW g \in Guids, UNCHANGED grabs, poll.pc \in {"rows", "stale"},
         poll' = Handled(g)
  PROVE  PollInv' /\ CopyKept
<1>1. NoRow \in Row /\ NoRow.id = 0 /\ grabs \in Nat
  BY NoRowStamped DEF StampedRow, NoRow, IInv, CountInv
<1>2. /\ poll'.pc = poll.pc /\ poll'.todo = poll.todo \ {g}
      /\ \A h \in Guids : poll'.rows[h] = IF h = g THEN NoRow ELSE poll.rows[h]
      /\ poll' \in PollRecord
  BY <1>1 DEF Handled, IInv, PollInv, PollRecord
<1>3. PollInv'
  <2>1. poll.todo \subseteq Guids
    BY DEF IInv, PollInv, PollRecord
  <2> QED BY <1>1, <1>2, <2>1 DEF IInv, PollInv
<1>4. CopyKept
  BY <1>2 DEF CopyKept, CopyLive
<1> QED BY <1>3, <1>4

\* The copies the poller takes.
LEMMA PollReadsPreserve ==
  ASSUME IInv, PollFirst \/ PollSecond \/ StaleList \/ PollEnd
  PROVE  IInv'
<1>1. /\ UNCHANGED <<row, grabs, job, copies, grabber, imp, stall, asks, crashes>>
      /\ NoRow \in Row /\ NoRow.id = 0 /\ grabs \in Nat
  BY NoRowStamped
     DEF PollFirst, PollSecond, StaleList, PollEnd, StampedRow, NoRow, IInv, CountInv
<1>2. /\ row \in [Guids -> Row] /\ \A g \in Guids : row[g].id \in Nat /\ row[g].retry \in Nat
      /\ \A g \in Guids : row[g].id <= grabs /\ row[g].retry <= row[g].retry
      /\ job \in [Jobs -> JobState] /\ ListComplete \subseteq BOOLEAN /\ poll \in PollRecord
  BY LifecycleAssumption DEF IInv, RowInv, CountInv, PollInv, Row
<1>3. RowInv' /\ CountInv' /\ GrabInv' /\ ImpInv' /\ StallInv'
  BY <1>1 DEF IInv, RowInv, CountInv, GrabInv, ImpInv, StallInv
<1>4. CASE PollFirst
  <2>1. CASE poll' = [poll EXCEPT !.rows = row, !.pc = "second"]
    <3>1. /\ poll' \in PollRecord /\ poll'.rows = row /\ poll'.pc = "second"
      BY <1>2, <2>1 DEF PollRecord, PollPC
    <3> QED BY <1>1, <1>2, <1>3, <1>4, <3>1
            DEF PollFirst, IInv, PollInv, CopyInv, SkipInv
  <2>2. CASE ~RowsFirst /\ \E c \in ListComplete :
               poll' = [poll EXCEPT !.jobs = job, !.complete = c, !.pc = "second"]
    <3>1. /\ poll' \in PollRecord /\ poll'.rows = poll.rows /\ poll'.pc = "second"
      BY <1>2, <2>2 DEF PollRecord, PollPC
    <3> QED BY <1>1, <1>3, <1>4, <2>2, <3>1
            DEF PollFirst, IInv, PollInv, CopyInv, CopyLive, SkipInv, RowsFirst
  <2> QED BY <1>4, <2>1, <2>2 DEF PollFirst, PollReadsRows, PollReadsJobs
<1>5. CASE PollSecond
  <2> DEFINE rows  == IF RowsFirst THEN poll.rows ELSE row
             jobs  == IF RowsFirst THEN job ELSE poll.jobs
             found == {g \in Guids : InListing(jobs, g, rows[g])}
             kept  == [g \in Guids |-> IF g \in found THEN rows[g] ELSE NoRow]
  <2>1. PICK c \in (IF RowsFirst THEN ListComplete ELSE {poll.complete}) :
          poll' = [pc |-> "rows", jobs |-> jobs, complete |-> c, todo |-> found,
                   seen |-> {rows[g].id : g \in found}, rows |-> kept]
    BY <1>5 DEF PollSecond
  <2>2. rows \in [Guids -> Row] /\ jobs \in [Jobs -> JobState] /\ c \in BOOLEAN
    BY <1>2, <2>1 DEF PollRecord
  <2>3. kept \in [Guids -> Row]
    BY <1>1, <2>2
  <2>4. {rows[g].id : g \in found} \subseteq Nat
    BY <2>2 DEF Row
  <2>5. poll' \in PollRecord
    BY <2>1, <2>2, <2>3, <2>4 DEF PollRecord, PollPC
  <2>6. \A g \in Guids : rows[g].id <= grabs
    BY <1>2 DEF IInv, PollInv
  <2>7. /\ poll'.pc = "rows" /\ poll'.todo = found
        /\ \A g \in Guids : poll'.rows[g] = IF g \in found THEN rows[g] ELSE NoRow
    BY <2>1
  <2>8. \A g \in found : rows[g].job = NoJob => ClientKind = "qbittorrent"
    BY DEF InListing, SourceOf
  <2>9. PollInv'
    BY <1>1, <2>5, <2>6, <2>7, <2>8 DEF PollInv
  <2>10. CopyInv'
    <3>1. ASSUME NEW g \in found, row[g].id = rows[g].id
          PROVE  row[g].retry <= rows[g].retry
      BY <1>2, <1>5, <3>1 DEF PollSecond, IInv, CopyInv, CopyLive
    <3> QED BY <1>1, <2>7, <3>1 DEF CopyInv, CopyLive
  <2> QED BY <1>3, <1>5, <2>9, <2>10 DEF PollSecond, IInv, SkipInv
<1>6. CASE StaleList
  <2> DEFINE found == {g \in Guids : IsStaleCandidate(row[g])}
             kept  == [g \in Guids |-> IF g \in found THEN row[g] ELSE NoRow]
  <2>1. kept \in [Guids -> Row] /\ \A g \in Guids : kept[g].id <= grabs
    BY <1>1, <1>2
  <2>2. poll' = [poll EXCEPT !.pc = "stale", !.todo = found, !.rows = kept]
    BY <1>6 DEF StaleList
  <2>3. poll' \in PollRecord /\ poll'.pc = "stale" /\ poll'.rows = kept
    BY <1>2, <2>1, <2>2 DEF PollRecord, PollPC
  <2>4. PollInv' /\ CopyInv'
    BY <1>1, <2>1, <2>3 DEF PollInv, CopyInv, CopyLive
  <2>5. NoSkip \in SkipRecord
    BY LifecycleAssumption DEF NoSkip, SkipRecord
  <2>6. SkipInv'
    BY <1>6, <2>5 DEF StaleList, IInv, SkipInv
  <2> QED BY <1>3, <2>4, <2>6 DEF IInv
<1>7. CASE PollEnd
  <2>1. NoPoll \in PollRecord /\ NoPoll.pc = "idle"
        /\ \A g \in Guids : NoPoll.rows[g] = NoRow
    BY <1>1 DEF NoPoll, NoRows, PollRecord, PollPC, JobState
  <2>2. PollInv' /\ CopyInv'
    BY <1>1, <1>7, <2>1 DEF PollEnd, PollInv, CopyInv, CopyLive
  <2> QED BY <1>3, <1>7, <2>2 DEF PollEnd, IInv, SkipInv
<1> QED BY <1>4, <1>5, <1>6, <1>7

\* The import the poller hands a row to.
LEMMA PollImportTyped ==
  ASSUME IInv, NEW g \in Guids, NEW pc \in {"start", "walk", "verdict"},
         NEW v \in Verdicts \cup {"none"}, pc = "verdict" => v \in Verdicts,
         UNCHANGED grabs, PollImport(g, pc, v)
  PROVE  ImpInv'
<1> DEFINE r   == poll.rows[g]
           new == [pc |-> pc, guid |-> g, id |-> r.id, src |-> Src(g), grab |-> r.grab,
                   book |-> r.book, verdict |-> v]
<1>1. r \in Row /\ r.id <= grabs
  BY DEF IInv, PollInv, PollRecord
<1>2. Src(g) \in Sources
  <2>1. g \in Sources \/ ClientKind # "qbittorrent"
    <3>1. CASE ClientKind = "qbittorrent"
      <4>1. JobFor(g, 0) = g
        BY <3>1 DEF JobFor, IsTorrent
      <4> QED BY <4>1 DEF Sources
    <3> QED BY <3>1
  <2> QED BY <1>1, <2>1 DEF Src, SourceOf, Sources, Row
<1>3. new \in ImpRecord
  BY <1>1, <1>2 DEF ImpRecord, ImpPC, Row
<1>4. imp' = [imp EXCEPT !["poll"] = new]
  BY DEF PollImport
<1> QED BY <1>1, <1>3, <1>4 DEF IInv, ImpInv

\* The one place a running server counts a try: the copy it counts from is at
\* least as high as the row, so the budget holds for the row as well.
LEMMA RetryCounted ==
  ASSUME IInv, NEW g \in Guids, PollRetry(g), CopyKept, poll' \in PollRecord
  PROVE  RowInv' /\ CopyInv'
<1> DEFINE r   == poll.rows[g]
           new == IncrementImportRetryCount(row[g])
<1>1. /\ UNCHANGED grabs /\ grabs \in Nat /\ CopyLive(g) /\ g \notin poll'.todo
      /\ poll'.pc = "rows" /\ r.retry < RetryLimit
  BY DEF PollRetry, AtRow, CopyLive, Handled, Retryable, IInv, PollInv, PollRecord,
         CountInv
<1>2. \A h \in Guids : /\ StampedRow(row[h]) /\ row[h] \in Row
                       /\ row[h].id \in Nat /\ row[h].retry \in Nat
  BY DEF IInv, RowInv, Row
<1>3. r.retry \in Nat /\ RetryLimit \in Nat
  BY RowAssumption DEF IInv, PollInv, PollRecord, Row
<1>4. \A h \in Guids : Tame(row[h], row[h], grabs)
  BY <1>2 DEF Tame
<1>5. CASE UNCHANGED row
  BY <1>1, <1>4, <1>5, TameStep DEF IInv, RowInv
<1>6. CASE Put(g, r.id, new)
  <2>1. CASE row[g].id # r.id
    <3>1. row' = row
      BY <1>6, <2>1 DEF Put, IInv, RowInv
    <3> QED BY <1>1, <1>4, <3>1, TameStep DEF IInv, RowInv
  <2>2. CASE row[g].id = r.id
    <3>1. row' = [row EXCEPT ![g] = new]
      BY <1>6, <2>2 DEF Put, IInv, RowInv
    <3>2. StampedRow(new) /\ new \in Row
      <4>1. TRUE \in BOOLEAN /\ 0 \in Nat /\ NoJob \in Jobs \cup {NoJob}
        OBVIOUS
      <4> QED BY <1>2, <4>1, ColumnsStamped DEF StampedRow
    <3>3. new.id = row[g].id /\ new.retry <= RetryLimit
      <4>1. row[g].retry <= r.retry
        BY <1>1, <2>2 DEF IInv, CopyInv
      <4>2. new.id = row[g].id /\ new.retry \in {row[g].retry, row[g].retry + 1}
        BY <1>2 DEF IncrementImportRetryCount, Row
      <4> QED BY <1>1, <1>2, <1>3, <4>1, <4>2
    <3>4. RowInv'
      BY <1>1, <3>1, <3>2, <3>3 DEF IInv, RowInv
    <3>5. CopyInv'
      <4>1. ASSUME NEW h \in Guids, CopyLive(h)', row'[h].id = poll'.rows[h].id
            PROVE  row'[h].retry <= poll'.rows[h].retry
        <5>1. h # g
          BY <1>1, <4>1 DEF CopyLive
        <5>2. row'[h] = row[h]
          BY <3>1, <5>1 DEF IInv, RowInv
        <5> QED BY <4>1, <5>2 DEF CopyKept, IInv, CopyInv
      <4> QED BY <4>1 DEF CopyInv
    <3> QED BY <3>4, <3>5
  <2> QED BY <2>1, <2>2
<1> QED BY <1>5, <1>6 DEF PollRetry

\* The hash qBittorrent's poller backfills is one of the client's ids.
LEMMA BackfilledHash ==
  ASSUME IInv, NEW g \in Guids, PollBackfill(g)
  PROVE  g \in Jobs /\ ClientKind = "qbittorrent"
<1>1. ClientKind = "qbittorrent"
  BY DEF IInv, PollInv, PollBackfill, AtRow
<1>2. JobFor(g, 1) = g /\ 1 \in 1 .. MaxGrabs
  BY <1>1, LifecycleAssumption DEF JobFor, IsTorrent
<1> QED BY <1>1, <1>2, LifecycleAssumption

\* One row of the poller's copy.
LEMMA PollRowPreserves ==
  ASSUME IInv, NEW g \in Guids,
         PollRow(g) \/ StaleBlock(g) \/ StaleFail(g) \/ StalePass(g)
  PROVE  IInv'
<1> DEFINE r  == poll.rows[g]
           id == poll.rows[g].id
<1>1. UNCHANGED <<grabs, job, copies, grabber, stall, asks, crashes>>
  BY DEF PollRow, PollBackfill, PollComplete, PollRetry, PollSkip, PollFailed,
         PollPass, StaleBlock, StaleFail, StalePass
<1>2. poll.pc \in {"rows", "stale"} /\ g \in poll.todo
  BY DEF PollRow, PollBackfill, PollComplete, PollRetry, PollSkip, PollFailed,
         PollPass, StaleBlock, StaleFail, StalePass, AtRow, AtStale
<1>3. StampedRow(row[g]) /\ row[g] \in Row /\ r \in Row /\ grabs \in Nat
  BY DEF IInv, RowInv, PollInv, PollRecord, CountInv
<1>4. CountInv' /\ GrabInv' /\ StallInv'
  BY <1>1 DEF IInv, CountInv, GrabInv, StallInv
<1>5. CASE PollBackfill(g)
  <2>1. g \in Jobs /\ ClientKind = "qbittorrent"
    BY <1>5, BackfilledHash
  <2>2. Tame(row[g], SetJob(row[g], g), grabs)
    BY <1>3, <2>1, StatementsTame DEF DownloadState
  <2>3. /\ poll' = [poll EXCEPT !.rows[g].job = g]
        /\ [r EXCEPT !.job = g] \in Row
    BY <1>3, <1>5, <2>1 DEF PollBackfill, Row
  <2>4. /\ poll' \in PollRecord /\ poll'.pc = poll.pc /\ poll'.todo = poll.todo
        /\ poll'.rows = [poll.rows EXCEPT ![g] = [r EXCEPT !.job = g]]
    BY <2>3 DEF IInv, PollInv, PollRecord
  <2>5. \A h \in Guids : /\ poll'.rows[h].id = poll.rows[h].id
                         /\ poll'.rows[h].retry = poll.rows[h].retry
    BY <1>3, <2>4 DEF IInv, PollInv, PollRecord, Row
  <2>6. PollInv'
    BY <1>1, <2>1, <2>4, <2>5 DEF IInv, PollInv
  <2>7. CopyKept
    BY <2>4, <2>5 DEF CopyKept, CopyLive
  <2>8. RowInv' /\ CopyInv'
    BY <1>1, <1>5, <2>2, <2>4, <2>7, TamePut DEF PollBackfill
  <2> QED BY <1>4, <1>5, <2>6, <2>8 DEF PollBackfill, IInv, ImpInv, SkipInv
<1>6. CASE ~PollBackfill(g)
  <2>1. poll' = Handled(g)
    BY <1>6 DEF PollRow, PollComplete, PollRetry, PollSkip, PollFailed, PollPass,
                StaleBlock, StaleFail, StalePass
  <2>2. PollInv' /\ CopyKept /\ poll' \in PollRecord
    BY <1>1, <1>2, <2>1, HandledKept DEF PollInv
  <2>3. ImpInv'
    <3>1. CASE UNCHANGED imp
      BY <1>1, <3>1 DEF IInv, ImpInv
    <3>2. CASE \E pc \in {"start", "walk"} : PollImport(g, pc, "none")
      BY <1>1, <3>2, PollImportTyped DEF Verdicts
    <3>3. CASE PollImport(g, "verdict", "importFailed")
      BY <1>1, <3>3, PollImportTyped DEF Verdicts
    <3> QED BY <1>6, <3>1, <3>2, <3>3
            DEF PollRow, PollComplete, PollRetry, PollSkip, PollFailed, PollPass,
                StaleBlock, StaleFail, StalePass
  <2>4. SkipInv'
    <3>1. CASE UNCHANGED skips
      BY <3>1 DEF IInv, SkipInv
    <3>2. CASE PollSkip(g)
      <4>1. NoSkip \in SkipRecord
        BY LifecycleAssumption DEF NoSkip, SkipRecord
      <4>2. Streak(g) \in Nat
        BY DEF Streak, IInv, SkipInv, SkipRecord
      <4>3. ~SkipsExhausted(g) => [id |-> r.id, n |-> Streak(g), retry |-> r.retry,
                                   msg |-> r.msg] \in SkipRecord
        BY <1>3, <4>2, LifecycleAssumption DEF SkipsExhausted, SkipRecord, Row
      <4> QED BY <3>2, <4>1, <4>3 DEF PollSkip, IInv, SkipInv
    <3> QED BY <1>6, <3>1, <3>2
            DEF PollRow, PollComplete, PollRetry, PollFailed, PollPass, StaleBlock,
                StaleFail, StalePass
  <2>5. RowInv' /\ CopyInv'
    <3>1. CASE ~PollRetry(g)
      <4>2. \/ UNCHANGED row
            \/ \E new : Tame(row[g], new, grabs) /\ Put(g, id, new)
        <5>1. CASE PollComplete(g)
          <6> DEFINE done == IF r.status = "completed" THEN row[g]
                             ELSE UpdateStatus(row[g], "completed")
          <6>1. Tame(row[g], done, grabs)
            BY <1>3, StatementsTame DEF DownloadState
          <6>2. Put(g, id, done)
            BY <5>1 DEF PollComplete
          <6> QED BY <6>1, <6>2
        <5>2. CASE PollSkip(g) \/ PollFailed(g) \/ PollPass(g) \/ StaleBlock(g)
                   \/ StaleFail(g) \/ StalePass(g)
          <6>1. /\ Tame(row[g], SetErrorWithStatus(row[g], "importBlocked"), grabs)
                /\ Tame(row[g], SetError(row[g]), grabs)
            BY <1>3, StatementsTame DEF DownloadState
          <6> QED BY <5>2, <6>1 DEF PollSkip, PollFailed, PollPass, StaleBlock,
                                    StaleFail, StalePass
        <5> QED BY <1>6, <3>1, <5>1, <5>2 DEF PollRow
      <4>3. CASE UNCHANGED row
        <5>1. \A h \in Guids : Tame(row[h], row'[h], grabs) /\ row'[h] \in Row
          BY <4>3 DEF IInv, RowInv, Tame, Row
        <5>2. row' \in [Guids -> Row] /\ grabs <= grabs' /\ grabs' \in Nat
          BY <1>1, <1>3, <4>3 DEF IInv, RowInv
        <5> QED BY <1>1, <2>2, <5>1, <5>2, TameStep
      <4>4. CASE \E new : Tame(row[g], new, grabs) /\ Put(g, id, new)
        BY <1>1, <2>2, <4>4, TamePut
      <4> QED BY <4>2, <4>3, <4>4
    <3>2. CASE PollRetry(g)
      BY <2>2, <3>2, RetryCounted
    <3> QED BY <3>1, <3>2
  <2> QED BY <1>4, <2>2, <2>3, <2>4, <2>5 DEF IInv
<1> QED BY <1>5, <1>6

\* Every step of a check-downloads run keeps the invariant.
LEMMA PollPreserves ==
  ASSUME IInv, PollStep
  PROVE  IInv'
BY PollReadsPreserve, PollRowPreserves DEF PollStep

\* The stall checker keeps the invariant: its SetError is a tame write.
LEMMA StallPreserves ==
  ASSUME IInv, StallStep
  PROVE  IInv'
<1>1. UNCHANGED <<grabs, copies, grabber, poll, imp, skips, asks, crashes>>
  BY DEF StallStep, StallList, StallReport, StallFail, StallUnchanged
<1>2. GrabInv' /\ PollInv' /\ ImpInv' /\ SkipInv'
  BY <1>1 DEF IInv, GrabInv, PollInv, ImpInv, SkipInv
<1>3. NoStall \in StallRecord /\ NoStall.pc = "idle"
  BY DEF NoStall, StallRecord
<1>4. StallInv'
  <2>1. ASSUME NEW g \in Guids, StallList(g)
        PROVE  StallInv'
    BY <2>1 DEF StallList, StallInv, StallRecord, IInv, RowInv, Row
  <2>2. CASE StallReport
    BY <1>3, <2>2 DEF StallReport, StallInv, StallRecord, IInv
  <2>3. CASE StallFail
    BY <1>3, <2>3 DEF StallFail, StallInv
  <2> QED BY <2>1, <2>2, <2>3 DEF StallStep
<1>5. CountInv'
  BY <1>1 DEF StallStep, StallList, StallReport, StallFail, IInv, CountInv, JobState
<1>6. RowInv' /\ CopyInv'
  <2>1. CASE UNCHANGED row
    BY <1>1, <2>1, RowsKept
  <2>2. CASE StallFail
    <3>1. stall.guid \in Guids
      BY <2>2 DEF StallFail, IInv, StallInv
    <3>2. Tame(row[stall.guid], SetError(row[stall.guid]), grabs)
      BY <3>1, StatementsTame DEF IInv, RowInv, CountInv, DownloadState
    <3> QED BY <1>1, <2>2, <3>1, <3>2, TamePut, PollStands DEF StallFail
  <2> QED BY <2>1, <2>2 DEF StallStep, StallList, StallReport
<1> QED BY <1>2, <1>4, <1>5, <1>6 DEF IInv

\* Retry import, remove, Match to book and the deletion of the book keep it.
LEMMA UserPreserves ==
  ASSUME IInv, UserStep
  PROVE  IInv'
<1>1. UNCHANGED <<grabs, grabber, poll, stall, skips, crashes>>
  BY DEF UserStep, RetryImport, RemoveItem, MatchRead, DeleteBook
<1>2. GrabInv' /\ PollInv' /\ StallInv' /\ SkipInv'
  BY <1>1 DEF IInv, GrabInv, PollInv, StallInv, SkipInv
<1>3. CountInv'
  <2>1. asks' \in Nat
    <3>1. \E kind \in RequestKinds : Ask(kind)
      BY DEF UserStep, RetryImport, RemoveItem, MatchRead, DeleteBook, RequestKinds
    <3> QED BY <3>1 DEF Ask, IInv, CountInv
  <2>2. job' \in [Jobs -> JobState] /\ copies' \in Nat
    <3>1. \/ job' = job
          \/ \E g \in Guids : job' \in {job} \cup
               {[job EXCEPT ![j] = "none"] : j \in Jobs \cap {row[g].job}}
      BY DEF UserStep, RetryImport, RemoveItem, MatchRead, DeleteBook
    <3>2. copies' = copies \/ copies' = 0
      BY DEF UserStep, RetryImport, RemoveItem, MatchRead, DeleteBook
    <3>3. job \in [Jobs -> JobState] /\ copies \in Nat /\ "none" \in JobState
      BY DEF IInv, CountInv, JobState
    <3> QED BY <3>1, <3>2, <3>3
  <2> QED BY <1>1, <2>1, <2>2 DEF IInv, CountInv
<1>4. ImpInv'
  <2>1. CASE UNCHANGED imp
    BY <1>1, <2>1 DEF IInv, ImpInv
  <2>2. ASSUME NEW g \in Guids, NEW t \in Matchers, MatchRead(g, t)
        PROVE  ImpInv'
    <3> DEFINE new == [pc |-> "attach", guid |-> g, id |-> row[g].id,
                       grab |-> row[g].path,
                       src |-> IF row[g].path = 0 THEN NoJob
                               ELSE JobFor(g, row[g].path),
                       book |-> TRUE, verdict |-> "none"]
    <3>1. row[g] \in Row /\ row[g].id <= grabs
      BY DEF IInv, RowInv
    <3>2. new \in ImpRecord
      BY <3>1 DEF ImpRecord, ImpPC, Sources, Row
    <3>3. imp' = [imp EXCEPT ![t] = new]
      BY <2>2 DEF MatchRead
    <3> QED BY <1>1, <3>1, <3>2, <3>3 DEF IInv, ImpInv, Threads
  <2>3. CASE DeleteBook
    <3>1. imp' = [t \in Threads |-> [imp[t] EXCEPT !.book = FALSE]]
      BY <2>3 DEF DeleteBook
    <3>2. \A t \in Threads : [imp[t] EXCEPT !.book = FALSE] \in ImpRecord
      BY DEF IInv, ImpInv, ImpRecord
    <3> QED BY <1>1, <3>1, <3>2 DEF IInv, ImpInv, ImpRecord
  <2> QED BY <2>1, <2>2, <2>3 DEF UserStep, RetryImport, RemoveItem
<1>5. RowInv' /\ CopyInv'
  <2>1. ASSUME NEW g \in Guids
        PROVE  /\ Tame(row[g], row[g], grabs)
               /\ Tame(row[g], ResetImportRetry(row[g]), grabs)
               /\ Tame(row[g], NoRow, grabs)
               /\ Tame(row[g], SetBook(row[g], FALSE), grabs)
    <3>1. StampedRow(row[g]) /\ grabs \in Nat /\ FALSE \in BOOLEAN
          /\ NoJob \in Jobs \cup {NoJob} /\ "failed" \in DownloadState
      BY DEF IInv, RowInv, CountInv, DownloadState
    <3> QED BY <3>1, StatementsTame
  <2>2. \A g \in Guids : /\ ResetImportRetry(row[g]) \in Row /\ NoRow \in Row
                         /\ SetBook(row[g], FALSE) \in Row /\ row[g] \in Row
    BY <2>1 DEF Tame, StampedRow
  <2>3. \A g \in Guids : Tame(row[g], row'[g], grabs)
    BY <2>1 DEF UserStep, RetryImport, RemoveItem, MatchRead, DeleteBook, IInv, RowInv
  <2>4. row' \in [Guids -> Row]
    BY <2>2 DEF UserStep, RetryImport, RemoveItem, MatchRead, DeleteBook, IInv, RowInv
  <2>5. CopyKept /\ poll' \in PollRecord /\ grabs' \in Nat /\ grabs <= grabs'
    BY <1>1, PollStands DEF IInv, CountInv
  <2> QED BY <1>1, <2>3, <2>4, <2>5, TameStep
<1> QED BY <1>2, <1>3, <1>4, <1>5 DEF IInv

\* The download client writes no row.
LEMMA ClientPreserves ==
  ASSUME IInv, ClientStep
  PROVE  IInv'
<1>1. PICK j \in Jobs, s \in JobState :
        /\ job' = [job EXCEPT ![j] = s]
        /\ UNCHANGED <<row, grabs, copies, grabber, poll, imp, stall, skips, asks, crashes>>
  BY DEF ClientStep, JobCompletes, JobFails, JobEmptied, JobRefilled, JobVanishes,
         Becomes, JobState
<1> QED BY <1>1, RowsKept DEF IInv, CountInv, GrabInv, ImpInv, StallInv, SkipInv

\* The passing of time changes only what the stamps and ages stand for.
LEMMA ClockPreserves ==
  ASSUME IInv, ClockStep
  PROVE  IInv'
<1>1. PICK g \in Guids : row' \in {[row EXCEPT ![g] = CooldownOver(@)],
                                   [row EXCEPT ![g] = GraceOver(@)]}
  BY DEF ClockStep, CooldownElapses, GraceElapses
<1>2. UNCHANGED <<grabs, job, copies, grabber, poll, imp, stall, skips, asks, crashes>>
  BY DEF ClockStep, CooldownElapses, GraceElapses
<1>3. \A h \in Guids : /\ Tame(row[h], row[h], grabs)
                       /\ Tame(row[h], CooldownOver(row[h]), grabs)
                       /\ Tame(row[h], GraceOver(row[h]), grabs)
  <2>1. grabs \in Nat /\ FALSE \in BOOLEAN /\ NoJob \in Jobs \cup {NoJob}
        /\ "failed" \in DownloadState /\ \A h \in Guids : StampedRow(row[h])
    BY DEF IInv, RowInv, CountInv, DownloadState
  <2> QED BY <2>1, StatementsTame
<1>4. row' \in [Guids -> Row] /\ \A h \in Guids : Tame(row[h], row'[h], grabs)
  BY <1>1, <1>3 DEF IInv, RowInv, Tame, StampedRow
<1>5. RowInv' /\ CopyInv'
  BY <1>2, <1>4, TameStep, PollStands DEF IInv, CountInv
<1> QED BY <1>2, <1>5 DEF IInv, CountInv, GrabInv, PollInv, ImpInv, StallInv, SkipInv

\* A restart empties the memory, so the tries its sweep counts are counted
\* from the rows themselves.
LEMMA RestartPreserves ==
  ASSUME IInv, Restart
  PROVE  IInv'
<1>1. \A g \in Guids : /\ StampedRow(BootSweep(row[g], copies > 0))
                       /\ BootSweep(row[g], copies > 0).id = row[g].id
                       /\ BootSweep(row[g], copies > 0).retry <= RetryLimit
  <2> TAKE g \in Guids
  <2>1. row[g] \in Row /\ StampedRow(row[g]) /\ row[g].retry <= RetryLimit
    BY DEF IInv, RowInv
  <2>2. /\ RecoverInterrupted(row[g]).id = row[g].id
        /\ RecoverInterrupted(row[g]).retry = row[g].retry
        /\ RecoverInterrupted(row[g]) \in Row
    BY <2>1 DEF RecoverInterrupted, Row, DownloadState
  <2>3. ASSUME NEW q \in Row, q.retry <= RetryLimit, NEW f \in BOOLEAN
        PROVE  RecoverWedged(q, f).id = q.id /\ RecoverWedged(q, f).retry <= RetryLimit
    BY <2>3, RowAssumption DEF RecoverWedged, IsWedged, Row
  <2>4. (copies > 0) \in BOOLEAN
    OBVIOUS
  <2> QED BY <2>1, <2>2, <2>3, <2>4, BootSweepStamped DEF BootSweep
<1>2. row' = [g \in Guids |-> BootSweep(row[g], copies > 0)] /\ grabs' = grabs
  BY DEF Restart
<1>3. RowInv'
  BY <1>1, <1>2 DEF IInv, RowInv, StampedRow
<1>4. /\ NoRow \in Row /\ NoRow.id = 0 /\ grabs \in Nat /\ NoGrab \in GrabRecord
      /\ NoImp \in ImpRecord /\ NoStall \in StallRecord /\ NoSkip \in SkipRecord
  BY NoRowStamped, LifecycleAssumption
     DEF StampedRow, NoRow, IInv, CountInv, NoGrab, GrabRecord, GrabPC, AnyHow, NoImp,
         ImpRecord, ImpPC, Sources, NoStall, StallRecord, NoSkip, SkipRecord
<1>5. NoPoll \in PollRecord /\ NoPoll.pc = "idle" /\ NoPoll.rows = [g \in Guids |-> NoRow]
  BY <1>4 DEF NoPoll, NoRows, PollRecord, PollPC, JobState
<1>6. PollInv' /\ CopyInv'
  BY <1>2, <1>4, <1>5 DEF Restart, PollInv, CopyInv, CopyLive
<1>7. GrabInv' /\ ImpInv' /\ StallInv' /\ SkipInv'
  BY <1>2, <1>4 DEF Restart, GrabInv, ImpInv, StallInv, SkipInv, NoGrab, NoImp, NoStall
<1>8. CountInv'
  BY DEF Restart, IInv, CountInv
<1> QED BY <1>3, <1>6, <1>7, <1>8 DEF IInv

\* The empty table, an idle server and an empty client satisfy the invariant.
LEMMA InitHolds == Init => IInv
<1> SUFFICES ASSUME Init PROVE IInv
  OBVIOUS
<1>1. /\ StampedRow(NoRow) /\ NoRow \in Row /\ NoRow.id = 0 /\ NoRow.retry = 0
      /\ NoGrab \in GrabRecord /\ NoImp \in ImpRecord /\ NoStall \in StallRecord
      /\ NoSkip \in SkipRecord
  BY NoRowStamped, LifecycleAssumption
     DEF StampedRow, NoRow, NoGrab, GrabRecord, GrabPC, AnyHow, NoImp, ImpRecord, ImpPC,
         Sources, NoStall, StallRecord, NoSkip, SkipRecord
<1>2. NoPoll \in PollRecord /\ NoPoll.pc = "idle" /\ NoPoll.rows = [g \in Guids |-> NoRow]
  BY <1>1 DEF NoPoll, NoRows, PollRecord, PollPC, JobState
<1>3. CountInv
  BY DEF Init, CountInv, JobState
<1>4. RowInv
  BY <1>1, RowAssumption DEF Init, RowInv, NoRows
<1>5. PollInv /\ CopyInv
  BY <1>1, <1>2 DEF Init, PollInv, CopyInv, CopyLive
<1>6. GrabInv /\ ImpInv /\ StallInv /\ SkipInv
  BY <1>1 DEF Init, GrabInv, ImpInv, StallInv, SkipInv, NoGrab, NoImp, NoStall
<1> QED BY <1>3, <1>4, <1>5, <1>6 DEF IInv

-----------------------------------------------------------------------------
\* The inductive invariant holds throughout.
THEOREM LifecycleInvariant == Spec => []IInv
<1>1. IInv /\ [Next]_vars => IInv'
  <2> SUFFICES ASSUME IInv, [Next]_vars PROVE IInv'
    OBVIOUS
  <2>1. CASE Next
    BY <2>1, GrabPreserves, PollPreserves, ImportPreserves, StallPreserves,
       UserPreserves, ClientPreserves, ClockPreserves, RestartPreserves DEF Next
  <2>2. CASE UNCHANGED vars
    BY <2>2, RowsKept DEF vars, IInv, CountInv, GrabInv, ImpInv, StallInv, SkipInv
  <2> QED BY <2>1, <2>2
<1> QED BY <1>1, InitHolds, PTL DEF Spec

\* Every variable stays in its domain, imports name rows that were created, and
\* a streak of empty polls is cut off at importSkipLimit.
THEOREM TypeCorrect == Spec => []TypeOK
<1>1. IInv => TypeOK
  <2> SUFFICES ASSUME IInv PROVE TypeOK
    OBVIOUS
  <2>1. \A p \in Grabbers : grabber[p].pc \in GrabPC
    BY DEF IInv, GrabInv, GrabRecord
  <2>2. poll.pc \in PollPC /\ poll.rows \in [Guids -> Row] /\ poll.todo \subseteq Guids
    BY DEF IInv, PollInv, PollRecord
  <2>3. \A t \in Threads : imp[t].pc \in ImpPC /\ imp[t].id \in 0 .. grabs
    BY DEF IInv, ImpInv, ImpRecord, CountInv
  <2>4. stall.pc \in {"idle", "report", "fail"}
    BY DEF IInv, StallInv, StallRecord
  <2>5. \A g \in Guids : skips[g].n < SkipLimit
    BY LifecycleAssumption DEF IInv, SkipInv, SkipRecord
  <2> QED BY <2>1, <2>2, <2>3, <2>4, <2>5 DEF TypeOK, GrabPC, IInv, RowInv, CountInv
<1> QED BY <1>1, LifecycleInvariant, PTL

\* dead_at describes the state of every row, whatever the actors interleave.
THEOREM DeadStampAlwaysAccurate == Spec => []DeadStampAccurate
<1>1. IInv => DeadStampAccurate
  BY DEF IInv, RowInv, StampedRow, DeadStampAccurate
<1> QED BY <1>1, LifecycleInvariant, PTL

\* No row is tried more often than importRetryLimit, although the poller counts
\* from a copy and a boot sweep may count in between.
THEOREM RetryBudgetKept == Spec => []RetryBudget
<1>1. IInv => RetryBudget
  BY DEF IInv, RowInv, RetryBudget
<1> QED BY <1>1, LifecycleInvariant, PTL

\* A grab of the scheduler that gets hold of a row did not take it from an
\* attempt that died within the cooldown: an attempt in its cooldown is dead
\* and fresh, and the claim the scheduler uses excludes that in the UPDATE.
THEOREM SchedulerWaits == Spec => NoHotAutoRegrab
<1>1. IInv /\ [Next]_vars =>
        [\A p \in Scheduler :
           grabber[p].pc = "claim" /\ grabber'[p].pc = "send" =>
             row[grabber[p].guid].dead # "fresh"]_vars
  <2> SUFFICES ASSUME IInv, Next, NEW p \in Scheduler,
                      grabber[p].pc = "claim", grabber'[p].pc = "send"
               PROVE  row[grabber[p].guid].dead # "fresh"
    BY DEF vars
  <2> DEFINE h == grabber[p]
             r == row[h.guid]
  <2>1. p \in Grabbers /\ grabber \in [Grabbers -> GrabRecord] /\ h.how \in Hows(p)
        /\ h.guid \in Guids
    <3>1. p \in Grabbers
      BY DEF Grabbers
    <3> QED BY <3>1 DEF IInv, GrabInv
  <2>2. GrabClaim(p)
    <3>1. Grabbing \/ (grabber' = grabber) \/ Restart
      BY DEF Next, PollStep, PollFirst, PollSecond, StaleList, PollEnd, PollRow,
         PollBackfill, PollComplete, PollRetry, PollSkip, PollFailed, PollPass,
         StaleBlock, StaleFail, StalePass, Importing, ImportStep, MatchStep,
         ImportPending, ImportHandOff, ImportNoFiles, ImportTiny, ImportBegin,
         ImportMatch, ImportReject, ImportGuard, ImportPlace, ImportVerdict,
         ImportFinish, ImportCleanup, ImportWalk, MatchAttach, MatchRearm, MatchLock,
         ImpUnchanged, StallStep, StallList, StallReport, StallFail, StallUnchanged,
         UserStep, RetryImport, RemoveItem, MatchRead, DeleteBook, ClientStep,
         JobCompletes, JobFails, JobEmptied, JobRefilled, JobVanishes, Becomes,
         ClockStep, CooldownElapses, GraceElapses
    <3>2. ~Restart
      BY <2>1 DEF Restart, NoGrab
    <3>3. PICK q \in Grabbers :
            GrabStep(q) \/ \E g \in Guids, how \in Hows(q) : GrabRead(q, g, how)
      BY <3>1, <3>2 DEF Grabbing
    <3>4. q = p
      BY <2>1, <3>3 DEF GrabStep, GrabRead, GrabClaim, GrabSend, GrabError,
         GrabRecordId, GrabDone
    <3> QED BY <3>3, <3>4 DEF GrabStep, GrabRead, GrabSend, GrabError, GrabRecordId,
               GrabDone
  <2>3. r.id = h.id /\ ClaimTakes(h.how, r)
    BY <2>1, <2>2 DEF GrabClaim, NoGrab
  <2>4. h.how \in {"create", "auto"}
    <3>1. p \notin Manual
      BY LifecycleAssumption
    <3> QED BY <2>1, <3>1 DEF Hows
  <2>5. StampedRow(r)
    BY <2>1 DEF IInv, RowInv
  <2>6. CASE h.how = "create"
    BY <2>3, <2>5, <2>6 DEF ClaimTakes, StampedRow, Absent, IsDeadForRegrab
  <2>7. CASE h.how = "auto"
    <3>1. RetryDeadForAutoGrabTakes(r)
      BY <2>3, <2>7 DEF ClaimTakes
    <3> QED BY <2>5, <3>1 DEF RetryDeadForAutoGrabTakes, IsOrphanedImport, StampedRow,
               IsDeadForRegrab
  <2> QED BY <2>4, <2>6, <2>7
<1> QED BY <1>1, LifecycleInvariant, PTL DEF Spec, NoHotAutoRegrab

-----------------------------------------------------------------------------
(* A book whose files nobody deletes.                                        *)

\* An import about to close its download, and a closed download, have a filed
\* copy behind them.
FiledInv ==
  /\ \A t \in Threads : imp[t].pc \in {"finish", "walk", "walk2"} => copies > 0
  /\ \A g \in Guids : row[g].status = "imported" => copies > 0

\* No statement but the import's own last one makes a row imported.
LEMMA OnlyFinishImports ==
  ASSUME NEW r \in Row, NEW s \in DownloadState \ {"imported"}, NEW b \in BOOLEAN,
         NEW j \in Jobs \cup {NoJob}, NEW k \in Nat, r.status # "imported"
  PROVE  /\ UpdateStatus(r, s).status # "imported"
         /\ SetErrorWithStatus(r, s).status # "imported"
         /\ SetError(r).status # "imported"
         /\ ResetImportRetry(r).status # "imported"
         /\ IncrementImportRetryCount(r).status # "imported"
         /\ SetJob(r, j).status # "imported"
         /\ SetImportPath(r, k).status # "imported"
         /\ SetBook(r, b).status # "imported"
         /\ CooldownOver(r).status # "imported"
         /\ GraceOver(r).status # "imported"
<1>1. /\ UpdateStatus(r, s).status # "imported"
      /\ SetErrorWithStatus(r, s).status # "imported"
      /\ SetError(r).status # "imported"
      /\ ResetImportRetry(r).status # "imported"
  BY DEF UpdateStatus, SetErrorWithStatus, SetError, ResetImportRetry, Row
<1>2. /\ IncrementImportRetryCount(r).status # "imported"
      /\ SetJob(r, j).status # "imported"
      /\ SetImportPath(r, k).status # "imported"
      /\ SetBook(r, b).status # "imported"
      /\ CooldownOver(r).status # "imported"
      /\ GraceOver(r).status # "imported"
  BY DEF IncrementImportRetryCount, SetJob, SetImportPath, SetBook, CooldownOver,
         GraceOver, Row
<1> QED BY <1>1, <1>2

\* Nor does the boot sweep, whatever it finds filed.
LEMMA SweepImportsNothing ==
  ASSUME NEW r \in Row, NEW filed, r.status # "imported"
  PROVE  BootSweep(r, filed).status # "imported"
<1>1. RecoverInterrupted(r).status # "imported" /\ RecoverInterrupted(r) \in Row
  BY DEF RecoverInterrupted, Row, DownloadState
<1> QED BY <1>1 DEF BootSweep, RecoverWedged, Row

\* One write by id of a row that is not made imported, with nothing deleted.
LEMMA FiledPut ==
  ASSUME IInv, FiledInv, copies' \in Nat, copies <= copies', NEW g \in Guids,
         NEW id, NEW new, Put(g, id, new),
         row[g].status # "imported" => new.status # "imported",
         \A t \in Threads : imp'[t].pc \in {"finish", "walk", "walk2"} => copies' > 0
  PROVE  FiledInv'
<1>1. \A h \in Guids : row'[h] = row[h] \/ (h = g /\ row'[h] = new)
  BY DEF IInv, RowInv, Put
<1>2. copies \in Nat
  BY DEF IInv, CountInv
<1>3. \A h \in Guids : row'[h].status = "imported" => row[h].status = "imported"
  BY <1>1
<1> QED BY <1>2, <1>3 DEF FiledInv

\* A grab never makes its row imported.
LEMMA GrabKeepsFiled ==
  ASSUME IInv, FiledInv, Grabbing
  PROVE  FiledInv'
<1>1. UNCHANGED <<copies, imp>> /\ copies \in Nat
  BY DEF Grabbing, GrabRead, GrabStep, GrabClaim, GrabSend, GrabError, GrabRecordId,
         GrabDone, IInv, CountInv
<1>2. \A g \in Guids : row[g] \in Row
  BY DEF IInv, RowInv
<1>3. \A g \in Guids : row'[g].status = "imported" => row[g].status = "imported"
  <2>1. CASE \E p \in Grabbers, g \in Guids, how \in AnyHow : GrabRead(p, g, how)
    BY <2>1 DEF GrabRead
  <2>2. ASSUME NEW p \in Grabbers, GrabStep(p)
        PROVE  \A g \in Guids : row'[g].status = "imported" => row[g].status = "imported"
    <3> DEFINE h == grabber[p]
    <3>2. CASE GrabClaim(p)
      <4>1. \/ UNCHANGED row
            \/ \E b \in BOOLEAN : row' = [row EXCEPT ![h.guid] =
                 IF h.how = "create" THEN CreatedRow(grabs + 1, grabs + 1, b)
                                     ELSE ClaimedRow(row[h.guid], grabs + 1, b)]
        BY <3>2 DEF GrabClaim
      <4>2. \A b \in BOOLEAN : /\ CreatedRow(grabs + 1, grabs + 1, b).status = "grabbed"
                               /\ ClaimedRow(row[h.guid], grabs + 1, b).status = "grabbed"
        BY DEF CreatedRow, ClaimedRow, NoRow
      <4> QED BY <4>1, <4>2 DEF IInv, RowInv
    <3>3. CASE GrabSend(p)
      BY <3>3 DEF GrabSend
    <3>4. CASE GrabError(p) \/ GrabRecordId(p) \/ GrabDone(p)
      <4>1. h.guid \in Guids /\ JobFor(h.guid, h.grab) \in Jobs \cup {NoJob}
        BY <3>4, LifecycleAssumption
           DEF GrabError, GrabRecordId, GrabDone, IInv, GrabInv
      <4>2. \E new : /\ Put(h.guid, h.id, new)
                     /\ row[h.guid].status # "imported" => new.status # "imported"
        <5>1. "downloading" \in DownloadState \ {"imported"} /\ TRUE \in BOOLEAN /\ 0 \in Nat
          BY DEF DownloadState
        <5> HIDE DEF h
        <5> QED BY <1>2, <3>4, <4>1, <5>1, OnlyFinishImports
                DEF GrabError, GrabRecordId, GrabDone, h
      <4> QED BY <4>2, <4>1 DEF Put, IInv, RowInv
    <3> QED BY <2>2, <3>2, <3>3, <3>4 DEF GrabStep
  <2> QED BY <2>1, <2>2 DEF Grabbing, Hows, AnyHow
<1> QED BY <1>1, <1>3 DEF FiledInv

\* An import closes its download only after the idempotency guard found a filed
\* copy or after filing one itself.
LEMMA ImportKeepsFiled ==
  ASSUME IInv, FiledInv, Importing
  PROVE  FiledInv'
<1>1. PICK t \in Threads : ImportStep(t) \/ MatchStep(t)
  BY DEF Importing, Threads
<1> DEFINE m == imp[t]
<1>2. m \in ImpRecord /\ m.guid \in Guids /\ row[m.guid] \in Row /\ copies \in Nat
      /\ imp \in [Threads -> ImpRecord]
  BY <1>1 DEF IInv, ImpInv, RowInv, CountInv, ImportStep, MatchStep, ImportPending,
         ImportHandOff, ImportNoFiles, ImportTiny, ImportBegin, ImportMatch, ImportReject,
         ImportGuard, ImportPlace, ImportVerdict, ImportFinish, ImportCleanup,
         ImportWalk, MatchAttach, MatchRearm, MatchLock
<1>3. copies' \in Nat /\ copies <= copies'
  <2>1. CASE ImportPlace(t)
    BY <1>2, <2>1 DEF ImportPlace
  <2>2. CASE ~ImportPlace(t)
    <3>1. UNCHANGED copies
      BY <1>1, <2>2
         DEF ImportStep, MatchStep, ImportPending, ImportHandOff, ImportNoFiles,
             ImportTiny, ImportBegin, ImportMatch, ImportReject, ImportGuard,
             ImportCleanup, ImportVerdict, ImportFinish, ImportWalk, MatchAttach,
             MatchRearm, MatchLock
    <3> QED BY <1>2, <3>1
  <2> QED BY <2>1, <2>2
<1>4. \A u \in Threads \ {t} : imp'[u] = imp[u]
  BY <1>1, <1>2
     DEF ImportStep, MatchStep, ImportPending, ImportHandOff, ImportNoFiles,
         ImportTiny, ImportBegin, ImportMatch, ImportReject, ImportGuard, ImportPlace,
         ImportCleanup, ImportVerdict, ImportFinish, ImportWalk, MatchAttach, MatchRearm,
         MatchLock, ImpGoes, ImpEnds, ImpJudged
<1>5. imp'[t].pc \in {"finish", "walk", "walk2"} => copies' > 0
  <2>1. /\ \A pc \in ImpPC : ImpGoes(t, pc) => imp'[t].pc = pc
        /\ \A v \in Verdicts : ImpJudged(t, v) => imp'[t].pc = "verdict"
        /\ ImpEnds(t) => imp'[t].pc = "idle"
        /\ imp' = [imp EXCEPT ![t].pc = "check", ![t].book = TRUE] => imp'[t].pc = "check"
    <3>1. \A pc \in ImpPC : ImpGoes(t, pc) => imp'[t].pc = pc
      BY <1>2 DEF ImpGoes, ImpRecord
    <3>2. \A v \in Verdicts : ImpJudged(t, v) => imp'[t].pc = "verdict"
      BY <1>2 DEF ImpJudged, ImpRecord
    <3>3. ImpEnds(t) => imp'[t].pc = "idle"
      BY <1>2 DEF ImpEnds, NoImp
    <3>4. imp' = [imp EXCEPT ![t].pc = "check", ![t].book = TRUE] => imp'[t].pc = "check"
      BY <1>2 DEF ImpRecord
    <3> QED BY <3>1, <3>2, <3>3, <3>4
  <2>2. /\ {"queued", "rearm", "start", "discover", "tiny", "match", "check", "place",
            "verdict", "finish", "cleanup", "walk2"} \subseteq ImpPC
        /\ "importBlocked" \in Verdicts
    BY DEF ImpPC, Verdicts
  <2>3. CASE ImportNoFiles(t)
    BY <1>2, <2>1, <2>2, <2>3 DEF ImportNoFiles, AlreadyImported
  <2>4. CASE ImportGuard(t)
    BY <1>2, <2>1, <2>2, <2>4 DEF ImportGuard, AlreadyImported
  <2>5. CASE ImportPlace(t)
    BY <1>2, <2>1, <2>2, <2>5 DEF ImportPlace
  <2>6. CASE ImportWalk(t)
    BY <1>2, <2>1, <2>2, <2>6 DEF ImportWalk, FiledInv
  <2>7. CASE ImportPending(t) \/ ImportHandOff(t) \/ ImportBegin(t) \/ ImportReject(t)
    BY <2>1, <2>2, <2>7 DEF ImportPending, ImportHandOff, ImportBegin, ImportReject
  <2>8. CASE ImportTiny(t)
    BY <2>1, <2>2, <2>8 DEF ImportTiny, ImpJudged
  <2>9. CASE ImportMatch(t)
    BY <2>1, <2>2, <2>9 DEF ImportMatch
  <2>10. CASE ImportCleanup(t) \/ ImportVerdict(t) \/ ImportFinish(t)
    BY <2>1, <2>2, <2>10 DEF ImportCleanup, ImportVerdict, ImportFinish
  <2>11. CASE MatchStep(t)
    BY <2>1, <2>2, <2>11 DEF MatchStep, MatchAttach, MatchRearm, MatchLock
  <2> QED BY <1>1, <2>3, <2>4, <2>5, <2>6, <2>7, <2>8, <2>9, <2>10, <2>11 DEF ImportStep
<1>6. \A u \in Threads : imp'[u].pc \in {"finish", "walk", "walk2"} => copies' > 0
  BY <1>2, <1>3, <1>4, <1>5 DEF FiledInv
<1>7. CASE ImportFinish(t)
  <2>1. copies > 0 /\ UNCHANGED copies
    BY <1>7 DEF ImportFinish, FiledInv
  <2> QED BY <1>6, <2>1 DEF FiledInv
<1>8. CASE ~ImportFinish(t)
  <2>1. \/ UNCHANGED row
        \/ \E s \in DownloadState \ {"imported"} :
             \/ ImpPut(t, UpdateStatus(ImpRow(t), s))
             \/ ImpPut(t, SetErrorWithStatus(ImpRow(t), s))
        \/ ImpPut(t, SetImportPath(ImpRow(t), m.grab))
        \/ ImpPut(t, SetBook(ImpRow(t), TRUE))
        \/ ImpPut(t, ResetImportRetry(ImpRow(t)))
    <3>1. m.pc = "verdict" => m.verdict \in DownloadState \ {"imported"}
      BY DEF IInv, ImpInv, Verdicts, DownloadState
    <3>2. CASE ImportPending(t) \/ ImportHandOff(t) \/ ImportTiny(t) \/ ImportBegin(t)
               \/ ImportWalk(t)
      BY <3>2 DEF ImportPending, ImportHandOff, ImportTiny, ImportBegin, ImportWalk,
                  DownloadState
    <3>3. CASE ImportNoFiles(t) \/ ImportVerdict(t)
      BY <3>1, <3>3 DEF ImportNoFiles, ImportVerdict, DownloadState
    <3>4. CASE ImportMatch(t) \/ ImportReject(t) \/ ImportGuard(t) \/ ImportPlace(t)
               \/ ImportCleanup(t)
      BY <3>4 DEF ImportMatch, ImportReject, ImportGuard, ImportPlace, ImportCleanup
    <3>5. CASE MatchStep(t)
      BY <3>5 DEF MatchStep, MatchAttach, MatchRearm, MatchLock
    <3> QED BY <1>1, <1>8, <3>2, <3>3, <3>4, <3>5 DEF ImportStep
  <2>2. CASE UNCHANGED row
    BY <1>2, <1>3, <1>6, <2>2 DEF FiledInv
  <2>3. CASE ~UNCHANGED row
    <3> DEFINE r == row[m.guid]
    <3>1. \E new : /\ Put(m.guid, m.id, new)
                   /\ r.status # "imported" => new.status # "imported"
      <4>1. m.grab \in Nat /\ r \in Row /\ TRUE \in BOOLEAN /\ NoJob \in Jobs \cup {NoJob}
            /\ "failed" \in DownloadState \ {"imported"}
        BY <1>2 DEF ImpRecord, DownloadState
      <4>2. ASSUME NEW s \in DownloadState \ {"imported"}, r.status # "imported"
            PROVE  /\ UpdateStatus(r, s).status # "imported"
                   /\ SetErrorWithStatus(r, s).status # "imported"
                   /\ SetImportPath(r, m.grab).status # "imported"
                   /\ SetBook(r, TRUE).status # "imported"
                   /\ ResetImportRetry(r).status # "imported"
        BY <4>1, <4>2, OnlyFinishImports
      <4> QED BY <2>1, <2>3, <4>1, <4>2 DEF ImpPut, ImpRow
    <3> QED BY <1>2, <1>3, <1>6, <3>1, FiledPut
  <2> QED BY <2>2, <2>3
<1> QED BY <1>7, <1>8

\* The poller takes a download whose content is gone for filed only when it is.
LEMMA PollKeepsFiled ==
  ASSUME IInv, FiledInv, PollStep
  PROVE  FiledInv'
<1>1. UNCHANGED copies /\ copies \in Nat /\ imp \in [Threads -> ImpRecord]
      /\ row \in [Guids -> Row] /\ poll.rows \in [Guids -> Row] /\ "poll" \in Threads
  BY DEF PollStep, PollFirst, PollSecond, StaleList, PollEnd, PollRow, PollBackfill,
         PollComplete, PollRetry, PollSkip, PollFailed, PollPass, StaleBlock, StaleFail,
         StalePass, IInv, CountInv, ImpInv, RowInv, PollInv, PollRecord, Threads
<1>2. CASE PollFirst \/ PollSecond \/ StaleList \/ PollEnd
  BY <1>2 DEF PollFirst, PollSecond, StaleList, PollEnd, FiledInv
<1>3. ASSUME NEW g \in Guids, PollRow(g) \/ StaleBlock(g) \/ StaleFail(g) \/ StalePass(g)
      PROVE  FiledInv'
  <2>1. \A t \in Threads : imp'[t].pc \in {"finish", "walk", "walk2"} => copies' > 0
    <3>1. ASSUME NEW pc, NEW v, PollImport(g, pc, v), pc = "walk" => copies > 0,
                 pc \in {"start", "walk", "verdict"}
          PROVE  \A t \in Threads : imp'[t].pc \in {"finish", "walk", "walk2"} => copies > 0
      BY <1>1, <3>1 DEF PollImport, FiledInv
    <3>2. \/ UNCHANGED imp
          \/ \E pc \in {"start", "verdict"}, v \in {"none", "importFailed"} :
               PollImport(g, pc, v)
          \/ PollImport(g, "walk", "none") /\ copies > 0
      BY <1>3 DEF PollRow, PollBackfill, PollComplete, PollRetry, PollSkip, PollFailed,
                  PollPass, StaleBlock, StaleFail, StalePass, AlreadyImported
    <3> QED BY <1>1, <3>1, <3>2 DEF FiledInv
  <2> DEFINE r == row[g]
             done == IF poll.rows[g].status = "completed" THEN r
                     ELSE UpdateStatus(r, "completed")
  <2>2. /\ {"completed", "importFailed", "importBlocked"} \subseteq DownloadState \ {"imported"}
        /\ r \in Row /\ TRUE \in BOOLEAN /\ 0 \in Nat /\ NoJob \in Jobs \cup {NoJob}
    BY <1>1 DEF DownloadState
  <2>3. /\ r.status # "imported" => UpdateStatus(r, "completed").status # "imported"
        /\ r.status # "imported" => SetErrorWithStatus(r, "importBlocked").status # "imported"
        /\ r.status # "imported" => SetError(r).status # "imported"
        /\ r.status # "imported" => IncrementImportRetryCount(r).status # "imported"
    BY <2>2, OnlyFinishImports
  <2>5. r.status # "imported" => SetJob(r, g).status # "imported"
    BY <2>2 DEF SetJob, Row
  <2>6. ASSUME NEW id, NEW new, Put(g, id, new),
               row[g].status # "imported" => new.status # "imported"
        PROVE  FiledInv'
    <3>1. copies' \in Nat /\ copies <= copies'
      BY <1>1
    <3> QED BY <2>1, <2>6, <3>1, FiledPut
  <2>7. CASE PollComplete(g)
    <3>1. Put(g, poll.rows[g].id, done)
      BY <2>7 DEF PollComplete
    <3>2. r.status # "imported" => done.status # "imported"
      BY <2>3
    <3> HIDE DEF done
    <3> QED BY <2>6, <3>1, <3>2
  <2>8. CASE UNCHANGED row
    BY <1>1, <2>1, <2>8 DEF FiledInv
  <2>9. CASE ~UNCHANGED row /\ ~PollComplete(g)
    <3>1. \/ Put(g, poll.rows[g].id, SetJob(r, g))
          \/ Put(g, poll.rows[g].id, IncrementImportRetryCount(r))
          \/ Put(g, poll.rows[g].id, SetErrorWithStatus(r, "importBlocked"))
          \/ Put(g, poll.rows[g].id, SetError(r))
      BY <1>3, <2>9 DEF PollRow, PollBackfill, PollRetry, PollSkip, PollFailed, PollPass,
                        StaleBlock, StaleFail, StalePass
    <3> QED BY <2>3, <2>5, <2>6, <3>1
  <2> QED BY <2>7, <2>8, <2>9
<1> QED BY <1>2, <1>3 DEF PollStep

\* The other actors file nothing and, without the request that deletes the book,
\* delete nothing; a restart forgets the imports and keeps the files.
LEMMA OthersKeepFiled ==
  ASSUME IInv, FiledInv, "delete book" \notin Requests,
         StallStep \/ UserStep \/ ClientStep \/ ClockStep \/ Restart
  PROVE  FiledInv'
<1>1. copies \in Nat /\ imp \in [Threads -> ImpRecord] /\ row \in [Guids -> Row]
  BY DEF IInv, CountInv, ImpInv, RowInv
<1>2. ~DeleteBook
  BY DEF DeleteBook, Ask
<1>3. UNCHANGED copies
  BY <1>2 DEF StallStep, StallList, StallReport, StallFail, StallUnchanged, UserStep,
         RetryImport, RemoveItem, MatchRead, ClientStep, JobCompletes, JobFails,
         JobEmptied, JobRefilled, JobVanishes, Becomes, ClockStep, CooldownElapses,
         GraceElapses, Restart
<1>4. \A t \in Threads : imp'[t].pc \in {"finish", "walk", "walk2"} =>
                           imp[t].pc \in {"finish", "walk", "walk2"}
  <2>1. CASE Restart
    BY <2>1 DEF Restart, NoImp
  <2>2. CASE \E g \in Guids, t \in Matchers : MatchRead(g, t)
    <3>1. PICK g \in Guids, t \in Matchers : MatchRead(g, t)
      BY <2>2
    <3>2. t \in Threads
      BY DEF Threads
    <3>3. imp'[t].pc = "attach" /\ \A u \in Threads \ {t} : imp'[u] = imp[u]
      BY <1>1, <3>1, <3>2 DEF MatchRead
    <3> QED BY <3>3
  <2>3. CASE ~Restart /\ ~\E g \in Guids, t \in Matchers : MatchRead(g, t)
    <3>1. UNCHANGED imp
      BY <1>2, <2>3 DEF StallStep, StallList, StallReport, StallFail, StallUnchanged,
         UserStep, RetryImport, RemoveItem, ClientStep, JobCompletes, JobFails,
         JobEmptied, JobRefilled, JobVanishes, Becomes, ClockStep, CooldownElapses,
         GraceElapses
    <3> QED BY <3>1
  <2> QED BY <2>1, <2>2, <2>3
<1>5. \A g \in Guids : row'[g].status = "imported" => row[g].status = "imported"
  <2>1. \A g \in Guids :
          row[g].status # "imported" =>
            /\ SetError(row[g]).status # "imported"
            /\ ResetImportRetry(row[g]).status # "imported"
            /\ CooldownOver(row[g]).status # "imported"
            /\ GraceOver(row[g]).status # "imported"
            /\ BootSweep(row[g], copies > 0).status # "imported"
    <3>1. "failed" \in DownloadState \ {"imported"} /\ NoJob \in Jobs \cup {NoJob}
          /\ 0 \in Nat
      BY DEF DownloadState
    <3>2. \A g \in Guids : row[g] \in Row
      BY <1>1
    <3>3. \A g \in Guids : row[g].status # "imported" =>
                              BootSweep(row[g], copies > 0).status # "imported"
      BY <3>2, SweepImportsNothing
    <3> QED BY <3>1, <3>2, <3>3, OnlyFinishImports
  <2>2. NoRow.status # "imported"
    BY DEF NoRow, Absent
  <2>3. \/ UNCHANGED row
        \/ \E g \in Guids : \E new : /\ row' = [row EXCEPT ![g] = new]
                                     /\ row[g].status # "imported" => new.status # "imported"
        \/ row' = [g \in Guids |-> BootSweep(row[g], copies > 0)]
    <3>1. CASE StallStep
      <4>1. CASE StallFail
        <5>1. stall.guid \in Guids
          BY <4>1 DEF StallFail, IInv, StallInv
        <5>2. PICK new : /\ row' = [row EXCEPT ![stall.guid] = new]
                         /\ new \in {row[stall.guid], SetError(row[stall.guid])}
          BY <1>1, <4>1, <5>1 DEF StallFail, Put
        <5> QED BY <2>1, <5>1, <5>2
      <4>2. CASE ~StallFail
        BY <3>1, <4>2 DEF StallStep, StallList, StallReport
      <4> QED BY <4>1, <4>2
    <3>2. CASE UserStep
      BY <1>1, <1>2, <2>1, <2>2, <3>2 DEF UserStep, RetryImport, RemoveItem, MatchRead
    <3>3. CASE ClientStep
      BY <3>3 DEF ClientStep, JobCompletes, JobFails, JobEmptied, JobRefilled,
                  JobVanishes, Becomes
    <3>4. CASE ClockStep
      BY <1>1, <2>1, <3>4 DEF ClockStep, CooldownElapses, GraceElapses
    <3>5. CASE Restart
      BY <3>5 DEF Restart
    <3> QED BY <3>1, <3>2, <3>3, <3>4, <3>5
  <2> QED BY <1>1, <2>1, <2>3
<1> QED BY <1>3, <1>4, <1>5 DEF FiledInv

\* As long as nobody deletes the book, a download shown as imported has a filed
\* copy behind it: refused writes, stale threads and restarts never close one
\* that filed nothing.
THEOREM ImportedAlwaysFiled ==
  ASSUME "delete book" \notin Requests
  PROVE  Spec => []ImportedIsFiled
<1>1. Init => FiledInv
  <2> SUFFICES ASSUME Init PROVE FiledInv
    OBVIOUS
  <2>1. \A t \in Threads : imp[t].pc = "idle"
    BY DEF Init, NoImp
  <2>2. \A g \in Guids : row[g].status = Absent
    BY DEF Init, NoRows, NoRow
  <2> QED BY <2>1, <2>2 DEF FiledInv, Absent
<1>2. IInv /\ FiledInv /\ [Next]_vars => FiledInv'
  <2> SUFFICES ASSUME IInv, FiledInv, [Next]_vars PROVE FiledInv'
    OBVIOUS
  <2>1. CASE Next
    BY <2>1, GrabKeepsFiled, ImportKeepsFiled, PollKeepsFiled, OthersKeepFiled DEF Next
  <2>2. CASE UNCHANGED vars
    BY <2>2 DEF vars, FiledInv
  <2> QED BY <2>1, <2>2
<1>3. FiledInv => ImportedIsFiled
  BY DEF FiledInv, ImportedIsFiled
<1> QED BY <1>1, <1>2, <1>3, LifecycleInvariant, PTL DEF Spec

-----------------------------------------------------------------------------
(* The client id of a row.  For a torrent it is the info hash whichever grab *)
(* recorded it; for a usenet job the argument follows the numbers: an id is  *)
(* recorded only by the grab that still holds the row, because everything    *)
(* that could take the row over in between refuses a row with no id.         *)

\* What the argument tells apart of a status.
Phase(s) == IF s \in {"grabbed", "downloading"} THEN "live"
            ELSE IF s \in {Absent, "failed"} THEN s ELSE "late"

\* A grab that has its row and has not recorded the client's answer.
Open(h) == h.pc \in {"send", "error", "record"}

\* Torrents: the hash of the release or none.
HashInv == \A g \in Guids : row[g].job \in {NoJob, g}

\* A row with an id is there, and the id is the number of its grab.
NumberInv ==
  \A g \in Guids :
    /\ row[g].status # Absent => row[g].id # 0
    /\ row[g].job # NoJob => row[g].job = row[g].grab /\ row[g].status # Absent
    /\ row[g].grab <= grabs

\* Open grabs have numbers of their own, and a row an open grab still holds is
\* as the grab left it: no id, waiting for the download.
OpenInv ==
  \A p \in Grabbers : Open(grabber[p]) =>
    LET h == grabber[p] IN
    /\ h.grab \in 1 .. grabs /\ h.id \in 1 .. grabs
    /\ \A q \in Grabbers \ {p} : Open(grabber[q]) => grabber[q].grab # h.grab
    /\ \A g \in Guids : row[g].grab = h.grab => g = h.guid /\ row[g].id = h.id
    /\ row[h.guid].id = h.id =>
         row[h.guid].grab = h.grab /\ row[h.guid].job = NoJob
         /\ Phase(row[h.guid].status) = "live"

\* The client has a job, and the poller has seen it, only after its grab has
\* sent it; a job seen complete does not run or fail any more.
JobInv ==
  \A j \in Jobs :
    /\ job[j] # "none" \/ poll.jobs[j] # "none" =>
         /\ j \in 1 .. grabs
         /\ \A p \in Grabbers : grabber[p].pc = "send" => grabber[p].grab # j
    /\ poll.jobs[j] \in {"complete", "emptied"} => job[j] \notin {"running", "failed"}

\* A row the poller still has to look at, and copied while it waited for its
\* download, still waits for that download; the job of one copied later on
\* was not listed as failed.
CopiedInv ==
  poll.pc = "rows" => \A g \in poll.todo :
    LET r == poll.rows[g] IN
    /\ r.job # NoJob /\ r.id # 0 /\ r.status # Absent
    /\ Phase(r.status) = "live" /\ row[g].id = r.id =>
         row[g].job = r.job /\ row[g].grab = r.grab /\ Phase(row[g].status) = "live"
    /\ Phase(r.status) = "late" => poll.jobs[r.job] # "failed"

\* The job of a row whose import has come up neither runs nor has it failed.
LateInv ==
  \A g \in Guids : Phase(row[g].status) = "late" /\ row[g].job # NoJob =>
    /\ job[row[g].job] \notin {"running", "failed"}
    /\ poll.pc = "second" => poll.jobs[row[g].job] # "failed"

\* Usenet pollers never have the whole queue, and the stall checker rests.
UsenetInv == /\ NumberInv /\ OpenInv /\ JobInv /\ CopiedInv /\ LateInv
             /\ ~poll.complete /\ stall.pc = "idle"

IdInv == IF IsTorrent THEN HashInv ELSE UsenetInv

-----------------------------------------------------------------------------
(* The steps that do not matter to it.                                       *)

\* A row's statement that takes neither the row nor its id from its grab and
\* does not move it between phases, or deletes it.
Calm(r, new) ==
  \/ new = NoRow
  \/ /\ new.id = r.id /\ new.grab = r.grab /\ new.job = r.job
     /\ Phase(new.status) = Phase(r.status)

\* A grab closes or stays as it is.
GrabCalm(h, new) ==
  Open(new) => /\ Open(h) /\ new.guid = h.guid /\ new.id = h.id /\ new.grab = h.grab
               /\ new.pc = "send" => h.pc = "send"

\* A job goes on, or is gone.
JobCalm(s, new) ==
  \/ new \in {s, "none"}
  \/ s = "running" /\ new \in {"complete", "failed"}
  \/ {s, new} = {"complete", "emptied"}

\* The poller goes through its copy, or drops it.
PollCalm ==
  /\ \A j \in Jobs : poll'.jobs[j] \in {poll.jobs[j], "none"}
  /\ poll'.pc = "rows" => /\ poll.pc = "rows" /\ poll'.todo \subseteq poll.todo
                          /\ \A g \in poll'.todo : poll'.rows[g] = poll.rows[g]
  /\ poll'.pc = "second" => poll.pc = "second"
  /\ poll'.complete => poll.complete

AllCalm ==
  /\ UNCHANGED grabs /\ stall' \in {stall, NoStall} /\ PollCalm
  /\ \A g \in Guids : Calm(row[g], row'[g])
  /\ \A p \in Grabbers : GrabCalm(grabber[p], grabber'[p])
  /\ \A j \in Jobs : JobCalm(job[j], job'[j])

\* The statements of the repository that are calm.
LEMMA StatementsCalm ==
  ASSUME NEW r \in Row, NEW b \in BOOLEAN, NEW k \in Nat
  PROVE  /\ Calm(r, r) /\ Calm(r, NoRow)
         /\ \A s \in {"downloading", "importPending", "importing", "imported",
                      "importExternal"} : Calm(r, UpdateStatus(r, s))
         /\ \A s \in {"importFailed", "importBlocked"} : Calm(r, SetErrorWithStatus(r, s))
         /\ Calm(r, ResetImportRetry(r)) /\ Calm(r, IncrementImportRetryCount(r))
         /\ Calm(r, SetImportPath(r, k)) /\ Calm(r, SetBook(r, b))
         /\ Calm(r, CooldownOver(r)) /\ Calm(r, GraceOver(r))
         /\ Calm(r, BootSweep(r, b))
<1>1. \A s \in {"downloading", "importPending", "importing", "imported",
                "importExternal"} : Calm(r, UpdateStatus(r, s))
  <2> TAKE s \in {"downloading", "importPending", "importing", "imported",
                  "importExternal"}
  <2>1. CASE ~CanTransitionTo(r.status, s)
    BY <2>1 DEF UpdateStatus, Calm
  <2>2. CASE CanTransitionTo(r.status, s)
    <3>1. Phase(s) = Phase(r.status)
      BY <2>2 DEF CanTransitionTo, ValidTransitions, Phase, Absent
    <3>2. /\ UpdateStatus(r, s).id = r.id /\ UpdateStatus(r, s).grab = r.grab
          /\ UpdateStatus(r, s).job = r.job /\ UpdateStatus(r, s).status = s
      BY <2>2 DEF UpdateStatus, Row
    <3> QED BY <3>1, <3>2 DEF Calm
  <2> QED BY <2>1, <2>2
<1>2. \A s \in {"importFailed", "importBlocked"} : Calm(r, SetErrorWithStatus(r, s))
  <2> TAKE s \in {"importFailed", "importBlocked"}
  <2>1. CASE ~(r.status = s \/ CanTransitionTo(r.status, s))
    BY <2>1 DEF SetErrorWithStatus, Calm
  <2>2. CASE r.status = s \/ CanTransitionTo(r.status, s)
    <3>1. Phase(s) = Phase(r.status)
      BY <2>2 DEF CanTransitionTo, ValidTransitions, Phase, Absent
    <3>2. /\ SetErrorWithStatus(r, s).id = r.id /\ SetErrorWithStatus(r, s).grab = r.grab
          /\ SetErrorWithStatus(r, s).job = r.job /\ SetErrorWithStatus(r, s).status = s
      BY <2>2 DEF SetErrorWithStatus, Row
    <3> QED BY <3>1, <3>2 DEF Calm
  <2> QED BY <2>1, <2>2
<1>3. Calm(r, ResetImportRetry(r))
  BY DEF Calm, ResetImportRetry, Row, Phase, Absent
<1>4. /\ Calm(r, IncrementImportRetryCount(r)) /\ Calm(r, SetImportPath(r, k))
      /\ Calm(r, SetBook(r, b)) /\ Calm(r, CooldownOver(r)) /\ Calm(r, GraceOver(r))
  BY DEF Calm, IncrementImportRetryCount, SetImportPath, SetBook, CooldownOver,
         GraceOver, Row
<1>5. Calm(r, BootSweep(r, b))
  BY DEF Calm, BootSweep, RecoverInterrupted, RecoverWedged, IsWedged, Row, Phase, Absent
<1>6. Calm(r, r) /\ Calm(r, NoRow)
  BY DEF Calm
<1> QED BY <1>1, <1>2, <1>3, <1>4, <1>5, <1>6

\* A calm step keeps the invariant.
LEMMA CalmKept ==
  ASSUME IInv, UsenetInv, AllCalm
  PROVE  UsenetInv'
<1>1. /\ NoRow.id = 0 /\ NoRow.grab = 0 /\ NoRow.job = NoJob /\ NoRow.status = Absent
      /\ Phase(Absent) = Absent /\ grabs \in Nat
  BY DEF NoRow, Phase, Absent, IInv, CountInv
<1>2. NumberInv'
  <2>1. \A s : (Phase(s) = Absent) <=> (s = Absent)
    BY DEF Phase, Absent
  <2> QED BY <1>1, <2>1 DEF UsenetInv, AllCalm, Calm, NumberInv
<1>3. OpenInv'
  <2> SUFFICES ASSUME NEW p \in Grabbers, Open(grabber'[p])
               PROVE  /\ grabber'[p].grab \in 1 .. grabs /\ grabber'[p].id \in 1 .. grabs
                      /\ \A q \in Grabbers \ {p} :
                           Open(grabber'[q]) => grabber'[q].grab # grabber'[p].grab
                      /\ \A g \in Guids : row'[g].grab = grabber'[p].grab =>
                            g = grabber'[p].guid /\ row'[g].id = grabber'[p].id
                      /\ row'[grabber'[p].guid].id = grabber'[p].id =>
                           /\ row'[grabber'[p].guid].grab = grabber'[p].grab
                           /\ row'[grabber'[p].guid].job = NoJob
                           /\ Phase(row'[grabber'[p].guid].status) = "live"
    BY DEF OpenInv, AllCalm
  <2>1. /\ Open(grabber[p]) /\ grabber'[p].grab = grabber[p].grab
        /\ grabber'[p].guid = grabber[p].guid /\ grabber'[p].id = grabber[p].id
    BY DEF AllCalm, GrabCalm
  <2>2. /\ grabber[p].guid \in Guids
        /\ grabber[p].grab \in 1 .. grabs /\ grabber[p].id \in 1 .. grabs
    BY <2>1 DEF IInv, GrabInv, Open, UsenetInv, OpenInv
  <2>3. \A q \in Grabbers \ {p} : Open(grabber'[q]) => grabber'[q].grab # grabber[p].grab
    BY <2>1 DEF UsenetInv, OpenInv, AllCalm, GrabCalm
  <2>4. ASSUME NEW g \in Guids, row'[g].grab = grabber[p].grab
        PROVE  g = grabber[p].guid /\ row'[g].id = grabber[p].id
    BY <1>1, <2>1, <2>2, <2>4 DEF UsenetInv, OpenInv, AllCalm, Calm
  <2>5. ASSUME row'[grabber[p].guid].id = grabber[p].id
        PROVE  /\ row'[grabber[p].guid].grab = grabber[p].grab
               /\ row'[grabber[p].guid].job = NoJob
               /\ Phase(row'[grabber[p].guid].status) = "live"
    BY <1>1, <2>1, <2>2, <2>5 DEF UsenetInv, OpenInv, AllCalm, Calm
  <2> QED BY <2>1, <2>2, <2>3, <2>4, <2>5
<1>4. JobInv'
  <2> SUFFICES ASSUME NEW j \in Jobs
               PROVE  /\ job'[j] # "none" \/ poll'.jobs[j] # "none" =>
                           /\ j \in 1 .. grabs
                           /\ \A p \in Grabbers : grabber'[p].pc = "send" => grabber'[p].grab # j
                      /\ poll'.jobs[j] \in {"complete", "emptied"} =>
                           job'[j] \notin {"running", "failed"}
    BY DEF JobInv, AllCalm
  <2>1. job'[j] # "none" => job[j] # "none"
    BY DEF AllCalm, JobCalm
  <2>2. poll'.jobs[j] # "none" => poll'.jobs[j] = poll.jobs[j]
    BY DEF AllCalm, PollCalm
  <2>3. \A p \in Grabbers : grabber'[p].pc = "send" =>
           grabber[p].pc = "send" /\ grabber'[p].grab = grabber[p].grab
    BY DEF AllCalm, GrabCalm, Open
  <2>4. job[j] \notin {"running", "failed"} => job'[j] \notin {"running", "failed"}
    BY DEF AllCalm, JobCalm
  <2> QED BY <2>1, <2>2, <2>3, <2>4 DEF UsenetInv, JobInv
<1>5. CopiedInv'
  <2> SUFFICES ASSUME poll'.pc = "rows", NEW g \in poll'.todo
               PROVE  /\ poll'.rows[g].job # NoJob /\ poll'.rows[g].id # 0
                      /\ poll'.rows[g].status # Absent
                      /\ Phase(poll'.rows[g].status) = "live" /\ row'[g].id = poll'.rows[g].id =>
                           row'[g].job = poll'.rows[g].job /\ row'[g].grab = poll'.rows[g].grab
                           /\ Phase(row'[g].status) = "live"
                      /\ Phase(poll'.rows[g].status) = "late" =>
                           poll'.jobs[poll'.rows[g].job] # "failed"
    BY DEF CopiedInv
  <2>1. poll.pc = "rows" /\ g \in poll.todo /\ poll'.rows[g] = poll.rows[g] /\ g \in Guids
    BY DEF AllCalm, PollCalm, IInv, PollInv, PollRecord
  <2>2. poll.rows[g].job \in Jobs
    BY <2>1 DEF UsenetInv, CopiedInv, IInv, PollInv, PollRecord, Row
  <2>3. Calm(row[g], row'[g])
    BY <2>1 DEF AllCalm
  <2>4. poll'.jobs[poll.rows[g].job] \in {poll.jobs[poll.rows[g].job], "none"}
    BY <2>2 DEF AllCalm, PollCalm
  <2> QED BY <1>1, <2>1, <2>3, <2>4 DEF UsenetInv, CopiedInv, Calm
<1>6. LateInv'
  <2> SUFFICES ASSUME NEW g \in Guids, Phase(row'[g].status) = "late", row'[g].job # NoJob
               PROVE  /\ job'[row'[g].job] \notin {"running", "failed"}
                      /\ poll'.pc = "second" => poll'.jobs[row'[g].job] # "failed"
    BY DEF LateInv
  <2>1. /\ row'[g].job = row[g].job /\ Phase(row[g].status) = "late"
        /\ row[g].job \in Jobs
    BY <1>1 DEF AllCalm, Calm, IInv, RowInv, Row
  <2>2. /\ job[row[g].job] \notin {"running", "failed"}
        /\ poll.pc = "second" => poll.jobs[row[g].job] # "failed"
    BY <2>1 DEF UsenetInv, LateInv
  <2>3. JobCalm(job[row[g].job], job'[row[g].job])
        /\ poll'.jobs[row[g].job] \in {poll.jobs[row[g].job], "none"}
    BY <2>1 DEF AllCalm, PollCalm
  <2> QED BY <2>1, <2>2, <2>3 DEF AllCalm, PollCalm, JobCalm
<1> QED BY <1>2, <1>3, <1>4, <1>5, <1>6 DEF UsenetInv, AllCalm, PollCalm, NoStall

\* A calm statement by row id, and no statement at all.
LEMMA PutCalm ==
  ASSUME IInv, NEW g \in Guids, NEW id, NEW new, Calm(row[g], new),
         Put(g, id, new) \/ UNCHANGED row
  PROVE  \A h \in Guids : Calm(row[h], row'[h])
<1>1. row \in [Guids -> Row]
  BY DEF IInv, RowInv
<1>2. \A h \in Guids : Calm(row[h], row[h])
  BY DEF Calm
<1> QED BY <1>1, <1>2 DEF Put

\* What stands still is calm.
LEMMA StandingCalm ==
  /\ UNCHANGED poll => PollCalm
  /\ UNCHANGED row => \A g \in Guids : Calm(row[g], row'[g])
  /\ UNCHANGED grabber => \A p \in Grabbers : GrabCalm(grabber[p], grabber'[p])
  /\ UNCHANGED job => \A j \in Jobs : JobCalm(job[j], job'[j])
BY DEF PollCalm, Calm, GrabCalm, JobCalm

\* Imports only move rows that have left the waiting phase, and jobs that they
\* have emptied or removed.
LEMMA ImportCalm ==
  ASSUME IInv, Importing
  PROVE  AllCalm
<1> PICK t \in Threads : ImportStep(t) \/ MatchStep(t)
  BY DEF Importing, Threads
<1> DEFINE g == imp[t].guid
<1>1. UNCHANGED <<grabs, grabber, poll, stall>>
  BY DEF ImportStep, MatchStep, ImportPending, ImportHandOff, ImportNoFiles, ImportTiny,
         ImportBegin, ImportMatch, ImportReject, ImportGuard, ImportPlace, ImportVerdict,
         ImportFinish, ImportCleanup, ImportWalk, MatchAttach, MatchRearm, MatchLock,
         ImpUnchanged
<1>2. g \in Guids /\ row[g] \in Row /\ imp[t].grab \in Nat
      /\ (imp[t].pc = "verdict" => imp[t].verdict \in {"importFailed", "importBlocked"})
  BY DEF IInv, ImpInv, ImpRecord, RowInv, Verdicts, ImportStep, MatchStep, ImportPending,
         ImportHandOff, ImportNoFiles, ImportTiny, ImportBegin, ImportMatch, ImportReject,
         ImportGuard, ImportPlace, ImportVerdict, ImportFinish, ImportCleanup, ImportWalk,
         MatchAttach, MatchRearm, MatchLock
<1>3. \A h \in Guids : Calm(row[h], row'[h])
  <2>1. /\ \A s \in {"downloading", "importPending", "importing", "imported",
                      "importExternal"} : Calm(row[g], UpdateStatus(row[g], s))
        /\ \A s \in {"importFailed", "importBlocked"} :
             Calm(row[g], SetErrorWithStatus(row[g], s))
        /\ Calm(row[g], ResetImportRetry(row[g]))
        /\ Calm(row[g], SetImportPath(row[g], imp[t].grab))
        /\ Calm(row[g], SetBook(row[g], TRUE)) /\ Calm(row[g], row[g])
    BY <1>2, StatementsCalm
  <2>2. \E new : Calm(row[g], new) /\ (Put(g, imp[t].id, new) \/ UNCHANGED row)
    <3>1. CASE MatchStep(t)
      BY <2>1, <3>1 DEF MatchStep, MatchAttach, MatchRearm, MatchLock, ImpPut, ImpRow
    <3>2. CASE ImportPending(t) \/ ImportHandOff(t) \/ ImportNoFiles(t) \/ ImportTiny(t)
               \/ ImportBegin(t)
      BY <2>1, <3>2 DEF ImportPending, ImportHandOff, ImportNoFiles, ImportTiny,
                        ImportBegin, ImpPut, ImpRow
    <3>3. CASE ImportMatch(t) \/ ImportReject(t) \/ ImportGuard(t) \/ ImportPlace(t)
      BY <2>1, <3>3 DEF ImportMatch, ImportReject, ImportGuard, ImportPlace, ImpPut, ImpRow
    <3>4. CASE ImportVerdict(t) \/ ImportFinish(t) \/ ImportCleanup(t) \/ ImportWalk(t)
      BY <1>2, <2>1, <3>4 DEF ImportVerdict, ImportFinish, ImportCleanup, ImportWalk,
                              ImpPut, ImpRow
    <3> QED BY <3>1, <3>2, <3>3, <3>4 DEF ImportStep
  <2> QED BY <1>2, <2>2, PutCalm
<1>4. \A j \in Jobs : JobCalm(job[j], job'[j])
  <2>1. CASE UNCHANGED job
    BY <2>1, StandingCalm
  <2>2. CASE ImportCleanup(t)
    BY <2>2 DEF ImportCleanup, JobCalm, IInv, CountInv
  <2> QED BY <2>1, <2>2
          DEF ImportStep, MatchStep, ImportPending, ImportHandOff, ImportNoFiles,
              ImportTiny, ImportBegin, ImportMatch, ImportReject, ImportGuard,
              ImportPlace, ImportVerdict, ImportFinish, ImportWalk, MatchAttach,
              MatchRearm, MatchLock
<1> QED BY <1>1, <1>3, <1>4, StandingCalm DEF AllCalm

\* Nothing a user asks for, the client, the clock or a restart does hands a
\* row to another grab.
LEMMA OthersCalm ==
  ASSUME IInv, UserStep \/ ClientStep \/ ClockStep \/ Restart
  PROVE  AllCalm
<1>1. \A g \in Guids : row[g] \in Row
  BY DEF IInv, RowInv
<1>2. \A g \in Guids : /\ Calm(row[g], row[g]) /\ Calm(row[g], NoRow)
                       /\ Calm(row[g], ResetImportRetry(row[g]))
                       /\ Calm(row[g], SetBook(row[g], FALSE))
                       /\ Calm(row[g], CooldownOver(row[g]))
                       /\ Calm(row[g], GraceOver(row[g]))
                       /\ Calm(row[g], BootSweep(row[g], copies > 0))
  <2>1. (copies > 0) \in BOOLEAN /\ FALSE \in BOOLEAN /\ 0 \in Nat
    OBVIOUS
  <2> QED BY <1>1, <2>1, StatementsCalm
<1>3. CASE UserStep
  <2>1. UNCHANGED <<grabs, grabber, poll, stall>>
    BY <1>3 DEF UserStep, RetryImport, RemoveItem, MatchRead, DeleteBook
  <2>2. \A g \in Guids : Calm(row[g], row'[g])
    BY <1>2, <1>3 DEF UserStep, RetryImport, RemoveItem, MatchRead, DeleteBook, IInv, RowInv
  <2>3. \A j \in Jobs : JobCalm(job[j], job'[j])
    <3>1. \/ UNCHANGED job
          \/ \E j \in Jobs : job' = [job EXCEPT ![j] = "none"]
      BY <1>3 DEF UserStep, RetryImport, RemoveItem, MatchRead, DeleteBook
    <3> QED BY <3>1 DEF JobCalm, IInv, CountInv
  <2> QED BY <2>1, <2>2, <2>3, StandingCalm DEF AllCalm
<1>4. CASE ClientStep
  <2>1. UNCHANGED <<grabs, grabber, poll, stall, row>>
    BY <1>4 DEF ClientStep, JobCompletes, JobFails, JobEmptied, JobRefilled, JobVanishes,
                Becomes
  <2>2. \A j \in Jobs : JobCalm(job[j], job'[j])
    BY <1>4 DEF ClientStep, JobCompletes, JobFails, JobEmptied, JobRefilled, JobVanishes,
                Becomes, JobCalm, IInv, CountInv
  <2> QED BY <2>1, <2>2, StandingCalm DEF AllCalm
<1>5. CASE ClockStep
  <2>1. UNCHANGED <<grabs, grabber, poll, stall, job>>
    BY <1>5 DEF ClockStep, CooldownElapses, GraceElapses
  <2>2. \A g \in Guids : Calm(row[g], row'[g])
    BY <1>2, <1>5 DEF ClockStep, CooldownElapses, GraceElapses, IInv, RowInv
  <2> QED BY <2>1, <2>2, StandingCalm DEF AllCalm
<1>6. CASE Restart
  <2>1. UNCHANGED <<grabs, job>> /\ poll' = NoPoll
    BY <1>6 DEF Restart
  <2>2. \A g \in Guids : Calm(row[g], row'[g])
    BY <1>2, <1>6 DEF Restart
  <2>3. PollCalm
    BY <2>1 DEF PollCalm, NoPoll
  <2>4. \A p \in Grabbers : GrabCalm(grabber[p], grabber'[p])
    BY <1>6 DEF Restart, NoGrab, GrabCalm, Open
  <2> QED BY <1>6, <2>1, <2>2, <2>3, <2>4, StandingCalm DEF AllCalm, Restart
<1> QED BY <1>3, <1>4, <1>5, <1>6

-----------------------------------------------------------------------------
(* Grabs.                                                                    *)

\* A claim takes a row over only after everything that still held it has let
\* it go, and gives it a number nobody has.
LEMMA ClaimKept ==
  ASSUME IInv, UsenetInv, NEW p \in Grabbers, GrabClaim(p), grabs' # grabs
  PROVE  UsenetInv'
<1> DEFINE h == grabber[p]
           n == grabs + 1
<1>1. /\ h.guid \in Guids /\ h.id \in Nat /\ grabs \in Nat /\ n \in Nat
      /\ row \in [Guids -> Row] /\ h.pc = "claim" /\ h \in GrabRecord
  BY DEF GrabClaim, IInv, GrabInv, GrabRecord, CountInv, RowInv
<1>2. /\ row[h.guid].id = h.id /\ ClaimTakes(h.how, row[h.guid]) /\ grabs' = n
      /\ \E b \in BOOLEAN :
           row' = [row EXCEPT ![h.guid] =
                     IF h.how = "create" THEN CreatedRow(n, n, b)
                                         ELSE ClaimedRow(row[h.guid], n, b)]
      /\ grabber' = [grabber EXCEPT ![p] =
           [h EXCEPT !.pc = "send", !.grab = n,
                     !.id = IF h.how = "create" THEN n ELSE h.id]]
      /\ UNCHANGED <<job, poll, stall>>
  BY DEF GrabClaim
<1>3. PICK b \in BOOLEAN :
        row' = [row EXCEPT ![h.guid] = IF h.how = "create" THEN CreatedRow(n, n, b)
                                       ELSE ClaimedRow(row[h.guid], n, b)]
  BY <1>2
<1> DEFINE newId == IF h.how = "create" THEN n ELSE h.id
<1>4. /\ row'[h.guid].grab = n /\ row'[h.guid].id = newId
      /\ row'[h.guid].job = NoJob /\ row'[h.guid].status = "grabbed"
      /\ \A g \in Guids \ {h.guid} : row'[g] = row[g]
  BY <1>1, <1>2, <1>3 DEF CreatedRow, ClaimedRow, NoRow
<1>5. Phase(row[h.guid].status) # "live" /\ (h.how # "create" => row[h.guid].status # Absent)
  <2>1. h.how \in AnyHow /\ h.how # "none"
    BY <1>1 DEF GrabRecord, IInv, GrabInv, Hows
  <2> QED BY <1>2, <2>1 DEF ClaimTakes, RetryFailedTakes, RetryImportedTakes,
            RetryDeadForAutoGrabTakes, IsOrphanedImport, IsDeadForRegrab,
            IsDeadForAutoRegrab, Phase, Absent, AnyHow
<1>6. /\ newId \in 1 .. n
      /\ IF h.how = "create" THEN newId = n ELSE newId = row[h.guid].id
  BY <1>1, <1>2, <1>5 DEF UsenetInv, NumberInv, IInv, RowInv
<1>7. /\ grabber'[p].pc = "send" /\ grabber'[p].grab = n /\ grabber'[p].id = newId
      /\ grabber'[p].guid = h.guid /\ \A q \in Grabbers \ {p} : grabber'[q] = grabber[q]
  BY <1>1, <1>2 DEF IInv, GrabInv, GrabRecord
<1> HIDE DEF newId
<1>8. \A g \in Guids : row[g].grab \in Nat /\ row[g].id \in Nat /\ row[g].grab <= grabs
  BY DEF IInv, RowInv, Row, UsenetInv, NumberInv
<1>9. NumberInv'
  BY <1>1, <1>2, <1>4, <1>6, <1>8 DEF UsenetInv, NumberInv
<1>10. OpenInv'
  <2> SUFFICES ASSUME NEW q \in Grabbers, Open(grabber'[q])
               PROVE  LET k == grabber'[q] IN
                      /\ k.grab \in 1 .. n /\ k.id \in 1 .. n
                      /\ \A o \in Grabbers \ {q} : Open(grabber'[o]) => grabber'[o].grab # k.grab
                      /\ \A g \in Guids : row'[g].grab = k.grab => g = k.guid /\ row'[g].id = k.id
                      /\ row'[k.guid].id = k.id =>
                           row'[k.guid].grab = k.grab /\ row'[k.guid].job = NoJob
                           /\ Phase(row'[k.guid].status) = "live"
    BY <1>2 DEF OpenInv
  <2>1. \A o \in Grabbers \ {p} : Open(grabber[o]) =>
           /\ grabber[o].grab \in 1 .. grabs /\ grabber[o].grab # n
           /\ grabber[o].id \in 1 .. grabs /\ grabber[o].guid \in Guids
    BY <1>1 DEF UsenetInv, OpenInv, IInv, GrabInv, Open
  <2>2. CASE q = p
    <3>1. \A o \in Grabbers \ {p} : Open(grabber'[o]) => grabber'[o].grab # n
      BY <1>7, <2>1
    <3>2. \A g \in Guids : row'[g].grab = n => g = h.guid /\ row'[g].id = newId
      BY <1>1, <1>4, <1>8
    <3> QED BY <1>1, <1>4, <1>6, <1>7, <2>2, <3>1, <3>2 DEF Phase
  <2>3. CASE q # p
    <3>1. grabber'[q] = grabber[q] /\ Open(grabber[q])
      BY <1>7, <2>3
    <3>2. row'[grabber[q].guid].id = grabber[q].id => grabber[q].guid # h.guid
      <4> SUFFICES ASSUME grabber[q].guid = h.guid, row'[h.guid].id = grabber[q].id
                   PROVE  FALSE
        OBVIOUS
      <4>1. row[h.guid].id = grabber[q].id
        <5>1. newId = grabber[q].id /\ grabber[q].id \in 1 .. grabs
          BY <1>1, <1>4, <2>1, <2>3, <3>1
        <5>2. newId # n
          BY <1>1, <5>1
        <5> QED BY <1>6, <5>1, <5>2
      <4> QED BY <1>5, <2>3, <3>1, <4>1 DEF UsenetInv, OpenInv
    <3>3. \A g \in Guids : row'[g].grab = grabber[q].grab =>
             g = grabber[q].guid /\ row'[g].id = grabber[q].id
      BY <1>4, <2>1, <2>3, <3>1 DEF UsenetInv, OpenInv
    <3>4. \A o \in Grabbers \ {q} : Open(grabber'[o]) => grabber'[o].grab # grabber[q].grab
      BY <1>7, <2>1, <2>3, <3>1 DEF UsenetInv, OpenInv
    <3>5. grabber[q].grab \in 1 .. n /\ grabber[q].id \in 1 .. n
      BY <1>1, <2>1, <2>3, <3>1
    <3>6. row'[grabber[q].guid].id = grabber[q].id =>
            /\ row'[grabber[q].guid].grab = grabber[q].grab
            /\ row'[grabber[q].guid].job = NoJob
            /\ Phase(row'[grabber[q].guid].status) = "live"
      BY <1>4, <2>1, <2>3, <3>1, <3>2 DEF UsenetInv, OpenInv
    <3> QED BY <3>1, <3>3, <3>4, <3>5, <3>6
  <2> QED BY <2>2, <2>3
<1>11. JobInv'
  <2>1. \A j \in Jobs : job[j] # "none" \/ poll.jobs[j] # "none" => j \in 1 .. n /\ j # n
    BY <1>1 DEF UsenetInv, JobInv
  <2> QED BY <1>2, <1>7, <2>1 DEF UsenetInv, JobInv
<1>12. CopiedInv'
  <2>1. ASSUME NEW g \in poll.todo, poll.pc = "rows", Phase(poll.rows[g].status) = "live",
               row'[g].id = poll.rows[g].id
        PROVE  g # h.guid
    <3>1. poll.rows[g].id <= grabs /\ poll.rows[g].id \in Nat
      BY DEF IInv, PollInv, PollRecord, Row
    <3> QED BY <1>1, <1>4, <1>5, <1>6, <2>1, <3>1 DEF UsenetInv, CopiedInv
  <2>2. poll.todo \subseteq Guids
    BY DEF IInv, PollInv, PollRecord
  <2> QED BY <1>2, <1>4, <2>1, <2>2 DEF UsenetInv, CopiedInv
<1>13. LateInv'
  BY <1>2, <1>4 DEF UsenetInv, LateInv, Phase
<1> QED BY <1>2, <1>9, <1>10, <1>11, <1>12, <1>13 DEF UsenetInv

\* A row an open grab still holds is held by no other: what the grab writes to
\* it disturbs nobody, and the poller's copy, which has an id, is not of it.
LEMMA HeldAlone ==
  ASSUME IInv, UsenetInv, NEW p \in Grabbers, Open(grabber[p]),
         row[grabber[p].guid].id = grabber[p].id
  PROVE  /\ row[grabber[p].guid].grab = grabber[p].grab
         /\ \A q \in Grabbers \ {p} : Open(grabber[q]) =>
              grabber[q].guid # grabber[p].guid \/ grabber[q].id # grabber[p].id
         /\ poll.pc = "rows" /\ grabber[p].guid \in poll.todo
            /\ Phase(poll.rows[grabber[p].guid].status) = "live" =>
              poll.rows[grabber[p].guid].id # grabber[p].id
BY DEF UsenetInv, OpenInv, CopiedInv

\* The send failed: the row fails, and nobody else holds it.
LEMMA ErrorKept ==
  ASSUME IInv, UsenetInv, NEW p \in Grabbers, GrabError(p)
  PROVE  UsenetInv'
<1> DEFINE h == grabber[p]
<1>1. /\ h.pc = "error" /\ h.guid \in Guids /\ Open(h)
      /\ UNCHANGED <<grabs, job, poll, stall>> /\ grabber' = [grabber EXCEPT ![p] = NoGrab]
      /\ row' = [row EXCEPT ![h.guid] = IF @.id = h.id THEN SetError(@) ELSE @]
  BY DEF GrabError, Put, IInv, GrabInv, Open, RowInv
<1>2. \A q \in Grabbers : GrabCalm(grabber[q], grabber'[q])
  BY <1>1 DEF GrabCalm, Open, NoGrab, IInv, GrabInv
<1>3. CASE row[h.guid].id # h.id
  <2>1. UNCHANGED row
    BY <1>1, <1>3 DEF IInv, RowInv
  <2> QED BY <1>1, <1>2, <2>1, StandingCalm, CalmKept DEF AllCalm
<1>4. CASE row[h.guid].id = h.id
  <2>1. /\ h.id \in 1 .. grabs /\ row[h.guid].status # Absent /\ row[h.guid] \in Row
        /\ row[h.guid].job = NoJob
    BY <1>1, <1>4 DEF UsenetInv, OpenInv, Phase, Absent, IInv, RowInv
  <2>2. /\ row'[h.guid].id = row[h.guid].id /\ row'[h.guid].grab = row[h.guid].grab
        /\ row'[h.guid].job = NoJob /\ row'[h.guid].status = "failed"
        /\ \A g \in Guids \ {h.guid} : row'[g] = row[g]
    BY <1>1, <1>4, <2>1 DEF SetError, Row, IInv, RowInv
  <2>3. \A q \in Grabbers : Open(grabber'[q]) => q # p /\ grabber'[q] = grabber[q]
    BY <1>1 DEF Open, NoGrab, IInv, GrabInv
  <2>4. NumberInv'
    BY <1>1, <2>1, <2>2 DEF UsenetInv, NumberInv, Absent
  <2>5. OpenInv'
    <3>1. \A q \in Grabbers : Open(grabber'[q]) =>
            grabber[q].guid # h.guid \/ grabber[q].id # h.id
      BY <1>1, <1>4, <2>3, HeldAlone
    <3>2. \A q \in Grabbers : Open(grabber[q]) => grabber[q].guid \in Guids
      BY DEF IInv, GrabInv, Open
    <3> QED BY <1>1, <1>4, <2>2, <2>3, <3>1, <3>2 DEF UsenetInv, OpenInv
  <2>6. JobInv'
    BY <1>1, <2>3 DEF UsenetInv, JobInv, Open
  <2>7. CopiedInv'
    <3>1. poll.todo \subseteq Guids
      BY DEF IInv, PollInv, PollRecord
    <3> QED BY <1>1, <1>4, <2>2, <3>1, HeldAlone DEF UsenetInv, CopiedInv
  <2>8. LateInv'
    BY <1>1, <2>2 DEF UsenetInv, LateInv
  <2> QED BY <1>1, <2>4, <2>5, <2>6, <2>7, <2>8 DEF UsenetInv
<1> QED BY <1>3, <1>4

\* The client's id is recorded: the row still holds this grab.
LEMMA RecordKept ==
  ASSUME IInv, UsenetInv, ~IsTorrent, NEW p \in Grabbers, GrabRecordId(p)
  PROVE  UsenetInv'
<1> DEFINE h == grabber[p]
<1>1. /\ h.pc = "record" /\ h.guid \in Guids /\ Open(h) /\ h \in GrabRecord
      /\ UNCHANGED <<grabs, job, poll, stall>>
      /\ grabber' = [grabber EXCEPT ![p].pc = "update"]
      /\ row' = [row EXCEPT ![h.guid] = IF @.id = h.id THEN SetJob(@, h.grab) ELSE @]
  BY DEF GrabRecordId, Put, IInv, GrabInv, Open, RowInv, JobFor
<1>2. \A q \in Grabbers : GrabCalm(grabber[q], grabber'[q])
  BY <1>1 DEF GrabCalm, Open, GrabRecord, IInv, GrabInv
<1>3. CASE row[h.guid].id # h.id
  <2>1. UNCHANGED row
    BY <1>1, <1>3 DEF IInv, RowInv
  <2> QED BY <1>1, <1>2, <2>1, StandingCalm, CalmKept DEF AllCalm
<1>4. CASE row[h.guid].id = h.id
  <2>1. /\ h.id \in 1 .. grabs /\ row[h.guid].status # Absent /\ row[h.guid] \in Row
        /\ Phase(row[h.guid].status) = "live" /\ row[h.guid].grab = h.grab
    BY <1>1, <1>4 DEF UsenetInv, OpenInv, Phase, Absent, IInv, RowInv
  <2>2. /\ row'[h.guid].id = row[h.guid].id /\ row'[h.guid].grab = h.grab
        /\ row'[h.guid].job = h.grab /\ row'[h.guid].status = row[h.guid].status
        /\ \A g \in Guids \ {h.guid} : row'[g] = row[g]
    BY <1>1, <1>4, <2>1 DEF SetJob, Row, IInv, RowInv
  <2>3. \A q \in Grabbers : Open(grabber'[q]) => q # p /\ grabber'[q] = grabber[q]
    BY <1>1 DEF Open, GrabRecord, IInv, GrabInv
  <2>4. NumberInv'
    BY <1>1, <2>1, <2>2 DEF UsenetInv, NumberInv
  <2>5. OpenInv'
    <3>1. \A q \in Grabbers : Open(grabber'[q]) =>
            grabber[q].guid # h.guid \/ grabber[q].id # h.id
      BY <1>1, <1>4, <2>3, HeldAlone
    <3>2. \A q \in Grabbers : Open(grabber[q]) => grabber[q].guid \in Guids
      BY DEF IInv, GrabInv, Open
    <3> QED BY <1>1, <1>4, <2>1, <2>2, <2>3, <3>1, <3>2 DEF UsenetInv, OpenInv
  <2>6. JobInv'
    BY <1>1, <2>3 DEF UsenetInv, JobInv, Open
  <2>7. CopiedInv'
    <3>1. poll.todo \subseteq Guids
      BY DEF IInv, PollInv, PollRecord
    <3> QED BY <1>1, <1>4, <2>2, <3>1, HeldAlone DEF UsenetInv, CopiedInv
  <2>8. LateInv'
    BY <1>1, <2>1, <2>2 DEF UsenetInv, LateInv
  <2> QED BY <1>1, <2>4, <2>5, <2>6, <2>7, <2>8 DEF UsenetInv
<1> QED BY <1>3, <1>4

\* The send: the job it makes is one nobody has seen, of a row that waits.
LEMMA SendKept ==
  ASSUME IInv, UsenetInv, ~IsTorrent, NEW p \in Grabbers, GrabSend(p)
  PROVE  UsenetInv'
<1> DEFINE h == grabber[p]
<1>1. PICK next \in {"record", "error"} : grabber' = [grabber EXCEPT ![p].pc = next]
  BY DEF GrabSend, IsTorrent
<1>2. /\ h.pc = "send" /\ h.guid \in Guids /\ Open(h) /\ h \in GrabRecord
      /\ h.grab \in 1 .. grabs
      /\ UNCHANGED <<row, grabs, poll, stall>>
      /\ job' = job \/ job' = [job EXCEPT ![h.grab] = IF @ = "none" THEN "running" ELSE @]
  BY DEF GrabSend, IInv, GrabInv, Open, JobFor, UsenetInv, OpenInv
<1>3. \A q \in Grabbers : GrabCalm(grabber[q], grabber'[q])
  BY <1>1, <1>2 DEF GrabCalm, Open, GrabRecord, IInv, GrabInv
<1>4. CASE UNCHANGED job
  BY <1>2, <1>3, <1>4, StandingCalm, CalmKept DEF AllCalm
<1>5. CASE job' # job
  <2>1. /\ job' = [job EXCEPT ![h.grab] = IF @ = "none" THEN "running" ELSE @]
        /\ job \in [Jobs -> JobState]
    BY <1>2, <1>5 DEF IInv, CountInv
  <2>2. \A j \in Jobs : j # h.grab => job'[j] = job[j]
    BY <2>1
  <2>3. \A q \in Grabbers : Open(grabber'[q]) =>
           /\ Open(grabber[q]) /\ grabber'[q].guid = grabber[q].guid
           /\ grabber'[q].id = grabber[q].id /\ grabber'[q].grab = grabber[q].grab
           /\ grabber'[q].pc = "send" => q # p /\ grabber[q].pc = "send"
    BY <1>1, <1>2 DEF Open, GrabRecord, IInv, GrabInv
  <2>4. NumberInv' /\ CopiedInv'
    BY <1>2 DEF UsenetInv, NumberInv, CopiedInv
  <2>5. OpenInv'
    BY <1>2, <2>3 DEF UsenetInv, OpenInv
  <2>6. JobInv'
    <3>1. \A q \in Grabbers : grabber'[q].pc = "send" =>
            q # p /\ grabber[q].pc = "send" /\ grabber'[q].grab = grabber[q].grab
      BY <2>3 DEF Open
    <3>2. \A q \in Grabbers : grabber'[q].pc = "send" => grabber'[q].grab # h.grab
      BY <1>2, <3>1 DEF UsenetInv, OpenInv, Open
    <3>3. poll.jobs[h.grab] = "none" \/ h.grab \notin Jobs
      BY <1>2 DEF UsenetInv, JobInv
    <3> QED BY <1>2, <2>2, <3>1, <3>2, <3>3 DEF UsenetInv, JobInv
  <2>7. LateInv'
    <3>1. ASSUME NEW g \in Guids, Phase(row[g].status) = "late", row[g].job # NoJob
          PROVE  row[g].job # h.grab /\ row[g].job \in Jobs
      <4>1. row[g].job \in Jobs /\ row[g].job = row[g].grab
        BY <3>1 DEF UsenetInv, NumberInv, IInv, RowInv, Row
      <4>2. row[g].grab # h.grab
        BY <1>2, <3>1 DEF UsenetInv, OpenInv, Phase
      <4> QED BY <4>1, <4>2
    <3> QED BY <1>2, <2>2, <3>1 DEF UsenetInv, LateInv
  <2> QED BY <1>2, <2>4, <2>5, <2>6, <2>7 DEF UsenetInv
<1> QED BY <1>4, <1>5

\* Every step of a grab.
LEMMA GrabsKeepIds ==
  ASSUME IInv, UsenetInv, ~IsTorrent, Grabbing
  PROVE  UsenetInv'
<1>1. ASSUME NEW p \in Grabbers, NEW g \in Guids, NEW how \in Hows(p), GrabRead(p, g, how)
      PROVE  UsenetInv'
  <2>1. \A q \in Grabbers : GrabCalm(grabber[q], grabber'[q])
    BY <1>1 DEF GrabRead, GrabCalm, Open, IInv, GrabInv
  <2> QED BY <1>1, <2>1, StandingCalm, CalmKept DEF GrabRead, AllCalm
<1>2. ASSUME NEW p \in Grabbers, GrabClaim(p)
      PROVE  UsenetInv'
  <2>1. CASE grabs' # grabs
    BY <1>2, <2>1, ClaimKept
  <2>2. CASE grabs' = grabs
    <3>1. /\ grabber' = [grabber EXCEPT ![p] = NoGrab]
          /\ UNCHANGED <<row, grabs, job, poll, stall>>
      <4>1. grabs \in Nat
        BY DEF IInv, CountInv
      <4> QED BY <1>2, <2>2, <4>1 DEF GrabClaim
    <3>2. \A q \in Grabbers : GrabCalm(grabber[q], grabber'[q])
      BY <3>1 DEF GrabCalm, Open, NoGrab, IInv, GrabInv
    <3> QED BY <3>1, <3>2, StandingCalm, CalmKept DEF AllCalm
  <2> QED BY <2>1, <2>2
<1>3. ASSUME NEW p \in Grabbers, GrabDone(p)
      PROVE  UsenetInv'
  <2>1. grabber[p].guid \in Guids /\ row[grabber[p].guid] \in Row
    BY <1>3 DEF GrabDone, IInv, GrabInv, RowInv
  <2>2. Calm(row[grabber[p].guid], UpdateStatus(row[grabber[p].guid], "downloading"))
    <3>1. FALSE \in BOOLEAN /\ 0 \in Nat
      OBVIOUS
    <3> QED BY <2>1, <3>1, StatementsCalm
  <2>3. \A g \in Guids : Calm(row[g], row'[g])
    BY <1>3, <2>1, <2>2, PutCalm DEF GrabDone
  <2>4. \A q \in Grabbers : GrabCalm(grabber[q], grabber'[q])
    BY <1>3 DEF GrabDone, GrabCalm, Open, NoGrab, IInv, GrabInv
  <2> QED BY <1>3, <2>3, <2>4, StandingCalm, CalmKept DEF GrabDone, AllCalm
<1> QED BY <1>1, <1>2, <1>3, SendKept, ErrorKept, RecordKept DEF Grabbing, GrabStep

-----------------------------------------------------------------------------
(* The poller.                                                               *)

\* The two copies, the list of stale rows and the end of a poll.
LEMMA ReadsKeepIds ==
  ASSUME IInv, UsenetInv, ~IsTorrent, PollFirst \/ PollSecond \/ StaleList \/ PollEnd
  PROVE  UsenetInv'
<1>1. UNCHANGED <<row, grabs, job, grabber, stall>> /\ ~RowsFirst /\ ListComplete = {FALSE}
  BY LifecycleAssumption
     DEF PollFirst, PollSecond, StaleList, PollEnd, RowsFirst, IsTorrent
<1>2. poll \in PollRecord /\ row \in [Guids -> Row] /\ job \in [Jobs -> JobState]
  BY DEF IInv, PollInv, RowInv, CountInv
<1>3. CASE PollFirst
  <2>1. poll' = [poll EXCEPT !.jobs = job, !.complete = FALSE, !.pc = "second"]
    BY <1>1, <1>3 DEF PollFirst, PollReadsJobs
  <2>2. /\ poll'.jobs = job /\ ~poll'.complete /\ poll'.pc = "second"
    BY <1>2, <2>1 DEF PollRecord
  <2>3. NumberInv' /\ OpenInv' /\ CopiedInv'
    BY <1>1, <2>2 DEF UsenetInv, NumberInv, OpenInv, CopiedInv
  <2>4. JobInv'
    BY <1>1, <2>2 DEF UsenetInv, JobInv
  <2>5. LateInv'
    BY <1>1, <2>2 DEF UsenetInv, LateInv
  <2> QED BY <1>1, <2>2, <2>3, <2>4, <2>5 DEF UsenetInv
<1>4. CASE PollSecond
  <2> DEFINE found == {g \in Guids : InListing(poll.jobs, g, row[g])}
             kept  == [g \in Guids |-> IF g \in found THEN row[g] ELSE NoRow]
  <2>1. poll.pc = "second" /\
        poll' = [pc |-> "rows", jobs |-> poll.jobs, complete |-> poll.complete,
                 todo |-> found, seen |-> {row[g].id : g \in found}, rows |-> kept]
    BY <1>1, <1>4 DEF PollSecond
  <2>2. \A g \in found : row[g].job # NoJob
    BY <1>1 DEF InListing, SourceOf, RowsFirst
  <2>3. \A g \in found : row[g].id # 0 /\ row[g].status # Absent
    BY <2>2 DEF UsenetInv, NumberInv
  <2>4. \A g \in found : Phase(row[g].status) = "late" => poll.jobs[row[g].job] # "failed"
    BY <2>1, <2>2 DEF UsenetInv, LateInv
  <2>5. CopiedInv'
    BY <1>1, <2>1, <2>2, <2>3, <2>4 DEF CopiedInv
  <2>6. NumberInv' /\ OpenInv' /\ JobInv' /\ LateInv'
    BY <1>1, <2>1 DEF UsenetInv, NumberInv, OpenInv, JobInv, LateInv
  <2> QED BY <1>1, <2>1, <2>5, <2>6 DEF UsenetInv
<1>5. CASE StaleList
  <2>1. /\ poll'.pc = "stale" /\ poll'.jobs = poll.jobs /\ poll'.complete = poll.complete
    BY <1>2, <1>5 DEF StaleList, PollRecord
  <2> QED BY <1>1, <2>1, StandingCalm, CalmKept DEF AllCalm, PollCalm
<1>6. CASE PollEnd
  <2>1. PollCalm
    BY <1>6 DEF PollEnd, PollCalm, NoPoll
  <2> QED BY <1>1, <2>1, StandingCalm, CalmKept DEF AllCalm
<1> QED BY <1>3, <1>4, <1>5, <1>6

\* A write that moves the row the poller is at, which still waits for the
\* download of the copy: nobody else holds it, because it has an id.
LEMMA PolledKept ==
  ASSUME IInv, UsenetInv, NEW g \in Guids, AtRow(g), poll' = Handled(g),
         UNCHANGED <<grabs, job, grabber, stall>>,
         Phase(poll.rows[g].status) = "live",
         NEW new, Put(g, poll.rows[g].id, new),
         row[g].id = poll.rows[g].id =>
           /\ new.id = row[g].id /\ new.grab = row[g].grab /\ new.job = row[g].job
           /\ new.status # Absent
           /\ Phase(new.status) = "late" => job[row[g].job] \notin {"running", "failed"}
  PROVE  UsenetInv'
<1> DEFINE r == poll.rows[g]
<1>1. /\ poll.pc = "rows" /\ g \in poll.todo /\ poll.todo \subseteq Guids
      /\ row \in [Guids -> Row] /\ poll \in PollRecord
  BY DEF AtRow, IInv, RowInv, PollInv, PollRecord
<1>2. /\ poll'.pc = "rows" /\ poll'.jobs = poll.jobs /\ poll'.complete = poll.complete
      /\ poll'.todo = poll.todo \ {g}
      /\ \A h \in Guids \ {g} : poll'.rows[h] = poll.rows[h]
  BY <1>1 DEF Handled, PollRecord
<1>3. PollCalm
  BY <1>1, <1>2 DEF PollCalm
<1>4. CASE row[g].id # r.id
  <2>1. UNCHANGED row
    BY <1>1, <1>4 DEF Put
  <2> QED BY <1>3, <2>1, StandingCalm, CalmKept DEF AllCalm
<1>5. CASE row[g].id = r.id
  <2>1. /\ row[g].job = r.job /\ r.job # NoJob /\ r.id # 0 /\ row[g].status # Absent
    BY <1>1, <1>5 DEF UsenetInv, CopiedInv, Phase, Absent
  <2>2. row'[g] = new /\ \A h \in Guids \ {g} : row'[h] = row[h]
    BY <1>1, <1>5 DEF Put
  <2>3. NumberInv'
    BY <1>5, <2>1, <2>2 DEF UsenetInv, NumberInv
  <2>4. OpenInv'
    <3>1. \A p \in Grabbers : Open(grabber[p]) =>
            /\ grabber[p].guid \in Guids
            /\ grabber[p].guid # g \/ grabber[p].id # row[g].id
      BY <2>1 DEF UsenetInv, OpenInv, IInv, GrabInv, Open
    <3> QED BY <1>5, <2>2, <3>1 DEF UsenetInv, OpenInv
  <2>5. JobInv'
    BY <1>2 DEF UsenetInv, JobInv
  <2>6. CopiedInv'
    BY <1>1, <1>2, <2>2 DEF UsenetInv, CopiedInv
  <2>7. LateInv'
    BY <1>2, <1>5, <2>2 DEF UsenetInv, LateInv
  <2> QED BY <1>2, <2>3, <2>4, <2>5, <2>6, <2>7 DEF UsenetInv
<1> QED BY <1>4, <1>5

\* A usenet poll and the rows of its copy.
LEMMA PollsKeepIds ==
  ASSUME IInv, UsenetInv, ~IsTorrent, PollStep
  PROVE  UsenetInv'
<1>1. \A g \in Guids : row[g] \in Row /\ poll.rows[g] \in Row
  BY DEF IInv, RowInv, PollInv, PollRecord
<1>2. ~RowsFirst /\ ~poll.complete
  BY DEF RowsFirst, IsTorrent, UsenetInv
<1>3. ASSUME NEW g \in Guids, PollComplete(g)
      PROVE  UsenetInv'
  <2>1. /\ Phase(poll.rows[g].status) = "live" /\ poll.rows[g].status # "completed"
        /\ AtRow(g) /\ Src(g) = poll.rows[g].job /\ ReportsComplete(g)
        /\ poll' = Handled(g) /\ UNCHANGED <<grabs, job, grabber, stall>>
        /\ Put(g, poll.rows[g].id, UpdateStatus(row[g], "completed"))
    BY <1>2, <1>3
       DEF PollComplete, Importable, IsTorrent, Phase, Src, SourceOf, RowsFirst
  <2> DEFINE new == UpdateStatus(row[g], "completed")
  <2>2. new.id = row[g].id /\ new.grab = row[g].grab /\ new.job = row[g].job
    BY <1>1 DEF UpdateStatus, Row
  <2>3. ASSUME row[g].id = poll.rows[g].id
        PROVE  new.status # Absent /\ job[row[g].job] \notin {"running", "failed"}
    <3>1. row[g].job = poll.rows[g].job /\ row[g].job \in Jobs
          /\ Phase(row[g].status) = "live"
      BY <1>1, <2>1, <2>3 DEF AtRow, UsenetInv, CopiedInv, Row
    <3>2. job[row[g].job] \notin {"running", "failed"}
      BY <2>1, <3>1 DEF ReportsComplete, UsenetInv, JobInv
    <3>3. new.status \in {row[g].status, "completed"}
      BY <1>1 DEF UpdateStatus, Row
    <3> QED BY <3>1, <3>2, <3>3 DEF Phase, Absent
  <2> HIDE DEF new
  <2> QED BY <2>1, <2>2, <2>3, PolledKept DEF new
<1>4. ASSUME NEW g \in Guids, PollFailed(g)
      PROVE  UsenetInv'
  <2>1. /\ AtRow(g) /\ poll.jobs[poll.rows[g].job] = "failed" /\ poll.rows[g].status # "failed"
        /\ poll' = Handled(g) /\ UNCHANGED <<grabs, job, grabber, stall>>
        /\ Put(g, poll.rows[g].id, SetError(row[g]))
    BY <1>4 DEF PollFailed, ReportsFailed, Src, SourceOf, IsTorrent
  <2>2. Phase(poll.rows[g].status) # "late"
    BY <2>1 DEF AtRow, UsenetInv, CopiedInv
  <2> DEFINE new == SetError(row[g])
  <2>3. /\ new.id = row[g].id /\ new.grab = row[g].grab /\ new.job = row[g].job
        /\ new.status \in {row[g].status, "failed"}
    BY <1>1 DEF SetError, Row
  <2> HIDE DEF new
  <2>4. CASE Phase(poll.rows[g].status) = "live"
    <3>1. ASSUME row[g].id = poll.rows[g].id
          PROVE  new.status # Absent /\ Phase(new.status) # "late"
      <4>1. Phase(row[g].status) = "live"
        BY <2>1, <2>4, <3>1 DEF AtRow, UsenetInv, CopiedInv
      <4> QED BY <2>3, <4>1 DEF Phase, Absent
    <3> QED BY <2>1, <2>3, <2>4, <3>1, PolledKept DEF new
  <2>5. CASE Phase(poll.rows[g].status) # "live"
    <3>1. poll.rows[g].status = Absent
      BY <2>1, <2>2, <2>5 DEF Phase
    <3> QED BY <2>1, <3>1 DEF AtRow, UsenetInv, CopiedInv
  <2> QED BY <2>4, <2>5
<1>5. ASSUME NEW g \in Guids, PollRetry(g) \/ PollSkip(g) \/ PollPass(g)
                              \/ StaleBlock(g) \/ StalePass(g)
      PROVE  UsenetInv'
  <2>1. /\ poll' = Handled(g) /\ UNCHANGED <<grabs, job, grabber, stall>>
        /\ \/ UNCHANGED row
           \/ Put(g, poll.rows[g].id, IncrementImportRetryCount(row[g]))
           \/ Put(g, poll.rows[g].id, SetErrorWithStatus(row[g], "importBlocked"))
    BY <1>5 DEF PollRetry, PollSkip, PollPass, StaleBlock, StalePass
  <2>2. /\ Calm(row[g], IncrementImportRetryCount(row[g]))
        /\ Calm(row[g], SetErrorWithStatus(row[g], "importBlocked"))
    <3>1. FALSE \in BOOLEAN /\ 0 \in Nat
      OBVIOUS
    <3> QED BY <1>1, <3>1, StatementsCalm
  <2>3. \A h \in Guids : Calm(row[h], row'[h])
    BY <2>1, <2>2, PutCalm, StandingCalm
  <2>4. PollCalm
    <3>1. /\ poll'.pc = poll.pc /\ poll'.jobs = poll.jobs /\ poll'.complete = poll.complete
          /\ poll'.todo = poll.todo \ {g} /\ poll.todo \subseteq Guids
          /\ \A h \in Guids \ {g} : poll'.rows[h] = poll.rows[h]
      BY <2>1 DEF Handled, IInv, PollInv, PollRecord
    <3> QED BY <3>1 DEF PollCalm
  <2> QED BY <2>1, <2>3, <2>4, StandingCalm, CalmKept DEF AllCalm
<1>6. ASSUME NEW g \in Guids, PollBackfill(g) \/ StaleFail(g)
      PROVE  FALSE
  BY <1>2, <1>6 DEF PollBackfill, StaleFail, AtRow, NeverArrived, Unseen, IInv, PollInv,
                    RowsFirst
<1> QED BY <1>3, <1>4, <1>5, <1>6, ReadsKeepIds DEF PollStep, PollRow

-----------------------------------------------------------------------------
(* Torrents, and the theorem.                                                *)

\* Only the record of the client's answer and the poller's backfill write an
\* id, and for a torrent both write the release's hash.
LEMMA HashKept ==
  ASSUME IInv, HashInv, IsTorrent, Next
  PROVE  HashInv'
<1>1. /\ row \in [Guids -> Row] /\ NoRow.job = NoJob
      /\ \A g \in Guids : row[g] \in Row
  BY DEF IInv, RowInv, NoRow
<1>2. CASE Grabbing
  <2>1. ASSUME NEW p \in Grabbers, GrabStep(p)
        PROVE  HashInv'
    <3> DEFINE h == grabber[p]
    <3>1. h.guid \in Guids
      BY <2>1 DEF GrabStep, GrabClaim, GrabSend, GrabError, GrabRecordId, GrabDone, IInv,
                  GrabInv
    <3>2. \/ UNCHANGED row
          \/ \E new : /\ row' = [row EXCEPT ![h.guid] = new]
                      /\ new.job \in {row[h.guid].job, NoJob, h.guid}
      <4>1. CASE GrabClaim(p)
        BY <4>1 DEF GrabClaim, CreatedRow, ClaimedRow, NoRow
      <4>2. CASE GrabError(p) \/ GrabRecordId(p) \/ GrabDone(p)
        <5>1. PICK new : /\ Put(h.guid, h.id, new)
                         /\ new.job \in {row[h.guid].job, NoJob, h.guid}
          <6>1. /\ SetError(row[h.guid]).job = row[h.guid].job
                /\ SetJob(row[h.guid], h.guid).job \in {row[h.guid].job, h.guid}
                /\ UpdateStatus(row[h.guid], "downloading").job = row[h.guid].job
            BY <1>1, <3>1 DEF SetError, SetJob, UpdateStatus, Row
          <6>2. JobFor(h.guid, h.grab) = h.guid
            BY DEF JobFor
          <6> HIDE DEF h
          <6> QED BY <4>2, <6>1, <6>2 DEF GrabError, GrabRecordId, GrabDone, h
        <5> QED BY <1>1, <3>1, <5>1 DEF Put
      <4> QED BY <2>1, <4>1, <4>2 DEF GrabStep, GrabSend
    <3> QED BY <1>1, <3>1, <3>2 DEF HashInv
  <2>2. ASSUME NEW p \in Grabbers, NEW g \in Guids, NEW how \in Hows(p), GrabRead(p, g, how)
        PROVE  HashInv'
    BY <2>2 DEF GrabRead, HashInv
  <2> QED BY <1>2, <2>1, <2>2 DEF Grabbing
<1>3. CASE PollStep
  <2>1. ASSUME NEW g \in Guids,
               PollRow(g) \/ StaleBlock(g) \/ StaleFail(g) \/ StalePass(g)
        PROVE  HashInv'
    <3> DEFINE id == poll.rows[g].id
    <3>1. \A s : /\ UpdateStatus(row[g], s).job = row[g].job
                 /\ SetErrorWithStatus(row[g], s).job = row[g].job
                 /\ SetError(row[g]).job = row[g].job
                 /\ IncrementImportRetryCount(row[g]).job = row[g].job
                 /\ SetJob(row[g], g).job \in {row[g].job, g}
      BY <1>1 DEF UpdateStatus, SetErrorWithStatus, SetError, IncrementImportRetryCount,
                  SetJob, Row
    <3>2. \/ UNCHANGED row
          \/ \E new : Put(g, id, new) /\ new.job \in {row[g].job, g}
      <4>1. CASE PollComplete(g)
        BY <3>1, <4>1 DEF PollComplete
      <4>2. CASE ~PollComplete(g)
        BY <2>1, <3>1, <4>2
           DEF PollRow, PollBackfill, PollRetry, PollSkip, PollFailed, PollPass,
               StaleBlock, StaleFail, StalePass
      <4> QED BY <4>1, <4>2
    <3> QED BY <1>1, <3>2 DEF HashInv, Put
  <2>2. CASE PollFirst \/ PollSecond \/ StaleList \/ PollEnd
    BY <2>2 DEF PollFirst, PollSecond, StaleList, PollEnd, HashInv
  <2> QED BY <1>3, <2>1, <2>2 DEF PollStep
<1>4. CASE Importing \/ UserStep \/ ClientStep \/ ClockStep \/ Restart
  BY <1>1, <1>4, ImportCalm, OthersCalm DEF AllCalm, Calm, HashInv
<1>5. CASE StallStep
  <2>1. CASE StallFail
    <3>1. stall.guid \in Guids
      BY <2>1 DEF StallFail, IInv, StallInv
    <3>2. SetError(row[stall.guid]).job = row[stall.guid].job
      BY <1>1, <3>1 DEF SetError, Row
    <3> QED BY <1>1, <2>1, <3>1, <3>2 DEF StallFail, Put, HashInv
  <2> QED BY <1>5, <2>1 DEF StallStep, StallList, StallReport, HashInv
<1> QED BY <1>2, <1>3, <1>4, <1>5 DEF Next

\* The client id a row holds is the one its own grab was answered with, never
\* that of a grab it replaced: however grabs, their failures, a poll's old
\* copy, imports and restarts interleave, a grab that lost its row records
\* nothing in it.
THEOREM IdAlwaysOfThisGrab == Spec => []JobOfThisGrab
<1>1. Init => IdInv
  <2> SUFFICES ASSUME Init PROVE IdInv
    OBVIOUS
  <2>1. /\ NoRow.id = 0 /\ NoRow.grab = 0 /\ NoRow.job = NoJob /\ NoRow.status = Absent
        /\ Phase(Absent) = Absent /\ Absent # "late" /\ ~Open(NoGrab)
        /\ NoGrab.pc # "send" /\ NoStall.pc = "idle" /\ NoPoll.pc = "idle"
        /\ ~NoPoll.complete /\ \A j \in Jobs : NoPoll.jobs[j] = "none"
    BY DEF NoRow, Phase, Absent, Open, NoGrab, NoStall, NoPoll
  <2>2. HashInv
    BY <2>1 DEF Init, NoRows, HashInv
  <2>3. UsenetInv
    BY <2>1 DEF Init, NoRows, UsenetInv, NumberInv, OpenInv, JobInv, CopiedInv, LateInv
  <2> QED BY <2>2, <2>3 DEF IdInv
<1>2. IInv /\ IdInv /\ [Next]_vars => IdInv'
  <2> SUFFICES ASSUME IInv, IdInv, [Next]_vars PROVE IdInv'
    OBVIOUS
  <2>1. CASE UNCHANGED vars
    BY <2>1 DEF vars, IdInv, HashInv, UsenetInv, NumberInv, OpenInv, JobInv, CopiedInv,
                LateInv
  <2>2. CASE Next /\ IsTorrent
    BY <2>2, HashKept DEF IdInv
  <2>3. CASE Next /\ ~IsTorrent
    <3>1. ~StallStep
      BY <2>3 DEF StallStep, StallList, StallReport, StallFail, IdInv, UsenetInv
    <3> QED BY <2>3, <3>1, GrabsKeepIds, PollsKeepIds, ImportCalm, OthersCalm, CalmKept
            DEF Next, IdInv
  <2> QED BY <2>1, <2>2, <2>3
<1>3. IdInv => JobOfThisGrab
  BY DEF IdInv, HashInv, UsenetInv, NumberInv, JobOfThisGrab, JobFor
<1> QED BY <1>1, <1>2, <1>3, LifecycleInvariant, PTL DEF Spec

-----------------------------------------------------------------------------
(* A row shown as importing has an import at work on it.  Being at work is   *)
(* not enough: the row's state has to be one the import's next write can     *)
(* leave, since a refused write goes unnoticed and the import ends there.    *)

\* Where an import stands before it has begun on the files, and after.
Preparing == {"discover", "tiny", "walk2"}
Placing   == {"match", "check", "place", "verdict", "finish"}

On(t, g, pcs) == imp[t].guid = g /\ imp[t].id = row[g].id /\ imp[t].pc \in pcs

WorkInv ==
  \A g \in Guids :
    /\ row[g].status = "importPending" => \E t \in Threads : On(t, g, Preparing)
    /\ row[g].status = "importing"     => \E t \in Threads : On(t, g, Placing)

\* A row that is not put into an import's states.
Idles(r, new) ==
  \/ new.status \notin {"importPending", "importing"}
  \/ new.status = r.status /\ new.id = r.id

\* The statements of everybody but the imports and the boot sweep.
LEMMA StatementsIdle ==
  ASSUME NEW r \in Row, NEW j \in Jobs \cup {NoJob}, NEW b \in BOOLEAN, NEW k \in Nat
  PROVE  /\ Idles(r, r) /\ Idles(r, NoRow) /\ Idles(r, SetError(r))
         /\ Idles(r, CreatedRow(k, k, b)) /\ Idles(r, ClaimedRow(r, k, b))
         /\ \A s \in {"downloading", "completed"} :
              /\ Idles(r, UpdateStatus(r, s))
              /\ \A d \in {"importFailed", "importBlocked"} :
                   Idles(r, SetErrorWithStatus(r, d))
         /\ Idles(r, ResetImportRetry(r)) /\ Idles(r, IncrementImportRetryCount(r))
         /\ Idles(r, SetJob(r, j)) /\ Idles(r, SetBook(r, b))
         /\ Idles(r, CooldownOver(r)) /\ Idles(r, GraceOver(r))
<1>1. Idles(r, r) /\ Idles(r, NoRow) /\ Idles(r, SetError(r))
  BY DEF Idles, NoRow, Absent, SetError, Row
<1>2. Idles(r, CreatedRow(k, k, b)) /\ Idles(r, ClaimedRow(r, k, b))
  BY DEF Idles, CreatedRow, ClaimedRow, NoRow
<1>3. ASSUME NEW q \in Row, Idles(r, q), NEW d \in {"importFailed", "importBlocked"}
      PROVE  Idles(r, SetErrorWithStatus(q, d))
  BY <1>3 DEF Idles, SetErrorWithStatus, Row
<1>4. ASSUME NEW s \in {"downloading", "completed"}
      PROVE  Idles(r, UpdateStatus(r, s)) /\ UpdateStatus(r, s) \in Row
  BY <1>4 DEF Idles, UpdateStatus, Row, AgeOn, DownloadState
<1>5. Idles(r, ResetImportRetry(r)) /\ Idles(r, IncrementImportRetryCount(r))
  BY DEF Idles, ResetImportRetry, IncrementImportRetryCount, Row
<1>6. /\ Idles(r, SetJob(r, j)) /\ Idles(r, SetBook(r, b))
      /\ Idles(r, CooldownOver(r)) /\ Idles(r, GraceOver(r))
  BY DEF Idles, SetJob, SetBook, CooldownOver, GraceOver, Row
<1> QED BY <1>1, <1>2, <1>3, <1>4, <1>5, <1>6

\* A step that puts no row into those states and takes no import away.
LEMMA IdleKept ==
  ASSUME WorkInv, \A g \in Guids : Idles(row[g], row'[g]),
         \A t \in Threads : imp[t].pc \in Preparing \cup Placing =>
           /\ imp'[t].guid = imp[t].guid /\ imp'[t].id = imp[t].id
           /\ imp'[t].pc = imp[t].pc
  PROVE  WorkInv'
<1> SUFFICES ASSUME NEW g \in Guids, NEW s \in {"importPending", "importing"},
                    row'[g].status = s,
                    NEW pcs \in {Preparing, Placing},
                    pcs = IF s = "importPending" THEN Preparing ELSE Placing
             PROVE  \E t \in Threads : On(t, g, pcs)'
  BY DEF WorkInv
<1>1. row[g].status = s /\ row'[g].id = row[g].id
  BY DEF Idles
<1>2. PICK t \in Threads : On(t, g, pcs)
  BY <1>1 DEF WorkInv
<1> QED BY <1>1, <1>2 DEF On

\* One write by id, or none.
LEMMA PutIdle ==
  ASSUME IInv, NEW g \in Guids, NEW id, NEW new, Idles(row[g], new),
         Put(g, id, new) \/ UNCHANGED row
  PROVE  \A h \in Guids : Idles(row[h], row'[h])
<1>1. row \in [Guids -> Row] /\ \A h \in Guids : Idles(row[h], row[h])
  BY DEF IInv, RowInv, Idles
<1> QED BY <1>1 DEF Put

\* What a step of an import makes of its row: whoever finds it in a state it
\* works from leaves it there only if the import is not over.
Carries(t) ==
  LET g == imp[t].guid IN
  /\ row'[g].id = row[g].id
  /\ row'[g].status = "importPending" =>
       \/ imp'[t].guid = g /\ imp'[t].id = imp[t].id /\ imp'[t].pc \in Preparing
       \/ row[g].status = "importPending" /\ imp[t].pc \notin Preparing
  /\ row'[g].status = "importing" =>
       \/ imp'[t].guid = g /\ imp'[t].id = imp[t].id /\ imp'[t].pc \in Placing
       \/ row[g].status = "importing" /\ imp[t].pc \notin Placing

\* Every step of an import that still has its row is such a step.
LEMMA ImportCarries ==
  ASSUME IInv, NEW t \in Threads, ImportStep(t) \/ MatchStep(t),
         row[imp[t].guid].id = imp[t].id
  PROVE  imp[t].guid \in Guids /\ Carries(t)
<1> DEFINE g == imp[t].guid
           r == row[imp[t].guid]
<1>1. /\ g \in Guids /\ r \in Row /\ imp[t].grab \in Nat /\ row \in [Guids -> Row]
      /\ imp \in [Threads -> ImpRecord] /\ imp[t] \in ImpRecord
      /\ (imp[t].pc = "verdict" => imp[t].verdict \in Verdicts)
  BY DEF IInv, ImpInv, ImpRecord, RowInv, ImportStep, MatchStep, ImportPending,
         ImportHandOff, ImportNoFiles, ImportTiny, ImportBegin, ImportMatch, ImportReject,
         ImportGuard, ImportPlace, ImportVerdict, ImportFinish, ImportCleanup, ImportWalk,
         MatchAttach, MatchRearm, MatchLock
<1>2. \A new : ImpPut(t, new) => row'[g] = new
  BY <1>1 DEF ImpPut, Put
<1>3. \A s : /\ UpdateStatus(r, s).id = r.id
             /\ UpdateStatus(r, s).status =
                  IF CanTransitionTo(r.status, s) THEN s ELSE r.status
             /\ SetErrorWithStatus(r, s).id = r.id
             /\ SetErrorWithStatus(r, s).status =
                  IF r.status = s \/ CanTransitionTo(r.status, s) THEN s ELSE r.status
  BY <1>1 DEF UpdateStatus, SetErrorWithStatus, Row
<1>4. /\ SetImportPath(r, imp[t].grab).id = r.id
      /\ SetImportPath(r, imp[t].grab).status = r.status
      /\ SetBook(r, TRUE).id = r.id /\ SetBook(r, TRUE).status = r.status
      /\ ResetImportRetry(r).id = r.id
      /\ ResetImportRetry(r).status \in {r.status, "importFailed"}
  BY <1>1 DEF SetImportPath, SetBook, ResetImportRetry, Row
<1>5. /\ \A pc : ImpGoes(t, pc) =>
           imp'[t].guid = g /\ imp'[t].id = imp[t].id /\ imp'[t].pc = pc
      /\ \A v : ImpJudged(t, v) =>
           imp'[t].guid = g /\ imp'[t].id = imp[t].id /\ imp'[t].pc = "verdict"
  BY <1>1 DEF ImpGoes, ImpJudged, ImpRecord
<1>6. /\ CanTransitionTo("importPending", "importing")
      /\ CanTransitionTo("importPending", "importExternal")
      /\ CanTransitionTo("importPending", "importFailed")
      /\ CanTransitionTo("importing", "imported")
      /\ \A v \in Verdicts : CanTransitionTo("importing", v)
      /\ Verdicts = {"importFailed", "importBlocked"}
  BY DEF CanTransitionTo, ValidTransitions, Verdicts
<1>7. CASE MatchStep(t)
  <2>1. imp[t].pc \notin Preparing /\ imp[t].pc \notin Placing
    BY <1>7 DEF MatchStep, MatchAttach, MatchRearm, MatchLock, Preparing, Placing
  <2>2. row'[g] \in {r, SetBook(r, TRUE), ResetImportRetry(r)}
    BY <1>2, <1>7 DEF MatchStep, MatchAttach, MatchRearm, MatchLock, ImpRow
  <2>3. /\ row'[g].id = r.id
        /\ row'[g].status = r.status \/ row'[g].status = "importFailed"
    <3> HIDE DEF r
    <3> QED BY <1>4, <2>2
  <2> QED BY <1>1, <2>1, <2>3 DEF Carries
<1>8. CASE ImportPending(t) \/ ImportHandOff(t) \/ ImportBegin(t) \/ ImportWalk(t)
           \/ ImportFinish(t)
  BY <1>1, <1>2, <1>3, <1>5, <1>6, <1>8
     DEF ImportPending, ImportHandOff, ImportBegin, ImportWalk, ImportFinish, ImpRow,
         Carries, Preparing, Placing
<1>9. CASE ImportNoFiles(t)
  BY <1>1, <1>2, <1>3, <1>4, <1>5, <1>6, <1>9
     DEF ImportNoFiles, ImpRow, Carries, Preparing, Placing
<1>10. CASE ImportTiny(t)
  <2>1. imp'[t].guid = g /\ imp'[t].id = imp[t].id /\ imp'[t].pc = "verdict"
    BY <1>1, <1>10 DEF ImportTiny, ImpRecord
  <2> QED BY <1>1, <1>2, <1>3, <1>6, <1>10, <2>1
          DEF ImportTiny, ImpRow, Carries, Preparing, Placing
<1>11. CASE ImportMatch(t) /\ imp'[t].pc = "check" /\ ImpPut(t, SetBook(ImpRow(t), TRUE))
            /\ imp' = [imp EXCEPT ![t].pc = "check", ![t].book = TRUE]
  <2>1. imp'[t].guid = g /\ imp'[t].id = imp[t].id /\ imp[t].pc = "match"
    BY <1>1, <1>11 DEF ImportMatch, ImpRecord
  <2> QED BY <1>1, <1>2, <1>4, <1>11, <2>1 DEF ImpRow, Carries, Preparing, Placing
<1>12. CASE ImportMatch(t) /\ ~(/\ ImpPut(t, SetBook(ImpRow(t), TRUE))
                                /\ imp' = [imp EXCEPT ![t].pc = "check", ![t].book = TRUE])
  BY <1>1, <1>2, <1>4, <1>5, <1>12 DEF ImportMatch, ImpRow, Carries, Preparing, Placing
<1>13. CASE ImportReject(t) \/ ImportGuard(t) \/ ImportPlace(t)
  BY <1>1, <1>2, <1>4, <1>5, <1>13
     DEF ImportReject, ImportGuard, ImportPlace, ImpRow, Carries, Preparing, Placing
<1>14. CASE ImportVerdict(t) \/ ImportCleanup(t)
  BY <1>1, <1>2, <1>3, <1>6, <1>14
     DEF ImportVerdict, ImportCleanup, ImpRow, Carries, Preparing, Placing
<1>15. CASE ImportMatch(t)
  <2>1. (imp' = [imp EXCEPT ![t].pc = "check", ![t].book = TRUE]) => imp'[t].pc = "check"
    BY <1>1 DEF ImpRecord
  <2> QED BY <1>11, <1>12, <1>15, <2>1
<1> QED BY <1>1, <1>7, <1>8, <1>9, <1>10, <1>13, <1>14, <1>15 DEF ImportStep

\* Imports never leave a row behind.
LEMMA ImportKeepsWork ==
  ASSUME IInv, WorkInv, Importing
  PROVE  WorkInv'
<1> PICK t \in Threads : ImportStep(t) \/ MatchStep(t)
  BY DEF Importing, Threads
<1> DEFINE g == imp[t].guid
<1>1. \A u \in Threads \ {t} : imp'[u] = imp[u]
  <2>1. imp \in [Threads -> ImpRecord]
    BY DEF IInv, ImpInv
  <2>2. \E new : imp' = [imp EXCEPT ![t] = new]
    <3>1. CASE ImportPending(t) \/ ImportHandOff(t) \/ ImportNoFiles(t) \/ ImportTiny(t)
               \/ ImportBegin(t)
      BY <3>1 DEF ImportPending, ImportHandOff, ImportNoFiles, ImportTiny, ImportBegin,
                  ImpGoes, ImpEnds
    <3>2. CASE ImportMatch(t) \/ ImportReject(t) \/ ImportGuard(t) \/ ImportPlace(t)
      BY <3>2 DEF ImportMatch, ImportReject, ImportGuard, ImportPlace, ImpGoes, ImpJudged
    <3>3. CASE ImportVerdict(t) \/ ImportFinish(t) \/ ImportCleanup(t) \/ ImportWalk(t)
      BY <3>3 DEF ImportVerdict, ImportFinish, ImportCleanup, ImportWalk, ImpGoes, ImpEnds
    <3>4. CASE MatchStep(t)
      BY <3>4 DEF MatchStep, MatchAttach, MatchRearm, MatchLock, ImpGoes, ImpEnds
    <3> QED BY <3>1, <3>2, <3>3, <3>4 DEF ImportStep
  <2> QED BY <2>1, <2>2
<1>2. \/ UNCHANGED row
      \/ \E new : ImpPut(t, new)
  <2>1. CASE ImportPending(t) \/ ImportHandOff(t) \/ ImportNoFiles(t) \/ ImportTiny(t)
             \/ ImportBegin(t)
    BY <2>1 DEF ImportPending, ImportHandOff, ImportNoFiles, ImportTiny, ImportBegin
  <2>2. CASE ImportMatch(t) \/ ImportReject(t) \/ ImportGuard(t) \/ ImportPlace(t)
    BY <2>2 DEF ImportMatch, ImportReject, ImportGuard, ImportPlace
  <2>3. CASE ImportVerdict(t) \/ ImportFinish(t) \/ ImportCleanup(t) \/ ImportWalk(t)
    BY <2>3 DEF ImportVerdict, ImportFinish, ImportCleanup, ImportWalk
  <2>4. CASE MatchStep(t)
    BY <2>4 DEF MatchStep, MatchAttach, MatchRearm, MatchLock
  <2> QED BY <2>1, <2>2, <2>3, <2>4 DEF ImportStep
<1>3. \A h \in Guids : h # g \/ row[h].id # imp[t].id => row'[h] = row[h]
  BY <1>2 DEF IInv, RowInv, ImpPut, Put
<1>4. row[g].id = imp[t].id => g \in Guids /\ Carries(t)
  BY ImportCarries
<1> SUFFICES ASSUME NEW h \in Guids, NEW s \in {"importPending", "importing"},
                    row'[h].status = s, NEW pcs,
                    pcs = IF s = "importPending" THEN Preparing ELSE Placing
             PROVE  \E u \in Threads : On(u, h, pcs)'
  BY DEF WorkInv
<1>5. CASE h # g \/ row[h].id # imp[t].id
  <2>1. PICK u \in Threads : On(u, h, pcs)
    BY <1>3, <1>5 DEF WorkInv
  <2>2. u # t
    BY <1>5, <2>1 DEF On
  <2> QED BY <1>1, <1>3, <1>5, <2>1, <2>2 DEF On
<1>6. CASE h = g /\ row[h].id = imp[t].id
  <2>1. /\ row'[h].id = row[h].id
        /\ \/ imp'[t].guid = h /\ imp'[t].id = imp[t].id /\ imp'[t].pc \in pcs
           \/ row[h].status = s /\ imp[t].pc \notin pcs
    BY <1>4, <1>6 DEF Carries
  <2>2. CASE imp'[t].guid = h /\ imp'[t].id = imp[t].id /\ imp'[t].pc \in pcs
    BY <1>6, <2>1, <2>2 DEF On
  <2>3. CASE row[h].status = s /\ imp[t].pc \notin pcs
    <3>1. PICK u \in Threads : On(u, h, pcs)
      BY <2>3 DEF WorkInv
    <3>2. u # t
      BY <2>3, <3>1 DEF On
    <3> QED BY <1>1, <2>1, <3>1, <3>2 DEF On
  <2> QED BY <2>1, <2>2, <2>3
<1> QED BY <1>5, <1>6

\* Nor does anyone else, short of a restart.
LEMMA OthersKeepWork ==
  ASSUME IInv, WorkInv, Grabbing \/ PollStep \/ StallStep \/ UserStep \/ ClientStep \/ ClockStep
  PROVE  WorkInv'
<1>1. /\ row \in [Guids -> Row] /\ \A g \in Guids : row[g] \in Row /\ row[g].id \in Nat
      /\ grabs \in Nat /\ grabs + 1 \in Nat /\ imp \in [Threads -> ImpRecord]
  BY DEF IInv, RowInv, CountInv, ImpInv, Row
<1>2. \A g \in Guids :
        /\ Idles(row[g], row[g]) /\ Idles(row[g], NoRow) /\ Idles(row[g], SetError(row[g]))
        /\ \A b \in BOOLEAN, k \in Nat :
             Idles(row[g], CreatedRow(k, k, b)) /\ Idles(row[g], ClaimedRow(row[g], k, b))
        /\ \A s \in {"downloading", "completed"} :
             /\ Idles(row[g], UpdateStatus(row[g], s))
             /\ \A d \in {"importFailed", "importBlocked"} :
                  Idles(row[g], SetErrorWithStatus(row[g], d))
        /\ Idles(row[g], ResetImportRetry(row[g]))
        /\ Idles(row[g], IncrementImportRetryCount(row[g]))
        /\ \A j \in Jobs \cup {NoJob} : Idles(row[g], SetJob(row[g], j))
        /\ Idles(row[g], SetBook(row[g], FALSE))
        /\ Idles(row[g], CooldownOver(row[g])) /\ Idles(row[g], GraceOver(row[g]))
  <2>1. FALSE \in BOOLEAN /\ 0 \in Nat /\ NoJob \in Jobs \cup {NoJob}
    OBVIOUS
  <2> QED BY <1>1, <2>1, StatementsIdle
<1>3. \A t \in Threads : imp[t].pc \in Preparing \cup Placing =>
         /\ imp'[t].guid = imp[t].guid /\ imp'[t].id = imp[t].id
         /\ imp'[t].pc = imp[t].pc
  <2>1. CASE UNCHANGED imp
    BY <2>1
  <2>2. ASSUME NEW g \in Guids, PollRow(g), imp' # imp
        PROVE  \A t \in Threads : imp[t].pc \in Preparing \cup Placing => imp'[t] = imp[t]
    <3>1. imp["poll"].pc = "idle"
      BY <2>2 DEF PollRow, PollBackfill, PollComplete, PollRetry, PollSkip, PollFailed,
                  PollPass, AtRow
    <3>2. \E pc \in {"start", "walk", "verdict"} : \E v : PollImport(g, pc, v)
      BY <2>2 DEF PollRow, PollBackfill, PollComplete, PollRetry, PollSkip, PollFailed,
                  PollPass
    <3> QED BY <1>1, <3>1, <3>2 DEF PollImport, Preparing, Placing
  <2>3. ASSUME NEW g \in Guids, NEW u \in Matchers, MatchRead(g, u)
        PROVE  \A t \in Threads : imp[t].pc \in Preparing \cup Placing => imp'[t] = imp[t]
    BY <1>1, <2>3 DEF MatchRead, Preparing, Placing
  <2>4. CASE DeleteBook
    <3>1. \A t \in Threads : imp'[t] = [imp[t] EXCEPT !.book = FALSE]
      BY <2>4 DEF DeleteBook
    <3> QED BY <1>1, <3>1 DEF ImpRecord
  <2>5. \/ UNCHANGED imp
        \/ \E g \in Guids : PollRow(g) /\ imp' # imp
        \/ \E g \in Guids, u \in Matchers : MatchRead(g, u)
        \/ DeleteBook
    BY DEF Grabbing, GrabRead, GrabStep, GrabClaim, GrabSend, GrabError, GrabRecordId,
           GrabDone, PollStep, PollFirst, PollSecond, StaleList, PollEnd, StaleBlock,
           StaleFail, StalePass, StallStep, StallList, StallReport, StallFail,
           StallUnchanged, UserStep, RetryImport, RemoveItem, ClientStep, JobCompletes,
           JobFails, JobEmptied, JobRefilled, JobVanishes, Becomes, ClockStep,
           CooldownElapses, GraceElapses
  <2> QED BY <2>1, <2>2, <2>3, <2>4, <2>5
<1>4. \A g \in Guids : Idles(row[g], row'[g])
  <2>1. CASE Grabbing
    <3>1. ASSUME NEW p \in Grabbers, NEW g \in Guids, NEW how \in Hows(p),
                 GrabRead(p, g, how)
          PROVE  UNCHANGED row
      BY <3>1 DEF GrabRead
    <3>2. ASSUME NEW p \in Grabbers, GrabClaim(p)
          PROVE  \A g \in Guids : Idles(row[g], row'[g])
      <4> DEFINE h == grabber[p]
      <4>1. h.guid \in Guids
        BY <3>2 DEF IInv, GrabInv, GrabClaim
      <4>2. \/ UNCHANGED row
            \/ \E new : /\ row' = [row EXCEPT ![h.guid] = new]
                        /\ \E b \in BOOLEAN :
                             new \in {CreatedRow(grabs + 1, grabs + 1, b),
                                      ClaimedRow(row[h.guid], grabs + 1, b)}
        BY <3>2 DEF GrabClaim
      <4>3. \A b \in BOOLEAN : /\ Idles(row[h.guid], CreatedRow(grabs + 1, grabs + 1, b))
                               /\ Idles(row[h.guid], ClaimedRow(row[h.guid], grabs + 1, b))
        BY <1>1, <1>2, <4>1
      <4> QED BY <1>1, <1>2, <4>2, <4>3
    <3>3. ASSUME NEW p \in Grabbers, GrabSend(p)
          PROVE  UNCHANGED row
      BY <3>3 DEF GrabSend
    <3>4. ASSUME NEW p \in Grabbers, GrabError(p) \/ GrabRecordId(p) \/ GrabDone(p)
          PROVE  \A g \in Guids : Idles(row[g], row'[g])
      <4> DEFINE h == grabber[p]
      <4>1. h.guid \in Guids /\ JobFor(h.guid, h.grab) \in Jobs
        BY <3>4, LifecycleAssumption
           DEF IInv, GrabInv, GrabError, GrabRecordId, GrabDone
      <4>2. PICK new : Idles(row[h.guid], new) /\ Put(h.guid, h.id, new)
        BY <1>2, <3>4, <4>1 DEF GrabError, GrabRecordId, GrabDone
      <4> QED BY <4>1, <4>2, PutIdle
    <3> QED BY <1>2, <2>1, <3>1, <3>2, <3>3, <3>4 DEF Grabbing, GrabStep
  <2>2. ASSUME NEW g \in Guids,
               PollRow(g) \/ StaleBlock(g) \/ StaleFail(g) \/ StalePass(g)
        PROVE  \A h \in Guids : Idles(row[h], row'[h])
    <3>1. g \in Jobs \/ ~PollBackfill(g)
      BY BackfilledHash
    <3>2. CASE PollComplete(g)
      <4>1. \/ Put(g, poll.rows[g].id, row[g])
            \/ Put(g, poll.rows[g].id, UpdateStatus(row[g], "completed"))
        BY <3>2 DEF PollComplete
      <4> QED BY <1>2, <4>1, PutIdle
    <3>3. CASE ~PollComplete(g)
      <4>1. \/ UNCHANGED row
            \/ \E new : Idles(row[g], new) /\ Put(g, poll.rows[g].id, new)
        BY <1>2, <2>2, <3>1, <3>3
           DEF PollRow, PollBackfill, PollRetry, PollSkip, PollFailed, PollPass,
               StaleBlock, StaleFail, StalePass
      <4> QED BY <1>2, <4>1, PutIdle
    <3> QED BY <3>2, <3>3
  <2>3. CASE PollStep
    BY <1>2, <2>2, <2>3 DEF PollStep, PollFirst, PollSecond, StaleList, PollEnd
  <2>4. CASE StallStep
    <3>1. CASE StallFail
      <4>1. stall.guid \in Guids
        BY <3>1 DEF StallFail, IInv, StallInv
      <4> QED BY <1>2, <3>1, <4>1, PutIdle DEF StallFail
    <3> QED BY <1>2, <2>4, <3>1 DEF StallStep, StallList, StallReport
  <2>5. CASE UserStep
    BY <1>1, <1>2, <2>5 DEF UserStep, RetryImport, RemoveItem, MatchRead, DeleteBook
  <2>6. CASE ClientStep
    BY <1>2, <2>6 DEF ClientStep, JobCompletes, JobFails, JobEmptied, JobRefilled,
                      JobVanishes, Becomes
  <2>7. CASE ClockStep
    BY <1>1, <1>2, <2>7 DEF ClockStep, CooldownElapses, GraceElapses
  <2> QED BY <2>1, <2>3, <2>4, <2>5, <2>6, <2>7
<1> QED BY <1>3, <1>4, IdleKept

\* While the process is up, a row shown as importing has an import at work on
\* it: however many imports share the row and whichever of their writes are
\* refused, the last to leave has moved the row on.
THEOREM ImportingIsWorkedOn ==
  ASSUME MaxCrashes = 0
  PROVE  Spec => []NoOrphanedImport
<1>1. Init => WorkInv
  BY DEF Init, NoRows, NoRow, Absent, WorkInv
<1>2. IInv /\ WorkInv /\ [Next]_vars => WorkInv'
  <2> SUFFICES ASSUME IInv, WorkInv, [Next]_vars PROVE WorkInv'
    OBVIOUS
  <2>1. ~Restart
    BY DEF Restart, IInv, CountInv
  <2>2. CASE Next
    BY <2>1, <2>2, ImportKeepsWork, OthersKeepWork DEF Next
  <2>3. CASE UNCHANGED vars
    BY <2>3 DEF vars, WorkInv, On
  <2> QED BY <2>2, <2>3
<1>3. WorkInv => NoOrphanedImport
  BY DEF WorkInv, NoOrphanedImport, On
<1> QED BY <1>1, <1>2, <1>3, LifecycleInvariant, PTL DEF Spec

-----------------------------------------------------------------------------
(* Every actor moves the rows as the repository promises (DownloadRow).      *)

\* The grabs the rows, the poller's copies and the imports name are recorded.
NamedInv ==
  /\ \A g \in Guids : row[g].grab <= grabs /\ row[g].path <= grabs
  /\ \A g \in Guids : poll.rows[g].grab <= grabs
  /\ \A t \in Threads : imp[t].grab <= grabs

\* What one statement on an existing row, or the clock, can make of r.
Moved(r, new, n) ==
  \/ new = r \/ new = NoRow \/ new = SetError(r) \/ new = ResetImportRetry(r)
  \/ \E s \in DownloadState : new = UpdateStatus(r, s) \/ new = SetErrorWithStatus(r, s)
  \/ \E filed \in BOOLEAN : new = BootSweep(r, filed)
  \/ new = IncrementImportRetryCount(r)
  \/ \E j \in Jobs : new = SetJob(r, j)
  \/ \E k \in 0 .. n : new = SetImportPath(r, k)
  \/ \E b \in BOOLEAN : new = SetBook(r, b)
  \/ new = CooldownOver(r) \/ new = GraceOver(r)

RowsMove == \A g \in Guids : Moved(row[g], row'[g], grabs)

\* The statements read through the instance are the statements.
LEMMA SameRowStatements ==
  ASSUME NEW g, NEW r, NEW s, NEW x, NEW y
  PROVE  /\ NoRow = RowOf(g)!NoRow
         /\ UpdateStatus(r, s) = RowOf(g)!UpdateStatus(r, s)
         /\ SetErrorWithStatus(r, s) = RowOf(g)!SetErrorWithStatus(r, s)
         /\ SetError(r) = RowOf(g)!SetError(r)
         /\ ResetImportRetry(r) = RowOf(g)!ResetImportRetry(r)
         /\ BootSweep(r, x) = RowOf(g)!BootSweep(r, x)
         /\ IncrementImportRetryCount(r) = RowOf(g)!IncrementImportRetryCount(r)
         /\ SetJob(r, x) = RowOf(g)!SetJob(r, x)
         /\ SetImportPath(r, x) = RowOf(g)!SetImportPath(r, x)
         /\ SetBook(r, x) = RowOf(g)!SetBook(r, x)
         /\ CooldownOver(r) = RowOf(g)!CooldownOver(r)
         /\ GraceOver(r) = RowOf(g)!GraceOver(r)
         /\ CreatedRow(x, x, y) = RowOf(g)!CreatedRow(x, x, y)
         /\ ClaimedRow(r, x, y) = RowOf(g)!ClaimedRow(r, x, y)
<1>1. \A a, b : CanTransitionTo(a, b) <=> RowOf(g)!CanTransitionTo(a, b)
  BY DEF CanTransitionTo, RowOf!CanTransitionTo, ValidTransitions,
         RowOf!ValidTransitions
<1>2. \A a : DeadStamp(a) = RowOf(g)!DeadStamp(a)
  BY DEF DeadStamp, RowOf!DeadStamp, IsDeadForRegrab, RowOf!IsDeadForRegrab
<1>3. AgeOn(r, s) = RowOf(g)!AgeOn(r, s)
  BY DEF AgeOn, RowOf!AgeOn
<1>4. NoRow = RowOf(g)!NoRow /\ Absent = RowOf(g)!Absent
  BY DEF NoRow, RowOf!NoRow, Absent, RowOf!Absent
<1>5. UpdateStatus(r, s) = RowOf(g)!UpdateStatus(r, s)
  BY <1>1, <1>2, <1>3 DEF UpdateStatus, RowOf!UpdateStatus
<1>6. SetErrorWithStatus(r, s) = RowOf(g)!SetErrorWithStatus(r, s)
  BY <1>1, <1>2 DEF SetErrorWithStatus, RowOf!SetErrorWithStatus
<1>7. BootSweep(r, x) = RowOf(g)!BootSweep(r, x)
  <2>1. RecoverInterrupted(r) = RowOf(g)!RecoverInterrupted(r)
    BY DEF RecoverInterrupted, RowOf!RecoverInterrupted
  <2>2. \A q : RecoverWedged(q, x) = RowOf(g)!RecoverWedged(q, x)
    BY DEF RecoverWedged, RowOf!RecoverWedged, IsWedged, RowOf!IsWedged
  <2> QED BY <2>1, <2>2 DEF BootSweep, RowOf!BootSweep
<1>8. /\ CreatedRow(x, x, y) = RowOf(g)!CreatedRow(x, x, y)
      /\ ClaimedRow(r, x, y) = RowOf(g)!ClaimedRow(r, x, y)
  BY <1>4 DEF CreatedRow, RowOf!CreatedRow, ClaimedRow, RowOf!ClaimedRow
<1>9. /\ SetError(r) = RowOf(g)!SetError(r)
      /\ ResetImportRetry(r) = RowOf(g)!ResetImportRetry(r)
      /\ IncrementImportRetryCount(r) = RowOf(g)!IncrementImportRetryCount(r)
  BY <1>4 DEF SetError, RowOf!SetError, ResetImportRetry, RowOf!ResetImportRetry,
              IncrementImportRetryCount, RowOf!IncrementImportRetryCount
<1>10. /\ SetJob(r, x) = RowOf(g)!SetJob(r, x)
       /\ SetImportPath(r, x) = RowOf(g)!SetImportPath(r, x)
       /\ SetBook(r, x) = RowOf(g)!SetBook(r, x)
       /\ CooldownOver(r) = RowOf(g)!CooldownOver(r)
       /\ GraceOver(r) = RowOf(g)!GraceOver(r)
  BY <1>4 DEF SetJob, RowOf!SetJob, SetImportPath, RowOf!SetImportPath, SetBook,
              RowOf!SetBook, CooldownOver, RowOf!CooldownOver, GraceOver,
              RowOf!GraceOver
<1> QED BY <1>4, <1>5, <1>6, <1>7, <1>8, <1>9, <1>10

\* A statement on one row is a step of that row's specification.
LEMMA MovedRefines ==
  ASSUME NEW g \in Guids, Moved(row[g], row'[g], grabs), UNCHANGED grabs
  PROVE  [RowOf(g)!Next]_<<row[g], grabs>>
<1> DEFINE r == row[g]
<1>1. DownloadState = RowOf(g)!DownloadState
  BY DEF DownloadState, RowOf!DownloadState
<1>2. CASE r' = r
  BY <1>2
<1>3. CASE r' = NoRow
  BY <1>3, SameRowStatements DEF RowOf!Next, RowOf!Delete
<1>4. CASE \/ \E s \in DownloadState :
                 r' = UpdateStatus(r, s) \/ r' = SetErrorWithStatus(r, s)
           \/ r' = SetError(r) \/ r' = ResetImportRetry(r)
           \/ \E filed \in BOOLEAN : r' = BootSweep(r, filed)
  <2>1. RowOf(g)!StatusWrite
    BY <1>1, <1>4, SameRowStatements DEF RowOf!StatusWrite
  <2> QED BY <2>1 DEF RowOf!Next
<1>5. CASE \/ r' = IncrementImportRetryCount(r)
           \/ \E j \in Jobs : r' = SetJob(r, j)
           \/ \E k \in 0 .. grabs : r' = SetImportPath(r, k)
           \/ \E b \in BOOLEAN : r' = SetBook(r, b)
  <2>1. RowOf(g)!ColumnWrite
    BY <1>5, SameRowStatements DEF RowOf!ColumnWrite
  <2> QED BY <2>1 DEF RowOf!Next
<1>6. CASE r' = CooldownOver(r) \/ r' = GraceOver(r)
  <2>1. RowOf(g)!TimePasses
    BY <1>6, SameRowStatements DEF RowOf!TimePasses
  <2> QED BY <2>1 DEF RowOf!Next
<1> QED BY <1>2, <1>3, <1>4, <1>5, <1>6 DEF Moved

\* One statement by id moves the rows.
LEMMA PutMoves ==
  ASSUME IInv, NEW g \in Guids, NEW id, NEW new, Moved(row[g], new, grabs),
         Put(g, id, new)
  PROVE  RowsMove
<1>1. \A h \in Guids : row'[h] = row[h] \/ (h = g /\ row'[h] = new)
  BY DEF IInv, RowInv, Put
<1>2. \A h \in Guids : Moved(row[h], row[h], grabs)
  BY DEF Moved
<1> QED BY <1>1, <1>2 DEF RowsMove

\* A table that stands still moves too.
LEMMA StandingMoves ==
  ASSUME UNCHANGED row
  PROVE  RowsMove
BY DEF RowsMove, Moved

\* An import's write is a statement: the path it records is of a recorded grab.
LEMMA ImportMoves ==
  ASSUME IInv, NamedInv, Importing
  PROVE  RowsMove
<1>1. PICK t \in Threads : ImportStep(t) \/ MatchStep(t)
  BY DEF Importing, Threads
<1>2. imp[t].guid \in Guids /\ imp[t].grab \in 0 .. grabs
  <2>1. imp[t].guid \in Guids
    BY <1>1 DEF IInv, ImpInv, ImportStep, MatchStep, ImportPending, ImportHandOff,
         ImportNoFiles, ImportTiny, ImportBegin, ImportMatch, ImportReject,
         ImportGuard, ImportPlace, ImportVerdict, ImportFinish, ImportCleanup,
         ImportWalk, MatchAttach, MatchRearm, MatchLock
  <2>2. imp[t].grab \in Nat /\ grabs \in Nat
    BY DEF IInv, ImpInv, ImpRecord, CountInv
  <2> QED BY <2>1, <2>2 DEF NamedInv
<1>3. CASE UNCHANGED row
  BY <1>3, StandingMoves
<1>4. CASE \E new : Moved(ImpRow(t), new, grabs) /\ ImpPut(t, new)
  BY <1>2, <1>4, PutMoves DEF ImpPut, ImpRow
<1>5. CASE \E s \in DownloadState : \/ ImpPut(t, UpdateStatus(ImpRow(t), s))
                                    \/ ImpPut(t, SetErrorWithStatus(ImpRow(t), s))
  BY <1>4, <1>5 DEF Moved
<1>6. CASE \/ ImpPut(t, SetImportPath(ImpRow(t), imp[t].grab))
           \/ ImpPut(t, SetBook(ImpRow(t), TRUE))
           \/ ImpPut(t, ResetImportRetry(ImpRow(t)))
  BY <1>2, <1>4, <1>6 DEF Moved
<1> QED BY <1>1, <1>3, <1>5, <1>6, ImportWrites

\* So is the poller's, whatever its copy of the row says.
LEMMA PollMoves ==
  ASSUME IInv, PollStep
  PROVE  RowsMove
<1>1. CASE PollFirst \/ PollSecond \/ StaleList \/ PollEnd
  BY <1>1, StandingMoves DEF PollFirst, PollSecond, StaleList, PollEnd
<1>2. ASSUME NEW g \in Guids, PollRow(g) \/ StaleBlock(g) \/ StaleFail(g) \/ StalePass(g)
      PROVE  RowsMove
  <2> DEFINE r == row[g]
  <2>1. {"completed", "importBlocked"} \subseteq DownloadState
    BY DEF DownloadState
  <2>2. /\ Moved(r, r, grabs) /\ Moved(r, UpdateStatus(r, "completed"), grabs)
        /\ Moved(r, SetErrorWithStatus(r, "importBlocked"), grabs)
        /\ Moved(r, SetError(r), grabs)
        /\ Moved(r, IncrementImportRetryCount(r), grabs)
        /\ g \in Jobs => Moved(r, SetJob(r, g), grabs)
    BY <2>1 DEF Moved
  <2>3. g \in Jobs \/ ~PollBackfill(g)
    BY BackfilledHash
  <2>4. UNCHANGED row \/ \E new : Moved(r, new, grabs) /\ Put(g, poll.rows[g].id, new)
    BY <1>2, <2>2, <2>3
       DEF PollRow, PollBackfill, PollComplete, PollRetry, PollSkip, PollFailed,
           PollPass, StaleBlock, StaleFail, StalePass
  <2> QED BY <2>4, PutMoves, StandingMoves
<1> QED BY <1>1, <1>2 DEF PollStep

\* So are the writes of the stall checker, the queue's requests, the clock and
\* the boot sweep.
LEMMA OthersMove ==
  ASSUME IInv, StallStep \/ UserStep \/ ClientStep \/ ClockStep \/ Restart
  PROVE  RowsMove
<1>1. row \in [Guids -> Row]
  BY DEF IInv, RowInv
<1>2. \A g \in Guids : /\ Moved(row[g], row[g], grabs)
                       /\ Moved(row[g], NoRow, grabs)
                       /\ Moved(row[g], SetError(row[g]), grabs)
                       /\ Moved(row[g], ResetImportRetry(row[g]), grabs)
                       /\ Moved(row[g], SetBook(row[g], FALSE), grabs)
                       /\ Moved(row[g], CooldownOver(row[g]), grabs)
                       /\ Moved(row[g], GraceOver(row[g]), grabs)
                       /\ Moved(row[g], BootSweep(row[g], copies > 0), grabs)
  <2>1. ASSUME NEW g \in Guids
        PROVE  Moved(row[g], BootSweep(row[g], copies > 0), grabs)
    <3>1. (copies > 0) = TRUE \/ (copies > 0) = FALSE
      BY DEF IInv, CountInv
    <3>2. \E filed \in BOOLEAN :
            BootSweep(row[g], copies > 0) = BootSweep(row[g], filed)
      BY <3>1
    <3> QED BY <3>2 DEF Moved
  <2> QED BY <2>1 DEF Moved
<1>3. CASE StallStep
  <2>1. CASE StallFail
    BY <1>2, <2>1, PutMoves DEF StallFail, IInv, StallInv
  <2> QED BY <1>3, <2>1, StandingMoves DEF StallStep, StallList, StallReport
<1>4. CASE UserStep
  BY <1>1, <1>2, <1>4 DEF UserStep, RetryImport, RemoveItem, MatchRead, DeleteBook,
                          RowsMove
<1>5. CASE ClientStep
  BY <1>5, StandingMoves DEF ClientStep, JobCompletes, JobFails, JobEmptied,
                             JobRefilled, JobVanishes, Becomes
<1>6. CASE ClockStep
  BY <1>1, <1>2, <1>6 DEF ClockStep, CooldownElapses, GraceElapses, RowsMove
<1>7. CASE Restart
  BY <1>2, <1>7 DEF Restart, RowsMove
<1> QED BY <1>3, <1>4, <1>5, <1>6, <1>7

\* A grab's claim, the one step that hands out a number: the row it finds is still
\* the one it decided about, in a state the claim is for, or it takes nothing.
ClaimStep ==
  \E g \in Guids, b \in BOOLEAN :
    /\ grabs' = grabs + 1
    /\ \/ /\ row[g].status = Absent
          /\ row' = [row EXCEPT ![g] = CreatedRow(grabs + 1, grabs + 1, b)]
       \/ /\ \/ RetryFailedTakes(row[g])
             \/ RetryDeadForAutoGrabTakes(row[g])
             \/ RetryImportedTakes(row[g])
          /\ row' = [row EXCEPT ![g] = ClaimedRow(row[g], grabs + 1, b)]

\* A grab claims a row or moves one by a statement.
LEMMA GrabMoves ==
  ASSUME IInv, Grabbing
  PROVE  ClaimStep \/ (RowsMove /\ UNCHANGED grabs)
<1>1. ASSUME NEW p \in Grabbers, NEW g \in Guids, NEW how \in Hows(p), GrabRead(p, g, how)
      PROVE  RowsMove /\ UNCHANGED grabs
  BY <1>1, StandingMoves DEF GrabRead
<1>2. ASSUME NEW p \in Grabbers, GrabSend(p)
      PROVE  RowsMove /\ UNCHANGED grabs
  BY <1>2, StandingMoves DEF GrabSend
<1>3. ASSUME NEW p \in Grabbers, GrabError(p) \/ GrabRecordId(p) \/ GrabDone(p)
      PROVE  RowsMove /\ UNCHANGED grabs
  <2> DEFINE h == grabber[p]
             r == row[h.guid]
  <2>1. h.guid \in Guids /\ JobFor(h.guid, h.grab) \in Jobs
    BY <1>3, LifecycleAssumption DEF IInv, GrabInv, GrabError, GrabRecordId, GrabDone
  <2>2. /\ Moved(r, SetError(r), grabs) /\ Moved(r, UpdateStatus(r, "downloading"), grabs)
        /\ Moved(r, SetJob(r, JobFor(h.guid, h.grab)), grabs)
    BY <2>1 DEF Moved, DownloadState
  <2>3. \E new : Moved(r, new, grabs) /\ Put(h.guid, h.id, new)
    BY <1>3, <2>2 DEF GrabError, GrabRecordId, GrabDone
  <2> QED BY <1>3, <2>1, <2>3, PutMoves DEF GrabError, GrabRecordId, GrabDone
<1>4. ASSUME NEW p \in Grabbers, GrabClaim(p)
      PROVE  ClaimStep \/ (RowsMove /\ UNCHANGED grabs)
  <2> DEFINE h == grabber[p]
             r == row[h.guid]
  <2>1. h.guid \in Guids /\ h.how \in {"create", "dead", "forced", "auto"}
    BY <1>4 DEF IInv, GrabInv, GrabClaim, Hows
  <2>2. CASE r.id = h.id /\ ClaimTakes(h.how, r)
    <3>1. PICK b \in BOOLEAN :
            row' = [row EXCEPT ![h.guid] =
                      IF h.how = "create" THEN CreatedRow(grabs + 1, grabs + 1, b)
                                          ELSE ClaimedRow(r, grabs + 1, b)]
      BY <1>4, <2>2 DEF GrabClaim
    <3>2. grabs' = grabs + 1
      BY <1>4, <2>2 DEF GrabClaim
    <3>3. CASE h.how = "create"
      <4>1. r.status = Absent
        BY <2>2, <3>3 DEF ClaimTakes
      <4> QED BY <2>1, <3>1, <3>2, <3>3, <4>1 DEF ClaimStep
    <3>4. CASE h.how # "create"
      <4>1. \/ RetryFailedTakes(r) \/ RetryDeadForAutoGrabTakes(r)
            \/ RetryImportedTakes(r)
        BY <2>1, <2>2, <3>4 DEF ClaimTakes
      <4> QED BY <2>1, <3>1, <3>2, <3>4, <4>1 DEF ClaimStep
    <3> QED BY <3>3, <3>4
  <2>3. CASE ~(r.id = h.id /\ ClaimTakes(h.how, r))
    BY <1>4, <2>3, StandingMoves DEF GrabClaim
  <2> QED BY <2>2, <2>3
<1> QED BY <1>1, <1>2, <1>3, <1>4 DEF Grabbing, GrabStep

\* A claim is a claim of its own row and the grab of another one to the rest.
LEMMA ClaimRefines ==
  ASSUME IInv, ClaimStep, NEW h \in Guids
  PROVE  RowOf(h)!Next
<1>1. PICK g \in Guids, b \in BOOLEAN :
        /\ grabs' = grabs + 1
        /\ \/ /\ row[g].status = Absent
              /\ row' = [row EXCEPT ![g] = CreatedRow(grabs + 1, grabs + 1, b)]
           \/ /\ \/ RetryFailedTakes(row[g])
                 \/ RetryDeadForAutoGrabTakes(row[g])
                 \/ RetryImportedTakes(row[g])
              /\ row' = [row EXCEPT ![g] = ClaimedRow(row[g], grabs + 1, b)]
  BY DEF ClaimStep
<1>2. row \in [Guids -> Row]
  BY DEF IInv, RowInv
<1>3. CASE h # g
  <2>1. row'[h] = row[h]
    BY <1>1, <1>2, <1>3
  <2> QED BY <1>1, <2>1 DEF RowOf!Next, RowOf!OtherGrab
<1>4. CASE h = g /\ row[h].status = Absent
           /\ row' = [row EXCEPT ![g] = CreatedRow(grabs + 1, grabs + 1, b)]
  <2>1. row[h].status = RowOf(h)!Absent
    BY <1>4 DEF Absent, RowOf!Absent
  <2>2. row'[h] = RowOf(h)!CreatedRow(grabs + 1, grabs + 1, b)
    BY <1>2, <1>4, SameRowStatements
  <2> QED BY <1>1, <2>1, <2>2 DEF RowOf!Next, RowOf!Create
<1>5. CASE /\ h = g
           /\ \/ RetryFailedTakes(row[g]) \/ RetryDeadForAutoGrabTakes(row[g])
              \/ RetryImportedTakes(row[g])
           /\ row' = [row EXCEPT ![g] = ClaimedRow(row[g], grabs + 1, b)]
  <2>1. row'[h] = RowOf(h)!ClaimedRow(row[h], grabs + 1, b)
    BY <1>2, <1>5, SameRowStatements
  <2>2. \/ RowOf(h)!RetryFailedTakes(row[h])
        \/ RowOf(h)!RetryDeadForAutoGrabTakes(row[h])
        \/ RowOf(h)!RetryImportedTakes(row[h])
    BY <1>5 DEF RetryFailedTakes, RetryDeadForAutoGrabTakes, RetryImportedTakes,
       IsOrphanedImport, IsDeadForRegrab, IsDeadForAutoRegrab,
       RowOf!RetryFailedTakes, RowOf!RetryDeadForAutoGrabTakes,
       RowOf!RetryImportedTakes, RowOf!IsOrphanedImport, RowOf!IsDeadForRegrab,
       RowOf!IsDeadForAutoRegrab
  <2> QED BY <1>1, <2>1, <2>2 DEF RowOf!Next, RowOf!Claim
<1> QED BY <1>1, <1>3, <1>4, <1>5

\* A step of anybody is a claim or moves every row by a statement.
LEMMA EveryStepMoves ==
  ASSUME IInv, NamedInv, Next
  PROVE  ClaimStep \/ (RowsMove /\ UNCHANGED grabs)
<1>1. CASE Grabbing
  BY <1>1, GrabMoves
<1>2. CASE PollStep
  BY <1>2, PollMoves DEF PollStep, PollFirst, PollSecond, StaleList, PollEnd, PollRow,
     PollBackfill, PollComplete, PollRetry, PollSkip, PollFailed, PollPass, StaleBlock,
     StaleFail, StalePass
<1>3. CASE Importing
  BY <1>3, ImportMoves
     DEF Importing, ImportStep, MatchStep, ImportPending, ImportHandOff, ImportNoFiles,
         ImportTiny, ImportBegin, ImportMatch, ImportReject, ImportGuard, ImportPlace,
         ImportVerdict, ImportFinish, ImportCleanup, ImportWalk, MatchAttach,
         MatchRearm, MatchLock, ImpUnchanged
<1>4. CASE StallStep \/ UserStep \/ ClientStep \/ ClockStep \/ Restart
  BY <1>4, OthersMove
     DEF StallStep, StallList, StallReport, StallFail, StallUnchanged, UserStep,
         RetryImport, RemoveItem, MatchRead, DeleteBook, ClientStep, JobCompletes,
         JobFails, JobEmptied, JobRefilled, JobVanishes, Becomes, ClockStep,
         CooldownElapses, GraceElapses, Restart
<1> QED BY <1>1, <1>2, <1>3, <1>4 DEF Next

\* A statement names no grab that is not recorded.
LEMMA MovedNumbers ==
  ASSUME NEW r \in Row, NEW n \in Nat, r.grab <= n, r.path <= n, NEW new, Moved(r, new, n)
  PROVE  new.grab <= n /\ new.path <= n
<1>1. ASSUME NEW s
      PROVE  /\ UpdateStatus(r, s).grab = r.grab /\ UpdateStatus(r, s).path = r.path
             /\ SetErrorWithStatus(r, s).grab = r.grab
             /\ SetErrorWithStatus(r, s).path = r.path
  BY DEF UpdateStatus, SetErrorWithStatus, Row
<1>2. /\ SetError(r).grab = r.grab /\ SetError(r).path = r.path
      /\ ResetImportRetry(r).grab = r.grab /\ ResetImportRetry(r).path = r.path
      /\ IncrementImportRetryCount(r).grab = r.grab
      /\ IncrementImportRetryCount(r).path = r.path
  BY DEF SetError, ResetImportRetry, IncrementImportRetryCount, Row
<1>3. ASSUME NEW x
      PROVE  /\ SetJob(r, x).grab = r.grab /\ SetJob(r, x).path = r.path
             /\ SetBook(r, x).grab = r.grab /\ SetBook(r, x).path = r.path
             /\ SetImportPath(r, x).grab = r.grab
             /\ SetImportPath(r, x).path \in {r.path, x}
  BY DEF SetJob, SetBook, SetImportPath, Row
<1>4. ASSUME NEW filed
      PROVE  BootSweep(r, filed).grab = r.grab /\ BootSweep(r, filed).path = r.path
  <2> DEFINE q == RecoverInterrupted(r)
  <2>1. q \in Row /\ q.grab = r.grab /\ q.path = r.path
    BY DEF RecoverInterrupted, Row, DownloadState
  <2> HIDE DEF q
  <2>2. RecoverWedged(q, filed).grab = q.grab /\ RecoverWedged(q, filed).path = q.path
    BY <2>1 DEF RecoverWedged, Row
  <2> QED BY <2>1, <2>2 DEF BootSweep, q
<1>5. /\ CooldownOver(r).grab = r.grab /\ CooldownOver(r).path = r.path
      /\ GraceOver(r).grab = r.grab /\ GraceOver(r).path = r.path
      /\ NoRow.grab = 0 /\ NoRow.path = 0
  BY DEF CooldownOver, GraceOver, NoRow, Row
<1>6. CASE \E k \in 0 .. n : new = SetImportPath(r, k)
  BY <1>3, <1>6
<1>7. CASE ~\E k \in 0 .. n : new = SetImportPath(r, k)
  <2>1. (new.grab = r.grab /\ new.path = r.path) \/ (new.grab = 0 /\ new.path = 0)
    BY <1>1, <1>2, <1>3, <1>4, <1>5, <1>7 DEF Moved
  <2> QED BY <2>1
<1> QED BY <1>6, <1>7

\* The copies the poller takes name no more than the rows do.
LEMMA CopiedNumbers ==
  ASSUME IInv, NamedInv, Next, NEW g \in Guids
  PROVE  poll'.rows[g].grab <= grabs
<1>1. /\ row \in [Guids -> Row] /\ poll.rows \in [Guids -> Row] /\ poll \in PollRecord
      /\ grabs \in Nat /\ NoRow.grab = 0
  BY DEF IInv, RowInv, PollInv, PollRecord, CountInv, NoRow
<1>2. poll'.rows[g].grab \in {poll.rows[g].grab, row[g].grab, NoRow.grab}
  <2>1. CASE UNCHANGED poll
    BY <2>1
  <2>2. CASE PollFirst
    BY <1>1, <2>2 DEF PollFirst, PollReadsRows, PollReadsJobs, PollRecord
  <2>3. CASE PollSecond
    <3>1. PICK found \in SUBSET Guids :
            poll'.rows = [h \in Guids |->
              IF h \in found THEN (IF RowsFirst THEN poll.rows ELSE row)[h] ELSE NoRow]
      BY <2>3 DEF PollSecond
    <3> QED BY <3>1
  <2>4. CASE StaleList
    BY <1>1, <2>4 DEF StaleList, PollRecord
  <2>5. CASE PollEnd \/ Restart
    BY <2>5 DEF PollEnd, Restart, NoPoll, NoRows
  <2>6. ASSUME NEW h \in Guids, poll' = [poll EXCEPT !.rows[h].job = h]
        PROVE  poll'.rows[g].grab = poll.rows[g].grab
    <3>1. poll'.rows = [poll.rows EXCEPT ![h] = [poll.rows[h] EXCEPT !.job = h]]
      BY <1>1, <2>6 DEF PollRecord
    <3> QED BY <1>1, <3>1 DEF Row
  <2>7. ASSUME NEW h \in Guids, poll' = Handled(h)
        PROVE  poll'.rows[g].grab \in {poll.rows[g].grab, NoRow.grab}
    <3>1. poll'.rows = [poll.rows EXCEPT ![h] = NoRow]
      BY <1>1, <2>7 DEF PollRecord, Handled
    <3> QED BY <1>1, <3>1
  <2>8. CASE PollStep
    BY <2>2, <2>3, <2>4, <2>5, <2>6, <2>7, <2>8
       DEF PollStep, PollRow, PollBackfill, PollComplete, PollRetry, PollSkip,
           PollFailed, PollPass, StaleBlock, StaleFail, StalePass
  <2>9. CASE ~PollStep /\ ~Restart
    BY <2>1, <2>9
       DEF Next, Grabbing, GrabRead, GrabStep, GrabClaim, GrabSend, GrabError,
           GrabRecordId, GrabDone, Importing, ImportStep, MatchStep, ImportPending,
           ImportHandOff, ImportNoFiles, ImportTiny, ImportBegin, ImportMatch,
           ImportReject, ImportGuard, ImportPlace, ImportVerdict, ImportFinish,
           ImportCleanup, ImportWalk, MatchAttach, MatchRearm, MatchLock, ImpUnchanged,
           StallStep, StallList, StallReport, StallFail, StallUnchanged, UserStep,
           RetryImport, RemoveItem, MatchRead, DeleteBook, ClientStep, JobCompletes,
           JobFails, JobEmptied, JobRefilled, JobVanishes, Becomes, ClockStep,
           CooldownElapses, GraceElapses
  <2> QED BY <2>5, <2>8, <2>9
<1> QED BY <1>1, <1>2 DEF NamedInv

\* Nor do the imports: they start from a copy of a row or from its path.
LEMMA ImportNumbers ==
  ASSUME IInv, NamedInv, Next, NEW t \in Threads
  PROVE  imp'[t].grab <= grabs
<1>1. imp \in [Threads -> ImpRecord] /\ grabs \in Nat /\ NoImp.grab = 0
  BY DEF IInv, ImpInv, CountInv, NoImp
<1>2. \/ imp'[t].grab \in {imp[t].grab, NoImp.grab}
      \/ \E g \in Guids : imp'[t].grab \in {poll.rows[g].grab, row[g].path}
  <2>1. CASE UNCHANGED imp
    BY <2>1
  <2>2. CASE Restart
    BY <2>2 DEF Restart
  <2>3. CASE Importing
    <3>1. PICK u \in Threads : ImportStep(u) \/ MatchStep(u)
      BY <2>3 DEF Importing, Threads
    <3>2. \/ UNCHANGED imp \/ ImpEnds(u) \/ \E pc : ImpGoes(u, pc)
          \/ \E v : ImpJudged(u, v)
          \/ imp' = [imp EXCEPT ![u].pc = "check", ![u].book = TRUE]
      BY <3>1 DEF ImportStep, MatchStep, ImportPending, ImportHandOff,
         ImportNoFiles, ImportTiny, ImportBegin, ImportMatch, ImportReject,
         ImportGuard, ImportPlace, ImportVerdict, ImportFinish, ImportCleanup,
         ImportWalk, MatchAttach, MatchRearm, MatchLock, ImpJudged
    <3> QED BY <1>1, <3>2 DEF ImpEnds, ImpGoes, ImpJudged, ImpRecord
  <2>4. CASE PollStep
    <3>1. UNCHANGED imp \/ \E g \in Guids : \E pc, v : PollImport(g, pc, v)
      BY <2>4 DEF PollStep, PollFirst, PollSecond, StaleList, PollEnd, PollRow,
         PollBackfill, PollComplete, PollRetry, PollSkip, PollFailed, PollPass,
         StaleBlock, StaleFail, StalePass
    <3> QED BY <1>1, <3>1 DEF PollImport
  <2>5. CASE UserStep
    <3>1. ASSUME NEW g \in Guids, NEW u \in Matchers, MatchRead(g, u)
          PROVE  imp'[t].grab \in {imp[t].grab, row[g].path}
      BY <1>1, <3>1 DEF MatchRead
    <3>2. CASE DeleteBook
      BY <1>1, <3>2 DEF DeleteBook, ImpRecord
    <3> QED BY <2>1, <2>5, <3>1, <3>2 DEF UserStep, RetryImport, RemoveItem
  <2>6. CASE Grabbing \/ StallStep \/ ClientStep \/ ClockStep
    BY <2>1, <2>6
       DEF Grabbing, GrabRead, GrabStep, GrabClaim, GrabSend, GrabError, GrabRecordId,
           GrabDone, StallStep, StallList, StallReport, StallFail, StallUnchanged,
           ClientStep, JobCompletes, JobFails, JobEmptied, JobRefilled, JobVanishes,
           Becomes, ClockStep, CooldownElapses, GraceElapses
  <2> QED BY <2>2, <2>3, <2>4, <2>5, <2>6 DEF Next
<1> QED BY <1>1, <1>2 DEF NamedInv

\* Numbers are handed out in order, so what is named stays recorded.
LEMMA NumbersKept ==
  ASSUME IInv, IInv', NamedInv, Next
  PROVE  NamedInv'
<1>1. /\ row \in [Guids -> Row] /\ grabs \in Nat
      /\ row' \in [Guids -> Row] /\ poll'.rows \in [Guids -> Row]
      /\ imp' \in [Threads -> ImpRecord]
  BY DEF IInv, RowInv, CountInv, PollInv, PollRecord, ImpInv
<1>2. grabs' \in Nat /\ grabs <= grabs'
  BY <1>1, EveryStepMoves DEF ClaimStep
<1>3. \A g \in Guids : row'[g].grab <= grabs' /\ row'[g].path <= grabs'
  <2>1. CASE RowsMove /\ UNCHANGED grabs
    BY <1>1, <2>1, MovedNumbers DEF RowsMove, NamedInv
  <2>2. CASE ClaimStep
    <3>1. PICK g \in Guids, b \in BOOLEAN :
            \E n : row' = [row EXCEPT ![g] = CreatedRow(n, grabs', b)]
      BY <2>2 DEF ClaimStep, ClaimedRow
    <3>2. \A n : /\ CreatedRow(n, grabs', b).grab = grabs'
                 /\ CreatedRow(n, grabs', b).path = 0
      BY DEF CreatedRow, NoRow
    <3>3. \A h \in Guids : row[h].grab <= grabs' /\ row[h].path <= grabs'
      <4>1. \A h \in Guids : row[h].grab \in Nat /\ row[h].path \in Nat
        BY <1>1 DEF Row
      <4> QED BY <1>1, <1>2, <4>1 DEF NamedInv
    <3> QED BY <1>1, <1>2, <3>1, <3>2, <3>3
  <2> QED BY <2>1, <2>2, EveryStepMoves
<1>4. \A g \in Guids : poll'.rows[g].grab <= grabs'
  <2>1. \A g \in Guids : poll'.rows[g].grab \in Nat
    BY <1>1 DEF Row
  <2> QED BY <1>1, <1>2, <2>1, CopiedNumbers
<1>5. \A t \in Threads : imp'[t].grab <= grabs'
  <2>1. \A t \in Threads : imp'[t].grab \in Nat
    BY <1>1 DEF ImpRecord
  <2> QED BY <1>1, <1>2, <2>1, ImportNumbers
<1> QED BY <1>3, <1>4, <1>5 DEF NamedInv

\* Grabs, polls, imports, Match to book, the stall checker, the queue's requests,
\* the clock and restarts, all working from copies they read earlier, together
\* implement the row the repository promises: each of their steps is one statement
\* on each row, a claim or nothing.  With CasRefinesRow the rows of the composed
\* system move as the repository's read, validate, write sequences make them.
THEOREM LifecycleRefinesRow == Spec => RowsImplementDownloadRow
<1>1. Init => NamedInv
  BY DEF Init, NamedInv, NoRows, NoRow, NoPoll, NoImp
<1>2. IInv /\ IInv' /\ NamedInv /\ [Next]_vars => NamedInv'
  <2> SUFFICES ASSUME IInv, IInv', NamedInv, [Next]_vars PROVE NamedInv'
    OBVIOUS
  <2>1. CASE UNCHANGED vars
    BY <2>1 DEF vars, NamedInv
  <2> QED BY <2>1, NumbersKept
<1>3. Init => \A g \in Guids : RowOf(g)!Init
  <2> SUFFICES ASSUME Init, NEW g \in Guids PROVE RowOf(g)!Init
    OBVIOUS
  <2> QED BY SameRowStatements DEF Init, NoRows, RowOf!Init
<1>4. IInv /\ NamedInv /\ [Next]_vars =>
        [\A g \in Guids : [RowOf(g)!Next]_<<row[g], grabs>>]_vars
  <2> SUFFICES ASSUME IInv, NamedInv, Next, NEW g \in Guids
               PROVE  [RowOf(g)!Next]_<<row[g], grabs>>
    OBVIOUS
  <2>1. CASE ClaimStep
    BY <2>1, ClaimRefines
  <2>2. CASE RowsMove /\ UNCHANGED grabs
    BY <2>2, MovedRefines DEF RowsMove
  <2> QED BY <2>1, <2>2, EveryStepMoves
<1> QED BY <1>1, <1>2, <1>3, <1>4, LifecycleInvariant, PTL
        DEF Spec, RowsImplementDownloadRow

=============================================================================
