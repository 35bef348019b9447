---------------------------- MODULE DownloadGrab ----------------------------
(***************************************************************************)
(* A grab, by a person (QueueHandler.grab) or by the scheduler (the grab   *)
(* half of searchAndGrabFormat): look the release up by GUID, record it in a*)
(* new row or by claiming the row of a finished attempt, send it to the    *)
(* client, record the client's id, mark the row downloading.               *)
(***************************************************************************)
EXTENDS DownloadSystem

\* The row lookup and the gate that decides how the GUID's row is taken.  A
\* person's grab of another user's row goes by the scheduler's rule ("auto").
GrabRead(p, g, how) ==
  /\ grabber[p].pc = "idle" /\ grabs < MaxGrabs
  /\ CASE how = "create" -> row[g].status = Absent
       [] how = "dead"   -> p \in Manual /\ RetryFailedTakes(row[g])
       [] how = "forced" -> p \in Manual /\ RetryImportedTakes(row[g])
                                         /\ ~RetryFailedTakes(row[g])
       [] how = "auto"   -> RetryDeadForAutoGrabTakes(row[g])
  /\ grabber' = [grabber EXCEPT ![p] = [pc |-> "claim", guid |-> g, how |-> how,
                                        id |-> row[g].id, grab |-> 0]]
  /\ UNCHANGED <<row, grabs, job, copies, poll, imp, stall, skips, asks, crashes>>

\* Mutant: the scheduler's claim leaves the cooldown to the check before it.
ClaimTakesAnyFailed(how, r) ==
  CASE how = "create" -> r.status = Absent
    [] how = "dead"   -> RetryFailedTakes(r)
    [] how = "forced" -> RetryImportedTakes(r)
    [] how = "auto"   -> IsDeadForAutoRegrab(r.status) \/ IsOrphanedImport(r)

\* Mutant: the claiming statement is guarded by the row's id alone.
ClaimTakesById(how, r) == TRUE

\* The condition the claiming statement itself re-checks.
ClaimTakes(how, r) ==
  CASE how = "create" -> r.status = Absent
    [] how = "dead"   -> RetryFailedTakes(r)
    [] how = "forced" -> RetryImportedTakes(r)
    [] how = "auto"   -> RetryDeadForAutoGrabTakes(r)

GrabClaim(p) ==
  LET h == grabber[p]
      r == row[h.guid]
  IN /\ h.pc = "claim"
     /\ IF r.id = h.id /\ ClaimTakes(h.how, r)
          THEN /\ grabs < MaxGrabs
               /\ grabs' = grabs + 1
               /\ \E b \in BOOLEAN :
                    row' = [row EXCEPT ![h.guid] =
                              IF h.how = "create"
                                THEN CreatedRow(grabs + 1, grabs + 1, b)
                                ELSE ClaimedRow(r, grabs + 1, b)]
               /\ grabber' = [grabber EXCEPT ![p] =
                    [h EXCEPT !.pc = "send", !.grab = grabs + 1,
                              !.id = IF h.how = "create" THEN grabs + 1 ELSE h.id]]
          ELSE /\ grabber' = [grabber EXCEPT ![p] = NoGrab]
               /\ UNCHANGED <<row, grabs>>
     /\ UNCHANGED <<job, copies, poll, imp, stall, skips, asks, crashes>>

\* SendDownload.  A torrent the client already holds is adopted as it stands.
\* The answer may name the job although the client drops the add, and
\* qBittorrent may accept it without Bindery learning the hash.
GrabSend(p) ==
  LET h == grabber[p]
      j == JobFor(h.guid, h.grab)
  IN /\ h.pc = "send"
     /\ \/ job' = [job EXCEPT ![j] = IF @ = "none" THEN "running" ELSE @]
        \/ UNCHANGED job
     /\ \E next \in {"record", "error"}
             \cup (IF ClientKind = "qbittorrent" THEN {"update"} ELSE {}) :
          grabber' = [grabber EXCEPT ![p].pc = next]
     /\ UNCHANGED <<row, grabs, copies, poll, imp, stall, skips, asks, crashes>>

\* The send failed: SetError on the row this grab holds.
GrabError(p) ==
  LET h == grabber[p] IN
  /\ h.pc = "error"
  /\ Put(h.guid, h.id, SetError(row[h.guid]))
  /\ grabber' = [grabber EXCEPT ![p] = NoGrab]
  /\ UNCHANGED <<grabs, job, copies, poll, imp, stall, skips, asks, crashes>>

GrabRecordId(p) ==
  LET h == grabber[p] IN
  /\ h.pc = "record"
  /\ Put(h.guid, h.id, SetJob(row[h.guid], JobFor(h.guid, h.grab)))
  /\ grabber' = [grabber EXCEPT ![p].pc = "update"]
  /\ UNCHANGED <<grabs, job, copies, poll, imp, stall, skips, asks, crashes>>

GrabDone(p) ==
  LET h == grabber[p] IN
  /\ h.pc = "update"
  /\ Put(h.guid, h.id, UpdateStatus(row[h.guid], "downloading"))
  /\ grabber' = [grabber EXCEPT ![p] = NoGrab]
  /\ UNCHANGED <<grabs, job, copies, poll, imp, stall, skips, asks, crashes>>

GrabStep(p) == GrabClaim(p) \/ GrabSend(p) \/ GrabError(p) \/ GrabRecordId(p)
               \/ GrabDone(p)

=============================================================================
