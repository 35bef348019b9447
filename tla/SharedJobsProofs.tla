-------------------------- MODULE SharedJobsProofs ---------------------------
(***************************************************************************)
(* The rows that share a client job, for any set of rows: the job is not   *)
(* removed from under a row that uses it, and it is not left behind.  What *)
(* carries both is which rows a removal has seen when it decides: every    *)
(* user there is then, and afterwards only those counted in joined.  Then  *)
(* the sweep that must not send a second release of a format on its way.   *)
(***************************************************************************)
EXTENDS SharedJobs, WantedSearch, TLAPS

\* A removal that was decided has no user left to hurt.
DecidedInv ==
  \A p \in Paths, r \in JobRows :
    pass[p][r] = "remove" => \A o \in JobRows \ ({r} \cup joined) : ~StillUses(o)

\* A row that wants the job, or is about to name it.
Wanted == \E r \in JobRows : use[r] = "sent" \/ StillUses(r)

\* A path that has still to look, or to remove.
Looking == \E p \in Paths, r \in JobRows : pass[p][r] \in {"check", "remove"}

\* A job that stays without a reason is wanted, or somebody is about to look.
ReasonInv == held /\ leftWith = "nothing" => Wanted \/ Looking

JobsInv == JobsTypeOK /\ DecidedInv /\ ReasonInv

LEMMA JobsInitInv == JobsInit => JobsInv
<1> SUFFICES ASSUME JobsInit PROVE JobsInv
  OBVIOUS
<1>1. JobsTypeOK
  <2>1. "none" \in UseStates /\ "idle" \in PassSteps /\ "nothing" \in Reasons
    BY DEF UseStates, PassSteps, Reasons
  <2> QED BY <2>1 DEF JobsInit, JobsTypeOK
<1>2. DecidedInv /\ ReasonInv
  BY DEF JobsInit, DecidedInv, ReasonInv
<1> QED BY <1>1, <1>2 DEF JobsInv

-----------------------------------------------------------------------------

\* Every step keeps the types.
LEMMA JobsTypeStep ==
  ASSUME JobsTypeOK, [JobsNext]_jobVars PROVE JobsTypeOK'
<1> USE DEF JobsTypeOK
<1>1. ASSUME NEW r \in JobRows, \/ JobSend(r) \/ JobSendFails(r) \/ JobRecord(r)
                                \/ JobFails(r) \/ QueueForget(r)
      PROVE  JobsTypeOK'
  BY <1>1 DEF JobSend, JobSendFails, JobRecord, JobFails, QueueForget, UseStates, Reasons
<1>2. ASSUME NEW r \in JobRows, JobImport(r) \/ JobImported(r) \/ JobImportFails(r)
      PROVE  JobsTypeOK'
  BY <1>2 DEF JobImport, JobImported, JobImportFails, Step, UseStates, PassSteps, Paths
<1>3. ASSUME NEW r \in JobRows, \/ QueueRead(r) \/ QueueDelete(r)
                                \/ StallFound(r) \/ StallMark(r)
      PROVE  JobsTypeOK'
  <2>1. leftWith' \in Reasons
    BY <1>3 DEF QueueRead, QueueDelete, StallFound, StallMark, Reasons
  <2>2. use' \in [JobRows -> UseStates]
    BY <1>3 DEF QueueRead, QueueDelete, StallFound, StallMark, UseStates
  <2>3. pass' \in [Paths -> [JobRows -> PassSteps]]
    BY <1>3 DEF QueueRead, QueueDelete, StallFound, StallMark, Step, PassSteps
  <2> QED BY <1>3, <2>1, <2>2, <2>3 DEF QueueRead, QueueDelete, StallFound, StallMark
<1>4. ASSUME NEW rows \in SUBSET JobRows, JobTrim(rows) PROVE JobsTypeOK'
  BY <1>4 DEF JobTrim, UseStates, Reasons
<1>5. ASSUME NEW p \in Paths, NEW r \in JobRows,
             JobIsFree(p, r) \/ JobIsShared(p, r) \/ JobRemove(p, r)
      PROVE  JobsTypeOK'
  <2>1. leftWith' \in Reasons
    BY <1>5 DEF JobIsFree, JobIsShared, JobRemove, Reasons
  <2>2. "remove" \in PassSteps /\ AfterClient(p) \in PassSteps
    BY DEF AfterClient, PassSteps
  <2>3. pass' \in [Paths -> [JobRows -> PassSteps]]
    BY <1>5, <2>2 DEF JobIsFree, JobIsShared, JobRemove, Step
  <2>4. joined' \subseteq JobRows /\ held' \in BOOLEAN
    BY <1>5 DEF JobIsFree, JobIsShared, JobRemove
  <2> QED BY <1>5, <2>1, <2>3, <2>4 DEF JobIsFree, JobIsShared, JobRemove
<1>6. CASE UNCHANGED jobVars
  BY <1>6 DEF jobVars
<1> QED BY <1>1, <1>2, <1>3, <1>4, <1>5, <1>6 DEF JobsNext

-----------------------------------------------------------------------------
(* What a removal has decided stays true. *)

\* A step after which no new row uses the job, with no removal newly decided
\* and none of the joined rows forgotten.
LEMMA DecidedKept ==
  ASSUME DecidedInv, joined' = joined,
         \A o \in JobRows : StillUses(o)' => StillUses(o),
         \A p \in Paths, r \in JobRows : pass'[p][r] = "remove" => pass[p][r] = "remove"
  PROVE  DecidedInv'
BY DEF DecidedInv

LEMMA DecidedStep ==
  ASSUME JobsTypeOK, DecidedInv, [JobsNext]_jobVars PROVE DecidedInv'
<1> USE DEF JobsTypeOK
<1>1. ASSUME NEW r \in JobRows, JobSend(r) \/ JobSendFails(r) \/ JobFails(r) \/ QueueForget(r)
      PROVE  DecidedInv'
  <2>1. \A o \in JobRows : StillUses(o)' => StillUses(o)
    BY <1>1 DEF JobSend, JobSendFails, JobFails, QueueForget, StillUses, Names
  <2> QED BY <1>1, <2>1, DecidedKept DEF JobSend, JobSendFails, JobFails, QueueForget
<1>2. ASSUME NEW r \in JobRows, JobRecord(r) PROVE DecidedInv'
  <2>1. \A o \in JobRows \ {r} : StillUses(o)' = StillUses(o)
    BY <1>2 DEF JobRecord, StillUses, Names
  <2>2. Removing => joined' = joined \cup {r}
    BY <1>2 DEF JobRecord
  <2>3. pass' = pass
    BY <1>2 DEF JobRecord
  <2> QED BY <2>1, <2>2, <2>3 DEF DecidedInv, Removing
<1>3. ASSUME NEW r \in JobRows, JobImport(r) \/ JobImported(r) \/ JobImportFails(r)
      PROVE  DecidedInv'
  <2>1. \A o \in JobRows : StillUses(o)' => StillUses(o)
    BY <1>3 DEF JobImport, JobImported, JobImportFails, StillUses, Names
  <2>2. \A p \in Paths, o \in JobRows : pass'[p][o] = "remove" => pass[p][o] = "remove"
    BY <1>3 DEF JobImport, JobImported, JobImportFails, Step, Paths
  <2> QED BY <1>3, <2>1, <2>2, DecidedKept DEF JobImport, JobImported, JobImportFails
<1>4. ASSUME NEW r \in JobRows, \/ QueueRead(r) \/ QueueDelete(r)
                                \/ StallFound(r) \/ StallMark(r)
      PROVE  DecidedInv'
  <2>1. \A o \in JobRows : StillUses(o)' => StillUses(o)
    <3>1. CASE QueueRead(r) \/ QueueDelete(r)
      BY <3>1 DEF QueueRead, QueueDelete, StillUses, Names
    <3>2. CASE StallFound(r)
      BY <3>2 DEF StallFound, StillUses, Names
    <3>3. CASE StallMark(r)
      BY <3>3 DEF StallMark, StillUses, Names
    <3> QED BY <1>4, <3>1, <3>2, <3>3
  <2>2. \A p \in Paths, o \in JobRows : pass'[p][o] = "remove" => pass[p][o] = "remove"
    BY <1>4 DEF QueueRead, QueueDelete, StallFound, StallMark, Step, Paths
  <2> QED BY <1>4, <2>1, <2>2, DecidedKept DEF QueueRead, QueueDelete, StallFound, StallMark
<1>5. ASSUME NEW rows \in SUBSET JobRows, JobTrim(rows) PROVE DecidedInv'
  <2>1. \A o \in JobRows : StillUses(o)' => StillUses(o)
    BY <1>5 DEF JobTrim, StillUses, Names
  <2> QED BY <1>5, <2>1, DecidedKept DEF JobTrim
<1>6. ASSUME NEW p \in Paths, NEW r \in JobRows, JobIsFree(p, r) PROVE DecidedInv'
  <2>1. \A o \in JobRows : StillUses(o)' = StillUses(o)
    BY <1>6 DEF JobIsFree, StillUses, Names
  <2>2. \A o \in JobRows \ {r} : ~StillUses(o)
    BY <1>6 DEF JobIsFree, Shared
  <2>3. \A q \in Paths, o \in JobRows :
          q # p \/ o # r => pass'[q][o] = pass[q][o]
    BY <1>6 DEF JobIsFree, Step
  <2>4. joined' = joined
    BY <1>6 DEF JobIsFree
  <2> QED BY <2>1, <2>2, <2>3, <2>4 DEF DecidedInv
<1>7. ASSUME NEW p \in Paths, NEW r \in JobRows, JobIsShared(p, r) \/ JobRemove(p, r)
      PROVE  DecidedInv'
  <2>1. \A o \in JobRows : StillUses(o)' = StillUses(o)
    BY <1>7 DEF JobIsShared, JobRemove, StillUses, Names
  <2>2. \A q \in Paths, o \in JobRows : pass'[q][o] = "remove" => pass[q][o] = "remove"
    BY <1>7 DEF JobIsShared, JobRemove, Step, AfterClient
  <2>3. CASE joined' = joined
    BY <2>1, <2>2, <2>3, DecidedKept
  <2>4. CASE ~Removing'
    BY <2>4 DEF DecidedInv, Removing
  <2> QED BY <1>7, <2>3, <2>4 DEF JobIsShared, JobRemove
<1>8. CASE UNCHANGED jobVars
  BY <1>8 DEF jobVars, DecidedInv, StillUses, Names
<1> QED BY <1>1, <1>2, <1>3, <1>4, <1>5, <1>6, <1>7, <1>8 DEF JobsNext

-----------------------------------------------------------------------------
(* A job is not forgotten. *)

\* Nobody stops wanting the job, and no path stops looking.
LEMMA ReasonKept ==
  ASSUME ReasonInv, held' => held, leftWith' = "nothing" => leftWith = "nothing",
         Wanted => Wanted', Looking => Looking'
  PROVE  ReasonInv'
BY DEF ReasonInv

LEMMA ReasonStep ==
  ASSUME JobsTypeOK, ReasonInv, [JobsNext]_jobVars PROVE ReasonInv'
<1> USE DEF JobsTypeOK
<1>1. ASSUME NEW r \in JobRows, JobSend(r) PROVE ReasonInv'
  BY <1>1 DEF JobSend, ReasonInv, Wanted
<1>2. ASSUME NEW r \in JobRows, JobRecord(r) PROVE ReasonInv'
  BY <1>2 DEF JobRecord, ReasonInv, Wanted, StillUses, Names
<1>3. ASSUME NEW r \in JobRows, JobImport(r) PROVE ReasonInv'
  BY <1>3 DEF JobImport, ReasonInv, Wanted, StillUses, Names
<1>4. ASSUME NEW r \in JobRows, JobImported(r) PROVE ReasonInv'
  <2>1. CASE removeOnImport
    <3>1. pass'["import"][r] = "check"
      BY <1>4, <2>1 DEF JobImported, Step, Paths
    <3> QED BY <3>1 DEF ReasonInv, Looking, Paths
  <2>2. CASE ~removeOnImport
    <3>1. Wanted => Wanted'
      BY <1>4, <2>2 DEF JobImported, Wanted, StillUses, Names
    <3>2. Looking => Looking'
      BY <1>4, <2>2 DEF JobImported, Step, Looking, Paths
    <3> QED BY <1>4, <3>1, <3>2, ReasonKept DEF JobImported
  <2> QED BY <2>1, <2>2
<1>5. ASSUME NEW r \in JobRows, JobImportFails(r) PROVE ReasonInv'
  <2>1. Wanted => Wanted'
    BY <1>5 DEF JobImportFails, Wanted, StillUses, Names
  <2>2. Looking => Looking'
    BY <1>5 DEF JobImportFails, Step, Looking, Paths
  <2> QED BY <1>5, <2>1, <2>2, ReasonKept DEF JobImportFails
<1>6. ASSUME NEW r \in JobRows, JobFails(r) \/ QueueForget(r) PROVE ReasonInv'
  BY <1>6 DEF JobFails, QueueForget, ReasonInv
<1>7. ASSUME NEW rows \in SUBSET JobRows, JobTrim(rows) PROVE ReasonInv'
  BY <1>7 DEF JobTrim, ReasonInv
<1>8. ASSUME NEW r \in JobRows, QueueDelete(r) PROVE ReasonInv'
  <2>1. CASE Step("queue", r, "work", "check")
    <3>1. pass'["queue"][r] = "check"
      BY <2>1 DEF Step, Paths
    <3> QED BY <3>1 DEF ReasonInv, Looking, Paths
  <2>2. CASE leftWith' = "other"
    BY <2>2 DEF ReasonInv
  <2> QED BY <1>8, <2>1, <2>2 DEF QueueDelete
<1>9. ASSUME NEW r \in JobRows, StallFound(r) PROVE ReasonInv'
  <2>1. pass'["stall"][r] = "check"
    BY <1>9 DEF StallFound, Step, Paths
  <2> QED BY <2>1 DEF ReasonInv, Looking, Paths
<1>10. ASSUME NEW r \in JobRows, StallMark(r) PROVE ReasonInv'
  <2>1. CASE use[r] = "sent" \/ StillUses(r)
    BY <1>10, <2>1 DEF StallMark, ReasonInv
  <2>2. CASE ~(use[r] = "sent" \/ StillUses(r))
    <3>1. Wanted => Wanted'
      BY <1>10, <2>2 DEF StallMark, Wanted, StillUses, Names
    <3>2. Looking => Looking'
      BY <1>10 DEF StallMark, Step, Looking, Paths
    <3> QED BY <1>10, <2>2, <3>1, <3>2, ReasonKept DEF StallMark
  <2> QED BY <2>1, <2>2
<1>11. ASSUME NEW p \in Paths, NEW r \in JobRows, JobIsFree(p, r) PROVE ReasonInv'
  <2>1. pass'[p][r] = "remove"
    BY <1>11 DEF JobIsFree, Step
  <2> QED BY <2>1 DEF ReasonInv, Looking
<1>12. ASSUME NEW p \in Paths, NEW r \in JobRows, JobIsShared(p, r) PROVE ReasonInv'
  <2>1. CASE Shared(r)
    <3>1. Wanted'
      BY <1>12, <2>1 DEF JobIsShared, Shared, Wanted, StillUses, Names
    <3> QED BY <3>1 DEF ReasonInv
  <2>2. CASE ~Shared(r)
    BY <1>12, <2>2 DEF JobIsShared, ReasonInv
  <2> QED BY <2>1, <2>2
<1>13. ASSUME NEW p \in Paths, NEW r \in JobRows, JobRemove(p, r) PROVE ReasonInv'
  BY <1>13 DEF JobRemove, ReasonInv
<1>14. ASSUME NEW r \in JobRows, JobSendFails(r) PROVE ReasonInv'
  <2>1. CASE StillUses(r)
    BY <1>14, <2>1 DEF JobSendFails, ReasonInv
  <2>2. CASE ~StillUses(r)
    <3>1. Wanted => Wanted'
      BY <1>14, <2>2 DEF JobSendFails, Wanted, StillUses, Names
    <3>2. Looking => Looking'
      BY <1>14 DEF JobSendFails, Looking
    <3> QED BY <1>14, <2>2, <3>1, <3>2, ReasonKept DEF JobSendFails
  <2> QED BY <2>1, <2>2
<1>15. ASSUME NEW r \in JobRows, QueueRead(r) PROVE ReasonInv'
  <2>1. Wanted => Wanted'
    BY <1>15 DEF QueueRead, Wanted, StillUses, Names
  <2>2. Looking => Looking'
    BY <1>15 DEF QueueRead, Step, Looking, Paths
  <2> QED BY <1>15, <2>1, <2>2, ReasonKept DEF QueueRead
<1>16. CASE UNCHANGED jobVars
  BY <1>16 DEF jobVars, ReasonInv, Wanted, Looking, StillUses, Names
<1> QED BY <1>1, <1>2, <1>3, <1>4, <1>5, <1>6, <1>7, <1>8, <1>9, <1>10, <1>11, <1>12, <1>13,
           <1>14, <1>15, <1>16 DEF JobsNext

-----------------------------------------------------------------------------

\* The inductive invariant of the shared jobs.
THEOREM JobsInvariant == JobsSpec => []JobsInv
<1>1. JobsInv /\ [JobsNext]_jobVars => JobsInv'
  BY JobsTypeStep, DecidedStep, ReasonStep DEF JobsInv
<1> QED BY <1>1, JobsInitInv, PTL DEF JobsSpec

\* removeQueueItem deletes its row before it asks, an import marks its row before it
\* asks: whichever of any number of rows asks last removes the job, so that none is left
\* in the client unless a user, a failure, an unrecorded id, a trim or the stall check
\* left it there.
THEOREM JobsNotLeftBehind == JobsSpec => []NothingLeftBehind
<1>1. JobsInv => NothingLeftBehind
  BY DEF JobsInv, ReasonInv, NothingLeftBehind, JobsQuiet, Unwanted, Wanted, Looking
<1> QED BY <1>1, JobsInvariant, PTL

\* ClientJobShared before RemoveDownload: for any number of rows and removals under way,
\* the job is taken only from rows that started to use it after the question was asked.
THEOREM JobsOfOthersSpared == JobsSpec => RemovalSparesUsers
<1>1. JobsInv /\ [JobsNext]_jobVars =>
        [held /\ ~held' =>
           \E p \in Paths, r \in JobRows :
             /\ pass[p][r] = "remove"
             /\ \A o \in JobRows \ ({r} \cup joined) : ~StillUses(o)]_jobVars
  <2> SUFFICES ASSUME JobsInv, JobsNext, held, ~held'
               PROVE  \E p \in Paths, r \in JobRows :
                        /\ pass[p][r] = "remove"
                        /\ \A o \in JobRows \ ({r} \cup joined) : ~StillUses(o)
    BY DEF jobVars
  <2>1. PICK p \in Paths, r \in JobRows : JobRemove(p, r)
    BY DEF JobsNext, JobSend, JobSendFails, JobRecord, JobImport, JobImported, JobImportFails, JobFails,
       QueueRead, QueueDelete, QueueForget, StallFound, StallMark, JobTrim, JobIsFree, JobIsShared
  <2>2. pass[p][r] = "remove"
    BY <2>1 DEF JobRemove, Step
  <2> QED BY <2>2 DEF JobsInv, DecidedInv
<1> QED BY <1>1, JobsInvariant, PTL DEF JobsSpec, RemovalSparesUsers

-----------------------------------------------------------------------------
(* The wanted sweep and the releases in flight. *)

SearchRecords ==
  [pc : {"idle", "gate", "search", "grab"}, todo : SUBSET SearchFormats,
   format : SearchFormats \cup {"none"}, pick : Releases \cup {"none"},
   seen : {"none", "failed", "blocked"}, barred : SUBSET Releases, monitored : BOOLEAN,
   byHand : BOOLEAN]

\* The formats the sweep may still grab for.
Ahead(q) ==
  CASE q.pc = "idle" -> {}
    [] q.pc = "grab" -> q.todo \cup {q.format}
    [] OTHER         -> q.todo

\* What flies and is read as of such a format, or of none, took off after the queue was
\* built.
AheadInv ==
  \A t \in Ahead(search["sweep"]), o \in Releases :
    grabRow[o] \in {"flying", "handed"} /\ DownloadMediaType(o) \in {t, ""} => o \in since

PickInv ==
  search["sweep"].pc = "grab" =>
    /\ search["sweep"].pick \in Releases
    /\ FormatOf[search["sweep"].pick] = search["sweep"].format

SearchTypes ==
  /\ grabRow \in [Releases -> RowKinds] /\ search \in [Searchers -> SearchRecords]
  /\ barred \subseteq Releases /\ monitored \in BOOLEAN /\ listed \subseteq Releases
  /\ parked \subseteq Releases

SweepInv == SearchTypes /\ PickInv /\ AheadInv

LEMMA SweepInitInv == SearchInit => SweepInv
<1> SUFFICES ASSUME SearchInit PROVE SweepInv
  OBVIOUS
<1>1. grabRow \in [Releases -> RowKinds]
  BY DEF SearchInit, RowKinds
<1>2. search["sweep"].pc = "idle"
  BY DEF SearchInit, Searchers, NoSearch
<1>3. search \in [Searchers -> SearchRecords]
  BY DEF SearchInit, SearchRecords, NoSearch
<1> QED BY <1>1, <1>2, <1>3 DEF SweepInv, SearchTypes, PickInv, AheadInv, Ahead, SearchInit

\* The sweep looks ahead to no more than it did, and what takes off is noted.
LEMMA AheadKept ==
  ASSUME SweepInv, Ahead(search'["sweep"]) \subseteq Ahead(search["sweep"]),
         since \subseteq since',
         \A o \in Releases : grabRow'[o] \in {"flying", "handed"} =>
                               grabRow[o] \in {"flying", "handed"} \/ o \in since'
  PROVE  AheadInv'
<1>1. Ahead(search["sweep"])' = Ahead(search'["sweep"])
  BY DEF Ahead
<1> QED BY <1>1 DEF SweepInv, AheadInv

\* A row that changes outside the searches.
LEMMA RowStep ==
  ASSUME SweepInv, search' = search, since \subseteq since',
         grabRow' \in [Releases -> RowKinds],
         barred' \subseteq Releases, monitored' \in BOOLEAN, listed' \subseteq Releases,
         parked' \subseteq Releases,
         \A o \in Releases : grabRow'[o] \in {"flying", "handed"} =>
                               grabRow[o] \in {"flying", "handed"} \/ o \in since'
  PROVE  SweepInv'
<1>1. AheadInv'
  BY AheadKept
<1> QED BY <1>1 DEF SweepInv, SearchTypes, PickInv

\* A searcher moves on; if it is the sweep, to no format it had not ahead of it.
LEMMA SearcherStep ==
  ASSUME SweepInv, NEW s \in Searchers, NEW q \in SearchRecords, search'[s] = q,
         search' \in [Searchers -> SearchRecords],
         \A v \in Searchers \ {s} : search'[v] = search[v],
         Ahead(q) \subseteq Ahead(search[s]),
         q.pc = "grab" => q.pick \in Releases /\ FormatOf[q.pick] = q.format,
         since \subseteq since', grabRow' \in [Releases -> RowKinds],
         UNCHANGED <<barred, monitored, listed>>, parked' \subseteq Releases,
         \A o \in Releases : grabRow'[o] \in {"flying", "handed"} =>
                               grabRow[o] \in {"flying", "handed"} \/ o \in since'
  PROVE  SweepInv'
<1>1. search'["sweep"] = IF s = "sweep" THEN q ELSE search["sweep"]
  BY DEF SweepInv, SearchTypes, Searchers
<1>2. AheadInv'
  BY <1>1, AheadKept
<1>3. PickInv'
  BY <1>1 DEF SweepInv, PickInv
<1> QED BY <1>2, <1>3 DEF SweepInv, SearchTypes

\* The queue is of formats nothing flies for.
LEMMA QueueStep == ASSUME SweepInv, SweepQueue PROVE SweepInv'
<1> DEFINE q == [NoSearch EXCEPT !.pc = "gate", !.todo = {t \in Needed : ~InFlight(t)},
                                 !.barred = barred, !.monitored = monitored]
<1>1. /\ search' = [search EXCEPT !["sweep"] = q] /\ grabRow' = grabRow /\ since' = {}
      /\ UNCHANGED <<barred, monitored, listed, parked>>
  BY DEF SweepQueue, World
<1>2. q \in SearchRecords /\ q.pc = "gate" /\ q.todo = {t \in Needed : ~InFlight(t)}
  BY DEF SweepInv, SearchTypes, SearchRecords, NoSearch, Needed
<1> HIDE DEF q
<1>3. search'["sweep"] = q /\ search' \in [Searchers -> SearchRecords]
  BY <1>1, <1>2 DEF SweepInv, SearchTypes, Searchers
<1>4. AheadInv'
  BY <1>1, <1>2, <1>3 DEF AheadInv, Ahead, InFlight
<1> QED BY <1>1, <1>2, <1>3, <1>4 DEF SweepInv, SearchTypes, PickInv

LEMMA BlindStep == ASSUME SweepInv, SweepBlind PROVE SweepInv'
<1> DEFINE q == [NoSearch EXCEPT !.pc = "gate", !.todo = Needed, !.barred = barred,
                                 !.monitored = monitored]
<1>1. /\ search' = [search EXCEPT !["sweep"] = q] /\ grabRow' = grabRow /\ since' = Releases
      /\ UNCHANGED <<barred, monitored, listed, parked>>
  BY DEF SweepBlind
<1>2. q \in SearchRecords /\ q.pc = "gate"
  BY DEF SweepInv, SearchTypes, SearchRecords, NoSearch, Needed
<1> HIDE DEF q
<1>3. search'["sweep"] = q /\ search' \in [Searchers -> SearchRecords]
  BY <1>1, <1>2 DEF SweepInv, SearchTypes, Searchers
<1>4. AheadInv'
  BY <1>1 DEF AheadInv
<1> QED BY <1>1, <1>2, <1>3, <1>4 DEF SweepInv, SearchTypes, PickInv

LEMMA GateStep ==
  ASSUME SweepInv, NEW s \in Searchers, SearchGate(s) PROVE SweepInv'
<1>1. search \in [Searchers -> SearchRecords] /\ search[s] \in SearchRecords
      /\ search[s].pc = "gate" /\ parked' \subseteq Releases
      /\ grabRow' \in [Releases -> RowKinds]
      /\ \A o \in Releases : grabRow'[o] = grabRow[o]
  BY DEF SweepInv, SearchTypes, SearchGate, World
<1>a. UNCHANGED <<barred, monitored, listed>> /\ since' = since
  BY DEF SearchGate, World
<1>2. \E q \in {NoSearch, [search[s] EXCEPT !.pc = "search"]} : search' = [search EXCEPT ![s] = q]
  BY DEF SearchGate
<1>3. PICK q \in {NoSearch, [search[s] EXCEPT !.pc = "search"]} : search' = [search EXCEPT ![s] = q]
  BY <1>2
<1>4. q \in SearchRecords /\ q.pc \in {"search", "idle"} /\ Ahead(q) \subseteq Ahead(search[s])
  <2>1. CASE q = NoSearch
    BY <2>1 DEF NoSearch, SearchRecords, Ahead
  <2>2. CASE q = [search[s] EXCEPT !.pc = "search"]
    BY <1>1, <2>2 DEF SearchRecords, Ahead
  <2> QED BY <1>3, <2>1, <2>2
<1>5. search'[s] = q /\ search' \in [Searchers -> SearchRecords]
      /\ \A v \in Searchers \ {s} : search'[v] = search[v]
  BY <1>1, <1>3, <1>4
<1>6. since \subseteq since' /\ q.pc # "grab"
  BY <1>a, <1>4
<1> QED BY <1>1, <1>a, <1>4, <1>5, <1>6, SearcherStep

\* A format passed over is looked ahead to no more.
LEMMA PassedStep ==
  ASSUME SweepInv, NEW s \in Searchers, NEW t \in search[s].todo, search[s].pc = "search",
         search' = Passed(s, t), UNCHANGED <<barred, monitored, listed, grabRow, since>>,
         parked' \subseteq Releases
  PROVE  SweepInv'
<1>1. search \in [Searchers -> SearchRecords] /\ search[s] \in SearchRecords
      /\ grabRow \in [Releases -> RowKinds]
  BY DEF SweepInv, SearchTypes
<1>2. /\ search'[s] = [search[s] EXCEPT !.todo = @ \ {t},
                         !.pc = IF search[s].todo = {t} THEN "idle" ELSE @]
      /\ \A v \in Searchers \ {s} : search'[v] = search[v]
  BY <1>1 DEF Passed
<1>3. search'[s] \in SearchRecords
  BY <1>1, <1>2 DEF SearchRecords
<1>4. search' \in [Searchers -> SearchRecords]
  BY <1>1, <1>3 DEF Passed
<1>5. search'[s].pc \in {"idle", "search"} /\ search'[s].todo = search[s].todo \ {t}
  BY <1>1, <1>2 DEF SearchRecords
<1>6. Ahead(search'[s]) \subseteq Ahead(search[s])
  BY <1>1, <1>5 DEF Ahead
<1> QED BY <1>1, <1>2, <1>3, <1>4, <1>5, <1>6, SearcherStep

\* The choice is of a format still to do, and of a release of that format.
LEMMA FormatStep ==
  ASSUME SweepInv, NEW s \in Searchers, SearchFormat(s) PROVE SweepInv'
<1>1. search \in [Searchers -> SearchRecords] /\ search[s] \in SearchRecords
      /\ search[s].pc = "search" /\ since \subseteq since'
      /\ grabRow' = grabRow /\ grabRow \in [Releases -> RowKinds] /\ barred \subseteq Releases
      /\ parked \subseteq Releases /\ listed \subseteq Releases
  BY DEF SweepInv, SearchTypes, SearchFormat, World
<1>a. UNCHANGED <<barred, monitored, listed, since>>
  BY DEF SearchFormat, World
<1>2. PICK t \in search[s].todo :
        /\ parked' \subseteq Releases
        /\ \/ \E r \in Releases : FormatOf[r] = t /\ search' = Chosen(s, t, r)
           \/ search' = Passed(s, t)
  <2>1. PICK t \in search[s].todo :
          \/ \E r \in Good(s, t), w \in SUBSET WaitingOf(s, t) : parked' = parked \cup w
               /\ search' = Chosen(s, t, r)
          \/ \E r \in Takable(ParkedApproved(s, t)), d \in SUBSET Dead(s, t) :
               parked' = ((parked \ d) \cup WaitingOf(s, t)) \ {r} /\ search' = Chosen(s, t, r)
          \/ parked' = (parked \ Dead(s, t)) \cup WaitingOf(s, t) /\ search' = Passed(s, t)
    BY DEF SearchFormat
  <2>2. WaitingOf(s, t) \subseteq Releases
    BY <1>1 DEF WaitingOf, Results, In
  <2>3. \A r \in Good(s, t) : r \in Releases /\ FormatOf[r] = t
    BY <1>1 DEF Good, Results, In
  <2>4. \A r \in Takable(ParkedApproved(s, t)) : r \in Releases /\ FormatOf[r] = t
    BY <1>1 DEF In, Takable, ParkedApproved
  <2> QED BY <1>1, <2>1, <2>2, <2>3, <2>4
<1>3. Bars(s) \subseteq Releases /\ t \in SearchFormats
  BY <1>1, <1>2 DEF SearchRecords, Bars
<1>4. ASSUME NEW r \in Releases, FormatOf[r] = t, search' = Chosen(s, t, r) PROVE SweepInv'
  <2>1. /\ search'[s] = [search[s] EXCEPT !.pc = "grab", !.pick = r, !.format = t,
                           !.seen = IF BlocksRegrab(r) THEN "blocked" ELSE grabRow[r],
                           !.todo = @ \ {t}, !.barred = Bars(s)]
        /\ \A v \in Searchers \ {s} : search'[v] = search[v]
    BY <1>1, <1>4 DEF Chosen
  <2>2. (IF BlocksRegrab(r) THEN "blocked" ELSE grabRow[r]) \in {"none", "failed", "blocked"}
    BY <1>1 DEF BlocksRegrab, RowKinds
  <2>3. search'[s] \in SearchRecords
    <3>1. search[s].todo \ {t} \in SUBSET SearchFormats
      BY <1>1 DEF SearchRecords
    <3> QED BY <1>1, <1>3, <1>4, <2>1, <2>2, <3>1 DEF SearchRecords
  <2>4. search' \in [Searchers -> SearchRecords]
    BY <1>1, <1>4, <2>1, <2>3 DEF Chosen
  <2>5. /\ search'[s].pc = "grab" /\ search'[s].pick = r /\ search'[s].format = t
        /\ search'[s].todo = search[s].todo \ {t}
    BY <1>1, <2>1 DEF SearchRecords
  <2>6. Ahead(search'[s]) \subseteq Ahead(search[s])
    BY <1>1, <1>2, <2>5 DEF Ahead
  <2>7. search'[s].pick \in Releases /\ FormatOf[search'[s].pick] = search'[s].format
    BY <1>4, <2>5
  <2> QED BY <1>1, <1>a, <1>2, <2>1, <2>3, <2>4, <2>6, <2>7, SearcherStep
<1>5. CASE search' = Passed(s, t)
  BY <1>1, <1>a, <1>2, <1>5, PassedStep
<1> QED BY <1>2, <1>4, <1>5

\* A search that ends early goes on to its next format.
LEMMA EndsStep ==
  ASSUME SweepInv, NEW s \in Searchers, SearchEnds(s) PROVE SweepInv'
<1>1. parked \subseteq Releases /\ listed \subseteq Releases
  BY DEF SweepInv, SearchTypes
<1>2. PICK t \in search[s].todo :
        /\ search' = Passed(s, t)
        /\ \/ \E w \in SUBSET WaitingOf(s, t) : parked' = parked \cup w
           \/ \E d \in SUBSET Dead(s, t) : parked' = (parked \ d) \cup WaitingOf(s, t)
  BY DEF SearchEnds
<1>3. WaitingOf(s, t) \subseteq Releases
  BY <1>1 DEF WaitingOf, Results, In
<1>4. parked' \subseteq Releases
  BY <1>1, <1>2, <1>3
<1> QED BY <1>2, <1>4, PassedStep DEF SearchEnds

\* A grab is noted in since.
LEMMA GrabStep ==
  ASSUME SweepInv, NEW s \in Searchers, SearchGrab(s) PROVE SweepInv'
<1> DEFINE r == search[s].pick
<1>1. search \in [Searchers -> SearchRecords] /\ search[s] \in SearchRecords
      /\ search[s].pc = "grab" /\ UNCHANGED <<barred, monitored, listed>>
      /\ grabRow \in [Releases -> RowKinds] /\ parked \subseteq Releases
  BY DEF SweepInv, SearchTypes, SearchGrab, World
<1>2. /\ search'[s] = IF search[s].todo = {} THEN NoSearch
                      ELSE [search[s] EXCEPT !.pc = "search", !.pick = "none", !.seen = "none"]
      /\ \A v \in Searchers \ {s} : search'[v] = search[v]
  BY <1>1 DEF SearchGrab
<1>3. NoSearch \in SearchRecords
      /\ [search[s] EXCEPT !.pc = "search", !.pick = "none", !.seen = "none"] \in SearchRecords
  BY <1>1 DEF NoSearch, SearchRecords
<1>4. search'[s] \in SearchRecords /\ search' \in [Searchers -> SearchRecords]
  BY <1>1, <1>2, <1>3 DEF SearchGrab
<1>5. search'[s].pc \in {"search", "idle"} /\ Ahead(search'[s]) \subseteq Ahead(search[s])
  BY <1>1, <1>2 DEF Ahead, NoSearch, SearchRecords
<1>6. /\ grabRow' \in [Releases -> RowKinds] /\ since \subseteq since' /\ parked' \subseteq Releases
      /\ \A o \in Releases : grabRow'[o] \in {"flying", "handed"} =>
                               grabRow[o] \in {"flying", "handed"} \/ o \in since'
  BY <1>1 DEF SearchGrab, RowKinds
<1> QED BY <1>1, <1>2, <1>4, <1>5, <1>6, SearcherStep

LEMMA OnceStep == ASSUME SweepInv, SearchOnce PROVE SweepInv'
<1>1. search \in [Searchers -> SearchRecords] /\ "once" \in Searchers /\ "sweep" \in Searchers
  BY DEF SweepInv, SearchTypes, Searchers
<1>2. PICK h \in BOOLEAN :
        search' = [search EXCEPT !["once"] =
                    [NoSearch EXCEPT !.pc = "gate", !.todo = Needed, !.byHand = h]]
  BY DEF SearchOnce
<1>3. [NoSearch EXCEPT !.pc = "gate", !.todo = Needed, !.byHand = h] \in SearchRecords
  BY DEF NoSearch, SearchRecords, Needed
<1>4. search' \in [Searchers -> SearchRecords] /\ search'["sweep"] = search["sweep"]
  BY <1>1, <1>2, <1>3
<1>5. UNCHANGED <<grabRow, barred, monitored, listed, parked, since>>
  BY DEF SearchOnce
<1>6. AheadInv'
  BY <1>4, <1>5, AheadKept
<1> QED BY <1>4, <1>5, <1>6 DEF SweepInv, SearchTypes, PickInv

LEMMA SearchStep == ASSUME SweepInv, [SearchNext]_searchVars PROVE SweepInv'
<1>a. grabRow \in [Releases -> RowKinds] /\ barred \subseteq Releases /\ monitored \in BOOLEAN
      /\ listed \subseteq Releases /\ parked \subseteq Releases
  BY DEF SweepInv, SearchTypes
<1>1. CASE SweepQueue \/ SweepBlind \/ SearchOnce
           \/ \E s \in Searchers : SearchGate(s) \/ SearchFormat(s) \/ SearchEnds(s)
                                     \/ SearchGrab(s)
  BY <1>1, QueueStep, BlindStep, OnceStep, GateStep, FormatStep, EndsStep, GrabStep
<1>2. CASE WorldMoves \/ UNCHANGED searchVars
  <2>1. /\ search' = search /\ since' = since /\ grabRow' = grabRow /\ parked' = parked
        /\ barred' \subseteq Releases /\ monitored' \in BOOLEAN /\ listed' \subseteq Releases
    BY <1>a, <1>2 DEF WorldMoves, searchVars
  <2> QED BY <1>a, <2>1, RowStep
<1>3. ASSUME NEW r \in Releases,
             PendingGrab(r) \/ PendingDelete(r) \/ RowMoves(r) \/ CooldownEnds(r)
      PROVE  SweepInv'
  <2>1. /\ search' = search /\ since \subseteq since' /\ parked' \subseteq Releases
        /\ UNCHANGED <<barred, monitored, listed>>
    BY <1>a, <1>3 DEF PendingGrab, PendingDelete, RowMoves, CooldownEnds, World
  <2>2. CASE PendingDelete(r) \/ CooldownEnds(r)
    BY <1>a, <2>1, <2>2, RowStep DEF PendingDelete, CooldownEnds
  <2>3. CASE PendingGrab(r)
    <3>1. grabRow' = [grabRow EXCEPT ![r] = "flying"] /\ since' = since \cup {r}
      BY <2>3 DEF PendingGrab
    <3>2. grabRow' \in [Releases -> RowKinds]
      BY <1>a, <3>1 DEF RowKinds
    <3> QED BY <1>a, <2>1, <3>1, <3>2, RowStep
  <2>4. CASE RowMoves(r)
    <3>1. PICK step \in RowSteps :
            /\ grabRow[r] = step[1] /\ grabRow' = [grabRow EXCEPT ![r] = step[2]]
            /\ since' = IF step[2] = "flying" THEN since \cup {r} ELSE since
      BY <2>4 DEF RowMoves
    <3>2. step[2] \in RowKinds /\ (step[2] = "handed" => step[1] = "flying")
      BY DEF RowSteps, RowKinds
    <3>3. grabRow' \in [Releases -> RowKinds]
      BY <1>a, <3>1, <3>2
    <3>4. \A o \in Releases : grabRow'[o] \in {"flying", "handed"} =>
                                grabRow[o] \in {"flying", "handed"} \/ o \in since'
      BY <1>a, <3>1, <3>2
    <3> QED BY <1>a, <2>1, <3>3, <3>4, RowStep
  <2> QED BY <1>3, <2>2, <2>3, <2>4
<1> QED BY <1>1, <1>2, <1>3 DEF SearchNext

\* Words that do not name the other format only leave a release in its own slot, or in
\* both.
LEMMA ReadInItsSlot ==
  ASSUME NEW o \in Releases, ~Misread(o)
  PROVE  DownloadMediaType(o) \in {FormatOf[o], ""}
<1>1. Named[o] \subseteq SearchFormats /\ FormatOf[o] \in SearchFormats
  BY SearchAssumption
<1>2. ASSUME NEW t \in SearchFormats, Named[o] = {t} PROVE t = FormatOf[o]
  BY <1>1, <1>2 DEF Misread, SearchFormats
<1> QED BY <1>2 DEF DownloadMediaType

\* What flies and is read as of a format the sweep may still grab for, or of none, took
\* off since it built its queue, if it could list the rows.
THEOREM SweepInvariant == SearchSpec => []SweepInv
BY SweepInitInv, SearchStep, PTL DEF SearchSpec

\* searchWanted's queue and its grabs minutes later: for any number of releases, and
\* whatever their words name, the sweep grabs for a format while another release of it
\* flies only if that one is newer than the queue or its words name the other format only,
\* and while one of undetermined format flies only if it is newer; a queue built when the
\* rows in flight could not be listed is excused.
THEOREM OneReleasePerFormat == SearchSpec => SweepTakesOnePerFormat
<1>1. SweepInv /\ [SearchNext]_searchVars =>
        [\A r, o \in Releases :
           (/\ search["sweep"].pc = "grab" /\ search["sweep"].pick = r
            /\ grabRow[r] # "flying" /\ grabRow'[r] = "flying" /\ search'["sweep"] # search["sweep"]
            /\ o # r /\ grabRow[o] \in {"flying", "handed"}
            /\ \/ FormatOf[o] = FormatOf[r] /\ ~Misread(o)
               \/ DownloadMediaType(o) = "")
             => o \in since]_searchVars
  <2> SUFFICES ASSUME SweepInv, NEW r \in Releases, NEW o \in Releases,
                      search["sweep"].pc = "grab", search["sweep"].pick = r,
                      grabRow[o] \in {"flying", "handed"},
                      \/ FormatOf[o] = FormatOf[r] /\ ~Misread(o)
                      \/ DownloadMediaType(o) = ""
               PROVE  o \in since
    OBVIOUS
  <2>1. FormatOf[r] \in Ahead(search["sweep"])
    BY DEF SweepInv, PickInv, Ahead
  <2>2. DownloadMediaType(o) \in {FormatOf[r], ""}
    BY ReadInItsSlot
  <2> QED BY <2>1, <2>2 DEF SweepInv, AheadInv
<1> QED BY <1>1, SweepInvariant, PTL DEF SearchSpec, SweepTakesOnePerFormat
=============================================================================
