-------------------------- MODULE LibraryScanProofs --------------------------
(***************************************************************************)
(* The safety of the library scan for any number of requests: the gate,    *)
(* the promise of a follow-up, the ids and the quiet after a shutdown.     *)
(***************************************************************************)
EXTENDS LibraryScan, TLAPS

\* The gate has one holder.
OneHolder == \A t, u \in Threads : Holds(t) /\ Holds(u) => t = u

\* Only a shutdown refuses jobs, and what leaves runScans early has a reason
\* that the requester was not promised to survive.
LossInv ==
  /\ group # "open" => stopping
  /\ \A t \in Threads : scan[t].pc = "release" => stopping \/ panics > 0

\* A request's goroutine is one of the group's jobs from its launch to its end.
JobInv ==
  \A r \in Requesters : scan[r].pc \in {"begin", "walk", "finish", "end"} => r \in active

\* Requests and the walks that cover them.
ReplyInv ==
  /\ \A r \in Requesters : reply[r].kind = "none" => ~reply[r].covered
  /\ \A r \in Requesters : reply[r].kind \in {"none", "refused"} => reply[r].id = NoId
  /\ \A r \in Requesters : scan[r].pc = "launch" =>
                             reply[r].kind = "asking" /\ ~reply[r].covered
  /\ \A t \in Threads : scan[t].pc # "walk" => scan[t].covers = {}

\* Ids are given out before their scan begins, and stored after.
IdInv ==
  /\ last.boot <= boot
  /\ last.boot = boot => last.seq <= seq
  /\ \A r \in Requesters : /\ reply[r].id.boot <= boot
                           /\ reply[r].id.boot = boot => reply[r].id.seq <= seq + 1
  /\ \A r \in Requesters, t \in Threads :
       scan[t].pc = "walk" /\ reply[r].id = CurrentId =>
         reply[r].covered \/ r \in scan[t].covers

IInv == /\ TypeOK /\ GateIsHeld /\ OneHolder /\ LossInv /\ JobInv /\ ReplyInv /\ IdInv
        /\ PromiseIsHeld /\ KnownByItsId /\ DrainedIsQuiet

-----------------------------------------------------------------------------
\* What a request does to the answers.
LEMMA RequestEffect ==
  ASSUME TypeOK, NEW r \in Requesters, Request(r)
  PROVE  /\ reply' \in [Requesters -> Reply]
         /\ \A q \in Requesters : q # r => reply'[q] = reply[q]
         /\ reply'[r].kind = IF GateFree THEN "asking" ELSE "queued"
         /\ reply'[r].id.boot = boot /\ reply'[r].id.seq = seq + 1
         /\ ~reply'[r].covered
<1> DEFINE kind == IF GateFree THEN "asking" ELSE "queued"
<1>1. NextId \in ScanId /\ NextId.boot = boot /\ NextId.seq = seq + 1
  BY DEF NextId, ScanId, TypeOK
<1>2. reply' = [reply EXCEPT ![r] = Answer(kind, NextId)]
  BY DEF Request
<1>3. /\ Answer(kind, NextId) \in Reply /\ Answer(kind, NextId).id = NextId
      /\ Answer(kind, NextId).kind = kind /\ ~Answer(kind, NextId).covered
  BY <1>1 DEF Answer, Reply, AnswerKind
<1>4. reply \in [Requesters -> Reply]
  BY DEF TypeOK
<1> HIDE DEF kind
<1>5. /\ reply' \in [Requesters -> Reply] /\ reply'[r] = Answer(kind, NextId)
      /\ \A q \in Requesters : q # r => reply'[q] = reply[q]
  BY <1>2, <1>3, <1>4
<1> QED BY <1>1, <1>3, <1>5 DEF kind

\* The process starts with the gate open and nobody waiting.
LEMMA InitInv == Init => IInv
<1> SUFFICES ASSUME Init PROVE IInv
  OBVIOUS
<1>1. /\ Idle \in Thread /\ Idle.pc = "idle" /\ Idle.covers = {}
      /\ NoId \in ScanId /\ NoId.boot = 0 /\ NoId.seq = 0
      /\ NoReply \in Reply /\ NoReply.kind = "none" /\ NoReply.id = NoId /\ ~NoReply.covered
  BY DEF Idle, At, Thread, ThreadPC, NoId, ScanId, NoReply, Answer, Reply, AnswerKind
<1>2. /\ \A t \in Threads : scan[t] = Idle
      /\ \A r \in Requesters : reply[r] = NoReply /\ scan[r] = Idle
  BY DEF Init, Threads
<1>3. TypeOK
  <2>1. scan \in [Threads -> Thread] /\ reply \in [Requesters -> Reply]
    BY <1>1 DEF Init
  <2>2. running \in BOOLEAN /\ pending \in BOOLEAN /\ stopping \in BOOLEAN
    BY DEF Init
  <2>3. boot \in Nat \ {0} /\ seq \in Nat /\ panics \in Nat
    BY DEF Init
  <2>4. /\ last \in ScanId /\ active \subseteq Requesters
        /\ group \in {"open", "closed", "cancelled", "drained", "overrun"}
    BY <1>1 DEF Init
  <2> QED BY <2>1, <2>2, <2>3, <2>4 DEF TypeOK
<1>4. GateIsHeld /\ OneHolder /\ LossInv /\ JobInv /\ ReplyInv /\ DrainedIsQuiet
  BY <1>1, <1>2 DEF Init, Holds, GateIsHeld, OneHolder, LossInv, JobInv, ReplyInv,
     DrainedIsQuiet
<1>5. IdInv /\ KnownByItsId /\ PromiseIsHeld
  BY <1>1, <1>2 DEF Init, IdInv, KnownByItsId, PromiseIsHeld, Promised
<1> QED BY <1>3, <1>4, <1>5 DEF IInv

\* Every step keeps the types.
LEMMA TypeStep ==
  ASSUME IInv, [Next]_vars
  PROVE  TypeOK'
<1>1. ASSUME NEW r \in Requesters, Request(r) PROVE TypeOK'
  <2>1. scan' \in [Threads -> Thread]
    <3>1. At("launch") \in Thread
      BY DEF At, Thread, ThreadPC
    <3> QED BY <1>1, <3>1 DEF Request, IInv, TypeOK
  <2> QED BY <1>1, <2>1, RequestEffect DEF Request, IInv, TypeOK
<1>2. ASSUME NEW r \in Requesters, Launch(r) PROVE TypeOK'
  BY <1>2 DEF Launch, Accepts, Goes, IInv, TypeOK, Thread, ThreadPC, Reply,
     AnswerKind
<1>3. ASSUME NEW r \in Requesters, LaunchRefused(r) PROVE TypeOK'
  BY <1>3 DEF LaunchRefused, Accepts, Goes, NoId, Answer, IInv, TypeOK, Thread,
     ThreadPC, Reply, ScanId, AnswerKind
<1>4. CASE CronScan
  BY <1>4 DEF CronScan, At, IInv, TypeOK, Thread, ThreadPC
<1>5. ASSUME NEW t \in Threads, BeginScan(t) PROVE TypeOK'
  BY <1>5 DEF BeginScan, IInv, TypeOK, Thread, ThreadPC, Threads
<1>6. ASSUME NEW t \in Threads, ScanLibrary(t) PROVE TypeOK'
  <2>1. CurrentId \in ScanId
    BY DEF IInv, TypeOK, CurrentId, ScanId
  <2>2. scan' \in [Threads -> Thread]
    BY <1>6 DEF ScanLibrary, IInv, TypeOK, Thread, ThreadPC
  <2>3. reply' \in [Requesters -> Reply]
    BY <1>6 DEF ScanLibrary, IInv, TypeOK, Reply
  <2> QED BY <1>6, <2>1, <2>2, <2>3 DEF ScanLibrary, IInv, TypeOK
<1>7. ASSUME NEW t \in Threads, Panic(t) PROVE TypeOK'
  BY <1>7 DEF Panic, IInv, TypeOK, Thread, ThreadPC, Threads
<1>8. ASSUME NEW t \in Threads, FinishScan(t) PROVE TypeOK'
  <2>1. scan' \in [Threads -> Thread]
    <3>1. Idle \in Thread /\ At("end") \in Thread
      BY DEF Idle, At, Thread, ThreadPC
    <3>2. [scan[t] EXCEPT !.pc = "begin"] \in Thread
      BY <1>8 DEF IInv, TypeOK, Thread, ThreadPC
    <3> QED BY <1>8, <3>1, <3>2 DEF FinishScan, Goes, Ends, IInv, TypeOK
  <2> QED BY <1>8, <2>1 DEF FinishScan, Goes, IInv, TypeOK
<1>9. ASSUME NEW t \in Threads, ReleaseScan(t) PROVE TypeOK'
  BY <1>9 DEF ReleaseScan, Ends, Idle, At, IInv, TypeOK, Thread, ThreadPC
<1>10. ASSUME NEW t \in Threads, EndJob(t) PROVE TypeOK'
  BY <1>10 DEF EndJob, Idle, At, IInv, TypeOK, Thread, ThreadPC
<1>11. CASE Stop
  BY <1>11 DEF Stop, IInv, TypeOK
<1>12. CASE ShutDown
  BY <1>12 DEF ShutDown, IInv, TypeOK
<1>13. CASE Restart
  <2>1. scan' \in [Threads -> Thread]
    <3>1. Idle \in Thread
      BY DEF Idle, At, Thread, ThreadPC
    <3> QED BY <1>13, <3>1 DEF Restart
  <2>2. running' \in BOOLEAN /\ pending' \in BOOLEAN /\ stopping' \in BOOLEAN
    BY <1>13 DEF Restart
  <2>3. boot' \in Nat \ {0} /\ seq' \in Nat
    BY <1>13 DEF Restart, IInv, TypeOK
  <2>4. /\ reply' \in [Requesters -> Reply] /\ last' \in ScanId /\ active' \subseteq Requesters
        /\ group' \in {"open", "closed", "cancelled", "drained", "overrun"}
        /\ panics' \in Nat
    BY <1>13 DEF Restart, IInv, TypeOK
  <2> QED BY <2>1, <2>2, <2>3, <2>4 DEF TypeOK
<1>14. CASE UNCHANGED vars
  BY <1>14 DEF vars, IInv, TypeOK
<1> QED BY <1>1, <1>2, <1>3, <1>4, <1>5, <1>6, <1>7, <1>8, <1>9, <1>10, <1>11, <1>12,
         <1>13, <1>14
      DEF Next, RequestStep, ScanStep

\* The gate is taken when free and passed from a goroutine to nobody else.
LEMMA GateStep ==
  ASSUME IInv, [Next]_vars
  PROVE  (GateIsHeld /\ OneHolder)'
<1>1. ASSUME NEW r \in Requesters, Request(r) PROVE (GateIsHeld /\ OneHolder)'
  <2>1. CASE GateFree
    BY <1>1, <2>1 DEF Request, GateFree, NextId, At, IInv, TypeOK, Threads,
       GateIsHeld, OneHolder, Holds
  <2>2. CASE ~GateFree
    BY <1>1, <2>2 DEF Request, NextId, IInv, GateIsHeld, OneHolder, Holds
  <2> QED BY <2>1, <2>2
<1>2. ASSUME NEW r \in Requesters, Launch(r) PROVE (GateIsHeld /\ OneHolder)'
  BY <1>2 DEF Launch, Accepts, Goes, IInv, GateIsHeld, OneHolder, Holds
<1>3. ASSUME NEW r \in Requesters, LaunchRefused(r) PROVE (GateIsHeld /\ OneHolder)'
  BY <1>3 DEF LaunchRefused, Accepts, Goes, IInv, GateIsHeld, OneHolder, Holds
<1>4. CASE CronScan
  BY <1>4 DEF CronScan, GateFree, At, IInv, TypeOK, Threads, GateIsHeld, OneHolder,
     Holds
<1>5. ASSUME NEW t \in Threads, BeginScan(t) PROVE (GateIsHeld /\ OneHolder)'
  BY <1>5 DEF BeginScan, IInv, TypeOK, GateIsHeld, OneHolder, Holds
<1>6. ASSUME NEW t \in Threads, ScanLibrary(t) PROVE (GateIsHeld /\ OneHolder)'
  BY <1>6 DEF ScanLibrary, IInv, TypeOK, GateIsHeld, OneHolder, Holds
<1>7. ASSUME NEW t \in Threads, Panic(t) PROVE (GateIsHeld /\ OneHolder)'
  BY <1>7 DEF Panic, IInv, TypeOK, GateIsHeld, OneHolder, Holds
<1>8. ASSUME NEW t \in Threads, FinishScan(t) PROVE (GateIsHeld /\ OneHolder)'
  <2>1. \A u \in Threads : u # t => scan'[u] = scan[u]
    BY <1>8 DEF FinishScan, Goes, Ends, IInv, TypeOK
  <2>2. CASE FollowUp(t)
    BY <1>8, <2>1, <2>2 DEF FinishScan, Goes, IInv, TypeOK, Thread, GateIsHeld,
       OneHolder, Holds
  <2>3. CASE ~FollowUp(t)
    <3>1. scan'[t].pc \in {"idle", "end"} /\ ~running'
      BY <1>8, <2>3 DEF FinishScan, Goes, Ends, Idle, At, IInv, TypeOK
    <3> QED BY <1>8, <2>1, <3>1 DEF FinishScan, Goes, IInv, GateIsHeld, OneHolder, Holds
  <2> QED BY <2>2, <2>3
<1>9. ASSUME NEW t \in Threads, ReleaseScan(t) PROVE (GateIsHeld /\ OneHolder)'
  BY <1>9 DEF ReleaseScan, Ends, Idle, At, IInv, TypeOK, GateIsHeld, OneHolder,
     Holds
<1>10. ASSUME NEW t \in Threads, EndJob(t) PROVE (GateIsHeld /\ OneHolder)'
  BY <1>10 DEF EndJob, Idle, At, IInv, GateIsHeld, OneHolder, Holds
<1>11. CASE Stop
  BY <1>11 DEF Stop, IInv, GateIsHeld, OneHolder, Holds
<1>12. CASE ShutDown
  BY <1>12 DEF ShutDown, IInv, GateIsHeld, OneHolder, Holds
<1>13. CASE Restart
  BY <1>13 DEF Restart, Idle, At, IInv, GateIsHeld, OneHolder, Holds
<1>14. CASE UNCHANGED vars
  BY <1>14 DEF vars, IInv, GateIsHeld, OneHolder, Holds
<1> QED BY <1>1, <1>2, <1>3, <1>4, <1>5, <1>6, <1>7, <1>8, <1>9, <1>10, <1>11, <1>12,
         <1>13, <1>14
      DEF Next, RequestStep, ScanStep

\* Reasons for a loss stay.
LEMMA LossStep ==
  ASSUME IInv, [Next]_vars
  PROVE  LossInv'
<1>1. ASSUME NEW r \in Requesters, Request(r) PROVE LossInv'
  <2>1. CASE GateFree
    BY <1>1, <2>1 DEF Request, NextId, At, IInv, TypeOK, LossInv
  <2>2. CASE ~GateFree
    BY <1>1, <2>2 DEF Request, NextId, IInv, LossInv
  <2> QED BY <2>1, <2>2
<1>2. ASSUME NEW r \in Requesters, Launch(r) PROVE LossInv'
  BY <1>2 DEF Launch, Accepts, Goes, IInv, LossInv
<1>3. ASSUME NEW r \in Requesters, LaunchRefused(r) PROVE LossInv'
  BY <1>3 DEF LaunchRefused, Accepts, IInv, LossInv
<1>4. CASE CronScan
  BY <1>4 DEF CronScan, At, IInv, LossInv
<1>5. ASSUME NEW t \in Threads, BeginScan(t) PROVE LossInv'
  BY <1>5 DEF BeginScan, IInv, TypeOK, LossInv
<1>6. ASSUME NEW t \in Threads, ScanLibrary(t) PROVE LossInv'
  BY <1>6 DEF ScanLibrary, IInv, TypeOK, LossInv
<1>7. ASSUME NEW t \in Threads, Panic(t) PROVE LossInv'
  BY <1>7 DEF Panic, IInv, TypeOK, LossInv
<1>8. ASSUME NEW t \in Threads, FinishScan(t) PROVE LossInv'
  <2>1. CASE FollowUp(t)
    BY <1>8, <2>1 DEF FinishScan, Goes, FollowUp, Cancelled, IInv, TypeOK, Thread,
       LossInv
  <2>2. CASE ~FollowUp(t)
    BY <1>8, <2>2 DEF FinishScan, Goes, FollowUp, Cancelled, Ends, Idle, At, IInv,
       TypeOK, LossInv
  <2> QED BY <2>1, <2>2
<1>9. ASSUME NEW t \in Threads, ReleaseScan(t) PROVE LossInv'
  BY <1>9 DEF ReleaseScan, IInv, LossInv
<1>10. ASSUME NEW t \in Threads, EndJob(t) PROVE LossInv'
  BY <1>10 DEF EndJob, Idle, At, IInv, LossInv
<1>11. CASE Stop
  BY <1>11 DEF Stop, IInv, LossInv
<1>12. CASE ShutDown
  BY <1>12 DEF ShutDown, IInv, LossInv
<1>13. CASE Restart
  BY <1>13 DEF Restart, Idle, At, IInv, LossInv
<1>14. CASE UNCHANGED vars
  BY <1>14 DEF vars, IInv, LossInv
<1> QED BY <1>1, <1>2, <1>3, <1>4, <1>5, <1>6, <1>7, <1>8, <1>9, <1>10, <1>11, <1>12,
         <1>13, <1>14
      DEF Next, RequestStep, ScanStep

\* The group knows its jobs.
LEMMA JobStep ==
  ASSUME IInv, [Next]_vars
  PROVE  (JobInv /\ DrainedIsQuiet)'
<1>1. ASSUME NEW r \in Requesters, Request(r) PROVE (JobInv /\ DrainedIsQuiet)'
  <2>1. CASE GateFree
    BY <1>1, <2>1 DEF Request, NextId, At, IInv, TypeOK, Threads, JobInv,
       DrainedIsQuiet
  <2>2. CASE ~GateFree
    BY <1>1, <2>2 DEF Request, NextId, IInv, JobInv, DrainedIsQuiet
  <2> QED BY <2>1, <2>2
<1>2. ASSUME NEW r \in Requesters, Launch(r) PROVE (JobInv /\ DrainedIsQuiet)'
  BY <1>2 DEF Launch, Accepts, Goes, IInv, JobInv, DrainedIsQuiet
<1>3. ASSUME NEW r \in Requesters, LaunchRefused(r) PROVE (JobInv /\ DrainedIsQuiet)'
  BY <1>3 DEF LaunchRefused, Accepts, Goes, IInv, JobInv, DrainedIsQuiet
<1>4. CASE CronScan
  BY ScanAssumption, <1>4 DEF CronScan, At, IInv, JobInv, DrainedIsQuiet
<1>5. ASSUME NEW t \in Threads, BeginScan(t) PROVE (JobInv /\ DrainedIsQuiet)'
  BY <1>5 DEF BeginScan, IInv, TypeOK, Threads, JobInv, DrainedIsQuiet
<1>6. ASSUME NEW t \in Threads, ScanLibrary(t) PROVE (JobInv /\ DrainedIsQuiet)'
  BY <1>6 DEF ScanLibrary, IInv, TypeOK, Threads, JobInv, DrainedIsQuiet
<1>7. ASSUME NEW t \in Threads, Panic(t) PROVE (JobInv /\ DrainedIsQuiet)'
  BY <1>7 DEF Panic, IInv, TypeOK, Threads, JobInv, DrainedIsQuiet
<1>8. ASSUME NEW t \in Threads, FinishScan(t) PROVE (JobInv /\ DrainedIsQuiet)'
  <2>1. CASE FollowUp(t)
    BY <1>8, <2>1 DEF FinishScan, Goes, FollowUp, Cancelled, IInv, TypeOK, Threads,
       JobInv, DrainedIsQuiet
  <2>2. CASE ~FollowUp(t)
    BY <1>8, <2>2 DEF FinishScan, Goes, FollowUp, Cancelled, Ends, IInv, TypeOK, Threads,
       JobInv, DrainedIsQuiet
  <2> QED BY <2>1, <2>2
<1>9. ASSUME NEW t \in Threads, ReleaseScan(t) PROVE (JobInv /\ DrainedIsQuiet)'
  BY <1>9 DEF ReleaseScan, Ends, Idle, At, IInv, JobInv, DrainedIsQuiet
<1>10. ASSUME NEW t \in Threads, EndJob(t) PROVE (JobInv /\ DrainedIsQuiet)'
  BY <1>10 DEF EndJob, Idle, At, IInv, TypeOK, JobInv, DrainedIsQuiet
<1>11. CASE Stop
  BY <1>11 DEF Stop, IInv, JobInv, DrainedIsQuiet
<1>12. CASE ShutDown
  BY <1>12 DEF ShutDown, IInv, JobInv, DrainedIsQuiet
<1>13. CASE Restart
  BY <1>13 DEF Restart, Idle, At, IInv, Threads, JobInv, DrainedIsQuiet
<1>14. CASE UNCHANGED vars
  BY <1>14 DEF vars, IInv, JobInv, DrainedIsQuiet
<1> QED BY <1>1, <1>2, <1>3, <1>4, <1>5, <1>6, <1>7, <1>8, <1>9, <1>10, <1>11, <1>12,
         <1>13, <1>14
      DEF Next, RequestStep, ScanStep

\* Walks cover requests only while they walk.
LEMMA ReplyStep ==
  ASSUME IInv, [Next]_vars
  PROVE  ReplyInv'
<1>1. ASSUME NEW r \in Requesters, Request(r) PROVE ReplyInv'
  <2> USE DEF IInv, TypeOK, Thread, Threads, ReplyInv, Request, At
  <2>1. \A q \in Requesters : q # r => reply'[q] = reply[q] /\ scan'[q] = scan[q]
    BY <1>1, RequestEffect
  <2>2. scan'[r].pc = "launch" => reply'[r].kind = "asking"
    BY <1>1, RequestEffect
  <2>3. \A t \in Threads : scan'[t].pc # "walk" => scan'[t].covers = {}
    BY <1>1
  <2> QED BY <2>1, <2>2, <2>3, RequestEffect, <1>1
<1>2. ASSUME NEW r \in Requesters, Launch(r) PROVE ReplyInv'
  BY <1>2 DEF Launch, Accepts, Goes, IInv, TypeOK, Threads, ReplyInv
<1>3. ASSUME NEW r \in Requesters, LaunchRefused(r) PROVE ReplyInv'
  BY <1>3 DEF LaunchRefused, Accepts, Goes, Answer, IInv, TypeOK, Threads, ReplyInv
<1>4. CASE CronScan
  BY <1>4 DEF CronScan, At, IInv, ReplyInv
<1>5. ASSUME NEW t \in Threads, BeginScan(t) PROVE ReplyInv'
  BY <1>5 DEF BeginScan, IInv, TypeOK, Threads, ReplyInv
<1>6. ASSUME NEW t \in Threads, ScanLibrary(t) PROVE ReplyInv'
  BY <1>6 DEF ScanLibrary, IInv, TypeOK, Thread, Reply, Threads, ReplyInv
<1>7. ASSUME NEW t \in Threads, Panic(t) PROVE ReplyInv'
  BY <1>7 DEF Panic, IInv, TypeOK, Threads, ReplyInv
<1>8. ASSUME NEW t \in Threads, FinishScan(t) PROVE ReplyInv'
  <2>1. CASE FollowUp(t)
    BY <1>8, <2>1 DEF FinishScan, Goes, FollowUp, Cancelled, IInv, TypeOK, Thread,
       Threads, ReplyInv
  <2>2. CASE ~FollowUp(t)
    BY <1>8, <2>2 DEF FinishScan, Goes, FollowUp, Cancelled, Ends, Idle, At, IInv,
       TypeOK, Threads, ReplyInv
  <2> QED BY <2>1, <2>2
<1>9. ASSUME NEW t \in Threads, ReleaseScan(t) PROVE ReplyInv'
  BY <1>9 DEF ReleaseScan, Ends, Idle, At, IInv, ReplyInv
<1>10. ASSUME NEW t \in Threads, EndJob(t) PROVE ReplyInv'
  BY <1>10 DEF EndJob, Idle, At, IInv, ReplyInv
<1>11. CASE Stop
  BY <1>11 DEF Stop, IInv, ReplyInv
<1>12. CASE ShutDown
  BY <1>12 DEF ShutDown, IInv, ReplyInv
<1>13. CASE Restart
  BY <1>13 DEF Restart, Idle, At, IInv, Threads, ReplyInv
<1>14. CASE UNCHANGED vars
  BY <1>14 DEF vars, IInv, ReplyInv
<1> QED BY <1>1, <1>2, <1>3, <1>4, <1>5, <1>6, <1>7, <1>8, <1>9, <1>10, <1>11, <1>12,
         <1>13, <1>14
      DEF Next, RequestStep, ScanStep

\* Ids run ahead of their scans.
LEMMA IdStep ==
  ASSUME IInv, [Next]_vars
  PROVE  (IdInv /\ KnownByItsId)'
<1>1. ASSUME NEW r \in Requesters, Request(r) PROVE (IdInv /\ KnownByItsId)'
  <2>1. /\ UNCHANGED <<boot, seq, last, CurrentId>>
        /\ last.boot = boot => last.seq <= seq
        /\ boot \in Nat /\ seq \in Nat
    BY <1>1 DEF Request, CurrentId, IInv, TypeOK, IdInv
  <2>2. reply'[r].id # CurrentId /\ reply'[r].id # last
    BY <2>1, <1>1, RequestEffect DEF CurrentId, IInv
  <2>3. \A t \in Threads : scan'[t].pc = "walk" => scan'[t] = scan[t]
    BY <1>1 DEF Request, IInv, TypeOK, At
  <2>4. IdInv'
    BY <2>1, <2>2, <2>3, <1>1, RequestEffect DEF IInv, IdInv
  <2>5. KnownByItsId'
    BY <2>1, <2>2, <1>1, RequestEffect DEF IInv, KnownByItsId
  <2> QED BY <2>4, <2>5
<1>2. ASSUME NEW r \in Requesters, Launch(r) PROVE (IdInv /\ KnownByItsId)'
  BY <1>2 DEF Launch, Accepts, Goes, IInv, IdInv, KnownByItsId, CurrentId, ReplyInv
<1>3. ASSUME NEW r \in Requesters, LaunchRefused(r) PROVE (IdInv /\ KnownByItsId)'
  BY <1>3 DEF LaunchRefused, Accepts, Goes, NoId, Answer, IInv, TypeOK, IdInv,
     KnownByItsId, CurrentId
<1>4. CASE CronScan
  BY <1>4 DEF CronScan, At, IInv, IdInv, KnownByItsId, CurrentId
<1>5. ASSUME NEW t \in Threads, BeginScan(t) PROVE (IdInv /\ KnownByItsId)'
  BY <1>5 DEF BeginScan, Waiting, IInv, TypeOK, Reply, ScanId, AnswerKind, IdInv,
     KnownByItsId, CurrentId, NoId, ReplyInv, OneHolder, Holds
<1>6. ASSUME NEW t \in Threads, ScanLibrary(t) PROVE (IdInv /\ KnownByItsId)'
  BY <1>6 DEF ScanLibrary, CurrentId, IInv, TypeOK, Reply, Threads, IdInv,
     KnownByItsId, GateIsHeld, Holds
<1>7. ASSUME NEW t \in Threads, Panic(t) PROVE (IdInv /\ KnownByItsId)'
  BY <1>7 DEF Panic, IInv, TypeOK, IdInv, KnownByItsId, CurrentId
<1>8. ASSUME NEW t \in Threads, FinishScan(t) PROVE (IdInv /\ KnownByItsId)'
  <2>1. CASE FollowUp(t)
    BY <1>8, <2>1 DEF FinishScan, Goes, FollowUp, Cancelled, IInv, TypeOK, Thread, IdInv,
       KnownByItsId, CurrentId
  <2>2. CASE ~FollowUp(t)
    BY <1>8, <2>2 DEF FinishScan, Goes, FollowUp, Cancelled, Ends, Idle, At, IInv,
       TypeOK, IdInv, KnownByItsId, CurrentId
  <2> QED BY <2>1, <2>2
<1>9. ASSUME NEW t \in Threads, ReleaseScan(t) PROVE (IdInv /\ KnownByItsId)'
  BY <1>9 DEF ReleaseScan, Ends, Idle, At, IInv, IdInv, KnownByItsId, CurrentId
<1>10. ASSUME NEW t \in Threads, EndJob(t) PROVE (IdInv /\ KnownByItsId)'
  BY <1>10 DEF EndJob, Idle, At, IInv, IdInv, KnownByItsId, CurrentId
<1>11. CASE Stop
  BY <1>11 DEF Stop, IInv, IdInv, KnownByItsId, CurrentId
<1>12. CASE ShutDown
  BY <1>12 DEF ShutDown, IInv, IdInv, KnownByItsId, CurrentId
<1>13. CASE Restart
  BY <1>13 DEF Restart, At, IInv, TypeOK, Reply, ScanId, IdInv, KnownByItsId,
     CurrentId
<1>14. CASE UNCHANGED vars
  BY <1>14 DEF vars, IInv, IdInv, KnownByItsId, CurrentId
<1> QED BY <1>1, <1>2, <1>3, <1>4, <1>5, <1>6, <1>7, <1>8, <1>9, <1>10, <1>11, <1>12,
         <1>13, <1>14
      DEF Next, RequestStep, ScanStep

\* A promise keeps its witness, unless it is lost.
LEMMA PromiseStep ==
  ASSUME IInv, [Next]_vars
  PROVE  PromiseIsHeld'
<1>1. ASSUME NEW r \in Requesters, Request(r) PROVE PromiseIsHeld'
  <2>1. CASE GateFree
    BY <1>1, <2>1 DEF Request, GateFree, NextId, Answer, IInv, TypeOK, Threads,
       PromiseIsHeld, Promised, Lost, GateIsHeld
  <2>2. CASE ~GateFree
    BY <1>1, <2>2 DEF Request, GateFree, NextId, IInv, PromiseIsHeld, Holds,
       GateIsHeld
  <2> QED BY <2>1, <2>2
<1>2. ASSUME NEW r \in Requesters, Launch(r) PROVE PromiseIsHeld'
  BY <1>2 DEF Launch, Accepts, Goes, IInv, Threads, PromiseIsHeld
<1>3. ASSUME NEW r \in Requesters, LaunchRefused(r) PROVE PromiseIsHeld'
  BY <1>3 DEF LaunchRefused, Accepts, IInv, PromiseIsHeld, Lost, LossInv
<1>4. CASE CronScan
  BY <1>4 DEF CronScan, GateFree, At, IInv, PromiseIsHeld, Promised, Lost,
     GateIsHeld
<1>5. ASSUME NEW t \in Threads, BeginScan(t) PROVE PromiseIsHeld'
  BY <1>5 DEF BeginScan, Waiting, IInv, TypeOK, PromiseIsHeld, Promised
<1>6. ASSUME NEW t \in Threads, ScanLibrary(t) PROVE PromiseIsHeld'
  <2>1. \A r \in Requesters : (Promised(r) /\ ~Lost(r))' =>
          Promised(r) /\ ~Lost(r) /\ r \notin scan[t].covers
    BY <1>6 DEF ScanLibrary, IInv, TypeOK, Reply, Promised, Lost
  <2>2. /\ scan[t].pc = "walk" /\ scan'[t].pc = "finish" /\ pending' = pending
        /\ \A u \in Threads : u # t => scan'[u] = scan[u]
    BY <1>6 DEF ScanLibrary, IInv, TypeOK
  <2> QED BY <2>1, <2>2 DEF IInv, PromiseIsHeld, Holds
<1>7. ASSUME NEW t \in Threads, Panic(t) PROVE PromiseIsHeld'
  BY <1>7 DEF Panic, IInv, TypeOK, PromiseIsHeld, Lost
<1>8. ASSUME NEW t \in Threads, FinishScan(t) PROVE PromiseIsHeld'
  <2>1. CASE FollowUp(t)
    BY <1>8, <2>1 DEF FinishScan, Goes, FollowUp, Cancelled, IInv, TypeOK, Thread,
       PromiseIsHeld
  <2>2. CASE ~FollowUp(t)
    BY <1>8, <2>2 DEF FinishScan, Goes, FollowUp, Cancelled, IInv, PromiseIsHeld,
       Promised, Lost, Holds, OneHolder, LossInv
  <2> QED BY <2>1, <2>2
<1>9. ASSUME NEW t \in Threads, ReleaseScan(t) PROVE PromiseIsHeld'
  BY <1>9 DEF ReleaseScan, IInv, PromiseIsHeld, Lost, LossInv
<1>10. ASSUME NEW t \in Threads, EndJob(t) PROVE PromiseIsHeld'
  BY <1>10 DEF EndJob, At, IInv, PromiseIsHeld, Promised, Lost, Holds
<1>11. CASE Stop
  BY <1>11 DEF Stop, IInv, PromiseIsHeld, Lost
<1>12. CASE ShutDown
  BY <1>12 DEF ShutDown, IInv, PromiseIsHeld, Lost
<1>13. CASE Restart
  BY <1>13 DEF Restart, IInv, TypeOK, PromiseIsHeld, Lost, IdInv
<1>14. CASE UNCHANGED vars
  BY <1>14 DEF vars, IInv, PromiseIsHeld, Promised, Lost, Holds
<1> QED BY <1>1, <1>2, <1>3, <1>4, <1>5, <1>6, <1>7, <1>8, <1>9, <1>10, <1>11, <1>12,
         <1>13, <1>14
      DEF Next, RequestStep, ScanStep

-----------------------------------------------------------------------------
\* IInv is an inductive invariant, for any number of requests and any bounds.
THEOREM ScanInvariant == Spec => []IInv
<1>1. IInv /\ [Next]_vars => IInv'
  BY TypeStep, GateStep, LossStep, JobStep, ReplyStep, IdStep, PromiseStep DEF IInv
<1> QED BY <1>1, InitInv, PTL DEF Spec

\* No panic and no refusal leaves the gate closed with nobody to open it.
THEOREM GateAlwaysHeld == Spec => []GateIsHeld
BY ScanInvariant, PTL DEF IInv

\* A request that StartScanTracked accepted is never forgotten.
THEOREM PromiseAlwaysHeld == Spec => []PromiseIsHeld
BY ScanInvariant, PTL DEF IInv

\* The stored result under a request's id is of a walk that covers it.
THEOREM IdsAreTrue == Spec => []KnownByItsId
BY ScanInvariant, PTL DEF IInv

\* Nothing walks once the job group has drained.
THEOREM AlwaysQuiet == Spec => []DrainedIsQuiet
BY ScanInvariant, PTL DEF IInv

-----------------------------------------------------------------------------
\* Only a walk covers requests, and there is only one.
LEMMA OneWalk ==
  ASSUME IInv
  PROVE  /\ ~Walking => Covers = {}
         /\ \A t \in Threads : scan[t].pc = "walk" =>
              /\ Covers = {r \in Requesters : r \in scan[t].covers}
              /\ \A u \in Threads : u # t => scan[u].pc # "walk" /\ scan[u].covers = {}
<1>1. \A t, u \in Threads : scan[t].pc = "walk" /\ scan[u].pc = "walk" => t = u
  BY DEF IInv, OneHolder, Holds
<1>2. \A t \in Threads : scan[t].pc # "walk" => scan[t].covers = {}
  BY DEF IInv, ReplyInv
<1> QED BY <1>1, <1>2 DEF Walking, Covers

\* Steps that neither begin nor end a walk, nor answer or take a request.
LEMMA Stutters ==
  ASSUME \A t \in Threads : /\ scan'[t].covers = scan[t].covers
                            /\ scan'[t].pc = "walk" <=> scan[t].pc = "walk",
         \A r \in Requesters : /\ reply'[r].covered = reply[r].covered
                               /\ Waiting(r)' <=> Waiting(r)
  PROVE  UNCHANGED Abs!vars
<1>1. UNCHANGED Walking
  BY DEF Walking
<1>2. UNCHANGED Covers
  BY DEF Covers
<1>3. UNCHANGED Asked /\ UNCHANGED Answered
  BY DEF Asked, Answered
<1> QED BY <1>1, <1>2, <1>3 DEF Abs!vars

LEMMA StepRefines ==
  ASSUME IInv, IInv', [Next]_vars
  PROVE  [Abs!Next]_(Abs!vars)
<1> USE DEF IInv, TypeOK, Thread, Reply, AnswerKind
<1>1. ASSUME NEW r \in Requesters, Request(r) PROVE Abs!Ask(r)
  <2>1. r \notin Asked \cup Answered
    BY <1>1 DEF Request, Asked, Answered, Waiting, ReplyInv
  <2>2. \A q \in Requesters : /\ Waiting(q)' <=> Waiting(q) \/ q = r
                              /\ reply'[q].covered = reply[q].covered
    <3>1. reply[r].kind = "none" /\ ~reply[r].covered
      BY <1>1 DEF Request, ReplyInv
    <3>2. reply'[r].kind \in {"asking", "queued"} /\ ~reply'[r].covered
      BY <1>1, RequestEffect
    <3>3. \A q \in Requesters : q # r => reply'[q] = reply[q]
      BY <1>1, RequestEffect
    <3>4. reply'[r].covered = reply[r].covered
      BY <1>1, <3>1, <3>2, RequestEffect
    <3> QED BY <3>1, <3>2, <3>3, <3>4 DEF Waiting
  <2>3. Asked' = Asked \cup {r} /\ Answered' = Answered
    BY <2>2 DEF Asked, Answered
  <2>4. \A t \in Threads : t # r => scan'[t] = scan[t]
    BY <1>1 DEF Request
  <2>5. scan'[r].pc \in {"idle", "launch"} /\ scan'[r].covers = {}
    BY <1>1 DEF Request, At, ReplyInv, Threads
  <2>6. scan[r].pc = "idle" /\ scan[r].covers = {}
    BY <1>1 DEF Request, ReplyInv, Threads
  <2>7. \A t \in Threads : scan'[t].covers = scan[t].covers
                           /\ (scan'[t].pc = "walk" <=> scan[t].pc = "walk")
    BY <2>4, <2>5, <2>6
  <2>8. Walking' = Walking /\ Covers' = Covers
    BY <2>7 DEF Walking, Covers
  <2> QED BY <2>1, <2>3, <2>8 DEF Abs!Ask
<1>2. ASSUME NEW r \in Requesters, Launch(r) PROVE UNCHANGED Abs!vars
  BY <1>2, Stutters DEF Launch, Goes, Waiting, ReplyInv
<1>3. ASSUME NEW r \in Requesters, LaunchRefused(r) PROVE Abs!Refuse(r)
  <2>1. ~Walking /\ Covers = {}
    <3>1. \A t \in Threads : scan[t].pc # "walk"
      BY <1>3 DEF LaunchRefused, OneHolder, Holds, Threads
    <3> QED BY <3>1, OneWalk DEF Walking
  <2>2. ~Walking' /\ Covers' = {}
    BY <1>3, <2>1 DEF LaunchRefused, Goes, Walking, Covers
  <2>3. Asked' = Asked \ {r} /\ Answered' = Answered /\ r \in Asked
    BY <1>3 DEF LaunchRefused, Answer, Asked, Answered, Waiting, ReplyInv
  <2>4. Walking' = Walking
    BY <2>1, <2>2 DEF Walking
  <2> QED BY <2>1, <2>2, <2>3, <2>4 DEF Abs!Refuse
<1>4. CASE CronScan
  BY <1>4, Stutters DEF CronScan, At, Waiting, ReplyInv
<1>5. ASSUME NEW t \in Threads, BeginScan(t) PROVE Abs!Begin
  <2>1. ~Walking
    BY <1>5 DEF BeginScan, Walking, OneHolder, Holds
  <2>2. scan'[t].pc = "walk" /\ scan'[t].covers = Asked
    BY <1>5 DEF BeginScan, Asked
  <2>3. \A u \in Threads : u # t => scan'[u].covers = {}
    BY <1>5 DEF BeginScan, ReplyInv, OneHolder, Holds
  <2>4. Walking' /\ Covers' = Asked
    BY <1>5, <2>2, <2>3 DEF Walking, Covers, Asked
  <2>5. UNCHANGED <<Asked, Answered>>
    BY <1>5 DEF BeginScan, Asked, Answered, Waiting
  <2> QED BY <2>1, <2>4, <2>5 DEF Abs!Begin
<1>6. ASSUME NEW t \in Threads, ScanLibrary(t) PROVE Abs!End
  <2>1. Walking /\ Covers = {r \in Requesters : r \in scan[t].covers}
    BY <1>6, OneWalk DEF ScanLibrary, Walking
  <2>2. \A u \in Threads : scan'[u].pc # "walk" /\ scan'[u].covers = {}
    BY <1>6, OneWalk DEF ScanLibrary
  <2>3. ~Walking' /\ Covers' = {}
    BY <2>2 DEF Walking, Covers
  <2>4. Asked' = Asked \ Covers /\ Answered' = Answered \cup Covers
    BY <1>6, <2>1 DEF ScanLibrary, Asked, Answered, Waiting
  <2> QED BY <2>1, <2>3, <2>4 DEF Abs!End
<1>7. ASSUME NEW t \in Threads, Panic(t) PROVE Abs!Abort
  <2>1. Walking
    BY <1>7 DEF Panic, Walking
  <2>2. \A u \in Threads : scan'[u].pc # "walk" /\ scan'[u].covers = {}
    BY <1>7, OneWalk DEF Panic
  <2>3. ~Walking' /\ Covers' = {}
    BY <2>2 DEF Walking, Covers
  <2> QED BY <1>7, <2>1, <2>3 DEF Panic, Abs!Abort, Asked, Answered, Waiting
<1>8. ASSUME NEW t \in Threads, FinishScan(t) PROVE UNCHANGED Abs!vars
  <2>1. \A u \in Threads : scan'[u].covers = scan[u].covers
                           /\ (scan'[u].pc = "walk" <=> scan[u].pc = "walk")
    <3>1. scan[t].covers = {}
      BY <1>8 DEF FinishScan, Goes, ReplyInv
    <3>2. \A u \in Threads : u # t => scan'[u] = scan[u]
      BY <1>8 DEF FinishScan, Goes, Ends
    <3>3. CASE FollowUp(t)
      BY <1>8, <3>1, <3>2, <3>3 DEF FinishScan, Goes
    <3>4. CASE ~FollowUp(t)
      <4>1. scan'[t].pc \in {"idle", "end"} /\ scan'[t].covers = {}
        BY <1>8, <3>4 DEF FinishScan, Goes, Ends, Idle, At
      <4> QED BY <1>8, <3>1, <3>2, <4>1 DEF FinishScan, Goes
    <3> QED BY <3>3, <3>4
  <2> QED BY <1>8, <2>1, Stutters DEF FinishScan, Goes, Waiting
<1>9. ASSUME NEW t \in Threads, ReleaseScan(t) PROVE UNCHANGED Abs!vars
  <2>1. \A u \in Threads : scan'[u].covers = scan[u].covers
                           /\ (scan'[u].pc = "walk" <=> scan[u].pc = "walk")
    BY <1>9 DEF ReleaseScan, Ends, Idle, At, ReplyInv
  <2> QED BY <1>9, <2>1, Stutters DEF ReleaseScan, Waiting
<1>10. ASSUME NEW t \in Threads, EndJob(t) PROVE UNCHANGED Abs!vars
  BY <1>10, Stutters DEF EndJob, Idle, At, Waiting, ReplyInv
<1>11. CASE Stop \/ ShutDown \/ UNCHANGED vars
  BY <1>11, Stutters DEF Stop, ShutDown, vars, Waiting
<1>12. CASE Restart
  <2>1. UNCHANGED <<Asked, Answered>>
    BY <1>12 DEF Restart, Asked, Answered, Waiting
  <2>2. \A u \in Threads : scan'[u].pc # "walk" /\ scan'[u].covers = {}
    BY <1>12 DEF Restart, Idle, At
  <2>3. ~Walking' /\ Covers' = {}
    BY <2>2 DEF Walking, Covers
  <2>4. CASE Walking
    BY <2>1, <2>3, <2>4 DEF Abs!Abort, Abs!Next
  <2>5. CASE ~Walking
    <3>1. Walking' = Walking
      BY <2>3, <2>5 DEF Walking
    <3> QED BY <2>1, <2>3, <2>5, <3>1, OneWalk DEF Abs!vars
  <2> QED BY <2>4, <2>5
<1> QED BY <1>1, <1>2, <1>3, <1>4, <1>5, <1>6, <1>7, <1>8, <1>9, <1>10, <1>11, <1>12
      DEF Next, RequestStep, ScanStep, Abs!Next

\* With the gate, the pending flag and the goroutines, the scanner still keeps
\* the requests' contract.
THEOREM ScanRefinesRequests == Spec => ImplementsScanRequests
<1>1. Init => Abs!Init
  BY DEF Init, Idle, At, NoReply, Answer, Abs!Init, Asked, Walking, Covers, Answered, Waiting
<1>2. IInv /\ IInv' /\ [Next]_vars => [Abs!Next]_(Abs!vars)
  BY StepRefines
<1> QED BY <1>1, <1>2, ScanInvariant, PTL DEF Spec, ImplementsScanRequests, Abs!Spec

=============================================================================
