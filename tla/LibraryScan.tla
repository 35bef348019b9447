---------------------------- MODULE LibraryScan -----------------------------
(***************************************************************************)
(* The single-flight gate of the library scan (importer.Scanner), the job  *)
(* group its scans run in (jobs.Group), and a shutdown.  A scan is asked   *)
(* for by a person, who gets an id to recognise its result by, or by the   *)
(* cron job, which skips when one is running.  Every critical section under*)
(* scanMu or the group's mutex is one step.  What a walk does to the books *)
(* is left out.                                                            *)
(***************************************************************************)
EXTENDS Naturals

CONSTANTS Requesters,  \* requests for a scan; each is made once
          Cron,        \* the scheduled scan
          MaxScans, MaxPanics, MaxBoots   \* bounds

ASSUME ScanAssumption == Cron \notin Requesters /\ MaxBoots \in Nat \ {0}

VARIABLES
  boot,      \* scanBootID: which life of the process
  running,   \* Scanner.scanRunning, the gate
  pending,   \* Scanner.scanPending
  seq,       \* Scanner.scanSeq; Scanner.scanID is its id
  scan,      \* the goroutines that start or run scans
  reply,     \* what each request was answered, and whether a walk covered it
  last,      \* the scan_id in the setting library.lastScan
  group,     \* the job group: "open", then the stages of its Shutdown
  active,    \* the group's jobs in flight
  stopping,  \* the process has been told to stop
  panics

vars == <<boot, running, pending, seq, scan, reply, last, group, active, stopping,
          panics>>

Threads == Requesters \cup {Cron}

ScanId == [boot : Nat, seq : Nat]
NoId   == [boot |-> 0, seq |-> 0]

ThreadPC == {"idle", "launch", "begin", "walk", "finish", "release", "end"}
Thread   == [pc : ThreadPC, covers : SUBSET Requesters]
At(pc)   == [pc |-> pc, covers |-> {}]
Idle     == At("idle")

AnswerKind == {"none", "asking", "started", "queued", "refused"}
Reply      == [kind : AnswerKind, id : ScanId, covered : BOOLEAN]
Answer(kind, id) == [kind |-> kind, id |-> id, covered |-> FALSE]
NoReply == Answer("none", NoId)

Init ==
  /\ boot = 1 /\ running = FALSE /\ pending = FALSE /\ seq = 0
  /\ scan  = [t \in Threads |-> Idle]
  /\ reply = [r \in Requesters |-> NoReply]
  /\ last = NoId /\ group = "open" /\ active = {}
  /\ stopping = FALSE /\ panics = 0

Goes(t, pc) == scan' = [scan EXCEPT ![t].pc = pc]
Ends(t)     == scan' = [scan EXCEPT ![t] = IF t \in active THEN At("end") ELSE Idle]

-----------------------------------------------------------------------------
(* Asking.                                                                   *)

\* currentScanID: the scan running, or the last one that ran.
CurrentId == [boot |-> boot, seq |-> seq]

\* The next scan to begin: this request's own or a follow-up.
NextId == [boot |-> boot, seq |-> seq + 1]

\* Mutant: no gate.
GateIgnored == TRUE

GateFree == ~running

\* StartScanTracked, up to the gate: take it, or ask its holder for one more.
Request(r) ==
  /\ reply[r].kind = "none" /\ scan[r].pc = "idle" /\ seq < MaxScans
  /\ IF GateFree
       THEN /\ running' = TRUE
            /\ scan' = [scan EXCEPT ![r] = At("launch")]
            /\ reply' = [reply EXCEPT ![r] = Answer("asking", NextId)]
            /\ UNCHANGED pending
       ELSE /\ pending' = TRUE
            /\ reply' = [reply EXCEPT ![r] = Answer("queued", NextId)]
            /\ UNCHANGED <<running, scan>>
  /\ UNCHANGED <<boot, seq, last, group, active, stopping, panics>>

\* Mutant: begin no longer looks whether the group is closed.
AcceptsAlways == TRUE

\* jobs.Group.begin
Accepts == group = "open"

Launch(r) ==
  /\ scan[r].pc = "launch"
  /\ Accepts
  /\ active' = active \cup {r}
  /\ Goes(r, "begin")
  /\ reply' = [reply EXCEPT ![r].kind = "started"]
  /\ UNCHANGED <<boot, running, pending, seq, last, group, stopping, panics>>

\* Mutant: a refused request keeps the gate.
RefusedKeepsGate(r) ==
  /\ scan[r].pc = "launch" /\ ~Accepts
  /\ scan' = [scan EXCEPT ![r] = Idle]
  /\ reply' = [reply EXCEPT ![r] = Answer("refused", NoId)]
  /\ UNCHANGED <<boot, running, pending, seq, last, group, active, stopping, panics>>

\* The group is shutting down: the gate has to be given back.
LaunchRefused(r) ==
  /\ scan[r].pc = "launch" /\ ~Accepts
  /\ Goes(r, "release")
  /\ reply' = [reply EXCEPT ![r] = Answer("refused", NoId)]
  /\ UNCHANGED <<boot, running, pending, seq, last, group, active, stopping, panics>>

\* ScanLibrary, called by the cron job on its own goroutine.
CronScan ==
  /\ scan[Cron].pc = "idle" /\ seq < MaxScans /\ GateFree
  /\ running' = TRUE
  /\ scan' = [scan EXCEPT ![Cron] = At("begin")]
  /\ UNCHANGED <<boot, pending, seq, reply, last, group, active, stopping, panics>>

-----------------------------------------------------------------------------
(* runScans.                                                                 *)

Waiting(r) == reply[r].kind \in {"asking", "started", "queued"} /\ ~reply[r].covered

\* beginScan numbers the scan; its walk will see what was there by now.
BeginScan(t) ==
  /\ scan[t].pc = "begin"
  /\ seq' = seq + 1
  /\ scan' = [scan EXCEPT ![t].pc = "walk",
                          ![t].covers = {r \in Requesters : Waiting(r)}]
  /\ UNCHANGED <<boot, running, pending, reply, last, group, active, stopping, panics>>

\* The walk ends and its result is stored under its id, if the write succeeds.
ScanLibrary(t) ==
  /\ scan[t].pc = "walk"
  /\ last' \in {last, CurrentId}
  /\ reply' = [r \in Requesters |->
                 [reply[r] EXCEPT !.covered = @ \/ r \in scan[t].covers]]
  /\ scan' = [scan EXCEPT ![t].pc = "finish", ![t].covers = {}]
  /\ UNCHANGED <<boot, running, pending, seq, group, active, stopping, panics>>

\* The deferred release, and a recovered panic above it.
Panic(t) ==
  /\ scan[t].pc = "walk" /\ panics < MaxPanics
  /\ panics' = panics + 1
  /\ scan' = [scan EXCEPT ![t].pc = "release", ![t].covers = {}]
  /\ UNCHANGED <<boot, running, pending, seq, reply, last, group, active, stopping>>

\* The cron job runs on the process's context, the others on the group's.
Cancelled(t) == IF t = Cron THEN stopping ELSE group \notin {"open", "closed"}

\* Mutant: the gate is released whatever was asked meanwhile.
NeverFollowUp(t) == FALSE

FollowUp(t) == pending /\ ~Cancelled(t)

FinishScan(t) ==
  /\ scan[t].pc = "finish"
  /\ pending' = FALSE
  /\ IF FollowUp(t)
       THEN /\ Goes(t, "begin")
            /\ UNCHANGED running
       ELSE running' = FALSE /\ Ends(t)
  /\ UNCHANGED <<boot, seq, reply, last, group, active, stopping, panics>>

ReleaseScan(t) ==
  /\ scan[t].pc = "release"
  /\ pending' = FALSE /\ running' = FALSE /\ Ends(t)
  /\ UNCHANGED <<boot, seq, reply, last, group, active, stopping, panics>>

\* jobs.Group.end
EndJob(t) ==
  /\ scan[t].pc = "end"
  /\ active' = active \ {t}
  /\ scan' = [scan EXCEPT ![t] = Idle]
  /\ UNCHANGED <<boot, running, pending, seq, reply, last, group, stopping, panics>>

ScanStep(t) == BeginScan(t) \/ ScanLibrary(t) \/ Panic(t) \/ FinishScan(t)
               \/ ReleaseScan(t) \/ EndJob(t)

RequestStep(r) == Launch(r) \/ LaunchRefused(r)

-----------------------------------------------------------------------------
(* The process.                                                              *)

\* SIGTERM cancels the process's context.  The group goes on until the HTTP
\* server has shut down or given up; a request may still be in its handler.
Stop ==
  /\ ~stopping /\ stopping' = TRUE
  /\ UNCHANGED <<boot, running, pending, seq, scan, reply, last, group, active, panics>>

\* jobs.Group.Shutdown: close, cancel, then wait for the jobs or the grace.
ShutDown ==
  /\ stopping
  /\ \/ group = "open"      /\ group' = "closed"
     \/ group = "closed"    /\ group' = "cancelled"
     \/ group = "cancelled" /\ active = {} /\ group' = "drained"
     \/ group = "cancelled" /\ active # {} /\ group' = "overrun"
  /\ UNCHANGED <<boot, running, pending, seq, scan, reply, last, active, stopping,
                 panics>>

\* The process exits or dies, and starts again; only the stored result stays.
\* Whoever asked still holds the id.
Restart ==
  /\ boot < MaxBoots /\ boot' = boot + 1
  /\ running' = FALSE /\ pending' = FALSE /\ seq' = 0
  /\ scan' = [t \in Threads |-> Idle]
  /\ group' = "open" /\ active' = {} /\ stopping' = FALSE
  /\ UNCHANGED <<reply, last, panics>>

Next ==
  \/ \E r \in Requesters : Request(r) \/ RequestStep(r)
  \/ \E t \in Threads : ScanStep(t)
  \/ CronScan \/ Stop \/ ShutDown \/ Restart

Spec == Init /\ [][Next]_vars

\* Goroutines run on, and a walk of the library ends.
FairSpec == /\ Spec
            /\ \A r \in Requesters : WF_vars(RequestStep(r))
            /\ \A t \in Threads : WF_vars(ScanStep(t))

-----------------------------------------------------------------------------
TypeOK ==
  /\ boot \in Nat \ {0} /\ running \in BOOLEAN /\ pending \in BOOLEAN /\ seq \in Nat
  /\ scan \in [Threads -> Thread] /\ reply \in [Requesters -> Reply]
  /\ last \in ScanId /\ active \subseteq Requesters
  /\ group \in {"open", "closed", "cancelled", "drained", "overrun"}
  /\ stopping \in BOOLEAN /\ panics \in Nat

Holds(t) == scan[t].pc \in {"launch", "begin", "walk", "finish", "release"}

\* The gate is closed exactly while one goroutine is on its way to open it:
\* neither a panic nor a refusal by the job group leaves it closed for ever.
GateIsHeld == running <=> \E t \in Threads : Holds(t)

\* What a request was promised may come to nothing in a shutdown, after a
\* panic, or with the process it was made to.
Lost(r) == stopping \/ panics > 0 \/ reply[r].id.boot # boot

\* StartScanTracked accepted the request and no walk has answered it yet.
Promised(r) == reply[r].kind \in {"started", "queued"} /\ ~reply[r].covered

\* An accepted request always has somebody to serve it: the walk that covers
\* it, or a holder of the gate that has yet to walk or will find it pending.
PromiseIsHeld ==
  \A r \in Requesters : Promised(r) /\ ~Lost(r) =>
    \E t \in Threads : \/ scan[t].pc = "walk" /\ r \in scan[t].covers
                       \/ scan[t].pc \in {"launch", "begin"}
                       \/ pending /\ Holds(t)

\* Whoever finds the id of a request in the stored result sees the result of
\* a walk that began after that request, restarts included (scanBootID).
KnownByItsId ==
  \A r \in Requesters : reply[r].kind # "none" /\ reply[r].id = last /\ last # NoId =>
                          reply[r].covered

\* Once Shutdown has found every job gone, no walk that a person asked for is
\* under way or will start: the database may close under it.
DrainedIsQuiet ==
  group = "drained" => \A r \in Requesters : scan[r].pc \notin {"begin", "walk", "finish"}

\* An accepted request is served, unless it is lost.
RequestIsServed == \A r \in Requesters : Promised(r) ~> (~Promised(r) \/ Lost(r))

Asked    == {r \in Requesters : Waiting(r)}
Walking  == \E t \in Threads : scan[t].pc = "walk"
Covers   == {r \in Requesters : \E t \in Threads : r \in scan[t].covers}
Answered == {r \in Requesters : reply[r].covered}

Abs == INSTANCE ScanRequests WITH
         asked <- Asked, walking <- Walking, covers <- Covers, answered <- Answered

\* One walk at a time, and no request is answered by a walk that began before
\* it was made: the gate keeps the manual and the scheduled walks apart.
ImplementsScanRequests == Abs!Spec

=============================================================================
