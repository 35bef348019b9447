--------------------------- MODULE DownloadSystem ---------------------------
(***************************************************************************)
(* The state the life of a book's downloads is made of, and what the actors*)
(* that work on it share.  DownloadGrab, DownloadPoller and DownloadImport *)
(* describe one actor each; DownloadLifecycle composes them.               *)
(*                                                                         *)
(* Rows are kept by release GUID, which the table declares UNIQUE.  Every  *)
(* actor works from a copy it read earlier and writes by row id, so each   *)
(* database statement is a step of its own and is one of the operators of  *)
(* DownloadRows; DownloadRowCas justifies taking the guarded ones as one   *)
(* instant.  What an import does with the files is reduced to its outcome. *)
(***************************************************************************)
EXTENDS DownloadRows, FiniteSets

CONSTANTS
  Guids,         \* releases of the book
  Manual, Scheduler,  \* grabs by a person (api) and by the scheduler
  Matchers,      \* import goroutines "Match to book" may have running
  ClientKind,    \* "qbittorrent", "torrent" (Transmission, Deluge, rTorrent), "usenet"
  ListComplete,  \* the listing outcomes: TRUE when a poll lists every job
  ImportModes,   \* what import.mode may say when an import reads it
  SlowImports,   \* one import may outlast neverArrivedGrace
  SkipLimit,     \* importSkipLimit
  Requests,      \* what users ask for: some of RequestKinds
  MaxGrabs, MaxAsks, MaxCrashes, MaxCopies   \* bounds

RequestKinds == {"retry", "match", "remove", "delete book"}

IsTorrent == ClientKind # "usenet"

\* The id the client answers a send with: a torrent is named by its info hash,
\* whichever grab sent it; a usenet job gets an id of its own.
JobFor(g, n) == IF IsTorrent THEN g ELSE n

ASSUME LifecycleAssumption ==
  /\ ClientKind \in {"qbittorrent", "torrent", "usenet"}
  /\ ListComplete \subseteq BOOLEAN /\ (~IsTorrent => ListComplete = {FALSE})
  /\ ImportModes \subseteq {"library", "external"} /\ SlowImports \in BOOLEAN
  /\ Requests \subseteq RequestKinds
  /\ SkipLimit \in Nat \ {0} /\ MaxGrabs \in Nat \ {0} /\ MaxAsks \in Nat
  /\ MaxCrashes \in Nat /\ MaxCopies \in Nat
  /\ \A g \in Guids, n \in 1 .. MaxGrabs : JobFor(g, n) \in Jobs
  /\ Manual \cap Scheduler = {}

VARIABLES
  row,      \* the downloads table, by GUID
  grabs,    \* grabs recorded so far; also the last row id handed out
  job,      \* the download client's jobs
  copies,   \* copies of the book an import has filed in the library
  grabber,  \* the grabs in flight
  poll,     \* the poller (one check-downloads run at a time)
  imp,      \* the running imports: the poller's own and the matchers'
  stall,    \* the stall checker
  skips,    \* Scanner.importSkips, in memory
  asks,     \* requests users have made
  crashes

vars == <<row, grabs, job, copies, grabber, poll, imp, stall, skips, asks, crashes>>

Grabbers == Manual \cup Scheduler
Threads  == {"poll"} \cup Matchers

JobState == {"none", "running", "complete", "emptied", "failed"}

\* The states in which a client's listing shows a job: usenet clients are
\* polled through their history, which only holds finished jobs.
ListedStates == IF IsTorrent THEN JobState \ {"none"}
                             ELSE {"complete", "emptied", "failed"}

NoGrab  == [pc |-> "idle", guid |-> "none", id |-> 0, how |-> "none", grab |-> 0]
NoImp   == [pc |-> "idle", guid |-> "none", id |-> 0, grab |-> 0, src |-> NoJob,
            book |-> FALSE, verdict |-> "none"]
NoStall == [pc |-> "idle", guid |-> "none", id |-> 0, job |-> NoJob]
NoSkip  == [id |-> 0, n |-> 0, retry |-> 0, msg |-> "none"]
NoRows  == [g \in Guids |-> NoRow]
NoPoll  == [pc |-> "idle", rows |-> NoRows, jobs |-> [j \in Jobs |-> "none"],
            todo |-> {}, seen |-> {}, complete |-> FALSE]

Init ==
  /\ row     = NoRows
  /\ grabs   = 0
  /\ job     = [j \in Jobs |-> "none"]
  /\ copies  = 0
  /\ grabber = [p \in Grabbers |-> NoGrab]
  /\ poll    = NoPoll
  /\ imp     = [t \in Threads |-> NoImp]
  /\ stall   = NoStall
  /\ skips   = [g \in Guids |-> NoSkip]
  /\ asks    = 0
  /\ crashes = 0

\* A statement with WHERE id=?: `new' is what it makes of the row.
Put(g, id, new) == row' = [row EXCEPT ![g] = IF @.id = id THEN new ELSE @]

\* What is on disk is looked at when the row is, not when it was listed.
PayloadPresent(j) == job[j] = "complete"

\* Mutant: a known book is taken for an imported one.
AlreadyImportedIfKnown(hasBook) == hasBook

AlreadyImported(hasBook) == hasBook /\ copies > 0

\* A user asks for something; MaxAsks bounds how often.
Ask(kind) == kind \in Requests /\ asks < MaxAsks /\ asks' = asks + 1

=============================================================================
