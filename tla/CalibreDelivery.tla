--------------------------- MODULE CalibreDelivery ---------------------------
(***************************************************************************)
(* The ledger of one book's ebook files on their way into Calibre: a row   *)
(* per file, and one of three transports that works it off: the worker's   *)
(* pass over the plugin ("push") or over calibredb, or the plugin asking   *)
(* for work ("pull").  A delivery reads the ledger, calls Calibre, and     *)
(* then writes the ledger by row id, whatever the row has become.          *)
(***************************************************************************)
EXTENDS FiniteSets, Naturals

CONSTANTS
  Files,         \* the book's ebook files
  Rank,          \* lessByFormatPreference: a number per file
  MaxAttempts,   \* deliveryMaxAttempts
  MaxFaults,     \* bound: lost answers, failed statements
  MaxOutages,    \* bound: times Calibre closes
  MaxResets      \* bound: Clear waiting and Reset delivery state

ASSUME DeliveryAssumption ==
  /\ Rank \in [Files -> Nat]
  /\ \A f, g \in Files : Rank[f] = Rank[g] => f = g
  /\ MaxAttempts \in Nat \ {0} /\ MaxFaults \in Nat
  /\ MaxOutages \in Nat /\ MaxResets \in Nat

VARIABLES
  transport,  \* "push", "pull" or "calibredb"
  row,        \* the ledger: state, attempts, and whether the row is due
  library,    \* the files Calibre's record of the book holds; none, no record
  open,       \* Calibre is running and reachable
  addFormat,  \* the plugin can add a format to a record
  job,        \* what the worker, or the plugin in pull, is doing
  faults, outages, resets

calVars == <<transport, row, library, open, addFormat, job, faults, outages, resets>>

\* "needs" is skipped with outcome DeliverySkipNeedsAddFormat.
States == {"none", "pending", "delivered", "failed", "needs", "skipped"}
NoRowYet == [state |-> "none", attempts |-> 0, due |-> FALSE]
Queued   == [state |-> "pending", attempts |-> 0, due |-> TRUE]

\* todo: the rows still to do; file: the one in hand, read with `attempts';
\* stale: rows read that were deleted since; answer: what Calibre said.
NoJob == [pc |-> "idle", todo |-> {}, file |-> {}, attempts |-> [f \in Files |-> 0],
          second |-> FALSE, stale |-> {}, answer |-> "none"]

CalTypeOK ==
  /\ transport \in {"push", "pull", "calibredb"}
  /\ row \in [Files -> [state : States, attempts : Nat, due : BOOLEAN]]
  /\ library \subseteq Files /\ open \in BOOLEAN /\ addFormat \in BOOLEAN
  /\ job \in [pc : {"idle", "pick", "send", "read", "record"},
              todo : SUBSET Files, file : SUBSET Files,
              attempts : [Files -> Nat], second : BOOLEAN, stale : SUBSET Files,
              answer : {"none", "taken", "error", "fatal", "stop"}]
  /\ faults \in Nat /\ outages \in Nat /\ resets \in Nat

CalInit ==
  /\ transport \in {"push", "pull", "calibredb"}
  /\ row = [f \in Files |-> NoRowYet]
  /\ library = {} /\ open = TRUE /\ addFormat \in BOOLEAN
  /\ job = NoJob /\ faults = 0 /\ outages = 0 /\ resets = 0

-----------------------------------------------------------------------------
(* Statements of CalibreDeliveryRepo. *)

Due == {f \in Files : row[f].state = "pending" /\ row[f].due}

Waiting == {f \in Files : row[f].state = "needs"}

\* RearmSkipped, and Retry with the states a user asked for.
Rearmed(states) ==
  [f \in Files |-> IF row[f].state \in states THEN Queued ELSE row[f]]

\* Mutant: one attempt more than the limit.
GivesUpLate(attempts) == attempts > MaxAttempts

\* nextDeliveryAttempt, on the count the caller read.
GivesUp(attempts) == attempts >= MaxAttempts

MarkFailed(f, fatal) ==
  [row EXCEPT ![f] =
     [state |-> IF fatal \/ GivesUp(job.attempts[f] + 1) THEN "failed" ELSE "pending",
      attempts |-> row[f].attempts + 1, due |-> FALSE]]

MarkDelivered(f)  == [row EXCEPT ![f].state = "delivered"]

\* Mutant: the outcome is written and the state is not.
OutcomeOnly(f, s) == row

MarkSkipped(f, s) == [row EXCEPT ![f].state = s]

\* hasDeliveredSibling
Secondary(f) == \E g \in Files \ {f} : row[g].state = "delivered"

\* orderDeliveries
First(todo) == CHOOSE f \in todo : \A g \in todo : Rank[f] <= Rank[g]

-----------------------------------------------------------------------------
(* A pass of the worker (Deliverer.pass), and in pull a listing and the work *)
(* the plugin does on it.                                                    *)

Begin(rows, todo) ==
  /\ row' = rows
  /\ job' = IF todo = {} THEN NoJob
            ELSE [NoJob EXCEPT !.pc = "pick", !.todo = todo,
                               !.attempts = [f \in Files |-> rows[f].attempts]]

\* Mutant: an empty queue is nothing to do.
PassNeedsRows ==
  /\ transport # "pull" /\ job.pc = "idle" /\ open /\ Due # {}
  /\ LET rows == IF transport = "push" /\ addFormat THEN Rearmed({"needs"}) ELSE row
     IN Begin(rows, {f \in Files : rows[f].state = "pending" /\ rows[f].due})
  /\ UNCHANGED <<transport, library, open, addFormat, faults, outages, resets>>

\* A closed Calibre ends the pass at its probe.  Rows held for the plugin are
\* re-armed once it can add formats, even if nothing else is due.
PassStart ==
  /\ transport # "pull" /\ job.pc = "idle" /\ open
  /\ Due # {} \/ (transport = "push" /\ Waiting # {})
  /\ LET rows == IF transport = "push" /\ addFormat THEN Rearmed({"needs"}) ELSE row
     IN Begin(rows, {f \in Files : rows[f].state = "pending" /\ rows[f].due})
  /\ UNCHANGED <<transport, library, open, addFormat, faults, outages, resets>>

\* PullList.  Of the formats Calibre has none of yet only the preferred one is
\* listed; the others wait until it has been acknowledged.
PullList ==
  /\ transport = "pull" /\ job.pc = "idle" /\ open
  /\ LET rows == IF addFormat THEN Rearmed({"needs"}) ELSE row
         due  == {f \in Files : rows[f].state = "pending" /\ rows[f].due}
         held == {f \in due : Secondary(f) /\ ~addFormat}
         list == IF \A f \in due : ~Secondary(f) THEN {First(due)}
                 ELSE {f \in due \ held : Secondary(f)}
     IN /\ due # {}
        /\ Begin([f \in Files |-> IF f \in held THEN [rows[f] EXCEPT !.state = "needs"]
                                                ELSE rows[f]], list)
  /\ UNCHANGED <<transport, library, open, addFormat, faults, outages, resets>>

\* The next row of the batch, resolved: its file may be gone from disk or not
\* readable, or the statement that looks may fail, which leaves the row alone.
\* A push sends from its copy, the row deleted or not; in pull the plugin is
\* refused the file of a row that is gone (PullPending).
Resolve ==
  LET f == First(job.todo)
      rest == [job EXCEPT !.todo = @ \ {f},
                          !.pc = IF job.todo = {f} THEN "idle" ELSE "pick"]
      lost == f \in job.stale
  IN
  /\ job.pc = "pick"
  /\ \/ /\ Secondary(f) /\ ~addFormat
        /\ row' = (IF lost THEN row ELSE MarkSkipped(f, "needs"))
        /\ job' = rest /\ faults' = faults
     \/ /\ row' = (IF lost THEN row ELSE MarkSkipped(f, "skipped"))
        /\ job' = rest /\ faults' = faults
     \/ /\ row' = (IF lost THEN row ELSE MarkFailed(f, FALSE))
        /\ job' = rest /\ faults' = faults
     \/ /\ faults < MaxFaults /\ faults' = faults + 1
        /\ job' = rest /\ row' = row
     \/ /\ ~(Secondary(f) /\ ~addFormat) /\ (lost => transport # "pull")
        /\ job' = [rest EXCEPT !.pc = "send", !.file = {f}, !.second = Secondary(f)]
        /\ row' = row /\ faults' = faults
  /\ UNCHANGED <<transport, library, open, addFormat, outages, resets>>

\* What Calibre does with a file: a record's first file makes the record; a
\* further one is added only if asked for (AddFormat).  Otherwise the plugin
\* answers 409, which counts as taken, and calibredb an error.
Taken(f) == library = {} \/ job.second \/ transport # "calibredb"

LibraryWith(f) ==
  IF library = {} \/ job.second THEN library \cup {f} ELSE library

\* The call.  Its answer may be lost after Calibre acted, as a timeout, which
\* ends the pass, or as an answer that cannot be read, which is a failure.
Send ==
  LET f == CHOOSE f \in Files : job.file = {f}
      Answer(a) == job' = [job EXCEPT !.answer = a,
                                      !.pc = IF transport = "pull" THEN "read"
                                                                   ELSE "record"]
  IN
  /\ job.pc = "send"
  /\ \/ open /\ Taken(f) /\ library' = LibraryWith(f) /\ Answer("taken") /\ faults' = faults
     \/ open /\ ~Taken(f) /\ library' = library /\ Answer("error") /\ faults' = faults
     \/ /\ open /\ library' = library
        /\ \E a \in {"error", "fatal"} : Answer(a)
        /\ faults' = faults
     \/ /\ open /\ faults < MaxFaults /\ faults' = faults + 1
        /\ library' = LibraryWith(f)
        /\ \E a \in {"error", "stop"} : Answer(a)
     \/ ~open /\ library' = library /\ Answer("stop") /\ faults' = faults
  /\ UNCHANGED <<transport, row, open, addFormat, outages, resets>>

NextJob == [job EXCEPT !.file = {}, !.answer = "none", !.second = FALSE,
                       !.pc = IF job.todo = {} THEN "idle" ELSE "pick"]

\* PullAck and PullNack read the row before they write it: only a pending one
\* is taken, and a nack counts from the attempts it reads.
PullRead ==
  LET f == CHOOSE f \in Files : job.file = {f} IN
  /\ job.pc = "read"
  /\ job' = IF f \in job.stale \/ row[f].state # "pending" THEN NextJob
            ELSE [job EXCEPT !.pc = "record", !.attempts[f] = row[f].attempts]
  /\ UNCHANGED <<transport, row, library, open, addFormat, faults, outages, resets>>

\* recordDelivered or fail, and in pull their handlers' second half.  A row that
\* was deleted meanwhile matches nothing; the statement may fail.
Record ==
  LET f == CHOOSE f \in Files : job.file = {f} IN
  /\ job.pc = "record"
  /\ \/ /\ row' = (CASE f \in job.stale -> row
                     [] f \notin job.stale /\ job.answer = "taken" -> MarkDelivered(f)
                     [] f \notin job.stale /\ job.answer = "stop"  -> row
                     [] OTHER -> MarkFailed(f, job.answer = "fatal"))
        /\ faults' = faults
     \/ row' = row /\ faults < MaxFaults /\ faults' = faults + 1
  /\ job' = IF job.answer = "stop" THEN NoJob ELSE NextJob
  /\ UNCHANGED <<transport, library, open, addFormat, outages, resets>>

-----------------------------------------------------------------------------
(* Everyone else. *)

\* Enqueue, by an import or by Push all: a file with a row is left alone.
Enqueue(f) ==
  /\ row[f].state = "none"
  /\ row' = [row EXCEPT ![f] = Queued]
  /\ UNCHANGED <<transport, library, open, addFormat, job, faults, outages, resets>>

BackoffOver(f) ==
  /\ row[f].state = "pending" /\ ~row[f].due
  /\ row' = [row EXCEPT ![f].due = TRUE]
  /\ UNCHANGED <<transport, library, open, addFormat, job, faults, outages, resets>>

\* Retry failed, Retry skipped.
DeliveryRetry ==
  /\ resets < MaxResets /\ resets' = resets + 1
  /\ \E states \in {{"failed"}, {"needs", "skipped"}} : row' = Rearmed(states)
  /\ UNCHANGED <<transport, library, open, addFormat, job, faults, outages>>

\* ClearPending and ResetAll, and the cascade from a deleted book file.
Forget ==
  /\ resets < MaxResets /\ resets' = resets + 1
  /\ \E gone \in {{f \in Files : row[f].state = "pending"}, Files} :
       /\ row' = [f \in Files |-> IF f \in gone THEN NoRowYet ELSE row[f]]
       /\ job' = IF job.pc = "idle" THEN job
                 ELSE [job EXCEPT !.stale = @ \cup gone]
  /\ UNCHANGED <<transport, library, open, addFormat, faults, outages>>

CalibreOpens ==
  /\ ~open /\ open' = TRUE
  /\ UNCHANGED <<transport, row, library, addFormat, job, faults, outages, resets>>

CalibreCloses ==
  /\ open /\ outages < MaxOutages
  /\ open' = FALSE /\ outages' = outages + 1
  /\ UNCHANGED <<transport, row, library, addFormat, job, faults, resets>>

\* The plugin is updated: Calibre restarts.
PluginUpdated ==
  /\ ~addFormat /\ job.pc = "idle"
  /\ addFormat' = TRUE
  /\ UNCHANGED <<transport, row, library, open, job, faults, outages, resets>>

WorkerStep == PassStart \/ PullList \/ Resolve \/ Send \/ PullRead \/ Record

CalNext ==
  \/ WorkerStep
  \/ \E f \in Files : Enqueue(f) \/ BackoffOver(f)
  \/ DeliveryRetry \/ Forget \/ CalibreOpens \/ CalibreCloses \/ PluginUpdated

CalSpec == CalInit /\ [][CalNext]_calVars

\* The worker's ticks and the plugin's checks go on, time passes, and Calibre
\* does not stay closed.
CalFairness ==
  /\ WF_calVars(WorkerStep) /\ WF_calVars(CalibreOpens)
  /\ \A f \in Files : WF_calVars(BackoffOver(f))

CalFairSpec == CalSpec /\ CalFairness

-----------------------------------------------------------------------------
(* Properties. *)

\* "marked failed after 8 attempts": a row still waiting has attempts left,
\* through retries, resets and rows re-armed while a delivery is under way.
WaitingHasAttemptsLeft ==
  \A f \in Files : row[f].state = "pending" => row[f].attempts < MaxAttempts

\* Books wait for Calibre and are delivered when it opens: no row waits forever,
\* whatever the order of failures and outages.
QueueDrains == \A f \in Files : row[f].state = "pending" ~> row[f].state # "pending"

\* "the held formats are delivered to the same record on their own": once the
\* plugin can add formats, a format held for want of it is queued again, with
\* nothing else in the queue to start a pass.
HeldFormatsFollow ==
  \A f \in Files :
    (row[f].state = "needs" /\ addFormat /\ transport # "calibredb")
      ~> row[f].state # "needs"

\* CalibreDeliveryDelivered "reached Calibre": the file of a delivered row is in
\* the library.
DeliveredReachedCalibre ==
  resets = 0 => \A f \in Files : row[f].state = "delivered" => f \in library

=============================================================================
