---------------------------- MODULE DeliveryProofs ----------------------------
(***************************************************************************)
(* The attempts of the Calibre ledger, for any set of files and any limit: *)
(* a delivery counts from the attempts it read, and no row waits with none *)
(* left.  What carries it is that a row is never ahead of the copy a       *)
(* delivery holds of it, unless the row was deleted meanwhile.  Then what  *)
(* waits for a sibling: a format is handed off alone only late.            *)
(***************************************************************************)
EXTENDS CalibreDelivery, PairGating, WellFoundedInduction, TLAPS

Ledger == [Files -> [state : States, attempts : Nat, due : BOOLEAN]]

JobPcs  == {"idle", "pick", "send", "read", "record"}
Answers == {"none", "taken", "error", "fatal", "stop"}

\* The part of CalTypeOK the attempts depend on.
LedgerType ==
  /\ row \in Ledger
  /\ job \in [pc : JobPcs, todo : SUBSET Files, file : SUBSET Files,
              attempts : [Files -> Nat], second : BOOLEAN, stale : SUBSET Files,
              answer : Answers]

\* A job has a file in hand between the call and its record, and rows to do
\* before.
HandInv ==
  /\ job.pc = "idle" => job.todo = {} /\ job.file = {}
  /\ job.pc = "pick" => job.todo # {} /\ job.file = {}
  /\ job.pc \in {"send", "read", "record"} => \E f \in Files \ job.todo : job.file = {f}

\* The copy a job holds of a row is not behind the row.
CopyInv ==
  \A f \in (job.todo \cup job.file) \ job.stale : row[f].attempts <= job.attempts[f]

DeliveryInv == LedgerType /\ HandInv /\ CopyInv /\ WaitingHasAttemptsLeft

LEMMA DeliveryInitInv == CalInit => DeliveryInv
<1> SUFFICES ASSUME CalInit PROVE DeliveryInv
  OBVIOUS
<1>1. LedgerType
  BY DEF CalInit, LedgerType, Ledger, States, NoRowYet, NoJob, JobPcs, Answers
<1>2. HandInv /\ CopyInv
  BY DEF CalInit, HandInv, CopyInv, NoJob
<1>3. WaitingHasAttemptsLeft
  BY DEF CalInit, WaitingHasAttemptsLeft, NoRowYet
<1> QED BY <1>1, <1>2, <1>3 DEF DeliveryInv

-----------------------------------------------------------------------------

\* orderDeliveries has a first row whenever there is one.
LEMMA FirstIsOne ==
  ASSUME NEW todo \in SUBSET Files, todo # {} PROVE First(todo) \in todo
<1> DEFINE ranks == {Rank[f] : f \in todo}
<1>1. ranks \subseteq Nat /\ ranks # {}
  BY DeliveryAssumption
<1>2. PICK n \in ranks : \A m \in ranks : <<m, n>> \notin OpToRel(<, Nat)
  BY <1>1, NatLessThanWellFounded, WFMin
<1>3. \A m \in ranks : n <= m
  <2> SUFFICES ASSUME NEW m \in ranks, ~(n <= m) PROVE FALSE
    OBVIOUS
  <2>1. m \in Nat /\ n \in Nat
    BY <1>1
  <2>2. m < n
    BY <2>1
  <2>3. <<m, n>> \in Nat \X Nat /\ <<m, n>>[1] < <<m, n>>[2]
    BY <2>1, <2>2
  <2>4. <<m, n>> \in OpToRel(<, Nat)
    BY <2>3, Zenon DEF OpToRel
  <2> QED BY <1>2, <2>4
<1>4. \E f \in todo : \A g \in todo : Rank[f] <= Rank[g]
  BY <1>3
<1> QED BY <1>4 DEF First

\* A step that leaves the job alone and gives no row it has read an attempt more,
\* nor a waiting row its last.
LEMMA RowsStep ==
  ASSUME DeliveryInv, row' \in Ledger, job' = job,
         \A f \in Files : \/ row'[f].attempts <= row[f].attempts /\ row'[f].state = row[f].state
                          \/ row'[f].attempts = 0
  PROVE  DeliveryInv'
<1> USE DEF DeliveryInv
<1>1. CopyInv'
  BY DEF CopyInv, LedgerType, Ledger
<1>2. WaitingHasAttemptsLeft'
  BY DeliveryAssumption DEF WaitingHasAttemptsLeft, LedgerType, Ledger
<1> QED BY <1>1, <1>2 DEF LedgerType, HandInv

\* A row deleted, queued afresh or re-armed has all its attempts; the job is as before, or
\* knows of the deletion.
LEMMA RearmedLedger ==
  ASSUME row \in Ledger, NEW states
  PROVE  /\ Rearmed(states) \in Ledger
         /\ \A f \in Files : Rearmed(states)[f] = row[f] \/ Rearmed(states)[f].attempts = 0
BY DEF Rearmed, Ledger, States, Queued

\* A job that begins holds the attempts as they are.
LEMMA BeginStep ==
  ASSUME DeliveryInv, NEW rows \in Ledger, NEW todo \in SUBSET Files, Begin(rows, todo),
         \A f \in Files : rows[f].state = "pending" => rows[f].attempts < MaxAttempts
  PROVE  DeliveryInv'
<1> DEFINE counts == [f \in Files |-> rows[f].attempts]
<1>1. row' = rows /\ counts \in [Files -> Nat]
  BY DEF Begin, Ledger
<1>2. \/ job' = NoJob
      \/ todo # {} /\ job' = [pc |-> "pick", todo |-> todo, file |-> {}, attempts |-> counts,
                              second |-> FALSE, stale |-> {}, answer |-> "none"]
  BY DEF Begin, NoJob
<1>3. CASE job' = NoJob
  BY <1>1, <1>3 DEF DeliveryInv, LedgerType, HandInv, CopyInv, WaitingHasAttemptsLeft, NoJob,
     JobPcs, Answers
<1>4. CASE todo # {} /\ job' = [pc |-> "pick", todo |-> todo, file |-> {}, attempts |-> counts,
                                second |-> FALSE, stale |-> {}, answer |-> "none"]
  <2>1. LedgerType'
    BY <1>1, <1>4 DEF LedgerType, JobPcs, Answers
  <2>2. HandInv'
    BY <1>4 DEF HandInv
  <2>3. CopyInv'
    BY <1>1, <1>4 DEF CopyInv, Ledger
  <2> QED BY <1>1, <2>1, <2>2, <2>3 DEF DeliveryInv, WaitingHasAttemptsLeft
<1> QED BY <1>2, <1>3, <1>4

LEMMA PassStartStep == ASSUME DeliveryInv, PassStart PROVE DeliveryInv'
<1> DEFINE rows == IF transport = "push" /\ addFormat THEN Rearmed({"needs"}) ELSE row
           todo == {f \in Files : rows[f].state = "pending" /\ rows[f].due}
<1>1. rows \in Ledger /\ \A f \in Files : rows[f] = row[f] \/ rows[f].attempts = 0
  BY RearmedLedger DEF DeliveryInv, LedgerType
<1>2. \A f \in Files : rows[f].state = "pending" => rows[f].attempts < MaxAttempts
  BY <1>1, DeliveryAssumption DEF DeliveryInv, WaitingHasAttemptsLeft
<1>3. Begin(rows, todo)
  BY DEF PassStart
<1> HIDE DEF rows
<1> QED BY <1>1, <1>2, <1>3, BeginStep

LEMMA PullListStep == ASSUME DeliveryInv, PullList PROVE DeliveryInv'
<1> DEFINE rows == IF addFormat THEN Rearmed({"needs"}) ELSE row
           due  == {f \in Files : rows[f].state = "pending" /\ rows[f].due}
           held == {f \in due : Secondary(f) /\ ~addFormat}
           list == IF \A f \in due : ~Secondary(f) THEN {First(due)}
                   ELSE {f \in due \ held : Secondary(f)}
           kept == [f \in Files |-> IF f \in held THEN [rows[f] EXCEPT !.state = "needs"]
                                                  ELSE rows[f]]
<1>1. rows \in Ledger /\ \A f \in Files : rows[f] = row[f] \/ rows[f].attempts = 0
  BY RearmedLedger DEF DeliveryInv, LedgerType
<1>2. \A f \in Files : rows[f].state = "pending" => rows[f].attempts < MaxAttempts
  BY <1>1, DeliveryAssumption DEF DeliveryInv, WaitingHasAttemptsLeft
<1>3. Begin(kept, list) /\ due # {}
  BY DEF PullList
<1>4. list \in SUBSET Files
  BY <1>3, FirstIsOne
<1> HIDE DEF rows
<1>5. kept \in Ledger /\ \A f \in Files : \/ kept[f] = rows[f]
                                          \/ kept[f].state = "needs"
  BY <1>1 DEF Ledger, States
<1>6. \A f \in Files : kept[f].state = "pending" => kept[f].attempts < MaxAttempts
  BY <1>2, <1>5
<1> HIDE DEF kept, list
<1> QED BY <1>3, <1>4, <1>5, <1>6, BeginStep

-----------------------------------------------------------------------------

\* What the statements a delivery ends in make of a row it holds and that is still there.
LEMMA MarkedLedger ==
  ASSUME DeliveryInv, NEW f \in (job.todo \cup job.file) \ job.stale
  PROVE  /\ f \in Files
         /\ \A fatal \in BOOLEAN : MarkFailed(f, fatal) \in Ledger
                                   /\ \A g \in Files \ {f} : MarkFailed(f, fatal)[g] = row[g]
         /\ MarkDelivered(f) \in Ledger
         /\ \A g \in Files \ {f} : MarkDelivered(f)[g] = row[g]
         /\ \A s \in States : MarkSkipped(f, s) \in Ledger
                              /\ \A g \in Files \ {f} : MarkSkipped(f, s)[g] = row[g]
         /\ \A fatal \in BOOLEAN : MarkFailed(f, fatal)[f].state = "pending"
              => MarkFailed(f, fatal)[f].attempts < MaxAttempts
         /\ MarkDelivered(f)[f].state = "delivered"
         /\ \A s \in States : MarkSkipped(f, s)[f].state = s
<1>1. f \in Files /\ row[f] \in [state : States, attempts : Nat, due : BOOLEAN]
      /\ job.attempts[f] \in Nat
  BY DEF DeliveryInv, LedgerType, Ledger
<1>2. row[f].attempts <= job.attempts[f]
  BY DEF DeliveryInv, CopyInv
<1>3. \A fatal \in BOOLEAN : /\ MarkFailed(f, fatal) \in Ledger
                             /\ \A g \in Files \ {f} : MarkFailed(f, fatal)[g] = row[g]
  BY <1>1 DEF MarkFailed, DeliveryInv, LedgerType, Ledger, States
<1>4. \A fatal \in BOOLEAN : MarkFailed(f, fatal)[f].state = "pending"
        => MarkFailed(f, fatal)[f].attempts < MaxAttempts
  BY <1>1, <1>2, DeliveryAssumption DEF MarkFailed, GivesUp, DeliveryInv, LedgerType, Ledger
<1>5. MarkDelivered(f) \in Ledger /\ MarkDelivered(f)[f].state = "delivered"
      /\ \A g \in Files \ {f} : MarkDelivered(f)[g] = row[g]
  BY <1>1 DEF MarkDelivered, DeliveryInv, LedgerType, Ledger, States
<1>6. \A s \in States : MarkSkipped(f, s) \in Ledger /\ MarkSkipped(f, s)[f].state = s
                        /\ \A g \in Files \ {f} : MarkSkipped(f, s)[g] = row[g]
  BY <1>1 DEF MarkSkipped, DeliveryInv, LedgerType, Ledger
<1> QED BY <1>1, <1>3, <1>4, <1>5, <1>6

\* A delivery that is done with a row, whatever it wrote to it, and holds no more than it
\* did of the others.
LEMMA DoneWith ==
  ASSUME DeliveryInv, LedgerType', HandInv', NEW f,
         \A g \in Files \ {f} : row'[g] = row[g],
         f \in Files /\ row'[f].state = "pending" => row'[f].attempts < MaxAttempts,
         job'.attempts = job.attempts, job'.stale = job.stale,
         job'.todo \cup job'.file \subseteq (job.todo \cup job.file) \ {f}
  PROVE  DeliveryInv'
<1>1. CopyInv'
  BY DEF DeliveryInv, LedgerType, CopyInv
<1>2. WaitingHasAttemptsLeft'
  BY DEF DeliveryInv, WaitingHasAttemptsLeft
<1> QED BY <1>1, <1>2 DEF DeliveryInv

\* A delivery that leaves the rows alone and holds no more of them than it did.
LEMMA RowsKept ==
  ASSUME DeliveryInv, LedgerType', HandInv', row' = row,
         job'.attempts = job.attempts, job'.stale = job.stale,
         job'.todo \cup job'.file \subseteq job.todo \cup job.file
  PROVE  DeliveryInv'
BY DEF DeliveryInv, LedgerType, CopyInv, WaitingHasAttemptsLeft

LEMMA ResolveStep == ASSUME DeliveryInv, Resolve PROVE DeliveryInv'
<1> DEFINE f    == First(job.todo)
           rest == [job EXCEPT !.todo = @ \ {f},
                               !.pc = IF job.todo = {f} THEN "idle" ELSE "pick"]
           lost == f \in job.stale
<1>1. job.pc = "pick" /\ job.todo # {} /\ job.file = {} /\ job.todo \subseteq Files
  BY DEF Resolve, DeliveryInv, HandInv, LedgerType
<1>2. f \in job.todo
  BY <1>1, FirstIsOne
<1> HIDE DEF f
<1>3. /\ rest.todo = job.todo \ {f} /\ rest.file = {} /\ rest.attempts = job.attempts
      /\ rest.stale = job.stale /\ rest.pc \in {"idle", "pick"}
      /\ rest.pc = "idle" <=> rest.todo = {}
      /\ rest \in [pc : JobPcs, todo : SUBSET Files, file : SUBSET Files,
                   attempts : [Files -> Nat], second : BOOLEAN, stale : SUBSET Files,
                   answer : Answers]
  BY <1>1, <1>2 DEF DeliveryInv, LedgerType, JobPcs
<1>4. CASE job' = rest /\ \/ row' = IF lost THEN row ELSE MarkSkipped(f, "needs")
                          \/ row' = IF lost THEN row ELSE MarkSkipped(f, "skipped")
                          \/ row' = IF lost THEN row ELSE MarkFailed(f, FALSE)
                          \/ row' = row
  <2>1. HandInv'
    BY <1>3, <1>4 DEF HandInv
  <2>2. CASE row' = row
    BY <1>1, <1>2, <1>3, <1>4, <2>1, <2>2, RowsKept DEF DeliveryInv, LedgerType
  <2>3. CASE row' # row
    <3>1. ~lost
      BY <1>4, <2>3
    <3>2. f \in (job.todo \cup job.file) \ job.stale /\ f \in Files
      BY <1>1, <1>2, <3>1
    <3>3. \/ \E s \in {"needs", "skipped"} : row' = MarkSkipped(f, s)
          \/ row' = MarkFailed(f, FALSE)
      BY <1>4, <2>3, <3>1
    <3>4. /\ row' \in Ledger /\ \A g \in Files \ {f} : row'[g] = row[g]
          /\ row'[f].state = "pending" => row'[f].attempts < MaxAttempts
      <4>1. CASE row' = MarkFailed(f, FALSE)
        BY <3>2, <4>1, MarkedLedger
      <4>2. ASSUME NEW s \in {"needs", "skipped"}, row' = MarkSkipped(f, s)
            PROVE  row' \in Ledger /\ row'[f].state = s
                   /\ \A g \in Files \ {f} : row'[g] = row[g]
        <5>1. s \in States
          BY DEF States
        <5> QED BY <3>2, <4>2, <5>1, MarkedLedger
      <4> QED BY <3>3, <4>1, <4>2
    <3>5. LedgerType'
      BY <1>3, <1>4, <3>4 DEF LedgerType
    <3>6. job'.todo \cup job'.file \subseteq (job.todo \cup job.file) \ {f}
      BY <1>3, <1>4
    <3> HIDE DEF rest
    <3> QED BY <1>3, <1>4, <2>1, <3>4, <3>5, <3>6, DoneWith
  <2> QED BY <2>2, <2>3
<1>5. CASE row' = row /\ job' = [rest EXCEPT !.pc = "send", !.file = {f},
                                             !.second = Secondary(f)]
  <2>1. /\ job'.pc = "send" /\ job'.file = {f} /\ job'.todo = job.todo \ {f}
        /\ job'.attempts = job.attempts /\ job'.stale = job.stale
        /\ job' \in [pc : JobPcs, todo : SUBSET Files, file : SUBSET Files,
                     attempts : [Files -> Nat], second : BOOLEAN, stale : SUBSET Files,
                     answer : Answers]
    <3>1. Secondary(f) \in BOOLEAN /\ {f} \in SUBSET Files /\ "send" \in JobPcs
      BY <1>1, <1>2 DEF Secondary, JobPcs
    <3> HIDE DEF rest
    <3> QED BY <1>3, <1>5, <3>1
  <2>2. HandInv'
    BY <1>1, <1>2, <2>1 DEF HandInv
  <2>3. LedgerType'
    BY <1>5, <2>1 DEF DeliveryInv, LedgerType
  <2> QED BY <1>2, <1>5, <2>1, <2>2, <2>3, RowsKept
<1> QED BY <1>4, <1>5 DEF Resolve, f

\* The one file in hand.
InHand == CHOOSE f \in Files : job.file = {f}

LEMMA HandIsOne ==
  ASSUME DeliveryInv, job.pc \in {"send", "read", "record"}
  PROVE  InHand \in Files \ job.todo /\ job.file = {InHand}
<1>1. PICK f \in Files \ job.todo : job.file = {f}
  BY DEF DeliveryInv, HandInv
<1>2. InHand \in Files /\ job.file = {InHand}
  BY <1>1 DEF InHand
<1> QED BY <1>1, <1>2

LEMMA SendStep == ASSUME DeliveryInv, Send PROVE DeliveryInv'
<1>1. row' = row /\ job.pc = "send"
  BY DEF Send
<1>2. PICK a \in {"taken", "error", "fatal", "stop"}, pc \in {"read", "record"} :
        job' = [job EXCEPT !.answer = a, !.pc = pc]
  BY DEF Send
<1>3. /\ job'.pc = pc /\ job'.todo = job.todo /\ job'.file = job.file
      /\ job'.attempts = job.attempts /\ job'.stale = job.stale
      /\ job' \in [pc : JobPcs, todo : SUBSET Files, file : SUBSET Files,
                   attempts : [Files -> Nat], second : BOOLEAN, stale : SUBSET Files,
                   answer : Answers]
  BY <1>2 DEF DeliveryInv, LedgerType, JobPcs, Answers
<1>4. HandInv'
  BY <1>1, <1>3 DEF DeliveryInv, HandInv
<1>5. LedgerType'
  BY <1>1, <1>3 DEF DeliveryInv, LedgerType
<1> QED BY <1>1, <1>3, <1>4, <1>5, RowsKept

\* NextJob drops the file in hand.
LEMMA NextJobHolds ==
  ASSUME DeliveryInv
  PROVE  /\ NextJob.todo = job.todo /\ NextJob.file = {} /\ NextJob.attempts = job.attempts
         /\ NextJob.stale = job.stale /\ NextJob.pc \in {"idle", "pick"}
         /\ NextJob.pc = "idle" <=> job.todo = {}
         /\ NextJob \in [pc : JobPcs, todo : SUBSET Files, file : SUBSET Files,
                         attempts : [Files -> Nat], second : BOOLEAN, stale : SUBSET Files,
                         answer : Answers]
BY DEF NextJob, DeliveryInv, LedgerType, JobPcs, Answers

LEMMA NoJobHolds ==
  /\ NoJob.todo = {} /\ NoJob.file = {} /\ NoJob.pc = "idle"
  /\ NoJob \in [pc : JobPcs, todo : SUBSET Files, file : SUBSET Files,
                attempts : [Files -> Nat], second : BOOLEAN, stale : SUBSET Files,
                answer : Answers]
BY DEF NoJob, JobPcs, Answers

LEMMA PullReadStep == ASSUME DeliveryInv, PullRead PROVE DeliveryInv'
<1>1. row' = row /\ job.pc = "read"
  BY DEF PullRead
<1>2. \/ job' = NextJob
      \/ job' = [job EXCEPT !.pc = "record", !.attempts[InHand] = row[InHand].attempts]
  BY DEF PullRead, InHand
<1>3. CASE job' = NextJob
  <2>1. HandInv' /\ LedgerType'
    BY <1>1, <1>3, NextJobHolds DEF HandInv, LedgerType, DeliveryInv
  <2> QED BY <1>1, <1>3, <2>1, NextJobHolds, RowsKept
<1>4. CASE job' = [job EXCEPT !.pc = "record", !.attempts[InHand] = row[InHand].attempts]
  <2>1. InHand \in Files \ job.todo /\ job.file = {InHand} /\ row[InHand].attempts \in Nat
    BY <1>1, HandIsOne DEF DeliveryInv, LedgerType, Ledger
  <2>2. /\ job'.pc = "record" /\ job'.todo = job.todo /\ job'.file = job.file
        /\ job'.attempts = [job.attempts EXCEPT ![InHand] = row[InHand].attempts]
        /\ job'.stale = job.stale
        /\ job' \in [pc : JobPcs, todo : SUBSET Files, file : SUBSET Files,
                     attempts : [Files -> Nat], second : BOOLEAN, stale : SUBSET Files,
                     answer : Answers]
    BY <1>4, <2>1 DEF DeliveryInv, LedgerType, JobPcs
  <2>3. HandInv' /\ LedgerType'
    BY <1>1, <2>1, <2>2 DEF HandInv, LedgerType, DeliveryInv
  <2>4. CopyInv'
    BY <1>1, <2>1, <2>2 DEF CopyInv, DeliveryInv, LedgerType
  <2> QED BY <1>1, <2>3, <2>4 DEF DeliveryInv, WaitingHasAttemptsLeft
<1> QED BY <1>2, <1>3, <1>4

LEMMA RecordStep == ASSUME DeliveryInv, Record PROVE DeliveryInv'
<1>1. job.pc = "record" /\ (job' = NoJob \/ job' = NextJob)
  BY DEF Record
<1>2. InHand \in Files \ job.todo /\ job.file = {InHand}
  BY <1>1, HandIsOne
<1>3. /\ row' \in Ledger /\ \A g \in Files \ {InHand} : row'[g] = row[g]
      /\ row'[InHand].state = "pending" => row'[InHand].attempts < MaxAttempts
  <2>1. \/ row' = row
        \/ /\ InHand \notin job.stale
           /\ \/ row' = MarkDelivered(InHand)
              \/ \E fatal \in BOOLEAN : row' = MarkFailed(InHand, fatal)
    BY <1>2 DEF Record, InHand
  <2>2. CASE row' = row
    BY <1>2, <2>2 DEF DeliveryInv, LedgerType, WaitingHasAttemptsLeft
  <2>3. CASE InHand \notin job.stale /\ row' = MarkDelivered(InHand)
    BY <1>2, <2>3, MarkedLedger
  <2>4. ASSUME InHand \notin job.stale, NEW fatal \in BOOLEAN,
               row' = MarkFailed(InHand, fatal)
        PROVE  /\ row' \in Ledger /\ \A g \in Files \ {InHand} : row'[g] = row[g]
               /\ row'[InHand].state = "pending" => row'[InHand].attempts < MaxAttempts
    BY <1>2, <2>4, MarkedLedger
  <2> QED BY <2>1, <2>2, <2>3, <2>4
<1>4. HandInv' /\ LedgerType'
  BY <1>1, <1>3, NextJobHolds, NoJobHolds DEF HandInv, LedgerType
<1>5. CASE job' = NoJob
  <2>1. CopyInv'
    BY <1>5, NoJobHolds DEF CopyInv
  <2>2. WaitingHasAttemptsLeft'
    BY <1>3 DEF WaitingHasAttemptsLeft, DeliveryInv
  <2> QED BY <1>4, <2>1, <2>2 DEF DeliveryInv
<1>6. CASE job' = NextJob
  BY <1>2, <1>3, <1>4, <1>6, NextJobHolds, DoneWith
<1> QED BY <1>1, <1>5, <1>6

\* Clear waiting and Reset: the rows go, and a job under way knows nothing of it.
LEMMA ForgetStep == ASSUME DeliveryInv, Forget PROVE DeliveryInv'
<1>1. PICK gone \in SUBSET Files :
        /\ row' = [f \in Files |-> IF f \in gone THEN NoRowYet ELSE row[f]]
        /\ job' = IF job.pc = "idle" THEN job ELSE [job EXCEPT !.stale = @ \cup gone]
  BY DEF Forget
<1>2. row' \in Ledger
  BY <1>1 DEF DeliveryInv, LedgerType, Ledger, NoRowYet, States
<1>3. /\ job'.pc = job.pc /\ job'.todo = job.todo /\ job'.file = job.file
      /\ job'.attempts = job.attempts
      /\ job'.stale = job.stale \/ job'.stale = job.stale \cup gone
      /\ job' \in [pc : JobPcs, todo : SUBSET Files, file : SUBSET Files,
                   attempts : [Files -> Nat], second : BOOLEAN, stale : SUBSET Files,
                   answer : Answers]
  BY <1>1 DEF DeliveryInv, LedgerType
<1>4. \A f \in Files : row'[f] = row[f] \/ row'[f] = NoRowYet
  BY <1>1
<1>5. CopyInv'
  <2> SUFFICES ASSUME NEW f \in (job'.todo \cup job'.file) \ job'.stale
               PROVE  row'[f].attempts <= job'.attempts[f]
    BY DEF CopyInv
  <2>1. f \in (job.todo \cup job.file) \ job.stale /\ f \in Files
    BY <1>3 DEF DeliveryInv, LedgerType
  <2>2. row[f].attempts <= job.attempts[f] /\ job.attempts[f] \in Nat
    BY <2>1 DEF DeliveryInv, CopyInv, LedgerType
  <2> QED BY <1>3, <1>4, <2>1, <2>2 DEF NoRowYet
<1>6. WaitingHasAttemptsLeft'
  BY <1>4 DEF WaitingHasAttemptsLeft, DeliveryInv, NoRowYet
<1> QED BY <1>2, <1>3, <1>5, <1>6 DEF DeliveryInv, LedgerType, HandInv

-----------------------------------------------------------------------------

\* The inductive invariant of the delivery queue.
THEOREM DeliveryInvariant == CalSpec => []DeliveryInv
<1>1. DeliveryInv /\ [CalNext]_calVars => DeliveryInv'
  <2> SUFFICES ASSUME DeliveryInv, [CalNext]_calVars PROVE DeliveryInv'
    OBVIOUS
  <2>a. row \in Ledger
    BY DEF DeliveryInv, LedgerType
  <2>1. CASE WorkerStep
    BY <2>1, PassStartStep, PullListStep, ResolveStep, SendStep, PullReadStep, RecordStep
       DEF WorkerStep
  <2>2. ASSUME NEW f \in Files, Enqueue(f) PROVE DeliveryInv'
    <3>1. row' \in Ledger /\ \A g \in Files : row'[g] = row[g] \/ row'[g].attempts = 0
      BY <2>a, <2>2 DEF Enqueue, Ledger, Queued, States
    <3> QED BY <2>a, <2>2, <3>1, RowsStep DEF Enqueue, Ledger
  <2>3. ASSUME NEW f \in Files, BackoffOver(f) PROVE DeliveryInv'
    <3>1. row' \in Ledger /\ \A g \in Files : /\ row'[g].attempts = row[g].attempts
                                              /\ row'[g].state = row[g].state
      BY <2>a, <2>3 DEF BackoffOver, Ledger
    <3> QED BY <2>a, <2>3, <3>1, RowsStep DEF BackoffOver, Ledger
  <2>4. CASE DeliveryRetry
    <3>1. PICK states : row' = Rearmed(states)
      BY <2>4 DEF DeliveryRetry
    <3>2. row' \in Ledger /\ \A g \in Files : row'[g] = row[g] \/ row'[g].attempts = 0
      BY <2>a, <3>1, RearmedLedger
    <3> QED BY <2>a, <2>4, <3>2, RowsStep DEF DeliveryRetry, Ledger
  <2>5. CASE Forget
    BY <2>5, ForgetStep
  <2>6. CASE CalibreOpens \/ CalibreCloses \/ PluginUpdated \/ UNCHANGED calVars
    BY <2>6 DEF CalibreOpens, CalibreCloses, PluginUpdated, calVars, DeliveryInv, LedgerType,
       HandInv, CopyInv, WaitingHasAttemptsLeft
  <2> QED BY <2>1, <2>2, <2>3, <2>4, <2>5, <2>6 DEF CalNext
<1> QED BY <1>1, DeliveryInitInv, PTL DEF CalSpec

\* nextDeliveryAttempt, on a count read before the call: for any number of files and any
\* limit, no row waits for Calibre with no attempt left.
THEOREM AttemptsAlwaysLeft == CalFairSpec => []WaitingHasAttemptsLeft
<1>1. DeliveryInv => WaitingHasAttemptsLeft
  BY DEF DeliveryInv
<1> QED BY <1>1, DeliveryInvariant, PTL DEF CalFairSpec

-----------------------------------------------------------------------------
(* Pair gating. *)

ImporterRecords ==
  [pc : {"idle", "sweep", "own", "pair", "finish"}, dl : Drops \cup {NoDrop},
   todo : SUBSET Drops, sib : Drops \cup {NoDrop}]

\* What lets a download that is not overdue be handed off.
MayDrop(d) ==
  \/ ~gating \/ changes > 0
  \/ OtherFmt(Fmt[d]) \in onDisk
  \/ \E s \in arrived : Fmt[s] = OtherFmt(Fmt[d])

\* An importer sweeps rows that were overdue when it listed them, and past the gate it
\* has a download that may be dropped, and a sibling of the other format if any.
ImporterInv(w) ==
  LET i == importer[w]
  IN /\ i.todo \subseteq overdue
     /\ i.dl # NoDrop => i.dl \in arrived
     /\ i.pc \in {"own", "pair", "finish"} => i.dl \in Drops /\ MayDrop(i.dl)
     /\ (i.pc = "own" /\ i.sib # NoDrop) \/ i.pc = "pair" =>
          i.sib \in Drops /\ Fmt[i.sib] = OtherFmt(Fmt[i.dl])

PairInv ==
  /\ drop \in [Drops -> DownloadState] /\ changes \in Nat
  /\ importer \in [Importers -> ImporterRecords]
  /\ changes = 0 => dropsTo = Formats
  /\ Held \subseteq arrived
  /\ \A w \in Importers : ImporterInv(w)

\* A status write changes one row, to the state it names or not at all, whatever the
\* transition table says.
LEMMA WriteOne ==
  ASSUME drop \in [Drops -> DownloadState], NEW d \in Drops, NEW next \in DownloadState,
         NEW new, new = Moved(d, next) \/ new = Failed(d, next)
  PROVE  /\ new \in [Drops -> DownloadState]
         /\ new[d] \in {drop[d], next}
         /\ \A e \in Drops \ {d} : new[e] = drop[e]
<1>1. new = drop \/ new = [drop EXCEPT ![d] = next]
  BY DEF Moved, Failed
<1> QED BY <1>1

\* One row written, and nobody held by it: what the other conjuncts speak of is as before.
LEMMA PairKept ==
  ASSUME PairInv, UNCHANGED PairWorld, arrived \subseteq arrived',
         drop' \in [Drops -> DownloadState],
         \A d \in Drops : drop'[d] = "importHeld" => drop[d] = "importHeld" \/ d \in arrived',
         importer' \in [Importers -> ImporterRecords],
         NEW w \in Importers, ImporterInv(w)',
         \A v \in Importers \ {w} : importer'[v] = importer[v]
  PROVE  PairInv'
<1>1. \A d : MayDrop(d) => MayDrop(d)'
  BY DEF PairInv, PairWorld, MayDrop
<1>2. ASSUME NEW v \in Importers, v # w PROVE ImporterInv(v)'
  <2>1. ImporterInv(v) /\ importer'[v] = importer[v] /\ overdue' = overdue
    BY <1>2 DEF PairInv, PairWorld
  <2> QED BY <1>1, <2>1 DEF ImporterInv
<1>3. (Held \subseteq arrived)'
  BY DEF PairInv, Held
<1>4. \A v \in Importers : ImporterInv(v)'
  BY <1>2
<1> QED BY <1>3, <1>4 DEF PairInv, PairWorld

LEMMA PairInitInv == PairInit => PairInv
<1> SUFFICES ASSUME PairInit PROVE PairInv
  OBVIOUS
<1>1. drop \in [Drops -> DownloadState] /\ Held = {}
  BY DEF PairInit, DownloadState, Held
<1>2. importer \in [Importers -> ImporterRecords]
  BY DEF PairInit, ImporterRecords, Resting
<1>3. ASSUME NEW w \in Importers PROVE ImporterInv(w)
  BY <1>3 DEF PairInit, ImporterInv, Resting
<1> QED BY <1>1, <1>2, <1>3 DEF PairInit, PairInv

\* An importer that goes back to rest, its row written to anything but a hold of a row
\* no import took up.
LEMMA RestStep ==
  ASSUME PairInv, NEW w \in Importers, UNCHANGED PairWorld, arrived' = arrived,
         importer' = [importer EXCEPT ![w] = Resting],
         drop' \in [Drops -> DownloadState],
         \A d \in Drops : drop'[d] = "importHeld" => drop[d] = "importHeld" \/ d \in arrived
  PROVE  PairInv'
<1>1. importer' \in [Importers -> ImporterRecords]
  BY DEF PairInv, ImporterRecords, Resting
<1>2. ImporterInv(w)'
  BY DEF PairInv, ImporterInv, Resting
<1>3. \A v \in Importers \ {w} : importer'[v] = importer[v]
  BY DEF PairInv
<1> QED BY <1>1, <1>2, <1>3, PairKept

\* What a download's row becomes when it is placed or fails: never held.
LEMMA PlacedRow ==
  ASSUME PairInv, NEW d \in Drops,
         PlaceAndFinish(d) \/ \E next \in {"importExternal", "importFailed", "importBlocked"} :
                                drop' = Moved(d, next) \/ drop' = Failed(d, next)
  PROVE  /\ drop' \in [Drops -> DownloadState]
         /\ \A e \in Drops : drop'[e] = "importHeld" => drop[e] = "importHeld"
         /\ \A e \in Drops \ {d} : drop'[e] = drop[e]
<1>1. PICK next \in {"importExternal", "importFailed", "importBlocked"} :
        drop' = Moved(d, next) \/ drop' = Failed(d, next)
  BY DEF PlaceAndFinish
<1>2. next \in DownloadState /\ next # "importHeld"
  BY DEF DownloadState
<1>3. drop \in [Drops -> DownloadState]
  BY DEF PairInv
<1> QED BY <1>1, <1>2, <1>3, WriteOne

LEMMA SweepRowStep ==
  ASSUME PairInv, NEW w \in Importers, NEW h \in Drops, SweepRow(w, h) PROVE PairInv'
<1>1. /\ drop' \in [Drops -> DownloadState]
      /\ \A e \in Drops : drop'[e] = "importHeld" => drop[e] = "importHeld"
  <2>1. CASE UNCHANGED drop
    BY <2>1 DEF PairInv
  <2>2. CASE drop' = Failed(h, "importFailed") \/ PlaceAndFinish(h)
    BY <2>2, PlacedRow
  <2> QED BY <2>1, <2>2 DEF SweepRow
<1>2. /\ importer' = [importer EXCEPT ![w].todo = @ \ {h}] /\ UNCHANGED <<PairWorld, arrived>>
      /\ importer[w].pc = "sweep"
  BY DEF SweepRow, At
<1>3. importer[w] \in ImporterRecords /\ importer \in [Importers -> ImporterRecords]
      /\ ImporterInv(w)
  BY DEF PairInv
<1>4. importer'[w] = [importer[w] EXCEPT !.todo = @ \ {h}]
      /\ \A v \in Importers \ {w} : importer'[v] = importer[v]
  BY <1>2, <1>3
<1>5. importer' \in [Importers -> ImporterRecords]
  BY <1>2, <1>3, <1>4 DEF ImporterRecords
<1>6. ImporterInv(w)'
  BY <1>2, <1>3, <1>4 DEF ImporterInv, ImporterRecords, PairWorld
<1> QED BY <1>1, <1>2, <1>4, <1>5, <1>6, PairKept

\* The gate's ends, all but the hold.
LEMMA GateEndStep ==
  ASSUME PairInv, NEW w \in Importers, GateHandsOff(w) \/ GateFails(w) \/ GateBlocks(w)
  PROVE  PairInv'
<1>1. importer[w].dl \in Drops
  BY DEF PairInv, ImporterRecords, GateHandsOff, GateFails, GateBlocks, AtGate
<1>2. /\ drop' \in [Drops -> DownloadState]
      /\ \A e \in Drops : drop'[e] = "importHeld" => drop[e] = "importHeld"
  BY <1>1, PlacedRow DEF GateHandsOff, GateFails, GateBlocks
<1> QED BY <1>2, RestStep DEF GateHandsOff, GateFails, GateBlocks

LEMMA GateHoldsStep ==
  ASSUME PairInv, NEW w \in Importers, GateHolds(w) PROVE PairInv'
<1>1. importer[w].dl \in Drops /\ importer[w].dl \in arrived
  BY DEF PairInv, ImporterRecords, ImporterInv, GateHolds, AtGate
<1>2. drop \in [Drops -> DownloadState] /\ "importHeld" \in DownloadState
  BY DEF PairInv, DownloadState
<1>3. /\ drop' \in [Drops -> DownloadState]
      /\ \A e \in Drops \ {importer[w].dl} : drop'[e] = drop[e]
  BY <1>1, <1>2, WriteOne DEF GateHolds
<1> QED BY <1>1, <1>3, RestStep DEF GateHolds

\* A download that passes the gate may be dropped, and its sibling has arrived.
LEMMA GateDropsStep ==
  ASSUME PairInv, NEW w \in Importers, GateDrops(w) PROVE PairInv'
<1> DEFINE d == importer[w].dl
<1>1. PICK s \in IF Gated(d) /\ HeldSiblings(d) # {} THEN HeldSiblings(d) ELSE {NoDrop} :
        importer' = [importer EXCEPT ![w].pc = "own", ![w].sib = s]
  BY DEF GateDrops
<1>2. importer[w] \in ImporterRecords /\ importer \in [Importers -> ImporterRecords]
      /\ ImporterInv(w) /\ Held \subseteq arrived /\ Held \subseteq Drops
      /\ changes \in Nat /\ (changes = 0 => dropsTo = Formats)
  BY DEF PairInv, Held
<1>3. d \in Drops /\ d # NoDrop /\ UNCHANGED <<PairWorld, drop, arrived>>
      /\ ~(Gated(d) /\ Unpaired(d))
  BY <1>2 DEF GateDrops, AtGate, ImporterRecords
<1>4. HeldSiblings(d) \subseteq Held
      /\ \A h \in HeldSiblings(d) : Fmt[h] = OtherFmt(Fmt[d])
  BY DEF HeldSiblings
<1>5. s \in Drops \cup {NoDrop} /\ (s # NoDrop => Fmt[s] = OtherFmt(Fmt[d]))
  BY <1>1, <1>2, <1>4
<1>6. MayDrop(d)
  <2>1. CASE ~Gated(d)
    <3>1. OtherFmt(Fmt[d]) \in Formats
      BY DEF OtherFmt, Formats
    <3> QED BY <2>1, <3>1, <1>2 DEF Gated, MayDrop
  <2>2. CASE ~Unpaired(d)
    BY <2>2, <1>2, <1>4 DEF Unpaired, MayDrop
  <2> QED BY <1>3, <2>1, <2>2
<1>7. importer'[w] = [importer[w] EXCEPT !.pc = "own", !.sib = s]
      /\ \A v \in Importers \ {w} : importer'[v] = importer[v]
  BY <1>1, <1>2
<1>8. importer' \in [Importers -> ImporterRecords]
  BY <1>1, <1>2, <1>5 DEF ImporterRecords
<1>9. ImporterInv(w)'
  <2>1. \A e \in Drops : MayDrop(e) => MayDrop(e)'
    BY <1>3 DEF MayDrop, PairWorld
  <2>2. /\ importer'[w].pc = "own" /\ importer'[w].dl = d /\ importer'[w].sib = s
        /\ importer'[w].todo = importer[w].todo
    BY <1>2, <1>7 DEF ImporterRecords
  <2> QED BY <1>2, <1>3, <1>5, <1>6, <2>1, <2>2 DEF ImporterInv, PairWorld
<1>10. drop' \in [Drops -> DownloadState]
  BY <1>3 DEF PairInv
<1> QED BY <1>3, <1>7, <1>8, <1>9, <1>10, PairKept

LEMMA PlaceOwnStep ==
  ASSUME PairInv, NEW w \in Importers, PlaceOwn(w) PROVE PairInv'
<1>1. importer[w] \in ImporterRecords /\ importer \in [Importers -> ImporterRecords]
      /\ ImporterInv(w) /\ importer[w].pc = "own" /\ importer[w].dl \in Drops
  BY DEF PairInv, ImporterInv, PlaceOwn, At
<1>2. CASE /\ drop' = drop
           /\ importer' = [importer EXCEPT ![w].pc =
                             IF importer[w].sib = NoDrop THEN "finish" ELSE "pair"]
  <2>1. /\ importer'[w] = [importer[w] EXCEPT !.pc =
                             IF importer[w].sib = NoDrop THEN "finish" ELSE "pair"]
        /\ \A v \in Importers \ {w} : importer'[v] = importer[v]
    BY <1>1, <1>2
  <2>2. importer' \in [Importers -> ImporterRecords]
    BY <1>1, <1>2 DEF ImporterRecords
  <2>3. \A e \in Drops : MayDrop(e) => MayDrop(e)'
    BY DEF MayDrop, PairWorld, PlaceOwn
  <2>4. ImporterInv(w)'
    BY <1>1, <2>1, <2>3 DEF ImporterInv, ImporterRecords, PairWorld, PlaceOwn
  <2>5. drop' \in [Drops -> DownloadState]
    BY <1>2 DEF PairInv
  <2> QED BY <1>2, <2>1, <2>2, <2>4, <2>5, PairKept DEF PlaceOwn
<1>3. CASE /\ drop' \in {Failed(importer[w].dl, "importFailed"),
                         Failed(importer[w].dl, "importBlocked")}
           /\ importer' = [importer EXCEPT ![w] = Resting]
  <2>1. /\ drop' \in [Drops -> DownloadState]
        /\ \A e \in Drops : drop'[e] = "importHeld" => drop[e] = "importHeld"
    BY <1>1, <1>3, PlacedRow
  <2> QED BY <1>3, <2>1, RestStep DEF PlaceOwn
<1> QED BY <1>2, <1>3 DEF PlaceOwn

LEMMA ReleaseStep ==
  ASSUME PairInv, NEW w \in Importers, ReleaseSibling(w) PROVE PairInv'
<1>1. importer[w] \in ImporterRecords /\ importer \in [Importers -> ImporterRecords]
      /\ ImporterInv(w) /\ importer[w].pc = "pair" /\ importer[w].sib \in Drops
  BY DEF PairInv, ImporterInv, ReleaseSibling, At
<1>2. /\ drop' \in [Drops -> DownloadState]
      /\ \A e \in Drops : drop'[e] = "importHeld" => drop[e] = "importHeld"
  BY <1>1, PlacedRow DEF ReleaseSibling
<1>3. importer'[w] = [importer[w] EXCEPT !.pc = "finish"]
      /\ \A v \in Importers \ {w} : importer'[v] = importer[v]
  BY <1>1 DEF ReleaseSibling
<1>4. importer' \in [Importers -> ImporterRecords]
  BY <1>1 DEF ReleaseSibling, ImporterRecords
<1>5. \A e \in Drops : MayDrop(e) => MayDrop(e)'
  BY DEF MayDrop, PairWorld, ReleaseSibling
<1>6. ImporterInv(w)'
  BY <1>1, <1>3, <1>5 DEF ImporterInv, ImporterRecords, PairWorld, ReleaseSibling
<1> QED BY <1>2, <1>3, <1>4, <1>6, PairKept DEF ReleaseSibling

LEMMA FinishStep ==
  ASSUME PairInv, NEW w \in Importers, FinishOwn(w) PROVE PairInv'
<1>1. importer[w].dl \in Drops
  BY DEF PairInv, ImporterInv, FinishOwn, At
<1>2. /\ drop' \in [Drops -> DownloadState]
      /\ \A e \in Drops : drop'[e] = "importHeld" => drop[e] = "importHeld"
  BY <1>1, PlacedRow DEF FinishOwn
<1> QED BY <1>2, RestStep DEF FinishOwn

\* An import or a sweep begins: its list is of overdue rows.
LEMMA PairStartStep ==
  ASSUME PairInv, NEW w \in Importers, NEW d \in Drops \cup {NoDrop},
         d # NoDrop => d \in arrived', arrived \subseteq arrived', UNCHANGED PairWorld,
         importer' = [importer EXCEPT ![w] = [pc |-> "sweep", dl |-> d,
                                              todo |-> Held \cap overdue, sib |-> NoDrop]],
         drop' \in [Drops -> DownloadState],
         \A e \in Drops : drop'[e] = "importHeld" => drop[e] = "importHeld"
  PROVE  PairInv'
<1>1. importer \in [Importers -> ImporterRecords] /\ Held \subseteq Drops
  BY DEF PairInv, Held
<1>2. /\ importer'[w] = [pc |-> "sweep", dl |-> d, todo |-> Held \cap overdue, sib |-> NoDrop]
      /\ \A v \in Importers \ {w} : importer'[v] = importer[v]
  BY <1>1
<1>3. importer' \in [Importers -> ImporterRecords]
  BY <1>1, <1>2 DEF ImporterRecords
<1>4. ImporterInv(w)'
  BY <1>2 DEF ImporterInv, PairWorld
<1> QED BY <1>2, <1>3, <1>4, PairKept

LEMMA PairStep ==
  ASSUME PairInv, [PairNext]_pairVars PROVE PairInv'
<1>a. drop \in [Drops -> DownloadState] /\ importer \in [Importers -> ImporterRecords]
  BY DEF PairInv
<1>1. ASSUME NEW w \in Importers, ImporterStep(w) PROVE PairInv'
  <2>1. CASE SweepDone(w)
    <3>1. /\ drop' \in [Drops -> DownloadState] /\ UNCHANGED <<drop, PairWorld, arrived>>
          /\ importer' = [importer EXCEPT ![w] = Resting]
      BY <1>a, <2>1 DEF SweepDone
    <3> QED BY <3>1, RestStep
  <2> QED BY <1>1, <2>1, GateEndStep, GateHoldsStep, GateDropsStep, PlaceOwnStep, ReleaseStep,
             FinishStep, SweepRowStep DEF ImporterStep
<1>2. ASSUME NEW w \in Importers, NEW d \in Drops, PairStart(w, d) PROVE PairInv'
  <2>1. "importPending" \in DownloadState
    BY DEF DownloadState
  <2>2. /\ drop' \in [Drops -> DownloadState]
        /\ \A e \in Drops : drop'[e] = "importHeld" => drop[e] = "importHeld"
    BY <1>a, <1>2, <2>1, WriteOne DEF PairStart
  <2> QED BY <1>2, <2>2, PairStartStep DEF PairStart
<1>3. CASE PairTick
  BY <1>a, <1>3, PairStartStep DEF PairTick, Importers
<1>4. ASSUME NEW d \in Drops, PairRetry(d) PROVE PairInv'
  <2>1. /\ drop' \in [Drops -> DownloadState] /\ UNCHANGED <<PairWorld, importer, arrived>>
        /\ \A e \in Drops : drop'[e] = "importHeld" => drop[e] = "importHeld"
    BY <1>a, <1>4 DEF PairRetry, DownloadState
  <2>2. "poll" \in Importers /\ ImporterInv("poll")'
    BY <2>1 DEF Importers, PairInv, ImporterInv, MayDrop, PairWorld
  <2> QED BY <1>a, <2>1, <2>2, PairKept
<1>5. ASSUME NEW d \in Drops, PairDeadline(d) PROVE PairInv'
  <2>1. \A w \in Importers : ImporterInv(w)'
    BY <1>5 DEF PairInv, PairDeadline, ImporterInv, MayDrop
  <2> QED BY <1>5, <2>1 DEF PairInv, PairDeadline, Held
<1>6. CASE PairChange
  <2>1. changes' = changes + 1 /\ changes \in Nat
    BY <1>6 DEF PairInv, PairChange
  <2>2. \A w \in Importers : ImporterInv(w)'
    BY <1>6, <2>1 DEF PairInv, PairChange, ImporterInv, MayDrop
  <2> QED BY <1>6, <2>1, <2>2 DEF PairInv, PairChange, Held
<1>7. CASE UNCHANGED pairVars
  <2>1. \A w \in Importers : ImporterInv(w)'
    BY <1>7 DEF PairInv, pairVars, ImporterInv, MayDrop
  <2> QED BY <1>7, <2>1 DEF PairInv, pairVars, Held
<1> QED BY <1>1, <1>2, <1>3, <1>4, <1>5, <1>6, <1>7 DEF PairNext

\* Held rows have arrived, and an importer past the gate has a download that may be dropped.
THEOREM PairInvariant == PairSpec => []PairInv
BY PairInitInv, PairStep, PTL DEF PairSpec

\* findHeldSibling, the gate and the sweep: for any number of downloads of the book, a
\* format is handed off alone only after the deadline, or where the gate did not apply.
THEOREM AloneOnlyLate == PairFairSpec => DropsAloneOnlyLate
<1>1. PairInv /\ [PairNext]_pairVars =>
        [\A d \in Drops :
           drop[d] # "importExternal" /\ drop'[d] = "importExternal" =>
             \/ d \in overdue
             \/ ~gating \/ changes > 0
             \/ OtherFmt(Fmt[d]) \in onDisk
             \/ \E s \in arrived : Fmt[s] = OtherFmt(Fmt[d])]_pairVars
  <2> SUFFICES ASSUME PairInv, PairNext, NEW d \in Drops, drop[d] # "importExternal",
                      drop'[d] = "importExternal"
               PROVE  d \in overdue \/ MayDrop(d)
    BY DEF pairVars, MayDrop
  <2>a. drop \in [Drops -> DownloadState] /\ importer \in [Importers -> ImporterRecords]
        /\ \A w \in Importers : ImporterInv(w)
    BY DEF PairInv
  <2>b. "importPending" \in DownloadState /\ "importFailed" \in DownloadState
        /\ "importBlocked" \in DownloadState /\ "importHeld" \in DownloadState
    BY DEF DownloadState
  <2>1. ASSUME NEW w \in Importers, ImporterStep(w) PROVE d \in overdue \/ MayDrop(d)
    <3>1. ASSUME NEW h \in Drops, SweepRow(w, h) PROVE d \in overdue
      <4>1. h \in overdue
        BY <2>a, <3>1 DEF SweepRow, ImporterInv
      <4>2. \A e \in Drops \ {h} : drop'[e] = drop[e]
        BY <2>a, <3>1, PlacedRow DEF SweepRow
      <4> QED BY <4>1, <4>2
    <3>2. CASE GateHandsOff(w)
      <4>1. SeenFmt(importer[w].dl) \notin dropsTo /\ importer[w].dl \in Drops
        BY <2>a, <3>2 DEF GateHandsOff, AtGate, ImporterRecords
      <4>2. SeenFmt(importer[w].dl) \in Formats
        BY <4>1, PairAssumption DEF SeenFmt, Formats
      <4> QED BY <4>1, <4>2 DEF PairInv, MayDrop
    <3>3. CASE GateFails(w) \/ GateBlocks(w) \/ GateHolds(w)
      <4>1. importer[w].dl \in Drops
        BY <2>a, <3>3 DEF GateFails, GateBlocks, GateHolds, AtGate, ImporterRecords
      <4>2. drop'[d] \in {drop[d], "importFailed", "importBlocked", "importHeld"}
        BY <2>a, <2>b, <3>3, <4>1, WriteOne DEF GateFails, GateBlocks, GateHolds
      <4> QED BY <4>2
    <3>4. CASE SweepDone(w) \/ GateDrops(w)
      BY <3>4 DEF SweepDone, GateDrops
    <3>5. CASE PlaceOwn(w)
      <4>1. importer[w].dl \in Drops
        BY <2>a, <3>5 DEF PlaceOwn, At, ImporterInv
      <4>2. drop'[d] \in {drop[d], "importFailed", "importBlocked"}
        BY <2>a, <2>b, <3>5, <4>1, WriteOne DEF PlaceOwn
      <4> QED BY <4>2
    <3>6. CASE ReleaseSibling(w)
      <4> DEFINE e == importer[w].dl
                 s == importer[w].sib
      <4>1. /\ s \in Drops /\ e \in Drops /\ Fmt[s] = OtherFmt(Fmt[e]) /\ e \in arrived
        BY <2>a, <3>6, PairAssumption DEF ReleaseSibling, At, ImporterInv
      <4>2. d = s
        BY <3>6, <4>1, PlacedRow DEF ReleaseSibling
      <4>3. Fmt[e] \in Formats
        BY <4>1, PairAssumption
      <4>4. OtherFmt(Fmt[s]) = Fmt[e]
        BY <4>1, <4>3 DEF OtherFmt, Formats
      <4> QED BY <4>1, <4>2, <4>4 DEF MayDrop
    <3>7. CASE FinishOwn(w)
      <4>1. importer[w].dl \in Drops /\ MayDrop(importer[w].dl)
        BY <2>a, <3>7 DEF FinishOwn, At, ImporterInv
      <4>2. d = importer[w].dl
        BY <3>7, <4>1, PlacedRow DEF FinishOwn
      <4> QED BY <4>1, <4>2
    <3> QED BY <2>1, <3>1, <3>2, <3>3, <3>4, <3>5, <3>6, <3>7 DEF ImporterStep
  <2>2. ASSUME NEW w \in Importers, NEW e \in Drops, PairStart(w, e) PROVE FALSE
    <3>1. drop'[d] \in {drop[d], "importPending"}
      BY <2>a, <2>b, <2>2, WriteOne DEF PairStart
    <3> QED BY <3>1
  <2>3. PairTick \/ PairChange \/ (\E e \in Drops : PairRetry(e) \/ PairDeadline(e)) => FALSE
    BY <2>a DEF PairTick, PairChange, PairRetry, PairDeadline
  <2> QED BY <2>1, <2>2, <2>3 DEF PairNext
<1> QED BY <1>1, PairInvariant, PTL DEF PairSpec, PairFairSpec, DropsAloneOnlyLate
=============================================================================
