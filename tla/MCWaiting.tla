------------------------------- MODULE MCWaiting -------------------------------
(* Files that wait for something: a format held for its sibling, the queue of *)
(* Calibre.  The parts do not interact here; each behaviour is one part's,    *)
(* and the other stays as it is initially.                                    *)
EXTENDS PairGating, CalibreDelivery

CONSTANT Parts

VARIABLE part

waitingVars == <<part, pairVars, calVars>>

MCFmt  == [d \in Drops |-> IF d = "a1" THEN "audiobook" ELSE "ebook"]
MCRank == [f \in Files |-> IF f = "epub" THEN 1 ELSE 2]

Pair(A) == part = "pair" /\ A /\ UNCHANGED <<part, calVars>>
Cal(A)  == part = "calibre" /\ A /\ UNCHANGED <<part, pairVars>>

\* The choices of the part that does not run are fixed.
WaitingInit ==
  /\ part \in Parts
  /\ PairInit /\ CalInit
  /\ part # "pair"    => gating /\ onDisk = {}
  /\ part # "calibre" => transport = "push" /\ addFormat

WaitingNext == Pair(PairNext) \/ Cal(CalNext)

\* PairFairness and CalFairness, each in its part.
WaitingFairness ==
  /\ \A w \in Importers : WF_waitingVars(Pair(ImporterStep(w)))
  /\ \A d \in Drops : WF_waitingVars(Pair(PairDeadline(d)))
  /\ WF_waitingVars(Pair(PairTick \/ \E d \in Drops : PairStart("poll", d)))
  /\ WF_waitingVars(Cal(WorkerStep)) /\ WF_waitingVars(Cal(CalibreOpens))
  /\ \A f \in Files : WF_waitingVars(Cal(BackoffOver(f)))

WaitingSpec == WaitingInit /\ [][WaitingNext]_waitingVars /\ WaitingFairness

\* The same, with users who retry what is held.
RetrySpec == WaitingSpec /\ \A d \in Drops : WF_waitingVars(Pair(PairRetry(d)))
==============================================================================
