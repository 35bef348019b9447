---------------------------- MODULE IndexerLimits ----------------------------
(***************************************************************************)
(* What keeps one indexer from being asked too much: the daily query cap,  *)
(* counted by the hour in memory and written back as deltas, and the hold  *)
(* after a rate limit, longer every time, that an edit of the indexer      *)
(* cancels.  Search legs run concurrently.                                 *)
(***************************************************************************)
EXTENDS FiniteSets, Functions, Sequences, Naturals

CONSTANTS
  Legs,        \* search legs against the indexer
  DailyLimit,       \* Indexer.DailyQueryLimit
  Window,      \* quotaWindow, in hours
  LastHour,    \* bound: the hours that pass
  Ladder,      \* cooldownLadder, in hours
  ReadsFail,   \* whether the stored counts can be unreadable for a while
  MaxMishaps   \* bound: restarts, unreadable counts, failed writes, edits

Hours == 0 .. LastHour

ASSUME LimitAssumption ==
  /\ DailyLimit \in Nat \ {0} /\ Window \in Nat \ {0} /\ LastHour \in Nat /\ MaxMishaps \in Nat
  /\ Ladder \in Seq(Nat \ {0}) /\ Ladder # <<>>
  /\ ReadsFail \in BOOLEAN /\ IsFiniteSet(Legs)

VARIABLES
  hour,        \* the hour it is
  asked,       \* ghost: requests sent, by hour
  forgotten,   \* ghost: those no count survived the last restart of, by hour
  loaded,      \* indexerQuota.loaded
  counts,      \* indexerQuota.counts
  flushed,     \* indexerQuota.flushed: what of them has been written
  stored,      \* indexer_query_counts
  leg,         \* what each leg is doing, and the deltas it is writing
  hold,        \* hours the hold still runs; 0 is none
  rung,        \* indexerCooldowns.levels
  entry,       \* indexerCooldowns.entries: recorded since the last edit, or before it
  holdOf,      \* ghost: the configuration that was refused
  config,      \* the indexer row, by its edits
  mishaps

limitVars == <<hour, asked, forgotten, loaded, counts, flushed, stored, leg, hold, rung, entry,
               holdOf, config, mishaps>>
quotaVars == <<asked, forgotten, loaded, counts, flushed, stored>>
coolVars  == <<hold, rung, entry, holdOf>>

NoCounts == [h \in Hours |-> 0]
NoLeg    == [pc |-> "idle", config |-> 0, pending |-> NoCounts]

Longest == CHOOSE d \in {Ladder[i] : i \in DOMAIN Ladder} :
             \A i \in DOMAIN Ladder : Ladder[i] <= d

LimitTypeOK ==
  /\ hour \in Hours /\ asked \in [Hours -> Nat] /\ forgotten \in [Hours -> Nat] /\ loaded \in BOOLEAN
  /\ counts \in [Hours -> Nat] /\ flushed \in [Hours -> Nat] /\ stored \in [Hours -> Nat]
  /\ leg \in [Legs -> [pc : {"idle", "ask", "flush", "write"}, config : Nat,
                       pending : [Hours -> Nat]]]
  /\ hold \in 0 .. Longest /\ rung \in 0 .. Len(Ladder) /\ holdOf \in Nat
  /\ entry \in {"none", "live", "edited"}
  /\ config \in Nat /\ mishaps \in 0 .. MaxMishaps

LimitInit ==
  /\ hour = 0 /\ asked = NoCounts /\ forgotten = NoCounts /\ loaded = FALSE /\ counts = NoCounts
  /\ flushed = NoCounts /\ stored = NoCounts /\ leg = [l \in Legs |-> NoLeg]
  /\ hold = 0 /\ rung = 0 /\ entry = "none" /\ holdOf = 0 /\ config = 0 /\ mishaps = 0

Mishap == mishaps < MaxMishaps /\ mishaps' = mishaps + 1

-----------------------------------------------------------------------------
(* The cap. *)

InWindow(h) == h <= hour /\ h + Window >= hour

\* Mutant: the cap looks at the hour it is.
UsedThisHour(c) == c[hour]

\* usedLocked, with the oldest hour counted in full.
Used(c) == SumFunctionOnSet(c, {h \in Hours : InWindow(h)})

\* load: the counts consulted from here on, those stored or, when they cannot be
\* read, those at hand.
Consult(c, f) ==
  \/ loaded /\ c = counts /\ f = flushed /\ UNCHANGED <<loaded, mishaps>>
  \/ ~loaded /\ c = stored /\ f = stored /\ loaded' = TRUE /\ UNCHANGED mishaps
  \/ /\ ~loaded /\ ReadsFail /\ Mishap /\ c = counts /\ f = flushed /\ UNCHANGED loaded

\* SearchBook, SearchQuery: a leg starts unless the indexer rests or is spent.  The
\* look drops an entry that has expired, and one from before an edit, expired or not,
\* with the rung.
LegStart(l) ==
  /\ leg[l].pc = "idle" /\ ~(hold > 0 /\ entry = "live")
  /\ hold' = 0 /\ entry' = "none" /\ rung' = (IF entry = "edited" THEN 0 ELSE rung)
  /\ UNCHANGED holdOf
  /\ \E c \in {counts, stored}, f \in {flushed, stored} :
       /\ Consult(c, f) /\ counts' = c /\ flushed' = f
       /\ IF Used(c) < DailyLimit THEN leg' = [leg EXCEPT ![l] = [@ EXCEPT !.pc = "ask",
                                                              !.config = config]]
          ELSE UNCHANGED leg
  /\ UNCHANGED <<hour, asked, forgotten, stored, config>>

\* Take, before each request of the cascade: admitted and sent, or the leg ends.
LegAsk(l) ==
  /\ leg[l].pc = "ask"
  /\ \E c \in {counts, stored}, f \in {flushed, stored} :
       /\ Consult(c, f) /\ flushed' = f
       /\ IF Used(c) < DailyLimit
          THEN /\ counts' = [c EXCEPT ![hour] = @ + 1]
               /\ asked' = [asked EXCEPT ![hour] = @ + 1] /\ UNCHANGED leg
          ELSE /\ counts' = c /\ leg' = [leg EXCEPT ![l].pc = "flush"]
               /\ UNCHANGED asked
  /\ UNCHANGED <<hour, forgotten, stored, coolVars, config>>

\* Mutant: the deltas are not marked as written.
NeverMarked(f, pending) == f

\* flush marks its deltas as written under the lock; a failed write puts one back.
Marked(f, pending)    == [h \in Hours |-> f[h] + pending[h]]
PutBack(f, h, n)      == [f EXCEPT ![h] = @ - n]

\* flush, to the release of the lock.
FlushMark(l) ==
  /\ leg[l].pc = "flush"
  /\ LET pending == [h \in Hours |-> IF counts[h] > flushed[h] THEN counts[h] - flushed[h]
                                     ELSE 0]
     IN IF pending = NoCounts THEN leg' = [leg EXCEPT ![l] = NoLeg] /\ UNCHANGED flushed
        ELSE /\ flushed' = Marked(flushed, pending)
             /\ leg' = [leg EXCEPT ![l].pc = "write", ![l].pending = pending]
  /\ UNCHANGED <<hour, asked, forgotten, loaded, counts, stored, coolVars, config, mishaps>>

\* AddQueryCount, an hour at a time.
FlushWrite(l) ==
  /\ leg[l].pc = "write"
  /\ \E h \in Hours :
       LET n    == leg[l].pending[h]
           rest == [leg[l].pending EXCEPT ![h] = 0]
       IN /\ n > 0
          /\ leg' = [leg EXCEPT ![l] = IF rest = NoCounts THEN NoLeg
                                       ELSE [@ EXCEPT !.pending = rest]]
          /\ \/ /\ stored' = [stored EXCEPT ![h] = @ + n] /\ UNCHANGED <<flushed, mishaps>>
             \/ /\ Mishap /\ flushed' = PutBack(flushed, h, n) /\ UNCHANGED stored
  /\ UNCHANGED <<hour, asked, forgotten, loaded, counts, coolVars, config>>

-----------------------------------------------------------------------------
(* The hold. *)

\* A limit without a hint climbs only when no hold is running.
Climbs(hinted) == ~hinted /\ hold = 0

\* note
Note(l) ==
  \E hint \in {0} \cup 1 .. Longest :
    LET step == IF rung + 1 > Len(Ladder) THEN Len(Ladder) ELSE rung + 1
        d    == IF hint > 0 THEN hint ELSE IF Climbs(FALSE) THEN Ladder[step] ELSE hold
    IN /\ hold' = IF d > hold THEN d ELSE hold
       /\ rung' = IF Climbs(hint > 0) THEN step ELSE rung
       /\ IF hint > 0 \/ hold = 0 THEN entry' = "live" /\ holdOf' = leg[l].config
          ELSE UNCHANGED <<entry, holdOf>>

\* The end of a leg: answered, rate limited, or failed otherwise; its counts are
\* written if the last time was long enough ago.
LegEnd(l) ==
  /\ leg[l].pc = "ask"
  /\ \/ rung' = (IF rung > 0 THEN rung - 1 ELSE 0) /\ UNCHANGED <<hold, entry, holdOf>>
     \/ Note(l)
     \/ UNCHANGED coolVars
  /\ \E pc \in {"idle", "flush"} : leg' = [leg EXCEPT ![l].pc = pc]
  /\ UNCHANGED <<hour, quotaVars, config, mishaps>>

\* A person edits the indexer.
IndexerEdit ==
  /\ Mishap /\ config' = config + 1
  /\ entry' = (IF entry = "none" THEN entry ELSE "edited")
  /\ UNCHANGED <<hour, quotaVars, leg, hold, rung, holdOf>>

-----------------------------------------------------------------------------

\* An hour passes.  Pruned and aged hours are out of every window.
HourPasses ==
  /\ hour < LastHour /\ hour' = hour + 1
  /\ hold' = IF hold > 0 THEN hold - 1 ELSE 0
  /\ UNCHANGED <<quotaVars, leg, rung, entry, holdOf, config, mishaps>>

LimitRestart ==
  /\ Mishap /\ loaded' = FALSE /\ counts' = NoCounts /\ flushed' = NoCounts
  /\ forgotten' = [h \in Hours |-> asked[h] - stored[h]]
  /\ leg' = [l \in Legs |-> NoLeg] /\ hold' = 0 /\ rung' = 0 /\ entry' = "none"
  /\ UNCHANGED <<hour, asked, stored, holdOf, config>>

LimitNext ==
  \/ \E l \in Legs : LegStart(l) \/ LegAsk(l) \/ LegEnd(l) \/ FlushMark(l) \/ FlushWrite(l)
  \/ IndexerEdit \/ HourPasses \/ LimitRestart

LimitSpec == LimitInit /\ [][LimitNext]_limitVars

-----------------------------------------------------------------------------
(* Properties. *)

\* Every request a process has counted is written once: what is marked as written is
\* in the table or on its way there, over overlapping flushes and failed writes.
FlushedIsStored ==
  loaded => \A h \in Hours :
    flushed[h] = stored[h] + SumFunctionOnSet([l \in Legs |-> leg[l].pending[h]], Legs)

\* Over the whole window, and whatever legs run at once, no more requests are sent
\* than the cap allows and the counts lost in a restart make room for: a restart loses
\* those not yet written, and no other.
CapHolds ==
  LET Known == [h \in Hours |-> asked[h] - forgotten[h]]
  IN SumFunctionOnSet(Known, {h \in Hours : InWindow(h)}) <= DailyLimit

\* Claim: "because flushes send deltas, the requests counted in the meantime are still
\* added to whatever the stored buckets already hold" (indexerQuota.load).
MeantimeIsCounted ==
  [][(~loaded /\ loaded') => \A h \in Hours : counts'[h] >= counts[h]]_limitVars

\* Claim: making people "wait out a lockout that belonged to the old configuration
\* would be the wrong answer" (indexerCooldowns.active).
HoldIsOfThisConfig == hold > 0 /\ entry = "live" => holdOf = config

==============================================================================
