----------------------------- MODULE PairGating ------------------------------
(***************************************************************************)
(* The drop folder hand-off of a book wanted in both formats: with pair    *)
(* gating on, the first format to finish is held until the other arrives,  *)
(* or until a deadline that only the next drop looks at.  The poller's     *)
(* imports run one after the other; an import a person starts runs beside  *)
(* them, and neither takes a lock the other does.                          *)
(***************************************************************************)
EXTENDS DownloadStates, FiniteSets, Naturals

CONSTANTS
  Drops,        \* completed downloads of the one book
  Fmt,          \* the format each holds
  NoDrop,       \* no download
  MaxChanges    \* bound: settings changed, files lost, the book deleted

Formats   == {"ebook", "audiobook"}
Importers == {"poll", "hand"}

ASSUME PairAssumption ==
  /\ Fmt \in [Drops -> Formats] /\ NoDrop \notin Drops
  /\ MaxChanges \in Nat

VARIABLES
  gating,     \* import.drop_pair_gating
  dropsTo,    \* formats whose import mode is external and that have a folder
  onDisk,     \* formats the library already records on the book
  bookThere,  \* the row's book exists
  drop,       \* the state of each download's row
  files,      \* downloads whose files are still at their path
  overdue,    \* downloads past the gating deadline
  importer,   \* what each importer is doing
  arrived,    \* ghost: downloads an import took up
  changes

pairVars == <<gating, dropsTo, onDisk, bookThere, drop, files, overdue, importer,
              arrived, changes>>

PairWorld == <<gating, dropsTo, onDisk, bookThere, files, overdue, changes>>

Resting == [pc |-> "idle", dl |-> NoDrop, todo |-> {}, sib |-> NoDrop]

PairTypeOK ==
  /\ gating \in BOOLEAN /\ dropsTo \subseteq Formats /\ onDisk \subseteq Formats
  /\ bookThere \in BOOLEAN
  /\ drop \in [Drops -> DownloadState]
  /\ files \subseteq Drops /\ overdue \subseteq Drops /\ arrived \subseteq Drops
  /\ changes \in Nat
  /\ importer \in [Importers ->
       [pc : {"idle", "sweep", "own", "pair", "finish"},
        dl : Drops \cup {NoDrop}, todo : SUBSET Drops, sib : Drops \cup {NoDrop}]]

PairInit ==
  /\ gating \in BOOLEAN /\ dropsTo = Formats
  /\ onDisk \in {{}, {"audiobook"}} /\ bookThere = TRUE
  /\ drop = [d \in Drops |-> "completed"]
  /\ files = Drops /\ overdue = {} /\ arrived = {} /\ changes = 0
  /\ importer = [w \in Importers |-> Resting]

-----------------------------------------------------------------------------
(* Guarded status writes and the two ends of a placement. *)

Moved(d, next) ==
  IF CanTransitionTo(drop[d], next) THEN [drop EXCEPT ![d] = next] ELSE drop

\* failImport(importFailed), and failDrop for a destination no retry can make
\* valid: pending rows pass through importing on their way to importBlocked.
Failed(d, next) ==
  IF \/ drop[d] = next \/ CanTransitionTo(drop[d], next)
     \/ drop[d] = "importPending"
    THEN [drop EXCEPT ![d] = next] ELSE drop

\* placeDroppedFormat and what its caller makes of the outcome when nothing is
\* left to do but finishDrop or failDrop.
PlaceAndFinish(d) ==
  drop' \in {Moved(d, "importExternal"), Failed(d, "importFailed"),
            Failed(d, "importBlocked")}

At(w, pc) == importer[w].pc = pc
OtherFmt(f) == IF f = "ebook" THEN "audiobook" ELSE "ebook"

\* What detectDownloadFormat makes of a path: nothing there reads as an ebook.
SeenFmt(d) == IF d \in files THEN Fmt[d] ELSE "ebook"

Held == {d \in Drops : drop[d] = "importHeld"}

-----------------------------------------------------------------------------

\* tryImportInternal in external mode: the sweep of overdue rows comes first.
PairStart(w, d) ==
  /\ At(w, "idle") /\ drop[d] \in {"completed", "importFailed"}
  /\ Fmt[d] \in dropsTo
  /\ drop' = Moved(d, "importPending")
  /\ importer' = [importer EXCEPT ![w] =
                    [pc |-> "sweep", dl |-> d, todo |-> Held \cap overdue,
                     sib |-> NoDrop]]
  /\ arrived' = arrived \cup {d}
  /\ UNCHANGED PairWorld

\* Mutant: every held row is taken for overdue.
TickIgnoresDeadline ==
  /\ At("poll", "idle") /\ Held # {}
  /\ importer' = [importer EXCEPT !["poll"] =
                    [Resting EXCEPT !.pc = "sweep", !.todo = Held]]
  /\ UNCHANGED <<PairWorld, drop, arrived>>

\* A drop of some other book, in what it does to this one.
PairTick ==
  /\ At("poll", "idle") /\ Held \cap overdue # {}
  /\ importer' = [importer EXCEPT !["poll"] =
                    [pc |-> "sweep", dl |-> NoDrop, todo |-> Held \cap overdue,
                     sib |-> NoDrop]]
  /\ UNCHANGED <<PairWorld, drop, arrived>>

\* Mutant: the sweep reports an overdue row and goes on.
SweepNever(w, h) ==
  /\ At(w, "sweep") /\ h \in importer[w].todo
  /\ importer' = [importer EXCEPT ![w].todo = @ \ {h}]
  /\ UNCHANGED <<PairWorld, drop, arrived>>

\* One row of sweepHeldPairGating's list, which was read before the first was
\* placed.  A row without a book, or whose format no longer drops, is skipped.
SweepRow(w, h) ==
  /\ At(w, "sweep") /\ h \in importer[w].todo
  /\ importer' = [importer EXCEPT ![w].todo = @ \ {h}]
  /\ IF ~bookThere \/ SeenFmt(h) \notin dropsTo THEN UNCHANGED drop
     ELSE IF h \notin files
       THEN drop' = Failed(h, "importFailed")
       ELSE PlaceAndFinish(h)
  /\ UNCHANGED <<PairWorld, arrived>>

SweepDone(w) ==
  /\ At(w, "sweep") /\ importer[w].todo = {} /\ importer[w].dl = NoDrop
  /\ importer' = [importer EXCEPT ![w] = Resting]
  /\ UNCHANGED <<PairWorld, drop, arrived>>

\* The sweep is done and the importer's own download is next.
AtGate(w) == At(w, "sweep") /\ importer[w].todo = {} /\ importer[w].dl # NoDrop

\* findHeldSibling: a held row of the other format whose files are still there.
HeldSiblings(d) == {h \in Held \ {d} : h \in files /\ Fmt[h] = OtherFmt(Fmt[d])}

Gated(d) == gating /\ OtherFmt(Fmt[d]) \in dropsTo

Unpaired(d) == OtherFmt(Fmt[d]) \notin onDisk /\ HeldSiblings(d) = {}

\* dropToFolder down to the decision.  The folder is looked up again: without one the
\* download is handed off where it lies.
GateHandsOff(w) ==
  /\ AtGate(w) /\ SeenFmt(importer[w].dl) \notin dropsTo
  /\ drop' = Moved(importer[w].dl, "importExternal")
  /\ importer' = [importer EXCEPT ![w] = Resting]
  /\ UNCHANGED <<PairWorld, arrived>>

\* With one: nothing to import, nothing worth importing, hold, or drop now.
GateFails(w) ==
  LET d == importer[w].dl IN
  /\ AtGate(w) /\ SeenFmt(d) \in dropsTo /\ (d \notin files \/ ~bookThere)
  /\ drop' = Failed(d, "importFailed")
  /\ importer' = [importer EXCEPT ![w] = Resting]
  /\ UNCHANGED <<PairWorld, arrived>>

\* Files that are all too small to be a book.
GateBlocks(w) ==
  /\ AtGate(w) /\ importer[w].dl \in files /\ SeenFmt(importer[w].dl) \in dropsTo
  /\ drop' = Failed(importer[w].dl, "importBlocked")
  /\ importer' = [importer EXCEPT ![w] = Resting]
  /\ UNCHANGED <<PairWorld, arrived>>

GateHolds(w) ==
  LET d == importer[w].dl IN
  /\ AtGate(w) /\ d \in files /\ SeenFmt(d) \in dropsTo /\ bookThere
  /\ Gated(d) /\ Unpaired(d)
  /\ drop' = Moved(d, "importHeld")
  /\ importer' = [importer EXCEPT ![w] = Resting]
  /\ UNCHANGED <<PairWorld, arrived>>

GateDrops(w) ==
  LET d == importer[w].dl IN
  /\ AtGate(w) /\ d \in files /\ SeenFmt(d) \in dropsTo /\ bookThere
  /\ ~(Gated(d) /\ Unpaired(d))
  /\ \E s \in IF Gated(d) /\ HeldSiblings(d) # {} THEN HeldSiblings(d) ELSE {NoDrop} :
       importer' = [importer EXCEPT ![w].pc = "own", ![w].sib = s]
  /\ UNCHANGED <<PairWorld, drop, arrived>>

\* placeDroppedFormat of the download itself: if it fails, the sibling stays held.
PlaceOwn(w) ==
  LET d == importer[w].dl IN
  /\ At(w, "own")
  /\ \/ /\ drop' = drop
        /\ importer' = [importer EXCEPT ![w].pc =
                          IF importer[w].sib = NoDrop THEN "finish" ELSE "pair"]
     \/ /\ drop' \in {Failed(d, "importFailed"), Failed(d, "importBlocked")}
        /\ importer' = [importer EXCEPT ![w] = Resting]
  /\ UNCHANGED <<PairWorld, arrived>>

\* releaseHeldSibling, on the row as findHeldSibling read it.
ReleaseSibling(w) ==
  LET s == importer[w].sib IN
  /\ At(w, "pair")
  /\ IF s \notin files THEN drop' = Failed(s, "importFailed")
                       ELSE PlaceAndFinish(s)
  /\ importer' = [importer EXCEPT ![w].pc = "finish"]
  /\ UNCHANGED <<PairWorld, arrived>>

FinishOwn(w) ==
  /\ At(w, "finish")
  /\ drop' = Moved(importer[w].dl, "importExternal")
  /\ importer' = [importer EXCEPT ![w] = Resting]
  /\ UNCHANGED <<PairWorld, arrived>>

-----------------------------------------------------------------------------
(* What goes on around the importers. *)

\* The queue's Retry import: ResetImportRetry takes two states and no other.
PairRetry(d) ==
  /\ drop[d] \in {"importBlocked", "importHeld"}
  /\ drop' = IF drop[d] = "importBlocked" THEN [drop EXCEPT ![d] = "importFailed"]
                                          ELSE drop
  /\ UNCHANGED <<PairWorld, importer, arrived>>

PairDeadline(d) ==
  /\ drop[d] = "importHeld" /\ d \notin overdue
  /\ overdue' = overdue \cup {d}
  /\ UNCHANGED <<gating, dropsTo, onDisk, bookThere, drop, files, importer,
                 arrived, changes>>

PairChange ==
  /\ changes < MaxChanges /\ changes' = changes + 1
  /\ \/ /\ \E f \in Formats : dropsTo' = dropsTo \ {f}
        /\ UNCHANGED <<files, bookThere>>
     \/ dropsTo' = Formats /\ UNCHANGED <<files, bookThere>>
     \/ \E d \in files : files' = files \ {d} /\ UNCHANGED <<dropsTo, bookThere>>
     \/ bookThere' = FALSE /\ UNCHANGED <<dropsTo, files>>
  /\ UNCHANGED <<gating, onDisk, drop, overdue, importer, arrived>>

ImporterStep(w) ==
  \/ SweepDone(w) \/ GateHandsOff(w) \/ GateFails(w) \/ GateBlocks(w)
  \/ GateHolds(w) \/ GateDrops(w)
  \/ PlaceOwn(w) \/ ReleaseSibling(w) \/ FinishOwn(w)
  \/ \E h \in Drops : SweepRow(w, h)

PairNext ==
  \/ \E w \in Importers :
       ImporterStep(w) \/ \E d \in Drops : PairStart(w, d)
  \/ PairTick
  \/ \E d \in Drops : PairRetry(d) \/ PairDeadline(d)
  \/ PairChange

PairSpec == PairInit /\ [][PairNext]_pairVars

-----------------------------------------------------------------------------
(* Properties. *)

\* dropPairGated: under pair gating a format is handed off alone only when its
\* sibling never came: some download of the other format has been taken up by
\* an import, or is in the library, unless the deadline passed or the gate did
\* not apply.
DropsAloneOnlyLate ==
  [][\A d \in Drops :
       drop[d] # "importExternal" /\ drop'[d] = "importExternal" =>
         \/ d \in overdue
         \/ ~gating \/ changes > 0
         \/ OtherFmt(Fmt[d]) \in onDisk
         \/ \E s \in arrived : Fmt[s] = OtherFmt(Fmt[d])]_pairVars

\* sweepHeldPairGating: "so it can't wait forever".  As long as drops go on, a
\* held format leaves the hold, unless its book is gone or its format has nowhere
\* to drop to.
HeldIsReleased ==
  \A d \in Drops :
    drop[d] = "importHeld" ~>
      (drop[d] # "importHeld" \/ ~bookThere \/ SeenFmt(d) \notin dropsTo)

\* "Leave the held row as-is; a manual retry imports it under the current
\* settings": with the user retrying a row whose format no longer drops, it does
\* not stay held either.
RetryReleasesHeld ==
  \A d \in Drops :
    drop[d] = "importHeld" ~> (drop[d] # "importHeld" \/ ~bookThere)

\* What HeldIsReleased rests on: an import that started runs on, the deadline
\* passes, and the poller goes on importing drops of some book.
PairFairness ==
  /\ \A w \in Importers : WF_pairVars(ImporterStep(w))
  /\ \A d \in Drops : WF_pairVars(PairDeadline(d))
  /\ WF_pairVars(PairTick \/ \E d \in Drops : PairStart("poll", d))

PairFairSpec == PairSpec /\ PairFairness

=============================================================================
