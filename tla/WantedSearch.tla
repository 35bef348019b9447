----------------------------- MODULE WantedSearch -----------------------------
(***************************************************************************)
(* The searches that grab by themselves, for one book wanted in two        *)
(* formats: the scheduled sweep over its queue, on a snapshot of the       *)
(* blocklist and of the monitored authors, and the searches started one at *)
(* a time (on adding a book, after a stall, from the page).  A release     *)
(* that must wait, or that costs ratio, is parked, and looked at again by  *)
(* the later searches that find nothing better.                            *)
(***************************************************************************)
EXTENDS FiniteSets, Naturals

CONSTANTS
  Releases,
  FormatOf,     \* the format each is searched for
  Named,        \* the formats the words of its title, and its quality, name
  Costly,       \* not freeleech, on an indexer that is freeleech only
  Pinned,       \* from an indexer pinned to one download client
  MaxPokes      \* bound: what people, indexers and clients do

SearchFormats == {"ebook", "audiobook"}
Searchers     == {"sweep", "once"}

ASSUME SearchAssumption ==
  /\ FormatOf \in [Releases -> SearchFormats]
  /\ Named \in [Releases -> SUBSET SearchFormats]
  /\ Costly \subseteq Releases /\ Pinned \subseteq Releases
  /\ MaxPokes \in Nat /\ "none" \notin Releases

VARIABLES
  autoGrab,    \* the autoGrab.enabled switch
  monitored,   \* the author is monitored
  barred,      \* the blocklist
  listed,      \* what the indexers return
  young,       \* releases the delay profile holds back
  pinUp,       \* the pinned client can take a release
  grabRow,     \* the download row that has the release's GUID
  cooling,     \* failed rows within deadRegrabCooldown
  parked,      \* pending_releases of the book
  owned,       \* formats the book has a file of
  search,      \* what each searcher is doing
  since,       \* ghost: releases grabbed since the sweep built its queue, or all
               \* of them if it could not list what flew
  pokes

searchVars == <<autoGrab, monitored, barred, listed, young, pinUp, grabRow, cooling,
                parked, owned, search, since, pokes>>

\* "flying": grabbed to importing.  "handed": importExternal, importHeld.
\* "theirs", "theirsImported": the row of another book.
RowKinds == {"none", "flying", "handed", "importFailed", "importBlocked", "failed",
             "imported", "theirs", "theirsImported"}

NoSearch == [pc |-> "idle", todo |-> {}, format |-> "none", pick |-> "none", seen |-> "none",
             barred |-> {}, monitored |-> TRUE, byHand |-> FALSE]

SearchTypeOK ==
  /\ autoGrab \in BOOLEAN /\ monitored \in BOOLEAN /\ pinUp \in BOOLEAN
  /\ barred \subseteq Releases /\ listed \subseteq Releases /\ young \subseteq Releases
  /\ cooling \subseteq Releases /\ parked \subseteq Releases /\ since \subseteq Releases
  /\ grabRow \in [Releases -> RowKinds] /\ owned \subseteq SearchFormats
  /\ search \in [Searchers ->
       [pc : {"idle", "gate", "search", "grab"}, todo : SUBSET SearchFormats,
        format : SearchFormats \cup {"none"}, pick : Releases \cup {"none"},
        seen : {"none", "failed", "blocked"}, barred : SUBSET Releases, monitored : BOOLEAN, byHand : BOOLEAN]]
  /\ pokes \in Nat

SearchInit ==
  /\ autoGrab = TRUE /\ monitored = TRUE /\ barred = {}
  /\ listed = Releases /\ young \in SUBSET (Releases \ Costly) /\ pinUp \in BOOLEAN
  /\ grabRow \in {[r \in Releases |-> "none"]}
       \cup {[r \in Releases |-> IF r = x THEN k ELSE "none"] :
               x \in Releases, k \in {"theirs", "theirsImported"}}
  /\ cooling = {} /\ parked = {} /\ owned = {}
  /\ search = [s \in Searchers |-> NoSearch] /\ since = {} /\ pokes = 0

World == <<autoGrab, monitored, barred, listed, young, pinUp, owned, pokes>>

-----------------------------------------------------------------------------

In(set, t) == {r \in set : FormatOf[r] = t}

\* downloadMediaType: a row has no format of its own, so the words of the release
\* tell, unless they name both or none ("").  An audiobook whose title names its PDF
\* booklet only is read as an ebook.
DownloadMediaType(r) ==
  IF \E t \in SearchFormats : Named[r] = {t} THEN CHOOSE t \in Named[r] : TRUE ELSE ""

\* Mutant: a row of an undetermined format holds nothing.
InFlightByNameOnly(t) ==
  \E r \in Releases : grabRow[r] \in {"flying", "handed"} /\ DownloadMediaType(r) = t

\* inFlightFormatsByBook, as the queue uses it: an undetermined row holds the whole book.
InFlight(t) ==
  \E r \in Releases :
    grabRow[r] \in {"flying", "handed"} /\ DownloadMediaType(r) \in {t, ""}

\* neededFormats
Needed == SearchFormats \ owned

\* The specifications that hold a release back without turning it down.
Waits(r) == r \in young \cup Costly

\* blockingRegrabReason, for a row this book has or another's.
BlocksRegrab(r) ==
  \/ grabRow[r] \in {"flying", "handed", "importFailed", "importBlocked", "imported",
                     "theirs", "theirsImported"}
  \/ grabRow[r] = "failed" /\ r \in cooling

\* accept: the pin, and the rows of other books.
Acceptable(r) ==
  /\ r \in Pinned => pinUp
  /\ grabRow[r] \notin {"theirs", "theirsImported"}

\* The blocklist a search goes by.
Bars(s) == IF s = "sweep" THEN search[s].barred ELSE barred

\* What the indexers return, what of it has to wait, and what this book can take.
Results(s, t)   == In(listed, t) \ Bars(s)
WaitingOf(s, t) == {r \in Results(s, t) : Waits(r)}
Good(s, t)      == {r \in Results(s, t) \ WaitingOf(s, t) : Acceptable(r)}

\* Mutant: the first approved row that cannot be taken ends the look.
StopsAtSkipped(approved) ==
  IF \E r \in approved : ~Acceptable(r) THEN {} ELSE approved

\* pendingApproved passes over a row it cannot take, and tries the next.
Takable(approved) == {r \in approved : Acceptable(r)}

\* The parked rows of the format the search's specifications approve now, and those
\* of them that another book has imported.
ParkedApproved(s, t) == {r \in In(parked, t) : ~Waits(r)} \ Bars(s)
Dead(s, t) == {r \in ParkedApproved(s, t) : grabRow[r] = "theirsImported"}

\* The search of a format, with r to grab, and with nothing.
Chosen(s, t, r) ==
  [search EXCEPT ![s].pc = "grab", ![s].pick = r, ![s].format = t,
     ![s].seen = IF BlocksRegrab(r) THEN "blocked" ELSE grabRow[r],
     ![s].todo = @ \ {t}, ![s].barred = Bars(s)]

Passed(s, t) ==
  [search EXCEPT ![s].todo = @ \ {t}, ![s].pc = IF search[s].todo = {t} THEN "idle" ELSE @]

-----------------------------------------------------------------------------
(* The searches. *)

\* searchWanted, its queue and its snapshot.
SweepQueue ==
  /\ search["sweep"].pc = "idle" /\ autoGrab
  /\ \E t \in Needed : ~InFlight(t)
  /\ search' = [search EXCEPT !["sweep"] =
       [NoSearch EXCEPT !.pc = "gate", !.todo = {t \in Needed : ~InFlight(t)},
                        !.barred = barred, !.monitored = monitored]]
  /\ since' = {}
  /\ UNCHANGED <<World, grabRow, cooling, parked>>

\* The rows in flight cannot be listed: the queue goes on as if nothing flew.
SweepBlind ==
  /\ pokes < MaxPokes /\ pokes' = pokes + 1
  /\ search["sweep"].pc = "idle" /\ autoGrab /\ Needed # {}
  /\ search' = [search EXCEPT !["sweep"] =
       [NoSearch EXCEPT !.pc = "gate", !.todo = Needed, !.barred = barred,
                        !.monitored = monitored]]
  /\ since' = Releases
  /\ UNCHANGED <<autoGrab, monitored, barred, listed, young, pinUp, owned,
                 grabRow, cooling, parked>>

\* SearchAndGrabBook, automatic or asked for by name.
SearchOnce ==
  /\ search["once"].pc = "idle" /\ pokes < MaxPokes /\ pokes' = pokes + 1
  /\ Needed # {}
  /\ \E h \in BOOLEAN :
       search' = [search EXCEPT !["once"] =
                   [NoSearch EXCEPT !.pc = "gate", !.todo = Needed, !.byHand = h]]
  /\ UNCHANGED <<autoGrab, monitored, barred, listed, young, pinUp, owned,
                 grabRow, cooling, parked, since>>

\* searchAndGrabFormats: the switch is read now, the author from the snapshot if
\* there is one.
SearchGate(s) ==
  /\ search[s].pc = "gate"
  /\ LET watched == IF s = "sweep" THEN search[s].monitored ELSE monitored
     IN search' = [search EXCEPT ![s] =
          IF autoGrab /\ (search[s].byHand \/ watched) THEN [@ EXCEPT !.pc = "search"]
          ELSE NoSearch]
  /\ UNCHANGED <<World, grabRow, cooling, parked, since>>

\* searchAndGrabFormat up to its choice: the best approved result this book can
\* take, after parking those before it that have to wait; else a parked release.
\* A parked release another book has imported is dropped on the way.
SearchFormat(s) ==
  /\ search[s].pc = "search"
  /\ \E t \in search[s].todo :
       \/ \E r \in Good(s, t), w \in SUBSET WaitingOf(s, t) :
            parked' = parked \cup w /\ search' = Chosen(s, t, r)
       \/ /\ Good(s, t) = {}
          /\ \E r \in Takable(ParkedApproved(s, t)), d \in SUBSET Dead(s, t) :
               /\ parked' = ((parked \ d) \cup WaitingOf(s, t)) \ {r}
               /\ search' = Chosen(s, t, r)
       \/ /\ Good(s, t) = {} /\ Takable(ParkedApproved(s, t)) = {}
          /\ parked' = (parked \ Dead(s, t)) \cup WaitingOf(s, t)
          /\ search' = Passed(s, t)
  /\ UNCHANGED <<World, grabRow, cooling, since>>

\* A look-up fails, or no client is eligible for what the indexers returned: the search
\* of the format ends with what it has parked, or dropped, by then.
SearchEnds(s) ==
  /\ pokes < MaxPokes /\ pokes' = pokes + 1
  /\ search[s].pc = "search"
  /\ \E t \in search[s].todo :
       /\ search' = Passed(s, t)
       /\ \/ \E w \in SUBSET WaitingOf(s, t) : parked' = parked \cup w
          \/ /\ Good(s, t) = {}
             /\ \E d \in SUBSET Dead(s, t) : parked' = (parked \ d) \cup WaitingOf(s, t)
  /\ UNCHANGED <<autoGrab, monitored, barred, listed, young, pinUp, owned,
                 grabRow, cooling, since>>

\* The grab: no client for it, a row in the way when it was chosen or by now, the
\* send failing, or done.
SearchGrab(s) ==
  /\ search[s].pc = "grab"
  /\ LET r == search[s].pick
     IN /\ \/ UNCHANGED <<grabRow, cooling, parked, since>>
           \/ /\ grabRow[r] = search[s].seen /\ r \notin cooling
              /\ \/ /\ grabRow' = [grabRow EXCEPT ![r] = "flying"]
                    /\ parked' = parked \ In(parked, search[s].format)
                    /\ since' = since \cup {r} /\ UNCHANGED cooling
                 \/ /\ grabRow' = [grabRow EXCEPT ![r] = "failed"]
                    /\ cooling' = cooling \cup {r} /\ UNCHANGED <<parked, since>>
        /\ search' = [search EXCEPT ![s] =
             IF @.todo = {} THEN NoSearch
             ELSE [@ EXCEPT !.pc = "search", !.pick = "none", !.seen = "none"]]
  /\ UNCHANGED World

-----------------------------------------------------------------------------
(* People, clients and indexers. *)

\* The grab button of a parked release: it, and no other, leaves the list.
PendingGrab(r) ==
  /\ pokes < MaxPokes /\ pokes' = pokes + 1
  /\ r \in parked /\ grabRow[r] \in {"none", "failed", "importBlocked"}
  /\ grabRow' = [grabRow EXCEPT ![r] = "flying"] /\ cooling' = cooling \ {r}
  /\ parked' = parked \ {r} /\ since' = since \cup {r}
  /\ UNCHANGED <<autoGrab, monitored, barred, listed, young, pinUp, owned, search>>

PendingDelete(r) ==
  /\ pokes < MaxPokes /\ pokes' = pokes + 1
  /\ r \in parked /\ parked' = parked \ {r}
  /\ UNCHANGED <<autoGrab, monitored, barred, listed, young, pinUp, owned, search,
                 grabRow, cooling, since>>

\* Settings, the author's page, the blocklist, the indexers' answers, the pinned
\* client, the delay running out.
WorldMoves ==
  /\ pokes < MaxPokes /\ pokes' = pokes + 1
  /\ \/ /\ autoGrab' = ~autoGrab
        /\ UNCHANGED <<monitored, barred, listed, young, pinUp>>
     \/ /\ monitored' = ~monitored
        /\ UNCHANGED <<autoGrab, barred, listed, young, pinUp>>
     \/ /\ \E r \in Releases : barred' = barred \cup {r}
        /\ UNCHANGED <<autoGrab, monitored, listed, young, pinUp>>
     \/ /\ \E l \in SUBSET listed : l # listed /\ listed' = l
        /\ UNCHANGED <<autoGrab, monitored, barred, young, pinUp>>
     \/ /\ young' = {} /\ UNCHANGED <<autoGrab, monitored, barred, listed, pinUp>>
     \/ /\ pinUp' = ~pinUp /\ UNCHANGED <<autoGrab, monitored, barred, listed, young>>
  /\ UNCHANGED <<owned, search, grabRow, cooling, parked, since>>

\* The row's life after the grab, by the poller, the importer and the retry button.  An
\* import records the format of the files; one that finds no files counts as done if the
\* book has the format the release is read as.
RowSteps ==
  {<<"flying", "handed">>, <<"flying", "importFailed">>, <<"flying", "importBlocked">>,
   <<"flying", "failed">>, <<"flying", "imported">>, <<"handed", "imported">>,
   <<"importFailed", "flying">>, <<"importBlocked", "flying">>, <<"theirs", "theirsImported">>}

\* isBookAlreadyImported, by the words of the release: of both kinds, it is an audiobook
\* if it has other marks of one.
AlreadyImported(r) ==
  DownloadMediaType(r) \in owned \/ (Named[r] = SearchFormats /\ "audiobook" \in owned)

RowMoves(r) ==
  /\ pokes < MaxPokes /\ pokes' = pokes + 1
  /\ \E step \in RowSteps :
       /\ grabRow[r] = step[1] /\ grabRow' = [grabRow EXCEPT ![r] = step[2]]
       /\ cooling' = IF step[2] = "failed" THEN cooling \cup {r} ELSE cooling
       /\ \/ step[2] # "imported" /\ UNCHANGED owned
          \/ step[2] = "imported" /\ owned' = owned \cup {FormatOf[r]}
          \/ step[2] = "imported" /\ AlreadyImported(r) /\ UNCHANGED owned
       /\ since' = IF step[2] = "flying" THEN since \cup {r} ELSE since
  /\ UNCHANGED <<autoGrab, monitored, barred, listed, young, pinUp, search, parked>>

CooldownEnds(r) ==
  /\ r \in cooling /\ cooling' = cooling \ {r}
  /\ UNCHANGED <<World, search, grabRow, parked, since>>

SearchNext ==
  \/ SweepQueue \/ SweepBlind \/ SearchOnce
  \/ \E s \in Searchers : SearchGate(s) \/ SearchFormat(s) \/ SearchEnds(s) \/ SearchGrab(s)
  \/ WorldMoves
  \/ \E r \in Releases : PendingGrab(r) \/ PendingDelete(r) \/ RowMoves(r) \/ CooldownEnds(r)

SearchSpec == SearchInit /\ [][SearchNext]_searchVars

\* The sweep is a scheduled job and a search that began goes on.
SearchFairness ==
  /\ WF_searchVars(SweepQueue)
  /\ \A s \in Searchers : WF_searchVars(SearchGate(s) \/ SearchFormat(s) \/ SearchGrab(s))

SearchFairSpec == SearchSpec /\ SearchFairness

-----------------------------------------------------------------------------
(* Properties. *)

\* The words of the release name the other format only.
Misread(r) == Named[r] = SearchFormats \ {FormatOf[r]}

\* While the sweep grabs a release, whatever else flies for its format, or for a format
\* its words do not tell, took off after the sweep had built its queue, unless the rows
\* in flight could not be listed then: it spends one grab on a slot.  A release whose
\* words name the other format only is the exception the comment on downloadMediaType
\* names: a second audiobook may be grabbed while one that names but its PDF booklet flies.
SweepTakesOnePerFormat ==
  [][\A r, o \in Releases :
       (/\ search["sweep"].pc = "grab" /\ search["sweep"].pick = r
        /\ grabRow[r] # "flying" /\ grabRow'[r] = "flying" /\ search'["sweep"] # search["sweep"]
        /\ o # r /\ grabRow[o] \in {"flying", "handed"}
        /\ \/ FormatOf[o] = FormatOf[r] /\ ~Misread(o)
           \/ DownloadMediaType(o) = "")
         => o \in since]_searchVars

\* A parked release the rules have come to approve, and that this book can take, is
\* not left parked forever when its format is wanted, the indexers return nothing for
\* it, and nothing flies that is read as of its format or of none: a row of undetermined
\* format holds the whole book, for as long as it is handed off or flies.
ParkedIsTaken ==
  \A r \in Releases :
    LET t == FormatOf[r]
    IN []<>~(/\ r \in parked \ barred /\ ~Waits(r) /\ Acceptable(r)
             /\ t \in Needed /\ ~InFlight(t) /\ In(listed, t) = {}
             /\ autoGrab /\ monitored)

\* Claim: "An unmonitored author's books are never grabbed automatically (#2742)"
\* (searchAndGrabFormats).
UnmonitoredNeverGrabbed ==
  [][\A s \in Searchers, r \in Releases :
       (/\ search[s].pc = "grab" /\ search[s].pick = r /\ search'[s] # search[s]
        /\ grabRow[r] # "flying" /\ grabRow'[r] = "flying" /\ ~search[s].byHand)
         => monitored]_searchVars

==============================================================================
