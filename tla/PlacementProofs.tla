--------------------------- MODULE PlacementProofs ---------------------------
(***************************************************************************)
(* Placing files, for any set of files, any number of downloads and any    *)
(* failures, as long as no two downloads are of the same book: nothing on  *)
(* the shelf is written over, and no payload is lost but by a failed way   *)
(* back.  What carries it is that a destination an import has in hand and  *)
(* might still take is empty.  Then the row of a book whose files these    *)
(* are: a refresh takes back no edit of its media type, and concurrent     *)
(* imports agree with it.  Then audiobooks: no track is lost and no folder *)
(* emptied of what is another's, as a folder is its import's or its book's;*)
(* one that is imported is whole, and no failed attempt leaves litter.     *)
(***************************************************************************)
EXTENDS ImportPlacement, BookStatus, AudiobookPlacement, FiniteSetTheorems,
        WellFoundedInduction, TLAPS

\* No two downloads of one book: what rules out OneImportPerDestination's exception.
OneDownloadPerBook == \A d, e \in Imports : BookOf[d] = BookOf[e] => d = e

FilesOf(d) == {f \in BookFiles : DlOf[f] = d}

ImportRecords == [pc : Steps, file : BookFiles \cup {"none"}, dest : Dests \cup {NoDest},
                  todo : SUBSET BookFiles, landed : SUBSET BookFiles,
                  moved : SUBSET BookFiles, refused : SUBSET BookFiles,
                  owned : SUBSET BookFiles]

PlaceTypes ==
  /\ source \subseteq BookFiles /\ staged \subseteq BookFiles
  /\ shelf \in [Dests -> BookFiles \cup {"none", "stray"}]
  /\ bookFiles \in [Dests -> Books \cup {"none"}]
  /\ ilock \in [Imports -> ImportRecords]

\* What an import has in hand: its own file, staged when it says so, and a destination
\* that is empty unless another book has taken it meanwhile.
ImportInv(d) ==
  LET l == ilock[d]  b == BookOf[d]
  IN /\ l.todo \subseteq FilesOf(d) /\ l.moved \subseteq FilesOf(d)
     /\ \A f \in l.moved : \E p \in Dests : shelf[p] = f
     /\ l.pc \in {"stage", "record", "commit", "unrecord"} =>
          /\ l.file \in FilesOf(d) /\ l.dest \in Dests
          /\ bookFiles[l.dest] \in {"none", b} => shelf[l.dest] = "none"
     /\ l.pc \in {"record", "commit", "unrecord"} =>
          l.file \in staged /\ (placing # "rename" => l.file \in source)
     /\ l.pc \in {"commit", "unrecord"} => bookFiles[l.dest] = b

PlaceInv == PlaceTypes /\ (\A d \in Imports : ImportInv(d)) /\ PayloadRemains

LEMMA PlaceInitInv == PlaceInit => PlaceInv
<1> SUFFICES ASSUME PlaceInit PROVE PlaceInv
  OBVIOUS
<1>1. IdleImport \in ImportRecords
  BY DEF IdleImport, ImportRecords, Steps
<1>2. shelf \in [Dests -> BookFiles \cup {"none", "stray"}]
  BY DEF PlaceInit
<1>3. PlaceTypes
  BY <1>1, <1>2 DEF PlaceInit, PlaceTypes
<1>4. ASSUME NEW d \in Imports PROVE ImportInv(d)
  BY DEF PlaceInit, ImportInv, IdleImport
<1>5. PayloadRemains
  BY DEF PlaceInit, PayloadRemains
<1> QED BY <1>3, <1>4, <1>5 DEF PlaceInv

-----------------------------------------------------------------------------
(* What a step of one import leaves to the others. *)

LEMMA BooksDiffer ==
  ASSUME OneDownloadPerBook, NEW d \in Imports, NEW e \in Imports, d # e
  PROVE  BookOf[d] # BookOf[e] /\ BookOf[d] # "none" /\ BookOf[e] # "none"
BY PlacementAssumption DEF OneDownloadPerBook, Books

\* The import of another download goes on as it was: its files and its record are not
\* touched, and what changes of its destination is no longer for it.
LEMMA OthersKept ==
  ASSUME NEW d \in Imports, NEW e \in Imports, d # e, PlaceTypes, ImportInv(e),
         ilock'[e] = ilock[e], placing' = placing,
         \A f \in FilesOf(e) : (f \in staged => f \in staged') /\ (f \in source => f \in source'),
         \A p \in Dests : shelf[p] = "none" \/ shelf'[p] = shelf[p],
         \A p \in Dests : bookFiles[p] = BookOf[e] => bookFiles'[p] = BookOf[e],
         \A p \in Dests : bookFiles'[p] \in {"none", BookOf[e]} =>
              \/ shelf'[p] = "none"
              \/ bookFiles[p] \in {"none", BookOf[e]} /\ shelf'[p] = shelf[p]
  PROVE  ImportInv(e)'
<1>1. \A f \in ilock[e].moved : \E p \in Dests : shelf'[p] = f
  <2> SUFFICES ASSUME NEW f \in ilock[e].moved PROVE \E p \in Dests : shelf'[p] = f
    OBVIOUS
  <2>1. PICK p \in Dests : shelf[p] = f
    BY DEF ImportInv
  <2>2. f # "none"
    BY PlacementAssumption DEF ImportInv, FilesOf
  <2> QED BY <2>1, <2>2
<1> QED BY <1>1 DEF ImportInv, FilesOf

\* The same when neither the shelf nor a record changes.
LEMMA OthersUntouched ==
  ASSUME NEW d \in Imports, PlaceInv, PlaceTypes', NEW file \in FilesOf(d) \cup {"none"},
         \A e \in Imports \ {d} : ilock'[e] = ilock[e],
         UNCHANGED <<placing, shelf, bookFiles>>,
         \A f \in BookFiles \ FilesOf(d) :
           (f \in staged => f \in staged') /\ (f \in source => f \in source')
  PROVE  \A e \in Imports \ {d} : ImportInv(e)'
<1> SUFFICES ASSUME NEW e \in Imports, d # e PROVE ImportInv(e)'
  OBVIOUS
<1>1. \A f \in FilesOf(e) : f \in BookFiles \ FilesOf(d)
  BY DEF FilesOf
<1> QED BY <1>1, OthersKept DEF PlaceInv

\* What Counted makes of an import.
LEMMA CountedHolds ==
  ASSUME PlaceTypes, NEW d \in Imports, NEW f \in FilesOf(d), NEW headings,
         Counted(d, headings, f)
  PROVE  /\ ilock' \in [Imports -> ImportRecords]
         /\ \A e \in Imports \ {d} : ilock'[e] = ilock[e]
         /\ ilock'[d].pc = "next" /\ ilock'[d].todo = ilock[d].todo \ {f}
         /\ ilock'[d].moved = ilock[d].moved \cup (IF "moved" \in headings THEN {f} ELSE {})
<1> DEFINE with(had, heading) == IF heading \in headings THEN had \cup {f} ELSE had
           l == [pc |-> "next", file |-> "none", dest |-> NoDest,
                 todo |-> ilock[d].todo \ {f},
                 landed |-> with(ilock[d].landed, "landed"),
                 moved |-> with(ilock[d].moved, "moved"),
                 refused |-> with(ilock[d].refused, "refused"),
                 owned |-> with(ilock[d].owned, "owned")]
<1>1. ilock' = [ilock EXCEPT ![d] = l]
  BY DEF Counted
<1>2. ilock[d] \in ImportRecords /\ f \in BookFiles
  BY DEF PlaceTypes, FilesOf
<1>3. \A had \in SUBSET BookFiles, h \in {"landed", "moved", "refused", "owned"} :
        with(had, h) \in SUBSET BookFiles
  BY <1>2
<1>4. l.moved = ilock[d].moved \cup (IF "moved" \in headings THEN {f} ELSE {})
  OBVIOUS
<1> HIDE DEF with
<1>5. l \in ImportRecords
  BY <1>2, <1>3 DEF ImportRecords, Steps
<1> QED BY <1>1, <1>4, <1>5 DEF PlaceTypes

\* An import that counted a file has its other files to do as before.
LEMMA CountedInv ==
  ASSUME PlaceInv, NEW d \in Imports, NEW f \in FilesOf(d), NEW headings,
         Counted(d, headings, f), PlaceTypes',
         "moved" \in headings => \E p \in Dests : shelf'[p] = f,
         \A p \in Dests : shelf[p] = "none" \/ shelf'[p] = shelf[p]
  PROVE  ImportInv(d)'
<1>1. ImportInv(d) /\ PlaceTypes
  BY DEF PlaceInv
<1>2. /\ ilock'[d].pc = "next" /\ ilock'[d].todo = ilock[d].todo \ {f}
      /\ ilock'[d].moved = ilock[d].moved \cup (IF "moved" \in headings THEN {f} ELSE {})
  BY <1>1, CountedHolds
<1>3. ASSUME NEW g \in ilock'[d].moved PROVE \E p \in Dests : shelf'[p] = g
  <2>1. CASE g \in ilock[d].moved
    <3>1. PICK p \in Dests : shelf[p] = g
      BY <1>1, <2>1 DEF ImportInv
    <3>2. g # "none"
      BY <1>1, <2>1, PlacementAssumption DEF ImportInv, FilesOf
    <3> QED BY <3>1, <3>2
  <2>2. CASE g \notin ilock[d].moved
    BY <1>2, <1>3, <2>2
  <2> QED BY <2>1, <2>2
<1>4. ilock'[d].todo \subseteq FilesOf(d) /\ ilock'[d].moved \subseteq FilesOf(d)
  BY <1>1, <1>2 DEF ImportInv
<1> QED BY <1>2, <1>3, <1>4 DEF ImportInv, FilesOf

\* Payload that stays at its download, staged or on the shelf.
LEMMA PayloadKept ==
  ASSUME PayloadRemains, PlaceTypes, lost \subseteq lost',
         \A p \in Dests : shelf[p] = "none" \/ shelf'[p] = shelf[p],
         \A f \in BookFiles \ lost' :
           f \in source \cup staged =>
             f \in source' \cup staged' \/ \E p \in Dests : shelf'[p] = f
  PROVE  PayloadRemains'
<1> SUFFICES ASSUME NEW f \in BookFiles \ lost', f \notin source \cup staged
             PROVE  \E p \in Dests : shelf'[p] = f
  BY DEF PayloadRemains
<1>1. PICK p \in Dests : shelf[p] = f
  BY DEF PayloadRemains
<1>2. f # "none"
  BY PlacementAssumption
<1> QED BY <1>1, <1>2

\* The way back of a staged file.
LEMMA UndoHolds ==
  ASSUME PlaceTypes, NEW f \in BookFiles, f \in staged, placing # "rename" => f \in source,
         UndoStage(f)
  PROVE  /\ staged' = staged \ {f} /\ source \subseteq source' /\ source' \subseteq BookFiles
         /\ lost \subseteq lost' /\ (f \in source' \/ f \in lost')
BY DEF UndoStage, PlaceTypes

-----------------------------------------------------------------------------
(* The steps of an import. *)

LEMMA BeginStep ==
  ASSUME PlaceInv, NEW d \in Imports, PlaceBegin(d) PROVE PlaceInv'
<1> USE DEF PlaceInv
<1>1. UNCHANGED <<placing, source, staged, shelf, bookFiles, lost>>
  BY DEF PlaceBegin
<1>2. CASE ilock' = ilock
  BY <1>1, <1>2 DEF PlaceTypes, ImportInv, PayloadRemains
<1>3. CASE ilock' = [ilock EXCEPT ![d] = [IdleImport EXCEPT !.pc = "next", !.todo = FilesAt(d)]]
  <2> DEFINE l == [IdleImport EXCEPT !.pc = "next", !.todo = FilesAt(d)]
  <2>1. /\ l \in ImportRecords /\ l.pc = "next" /\ l.moved = {} /\ l.todo \subseteq FilesOf(d)
    BY DEF IdleImport, ImportRecords, Steps, FilesAt, FilesOf, PlaceTypes
  <2> HIDE DEF l
  <2>2. ilock'[d] = l /\ \A e \in Imports \ {d} : ilock'[e] = ilock[e]
    BY <1>3 DEF PlaceTypes, l
  <2>3. PlaceTypes'
    BY <1>1, <1>3, <2>1 DEF PlaceTypes, l
  <2>4. ImportInv(d)'
    BY <2>1, <2>2 DEF ImportInv, FilesOf
  <2>5. \A e \in Imports \ {d} : ImportInv(e)'
    BY <1>1, <2>2, <2>3, OthersUntouched
  <2>6. PayloadRemains'
    BY <1>1 DEF PayloadRemains
  <2> QED BY <2>3, <2>4, <2>5, <2>6
<1> QED BY <1>2, <1>3 DEF PlaceBegin

\* A step that counts a file and touches no file and no record.
LEMMA OnlyCounts ==
  ASSUME PlaceInv, NEW d \in Imports, NEW f \in FilesOf(d), NEW headings,
         Counted(d, headings, f), "moved" \notin headings,
         UNCHANGED <<placing, source, staged, shelf, bookFiles, lost>>
  PROVE  PlaceInv'
<1>1. ilock' \in [Imports -> ImportRecords] /\ \A e \in Imports \ {d} : ilock'[e] = ilock[e]
  BY CountedHolds DEF PlaceInv
<1>2. PlaceTypes'
  BY <1>1 DEF PlaceInv, PlaceTypes
<1>3. ImportInv(d)'
  BY <1>2, CountedInv
<1>4. \A e \in Imports \ {d} : ImportInv(e)'
  BY <1>1, <1>2, OthersUntouched
<1>5. PayloadRemains'
  BY DEF PlaceInv, PayloadRemains
<1> QED BY <1>2, <1>3, <1>4, <1>5 DEF PlaceInv

LEMMA NextStep ==
  ASSUME PlaceInv, NEW d \in Imports, PlaceNext(d) PROVE PlaceInv'
<1>1. UNCHANGED <<placing, source, staged, shelf, bookFiles, lost>> /\ ilock[d].pc = "next"
  BY DEF PlaceNext, At
<1>2. ilock[d] \in ImportRecords /\ ImportInv(d) /\ PlaceTypes
  BY DEF PlaceInv, PlaceTypes
<1>3. PICK f \in ilock[d].todo :
        \/ Counted(d, {"landed"}, f)
        \/ Counted(d, {"refused"}, f)
        \/ \E n \in 1..MaxSuffix :
             /\ FirstFree(StemOf[f], BookOf[d], n)
             /\ ~Landed(<<StemOf[f], n>>, BookOf[d])
             /\ ilock' = [ilock EXCEPT ![d].pc = "stage", ![d].file = f,
                                       ![d].dest = <<StemOf[f], n>>]
  BY DEF PlaceNext
<1>4. f \in FilesOf(d) /\ f \in BookFiles
  BY <1>2, <1>3 DEF ImportInv, FilesOf
<1>5. CASE Counted(d, {"landed"}, f) \/ Counted(d, {"refused"}, f)
  <2>1. PICK headings \in {{"landed"}, {"refused"}} : Counted(d, headings, f)
    BY <1>5
  <2> QED BY <1>1, <1>4, <2>1, OnlyCounts
<1>6. ASSUME NEW n \in 1..MaxSuffix, FirstFree(StemOf[f], BookOf[d], n),
             ~Landed(<<StemOf[f], n>>, BookOf[d]),
             ilock' = [ilock EXCEPT ![d].pc = "stage", ![d].file = f,
                                    ![d].dest = <<StemOf[f], n>>]
      PROVE  PlaceInv'
  <2> DEFINE p == <<StemOf[f], n>>
  <2>1. p \in Dests /\ shelf[p] = "none"
    BY <1>4, <1>6 DEF Dests, Stems, FirstFree, Free, Landed
  <2> HIDE DEF p
  <2>2. /\ ilock' \in [Imports -> ImportRecords] /\ ilock'[d].pc = "stage"
        /\ ilock'[d].file = f /\ ilock'[d].dest = p /\ ilock'[d].todo = ilock[d].todo
        /\ ilock'[d].moved = ilock[d].moved
        /\ \A e \in Imports \ {d} : ilock'[e] = ilock[e]
    BY <1>2, <1>4, <1>6, <2>1 DEF PlaceTypes, ImportRecords, Steps, p
  <2>3. PlaceTypes'
    BY <1>1, <1>2, <2>2 DEF PlaceTypes
  <2>4. ImportInv(d)'
    BY <1>1, <1>2, <1>4, <2>1, <2>2 DEF ImportInv, FilesOf
  <2>5. \A e \in Imports \ {d} : ImportInv(e)'
    BY <1>1, <2>2, <2>3, OthersUntouched
  <2>6. PayloadRemains'
    BY <1>1 DEF PlaceInv, PayloadRemains
  <2> QED BY <2>3, <2>4, <2>5, <2>6 DEF PlaceInv
<1> QED BY <1>3, <1>5, <1>6

LEMMA StageStep ==
  ASSUME PlaceInv, NEW d \in Imports, PlaceStage(d) PROVE PlaceInv'
<1> DEFINE f == ilock[d].file
<1>1. UNCHANGED <<placing, shelf, bookFiles, lost>> /\ ilock[d].pc = "stage"
  BY DEF PlaceStage, At
<1>2. ilock[d] \in ImportRecords /\ ImportInv(d) /\ PlaceTypes /\ f \in FilesOf(d)
      /\ f \in BookFiles
  BY <1>1 DEF PlaceInv, PlaceTypes, ImportInv, FilesOf
<1>3. CASE Counted(d, {"refused"}, f) /\ UNCHANGED <<source, staged>>
  BY <1>1, <1>2, <1>3, OnlyCounts
<1>4. CASE /\ f \in source /\ staged' = staged \cup {f}
           /\ source' = IF placing \in LeavesAtOnce THEN source \ {f} ELSE source
           /\ ilock' = [ilock EXCEPT ![d].pc = "record"]
  <2>1. /\ ilock' \in [Imports -> ImportRecords] /\ ilock'[d].pc = "record"
        /\ ilock'[d].file = f /\ ilock'[d].dest = ilock[d].dest
        /\ ilock'[d].todo = ilock[d].todo /\ ilock'[d].moved = ilock[d].moved
        /\ \A e \in Imports \ {d} : ilock'[e] = ilock[e]
    BY <1>2, <1>4 DEF PlaceTypes, ImportRecords, Steps
  <2>2. PlaceTypes'
    BY <1>1, <1>2, <1>4, <2>1 DEF PlaceTypes
  <2>3. f \in staged' /\ (placing # "rename" => f \in source')
    BY <1>4 DEF LeavesAtOnce
  <2>4. ImportInv(d)'
    BY <1>1, <1>2, <2>1, <2>3 DEF ImportInv, FilesOf
  <2>5. \A g \in BookFiles \ FilesOf(d) :
          (g \in staged => g \in staged') /\ (g \in source => g \in source')
    BY <1>2, <1>4
  <2>6. \A e \in Imports \ {d} : ImportInv(e)'
    BY <1>1, <2>1, <2>2, <2>5, OthersUntouched
  <2>7. \A g \in BookFiles : g \in source \cup staged => g \in source' \cup staged'
    BY <1>4
  <2>8. PayloadRemains'
    BY <1>1, <2>7 DEF PlaceInv, PayloadRemains
  <2> QED BY <2>2, <2>4, <2>6, <2>8 DEF PlaceInv
<1> QED BY <1>3, <1>4 DEF PlaceStage

\* An import that puts its file back, counts it, and at most writes a record or deletes its
\* own.
LEMMA UndoneStep ==
  ASSUME PlaceInv, OneDownloadPerBook, NEW d \in Imports, NEW headings, "moved" \notin headings,
         ilock[d].pc \in {"record", "unrecord"},
         UndoStage(ilock[d].file), Counted(d, headings, ilock[d].file),
         UNCHANGED <<placing, shelf>>,
         \/ bookFiles' = bookFiles
         \/ /\ bookFiles[ilock[d].dest] \in {"none", BookOf[d]}
            /\ bookFiles' = [bookFiles EXCEPT ![ilock[d].dest] = BookOf[d]]
         \/ /\ ilock[d].pc = "unrecord"
            /\ bookFiles' = [bookFiles EXCEPT ![ilock[d].dest] = "none"]
  PROVE  PlaceInv'
<1> DEFINE f == ilock[d].file
           p == ilock[d].dest
<1>1. ImportInv(d) /\ PlaceTypes
  BY DEF PlaceInv
<1>2. /\ f \in FilesOf(d) /\ f \in BookFiles /\ p \in Dests
      /\ f \in staged /\ (placing # "rename" => f \in source)
      /\ bookFiles[p] \in {"none", BookOf[d]} => shelf[p] = "none"
      /\ ilock[d].pc = "unrecord" => bookFiles[p] = BookOf[d]
  BY <1>1 DEF ImportInv, FilesOf
<1>3. /\ staged' = staged \ {f} /\ source \subseteq source' /\ source' \subseteq BookFiles
      /\ lost \subseteq lost' /\ (f \in source' \/ f \in lost')
  BY <1>1, <1>2, UndoHolds
<1>4. ilock' \in [Imports -> ImportRecords] /\ \A e \in Imports \ {d} : ilock'[e] = ilock[e]
  BY <1>1, <1>2, CountedHolds
<1>5. bookFiles' \in [Dests -> Books \cup {"none"}]
  BY <1>1, <1>2 DEF PlaceTypes, Books
<1>6. PlaceTypes'
  BY <1>1, <1>3, <1>4, <1>5 DEF PlaceTypes
<1>7. ImportInv(d)'
  BY <1>2, <1>6, CountedInv
<1>8. ASSUME NEW e \in Imports, d # e PROVE ImportInv(e)'
  <2>1. BookOf[d] # BookOf[e] /\ BookOf[d] # "none" /\ BookOf[e] # "none"
    BY <1>8, BooksDiffer
  <2>2. \A g \in FilesOf(e) : g # f
    BY <1>2, <1>8 DEF FilesOf
  <2>3. \A q \in Dests \ {p} : bookFiles'[q] = bookFiles[q]
    BY <1>1, <1>2 DEF PlaceTypes
  <2>4. \/ bookFiles'[p] = bookFiles[p]
        \/ bookFiles[p] \in {"none", BookOf[d]} /\ shelf[p] = "none"
    BY <1>1, <1>2 DEF PlaceTypes
  <2>5. \A q \in Dests : bookFiles[q] = BookOf[e] => bookFiles'[q] = BookOf[e]
    BY <2>1, <2>3, <2>4
  <2>6. \A q \in Dests : bookFiles'[q] \in {"none", BookOf[e]} =>
          \/ shelf'[q] = "none"
          \/ bookFiles[q] \in {"none", BookOf[e]} /\ shelf'[q] = shelf[q]
    BY <2>3, <2>4
  <2> QED BY <1>1, <1>3, <1>4, <1>8, <2>2, <2>5, <2>6, OthersKept DEF PlaceInv
<1>9. PayloadRemains'
  BY <1>1, <1>3, PayloadKept DEF PlaceInv
<1> QED BY <1>6, <1>7, <1>8, <1>9 DEF PlaceInv

LEMMA RecordStep ==
  ASSUME PlaceInv, OneDownloadPerBook, NEW d \in Imports, PlaceRecord(d) PROVE PlaceInv'
<1> DEFINE f == ilock[d].file
           p == ilock[d].dest
           b == BookOf[d]
<1>1. UNCHANGED <<placing, shelf>> /\ ilock[d].pc = "record"
  BY DEF PlaceRecord, At
<1>2. ImportInv(d) /\ PlaceTypes /\ ilock[d] \in ImportRecords
  BY DEF PlaceInv, PlaceTypes
<1>3. CASE /\ bookFiles[p] \in {"none", b}
           /\ bookFiles' = [bookFiles EXCEPT ![p] = b]
           /\ ilock' = [ilock EXCEPT ![d].pc = "commit"]
           /\ UNCHANGED <<source, staged, lost>>
  <2>1. /\ ilock' \in [Imports -> ImportRecords] /\ ilock'[d].pc = "commit"
        /\ ilock'[d].file = f /\ ilock'[d].dest = p
        /\ ilock'[d].todo = ilock[d].todo /\ ilock'[d].moved = ilock[d].moved
        /\ \A e \in Imports \ {d} : ilock'[e] = ilock[e]
    BY <1>2, <1>3 DEF PlaceTypes, ImportRecords, Steps
  <2>2. p \in Dests /\ shelf[p] = "none" /\ bookFiles'[p] = b
        /\ \A q \in Dests \ {p} : bookFiles'[q] = bookFiles[q]
    BY <1>1, <1>2, <1>3 DEF ImportInv, PlaceTypes
  <2>3. PlaceTypes'
    BY <1>1, <1>2, <1>3, <2>1 DEF PlaceTypes, Books
  <2>4. ImportInv(d)'
    BY <1>1, <1>2, <1>3, <2>1, <2>2 DEF ImportInv, FilesOf
  <2>5. ASSUME NEW e \in Imports, d # e PROVE ImportInv(e)'
    <3>1. BookOf[d] # BookOf[e] /\ BookOf[d] # "none" /\ BookOf[e] # "none"
      BY <2>5, BooksDiffer
    <3>2. \A q \in Dests : bookFiles[q] = BookOf[e] => bookFiles'[q] = BookOf[e]
      BY <1>3, <2>2, <3>1
    <3>3. \A q \in Dests : bookFiles'[q] \in {"none", BookOf[e]} =>
            \/ shelf'[q] = "none"
            \/ bookFiles[q] \in {"none", BookOf[e]} /\ shelf'[q] = shelf[q]
      BY <1>1, <2>2, <3>1
    <3> QED BY <1>1, <1>2, <1>3, <2>1, <2>5, <3>2, <3>3, OthersKept DEF PlaceInv
  <2>6. PayloadRemains'
    BY <1>1, <1>3 DEF PlaceInv, PayloadRemains
  <2> QED BY <2>3, <2>4, <2>5, <2>6 DEF PlaceInv
<1>4. CASE /\ UndoStage(f) /\ Counted(d, {"refused", "owned"}, f) /\ UNCHANGED bookFiles
  BY <1>1, <1>4, UndoneStep
<1>5. CASE /\ bookFiles[p] \in {"none", b}
           /\ UndoStage(f) /\ Counted(d, {"refused"}, f)
           /\ bookFiles' \in {bookFiles, [bookFiles EXCEPT ![p] = b]}
  BY <1>1, <1>5, UndoneStep
<1> QED BY <1>3, <1>4, <1>5 DEF PlaceRecord

LEMMA UnrecordStep ==
  ASSUME PlaceInv, OneDownloadPerBook, NEW d \in Imports, PlaceUnrecord(d) PROVE PlaceInv'
<1>1. /\ ilock[d].pc = "unrecord" /\ UNCHANGED <<placing, shelf>>
      /\ UndoStage(ilock[d].file) /\ Counted(d, {"refused"}, ilock[d].file)
      /\ \/ bookFiles' = [bookFiles EXCEPT ![ilock[d].dest] = "none"]
         \/ bookFiles' = bookFiles
  BY DEF PlaceUnrecord, At
<1> QED BY <1>1, UndoneStep

LEMMA CommitStep ==
  ASSUME PlaceInv, OneDownloadPerBook, NEW d \in Imports, PlaceCommit(d) PROVE PlaceInv'
<1> DEFINE f == ilock[d].file
           p == ilock[d].dest
           b == BookOf[d]
<1>1. UNCHANGED <<placing, bookFiles, lost>> /\ ilock[d].pc = "commit"
  BY DEF PlaceCommit, At
<1>2. ImportInv(d) /\ PlaceTypes /\ ilock[d] \in ImportRecords
  BY DEF PlaceInv, PlaceTypes
<1>3. /\ f \in FilesOf(d) /\ f \in BookFiles /\ p \in Dests
      /\ bookFiles[p] = b /\ shelf[p] = "none"
  BY <1>1, <1>2 DEF ImportInv, FilesOf
<1>4. CASE ilock' = [ilock EXCEPT ![d].pc = "unrecord"] /\ UNCHANGED <<source, staged, shelf>>
  <2>1. /\ ilock' \in [Imports -> ImportRecords] /\ ilock'[d].pc = "unrecord"
        /\ ilock'[d].file = f /\ ilock'[d].dest = p
        /\ ilock'[d].todo = ilock[d].todo /\ ilock'[d].moved = ilock[d].moved
        /\ \A e \in Imports \ {d} : ilock'[e] = ilock[e]
    BY <1>2, <1>4 DEF PlaceTypes, ImportRecords, Steps
  <2>2. PlaceTypes'
    BY <1>1, <1>2, <1>4, <2>1 DEF PlaceTypes
  <2>3. ImportInv(d)'
    BY <1>1, <1>2, <1>4, <2>1 DEF ImportInv, FilesOf
  <2>4. \A e \in Imports \ {d} : ImportInv(e)'
    BY <1>1, <1>4, <2>1, <2>2, OthersUntouched
  <2>5. PayloadRemains'
    BY <1>1, <1>4 DEF PlaceInv, PayloadRemains
  <2> QED BY <2>2, <2>3, <2>4, <2>5 DEF PlaceInv
<1>5. CASE /\ shelf' = [shelf EXCEPT ![p] = f]
           /\ staged' = staged \ {f}
           /\ source' \in {source, IF placing = "copy" THEN source \ {f} ELSE source}
           /\ Counted(d, {"landed", "moved"}, f)
  <2>1. shelf'[p] = f /\ \A q \in Dests \ {p} : shelf'[q] = shelf[q]
    BY <1>2, <1>3, <1>5 DEF PlaceTypes
  <2>2. \A q \in Dests : shelf[q] = "none" \/ shelf'[q] = shelf[q]
    BY <1>3, <2>1
  <2>3. ilock' \in [Imports -> ImportRecords] /\ \A e \in Imports \ {d} : ilock'[e] = ilock[e]
    BY <1>2, <1>3, <1>5, CountedHolds
  <2>4. PlaceTypes'
    BY <1>1, <1>2, <1>3, <1>5, <2>3 DEF PlaceTypes
  <2>5. ImportInv(d)'
    BY <1>3, <1>5, <2>1, <2>2, <2>4, CountedInv
  <2>6. ASSUME NEW e \in Imports, d # e PROVE ImportInv(e)'
    <3>1. BookOf[d] # BookOf[e] /\ BookOf[d] # "none" /\ BookOf[e] # "none"
      BY <2>6, BooksDiffer
    <3>2. \A g \in FilesOf(e) : g # f
      BY <1>3, <2>6 DEF FilesOf
    <3>3. \A q \in Dests : bookFiles'[q] \in {"none", BookOf[e]} =>
            \/ shelf'[q] = "none"
            \/ bookFiles[q] \in {"none", BookOf[e]} /\ shelf'[q] = shelf[q]
      BY <1>1, <1>3, <2>1, <3>1
    <3> QED BY <1>1, <1>2, <1>5, <2>2, <2>3, <2>6, <3>2, <3>3, OthersKept DEF PlaceInv
  <2>7. PayloadRemains'
    <3>1. \A g \in BookFiles \ {f} : g \in source \cup staged => g \in source' \cup staged'
      BY <1>5
    <3> QED BY <1>1, <1>2, <1>3, <2>1, <2>2, <3>1, PayloadKept DEF PlaceInv
  <2> QED BY <2>4, <2>5, <2>6, <2>7 DEF PlaceInv
<1> QED BY <1>4, <1>5 DEF PlaceCommit

\* What a clean move clears is on the shelf.
LEMMA EndStep ==
  ASSUME PlaceInv, NEW d \in Imports, PlaceEnd(d) PROVE PlaceInv'
<1>1. /\ UNCHANGED <<placing, staged, shelf, bookFiles, lost>>
      /\ ilock' = [ilock EXCEPT ![d] = IdleImport]
      /\ source' = source \/ source' = source \ ilock[d].moved
  BY DEF PlaceEnd
<1>2. ImportInv(d) /\ PlaceTypes
  BY DEF PlaceInv
<1>3. IdleImport \in ImportRecords
  BY DEF IdleImport, ImportRecords, Steps
<1>4. ilock'[d] = IdleImport /\ \A e \in Imports \ {d} : ilock'[e] = ilock[e]
  BY <1>1, <1>2 DEF PlaceTypes
<1>5. PlaceTypes'
  BY <1>1, <1>2, <1>3 DEF PlaceTypes
<1>6. ImportInv(d)'
  BY <1>4 DEF ImportInv, IdleImport
<1>7. \A g \in BookFiles \ FilesOf(d) : g \in source => g \in source'
  BY <1>1, <1>2 DEF ImportInv
<1>8. \A e \in Imports \ {d} : ImportInv(e)'
  BY <1>1, <1>4, <1>5, <1>7, OthersUntouched
<1>9. \A g \in BookFiles : g \in source \cup staged =>
        g \in source' \cup staged' \/ \E p \in Dests : shelf'[p] = g
  BY <1>1, <1>2 DEF ImportInv
<1>10. PayloadRemains'
  BY <1>1, <1>2, <1>9, PayloadKept DEF PlaceInv
<1> QED BY <1>5, <1>6, <1>8, <1>10 DEF PlaceInv

LEMMA CrashStep ==
  ASSUME PlaceInv, PlaceCrash PROVE PlaceInv'
<1>1. /\ UNCHANGED <<placing, source, staged, shelf, bookFiles, lost>>
      /\ ilock' = [d \in Imports |-> IdleImport]
  BY DEF PlaceCrash
<1>2. IdleImport \in ImportRecords
  BY DEF IdleImport, ImportRecords, Steps
<1>3. PlaceTypes'
  BY <1>1, <1>2 DEF PlaceInv, PlaceTypes
<1>4. ASSUME NEW d \in Imports PROVE ImportInv(d)'
  BY <1>1 DEF ImportInv, IdleImport
<1>5. PayloadRemains'
  BY <1>1 DEF PlaceInv, PayloadRemains
<1> QED BY <1>3, <1>4, <1>5 DEF PlaceInv

LEMMA PlaceStep ==
  ASSUME PlaceInv, OneDownloadPerBook, [PlaceNextState]_placeVars PROVE PlaceInv'
<1>1. ASSUME NEW d \in Imports, PlaceWalled(d) PROVE PlaceInv'
  <2>1. ilock[d].pc = "stage" /\ UNCHANGED <<placing, source, staged, shelf, bookFiles, lost>>
        /\ Counted(d, {"refused", "owned"}, ilock[d].file)
    BY <1>1 DEF PlaceWalled, At
  <2>2. ilock[d].file \in FilesOf(d)
    BY <2>1 DEF PlaceInv, ImportInv
  <2> QED BY <2>1, <2>2, OnlyCounts
<1>2. CASE UNCHANGED placeVars
  BY <1>2 DEF placeVars, PlaceInv, PlaceTypes, ImportInv, PayloadRemains
<1> QED BY <1>1, <1>2, BeginStep, NextStep, StageStep, RecordStep, CommitStep, UnrecordStep,
           EndStep, CrashStep DEF PlaceNextState

-----------------------------------------------------------------------------

\* The inductive invariant of placing files.
THEOREM PlacementInvariant == OneDownloadPerBook /\ PlaceSpec => []PlaceInv
<1>1. OneDownloadPerBook /\ PlaceInv /\ [PlaceNextState]_placeVars => PlaceInv'
  BY PlaceStep
<1>2. CASE OneDownloadPerBook
  <2>1. PlaceInv /\ [PlaceNextState]_placeVars => PlaceInv'
    BY <1>1, <1>2
  <2> QED BY <2>1, PlaceInitInv, PTL DEF PlaceSpec
<1>3. CASE ~OneDownloadPerBook
  BY <1>3
<1> QED BY <1>2, <1>3

\* StagedImport, recordImportedFile and commit: with one download of each book, whatever
\* fails and wherever the process stops, the payload of a file is at its download, staged or
\* in the library, unless putting it back failed too.
THEOREM PayloadNeverLost == OneDownloadPerBook /\ PlaceSpec => []PayloadRemains
<1>1. PlaceInv => PayloadRemains
  BY DEF PlaceInv
<1> QED BY <1>1, PlacementInvariant, PTL

\* The rename into place only ever fills an empty destination, so that no file of another
\* book, and none that nobody tracks, is written over.
THEOREM NothingWrittenOver == OneDownloadPerBook /\ PlaceSpec => OthersFilesStay
<1>1. PlaceInv /\ [PlaceNextState]_placeVars =>
        [\A p \in Dests : shelf'[p] # shelf[p] /\ shelf[p] # "none" =>
           /\ shelf[p] # "stray"
           /\ bookFiles[p] = BookOf[DlOf[shelf'[p]]]]_placeVars
  <2> SUFFICES ASSUME PlaceInv, PlaceNextState, NEW p \in Dests, shelf'[p] # shelf[p],
                      shelf[p] # "none"
               PROVE  FALSE
    BY DEF placeVars
  <2>1. PICK d \in Imports : PlaceCommit(d)
    BY DEF PlaceNextState, PlaceBegin, PlaceNext, PlaceWalled, PlaceStage, PlaceRecord,
       PlaceUnrecord, PlaceEnd, PlaceCrash
  <2>2. shelf' = [shelf EXCEPT ![ilock[d].dest] = ilock[d].file] /\ ilock[d].pc = "commit"
    BY <2>1 DEF PlaceCommit, At
  <2>3. shelf[ilock[d].dest] = "none"
    BY <2>2 DEF PlaceInv, ImportInv
  <2> QED BY <2>2, <2>3 DEF PlaceInv, PlaceTypes
<1> QED BY <1>1, PlacementInvariant, PTL DEF PlaceSpec, OthersFilesStay

-----------------------------------------------------------------------------
(* The refresh of a book's row. *)

\* What a refresh is about to write has the media type it read, or both.
DerivedInv ==
  \A w \in Workers : worker[w].pc = "write" =>
    worker[w].derived.media \in {worker[w].seen.media, "both"}

RefreshInv == BookTypeOK /\ DerivedInv

\* A file of lowest rank among any there are.
LEMMA LowestRank ==
  ASSUME NEW rows \in SUBSET Files, rows # {}
  PROVE  \E f \in rows : \A g \in rows : Rank[f] <= Rank[g]
<1> DEFINE ranks == {Rank[f] : f \in rows}
<1>1. ranks \subseteq Nat /\ ranks # {}
  BY BookAssumption
<1>2. PICK n \in ranks : \A m \in ranks : <<m, n>> \notin OpToRel(<, Nat)
  BY <1>1, NatLessThanWellFounded, WFMin
<1>3. ASSUME NEW m \in ranks, ~(n <= m) PROVE FALSE
  <2>1. m \in Nat /\ n \in Nat
    BY <1>1
  <2>2. <<m, n>> \in Nat \X Nat /\ <<m, n>>[1] < <<m, n>>[2]
    BY <1>3, <2>1
  <2>3. <<m, n>> \in OpToRel(<, Nat)
    BY <2>2, Zenon DEF OpToRel
  <2> QED BY <1>2, <2>3
<1> QED BY <1>3

\* derivedFormatPath yields a tracked file or none.
LEMMA DerivedPaths ==
  ASSUME tracked \subseteq Files, NEW kind PROVE Derived(kind) \in Files \cup {NoPath}
<1> DEFINE rows == {f \in tracked : KindOf[f] = kind}
           best == CHOOSE f \in rows : \A g \in rows : Rank[f] <= Rank[g]
<1>1. Derived(kind) = IF rows = {} THEN NoPath ELSE best
  BY DEF Derived
<1>2. CASE rows = {}
  BY <1>1, <1>2
<1>3. CASE rows # {}
  <2>1. \E f \in rows : \A g \in rows : Rank[f] <= Rank[g]
    BY <1>3, LowestRank
  <2>2. best \in rows
    BY <2>1
  <2> HIDE DEF best
  <2> QED BY <1>1, <1>3, <2>2
<1> QED BY <1>2, <1>3

\* What a refresh writes is a row, and its media type is the one read, or both.
LEMMA RefreshedRow ==
  ASSUME tracked \subseteq Files, NEW r \in BookRow
  PROVE  Refreshed(r) \in BookRow /\ Refreshed(r).media \in {r.media, "both"}
<1> DEFINE paths == [r EXCEPT !.ebook = Derived("ebook"), !.audiobook = Derived("audiobook")]
           wide  == IF paths.ebook # NoPath /\ paths.audiobook # NoPath
                    THEN [paths EXCEPT !.media = "both"] ELSE paths
           last  == [wide EXCEPT !.status = IF Complete(wide) THEN "imported"
                                            ELSE IF @ = "imported" THEN "wanted" ELSE @]
<1>1. paths \in BookRow /\ paths.media = r.media
  BY DerivedPaths DEF BookRow
<1> HIDE DEF paths
<1>2. wide \in BookRow /\ wide.media \in {r.media, "both"}
  BY <1>1 DEF BookRow, MediaTypes
<1> HIDE DEF wide
<1>3. last \in BookRow /\ last.media = wide.media
  BY <1>2 DEF BookRow
<1>4. Refreshed(r) = last
  BY DEF Refreshed, paths, wide
<1> QED BY <1>2, <1>3, <1>4

WorkerRecords == [pc : {"idle", "read", "derive", "write", "edit"}, left : 0 .. Attempts,
                  seen : BookRow, derived : BookRow]

LEMMA EmptyRow == NoBookRow \in BookRow /\ Rest \in WorkerRecords
BY BookAssumption DEF NoBookRow, BookRow, MediaTypes, Rest, WorkerRecords

\* One worker's next step keeps the workers' records and what is to be written.
LEMMA WorkerStep ==
  ASSUME RefreshInv, NEW w \in Workers, NEW l \in WorkerRecords,
         worker' = [worker EXCEPT ![w] = l],
         l.pc = "write" => l.derived.media \in {l.seen.media, "both"},
         tracked' \subseteq Files, book' \in BookRow, stuck' \in BOOLEAN, edits' \in 0 .. MaxEdits
  PROVE  RefreshInv'
BY DEF RefreshInv, BookTypeOK, DerivedInv, WorkerRecords

LEMMA RefreshStep ==
  ASSUME RefreshInv, [BookNext]_bookVars PROVE RefreshInv'
<1>a. /\ worker \in [Workers -> WorkerRecords] /\ tracked \subseteq Files /\ book \in BookRow
      /\ stuck \in BOOLEAN /\ edits \in 0 .. MaxEdits
  BY DEF RefreshInv, BookTypeOK, WorkerRecords
<1>1. ASSUME NEW w \in Workers, NEW f \in Files, AddFile(w, f) \/ RemoveFile(w, f)
      PROVE  RefreshInv'
  <2> DEFINE l == [worker[w] EXCEPT !.pc = "read", !.left = Attempts]
  <2>1. worker' = [worker EXCEPT ![w] = l]
    BY <1>a, <1>1 DEF AddFile, RemoveFile, StartsRefresh
  <2>2. l \in WorkerRecords /\ l.pc = "read"
    <3>1. Attempts \in 0 .. Attempts
      BY BookAssumption
    <3> QED BY <1>a, <3>1 DEF WorkerRecords
  <2>3. edits' \in 0 .. MaxEdits
    BY <1>a, <1>1, BookAssumption DEF AddFile, RemoveFile
  <2> HIDE DEF l
  <2> QED BY <1>a, <1>1, <2>1, <2>2, <2>3, WorkerStep DEF AddFile, RemoveFile
<1>2. ASSUME NEW w \in Workers, RefreshRead(w) PROVE RefreshInv'
  <2> DEFINE l == [worker[w] EXCEPT !.pc = "derive", !.seen = book]
  <2>1. worker' = [worker EXCEPT ![w] = l]
    BY <1>a, <1>2 DEF RefreshRead
  <2>2. l \in WorkerRecords /\ l.pc = "derive"
    BY <1>a DEF WorkerRecords
  <2> HIDE DEF l
  <2> QED BY <1>a, <1>2, <2>1, <2>2, WorkerStep DEF RefreshRead
<1>3. ASSUME NEW w \in Workers, RefreshDerive(w) PROVE RefreshInv'
  <2> DEFINE l == [worker[w] EXCEPT !.pc = "write", !.derived = Refreshed(worker[w].seen)]
  <2>1. worker' = [worker EXCEPT ![w] = l]
    BY <1>a, <1>3 DEF RefreshDerive
  <2>2. worker[w].seen \in BookRow
    BY <1>a DEF WorkerRecords
  <2>3. /\ Refreshed(worker[w].seen) \in BookRow
        /\ Refreshed(worker[w].seen).media \in {worker[w].seen.media, "both"}
    BY <1>a, <2>2, RefreshedRow
  <2>4. l \in WorkerRecords /\ l.derived.media \in {l.seen.media, "both"}
    BY <1>a, <2>3 DEF WorkerRecords
  <2> HIDE DEF l
  <2> QED BY <1>a, <1>3, <2>1, <2>4, WorkerStep DEF RefreshDerive
<1>4. ASSUME NEW w \in Workers, RefreshWrite(w) PROVE RefreshInv'
  <2>1. CASE Stands(w)
    <3>1. /\ book' = [worker[w].derived EXCEPT !.monitored = book.monitored]
          /\ worker' = [worker EXCEPT ![w] = Rest] /\ UNCHANGED <<tracked, stuck, edits>>
      BY <1>4, <2>1 DEF RefreshWrite
    <3>2. book' \in BookRow
      BY <1>a, <3>1 DEF WorkerRecords, BookRow
    <3> QED BY <1>a, <3>1, <3>2, EmptyRow, WorkerStep DEF Rest
  <2>2. CASE ~Stands(w)
    <3> DEFINE l == IF worker[w].left > 1
                    THEN [Rest EXCEPT !.pc = "read", !.left = worker[w].left - 1]
                    ELSE Rest
    <3>1. /\ worker' = [worker EXCEPT ![w] = l] /\ UNCHANGED <<tracked, book, edits>>
          /\ stuck' \in BOOLEAN
      BY <1>a, <1>4, <2>2 DEF RefreshWrite
    <3>2. l \in WorkerRecords /\ l.pc # "write"
      <4>1. CASE worker[w].left > 1
        <5>1. worker[w].left - 1 \in 0 .. Attempts
          BY <1>a, <4>1, BookAssumption DEF WorkerRecords
        <5> QED BY <4>1, <5>1, EmptyRow DEF Rest, WorkerRecords
      <4>2. CASE ~(worker[w].left > 1)
        BY <4>2, EmptyRow DEF Rest
      <4> QED BY <4>1, <4>2
    <3> HIDE DEF l
    <3> QED BY <1>a, <3>1, <3>2, WorkerStep
  <2> QED BY <2>1, <2>2
<1>5. ASSUME NEW w \in Workers, EditRead(w) PROVE RefreshInv'
  <2> DEFINE shown(kind) == IF book[kind] # NoPath THEN book[kind] ELSE Derived(kind)
             seen == [book EXCEPT !.ebook = shown("ebook"), !.audiobook = shown("audiobook")]
             l == [worker[w] EXCEPT !.pc = "edit", !.seen = seen]
  <2>1. worker' = [worker EXCEPT ![w] = l] /\ edits < MaxEdits /\ edits' = edits + 1
        /\ UNCHANGED <<tracked, book, stuck>>
    BY <1>a, <1>5 DEF EditRead
  <2>2. shown("ebook") \in Files \cup {NoPath} /\ shown("audiobook") \in Files \cup {NoPath}
    BY <1>a, DerivedPaths DEF BookRow
  <2> HIDE DEF shown
  <2>3. seen \in BookRow
    BY <1>a, <2>2 DEF BookRow
  <2> HIDE DEF seen
  <2>4. l \in WorkerRecords /\ l.pc = "edit"
    BY <1>a, <2>3 DEF WorkerRecords
  <2>5. edits' \in 0 .. MaxEdits
    BY <1>a, <2>1, BookAssumption
  <2> HIDE DEF l
  <2> QED BY <1>a, <2>1, <2>4, <2>5, WorkerStep
<1>6. ASSUME NEW w \in Workers, EditWrite(w) PROVE RefreshInv'
  <2>1. worker[w].seen \in BookRow
    BY <1>a DEF WorkerRecords
  <2>2. book' \in BookRow
    BY <1>6, <2>1 DEF EditWrite, BookRow
  <2> QED BY <1>a, <1>6, <2>2, EmptyRow, WorkerStep DEF EditWrite, Rest
<1>7. CASE UNCHANGED bookVars
  BY <1>7 DEF bookVars, RefreshInv, BookTypeOK, DerivedInv
<1> QED BY <1>1, <1>2, <1>3, <1>4, <1>5, <1>6, <1>7 DEF BookNext

THEOREM RefreshInvariant == BookSpec => []RefreshInv
<1>1. BookInit => RefreshInv
  <2> SUFFICES ASSUME BookInit PROVE RefreshInv
    OBVIOUS
  <2>1. worker \in [Workers -> WorkerRecords] /\ \A w \in Workers : worker[w].pc = "idle"
    <3>1. Rest.pc = "idle"
      BY DEF Rest
    <3> QED BY <3>1, EmptyRow DEF BookInit
  <2>2. edits \in 0 .. MaxEdits
    BY BookAssumption DEF BookInit
  <2>3. tracked \subseteq Files /\ book \in BookRow /\ stuck \in BOOLEAN
    BY DEF BookInit
  <2> QED BY <2>1, <2>2, <2>3 DEF RefreshInv, BookTypeOK, DerivedInv, WorkerRecords
<1>2. RefreshInv /\ [BookNext]_bookVars => RefreshInv'
  BY RefreshStep
<1> QED BY <1>1, <1>2, PTL DEF BookSpec

\* refreshBookStatusOnce writes a copy read before it derived the paths; the guard on the
\* columns it read keeps that write from taking back an edit of the media type, for any
\* number of files, refreshes and edits at once.
THEOREM EditsSurviveRefreshes == BookSpec => RefreshKeepsEdits
<1>1. RefreshInv /\ [BookNext]_bookVars =>
        [\A w \in Workers :
           worker[w].pc = "write" /\ worker'[w].pc # "write"
             => book'.media \in {book.media, "both"}]_bookVars
  <2> SUFFICES ASSUME RefreshInv, BookNext, NEW w \in Workers, worker[w].pc = "write",
                      worker'[w].pc # "write"
               PROVE  book'.media \in {book.media, "both"}
    BY DEF bookVars
  <2>a. worker \in [Workers -> WorkerRecords]
    BY DEF RefreshInv, BookTypeOK, WorkerRecords
  <2>1. RefreshWrite(w)
    BY <2>a DEF BookNext, AddFile, RemoveFile, StartsRefresh, RefreshRead, RefreshDerive,
       RefreshWrite, EditRead, EditWrite
  <2>2. CASE Stands(w)
    <3>1. book'.media = worker[w].derived.media
      BY <2>a, <2>1, <2>2 DEF RefreshWrite, WorkerRecords, BookRow
    <3> QED BY <2>2, <3>1 DEF RefreshInv, DerivedInv, Stands
  <2>3. CASE ~Stands(w)
    BY <2>1, <2>3 DEF RefreshWrite
  <2> QED BY <2>2, <2>3
<1> QED BY <1>1, RefreshInvariant, PTL DEF BookSpec, RefreshKeepsEdits

-----------------------------------------------------------------------------
(* The book's row after concurrent imports, as long as nobody edits the book and no     *)
(* file of it is removed.                                                               *)

TrackedOf(kind) == {f \in tracked : KindOf[f] = kind}

\* A path at least as good as another one of its format.
AsGood(p, q) == q # NoPath => p # NoPath /\ Rank[p] <= Rank[q]

PathsAgree == book.ebook = Derived("ebook") /\ book.audiobook = Derived("audiobook")

\* A worker that is going to write the paths that are right now.
Pending(w) ==
  \/ worker[w].pc \in {"read", "derive"}
  \/ /\ worker[w].pc = "write"
     /\ worker[w].derived.ebook = Derived("ebook")
     /\ worker[w].derived.audiobook = Derived("audiobook")

\* The paths of a row are of files that are tracked.
PathsTracked(r) ==
  /\ r.ebook \in TrackedOf("ebook") \cup {NoPath}
  /\ r.audiobook \in TrackedOf("audiobook") \cup {NoPath}

StatusFits(r) == r.status = "imported" <=> Complete(r)

\* A refresh only ever improves on the paths it read, so that a late one which still
\* finds what it read changes nothing.
WorkerInv(w) ==
  LET l == worker[w]
  IN /\ l.pc # "edit"
     /\ l.pc # "idle" => l.left >= 1
     /\ l.pc \in {"derive", "write"} => PathsTracked(l.seen)
     /\ l.pc = "write" =>
          /\ PathsTracked(l.derived) /\ StatusFits(l.derived)
          /\ AsGood(l.derived.ebook, l.seen.ebook)
          /\ AsGood(l.derived.audiobook, l.seen.audiobook)

Quiet ==
  /\ \A w \in Workers : WorkerInv(w)
  /\ PathsTracked(book) /\ StatusFits(book)
  /\ ~stuck => PathsAgree \/ \E w \in Workers : Pending(w)

AgreeInv == RefreshInv /\ (edits = 0 => Quiet)

\* derivedFormatPath is the best tracked path, and no other is as good.
LEMMA DerivedBest ==
  ASSUME tracked \subseteq Files, NEW kind
  PROVE  /\ Derived(kind) \in TrackedOf(kind) \cup {NoPath}
         /\ \A p \in TrackedOf(kind) \cup {NoPath} : AsGood(Derived(kind), p)
         /\ \A p \in TrackedOf(kind) \cup {NoPath} : AsGood(p, Derived(kind)) => p = Derived(kind)
<1> DEFINE rows == TrackedOf(kind)
           best == CHOOSE f \in rows : \A g \in rows : Rank[f] <= Rank[g]
<1>1. Derived(kind) = IF rows = {} THEN NoPath ELSE best
  BY DEF Derived, TrackedOf
<1>2. rows \subseteq Files /\ NoPath \notin rows
  BY BookAssumption DEF TrackedOf
<1>3. CASE rows = {}
  BY <1>1, <1>3 DEF AsGood
<1>4. CASE rows # {}
  <2>1. \E f \in rows : \A g \in rows : Rank[f] <= Rank[g]
    BY <1>2, <1>4, LowestRank
  <2>2. best \in rows /\ \A g \in rows : Rank[best] <= Rank[g]
    BY <2>1
  <2> HIDE DEF best
  <2>3. \A p \in rows : AsGood(p, best) => p = best
    <3> SUFFICES ASSUME NEW p \in rows, AsGood(p, best) PROVE p = best
      OBVIOUS
    <3>1. p \in Files /\ best \in Files /\ Rank[p] \in Nat /\ Rank[best] \in Nat /\ best # NoPath
      BY <1>2, <2>2, BookAssumption
    <3>2. Rank[p] = Rank[best]
      BY <2>2, <3>1 DEF AsGood
    <3> QED BY <3>1, <3>2, BookAssumption
  <2> QED BY <1>1, <1>2, <1>4, <2>2, <2>3 DEF AsGood
<1> QED BY <1>3, <1>4

\* What a refresh derives: the best paths, and the status that follows.
LEMMA RefreshedPaths ==
  ASSUME tracked \subseteq Files, NEW r \in BookRow
  PROVE  /\ Refreshed(r).ebook = Derived("ebook")
         /\ Refreshed(r).audiobook = Derived("audiobook")
         /\ StatusFits(Refreshed(r))
<1> DEFINE paths == [r EXCEPT !.ebook = Derived("ebook"), !.audiobook = Derived("audiobook")]
           wide  == IF paths.ebook # NoPath /\ paths.audiobook # NoPath
                    THEN [paths EXCEPT !.media = "both"] ELSE paths
           last  == [wide EXCEPT !.status = IF Complete(wide) THEN "imported"
                                            ELSE IF @ = "imported" THEN "wanted" ELSE @]
<1>1. paths \in BookRow /\ paths.ebook = Derived("ebook")
      /\ paths.audiobook = Derived("audiobook")
  BY DerivedPaths DEF BookRow
<1> HIDE DEF paths
<1>2. wide \in BookRow /\ wide.ebook = Derived("ebook") /\ wide.audiobook = Derived("audiobook")
  BY <1>1 DEF BookRow, MediaTypes
<1> HIDE DEF wide
<1>3. /\ last.ebook = wide.ebook /\ last.audiobook = wide.audiobook /\ last.media = wide.media
      /\ last.status = "imported" <=> Complete(wide)
  BY <1>2 DEF BookRow
<1>4. Complete(last) <=> Complete(wide)
  BY <1>3 DEF Complete, Needs
<1>5. Refreshed(r) = last
  BY DEF Refreshed, paths, wide
<1> QED BY <1>2, <1>3, <1>4, <1>5 DEF StatusFits

\* Nothing that the derived paths are read from has changed.
LEMMA SameDerived ==
  ASSUME tracked' = tracked
  PROVE  /\ Derived("ebook")' = Derived("ebook") /\ Derived("audiobook")' = Derived("audiobook")
         /\ \A kind : TrackedOf(kind)' = TrackedOf(kind)
BY DEF Derived, TrackedOf

\* The workers that did not move keep what they have.
LEMMA OthersQuiet ==
  ASSUME \A v \in Workers : WorkerInv(v), tracked \subseteq tracked', NEW w \in Workers,
         \A v \in Workers \ {w} : worker'[v] = worker[v]
  PROVE  \A v \in Workers \ {w} : WorkerInv(v)'
<1> SUFFICES ASSUME NEW v \in Workers \ {w} PROVE WorkerInv(v)'
  OBVIOUS
<1>1. worker'[v] = worker[v] /\ WorkerInv(v)
  OBVIOUS
<1>2. \A kind : TrackedOf(kind) \subseteq TrackedOf(kind)'
  BY DEF TrackedOf
<1> QED BY <1>1, <1>2 DEF WorkerInv, PathsTracked, StatusFits, Complete, Needs

\* A step that changes only where one worker is leaves the row as it should be, if that
\* worker still has the right paths to write when it had.
LEMMA MoveStep ==
  ASSUME RefreshInv, Quiet, NEW w \in Workers, NEW l, worker' = [worker EXCEPT ![w] = l],
         UNCHANGED <<tracked, book>>, WorkerInv(w)',
         ~stuck' => ~stuck /\ (Pending(w) => Pending(w)')
  PROVE  Quiet'
<1>1. worker'[w] = l /\ \A v \in Workers \ {w} : worker'[v] = worker[v]
  BY DEF RefreshInv, BookTypeOK
<1>2. \A v \in Workers : WorkerInv(v)'
  BY <1>1, OthersQuiet DEF Quiet
<1>3. PathsTracked(book)' /\ StatusFits(book)'
  BY SameDerived DEF Quiet, PathsTracked, StatusFits, Complete, Needs
<1>4. \A v \in Workers \ {w} : Pending(v) => Pending(v)'
  BY <1>1, SameDerived DEF Pending
<1>5. PathsAgree => PathsAgree'
  BY SameDerived DEF PathsAgree
<1> QED BY <1>2, <1>3, <1>4, <1>5 DEF Quiet

LEMMA AddQuiet ==
  ASSUME RefreshInv, Quiet, NEW w \in Workers, NEW f \in Files, AddFile(w, f) PROVE Quiet'
<1> DEFINE l == [worker[w] EXCEPT !.pc = "read", !.left = Attempts]
<1>1. worker \in [Workers -> WorkerRecords]
  BY DEF RefreshInv, BookTypeOK, WorkerRecords
<1>2. worker' = [worker EXCEPT ![w] = l] /\ tracked \subseteq tracked' /\ UNCHANGED <<book, stuck>>
  BY <1>1 DEF AddFile, StartsRefresh
<1>3. worker'[w].pc = "read" /\ worker'[w].left = Attempts
      /\ \A v \in Workers \ {w} : worker'[v] = worker[v]
  BY <1>1, <1>2 DEF WorkerRecords
<1>4. WorkerInv(w)'
  BY <1>3, BookAssumption DEF WorkerInv
<1>5. \A v \in Workers : WorkerInv(v)'
  BY <1>2, <1>3, <1>4, OthersQuiet DEF Quiet
<1>6. PathsTracked(book)' /\ StatusFits(book)'
  BY <1>2 DEF Quiet, PathsTracked, TrackedOf, StatusFits, Complete, Needs
<1>7. Pending(w)'
  BY <1>3 DEF Pending
<1> QED BY <1>5, <1>6, <1>7 DEF Quiet

LEMMA ReadQuiet ==
  ASSUME RefreshInv, Quiet, NEW w \in Workers, RefreshRead(w) PROVE Quiet'
<1> DEFINE l == [worker[w] EXCEPT !.pc = "derive", !.seen = book]
<1>1. worker \in [Workers -> WorkerRecords]
  BY DEF RefreshInv, BookTypeOK, WorkerRecords
<1>2. worker' = [worker EXCEPT ![w] = l] /\ UNCHANGED <<tracked, book, stuck>>
  BY <1>1 DEF RefreshRead
<1>3. worker'[w].pc = "derive" /\ worker'[w].left = worker[w].left /\ worker'[w].seen = book
  BY <1>1, <1>2 DEF WorkerRecords
<1>4. PathsTracked(book)'
  BY <1>2, SameDerived DEF Quiet, PathsTracked
<1>5. worker[w].left >= 1
  BY DEF Quiet, WorkerInv, RefreshRead
<1>6. WorkerInv(w)'
  BY <1>2, <1>3, <1>4, <1>5 DEF WorkerInv, PathsTracked
<1>7. Pending(w)'
  BY <1>3 DEF Pending
<1> HIDE DEF l
<1> QED BY <1>2, <1>6, <1>7, MoveStep

LEMMA DeriveQuiet ==
  ASSUME RefreshInv, Quiet, NEW w \in Workers, RefreshDerive(w) PROVE Quiet'
<1> DEFINE s == worker[w].seen
           r == Refreshed(s)
           l == [worker[w] EXCEPT !.pc = "write", !.derived = r]
<1>1. worker \in [Workers -> WorkerRecords] /\ tracked \subseteq Files
  BY DEF RefreshInv, BookTypeOK, WorkerRecords
<1>2. worker' = [worker EXCEPT ![w] = l] /\ UNCHANGED <<tracked, book, stuck>>
  BY <1>1 DEF RefreshDerive
<1>3. s \in BookRow
  BY <1>1 DEF WorkerRecords
<1>4. r.ebook = Derived("ebook") /\ r.audiobook = Derived("audiobook") /\ StatusFits(r)
  BY <1>1, <1>3, RefreshedPaths
<1>5. worker[w].left >= 1 /\ PathsTracked(s)
  BY DEF Quiet, WorkerInv, RefreshDerive
<1>6. PathsTracked(r) /\ AsGood(r.ebook, s.ebook) /\ AsGood(r.audiobook, s.audiobook)
  BY <1>1, <1>4, <1>5, DerivedBest DEF PathsTracked
<1> HIDE DEF r
<1>7. worker'[w].pc = "write" /\ worker'[w].left = worker[w].left /\ worker'[w].seen = s
      /\ worker'[w].derived = r
  BY <1>1, <1>2 DEF WorkerRecords
<1> HIDE DEF s, l
<1>8. WorkerInv(w)'
  <2>1. PathsTracked(worker[w].seen)' /\ PathsTracked(worker[w].derived)'
    BY <1>2, <1>5, <1>6, <1>7, SameDerived DEF PathsTracked
  <2>2. StatusFits(worker[w].derived)'
    BY <1>4, <1>7 DEF StatusFits, Complete, Needs
  <2>3. /\ AsGood(worker[w].derived.ebook, worker[w].seen.ebook)'
        /\ AsGood(worker[w].derived.audiobook, worker[w].seen.audiobook)'
    BY <1>6, <1>7 DEF AsGood
  <2> QED BY <1>5, <1>7, <2>1, <2>2, <2>3 DEF WorkerInv
<1>9. Pending(w)'
  BY <1>2, <1>4, <1>7, SameDerived DEF Pending
<1> QED BY <1>2, <1>8, <1>9, MoveStep

LEMMA WriteQuiet ==
  ASSUME RefreshInv, Quiet, NEW w \in Workers, RefreshWrite(w) PROVE Quiet'
<1> DEFINE s == worker[w].seen
           r == worker[w].derived
<1>1. worker \in [Workers -> WorkerRecords] /\ tracked \subseteq Files /\ book \in BookRow
      /\ stuck \in BOOLEAN
  BY DEF RefreshInv, BookTypeOK, WorkerRecords
<1>2. worker[w].pc = "write" /\ UNCHANGED tracked
  BY DEF RefreshWrite
<1>3. /\ worker[w].left >= 1 /\ PathsTracked(r) /\ StatusFits(r)
      /\ AsGood(r.ebook, s.ebook) /\ AsGood(r.audiobook, s.audiobook)
  BY <1>2 DEF Quiet, WorkerInv
<1>r. r \in BookRow /\ worker[w].left \in 0 .. Attempts
  BY <1>1 DEF WorkerRecords
<1>4. CASE Stands(w)
  <2>1. /\ book' = [r EXCEPT !.monitored = book.monitored]
        /\ worker' = [worker EXCEPT ![w] = Rest] /\ UNCHANGED stuck
    BY <1>4 DEF RefreshWrite
  <2>2. /\ book'.ebook = r.ebook /\ book'.audiobook = r.audiobook /\ book'.media = r.media
        /\ book'.status = r.status
    BY <1>r, <2>1 DEF BookRow
  <2>3. worker'[w] = Rest /\ \A v \in Workers \ {w} : worker'[v] = worker[v]
    BY <1>1, <2>1
  <2>4. WorkerInv(w)'
    BY <2>3 DEF WorkerInv, Rest
  <2>5. \A v \in Workers : WorkerInv(v)'
    BY <1>2, <2>3, <2>4, OthersQuiet DEF Quiet
  <2> HIDE DEF r
  <2>6. PathsTracked(book)' /\ StatusFits(book)'
    BY <1>2, <1>3, <2>2, SameDerived DEF PathsTracked, StatusFits, Complete, Needs
  <2>7. CASE Pending(w)
    <3>1. r.ebook = Derived("ebook") /\ r.audiobook = Derived("audiobook")
      BY <1>2, <2>7 DEF Pending, r
    <3>2. PathsAgree'
      BY <1>2, <2>2, <3>1, SameDerived DEF PathsAgree
    <3> QED BY <2>5, <2>6, <3>2 DEF Quiet
  <2>8. CASE ~Pending(w) /\ PathsAgree
    <3>1. s.ebook = Derived("ebook") /\ s.audiobook = Derived("audiobook")
      BY <1>4, <2>8 DEF Stands, PathsAgree
    <3>2. r.ebook = Derived("ebook") /\ r.audiobook = Derived("audiobook")
      BY <1>1, <1>3, <3>1, DerivedBest DEF PathsTracked
    <3> QED BY <1>2, <2>8, <3>2 DEF Pending, r
  <2>9. CASE ~Pending(w) /\ ~PathsAgree
    <3>1. ~stuck => \E v \in Workers \ {w} : Pending(v)
      BY <2>9 DEF Quiet
    <3>2. \A v \in Workers \ {w} : Pending(v) => Pending(v)'
      BY <1>2, <2>3, SameDerived DEF Pending
    <3> QED BY <2>1, <2>5, <2>6, <3>1, <3>2 DEF Quiet
  <2> QED BY <2>7, <2>8, <2>9
<1>5. CASE ~Stands(w) /\ worker[w].left > 1
  <2> DEFINE l == [Rest EXCEPT !.pc = "read", !.left = worker[w].left - 1]
  <2>1. worker' = [worker EXCEPT ![w] = l] /\ book' = book /\ (stuck' => stuck \/ worker[w].left = 1)
        /\ (stuck => stuck')
    BY <1>1, <1>5 DEF RefreshWrite
  <2>2. worker'[w].pc = "read" /\ worker'[w].left = worker[w].left - 1
    BY <1>1, <2>1, EmptyRow DEF Rest
  <2>3. WorkerInv(w)'
    <3>1. Attempts \in Nat
      BY BookAssumption
    <3>2. worker[w].left - 1 >= 1
      BY <1>5, <1>r, <3>1
    <3> QED BY <2>2, <3>2 DEF WorkerInv
  <2>4. Pending(w)'
    BY <2>2 DEF Pending
  <2> HIDE DEF l
  <2> QED BY <1>1, <1>2, <2>1, <2>3, <2>4, MoveStep
<1>6. CASE ~Stands(w) /\ ~(worker[w].left > 1)
  <2>1. worker[w].left = 1
    BY <1>3, <1>6, <1>r, BookAssumption
  <2>2. worker' = [worker EXCEPT ![w] = Rest] /\ book' = book /\ stuck'
    BY <1>1, <1>6, <2>1 DEF RefreshWrite
  <2>3. WorkerInv(w)'
    <3>1. worker'[w] = Rest
      BY <1>1, <2>2
    <3> QED BY <3>1 DEF WorkerInv, Rest
  <2> QED BY <1>2, <2>2, <2>3, MoveStep
<1> QED BY <1>4, <1>5, <1>6

LEMMA AgreeStep ==
  ASSUME AgreeInv, [BookNext]_bookVars PROVE AgreeInv'
<1>1. RefreshInv'
  BY RefreshStep DEF AgreeInv
<1> SUFFICES ASSUME edits' = 0 PROVE Quiet'
  BY <1>1 DEF AgreeInv
<1>2. edits \in Nat
  BY BookAssumption DEF AgreeInv, RefreshInv, BookTypeOK
<1>3. edits' = edits \/ edits' = edits + 1
  BY DEF BookNext, bookVars, AddFile, RemoveFile, RefreshRead, RefreshDerive, RefreshWrite,
     EditRead, EditWrite
<1>4. edits = 0
  BY <1>2, <1>3
<1>5. RefreshInv /\ Quiet
  BY <1>4 DEF AgreeInv
<1>6. \A w \in Workers : ~EditRead(w) /\ \A f \in Files : ~RemoveFile(w, f)
  BY <1>4 DEF EditRead, RemoveFile
<1>7. \A w \in Workers : ~EditWrite(w)
  BY <1>5 DEF EditWrite, Quiet, WorkerInv
<1>8. CASE UNCHANGED bookVars
  <2>1. UNCHANGED <<tracked, book, worker, stuck>>
    BY <1>8 DEF bookVars
  <2>2. \A w \in Workers : WorkerInv(w)' /\ (Pending(w) => Pending(w)')
    BY <1>5, <2>1, SameDerived
       DEF Quiet, WorkerInv, Pending, PathsTracked, StatusFits, Complete, Needs
  <2>3. PathsTracked(book)' /\ StatusFits(book)' /\ (PathsAgree => PathsAgree')
    BY <1>5, <2>1, SameDerived
       DEF Quiet, PathsTracked, StatusFits, Complete, Needs, PathsAgree
  <2> QED BY <1>5, <2>1, <2>2, <2>3 DEF Quiet
<1> QED BY <1>5, <1>6, <1>7, <1>8, AddQuiet, ReadQuiet, DeriveQuiet, WriteQuiet DEF BookNext

THEOREM AgreeInvariant == BookSpec => []AgreeInv
<1>1. BookInit /\ RefreshInv => AgreeInv
  <2> SUFFICES ASSUME BookInit, RefreshInv PROVE Quiet
    BY DEF AgreeInv
  <2>1. \A w \in Workers : WorkerInv(w)
    BY DEF BookInit, WorkerInv, Rest
  <2>2. PathsAgree
    BY DEF BookInit, PathsAgree, Derived
  <2>3. PathsTracked(book)
    BY DEF BookInit, PathsTracked
  <2>4. StatusFits(book)
    <3>1. book.media \in MediaTypes
      BY DEF RefreshInv, BookTypeOK, BookRow
    <3> QED BY <3>1 DEF BookInit, StatusFits, Complete, Needs, MediaTypes
  <2> QED BY <2>1, <2>2, <2>3, <2>4 DEF Quiet
<1>2. AgreeInv /\ [BookNext]_bookVars => AgreeInv'
  BY AgreeStep
<1> QED BY <1>1, <1>2, RefreshInvariant, PTL DEF BookSpec

\* However many imports record files of a book at once, with any number of files, workers
\* and attempts: once they are done, with nobody editing the book, its row shows the files
\* that are tracked and the status they imply.
THEOREM ImportsAgree == BookSpec => []ConcurrentImportsAgree
<1>1. AgreeInv => ConcurrentImportsAgree
  <2> SUFFICES ASSUME AgreeInv, AllIdle, edits = 0, ~stuck PROVE Agrees
    BY DEF ConcurrentImportsAgree
  <2>1. \A w \in Workers : ~Pending(w)
    BY DEF AllIdle, Pending
  <2>2. PathsAgree /\ StatusFits(book)
    BY <2>1 DEF AgreeInv, Quiet
  <2> QED BY <2>2 DEF Agrees, PathsAgree, StatusFits
<1> QED BY <1>1, AgreeInvariant, PTL

-----------------------------------------------------------------------------
(* Placing the tracks of audiobooks. *)

\* A name two downloads come to is for whole folders: what rules out a folder one import
\* made receiving another's lone file.
HomesApart ==
  \A l \in Layouts, d, e \in Audios :
    d # e /\ l.home[d] = l.home[e] => l.shape[d] \notin {"file", "loose"}

AudioRecords == [pc : AudioSteps, dest : Folders \cup {NoFolder}, merged : BOOLEAN,
                 todo : SUBSET Tracks, skipped : BOOLEAN]

AudioTypes ==
  /\ layout \in Layouts /\ moves \subseteq Audios /\ payload \subseteq Tracks
  /\ there \subseteq Folders
  /\ holds \in [Folders -> SUBSET (Tracks \cup {"ebook"})]
  /\ cut \in [Folders -> SUBSET Tracks]
  /\ aimp \in [Audios -> AudioRecords]

Working(d) == aimp[d].pc \in {"place", "clear", "record", "end"}

\* The shelf: a folder that is not there holds nothing, and what is copied is not missed.
ShelfInv ==
  /\ \A p \in Folders : cut[p] \subseteq holds[p] /\ (p \notin there => holds[p] = {})
  /\ \A d \in Audios : d \notin moves => TracksOf(d) \subseteq payload

\* An import and its folder: its own, with nothing but its tracks, or its book's.
FolderInv(d) ==
  LET l == aimp[d]  p == l.dest
  IN /\ l.pc # "idle" => p \in Folders /\ p[1] = Home(d)
     /\ l.pc = "open" => l.todo = Left(d) /\ ~l.merged /\ ~l.skipped
     /\ l.pc = "open" /\ Alone(d) => p \notin there
     /\ Working(d) => p \in there
     /\ Working(d) /\ l.merged  => "ebook" \in holds[p]
     /\ Working(d) /\ ~l.merged => holds[p] \subseteq TracksOf(d)

\* An import and its tracks: what is still to be placed, is placed, or may be cleared.
TracksInv(d) ==
  LET l == aimp[d]  p == l.dest
  IN /\ l.pc = "place" => l.todo \subseteq Left(d)
     /\ l.pc = "place" /\ ~l.merged => l.todo \cap holds[p] = {}
     /\ l.pc = "place" /\ ~l.merged /\ ~Alone(d) => holds[p] \subseteq payload
     /\ l.pc = "place" /\ ~l.skipped => Left(d) \ l.todo \subseteq holds[p] \ cut[p]
     /\ l.pc = "clear" => d \in moves /\ Left(d) \subseteq holds[p] \ cut[p]

\* A folder of its own is nobody else's.
OwnFolder(d, e) ==
  d # e /\ Working(d) /\ Working(e) /\ ~aimp[d].merged => aimp[d].dest # aimp[e].dest

AudioInv ==
  /\ AudioTypes /\ ShelfInv /\ TracksRemain
  /\ \A d \in Audios : FolderInv(d) /\ TracksInv(d)
  /\ \A d, e \in Audios : OwnFolder(d, e)

\* Nothing is placed yet.
LEMMA AudioInitInv == AudioInit => AudioInv
<1> SUFFICES ASSUME AudioInit PROVE AudioInv
  OBVIOUS
<1> USE DEF AudioInit
<1>0. \A h \in HomeNames : <<h, 1>> \in Folders
  BY AudioAssumption DEF Folders
<1>1. AudioTypes
  BY <1>0 DEF AudioTypes, AudioRecords, IdleAudio, AudioSteps
<1>2. ShelfInv /\ TracksRemain
  BY DEF ShelfInv, TracksRemain, TracksOf
<1>3. \A d \in Audios : aimp[d].pc = "idle"
  BY DEF IdleAudio
<1> QED BY <1>1, <1>2, <1>3 DEF AudioInv, FolderInv, TracksInv, OwnFolder, Working

\* Whoever does nothing has nothing to keep; this is what every way out of an import needs.
LEMMA IdleHolds ==
  ASSUME NEW d \in Audios, aimp'[d] = IdleAudio
  PROVE  FolderInv(d)' /\ TracksInv(d)'
BY DEF IdleAudio, FolderInv, TracksInv, Working

\* An import nothing is done to.
LEMMA AudioUntouched ==
  ASSUME NEW e \in Audios, FolderInv(e), TracksInv(e),
         UNCHANGED <<layout, moves, payload, there, holds, cut>>, aimp'[e] = aimp[e]
  PROVE  FolderInv(e)' /\ TracksInv(e)'
BY DEF FolderInv, TracksInv, Working, Home, Left, Alone, Shape, TracksOf

\* An import another one does nothing to: neither its tracks nor its folder, but for tracks
\* of others that join it, whole or cut short.
LEMMA AudioOthersKept ==
  ASSUME AudioInv, NEW d \in Audios, NEW e \in Audios, d # e,
         AudioTypes', UNCHANGED <<layout, moves>>,
         aimp'[e] = aimp[e],
         payload \ TracksOf(d) \subseteq payload',
         payload' \subseteq payload,
         aimp[e].pc # "idle" =>
           /\ Working(e) => aimp[e].dest \in there'
           /\ Doing(e, "open") /\ Alone(e) => aimp[e].dest \notin there'
           /\ Working(e) =>
                /\ holds[aimp[e].dest] \ TracksOf(d) \subseteq holds'[aimp[e].dest]
                /\ holds'[aimp[e].dest] \subseteq holds[aimp[e].dest] \cup TracksOf(d)
                /\ cut'[aimp[e].dest] \subseteq cut[aimp[e].dest] \cup TracksOf(d)
                /\ ~aimp[e].merged => /\ holds'[aimp[e].dest] = holds[aimp[e].dest]
  PROVE  FolderInv(e)' /\ TracksInv(e)'
<1> DEFINE l == aimp[e]  p == aimp[e].dest
<1>0. /\ \A t \in TracksOf(e) : t \notin TracksOf(d)
      /\ "ebook" \notin TracksOf(d) /\ Left(e)' = Left(e)
  BY AudioAssumption DEF TracksOf, Left
<1>1. Home(e)' = Home(e) /\ Alone(e)' = Alone(e) /\ Working(e)' = Working(e)
  BY DEF Home, Alone, Shape, Working
<1>2. FolderInv(e)'
  BY <1>0, <1>1 DEF AudioInv, FolderInv, Doing, Working
<1>3. TracksInv(e)'
  <2>1. l.pc = "place" => l.todo \subseteq Left(e)
    BY DEF AudioInv, TracksInv
  <2>2. l.pc = "place" /\ ~l.merged => l.todo \cap holds'[p] = {}
    BY DEF AudioInv, TracksInv, Working
  <2>3. l.pc = "place" /\ ~l.merged /\ ~Alone(e) => holds'[p] \subseteq payload'
    BY <1>0 DEF AudioInv, TracksInv, FolderInv, Working
  <2>4. l.pc = "place" /\ ~l.skipped => Left(e) \ l.todo \subseteq holds'[p] \ cut'[p]
    BY <1>0 DEF AudioInv, TracksInv, Working, Left
  <2>5. l.pc = "clear" => e \in moves /\ Left(e) \subseteq holds'[p] \ cut'[p]
    BY <1>0 DEF AudioInv, TracksInv, Working, Left
  <2> QED BY <1>0, <1>1, <2>1, <2>2, <2>3, <2>4, <2>5 DEF TracksInv
<1> QED BY <1>2, <1>3

\* What UniqueDir returns is a folder of that name which does not exist.
LEMMA UniqueDirIsNew ==
  ASSUME NEW h \in HomeNames, NEW p \in UniqueDir(h)
  PROVE  p \in Folders /\ p[1] = h /\ p \notin there
<1>1. PICK n \in 1 .. MaxTwin : p = <<h, n>> /\ <<h, n>> \notin there
  BY DEF UniqueDir
<1> QED BY <1>1 DEF Folders

\* The folder of a download's name without a suffix.
LEMMA PlainFolder ==
  ASSUME AudioTypes, NEW d \in Audios
  PROVE  Home(d) \in HomeNames /\ <<Home(d), 1>> \in Folders
BY AudioAssumption DEF AudioTypes, Home, Folders

\* Two imports that work do so in different folders, unless both do in their book's.
LEMMA OwnFolders ==
  ASSUME AudioInv, NEW d \in Audios, AudioTypes',
         \A e \in Audios \ {d} : aimp'[e] = aimp[e],
         Working(d)' =>
           /\ ~aimp'[d].merged =>
                \A e \in Audios \ {d} : Working(e) => aimp[e].dest # aimp'[d].dest
           /\ aimp'[d].merged =>
                \A e \in Audios \ {d} : Working(e) /\ ~aimp[e].merged =>
                                         aimp[e].dest # aimp'[d].dest
  PROVE  \A e, f \in Audios : OwnFolder(e, f)'
<1> TAKE e, f \in Audios
<1>1. CASE e = d
  BY <1>1 DEF OwnFolder, Working
<1>2. CASE f = d
  BY <1>2 DEF OwnFolder, Working
<1>3. CASE e # d /\ f # d
  BY <1>3 DEF OwnFolder, Working, AudioInv
<1> QED BY <1>1, <1>2, <1>3

\* While it works an import keeps its folder, and no other takes it.
LEMMA StillOwnFolder ==
  ASSUME AudioInv, NEW d \in Audios, AudioTypes',
         \A e \in Audios \ {d} : aimp'[e] = aimp[e],
         Working(d)' => Working(d) /\ aimp'[d].dest = aimp[d].dest
                                 /\ aimp'[d].merged = aimp[d].merged
  PROVE  \A e, f \in Audios : OwnFolder(e, f)'
<1> TAKE e, f \in Audios
<1>1. Working(e)' => Working(e) /\ aimp'[e].dest = aimp[e].dest /\ aimp'[e].merged = aimp[e].merged
  BY DEF Working
<1>2. Working(f)' => Working(f) /\ aimp'[f].dest = aimp[f].dest
  BY DEF Working
<1> QED BY <1>1, <1>2 DEF OwnFolder, AudioInv

\* A destination is chosen that nobody has.
LEMMA AudioBeginStep ==
  ASSUME AudioInv, NEW d \in Audios, AudioBegin(d) PROVE AudioInv'
<1> USE DEF AudioBegin
<1>1. /\ UNCHANGED <<layout, moves, payload, there, holds, cut>>
      /\ \A e \in Audios \ {d} : aimp'[e] = aimp[e]
  BY DEF AudioInv, AudioTypes
<1>2. AudioTypes' /\ ShelfInv' /\ TracksRemain'
  <2>1. UNCHANGED aimp \/ aimp'[d] \in AudioRecords
    <3>1. CASE UNCHANGED aimp
      BY <3>1
    <3>2. CASE aimp' # aimp
      <4>1. PICK p \in UniqueDir(Home(d)) :
              aimp'[d] = [IdleAudio EXCEPT !.pc = "open", !.dest = p, !.todo = Left(d)]
        BY <3>2 DEF AudioInv, AudioTypes
      <4>2. p \in Folders
        BY PlainFolder, UniqueDirIsNew DEF AudioInv
      <4> QED BY <4>1, <4>2 DEF AudioRecords, IdleAudio, AudioSteps, Left, TracksOf
    <3> QED BY <3>1, <3>2
  <2>2. aimp' \in [Audios -> AudioRecords]
    BY <2>1 DEF AudioInv, AudioTypes
  <2> QED BY <2>2, <1>1 DEF AudioInv, AudioTypes, ShelfInv, TracksRemain, TracksOf
<1>3. ASSUME NEW e \in Audios PROVE FolderInv(e)' /\ TracksInv(e)'
  <2>1. CASE e # d
    BY <1>1, <2>1, AudioUntouched DEF AudioInv
  <2>2. CASE e = d /\ UNCHANGED aimp
    BY <1>1, <2>2, AudioUntouched DEF AudioInv
  <2>3. CASE e = d /\ aimp' # aimp
    <3>1. PICK p \in UniqueDir(Home(d)) :
            aimp'[d] = [IdleAudio EXCEPT !.pc = "open", !.dest = p, !.todo = Left(d)]
      BY <2>3 DEF AudioInv, AudioTypes
    <3>2. p \in Folders /\ p[1] = Home(d) /\ p \notin there
      BY PlainFolder, UniqueDirIsNew DEF AudioInv
    <3> QED BY <1>1, <2>3, <3>1, <3>2
            DEF FolderInv, TracksInv, Working, IdleAudio, Home, Left, Alone, Shape, TracksOf
  <2> QED BY <2>1, <2>2, <2>3
<1>4. \A e, f \in Audios : OwnFolder(e, f)'
  <2>1. Working(d)' => Working(d) /\ UNCHANGED aimp
    BY DEF Working, AudioInv, AudioTypes, IdleAudio
  <2> QED BY <1>1, <1>2, <2>1, StillOwnFolder
<1> QED BY <1>2, <1>3, <1>4 DEF AudioInv

\* A track leaves its download only once it is whole in a folder that stays.
LEMMA AudioTrackStep ==
  ASSUME AudioInv, NEW d \in Audios, AudioTrack(d) PROVE AudioInv'
<1> DEFINE l == aimp[d]  p == l.dest
<1>1. PICK t \in l.todo :
        /\ aimp' = [aimp EXCEPT ![d].todo = @ \ {t}, ![d].skipped = @ \/ (l.merged /\ t \in holds[p])]
        /\ IF l.merged /\ t \in holds[p] THEN UNCHANGED <<payload, holds>>
           ELSE /\ holds' = [holds EXCEPT ![p] = @ \cup {t}]
                /\ payload' = IF d \in moves /\ Alone(d) THEN payload \ {t} ELSE payload
  BY DEF AudioTrack
<1>2. Doing(d, "place") /\ UNCHANGED <<layout, moves, there, cut>>
  BY DEF AudioTrack
<1>3. /\ p \in Folders /\ p \in there /\ t \in Left(d) /\ t \in Tracks /\ AudioOf[t] = d
      /\ Working(d)
  BY <1>2 DEF AudioInv, FolderInv, TracksInv, Doing, Working, Left, TracksOf
<1>4. /\ aimp'[d].pc = "place" /\ aimp'[d].dest = p /\ aimp'[d].merged = l.merged
      /\ aimp'[d].todo = l.todo \ {t}
      /\ \A e \in Audios \ {d} : aimp'[e] = aimp[e]
  BY <1>1, <1>2 DEF AudioInv, AudioTypes, AudioRecords, Doing
<1>5. /\ aimp'[d] = [l EXCEPT !.todo = @ \ {t}, !.skipped = @ \/ (l.merged /\ t \in holds[p])]
       /\ l \in AudioRecords
  BY <1>1 DEF AudioInv, AudioTypes
<1>6. aimp'[d].skipped = (l.skipped \/ (l.merged /\ t \in holds[p]))
  BY <1>5, Zenon DEF AudioRecords
<1>7. AudioTypes'
  <2>1. aimp'[d] \in AudioRecords
    <3>1. (l.skipped \/ (l.merged /\ t \in holds[p])) \in BOOLEAN
      OBVIOUS
    <3>2. l.todo \ {t} \in SUBSET Tracks
      BY <1>5 DEF AudioRecords
    <3> QED BY <1>5, <3>1, <3>2, Zenon DEF AudioRecords
  <2>2. aimp' \in [Audios -> AudioRecords]
    BY <1>1, <2>1 DEF AudioInv, AudioTypes
  <2>3. holds' \in [Folders -> SUBSET (Tracks \cup {"ebook"})]
    BY <1>1, <1>3 DEF AudioInv, AudioTypes
  <2> QED BY <1>1, <1>2, <2>2, <2>3 DEF AudioInv, AudioTypes
<1>8. /\ \A q \in Folders : q # p => holds'[q] = holds[q]
      /\ holds[p] \subseteq holds'[p] /\ holds'[p] \subseteq holds[p] \cup {t}
      /\ ~l.merged => holds'[p] = holds[p] \cup {t}
  BY <1>1, <1>3 DEF AudioInv, AudioTypes
<1>9. t \in holds'[p] /\ (t \notin holds[p] => t \notin cut'[p])
  BY <1>1, <1>2, <1>3, <1>8 DEF AudioInv, AudioTypes, ShelfInv
<1>10. payload \ {t} \subseteq payload' /\ payload' \subseteq payload
      /\ (t \notin payload' => d \in moves /\ Alone(d) /\ ~(l.merged /\ t \in holds[p]))
  <2>1. CASE l.merged /\ t \in holds[p]
    BY <2>1, <1>1, <1>3 DEF Left
  <2>2. CASE ~(l.merged /\ t \in holds[p])
    BY <2>2, <1>1, <1>3 DEF Left
  <2> QED BY <2>1, <2>2
<1>11. ShelfInv'
  BY <1>2, <1>3, <1>8, <1>10 DEF AudioInv, ShelfInv, TracksOf
<1>12. t \notin payload' => t \in holds'[p] \ cut'[p]
  <2>1. ~l.merged => t \notin holds[p]
    BY <1>2 DEF AudioInv, TracksInv, Doing
  <2> QED BY <2>1, <1>9, <1>10
<1>13. TracksRemain'
  <2> SUFFICES ASSUME NEW u \in Tracks, u \notin payload'
               PROVE  \E q \in there : u \in holds'[q] \ cut'[q]
    BY <1>2 DEF TracksRemain
  <2>1. CASE u = t
    BY <2>1, <1>3, <1>12
  <2>2. CASE u # t
    <3>1. PICK q \in there : u \in holds[q] \ cut[q]
      BY <2>2, <1>10 DEF AudioInv, TracksRemain
    <3> QED BY <3>1, <1>2, <1>8 DEF AudioInv, AudioTypes
  <2> QED BY <2>1, <2>2
<1>14. ASSUME NEW e \in Audios PROVE FolderInv(e)' /\ TracksInv(e)'
  <2>1. CASE e # d
    <3>1. t \in TracksOf(d)
      BY <1>3 DEF TracksOf
    <3>2. aimp[e].pc # "idle" => aimp[e].dest \in Folders
      BY DEF AudioInv, FolderInv
    <3>3. Working(e) /\ ~aimp[e].merged => aimp[e].dest # p
      BY <1>3, <2>1 DEF AudioInv, OwnFolder
    <3>4. Doing(e, "open") /\ Alone(e) => aimp[e].dest \notin there
      BY DEF AudioInv, FolderInv, Doing
    <3>5. aimp[e].pc # "idle" =>
           /\ Working(e) => aimp[e].dest \in there'
           /\ Doing(e, "open") /\ Alone(e) => aimp[e].dest \notin there'
           /\ Working(e) =>
                /\ holds[aimp[e].dest] \ TracksOf(d) \subseteq holds'[aimp[e].dest]
                /\ holds'[aimp[e].dest] \subseteq holds[aimp[e].dest] \cup TracksOf(d)
                /\ cut'[aimp[e].dest] \subseteq cut[aimp[e].dest] \cup TracksOf(d)
                /\ ~aimp[e].merged => holds'[aimp[e].dest] = holds[aimp[e].dest]
      BY <1>2, <1>8, <3>1, <3>2, <3>3, <3>4 DEF AudioInv, FolderInv, Working
    <3>6. aimp'[e] = aimp[e] /\ payload \ TracksOf(d) \subseteq payload' /\ payload' \subseteq payload
      BY <1>4, <1>10, <2>1, <3>1
    <3> QED BY <1>2, <1>7, <2>1, <3>5, <3>6, AudioOthersKept
  <2>2. CASE e = d
    <3>1. Home(d)' = Home(d) /\ Alone(d)' = Alone(d) /\ Left(d)' = TracksOf(d) \cap payload'
      BY <1>2 DEF Home, Alone, Shape, Left, TracksOf
    <3>2. FolderInv(d)'
      BY <1>2, <1>3, <1>4, <1>8, <3>1 DEF AudioInv, FolderInv, Doing, Working, TracksOf
    <3>3. TracksInv(d)'
      <4>1. l.todo \ {t} \subseteq Left(d)'
        BY <1>2, <1>10, <3>1 DEF AudioInv, TracksInv, Doing, Left
      <4>2. ~l.merged => (l.todo \ {t}) \cap holds'[p] = {}
        BY <1>2, <1>8 DEF AudioInv, TracksInv, Doing
      <4>3. ~l.merged /\ ~Alone(d) => holds'[p] \subseteq payload'
        BY <1>2, <1>3, <1>8, <1>10 DEF AudioInv, TracksInv, Doing, Left
      <4>4. ~l.skipped /\ ~(l.merged /\ t \in holds[p]) =>
              Left(d)' \ (l.todo \ {t}) \subseteq holds'[p] \ cut'[p]
        BY <1>2, <1>8, <1>9, <1>10, <3>1 DEF AudioInv, TracksInv, Doing, Left
      <4>5. ~aimp'[d].skipped => ~l.skipped /\ ~(l.merged /\ t \in holds[p])
        BY <1>6
      <4> QED BY <1>4, <3>1, <4>1, <4>2, <4>3, <4>4, <4>5 DEF TracksInv
    <3> QED BY <2>2, <3>2, <3>3
  <2> QED BY <2>1, <2>2
<1>15. \A e, f \in Audios : OwnFolder(e, f)'
  BY <1>3, <1>4, <1>7, StillOwnFolder
<1> QED BY <1>7, <1>11, <1>13, <1>14, <1>15 DEF AudioInv


\* An import that ends with the shelf as it is.
LEMMA AudioLeaves ==
  ASSUME AudioInv, NEW d \in Audios, aimp' = [aimp EXCEPT ![d] = IdleAudio],
         UNCHANGED <<layout, moves, payload, there, holds, cut>>
  PROVE  AudioInv'
<1>1. aimp'[d] = IdleAudio /\ \A e \in Audios \ {d} : aimp'[e] = aimp[e]
  BY DEF AudioInv, AudioTypes
<1>2. AudioTypes' /\ ShelfInv' /\ TracksRemain'
  <2>1. IdleAudio \in AudioRecords
    BY DEF IdleAudio, AudioRecords, AudioSteps
  <2> QED BY <2>1 DEF AudioInv, AudioTypes, ShelfInv, TracksRemain, TracksOf
<1>3. ASSUME NEW e \in Audios PROVE FolderInv(e)' /\ TracksInv(e)'
  <2>1. CASE e # d
    BY <1>1, <2>1, AudioUntouched DEF AudioInv
  <2>2. CASE e = d
    BY <1>1, <2>2, IdleHolds
  <2> QED BY <2>1, <2>2
<1>4. \A e, f \in Audios : OwnFolder(e, f)'
  <2>1. ~Working(d)'
    BY <1>1 DEF Working, IdleAudio
  <2> QED BY <1>1, <1>2, <2>1, StillOwnFolder
<1> QED BY <1>2, <1>3, <1>4 DEF AudioInv

\* An import that ends and takes back what the download still has, and the folder if
\* nothing else is in it.
LEMMA AudioTakesBack ==
  ASSUME AudioInv, NEW d \in Audios, Working(d), aimp' = [aimp EXCEPT ![d] = IdleAudio],
         UNCHANGED <<layout, moves, payload>>,
         NEW X, X \subseteq TracksOf(d) \cap payload,
         holds' = [holds EXCEPT ![aimp[d].dest] = @ \ X],
         cut'   = [cut EXCEPT ![aimp[d].dest] = @ \ X],
         there' = there \/ (there' = there \ {aimp[d].dest} /\ holds[aimp[d].dest] \subseteq X)
  PROVE  AudioInv'
<1> DEFINE p == aimp[d].dest
<1>1. aimp'[d] = IdleAudio /\ \A e \in Audios \ {d} : aimp'[e] = aimp[e]
  BY DEF AudioInv, AudioTypes
<1>2. p \in Folders /\ p \in there
  BY DEF AudioInv, FolderInv, Working
<1>3. /\ \A q \in Folders : q # p => holds'[q] = holds[q] /\ cut'[q] = cut[q]
      /\ holds'[p] = holds[p] \ X /\ cut'[p] = cut[p] \ X
  BY <1>2 DEF AudioInv, AudioTypes
<1>4. AudioTypes'
  <2>1. IdleAudio \in AudioRecords
    BY DEF IdleAudio, AudioRecords, AudioSteps
  <2>2. aimp' \in [Audios -> AudioRecords]
    BY <2>1 DEF AudioInv, AudioTypes
  <2>3. /\ holds' \in [Folders -> SUBSET (Tracks \cup {"ebook"})]
        /\ cut' \in [Folders -> SUBSET Tracks]
    BY <1>2 DEF AudioInv, AudioTypes
  <2> QED BY <2>2, <2>3 DEF AudioInv, AudioTypes
<1>5. ShelfInv'
  BY <1>2, <1>3 DEF AudioInv, ShelfInv, TracksOf
<1>6. TracksRemain'
  <2> SUFFICES ASSUME NEW t \in Tracks, t \notin payload
               PROVE  \E q \in there' : t \in holds'[q] \ cut'[q]
    BY DEF TracksRemain
  <2>1. PICK q \in there : t \in holds[q] \ cut[q]
    BY DEF AudioInv, TracksRemain
  <2>2. t \notin X
    OBVIOUS
  <2>3. t \in holds'[q] \ cut'[q]
    BY <1>3, <2>1, <2>2 DEF AudioInv, AudioTypes
  <2>4. q \in there'
    BY <2>1, <2>2
  <2> QED BY <2>3, <2>4
<1>7. ASSUME NEW e \in Audios PROVE FolderInv(e)' /\ TracksInv(e)'
  <2>1. CASE e = d
    BY <1>1, <2>1, IdleHolds
  <2>2. CASE e # d
    <3>1. aimp[e].pc # "idle" => aimp[e].dest \in Folders
      BY DEF AudioInv, FolderInv
    <3>2. Working(e) /\ ~aimp[e].merged => aimp[e].dest # p
      BY <2>2 DEF AudioInv, OwnFolder
    <3>3. Working(e) /\ ~aimp[d].merged => aimp[e].dest # p
      BY <2>2 DEF AudioInv, OwnFolder
    <3>4. Working(e) => aimp[e].dest \in there'
      <4>1. aimp[d].merged => there' = there
        BY AudioAssumption DEF AudioInv, FolderInv, Working, TracksOf
      <4>2. Working(e) => aimp[e].dest \in there
        BY DEF AudioInv, FolderInv
      <4> QED BY <3>3, <4>1, <4>2
    <3>5. Doing(e, "open") /\ Alone(e) => aimp[e].dest \notin there'
      BY DEF AudioInv, FolderInv, Doing
    <3>6. Working(e) =>
            /\ holds[aimp[e].dest] \ TracksOf(d) \subseteq holds'[aimp[e].dest]
            /\ holds'[aimp[e].dest] \subseteq holds[aimp[e].dest] \cup TracksOf(d)
            /\ cut'[aimp[e].dest] \subseteq cut[aimp[e].dest] \cup TracksOf(d)
            /\ ~aimp[e].merged => holds'[aimp[e].dest] = holds[aimp[e].dest]
      BY <1>3, <3>1, <3>2 DEF Working
    <3> QED BY <1>1, <1>4, <2>2, <3>4, <3>5, <3>6, AudioOthersKept
  <2> QED BY <2>1, <2>2
<1>8. \A e, f \in Audios : OwnFolder(e, f)'
  <2>1. ~Working(d)'
    BY <1>1 DEF Working, IdleAudio
  <2> QED BY <1>1, <1>4, <2>1, StillOwnFolder
<1> QED BY <1>4, <1>5, <1>6, <1>7, <1>8 DEF AudioInv

\* An import that ends with a track in its folder that was not in it, whole or in part.
LEMMA AudioHalfDone ==
  ASSUME AudioInv, NEW d \in Audios, Working(d), aimp' = [aimp EXCEPT ![d] = IdleAudio],
         UNCHANGED <<layout, moves, payload, there>>,
         NEW t \in TracksOf(d), t \notin holds[aimp[d].dest],
         holds' = [holds EXCEPT ![aimp[d].dest] = @ \cup {t}],
         cut' = cut \/ cut' = [cut EXCEPT ![aimp[d].dest] = @ \cup {t}]
  PROVE  AudioInv'
<1> DEFINE p == aimp[d].dest
<1>1. aimp'[d] = IdleAudio /\ \A e \in Audios \ {d} : aimp'[e] = aimp[e]
  BY DEF AudioInv, AudioTypes
<1>2. p \in Folders /\ p \in there
  BY DEF AudioInv, FolderInv, Working
<1>3. /\ \A q \in Folders : q # p => holds'[q] = holds[q] /\ cut'[q] = cut[q]
      /\ holds'[p] = holds[p] \cup {t} /\ cut'[p] \subseteq cut[p] \cup {t}
  BY <1>2 DEF AudioInv, AudioTypes
<1>4. AudioTypes'
  <2>1. IdleAudio \in AudioRecords
    BY DEF IdleAudio, AudioRecords, AudioSteps
  <2>2. aimp' \in [Audios -> AudioRecords]
    BY <2>1 DEF AudioInv, AudioTypes
  <2>3. /\ holds' \in [Folders -> SUBSET (Tracks \cup {"ebook"})]
        /\ cut' \in [Folders -> SUBSET Tracks]
    BY <1>2 DEF AudioInv, AudioTypes, TracksOf
  <2> QED BY <2>2, <2>3 DEF AudioInv, AudioTypes
<1>5. ShelfInv'
  BY <1>2, <1>3 DEF AudioInv, ShelfInv, TracksOf
<1>6. TracksRemain'
  <2> SUFFICES ASSUME NEW u \in Tracks, u \notin payload
               PROVE  \E q \in there' : u \in holds'[q] \ cut'[q]
    BY DEF TracksRemain
  <2>1. PICK q \in there : u \in holds[q] \ cut[q]
    BY DEF AudioInv, TracksRemain
  <2>2. u \in holds'[q] \ cut'[q]
    BY <1>3, <2>1 DEF AudioInv, AudioTypes
  <2> QED BY <2>1, <2>2
<1>7. ASSUME NEW e \in Audios PROVE FolderInv(e)' /\ TracksInv(e)'
  <2>1. CASE e = d
    BY <1>1, <2>1, IdleHolds
  <2>2. CASE e # d
    <3>1. aimp[e].pc # "idle" => aimp[e].dest \in Folders
      BY DEF AudioInv, FolderInv
    <3>2. Working(e) /\ ~aimp[e].merged => aimp[e].dest # p
      BY <2>2 DEF AudioInv, OwnFolder
    <3>3. Doing(e, "open") /\ Alone(e) => aimp[e].dest \notin there'
      BY DEF AudioInv, FolderInv, Doing
    <3>4. Working(e) =>
            /\ holds[aimp[e].dest] \ TracksOf(d) \subseteq holds'[aimp[e].dest]
            /\ holds'[aimp[e].dest] \subseteq holds[aimp[e].dest] \cup TracksOf(d)
            /\ cut'[aimp[e].dest] \subseteq cut[aimp[e].dest] \cup TracksOf(d)
            /\ ~aimp[e].merged => holds'[aimp[e].dest] = holds[aimp[e].dest]
      BY <1>3, <3>1, <3>2 DEF Working
    <3>5. Working(e) => aimp[e].dest \in there'
      BY DEF AudioInv, FolderInv
    <3> QED BY <1>1, <1>4, <2>2, <3>3, <3>4, <3>5, AudioOthersKept
  <2> QED BY <2>1, <2>2
<1>8. \A e, f \in Audios : OwnFolder(e, f)'
  <2>1. ~Working(d)'
    BY <1>1 DEF Working, IdleAudio
  <2> QED BY <1>1, <1>4, <2>1, StillOwnFolder
<1> QED BY <1>4, <1>5, <1>6, <1>7, <1>8 DEF AudioInv

\* A track cannot be placed: left half done, or taken back.
LEMMA AudioTrackFailsStep ==
  ASSUME AudioInv, NEW d \in Audios, AudioTrackFails(d) PROVE AudioInv'
<1> DEFINE l == aimp[d]  p == l.dest  placed == TracksOf(d) \cap holds[p]
<1>1. /\ Doing(d, "place") /\ Working(d) /\ aimp' = [aimp EXCEPT ![d] = IdleAudio]
      /\ UNCHANGED <<layout, moves, payload>>
  BY DEF AudioTrackFails, Blocked, Doing, Working
<1>2. PICK t \in l.todo :
         \/ /\ t \notin holds[p]
            /\ \/ /\ holds' = [holds EXCEPT ![p] = @ \cup {t}]
                  /\ cut' = [cut EXCEPT ![p] = @ \cup {t}]
               \/ UNCHANGED <<holds, cut>>
            /\ UNCHANGED there
         \/ ~l.merged /\ ~Alone(d) /\ RemoveAll(p)
         \/ (d \notin moves \/ placed = {}) /\ RollBack(p, placed)
         \/ UNCHANGED <<there, holds, cut>>
         \/ /\ t \notin holds[p] /\ holds' = [holds EXCEPT ![p] = @ \cup {t}]
            /\ UNCHANGED <<there, cut>>
  BY DEF AudioTrackFails
<1>3. t \in TracksOf(d)
  BY <1>1 DEF AudioInv, TracksInv, Doing, Left
<1>4. CASE UNCHANGED <<there, holds, cut>>
  BY <1>1, <1>4, AudioLeaves
<1>5. CASE /\ t \notin holds[p] /\ holds' = [holds EXCEPT ![p] = @ \cup {t}] /\ UNCHANGED there
           /\ cut' = cut \/ cut' = [cut EXCEPT ![p] = @ \cup {t}]
  BY <1>1, <1>3, <1>5, AudioHalfDone
<1>6. CASE ~l.merged /\ ~Alone(d) /\ RemoveAll(p)
  <2>1. holds[p] \subseteq TracksOf(d) \cap payload /\ p \in Folders
    BY <1>1, <1>6 DEF AudioInv, FolderInv, TracksInv, Doing, Working
  <2>2. cut[p] \subseteq holds[p]
    BY <2>1 DEF AudioInv, ShelfInv
  <2>3. /\ holds' = [holds EXCEPT ![p] = @ \ holds[p]]
        /\ cut' = [cut EXCEPT ![p] = @ \ holds[p]]
        /\ there' = there \ {p}
    BY <1>6, <2>1, <2>2 DEF RemoveAll, AudioInv, AudioTypes
  <2> QED BY <1>1, <2>1, <2>3, AudioTakesBack
<1>7. CASE (d \notin moves \/ placed = {}) /\ RollBack(p, placed)
  <2>1. placed \subseteq TracksOf(d) \cap payload
    BY <1>7 DEF AudioInv, ShelfInv
  <2>2. /\ holds' = [holds EXCEPT ![p] = @ \ placed]
        /\ cut' = [cut EXCEPT ![p] = @ \ placed]
        /\ there' = there \/ (there' = there \ {p} /\ holds[p] \subseteq placed)
    BY <1>7 DEF RollBack
  <2> QED BY <1>1, <2>1, <2>2, AudioTakesBack
<1> QED BY <1>2, <1>4, <1>5, <1>6, <1>7


\* An import that goes on, past placing: its folder is as it was, and so is the shelf,
\* but for tracks at the download of which there are copies.
LEMMA AudioGoesOn ==
  ASSUME AudioInv, NEW d \in Audios, Working(d), UNCHANGED <<layout, moves, there, holds, cut>>,
         NEW s \in {"clear", "record", "end"}, aimp' = [aimp EXCEPT ![d].pc = s],
         NEW X, X \subseteq TracksOf(d), payload' = payload \ X,
         X # {} \/ s = "clear" =>
           d \in moves /\ Left(d) \subseteq holds[aimp[d].dest] \ cut[aimp[d].dest],
         X \subseteq payload
  PROVE  AudioInv'
<1> DEFINE l == aimp[d]  p == l.dest
<1>1. /\ aimp'[d].pc = s /\ aimp'[d].dest = p /\ aimp'[d].merged = l.merged
      /\ aimp'[d] \in AudioRecords
      /\ \A e \in Audios \ {d} : aimp'[e] = aimp[e]
  BY DEF AudioInv, AudioTypes, AudioRecords, AudioSteps
<1>2. p \in Folders /\ p \in there
  BY DEF AudioInv, FolderInv, Working
<1>3. AudioTypes'
  BY <1>1 DEF AudioInv, AudioTypes
<1>4. ShelfInv'
  BY AudioAssumption DEF AudioInv, ShelfInv, TracksOf
<1>5. TracksRemain'
  <2> SUFFICES ASSUME NEW t \in Tracks, t \notin payload'
               PROVE  \E q \in there : t \in holds[q] \ cut[q]
    BY DEF TracksRemain
  <2>1. CASE t \in X
    BY <1>2, <2>1 DEF Left
  <2>2. CASE t \notin X
    BY <2>2 DEF AudioInv, TracksRemain
  <2> QED BY <2>1, <2>2
<1>6. ASSUME NEW e \in Audios PROVE FolderInv(e)' /\ TracksInv(e)'
  <2>1. CASE e # d
    <3>1. Working(e) => aimp[e].dest \in there'
      BY DEF AudioInv, FolderInv
    <3>2. Doing(e, "open") /\ Alone(e) => aimp[e].dest \notin there'
      BY DEF AudioInv, FolderInv, Doing
    <3>3. payload \ TracksOf(d) \subseteq payload' /\ payload' \subseteq payload
      OBVIOUS
    <3> QED BY <1>1, <1>3, <2>1, <3>1, <3>2, <3>3, AudioOthersKept
  <2>2. CASE e = d
    <3>1. FolderInv(d)'
      BY <1>1, <1>2 DEF AudioInv, FolderInv, Working, Home, Alone, Shape, TracksOf
    <3>2. TracksInv(d)'
      BY <1>1 DEF TracksInv, Left, TracksOf
    <3> QED BY <2>2, <3>1, <3>2
  <2> QED BY <2>1, <2>2
<1>7. \A e, f \in Audios : OwnFolder(e, f)'
  BY <1>1, <1>3, StillOwnFolder
<1> QED BY <1>3, <1>4, <1>5, <1>6, <1>7 DEF AudioInv

\* What is cleared next is in the folder, whole, as no name was passed over.
LEMMA AudioPlacedStep ==
  ASSUME AudioInv, NEW d \in Audios, AudioPlaced(d) PROVE AudioInv'
<1> DEFINE s == IF Clears(d) THEN "clear" ELSE "record"
<1>1. /\ Doing(d, "place") /\ Working(d) /\ aimp[d].todo = {}
      /\ aimp' = [aimp EXCEPT ![d].pc = s] /\ payload' = payload \ {}
      /\ UNCHANGED <<layout, moves, there, holds, cut>>
  BY DEF AudioPlaced, Goes, Doing, Working
<1>2. s = "clear" => d \in moves /\ Left(d) \subseteq holds[aimp[d].dest] \ cut[aimp[d].dest]
  BY <1>1 DEF Clears, AudioInv, TracksInv, Doing
<1>3. s \in {"clear", "record", "end"} /\ {} \subseteq TracksOf(d) /\ {} \subseteq payload
  OBVIOUS
<1> HIDE DEF s
<1> QED BY <1>1, <1>2, <1>3, AudioGoesOn

\* A track that is cleared has its copy.
LEMMA AudioClearStep ==
  ASSUME AudioInv, NEW d \in Audios, AudioClear(d) PROVE AudioInv'
<1>1. /\ Doing(d, "clear") /\ Working(d)
      /\ UNCHANGED <<layout, moves, there, holds, cut>>
  BY DEF AudioClear, Doing, Working
<1>2. d \in moves /\ Left(d) \subseteq holds[aimp[d].dest] \ cut[aimp[d].dest]
  BY <1>1 DEF AudioInv, TracksInv, Doing
<1>3. CASE \E t \in Left(d) : payload' = payload \ {t} /\
             Goes(d, IF Cardinality(Left(d)) = 1 THEN "record" ELSE "clear")
  <2>1. PICK t \in Left(d) : payload' = payload \ {t} /\
             Goes(d, IF Cardinality(Left(d)) = 1 THEN "record" ELSE "clear")
    BY <1>3
  <2>2. PICK s \in {"clear", "record", "end"} : aimp' = [aimp EXCEPT ![d].pc = s]
    BY <2>1 DEF Goes
  <2> DEFINE X == {t}
  <2>3. X \subseteq TracksOf(d) /\ X \subseteq payload
    BY <2>1 DEF Left
  <2>4. payload' = payload \ X
    BY <2>1
  <2> HIDE DEF X
  <2> QED BY <1>1, <1>2, <2>2, <2>3, <2>4, AudioGoesOn
<1>4. CASE Blocked(d) /\ UNCHANGED payload
  BY <1>1, <1>4, AudioLeaves DEF Blocked
<1>5. CASE Goes(d, "record") /\ UNCHANGED payload
  <2> DEFINE X == {}
  <2>1. payload' = payload \ X /\ X \subseteq TracksOf(d) /\ X \subseteq payload /\ X = {}
    BY <1>5
  <2> DEFINE s == "record"
  <2>2. aimp' = [aimp EXCEPT ![d].pc = s] /\ s \in {"clear", "record", "end"} /\ s # "clear"
    BY <1>5 DEF Goes
  <2> HIDE DEF s, X
  <2> QED BY <1>1, <1>2, <2>1, <2>2, AudioGoesOn
<1> QED BY <1>3, <1>4, <1>5 DEF AudioClear

\* A folder that could not be recorded is removed only if it holds nothing but copies.
LEMMA AudioRecordStep ==
  ASSUME AudioInv, NEW d \in Audios, AudioRecord(d) PROVE AudioInv'
<1> DEFINE p == aimp[d].dest
<1>1. Doing(d, "record") /\ Working(d) /\ UNCHANGED <<layout, moves, payload>>
  BY DEF AudioRecord, Doing, Working
<1>2. CASE Goes(d, "end") /\ UNCHANGED <<there, holds, cut>>
  <2> DEFINE X == {}
  <2>1. payload' = payload \ X /\ X \subseteq TracksOf(d) /\ X \subseteq payload /\ X = {}
    BY <1>1
  <2> DEFINE s == "end"
  <2>2. aimp' = [aimp EXCEPT ![d].pc = s] /\ s \in {"clear", "record", "end"} /\ s # "clear"
    BY <1>2 DEF Goes
  <2> HIDE DEF s, X
  <2> QED BY <1>1, <1>2, <2>1, <2>2, AudioGoesOn
<1>3. CASE Blocked(d) /\ UNCHANGED <<there, holds, cut>>
  BY <1>1, <1>3, AudioLeaves DEF Blocked
<1>4. CASE Blocked(d) /\ TakesBack(d) /\ RemoveAll(p)
  <2>1. holds[p] \subseteq TracksOf(d) \cap payload /\ p \in Folders
    BY <1>1, <1>4 DEF AudioInv, FolderInv, ShelfInv, Doing, Working, TakesBack
  <2>2. cut[p] \subseteq holds[p]
    BY <2>1 DEF AudioInv, ShelfInv
  <2>3. /\ holds' = [holds EXCEPT ![p] = @ \ holds[p]]
        /\ cut' = [cut EXCEPT ![p] = @ \ holds[p]]
        /\ there' = there \ {p}
    BY <1>4, <2>1, <2>2 DEF RemoveAll, AudioInv, AudioTypes
  <2> QED BY <1>1, <1>4, <2>1, <2>3, AudioTakesBack DEF Blocked
<1> QED BY <1>2, <1>3, <1>4 DEF AudioRecord

\* The download is imported.
LEMMA AudioEndStep ==
  ASSUME AudioInv, NEW d \in Audios, AudioEnd(d) PROVE AudioInv'
BY AudioLeaves DEF AudioEnd

\* A stop cuts files short that were not there before, and ends every import.
LEMMA AudioCrashStep == ASSUME AudioInv, AudioCrash PROVE AudioInv'
<1>1. PICK now \in SUBSET {t \in Tracks : /\ Doing(AudioOf[t], "place")
                                        /\ t \in aimp[AudioOf[t]].todo
                                        /\ t \notin holds[aimp[AudioOf[t]].dest]} :
        /\ holds' = [p \in Folders |-> holds[p] \cup {t \in now : aimp[AudioOf[t]].dest = p}]
        /\ cut'   = [p \in Folders |-> cut[p] \cup {t \in now : aimp[AudioOf[t]].dest = p}]
  BY DEF AudioCrash
<1>2. /\ aimp' = [d \in Audios |-> IdleAudio]
      /\ UNCHANGED <<layout, moves, payload, there>>
  BY DEF AudioCrash
<1>3. \A t \in now : /\ t \in Tracks /\ aimp[AudioOf[t]].dest \in there
                     /\ t \notin holds[aimp[AudioOf[t]].dest]
  BY <1>1, AudioAssumption DEF AudioInv, FolderInv, Working, Doing
<1>4. AudioTypes'
  <2>1. IdleAudio \in AudioRecords
    BY DEF IdleAudio, AudioRecords, AudioSteps
  <2> QED BY <1>1, <1>2, <1>3, <2>1 DEF AudioInv, AudioTypes
<1>5. ShelfInv'
  BY <1>1, <1>2, <1>3 DEF AudioInv, ShelfInv, TracksOf, AudioTypes
<1>6. TracksRemain'
  <2> SUFFICES ASSUME NEW t \in Tracks, t \notin payload
               PROVE  \E q \in there : t \in holds'[q] \ cut'[q]
    BY <1>2 DEF TracksRemain
  <2>1. PICK q \in there : t \in holds[q] \ cut[q]
    BY DEF AudioInv, TracksRemain
  <2>2. q \in Folders
    BY DEF AudioInv, AudioTypes
  <2>3. t \in now => aimp[AudioOf[t]].dest # q
    BY <1>3, <2>1
  <2> QED BY <1>1, <2>1, <2>2, <2>3
<1>7. \A e \in Audios : aimp'[e] = IdleAudio /\ ~Working(e)'
  BY <1>2 DEF IdleAudio, Working
<1> QED BY <1>4, <1>5, <1>6, <1>7, IdleHolds DEF AudioInv, OwnFolder


\* The folder is made, or the book's is taken, and a rename puts all tracks in it at once.
LEMMA AudioOpenStep ==
  ASSUME AudioInv, HomesApart, NEW d \in Audios, AudioOpen(d) PROVE AudioInv'
<1> DEFINE l == aimp[d]  p == IF Merges(d) THEN <<Home(d), 1>> ELSE l.dest
           refused == ~Merges(d) /\ ~Alone(d) /\ p \in there
           Renamed == /\ d \in moves /\ Shape(d) = "folder" /\ ~Merges(d)
                      /\ holds' = [holds EXCEPT ![p] = l.todo] /\ payload' = payload \ l.todo
                      /\ UNCHANGED cut
                      /\ aimp' = [aimp EXCEPT ![d].pc = "record", ![d].dest = p]
           Made == /\ UNCHANGED <<payload, holds, cut>>
                   /\ aimp' = [aimp EXCEPT ![d].pc = "place", ![d].dest = p,
                                           ![d].merged = Merges(d)]
<1>1. Doing(d, "open") /\ UNCHANGED <<layout, moves>>
  BY DEF AudioOpen
<1>2. CASE Blocked(d) /\ UNCHANGED <<payload, there, holds, cut>>
  BY <1>1, <1>2, AudioLeaves DEF Blocked
<1>3. CASE ~refused /\ there' = there \cup {p} /\ (Made \/ Renamed)
  <2>1. /\ p \in Folders /\ p[1] = Home(d) /\ l.todo = Left(d) /\ ~l.merged /\ ~l.skipped
        /\ l \in AudioRecords
    BY <1>1, PlainFolder DEF AudioInv, AudioTypes, FolderInv, Doing
  <2>2. Merges(d) => p \in there /\ "ebook" \in holds[p]
    BY <2>1 DEF Merges, AudioInv, ShelfInv
  <2>3. ~Merges(d) => p \notin there /\ holds[p] = {} /\ cut[p] = {}
    <3>1. ~Merges(d) => p \notin there
      BY <1>1, <1>3 DEF AudioInv, FolderInv, Doing
    <3> QED BY <2>1, <3>1 DEF AudioInv, ShelfInv
  <2>4. /\ \A e \in Audios \ {d} : aimp'[e] = aimp[e]
        /\ aimp'[d] \in AudioRecords /\ aimp'[d].todo = l.todo
        /\ aimp'[d].dest = p /\ aimp'[d].skipped = l.skipped
    <3>1. Merges(d) \in BOOLEAN
      BY DEF Merges
    <3>2. CASE Made
      BY <2>1, <3>1, <3>2 DEF AudioInv, AudioTypes, AudioRecords, AudioSteps
    <3>3. CASE Renamed
      BY <2>1, <3>3 DEF AudioInv, AudioTypes, AudioRecords, AudioSteps
    <3> QED BY <1>3, <3>2, <3>3
  <2>5. \/ Made /\ aimp'[d].pc = "place" /\ aimp'[d].merged = Merges(d)
        \/ Renamed /\ aimp'[d].pc = "record" /\ aimp'[d].merged = l.merged
    BY <1>3, <2>1 DEF AudioInv, AudioTypes, AudioRecords, AudioSteps
  <2>6. /\ \A q \in Folders : q # p => holds'[q] = holds[q]
        /\ Renamed => holds'[p] = l.todo
        /\ cut' = cut /\ payload' \subseteq payload
        /\ payload \ TracksOf(d) \subseteq payload' /\ l.todo \subseteq TracksOf(d)
    BY <1>3, <2>1 DEF AudioInv, AudioTypes, Left
  <2> HIDE DEF p, refused
  <2>7. AudioTypes'
    <3>1. aimp' \in [Audios -> AudioRecords]
      BY <2>4, <2>5 DEF AudioInv, AudioTypes
    <3>2. holds' \in [Folders -> SUBSET (Tracks \cup {"ebook"})]
      BY <2>1, <2>5, <2>6 DEF AudioInv, AudioTypes, TracksOf
    <3> QED BY <1>1, <1>3, <2>1, <2>6, <3>1, <3>2 DEF AudioInv, AudioTypes
  <2>8. ShelfInv'
    <3>1. \A q \in Folders : cut[q] \subseteq holds'[q] /\ (q \notin there' => holds'[q] = {})
      BY <1>3, <2>1, <2>3, <2>5, <2>6 DEF AudioInv, ShelfInv
    <3>2. \A e \in Audios : e \notin moves => TracksOf(e) \subseteq payload'
      BY <2>5, <2>6, AudioAssumption DEF AudioInv, ShelfInv, TracksOf
    <3> QED BY <1>1, <2>6, <3>1, <3>2 DEF ShelfInv, TracksOf
  <2>9. TracksRemain'
    <3> SUFFICES ASSUME NEW t \in Tracks, t \notin payload'
                 PROVE  \E q \in there' : t \in holds'[q] \ cut'[q]
      BY DEF TracksRemain
    <3>1. CASE t \in payload
      <4>1. Renamed /\ t \in l.todo
        BY <2>5, <3>1
      <4> QED BY <1>3, <2>3, <2>6, <4>1
    <3>2. CASE t \notin payload
      <4>1. PICK q \in there : t \in holds[q] \ cut[q]
        BY <3>2 DEF AudioInv, TracksRemain
      <4>2. q \in Folders
        BY DEF AudioInv, AudioTypes
      <4>3. holds'[q] = holds[q]
        BY <2>3, <2>5, <2>6, <4>1, <4>2
      <4> QED BY <1>3, <2>6, <4>1, <4>3
    <3> QED BY <3>1, <3>2
  <2>10. ASSUME NEW e \in Audios PROVE FolderInv(e)' /\ TracksInv(e)'
    <3>1. CASE e # d
      <4>1. aimp[e].pc # "idle" => aimp[e].dest \in Folders /\ aimp[e].dest[1] = Home(e)
        BY DEF AudioInv, FolderInv
      <4>2. Doing(e, "open") /\ Alone(e) => aimp[e].dest \notin there'
        <5>1. Alone(e) => Home(e) # Home(d)
          BY <3>1 DEF HomesApart, Alone, Shape, Home, AudioInv, AudioTypes
        <5> QED BY <1>3, <2>1, <4>1, <5>1 DEF AudioInv, FolderInv, Doing
      <4>3. Working(e) => aimp[e].dest \in there /\ aimp[e].dest \in there'
        BY <1>3 DEF AudioInv, FolderInv
      <4>4. Working(e) => holds'[aimp[e].dest] = holds[aimp[e].dest]
        <5>1. Working(e) => aimp[e].dest \in Folders
          BY <4>1 DEF Working
        <5> QED BY <2>3, <2>5, <2>6, <4>3, <5>1
      <4> QED BY <1>1, <2>4, <2>6, <2>7, <3>1, <4>2, <4>3, <4>4, AudioOthersKept
    <3>2. CASE e = d
      <4>1. Home(d)' = Home(d) /\ Alone(d)' = Alone(d) /\ Left(d)' = TracksOf(d) \cap payload'
        BY <1>1 DEF Home, Alone, Shape, Left, TracksOf
      <4>2. p \in there'
        BY <1>3
      <4>3. FolderInv(d)'
        BY <2>1, <2>2, <2>3, <2>4, <2>5, <2>6, <4>1, <4>2 DEF FolderInv, Working, TracksOf
      <4>4. TracksInv(d)'
        BY <2>1, <2>3, <2>4, <2>5, <4>1 DEF TracksInv, Left
      <4> QED BY <3>2, <4>3, <4>4
    <3> QED BY <3>1, <3>2
  <2>11. \A e, f \in Audios : OwnFolder(e, f)'
    <3>1. ~aimp'[d].merged => \A e \in Audios \ {d} : Working(e) => aimp[e].dest # p
      BY <2>1, <2>3, <2>5 DEF AudioInv, FolderInv
    <3>2. aimp'[d].merged =>
            \A e \in Audios \ {d} : Working(e) /\ ~aimp[e].merged => aimp[e].dest # p
      <4>1. aimp'[d].merged => "ebook" \in holds[p]
        BY <2>1, <2>2, <2>5
      <4>2. \A e \in Audios : Working(e) /\ ~aimp[e].merged => "ebook" \notin holds[aimp[e].dest]
        BY AudioAssumption DEF AudioInv, FolderInv, TracksOf
      <4> QED BY <4>1, <4>2
    <3> QED BY <2>4, <2>7, <3>1, <3>2, OwnFolders
  <2> QED BY <2>7, <2>8, <2>9, <2>10, <2>11 DEF AudioInv
<1> QED BY <1>2, <1>3 DEF AudioOpen

\* Every step.
LEMMA AudioStep ==
  ASSUME AudioInv, HomesApart, [AudioNext]_audioVars
  PROVE  AudioInv'
<1>1. CASE UNCHANGED audioVars
  <2>1. UNCHANGED <<layout, moves, payload, there, holds, cut, aimp>>
    BY <1>1 DEF audioVars
  <2>2. \A e \in Audios : FolderInv(e)' /\ TracksInv(e)'
    BY <2>1, AudioUntouched DEF AudioInv
  <2> QED BY <2>1, <2>2
          DEF AudioInv, AudioTypes, ShelfInv, TracksRemain, TracksOf, OwnFolder, Working
<1>2. CASE AudioCrash
  BY <1>2, AudioCrashStep
<1>3. ASSUME NEW d \in Audios,
             \/ AudioBegin(d) \/ AudioOpen(d) \/ AudioTrack(d) \/ AudioTrackFails(d)
             \/ AudioPlaced(d) \/ AudioClear(d) \/ AudioRecord(d) \/ AudioEnd(d)
      PROVE  AudioInv'
  BY <1>3, AudioBeginStep, AudioOpenStep, AudioTrackStep, AudioTrackFailsStep,
     AudioPlacedStep, AudioClearStep, AudioRecordStep, AudioEndStep
<1> QED BY <1>1, <1>2, <1>3 DEF AudioNext

\* The audiobook branch of tryImportInternal: an import's folder is its own, or its book's,
\* and holds what the download no longer has.
THEOREM AudioInvariant == HomesApart /\ AudioSpec => []AudioInv
<1>1. CASE HomesApart
  <2>1. AudioInv /\ [AudioNext]_audioVars => AudioInv'
    BY <1>1, AudioStep
  <2> QED BY <2>1, AudioInitInv, PTL DEF AudioSpec
<1>2. CASE ~HomesApart
  BY <1>2
<1> QED BY <1>1, <1>2

\* Whatever fails and wherever the process stops, a track is at its download or whole in a
\* folder of the library.
THEOREM TracksNeverLost == HomesApart /\ AudioSpec => []TracksRemain
<1>1. AudioInv => TracksRemain
  BY DEF AudioInv
<1> QED BY <1>1, AudioInvariant, PTL


\* What a failing step takes out of a folder its import had put there.
LEMMA TakesOwn ==
  ASSUME AudioInv, NEW d \in Audios, Working(d), NEW q \in Folders, NEW i \in holds[q] \ holds'[q],
         \/ ~aimp[d].merged /\ holds' = [holds EXCEPT ![aimp[d].dest] = {}]
         \/ holds' = [holds EXCEPT ![aimp[d].dest] = @ \ (TracksOf(d) \cap holds[aimp[d].dest])]
  PROVE  i \in Tracks /\ aimp[AudioOf[i]].dest = q
<1>1. holds \in [Folders -> SUBSET (Tracks \cup {"ebook"})]
  BY DEF AudioInv, AudioTypes
<1>2. q = aimp[d].dest
  BY <1>1
<1>3. i \in TracksOf(d)
  BY <1>1, <1>2 DEF AudioInv, FolderInv
<1> QED BY <1>2, <1>3 DEF TracksOf

\* The rollbacks of the audiobook branch remove what their own import placed: never the
\* ebook of a folder that was merged into, never another book's tracks.
THEOREM FoldersAlwaysStay == HomesApart /\ AudioSpec => FoldersStay
<1> DEFINE Stays == \A p \in Folders : \A i \in holds[p] \ holds'[p] :
                      i \in Tracks /\ aimp[AudioOf[i]].dest = p
<1>1. AudioInv /\ [AudioNext]_audioVars => [Stays]_audioVars
  <2> SUFFICES ASSUME AudioInv, AudioNext, NEW p \in Folders, NEW i \in holds[p] \ holds'[p]
               PROVE  i \in Tracks /\ aimp[AudioOf[i]].dest = p
    BY DEF audioVars
  <2> USE DEF AudioInv, AudioTypes
  <2>1. CASE AudioCrash
    <3>1. holds[p] \subseteq holds'[p]
      BY <2>1 DEF AudioCrash
    <3> QED BY <3>1
  <2>2. ASSUME NEW d \in Audios, AudioTrack(d) PROVE FALSE
    BY <2>2 DEF AudioTrack
  <2>3. ASSUME NEW d \in Audios, AudioOpen(d) PROVE FALSE
    <3> DEFINE q == aimp[d].dest
    <3>1. holds' = [holds EXCEPT ![q] = aimp[d].todo] /\ ~Merges(d) /\ ~Alone(d) /\ q \notin there
      BY <2>3 DEF AudioOpen, Alone
    <3>2. q \in Folders /\ holds[q] = {}
      BY <2>3, <3>1 DEF AudioOpen, Doing, FolderInv, ShelfInv
    <3> QED BY <3>1, <3>2
  <2>4. ASSUME NEW d \in Audios, AudioTrackFails(d)
        PROVE  i \in Tracks /\ aimp[AudioOf[i]].dest = p
    <3> DEFINE q == aimp[d].dest
    <3>1. Working(d)
      BY <2>4 DEF AudioTrackFails, Doing, Working
    <3>2. CASE ~aimp[d].merged /\ holds' = [holds EXCEPT ![q] = {}]
      BY <3>1, <3>2, TakesOwn
    <3>3. CASE holds' = [holds EXCEPT ![q] = @ \ (TracksOf(d) \cap holds[q])]
      BY <3>1, <3>3, TakesOwn
    <3>4. CASE holds' = holds \/ \E t \in Tracks : holds' = [holds EXCEPT ![q] = @ \cup {t}]
      BY <3>4
    <3>5. aimp[d].todo \subseteq Tracks
      BY DEF AudioRecords
    <3> QED BY <2>4, <3>2, <3>3, <3>4, <3>5 DEF AudioTrackFails, RemoveAll, RollBack
  <2>5. ASSUME NEW d \in Audios, AudioRecord(d)
        PROVE  i \in Tracks /\ aimp[AudioOf[i]].dest = p
    <3>1. Working(d) /\ ~aimp[d].merged /\ holds' = [holds EXCEPT ![aimp[d].dest] = {}]
      BY <2>5 DEF AudioRecord, Doing, Working, RemoveAll, TakesBack
    <3> QED BY <3>1, TakesOwn
  <2>6. ASSUME NEW d \in Audios, AudioBegin(d) \/ AudioPlaced(d) \/ AudioClear(d) \/ AudioEnd(d)
        PROVE  FALSE
    BY <2>6 DEF AudioBegin, AudioPlaced, AudioClear, AudioEnd
  <2> QED BY <2>1, <2>2, <2>3, <2>4, <2>5, <2>6 DEF AudioNext
<1> QED BY <1>1, AudioInvariant, PTL DEF AudioSpec, FoldersStay

-----------------------------------------------------------------------------
(* What attempts at an audiobook leave, over any number of retries. *)

\* The rest of the state's types.
RecordTypes ==
  /\ audioRow \in [Folders -> AudioBooks \cup {"none"}] /\ torn \subseteq Audios
  /\ DOMAIN astatus = Audios

OfBook(b) == {d \in Audios : AudioBook[d] = b}

\* Nothing of a download has left its path.
Whole(d) == TracksOf(d) \subseteq payload

\* What a download and its attempt are, unless an attempt ended half done: all of its
\* tracks are there to be placed, what is placed lies whole in the folder, and once all is
\* placed they are all still at the download or none is.
AttemptInv(d) ==
  LET l == aimp[d]  p == l.dest
  IN /\ l.pc \in {"idle", "record", "end"} => Whole(d) \/ Left(d) = {}
     /\ l.pc = "open" => Whole(d)
     /\ l.pc = "place" =>
          /\ TracksOf(d) \ l.todo \subseteq holds[p] \ cut[p]
          /\ d \in moves /\ Alone(d) => l.merged \/ Left(d) = l.todo
          /\ ~(d \in moves /\ Alone(d)) => Whole(d)
     /\ l.pc \in {"clear", "record", "end"} => TracksOf(d) \subseteq holds[p] \ cut[p]
     /\ l.pc = "record" /\ d \in moves /\ ~l.merged => Left(d) = {}
     /\ \A q \in Folders : "ebook" \in holds[q] => TracksOf(d) \cap cut[q] = {}

\* What holds of an attempt in any case.
StepInv(d) ==
  LET l == aimp[d]  p == l.dest
  IN /\ l.pc = "open" => Left(d) # {}
     /\ l.pc = "place" => l.todo # {} \/ TracksOf(d) \cap holds[p] # {}
     /\ l.pc = "place" /\ ~l.merged => ~l.skipped
     /\ l.pc \in {"clear", "record", "end"} => TracksOf(d) \cap holds[p] # {}
     /\ l.pc = "clear" => Left(d) # {}
     /\ l.pc = "end" => audioRow[p] = AudioBook[d]
     /\ Working(d) /\ l.merged => Shape(d) \in {"folder", "file"}

\* A download that has its tracks, whole, in a folder and no attempt that could touch them.
Settled(d, p) ==
  /\ aimp[d].pc \in {"idle", "end"} /\ TracksOf(d) # {}
  /\ TracksOf(d) \subseteq holds[p] \ cut[p]

\* A recorded folder has all of one of its book's downloads, unless an attempt at one of
\* them ended half done.
RowsInv ==
  \A p \in Folders : audioRow[p] # "none" /\ OfBook(audioRow[p]) \cap torn = {} =>
    \E d \in OfBook(audioRow[p]) : Settled(d, p)

\* What is imported has a folder that is recorded for its book.
ImportedHasRow ==
  \A d \in Audios : astatus[d] = "imported" => \E p \in Folders : audioRow[p] = AudioBook[d]

\* A folder nobody works in, with no row and no ebook.
Leftover(p) ==
  /\ p \in there /\ audioRow[p] = "none" /\ "ebook" \notin holds[p]
  /\ \A d \in Audios : Working(d) => aimp[d].dest # p
\* What lies in it is missing from its download, or of an attempt that ended half done.
Accounted(p) == holds[p] # {} /\ \A t \in holds[p] : t \notin payload \/ AudioOf[t] \in torn
LeftoverInv  == stopped = {} => \A p \in Folders : Leftover(p) => Accounted(p)

\* All of it.
AttemptsInv ==
  /\ AudioInv /\ RecordTypes /\ RowsInv /\ ImportedHasRow /\ LeftoverInv
  /\ \A d \in Audios : StepInv(d) /\ (d \notin torn => AttemptInv(d))

\* Nothing is placed, recorded or left over yet.
LEMMA AttemptsInit == AudioInit => AttemptsInv
<1> SUFFICES ASSUME AudioInit PROVE AttemptsInv
  OBVIOUS
<1>1. AudioInv
  BY AudioInitInv
<1>2. \A d \in Audios : aimp[d].pc = "idle"
  BY DEF AudioInit, IdleAudio
<1>3. RecordTypes /\ RowsInv /\ ImportedHasRow
  BY DEF AudioInit, RecordTypes, RowsInv, ImportedHasRow
<1>4. LeftoverInv
  BY DEF AudioInit, LeftoverInv, Leftover
<1>5. ASSUME NEW d \in Audios PROVE StepInv(d) /\ AttemptInv(d)
  BY <1>2 DEF AudioInit, StepInv, AttemptInv, Whole, TracksOf, Working
<1>. QED BY <1>1, <1>3, <1>4, <1>5 DEF AttemptsInv

\* A step of one download: what it changes is its own tracks, its own import and, when it
\* is recorded, the row of its folder.
Recorded(d) ==
  \A q \in Folders : audioRow'[q] # audioRow[q] =>
    /\ q = aimp[d].dest /\ audioRow[q] = "none" /\ audioRow'[q] = AudioBook[d]
    /\ aimp[d].pc = "record" /\ (d \in torn' \/ (aimp'[d].pc = "end" /\ aimp'[d].dest = q))

TouchesOwn(d) ==
  /\ UNCHANGED <<layout, moves, stopped>>
  /\ \A e \in Audios \ {d} : aimp'[e] = aimp[e]
  /\ payload' \subseteq payload /\ payload \ TracksOf(d) \subseteq payload'
  /\ \A q \in Folders : /\ holds'[q] \ TracksOf(d) = holds[q] \ TracksOf(d)
                        /\ cut'[q] \ TracksOf(d) = cut[q] \ TracksOf(d)
  /\ torn \subseteq torn' /\ torn' \subseteq torn \cup {d}
  /\ audioRow' \in [Folders -> AudioBooks \cup {"none"}] /\ DOMAIN astatus' = Audios
  /\ Recorded(d)

\* Tracks are of one download, and no track is an ebook.
LEMMA TracksApart ==
  ASSUME NEW d \in Audios, NEW e \in Audios, d # e
  PROVE  /\ TracksOf(d) \cap TracksOf(e) = {}
         /\ "ebook" \notin TracksOf(d) /\ TracksOf(e)' = TracksOf(e) /\ TracksOf(d) \subseteq Tracks
BY AudioAssumption DEF TracksOf

\* What a step of one download leaves of another's attempt.
LEMMA OthersAttempt ==
  ASSUME AttemptsInv, NEW d \in Audios, TouchesOwn(d), NEW e \in Audios, e # d
  PROVE  StepInv(e)' /\ (e \notin torn' => AttemptInv(e)')
<1> DEFINE l == aimp[e]  p == l.dest
<1>1. /\ aimp'[e] = aimp[e] /\ Alone(e)' = Alone(e) /\ Shape(e)' = Shape(e) /\ moves' = moves
      /\ TracksOf(e)' = TracksOf(e) /\ Left(e)' = Left(e) /\ Whole(e)' = Whole(e)
      /\ Working(e)' = Working(e) /\ (e \in torn' <=> e \in torn)
  BY TracksApart DEF TouchesOwn, Alone, Shape, Left, Whole, Working
<1>2. ASSUME NEW q \in Folders
      PROVE  /\ TracksOf(e) \cap holds'[q] = TracksOf(e) \cap holds[q]
             /\ TracksOf(e) \cap cut'[q] = TracksOf(e) \cap cut[q]
             /\ "ebook" \in holds'[q] <=> "ebook" \in holds[q]
  BY TracksApart DEF TouchesOwn
<1>3. l.pc # "idle" => p \in Folders
  BY DEF AttemptsInv, AudioInv, FolderInv
<1>4. l.pc = "end" => audioRow'[p] = AudioBook[e]
  <2>1. AudioBook[e] # "none"
    BY AudioAssumption DEF AudioBooks
  <2>. QED BY <1>3, <2>1 DEF AttemptsInv, StepInv, TouchesOwn, Recorded
<1>5. StepInv(e) /\ (e \notin torn => AttemptInv(e))
  BY DEF AttemptsInv
<1>6. StepInv(e)'
  BY <1>1, <1>2, <1>3, <1>4, <1>5 DEF StepInv
<1>7. ASSUME e \notin torn' PROVE AttemptInv(e)'
  <2>1. AttemptInv(e)
    BY <1>1, <1>5, <1>7
  <2>2. \A q \in Folders : "ebook" \in holds'[q] => TracksOf(e) \cap cut'[q] = {}
    BY <1>2, <2>1 DEF AttemptInv
  <2>3. l.pc \in {"idle", "record", "end"} => Whole(e)' \/ Left(e)' = {}
    BY <1>1, <2>1 DEF AttemptInv
  <2>4. l.pc = "place" =>
          /\ TracksOf(e) \ l.todo \subseteq holds'[p] \ cut'[p]
          /\ e \in moves /\ Alone(e) => l.merged \/ Left(e) = l.todo
          /\ ~(e \in moves /\ Alone(e)) => Whole(e)
    BY <1>2, <1>3, <2>1 DEF AttemptInv
  <2>5. l.pc \in {"clear", "record", "end"} => TracksOf(e) \subseteq holds'[p] \ cut'[p]
    BY <1>2, <1>3, <2>1 DEF AttemptInv
  <2>. QED BY <1>1, <2>1, <2>2, <2>3, <2>4, <2>5 DEF AttemptInv
<1>. QED BY <1>6, <1>7

\* Whose tracks lie whole in a recorded folder has an audiobook there.
LEMMA SettledIsAudio ==
  ASSUME AudioInv, NEW p \in Folders, NEW d \in Audios, Settled(d, p), audioRow[p] = AudioBook[d]
  PROVE  HasAudio(AudioBook[d])
BY DEF Settled, AudioInv, ShelfInv, HasAudio

\* Rows stay rows of what is there: those of other downloads, and those of its own before.
LEMMA RowsKept ==
  ASSUME AttemptsInv, NEW d \in Audios, TouchesOwn(d),
         aimp[d].pc \in {"idle", "end"} /\ HasAudio(AudioBook[d]) =>
           aimp'[d].pc \in {"idle", "end"} /\ UNCHANGED <<holds, cut>>,
         aimp[d].pc = "record" /\ aimp'[d].pc = "end" =>
           UNCHANGED <<holds, cut>> /\ torn' = torn
  PROVE  RowsInv'
<1> SUFFICES ASSUME NEW p \in Folders, audioRow'[p] # "none", OfBook(audioRow'[p]) \cap torn' = {}
             PROVE  \E e \in OfBook(audioRow'[p]) : Settled(e, p)'
  BY DEF RowsInv, OfBook
<1>1. CASE audioRow'[p] = audioRow[p]
  <2>1. PICK e \in OfBook(audioRow[p]) : Settled(e, p)
    BY <1>1 DEF AttemptsInv, RowsInv, TouchesOwn
  <2>2. e \in Audios /\ AudioBook[e] = audioRow[p]
    BY <2>1 DEF OfBook
  <2>3. CASE e # d
    <3>1. TracksOf(e) \subseteq holds'[p] \ cut'[p] /\ aimp'[e] = aimp[e] /\ TracksOf(e)' = TracksOf(e)
      BY <2>1, <2>2, <2>3, TracksApart DEF TouchesOwn, Settled
    <3>. QED BY <1>1, <2>1, <3>1 DEF Settled
  <2>4. CASE e = d
    <3>1. HasAudio(AudioBook[d])
      BY <2>1, <2>2, <2>4, SettledIsAudio DEF AttemptsInv
    <3>2. aimp'[d].pc \in {"idle", "end"} /\ UNCHANGED <<holds, cut>>
      BY <2>1, <2>4, <3>1 DEF Settled
    <3>. QED BY <1>1, <2>1, <2>4, <3>2 DEF Settled, TracksOf
  <2>. QED BY <2>3, <2>4
<1>2. CASE audioRow'[p] # audioRow[p]
  <2>1. /\ p = aimp[d].dest /\ audioRow'[p] = AudioBook[d] /\ aimp[d].pc = "record"
        /\ d \in torn' \/ aimp'[d].pc = "end"
    BY <1>2 DEF TouchesOwn, Recorded
  <2>2. d \in OfBook(audioRow'[p]) /\ d \notin torn'
    BY <2>1 DEF OfBook
  <2>3. aimp'[d].pc = "end" /\ UNCHANGED <<holds, cut>> /\ d \notin torn
    BY <2>1, <2>2 DEF TouchesOwn
  <2>4. TracksOf(d) \subseteq holds[p] \ cut[p] /\ TracksOf(d) # {}
    BY <2>1, <2>3 DEF AttemptsInv, AttemptInv, StepInv
  <2>. QED BY <2>2, <2>3, <2>4 DEF Settled, TracksOf
<1>. QED BY <1>1, <1>2

\* What is imported has a row, and rows are for good.
LEMMA ImportedKeepsRow ==
  ASSUME AttemptsInv, NEW d \in Audios, TouchesOwn(d),
         \A e \in Audios : astatus'[e] = "imported" =>
           \/ astatus[e] = "imported"
           \/ \E p \in Folders : audioRow[p] = AudioBook[e]
  PROVE  ImportedHasRow'
<1>1. \A e \in Audios : AudioBook[e] # "none"
  BY AudioAssumption DEF AudioBooks
<1>. QED BY <1>1 DEF AttemptsInv, ImportedHasRow, TouchesOwn, Recorded

\* The folders but the one the import works in are as accounted for as they were.
LEMMA LeftoversKept ==
  ASSUME AttemptsInv, NEW d \in Audios, TouchesOwn(d), NEW p,
         Working(d) => aimp[d].dest = p,
         Working(d)' => aimp'[d].dest = p,
         \A q \in Folders \ {p} : holds'[q] = holds[q] /\ (q \in there' <=> q \in there),
         p \in Folders /\ stopped = {} /\ Leftover(p)' => Accounted(p)'
  PROVE  LeftoverInv'
<1> SUFFICES ASSUME stopped = {}, NEW q \in Folders, Leftover(q)' PROVE Accounted(q)'
  BY DEF LeftoverInv, TouchesOwn
<1>1. CASE q = p
  BY <1>1
<1>2. CASE q # p
  <2>1. holds'[q] = holds[q] /\ (q \in there' <=> q \in there) /\ audioRow[q] = "none"
    <3>1. \A e \in Audios : AudioBook[e] # "none"
      BY AudioAssumption DEF AudioBooks
    <3>. QED BY <1>2, <3>1 DEF Leftover, TouchesOwn, Recorded
  <2>2. \A e \in Audios : Working(e) => aimp[e].dest # q
    BY <1>2 DEF Leftover, Working, TouchesOwn
  <2>3. Accounted(q)
    BY <2>1, <2>2 DEF Leftover, AttemptsInv, LeftoverInv
  <2>. QED BY <2>1, <2>3 DEF Accounted, TouchesOwn
<1>. QED BY <1>1, <1>2

\* One download's step, from what it does to that download and to its folder.
LEMMA OneStep ==
  ASSUME AttemptsInv, AudioInv', NEW d \in Audios, TouchesOwn(d),
         StepInv(d)', d \notin torn' => AttemptInv(d)',
         RowsInv', ImportedHasRow', LeftoverInv'
  PROVE  AttemptsInv'
<1>1. RecordTypes'
  BY DEF AttemptsInv, RecordTypes, TouchesOwn
<1>. QED BY <1>1, OthersAttempt DEF AttemptsInv

\* Where neither the shelf nor the rows nor what is accounted for change, and the import
\* works in no folder it did not work in.
LEMMA LeftoversSame ==
  ASSUME AttemptsInv, NEW d \in Audios, TouchesOwn(d), UNCHANGED <<there, holds>>,
         Working(d) => Working(d)' /\ aimp'[d].dest = aimp[d].dest
  PROVE  LeftoverInv'
<1> SUFFICES ASSUME stopped = {}, NEW q \in Folders, Leftover(q)' PROVE Accounted(q)'
  BY DEF LeftoverInv, TouchesOwn
<1>1. audioRow[q] = "none"
  <2>1. \A e \in Audios : AudioBook[e] # "none"
    BY AudioAssumption DEF AudioBooks
  <2>. QED BY <2>1 DEF Leftover, TouchesOwn, Recorded
<1>2. \A e \in Audios : Working(e) => aimp[e].dest # q
  BY DEF Leftover, Working, TouchesOwn
<1>3. Accounted(q)
  BY <1>1, <1>2 DEF Leftover, AttemptsInv, LeftoverInv
<1>. QED BY <1>3 DEF Accounted, TouchesOwn

\* AudioBegin: a download that is imported at once has a row; another gets a destination.
LEMMA AttemptsBegin == ASSUME AttemptsInv, NEW d \in Audios, AudioBegin(d) PROVE AttemptsInv'
<1>1. AudioInv'
  BY AudioBeginStep DEF AttemptsInv
<1>2. TouchesOwn(d)
  BY DEF AudioBegin, TouchesOwn, Recorded, AttemptsInv, AudioInv, AudioTypes, RecordTypes
<1>3. UNCHANGED <<layout, moves, payload, there, holds, cut, audioRow, torn, stopped>>
  BY DEF AudioBegin
<1>4. /\ aimp[d].pc = "idle" /\ StepInv(d) /\ (d \notin torn => AttemptInv(d))
      /\ aimp' = aimp \/ (aimp'[d].pc = "open" /\ Left(d) # {} /\ ~HasAudio(AudioBook[d]))
  BY DEF AudioBegin, Doing, AttemptsInv, AudioInv, AudioTypes, IdleAudio
<1>5. StepInv(d)' /\ (d \notin torn' => AttemptInv(d)')
  BY <1>3, <1>4 DEF StepInv, AttemptInv, Whole, Left, TracksOf, Alone, Shape, Working
<1>6. RowsInv'
  BY <1>2, <1>3, <1>4, RowsKept
<1>7. ImportedHasRow'
  <2>1. HasAudio(AudioBook[d]) => \E p \in Folders : audioRow[p] = AudioBook[d]
    BY DEF HasAudio, AttemptsInv, AudioInv, AudioTypes
  <2>2. \A e \in Audios : astatus'[e] = "imported" =>
          astatus[e] = "imported" \/ (e = d /\ HasAudio(AudioBook[d]))
    BY DEF AudioBegin, AttemptsInv, RecordTypes
  <2>. QED BY <1>2, <2>1, <2>2, ImportedKeepsRow
<1>8. LeftoverInv'
  BY <1>2, <1>3, <1>4, LeftoversSame DEF Working
<1>. QED BY <1>1, <1>2, <1>5, <1>6, <1>7, <1>8, OneStep

\* A status that does not become imported.
LEMMA StatusElse ==
  ASSUME AttemptsInv, NEW d \in Audios, TouchesOwn(d),
         astatus' = astatus \/ (\E s \in {"blocked", "importing", "failed"} :
                                  astatus' = [astatus EXCEPT ![d] = s])
  PROVE  ImportedHasRow'
<1>1. \A e \in Audios : astatus'[e] = "imported" => astatus[e] = "imported"
  BY DEF AttemptsInv, RecordTypes
<1>. QED BY <1>1, ImportedKeepsRow

\* A blocked attempt.
LEMMA BlockedEnds ==
  ASSUME AttemptsInv, NEW d \in Audios, Blocked(d)
  PROVE  /\ aimp'[d] = IdleAudio /\ aimp'[d].pc = "idle" /\ ~Working(d)' /\ ~Doing(d, "open")'
         /\ \A e \in Audios \ {d} : aimp'[e] = aimp[e]
         /\ \E s \in {"blocked", "importing", "failed"} : astatus' = [astatus EXCEPT ![d] = s]
         /\ DOMAIN astatus' = Audios
         /\ StepInv(d)'
BY DEF Blocked, AttemptsInv, AudioInv, AudioTypes, RecordTypes, IdleAudio, Working, Doing, StepInv

\* AudioOpen: the folder it makes is new, or its book's, so it hides nothing left over.
LEMMA AttemptsOpen == ASSUME AttemptsInv, HomesApart, NEW d \in Audios, AudioOpen(d) PROVE AttemptsInv'
<1> DEFINE l == aimp[d]  p == IF Merges(d) THEN <<Home(d), 1>> ELSE l.dest
           refused == ~Merges(d) /\ ~Alone(d) /\ p \in there
           Renamed == /\ d \in moves /\ Shape(d) = "folder" /\ ~Merges(d)
                      /\ holds' = [holds EXCEPT ![p] = l.todo] /\ payload' = payload \ l.todo
                      /\ UNCHANGED cut
                      /\ aimp' = [aimp EXCEPT ![d].pc = "record", ![d].dest = p]
           Made == /\ UNCHANGED <<payload, holds, cut>>
                   /\ aimp' = [aimp EXCEPT ![d].pc = "place", ![d].dest = p,
                                           ![d].merged = Merges(d)]
<1>1. AudioInv'
  BY AudioOpenStep DEF AttemptsInv
<1>2. /\ l.pc = "open" /\ UNCHANGED <<layout, moves, audioRow, torn, stopped>>
      /\ StepInv(d) /\ (d \notin torn => AttemptInv(d)) /\ ~Working(d)
      /\ audioRow \in [Folders -> AudioBooks \cup {"none"}] /\ DOMAIN astatus = Audios
      /\ holds \in [Folders -> SUBSET (Tracks \cup {"ebook"})]
  BY DEF AudioOpen, Doing, AttemptsInv, Working, RecordTypes, AudioInv, AudioTypes
<1>3. CASE Blocked(d) /\ UNCHANGED <<payload, there, holds, cut>>
  <2>1. TouchesOwn(d)
    BY <1>2, <1>3, BlockedEnds DEF TouchesOwn, Recorded
  <2>2. d \notin torn' => AttemptInv(d)'
    BY <1>2, <1>3, BlockedEnds DEF AttemptInv, Whole, Left, TracksOf
  <2>3. RowsInv'
    BY <1>2, <2>1, RowsKept
  <2>4. ImportedHasRow'
    BY <1>3, <2>1, BlockedEnds, StatusElse
  <2>5. LeftoverInv'
    BY <1>2, <1>3, <2>1, LeftoversSame
  <2>. QED BY <1>1, <1>3, <2>1, <2>2, <2>3, <2>4, <2>5, BlockedEnds, OneStep
<1>4. CASE ~refused /\ there' = there \cup {p} /\ UNCHANGED astatus /\ (Made \/ Renamed)
  <2>1. /\ p \in Folders /\ l.todo = Left(d) /\ ~l.merged /\ ~l.skipped /\ l \in AudioRecords
    BY <1>2, PlainFolder DEF AttemptsInv, AudioInv, AudioTypes, FolderInv
  <2>2. ~Merges(d) => p \notin there /\ holds[p] = {} /\ cut[p] = {}
    <3>1. ~Merges(d) => p \notin there
      BY <1>2, <1>4 DEF AttemptsInv, AudioInv, FolderInv
    <3> QED BY <2>1, <3>1 DEF AttemptsInv, AudioInv, ShelfInv
  <2>3. /\ \A e \in Audios \ {d} : aimp'[e] = aimp[e]
        /\ aimp'[d].todo = l.todo /\ aimp'[d].dest = p /\ aimp'[d].skipped = l.skipped
    BY <1>4, <2>1 DEF AttemptsInv, AudioInv, AudioTypes, AudioRecords, AudioSteps
  <2>4. \/ Made /\ aimp'[d].pc = "place" /\ aimp'[d].merged = Merges(d)
        \/ Renamed /\ aimp'[d].pc = "record" /\ aimp'[d].merged = l.merged
    BY <1>4, <2>1 DEF AttemptsInv, AudioInv, AudioTypes, AudioRecords, AudioSteps
  <2> HIDE DEF refused
  <2>5. /\ \A q \in Folders \ {p} : holds'[q] = holds[q]
        /\ Renamed => holds'[p] = l.todo
        /\ cut' = cut /\ payload' \subseteq payload
        /\ payload \ TracksOf(d) \subseteq payload' /\ l.todo \subseteq TracksOf(d)
    BY <1>4, <2>1 DEF AttemptsInv, AudioInv, AudioTypes, Left
  <2>6. Merges(d) => Shape(d) \in {"folder", "file"}
    BY DEF Merges
  <2> HIDE DEF p
  <2>7. TouchesOwn(d)
    <3>1. \A q \in Folders : holds'[q] \ TracksOf(d) = holds[q] \ TracksOf(d)
      BY <2>1, <2>2, <2>4, <2>5
    <3>. QED BY <1>2, <1>4, <2>3, <2>5, <3>1 DEF TouchesOwn, Recorded
  <2>8. CASE Made /\ aimp'[d].pc = "place" /\ aimp'[d].merged = Merges(d)
    <3>1. StepInv(d)'
      BY <1>2, <2>1, <2>3, <2>6, <2>8 DEF StepInv, Working, Shape
    <3>2. d \notin torn' => AttemptInv(d)'
      <4>1. Left(d)' = Left(d) /\ Whole(d)' = Whole(d) /\ TracksOf(d)' = TracksOf(d)
        BY <2>8 DEF Left, Whole, TracksOf
      <4>2. Whole(d) => TracksOf(d) \ l.todo = {}
        BY <2>1 DEF Whole, Left
      <4>. QED BY <1>2, <2>1, <2>3, <2>8, <4>1, <4>2 DEF AttemptInv
    <3>3. RowsInv'
      BY <1>2, <2>7, RowsKept
    <3>4. ImportedHasRow'
      BY <1>4, <2>7, StatusElse
    <3>5. LeftoverInv'
      <4>0. PICK c \in Folders : c = p
        BY <2>1
      <4>1. ~Leftover(c)'
        BY <2>3, <2>8, <4>0 DEF Leftover, Working
      <4>2. \A q \in Folders \ {c} : holds'[q] = holds[q] /\ (q \in there' <=> q \in there)
        BY <1>4, <2>5, <4>0
      <4>3. aimp'[d].dest = c
        BY <2>3, <4>0
      <4>. QED BY <1>2, <2>7, <4>1, <4>2, <4>3, LeftoversKept
    <3>. QED BY <1>1, <2>7, <3>1, <3>2, <3>3, <3>4, <3>5, OneStep
  <2>9. CASE Renamed /\ aimp'[d].pc = "record" /\ aimp'[d].merged = l.merged
    <3>1. holds'[p] = Left(d) /\ Left(d) # {} /\ Left(d)' = {}
      BY <1>2, <2>1, <2>5, <2>9 DEF StepInv, Left, TracksOf
    <3>2. StepInv(d)'
      BY <2>1, <2>3, <2>9, <3>1 DEF StepInv, Working, Left, TracksOf
    <3>3. d \notin torn' => AttemptInv(d)'
      <4> SUFFICES ASSUME d \notin torn' PROVE AttemptInv(d)'
        OBVIOUS
      <4>1. AttemptInv(d) /\ Whole(d) /\ cut[p] = {} /\ TracksOf(d)' = TracksOf(d)
        BY <1>2, <2>2, <2>9 DEF AttemptInv, TracksOf
      <4>2. TracksOf(d) \subseteq holds'[p] \ cut'[p]
        BY <2>5, <3>1, <4>1 DEF Whole, Left
      <4>3. \A q \in Folders : "ebook" \in holds'[q] => TracksOf(d) \cap cut'[q] = {}
        BY <2>5, <4>1 DEF AttemptInv
      <4>. QED BY <2>3, <2>9, <3>1, <4>1, <4>2, <4>3 DEF AttemptInv
    <3>4. RowsInv'
      BY <1>2, <2>7, RowsKept
    <3>5. ImportedHasRow'
      BY <1>4, <2>7, StatusElse
    <3>6. LeftoverInv'
      <4>0. PICK c \in Folders : c = p
        BY <2>1
      <4>1. ~Leftover(c)'
        BY <2>3, <2>9, <4>0 DEF Leftover, Working
      <4>2. \A q \in Folders \ {c} : holds'[q] = holds[q] /\ (q \in there' <=> q \in there)
        BY <1>4, <2>5, <4>0
      <4>3. aimp'[d].dest = c
        BY <2>3, <4>0
      <4>. QED BY <1>2, <2>7, <4>1, <4>2, <4>3, LeftoversKept
    <3>. QED BY <1>1, <2>7, <3>2, <3>3, <3>4, <3>5, <3>6, OneStep
  <2>. QED BY <2>4, <2>8, <2>9
<1>. QED BY <1>2, <1>3, <1>4 DEF AudioOpen

\* AudioTrack: one more of its tracks is whole in the folder.
LEMMA AttemptsTrack == ASSUME AttemptsInv, NEW d \in Audios, AudioTrack(d) PROVE AttemptsInv'
<1> DEFINE l == aimp[d]  p == l.dest
<1>1. PICK t \in l.todo :
        /\ aimp' = [aimp EXCEPT ![d].todo = @ \ {t}, ![d].skipped = @ \/ (l.merged /\ t \in holds[p])]
        /\ IF l.merged /\ t \in holds[p] THEN UNCHANGED <<payload, holds>>
           ELSE /\ holds' = [holds EXCEPT ![p] = @ \cup {t}]
                /\ payload' = IF d \in moves /\ Alone(d) THEN payload \ {t} ELSE payload
  BY DEF AudioTrack
<1>2. /\ l.pc = "place" /\ UNCHANGED <<layout, moves, there, cut, audioRow, astatus, torn, stopped>>
      /\ StepInv(d) /\ (d \notin torn => AttemptInv(d))
      /\ audioRow \in [Folders -> AudioBooks \cup {"none"}] /\ DOMAIN astatus = Audios
      /\ holds \in [Folders -> SUBSET (Tracks \cup {"ebook"})] /\ l \in AudioRecords
  BY DEF AudioTrack, Doing, AttemptsInv, RecordTypes, AudioInv, AudioTypes
<1>3. /\ p \in Folders /\ t \in Left(d) /\ t \in TracksOf(d) /\ Working(d) /\ l.todo \subseteq Left(d)
      /\ ~l.merged => l.todo \cap holds[p] = {}
  BY <1>2 DEF AttemptsInv, AudioInv, FolderInv, TracksInv, Working, Left
<1>4. /\ aimp'[d].pc = "place" /\ aimp'[d].dest = p /\ aimp'[d].merged = l.merged
      /\ aimp'[d].todo = l.todo \ {t}
      /\ \A e \in Audios \ {d} : aimp'[e] = aimp[e]
  BY <1>1, <1>2 DEF AttemptsInv, AudioInv, AudioTypes, AudioRecords
<1>5. aimp'[d].skipped = (l.skipped \/ (l.merged /\ t \in holds[p]))
  <2>1. aimp'[d] = [l EXCEPT !.todo = @ \ {t}, !.skipped = @ \/ (l.merged /\ t \in holds[p])]
    BY <1>1 DEF AttemptsInv, AudioInv, AudioTypes
  <2>. QED BY <1>2, <2>1, Zenon DEF AudioRecords
<1>6. /\ \A q \in Folders : q # p => holds'[q] = holds[q]
      /\ holds'[p] = holds[p] \cup {t}
      /\ payload' \subseteq payload /\ payload \ {t} \subseteq payload'
      /\ d \in moves /\ Alone(d) /\ ~l.merged => t \notin payload'
      /\ ~(d \in moves /\ Alone(d)) => payload' = payload
  <2>1. CASE l.merged /\ t \in holds[p]
    BY <2>1, <1>1, <1>2
  <2>2. CASE ~(l.merged /\ t \in holds[p])
    BY <2>2, <1>1, <1>2, <1>3
  <2>. QED BY <2>1, <2>2
<1>7. TouchesOwn(d)
  <2>1. \A q \in Folders : holds'[q] \ TracksOf(d) = holds[q] \ TracksOf(d)
    BY <1>3, <1>6
  <2>. QED BY <1>2, <1>3, <1>4, <1>6, <2>1 DEF TouchesOwn, Recorded
<1>8. TracksOf(d)' = TracksOf(d) /\ Alone(d)' = Alone(d) /\ Shape(d)' = Shape(d)
  BY <1>2 DEF TracksOf, Alone, Shape
<1>9. StepInv(d)'
  <2>1. TracksOf(d) \cap holds'[p] # {}
    BY <1>3, <1>6
  <2>2. ~l.merged => ~aimp'[d].skipped
    BY <1>2, <1>5 DEF StepInv
  <2>. QED BY <1>2, <1>3, <1>4, <1>8, <2>1, <2>2 DEF StepInv, Working
<1>10. ASSUME d \notin torn' PROVE AttemptInv(d)'
  <2>1. AttemptInv(d)
    BY <1>2, <1>10
  <2>2. t \notin cut[p]
    <3>1. CASE t \in holds[p]
      <4>1. l.merged /\ "ebook" \in holds[p]
        BY <1>3, <3>1 DEF AttemptsInv, AudioInv, FolderInv
      <4>. QED BY <1>3, <2>1, <4>1 DEF AttemptInv
    <3>2. CASE t \notin holds[p]
      BY <1>3, <3>2 DEF AttemptsInv, AudioInv, ShelfInv
    <3>. QED BY <3>1, <3>2
  <2>3. TracksOf(d) \ (l.todo \ {t}) \subseteq holds'[p] \ cut'[p]
    BY <1>2, <1>6, <2>1, <2>2 DEF AttemptInv
  <2>4. d \in moves /\ Alone(d) => l.merged \/ Left(d)' = l.todo \ {t}
    BY <1>2, <1>3, <1>6, <1>8, <2>1 DEF AttemptInv, Left
  <2>5. ~(d \in moves /\ Alone(d)) => Whole(d)'
    BY <1>2, <1>6, <1>8, <2>1 DEF AttemptInv, Whole
  <2>6. \A q \in Folders : "ebook" \in holds'[q] => TracksOf(d) \cap cut'[q] = {}
    <3>1. "ebook" # t
      BY <1>3, AudioAssumption DEF TracksOf
    <3>2. \A q \in Folders : "ebook" \in holds'[q] => "ebook" \in holds[q]
      BY <1>6, <3>1
    <3>. QED BY <1>2, <2>1, <3>2 DEF AttemptInv
  <2>. QED BY <1>2, <1>4, <1>8, <2>3, <2>4, <2>5, <2>6 DEF AttemptInv
<1>11. RowsInv'
  BY <1>2, <1>7, RowsKept
<1>12. ImportedHasRow'
  BY <1>2, <1>7, StatusElse
<1>13. LeftoverInv'
  <2>1. PICK c \in Folders : c = p
    BY <1>3
  <2>2. ~Leftover(c)'
    BY <1>4, <2>1 DEF Leftover, Working
  <2>. QED BY <1>2, <1>4, <1>6, <1>7, <2>1, <2>2, LeftoversKept
<1>14. AudioInv'
  BY AudioTrackStep DEF AttemptsInv
<1>. QED BY <1>7, <1>9, <1>10, <1>11, <1>12, <1>13, <1>14, OneStep

\* AudioPlaced: everything is placed; what a move has left to clear is all there.
LEMMA AttemptsPlaced == ASSUME AttemptsInv, NEW d \in Audios, AudioPlaced(d) PROVE AttemptsInv'
<1> DEFINE l == aimp[d]  p == l.dest
<1>1. /\ l.pc = "place" /\ l.todo = {}
      /\ UNCHANGED <<layout, moves, payload, there, holds, cut, audioRow, astatus, torn, stopped>>
      /\ StepInv(d) /\ (d \notin torn => AttemptInv(d)) /\ Working(d)
      /\ audioRow \in [Folders -> AudioBooks \cup {"none"}] /\ DOMAIN astatus = Audios
  BY DEF AudioPlaced, Doing, AttemptsInv, RecordTypes, Working
<1>2. /\ aimp'[d].pc = (IF Clears(d) THEN "clear" ELSE "record")
      /\ aimp'[d].dest = p /\ aimp'[d].merged = l.merged
      /\ \A e \in Audios \ {d} : aimp'[e] = aimp[e]
  BY DEF AudioPlaced, Goes, AttemptsInv, AudioInv, AudioTypes, AudioRecords
<1>3. TouchesOwn(d)
  BY <1>1, <1>2 DEF TouchesOwn, Recorded
<1>4. /\ TracksOf(d)' = TracksOf(d) /\ Alone(d)' = Alone(d) /\ Shape(d)' = Shape(d)
      /\ Left(d)' = Left(d) /\ Whole(d)' = Whole(d)
  BY <1>1 DEF TracksOf, Alone, Shape, Left, Whole
<1>5. StepInv(d)'
  BY <1>1, <1>2, <1>4 DEF StepInv, Working, Clears
<1>6. ASSUME d \notin torn' PROVE AttemptInv(d)'
  <2>1. AttemptInv(d)
    BY <1>1, <1>6
  <2>2. TracksOf(d) \subseteq holds[p] \ cut[p]
    BY <1>1, <2>1 DEF AttemptInv
  <2>3. Whole(d) \/ Left(d) = {}
    <3>1. CASE ~(d \in moves /\ Alone(d)) \/ ~l.merged
      BY <1>1, <2>1, <3>1 DEF AttemptInv
    <3>2. CASE Alone(d) /\ l.merged
      <4>1. Shape(d) = "file"
        BY <1>1, <3>2 DEF StepInv, Alone
      <4>2. PICK t : TracksOf(d) = {t}
        <5>1. Cardinality(TracksOf(d)) = 1
          BY <4>1, AudioAssumption DEF AttemptsInv, AudioInv, AudioTypes, Shape
        <5>2. IsFiniteSet(TracksOf(d))
          BY AudioAssumption, FS_Subset DEF TracksOf
        <5>. QED BY <5>1, <5>2, FS_Singleton
      <4>. QED BY <4>2 DEF Whole, Left
    <3>. QED BY <3>1, <3>2
  <2>4. aimp'[d].pc = "record" /\ d \in moves /\ ~l.merged => Left(d) = {}
    <3>1. ~Alone(d) => Left(d) = {} \/ l.merged \/ Clears(d) \/ d \notin moves
      BY <1>1 DEF Clears, StepInv
    <3>2. Alone(d) /\ d \in moves /\ ~l.merged => Left(d) = {}
      BY <1>1, <2>1 DEF AttemptInv
    <3>. QED BY <1>2, <3>1, <3>2
  <2>. QED BY <1>1, <1>2, <1>4, <2>1, <2>2, <2>3, <2>4 DEF AttemptInv
<1>7. RowsInv'
  BY <1>1, <1>3, RowsKept
<1>8. ImportedHasRow'
  BY <1>1, <1>3, StatusElse
<1>9. LeftoverInv'
  BY <1>1, <1>2, <1>3, LeftoversSame DEF Working
<1>10. AudioInv'
  BY AudioPlacedStep DEF AttemptsInv
<1>. QED BY <1>3, <1>5, <1>6, <1>7, <1>8, <1>9, <1>10, OneStep

\* An attempt that ends blocked with its folder changed, by tracks of its own only.
LEMMA AttemptsEnds ==
  ASSUME AttemptsInv, AudioInv', NEW d \in Audios, Working(d), Blocked(d),
         UNCHANGED <<layout, moves, payload, stopped>>,
         \A q \in Folders \ {aimp[d].dest} : /\ holds'[q] = holds[q] /\ cut'[q] = cut[q]
                                             /\ (q \in there' <=> q \in there),
         holds'[aimp[d].dest] \ TracksOf(d) = holds[aimp[d].dest] \ TracksOf(d),
         cut'[aimp[d].dest] \ TracksOf(d) = cut[aimp[d].dest] \ TracksOf(d),
         torn \subseteq torn', torn' \subseteq torn \cup {d},
         d \notin torn' => /\ cut'[aimp[d].dest] \subseteq cut[aimp[d].dest]
                           /\ Whole(d) \/ Left(d) = {},
         audioRow' \in [Folders -> AudioBooks \cup {"none"}], Recorded(d),
         aimp[d].pc # "end",
         \A p \in Folders : stopped = {} /\ p = aimp[d].dest /\ Leftover(p)' => Accounted(p)'
  PROVE  AttemptsInv'
<1> DEFINE p == aimp[d].dest
<1>1. p \in Folders
  BY DEF AttemptsInv, AudioInv, FolderInv, Working
<1>2. /\ aimp'[d].pc = "idle" /\ ~Working(d)' /\ DOMAIN astatus' = Audios /\ StepInv(d)'
      /\ \A e \in Audios \ {d} : aimp'[e] = aimp[e]
      /\ \E s \in {"blocked", "importing", "failed"} : astatus' = [astatus EXCEPT ![d] = s]
  BY BlockedEnds
<1>3. TouchesOwn(d)
  BY <1>1, <1>2 DEF TouchesOwn
<1>4. ASSUME d \notin torn' PROVE AttemptInv(d)'
  <2>1. AttemptInv(d) /\ TracksOf(d)' = TracksOf(d)
    BY <1>4 DEF AttemptsInv, TracksOf
  <2>2. \A q \in Folders : /\ cut'[q] \subseteq cut[q]
                           /\ "ebook" \in holds'[q] => "ebook" \in holds[q]
    BY <1>1, <1>3, <1>4, TracksApart, AudioAssumption DEF TouchesOwn, TracksOf
  <2>3. \A q \in Folders : "ebook" \in holds'[q] => TracksOf(d) \cap cut'[q] = {}
    BY <2>1, <2>2 DEF AttemptInv
  <2>4. Whole(d)' \/ Left(d)' = {}
    BY <1>4, <2>1 DEF Whole, Left
  <2>. QED BY <1>2, <2>1, <2>3, <2>4 DEF AttemptInv
<1>5. RowsInv'
  BY <1>2, <1>3, RowsKept DEF Working
<1>6. ImportedHasRow'
  BY <1>2, <1>3, StatusElse
<1>7. LeftoverInv'
  <2>1. PICK c \in Folders : c = p
    BY <1>1
  <2>2. stopped = {} /\ Leftover(c)' => Accounted(c)'
    BY <2>1
  <2>3. \A q \in Folders \ {c} : holds'[q] = holds[q] /\ (q \in there' <=> q \in there)
    BY <2>1
  <2>. QED BY <1>2, <1>3, <2>1, <2>2, <2>3, LeftoversKept
<1>. QED BY <1>2, <1>3, <1>4, <1>5, <1>6, <1>7, OneStep

\* In an import's own folder that a failed attempt leaves, every track is one of its own.
LEMMA OwnAccounted ==
  ASSUME AttemptsInv, NEW d \in Audios, Working(d), NEW p \in Folders, p = aimp[d].dest,
         holds'[p] # {}, d \in torn' \/ (Left(d) = {} /\ payload' = payload),
         holds'[p] \subseteq holds[p] \cup TracksOf(d), "ebook" \in holds[p] => "ebook" \in holds'[p],
         Leftover(p)'
  PROVE  Accounted(p)'
<1>1. ~aimp[d].merged
  BY DEF Leftover, AttemptsInv, AudioInv, FolderInv
<1>2. holds'[p] \subseteq TracksOf(d)
  BY <1>1 DEF AttemptsInv, AudioInv, FolderInv
<1>. QED BY <1>2 DEF Accounted, TracksOf, Left

\* AudioTrackFails: what is not taken back is of an attempt that ended half done.
LEMMA AttemptsTrackFails == ASSUME AttemptsInv, NEW d \in Audios, AudioTrackFails(d) PROVE AttemptsInv'
<1> DEFINE l == aimp[d]  p == l.dest  placed == TracksOf(d) \cap holds[p]
<1>1. /\ l.pc = "place" /\ Blocked(d)
      /\ UNCHANGED <<layout, moves, payload, audioRow, stopped>>
      /\ StepInv(d) /\ (d \notin torn => AttemptInv(d)) /\ Working(d)
      /\ audioRow' \in [Folders -> AudioBooks \cup {"none"}] /\ Recorded(d)
      /\ holds \in [Folders -> SUBSET (Tracks \cup {"ebook"})] /\ cut \in [Folders -> SUBSET Tracks]
  BY DEF AudioTrackFails, Doing, AttemptsInv, RecordTypes, Working, Recorded, AudioInv, AudioTypes
<1>2. /\ p \in Folders /\ p \in there /\ l.todo \subseteq Left(d) /\ cut[p] \subseteq holds[p]
      /\ l.merged => "ebook" \in holds[p]
      /\ ~l.merged => holds[p] \subseteq TracksOf(d)
      /\ "ebook" \notin TracksOf(d)
  BY <1>1, AudioAssumption DEF AttemptsInv, AudioInv, FolderInv, TracksInv, ShelfInv, Working, TracksOf
<1>3. AudioInv'
  BY AudioTrackFailsStep DEF AttemptsInv
<1>4. PICK t \in l.todo :
         \/ /\ l.merged /\ ~Alone(d) /\ t \notin holds[p]
            /\ \/ /\ holds' = [holds EXCEPT ![p] = @ \cup {t}]
                  /\ cut' = [cut EXCEPT ![p] = @ \cup {t}]
               \/ UNCHANGED <<holds, cut>>
            /\ torn' = torn \cup {d} /\ UNCHANGED there
         \/ /\ ~l.merged /\ ~Alone(d) /\ RemoveAll(p) /\ UNCHANGED torn
         \/ /\ Alone(d) /\ t \notin holds[p] /\ (d \notin moves \/ placed = {})
            /\ RollBack(p, placed) /\ UNCHANGED torn
         \/ /\ Alone(d) /\ t \notin holds[p] /\ d \in moves /\ placed # {}
            /\ torn' = torn \cup {d} /\ UNCHANGED <<there, holds, cut>>
         \/ /\ Alone(d) /\ t \notin holds[p] /\ d \in moves
            /\ holds' = [holds EXCEPT ![p] = @ \cup {t}]
            /\ torn' = torn \cup {d} /\ UNCHANGED <<there, cut>>
  BY DEF AudioTrackFails
<1>5. t \in TracksOf(d)
  BY <1>2 DEF Left
<1>6. CASE torn' = torn \cup {d} /\ UNCHANGED <<there, holds, cut>> /\ (l.merged \/ placed # {})
  <2>1. ASSUME NEW c \in Folders, c = p, Leftover(c)' PROVE Accounted(c)'
    <3>1. holds'[c] # {}
      BY <1>2, <1>6, <2>1
    <3>. QED BY <1>1, <1>6, <2>1, <3>1, OwnAccounted
  <2>. QED BY <1>1, <1>3, <1>6, <2>1, AttemptsEnds
<1>7. CASE /\ torn' = torn \cup {d} /\ holds' = [holds EXCEPT ![p] = @ \cup {t}] /\ UNCHANGED there
           /\ cut' = cut \/ cut' = [cut EXCEPT ![p] = @ \cup {t}]
  <2>1. /\ \A q \in Folders \ {p} : holds'[q] = holds[q] /\ cut'[q] = cut[q]
        /\ holds'[p] = holds[p] \cup {t}
        /\ cut'[p] \ TracksOf(d) = cut[p] \ TracksOf(d)
    BY <1>1, <1>2, <1>5, <1>7
  <2>2. ASSUME NEW c \in Folders, c = p, Leftover(c)' PROVE Accounted(c)'
    BY <1>1, <1>5, <1>7, <2>1, <2>2, OwnAccounted
  <2>. QED BY <1>1, <1>3, <1>5, <1>7, <2>1, <2>2, AttemptsEnds
<1>8. CASE ~l.merged /\ ~Alone(d) /\ RemoveAll(p) /\ UNCHANGED torn
  <2>1. /\ \A q \in Folders \ {p} : holds'[q] = holds[q] /\ cut'[q] = cut[q]
        /\ holds'[p] = {} /\ cut'[p] = {} /\ there' = there \ {p}
    BY <1>1, <1>2, <1>8 DEF RemoveAll
  <2>2. ASSUME NEW c \in Folders, c = p, Leftover(c)' PROVE Accounted(c)'
    BY <2>1, <2>2 DEF Leftover
  <2>3. d \notin torn' => Whole(d)
    BY <1>1, <1>8 DEF AttemptInv
  <2>4. /\ holds'[p] \ TracksOf(d) = holds[p] \ TracksOf(d)
        /\ cut'[p] \ TracksOf(d) = cut[p] \ TracksOf(d)
    BY <1>2, <1>8, <2>1
  <2>. QED BY <1>1, <1>3, <1>8, <2>1, <2>2, <2>3, <2>4, AttemptsEnds
<1>9. CASE /\ Alone(d) /\ (d \notin moves \/ placed = {})
           /\ RollBack(p, placed) /\ UNCHANGED torn
  <2>1. /\ \A q \in Folders \ {p} : holds'[q] = holds[q] /\ cut'[q] = cut[q]
        /\ holds'[p] = holds[p] \ placed /\ cut'[p] = cut[p] \ placed
        /\ there' = IF holds[p] \subseteq placed THEN there \ {p} ELSE there
    BY <1>1, <1>2, <1>9 DEF RollBack
  <2>2. ASSUME NEW c \in Folders, c = p, Leftover(c)' PROVE Accounted(c)'
    <3>1. CASE l.merged
      BY <1>2, <2>1, <2>2, <3>1 DEF Leftover
    <3>2. CASE ~l.merged
      BY <1>2, <2>1, <2>2, <3>2 DEF Leftover
    <3>. QED BY <3>1, <3>2
  <2>3. d \notin torn' => Whole(d) \/ Left(d) = {}
    <3> SUFFICES ASSUME d \notin torn' PROVE Whole(d) \/ Left(d) = {}
      OBVIOUS
    <3>1. AttemptInv(d)
      BY <1>1, <1>9
    <3>2. CASE d \notin moves
      BY <1>1, <3>1, <3>2 DEF AttemptInv
    <3>3. CASE d \in moves /\ placed = {}
      <4>1. TracksOf(d) \subseteq l.todo
        BY <1>1, <3>1, <3>3 DEF AttemptInv
      <4>. QED BY <1>2, <4>1 DEF Whole, Left
    <3>. QED BY <1>9, <3>2, <3>3
  <2>. QED BY <1>1, <1>3, <1>9, <2>1, <2>2, <2>3, AttemptsEnds
<1>. QED BY <1>4, <1>6, <1>7, <1>8, <1>9

\* AudioEnd: imported, with a row.
LEMMA AttemptsEnd == ASSUME AttemptsInv, NEW d \in Audios, AudioEnd(d) PROVE AttemptsInv'
<1>1. /\ aimp[d].pc = "end" /\ aimp'[d] = IdleAudio /\ aimp'[d].pc = "idle"
      /\ UNCHANGED <<layout, moves, payload, there, holds, cut, audioRow, torn, stopped>>
      /\ \A e \in Audios \ {d} : aimp'[e] = aimp[e]
      /\ astatus' = [astatus EXCEPT ![d] = "imported"] /\ DOMAIN astatus = Audios
      /\ audioRow \in [Folders -> AudioBooks \cup {"none"}]
      /\ StepInv(d) /\ (d \notin torn => AttemptInv(d))
  BY DEF AudioEnd, Doing, AttemptsInv, AudioInv, AudioTypes, IdleAudio, RecordTypes
<1>2. aimp[d].dest \in Folders /\ audioRow[aimp[d].dest] = AudioBook[d]
  BY <1>1 DEF StepInv, AttemptsInv, AudioInv, FolderInv
<1>3. TouchesOwn(d)
  BY <1>1 DEF TouchesOwn, Recorded
<1>4. StepInv(d)' /\ (d \notin torn' => AttemptInv(d)')
  BY <1>1 DEF StepInv, AttemptInv, Whole, Left, TracksOf, Working
<1>5. RowsInv'
  BY <1>1, <1>3, RowsKept
<1>6. ImportedHasRow'
  BY <1>1, <1>2, <1>3, ImportedKeepsRow
<1>7. LeftoverInv'
  <2>1. PICK c \in Folders : c = aimp[d].dest
    BY <1>2
  <2>2. ~Leftover(c)'
    <3>1. AudioBook[d] # "none"
      BY AudioAssumption DEF AudioBooks
    <3>. QED BY <1>1, <1>2, <2>1, <3>1 DEF Leftover
  <2>3. ~Working(d)'
    BY <1>1 DEF Working
  <2>. QED BY <1>1, <1>3, <2>1, <2>2, <2>3, LeftoversKept
<1>8. AudioInv'
  BY AudioEndStep DEF AttemptsInv
<1>. QED BY <1>3, <1>4, <1>5, <1>6, <1>7, <1>8, OneStep

\* AudioClear: the sources go one by one; a failure leaves the attempt half done.
LEMMA AttemptsClear == ASSUME AttemptsInv, NEW d \in Audios, AudioClear(d) PROVE AttemptsInv'
<1> DEFINE l == aimp[d]  p == l.dest
<1>1. /\ l.pc = "clear" /\ UNCHANGED <<layout, moves, there, holds, cut, audioRow, stopped>>
      /\ StepInv(d) /\ (d \notin torn => AttemptInv(d)) /\ Working(d)
      /\ audioRow \in [Folders -> AudioBooks \cup {"none"}] /\ DOMAIN astatus = Audios
      /\ p \in Folders /\ Recorded(d) /\ l \in AudioRecords
  BY DEF AudioClear, Doing, AttemptsInv, RecordTypes, Working, Recorded, AudioInv, FolderInv, AudioTypes
<1>2. AudioInv'
  BY AudioClearStep DEF AttemptsInv
<1>3. /\ TracksOf(d)' = TracksOf(d) /\ Alone(d)' = Alone(d) /\ Shape(d)' = Shape(d)
  BY <1>1 DEF TracksOf, Alone, Shape
<1>4. CASE /\ Shape(d) = "folder" /\ Blocked(d) /\ UNCHANGED payload /\ torn' = torn \cup {d}
  <2>1. ASSUME NEW c \in Folders, c = p, Leftover(c)' PROVE Accounted(c)'
    <3>1. holds'[c] # {} /\ d \in torn'
      BY <1>1, <1>4, <2>1 DEF StepInv
    <3>. QED BY <1>1, <2>1, <3>1, OwnAccounted
  <2>. QED BY <1>1, <1>2, <1>4, <2>1, AttemptsEnds
<1>5. ASSUME NEW s \in {"clear", "record"}, Goes(d, s), UNCHANGED astatus,
             payload' \subseteq payload, payload \ TracksOf(d) \subseteq payload',
             s = "clear" => Left(d)' # {},
             \/ torn' = torn \cup {d}
             \/ torn' = torn /\ (s = "record" => Left(d)' = {})
      PROVE  AttemptsInv'
  <2>1. /\ aimp'[d].pc = s /\ aimp'[d].dest = p /\ aimp'[d].merged = l.merged
        /\ \A e \in Audios \ {d} : aimp'[e] = aimp[e]
    BY <1>1, <1>5 DEF Goes, AttemptsInv, AudioInv, AudioTypes, AudioRecords
  <2>2. TouchesOwn(d)
    BY <1>1, <1>5, <2>1 DEF TouchesOwn
  <2>3. StepInv(d)'
    BY <1>1, <1>3, <1>5, <2>1 DEF StepInv, Working
  <2>4. ASSUME d \notin torn' PROVE AttemptInv(d)'
    <3>1. AttemptInv(d) /\ (s = "record" => Left(d)' = {})
      BY <1>1, <1>5, <2>4
    <3>. QED BY <1>1, <1>3, <2>1, <3>1 DEF AttemptInv
  <2>5. RowsInv'
    BY <1>1, <1>5, <2>1, <2>2, RowsKept
  <2>6. ImportedHasRow'
    BY <1>5, <2>2, StatusElse
  <2>7. LeftoverInv'
    BY <1>1, <1>5, <2>1, <2>2, LeftoversSame DEF Working
  <2>. QED BY <1>2, <2>2, <2>3, <2>4, <2>5, <2>6, <2>7, OneStep
<1>6. CASE /\ Break /\ UNCHANGED payload /\ torn' = torn \cup {d}
           /\ Goes(d, "record") /\ UNCHANGED astatus
  BY <1>5, <1>6
<1>7. CASE /\ \E t \in Left(d) : payload' = payload \ {t}
           /\ Goes(d, IF Cardinality(Left(d)) = 1 THEN "record" ELSE "clear")
           /\ UNCHANGED <<astatus, torn>>
  <2>1. PICK t \in Left(d) : payload' = payload \ {t}
    BY <1>7
  <2>2. Left(d)' = Left(d) \ {t} /\ t \in TracksOf(d) /\ IsFiniteSet(Left(d))
    BY <1>3, <2>1, AudioAssumption, FS_Subset DEF Left, TracksOf
  <2>3. Cardinality(Left(d)) = 1 <=> Left(d)' = {}
    <3>1. Cardinality(Left(d)) = 1 <=> \E u : Left(d) = {u}
      BY <2>2, FS_Singleton
    <3>2. (\E u : Left(d) = {u}) <=> Left(d) \ {t} = {}
      OBVIOUS
    <3>. QED BY <2>2, <3>1, <3>2
  <2>4. PICK s \in {"clear", "record"} :
           s = (IF Cardinality(Left(d)) = 1 THEN "record" ELSE "clear")
    OBVIOUS
  <2>. QED BY <1>5, <1>7, <2>1, <2>2, <2>3, <2>4
<1>. QED BY <1>4, <1>6, <1>7 DEF AudioClear

\* AudioRecord: the row of a whole folder, or a folder taken back, or one that is missed.
LEMMA AttemptsRecord == ASSUME AttemptsInv, NEW d \in Audios, AudioRecord(d) PROVE AttemptsInv'
<1> DEFINE l == aimp[d]  p == l.dest  b == AudioBook[d]  owned == audioRow[p] \notin {"none", b}
<1>1. /\ l.pc = "record" /\ UNCHANGED <<layout, moves, payload, stopped>>
      /\ StepInv(d) /\ (d \notin torn => AttemptInv(d)) /\ Working(d)
      /\ audioRow \in [Folders -> AudioBooks \cup {"none"}] /\ DOMAIN astatus = Audios
      /\ holds \in [Folders -> SUBSET (Tracks \cup {"ebook"})] /\ cut \in [Folders -> SUBSET Tracks]
      /\ l \in AudioRecords /\ b \in AudioBooks /\ b # "none"
  BY AudioAssumption
     DEF AudioRecord, Doing, AttemptsInv, RecordTypes, Working, AudioInv, AudioTypes, AudioBooks
<1>2. /\ p \in Folders /\ p \in there /\ cut[p] \subseteq holds[p]
      /\ l.merged => "ebook" \in holds[p]
      /\ ~l.merged => holds[p] \subseteq TracksOf(d)
      /\ "ebook" \notin TracksOf(d) /\ TracksOf(d) \cap holds[p] # {}
  BY <1>1, AudioAssumption DEF AttemptsInv, AudioInv, FolderInv, ShelfInv, Working, TracksOf, StepInv
<1>3. AudioInv'
  BY AudioRecordStep DEF AttemptsInv
<1>4. /\ TracksOf(d)' = TracksOf(d) /\ Alone(d)' = Alone(d) /\ Shape(d)' = Shape(d)
      /\ Left(d)' = Left(d) /\ Whole(d)' = Whole(d)
  BY <1>1 DEF TracksOf, Alone, Shape, Left, Whole
<1>5. CASE /\ ~owned /\ audioRow' = [audioRow EXCEPT ![p] = b] /\ Goes(d, "end")
           /\ UNCHANGED <<there, holds, cut, astatus, torn>>
  <2>1. /\ aimp'[d].pc = "end" /\ aimp'[d].dest = p /\ aimp'[d].merged = l.merged
        /\ \A e \in Audios \ {d} : aimp'[e] = aimp[e]
    BY <1>1, <1>5 DEF Goes, AttemptsInv, AudioInv, AudioTypes, AudioRecords
  <2>2. /\ audioRow'[p] = b /\ audioRow' \in [Folders -> AudioBooks \cup {"none"}]
        /\ \A q \in Folders \ {p} : audioRow'[q] = audioRow[q]
    BY <1>1, <1>2, <1>5
  <2>3. Recorded(d)
    BY <1>1, <1>5, <2>1, <2>2 DEF Recorded
  <2>4. TouchesOwn(d)
    BY <1>1, <1>5, <2>1, <2>2, <2>3 DEF TouchesOwn
  <2>5. StepInv(d)'
    BY <1>1, <1>4, <1>5, <2>1, <2>2 DEF StepInv, Working
  <2>6. d \notin torn' => AttemptInv(d)'
    BY <1>1, <1>4, <1>5, <2>1 DEF AttemptInv
  <2>7. RowsInv'
    BY <1>1, <1>5, <2>4, RowsKept
  <2>8. ImportedHasRow'
    BY <1>5, <2>4, StatusElse
  <2>9. LeftoverInv'
    BY <1>1, <1>5, <2>1, <2>4, LeftoversSame DEF Working
  <2>. QED BY <1>3, <2>4, <2>5, <2>6, <2>7, <2>8, <2>9, OneStep
<1>6. CASE /\ \/ UNCHANGED <<audioRow, torn>>
              \/ ~owned /\ audioRow' = [audioRow EXCEPT ![p] = b] /\ torn' = torn \cup {d}
           /\ Blocked(d)
           /\ IF TakesBack(d) THEN RemoveAll(p) ELSE UNCHANGED <<there, holds, cut>>
  <2>1. /\ \A q \in Folders \ {p} : audioRow'[q] = audioRow[q]
        /\ audioRow'[p] = audioRow[p] \/ (audioRow'[p] = b /\ d \in torn')
        /\ audioRow' \in [Folders -> AudioBooks \cup {"none"}]
        /\ audioRow'[p] # audioRow[p] => audioRow[p] = "none"
        /\ torn \subseteq torn' /\ torn' \subseteq torn \cup {d}
    BY <1>1, <1>2, <1>6
  <2>2. Recorded(d)
    <3>1. ASSUME NEW q \in Folders, audioRow'[q] # audioRow[q]
          PROVE  q = p /\ audioRow[q] = "none" /\ audioRow'[q] = b /\ d \in torn'
      <4>1. q = p
        BY <2>1, <3>1
      <4>. QED BY <2>1, <3>1, <4>1
    <3>2. aimp[d].pc = "record"
      BY <1>1
    <3>. QED BY <3>1, <3>2, Zenon DEF Recorded
  <2>3. CASE TakesBack(d)
    <3>1. /\ \A q \in Folders \ {p} : holds'[q] = holds[q] /\ cut'[q] = cut[q]
          /\ holds'[p] = {} /\ cut'[p] = {} /\ there' = there \ {p} /\ ~l.merged
      BY <1>1, <1>2, <1>6, <2>3 DEF RemoveAll, TakesBack
    <3>2. ASSUME NEW c \in Folders, c = p, Leftover(c)' PROVE Accounted(c)'
      BY <3>1, <3>2 DEF Leftover
    <3>3. d \notin torn' => Whole(d) \/ Left(d) = {}
      BY <1>1, <2>1 DEF AttemptInv
    <3>4. /\ holds'[p] \ TracksOf(d) = holds[p] \ TracksOf(d)
          /\ cut'[p] \ TracksOf(d) = cut[p] \ TracksOf(d)
      BY <1>2, <3>1
    <3>. QED BY <1>1, <1>3, <1>6, <2>1, <2>2, <3>1, <3>2, <3>3, <3>4, AttemptsEnds
  <2>4. CASE ~TakesBack(d)
    <3>1. UNCHANGED <<there, holds, cut>>
      BY <1>6, <2>4
    <3>2. ASSUME NEW c \in Folders, c = p, Leftover(c)' PROVE Accounted(c)'
      <4>1. holds'[c] # {}
        BY <1>2, <3>1, <3>2
      <4>2. ~l.merged
        BY <1>2, <3>1, <3>2 DEF Leftover
      <4>3. d \in torn' \/ (Left(d) = {} /\ payload' = payload)
        BY <1>1, <2>1, <2>4, <4>2 DEF TakesBack, AttemptInv
      <4>. QED BY <1>1, <3>1, <3>2, <4>1, <4>3, OwnAccounted
    <3>3. d \notin torn' => Whole(d) \/ Left(d) = {}
      BY <1>1, <2>1 DEF AttemptInv
    <3>. QED BY <1>1, <1>3, <1>6, <2>1, <2>2, <3>1, <3>2, <3>3, AttemptsEnds
  <2>. QED BY <2>3, <2>4
<1>. QED BY <1>5, <1>6 DEF AudioRecord

\* AudioCrash: whose tracks were half moved is torn, whose folder was made is stopped.
LEMMA AttemptsCrash == ASSUME AttemptsInv, AudioCrash PROVE AttemptsInv'
<1>1. PICK now \in SUBSET {t \in Tracks : /\ Doing(AudioOf[t], "place")
                                        /\ t \in aimp[AudioOf[t]].todo
                                        /\ t \notin holds[aimp[AudioOf[t]].dest]} :
        /\ holds' = [p \in Folders |-> holds[p] \cup {t \in now : aimp[AudioOf[t]].dest = p}]
        /\ cut'   = [p \in Folders |-> cut[p] \cup {t \in now : aimp[AudioOf[t]].dest = p}]
  BY DEF AudioCrash
<1>2. /\ aimp' = [d \in Audios |-> IdleAudio] /\ UNCHANGED <<layout, moves, payload, there, audioRow>>
      /\ torn' = torn \cup {d \in Audios : \/ Doing(d, "clear")
                                           \/ /\ Doing(d, "place")
                                              /\ aimp[d].merged \/ (Alone(d) /\ d \in moves)}
      /\ stopped' = stopped \cup {d \in Audios : Working(d)}
      /\ astatus' = [d \in Audios |-> IF astatus[d] = "importing" THEN "failed" ELSE astatus[d]]
  BY DEF AudioCrash, Working
<1>3. AudioInv'
  BY AudioCrashStep DEF AttemptsInv
<1>4. RecordTypes' /\ ImportedHasRow' /\ torn \subseteq torn'
  BY <1>2 DEF AttemptsInv, RecordTypes, ImportedHasRow
<1>5. \A d \in Audios : aimp'[d].pc = "idle" /\ ~Working(d)' /\ TracksOf(d)' = TracksOf(d)
  BY <1>2 DEF IdleAudio, Working, TracksOf
<1>6. ASSUME NEW d \in Audios, aimp[d].pc # "place", NEW q \in Folders
      PROVE  TracksOf(d) \cap holds'[q] = TracksOf(d) \cap holds[q]
             /\ TracksOf(d) \cap cut'[q] = TracksOf(d) \cap cut[q]
  BY <1>1, <1>6 DEF Doing, TracksOf
<1>7. ASSUME NEW d \in Audios PROVE StepInv(d)'
  BY <1>5 DEF StepInv
<1>8. ASSUME NEW d \in Audios, d \notin torn' PROVE AttemptInv(d)'
  <2>1. AttemptInv(d)
    BY <1>4, <1>8 DEF AttemptsInv
  <2>2. aimp[d].pc # "clear" /\ (aimp[d].pc = "place" =>
          ~aimp[d].merged /\ ~(d \in moves /\ Alone(d)))
    BY <1>2, <1>8 DEF Doing
  <2>3. aimp[d].pc \in AudioSteps
    BY DEF AttemptsInv, AudioInv, AudioTypes, AudioRecords
  <2>4. Whole(d) \/ Left(d) = {}
    BY <2>1, <2>2, <2>3 DEF AttemptInv, AudioSteps
  <2>5. Whole(d)' \/ Left(d)' = {}
    BY <1>2, <1>5, <2>4 DEF Whole, Left
  <2>6. ASSUME NEW q \in Folders, "ebook" \in holds'[q] PROVE TracksOf(d) \cap cut'[q] = {}
    <3>1. "ebook" \in holds[q] /\ "ebook" \notin TracksOf(d)
      BY <1>1, <2>6, AudioAssumption DEF TracksOf
    <3>2. TracksOf(d) \cap cut[q] = {}
      BY <2>1, <3>1 DEF AttemptInv
    <3>3. aimp[d].pc = "place" => aimp[d].dest # q
      BY <2>2, <3>1 DEF AttemptsInv, AudioInv, FolderInv, Working
    <3>. QED BY <1>1, <3>2, <3>3 DEF Doing, TracksOf
  <2>. QED BY <1>5, <2>5, <2>6 DEF AttemptInv
<1>9. RowsInv'
  <2> SUFFICES ASSUME NEW p \in Folders, audioRow[p] # "none", OfBook(audioRow[p]) \cap torn = {}
               PROVE  \E d \in OfBook(audioRow[p]) : Settled(d, p)'
    BY <1>2, <1>4 DEF RowsInv, OfBook
  <2>1. PICK d \in OfBook(audioRow[p]) : Settled(d, p)
    BY DEF AttemptsInv, RowsInv
  <2>2. d \in Audios /\ aimp[d].pc # "place"
    BY <2>1 DEF OfBook, Settled
  <2>3. TracksOf(d) \subseteq holds'[p] \ cut'[p]
    BY <1>6, <2>1, <2>2 DEF Settled
  <2>. QED BY <1>5, <2>1, <2>2, <2>3 DEF Settled
<1>10. LeftoverInv'
  <2> SUFFICES ASSUME stopped' = {}, NEW p \in Folders, Leftover(p)' PROVE Accounted(p)'
    BY DEF LeftoverInv
  <2>1. stopped = {} /\ \A d \in Audios : ~Working(d)
    BY <1>2
  <2>2. now = {}
    BY <1>1, <2>1, AudioAssumption DEF Working, Doing
  <2>3. holds'[p] = holds[p]
    BY <1>1, <2>2
  <2>4. Leftover(p)
    BY <1>2, <2>1, <2>3 DEF Leftover
  <2>5. Accounted(p)
    BY <2>1, <2>4 DEF AttemptsInv, LeftoverInv
  <2>. QED BY <1>2, <1>4, <2>3, <2>5 DEF Accounted
<1>. QED BY <1>3, <1>4, <1>7, <1>8, <1>9, <1>10 DEF AttemptsInv

\* Every step.
LEMMA AttemptsStep == ASSUME AttemptsInv, HomesApart, [AudioNext]_audioVars PROVE AttemptsInv'
<1>1. CASE UNCHANGED audioVars
  <2>1. AudioInv'
    BY <1>1, AudioStep DEF AttemptsInv
  <2>2. UNCHANGED <<layout, moves, payload, there, holds, cut, audioRow, aimp, astatus, torn, stopped>>
    BY <1>1 DEF audioVars
  <2>3. RecordTypes' /\ RowsInv' /\ ImportedHasRow' /\ LeftoverInv'
    BY <2>2 DEF AttemptsInv, RecordTypes, RowsInv, ImportedHasRow, LeftoverInv, OfBook, Settled,
                TracksOf, Leftover, Accounted, Working
  <2>4. ASSUME NEW d \in Audios PROVE StepInv(d)' /\ (d \notin torn' => AttemptInv(d)')
    <3>1. StepInv(d) /\ (d \notin torn => AttemptInv(d))
      BY DEF AttemptsInv
    <3>. QED BY <2>2, <3>1 DEF StepInv, AttemptInv, TracksOf, Left, Whole, Alone, Shape, Working
  <2>. QED BY <2>1, <2>3, <2>4 DEF AttemptsInv
<1>2. CASE AudioCrash
  BY <1>2, AttemptsCrash
<1>3. ASSUME NEW d \in Audios,
             \/ AudioBegin(d) \/ AudioOpen(d) \/ AudioTrack(d) \/ AudioTrackFails(d)
             \/ AudioPlaced(d) \/ AudioClear(d) \/ AudioRecord(d) \/ AudioEnd(d)
      PROVE  AttemptsInv'
  BY <1>3, AttemptsBegin, AttemptsOpen, AttemptsTrack, AttemptsTrackFails, AttemptsPlaced,
     AttemptsClear, AttemptsRecord, AttemptsEnd
<1>. QED BY <1>1, <1>2, <1>3 DEF AudioNext

\* The audiobook branch of tryImportInternal, over any number of failing steps, retries and
\* stops: what an attempt has done so far is known, unless one ended half done.
THEOREM AttemptsInvariant == HomesApart /\ AudioSpec => []AttemptsInv
<1>1. CASE HomesApart
  <2>1. AttemptsInv /\ [AudioNext]_audioVars => AttemptsInv'
    BY <1>1, AttemptsStep
  <2>. QED BY <2>1, AttemptsInit, PTL DEF AudioSpec
<1>2. CASE ~HomesApart
  BY <1>2
<1>. QED BY <1>1, <1>2

\* An imported audiobook has all tracks of one of its book's downloads, whole, in a folder
\* recorded for it, unless an attempt at one of them ended half done.
THEOREM ImportedAlwaysWhole == HomesApart /\ AudioSpec => []ImportedIsWhole
<1>1. AttemptsInv => ImportedIsWhole
  <2> SUFFICES ASSUME AttemptsInv, NEW d \in Audios, astatus[d] = "imported",
                      OfBook(AudioBook[d]) \cap torn = {}
               PROVE  \E p \in there, e \in OfBook(AudioBook[d]) :
                        /\ audioRow[p] = AudioBook[d] /\ TracksOf(e) # {}
                        /\ TracksOf(e) \subseteq holds[p] \ cut[p]
    BY DEF ImportedIsWhole, OfBook
  <2>1. PICK p \in Folders : audioRow[p] = AudioBook[d]
    BY DEF AttemptsInv, ImportedHasRow
  <2>2. AudioBook[d] # "none"
    BY AudioAssumption DEF AudioBooks
  <2>3. PICK e \in OfBook(AudioBook[d]) : Settled(e, p)
    BY <2>1, <2>2 DEF AttemptsInv, RowsInv
  <2>4. p \in there
    BY <2>3 DEF AttemptsInv, AudioInv, ShelfInv, Settled
  <2>. QED BY <2>1, <2>3, <2>4 DEF Settled
<1>. QED BY <1>1, AttemptsInvariant, PTL

\* While the process runs no failed attempt leaves a folder for the next to build another
\* beside, but what its download has lost or a half-done attempt left.
THEOREM NothingAlwaysLeftOver == HomesApart /\ AudioSpec => []NothingLeftOver
<1>1. AttemptsInv => NothingLeftOver
  <2> SUFFICES ASSUME AttemptsInv, NEW p \in there, \A d \in Audios : aimp[d].dest # p,
                      stopped = {}, audioRow[p] = "none", "ebook" \notin holds[p]
               PROVE  Accounted(p)
    BY DEF NothingLeftOver, Accounted
  <2>1. p \in Folders /\ Leftover(p)
    BY DEF AttemptsInv, AudioInv, AudioTypes, Leftover
  <2>. QED BY <2>1 DEF AttemptsInv, LeftoverInv
<1>. QED BY <1>1, AttemptsInvariant, PTL
==============================================================================
