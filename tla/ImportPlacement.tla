--------------------------- MODULE ImportPlacement ---------------------------
(***************************************************************************)
(* Placing the ebook files of finished downloads in the library.  Each     *)
(* file is staged beside its destination, recorded in book_files, and only *)
(* then renamed into place, so that what another book tracks, and what     *)
(* nobody tracks, is never written over, and the payload of a move is put  *)
(* back when a step fails.  Imports of different downloads may run beside  *)
(* each other; the process may stop between any two steps.                 *)
(***************************************************************************)
EXTENDS FiniteSets, Naturals

CONSTANTS
  Imports,       \* downloads
  BookFiles,     \* the files of all of them
  DlOf,          \* the download a file belongs to
  BookOf,        \* the book a download was grabbed for
  StemOf,        \* the destination a file's name renders to
  MaxSuffix,     \* bound: the suffixes uniqueEbookDestination tries
  MaxFailures     \* bound: failing calls and crashes

Books == {BookOf[d] : d \in Imports}
Stems == {StemOf[f] : f \in BookFiles}
Dests == Stems \X (1..MaxSuffix)

ASSUME PlacementAssumption ==
  /\ DlOf \in [BookFiles -> Imports]
  /\ MaxSuffix \in Nat \ {0} /\ MaxFailures \in Nat
  /\ {"none", "stray"} \cap BookFiles = {} /\ "none" \notin Books

VARIABLES
  placing,     \* how a file leaves the download: "keep", "rename" or "copy"
  source,      \* files at the download's path
  staged,      \* files under their staging name
  shelf,       \* what is at each destination
  bookFiles,   \* the book_files row of each destination
  ilock,       \* what each import is doing
  istatus,     \* the download's status
  lost,        \* ghost: files whose way back failed too
  failures

placeVars == <<placing, source, staged, shelf, bookFiles, ilock, istatus, lost, failures>>

Steps == {"idle", "next", "stage", "record", "commit", "unrecord"}
NoDest == <<"none", 0>>
IdleImport == [pc |-> "idle", file |-> "none", dest |-> NoDest,
               todo |-> {}, landed |-> {}, moved |-> {}, refused |-> {}, owned |-> {}]

PlaceTypeOK ==
  /\ placing \in {"keep", "rename", "copy"}
  /\ source \subseteq BookFiles /\ staged \subseteq BookFiles /\ lost \subseteq BookFiles
  /\ shelf \in [Dests -> BookFiles \cup {"none", "stray"}]
  /\ bookFiles \in [Dests -> Books \cup {"none"}]
  /\ istatus \in [Imports -> {"completed", "importing", "failed", "blocked", "imported"}]
  /\ ilock \in [Imports -> [pc : Steps, file : BookFiles \cup {"none"},
                           dest : Dests \cup {NoDest},
                           todo : SUBSET BookFiles, landed : SUBSET BookFiles,
                           moved : SUBSET BookFiles, refused : SUBSET BookFiles,
                           owned : SUBSET BookFiles]]
  /\ failures \in Nat

\* A file nobody tracks may sit where one would land.
PlaceInit ==
  /\ placing \in {"keep", "rename", "copy"}
  /\ source = BookFiles /\ staged = {} /\ lost = {}
  /\ shelf \in {[p \in Dests |-> IF p \in S THEN "stray" ELSE "none"] :
                 S \in {{}} \cup {{<<s, 1>>} : s \in Stems}}
  /\ bookFiles = [p \in Dests |-> "none"]
  /\ ilock = [d \in Imports |-> IdleImport]
  /\ istatus = [d \in Imports |-> "completed"]
  /\ failures = 0

-----------------------------------------------------------------------------

FilesAt(d) == {f \in source : DlOf[f] = d}
At(d, s) == ilock[d].pc = s
Failure == failures < MaxFailures /\ failures' = failures + 1
NoFailure == UNCHANGED failures

\* The destination is recorded for the book and there: alreadyImportedPath.
Landed(p, b) == bookFiles[p] = b /\ shelf[p] # "none"

\* Mutant: a destination is free if no book tracks it.
FreeIfUntracked(p, b) == bookFiles[p] \in {"none", b}

\* uniqueEbookDestination: the first suffix that is the book's own, or free.
Free(p, b) == bookFiles[p] = b \/ (bookFiles[p] = "none" /\ shelf[p] = "none")
FirstFree(s, b, n) ==
  /\ Free(<<s, n>>, b)
  /\ \A m \in 1..(n - 1) : ~Free(<<s, m>>, b)

\* The file in hand is done with, and counted under each of the headings.
Counted(d, headings, f) ==
  LET l == ilock[d]
      with(had, heading) == IF heading \in headings THEN had \cup {f} ELSE had
  IN ilock' = [ilock EXCEPT ![d] =
       [pc |-> "next", file |-> "none", dest |-> NoDest, todo |-> l.todo \ {f},
        landed  |-> with(l.landed, "landed"),   moved |-> with(l.moved, "moved"),
        refused |-> with(l.refused, "refused"), owned |-> with(l.owned, "owned")]]

-----------------------------------------------------------------------------
(* tryImportInternal, the ebook branch. *)

\* The files are gone: the download counts as imported if its book has a file.
PlaceBegin(d) ==
  /\ At(d, "idle") /\ istatus[d] \in {"completed", "failed", "blocked"}
  /\ IF FilesAt(d) = {}
     THEN /\ istatus' = [istatus EXCEPT ![d] =
               IF \E p \in Dests : Landed(p, BookOf[d]) THEN "imported" ELSE "failed"]
          /\ UNCHANGED ilock
     ELSE /\ istatus' = [istatus EXCEPT ![d] = "importing"]
          /\ ilock' = [ilock EXCEPT ![d] = [IdleImport EXCEPT !.pc = "next",
                                           !.todo = FilesAt(d)]]
  /\ UNCHANGED <<placing, source, staged, shelf, bookFiles, lost, failures>>

\* The destination: the plain name, or the first suffix that will do.
PlaceNext(d) ==
  /\ At(d, "next")
  /\ \E f \in ilock[d].todo :
       LET b == BookOf[d]
       IN IF Landed(<<StemOf[f], 1>>, b)
          THEN Counted(d, {"landed"}, f)
          ELSE \/ \E n \in 1..MaxSuffix :
                    /\ FirstFree(StemOf[f], b, n)
                    /\ IF Landed(<<StemOf[f], n>>, b)
                       THEN Counted(d, {"landed"}, f)
                       ELSE ilock' = [ilock EXCEPT ![d].pc = "stage", ![d].file = f,
                                                 ![d].dest = <<StemOf[f], n>>]
               \/ /\ \A n \in 1..MaxSuffix : ~Free(<<StemOf[f], n>>, b)
                  /\ Counted(d, {"refused"}, f)
  /\ UNCHANGED <<placing, source, staged, shelf, bookFiles, istatus, lost, failures>>

\* The destination lies in a folder another book tracks.
PlaceWalled(d) ==
  /\ At(d, "stage") /\ Failure
  /\ Counted(d, {"refused", "owned"}, ilock[d].file)
  /\ UNCHANGED <<placing, source, staged, shelf, bookFiles, istatus, lost>>

\* Mutant: a copied file leaves the download when it is staged.
LeavesEarly == {"rename", "copy"}

\* The moves that empty their source at once.
LeavesAtOnce == {"rename"}

\* StagedImport
PlaceStage(d) ==
  /\ At(d, "stage")
  /\ \/ /\ ilock[d].file \in source /\ NoFailure
        /\ staged' = staged \cup {ilock[d].file}
        /\ source' = IF placing \in LeavesAtOnce THEN source \ {ilock[d].file} ELSE source
        /\ ilock' = [ilock EXCEPT ![d].pc = "record"]
     \/ /\ Failure /\ Counted(d, {"refused"}, ilock[d].file)
        /\ UNCHANGED <<source, staged>>
  /\ UNCHANGED <<placing, shelf, bookFiles, istatus, lost>>

\* The rollback StagedImport hands back.
UndoStage(f) ==
  /\ staged' = staged \ {f}
  /\ \/ /\ source' = IF placing = "rename" THEN source \cup {f} ELSE source
        /\ UNCHANGED lost
     \/ placing = "rename" /\ source' = source /\ lost' = lost \cup {f}

\* recordImportedFile.  The row may be written although the call fails, when
\* the refresh of the book's status does.
PlaceRecord(d) ==
  /\ At(d, "record")
  /\ LET p == ilock[d].dest  f == ilock[d].file  b == BookOf[d]
     IN \/ /\ bookFiles[p] \in {"none", b} /\ NoFailure
           /\ bookFiles' = [bookFiles EXCEPT ![p] = b]
           /\ ilock' = [ilock EXCEPT ![d].pc = "commit"]
           /\ UNCHANGED <<source, staged, lost>>
        \/ /\ bookFiles[p] \notin {"none", b} /\ NoFailure
           /\ UndoStage(f) /\ Counted(d, {"refused", "owned"}, f)
           /\ UNCHANGED bookFiles
        \/ /\ bookFiles[p] \in {"none", b} /\ Failure
           /\ UndoStage(f) /\ Counted(d, {"refused"}, f)
           /\ bookFiles' \in {bookFiles, [bookFiles EXCEPT ![p] = b]}
  /\ UNCHANGED <<placing, shelf, istatus>>

\* commit: the rename into place, and for a move across file systems the
\* removal of the source, which may fail without failing the import.
PlaceCommit(d) ==
  /\ At(d, "commit")
  /\ LET p == ilock[d].dest  f == ilock[d].file
     IN \/ /\ NoFailure
           /\ shelf' = [shelf EXCEPT ![p] = f]
           /\ staged' = staged \ {f}
           /\ source' \in {source, IF placing = "copy" THEN source \ {f} ELSE source}
           /\ Counted(d, {"landed", "moved"}, f)
        \/ /\ Failure /\ ilock' = [ilock EXCEPT ![d].pc = "unrecord"]
           /\ UNCHANGED <<source, staged, shelf>>
  /\ UNCHANGED <<placing, bookFiles, istatus, lost>>

\* The rename failed: the row goes, if it can be deleted, and the file back.
PlaceUnrecord(d) ==
  /\ At(d, "unrecord")
  /\ LET p == ilock[d].dest  f == ilock[d].file
     IN /\ \/ bookFiles' = [bookFiles EXCEPT ![p] = "none"] /\ NoFailure
           \/ bookFiles' = bookFiles /\ Failure
        /\ UndoStage(f) /\ Counted(d, {"refused"}, f)
  /\ UNCHANGED <<placing, shelf, istatus>>

\* The verdict over all files; a clean move then clears what it imported.
PlaceEnd(d) ==
  /\ At(d, "next") /\ ilock[d].todo = {}
  /\ LET l == ilock[d]
         clean == l.refused = {}
     IN /\ istatus' = [istatus EXCEPT ![d] =
             CASE clean -> "imported"
               [] l.landed = {} \/ l.owned = l.refused -> "blocked"
               [] OTHER -> "failed"]
        /\ source' = IF clean /\ placing # "keep" THEN source \ l.moved ELSE source
  /\ ilock' = [ilock EXCEPT ![d] = IdleImport]
  /\ UNCHANGED <<placing, staged, shelf, bookFiles, lost, failures>>

\* RecoverInterruptedImports at the next start: what was importing has failed.
PlaceCrash ==
  /\ Failure /\ \E d \in Imports : ~At(d, "idle")
  /\ ilock' = [d \in Imports |-> IdleImport]
  /\ istatus' = [d \in Imports |-> IF istatus[d] = "importing" THEN "failed" ELSE istatus[d]]
  /\ UNCHANGED <<placing, source, staged, shelf, bookFiles, lost>>

PlaceNextState ==
  \/ \E d \in Imports : \/ PlaceBegin(d) \/ PlaceNext(d) \/ PlaceWalled(d) \/ PlaceStage(d)
                         \/ PlaceRecord(d) \/ PlaceCommit(d) \/ PlaceUnrecord(d) \/ PlaceEnd(d)
  \/ PlaceCrash

PlaceSpec == PlaceInit /\ [][PlaceNextState]_placeVars

-----------------------------------------------------------------------------

\* Unless the way back failed too, the payload of every file is somewhere: at its
\* download, under its staging name, or in the library, whatever fails and wherever
\* the process stops.  Two downloads of one book placing at the same time are the
\* exception, here and below: see OneImportPerDestination.
PayloadRemains ==
  \A f \in BookFiles \ lost :
    f \in source \cup staged \/ \E p \in Dests : shelf[p] = f

\* A file nobody tracks, and a file another book tracks, is not written over.
OthersFilesStay ==
  [][\A p \in Dests : shelf'[p] # shelf[p] /\ shelf[p] # "none" =>
       /\ shelf[p] # "stray"
       /\ bookFiles[p] = BookOf[DlOf[shelf'[p]]]]_placeVars

\* A download is marked imported only when every file of it is recorded and in
\* the library.
ImportedIsComplete ==
  \A d \in Imports : istatus[d] = "imported" =>
    \A f \in BookFiles : DlOf[f] = d =>
      \E n \in 1..MaxSuffix : Landed(<<StemOf[f], n>>, BookOf[d])

\* Two imports never work on the same destination at the same time.
OneImportPerDestination ==
  \A d, e \in Imports :
    d # e /\ ilock[d].pc \in {"record", "commit"} /\ ilock[e].pc \in {"record", "commit"}
      => ilock[d].dest # ilock[e].dest
==============================================================================
