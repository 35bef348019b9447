------------------------------ MODULE BookStatus ------------------------------
(***************************************************************************)
(* The status and the paths a book's row keeps of the files tracked for    *)
(* it.  Whatever adds or removes a file derives them again from the rows   *)
(* and writes them back if what it read of the book still stands; whoever  *)
(* edits the book writes the whole row from the copy it read.              *)
(***************************************************************************)
EXTENDS Naturals

CONSTANTS
  Files,        \* what can be tracked for the book
  KindOf,       \* the format of each
  Rank,         \* the order in which a format's files are preferred
  Workers,      \* imports, removals and editors at work
  Attempts,     \* of one refresh
  MaxEdits      \* bound: edits of the book, and files untracked

NoPath == "none"
NoBookRow  == [ebook |-> NoPath, audiobook |-> NoPath, media |-> "both", status |-> "skipped",
           monitored |-> FALSE]
Rest   == [pc |-> "idle", left |-> 0, seen |-> NoBookRow, derived |-> NoBookRow]

ASSUME BookAssumption ==
  /\ KindOf \in [Files -> {"ebook", "audiobook"}] /\ Rank \in [Files -> Nat]
  /\ \A f, g \in Files : Rank[f] = Rank[g] => f = g
  /\ Attempts \in Nat \ {0} /\ MaxEdits \in Nat
  /\ NoPath \notin Files

VARIABLES
  tracked,   \* book_files of the book
  book,      \* its row
  worker,    \* what each worker is doing
  stuck,     \* ghost: a refresh used up its attempts
  edits

bookVars == <<tracked, book, worker, stuck, edits>>

MediaTypes == {"ebook", "audiobook", "both"}
BookRow == [ebook : Files \cup {NoPath}, audiobook : Files \cup {NoPath}, media : MediaTypes,
        status : {"wanted", "imported", "skipped"}, monitored : BOOLEAN]

BookTypeOK ==
  /\ tracked \subseteq Files /\ book \in BookRow /\ stuck \in BOOLEAN /\ edits \in 0 .. MaxEdits
  /\ worker \in [Workers -> [pc : {"idle", "read", "derive", "write", "edit"}, left : 0 .. Attempts,
                             seen : BookRow, derived : BookRow]]

BookInit ==
  /\ tracked = {} /\ stuck = FALSE /\ edits = 0
  /\ book \in {r \in BookRow : r.ebook = NoPath /\ r.audiobook = NoPath /\ r.status = "wanted"
                           /\ r.monitored}
  /\ worker = [w \in Workers |-> Rest]

-----------------------------------------------------------------------------

\* derivedFormatPath, for files that are all on disk.
Derived(kind) ==
  LET rows == {f \in tracked : KindOf[f] = kind}
  IN IF rows = {} THEN NoPath ELSE CHOOSE f \in rows : \A g \in rows : Rank[f] <= Rank[g]

\* NeedsEbook, NeedsAudiobook
Needs(r, kind) == r.media \in {kind, "both"} /\ r[kind] = NoPath
Complete(r)    == ~Needs(r, "ebook") /\ ~Needs(r, "audiobook")

\* The row a refresh writes: the derived paths, the media type widened by them, and the
\* status that follows.
Refreshed(r) ==
  LET paths == [r EXCEPT !.ebook = Derived("ebook"), !.audiobook = Derived("audiobook")]
      wide  == IF paths.ebook # NoPath /\ paths.audiobook # NoPath
               THEN [paths EXCEPT !.media = "both"] ELSE paths
  IN [wide EXCEPT !.status = IF Complete(wide) THEN "imported"
                             ELSE IF @ = "imported" THEN "wanted" ELSE @]

Agrees == /\ book.ebook = Derived("ebook") /\ book.audiobook = Derived("audiobook")
          /\ book.status = "imported" <=> Complete(book)

-----------------------------------------------------------------------------
(* A file is tracked or untracked, and the row refreshed. *)

StartsRefresh(w) == worker' = [worker EXCEPT ![w].pc = "read", ![w].left = Attempts]

\* AddBookFile
AddFile(w, f) ==
  /\ worker[w].pc = "idle" /\ f \notin tracked /\ tracked' = tracked \cup {f}
  /\ StartsRefresh(w) /\ UNCHANGED <<book, stuck, edits>>

\* RemoveBookFile, UntrackFilePath
RemoveFile(w, f) ==
  /\ edits < MaxEdits /\ edits' = edits + 1
  /\ worker[w].pc = "idle" /\ f \in tracked /\ tracked' = tracked \ {f}
  /\ StartsRefresh(w) /\ UNCHANGED <<book, stuck>>

\* refreshBookStatusOnce, to the seam where a concurrent edit can land.
RefreshRead(w) ==
  /\ worker[w].pc = "read"
  /\ worker' = [worker EXCEPT ![w].pc = "derive", ![w].seen = book]
  /\ UNCHANGED <<tracked, book, stuck, edits>>

RefreshDerive(w) ==
  /\ worker[w].pc = "derive"
  /\ worker' = [worker EXCEPT ![w].pc = "write", ![w].derived = Refreshed(worker[w].seen)]
  /\ UNCHANGED <<tracked, book, stuck, edits>>

\* Mutant: the guard before the stored paths were part of it.
StandsButForPaths(w) == /\ book.media = worker[w].seen.media
                        /\ book.status = worker[w].seen.status

\* Mutant: no guard.
WritesAnyway(w) == TRUE

\* The guard of the UPDATE.
Stands(w) == /\ book.media = worker[w].seen.media /\ book.status = worker[w].seen.status
             /\ book.ebook = worker[w].seen.ebook /\ book.audiobook = worker[w].seen.audiobook

\* The guarded write of the five columns, or the next attempt, or giving up.
RefreshWrite(w) ==
  /\ worker[w].pc = "write"
  /\ IF Stands(w)
     THEN /\ book' = [worker[w].derived EXCEPT !.monitored = book.monitored]
          /\ worker' = [worker EXCEPT ![w] = Rest] /\ UNCHANGED stuck
     ELSE /\ worker' = [worker EXCEPT ![w] =
               IF @.left > 1 THEN [Rest EXCEPT !.pc = "read", !.left = worker[w].left - 1]
               ELSE Rest]
          /\ stuck' = (stuck \/ worker[w].left = 1) /\ UNCHANGED book
  /\ UNCHANGED <<tracked, edits>>

-----------------------------------------------------------------------------
(* The book page.  A path its row has none of is read from the tracked files. *)

EditRead(w) ==
  /\ worker[w].pc = "idle" /\ edits < MaxEdits /\ edits' = edits + 1
  /\ LET shown(kind) == IF book[kind] # NoPath THEN book[kind] ELSE Derived(kind)
     IN worker' = [worker EXCEPT ![w].pc = "edit",
          ![w].seen = [book EXCEPT !.ebook = shown("ebook"), !.audiobook = shown("audiobook")]]
  /\ UNCHANGED <<tracked, book, stuck>>

\* BookHandler.Update: the monitoring, or the media type and the status it implies
\* (reevaluateBookStatus), and the whole row with it.
EditWrite(w) ==
  /\ worker[w].pc = "edit"
  /\ LET seen == worker[w].seen
         Reevaluated(r) == [r EXCEPT !.status =
           IF @ = "skipped" THEN @ ELSE IF Complete(r) THEN "imported" ELSE "wanted"]
     IN \/ book' = [seen EXCEPT !.monitored = ~@]
        \/ \E m \in MediaTypes \ {seen.media} : book' = Reevaluated([seen EXCEPT !.media = m])
  /\ worker' = [worker EXCEPT ![w] = Rest]
  /\ UNCHANGED <<tracked, stuck, edits>>

BookNext == \E w \in Workers :
  \/ \E f \in Files : AddFile(w, f) \/ RemoveFile(w, f)
  \/ RefreshRead(w) \/ RefreshDerive(w) \/ RefreshWrite(w) \/ EditRead(w) \/ EditWrite(w)

BookSpec == BookInit /\ [][BookNext]_bookVars

-----------------------------------------------------------------------------
(* Properties. *)

AllIdle == \A w \in Workers : worker[w].pc = "idle"

\* However many imports record a file of the book at once, once they are done, and with
\* nobody editing the book or removing files of it, its row shows the files that are
\* tracked, and the status they imply.
ConcurrentImportsAgree ==
  (AllIdle /\ tracked # {} /\ edits = 0 /\ ~stuck) => Agrees

\* A refresh reverts no edit of the media type that landed while it ran (#2375): it
\* leaves the type as it finds it, or widens it to both.
RefreshKeepsEdits ==
  [][\A w \in Workers :
       worker[w].pc = "write" /\ worker'[w].pc # "write" => book'.media \in {book.media, "both"}
     ]_bookVars

\* Claim: "The column is not user-writable and is not stale: every mutation of
\* book_files goes through refreshBookStatus, which recomputes it from the rows and
\* writes it back" (bookColumns).
ColumnNotStale == AllIdle /\ ~stuck => book.ebook \in tracked \cup {NoPath}

==============================================================================
