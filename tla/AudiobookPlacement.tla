------------------------- MODULE AudiobookPlacement -------------------------
(***************************************************************************)
(* Placing the tracks of finished audiobook downloads.  Unlike an ebook,   *)
(* whose row comes before its file, an audiobook is placed whole, in a     *)
(* folder of its own or in the one its book's ebook has, and recorded      *)
(* afterwards.  A step that fails takes back what was placed if the        *)
(* download still has it, and leaves it where it is otherwise.  Imports of *)
(* different downloads may run beside each other (the poll's and a         *)
(* person's); the process may stop between any two steps.                  *)
(***************************************************************************)
EXTENDS FiniteSets, Naturals

CONSTANTS
  Audios,       \* downloads
  Tracks,       \* the tracks of all of them, with different names
  AudioOf,      \* the download of a track
  AudioBook,    \* the book of a download
  HomeNames,    \* what the naming template renders
  EbookOf,      \* the book whose ebook is in the plain folder of a name, or none
  Layouts,      \* the shapes of the downloads and the names of their folders
  MaxTwin,      \* bound: the suffixes UniqueDir tries
  MaxBreaks     \* bound: failing calls and stops of the process

AudioBooks == {AudioBook[d] : d \in Audios}
Folders    == HomeNames \X (1 .. MaxTwin)
NoFolder   == <<"none", 0>>
TracksOf(d) == {t \in Tracks : AudioOf[t] = d}

\* How the tracks lie: in a folder that is placed as it is, or track by track under new
\* names; a file alone; or files with no folder of their own.
Shapes == {"folder", "flatten", "file", "loose"}

ASSUME AudioAssumption ==
  /\ IsFiniteSet(Tracks) /\ AudioOf \in [Tracks -> Audios]
  /\ "ebook" \notin Tracks /\ "none" \notin AudioBooks
  /\ EbookOf \in [HomeNames -> AudioBooks \cup {"none"}]
  /\ \A l \in Layouts : l.shape \in [Audios -> Shapes] /\ l.home \in [Audios -> HomeNames]
  /\ \A l \in Layouts, d \in Audios : l.shape[d] = "file" => Cardinality(TracksOf(d)) = 1
  /\ MaxTwin \in Nat \ {0} /\ MaxBreaks \in Nat

VARIABLES
  layout,     \* one of Layouts
  moves,      \* downloads that are moved; the others are copied or linked
  payload,    \* tracks at their download's path
  there,      \* folders that exist
  holds,      \* what is in each folder
  cut,        \* tracks in a folder of which only a part was written
  audioRow,   \* the book_files row of each folder
  aimp,       \* what each import is doing
  astatus,    \* the downloads' status
  torn,       \* ghost: imports a step of which failed with part of it done
  stopped,    \* ghost: imports the process stopped after it had made their folder
  breaks

audioVars == <<layout, moves, payload, there, holds, cut, audioRow, aimp, astatus,
               torn, stopped, breaks>>

AudioSteps == {"idle", "open", "place", "clear", "record", "end"}
IdleAudio  == [pc |-> "idle", dest |-> NoFolder, merged |-> FALSE, todo |-> {}, skipped |-> FALSE]

AudioInit ==
  /\ layout \in Layouts /\ moves \in SUBSET Audios
  /\ payload = Tracks /\ torn = {} /\ stopped = {} /\ breaks = 0
  /\ there = {<<h, 1>> : h \in {n \in HomeNames : EbookOf[n] # "none"}}
  /\ holds = [p \in Folders |-> IF p \in there THEN {"ebook"} ELSE {}]
  /\ cut = [p \in Folders |-> {}]
  /\ audioRow = [p \in Folders |-> "none"]
  /\ aimp = [d \in Audios |-> IdleAudio]
  /\ astatus = [d \in Audios |-> "completed"]

-----------------------------------------------------------------------------

Home(d)  == layout.home[d]
Shape(d) == layout.shape[d]
Alone(d) == Shape(d) \in {"file", "loose"}
Left(d)  == TracksOf(d) \cap payload
Doing(d, s) == aimp[d].pc = s
Break    == breaks < MaxBreaks /\ breaks' = breaks + 1
NoBreak  == UNCHANGED breaks
Goes(d, s) == aimp' = [aimp EXCEPT ![d].pc = s]

\* Mutant: a folder with one of its tracks is taken for an audiobook.
FoundOnDisk(b) == \E p \in there : \E t \in holds[p] \cap Tracks : AudioBook[AudioOf[t]] = b

\* importedFormatPath: an audiobook of the book is recorded, and there.
HasAudio(b) == \E p \in there : audioRow[p] = b

\* UniqueDir
UniqueDir(h) == {<<h, n>> : n \in {m \in 1 .. MaxTwin :
                   <<h, m>> \notin there /\ \A k \in 1 .. (m - 1) : <<h, k>> \in there}}

\* existingEbookDir, and that the audiobook's name renders to that folder.
Merges(d) ==
  LET p == <<Home(d), 1>>
  IN /\ Shape(d) \in {"folder", "file"} /\ EbookOf[Home(d)] = AudioBook[d]
     /\ "ebook" \in holds[p] /\ audioRow[p] \in {"none", AudioBook[d]}

\* failImport: the attempt ends, blocked.
Blocked(d) == /\ astatus' = [astatus EXCEPT ![d] = "blocked"]
              /\ aimp' = [aimp EXCEPT ![d] = IdleAudio]

\* os.RemoveAll of a folder.
RemoveAll(p) == /\ there' = there \ {p} /\ holds' = [holds EXCEPT ![p] = {}]
                /\ cut' = [cut EXCEPT ![p] = {}]

\* Mutant: nothing is taken back.
NoRollBack(p, files) == UNCHANGED <<there, holds, cut>>

\* rollbackPlacedFiles: these files, and the folder if that empties it.
RollBack(p, files) ==
  /\ holds' = [holds EXCEPT ![p] = @ \ files] /\ cut' = [cut EXCEPT ![p] = @ \ files]
  /\ there' = IF holds[p] \subseteq files THEN there \ {p} ELSE there

-----------------------------------------------------------------------------
(* tryImportInternal, the audiobook branch. *)

\* Nothing is left at the download's path: imported if the book has an audiobook.  If it
\* has one already, so is this download; otherwise its destination is chosen.
AudioBegin(d) ==
  /\ Doing(d, "idle") /\ astatus[d] \in {"completed", "failed", "blocked"}
  /\ \/ /\ HasAudio(AudioBook[d]) \/ Left(d) = {}
        /\ astatus' = [astatus EXCEPT ![d] =
             IF HasAudio(AudioBook[d]) THEN "imported" ELSE "failed"]
        /\ UNCHANGED aimp
     \/ /\ ~HasAudio(AudioBook[d]) /\ Left(d) # {}
        /\ astatus' = [astatus EXCEPT ![d] = "importing"]
        /\ \E p \in UniqueDir(Home(d)) :
             aimp' = [aimp EXCEPT ![d] = [IdleAudio EXCEPT !.pc = "open", !.dest = p,
                                                           !.todo = Left(d)]]
  /\ UNCHANGED <<layout, moves, payload, there, holds, cut, audioRow, torn, stopped, breaks>>

\* The folder.  A whole folder is not placed into one that exists, except the one of the
\* book's ebook, where it merges; a lone file and loose ones are.  A folder that moves
\* within a file system is renamed.
AudioOpen(d) ==
  /\ Doing(d, "open")
  /\ LET l == aimp[d]
         p == IF Merges(d) THEN <<Home(d), 1>> ELSE l.dest
         refused == ~Merges(d) /\ ~Alone(d) /\ p \in there
     IN \/ /\ refused /\ NoBreak /\ Blocked(d) /\ UNCHANGED <<payload, there, holds, cut>>
        \/ /\ ~refused /\ Break /\ Blocked(d) /\ UNCHANGED <<payload, there, holds, cut>>
        \/ /\ ~refused /\ NoBreak
           /\ there' = there \cup {p}
           /\ aimp' = [aimp EXCEPT ![d].pc = "place", ![d].dest = p, ![d].merged = Merges(d)]
           /\ UNCHANGED <<payload, holds, cut, astatus>>
        \/ /\ ~refused /\ NoBreak /\ d \in moves /\ Shape(d) = "folder" /\ ~Merges(d)
           /\ there' = there \cup {p} /\ holds' = [holds EXCEPT ![p] = l.todo]
           /\ payload' = payload \ l.todo
           /\ aimp' = [aimp EXCEPT ![d].pc = "record", ![d].dest = p]
           /\ UNCHANGED <<cut, astatus>>
  /\ UNCHANGED <<layout, moves, audioRow, torn, stopped>>

\* One track is placed; in a merge, a name that is taken is passed over.
AudioTrack(d) ==
  /\ Doing(d, "place")
  /\ \E t \in aimp[d].todo :
       LET l == aimp[d]  p == l.dest  taken == l.merged /\ t \in holds[p]
       IN /\ aimp' = [aimp EXCEPT ![d].todo = @ \ {t}, ![d].skipped = @ \/ taken]
          /\ IF taken THEN UNCHANGED <<payload, holds>>
             ELSE /\ holds' = [holds EXCEPT ![p] = @ \cup {t}]
                  /\ payload' = IF d \in moves /\ Alone(d) THEN payload \ {t} ELSE payload
  /\ UNCHANGED <<layout, moves, there, cut, audioRow, astatus, torn, stopped, breaks>>

\* A track cannot be placed.  A merge leaves what it wrote of the track, and a move that
\* could not remove its source what it placed; a lone file and loose ones are rolled back
\* where they are copies, anything else is removed with its folder.
AudioTrackFails(d) ==
  /\ Doing(d, "place") /\ Break /\ Blocked(d)
  /\ \E t \in aimp[d].todo :
       LET l == aimp[d]  p == l.dest  placed == TracksOf(d) \cap holds[p]
       IN \/ /\ l.merged /\ ~Alone(d) /\ t \notin holds[p]
             /\ \/ /\ holds' = [holds EXCEPT ![p] = @ \cup {t}]
                   /\ cut' = [cut EXCEPT ![p] = @ \cup {t}]
                \/ UNCHANGED <<holds, cut>>
             /\ torn' = torn \cup {d} /\ UNCHANGED there
          \/ /\ ~l.merged /\ ~Alone(d) /\ RemoveAll(p) /\ UNCHANGED torn
          \/ /\ Alone(d) /\ t \notin holds[p] /\ (d \notin moves \/ placed = {})
             /\ RollBack(p, placed) /\ UNCHANGED torn
          \/ /\ Alone(d) /\ t \notin holds[p] /\ d \in moves /\ placed # {}
             /\ torn' = torn \cup {d} /\ UNCHANGED <<there, holds, cut>>
          \/ /\ Alone(d) /\ t \notin holds[p] /\ d \in moves
             /\ holds' = [holds EXCEPT ![p] = @ \cup {t}]
             /\ torn' = torn \cup {d} /\ UNCHANGED <<there, cut>>
  /\ UNCHANGED <<layout, moves, payload, audioRow, stopped>>

\* Mutant: the source is removed although a name was passed over.
ClearsAnyway(d) == d \in moves /\ Left(d) # {} /\ ~Alone(d)

\* What was copied leaves the download if it moves, unless a name was passed over.
Clears(d) == d \in moves /\ Left(d) # {} /\ ~Alone(d) /\ ~aimp[d].skipped

\* All tracks are placed.
AudioPlaced(d) ==
  /\ Doing(d, "place") /\ aimp[d].todo = {}
  /\ Goes(d, IF Clears(d) THEN "clear" ELSE "record")
  /\ UNCHANGED <<layout, moves, payload, there, holds, cut, audioRow, astatus, torn,
                 stopped, breaks>>

\* The source folder is removed, file by file.  Where that fails a whole folder's import
\* ends; renamed tracks are all the same recorded.
AudioClear(d) ==
  /\ Doing(d, "clear")
  /\ \/ /\ NoBreak /\ \E t \in Left(d) : payload' = payload \ {t}
        /\ Goes(d, IF Cardinality(Left(d)) = 1 THEN "record" ELSE "clear")
        /\ UNCHANGED <<astatus, torn>>
     \/ /\ Break /\ UNCHANGED payload /\ torn' = torn \cup {d}
        /\ IF Shape(d) = "folder" THEN Blocked(d)
           ELSE Goes(d, "record") /\ UNCHANGED astatus
  /\ UNCHANGED <<layout, moves, there, holds, cut, audioRow, stopped>>

\* Mutant: a folder is removed that was there before, the book's ebook with it.
TakesBackMerged(d) == d \notin moves

\* What was placed is removed when it could not be recorded.
TakesBack(d) == d \notin moves /\ ~aimp[d].merged

\* recordImportedFile, tried again where that may help.  The row may be written although
\* the call fails, when the refresh of the book's status does.
AudioRecord(d) ==
  /\ Doing(d, "record")
  /\ LET p == aimp[d].dest  b == AudioBook[d]  owned == audioRow[p] \notin {"none", b}
     IN \/ /\ ~owned /\ NoBreak /\ audioRow' = [audioRow EXCEPT ![p] = b]
           /\ Goes(d, "end") /\ UNCHANGED <<there, holds, cut, astatus, torn>>
        \/ /\ \/ owned /\ NoBreak /\ UNCHANGED <<audioRow, torn>>
              \/ ~owned /\ Break /\ UNCHANGED <<audioRow, torn>>
              \/ /\ ~owned /\ Break /\ audioRow' = [audioRow EXCEPT ![p] = b]
                 /\ torn' = torn \cup {d}
           /\ Blocked(d)
           /\ IF TakesBack(d) THEN RemoveAll(p) ELSE UNCHANGED <<there, holds, cut>>
  /\ UNCHANGED <<layout, moves, payload, stopped>>

AudioEnd(d) ==
  /\ Doing(d, "end")
  /\ astatus' = [astatus EXCEPT ![d] = "imported"]
  /\ aimp' = [aimp EXCEPT ![d] = IdleAudio]
  /\ UNCHANGED <<layout, moves, payload, there, holds, cut, audioRow, torn, stopped, breaks>>

\* The process stops; a file that was being copied is cut short.  At the next start what
\* was importing has failed: RecoverInterruptedImports.
AudioCrash ==
  /\ Break /\ \E d \in Audios : ~Doing(d, "idle")
  /\ \E now \in SUBSET {t \in Tracks : /\ Doing(AudioOf[t], "place")
                                       /\ t \in aimp[AudioOf[t]].todo
                                       /\ t \notin holds[aimp[AudioOf[t]].dest]} :
       /\ \A t, u \in now : AudioOf[t] = AudioOf[u] => t = u
       /\ LET short(p) == {t \in now : aimp[AudioOf[t]].dest = p}
          IN /\ holds' = [p \in Folders |-> holds[p] \cup short(p)]
             /\ cut'   = [p \in Folders |-> cut[p] \cup short(p)]
  /\ torn' = torn \cup {d \in Audios : \/ Doing(d, "clear")
                                       \/ /\ Doing(d, "place")
                                          /\ aimp[d].merged \/ (Alone(d) /\ d \in moves)}
  /\ stopped' = stopped \cup {d \in Audios : aimp[d].pc \in {"place", "clear", "record", "end"}}
  /\ aimp' = [d \in Audios |-> IdleAudio]
  /\ astatus' = [d \in Audios |-> IF astatus[d] = "importing" THEN "failed" ELSE astatus[d]]
  /\ UNCHANGED <<layout, moves, payload, there, audioRow>>

AudioNext ==
  \/ \E d \in Audios : \/ AudioBegin(d) \/ AudioOpen(d) \/ AudioTrack(d) \/ AudioTrackFails(d)
                       \/ AudioPlaced(d) \/ AudioClear(d) \/ AudioRecord(d) \/ AudioEnd(d)
  \/ AudioCrash

AudioSpec == AudioInit /\ [][AudioNext]_audioVars

-----------------------------------------------------------------------------
(* Properties. *)

\* Whatever fails and wherever the process stops, each track is at its download or
\* whole in a folder of the library: no source is removed before its copy is there, and
\* no folder with what a download no longer has.
TracksRemain ==
  \A t \in Tracks : t \in payload \/ \E p \in there : t \in holds[p] \ cut[p]

\* What an import removes from a folder it has put there: the ebook of a folder it merges
\* into stays, and so do the tracks of another book that came to the same folder name.
FoldersStay ==
  [][\A p \in Folders : \A i \in holds[p] \ holds'[p] :
       i \in Tracks /\ aimp[AudioOf[i]].dest = p]_audioVars

\* The book of an imported audiobook has every track of one of its downloads, whole, in a
\* folder that is recorded for it, over any number of failed attempts, unless one of them
\* ended half done: in a merge, among files moved or cleared one by one, or with a row
\* written by a call that failed.
ImportedIsWhole ==
  \A d \in Audios :
    LET ofBook == {e \in Audios : AudioBook[e] = AudioBook[d]}
    IN astatus[d] = "imported" /\ ofBook \cap torn = {} =>
         \E p \in there, e \in ofBook :
           audioRow[p] = AudioBook[d] /\ TracksOf(e) # {} /\ TracksOf(e) \subseteq holds[p] \ cut[p]

\* rollbackPlacedFiles, "a retry ran UniqueDir and built a second partial": as long as the
\* process does not stop, no failed attempt leaves an empty folder, or one of tracks its
\* download still has, for the next one to build another beside.
NothingLeftOver ==
  \A p \in there : (\A d \in Audios : aimp[d].dest # p) =>
    \/ stopped # {} \/ audioRow[p] # "none" \/ "ebook" \in holds[p]
    \/ holds[p] # {} /\ \A t \in holds[p] : t \notin payload \/ AudioOf[t] \in torn

\* Claim: "the files are preserved there — retry the import to record them": the retry
\* of a blocked download does not end with nothing found while its files are in the library.
BlockedRetryRecords ==
  [][\A d \in Audios : astatus[d] = "blocked" /\ astatus'[d] = "failed" =>
       \A p \in there : ~(TracksOf(d) \subseteq holds[p])]_audioVars

\* Claim: a failed merge is "self-correcting: a retry re-runs the merge and skips whatever
\* already landed": the retry that ends imported has no file cut short, if nothing but
\* failing calls, no stop of the process, came before.
MergeRetryIsWhole ==
  \A d \in Audios, p \in Folders :
    /\ astatus[d] = "imported" /\ audioRow[p] = AudioBook[d]
    /\ "ebook" \in holds[p] /\ stopped = {}
    => cut[p] \cap TracksOf(d) = {}
==============================================================================
