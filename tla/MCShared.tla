------------------------------- MODULE MCShared -------------------------------
(* What several actors share: a client's job, a destination, a folder, a      *)
(* requester's rows, an indexer's counts, a book's row.  The parts do not     *)
(* interact here; each behaviour is one part's, and the others stay as they   *)
(* are initially.                                                             *)
EXTENDS SharedJobs, ImportPlacement, Requests, IndexerLimits, BookStatus,
        AudiobookPlacement

CONSTANT Parts

VARIABLE part

sharedVars == <<part, jobVars, placeVars, requestVars, limitVars, bookVars,
                audioVars>>

MCDlOf   == [f \in BookFiles |-> IF f = "epub2" THEN "d2" ELSE "d1"]
MCBookOf == [d \in Imports |-> IF d = "d1" THEN "b1" ELSE "b2"]
MCSameBook == [d \in Imports |-> "b1"]
MCStemOf == [f \in BookFiles |-> IF f = "mobi1" THEN "mobi" ELSE "epub"]
MCLadder == <<1, 2>>
MCKindOf == [f \in Files |-> IF f = "m4b" THEN "audiobook" ELSE "ebook"]
MCRank   == [f \in Files |-> CASE f = "epub" -> 0 [] f = "mobi" -> 1 [] OTHER -> 2]

MCAudioOf   == [t \in Tracks |-> IF t = "cd3" THEN "a2" ELSE "a1"]
MCAudioBook == [d \in Audios |-> IF d = "a1" THEN "b1" ELSE "b2"]
MCEbookOf   == [h \in HomeNames |-> IF h = "h1" THEN "b1" ELSE "b2"]

\* Two downloads that render to one name, unless one of them is placed file by file.
MCHomes   == {h \in [Audios -> HomeNames] : h["a1"] = "h1" \/ h["a2"] = "h2"}
MCShapes  == {s \in [Audios -> Shapes] : s["a1"] # "file" /\ s["a2"] # "loose"}
MCLayouts == {l \in [shape : MCShapes, home : MCHomes] :
                IF l.home["a1"] = l.home["a2"]
                THEN l.shape["a1"] # "loose" /\ l.shape["a2"] # "file"
                ELSE l.shape["a1"] = "loose" /\ l.shape["a2"] = "file"}
MCPlainLayout == [shape |-> [d \in Audios |-> "folder"], home |-> [d \in Audios |-> "h1"]]
MCAnyLayouts  == [shape : MCShapes, home : MCHomes]

\* The choices of the parts that do not run are fixed.
SharedInit ==
  /\ part \in Parts
  /\ JobsInit /\ PlaceInit /\ RequestInit /\ LimitInit /\ BookInit /\ AudioInit
  /\ part # "jobs"  => ~removeOnImport
  /\ part # "place" => placing = "keep" /\ \A p \in Dests : shelf[p] = "none"
  /\ part # "book"  => book.media = "both"
  /\ part # "audio" => moves = {} /\ layout = MCPlainLayout

SharedNext ==
  /\ UNCHANGED part
  /\ \/ /\ part = "jobs" /\ JobsNext
        /\ UNCHANGED <<placeVars, requestVars, limitVars, bookVars, audioVars>>
     \/ /\ part = "place" /\ PlaceNextState
        /\ UNCHANGED <<jobVars, requestVars, limitVars, bookVars, audioVars>>
     \/ /\ part = "requests" /\ RequestNext
        /\ UNCHANGED <<jobVars, placeVars, limitVars, bookVars, audioVars>>
     \/ /\ part = "limits" /\ LimitNext
        /\ UNCHANGED <<jobVars, placeVars, requestVars, bookVars, audioVars>>
     \/ /\ part = "book" /\ BookNext
        /\ UNCHANGED <<jobVars, placeVars, requestVars, limitVars, audioVars>>
     \/ /\ part = "audio" /\ AudioNext
        /\ UNCHANGED <<jobVars, placeVars, requestVars, limitVars, bookVars>>

SharedSpec == SharedInit /\ [][SharedNext]_sharedVars
==============================================================================
