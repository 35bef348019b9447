--------------------------- MODULE DownloadStates ---------------------------
(***************************************************************************)
(* The typed state of a download record and the transition table every     *)
(* guarded status write is checked against (models.DownloadState).  The    *)
(* module declares nothing: it is the vocabulary of the download modules.  *)
(***************************************************************************)

DownloadState ==
  {"grabbed", "downloading", "completed", "importPending", "importing",
   "imported", "failed", "importFailed", "importBlocked", "importExternal",
   "importHeld"}

\* The "status" of a row that is not in the table.
Absent == "absent"

\* The states a state may be left for.  A row with no entry is final for
\* every guarded write.
ValidTransitions(s) ==
  CASE s = "grabbed"        -> {"downloading", "completed", "failed"}
    [] s = "downloading"    -> {"completed", "failed"}
    [] s = "completed"      -> {"importPending", "importFailed"}
    [] s = "importPending"  -> {"importing", "importFailed",
                                "importExternal", "importHeld"}
    [] s = "importing"      -> {"imported", "importFailed", "importBlocked"}
    [] s = "importFailed"   -> {"importPending", "importBlocked", "importing"}
    [] s = "importBlocked"  -> {"importPending", "importFailed"}
    [] s = "importExternal" -> {"importPending"}
    [] s = "importHeld"     -> {"importExternal", "importFailed",
                                "importBlocked", "importPending"}
    [] OTHER                -> {}

CanTransitionTo(s, next) == next \in ValidTransitions(s)

\* A finished attempt with no automatic path out: a fresh grab of the same
\* release may reuse the row.
IsDeadForRegrab(s) == s \in {"failed", "importBlocked"}

\* The narrower rule of the scheduler's own grab.
IsDeadForAutoRegrab(s) == s = "failed"

=============================================================================
