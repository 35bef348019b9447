------------------------------- MODULE MCWanted -------------------------------
EXTENDS WantedSearch

MCFormatOf == [r \in Releases |-> IF r = "eb" THEN "ebook" ELSE "audiobook"]

\* One audiobook names its PDF booklet only, one names m4b, the ebook names nothing.
MCNamed == [r \in Releases |-> CASE r = "pdf" -> {"ebook"}
                                 [] r = "m4b" -> {"audiobook"}
                                 [] OTHER -> {}]

\* The delay holds back all audiobooks or none; the pinned release, or none, is on another
\* book's row.
MCInit ==
  /\ SearchInit
  /\ young \in {{}, Releases \ Costly}
  /\ \A r \in Releases \ Pinned : grabRow[r] = "none"

MCSpec == MCInit /\ [][SearchNext]_searchVars /\ SearchFairness
==============================================================================
