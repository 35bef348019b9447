-------------------------- MODULE MCDownloadRowCas --------------------------
EXTENDS DownloadRowCas, TLC

\* The two writers run the same code.
Perms == Permutations(Writers)

=============================================================================
