------------------------- MODULE MCDownloadLifecycle -------------------------
EXTENDS DownloadClaims

=============================================================================
