-------------------------- MODULE MCDownloadFlight --------------------------
\* An instance of DownloadFlight for TLC.
EXTENDS DownloadFlight
=============================================================================
