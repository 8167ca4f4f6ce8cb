------------------------------ MODULE MCDaemon ------------------------------
(* Instances of Daemon for TLC.                                             *)
EXTENDS Daemon, TLC

CONSTANTS c1

=============================================================================
