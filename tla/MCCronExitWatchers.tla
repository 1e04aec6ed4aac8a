-------------------------- MODULE MCCronExitWatchers --------------------------
(* Small instances of CronExitWatchers for TLC.                            *)
EXTENDS CronExitWatchers
=============================================================================
