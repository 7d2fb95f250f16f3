---------------------------- MODULE MCCheckQueue ----------------------------
(* Two workers and the master over a handful of checks.                    *)
EXTENDS CheckQueue
=============================================================================
