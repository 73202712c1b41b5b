------------------------------ MODULE Callers ------------------------------
(* The threads that ask the questions of detect.c.                         *)

CONSTANTS Threads, NoThread

ASSUME ThreadAssumption == NoThread \notin Threads
=============================================================================
