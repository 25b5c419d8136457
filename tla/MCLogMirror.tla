---------------------------- MODULE MCLogMirror ----------------------------
(* Two tasks that log, and two requests for /logs at a time: the one log
   server task of the firmware is the case in which the second never comes. *)
EXTENDS LogMirror

CONSTANTS rx, stdk, v1, v2

MCLoggers == {rx, stdk}
MCViewers == {v1, v2}
=============================================================================
