----------------------------- MODULE MCCapsLock -----------------------------
(* The tasks of the firmware: a report on the receive task, an app tap on
   STDK's command task, an init_cb on STDK's status task; two cleaning modes;
   and one block less than they can hold at once, so that memory also runs
   out by itself. *)
EXTENDS CapsText

CONSTANTS rx, cmd, st, b1, b2, b3, auto, spot

MCReporters == {rx}
MCCommanders == {cmd}
MCIniters == {st}
MCBlocks == {b1, b2, b3}
MCStrings == {auto, spot}
=============================================================================
