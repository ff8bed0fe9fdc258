--------------------------- MODULE MCTerminalMain ---------------------------
(* The process with the event channel of MCTerminalRunner.                 *)
EXTENDS TerminalMain
MCEventCap == 3
=============================================================================
