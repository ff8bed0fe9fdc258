------------------------ MODULE MCTerminalController ------------------------
(* The controller with the event channel of MCTerminalRunner.              *)
EXTENDS TerminalController
MCEventCap == 3
=============================================================================
