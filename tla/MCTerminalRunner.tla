-------------------------- MODULE MCTerminalRunner --------------------------
(* The runner with the capacity of its event channel lowered to the number *)
(* of goroutines that send on it.                                          *)
EXTENDS TerminalRunner
MCEventCap == 3
=============================================================================
