-------------------------- MODULE MCTerminalClients --------------------------
(* Clients that attach with an ID of their own, or all with the same.      *)
EXTENDS TerminalClients
MCOwnID == [c \in Conns |-> c]
MCSameID == [c \in Conns |-> "id"]
=============================================================================
