----------------------------- MODULE MCTerminalStop -----------------------------
EXTENDS TerminalStop

MCKinds == {"terminal", "client"}
=============================================================================
