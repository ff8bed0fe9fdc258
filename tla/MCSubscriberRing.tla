-------------------------- MODULE MCSubscriberRing --------------------------
(* Bounds for TLC: writes of one or two bytes.                             *)
EXTENDS SubscriberRing
MCChunks == {1, 2}
=============================================================================
