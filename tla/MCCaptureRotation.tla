-------------------------- MODULE MCCaptureRotation --------------------------
(* Segments of two writes; two closed segments or four writes are kept.     *)
EXTENDS CaptureRotation
=============================================================================
