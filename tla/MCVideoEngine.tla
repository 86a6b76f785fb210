---------------------------- MODULE MCVideoEngine ----------------------------
(* VideoEngine with the two threads that hold frames.                        *)
EXTENDS VideoEngine

Threads == {"camera", "transfer"}
=============================================================================
