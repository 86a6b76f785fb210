------------------------------- MODULE MCMedia -------------------------------
(* MediaPipeline with two connections, in one conversation or in two.        *)
EXTENDS MediaPipeline
=============================================================================
