---------------------------- MODULE MCRingBuffer ----------------------------
(* A ring of three usable bytes and chunks of up to three: every wrap       *)
(* position occurs, and the stream is long enough to go round twice.        *)
EXTENDS RingBuffer

=============================================================================
