------------------------------ MODULE MCTransfer ------------------------------
(* NetworkTransfer over either back end: the network thread that starts it,    *)
(* the key thread that stops it.                                               *)
EXTENDS NetworkTransfer
=============================================================================
