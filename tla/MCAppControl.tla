---------------------------- MODULE MCAppControl ----------------------------
(* A control queue with room for QueueCap more events: two suffice for a    *)
(* key press between Wi-Fi events and for the exit on a full queue.         *)
EXTENDS AppControl

=============================================================================
