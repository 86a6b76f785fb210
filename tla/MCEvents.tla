------------------------------- MODULE MCEvents -------------------------------
(* AppEvent with every source and a queue that is easily full.                 *)
EXTENDS AppEvent
=============================================================================
