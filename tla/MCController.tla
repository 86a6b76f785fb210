----------------------------- MODULE MCController -----------------------------
(* The controller, its network worker and the SDK, with a short event queue.   *)
EXTENDS Controller
=============================================================================
