-------------------------- MODULE MCDeviceLifecycle --------------------------
(* Small sets of names.  Pair tokens and conversations are interchangeable, *)
(* so the safety runs use their symmetry; a liveness run must not.          *)
EXTENDS DeviceLifecycle, TLC

Symmetry == Permutations(Tokens) \cup Permutations(Conversations)
=============================================================================
