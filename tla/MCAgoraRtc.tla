----------------------------- MODULE MCAgoraRtc -----------------------------
(* AgoraRtc with three logins of one account and two conversations, one      *)
(* after the other: enough for an event of the first login to clear the      *)
(* second and for the third to meet the answer to it.                        *)
EXTENDS AgoraRtc

CONSTANTS alice, lobby
OneAccount == {alice}
OneChannel == {lobby}
=============================================================================
