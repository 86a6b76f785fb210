--------------------------- MODULE LifecycleSurface ---------------------------
(***************************************************************************)
(* The device lifecycle as the application sees it: whether the device is   *)
(* claimed and talking, its network mailboxes, what the user asked for, and *)
(* whether its owner is busy.  Tokens, polls, back-offs and renewals are    *)
(* hidden.  DeviceLifecycle implements this module; AppControl is built on  *)
(* it.                                                                      *)
(***************************************************************************)
VARIABLES
  life,       \* lifecycle->state; the three states before the claim count as one
  available,  \* network_available
  loss,       \* network_loss_pending, or a loss on its way there
  asked,      \* conversation_requested
  stopAsked,  \* stop_request is set
  owner,      \* what the control owner is in the middle of
  current     \* no loss since the start request it waits for was sent

surfaceVars == <<life, available, loss, asked, stopAsked, owner, current>>

Lives == {"unclaimed", "runtime", "in_conversation"}

SurfaceTypeOK ==
  /\ life \in Lives
  /\ available \in BOOLEAN /\ loss \in BOOLEAN
  /\ asked \in BOOLEAN /\ stopAsked \in BOOLEAN /\ current \in BOOLEAN
  /\ owner \in {"idle", "tick", "starting", "ending", "busy"}

Talking == life = "in_conversation"

\* set_state(): the stop mailbox is emptied as a conversation is left.
SetLife(l) ==
  /\ life' = l
  /\ stopAsked' = (stopAsked /\ ~(Talking /\ l # life))

\* mybot_device_lifecycle_init(), with or without a stored credential.
Restart ==
  /\ life' \in {"unclaimed", "runtime"}
  /\ available' = TRUE /\ loss' = FALSE
  /\ asked' = FALSE /\ stopAsked' = FALSE
  /\ owner' = "idle" /\ current' = FALSE

\* set_network_available()
GoesOffline ==
  /\ available
  /\ available' = FALSE
  /\ loss' = TRUE
  /\ current' = FALSE
  /\ UNCHANGED <<life, asked, stopAsked, owner>>

GoesOnline ==
  /\ available' = TRUE
  /\ UNCHANGED <<life, loss, asked, stopAsked, owner, current>>

\* tick(): a pending loss comes first.  While the network is away a further
\* loss may be on its way.
ConsumesLoss ==
  /\ owner = "idle"
  /\ loss
  /\ loss' \in {FALSE, ~available}
  /\ asked' = FALSE
  /\ stopAsked' = FALSE
  /\ owner' = IF Talking THEN "ending" ELSE "idle"
  /\ UNCHANGED <<life, available, current>>

BeginsTick ==
  /\ owner = "idle"
  /\ loss => ~available
  /\ owner' = "tick"
  /\ UNCHANGED <<life, available, loss, asked, stopAsked, current>>

TicksOffline ==
  /\ owner = "tick"
  /\ ~available
  /\ asked' = FALSE
  /\ stopAsked' = FALSE
  /\ owner' = "idle"
  /\ UNCHANGED <<life, available, loss, current>>

SendsStart ==
  /\ owner = "tick"
  /\ available
  /\ life = "runtime"
  /\ asked
  /\ asked' = FALSE
  /\ stopAsked' = FALSE
  /\ current' = TRUE
  /\ owner' = "starting"
  /\ UNCHANGED <<life, available, loss>>

\* The answer counts only on the connection it was asked on.
StartAccepted ==
  /\ owner = "starting"
  /\ available /\ current
  /\ life' = "in_conversation"
  /\ stopAsked' \in {stopAsked, TRUE}
  /\ owner' = "idle"
  /\ current' = FALSE
  /\ UNCHANGED <<available, loss, asked>>

StartRefused ==
  /\ owner = "starting"
  /\ SetLife("unclaimed") \/ UNCHANGED <<life, stopAsked>>
  /\ owner' = "idle"
  /\ current' = FALSE
  /\ UNCHANGED <<available, loss, asked>>

\* Pairing and renewal, in the tick and in the calls it makes.
Works ==
  /\ owner \in {"tick", "busy"}
  /\ owner' \in {"idle", "busy"}
  /\ asked' \in {asked, FALSE}
  /\ \/ UNCHANGED <<life, stopAsked>>
     \/ ~Talking /\ SetLife("unclaimed")
  /\ UNCHANGED <<available, loss, current>>

\* A stop request, a refused credential or a re-pairing ends the conversation.
BeginsEnding ==
  /\ Talking
  /\ owner \in {"idle", "tick", "busy"}
  /\ owner' = "ending"
  /\ asked' \in {asked, FALSE}
  /\ stopAsked' \in {stopAsked, FALSE}
  /\ UNCHANGED <<life, available, loss, current>>

\* complete_conversation_locally() returns.
Ends ==
  /\ owner = "ending"
  /\ \E l \in {"runtime", "unclaimed"} : SetLife(l)
  /\ owner' \in {"idle", "busy"}
  /\ UNCHANGED <<available, loss, asked, current>>

\* service_result(): the claim is confirmed, or the credential refused.
Learns ==
  /\ owner = "idle"
  /\ available
  /\ ~Talking
  /\ \E l \in {"runtime", "unclaimed"} : SetLife(l)
  /\ UNCHANGED <<available, loss, asked, owner, current>>

AsksStart ==
  /\ owner = "idle"
  /\ available
  /\ life = "runtime"
  /\ asked' = TRUE
  /\ UNCHANGED <<life, available, loss, stopAsked, owner, current>>

\* request_stop() and the RTC callbacks, which come at any time.
AsksStop ==
  /\ Talking
  /\ stopAsked' = TRUE
  /\ UNCHANGED <<life, available, loss, asked, owner, current>>

ShutsDown ==
  /\ owner = "idle"
  /\ asked' = FALSE
  /\ stopAsked' = FALSE
  /\ owner' = IF Talking THEN "ending" ELSE "idle"
  /\ UNCHANGED <<life, available, loss, current>>

SurfaceInit ==
  /\ life \in {"unclaimed", "runtime"}
  /\ available = TRUE /\ loss = FALSE
  /\ asked = FALSE /\ stopAsked = FALSE
  /\ owner = "idle" /\ current = FALSE

SurfaceNext ==
  \/ Restart \/ GoesOffline \/ GoesOnline
  \/ ConsumesLoss \/ BeginsTick \/ TicksOffline \/ SendsStart
  \/ StartAccepted \/ StartRefused \/ Works
  \/ BeginsEnding \/ Ends \/ Learns
  \/ AsksStart \/ AsksStop \/ ShutsDown

SurfaceSpec == SurfaceInit /\ [][SurfaceNext]_surfaceVars
=============================================================================
