------------------------------ MODULE Controller ------------------------------
(***************************************************************************)
(* mybot_controller_bk725x.c with mybot_event.c, mybot_connectivity_bk725x.c *)
(* and the Wi-Fi adapter: the port's main loop starts NetworkWorker or       *)
(* Provisioning, starts and stops the SDK on it, and tells the SDK what the  *)
(* network worker says of the link, until either fails.                      *)
(*                                                                           *)
(* mybot_start() and mybot_stop() run while the controller waits for them,   *)
(* so the subscription they make and remove never meets a publication, and   *)
(* the locks and user counts of the connectivity module are left out.  The   *)
(* SDK, with its handler of these events, is AppControl; here it fails when  *)
(* it likes.                                                                 *)
(***************************************************************************)
EXTENDS NetworkWorker, Provisioning

CONSTANT QueueCap          \* MYBOT_EVENT_QUEUE_DEPTH

ASSUME ControllerAssumption == QueueCap \in Nat \ {0}

VARIABLES
  at,                \* where controller_run() is
  then,              \* what follows a stop
  queue,             \* s_event_queue
  requested,         \* runtime.provision_requested
  polled,            \* the local connected of controller_run()
  sdk,               \* the SDK: "stopped", "running" or "failed"
  published,         \* s_connected
  heard              \* s_subscription with its last_event, or None

runVars == <<at, then>>
buttonVars == <<queue, requested>>
sdkVars == <<sdk, heard>>
controllerVars == <<runVars, buttonVars, polled, sdkVars, published>>
workerVars == <<context, stopping, attached, owned, scan, connected, worker>>
provisioningVars == <<ownership, station, scanning, ap, lists, exiting, state, portalWorker, candidate>>
wifiVars == <<workerVars, provisioningVars, link>>
vars == <<wifiVars, controllerVars>>

None == "none"
Presses == {"request", "other"}     \* the others go to the SDK's keys
Event(up) == IF up THEN "connected" ELSE "disconnected"

-----------------------------------------------------------------------------
(* The buttons, and mybot_event.c                                            *)

\* mybot_event_post(): a press that does not fit is lost.
Press ==
  /\ at # "exited"
  /\ \E p \in Presses : queue' = IF Len(queue) < QueueCap THEN Append(queue, p) ELSE queue
  /\ UNCHANGED <<wifiVars, runVars, requested, polled, sdkVars, published>>

\* controller_wait_for_button()
WaitForButton ==
  IF queue = <<>> THEN UNCHANGED buttonVars
  ELSE queue' = Tail(queue) /\ requested' = (requested \/ Head(queue) = "request")

-----------------------------------------------------------------------------
(* mybot_connectivity_bk725x.c                                               *)

\* mybot_connectivity_publish(): the event of a subscriber is its last one.
Publish(up) == published' = up /\ heard' = IF heard = None THEN None ELSE Event(up)

\* mybot_connectivity_subscribe() without a snapshot
SubscribeBlind == heard' = "nothing"

\* mybot_connectivity_subscribe(): a subscriber hears at once that there is a connection.
Subscribe == heard' = IF published THEN Event(TRUE) ELSE "nothing"

-----------------------------------------------------------------------------
(* controller_run()                                                          *)

\* ensure_network()
Ensure ==
  /\ at = "ensure"
  /\ \/ (requested \/ stored = <<>>) /\ at' = "leave" /\ UNCHANGED <<published, heard>>
     \/ ~requested /\ at' = "cleanup" /\ UNCHANGED <<published, heard>>
     \/ ~requested /\ stored # <<>> /\ at' = "start" /\ Publish(FALSE)
  /\ UNCHANGED <<wifiVars, then, buttonVars, polled, sdk>>

Start ==
  /\ at = "start"
  /\ \/ StartNetwork /\ at' = "await"
     \/ StartNetworkFails /\ at' = "cleanup"
  /\ UNCHANGED <<provisioningVars, then, buttonVars, polled, sdkVars, published>>

Await ==
  /\ at = "await"
  /\ \/ connected /\ Publish(TRUE) /\ at' = "prompt" /\ UNCHANGED buttonVars
     \/ ~connected /\ requested /\ at' = "leave" /\ UNCHANGED <<buttonVars, published, heard>>
     \/ ~connected /\ ~requested /\ WaitForButton /\ UNCHANGED <<at, published, heard>>
  /\ UNCHANGED <<wifiVars, then, polled, sdk>>

\* start_sdk(), after the prompt has been played to its end
Prompt ==
  /\ at = "prompt"
  /\ Publish(TRUE) /\ at' = "boot"
  /\ UNCHANGED <<wifiVars, then, buttonVars, polled, sdk>>

Boot ==
  /\ at = "boot"
  /\ \/ sdk' = "running" /\ Subscribe /\ polled' = TRUE /\ at' = "run"
     \/ at' = "cleanup" /\ UNCHANGED <<sdkVars, polled>>
  /\ UNCHANGED <<wifiVars, then, buttonVars, published>>

Run ==
  /\ at = "run"
  /\ \/ sdk = "running" /\ WaitForButton /\ at' = "poll"
     \/ sdk # "running" /\ at' = "end" /\ UNCHANGED buttonVars
  /\ UNCHANGED <<wifiVars, then, polled, sdkVars, published>>

\* A running SDK is left for its failure only.
PollDeaf ==
  /\ at = "poll"
  /\ polled' = connected
  /\ IF connected # polled THEN Publish(connected) ELSE UNCHANGED <<published, heard>>
  /\ at' = IF sdk = "failed" THEN "end" ELSE "run"
  /\ UNCHANGED <<wifiVars, then, buttonVars, sdk>>

\* publish_network_transition(), and the conditions that leave the loop
Poll ==
  /\ at = "poll"
  /\ polled' = connected
  /\ IF connected # polled THEN Publish(connected) ELSE UNCHANGED <<published, heard>>
  /\ at' = IF sdk = "failed" \/ requested THEN "end" ELSE "run"
  /\ UNCHANGED <<wifiVars, then, buttonVars, sdk>>

StopSdk == sdk' = "stopped" /\ heard' = None

End ==
  /\ at = "end"
  /\ StopSdk
  /\ at' = IF requested THEN "leave" ELSE "cleanup"
  /\ UNCHANGED <<wifiVars, then, buttonVars, polled, published>>

SdkFails ==
  /\ sdk = "running" /\ sdk' = "failed"
  /\ UNCHANGED <<wifiVars, runVars, buttonVars, polled, heard, published>>

-----------------------------------------------------------------------------
(* stop_network() and provision_network(), controller_cleanup()              *)

\* The stops of the two ask their worker to leave, and then wait for it.
StopOfNetwork(next) ==
  IF context THEN RequestStop /\ UNCHANGED provisioningVars /\ at' = "join" /\ then' = next
  ELSE at' = next /\ UNCHANGED <<wifiVars, then>>

StopOfPortal(next) ==
  IF portal THEN RequestPortalStop /\ UNCHANGED workerVars /\ at' = "join portal" /\ then' = next
  ELSE at' = next /\ UNCHANGED <<wifiVars, then>>

LeaveNetwork ==
  /\ at = "leave"
  /\ Publish(FALSE) /\ StopOfNetwork("provision")
  /\ UNCHANGED <<buttonVars, polled, sdk>>

Cleanup ==
  /\ at = "cleanup"
  /\ StopSdk /\ published' = FALSE
  /\ StopOfNetwork("drop")
  /\ UNCHANGED <<buttonVars, polled>>

Drop ==
  /\ at = "drop"
  /\ StopOfPortal("exited")
  /\ UNCHANGED <<buttonVars, polled, sdkVars, published>>

\* The provisioning is started even when the network could not be stopped.
JoinHeedless ==
  /\ at = "join"
  /\ StopNetwork
  /\ at' = then /\ then' = None
  /\ UNCHANGED <<provisioningVars, buttonVars, polled, sdkVars, published>>

Join ==
  /\ at = "join"
  /\ StopNetwork
  /\ at' = IF context' /\ then = "provision" THEN "cleanup" ELSE then
  /\ then' = None
  /\ UNCHANGED <<provisioningVars, buttonVars, polled, sdkVars, published>>

Provision ==
  /\ at = "provision"
  /\ \/ StartPortal /\ at' = "provisioning"
     \/ StartPortalFails /\ at' = "cleanup"
  /\ UNCHANGED <<workerVars, then, buttonVars, polled, sdkVars, published>>

\* What has failed is stopped before the cleanup stops it again.
Provisioning ==
  /\ at = "provisioning"
  /\ \/ state = "running" /\ WaitForButton /\ UNCHANGED <<at, then, wifiVars>>
     \/ state = "completed" /\ StopOfPortal("ensure") /\ UNCHANGED buttonVars
     \/ state = "failed" /\ StopOfPortal("cleanup") /\ UNCHANGED buttonVars
  /\ UNCHANGED <<polled, sdkVars, published>>

\* The request is met once the provisioning has left nothing behind.
JoinPortal ==
  /\ at = "join portal"
  /\ StopPortal
  /\ at' = IF portal' /\ then = "ensure" THEN "cleanup" ELSE then
  /\ then' = None
  /\ requested' = (requested /\ at' # "ensure")
  /\ UNCHANGED <<workerVars, queue, polled, sdkVars, published>>

-----------------------------------------------------------------------------
Init ==
  /\ NetworkInit /\ PortalInit
  /\ at = "ensure" /\ then = None
  /\ queue = <<>> /\ requested = FALSE
  /\ polled = FALSE /\ sdk = "stopped" /\ published = FALSE /\ heard = None

Control ==
  \/ Ensure \/ Start \/ Await \/ Prompt \/ Boot \/ Run \/ Poll \/ End
  \/ LeaveNetwork \/ Join \/ Provision \/ Provisioning \/ JoinPortal \/ Cleanup \/ Drop

Station == LinkMoves /\ UNCHANGED <<workerVars, provisioningVars, controllerVars>>
NetworkStep == Worker /\ UNCHANGED <<provisioningVars, controllerVars>>
PortalStep == Portal /\ UNCHANGED <<workerVars, controllerVars>>
Next == Control \/ Station \/ NetworkStep \/ PortalStep \/ Press \/ SdkFails
Spec == Init /\ [][Next]_vars

\* The threads are scheduled and what they wait for times out; a driver that is asked
\* again and again to start the station does so at last.
FairSpec ==
  /\ Spec
  /\ WF_vars(Control)
  /\ WF_vars(NetworkStep)
  /\ WF_vars(PortalStep)
  /\ SF_vars(NetworkStep /\ worker = "connect" /\ worker' = "wait for ip")

-----------------------------------------------------------------------------
(* Properties                                                                *)

ControlTypeOK ==
  /\ at \in {"ensure", "start", "await", "prompt", "boot", "run", "poll", "end", "leave", "join",
             "provision", "provisioning", "join portal", "cleanup", "drop", "exited"}
  /\ then \in {None, "provision", "drop", "ensure", "cleanup", "exited"}
  /\ queue \in Seq(Presses) /\ Len(queue) <= QueueCap
  /\ requested \in BOOLEAN
  /\ polled \in BOOLEAN /\ published \in BOOLEAN
  /\ sdk \in {"stopped", "running", "failed"}
  /\ heard \in {None, "nothing", Event(TRUE), Event(FALSE)}

TypeOK == NetworkTypeOK /\ PortalTypeOK /\ ControlTypeOK

\* The SDK knows what the controller last found, from the moment it is started: no
\* change that came before its subscription, or during it, is missed.
SdkIsTold ==
  heard # None => (published <=> heard = Event(TRUE)) /\ (published <=> polled)

\* The two users of the Wi-Fi never share it, whatever the driver refused to stop: one
\* has a context only while the other has none, the SDK does not run on an access point,
\* and the network starts on a Wi-Fi that the provisioning has given back.
ModesApart ==
  /\ ~(context /\ portal)
  /\ portal => sdk = "stopped" /\ ~published
  /\ state = "completed" => ~ap /\ ~scanning /\ ~station

\* An SDK that runs has a worker that watches its link; both workers, the callbacks of
\* the driver and what it still runs have their context.
NetworkServesSdk ==
  /\ ContextOutlivesUsers /\ PortalOutlivesUsers
  /\ heard # None => ~stopping /\ worker \notin {Absent, "leave", "ended"}

\* What happens to the link reaches the SDK, over the worker's flag, the controller's
\* poll and the subscription, unless the link changes again or the SDK is stopped.
LinkReachesSdk ==
  \A up \in BOOLEAN :
    (heard # None /\ (link = Linked <=> up)) ~>
      (heard \in {None, Event(up)} \/ (link = Linked <=> ~up))

\* A request that found its place in the queue leads to a provisioning, whatever the
\* controller was doing and however full the queue, unless the controller gives up.
RequestHonoured ==
  (requested \/ \E i \in DOMAIN queue : queue[i] = "request")
    ~> at \in {"provisioning", "join portal", "exited"}
=============================================================================
