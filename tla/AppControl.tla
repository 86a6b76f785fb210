----------------------------- MODULE AppControl -----------------------------
(***************************************************************************)
(* core/mybot_app.c around the device lifecycle: mybot_start() and          *)
(* mybot_stop(), the control worker that owns the application state of      *)
(* core/mybot_state_model.c, and the platform threads that feed it.         *)
(*                                                                          *)
(* Wi-Fi changes reach the lifecycle on two paths.  Once the services run,  *)
(* the Wi-Fi thread publishes to the lifecycle at once and queues the event *)
(* for the application state; before that the queued event does both.      *)
(* The lifecycle itself is LifecycleSurface, which DeviceLifecycle          *)
(* implements.  The order in which the worker takes queued events and timer *)
(* ticks is the queue library's; every order is allowed here.               *)
(***************************************************************************)
EXTENDS LifecycleSurface, Naturals, Sequences

CONSTANT QueueCap   \* admissions the control queue has left
ASSUME QueueAssumption == QueueCap \in Nat \ {0}

VARIABLES
  runPhase, online, shown,  \* the state-model snapshot: phase, network, device state
  running,                  \* runtime_is_running(): no exit has been published
  held,                     \* aosl_ref_held: a run is active or not fully released
  gate,                     \* the call that holds the start/stop gate
  worker,                   \* where the control worker stands
  events,                   \* its queue
  initialized,              \* lifecycle_initialized, and the tick timer
  service,                  \* the service queue and its worker exist
  wake,                     \* wake words are listened for
  keys, key,                \* key source attached; the handler call in flight
  wifi, wifiPc, wifiEvent, published,   \* likewise for Wi-Fi
  link                      \* what the platform has reported last

snapshotVars == <<runPhase, online, shown>>
apiVars      == <<held, gate>>
workerVars   == <<worker, initialized, service, wake>>
keyVars      == <<keys, key>>
wifiVars     == <<wifi, wifiPc, wifiEvent, published, link>>
vars == <<surfaceVars, snapshotVars, running, apiVars, workerVars, events, keyVars, wifiVars>>

WifiEvents == {"connected", "disconnected", "failed"}
KeyEvents == {"start", "stop"}
Events == [type : {"wifi"}, event : WifiEvents, published : BOOLEAN]
            \cup [type : {"key"}, event : KeyEvents, published : {FALSE}]

\* project_app_state()
Project(phase, up, device) ==
  IF phase # "running" THEN phase
  ELSE IF ~up THEN "disconnected"
  ELSE CASE device = "runtime"   -> "ready"
         [] device = "unclaimed" -> "pairing"
         [] OTHER                -> device

AppState == Project(runPhase, online, shown)

ServingStates == {"ready", "pairing", "in_conversation", "disconnected"}

\* A full queue makes the application exit instead of losing the event.
Post(e) ==
  IF Len(events) < QueueCap
    THEN events' = Append(events, e) /\ UNCHANGED running
    ELSE running' = FALSE /\ UNCHANGED events

\* sync_wake_words()
SyncWake(phase, up, device) == wake' = (Project(phase, up, device) = "ready")

-----------------------------------------------------------------------------
(* The platform's Wi-Fi thread: on_wifi_event(), one call at a time and in  *)
(* transition order.                                                        *)

Transition(e) ==
  /\ e = "connected" => link # "up"
  /\ e = "disconnected" => link = "up"
  /\ e = "failed" => link # "down"
  /\ link' = IF e = "connected" THEN "up" ELSE "down"

WifiEmitsDroppingWhileStarting ==
  /\ wifi /\ wifiPc = "idle"
  /\ \E e \in WifiEvents : Transition(e) /\ wifiEvent' = e
  /\ published' = (AppState \in ServingStates)
  /\ wifiPc' = IF ~running \/ AppState \in {"starting", "stopping", "failed", "stopped"} THEN "idle"
               ELSE IF published' THEN "publish" ELSE "queue"
  /\ UNCHANGED <<surfaceVars, snapshotVars, running, apiVars, workerVars, events, keyVars, wifi>>

WifiEmits ==
  /\ wifi /\ wifiPc = "idle"
  /\ \E e \in WifiEvents : Transition(e) /\ wifiEvent' = e
  /\ published' = (AppState \in ServingStates)
  /\ wifiPc' = IF ~running \/ AppState \in {"stopping", "failed", "stopped"} THEN "idle"
               ELSE IF published' THEN "publish" ELSE "queue"
  /\ UNCHANGED <<surfaceVars, snapshotVars, running, apiVars, workerVars, events, keyVars, wifi>>

\* set_network_available() with what an event says.
TellLifecycleOfDisconnection(event) ==
  IF event = "connected" THEN GoesOnline
  ELSE IF available /\ event = "disconnected" THEN GoesOffline ELSE UNCHANGED surfaceVars

TellLifecycle(event) ==
  IF event = "connected" THEN GoesOnline
  ELSE IF available THEN GoesOffline ELSE UNCHANGED surfaceVars

WifiPublishes ==
  /\ wifiPc = "publish"
  /\ TellLifecycle(wifiEvent)
  /\ wifiPc' = "queue"
  /\ UNCHANGED <<snapshotVars, running, apiVars, workerVars, events, keyVars, wifi, wifiEvent,
                 published, link>>

WifiQueues ==
  /\ wifiPc = "queue"
  /\ Post([type |-> "wifi", event |-> wifiEvent, published |-> published])
  /\ wifiPc' = "idle"
  /\ UNCHANGED <<surfaceVars, snapshotVars, apiVars, workerVars, keyVars, wifi, wifiEvent,
                 published, link>>

-----------------------------------------------------------------------------
(* The key thread, and the capture thread that hears a wake word            *)

KeyPressed ==
  /\ keys /\ key = "none"
  /\ running
  /\ \/ AppState = "ready" /\ key' = "start"
     \/ AppState = "in_conversation" /\ key' = "stop"
  /\ UNCHANGED <<surfaceVars, snapshotVars, running, apiVars, workerVars, events, keys, wifiVars>>

KeyQueuesWhenRoom ==
  /\ key # "none"
  /\ Len(events) < QueueCap
  /\ events' = Append(events, [type |-> "key", event |-> key, published |-> FALSE])
  /\ key' = "none"
  /\ UNCHANGED <<surfaceVars, snapshotVars, running, apiVars, workerVars, keys, wifiVars>>

KeyQueues ==
  /\ key # "none"
  /\ Post([type |-> "key", event |-> key, published |-> FALSE])
  /\ key' = "none"
  /\ UNCHANGED <<surfaceVars, snapshotVars, apiVars, workerVars, keys, wifiVars>>

ExitPressed ==
  /\ keys /\ key = "none"
  /\ running
  /\ running' = FALSE
  /\ UNCHANGED <<surfaceVars, snapshotVars, apiVars, workerVars, events, keyVars, wifiVars>>

-----------------------------------------------------------------------------
(* The control worker: ticks, service results and the blocking calls they   *)
(* make.  on_state_changed() copies the lifecycle's state into the snapshot *)
(* unless the application is exiting.                                       *)

ShowLife ==
  IF running /\ life' # life
    THEN shown' = life' /\ SyncWake(runPhase, online, life')
    ELSE UNCHANGED <<shown, wake>>

\* Answers come over the link only.
OwnerStep ==
  \/ TicksOffline \/ SendsStart \/ StartRefused \/ Works \/ Ends
  \/ link = "up" /\ StartAccepted
  \/ owner # "idle" /\ BeginsEnding

LifecycleStep ==
  /\ worker = "loop"
  /\ initialized
  /\ \/ running /\ (ConsumesLoss \/ BeginsTick \/ Learns)
     \/ running /\ owner = "idle" /\ BeginsEnding
     \/ OwnerStep
  /\ ShowLife
  /\ UNCHANGED <<runPhase, online, running, apiVars, worker, initialized, service, events,
                 keyVars, wifiVars>>

\* RTC reports an end, from its own thread.
RtcAsksStop ==
  /\ worker = "loop"
  /\ initialized
  /\ AsksStop
  /\ UNCHANGED <<snapshotVars, running, apiVars, workerVars, events, keyVars, wifiVars>>

-----------------------------------------------------------------------------
(* Queued events                                                            *)

Take(type) ==
  /\ worker = "loop" /\ owner = "idle"
  /\ events # <<>>
  /\ Head(events).type = type
  /\ events' = Tail(events)

\* The state is looked at again: it may have changed since the key was pressed.
HandleKey ==
  /\ Take("key")
  /\ LET start == Head(events).event = "start"
     IN  IF running /\ start /\ AppState = "ready" /\ available /\ life = "runtime"
           THEN AsksStart
         ELSE IF running /\ ~start /\ AppState = "in_conversation" /\ Talking
           THEN AsksStop
         ELSE UNCHANGED surfaceVars
  /\ UNCHANGED <<snapshotVars, running, apiVars, workerVars, keyVars, wifiVars>>

ShowNetworkWithoutWake(up) ==
  /\ online' = up
  /\ shown' = IF shown = "in_conversation" THEN "runtime" ELSE shown
  /\ UNCHANGED <<runPhase, wake>>

\* set_network() of the state model: a conversation is never shown across a change.
ShowNetwork(up) ==
  /\ online' = up
  /\ shown' = IF shown = "in_conversation" THEN "runtime" ELSE shown
  /\ SyncWake(runPhase, up, shown')
  /\ UNCHANGED runPhase

WifiIgnored ==
  /\ ~running \/ AppState \in {"stopping", "failed"}
  /\ UNCHANGED <<surfaceVars, snapshotVars, running, worker, wake>>

WifiFailsStart(event) ==
  /\ event = "failed" /\ AppState = "provisioning"
  /\ runPhase' = "failed" /\ online' = FALSE
  /\ running' = FALSE
  /\ UNCHANGED <<shown, worker, wake>>

WifiLost(event) ==
  /\ event # "connected" /\ AppState \in ServingStates \ {"disconnected"}
  /\ ShowNetwork(FALSE)
  /\ UNCHANGED <<running, worker>>

WifiRestored(event) ==
  /\ event = "connected" /\ AppState = "disconnected"
  /\ ShowNetwork(TRUE)
  /\ UNCHANGED <<running, worker>>

\* begin_services()
WifiBeginsServices(event) ==
  /\ event = "connected" /\ AppState = "provisioning"
  /\ runPhase' = "starting" /\ online' = TRUE
  /\ worker' = "services"
  /\ UNCHANGED <<shown, running, wake>>

WifiShowsNothing(event) ==
  /\ IF event = "connected"
       THEN AppState \notin {"disconnected", "provisioning"}
       ELSE AppState \notin ServingStates \ {"disconnected"}
  /\ ~(event = "failed" /\ AppState = "provisioning")
  /\ UNCHANGED <<snapshotVars, running, worker, wake>>

HandleWifi ==
  /\ Take("wifi")
  /\ LET e == Head(events).event
     IN  \/ WifiIgnored
         \/ /\ running /\ AppState \notin {"stopping", "failed"}
            /\ IF initialized /\ ~Head(events).published
                 THEN TellLifecycle(e)
                 ELSE UNCHANGED surfaceVars
            /\ \/ WifiFailsStart(e) \/ WifiLost(e) \/ WifiRestored(e)
               \/ WifiBeginsServices(e) \/ WifiShowsNothing(e)
  /\ UNCHANGED <<apiVars, initialized, service, keyVars, wifiVars>>

-----------------------------------------------------------------------------
(* start_services(): each step may fail, and the failure stops what the     *)
(* steps before it started.                                                 *)

ServicesAttachKeys ==
  /\ worker = "services" /\ ~keys
  /\ keys' = TRUE
  /\ UNCHANGED <<surfaceVars, snapshotVars, running, apiVars, workerVars, events, key, wifiVars>>

ServicesReady ==
  /\ worker = "services" /\ keys
  /\ Restart
  /\ service' = TRUE
  /\ initialized' = TRUE
  /\ runPhase' = "running"
  /\ shown' = IF running THEN life' ELSE shown
  /\ SyncWake("running", online, shown')
  /\ worker' = "loop"
  /\ UNCHANGED <<online, running, apiVars, events, keyVars, wifiVars>>

\* A service queue that cannot be destroyed is kept for mybot_stop() to try again.
ServicesFail ==
  /\ worker = "services"
  /\ key = "none"
  /\ keys' = FALSE
  /\ service' \in BOOLEAN
  /\ runPhase' = "failed" /\ online' = FALSE
  /\ running' = FALSE
  /\ worker' = "loop"
  /\ UNCHANGED <<surfaceVars, shown, apiVars, initialized, wake, events, key, wifiVars>>

-----------------------------------------------------------------------------
(* mybot_start() and handle_control_start()                                 *)

StartCalled ==
  /\ gate = "none" /\ ~held
  /\ gate' = "start"
  /\ held' = TRUE
  /\ running' = FALSE
  /\ worker' = "start"
  /\ UNCHANGED <<surfaceVars, snapshotVars, initialized, service, wake, events, keyVars, wifiVars>>

ControlStarts ==
  /\ worker = "start"
  /\ runPhase' = "provisioning" /\ online' = FALSE /\ shown' = "unclaimed"
  /\ running' = TRUE
  /\ wifi' = TRUE /\ link' = "unknown"
  /\ worker' = "started"
  /\ UNCHANGED <<surfaceVars, apiVars, initialized, service, wake, events, keyVars, wifiPc,
                 wifiEvent, published>>

\* The presenter or the Wi-Fi monitor cannot be initialized.
ControlStartFails ==
  /\ worker = "start"
  /\ runPhase' = "failed" /\ online' = FALSE /\ shown' = "unclaimed"
  /\ running' = FALSE
  /\ worker' = "loop"
  /\ UNCHANGED <<surfaceVars, apiVars, initialized, service, wake, events, keyVars, wifiVars>>

\* An exit published meanwhile fails the start, and mybot_start() cleans up.
ControlStarted ==
  /\ worker = "started"
  /\ worker' = "loop"
  /\ gate' = IF running THEN "none" ELSE gate
  /\ UNCHANGED <<surfaceVars, snapshotVars, running, held, initialized, service, wake, events,
                 keyVars, wifiVars>>

-----------------------------------------------------------------------------
(* mybot_stop(): the worker finishes its item, then its finalizer runs      *)
(* control_stop_runtime().                                                  *)

StopCalled ==
  /\ gate = "none" /\ held
  /\ gate' = "stop"
  /\ running' = FALSE
  /\ UNCHANGED <<surfaceVars, snapshotVars, held, workerVars, events, keyVars, wifiVars>>

FiniBegins ==
  /\ worker = "loop" /\ owner = "idle"
  /\ gate # "none"
  /\ runPhase' = "stopping" /\ online' = FALSE
  /\ running' = FALSE
  /\ worker' = "keys"
  /\ UNCHANGED <<surfaceVars, shown, apiVars, initialized, service, wake, events, keyVars, wifiVars>>

\* mybot_key_deinit() waits for the handler in flight; media stops; shutdown()
\* ends the conversation.
FiniKeysKeepingConversation ==
  /\ worker = "keys"
  /\ key = "none"
  /\ keys' = FALSE
  /\ wake' = FALSE
  /\ worker' = "shutdown"
  /\ UNCHANGED <<surfaceVars, snapshotVars, running, apiVars, initialized, service, events, key,
                 wifiVars>>

FiniKeys ==
  /\ worker = "keys"
  /\ key = "none"
  /\ keys' = FALSE
  /\ wake' = FALSE
  /\ IF initialized THEN ShutsDown ELSE UNCHANGED surfaceVars
  /\ worker' = "shutdown"
  /\ UNCHANGED <<snapshotVars, running, apiVars, initialized, service, events, key, wifiVars>>

FiniEnds ==
  /\ worker = "shutdown"
  /\ Ends
  /\ owner' = "idle"
  /\ UNCHANGED <<snapshotVars, running, apiVars, workerVars, events, keyVars, wifiVars>>

\* destroy_service_queue() may fail; the queue is then kept for a later try.
FiniService ==
  /\ worker = "shutdown" /\ owner = "idle"
  /\ initialized' = FALSE
  /\ service' \in {service, FALSE}
  /\ worker' = "wifi"
  /\ UNCHANGED <<surfaceVars, snapshotVars, running, apiVars, wake, events, keyVars, wifiVars>>

\* mybot_wifi_deinit() waits for the callback in flight.
FiniWifi ==
  /\ worker = "wifi"
  /\ wifiPc = "idle"
  /\ wifi' = FALSE
  /\ runPhase' = "stopped" /\ online' = FALSE /\ shown' = "unclaimed"
  /\ events' = <<>>
  /\ worker' = "none"
  /\ UNCHANGED <<surfaceVars, running, apiVars, initialized, service, wake, keyVars, wifiPc,
                 wifiEvent, published, link>>

\* The reference is released only once the service worker is gone too.
CallReturns ==
  /\ gate # "none" /\ worker = "none"
  /\ service' \in {service, FALSE}
  /\ held' = service'
  /\ gate' = "none"
  /\ UNCHANGED <<surfaceVars, snapshotVars, running, worker, initialized, wake, events, keyVars,
                 wifiVars>>

-----------------------------------------------------------------------------

Init ==
  /\ SurfaceInit /\ life = "unclaimed"
  /\ runPhase = "stopped" /\ online = FALSE /\ shown = "unclaimed"
  /\ running = FALSE /\ held = FALSE /\ gate = "none"
  /\ worker = "none" /\ initialized = FALSE /\ service = FALSE /\ wake = FALSE
  /\ events = <<>>
  /\ keys = FALSE /\ key = "none"
  /\ wifi = FALSE /\ wifiPc = "idle" /\ wifiEvent = "connected" /\ published = FALSE
  /\ link = "unknown"

Wifi == WifiEmits \/ WifiPublishes \/ WifiQueues
Key == KeyPressed \/ KeyQueues \/ ExitPressed
Worker ==
  \/ LifecycleStep \/ HandleKey \/ HandleWifi
  \/ ServicesAttachKeys \/ ServicesReady \/ ServicesFail
  \/ ControlStarts \/ ControlStartFails \/ ControlStarted
Fini == FiniBegins \/ FiniKeys \/ FiniEnds \/ FiniService \/ FiniWifi
Api == StartCalled \/ StopCalled \/ CallReturns

Next == Wifi \/ Key \/ Worker \/ RtcAsksStop \/ Fini \/ Api

Spec == Init /\ [][Next]_vars

\* Callbacks never block, every blocking call of the worker returns (the
\* lifecycle's own OwnerReturns), and the queue and its timer are both served.
Fairness ==
  /\ WF_vars(WifiPublishes \/ WifiQueues)
  /\ WF_vars(KeyQueues)
  /\ WF_vars(LifecycleStep /\ OwnerStep /\ owner' = "idle")
  /\ SF_vars(LifecycleStep /\ ConsumesLoss)
  /\ SF_vars(HandleKey \/ HandleWifi)
  /\ WF_vars(ServicesAttachKeys \/ ServicesReady \/ ServicesFail)
  /\ WF_vars(ControlStarts \/ ControlStartFails \/ ControlStarted)
  /\ SF_vars(FiniBegins)
  /\ WF_vars(FiniKeys \/ FiniEnds \/ FiniService \/ FiniWifi)
  /\ WF_vars(CallReturns)

FairSpec == Spec /\ Fairness

-----------------------------------------------------------------------------
(* Properties                                                               *)

TypeOK ==
  /\ SurfaceTypeOK
  /\ runPhase \in {"stopped", "provisioning", "starting", "running", "failed", "stopping"}
  /\ online \in BOOLEAN /\ shown \in Lives
  /\ running \in BOOLEAN /\ held \in BOOLEAN /\ gate \in {"none", "start", "stop"}
  /\ worker \in {"none", "start", "started", "loop", "services", "keys", "shutdown", "wifi"}
  /\ initialized \in BOOLEAN /\ service \in BOOLEAN /\ wake \in BOOLEAN
  /\ events \in Seq(Events) /\ Len(events) <= QueueCap
  /\ keys \in BOOLEAN /\ key \in KeyEvents \cup {"none"}
  /\ wifi \in BOOLEAN /\ wifiPc \in {"idle", "publish", "queue"}
  /\ wifiEvent \in WifiEvents /\ published \in BOOLEAN
  /\ link \in {"unknown", "up", "down"}

\* The application never shows a conversation that is over, a claim that is
\* gone, or a pairing that is done: it can only be early in calling a
\* conversation over, when the network changed.
ShownIsNeverBehind ==
  running /\ initialized /\ shown # life => shown = "runtime" /\ Talking

WifiSettled ==
  /\ wifiPc = "idle"
  /\ \A i \in 1..Len(events) : events[i].type # "wifi"

\* Whatever phase an event finds the application in, and on either path, the
\* connectivity shown is the link's once no event is on its way.
OnlineFollowsLink ==
  running /\ runPhase = "running" /\ WifiSettled => (online <=> link = "up")

\* What the application shows is what its lifecycle and its link are.
StateShown == ShownIsNeverBehind /\ OnlineFollowsLink

\* Wake words are listened for exactly while a conversation can be started.
WakeWordsWhenReady ==
  running /\ worker = "loop" => (wake <=> AppState = "ready")

\* After mybot_stop(), and after a failed mybot_start(), nothing of the run is
\* left: no worker, no handler in flight, no conversation.
QuietWhenStopped ==
  gate = "none" /\ ~held =>
    /\ worker = "none" /\ ~service /\ ~initialized /\ ~wake
    /\ ~keys /\ key = "none"
    /\ ~wifi /\ wifiPc = "idle"
    /\ ~running /\ AppState = "stopped"
    /\ owner = "idle" /\ ~Talking

\* mybot_start() and mybot_stop() return: the callbacks they wait for never
\* wait for them.
CallsReturn == gate # "none" ~> gate = "none"

\* On either path a lost link ends the conversation, unless it is back.
LinkLossEndsConversation ==
  Talking /\ running /\ link = "down" ~> ~Talking \/ ~running \/ link = "up"
=============================================================================
