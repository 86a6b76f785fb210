-------------------------- MODULE AppControlProofs --------------------------
(***************************************************************************)
(* What the application shows is what its lifecycle and its link are, wake  *)
(* words are listened for exactly while a conversation can be started, and  *)
(* nothing of a run is left after it, for any room in the control queue.    *)
(***************************************************************************)
EXTENDS AppControl, SequenceTheorems, TLAPS

USE DEF surfaceVars, snapshotVars, apiVars, workerVars, keyVars, wifiVars

-----------------------------------------------------------------------------
(* The inductive invariant                                                   *)

\* Which call holds the gate, by where the worker stands.
GateFits ==
  /\ ~held => gate = "none" /\ worker = "none" /\ ~service
  /\ worker \in {"start", "started"} => gate = "start"
  /\ worker \in {"keys", "shutdown", "wifi"} => gate # "none"

\* The phase that is shown, by where the worker stands; only a start runs.
PhaseFits ==
  /\ running => /\ worker \in {"started", "loop", "services"}
                /\ runPhase \in {"provisioning", "starting", "running"}
  /\ running /\ runPhase = "starting" => worker = "services"
  /\ worker = "started" => runPhase = "provisioning"
  /\ worker = "services" => runPhase = "starting" /\ online
  /\ worker = "none" => runPhase = "stopped"
  /\ runPhase = "provisioning" => ~online

\* The lifecycle is at rest unless the control worker is inside of it.
OwnerFits ==
  /\ initialized => /\ worker \in {"loop", "keys", "shutdown"}
                    /\ runPhase \in {"running", "stopping"}
  /\ ~initialized => owner = "idle" /\ ~Talking
  /\ owner # "idle" => worker \in {"loop", "shutdown"}
  /\ worker = "shutdown" => owner = "ending" \/ (owner = "idle" /\ ~Talking)

\* A handler in flight has its source attached, and sources outlive no run.
HandlersFit ==
  /\ key # "none" => keys
  /\ keys => worker \in {"services", "loop", "keys"}
  /\ wifiPc # "idle" => wifi
  /\ wifi => worker \notin {"none", "start"}
  /\ wake => worker \in {"loop", "keys"}
  /\ worker \in {"none", "start"} => events = <<>>

\* The last Wi-Fi event in the queue is at i.
LastWifi(i) ==
  /\ i \in 1..Len(events)
  /\ events[i].type = "wifi"
  /\ \A j \in 1..Len(events) : j > i => events[j].type # "wifi"

\* What an event says is what the link is.
Tells(event) == event = "connected" <=> link = "up"

\* The newest Wi-Fi event on its way tells the link as it is: the one the Wi-Fi
\* thread holds, or else the last one queued, or else the one shown.
LinkHeard ==
  running =>
    /\ wifiPc # "idle" => Tells(wifiEvent)
    /\ wifiPc = "idle" => \A i \in 1..Len(events) : LastWifi(i) => Tells(events[i].event)
    /\ WifiSettled => (online <=> link = "up")

ControlFits == GateFits /\ PhaseFits /\ OwnerFits /\ HandlersFit

AppInv == TypeOK /\ ControlFits /\ LinkHeard /\ WakeWordsWhenReady /\ ShownIsNeverBehind

-----------------------------------------------------------------------------
(* Types                                                                     *)

\* An event that is added to a queue with room for it leaves a queue.
LEMMA Added ==
  ASSUME TypeOK, NEW e \in Events, Len(events) < QueueCap
  PROVE  /\ Append(events, e) \in Seq(Events)
         /\ Len(Append(events, e)) = Len(events) + 1
         /\ Len(Append(events, e)) <= QueueCap
         /\ \A i \in 1..Len(events) : Append(events, e)[i] = events[i]
         /\ Append(events, e)[Len(events) + 1] = e
BY QueueAssumption, AppendProperties, LenProperties DEF TypeOK

\* The event that is taken is an event, and the others stay in their order.
LEMMA Taken ==
  ASSUME TypeOK, events # <<>>
  PROVE  /\ Head(events) \in Events /\ Head(events) = events[1]
         /\ Tail(events) \in Seq(Events)
         /\ Len(events) \in Nat \ {0}
         /\ Len(Tail(events)) = Len(events) - 1
         /\ Len(Tail(events)) <= QueueCap
         /\ \A i \in 1..Len(Tail(events)) : Tail(events)[i] = events[i + 1]
<1>1. events \in Seq(Events) /\ Len(events) <= QueueCap /\ QueueCap \in Nat
  BY QueueAssumption DEF TypeOK
<1> QED
  BY <1>1, HeadTailProperties, LenProperties, EmptySeq

\* An empty queue is a queue.
LEMMA NoEvents == <<>> \in Seq(Events) /\ Len(<<>>) = 0 /\ Len(<<>>) <= QueueCap
BY QueueAssumption, EmptySeq

\* What is queued is an event.
LEMMA Queued ==
  ASSUME TypeOK
  PROVE  /\ [type |-> "wifi", event |-> wifiEvent, published |-> published] \in Events
         /\ key # "none" => [type |-> "key", event |-> key, published |-> FALSE] \in Events
BY DEF TypeOK, Events, KeyEvents

\* A post adds the event or ends the run.
LEMMA Posted ==
  ASSUME TypeOK, NEW e \in Events, Post(e)
  PROVE  /\ events' \in Seq(Events) /\ Len(events') <= QueueCap
         /\ running' \in BOOLEAN /\ (running' => running)
BY Added DEF Post, TypeOK

\* Every operation of the lifecycle keeps the type of what the application sees of it.
LEMMA SurfaceType ==
  ASSUME SurfaceTypeOK, SurfaceNext \/ UNCHANGED surfaceVars
  PROVE  SurfaceTypeOK'
<1> USE DEF SurfaceTypeOK, Lives, SetLife, Talking
<1>1. CASE Restart \/ GoesOffline \/ GoesOnline \/ ConsumesLoss \/ BeginsTick \/ TicksOffline
  BY <1>1 DEF Restart, GoesOffline, GoesOnline, ConsumesLoss, BeginsTick, TicksOffline
<1>2. CASE SendsStart \/ StartAccepted \/ StartRefused \/ Works
  BY <1>2 DEF SendsStart, StartAccepted, StartRefused, Works
<1>3. CASE BeginsEnding \/ Ends \/ Learns \/ AsksStart \/ AsksStop \/ ShutsDown
  BY <1>3 DEF BeginsEnding, Ends, Learns, AsksStart, AsksStop, ShutsDown
<1>4. CASE UNCHANGED surfaceVars
  BY <1>4
<1> QED
  BY <1>1, <1>2, <1>3, <1>4 DEF SurfaceNext

\* Whatever the application does, the lifecycle takes one of its own steps.
LEMMA SurfaceUsed ==
  ASSUME TypeOK, [Next]_vars
  PROVE  SurfaceNext \/ UNCHANGED surfaceVars
<1>1. CASE Wifi \/ Key
  BY <1>1 DEF Wifi, Key, WifiEmits, WifiPublishes, WifiQueues, TellLifecycle, KeyPressed,
              KeyQueues, ExitPressed, SurfaceNext
<1>2. CASE LifecycleStep \/ RtcAsksStop
  BY <1>2 DEF LifecycleStep, OwnerStep, RtcAsksStop, SurfaceNext
<1>3. CASE HandleKey
  BY <1>3 DEF HandleKey, SurfaceNext
<1>4. CASE HandleWifi
  BY <1>4 DEF HandleWifi, TellLifecycle, WifiIgnored, SurfaceNext
<1>5. CASE \/ ServicesAttachKeys \/ ServicesReady \/ ServicesFail
           \/ ControlStarts \/ ControlStartFails \/ ControlStarted
  BY <1>5 DEF ServicesAttachKeys, ServicesReady, ServicesFail, ControlStarts,
              ControlStartFails, ControlStarted, SurfaceNext
<1>6. CASE Fini \/ Api
  BY <1>6 DEF Fini, Api, FiniBegins, FiniKeys, FiniEnds, FiniService, FiniWifi, StartCalled,
              StopCalled, CallReturns, SurfaceNext
<1>7. CASE UNCHANGED vars
  BY <1>7 DEF vars
<1> QED
  BY <1>1, <1>2, <1>3, <1>4, <1>5, <1>6, <1>7 DEF Next, Worker

\* What the type says of the application's own variables.
SnapshotOK ==
  /\ runPhase \in {"stopped", "provisioning", "starting", "running", "failed", "stopping"}
  /\ online \in BOOLEAN /\ shown \in Lives
ApiOK == held \in BOOLEAN /\ gate \in {"none", "start", "stop"}
WorkerOK ==
  /\ worker \in {"none", "start", "started", "loop", "services", "keys", "shutdown", "wifi"}
  /\ initialized \in BOOLEAN /\ service \in BOOLEAN /\ wake \in BOOLEAN
KeyOK == keys \in BOOLEAN /\ key \in KeyEvents \cup {"none"}
WifiOK ==
  /\ wifi \in BOOLEAN /\ wifiPc \in {"idle", "publish", "queue"}
  /\ wifiEvent \in WifiEvents /\ published \in BOOLEAN
  /\ link \in {"unknown", "up", "down"}

OwnTypeOK ==
  SnapshotOK /\ ApiOK /\ WorkerOK /\ KeyOK /\ WifiOK /\ running \in BOOLEAN

QueueOK == events \in Seq(Events) /\ Len(events) <= QueueCap

LEMMA TypeParts == TypeOK <=> SurfaceTypeOK /\ OwnTypeOK /\ QueueOK
BY DEF TypeOK, OwnTypeOK, QueueOK, SnapshotOK, ApiOK, WorkerOK, KeyOK, WifiOK

\* Events are added at the end while there is room, and taken from the front.
LEMMA QueueType == ASSUME TypeOK, [Next]_vars PROVE QueueOK'
<1>1. CASE WifiQueues \/ KeyQueues
  BY <1>1, Queued, Posted DEF WifiQueues, KeyQueues, QueueOK
<1>2. CASE HandleKey \/ HandleWifi
  BY <1>2, Taken DEF HandleKey, HandleWifi, Take, QueueOK
<1>3. CASE FiniWifi
  BY <1>3, NoEvents DEF FiniWifi, QueueOK
<1>4. CASE UNCHANGED events
  BY <1>4 DEF TypeOK, QueueOK
<1>5. UNCHANGED events \/ WifiQueues \/ KeyQueues \/ HandleKey \/ HandleWifi \/ FiniWifi
  BY DEF Next, Wifi, Key, Worker, Fini, Api, WifiEmits, WifiPublishes, KeyPressed, ExitPressed,
         LifecycleStep, RtcAsksStop, ServicesAttachKeys, ServicesReady, ServicesFail,
         ControlStarts, ControlStartFails, ControlStarted, FiniBegins, FiniKeys, FiniEnds,
         FiniService, StartCalled, StopCalled, CallReturns, vars
<1> QED
  BY <1>1, <1>2, <1>3, <1>4, <1>5

\* Every step keeps the type of the application's own variables.
LEMMA OwnType == ASSUME TypeOK, [Next]_vars PROVE OwnTypeOK'
<1>t. /\ SnapshotOK /\ ApiOK /\ WorkerOK /\ KeyOK /\ WifiOK /\ running \in BOOLEAN
      /\ SurfaceTypeOK
  BY TypeParts DEF OwnTypeOK
<1>s. life' \in Lives
  BY SurfaceUsed, SurfaceType, <1>t DEF SurfaceTypeOK
<1>u. /\ UNCHANGED snapshotVars => SnapshotOK'
      /\ UNCHANGED apiVars => ApiOK'
      /\ UNCHANGED workerVars => WorkerOK'
      /\ UNCHANGED keyVars => KeyOK'
      /\ UNCHANGED wifiVars => WifiOK'
  BY <1>t DEF SnapshotOK, ApiOK, WorkerOK, KeyOK, WifiOK
<1> HIDE DEF surfaceVars, snapshotVars, apiVars, workerVars, keyVars, wifiVars
<1> USE DEF OwnTypeOK
<1>1. CASE WifiEmits
  <2>1. WifiOK'
    BY <1>1, <1>t DEF WifiEmits, Transition, WifiOK
  <2> QED
    BY <1>1, <1>t, <1>u, <2>1 DEF WifiEmits
<1>2. CASE WifiPublishes
  <2>1. WifiOK'
    BY <1>2, <1>t DEF WifiPublishes, WifiOK
  <2> QED
    BY <1>2, <1>t, <1>u, <2>1 DEF WifiPublishes
<1>3. CASE WifiQueues
  <2>1. WifiOK' /\ running' \in BOOLEAN
    BY <1>3, <1>t, Queued, Posted DEF WifiQueues, WifiOK
  <2> QED
    BY <1>3, <1>t, <1>u, <2>1 DEF WifiQueues
<1>4. CASE KeyQueues
  <2>1. KeyOK' /\ running' \in BOOLEAN
    BY <1>4, <1>t, Queued, Posted DEF KeyQueues, KeyOK
  <2> QED
    BY <1>4, <1>t, <1>u, <2>1 DEF KeyQueues
<1>5. CASE KeyPressed
  <2>1. KeyOK'
    BY <1>5, <1>t DEF KeyPressed, KeyOK, KeyEvents
  <2> QED
    BY <1>5, <1>t, <1>u, <2>1 DEF KeyPressed
<1>6. CASE ExitPressed \/ RtcAsksStop \/ HandleKey
  BY <1>6, <1>t, <1>u DEF ExitPressed, RtcAsksStop, HandleKey
<1>7. CASE LifecycleStep
  <2>1. SnapshotOK' /\ WorkerOK'
    BY <1>7, <1>t, <1>s DEF LifecycleStep, ShowLife, SyncWake, SnapshotOK, WorkerOK
  <2> QED
    BY <1>7, <1>t, <1>u, <2>1 DEF LifecycleStep
<1>8. CASE HandleWifi
  <2>1. \/ UNCHANGED <<snapshotVars, running, worker, wake>>
        \/ \E e \in WifiEvents : \/ WifiFailsStart(e) \/ WifiLost(e) \/ WifiRestored(e)
                                 \/ WifiBeginsServices(e) \/ WifiShowsNothing(e)
    BY <1>8, Taken DEF HandleWifi, Take, Events, WifiIgnored
  <2>2. SnapshotOK'
    BY <1>t, <1>u, <2>1 DEF WifiFailsStart, WifiLost, WifiRestored, WifiBeginsServices,
                      WifiShowsNothing, ShowNetwork, SnapshotOK, Lives
  <2>3. running' \in BOOLEAN /\ worker' \in {worker, "services"} /\ wake' \in BOOLEAN
    BY <1>t, <2>1 DEF WifiFailsStart, WifiLost, WifiRestored, WifiBeginsServices,
                      WifiShowsNothing, ShowNetwork, SyncWake, WorkerOK
  <2>4. WorkerOK'
    BY <1>8, <1>t, <2>3 DEF HandleWifi, WorkerOK
  <2> QED
    BY <1>8, <1>u, <2>2, <2>3, <2>4 DEF HandleWifi
<1>9. CASE ServicesAttachKeys
  <2>1. KeyOK'
    BY <1>9, <1>t DEF ServicesAttachKeys, KeyOK
  <2> QED
    BY <1>9, <1>t, <1>u, <2>1 DEF ServicesAttachKeys
<1>10. CASE ServicesReady
  <2>1. SnapshotOK' /\ WorkerOK'
    BY <1>10, <1>t, <1>s DEF ServicesReady, SyncWake, SnapshotOK, WorkerOK
  <2> QED
    BY <1>10, <1>t, <1>u, <2>1 DEF ServicesReady
<1>11. CASE ServicesFail
  <2>1. SnapshotOK' /\ WorkerOK' /\ KeyOK'
    BY <1>11, <1>t DEF ServicesFail, SnapshotOK, WorkerOK, KeyOK
  <2> QED
    BY <1>11, <1>u, <2>1 DEF ServicesFail
<1>12. CASE ControlStarts
  <2>1. SnapshotOK' /\ WorkerOK' /\ WifiOK'
    BY <1>12, <1>t DEF ControlStarts, SnapshotOK, WorkerOK, WifiOK, Lives
  <2> QED
    BY <1>12, <1>u, <2>1 DEF ControlStarts
<1>13. CASE ControlStartFails
  <2>1. SnapshotOK' /\ WorkerOK'
    BY <1>13, <1>t DEF ControlStartFails, SnapshotOK, WorkerOK, Lives
  <2> QED
    BY <1>13, <1>u, <2>1 DEF ControlStartFails
<1>14. CASE ControlStarted
  <2>1. ApiOK' /\ WorkerOK'
    BY <1>14, <1>t DEF ControlStarted, ApiOK, WorkerOK
  <2> QED
    BY <1>14, <1>t, <1>u, <2>1 DEF ControlStarted
<1>15. CASE FiniBegins
  <2>1. SnapshotOK' /\ WorkerOK'
    BY <1>15, <1>t DEF FiniBegins, SnapshotOK, WorkerOK
  <2> QED
    BY <1>15, <1>u, <2>1 DEF FiniBegins
<1>16. CASE FiniKeys
  <2>1. WorkerOK' /\ KeyOK'
    BY <1>16, <1>t DEF FiniKeys, WorkerOK, KeyOK
  <2> QED
    BY <1>16, <1>t, <1>u, <2>1 DEF FiniKeys
<1>17. CASE FiniEnds
  BY <1>17, <1>t, <1>u DEF FiniEnds
<1>18. CASE FiniService
  <2>1. WorkerOK'
    BY <1>18, <1>t DEF FiniService, WorkerOK
  <2> QED
    BY <1>18, <1>t, <1>u, <2>1 DEF FiniService
<1>19. CASE FiniWifi
  <2>1. SnapshotOK' /\ WorkerOK' /\ WifiOK'
    BY <1>19, <1>t DEF FiniWifi, SnapshotOK, WorkerOK, WifiOK, Lives
  <2> QED
    BY <1>19, <1>t, <1>u, <2>1 DEF FiniWifi
<1>20. CASE StartCalled
  <2>1. ApiOK' /\ WorkerOK'
    BY <1>20, <1>t DEF StartCalled, ApiOK, WorkerOK
  <2> QED
    BY <1>20, <1>u, <2>1 DEF StartCalled
<1>21. CASE StopCalled
  <2>1. ApiOK'
    BY <1>21, <1>t DEF StopCalled, ApiOK
  <2> QED
    BY <1>21, <1>u, <2>1 DEF StopCalled
<1>22. CASE CallReturns
  <2>1. service' \in BOOLEAN
    BY <1>22, <1>t DEF CallReturns, WorkerOK
  <2>2. held' \in BOOLEAN
    BY <1>22, <2>1 DEF CallReturns
  <2>3. ApiOK' /\ WorkerOK'
    BY <1>22, <1>t, <2>1, <2>2 DEF CallReturns, ApiOK, WorkerOK
  <2> QED
    BY <1>22, <1>t, <1>u, <2>3 DEF CallReturns
<1>23. CASE UNCHANGED vars
  BY <1>23, <1>t, <1>u DEF vars
<1> QED
  BY <1>1, <1>2, <1>3, <1>4, <1>5, <1>6, <1>7, <1>8, <1>9, <1>10, <1>11, <1>12, <1>13, <1>14,
     <1>15, <1>16, <1>17, <1>18, <1>19, <1>20, <1>21, <1>22, <1>23
  DEF Next, Wifi, Key, Worker, Fini, Api

LEMMA TypeInit == Init => TypeOK
BY NoEvents DEF Init, SurfaceInit, TypeOK, SurfaceTypeOK, Lives, WifiEvents

LEMMA TypeNext == ASSUME TypeOK, [Next]_vars PROVE TypeOK'
<1>1. SurfaceTypeOK'
  BY SurfaceUsed, SurfaceType, TypeParts
<1>2. TypeOK' <=> SurfaceTypeOK' /\ OwnTypeOK' /\ QueueOK'
  BY TypeParts, PTL
<1> QED
  BY <1>1, <1>2, QueueType, OwnType

-----------------------------------------------------------------------------
(* Gate, phases, lifecycle and handlers                                      *)

\* The last steps of a stop leave everything but the services as it is.
LEMMA LastSteps ==
  ASSUME FiniService \/ CallReturns
  PROVE  /\ UNCHANGED <<surfaceVars, snapshotVars, running, wake, events, keyVars, wifiVars>>
         /\ \/ worker = "shutdown" /\ owner = "idle" /\ worker' = "wifi" /\ ~initialized'
            \/ worker = "none" /\ UNCHANGED <<worker, initialized>>
BY DEF FiniService, CallReturns

LEMMA GateNext == ASSUME TypeOK, ControlFits, [Next]_vars PROVE GateFits'
<1> USE DEF GateFits, ControlFits
<1>1. CASE Wifi \/ Key \/ RtcAsksStop
  BY <1>1 DEF Wifi, Key, WifiEmits, WifiPublishes, WifiQueues, KeyPressed, KeyQueues,
              ExitPressed, RtcAsksStop
<1>2. CASE LifecycleStep \/ HandleKey
  BY <1>2 DEF LifecycleStep, HandleKey
<1>3. CASE HandleWifi
  BY <1>3 DEF HandleWifi, Take, WifiIgnored, WifiFailsStart, WifiLost, WifiRestored,
              WifiBeginsServices, WifiShowsNothing
<1>4. CASE ServicesAttachKeys \/ ServicesReady \/ ServicesFail
  BY <1>4 DEF ServicesAttachKeys, ServicesReady, ServicesFail
<1>5. CASE ControlStarts \/ ControlStartFails \/ ControlStarted
  BY <1>5 DEF ControlStarts, ControlStartFails, ControlStarted
<1>6. CASE FiniBegins \/ FiniKeys \/ FiniEnds \/ FiniService \/ FiniWifi
  BY <1>6 DEF FiniBegins, FiniKeys, FiniEnds, FiniService, FiniWifi
<1>7. CASE StartCalled \/ StopCalled
  BY <1>7 DEF StartCalled, StopCalled
<1>8. CASE CallReturns
  BY <1>8, Zenon DEF CallReturns
<1>9. CASE UNCHANGED vars
  BY <1>9 DEF vars
<1> QED
  BY <1>1, <1>2, <1>3, <1>4, <1>5, <1>6, <1>7, <1>8, <1>9 DEF Next, Worker, Fini, Api

\* project_app_state(): a phase other than running is the state; a running one shows the link
\* and the device.
LEMMA StateOf ==
  ASSUME TypeOK
  PROVE  /\ runPhase # "running" => AppState = runPhase
         /\ runPhase = "running" => AppState \in ServingStates
         /\ runPhase = "running" => (AppState = "disconnected" <=> ~online)
         /\ runPhase = "running" => (AppState = "ready" <=> online /\ shown = "runtime")
<1>1. shown \in Lives
  BY DEF TypeOK
<1>2. CASE runPhase # "running"
  BY <1>2 DEF AppState, Project
<1>3. CASE runPhase = "running" /\ ~online
  BY <1>3 DEF AppState, Project, ServingStates
<1>4. CASE runPhase = "running" /\ online
  <2>1. AppState = CASE shown = "runtime"   -> "ready"
                     [] shown = "unclaimed" -> "pairing"
                     [] OTHER               -> shown
    BY <1>4 DEF AppState, Project
  <2> QED
    BY <1>1, <1>4, <2>1 DEF ServingStates, Lives
<1> QED
  BY <1>2, <1>3, <1>4

\* What taking a Wi-Fi event does to the phase, the network shown, the run and the worker.
LEMMA WifiTaken ==
  ASSUME TypeOK, PhaseFits, HandleWifi
  PROVE  /\ worker = "loop" /\ owner = "idle"
         /\ \/ UNCHANGED <<runPhase, running, worker>>
            \/ /\ runPhase = "provisioning" /\ runPhase' = "failed"
               /\ ~running' /\ UNCHANGED worker
            \/ /\ runPhase = "provisioning" /\ runPhase' = "starting"
               /\ worker' = "services" /\ UNCHANGED running /\ online'
         /\ runPhase' = "provisioning" => UNCHANGED online
<1>1. \/ WifiIgnored
      \/ \E e \in WifiEvents : \/ WifiFailsStart(e) \/ WifiLost(e) \/ WifiRestored(e)
                               \/ WifiBeginsServices(e) \/ WifiShowsNothing(e)
  BY Taken DEF HandleWifi, Take, Events
<1>2. worker = "loop" /\ owner = "idle"
  BY DEF HandleWifi, Take
<1>3. /\ \/ UNCHANGED <<runPhase, running, worker>>
         \/ /\ AppState = "provisioning" /\ runPhase' = "failed"
            /\ ~running' /\ UNCHANGED worker
         \/ /\ AppState = "provisioning" /\ runPhase' = "starting"
            /\ worker' = "services" /\ UNCHANGED running /\ online'
      /\ \/ UNCHANGED <<runPhase, online>> \/ runPhase' \in {"failed", "starting"}
         \/ AppState \in ServingStates /\ UNCHANGED runPhase
  BY <1>1 DEF WifiIgnored, WifiFailsStart, WifiLost, WifiRestored, WifiBeginsServices,
              WifiShowsNothing, ShowNetwork, ServingStates
<1>4. AppState = "provisioning" => runPhase = "provisioning"
  BY StateOf DEF ServingStates
<1>5. runPhase = "provisioning" => AppState \notin ServingStates
  BY StateOf DEF ServingStates
<1> QED
  BY <1>2, <1>3, <1>4, <1>5

\* Services are begun by a run that listens for no wake word yet.
LEMMA BeginsServices ==
  ASSUME TypeOK, HandleWifi, worker' = "services"
  PROVE  running /\ worker = "loop" /\ AppState = "provisioning" /\ UNCHANGED wake
BY DEF HandleWifi, Take, WifiIgnored, WifiFailsStart, WifiLost, WifiRestored,
       WifiBeginsServices, WifiShowsNothing

LEMMA PhaseNext == ASSUME TypeOK, ControlFits, [Next]_vars PROVE PhaseFits'
<1> USE DEF PhaseFits, ControlFits
<1>1. CASE Wifi \/ Key \/ RtcAsksStop
  <2>1. running' => running
    <3>1. CASE WifiQueues \/ KeyQueues
      BY <3>1, Queued, Posted DEF WifiQueues, KeyQueues
    <3> QED
      BY <1>1, <3>1 DEF Wifi, Key, WifiEmits, WifiPublishes, KeyPressed, ExitPressed, RtcAsksStop
  <2>2. UNCHANGED <<runPhase, online, worker>>
    BY <1>1 DEF Wifi, Key, WifiEmits, WifiPublishes, WifiQueues, KeyPressed, KeyQueues,
                ExitPressed, RtcAsksStop
  <2> QED
    BY <2>1, <2>2
<1>2. CASE LifecycleStep \/ HandleKey
  BY <1>2 DEF LifecycleStep, HandleKey
<1>3. CASE HandleWifi
  BY <1>3, WifiTaken
<1>4. CASE ServicesAttachKeys \/ ServicesReady \/ ServicesFail
  BY <1>4 DEF ServicesAttachKeys, ServicesReady, ServicesFail
<1>5. CASE ControlStarts \/ ControlStartFails \/ ControlStarted
  BY <1>5 DEF ControlStarts, ControlStartFails, ControlStarted
<1>6. CASE FiniBegins \/ FiniKeys \/ FiniEnds \/ FiniWifi
  BY <1>6 DEF FiniBegins, FiniKeys, FiniEnds, FiniWifi
<1>7. CASE StartCalled \/ StopCalled
  BY <1>7 DEF StartCalled, StopCalled, GateFits
<1>8. CASE FiniService \/ CallReturns
  BY <1>8, LastSteps
<1>9. CASE UNCHANGED vars
  BY <1>9 DEF vars
<1> QED
  BY <1>1, <1>2, <1>3, <1>4, <1>5, <1>6, <1>7, <1>8, <1>9 DEF Next, Worker, Fini, Api

LEMMA OwnerNext == ASSUME TypeOK, ControlFits, [Next]_vars PROVE OwnerFits'
<1> USE DEF OwnerFits, PhaseFits, ControlFits, Talking
<1>1. CASE Wifi \/ Key
  BY <1>1 DEF Wifi, Key, WifiEmits, WifiPublishes, WifiQueues, TellLifecycle, GoesOnline,
              GoesOffline, KeyPressed, KeyQueues, ExitPressed
<1>2. CASE LifecycleStep \/ RtcAsksStop
  BY <1>2 DEF LifecycleStep, RtcAsksStop
<1>3. CASE HandleKey
  BY <1>3 DEF HandleKey, AsksStart, AsksStop
<1>4. CASE HandleWifi
  <2>1. UNCHANGED <<initialized, owner, life>>
    BY <1>4 DEF HandleWifi, TellLifecycle, GoesOnline, GoesOffline, WifiIgnored
  <2>2. initialized => runPhase # "provisioning"
    OBVIOUS
  <2> QED
    BY <2>1, <2>2, <1>4, WifiTaken
<1>5. CASE ServicesAttachKeys \/ ServicesReady \/ ServicesFail
  BY <1>5 DEF ServicesAttachKeys, ServicesReady, ServicesFail, Restart
<1>6. CASE ControlStarts \/ ControlStartFails \/ ControlStarted
  BY <1>6 DEF ControlStarts, ControlStartFails, ControlStarted
<1>7. CASE FiniBegins \/ FiniKeys \/ FiniEnds \/ FiniWifi
  BY <1>7 DEF FiniBegins, FiniKeys, FiniEnds, FiniWifi, ShutsDown, Ends, SetLife
<1>8. CASE StartCalled \/ StopCalled
  BY <1>8 DEF StartCalled, StopCalled, GateFits
<1>10. CASE FiniService \/ CallReturns
  BY <1>10, LastSteps
<1>9. CASE UNCHANGED vars
  BY <1>9 DEF vars
<1> QED
  BY <1>1, <1>2, <1>3, <1>4, <1>5, <1>6, <1>7, <1>8, <1>9, <1>10
  DEF Next, Worker, Fini, Api

LEMMA HandlersNext ==
  ASSUME TypeOK, ControlFits, WakeWordsWhenReady, [Next]_vars
  PROVE  HandlersFit'
<1> USE DEF HandlersFit, PhaseFits, ControlFits
<1>1. CASE WifiEmits \/ WifiPublishes
  BY <1>1 DEF WifiEmits, WifiPublishes
<1>2. CASE WifiQueues \/ KeyQueues
  BY <1>2 DEF WifiQueues, KeyQueues
<1>3. CASE KeyPressed \/ ExitPressed \/ RtcAsksStop
  BY <1>3 DEF KeyPressed, ExitPressed, RtcAsksStop
<1>4. CASE LifecycleStep
  BY <1>4 DEF LifecycleStep
<1>5. CASE HandleKey
  BY <1>5 DEF HandleKey, Take
<1>6. CASE HandleWifi
  <2>1. UNCHANGED <<keyVars, wifiVars>>
    BY <1>6 DEF HandleWifi
  <2>2. worker' = "services" => ~wake'
    BY <1>6, BeginsServices, StateOf DEF WakeWordsWhenReady
  <2> QED
    BY <1>6, <2>1, <2>2, WifiTaken
<1>7. CASE ServicesAttachKeys \/ ServicesFail
  BY <1>7 DEF ServicesAttachKeys, ServicesFail
<1>8. CASE ServicesReady
  BY <1>8 DEF ServicesReady
<1>9. CASE ControlStarts \/ ControlStartFails \/ ControlStarted
  BY <1>9 DEF ControlStarts, ControlStartFails, ControlStarted
<1>10. CASE FiniBegins \/ FiniKeys \/ FiniEnds \/ FiniWifi
  BY <1>10 DEF FiniBegins, FiniKeys, FiniEnds, FiniWifi
<1>11. CASE StartCalled \/ StopCalled
  BY <1>11 DEF StartCalled, StopCalled, GateFits
<1>12. CASE FiniService \/ CallReturns
  BY <1>12, LastSteps
<1>13. CASE UNCHANGED vars
  BY <1>13 DEF vars
<1> QED
  BY <1>1, <1>2, <1>3, <1>4, <1>5, <1>6, <1>7, <1>8, <1>9, <1>10, <1>11, <1>12, <1>13
  DEF Next, Wifi, Key, Worker, Fini, Api

LEMMA ControlNext ==
  ASSUME TypeOK, ControlFits, WakeWordsWhenReady, [Next]_vars
  PROVE  ControlFits'
BY GateNext, PhaseNext, OwnerNext, HandlersNext DEF ControlFits

-----------------------------------------------------------------------------
(* Wake words and the state shown                                            *)

\* Wake words are set again wherever the state that is shown may change in a run.
LEMMA WakeNext ==
  ASSUME TypeOK, ControlFits, WakeWordsWhenReady, [Next]_vars
  PROVE  WakeWordsWhenReady'
<1>a. running /\ worker = "loop" => (wake <=> AppState = "ready")
  BY DEF WakeWordsWhenReady
<1>b. AppState' = Project(runPhase', online', shown')
  BY DEF AppState
<1> SUFFICES ASSUME running', worker' = "loop"
             PROVE  wake' <=> AppState' = "ready"
  BY DEF WakeWordsWhenReady
<1>1. CASE UNCHANGED <<snapshotVars, wake>> /\ running /\ worker = "loop"
  BY <1>1, <1>a DEF AppState
<1>2. CASE LifecycleStep
  BY <1>2, <1>1, <1>a, <1>b DEF LifecycleStep, ShowLife, SyncWake
<1>3. CASE HandleWifi
  <2>1. \/ UNCHANGED <<snapshotVars, wake, running, worker>>
        \/ ~running'
        \/ worker' = "services"
        \/ wake' = (Project(runPhase', online', shown') = "ready")
    BY <1>3 DEF HandleWifi, WifiIgnored, WifiFailsStart, WifiLost, WifiRestored,
                WifiBeginsServices, WifiShowsNothing, ShowNetwork, SyncWake
  <2> QED
    BY <2>1, <1>1, <1>b
<1>4. CASE ServicesReady
  BY <1>4, <1>b DEF ServicesReady, SyncWake
<1>5. CASE ControlStarted
  <2>1. runPhase = "provisioning" /\ ~wake
    BY <1>5 DEF ControlStarted, ControlFits, PhaseFits, HandlersFit
  <2>2. UNCHANGED <<snapshotVars, wake>>
    BY <1>5 DEF ControlStarted
  <2> QED
    BY <2>1, <2>2, <1>b DEF Project
<1>6. CASE \/ Wifi \/ Key \/ RtcAsksStop \/ HandleKey
           \/ ServicesAttachKeys \/ ServicesFail \/ ControlStarts \/ ControlStartFails
           \/ Fini \/ Api \/ UNCHANGED vars
  <2>1. \/ UNCHANGED <<snapshotVars, wake, worker>> /\ (running' => running)
        \/ ~running' \/ worker' # "loop"
    <3>1. CASE WifiQueues \/ KeyQueues
      BY <3>1, Queued, Posted DEF WifiQueues, KeyQueues
    <3>2. CASE CallReturns \/ FiniService
      BY <3>2, LastSteps
    <3> QED
      BY <1>6, <3>1, <3>2
      DEF Wifi, Key, Fini, Api, WifiEmits, WifiPublishes, KeyPressed, ExitPressed, RtcAsksStop,
          HandleKey, ServicesAttachKeys, ServicesFail, ControlStarts, ControlStartFails,
          FiniBegins, FiniKeys, FiniEnds, FiniWifi, StartCalled, StopCalled, vars
  <2> QED
    BY <2>1, <1>1
<1> QED
  BY <1>2, <1>3, <1>4, <1>5, <1>6 DEF Next, Worker

\* The state of the lifecycle is copied wherever it changes in a run; a change of the network
\* takes back a conversation at most.
LEMMA ShownNext ==
  ASSUME TypeOK, ControlFits, ShownIsNeverBehind, [Next]_vars
  PROVE  ShownIsNeverBehind'
<1>a. running /\ initialized /\ shown # life => shown = "runtime" /\ life = "in_conversation"
  BY DEF ShownIsNeverBehind, Talking
<1> SUFFICES ASSUME running', initialized', shown' # life'
             PROVE  shown' = "runtime" /\ life' = "in_conversation"
  BY DEF ShownIsNeverBehind, Talking
<1>1. CASE UNCHANGED <<life, shown, initialized>> /\ running
  BY <1>1, <1>a
<1>2. CASE LifecycleStep
  BY <1>2, <1>a DEF LifecycleStep, ShowLife
<1>3. CASE HandleWifi
  <2>1. UNCHANGED <<life, initialized>>
    BY <1>3 DEF HandleWifi, WifiIgnored, TellLifecycle, GoesOnline, GoesOffline
  <2>2. /\ running' => running
        /\ shown' = shown \/ (shown = "in_conversation" /\ shown' = "runtime")
    BY <1>3 DEF HandleWifi, WifiIgnored, WifiFailsStart, WifiLost, WifiRestored,
                WifiBeginsServices, WifiShowsNothing, ShowNetwork
  <2> QED
    BY <2>1, <2>2, <1>a
<1>4. CASE ServicesReady
  BY <1>4 DEF ServicesReady
<1>5. CASE HandleKey \/ RtcAsksStop
  BY <1>5, <1>1 DEF HandleKey, RtcAsksStop, AsksStart, AsksStop
<1>6. CASE Wifi \/ Key
  <2>1. CASE WifiQueues \/ KeyQueues
    BY <2>1, <1>1, Queued, Posted DEF WifiQueues, KeyQueues
  <2> QED
    BY <2>1, <1>6, <1>1 DEF Wifi, Key, WifiEmits, WifiPublishes, TellLifecycle, GoesOnline,
                            GoesOffline, KeyPressed, ExitPressed
<1>7. CASE ServicesAttachKeys \/ ServicesFail \/ ControlStarts \/ ControlStartFails \/ ControlStarted
  BY <1>7, <1>1 DEF ServicesAttachKeys, ServicesFail, ControlStarts, ControlStartFails,
                    ControlStarted, ControlFits, OwnerFits
<1>8. CASE Fini \/ Api \/ UNCHANGED vars
  <2>1. CASE CallReturns \/ FiniService
    BY <2>1, <1>1, LastSteps
  <2> QED
    BY <2>1, <1>8, <1>1
    DEF Fini, Api, FiniBegins, FiniKeys, FiniEnds, FiniWifi, StartCalled, StopCalled, vars,
        ControlFits, PhaseFits
<1> QED
  BY <1>2, <1>3, <1>4, <1>5, <1>6, <1>7, <1>8 DEF Next, Worker

-----------------------------------------------------------------------------
(* The network shown and the link                                            *)

\* A run shows the network as the event says that it has taken last.
LEMMA NetworkShown ==
  ASSUME TypeOK, PhaseFits, HandleWifi, running'
  PROVE  running /\ (online' <=> Head(events).event = "connected")
<1> DEFINE e == Head(events).event
<1>1. e \in WifiEvents
  BY Taken DEF HandleWifi, Take, Events
<1>2. running /\ worker = "loop"
  BY DEF HandleWifi, Take, WifiIgnored, WifiFailsStart, WifiLost, WifiRestored,
         WifiBeginsServices, WifiShowsNothing
<1>3. runPhase \in {"provisioning", "running"}
  BY <1>2 DEF PhaseFits
<1>4. AppState \notin {"stopping", "failed"}
  BY <1>3, StateOf DEF ServingStates
<1>5. \/ WifiFailsStart(e) \/ WifiLost(e) \/ WifiRestored(e)
      \/ WifiBeginsServices(e) \/ WifiShowsNothing(e)
  BY <1>2, <1>4 DEF HandleWifi, WifiIgnored
<1>6. CASE WifiFailsStart(e)
  BY <1>6 DEF WifiFailsStart
<1>7. CASE WifiLost(e) \/ WifiRestored(e) \/ WifiBeginsServices(e)
  BY <1>7 DEF WifiLost, WifiRestored, WifiBeginsServices, ShowNetwork
<1>8. CASE WifiShowsNothing(e)
  <2>1. /\ UNCHANGED online
        /\ e = "connected" => AppState \notin {"disconnected", "provisioning"}
        /\ e # "connected" => AppState \notin ServingStates \ {"disconnected"}
    BY <1>8 DEF WifiShowsNothing
  <2>2. CASE runPhase = "provisioning"
    <3>1. AppState = "provisioning" /\ ~online
      BY <2>2, StateOf DEF PhaseFits
    <3> QED
      BY <1>2, <2>1, <3>1 DEF ServingStates
  <2>3. CASE runPhase = "running"
    <3>1. AppState \in ServingStates /\ (AppState = "disconnected" <=> ~online)
      BY <2>3, StateOf
    <3> QED
      BY <1>2, <2>1, <3>1 DEF ServingStates
  <2> QED
    BY <1>3, <2>2, <2>3
<1> QED
  BY <1>2, <1>5, <1>6, <1>7, <1>8

\* An event added at the end is the last Wi-Fi event, or leaves the last one where it is.
LEMMA LastAdded ==
  ASSUME TypeOK, NEW e \in Events, events' = Append(events, e), Len(events) < QueueCap
  PROVE  /\ \A i \in 1..Len(events') : LastWifi(i)' =>
              \/ e.type = "wifi" /\ events'[i] = e
              \/ e.type # "wifi" /\ LastWifi(i) /\ events'[i] = events[i]
         /\ (\A i \in 1..Len(events') : events'[i].type # "wifi") =>
              /\ e.type # "wifi"
              /\ \A i \in 1..Len(events) : events[i].type # "wifi"
<1>1. /\ Len(events) \in Nat /\ Len(events') = Len(events) + 1
      /\ \A i \in 1..Len(events) : events'[i] = events[i]
      /\ events'[Len(events) + 1] = e
  BY Added, LenProperties DEF TypeOK
<1>2. ASSUME NEW i \in 1..Len(events'), LastWifi(i)'
      PROVE  \/ e.type = "wifi" /\ events'[i] = e
             \/ e.type # "wifi" /\ LastWifi(i) /\ events'[i] = events[i]
  <2>1. CASE i = Len(events) + 1
    BY <1>1, <1>2, <2>1 DEF LastWifi
  <2>2. CASE i \in 1..Len(events)
    BY <1>1, <1>2, <2>2 DEF LastWifi
  <2> QED
    BY <1>1, <2>1, <2>2
<1>3. (\A i \in 1..Len(events') : events'[i].type # "wifi") =>
        /\ e.type # "wifi"
        /\ \A i \in 1..Len(events) : events[i].type # "wifi"
  BY <1>1
<1> QED
  BY <1>2, <1>3

\* An event taken from the front was the last Wi-Fi event, or leaves it in the queue.
LEMMA LastTaken ==
  ASSUME TypeOK, events # <<>>, events' = Tail(events)
  PROVE  /\ \A i \in 1..Len(events') : LastWifi(i)' =>
              /\ i + 1 \in 1..Len(events) /\ LastWifi(i + 1)
              /\ events'[i] = events[i + 1]
         /\ (\A i \in 1..Len(events') : events'[i].type # "wifi") =>
              IF Head(events).type = "wifi"
                THEN LastWifi(1) /\ 1 \in 1..Len(events) /\ events[1] = Head(events)
                ELSE \A i \in 1..Len(events) : events[i].type # "wifi"
<1>1. /\ Len(events) \in Nat \ {0} /\ Len(events') = Len(events) - 1
      /\ Head(events) = events[1]
      /\ \A i \in 1..Len(events') : events'[i] = events[i + 1]
  BY Taken
<1>2. \A j \in 1..Len(events) : j = 1 \/ (j - 1 \in 1..Len(events') /\ events[j] = events'[j - 1])
  BY <1>1
<1>3. ASSUME NEW i \in 1..Len(events'), LastWifi(i)'
      PROVE  i + 1 \in 1..Len(events) /\ LastWifi(i + 1) /\ events'[i] = events[i + 1]
  <2>1. i + 1 \in 1..Len(events) /\ events'[i] = events[i + 1]
    BY <1>1
  <2>2. ASSUME NEW j \in 1..Len(events), j > i + 1
        PROVE  events[j].type # "wifi"
    <3>1. j - 1 \in 1..Len(events') /\ j - 1 > i /\ events[j] = events'[j - 1]
      BY <1>1, <1>2, <2>2
    <3> QED
      BY <1>3, <3>1 DEF LastWifi
  <2> QED
    BY <1>3, <2>1, <2>2 DEF LastWifi
<1>4. ASSUME \A i \in 1..Len(events') : events'[i].type # "wifi"
      PROVE  IF Head(events).type = "wifi"
               THEN LastWifi(1) /\ 1 \in 1..Len(events) /\ events[1] = Head(events)
               ELSE \A i \in 1..Len(events) : events[i].type # "wifi"
  <2>1. \A j \in 1..Len(events) : j = 1 \/ events[j].type # "wifi"
    BY <1>2, <1>4
  <2> QED
    BY <1>1, <2>1 DEF LastWifi
<1> QED
  BY <1>3, <1>4

\* The newest event on its way keeps telling the link, through both threads and the queue.
LEMMA LinkNext ==
  ASSUME TypeOK, ControlFits, LinkHeard, [Next]_vars
  PROVE  LinkHeard'
<1> USE DEF Tells
<1> SUFFICES ASSUME running'
             PROVE  /\ wifiPc' # "idle" => Tells(wifiEvent)'
                    /\ wifiPc' = "idle" =>
                         \A i \in 1..Len(events') : LastWifi(i)' => Tells(events[i].event)'
                    /\ WifiSettled' => (online' <=> link' = "up")
  BY DEF LinkHeard
<1>a. running =>
        /\ wifiPc # "idle" => Tells(wifiEvent)
        /\ wifiPc = "idle" => \A i \in 1..Len(events) : LastWifi(i) => Tells(events[i].event)
        /\ WifiSettled => (online <=> link = "up")
  BY DEF LinkHeard
<1>1. CASE running /\ UNCHANGED <<online, link, wifiPc, wifiEvent, events>>
  BY <1>1, <1>a DEF WifiSettled, LastWifi
<1>2. CASE WifiEmits
  <2>1. running /\ AppState \notin {"stopping", "failed", "stopped"}
    BY <1>2, StateOf DEF WifiEmits, ControlFits, PhaseFits, ServingStates
  <2>2. wifiPc' # "idle"
    BY <1>2, <2>1 DEF WifiEmits
  <2>3. Tells(wifiEvent)'
    BY <1>2 DEF WifiEmits, Transition
  <2> QED
    BY <2>2, <2>3 DEF WifiSettled
<1>3. CASE WifiPublishes
  BY <1>3, <1>a DEF WifiPublishes, WifiSettled
<1>4. CASE WifiQueues
  <2> DEFINE e == [type |-> "wifi", event |-> wifiEvent, published |-> published]
  <2>1. /\ e \in Events /\ e.type = "wifi" /\ e.event = wifiEvent
        /\ Post(e) /\ wifiPc = "queue" /\ wifiPc' = "idle" /\ UNCHANGED <<link, wifiEvent, online>>
    BY <1>4, Queued DEF WifiQueues
  <2> HIDE DEF e
  <2>2. running /\ Len(events) < QueueCap /\ events' = Append(events, e)
    BY <2>1 DEF Post
  <2>3. Tells(wifiEvent)
    BY <1>a, <2>1, <2>2
  <2>4. ~WifiSettled'
    BY <2>1, <2>2, LastAdded DEF WifiSettled
  <2> QED
    BY <2>1, <2>2, <2>3, <2>4, LastAdded
<1>5. CASE KeyQueues
  <2> DEFINE e == [type |-> "key", event |-> key, published |-> FALSE]
  <2>1. /\ e \in Events /\ e.type # "wifi"
        /\ Post(e) /\ UNCHANGED <<link, wifiEvent, wifiPc, online>>
    BY <1>5, Queued DEF KeyQueues
  <2> HIDE DEF e
  <2>2. running /\ Len(events) < QueueCap /\ events' = Append(events, e)
    BY <2>1 DEF Post
  <2>3. WifiSettled' => WifiSettled
    BY <2>1, <2>2, LastAdded DEF WifiSettled
  <2>4. ASSUME NEW i \in 1..Len(events'), LastWifi(i)'
        PROVE  LastWifi(i) /\ events'[i] = events[i] /\ i \in 1..Len(events)
    BY <2>1, <2>2, <2>4, LastAdded DEF LastWifi
  <2> QED
    BY <1>a, <2>1, <2>2, <2>3, <2>4
<1>6. CASE HandleKey
  <2>1. /\ running /\ events # <<>> /\ events' = Tail(events) /\ Head(events).type # "wifi"
        /\ UNCHANGED <<link, wifiEvent, wifiPc, online>>
    BY <1>6 DEF HandleKey, Take
  <2>2. WifiSettled' => WifiSettled
    BY <2>1, LastTaken DEF WifiSettled
  <2> QED
    BY <1>a, <2>1, <2>2, LastTaken
<1>7. CASE HandleWifi
  <2>1. /\ events # <<>> /\ events' = Tail(events) /\ Head(events).type = "wifi"
        /\ UNCHANGED <<link, wifiEvent, wifiPc>>
    BY <1>7 DEF HandleWifi, Take
  <2>2. running /\ (online' <=> Head(events).event = "connected")
    BY <1>7, NetworkShown DEF ControlFits
  <2>3. ASSUME WifiSettled'
        PROVE  Tells(Head(events).event)
    <3>1. wifiPc = "idle" /\ LastWifi(1) /\ 1 \in 1..Len(events) /\ events[1] = Head(events)
      BY <2>1, <2>3, LastTaken DEF WifiSettled
    <3> QED
      BY <1>a, <2>2, <3>1
  <2>4. WifiSettled' => (online' <=> link' = "up")
    BY <2>1, <2>2, <2>3
  <2> QED
    BY <1>a, <2>1, <2>2, <2>4, LastTaken
<1>8. CASE ControlStarts
  <2>1. /\ events = <<>> /\ events' = <<>> /\ wifiPc = "idle" /\ wifiPc' = "idle"
        /\ ~online' /\ link' # "up"
    BY <1>8 DEF ControlStarts, ControlFits, HandlersFit, OwnerFits
  <2> QED
    BY <2>1, NoEvents
<1>9. CASE KeyPressed \/ ExitPressed \/ LifecycleStep \/ RtcAsksStop \/ ServicesAttachKeys
           \/ ServicesReady \/ ControlStarted
  BY <1>9, <1>1 DEF KeyPressed, ExitPressed, LifecycleStep, RtcAsksStop, ServicesAttachKeys,
                    ServicesReady, ControlStarted
<1>10. CASE ServicesFail \/ ControlStartFails \/ Fini \/ Api \/ UNCHANGED vars
  <2>1. CASE FiniService \/ CallReturns
    BY <2>1, <1>1, LastSteps
  <2> QED
    BY <2>1, <1>10, <1>1
    DEF ServicesFail, ControlStartFails, Fini, Api, FiniBegins, FiniKeys, FiniEnds, FiniWifi,
        StartCalled, StopCalled, vars, ControlFits, PhaseFits
<1> QED
  BY <1>2, <1>3, <1>4, <1>5, <1>6, <1>7, <1>8, <1>9, <1>10 DEF Next, Wifi, Key, Worker

-----------------------------------------------------------------------------
(* The theorems                                                              *)

LEMMA AppInit == Init => AppInv
<1> SUFFICES ASSUME Init PROVE AppInv
  OBVIOUS
<1>1. TypeOK
  BY TypeInit
<1>2. ControlFits
  BY DEF Init, SurfaceInit, ControlFits, GateFits, PhaseFits, OwnerFits, HandlersFit, Talking
<1>3. LinkHeard /\ WakeWordsWhenReady /\ ShownIsNeverBehind
  BY DEF Init, LinkHeard, WakeWordsWhenReady, ShownIsNeverBehind
<1> QED
  BY <1>1, <1>2, <1>3 DEF AppInv

LEMMA AppNext == AppInv /\ [Next]_vars => AppInv'
BY TypeNext, ControlNext, LinkNext, WakeNext, ShownNext DEF AppInv

LEMMA AppInvariant == Spec => []AppInv
BY AppInit, AppNext, PTL DEF Spec

\* Every variable of the application has its type, and the control queue never holds more
\* than it has room for.
THEOREM AppTypeCorrect == Spec => []TypeOK
<1>1. AppInv => TypeOK
  BY DEF AppInv
<1> QED
  BY <1>1, AppInvariant, PTL

\* What the application shows is what its lifecycle and its link are: a conversation, a claim
\* or a pairing is never shown when it is over, and with no event on its way the network shown
\* is the link, whatever the threads and the queue did in between.
THEOREM StateIsAlwaysShown == Spec => []StateShown
<1>1. AppInv => StateShown
  BY DEF AppInv, StateShown, OnlineFollowsLink, LinkHeard
<1> QED
  BY <1>1, AppInvariant, PTL

\* Wake words are listened for exactly while a conversation can be started.
THEOREM WakeWordsOnlyWhenReady == Spec => []WakeWordsWhenReady
<1>1. AppInv => WakeWordsWhenReady
  BY DEF AppInv
<1> QED
  BY <1>1, AppInvariant, PTL

\* After mybot_stop(), and after a failed mybot_start(), nothing of the run is left.
THEOREM AlwaysQuietWhenStopped == Spec => []QuietWhenStopped
<1>1. AppInv => QuietWhenStopped
  <2> SUFFICES ASSUME AppInv, gate = "none", ~held
               PROVE  /\ worker = "none" /\ ~service /\ ~initialized /\ ~wake
                      /\ ~keys /\ key = "none"
                      /\ ~wifi /\ wifiPc = "idle"
                      /\ ~running /\ AppState = "stopped"
                      /\ owner = "idle" /\ ~Talking
    BY DEF QuietWhenStopped
  <2>1. worker = "none" /\ ~service
    BY DEF AppInv, ControlFits, GateFits
  <2>2. ~running /\ runPhase = "stopped"
    BY <2>1 DEF AppInv, ControlFits, PhaseFits
  <2>3. ~initialized /\ owner = "idle" /\ ~Talking
    BY <2>1 DEF AppInv, ControlFits, OwnerFits
  <2>4. ~wake /\ ~keys /\ key = "none" /\ ~wifi /\ wifiPc = "idle"
    BY <2>1 DEF AppInv, ControlFits, HandlersFit
  <2>5. AppState = "stopped"
    BY <2>2, StateOf DEF AppInv
  <2> QED
    BY <2>1, <2>2, <2>3, <2>4, <2>5
<1> QED
  BY <1>1, AppInvariant, PTL

=============================================================================
