---------------------------- MODULE NetworkWorker ----------------------------
(***************************************************************************)
(* mybot_network_bk725x.c with mybot_wifi_runtime.c: a worker finds a saved  *)
(* network, watches the link and reports it in one flag that the controller  *)
(* polls; the controller starts the worker and stops it by a flag, joins it  *)
(* and frees the context they share, or keeps it when the driver refuses.    *)
(* A scan decides only the order of the candidates; what matters is that it  *)
(* may still be running when it cannot be stopped.                           *)
(***************************************************************************)
EXTENDS WifiRuntime

VARIABLES
  context,           \* s_network is set
  stopping,          \* ctx->wifi.stopping
  attached,          \* the modules whose events call into the context
  owned,             \* ctx->wifi.sta_owned
  scan,              \* ctx->wifi.scan_in_progress
  connected,         \* ctx->connected
  worker             \* where the worker is

-----------------------------------------------------------------------------
(* The station                                                               *)

\* mybot_wifi_runtime_stop_sta()
StaStopped == owned' = FALSE /\ StaStops(owned)
StopSta == StaStopped \/ (owned /\ UNCHANGED <<owned, link>>)

StaStarted == owned' = TRUE /\ StaStarts

-----------------------------------------------------------------------------
(* network_worker()                                                          *)

Goes(at) == worker' = at /\ UNCHANGED <<context, stopping, attached>>

\* The station may be connected already, since before the controller ran.
FindExisting ==
  /\ worker = "find"
  /\ \/ link = Linked /\ owned' = TRUE /\ Goes("tell")
     \/ UNCHANGED owned /\ Goes("connect")
  /\ UNCHANGED <<scan, connected, link>>

\* mybot_wifi_runtime_stop_scan() may fail.
StopScan == scan' \in {FALSE, scan}

\* connect_saved_until(): one candidate after the other until its time is up; the scan
\* before the first may end, or be left running.
Connect ==
  /\ worker = "connect"
  /\ scan' \in {scan, TRUE}
  /\ \/ stopping /\ StopSta /\ Goes("leave")
     \/ ~stopping /\ StaStarted /\ Goes("wait for ip")
     \/ ~stopping /\ StopSta /\ Goes("back off")
  /\ UNCHANGED connected

WaitForIp ==
  /\ worker = "wait for ip"
  /\ \/ ~stopping /\ link = Linked /\ Goes("tell") /\ UNCHANGED <<owned, link>>
     \/ StopSta /\ \E at \in {"connect", "back off"} : Goes(at)
  /\ UNCHANGED <<scan, connected>>

BackOff ==
  /\ worker = "back off"
  /\ StopSta /\ Goes(IF stopping THEN "leave" ELSE "connect")
  /\ UNCHANGED <<scan, connected>>

\* publish_connected() asks whether it is to stop, and then reports.
Tell ==
  /\ worker = "tell"
  /\ Goes(IF stopping THEN "leave" ELSE "report")
  /\ UNCHANGED <<scan, owned, connected, link>>

Report ==
  /\ worker = "report"
  /\ connected' = TRUE
  /\ Goes("watch")
  /\ UNCHANGED <<scan, owned, link>>

\* A worker that waits for the event of a loss, and does not look at the link itself
WatchForEvents ==
  /\ worker = "watch" /\ stopping
  /\ Goes("leave") /\ UNCHANGED <<scan, owned, connected, link>>

\* While the link holds, it is only reported again.
Watch ==
  /\ worker = "watch"
  /\ \/ stopping /\ Goes("leave") /\ UNCHANGED connected
     \/ ~stopping /\ link # Linked /\ connected' = FALSE /\ Goes("reconnect")
  /\ UNCHANGED <<scan, owned, link>>

\* reconnect_current()
Reconnect ==
  /\ worker = "reconnect"
  /\ \/ stopping /\ Goes("leave") /\ UNCHANGED <<owned, link>>
     \/ ~stopping /\ StaStarted /\ Goes("wait again")
     \/ ~stopping /\ StopSta /\ Goes("connect")
  /\ UNCHANGED <<scan, connected>>

WaitAgain ==
  /\ worker = "wait again"
  /\ \/ ~stopping /\ link = Linked /\ Goes("tell")
     \/ \E at \in {"reconnect", "connect"} : Goes(at)
  /\ UNCHANGED <<scan, owned, connected, link>>

Leave ==
  /\ worker = "leave"
  /\ StopScan /\ StopSta
  /\ connected' = FALSE
  /\ Goes("ended")

Worker ==
  \/ FindExisting \/ Connect \/ WaitForIp \/ BackOff \/ Tell \/ Report \/ Watch
  \/ Reconnect \/ WaitAgain \/ Leave

-----------------------------------------------------------------------------
(* mybot_network_start(), mybot_network_stop()                               *)

StartNetwork ==
  /\ ~context
  /\ context' = TRUE /\ stopping' = FALSE /\ connected' = FALSE
  /\ attached' = Modules /\ worker' = "find"
  /\ UNCHANGED <<owned, scan, link>>

\* A context whose callbacks cannot be taken back is kept.
StartNetworkFails ==
  /\ ~context
  /\ attached' \in SUBSET Modules
  /\ context' = (attached' # {}) /\ stopping' = context'
  /\ UNCHANGED <<owned, scan, connected, worker, link>>

RequestStop ==
  /\ context /\ stopping' = TRUE
  /\ attached' \in SUBSET attached
  /\ UNCHANGED <<context, owned, scan, connected, worker, link>>

\* rtos_thread_join() and release_wifi(): a stop that does not wait for its worker
StopNetworkUnjoined ==
  /\ StopScan /\ StopSta
  /\ context' = (owned' \/ scan' \/ attached # {}) /\ stopping' = context'
  /\ UNCHANGED <<attached, connected, worker>>

StopNetwork ==
  /\ worker \in {"ended", Absent} /\ worker' = Absent
  /\ StopScan /\ StopSta
  /\ context' = (owned' \/ scan' \/ attached # {}) /\ stopping' = context'
  /\ UNCHANGED <<attached, connected>>

-----------------------------------------------------------------------------
NetworkInit ==
  /\ context = FALSE /\ stopping = FALSE /\ attached = {} /\ owned = FALSE /\ scan = FALSE
  /\ connected = FALSE /\ worker = Absent /\ link \in {"off", Linked}

NetworkTypeOK ==
  /\ context \in BOOLEAN /\ stopping \in BOOLEAN /\ owned \in BOOLEAN /\ scan \in BOOLEAN
  /\ connected \in BOOLEAN
  /\ attached \subseteq Modules
  /\ worker \in {Absent, "find", "connect", "wait for ip", "back off", "tell", "report",
                 "watch", "reconnect", "wait again", "leave", "ended"}
  /\ LinkTypeOK

\* What the worker, the driver's callbacks and the station still in use need is freed
\* after the last of them, whatever failed, and a new run starts from nothing.
ContextOutlivesUsers == worker # Absent \/ attached # {} \/ owned \/ scan => context
=============================================================================
