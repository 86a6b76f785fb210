----------------------------- MODULE Provisioning -----------------------------
(***************************************************************************)
(* mybot_provisioning_bk725x.c with mybot_wifi_credentials.c: a worker opens *)
(* an access point with a small web server, on which a user tries networks,  *)
(* saves those that work, orders and deletes them, and ends the provisioning; *)
(* the controller polls a state that the worker sets, stops it and frees the *)
(* context they share, or keeps it when the driver refuses.                  *)
(*                                                                           *)
(* The pages, the parsing of requests and the passwords are left out: a      *)
(* request is what it asks for, and one that is not understood does nothing. *)
(* The store writes a list whole or not at all.                              *)
(***************************************************************************)
EXTENDS WifiRuntime, Sequences

CONSTANTS
  Networks,          \* the SSIDs a user may enter
  MaxCredentials     \* MYBOT_WIFI_MAX_CREDENTIALS

ASSUME ProvisioningAssumption == MaxCredentials \in Nat \ {0}

VARIABLES
  portal,            \* s_active_ctx is set
  portalStopping,    \* ctx->wifi.stopping
  portalAttached,    \* the modules whose events call into the context
  station,           \* ctx->wifi.sta_owned
  scanning,          \* ctx->wifi.scan_in_progress
  ap,                \* ctx->ap_started
  held,              \* ctx->credentials
  stored,            \* what mybot_wifi_credentials_load() finds
  exiting,           \* exit_requested
  state,             \* s_provisioning_state
  portalWorker,      \* where the worker is
  candidate          \* the network that is being tried

ownership == <<portal, portalStopping, portalAttached>>
radio == <<station, scanning, ap, link>>
lists == <<held, stored>>
Nobody == "nobody"
Lists == UNION {[1..n -> Networks] : n \in 0..MaxCredentials}

-----------------------------------------------------------------------------
(* mybot_wifi_credentials.c: the latest is the first                         *)

Without(list, i) == SubSeq(list, 1, i - 1) \o SubSeq(list, i + 1, Len(list))

\* mybot_wifi_credentials_add(): one that is there keeps its place.
Added(list, n) ==
  IF \E i \in DOMAIN list : list[i] = n THEN list
  ELSE <<n>> \o SubSeq(list, 1, IF Len(list) < MaxCredentials THEN Len(list) ELSE MaxCredentials - 1)

\* mybot_wifi_credentials_set_default(), mybot_wifi_credentials_delete()
Edits(list) == {<<list[i]>> \o Without(list, i) : i \in DOMAIN list}
                 \cup {Without(list, i) : i \in DOMAIN list}

\* A save that forgets the list it started from
SaveWithoutRollback(list) == held' = list /\ stored' \in {list, stored}

\* mybot_wifi_credentials_save(), and the list as it was when that fails
Save(list) == (held' = list /\ stored' = list) \/ UNCHANGED lists

-----------------------------------------------------------------------------
(* mybot_wifi_runtime.c, start_softap(), stop_softap()                       *)

StopStation == (station' = FALSE /\ StaStops(station)) \/ (station /\ UNCHANGED <<station, link>>)
StopScanning == scanning' \in {FALSE, scanning}
StopAp == ap' \in {FALSE, ap}
Release == StopScanning /\ StopAp /\ StopStation
Released == ~scanning' /\ ~ap' /\ ~station'

-----------------------------------------------------------------------------
(* wifi_worker()                                                             *)

Continues(at) == portalWorker' = at /\ UNCHANGED ownership
ServesAgain == Continues("serve") /\ candidate' = Nobody

\* run_configuration_portal(): no access point, or no server on it, ends it.
Open ==
  /\ portalWorker = "open"
  /\ \/ ap' \in {ap, ~portalStopping} /\ UNCHANGED scanning /\ Continues("broken")
     \/ ~portalStopping /\ ap' = TRUE /\ scanning' \in BOOLEAN /\ Continues("serve")
  /\ UNCHANGED <<station, link, lists, exiting, state, candidate>>

\* A scan that is done, that takes too long, or that is due
Scan ==
  /\ portalWorker = "serve"
  /\ \/ scanning /\ StopScanning
     \/ ~scanning /\ ~exiting /\ ~portalStopping /\ scanning' = TRUE
  /\ UNCHANGED <<ownership, station, ap, link, lists, exiting, state, portalWorker, candidate>>

\* /saved/set_default and /saved/delete
Edit ==
  /\ portalWorker = "serve"
  /\ \E list \in Edits(held) : Save(list)
  /\ UNCHANGED <<ownership, radio, exiting, state, portalWorker, candidate>>

\* /submit: test_credentials() needs the scan to be over.
Submit ==
  /\ portalWorker = "serve"
  /\ StopScanning
  /\ IF scanning' THEN UNCHANGED <<ownership, portalWorker, candidate>>
     ELSE candidate' \in Networks /\ Continues("try")
  /\ UNCHANGED <<station, ap, link, lists, exiting, state>>

\* /exit, from a page that anyone may have opened without saving a network
Exit ==
  /\ portalWorker = "serve"
  /\ exiting' = TRUE
  /\ UNCHANGED <<ownership, radio, lists, state, portalWorker, candidate>>

Try ==
  /\ portalWorker = "try"
  /\ \/ /\ ~portalStopping /\ station' = TRUE /\ StaStarts
        /\ Continues("wait") /\ UNCHANGED candidate
     \/ StopStation /\ ServesAgain
  /\ UNCHANGED <<scanning, ap, lists, exiting, state>>

\* Only a network whose station could be stopped again has passed.
Wait ==
  /\ portalWorker = "wait"
  /\ StopStation
  /\ \/ ~portalStopping /\ link = Linked /\ ~station' /\ Continues("save") /\ UNCHANGED candidate
     \/ Continues("try") /\ UNCHANGED candidate
     \/ ServesAgain
  /\ UNCHANGED <<scanning, ap, lists, exiting, state>>

SaveCandidate ==
  /\ portalWorker = "save"
  /\ Save(Added(held, candidate))
  /\ ServesAgain
  /\ UNCHANGED <<radio, exiting, state>>

\* The time to exit has come, or the server has failed, or the worker is to stop.
Close ==
  /\ portalWorker = "serve"
  /\ \/ exiting /\ ~portalStopping /\ Continues("done")
     \/ Continues("broken")
  /\ UNCHANGED <<radio, lists, exiting, state, candidate>>

ReleaseWifi ==
  /\ portalWorker \in {"done", "broken"}
  /\ Release
  /\ state' = IF portalStopping THEN state
              ELSE IF portalWorker = "done" /\ Released THEN "completed" ELSE "failed"
  /\ Continues("ending")
  /\ UNCHANGED <<lists, exiting, candidate>>

EndPortal ==
  /\ portalWorker = "ending"
  /\ Continues("ended")
  /\ UNCHANGED <<radio, lists, exiting, state, candidate>>

Portal ==
  \/ Open \/ Scan \/ Edit \/ Submit \/ Exit \/ Try \/ Wait \/ SaveCandidate
  \/ Close \/ ReleaseWifi \/ EndPortal

-----------------------------------------------------------------------------
(* mybot_provisioning_start(), mybot_provisioning_stop()                     *)

StartPortal ==
  /\ ~portal
  /\ portal' = TRUE /\ portalStopping' = FALSE /\ portalAttached' = Modules
  /\ held' = stored /\ exiting' = FALSE /\ candidate' = Nobody
  /\ state' = "running" /\ portalWorker' = "open"
  /\ UNCHANGED <<stored, radio>>

\* A context whose callbacks cannot be taken back is kept.
StartPortalFails ==
  /\ ~portal
  /\ portalAttached' \in SUBSET Modules
  /\ portal' = (portalAttached' # {}) /\ portalStopping' = portal'
  /\ state' = IF portal' THEN "failed" ELSE "idle"
  /\ UNCHANGED <<radio, lists, exiting, portalWorker, candidate>>

RequestPortalStop ==
  /\ portal /\ portalStopping' = TRUE
  /\ portalAttached' \in SUBSET portalAttached
  /\ UNCHANGED <<portal, radio, lists, exiting, state, portalWorker, candidate>>

\* A context that is freed takes what it held with it.
Freed ==
  /\ portal' = FALSE /\ portalStopping' = FALSE /\ state' = "idle"
  /\ held' = <<>> /\ exiting' = FALSE /\ candidate' = Nobody

\* rtos_thread_join(), and what the worker could not release
StopPortal ==
  /\ portalWorker \in {"ended", Absent} /\ portalWorker' = Absent
  /\ Release
  /\ IF Released /\ portalAttached = {} THEN Freed
     ELSE UNCHANGED <<portal, portalStopping, state, held, exiting, candidate>>
  /\ UNCHANGED <<portalAttached, stored>>

-----------------------------------------------------------------------------
PortalInit ==
  /\ portal = FALSE /\ portalStopping = FALSE /\ portalAttached = {}
  /\ station = FALSE /\ scanning = FALSE /\ ap = FALSE
  /\ stored \in {<<>>} \cup {<<n>> : n \in Networks} /\ held = <<>>
  /\ exiting = FALSE /\ state = "idle" /\ portalWorker = Absent /\ candidate = Nobody

PortalTypeOK ==
  /\ portal \in BOOLEAN /\ portalStopping \in BOOLEAN /\ portalAttached \subseteq Modules
  /\ station \in BOOLEAN /\ scanning \in BOOLEAN /\ ap \in BOOLEAN
  /\ held \in Lists /\ stored \in Lists
  /\ exiting \in BOOLEAN
  /\ state \in {"idle", "running", "completed", "failed"}
  /\ portalWorker \in {Absent, "open", "serve", "try", "wait", "save", "done", "broken",
                       "ending", "ended"}
  /\ candidate \in Networks \cup {Nobody}

\* The worker, the driver's callbacks and what still runs of the Wi-Fi have their context.
PortalOutlivesUsers ==
  portalWorker # Absent \/ portalAttached # {} \/ station \/ scanning \/ ap => portal

\* The list that is served is the one that a restart will find, whatever failed; it
\* fits its record, and no network is in it twice.
ListsAgree ==
  /\ portalWorker # Absent => held = stored
  /\ Len(stored) <= MaxCredentials
  /\ \A i, j \in DOMAIN stored : stored[i] = stored[j] => i = j
=============================================================================
