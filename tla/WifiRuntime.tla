----------------------------- MODULE WifiRuntime -----------------------------
(***************************************************************************)
(* mybot_wifi_runtime.c: what the network worker and the provisioning share  *)
(* of the Wi-Fi.  Each has a runtime of its own, with a flag that says       *)
(* whether the station is its to stop; the driver has one station.           *)
(*                                                                           *)
(* The driver is external: starting and stopping the station may fail, and a *)
(* callback that has been unregistered does not run.  Its events only wake   *)
(* waits that also time out, and every wake-up asks the driver for the state *)
(* of the link, so they are left out.                                        *)
(***************************************************************************)
EXTENDS Naturals

VARIABLE link              \* the driver's station: "off", "on" or with an address

Absent == "absent"                  \* a thread that does not run, or has been joined
Modules == {"wifi", "netif"}        \* whose events call into a runtime
Linked == "got ip"

LinkMoves ==
  \/ link = "on" /\ link' = Linked
  \/ link = Linked /\ link' = "on"

\* mybot_wifi_runtime_stop_sta() of a runtime that owns the station or does not
StaStops(own) == link' = IF own THEN "off" ELSE link

\* mybot_wifi_runtime_start_sta()
StaStarts == link' = "on"

LinkTypeOK == link \in {"off", "on", Linked}
=============================================================================
