------------------------------- MODULE AppEvent -------------------------------
(***************************************************************************)
(* app_event.c with countdown_app.c, countdown.c and led_app.c: one thread   *)
(* takes events from a queue that any thread posts to without waiting, keeps *)
(* what the device knows of itself, and arms the timer that puts an idle     *)
(* device to sleep.                                                          *)
(*                                                                           *)
(* Speech recognition, provisioning, the RTC callbacks, the OTA and the      *)
(* battery monitor post whatever they see.  Tones, clocks, screens, the two  *)
(* LEDs' patterns and the events that change nothing here (mode switch,      *)
(* flash, Bluetooth) are left out, and so are registered handlers, of which  *)
(* the repository has none.  The RTOS's timers work.                         *)
(***************************************************************************)
EXTENDS Sequences, FiniteSets, Integers

CONSTANT QueueLimit        \* 15 in app_event_init()

ASSUME EventAssumption == QueueLimit \in Nat \ {0}

VARIABLES
  queue,             \* ae_queue
  standby, joined,   \* is_standby, is_joined_agent
  warnings,          \* warning_state
  indicates,         \* indicates_state
  tickets,           \* s_active_tickets
  handling,          \* the event whose ticket changes are made, but not the countdown's
  timer,             \* g_countdown_timer: the ticket it was started for, or Off
  lastSelected,      \* last_selected_ticket
  asr,               \* g_audio_engine.asr_result
  missed             \* history: the last change of it found the queue full

stateVars == <<standby, joined, warnings, indicates, tickets>>
timerVars == <<timer, lastSelected>>
sourceVars == <<asr, missed>>
eventVars == <<queue, stateVars, handling, timerVars, sourceVars>>

None == "none"
Off == "off"

Speech == {"WAKEUP", "STANDBY"}
Status ==
  {"PROVISIONING", "PROVISIONING_SUCCESS", "PROVISIONING_FAIL",
   "RECONNECT", "RECONNECT_SUCCESS", "RECONNECT_FAIL"}
Agent == {"CONNECTION_LOST", "REJOIN_SUCCESS", "JOINED", "OFFLINE", "START_FAIL"}
Ota == {"OTA_START", "OTA_END"}
Battery == {"LOW_VOLTAGE", "CHARGING"}
Events == Speech \cup Status \cup Agent \cup Ota \cup Battery

HighPriority == {"provision fail", "wifi fail", "rtc lost", "agent offline", "start fail"}
LowBattery == "low battery"
Indications == {"wifi reconnect", "provisioning", "power on", "standby", "agent connect"}
Tickets == {"provisioning", "network error", "standby", "ota"}

-----------------------------------------------------------------------------
(* The sources                                                               *)

Room == Len(queue) < QueueLimit

\* What does not fit takes the place of the oldest.
SendOverOldest(e) == queue' = Append(IF Room THEN queue ELSE Tail(queue), e)

\* app_event_send_msg(): what does not fit is dropped.
Send(e) == queue' = IF Room THEN Append(queue, e) ELSE queue

\* The recognition has already taken effect on the sound when it is announced.
Recognized ==
  \E e \in Speech :
    /\ asr' = e /\ Send(e)
    /\ missed' = ~Room
    /\ UNCHANGED <<stateVars, handling, timerVars>>

Announced ==
  \E e \in Events \ Speech : Send(e) /\ UNCHANGED <<stateVars, handling, timerVars, sourceVars>>

-----------------------------------------------------------------------------
(* app_event_thread()                                                        *)

Cleared(e) ==      \* of warning_state
  CASE e = "PROVISIONING" -> HighPriority
    [] e = "PROVISIONING_SUCCESS" -> {"provision fail"}
    [] e \in {"RECONNECT", "RECONNECT_SUCCESS"} -> {"wifi fail"}
    [] e = "REJOIN_SUCCESS" -> {"rtc lost"}
    [] e = "JOINED" -> {"rtc lost", "agent offline", "wifi fail", "start fail"}
    [] e = "CHARGING" -> {LowBattery}
    [] OTHER -> {}

Raised(e) ==
  CASE e = "PROVISIONING_FAIL" -> {"provision fail"}
    [] e = "RECONNECT_FAIL" -> {"wifi fail"}
    [] e = "CONNECTION_LOST" -> {"rtc lost"}
    [] e = "OFFLINE" -> {"agent offline"}
    [] e = "START_FAIL" -> {"start fail"}
    [] e = "LOW_VOLTAGE" -> {LowBattery}
    [] OTHER -> {}

Returned(e) ==     \* of s_active_tickets
  CASE e = "WAKEUP" -> {"standby"}
    [] e \in {"PROVISIONING", "JOINED"} -> {"network error"}
    [] e \in {"PROVISIONING_SUCCESS", "PROVISIONING_FAIL", "RECONNECT_SUCCESS"} -> {"provisioning"}
    [] e = "OTA_END" -> {"ota"}
    [] OTHER -> {}

Drawn(e) ==
  CASE e = "STANDBY" -> {"standby"}
    [] e = "PROVISIONING" -> {"provisioning"}
    [] e \in {"PROVISIONING_FAIL", "RECONNECT_FAIL", "OFFLINE", "START_FAIL"} -> {"network error"}
    [] e = "OTA_START" -> {"ota"}
    [] OTHER -> {}

Dimmed(e) ==       \* of indicates_state
  CASE e = "WAKEUP" -> {"standby"}
    [] e = "PROVISIONING" -> {"agent connect", "power on", "wifi reconnect"}
    [] e \in {"PROVISIONING_SUCCESS", "PROVISIONING_FAIL"} -> {"provisioning"}
    [] e = "RECONNECT" -> {"power on"}
    [] e \in {"RECONNECT_SUCCESS", "RECONNECT_FAIL"} -> {"wifi reconnect"}
    [] e = "JOINED" -> {"agent connect", "provisioning"}
    [] OTHER -> {}

\* A rejoin shows it whatever the device was doing.
ShowsStandbyOnRejoin(e) ==
  \/ e = "STANDBY"
  \/ e = "JOINED" /\ standby
  \/ e = "REJOIN_SUCCESS" /\ joined
  \/ e = "RECONNECT_SUCCESS" /\ "wifi fail" \in warnings /\ joined /\ standby

\* Back on the network with the agent already there, the device shows its standby again.
ShowsStandby(e) ==
  \/ e = "STANDBY"
  \/ e = "JOINED" /\ standby
  \/ e = "REJOIN_SUCCESS" /\ joined /\ standby
  \/ e = "RECONNECT_SUCCESS" /\ "wifi fail" \in warnings /\ joined /\ standby

Lit(e) ==
  (IF ShowsStandby(e) THEN {"standby"} ELSE {}) \cup
  CASE e = "PROVISIONING" -> {"provisioning"}
    [] e = "PROVISIONING_SUCCESS" -> {"agent connect"}
    [] e = "RECONNECT" -> {"wifi reconnect"}
    [] e = "RECONNECT_SUCCESS" /\ "wifi fail" \notin warnings -> {"agent connect"}
    [] OTHER -> {}

Handle ==
  /\ handling = None /\ queue # <<>>
  /\ LET e == Head(queue) IN
     /\ queue' = Tail(queue)
     /\ handling' = e
     /\ standby' = ((standby \/ e = "STANDBY") /\ e # "WAKEUP")
     /\ joined' = ((joined \/ e = "JOINED") /\ e # "OFFLINE")
     /\ warnings' = (warnings \ Cleared(e)) \cup Raised(e)
     /\ tickets' = (tickets \ Returned(e)) \cup Drawn(e)
     /\ indicates' = (indicates \ Dimmed(e)) \cup Lit(e)
  /\ UNCHANGED <<timerVars, sourceVars>>

\* The first in the order of countdown_ticket_t
Selected(t) ==
  IF "provisioning" \in t THEN "provisioning"
  ELSE IF "network error" \in t THEN "network error"
  ELSE IF "standby" \in t THEN "standby" ELSE None

\* A device with nothing to wait for leaves the timer alone.
UpdateCountdownUnlessNone(t) ==
  IF "ota" \in t THEN timer' = Off /\ UNCHANGED lastSelected
  ELSE IF Selected(t) = None THEN lastSelected' = None /\ UNCHANGED timer
  ELSE IF Selected(t) = lastSelected /\ lastSelected = "network error" THEN UNCHANGED timerVars
  ELSE timer' = Selected(t) /\ lastSelected' = Selected(t)

\* update_countdown(): the time of a network error runs on through further events.
UpdateCountdown(t) ==
  IF "ota" \in t THEN timer' = Off /\ UNCHANGED lastSelected
  ELSE IF Selected(t) = None THEN timer' = Off /\ lastSelected' = None
  ELSE IF Selected(t) = lastSelected /\ lastSelected = "network error" THEN UNCHANGED timerVars
  ELSE timer' = Selected(t) /\ lastSelected' = Selected(t)

\* led_blink() takes the warning of a low battery back, unless something else is shown.
LedBlink ==
  warnings' = IF "provisioning" \in indicates \/ warnings \cap HighPriority # {} THEN warnings
              ELSE warnings \ {LowBattery}

Finish ==
  /\ handling # None
  /\ handling' = None
  /\ IF handling \in Battery THEN UNCHANGED timerVars ELSE UpdateCountdown(tickets)
  /\ LedBlink
  /\ UNCHANGED <<queue, standby, joined, indicates, tickets, sourceVars>>

\* CountdownCallback(): the timer's thread restarts the device into deep sleep, and
\* whatever wakes it starts it anew.
TimeIsUp ==
  /\ timer # Off
  /\ queue' = <<>> /\ handling' = None
  /\ standby' = TRUE /\ joined' = FALSE
  /\ warnings' = {} /\ indicates' = {"power on"} /\ tickets' = {"standby"}
  /\ timer' = "standby" /\ lastSelected' = "standby"
  /\ asr' = "STANDBY" /\ missed' = FALSE

-----------------------------------------------------------------------------
EventInit ==
  /\ queue = <<>> /\ handling = None
  /\ standby = TRUE /\ joined = FALSE
  /\ warnings = {} /\ indicates = {"power on"} /\ tickets = {"standby"}
  /\ timer = "standby" /\ lastSelected = "standby"
  /\ asr = "STANDBY" /\ missed = FALSE

EventNext == Recognized \/ Announced \/ Handle \/ Finish \/ TimeIsUp
EventSpec == EventInit /\ [][EventNext]_eventVars

-----------------------------------------------------------------------------
(* Properties                                                                *)

EventTypeOK ==
  /\ queue \in Seq(Events) /\ Len(queue) <= QueueLimit
  /\ standby \in BOOLEAN /\ joined \in BOOLEAN
  /\ warnings \subseteq HighPriority \cup {LowBattery}
  /\ indicates \subseteq Indications /\ tickets \subseteq Tickets
  /\ handling \in Events \cup {None}
  /\ timer \in (Tickets \ {"ota"}) \cup {Off}
  /\ lastSelected \in (Tickets \ {"ota"}) \cup {None}
  /\ asr \in Speech /\ missed \in BOOLEAN

\* Between two events the device goes to sleep only for the reason it has now, never
\* for one that has passed, during an update, or while nothing lets it sleep.  And it
\* does go to sleep, except for a network error that was timed before an update too:
\* that one is not timed again after it.
TimerFitsTickets ==
  handling = None =>
    /\ timer # Off => "ota" \notin tickets /\ timer = Selected(tickets)
    /\ "ota" \notin tickets /\ Selected(tickets) \notin {None, "network error"} => timer # Off

\* Standby is one fact kept in three places: the flag that admits a mode switch, the
\* ticket that lets the device sleep, and the LED.
StandbyAgrees ==
  /\ standby <=> "standby" \in tickets
  /\ "standby" \in indicates => standby

\* A device that shows a fault it cannot leave by itself has the ticket that will put
\* it to sleep; only the warning of a failed provisioning may outlast it, since a
\* joining agent does not clear that one.
FaultsAreTimed ==
  warnings \cap {"wifi fail", "agent offline", "start fail"} # {} => "network error" \in tickets

\* The device goes to sleep, for the reason it has.
SleepIsTimed == TimerFitsTickets /\ FaultsAreTimed

\* When every event is handled, the device knows what the recognition has heard last,
\* even after events were lost, unless the last one was.
SettledIsCurrent ==
  queue = <<>> /\ handling = None /\ ~missed => (standby <=> asr = "STANDBY")
=============================================================================
