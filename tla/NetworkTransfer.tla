--------------------------- MODULE NetworkTransfer ---------------------------
(***************************************************************************)
(* network_transfer.c over either of its back ends, bk_agora_api.c with     *)
(* agora_rtc_engine.c or bk_volc_api.c with volc_rtc_engine.c: a start asks *)
(* the server for an agent and creates the RTC thread, which joins, reports *)
(* through a semaphore and runs until a stop clears its flag and waits for  *)
(* it on the same semaphore.                                                *)
(*                                                                          *)
(* The smart configuration starts it from the network and the Bluetooth     *)
(* thread, stops it from the key thread and updates it from a thread of its *)
(* own (Callers); nothing in these files keeps two apart (Overlap).  The    *)
(* RTC library, the server and the RTOS are external: what they are asked   *)
(* may fail, and a library that has been finished calls no more.  Stopping  *)
(* the agent is answered without asking anyone.  Volc is taken to refuse a  *)
(* join on an engine it could not make; it reports no loss, so that its     *)
(* rejoin finds the flag set already and changes nothing.                   *)
(***************************************************************************)
CONSTANTS
  Callers,           \* the threads that call
  Overlap            \* they do so while another's call is in progress

ASSUME TransferAssumption == Overlap \in BOOLEAN

VARIABLES
  backend,           \* the library this firmware is built with
  initialized,       \* g_ntwk_trans_ctx: initialized
  isStarted,         \* g_ntwk_trans_ctx: is_started
  info,              \* agora_rtc_agent_info, volc_room_info is allocated
  running,           \* agora_runing, byte_runing
  connected,         \* g_connected_flag
  sem,               \* agora_sem, byte_sem: NoSem or what it holds
  call,              \* of each caller, its call and how far it is
  rtc,               \* where the RTC thread is
  state,             \* its library's state: rtc->state
  engine, conn,      \* the library is initialized; its connection
  notifying,         \* how far a library thread is in __on_join_channel_success()
  failed             \* history: something failed since a stop last found it running

contextVars == <<backend, initialized, isStarted>>
apiVars == <<info, running, connected>>
libraryVars == <<state, engine, conn, notifying>>
vars == <<contextVars, apiVars, sem, call, rtc, libraryVars, failed>>

NoSem == "none"
Rest == [op |-> "none", at |-> "rest"]
Enters(c, op, at) ==
  /\ call[c] = Rest
  /\ Overlap \/ \A d \in Callers : call[d] = Rest
  /\ call' = [call EXCEPT ![c] = [op |-> op, at |-> at]]
Goes(c, at) == call' = [call EXCEPT ![c].at = at]
Returns(c) == call' = [call EXCEPT ![c] = Rest]
Fails(c) == Returns(c) /\ failed' = TRUE

-----------------------------------------------------------------------------
(* network_transfer.c                                                       *)

\* Only the pre-configuration may fail, which leaves nothing.
NtwkInit(c) ==
  /\ call[c] = Rest /\ ~initialized
  /\ initialized' = TRUE
  /\ UNCHANGED <<backend, isStarted, apiVars, sem, call, rtc, libraryVars, failed>>

NtwkStart(c) ==
  /\ initialized /\ ~isStarted
  /\ Enters(c, "start", "agent")
  /\ UNCHANGED <<contextVars, apiVars, sem, rtc, libraryVars, failed>>

\* A stop that forgets the flag
NtwkStopKeepingFlag(c) ==
  /\ initialized /\ isStarted
  /\ \E op \in {"stop", "deinit"} : Enters(c, op, "halt")
  /\ UNCHANGED <<contextVars, apiVars, sem, rtc, libraryVars, failed>>

\* ntwk_trans_deinit() stops first, and fails with a transfer that is not started.
NtwkStop(c) ==
  /\ initialized /\ isStarted
  /\ \E op \in {"stop", "deinit"} : Enters(c, op, "halt")
  /\ isStarted' = FALSE
  /\ UNCHANGED <<backend, initialized, apiVars, sem, rtc, libraryVars, failed>>

\* ntwk_trans_update() does not ask whether the transfer is started.
NtwkUpdate(c) ==
  /\ initialized
  /\ Enters(c, "update", "halt")
  /\ UNCHANGED <<contextVars, apiVars, sem, rtc, libraryVars, failed>>

-----------------------------------------------------------------------------
(* bk_agora_rtc_start(), bk_agora_rtc_stop() and their callers              *)

\* A stop that finds the transfer running has nothing left to mend; an update has.
Forgiven(c) == failed' = (IF call[c].op = "update" THEN failed ELSE FALSE)

\* bk_agora_start(): the agent's information is kept until a stop.
StartAgent(c) ==
  /\ call[c].at = "agent"
  /\ \/ running /\ Fails(c) /\ UNCHANGED info
     \/ ~running /\ info' \in {info, TRUE} /\ Fails(c)
     \/ ~running /\ info' = TRUE /\ Goes(c, "create") /\ UNCHANGED failed
  /\ UNCHANGED <<contextVars, running, connected, sem, rtc, libraryVars>>

\* bk_agora_update_agent(): the agent is asked to change while RTC is stopped.
UpdateAgent(c) ==
  /\ call[c].at = "ask"
  /\ \/ Fails(c)
     \/ info /\ Goes(c, "create") /\ UNCHANGED failed
  /\ UNCHANGED <<contextVars, apiVars, sem, rtc, libraryVars>>

\* The semaphore and the thread
CreateThread(c) ==
  /\ call[c].at = "create"
  /\ \/ ~running /\ sem' = "empty" /\ rtc' = "create" /\ Goes(c, "wait start") /\ UNCHANGED failed
     \/ sem' \in {sem, NoSem} /\ Fails(c) /\ UNCHANGED rtc
  /\ UNCHANGED <<contextVars, apiVars, libraryVars>>

\* Whatever the thread has done when it releases the semaphore, the start succeeds.
StartReturns(c) ==
  /\ call[c].at = "wait start" /\ sem = "full"
  /\ sem' = "empty"
  /\ isStarted' = (IF call[c].op = "start" THEN TRUE ELSE isStarted)
  /\ Returns(c)
  /\ UNCHANGED <<backend, initialized, apiVars, rtc, libraryVars, failed>>

\* After RTC: the agent is stopped, which cannot fail, and its information freed.
Stopped(c) ==
  \/ call[c].op = "update" /\ Goes(c, "ask") /\ UNCHANGED <<info, initialized>>
  \/ call[c].op = "stop" /\ Returns(c) /\ info' = FALSE /\ UNCHANGED initialized
  \/ call[c].op = "deinit" /\ Returns(c) /\ info' = FALSE /\ initialized' = FALSE

\* A stop that does not wait for the thread
RtcStopAtOnce(c) ==
  /\ call[c].at = "halt"
  /\ running' = FALSE /\ Forgiven(c) /\ sem' = NoSem
  /\ Stopped(c)
  /\ UNCHANGED <<backend, isStarted, connected, rtc, libraryVars>>

RtcStop(c) ==
  /\ call[c].at = "halt"
  /\ \/ running /\ running' = FALSE /\ Forgiven(c)
        /\ Goes(c, "wait stop")
        /\ UNCHANGED <<info, initialized>>
     \/ ~running /\ Stopped(c) /\ UNCHANGED <<running, failed>>
  /\ UNCHANGED <<backend, isStarted, connected, sem, rtc, libraryVars>>

RtcStopped(c) ==
  /\ call[c].at = "wait stop" /\ sem = "full"
  /\ sem' = NoSem
  /\ Stopped(c)
  /\ UNCHANGED <<backend, isStarted, running, connected, rtc, libraryVars, failed>>

-----------------------------------------------------------------------------
(* The RTC thread: bk_agora_rtc_main(), bk_byte_rtc_main()                  *)

Moves(from, to) == rtc = from /\ rtc' = to

\* bk_byte_rtc_main() leaves without a word when the app_id is empty.
RtcUnnamed ==
  /\ backend = "volc"
  /\ Moves("create", "gone")
  /\ info' = FALSE /\ failed' = TRUE
  /\ UNCHANGED <<contextVars, running, connected, sem, call, libraryVars>>

\* __agora_rtc_create(), __byte_rtc_create(): the latter's failure is not looked at.
RtcCreates ==
  /\ rtc = "create"
  /\ state' = "null" /\ conn' = "none"
  /\ \/ engine' = TRUE /\ rtc' = "join" /\ UNCHANGED failed
     \/ engine' = FALSE /\ failed' = TRUE
        /\ rtc' = (IF backend = "agora" THEN "leave" ELSE "join")
  /\ UNCHANGED <<contextVars, apiVars, sem, call, notifying>>

\* __agora_rtc_start() makes a connection and joins; __byte_rtc_start() joins.  The
\* flag and the semaphore are one step: the only caller is waiting for both.
RtcJoins ==
  /\ rtc = "join"
  /\ \/ /\ engine
        /\ conn' = "joining"
        /\ running' = TRUE /\ sem' = "full"
        /\ rtc' = "wait" /\ UNCHANGED failed
     \/ /\ conn' \in (IF backend = "agora" THEN {"none", "made"} ELSE {"none"})
        /\ rtc' = "leave" /\ failed' = TRUE
        /\ UNCHANGED <<running, sem>>
  /\ UNCHANGED <<contextVars, info, connected, call, state, engine, notifying>>

\* Every 100 ms
RtcWaits ==
  /\ rtc = "wait"
  /\ \/ connected /\ rtc' = "loop"
     \/ ~connected /\ ~running /\ rtc' = "leave"
  /\ UNCHANGED <<contextVars, apiVars, sem, call, libraryVars, failed>>

RtcLoops ==
  /\ ~running /\ Moves("loop", "leave")
  /\ UNCHANGED <<contextVars, apiVars, sem, call, libraryVars, failed>>

\* __agora_rtc_stop() does nothing before the connection has been joined, and
\* leaves it to agora_rtc_fini(); __byte_rtc_stop() asks the engine to finish.
RtcLeaves ==
  /\ Moves("leave", "destroy")
  /\ \/ backend = "agora" /\ state = "null" /\ UNCHANGED <<state, conn>>
     \/ ~(backend = "agora" /\ state = "null") /\ state' = "idle" /\ conn' = "none"
  /\ UNCHANGED <<contextVars, apiVars, sem, call, engine, notifying, failed>>

\* The state is left to whoever set it last.
RtcDestroysKeepingState ==
  /\ Moves("destroy", "clear") /\ notifying = "no"
  /\ engine' = FALSE /\ conn' = "none"
  /\ UNCHANGED <<contextVars, apiVars, sem, call, state, notifying, failed>>

\* agora_rtc_fini(), byte_rtc_destroy(): callbacks in flight have returned.  An engine
\* that was never made keeps the state of __byte_rtc_stop().
RtcDestroys ==
  /\ Moves("destroy", "clear") /\ notifying = "no"
  /\ engine' = FALSE /\ conn' = "none"
  /\ state' = (IF backend = "agora" THEN "null" ELSE "idle")
  /\ UNCHANGED <<contextVars, apiVars, sem, call, notifying, failed>>

\* The flags are cleared and the semaphore released, whoever waits for it.
RtcExitsUnheard ==
  /\ Moves("clear", "gone")
  /\ connected' = FALSE /\ running' = FALSE
  /\ UNCHANGED <<contextVars, info, sem, call, libraryVars, failed>>

RtcExits ==
  /\ Moves("clear", "gone")
  /\ connected' = FALSE /\ running' = FALSE /\ sem' = "full"
  /\ UNCHANGED <<contextVars, info, call, libraryVars, failed>>

-----------------------------------------------------------------------------
(* The library's callbacks                                                  *)

\* __on_join_channel_success(): the flag first, then the state; the thread may leave
\* the connection between any two of the steps.
Joined ==
  /\ engine /\ conn = "joining" /\ notifying = "no"
  /\ conn' = "joined"
  /\ notifying' = "begun"
  /\ UNCHANGED <<contextVars, apiVars, sem, call, rtc, state, engine, failed>>

JoinedTells ==
  /\ notifying = "begun"
  /\ connected' = TRUE
  /\ notifying' = "told"
  /\ UNCHANGED <<contextVars, info, running, sem, call, rtc, state, engine, conn, failed>>

JoinedReturns ==
  /\ notifying = "told"
  /\ state' = "working"
  /\ notifying' = "no"
  /\ UNCHANGED <<contextVars, apiVars, sem, call, rtc, engine, conn, failed>>

\* __on_connection_lost() is registered with Agora only.
Lost ==
  /\ backend = "agora"
  /\ engine /\ conn = "joined" /\ notifying = "no"
  /\ conn' = "lost"
  /\ connected' = FALSE
  /\ UNCHANGED <<contextVars, info, running, sem, call, rtc, state, engine, notifying, failed>>

Rejoined ==
  /\ engine /\ conn = "lost"
  /\ conn' = "joined"
  /\ connected' = TRUE
  /\ UNCHANGED <<contextVars, info, running, sem, call, rtc, state, engine, notifying, failed>>

-----------------------------------------------------------------------------
Init ==
  /\ backend \in {"agora", "volc"}
  /\ initialized = FALSE /\ isStarted = FALSE
  /\ info = FALSE /\ running = FALSE /\ connected = FALSE
  /\ sem = NoSem
  /\ call = [c \in Callers |-> Rest]
  /\ rtc = "gone"
  /\ state = "null" /\ engine = FALSE /\ conn = "none" /\ notifying = "no"
  /\ failed = FALSE

Calls == \E c \in Callers : NtwkInit(c) \/ NtwkStart(c) \/ NtwkStop(c) \/ NtwkUpdate(c)
Caller(c) ==
  \/ StartAgent(c) \/ UpdateAgent(c) \/ CreateThread(c) \/ StartReturns(c)
  \/ RtcStop(c) \/ RtcStopped(c)
RtcThread ==
  \/ RtcUnnamed \/ RtcCreates \/ RtcJoins \/ RtcWaits
  \/ RtcLoops \/ RtcLeaves \/ RtcDestroys \/ RtcExits
Callbacks == Joined \/ JoinedTells \/ JoinedReturns \/ Lost \/ Rejoined

Next == Calls \/ (\E c \in Callers : Caller(c)) \/ RtcThread \/ Callbacks
Spec == Init /\ [][Next]_vars

\* Threads go on, and so does a callback that has begun.  Neither the server nor the
\* library owes an answer: a request ends by its time-out.
FairSpec ==
  /\ Spec
  /\ \A c \in Callers : WF_vars(Caller(c))
  /\ WF_vars(RtcThread) /\ WF_vars(JoinedTells \/ JoinedReturns)

-----------------------------------------------------------------------------
(* Properties                                                               *)

TypeOK ==
  /\ backend \in {"agora", "volc"}
  /\ initialized \in BOOLEAN /\ isStarted \in BOOLEAN
  /\ info \in BOOLEAN /\ running \in BOOLEAN /\ connected \in BOOLEAN
  /\ sem \in {NoSem, "empty", "full"}
  /\ call \in [Callers -> [op : {"none", "start", "stop", "deinit", "update"},
                          at : {"rest", "agent", "ask", "create", "wait start", "halt", "wait stop"}]]
  /\ rtc \in {"gone", "create", "join", "wait", "loop", "leave", "destroy", "clear"}
  /\ state \in {"null", "idle", "working"} /\ engine \in BOOLEAN
  /\ conn \in {"none", "made", "joining", "joined", "lost"} /\ notifying \in {"no", "begun", "told"}
  /\ failed \in BOOLEAN

\* The RTC thread is never alone with its leaving: a thread that has not yet joined or
\* is on its way out has a caller waiting for its semaphore, so no later stop finds
\* the flag already clear and no start makes a second thread over the same globals.
\* "Network transfer module uses thread-safe mechanisms internally": with calls that
\* overlap it does not hold, since two starts both find the flags clear.
OneThread ==
  /\ rtc \notin {"gone", "wait", "loop"} => \E c \in Callers : call[c].at \in {"wait start", "wait stop"}
  /\ \A c \in Callers : call[c].at = "create" => rtc = "gone"

\* The thread passes on audio only after its own connection was joined: the flag it
\* polls was not left by a late callback of the connection before.
JoinedByItself == rtc = "loop" => conn \in {"joined", "lost"}

\* When every call has returned and the thread is gone, nothing of the connection is
\* left, and a sender that looks at the flag or the state sends nothing.
AllReturned == \A c \in Callers : call[c] = Rest
NothingLeft ==
  AllReturned /\ rtc = "gone" =>
    ~engine /\ conn = "none" /\ ~connected /\ notifying = "no" /\ state # "working"

\* A run of the thread neither uses nor leaves anything of another.
RunsApart == JoinedByItself /\ NothingLeft

\* As long as nothing has failed, the transfer says it is started exactly when its
\* thread runs, through any order of starts, stops and updates.
FlagMatchesThread == AllReturned /\ ~failed => (isStarted <=> running) /\ (running => rtc # "gone")

\* Every call returns: whatever becomes of the thread, it releases the semaphore that a
\* start or a stop waits for without a time-out.  A Volc start that is answered without
\* an app_id is the exception: its thread has gone without a word.
Unheard(c) == backend = "volc" /\ rtc = "gone" /\ call[c].at = "wait start" /\ sem = "empty"
CallReturns == \A c \in Callers : call[c] # Rest ~> call[c] = Rest \/ Unheard(c)
=============================================================================
