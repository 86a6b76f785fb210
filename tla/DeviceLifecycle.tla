--------------------------- MODULE DeviceLifecycle ---------------------------
(***************************************************************************)
(* core/mybot_device_lifecycle.c with the callbacks mybot_app.c gives   *)
(* it: how the device pairs, keeps its credential, and starts, renews and   *)
(* ends one conversation at a time.                                         *)
(*                                                                          *)
(* Four threads run concurrently:                                           *)
(*   owner    the control queue: ticks, service results, user requests and  *)
(*            shutdown, one at a time; it blocks in HTTP calls and in the   *)
(*            synchronous call that leaves RTC;                             *)
(*   network  set_network_available(), from the Wi-Fi callback;             *)
(*   rtc      the RTC queue, whose callbacks end a conversation or ask for  *)
(*            a token;                                                      *)
(*   service  the FIFO worker of status polls and stop notifications, which *)
(*            hands its results back to the control queue.                  *)
(* An action is the stretch of one thread between two points where another  *)
(* thread can be seen.  The server may answer anything at any time.         *)
(*                                                                          *)
(* A generation counter is only ever compared with an earlier snapshot of   *)
(* itself, so each snapshot is kept as whether the counter is still there.  *)
(* A pair token and the credential granted for it have the same name.       *)
(***************************************************************************)
EXTENDS Integers, Sequences

CONSTANTS
  Tokens,                            \* pair tokens the server hands out, reused once forgotten
  Conversations,                     \* conversation ids, reused once forgotten
  None,                              \* an empty string
  PairRetryInitial, PairRetryMax,    \* pair-code back-off, in ticks
  RenewRetryInitial, RenewRetryMax,  \* RTC-token back-off, in ticks
  QueueCap                           \* admissions each of the two queues has left for requests

ASSUME LifecycleAssumption ==
  /\ None \notin Tokens \cup Conversations
  /\ PairRetryInitial \in Nat \ {0} /\ PairRetryMax \in Nat
  /\ PairRetryInitial <= PairRetryMax
  /\ RenewRetryInitial \in Nat \ {0} /\ RenewRetryMax \in Nat
  /\ RenewRetryInitial <= RenewRetryMax
  /\ QueueCap \in Nat \ {0}

VARIABLES
  \* written by the owner only
  phase,                  \* lifecycle->state
  code,                   \* pair_token
  token,                  \* device_token
  kv,                     \* the credential persisted in the key-value store
  pairingRequested, conversationRequested, pollPending,
  pairDelay, pairWait,    \* pair_retry_delay_ticks, pair_retry_ticks_remaining
  conversation,           \* conversation_id
  renewalPending, renewalDelay, renewalWait,
  shuttingDown,
  \* mailboxes between threads
  stopRequest, renewalRequested, available, lossPending,
  exiting,                \* the application has published its exit
  rtc,                    \* the conversation whose channel RTC has joined
  requests, results,      \* service queue, and its results on the control queue
  \* where each thread stands
  pc,                     \* the owner
  after,                  \* what follows the end of a conversation
  ending,                 \* conversation_id copied before the session is taken down
  snap,                   \* the owner's network_generation snapshot is current
  netPc, rtcPc,           \* the network and RTC threads
  renewalFor              \* history: the conversation the renewal was requested in

retryVars    == <<pairDelay, pairWait>>
renewalVars  == <<renewalPending, renewalDelay, renewalWait>>
bindingVars  == <<code, token, kv>>
queueVars    == <<requests, results>>
flagVars     == <<pairingRequested, conversationRequested, pollPending, shuttingDown, exiting>>
networkVars  == <<available, lossPending, netPc>>
rtcVars      == <<rtc, rtcPc, renewalRequested, renewalFor>>
ownerVars    == <<pc, after, ending, snap>>
vars == <<phase, stopRequest, conversation, retryVars, renewalVars, bindingVars,
          queueVars, flagVars, networkVars, rtcVars, ownerVars>>

Phases == {"unprovisioned", "pairing", "awaiting_claim", "runtime", "in_conversation"}
Requests == [type : {"PAIR_POLL", "DEVICE_POLL", "STOP"},
             credential : Tokens \cup {None},
             conversation : Conversations \cup {None},
             network : BOOLEAN,    \* network_generation has not moved since
             binding : BOOLEAN]    \* binding_generation has not moved since

Idle == pc = "idle"

\* The owner is done with this queue item: the locals of the call are gone.
Return ==
  /\ pc' = "idle"
  /\ after' = "none"
  /\ ending' = None
  /\ snap' = FALSE

-----------------------------------------------------------------------------
(* Helpers                                                                  *)

\* set_state(): leaving a conversation empties the stop mailbox.
SetPhase(p) ==
  /\ phase' = p
  /\ stopRequest' = IF phase = "in_conversation" /\ p # phase THEN "none" ELSE stopRequest

NetworkIsCurrentWhenBack(generationIsCurrent) == available

NetworkIsCurrent(generationIsCurrent) == available /\ generationIsCurrent

NextRetryDelay(current, initial, maximum) ==
  IF current = 0 THEN initial
  ELSE IF current < maximum \div 2 THEN current * 2 ELSE maximum

\* binding_generation++ makes every snapshot taken so far stale.
Unbound(s) == [i \in 1..Len(s) |-> [s[i] EXCEPT !.binding = FALSE]]
\* network_generation++ likewise.
CutOff(s) == [i \in 1..Len(s) |-> [s[i] EXCEPT !.network = FALSE]]

\* The erase may fail, and the credential then stays in the store.
ClearDeviceAuth(pending) ==
  /\ token' = None
  /\ kv' \in {None, kv}
  /\ requests' = Unbound(requests)
  /\ results' = Unbound(pending)
  /\ UNCHANGED code

ClearRenewal ==
  /\ renewalRequested' = FALSE
  /\ renewalPending' = FALSE
  /\ renewalDelay' = 0
  /\ renewalWait' = 0
  /\ renewalFor' = None

NewRequest(type, name) ==
  [type |-> type,
   credential |-> IF type = "PAIR_POLL" THEN code ELSE token,
   conversation |-> name, network |-> TRUE, binding |-> TRUE]

\* submit_service_request(): no memory, or no room in the queue.
Submit(request) ==
  /\ Len(requests) < QueueCap
  /\ requests' = Append(requests, request)

-----------------------------------------------------------------------------
(* Ending a conversation.  complete_conversation_locally() forgets it, then *)
(* blocks until the RTC queue has left the channel, then publishes the new  *)
(* state; `next` is what its caller goes on to do.                          *)

BeginEnd(next) ==
  /\ ClearRenewal
  /\ conversation' = None
  /\ pc' = "leave"
  /\ after' = next
  /\ UNCHANGED <<phase, rtc, rtcPc>>

\* complete_conversation_locally() with nothing to tell the server.
EndLocally(next) ==
  /\ BeginEnd(next)
  /\ ending' = None
  /\ snap' = FALSE

\* The call runs on the RTC queue, after the callback in progress; RTC may
\* report an error from inside it while the conversation still looks active.
LeaveRtc ==
  /\ pc = "leave"
  /\ rtcPc = "idle"
  /\ rtc' = None
  /\ stopRequest' \in {stopRequest} \cup (IF shuttingDown THEN {} ELSE {"error"})
  /\ pc' = "left"
  /\ UNCHANGED <<phase, conversation, retryVars, renewalVars, bindingVars, queueVars,
                 flagVars, networkVars, rtcPc, renewalRequested, renewalFor,
                 after, ending, snap>>

\* Back in runtime; a rejected credential is dropped at once.
InvalidateBinding ==
  /\ ClearDeviceAuth(results)
  /\ SetPhase("unprovisioned")
  /\ pairingRequested' = TRUE

FinishEnd ==
  /\ pc = "left"
  /\ IF after = "invalidate"
       THEN InvalidateBinding
       ELSE SetPhase("runtime") /\ UNCHANGED <<bindingVars, queueVars, pairingRequested>>
  /\ IF after \in {"notify", "repair"}
       THEN pc' = "notify" /\ UNCHANGED <<after, ending, snap>>
       ELSE Return
  /\ UNCHANGED <<conversation, retryVars, renewalVars, conversationRequested, pollPending,
                 shuttingDown, exiting, networkVars, rtcVars>>

\* The server is told at most once, and not at all across a network change.
NotifyStop ==
  /\ pc = "notify"
  /\ \/ ending # None /\ NetworkIsCurrent(snap) /\ Submit(NewRequest("STOP", ending))
     \/ UNCHANGED requests
  /\ IF after = "repair"
       THEN pc' = "repair" /\ after' = "none" /\ ending' = None /\ snap' = FALSE
       ELSE Return
  /\ UNCHANGED <<phase, stopRequest, conversation, retryVars, renewalVars, bindingVars,
                 results, flagVars, networkVars, rtcVars>>

\* action_stop_conversation(): tell the server once the session is down, then
\* go on with the re-pairing that asked for the end, if one did.
StopConversationNotifyingFirst(next) ==
  /\ BeginEnd(IF next = "notify" THEN "done" ELSE next)
  /\ ending' = None
  /\ snap' = FALSE
  /\ Submit(NewRequest("STOP", conversation))

StopConversation(next) ==
  /\ BeginEnd(next)
  /\ ending' = conversation
  /\ snap' = TRUE
  /\ UNCHANGED requests

-----------------------------------------------------------------------------
(* tick()                                                                   *)

\* A network loss is consumed before anything else.
TickLossKeepingConversation ==
  /\ Idle /\ ~exiting
  /\ lossPending
  /\ lossPending' = FALSE
  /\ conversationRequested' = FALSE
  /\ stopRequest' = "none"
  /\ UNCHANGED <<phase, conversation, retryVars, renewalVars, bindingVars, queueVars,
                 pairingRequested, pollPending, shuttingDown, exiting, available, netPc,
                 rtcVars, ownerVars>>

TickLoss ==
  /\ Idle /\ ~exiting
  /\ lossPending
  /\ lossPending' = FALSE
  /\ conversationRequested' = FALSE
  /\ stopRequest' = "none"
  /\ IF phase = "in_conversation"
       THEN EndLocally("done")
       ELSE UNCHANGED <<phase, conversation, renewalVars, rtcVars, ownerVars>>
  /\ UNCHANGED <<retryVars, bindingVars, queueVars, pairingRequested, pollPending,
                 shuttingDown, exiting, available, netPc>>

\* No loss is pending when the mailbox is read; the network may still change
\* before the rest of the tick.
TickBegin ==
  /\ Idle /\ ~exiting
  /\ ~lossPending
  /\ pc' = "tick"
  /\ UNCHANGED <<phase, stopRequest, conversation, retryVars, renewalVars, bindingVars,
                 queueVars, flagVars, networkVars, rtcVars, after, ending, snap>>

TickOffline ==
  /\ pc = "tick"
  /\ ~available
  /\ conversationRequested' = FALSE
  /\ stopRequest' = "none"
  /\ Return
  /\ UNCHANGED <<phase, conversation, retryVars, renewalVars, bindingVars, queueVars,
                 pairingRequested, pollPending, shuttingDown, exiting, networkVars, rtcVars>>

\* A pairing request is served from any state, after the active conversation
\* has been ended.
TickPairingDuringConversation ==
  /\ pc = "tick"
  /\ available
  /\ pairingRequested
  /\ conversationRequested' = FALSE
  /\ pc' = "repair"
  /\ UNCHANGED <<phase, conversation, renewalVars, rtcVars, after, ending, snap,
                 requests, stopRequest, retryVars, bindingVars, results, pairingRequested,
                 pollPending, shuttingDown, exiting, networkVars>>

TickPairing ==
  /\ pc = "tick"
  /\ available
  /\ pairingRequested
  /\ conversationRequested' = FALSE
  /\ IF phase = "in_conversation"
       THEN StopConversation("repair")
       ELSE /\ pc' = "repair"
            /\ UNCHANGED <<phase, conversation, renewalVars, rtcVars, after, ending, snap,
                           requests>>
  /\ UNCHANGED <<stopRequest, retryVars, bindingVars, results, pairingRequested, pollPending,
                 shuttingDown, exiting, networkVars>>

StartPairing ==
  /\ pc = "repair"
  /\ pairingRequested' = FALSE
  /\ ClearDeviceAuth(results)
  /\ conversation' = None
  /\ SetPhase("pairing")
  /\ pc' = "pairGate"
  /\ UNCHANGED <<retryVars, renewalVars, conversationRequested, pollPending, shuttingDown,
                 exiting, networkVars, rtcVars, after, ending, snap>>

TickUnprovisioned ==
  /\ pc = "tick"
  /\ available
  /\ ~pairingRequested
  /\ phase = "unprovisioned"
  /\ pairWait' = IF pairWait > 0 THEN pairWait - 1 ELSE 0
  /\ IF pairWait = 1
       THEN SetPhase("pairing") /\ pc' = "pairGate" /\ UNCHANGED <<after, ending, snap>>
       ELSE UNCHANGED <<phase, stopRequest>> /\ Return
  /\ UNCHANGED <<conversation, pairDelay, renewalVars, bindingVars, queueVars, flagVars,
                 networkVars, rtcVars>>

\* action_poll_binding(): one poll outstanding at a time.
Poll(type) ==
  \/ UNCHANGED <<pollPending, requests>>
  \/ /\ ~pollPending
     /\ pollPending' = TRUE
     /\ Submit(NewRequest(type, None))

\* The interval has passed or not; the counters are not modelled.
TickPoll ==
  /\ pc = "tick"
  /\ available
  /\ ~pairingRequested
  /\ \/ phase = "awaiting_claim" /\ Poll("PAIR_POLL")
     \/ phase = "runtime" /\ ~conversationRequested /\ Poll("DEVICE_POLL")
  /\ Return
  /\ UNCHANGED <<phase, stopRequest, conversation, retryVars, renewalVars, bindingVars, results,
                 pairingRequested, conversationRequested, shuttingDown, exiting, networkVars,
                 rtcVars>>

\* The start request is sent if the network is still there.
TickStart ==
  /\ pc = "tick"
  /\ ~pairingRequested
  /\ phase = "runtime"
  /\ available
  /\ conversationRequested
  /\ conversationRequested' = FALSE
  /\ stopRequest' = "none"
  /\ snap' = TRUE
  /\ pc' = "startAnswer"
  /\ UNCHANGED <<phase, conversation, retryVars, renewalVars, bindingVars, queueVars,
                 pairingRequested, pollPending, shuttingDown, exiting, networkVars, rtcVars,
                 after, ending>>

TickStop ==
  /\ pc = "tick"
  /\ available
  /\ ~pairingRequested
  /\ phase = "in_conversation"
  /\ stopRequest # "none"
  /\ stopRequest' = "none"
  /\ StopConversation("notify")
  /\ UNCHANGED <<retryVars, bindingVars, results, flagVars, networkVars>>

\* The rest of a conversation's tick: move a renewal request from its mailbox,
\* count its back-off down, send it when due, otherwise poll.
TickRenewal ==
  /\ pc = "tick"
  /\ available
  /\ ~pairingRequested
  /\ phase = "in_conversation"
  /\ stopRequest = "none"
  /\ renewalRequested' = FALSE
  /\ LET due  == renewalRequested \/ renewalPending
         left == IF renewalRequested \/ renewalWait = 0 THEN 0 ELSE renewalWait - 1
     IN  /\ renewalPending' = due
         /\ renewalDelay' = IF renewalRequested THEN 0 ELSE renewalDelay
         /\ renewalWait' = left
         /\ IF due /\ left = 0
              THEN /\ snap' = TRUE
                   /\ pc' = "renewAnswer"
                   /\ UNCHANGED <<pollPending, requests, after, ending>>
              ELSE Poll("DEVICE_POLL") /\ Return
  /\ UNCHANGED <<phase, stopRequest, conversation, retryVars, bindingVars, results,
                 pairingRequested, conversationRequested, shuttingDown, exiting, networkVars,
                 rtc, rtcPc, renewalFor>>

Tick ==
  \/ TickLoss \/ TickBegin \/ TickOffline \/ TickPairing \/ TickUnprovisioned
  \/ TickPoll \/ TickStart \/ TickStop \/ TickRenewal

-----------------------------------------------------------------------------
(* Blocking HTTP calls.  Each answer is used only if no loss came between.  *)

PairGate ==
  /\ pc = "pairGate"
  /\ IF available
       THEN /\ snap' = TRUE
            /\ pc' = "pairAnswer"
            /\ UNCHANGED <<phase, stopRequest, pairingRequested, after, ending>>
       ELSE /\ SetPhase("unprovisioned")
            /\ pairingRequested' = TRUE
            /\ Return
  /\ UNCHANGED <<conversation, retryVars, renewalVars, bindingVars, queueVars,
                 conversationRequested, pollPending, shuttingDown, exiting, networkVars, rtcVars>>

\* A stale answer asks for the pair code again on a later tick.
PairAnswerStaleForgotten ==
  /\ SetPhase("unprovisioned")
  /\ UNCHANGED <<pairingRequested, retryVars, bindingVars, queueVars>>

PairAnswerStale ==
  /\ SetPhase("unprovisioned")
  /\ pairingRequested' = TRUE
  /\ UNCHANGED <<retryVars, bindingVars, queueVars>>

PairAnswerFailed ==
  /\ pairDelay' = NextRetryDelay(pairDelay, PairRetryInitial, PairRetryMax)
  /\ pairWait' = pairDelay'
  /\ SetPhase("unprovisioned")
  /\ UNCHANGED <<pairingRequested, bindingVars, queueVars>>

\* Names the device still holds somewhere.
TokensInUse ==
  {code, token, kv} \cup {requests[i].credential : i \in 1..Len(requests)}
                    \cup {results[i].credential : i \in 1..Len(results)}

PairAnswerOk(c) ==
  /\ pairDelay' = 0
  /\ pairWait' = 0
  /\ code' = c
  /\ token' = None
  /\ requests' = Unbound(requests)
  /\ results' = Unbound(results)
  /\ SetPhase("awaiting_claim")
  /\ UNCHANGED <<kv, pairingRequested>>

PairAnswer ==
  /\ pc = "pairAnswer"
  /\ IF NetworkIsCurrent(snap)
       THEN PairAnswerFailed \/ \E c \in Tokens \ TokensInUse : PairAnswerOk(c)
       ELSE PairAnswerStale
  /\ Return
  /\ UNCHANGED <<conversation, renewalVars, conversationRequested, pollPending, shuttingDown,
                 exiting, networkVars, rtcVars>>

ConversationsInUse ==
  {conversation, ending, rtc} \cup {requests[i].conversation : i \in 1..Len(requests)}

\* on_conversation_start() runs before the call returns: the channel is joined,
\* or the failure is reported through the stop mailbox.
JoinRtc(c) ==
  \/ rtc' = c /\ UNCHANGED stopRequest
  \/ rtc' = None /\ stopRequest' = "error"

StartAcceptedKeepingRenewal(c) ==
  /\ conversation' = c
  /\ phase' = "in_conversation"
  /\ JoinRtc(c)
  /\ UNCHANGED <<rtcPc, renewalRequested, renewalFor, renewalVars, bindingVars, queueVars,
                 pairingRequested>>

StartAccepted(c) ==
  /\ conversation' = c
  /\ ClearRenewal
  /\ phase' = "in_conversation"
  /\ JoinRtc(c)
  /\ UNCHANGED <<rtcPc, bindingVars, queueVars, pairingRequested>>

StartRejected ==
  /\ InvalidateBinding
  /\ UNCHANGED <<conversation, renewalVars, rtcVars>>

StartAnswer ==
  /\ pc = "startAnswer"
  /\ \/ UNCHANGED <<phase, stopRequest, conversation, renewalVars, bindingVars, queueVars,
                    pairingRequested, rtcVars>>
     \/ /\ NetworkIsCurrent(snap)
        /\ StartRejected \/ \E c \in Conversations \ ConversationsInUse : StartAccepted(c)
  /\ Return
  /\ UNCHANGED <<retryVars, conversationRequested, pollPending, shuttingDown, exiting,
                 networkVars>>

\* The server failed, or RTC would not take the new token.
RenewFailed ==
  /\ renewalDelay' = NextRetryDelay(renewalDelay, RenewRetryInitial, RenewRetryMax)
  /\ renewalWait' = renewalDelay'
  /\ UNCHANGED renewalPending

RenewOk ==
  /\ renewalPending' = FALSE
  /\ renewalDelay' = 0
  /\ renewalWait' = 0

\* A stale answer leaves the renewal pending; a permanent refusal or an answer
\* for another channel ends the conversation.
RenewAnswer ==
  /\ pc = "renewAnswer"
  /\ \/ /\ IF NetworkIsCurrent(snap) THEN RenewFailed \/ RenewOk ELSE UNCHANGED renewalVars
        /\ Return
        /\ UNCHANGED <<phase, conversation, rtcVars, requests>>
     \/ NetworkIsCurrent(snap) /\ EndLocally("invalidate") /\ UNCHANGED requests
     \/ NetworkIsCurrent(snap) /\ StopConversation("notify")
  /\ UNCHANGED <<stopRequest, retryVars, bindingVars, results, flagVars, networkVars>>

-----------------------------------------------------------------------------
(* service_result()                                                         *)

ResultIsCurrentForAnyBinding(r) == NetworkIsCurrent(r.network) /\ ~pairingRequested

ResultIsCurrent(r) ==
  /\ NetworkIsCurrent(r.network)
  /\ r.binding
  /\ ~pairingRequested

\* One poll stays outstanding across reconnects and re-pairing, until its own
\* result is back, used or not.
PollReturnedByAnyResult(r) == pollPending' = FALSE

PollReturnedWhenCurrent(r) ==
  pollPending' = (pollPending /\ (r.type = "STOP" \/ ~ResultIsCurrent(r)))

PollReturned(r) == pollPending' = (pollPending /\ r.type = "STOP")

\* "bound": a credential may come with it, once.  Only a persisted credential
\* opens the runtime; otherwise the next poll tries again.
ApplyBound(r) ==
  /\ \/ /\ token' = r.credential
        /\ requests' = Unbound(requests)
        /\ results' = Unbound(Tail(results))
     \/ /\ results' = Tail(results)
        /\ UNCHANGED <<token, requests>>
  /\ \/ token' # None /\ kv' = token' /\ SetPhase("runtime")
     \/ UNCHANGED <<kv, phase, stopRequest>>
  /\ UNCHANGED <<code, pairingRequested>>

\* Refused, expired or failed pairings are started again; "unbound" also
\* leaves the state at once.
ApplyPairingOver ==
  /\ pairingRequested' = TRUE
  /\ results' = Tail(results)
  /\ SetPhase("unprovisioned") \/ UNCHANGED <<phase, stopRequest>>
  /\ UNCHANGED <<bindingVars, requests>>

\* apply_binding_runtime() and apply_stop_result(): the credential is refused.
ApplyRefused ==
  IF phase = "in_conversation"
    THEN /\ EndLocally("invalidate")
         /\ results' = Tail(results)
         /\ UNCHANGED <<stopRequest, bindingVars, pairingRequested, requests>>
    ELSE /\ ClearDeviceAuth(Tail(results))
         /\ SetPhase("unprovisioned")
         /\ pairingRequested' = TRUE
         /\ UNCHANGED <<conversation, renewalVars, rtcVars, ownerVars>>

ApplyNothing ==
  /\ results' = Tail(results)
  /\ UNCHANGED <<phase, stopRequest, bindingVars, pairingRequested, requests>>

ServiceResult ==
  /\ Idle /\ ~exiting
  /\ results # <<>>
  /\ PollReturned(Head(results))
  /\ LET r == Head(results)
     IN  \/ /\ \/ ApplyNothing
               \/ /\ ResultIsCurrent(r)
                  /\ r.type = "PAIR_POLL" /\ phase = "awaiting_claim"
                  /\ ApplyBound(r) \/ ApplyPairingOver
            /\ UNCHANGED <<conversation, renewalVars, rtcVars, ownerVars>>
         \/ /\ ResultIsCurrent(r)
            /\ r.type # "PAIR_POLL" /\ phase \in {"runtime", "in_conversation"}
            /\ ApplyRefused
  /\ UNCHANGED <<retryVars, conversationRequested, shuttingDown, exiting, networkVars>>

-----------------------------------------------------------------------------
(* Requests from the application, handled on the control queue              *)

RequestPair ==
  /\ Idle /\ ~exiting
  /\ pairingRequested' = TRUE
  /\ UNCHANGED <<phase, stopRequest, conversation, retryVars, renewalVars, bindingVars,
                 queueVars, conversationRequested, pollPending, shuttingDown, exiting,
                 networkVars, rtcVars, ownerVars>>

RequestStart ==
  /\ Idle /\ ~exiting
  /\ available
  /\ phase = "runtime"
  /\ conversationRequested' = TRUE
  /\ UNCHANGED <<phase, stopRequest, conversation, retryVars, renewalVars, bindingVars,
                 queueVars, pairingRequested, pollPending, shuttingDown, exiting,
                 networkVars, rtcVars, ownerVars>>

RequestStop ==
  /\ Idle /\ ~exiting
  /\ phase = "in_conversation"
  /\ stopRequest' = "hangup"
  /\ UNCHANGED <<phase, conversation, retryVars, renewalVars, bindingVars, queueVars, flagVars,
                 networkVars, rtcVars, ownerVars>>

\* The exit is published from any thread; queued items then do nothing.
Exit ==
  /\ ~exiting
  /\ exiting' = TRUE
  /\ UNCHANGED <<phase, stopRequest, conversation, retryVars, renewalVars, bindingVars,
                 queueVars, pairingRequested, conversationRequested, pollPending,
                 shuttingDown, networkVars, rtcVars, ownerVars>>

Shutdown ==
  /\ Idle /\ exiting
  /\ ~shuttingDown
  /\ shuttingDown' = TRUE
  /\ pairingRequested' = FALSE
  /\ conversationRequested' = FALSE
  /\ stopRequest' = "none"
  /\ IF phase # "in_conversation"
       THEN /\ renewalRequested' = FALSE
            /\ UNCHANGED <<phase, conversation, renewalVars, rtc, rtcPc, renewalFor, ownerVars,
                           requests>>
       ELSE IF available /\ ~lossPending
              THEN StopConversation("notify")
              ELSE EndLocally("done") /\ UNCHANGED requests
  /\ UNCHANGED <<retryVars, bindingVars, results, pollPending, exiting, networkVars>>

-----------------------------------------------------------------------------
(* The RTC queue: check, then set                                           *)

RtcCallback ==
  /\ rtcPc = "idle"
  /\ rtc # None
  /\ ~shuttingDown
  /\ phase = "in_conversation"
  /\ \/ rtcPc' = "ending"
     \/ available /\ rtcPc' = "renewing"
  /\ UNCHANGED <<phase, stopRequest, conversation, retryVars, renewalVars, bindingVars,
                 queueVars, flagVars, networkVars, rtc, renewalRequested, renewalFor, ownerVars>>

\* notify_conversation_ended() only leaves a message: were it to call into the
\* owner, it would wait for the one that waits for it.
RtcEnded ==
  /\ rtcPc = "ending"
  /\ stopRequest' = "error"
  /\ rtcPc' = "idle"
  /\ UNCHANGED <<phase, conversation, retryVars, renewalVars, bindingVars, queueVars, flagVars,
                 networkVars, rtc, renewalRequested, renewalFor, ownerVars>>

\* request_rtc_token_renewal()
RtcTokenExpires ==
  /\ rtcPc = "renewing"
  /\ renewalRequested' = TRUE
  /\ renewalFor' = rtc
  /\ rtcPc' = "idle"
  /\ UNCHANGED <<phase, stopRequest, conversation, retryVars, renewalVars, bindingVars,
                 queueVars, flagVars, networkVars, rtc, ownerVars>>

-----------------------------------------------------------------------------
(* set_network_available(): three atomic writes when the network goes       *)

NetworkUp ==
  /\ netPc = "idle"
  /\ ~available
  /\ available' = TRUE
  /\ UNCHANGED <<phase, stopRequest, conversation, retryVars, renewalVars, bindingVars,
                 queueVars, flagVars, lossPending, netPc, rtcVars, ownerVars>>

NetworkDown ==
  /\ netPc = "idle"
  /\ available
  /\ available' = FALSE
  /\ netPc' = "generation"
  /\ UNCHANGED <<phase, stopRequest, conversation, retryVars, renewalVars, bindingVars,
                 queueVars, flagVars, lossPending, rtcVars, ownerVars>>

NetworkGeneration ==
  /\ netPc = "generation"
  /\ requests' = CutOff(requests)
  /\ results' = CutOff(results)
  /\ snap' = FALSE
  /\ netPc' = "loss"
  /\ UNCHANGED <<phase, stopRequest, conversation, retryVars, renewalVars, bindingVars,
                 flagVars, available, lossPending, rtcVars, pc, after, ending>>

NetworkLoss ==
  /\ netPc = "loss"
  /\ lossPending' = TRUE
  /\ netPc' = "idle"
  /\ UNCHANGED <<phase, stopRequest, conversation, retryVars, renewalVars, bindingVars,
                 queueVars, flagVars, available, rtcVars, ownerVars>>

-----------------------------------------------------------------------------
(* The service worker                                                       *)

\* A request is answered in turn.  Once the application is exiting its result
\* is dropped; a control queue without room for it makes the application exit.
Execute ==
  /\ requests # <<>>
  /\ requests' = Tail(requests)
  /\ IF exiting
       THEN UNCHANGED <<results, exiting>>
       ELSE IF Len(results) < QueueCap
              THEN /\ results' = Append(results, [Head(requests) EXCEPT !.conversation = None])
                   /\ UNCHANGED exiting
              ELSE exiting' = TRUE /\ UNCHANGED results
  /\ UNCHANGED <<phase, stopRequest, conversation, retryVars, renewalVars, bindingVars,
                 pairingRequested, conversationRequested, pollPending, shuttingDown,
                 networkVars, rtcVars, ownerVars>>

-----------------------------------------------------------------------------
(* mybot_device_lifecycle_init(): load_device_auth() finds no credential,   *)
(* or one it can use, or one it cannot read or use and erases.  Power may    *)
(* fail at any time; only the key-value store survives.                     *)

Reboot ==
  /\ \/ kv # None /\ token' = kv /\ phase' = "runtime" /\ pairingRequested' = FALSE
        /\ UNCHANGED kv
     \/ /\ token' = None /\ phase' = "unprovisioned" /\ pairingRequested' = TRUE
        /\ kv' \in {None, kv}
  /\ code' = None
  /\ stopRequest' = "none" /\ conversation' = None
  /\ pairDelay' = 0 /\ pairWait' = 0
  /\ renewalPending' = FALSE /\ renewalDelay' = 0 /\ renewalWait' = 0
  /\ requests' = <<>> /\ results' = <<>>
  /\ conversationRequested' = FALSE /\ pollPending' = FALSE
  /\ shuttingDown' = FALSE /\ exiting' = FALSE
  /\ available' = TRUE /\ lossPending' = FALSE /\ netPc' = "idle"
  /\ rtc' = None /\ rtcPc' = "idle" /\ renewalRequested' = FALSE /\ renewalFor' = None
  /\ Return

Init ==
  /\ phase = "unprovisioned" /\ pairingRequested = TRUE
  /\ code = None /\ token = None /\ kv = None
  /\ stopRequest = "none" /\ conversation = None
  /\ pairDelay = 0 /\ pairWait = 0
  /\ renewalPending = FALSE /\ renewalDelay = 0 /\ renewalWait = 0
  /\ requests = <<>> /\ results = <<>>
  /\ conversationRequested = FALSE /\ pollPending = FALSE
  /\ shuttingDown = FALSE /\ exiting = FALSE
  /\ available = TRUE /\ lossPending = FALSE /\ netPc = "idle"
  /\ rtc = None /\ rtcPc = "idle" /\ renewalRequested = FALSE /\ renewalFor = None
  /\ pc = "idle" /\ after = "none" /\ ending = None /\ snap = FALSE

Ending == LeaveRtc \/ FinishEnd \/ NotifyStop
Answer == PairGate \/ PairAnswer \/ StartAnswer \/ RenewAnswer
Request == RequestPair \/ RequestStart \/ RequestStop
Rtc == RtcCallback \/ RtcEnded \/ RtcTokenExpires
Network == NetworkUp \/ NetworkDown \/ NetworkGeneration \/ NetworkLoss

Running ==
  \/ Tick \/ StartPairing \/ Ending \/ Answer \/ ServiceResult
  \/ Request \/ Exit \/ Shutdown \/ Rtc \/ Network \/ Execute

Next == Running \/ Reboot

Spec == Init /\ [][Next]_vars

\* Every thread keeps running: HTTP calls time out, RTC callbacks return, the
\* Wi-Fi callback finishes.  The control queue and the RTC queue are FIFO, so a
\* tick, a result or the call that leaves RTC is served however often other
\* items come first.
Fairness ==
  /\ WF_vars(NetworkGeneration \/ NetworkLoss)
  /\ WF_vars(RtcEnded \/ RtcTokenExpires)
  /\ WF_vars(Execute)
  /\ WF_vars(Shutdown)
  /\ WF_vars(Answer \/ StartPairing \/ FinishEnd \/ NotifyStop)
  /\ WF_vars(Tick /\ pc = "tick")
  /\ SF_vars(TickLoss \/ TickBegin)
  /\ SF_vars(ServiceResult)
  /\ SF_vars(LeaveRtc)

\* What must eventually happen is asked of a device that keeps its power.
FairSpec == Init /\ [][Running]_vars /\ Fairness

-----------------------------------------------------------------------------
(* Properties                                                               *)

MaybeToken == Tokens \cup {None}
MaybeConversation == Conversations \cup {None}
Positions == {"idle", "tick", "repair", "pairGate", "pairAnswer", "startAnswer",
              "renewAnswer", "leave", "left", "notify"}
Sequels == {"none", "done", "notify", "repair", "invalidate"}

TypeOK ==
  /\ phase \in Phases
  /\ code \in MaybeToken /\ token \in MaybeToken /\ kv \in MaybeToken
  /\ pairingRequested \in BOOLEAN /\ conversationRequested \in BOOLEAN
  /\ pollPending \in BOOLEAN /\ shuttingDown \in BOOLEAN /\ exiting \in BOOLEAN
  /\ pairDelay \in 0..PairRetryMax /\ pairWait \in 0..PairRetryMax
  /\ conversation \in MaybeConversation
  /\ renewalPending \in BOOLEAN
  /\ renewalDelay \in 0..RenewRetryMax /\ renewalWait \in 0..RenewRetryMax
  /\ stopRequest \in {"none", "hangup", "error"} /\ renewalRequested \in BOOLEAN
  /\ available \in BOOLEAN /\ lossPending \in BOOLEAN
  /\ rtc \in MaybeConversation /\ renewalFor \in MaybeConversation
  /\ requests \in Seq(Requests) /\ results \in Seq(Requests)
  /\ pc \in Positions /\ after \in Sequels
  /\ ending \in MaybeConversation /\ snap \in BOOLEAN
  /\ netPc \in {"idle", "generation", "loss"}
  /\ rtcPc \in {"idle", "ending", "renewing"}

\* In runtime or in a conversation the device holds a credential, and exactly
\* that credential would be restored by a reboot.
DurableBinding ==
  phase \in {"runtime", "in_conversation"} => token # None /\ kv = token

\* The credential in use was granted for the pairing code shown last: an answer
\* about an earlier code is never applied after a re-pairing.
BindingMatchesCode == code # None /\ token # None => token = code

\* The device acts with one credential, the one its owner was asked to confirm last
\* and a reboot would find.
BindingTrue == DurableBinding /\ BindingMatchesCode

Polls(s) == {i \in 1..Len(s) : s[i].type # "STOP"}

\* At most one status poll is on its way, and poll_pending says so as long as
\* its result will be delivered: polling neither doubles nor stops for good.
OnePollOutstanding ==
  /\ \A i, j \in Polls(requests) : i = j
  /\ \A i, j \in Polls(results) : i = j
  /\ Polls(requests) = {} \/ Polls(results) = {}
  /\ ~exiting => (pollPending <=> Polls(requests) \cup Polls(results) # {})

\* RTC is joined to the active conversation or to none, and it has left before
\* the device shows any state but the conversation.
RtcMatchesConversation ==
  /\ rtc # None => phase = "in_conversation"
  /\ rtc # None /\ conversation # None => rtc = conversation

\* A stop request never outlives the conversation it was made for: the next one
\* would otherwise end at once.
MailboxEmptyOutsideConversation ==
  stopRequest # "none" => phase = "in_conversation"

\* A pending renewal belongs to the active conversation, although RTC may ask
\* for it while the one before is being taken down.
RenewalBelongs ==
  /\ phase = "in_conversation" /\ conversation # None
  /\ renewalRequested \/ renewalPending
  => renewalFor = conversation

\* No call, stop request or renewal of one conversation reaches another.
ConversationClean ==
  RtcMatchesConversation /\ MailboxEmptyOutsideConversation /\ RenewalBelongs

\* Seen from outside, the device binds, talks, hangs up and releases as
\* DeviceBinding says; how many threads, queues and ticks that takes is hidden.
Abstract ==
  INSTANCE DeviceBinding WITH
    Credentials <- Tokens,
    bound <- IF phase \in {"runtime", "in_conversation"} THEN token ELSE None,
    stored <- kv,
    talking <- phase = "in_conversation",
    connected <- rtc
BindingSpec == Abstract!BindingSpec

\* What the application is built on: the lifecycle shows it no other step than
\* those of LifecycleSurface.
SurfaceOwner ==
  CASE pc \in {"idle", "tick"}  -> pc
    [] pc = "startAnswer"       -> "starting"
    [] pc \in {"leave", "left"} -> "ending"
    [] OTHER                    -> "busy"

Surface ==
  INSTANCE LifecycleSurface WITH
    life <- IF phase \in {"runtime", "in_conversation"} THEN phase ELSE "unclaimed",
    loss <- lossPending \/ netPc # "idle",
    asked <- conversationRequested,
    stopAsked <- stopRequest # "none",
    owner <- SurfaceOwner,
    current <- pc = "startAnswer" /\ snap /\ netPc # "generation"
SurfaceSpec == Surface!SurfaceSpec

\* The server is told of an end only once RTC has left that conversation.
StopAfterTeardown ==
  \A i \in 1..Len(requests) : requests[i].type = "STOP" =>
    requests[i].conversation \notin {None, rtc, conversation}

\* Between two items of the control queue an unpaired device always has a way
\* back to pairing, and never rests in the transient pairing state.
NeverStranded ==
  Idle /\ ~shuttingDown =>
    /\ phase # "pairing"
    /\ phase = "unprovisioned" => pairingRequested \/ pairWait > 0

\* Whatever it waits for, the owner returns to its queue.
OwnerReturns == ~Idle ~> Idle

\* A network loss ends the conversation, even if the network is back before the
\* owner looks.
LossEndsConversation == phase = "in_conversation" /\ ~available ~> phase # "in_conversation"

\* A request to stop is never lost: the conversation ends, although a tick may
\* clear the mailbox while the network is going away.
StopHonoured ==
  phase = "in_conversation" /\ stopRequest # "none" ~> phase # "in_conversation"

\* The outstanding poll comes back, so polling can go on.
PollReturns == pollPending ~> ~pollPending \/ exiting

\* What is handed from one thread to the other is handed back.
WorkReturns == OwnerReturns /\ PollReturns

\* A conversation ends when the network or its user wants it to.
ConversationsEnd == LossEndsConversation /\ StopHonoured
=============================================================================
