------------------------ MODULE DeviceLifecycleProofs ------------------------
(***************************************************************************)
(* Proofs about DeviceLifecycle, for any sets of names, back-off limits and *)
(* queue capacity.                                                          *)
(***************************************************************************)
EXTENDS DeviceLifecycle, SequenceTheorems, TLAPS

-----------------------------------------------------------------------------
(* The inductive invariant.  Away from the queue the owner's position says  *)
(* which phase it is in; together with the RTC queue being idle while it    *)
(* leaves, that is what keeps the mailboxes from crossing conversations.    *)

OwnerKnowsPhase ==
  /\ pc \in {"pairGate", "pairAnswer"} => phase = "pairing"
  /\ pc \in {"repair", "notify"} => phase \notin {"pairing", "in_conversation"}
  /\ pc = "startAnswer" => phase = "runtime"
  /\ pc \in {"renewAnswer", "leave", "left"} => phase = "in_conversation"
  /\ phase = "pairing" => pc \in {"pairGate", "pairAnswer"}
  /\ pc \in {"leave", "left"} => conversation = None
  /\ pc = "left" => rtc = None

RtcKnowsConversation ==
  /\ rtcPc # "idle" => rtc # None

PairingComes ==
  phase = "unprovisioned" => pairingRequested \/ pairWait > 0 \/ shuttingDown

Coherent ==
  /\ OwnerKnowsPhase
  /\ RtcKnowsConversation
  /\ PairingComes
  /\ DurableBinding
  /\ RtcMatchesConversation
  /\ MailboxEmptyOutsideConversation
  /\ RenewalBelongs

LifecycleInv == TypeOK /\ Coherent

-----------------------------------------------------------------------------
(* What the helpers return                                                  *)

\* The variable groups are only abbreviations for UNCHANGED.
USE DEF retryVars, renewalVars, bindingVars, queueVars, flagVars, networkVars, rtcVars,
        ownerVars

LEMMA EmptyValues ==
  /\ None \in MaybeToken /\ None \in MaybeConversation
  /\ 0 \in 0..PairRetryMax /\ 0 \in 0..RenewRetryMax
  BY LifecycleAssumption DEF MaybeToken, MaybeConversation

LEMMA UnboundType ==
  ASSUME NEW s \in Seq(Requests)
  PROVE  Unbound(s) \in Seq(Requests) /\ Len(Unbound(s)) = Len(s)
  <1>1. ASSUME NEW i \in 1..Len(s)
        PROVE  [s[i] EXCEPT !.binding = FALSE] \in Requests
    <2>1. s[i] \in Requests
      BY ElementOfSeq
    <2>2. QED
      BY <2>1 DEF Requests
  <1>2. Len(s) \in Nat
    BY LenProperties
  <1>3. QED
    BY <1>1, <1>2 DEF Unbound

LEMMA CutOffType ==
  ASSUME NEW s \in Seq(Requests)
  PROVE  CutOff(s) \in Seq(Requests) /\ Len(CutOff(s)) = Len(s)
  <1>1. ASSUME NEW i \in 1..Len(s)
        PROVE  [s[i] EXCEPT !.network = FALSE] \in Requests
    <2>1. s[i] \in Requests
      BY ElementOfSeq
    <2>2. QED
      BY <2>1 DEF Requests
  <1>2. Len(s) \in Nat
    BY LenProperties
  <1>3. QED
    BY <1>1, <1>2 DEF CutOff

\* The back-off is never zero and never above its maximum.
LEMMA NextRetryDelayBound ==
  ASSUME NEW initial \in Nat \ {0}, NEW maximum \in Nat, initial <= maximum,
         NEW current \in 0..maximum
  PROVE  NextRetryDelay(current, initial, maximum) \in 1..maximum
  <1>1. CASE current = 0
    BY <1>1 DEF NextRetryDelay
  <1>2. CASE current # 0 /\ current < maximum \div 2
    <2>1. current * 2 <= maximum
      BY <1>2
    <2>2. QED
      BY <1>2, <2>1 DEF NextRetryDelay
  <1>3. CASE current # 0 /\ ~(current < maximum \div 2)
    BY <1>3 DEF NextRetryDelay
  <1>4. QED
    BY <1>1, <1>2, <1>3

LEMMA NewRequestType ==
  ASSUME TypeOK, NEW type \in {"PAIR_POLL", "DEVICE_POLL", "STOP"},
         NEW name \in MaybeConversation
  PROVE  NewRequest(type, name) \in Requests
  <1>1. code \in Tokens \cup {None} /\ token \in Tokens \cup {None}
        /\ name \in Conversations \cup {None}
    BY DEF TypeOK, MaybeToken, MaybeConversation
  <1>2. QED
    BY <1>1 DEF NewRequest, Requests

LEMMA SubmitType ==
  ASSUME TypeOK, NEW r \in Requests, Submit(r)
  PROVE  requests' \in Seq(Requests)
  BY AppendProperties DEF Submit, TypeOK

LEMMA PollType ==
  ASSUME TypeOK, NEW type \in {"PAIR_POLL", "DEVICE_POLL"}, Poll(type)
  PROVE  pollPending' \in BOOLEAN /\ requests' \in Seq(Requests)
  <1>1. CASE UNCHANGED <<pollPending, requests>>
    BY <1>1 DEF TypeOK
  <1>2. CASE pollPending' = TRUE /\ Submit(NewRequest(type, None))
    BY <1>2, EmptyValues, NewRequestType, SubmitType
  <1>3. QED
    BY <1>1, <1>2 DEF Poll

LEMMA ReturnType ==
  ASSUME Return
  PROVE  pc' \in Positions /\ after' \in Sequels /\ ending' \in MaybeConversation
         /\ snap' \in BOOLEAN
  BY EmptyValues DEF Return, Positions, Sequels

LEMMA SetPhaseType ==
  ASSUME TypeOK, NEW p \in Phases, SetPhase(p)
  PROVE  phase' \in Phases /\ stopRequest' \in {"none", "hangup", "error"}
  BY DEF SetPhase, TypeOK

LEMMA ClearDeviceAuthType ==
  ASSUME TypeOK, NEW pending \in Seq(Requests), ClearDeviceAuth(pending)
  PROVE  /\ code' \in MaybeToken /\ token' \in MaybeToken /\ kv' \in MaybeToken
         /\ requests' \in Seq(Requests) /\ results' \in Seq(Requests)
  BY EmptyValues, UnboundType DEF ClearDeviceAuth, TypeOK

LEMMA BeginEndType ==
  ASSUME TypeOK, NEW next \in Sequels, BeginEnd(next)
  PROVE  /\ phase' \in Phases
         /\ conversation' \in MaybeConversation
         /\ renewalPending' \in BOOLEAN /\ renewalRequested' \in BOOLEAN
         /\ renewalDelay' \in 0..RenewRetryMax /\ renewalWait' \in 0..RenewRetryMax
         /\ rtc' \in MaybeConversation /\ renewalFor' \in MaybeConversation
         /\ rtcPc' \in {"idle", "ending", "renewing"}
         /\ pc' \in Positions /\ after' \in Sequels
  BY EmptyValues DEF BeginEnd, ClearRenewal, TypeOK, Positions

LEMMA EndLocallyType ==
  ASSUME EndLocally("done") \/ EndLocally("invalidate")
  PROVE  ending' \in MaybeConversation /\ snap' \in BOOLEAN
  BY EmptyValues DEF EndLocally

-----------------------------------------------------------------------------
(* Type correctness.  Where one action touches much, its type facts are      *)
(* proved in four groups.                                                   *)

NameTypes ==
  /\ code \in MaybeToken /\ token \in MaybeToken /\ kv \in MaybeToken
  /\ conversation \in MaybeConversation /\ ending \in MaybeConversation
  /\ rtc \in MaybeConversation /\ renewalFor \in MaybeConversation
  /\ requests \in Seq(Requests) /\ results \in Seq(Requests)

PositionTypes ==
  /\ phase \in Phases /\ pc \in Positions /\ after \in Sequels
  /\ pairDelay \in 0..PairRetryMax /\ pairWait \in 0..PairRetryMax
  /\ renewalDelay \in 0..RenewRetryMax /\ renewalWait \in 0..RenewRetryMax
  /\ stopRequest \in {"none", "hangup", "error"}
  /\ netPc \in {"idle", "generation", "loss"}
  /\ rtcPc \in {"idle", "ending", "renewing"}

OwnerFlagTypes ==
  /\ pairingRequested \in BOOLEAN /\ conversationRequested \in BOOLEAN
  /\ pollPending \in BOOLEAN /\ shuttingDown \in BOOLEAN
  /\ renewalPending \in BOOLEAN /\ snap \in BOOLEAN

SharedFlagTypes ==
  /\ exiting \in BOOLEAN /\ renewalRequested \in BOOLEAN
  /\ available \in BOOLEAN /\ lossPending \in BOOLEAN

LEMMA TypeGroups ==
  /\ TypeOK => NameTypes /\ PositionTypes /\ OwnerFlagTypes /\ SharedFlagTypes
  /\ NameTypes' /\ PositionTypes' /\ OwnerFlagTypes' /\ SharedFlagTypes' => TypeOK'
  BY DEF TypeOK, NameTypes, PositionTypes, OwnerFlagTypes, SharedFlagTypes

LEMMA TypeTick == ASSUME TypeOK, Tick PROVE TypeOK'
  <1>1. CASE TickLoss
    <2>1. CASE phase = "in_conversation"
      <3>1. EndLocally("done")
        BY <1>1, <2>1 DEF TickLoss
      <3>2. BeginEnd("done") /\ "done" \in Sequels
        BY <3>1 DEF EndLocally, Sequels
      <3>3. QED
        BY <1>1, <3>1, <3>2, BeginEndType, EndLocallyType DEF TickLoss, TypeOK
    <2>2. CASE phase # "in_conversation"
      BY ZenonT(60), <1>1, <2>2 DEF TickLoss, TypeOK
    <2>3. QED
      BY <2>1, <2>2
  <1>2. CASE TickBegin
    BY <1>2 DEF TickBegin, TypeOK, Positions
  <1>3. CASE TickOffline
    BY ZenonT(60), <1>3, ReturnType DEF TickOffline, TypeOK
  <1>4. CASE TickPairing
    <2>1. CASE phase = "in_conversation"
      BY <1>4, <2>1, BeginEndType DEF TickPairing, StopConversation, TypeOK, Sequels
    <2>2. CASE phase # "in_conversation"
      <3>1. /\ pc' = "repair"
            /\ UNCHANGED <<phase, conversation, renewalVars, rtcVars, after, ending, snap,
                           requests>>
        BY <1>4, <2>2 DEF TickPairing
      <3>2. conversationRequested' = FALSE
            /\ UNCHANGED <<stopRequest, retryVars, bindingVars, results, pairingRequested,
                           pollPending, shuttingDown, exiting, networkVars>>
        BY <1>4 DEF TickPairing
      <3>3. pc' \in Positions
        BY <3>1 DEF Positions
      <3>4. NameTypes'
        BY <3>1, <3>2, <3>3, TypeGroups DEF NameTypes
      <3>5. PositionTypes'
        BY <3>1, <3>2, <3>3, TypeGroups DEF PositionTypes
      <3>6. OwnerFlagTypes'
        BY <3>1, <3>2, <3>3, TypeGroups DEF OwnerFlagTypes
      <3>7. SharedFlagTypes'
        BY <3>1, <3>2, <3>3, TypeGroups DEF SharedFlagTypes
      <3>8. QED
        BY <3>4, <3>5, <3>6, <3>7, TypeGroups
    <2>3. QED
      BY <2>1, <2>2
  <1>5. CASE TickUnprovisioned
    <2>1. pairWait' \in 0..PairRetryMax
      BY <1>5, LifecycleAssumption DEF TickUnprovisioned, TypeOK
    <2>2. CASE pairWait = 1
      BY <1>5, <2>1, <2>2, SetPhaseType DEF TickUnprovisioned, TypeOK, Positions, Phases
    <2>3. CASE pairWait # 1
      BY <1>5, <2>1, <2>3, ReturnType DEF TickUnprovisioned, TypeOK
    <2>4. QED
      BY <2>2, <2>3
  <1>6. CASE TickPoll
    <2>1. pollPending' \in BOOLEAN /\ requests' \in Seq(Requests)
      BY <1>6, PollType DEF TickPoll
    <2>2. QED
      BY <1>6, <2>1, ReturnType DEF TickPoll, TypeOK
  <1>7. CASE TickStart
    BY <1>7 DEF TickStart, TypeOK, Positions
  <1>8. CASE TickStop
    <2>1. BeginEnd("notify") /\ "notify" \in Sequels
      BY <1>8 DEF TickStop, StopConversation, Sequels
    <2>2. QED
      BY <1>8, <2>1, BeginEndType DEF TickStop, StopConversation, TypeOK
  <1>9. CASE TickRenewal
    <2>1. /\ renewalPending' \in BOOLEAN /\ renewalRequested' \in BOOLEAN
          /\ renewalDelay' \in 0..RenewRetryMax /\ renewalWait' \in 0..RenewRetryMax
      <3>1. renewalPending' \in BOOLEAN /\ renewalRequested' \in BOOLEAN
        BY <1>9 DEF TickRenewal, TypeOK
      <3>2. renewalDelay' \in 0..RenewRetryMax
        BY <1>9, EmptyValues DEF TickRenewal, TypeOK
      <3>3. renewalWait' \in 0..RenewRetryMax
        BY <1>9, LifecycleAssumption DEF TickRenewal, TypeOK
      <3>4. QED
        BY <3>1, <3>2, <3>3
    <2>2. pollPending' \in BOOLEAN /\ requests' \in Seq(Requests)
      BY <1>9, PollType DEF TickRenewal, TypeOK
    <2>3. /\ pc' \in Positions /\ after' \in Sequels
          /\ ending' \in MaybeConversation /\ snap' \in BOOLEAN
      BY <1>9, ReturnType DEF TickRenewal, TypeOK, Positions
    <2>4. QED
      BY <1>9, <2>1, <2>2, <2>3 DEF TickRenewal, TypeOK
  <1>10. QED
    BY <1>1, <1>2, <1>3, <1>4, <1>5, <1>6, <1>7, <1>8, <1>9 DEF Tick

LEMMA TypeEnding == ASSUME TypeOK, Ending PROVE TypeOK'
  <1>1. CASE LeaveRtc
    <2>1. stopRequest' \in {"none", "hangup", "error"} /\ rtc' \in MaybeConversation
      BY <1>1, EmptyValues DEF LeaveRtc, TypeOK
    <2>2. QED
      BY <1>1, <2>1 DEF LeaveRtc, TypeOK, Positions
  <1>2. CASE FinishEnd
    <2>1. /\ phase' \in Phases /\ stopRequest' \in {"none", "hangup", "error"}
          /\ code' \in MaybeToken /\ token' \in MaybeToken /\ kv' \in MaybeToken
          /\ requests' \in Seq(Requests) /\ results' \in Seq(Requests)
          /\ pairingRequested' \in BOOLEAN
      <3>1. CASE after = "invalidate"
        <4>1. InvalidateBinding
          BY <1>2, <3>1 DEF FinishEnd
        <4>2. "unprovisioned" \in Phases /\ results \in Seq(Requests)
          BY DEF Phases, TypeOK
        <4>3. QED
          BY <4>1, <4>2, ClearDeviceAuthType, SetPhaseType DEF InvalidateBinding
      <3>2. CASE after # "invalidate"
        <4>1. SetPhase("runtime") /\ UNCHANGED <<bindingVars, queueVars, pairingRequested>>
          BY <1>2, <3>2 DEF FinishEnd
        <4>2. "runtime" \in Phases
          BY DEF Phases
        <4>3. QED
          BY <4>1, <4>2, SetPhaseType DEF TypeOK
      <3>3. QED
        BY <3>1, <3>2
    <2>2. /\ pc' \in Positions /\ after' \in Sequels
          /\ ending' \in MaybeConversation /\ snap' \in BOOLEAN
      BY <1>2, ReturnType DEF FinishEnd, TypeOK, Positions
    <2>3. QED
      BY <1>2, <2>1, <2>2 DEF FinishEnd, TypeOK
  <1>3. CASE NotifyStop
    <2>1. requests' \in Seq(Requests)
      <3>1. CASE Submit(NewRequest("STOP", ending))
        <4>1. NewRequest("STOP", ending) \in Requests
          BY NewRequestType DEF TypeOK
        <4>2. QED
          BY <3>1, <4>1, SubmitType
      <3>2. CASE UNCHANGED requests
        BY <3>2 DEF TypeOK
      <3>3. QED
        BY <1>3, <3>1, <3>2 DEF NotifyStop
    <2>2. /\ pc' \in Positions /\ after' \in Sequels
          /\ ending' \in MaybeConversation /\ snap' \in BOOLEAN
      BY <1>3, ReturnType, EmptyValues DEF NotifyStop, Positions, Sequels
    <2>3. QED
      BY <1>3, <2>1, <2>2 DEF NotifyStop, TypeOK
  <1>4. QED
    BY <1>1, <1>2, <1>3 DEF Ending

LEMMA TypeStartPairing == ASSUME TypeOK, StartPairing PROVE TypeOK'
  <1>1. "pairing" \in Phases /\ results \in Seq(Requests)
    BY DEF Phases, TypeOK
  <1>2. /\ phase' \in Phases /\ stopRequest' \in {"none", "hangup", "error"}
        /\ code' \in MaybeToken /\ token' \in MaybeToken /\ kv' \in MaybeToken
        /\ requests' \in Seq(Requests) /\ results' \in Seq(Requests)
    <2>1. ClearDeviceAuth(results) /\ SetPhase("pairing")
      BY DEF StartPairing
    <2>2. QED
      BY <1>1, <2>1, ClearDeviceAuthType, SetPhaseType
  <1>3. conversation' \in MaybeConversation /\ pc' \in Positions
    BY EmptyValues DEF StartPairing, Positions
  <1>4. NameTypes'
    BY <1>2, <1>3, TypeGroups DEF StartPairing, NameTypes
  <1>5. PositionTypes'
    BY <1>2, <1>3, TypeGroups DEF StartPairing, PositionTypes
  <1>6. OwnerFlagTypes'
    BY <1>2, <1>3, TypeGroups DEF StartPairing, OwnerFlagTypes
  <1>7. SharedFlagTypes'
    BY <1>2, <1>3, TypeGroups DEF StartPairing, SharedFlagTypes
  <1>8. QED
    BY <1>4, <1>5, <1>6, <1>7, TypeGroups

LEMMA TypeAnswer == ASSUME TypeOK, Answer PROVE TypeOK'
  <1>1. CASE PairGate
    <2>1. CASE available
      <3>1. /\ snap' = TRUE /\ pc' = "pairAnswer"
            /\ UNCHANGED <<phase, stopRequest, pairingRequested, after, ending>>
        BY <1>1, <2>1 DEF PairGate
      <3>2. QED
        BY <1>1, <3>1 DEF PairGate, TypeOK, Positions
    <2>2. CASE ~available
      <3>1. SetPhase("unprovisioned") /\ pairingRequested' = TRUE /\ Return
        BY <1>1, <2>2 DEF PairGate
      <3>2. "unprovisioned" \in Phases
        BY DEF Phases
      <3>3. QED
        BY <1>1, <3>1, <3>2, SetPhaseType, ReturnType DEF PairGate, TypeOK
    <2>3. QED
      BY <2>1, <2>2
  <1>2. CASE PairAnswer
    <2>1. /\ phase' \in Phases /\ stopRequest' \in {"none", "hangup", "error"}
          /\ code' \in MaybeToken /\ token' \in MaybeToken /\ kv' \in MaybeToken
          /\ requests' \in Seq(Requests) /\ results' \in Seq(Requests)
          /\ pairDelay' \in 0..PairRetryMax /\ pairWait' \in 0..PairRetryMax
          /\ pairingRequested' \in BOOLEAN
      <3>1. "unprovisioned" \in Phases /\ "awaiting_claim" \in Phases
        BY DEF Phases
      <3>2. CASE PairAnswerStale
        BY <3>1, <3>2, SetPhaseType DEF PairAnswerStale, TypeOK
      <3>3. CASE PairAnswerFailed
        <4>1. pairDelay' \in 1..PairRetryMax
          BY <3>3, LifecycleAssumption, NextRetryDelayBound DEF PairAnswerFailed, TypeOK
        <4>2. QED
          BY <3>1, <3>3, <4>1, SetPhaseType DEF PairAnswerFailed, TypeOK
      <3>4. CASE \E c \in Tokens \ TokensInUse : PairAnswerOk(c)
        <4>1. PICK c \in Tokens : PairAnswerOk(c)
          BY <3>4
        <4>2. c \in MaybeToken
          BY DEF MaybeToken
        <4>3. /\ SetPhase("awaiting_claim") /\ code' = c /\ token' = None
              /\ requests' = Unbound(requests) /\ results' = Unbound(results)
              /\ pairDelay' = 0 /\ pairWait' = 0 /\ UNCHANGED <<kv, pairingRequested>>
          BY <4>1 DEF PairAnswerOk
        <4>4. QED
          BY <3>1, <4>2, <4>3, EmptyValues, SetPhaseType, UnboundType DEF TypeOK
      <3>5. QED
        BY <1>2, <3>2, <3>3, <3>4 DEF PairAnswer
    <2>2. QED
      BY <1>2, <2>1, ReturnType DEF PairAnswer, TypeOK
  <1>3. CASE StartAnswer
    <2>1. /\ phase' \in Phases /\ stopRequest' \in {"none", "hangup", "error"}
          /\ code' \in MaybeToken /\ token' \in MaybeToken /\ kv' \in MaybeToken
          /\ requests' \in Seq(Requests) /\ results' \in Seq(Requests)
          /\ pairingRequested' \in BOOLEAN
          /\ conversation' \in MaybeConversation
          /\ renewalPending' \in BOOLEAN /\ renewalRequested' \in BOOLEAN
          /\ renewalDelay' \in 0..RenewRetryMax /\ renewalWait' \in 0..RenewRetryMax
          /\ rtc' \in MaybeConversation /\ renewalFor' \in MaybeConversation
          /\ rtcPc' \in {"idle", "ending", "renewing"}
      <3>1. CASE UNCHANGED <<phase, stopRequest, conversation, renewalVars, bindingVars,
                             queueVars, pairingRequested, rtcVars>>
        BY <3>1 DEF TypeOK
      <3>2. CASE StartRejected
        <4>1. "unprovisioned" \in Phases /\ results \in Seq(Requests)
          BY DEF Phases, TypeOK
        <4>2. ClearDeviceAuth(results) /\ SetPhase("unprovisioned") /\ pairingRequested' = TRUE
          BY <3>2 DEF StartRejected, InvalidateBinding
        <4>3. QED
          BY <3>2, <4>1, <4>2, ClearDeviceAuthType, SetPhaseType DEF StartRejected, TypeOK
      <3>3. CASE \E c \in Conversations \ ConversationsInUse : StartAccepted(c)
        <4>1. PICK c \in Conversations : StartAccepted(c)
          BY <3>3
        <4>2. c \in MaybeConversation
          BY DEF MaybeConversation
        <4>3. rtc' \in MaybeConversation /\ stopRequest' \in {"none", "hangup", "error"}
          BY <4>1, <4>2, EmptyValues DEF StartAccepted, JoinRtc, TypeOK
        <4>4. QED
          BY <4>1, <4>2, <4>3, EmptyValues DEF StartAccepted, ClearRenewal, TypeOK, Phases
      <3>4. QED
        BY <1>3, <3>1, <3>2, <3>3 DEF StartAnswer
    <2>2. QED
      BY <1>3, <2>1, ReturnType DEF StartAnswer, TypeOK
  <1>4. CASE RenewAnswer
    <2>1. CASE /\ UNCHANGED renewalVars \/ RenewFailed \/ RenewOk
               /\ Return
               /\ UNCHANGED <<phase, conversation, rtcVars, requests>>
      <3>1. /\ renewalPending' \in BOOLEAN
            /\ renewalDelay' \in 0..RenewRetryMax /\ renewalWait' \in 0..RenewRetryMax
        <4>1. CASE RenewFailed
          <5>1. renewalDelay' \in 1..RenewRetryMax
            BY <4>1, LifecycleAssumption, NextRetryDelayBound DEF RenewFailed, TypeOK
          <5>2. QED
            BY <4>1, <5>1 DEF RenewFailed, TypeOK
        <4>2. CASE RenewOk
          BY <4>2, EmptyValues DEF RenewOk
        <4>3. CASE UNCHANGED renewalVars
          BY <4>3 DEF TypeOK
        <4>4. QED
          BY <2>1, <4>1, <4>2, <4>3
      <3>2. QED
        BY <1>4, <2>1, <3>1, ReturnType DEF RenewAnswer, TypeOK
    <2>2. CASE EndLocally("invalidate") /\ UNCHANGED requests
      <3>1. BeginEnd("invalidate") /\ "invalidate" \in Sequels
        BY <2>2 DEF EndLocally, Sequels
      <3>2. QED
        BY <1>4, <2>2, <3>1, BeginEndType, EndLocallyType DEF RenewAnswer, TypeOK
    <2>3. CASE StopConversation("notify")
      <3>1. BeginEnd("notify") /\ "notify" \in Sequels
        BY <2>3 DEF StopConversation, Sequels
      <3>2. QED
        BY <1>4, <2>3, <3>1, BeginEndType DEF RenewAnswer, StopConversation, TypeOK
    <2>4. QED
      BY <1>4, <2>1, <2>2, <2>3 DEF RenewAnswer
  <1>5. QED
    BY <1>1, <1>2, <1>3, <1>4 DEF Answer

LEMMA TypeServiceResult == ASSUME TypeOK, ServiceResult PROVE TypeOK'
  <1> DEFINE r == Head(results)
  <1>1. r \in Requests /\ Tail(results) \in Seq(Requests)
    BY HeadTailProperties DEF ServiceResult, TypeOK
  <1>2. pollPending' \in BOOLEAN
    BY DEF ServiceResult, PollReturned, TypeOK
  <1>3. r.credential \in MaybeToken
    BY <1>1 DEF Requests, MaybeToken
  <1>4. "runtime" \in Phases /\ "unprovisioned" \in Phases
    BY DEF Phases
  <1>5. UNCHANGED <<retryVars, conversationRequested, shuttingDown, exiting, networkVars>>
    BY DEF ServiceResult
  <1>6. CASE ApplyRefused /\ phase = "in_conversation"
    <2>1. /\ EndLocally("invalidate") /\ results' = Tail(results)
          /\ UNCHANGED <<stopRequest, bindingVars, pairingRequested, requests>>
      BY <1>6 DEF ApplyRefused
    <2>2. BeginEnd("invalidate") /\ "invalidate" \in Sequels
      BY <2>1 DEF EndLocally, Sequels
    <2>3. QED
      BY <1>1, <1>2, <1>5, <2>1, <2>2, BeginEndType, EndLocallyType DEF TypeOK
  <1>7. CASE ApplyRefused /\ phase # "in_conversation"
    <2>1. /\ ClearDeviceAuth(Tail(results)) /\ SetPhase("unprovisioned")
          /\ pairingRequested' = TRUE
          /\ UNCHANGED <<conversation, renewalVars, rtcVars, ownerVars>>
      BY <1>7 DEF ApplyRefused
    <2>2. /\ code' \in MaybeToken /\ token' \in MaybeToken /\ kv' \in MaybeToken
          /\ requests' \in Seq(Requests) /\ results' \in Seq(Requests)
      BY <1>1, <2>1, ClearDeviceAuthType
    <2>3. phase' \in Phases /\ stopRequest' \in {"none", "hangup", "error"}
      BY <1>4, <2>1, SetPhaseType
    <2>4. NameTypes'
      BY <1>2, <1>5, <2>1, <2>2, <2>3, TypeGroups DEF NameTypes
    <2>5. PositionTypes'
      BY <1>2, <1>5, <2>1, <2>2, <2>3, TypeGroups DEF PositionTypes
    <2>6. OwnerFlagTypes'
      BY <1>2, <1>5, <2>1, <2>2, <2>3, TypeGroups DEF OwnerFlagTypes
    <2>7. SharedFlagTypes'
      BY <1>2, <1>5, <2>1, <2>2, <2>3, TypeGroups DEF SharedFlagTypes
    <2>8. QED
      BY <2>4, <2>5, <2>6, <2>7, TypeGroups
  <1>8. CASE /\ ApplyNothing \/ ApplyBound(r) \/ ApplyPairingOver
             /\ UNCHANGED <<conversation, renewalVars, rtcVars, ownerVars>>
    <2>1. /\ phase' \in Phases /\ stopRequest' \in {"none", "hangup", "error"}
          /\ code' \in MaybeToken /\ token' \in MaybeToken /\ kv' \in MaybeToken
          /\ requests' \in Seq(Requests) /\ results' \in Seq(Requests)
          /\ pairingRequested' \in BOOLEAN
      <3>1. CASE ApplyNothing
        BY <1>1, <3>1 DEF ApplyNothing, TypeOK
      <3>2. CASE ApplyBound(r)
        <4>1. /\ token' \in MaybeToken
              /\ requests' \in Seq(Requests) /\ results' \in Seq(Requests)
          BY <1>1, <1>3, <3>2, UnboundType DEF ApplyBound, TypeOK
        <4>2. /\ kv' \in MaybeToken
              /\ phase' \in Phases /\ stopRequest' \in {"none", "hangup", "error"}
          BY <1>4, <3>2, <4>1, SetPhaseType DEF ApplyBound, TypeOK
        <4>3. QED
          BY <3>2, <4>1, <4>2 DEF ApplyBound, TypeOK
      <3>3. CASE ApplyPairingOver
        BY <1>1, <1>4, <3>3, SetPhaseType DEF ApplyPairingOver, TypeOK
      <3>4. QED
        BY <1>8, <3>1, <3>2, <3>3
    <2>2. QED
      BY <1>2, <1>5, <1>8, <2>1 DEF TypeOK
  <1>9. QED
    BY <1>6, <1>7, <1>8 DEF ServiceResult

LEMMA TypeRequest == ASSUME TypeOK, Request PROVE TypeOK'
  <1>1. NameTypes'
    BY TypeGroups DEF Request, RequestPair, RequestStart, RequestStop, NameTypes
  <1>2. PositionTypes'
    BY TypeGroups DEF Request, RequestPair, RequestStart, RequestStop, PositionTypes
  <1>3. OwnerFlagTypes'
    BY TypeGroups DEF Request, RequestPair, RequestStart, RequestStop, OwnerFlagTypes
  <1>4. SharedFlagTypes'
    BY TypeGroups DEF Request, RequestPair, RequestStart, RequestStop, SharedFlagTypes
  <1>5. QED
    BY <1>1, <1>2, <1>3, <1>4, TypeGroups

LEMMA TypeExit == ASSUME TypeOK, Exit PROVE TypeOK'
  BY DEF Exit, TypeOK

LEMMA TypeShutdown == ASSUME TypeOK, Shutdown PROVE TypeOK'
  <1>1. CASE phase # "in_conversation"
    <2>1. /\ renewalRequested' = FALSE
          /\ UNCHANGED <<phase, conversation, renewalVars, rtc, rtcPc, renewalFor, ownerVars,
                         requests>>
      BY <1>1 DEF Shutdown
    <2>2. QED
      BY <2>1 DEF Shutdown, TypeOK
  <1>2. CASE phase = "in_conversation"
    <2>1. \/ StopConversation("notify")
          \/ EndLocally("done") /\ UNCHANGED requests
      BY <1>2 DEF Shutdown
    <2>2. CASE StopConversation("notify")
      <3>1. BeginEnd("notify") /\ "notify" \in Sequels
        BY <2>2 DEF StopConversation, Sequels
      <3>2. QED
        BY <2>2, <3>1, BeginEndType DEF Shutdown, StopConversation, TypeOK
    <2>3. CASE EndLocally("done") /\ UNCHANGED requests
      <3>1. BeginEnd("done") /\ "done" \in Sequels
        BY <2>3 DEF EndLocally, Sequels
      <3>2. QED
        BY <2>3, <3>1, BeginEndType, EndLocallyType DEF Shutdown, TypeOK
    <2>4. QED
      BY <2>1, <2>2, <2>3
  <1>3. QED
    BY <1>1, <1>2

LEMMA TypeRtc == ASSUME TypeOK, Rtc PROVE TypeOK'
  <1>1. NameTypes'
    BY TypeGroups DEF Rtc, RtcCallback, RtcEnded, RtcTokenExpires, NameTypes
  <1>2. PositionTypes'
    BY TypeGroups DEF Rtc, RtcCallback, RtcEnded, RtcTokenExpires, PositionTypes
  <1>3. OwnerFlagTypes'
    BY TypeGroups DEF Rtc, RtcCallback, RtcEnded, RtcTokenExpires, OwnerFlagTypes
  <1>4. SharedFlagTypes'
    BY TypeGroups DEF Rtc, RtcCallback, RtcEnded, RtcTokenExpires, SharedFlagTypes
  <1>5. QED
    BY <1>1, <1>2, <1>3, <1>4, TypeGroups

LEMMA TypeNetwork == ASSUME TypeOK, Network PROVE TypeOK'
  <1>1. requests' \in Seq(Requests) /\ results' \in Seq(Requests)
    BY CutOffType DEF Network, NetworkUp, NetworkDown, NetworkGeneration, NetworkLoss, TypeOK
  <1>2. NameTypes'
    BY <1>1, TypeGroups DEF Network, NetworkUp, NetworkDown, NetworkGeneration, NetworkLoss, NameTypes
  <1>3. PositionTypes'
    BY <1>1, TypeGroups DEF Network, NetworkUp, NetworkDown, NetworkGeneration, NetworkLoss, PositionTypes
  <1>4. OwnerFlagTypes'
    BY <1>1, TypeGroups DEF Network, NetworkUp, NetworkDown, NetworkGeneration, NetworkLoss, OwnerFlagTypes
  <1>5. SharedFlagTypes'
    BY <1>1, TypeGroups DEF Network, NetworkUp, NetworkDown, NetworkGeneration, NetworkLoss, SharedFlagTypes
  <1>6. QED
    BY <1>2, <1>3, <1>4, <1>5, TypeGroups

LEMMA TypeExecute == ASSUME TypeOK, Execute PROVE TypeOK'
  <1>1. Head(requests) \in Requests /\ Tail(requests) \in Seq(Requests)
    BY HeadTailProperties DEF Execute, TypeOK
  <1>2. [Head(requests) EXCEPT !.conversation = None] \in Requests
    BY <1>1 DEF Requests
  <1>3. results' \in Seq(Requests) /\ exiting' \in BOOLEAN
    <2>1. results \in Seq(Requests) /\ exiting \in BOOLEAN
      BY DEF TypeOK
    <2>2. CASE UNCHANGED results /\ (UNCHANGED exiting \/ exiting' = TRUE)
      BY <2>1, <2>2
    <2>3. CASE /\ results' = Append(results, [Head(requests) EXCEPT !.conversation = None])
               /\ UNCHANGED exiting
      BY <1>2, <2>1, <2>3, AppendProperties
    <2>4. QED
      BY <2>2, <2>3 DEF Execute
  <1>4. QED
    BY <1>1, <1>3 DEF Execute, TypeOK

LEMMA TypeReboot == ASSUME TypeOK, Reboot PROVE TypeOK'
  <1>1. /\ phase' \in Phases /\ pairingRequested' \in BOOLEAN
        /\ token' \in MaybeToken /\ kv' \in MaybeToken
    BY EmptyValues DEF Reboot, TypeOK, Phases
  <1>2. <<>> \in Seq(Requests)
    OBVIOUS
  <1>3. Return
    BY DEF Reboot
  <1>4. QED
    BY <1>1, <1>2, <1>3, EmptyValues, ReturnType DEF Reboot, TypeOK

LEMMA TypeInit == Init => TypeOK
  <1>1. <<>> \in Seq(Requests)
    OBVIOUS
  <1>2. QED
    BY <1>1, EmptyValues DEF Init, TypeOK, Phases, Positions, Sequels

LEMMA TypeNext == ASSUME TypeOK, [Next]_vars PROVE TypeOK'
  <1>1. CASE Next
    BY <1>1, TypeTick, TypeEnding, TypeStartPairing, TypeAnswer, TypeServiceResult, TypeRequest,
       TypeExit, TypeShutdown, TypeRtc, TypeNetwork, TypeExecute, TypeReboot DEF Next, Running
  <1>2. CASE UNCHANGED vars
    BY <1>2 DEF vars, TypeOK
  <1>3. QED
    BY <1>1, <1>2

\* Every variable keeps its type: the phases and positions of the code, back-off
\* counters within their limits, queues of well-formed requests.
THEOREM LifecycleTypeCorrect == Spec => []TypeOK
  <1>1. Init => TypeOK
    BY TypeInit
  <1>2. TypeOK /\ [Next]_vars => TypeOK'
    BY TypeNext
  <1>3. QED
    BY <1>1, <1>2, PTL DEF Spec

-----------------------------------------------------------------------------
(* The invariant is preserved.  Only StartAnswer enters a conversation, and *)
(* only FinishEnd and a reboot leave the state; in between the RTC queue    *)
(* may write the mailboxes at any time.                                     *)

USE DEF LifecycleInv, Coherent, OwnerKnowsPhase, RtcKnowsConversation, PairingComes,
        DurableBinding, RtcMatchesConversation, MailboxEmptyOutsideConversation, RenewalBelongs

LEMMA Names ==
  /\ None \notin Tokens /\ None \notin Conversations
  /\ TypeOK => pairWait \in Nat
  BY LifecycleAssumption DEF TypeOK

LEMMA CoherentTick == ASSUME LifecycleInv, Tick PROVE Coherent'
  <1>1. CASE TickLoss
    BY <1>1, Names DEF TickLoss, EndLocally, BeginEnd, ClearRenewal
  <1>2. CASE TickBegin
    BY <1>2, Names DEF TickBegin, Idle
  <1>3. CASE TickOffline
    BY <1>3, Names DEF TickOffline, Return
  <1>4. CASE TickPairing
    BY <1>4, Names DEF TickPairing, StopConversation, BeginEnd, ClearRenewal
  <1>5. CASE TickUnprovisioned
    BY <1>5, Names DEF TickUnprovisioned, SetPhase, Return
  <1>6. CASE TickPoll
    BY <1>6, Names DEF TickPoll, Return
  <1>7. CASE TickStart
    BY <1>7, Names DEF TickStart
  <1>8. CASE TickStop
    BY <1>8, Names DEF TickStop, StopConversation, BeginEnd, ClearRenewal
  <1>9. CASE TickRenewal
    BY <1>9, Names DEF TickRenewal, Return
  <1>10. QED
    BY <1>1, <1>2, <1>3, <1>4, <1>5, <1>6, <1>7, <1>8, <1>9 DEF Tick

LEMMA CoherentEnding == ASSUME LifecycleInv, Ending PROVE Coherent'
  <1>1. CASE LeaveRtc
    BY <1>1, Names DEF LeaveRtc
  <1>2. CASE FinishEnd
    BY <1>2, Names DEF FinishEnd, InvalidateBinding, ClearDeviceAuth, SetPhase, Return
  <1>3. CASE NotifyStop
    BY <1>3, Names DEF NotifyStop, Return
  <1>4. QED
    BY <1>1, <1>2, <1>3 DEF Ending

LEMMA CoherentStartPairing == ASSUME LifecycleInv, StartPairing PROVE Coherent'
  BY Names DEF StartPairing, ClearDeviceAuth, SetPhase

LEMMA CoherentAnswer == ASSUME LifecycleInv, Answer PROVE Coherent'
  <1>1. CASE PairGate
    BY <1>1, Names DEF PairGate, SetPhase, Return
  <1>2. CASE PairAnswer
    <2>1. CASE PairAnswerStale \/ \E c \in Tokens \ TokensInUse : PairAnswerOk(c)
      BY <1>2, <2>1, Names DEF PairAnswer, PairAnswerStale, PairAnswerOk, SetPhase, Return
    <2>2. CASE PairAnswerFailed
      <3>1. pairDelay' \in 1..PairRetryMax
        BY <2>2, LifecycleAssumption, NextRetryDelayBound DEF PairAnswerFailed, LifecycleInv, TypeOK
      <3>2. PairingComes'
        BY <2>2, <3>1 DEF PairAnswerFailed
      <3>3. QED
        BY <1>2, <2>2, <3>2, Names DEF PairAnswer, PairAnswerFailed, SetPhase, Return
    <2>3. QED
      BY <1>2, <2>1, <2>2 DEF PairAnswer
  <1>3. CASE StartAnswer
    <2>1. OwnerKnowsPhase'
      BY <1>3, Names DEF StartAnswer, StartRejected, InvalidateBinding, ClearDeviceAuth, StartAccepted, SetPhase, ClearRenewal, JoinRtc, Return
    <2>2. RtcKnowsConversation'
      BY <1>3, Names DEF StartAnswer, StartRejected, InvalidateBinding, ClearDeviceAuth, StartAccepted, SetPhase, ClearRenewal, JoinRtc, Return
    <2>3. PairingComes'
      BY <1>3, Names DEF StartAnswer, StartRejected, InvalidateBinding, ClearDeviceAuth, StartAccepted, SetPhase, ClearRenewal, JoinRtc, Return
    <2>4. DurableBinding'
      BY <1>3, Names DEF StartAnswer, StartRejected, InvalidateBinding, ClearDeviceAuth, StartAccepted, SetPhase, ClearRenewal, JoinRtc, Return
    <2>5. RtcMatchesConversation'
      BY <1>3, Names DEF StartAnswer, StartRejected, InvalidateBinding, ClearDeviceAuth, StartAccepted, SetPhase, ClearRenewal, JoinRtc, Return
    <2>6. MailboxEmptyOutsideConversation'
      BY <1>3, Names DEF StartAnswer, StartRejected, InvalidateBinding, ClearDeviceAuth, StartAccepted, SetPhase, ClearRenewal, JoinRtc, Return
    <2>7. RenewalBelongs'
      BY <1>3, Names DEF StartAnswer, StartRejected, InvalidateBinding, ClearDeviceAuth, StartAccepted, SetPhase, ClearRenewal, JoinRtc, Return
    <2>8. QED
      BY <2>1, <2>2, <2>3, <2>4, <2>5, <2>6, <2>7
  <1>4. CASE RenewAnswer
    BY <1>4, Names DEF RenewAnswer, RenewFailed, RenewOk, Return, EndLocally, StopConversation, BeginEnd, ClearRenewal
  <1>5. QED
    BY <1>1, <1>2, <1>3, <1>4 DEF Answer

LEMMA CoherentServiceResult == ASSUME LifecycleInv, ServiceResult PROVE Coherent'
  <1>1. Idle /\ UNCHANGED shuttingDown /\ UNCHANGED pairWait
    BY DEF ServiceResult
  <1>2. CASE ApplyNothing /\ UNCHANGED <<conversation, renewalVars, rtcVars, ownerVars>>
    BY <1>1, <1>2, Names DEF ApplyNothing
  <1>3. CASE /\ ApplyBound(Head(results)) /\ phase = "awaiting_claim"
             /\ UNCHANGED <<conversation, renewalVars, rtcVars, ownerVars>>
    BY <1>1, <1>3, Names DEF ApplyBound, SetPhase
  <1>4. CASE /\ ApplyPairingOver /\ phase = "awaiting_claim"
             /\ UNCHANGED <<conversation, renewalVars, rtcVars, ownerVars>>
    BY <1>1, <1>4, Names DEF ApplyPairingOver, SetPhase, Idle
  <1>5. CASE ApplyRefused /\ phase \in {"runtime", "in_conversation"}
    BY <1>1, <1>5, Names DEF ApplyRefused, ClearDeviceAuth, SetPhase, EndLocally, BeginEnd,
       ClearRenewal, Idle
  <1>6. QED
    BY <1>2, <1>3, <1>4, <1>5 DEF ServiceResult

LEMMA CoherentRequest == ASSUME LifecycleInv, Request PROVE Coherent'
  <1>1. CASE RequestPair
    BY <1>1, Names DEF RequestPair
  <1>2. CASE RequestStart
    BY <1>2, Names DEF RequestStart
  <1>3. CASE RequestStop
    BY <1>3, Names DEF RequestStop
  <1>4. QED
    BY <1>1, <1>2, <1>3 DEF Request

LEMMA CoherentExit == ASSUME LifecycleInv, Exit PROVE Coherent'
  BY DEF Exit

LEMMA CoherentShutdown == ASSUME LifecycleInv, Shutdown PROVE Coherent'
  BY Names DEF Shutdown, Idle, StopConversation, EndLocally, BeginEnd, ClearRenewal

LEMMA CoherentRtc == ASSUME LifecycleInv, Rtc PROVE Coherent'
  <1>1. CASE RtcCallback
    BY <1>1, Names DEF RtcCallback
  <1>2. CASE RtcEnded
    BY <1>2, Names DEF RtcEnded
  <1>3. CASE RtcTokenExpires
    BY <1>3, Names DEF RtcTokenExpires
  <1>4. QED
    BY <1>1, <1>2, <1>3 DEF Rtc

LEMMA CoherentNetwork == ASSUME LifecycleInv, Network PROVE Coherent'
  BY DEF Network, NetworkUp, NetworkDown, NetworkGeneration, NetworkLoss

LEMMA CoherentExecute == ASSUME LifecycleInv, Execute PROVE Coherent'
  BY DEF Execute

LEMMA CoherentReboot == ASSUME LifecycleInv, Reboot PROVE Coherent'
  BY Names DEF Reboot, Return

LEMMA CoherentInit == Init => Coherent
  BY DEF Init

LEMMA LifecycleInvNext == ASSUME LifecycleInv, [Next]_vars PROVE LifecycleInv'
  <1>1. TypeOK'
    BY TypeNext
  <1>2. CASE Next
    BY <1>1, <1>2, CoherentTick, CoherentEnding, CoherentStartPairing, CoherentAnswer,
       CoherentServiceResult, CoherentRequest, CoherentExit, CoherentShutdown, CoherentRtc,
       CoherentNetwork, CoherentExecute, CoherentReboot DEF Next, Running
  <1>3. CASE UNCHANGED vars
    BY <1>1, <1>3 DEF vars
  <1>4. QED
    BY <1>2, <1>3

HIDE DEF LifecycleInv, Coherent, OwnerKnowsPhase, RtcKnowsConversation, PairingComes,
         DurableBinding, RtcMatchesConversation, MailboxEmptyOutsideConversation, RenewalBelongs

LEMMA LifecycleInvariant == Spec => []LifecycleInv
  <1>1. Init => LifecycleInv
    BY TypeInit, CoherentInit DEF LifecycleInv
  <1>2. LifecycleInv /\ [Next]_vars => LifecycleInv'
    BY LifecycleInvNext
  <1>3. QED
    BY <1>1, <1>2, PTL DEF Spec

\* In runtime or in a conversation the device acts with the credential that a
\* reboot would restore: persist_device_token() comes before the state change,
\* and a credential is never dropped while a conversation is shown.
THEOREM BindingIsDurable == Spec => []DurableBinding
  <1>1. LifecycleInv => DurableBinding
    BY DEF LifecycleInv, Coherent
  <1>2. QED
    BY <1>1, LifecycleInvariant, PTL

\* RTC is joined to the active conversation or to none, and has left before any
\* other state is shown, however the end was caused.
THEOREM RtcFollowsConversation == Spec => []RtcMatchesConversation
  <1>1. LifecycleInv => RtcMatchesConversation
    BY DEF LifecycleInv, Coherent
  <1>2. QED
    BY <1>1, LifecycleInvariant, PTL

\* A stop left by the RTC queue or by the user never meets the next conversation.
THEOREM StopNeverOutlivesConversation == Spec => []MailboxEmptyOutsideConversation
  <1>1. LifecycleInv => MailboxEmptyOutsideConversation
    BY DEF LifecycleInv, Coherent
  <1>2. QED
    BY <1>1, LifecycleInvariant, PTL

\* A renewal asked for in one conversation is never made for the next.
THEOREM RenewalStaysInConversation == Spec => []RenewalBelongs
  <1>1. LifecycleInv => RenewalBelongs
    BY DEF LifecycleInv, Coherent
  <1>2. QED
    BY <1>1, LifecycleInvariant, PTL

\* So no call, stop request or renewal of one conversation reaches another.
THEOREM ConversationsStayApart == Spec => []ConversationClean
  BY RtcFollowsConversation, StopNeverOutlivesConversation, RenewalStaysInConversation, PTL
     DEF ConversationClean

\* Between two queue items an unpaired device has a pairing request or a retry
\* in store, and the transient pairing state is never left standing.
THEOREM PairingAlwaysAhead == Spec => []NeverStranded
  <1>1. LifecycleInv => NeverStranded
    BY DEF LifecycleInv, Coherent, OwnerKnowsPhase, PairingComes, NeverStranded, Idle
  <1>2. QED
    BY <1>1, LifecycleInvariant, PTL

-----------------------------------------------------------------------------
(* The lifecycle implements DeviceBinding.  Five actions bind, talk, hang   *)
(* up or release; a reboot is a loss of power; nothing else is seen.        *)

Bound == IF phase \in {"runtime", "in_conversation"} THEN token ELSE None

\* What DeviceBinding sees does not change.
Unseen ==
  /\ UNCHANGED <<kv, rtc>>
  /\ Bound' = Bound
  /\ (phase = "in_conversation")' = (phase = "in_conversation")

LEMMA UnseenStutters == Unseen => UNCHANGED Abstract!bindingVars
  BY DEF Unseen, Bound, Abstract!bindingVars

LEMMA TickUnseen == ASSUME LifecycleInv, Tick PROVE Unseen
  BY DEF Tick, TickLoss, TickBegin, TickOffline, TickPairing, TickUnprovisioned, TickPoll,
     TickStart, TickStop, TickRenewal, EndLocally, StopConversation, BeginEnd, SetPhase,
     Unseen, Bound

LEMMA OthersUnseen ==
  ASSUME LifecycleInv, Request \/ Exit \/ Shutdown \/ Rtc \/ Network \/ Execute
  PROVE  Unseen
  BY DEF Request, RequestPair, RequestStart, RequestStop, Exit, Shutdown, EndLocally,
     StopConversation, BeginEnd, Rtc, RtcCallback, RtcEnded, RtcTokenExpires, Network,
     NetworkUp, NetworkDown, NetworkGeneration, NetworkLoss, Execute, Unseen, Bound

\* A credential is cleared only while RTC is not joined.
LEMMA ClearReleases ==
  ASSUME NEW pending, NEW p \in {"unprovisioned", "pairing"},
         ClearDeviceAuth(pending), SetPhase(p), rtc = None, rtc' = None
  PROVE  Abstract!Release
  BY DEF ClearDeviceAuth, SetPhase, Abstract!Release

LEMMA EndingImplements ==
  ASSUME LifecycleInv, Ending PROVE [Abstract!BindingNext]_(Abstract!bindingVars)
  <1>1. CASE LeaveRtc
    <2>1. Abstract!Disconnect
      BY <1>1 DEF LeaveRtc, Abstract!Disconnect
    <2>2. QED
      BY <2>1 DEF Abstract!BindingNext
  <1>2. CASE FinishEnd
    <2>1. phase = "in_conversation" /\ rtc = None /\ rtc' = None
      BY <1>2 DEF FinishEnd, LifecycleInv, Coherent, OwnerKnowsPhase
    <2>2. CASE after = "invalidate"
      <3>1. Abstract!Release
        BY <1>2, <2>1, <2>2, ClearReleases DEF FinishEnd, InvalidateBinding
      <3>2. QED
        BY <3>1 DEF Abstract!BindingNext
    <2>3. CASE after # "invalidate"
      <3>1. Abstract!Finish
        BY <1>2, <2>1, <2>3 DEF FinishEnd, SetPhase, Abstract!Finish
      <3>2. QED
        BY <3>1 DEF Abstract!BindingNext
    <2>4. QED
      BY <2>2, <2>3
  <1>3. CASE NotifyStop
    BY <1>3, UnseenStutters DEF NotifyStop, Unseen, Bound
  <1>4. QED
    BY <1>1, <1>2, <1>3 DEF Ending

LEMMA StartPairingImplements ==
  ASSUME LifecycleInv, StartPairing PROVE [Abstract!BindingNext]_(Abstract!bindingVars)
  <1>1. rtc = None /\ rtc' = None
    BY DEF StartPairing, LifecycleInv, Coherent, OwnerKnowsPhase, RtcMatchesConversation
  <1>2. Abstract!Release
    BY <1>1, ClearReleases DEF StartPairing
  <1>3. QED
    BY <1>2 DEF Abstract!BindingNext

LEMMA AnswerImplements ==
  ASSUME LifecycleInv, Answer PROVE [Abstract!BindingNext]_(Abstract!bindingVars)
  <1>1. CASE PairGate \/ PairAnswer
    <2>1. phase = "pairing"
      BY <1>1 DEF PairGate, PairAnswer, LifecycleInv, Coherent, OwnerKnowsPhase
    <2>2. Unseen
      BY <1>1, <2>1 DEF PairGate, PairAnswer, PairAnswerStale, PairAnswerFailed, PairAnswerOk,
         SetPhase, Unseen, Bound
    <2>3. QED
      BY <2>2, UnseenStutters
  <1>2. CASE StartAnswer
    <2>1. phase = "runtime" /\ token # None /\ rtc = None
      BY <1>2 DEF StartAnswer, LifecycleInv, Coherent, OwnerKnowsPhase, DurableBinding,
         RtcMatchesConversation
    <2>2. CASE StartRejected
      <3>1. Abstract!Release
        BY <2>1, <2>2, ClearReleases DEF StartRejected, InvalidateBinding
      <3>2. QED
        BY <3>1 DEF Abstract!BindingNext
    <2>3. CASE \E c \in Conversations : StartAccepted(c)
      <3>1. Abstract!Begin
        BY <2>1, <2>3 DEF StartAccepted, JoinRtc, Abstract!Begin
      <3>2. QED
        BY <3>1 DEF Abstract!BindingNext
    <2>4. CASE UNCHANGED <<phase, bindingVars, rtcVars>>
      BY <2>4, UnseenStutters DEF Unseen, Bound
    <2>5. QED
      BY <1>2, <2>2, <2>3, <2>4 DEF StartAnswer
  <1>3. CASE RenewAnswer
    <2>1. Unseen
      BY <1>3 DEF RenewAnswer, EndLocally, StopConversation, BeginEnd, Unseen, Bound
    <2>2. QED
      BY <2>1, UnseenStutters
  <1>4. QED
    BY <1>1, <1>2, <1>3 DEF Answer

LEMMA ServiceResultImplements ==
  ASSUME LifecycleInv, ServiceResult PROVE [Abstract!BindingNext]_(Abstract!bindingVars)
  <1> DEFINE r == Head(results)
  <1>1. token \in Tokens \cup {None} /\ r.credential \in Tokens \cup {None}
    <2>1. r \in Requests
      BY HeadTailProperties DEF ServiceResult, LifecycleInv, TypeOK
    <2>2. QED
      BY <2>1 DEF Requests, LifecycleInv, TypeOK, MaybeToken
  <1>2. CASE ApplyNothing /\ UNCHANGED rtcVars
    BY <1>2, UnseenStutters DEF ApplyNothing, Unseen, Bound
  <1>3. CASE ApplyBound(r) /\ phase = "awaiting_claim" /\ UNCHANGED rtcVars
    <2>1. CASE UNCHANGED <<kv, phase>>
      BY <1>3, <2>1, UnseenStutters DEF Unseen, Bound
    <2>2. CASE token' # None /\ kv' = token' /\ SetPhase("runtime")
      <3>1. token' \in Tokens
        BY <1>1, <1>3, <2>2 DEF ApplyBound
      <3>2. Abstract!Bind(token')
        BY <1>3, <2>2 DEF SetPhase, Abstract!Bind
      <3>3. QED
        BY <3>1, <3>2 DEF Abstract!BindingNext
    <2>3. QED
      BY <1>3, <2>1, <2>2 DEF ApplyBound
  <1>4. CASE ApplyPairingOver /\ phase = "awaiting_claim" /\ UNCHANGED rtcVars
    BY <1>4, UnseenStutters DEF ApplyPairingOver, SetPhase, Unseen, Bound
  <1>5. CASE ApplyRefused /\ phase = "in_conversation"
    BY <1>5, UnseenStutters DEF ApplyRefused, EndLocally, BeginEnd, Unseen, Bound
  <1>6. CASE ApplyRefused /\ phase = "runtime"
    <2>1. rtc = None /\ rtc' = None
      BY <1>6 DEF ApplyRefused, LifecycleInv, Coherent, RtcMatchesConversation
    <2>2. Abstract!Release
      BY <1>6, <2>1, ClearReleases DEF ApplyRefused
    <2>3. QED
      BY <2>2 DEF Abstract!BindingNext
  <1>7. QED
    BY <1>2, <1>3, <1>4, <1>5, <1>6 DEF ServiceResult

LEMMA RebootImplements ==
  ASSUME LifecycleInv, Reboot PROVE [Abstract!BindingNext]_(Abstract!bindingVars)
  <1>1. Abstract!LosePower
    BY DEF Reboot, Abstract!LosePower
  <1>2. QED
    BY <1>1 DEF Abstract!BindingNext

\* Whatever its threads, queues and retries do, the device is seen to bind,
\* talk, hang up, release and restart only as DeviceBinding allows.
THEOREM LifecycleImplementsBinding == Spec => BindingSpec
  <1>1. Init => Abstract!BindingInit
    BY DEF Init, Abstract!BindingInit
  <1>2. LifecycleInv /\ [Next]_vars => [Abstract!BindingNext]_(Abstract!bindingVars)
    <2>1. ASSUME LifecycleInv, Next PROVE [Abstract!BindingNext]_(Abstract!bindingVars)
      BY <2>1, TickUnseen, OthersUnseen, UnseenStutters, EndingImplements, StartPairingImplements,
         AnswerImplements, ServiceResultImplements, RebootImplements DEF Next, Running
    <2>2. ASSUME UNCHANGED vars PROVE UNCHANGED Abstract!bindingVars
      BY <2>2 DEF vars, Abstract!bindingVars
    <2>3. QED
      BY <2>1, <2>2
  <1>3. QED
    BY <1>1, <1>2, LifecycleInvariant, PTL DEF Spec, BindingSpec, Abstract!BindingSpec
-----------------------------------------------------------------------------
(* The lifecycle shows the application only steps of LifecycleSurface.      *)

\* The writes of set_network_available(false) are under way only after the first.
NetworkThreadKnows == netPc # "idle" => ~available

LEMMA NetworkThreadInvariant == Spec => []NetworkThreadKnows
  <1>1. Init => NetworkThreadKnows
    BY DEF Init, NetworkThreadKnows
  <1>2. NetworkThreadKnows /\ [Next]_vars => NetworkThreadKnows'
    BY DEF NetworkThreadKnows, Next, Running, Tick, TickLoss, TickBegin, TickOffline, TickPairing,
       TickUnprovisioned, TickPoll, TickStart, TickStop, TickRenewal, StartPairing, Ending,
       LeaveRtc, FinishEnd, NotifyStop, Answer, PairGate, PairAnswer, StartAnswer, RenewAnswer,
       ServiceResult, Request, RequestPair, RequestStart, RequestStop, Exit, Shutdown, Rtc,
       RtcCallback, RtcEnded, RtcTokenExpires, Network, NetworkUp, NetworkDown,
       NetworkGeneration, NetworkLoss, Execute, Reboot, vars
  <1>3. QED
    BY <1>1, <1>2, PTL DEF Spec

\* What the surface shows of the lifecycle's own state.
Life == IF phase \in {"runtime", "in_conversation"} THEN phase ELSE "unclaimed"

Seen == <<Life, available, lossPending \/ netPc # "idle", conversationRequested,
          stopRequest # "none", SurfaceOwner, pc = "startAnswer" /\ snap /\ netPc # "generation">>

LEMMA SeenIsSurface == (UNCHANGED Seen) <=> UNCHANGED Surface!surfaceVars
  BY DEF Seen, Life, Surface!surfaceVars

KnownOwner == LifecycleInv /\ NetworkThreadKnows

LEMMA KnownPhase ==
  ASSUME KnownOwner
  PROVE  /\ phase \in Phases /\ pc \in Positions /\ snap \in BOOLEAN
         /\ available \in BOOLEAN /\ lossPending \in BOOLEAN /\ conversationRequested \in BOOLEAN
         /\ OwnerKnowsPhase
         /\ phase # "in_conversation" => stopRequest = "none"
         /\ netPc # "idle" => ~available
  BY DEF KnownOwner, LifecycleInv, Coherent, TypeOK, MailboxEmptyOutsideConversation,
     NetworkThreadKnows

USE DEF Surface!Talking, Surface!SetLife, Surface!Lives

LEMMA TickSurfaces ==
  ASSUME KnownOwner, Tick PROVE Surface!SurfaceNext \/ UNCHANGED Seen
  <1> USE KnownPhase DEF OwnerKnowsPhase, Phases, Positions
  <1>1. CASE TickLoss
    <2>1. Surface!ConsumesLoss
      BY <1>1 DEF TickLoss, Idle, EndLocally, BeginEnd, Surface!ConsumesLoss, SurfaceOwner
    <2>2. QED
      BY <2>1 DEF Surface!SurfaceNext
  <1>2. CASE TickBegin
    <2>1. Surface!BeginsTick
      BY <1>2 DEF TickBegin, Idle, Surface!BeginsTick, SurfaceOwner
    <2>2. QED
      BY <2>1 DEF Surface!SurfaceNext
  <1>3. CASE TickOffline
    <2>1. Surface!TicksOffline
      BY <1>3 DEF TickOffline, Return, Surface!TicksOffline, SurfaceOwner
    <2>2. QED
      BY <2>1 DEF Surface!SurfaceNext
  <1>4. CASE TickPairing
    <2>1. CASE phase = "in_conversation"
      <3>1. Surface!BeginsEnding
        BY <1>4, <2>1 DEF TickPairing, StopConversation, BeginEnd, Surface!BeginsEnding, SurfaceOwner
      <3>2. QED
        BY <3>1 DEF Surface!SurfaceNext
    <2>2. CASE phase # "in_conversation"
      <3>1. Surface!Works
        BY <1>4, <2>2 DEF TickPairing, Surface!Works, SurfaceOwner
      <3>2. QED
        BY <3>1 DEF Surface!SurfaceNext
    <2>3. QED
      BY <2>1, <2>2
  <1>5. CASE TickUnprovisioned
    <2>1. Surface!Works
      BY <1>5 DEF TickUnprovisioned, SetPhase, Return, Surface!Works, SurfaceOwner
    <2>2. QED
      BY <2>1 DEF Surface!SurfaceNext
  <1>6. CASE TickPoll
    <2>1. Surface!Works
      BY <1>6 DEF TickPoll, Return, Surface!Works, SurfaceOwner
    <2>2. QED
      BY <2>1 DEF Surface!SurfaceNext
  <1>7. CASE TickStart
    <2>1. Surface!SendsStart
      BY <1>7 DEF TickStart, Surface!SendsStart, SurfaceOwner
    <2>2. QED
      BY <2>1 DEF Surface!SurfaceNext
  <1>8. CASE TickStop
    <2>1. Surface!BeginsEnding
      BY <1>8 DEF TickStop, StopConversation, BeginEnd, Surface!BeginsEnding, SurfaceOwner
    <2>2. QED
      BY <2>1 DEF Surface!SurfaceNext
  <1>9. CASE TickRenewal
    <2>1. pc' = "renewAnswer" \/ pc' = "idle"
      BY <1>9 DEF TickRenewal, Return
    <2>2. Surface!Works
      BY <1>9, <2>1 DEF TickRenewal, Surface!Works, SurfaceOwner
    <2>3. QED
      BY <2>2 DEF Surface!SurfaceNext
  <1>10. QED
    BY <1>1, <1>2, <1>3, <1>4, <1>5, <1>6, <1>7, <1>8, <1>9 DEF Tick

LEMMA EndingSurfaces ==
  ASSUME KnownOwner, Ending PROVE Surface!SurfaceNext \/ UNCHANGED Seen
  <1> USE KnownPhase DEF OwnerKnowsPhase, Phases, Positions
  <1>1. CASE LeaveRtc
    <2>1. Surface!AsksStop \/ UNCHANGED Seen
      BY <1>1 DEF LeaveRtc, Surface!AsksStop, SurfaceOwner, Seen, Life
    <2>2. QED
      BY <2>1 DEF Surface!SurfaceNext
  <1>2. CASE FinishEnd
    <2>1. pc' \in {"notify", "idle"} /\ phase' \in {"runtime", "unprovisioned"}
          /\ stopRequest' = "none"
      BY <1>2 DEF FinishEnd, InvalidateBinding, SetPhase, Return
    <2>2. Surface!Ends
      BY <1>2, <2>1 DEF FinishEnd, Surface!Ends, SurfaceOwner
    <2>3. QED
      BY <2>2 DEF Surface!SurfaceNext
  <1>3. CASE NotifyStop
    <2>1. Surface!Works
      BY <1>3 DEF NotifyStop, Return, Surface!Works, SurfaceOwner
    <2>2. QED
      BY <2>1 DEF Surface!SurfaceNext
  <1>4. QED
    BY <1>1, <1>2, <1>3 DEF Ending

LEMMA AnswerSurfaces ==
  ASSUME KnownOwner, Answer \/ StartPairing PROVE Surface!SurfaceNext \/ UNCHANGED Seen
  <1> USE KnownPhase DEF OwnerKnowsPhase, Phases, Positions
  <1>1. CASE StartPairing
    <2>1. Surface!Works
      BY <1>1 DEF StartPairing, SetPhase, Surface!Works, SurfaceOwner
    <2>2. QED
      BY <2>1 DEF Surface!SurfaceNext
  <1>2. CASE PairGate
    <2>1. Surface!Works
      BY <1>2 DEF PairGate, SetPhase, Return, Surface!Works, SurfaceOwner
    <2>2. QED
      BY <2>1 DEF Surface!SurfaceNext
  <1>3. CASE PairAnswer
    <2>1. Surface!Works
      BY <1>3 DEF PairAnswer, PairAnswerFailed, PairAnswerOk, PairAnswerStale, SetPhase, Return,
         Surface!Works, SurfaceOwner
    <2>2. QED
      BY <2>1 DEF Surface!SurfaceNext
  <1>4. CASE StartAnswer
    <2>1. pc = "startAnswer" /\ pc' = "idle"
          /\ UNCHANGED <<available, lossPending, netPc, conversationRequested>>
      BY <1>4 DEF StartAnswer, Return
    <2>2. CASE \E c \in Conversations : NetworkIsCurrent(snap) /\ StartAccepted(c)
      <3>1. Surface!StartAccepted
        BY <2>1, <2>2 DEF NetworkIsCurrent, StartAccepted, JoinRtc, Surface!StartAccepted,
           SurfaceOwner
      <3>2. QED
        BY <3>1 DEF Surface!SurfaceNext
    <2>3. CASE StartRejected \/ UNCHANGED <<phase, stopRequest>>
      <3>1. Surface!StartRefused
        BY <2>1, <2>3 DEF StartRejected, InvalidateBinding, SetPhase, Surface!StartRefused,
           SurfaceOwner
      <3>2. QED
        BY <3>1 DEF Surface!SurfaceNext
    <2>4. QED
      BY <1>4, <2>2, <2>3 DEF StartAnswer
  <1>5. CASE RenewAnswer
    <2>1. CASE pc' = "leave"
      <3>1. Surface!BeginsEnding
        BY <1>5, <2>1 DEF RenewAnswer, EndLocally, StopConversation, BeginEnd, Return,
           Surface!BeginsEnding, SurfaceOwner
      <3>2. QED
        BY <3>1 DEF Surface!SurfaceNext
    <2>2. CASE pc' = "idle"
      <3>1. Surface!Works
        BY <1>5, <2>2 DEF RenewAnswer, EndLocally, StopConversation, BeginEnd, Return,
           Surface!Works, SurfaceOwner
      <3>2. QED
        BY <3>1 DEF Surface!SurfaceNext
    <2>3. QED
      BY <1>5, <2>1, <2>2 DEF RenewAnswer, EndLocally, StopConversation, BeginEnd, Return
  <1>6. QED
    BY <1>1, <1>2, <1>3, <1>4, <1>5 DEF Answer

LEMMA ServiceResultSurfaces ==
  ASSUME KnownOwner, ServiceResult PROVE Surface!SurfaceNext \/ UNCHANGED Seen
  <1> USE KnownPhase DEF OwnerKnowsPhase, Phases, Positions
  <1> DEFINE r == Head(results)
  <1>1. pc = "idle" /\ UNCHANGED <<conversationRequested, available, lossPending, netPc>>
    BY DEF ServiceResult, Idle
  <1>2. CASE ApplyNothing /\ UNCHANGED ownerVars
    BY <1>1, <1>2 DEF ApplyNothing, Seen, Life, SurfaceOwner
  <1>3. CASE /\ ResultIsCurrent(r) /\ phase = "awaiting_claim"
             /\ ApplyBound(r) \/ ApplyPairingOver
             /\ UNCHANGED ownerVars
    <2>1. available
      BY <1>3 DEF ResultIsCurrent, NetworkIsCurrent
    <2>2. Surface!Learns
      BY <1>1, <1>3, <2>1 DEF ApplyBound, ApplyPairingOver, SetPhase, Surface!Learns, SurfaceOwner
    <2>3. QED
      BY <2>2 DEF Surface!SurfaceNext
  <1>4. CASE ResultIsCurrent(r) /\ ApplyRefused /\ phase = "in_conversation"
    <2>1. Surface!BeginsEnding
      BY <1>1, <1>4 DEF ApplyRefused, EndLocally, BeginEnd, Surface!BeginsEnding, SurfaceOwner
    <2>2. QED
      BY <2>1 DEF Surface!SurfaceNext
  <1>5. CASE ResultIsCurrent(r) /\ ApplyRefused /\ phase = "runtime"
    <2>1. available
      BY <1>5 DEF ResultIsCurrent, NetworkIsCurrent
    <2>2. Surface!Learns
      BY <1>1, <1>5, <2>1 DEF ApplyRefused, SetPhase, Surface!Learns, SurfaceOwner
    <2>3. QED
      BY <2>2 DEF Surface!SurfaceNext
  <1>6. QED
    BY <1>2, <1>3, <1>4, <1>5 DEF ServiceResult

LEMMA OthersSurface ==
  ASSUME KnownOwner, Request \/ Exit \/ Shutdown \/ Rtc \/ Network \/ Execute
  PROVE  Surface!SurfaceNext \/ UNCHANGED Seen
  <1> USE KnownPhase DEF OwnerKnowsPhase, Phases, Positions
  <1>1. CASE RequestPair \/ Exit \/ Execute \/ RtcCallback \/ RtcTokenExpires
    BY <1>1 DEF RequestPair, Exit, Execute, RtcCallback, RtcTokenExpires, Seen, Life, SurfaceOwner
  <1>2. CASE RequestStart
    <2>1. Surface!AsksStart
      BY <1>2 DEF RequestStart, Idle, Surface!AsksStart, SurfaceOwner
    <2>2. QED
      BY <2>1 DEF Surface!SurfaceNext
  <1>3. CASE RequestStop
    <2>1. Surface!AsksStop
      BY <1>3 DEF RequestStop, Idle, Surface!AsksStop, SurfaceOwner
    <2>2. QED
      BY <2>1 DEF Surface!SurfaceNext
  <1>4. CASE RtcEnded
    <2>1. phase = "in_conversation"
      BY <1>4, Names DEF KnownOwner, LifecycleInv, Coherent, RtcKnowsConversation,
         RtcMatchesConversation, RtcEnded
    <2>2. Surface!AsksStop
      BY <1>4, <2>1 DEF RtcEnded, Surface!AsksStop, SurfaceOwner
    <2>3. QED
      BY <2>2 DEF Surface!SurfaceNext
  <1>5. CASE Shutdown
    <2>1. Surface!ShutsDown
      BY <1>5 DEF Shutdown, Idle, StopConversation, EndLocally, BeginEnd, Surface!ShutsDown,
         SurfaceOwner
    <2>2. QED
      BY <2>1 DEF Surface!SurfaceNext
  <1>6. CASE NetworkUp
    <2>1. Surface!GoesOnline
      BY <1>6 DEF NetworkUp, Surface!GoesOnline, SurfaceOwner
    <2>2. QED
      BY <2>1 DEF Surface!SurfaceNext
  <1>7. CASE NetworkDown
    <2>1. Surface!GoesOffline
      BY <1>7 DEF NetworkDown, Surface!GoesOffline, SurfaceOwner
    <2>2. QED
      BY <2>1 DEF Surface!SurfaceNext
  <1>8. CASE NetworkGeneration \/ NetworkLoss
    BY <1>8 DEF NetworkGeneration, NetworkLoss, Seen, Life, SurfaceOwner
  <1>9. QED
    BY <1>1, <1>2, <1>3, <1>4, <1>5, <1>6, <1>7, <1>8 DEF Request, Rtc, Network

LEMMA RebootSurfaces ==
  ASSUME KnownOwner, Reboot PROVE Surface!SurfaceNext
  <1>1. Surface!Restart
    BY DEF Reboot, Return, Surface!Restart, SurfaceOwner
  <1>2. QED
    BY <1>1 DEF Surface!SurfaceNext

\* The application, which is modelled over LifecycleSurface, meets nothing of
\* the lifecycle that LifecycleSurface does not allow.
THEOREM LifecycleImplementsSurface == Spec => SurfaceSpec
  <1>1. Init => Surface!SurfaceInit
    BY DEF Init, Surface!SurfaceInit, SurfaceOwner
  <1>2. LifecycleInv /\ NetworkThreadKnows /\ [Next]_vars
        => [Surface!SurfaceNext]_(Surface!surfaceVars)
    <2>1. ASSUME KnownOwner, Next PROVE Surface!SurfaceNext \/ UNCHANGED Seen
      BY <2>1, TickSurfaces, EndingSurfaces, AnswerSurfaces, ServiceResultSurfaces,
         OthersSurface, RebootSurfaces DEF Next, Running
    <2>2. ASSUME UNCHANGED vars PROVE UNCHANGED Seen
      BY <2>2 DEF vars, Seen, Life, SurfaceOwner
    <2>3. QED
      BY <2>1, <2>2, SeenIsSurface DEF KnownOwner
  <1>3. QED
    BY <1>1, <1>2, LifecycleInvariant, NetworkThreadInvariant, PTL
       DEF Spec, SurfaceSpec, Surface!SurfaceSpec

-----------------------------------------------------------------------------
(* What is kept in the two queues, the service worker's requests and the    *)
(* results on their way back: whatever the device does, their content stays *)
(* in step with the binding and the conversation.                           *)

\* The variable groups are only abbreviations for UNCHANGED.
USE DEF retryVars, renewalVars, bindingVars, queueVars, flagVars, networkVars, rtcVars,
        ownerVars

-----------------------------------------------------------------------------
(* What a step does to the queues                                           *)

AsksPoll(type) ==
  /\ pollPending = FALSE /\ pollPending' = TRUE
  /\ requests' = Append(requests, NewRequest(type, None))
  /\ UNCHANGED <<results, code, token, exiting>>

TellsStop ==
  /\ pc = "notify" /\ ending # None
  /\ requests' = Append(requests, NewRequest("STOP", ending))
  /\ UNCHANGED <<results, pollPending, code, token, exiting, conversation, rtc>>

\* A result is taken; a credential that came with it makes the others stale.
TakesResult ==
  /\ results # <<>> /\ exiting = FALSE
  /\ pollPending' = (pollPending /\ Head(results).type = "STOP")
  /\ \/ requests' = requests /\ results' = Tail(results)
     \/ requests' = Unbound(requests) /\ results' = Unbound(Tail(results))
  /\ UNCHANGED <<code, exiting>>

WorksOnRequest ==
  /\ requests # <<>>
  /\ requests' = Tail(requests)
  /\ \/ results' = Append(results, [Head(requests) EXCEPT !.conversation = None]) /\ UNCHANGED exiting
     \/ results' = results /\ exiting' = TRUE
  /\ UNCHANGED <<pollPending, code, token, conversation, rtc>>

KeepsRequests ==
  /\ \/ requests' = requests /\ results' = results /\ code' = code
     \/ requests' = Unbound(requests) /\ results' = Unbound(results)
     \/ requests' = CutOff(requests) /\ results' = CutOff(results) /\ code' = code
  /\ UNCHANGED pollPending
  /\ exiting' \in {exiting, TRUE}

StartsOver ==
  /\ requests' = <<>> /\ results' = <<>> /\ code' = None
  /\ pollPending' = FALSE /\ exiting' = FALSE

QueueStep ==
  \/ KeepsRequests
  \/ AsksPoll("PAIR_POLL") \/ AsksPoll("DEVICE_POLL")
  \/ TellsStop \/ TakesResult \/ WorksOnRequest \/ StartsOver

LEMMA PollSteps ==
  ASSUME TypeOK, NEW type, Poll(type), UNCHANGED <<results, code, token, exiting>>
  PROVE  KeepsRequests \/ AsksPoll(type)
<1>1. CASE UNCHANGED <<pollPending, requests>>
  BY <1>1 DEF KeepsRequests
<1>2. CASE ~pollPending /\ pollPending' = TRUE /\ Submit(NewRequest(type, None))
  <2>1. pollPending = FALSE
    BY <1>2 DEF TypeOK
  <2> QED
    BY <1>2, <2>1 DEF Submit, AsksPoll
<1> QED
  BY <1>1, <1>2 DEF Poll

LEMMA QueueTick == ASSUME TypeOK, Tick PROVE QueueStep
<1>1. CASE TickPoll
  <2>1. \E type \in {"PAIR_POLL", "DEVICE_POLL"} : Poll(type)
    BY <1>1 DEF TickPoll
  <2>2. UNCHANGED <<results, code, token, exiting>>
    BY <1>1 DEF TickPoll
  <2> QED
    BY <2>1, <2>2, PollSteps DEF QueueStep
<1>2. CASE TickRenewal
  <2>1. UNCHANGED <<pollPending, requests>> \/ Poll("DEVICE_POLL")
    BY <1>2 DEF TickRenewal
  <2>2. UNCHANGED <<results, code, token, exiting>>
    BY <1>2 DEF TickRenewal
  <2> QED
    BY <2>1, <2>2, PollSteps DEF QueueStep, KeepsRequests
<1>3. CASE TickLoss \/ TickBegin \/ TickOffline \/ TickUnprovisioned \/ TickStart
  BY <1>3 DEF QueueStep, KeepsRequests, TickLoss, TickBegin, TickOffline, TickUnprovisioned, TickStart
<1>4. CASE TickPairing \/ TickStop
  BY <1>4 DEF QueueStep, KeepsRequests, TickPairing, TickStop, StopConversation
<1> QED
  BY <1>1, <1>2, <1>3, <1>4 DEF Tick

LEMMA QueueEnding == ASSUME LifecycleInv, Ending PROVE QueueStep
<1>1. CASE LeaveRtc
  BY <1>1 DEF LeaveRtc, QueueStep, KeepsRequests
<1>2. CASE FinishEnd
  BY <1>2 DEF FinishEnd, InvalidateBinding, ClearDeviceAuth, QueueStep, KeepsRequests
<1>3. CASE NotifyStop
  BY <1>3 DEF NotifyStop, Submit, QueueStep, KeepsRequests, TellsStop
<1> QED
  BY <1>1, <1>2, <1>3 DEF Ending

LEMMA QueueAnswer == ASSUME TypeOK, Answer PROVE QueueStep
<1>1. CASE PairGate
  BY <1>1 DEF PairGate, QueueStep, KeepsRequests
<1>2. CASE PairAnswer
  BY <1>2 DEF PairAnswer, PairAnswerFailed, PairAnswerStale, PairAnswerOk, QueueStep, KeepsRequests
<1>3. CASE StartAnswer
  BY <1>3 DEF StartAnswer, StartRejected, InvalidateBinding, ClearDeviceAuth, StartAccepted, QueueStep, KeepsRequests
<1>4. CASE RenewAnswer
  BY <1>4 DEF RenewAnswer, StopConversation, QueueStep, KeepsRequests
<1> QED
  BY <1>1, <1>2, <1>3, <1>4 DEF Answer

LEMMA QueueResult == ASSUME TypeOK, ServiceResult PROVE TakesResult
<1>1. results # <<>> /\ exiting = FALSE /\ exiting' = exiting
  BY DEF ServiceResult, TypeOK
<1>2. pollPending' = (pollPending /\ Head(results).type = "STOP")
  BY DEF ServiceResult, PollReturned
<1>3. /\ code' = code
      /\ \/ requests' = requests /\ results' = Tail(results)
         \/ requests' = Unbound(requests) /\ results' = Unbound(Tail(results))
  BY DEF ServiceResult, ApplyNothing, ApplyBound, ApplyPairingOver, ApplyRefused, ClearDeviceAuth
<1> QED
  BY <1>1, <1>2, <1>3 DEF TakesResult

LEMMA QueueSteps == ASSUME LifecycleInv, [Next]_vars PROVE QueueStep
<1>1. TypeOK
  BY DEF LifecycleInv
<1>2. CASE Tick \/ Ending \/ Answer \/ ServiceResult
  BY <1>1, <1>2, QueueTick, QueueEnding, QueueAnswer, QueueResult DEF QueueStep
<1>3. CASE StartPairing \/ Network
  BY <1>3 DEF StartPairing, ClearDeviceAuth, Network, NetworkUp, NetworkDown, NetworkGeneration, NetworkLoss,
              QueueStep, KeepsRequests
<1>4. CASE Request \/ Exit \/ Rtc
  BY <1>4 DEF Request, RequestPair, RequestStart, RequestStop, Exit, Rtc, RtcCallback, RtcEnded, RtcTokenExpires,
              QueueStep, KeepsRequests
<1>5. CASE Shutdown
  BY <1>5 DEF Shutdown, StopConversation, QueueStep, KeepsRequests
<1>6. CASE Execute
  BY <1>6 DEF Execute, QueueStep, WorksOnRequest
<1>7. CASE Reboot
  BY <1>7 DEF Reboot, QueueStep, StartsOver
<1>8. CASE UNCHANGED vars
  BY <1>8 DEF vars, QueueStep, KeepsRequests
<1> QED
  BY <1>2, <1>3, <1>4, <1>5, <1>6, <1>7, <1>8 DEF Next, Running

-----------------------------------------------------------------------------
(* What the operations on a queue keep                                      *)

LEMMA UnboundItems ==
  ASSUME NEW s \in Seq(Requests)
  PROVE  /\ Unbound(s) \in Seq(Requests) /\ Len(Unbound(s)) = Len(s)
         /\ \A i \in 1..Len(s) : /\ Unbound(s)[i].type = s[i].type
                                 /\ Unbound(s)[i].credential = s[i].credential
                                 /\ Unbound(s)[i].conversation = s[i].conversation
                                 /\ Unbound(s)[i].binding = FALSE
<1>1. \A i \in 1..Len(s) : s[i] \in Requests
  BY ElementOfSeq
<1>2. \A i \in 1..Len(s) : Unbound(s)[i] = [s[i] EXCEPT !.binding = FALSE]
  BY DEF Unbound
<1> QED
  BY <1>1, <1>2, UnboundType DEF Requests

LEMMA CutOffItems ==
  ASSUME NEW s \in Seq(Requests)
  PROVE  /\ CutOff(s) \in Seq(Requests) /\ Len(CutOff(s)) = Len(s)
         /\ \A i \in 1..Len(s) : /\ CutOff(s)[i].type = s[i].type
                                 /\ CutOff(s)[i].credential = s[i].credential
                                 /\ CutOff(s)[i].conversation = s[i].conversation
                                 /\ CutOff(s)[i].binding = s[i].binding
<1>1. \A i \in 1..Len(s) : s[i] \in Requests
  BY ElementOfSeq
<1>2. \A i \in 1..Len(s) : CutOff(s)[i] = [s[i] EXCEPT !.network = FALSE]
  BY DEF CutOff
<1> QED
  BY <1>1, <1>2, CutOffType DEF Requests

LEMMA TailItems ==
  ASSUME NEW s \in Seq(Requests), s # <<>>
  PROVE  /\ Tail(s) \in Seq(Requests) /\ Len(s) \in Nat /\ Len(s) >= 1
         /\ Len(Tail(s)) = Len(s) - 1 /\ Head(s) = s[1] /\ Head(s) \in Requests
         /\ \A i \in 1..Len(Tail(s)) : Tail(s)[i] = s[i + 1]
  BY HeadTailProperties, LenProperties, EmptySeq

LEMMA AppendItems ==
  ASSUME NEW s \in Seq(Requests), NEW r \in Requests
  PROVE  /\ Append(s, r) \in Seq(Requests) /\ Len(s) \in Nat /\ Len(Append(s, r)) = Len(s) + 1
         /\ Append(s, r)[Len(s) + 1] = r
         /\ \A i \in 1..Len(s) : Append(s, r)[i] = s[i]
  BY AppendProperties, LenProperties

-----------------------------------------------------------------------------
(* Polls and the credential.  A poll for the pairing code, and its result,   *)
(* either name the code shown now or have been made stale by a new binding.  *)

Fresh(s, c) == \A i \in 1..Len(s) : s[i].type = "PAIR_POLL" /\ s[i].binding = TRUE => s[i].credential = c
CodeInv == Fresh(requests, code) /\ Fresh(results, code) /\ BindingMatchesCode

LEMMA FreshUnbound == ASSUME NEW s \in Seq(Requests), NEW c PROVE Fresh(Unbound(s), c)
  BY UnboundItems DEF Fresh

LEMMA FreshCutOff == ASSUME NEW s \in Seq(Requests), NEW c, Fresh(s, c) PROVE Fresh(CutOff(s), c)
  BY CutOffItems DEF Fresh

LEMMA FreshTail == ASSUME NEW s \in Seq(Requests), NEW c, s # <<>>, Fresh(s, c) PROVE Fresh(Tail(s), c)
<1> SUFFICES ASSUME NEW i \in 1..Len(Tail(s)), Tail(s)[i].type = "PAIR_POLL", Tail(s)[i].binding = TRUE
             PROVE  Tail(s)[i].credential = c
  BY DEF Fresh
<1>1. i + 1 \in 1..Len(s) /\ Tail(s)[i] = s[i + 1]
  BY TailItems
<1> QED
  BY <1>1 DEF Fresh

LEMMA FreshAppend ==
  ASSUME NEW s \in Seq(Requests), NEW r \in Requests, NEW c, Fresh(s, c),
         r.type = "PAIR_POLL" /\ r.binding = TRUE => r.credential = c
  PROVE  Fresh(Append(s, r), c)
<1> SUFFICES ASSUME NEW i \in 1..Len(Append(s, r)), Append(s, r)[i].type = "PAIR_POLL", Append(s, r)[i].binding = TRUE
             PROVE  Append(s, r)[i].credential = c
  BY DEF Fresh
<1>1. i \in 1..Len(s) \/ i = Len(s) + 1
  BY AppendItems
<1> QED
  BY <1>1, AppendItems DEF Fresh

LEMMA FreshQueues ==
  ASSUME LifecycleInv, Fresh(requests, code), Fresh(results, code), QueueStep
  PROVE  Fresh(requests', code') /\ Fresh(results', code')
<1>t. requests \in Seq(Requests) /\ results \in Seq(Requests) /\ ending \in MaybeConversation
  BY DEF LifecycleInv, TypeOK
<1>1. CASE KeepsRequests
  BY <1>1, <1>t, FreshUnbound, FreshCutOff DEF KeepsRequests
<1>2. ASSUME NEW type \in {"PAIR_POLL", "DEVICE_POLL"}, AsksPoll(type)
      PROVE  Fresh(requests', code') /\ Fresh(results', code')
  <2>1. NewRequest(type, None) \in Requests
    BY NewRequestType, EmptyValues DEF LifecycleInv
  <2>2. NewRequest(type, None).type = "PAIR_POLL" => NewRequest(type, None).credential = code
    BY DEF NewRequest
  <2> QED
    BY <1>2, <1>t, <2>1, <2>2, FreshAppend DEF AsksPoll
<1>3. CASE TellsStop
  <2>1. NewRequest("STOP", ending) \in Requests
    BY <1>t, NewRequestType DEF LifecycleInv
  <2>2. NewRequest("STOP", ending).type # "PAIR_POLL"
    BY DEF NewRequest
  <2> QED
    BY <1>3, <1>t, <2>1, <2>2, FreshAppend DEF TellsStop
<1>4. CASE TakesResult
  BY <1>4, <1>t, TailItems, FreshTail, FreshUnbound DEF TakesResult
<1>5. CASE WorksOnRequest
  <2>1. Head(requests) \in Requests /\ Head(requests) = requests[1] /\ 1 \in 1..Len(requests)
    BY <1>5, <1>t, TailItems DEF WorksOnRequest
  <2> DEFINE answer == [Head(requests) EXCEPT !.conversation = None]
  <2>2. answer \in Requests
    BY <2>1 DEF Requests
  <2>3. answer.type = Head(requests).type /\ answer.binding = Head(requests).binding
        /\ answer.credential = Head(requests).credential
    BY <2>1 DEF Requests
  <2>4. answer.type = "PAIR_POLL" /\ answer.binding = TRUE => answer.credential = code
    BY <2>1, <2>3 DEF Fresh
  <2> HIDE DEF answer
  <2>5. Fresh(Append(results, answer), code)
    BY <1>t, <2>2, <2>4, FreshAppend
  <2>6. Fresh(Tail(requests), code)
    BY <1>5, <1>t, FreshTail DEF WorksOnRequest
  <2> QED
    BY <1>5, <2>5, <2>6 DEF WorksOnRequest, answer
<1>6. CASE StartsOver
  BY <1>6, EmptySeq DEF StartsOver, Fresh
<1> QED
  BY <1>1, <1>2, <1>3, <1>4, <1>5, <1>6 DEF QueueStep

\* The credential changes only to none, or to that of the poll being answered.
CredentialStep ==
  \/ token' = None
  \/ code' = None
  \/ token' = token /\ code' = code
  \/ /\ results # <<>> /\ token' = Head(results).credential /\ code' = code
     /\ Head(results).type = "PAIR_POLL" /\ Head(results).binding = TRUE

LEMMA CredentialSteps == ASSUME TypeOK, [Next]_vars PROVE CredentialStep
<1>1. CASE Tick
  BY <1>1 DEF CredentialStep, Tick, TickLoss, TickBegin, TickOffline, TickPairing, TickUnprovisioned, TickPoll,
              TickStart, TickStop, TickRenewal
<1>2. CASE Ending
  BY <1>2 DEF CredentialStep, Ending, LeaveRtc, FinishEnd, InvalidateBinding, ClearDeviceAuth, NotifyStop
<1>3. CASE Answer
  BY <1>3 DEF CredentialStep, Answer, PairGate, PairAnswer, PairAnswerFailed, PairAnswerStale, PairAnswerOk,
              StartAnswer, StartRejected, InvalidateBinding, ClearDeviceAuth, StartAccepted, RenewAnswer
<1>4. CASE ServiceResult
  <2>1. Head(results).binding \in BOOLEAN
    BY <1>4, TailItems DEF ServiceResult, TypeOK, Requests
  <2> QED
    BY <1>4, <2>1 DEF CredentialStep, ServiceResult, ApplyNothing, ApplyBound, ApplyPairingOver, ApplyRefused,
                      ClearDeviceAuth, ResultIsCurrent
<1>5. CASE StartPairing \/ Request \/ Exit \/ Rtc \/ Network
  BY <1>5 DEF CredentialStep, StartPairing, ClearDeviceAuth, Request, RequestPair, RequestStart, RequestStop, Exit,
              Rtc, RtcCallback, RtcEnded, RtcTokenExpires, Network, NetworkUp, NetworkDown, NetworkGeneration, NetworkLoss
<1>6. CASE Shutdown \/ Execute \/ Reboot \/ UNCHANGED vars
  BY <1>6 DEF CredentialStep, Shutdown, Execute, Reboot, vars
<1> QED
  BY <1>1, <1>2, <1>3, <1>4, <1>5, <1>6 DEF Next, Running

LEMMA CodeInvStep == LifecycleInv /\ CodeInv /\ [Next]_vars => CodeInv'
<1> SUFFICES ASSUME LifecycleInv, CodeInv, [Next]_vars PROVE CodeInv'
  OBVIOUS
<1>t. TypeOK
  BY DEF LifecycleInv
<1>1. Fresh(requests, code)' /\ Fresh(results, code)'
  BY QueueSteps, FreshQueues DEF CodeInv, Fresh
<1>2. results # <<>> => Head(results) = results[1] /\ 1 \in 1..Len(results)
  BY <1>t, TailItems DEF TypeOK
<1>3. BindingMatchesCode'
  BY <1>t, <1>2, CredentialSteps DEF CodeInv, Fresh, BindingMatchesCode, CredentialStep
<1> QED
  BY <1>1, <1>3 DEF CodeInv

\* The device acts with one credential: the one granted for the pairing code shown last,
\* although answers about earlier codes may still be on their way through both queues, and
\* the one a reboot would restore.
THEOREM BindingStaysTrue == Spec => []BindingTrue
<1>1. Init => CodeInv
  BY EmptySeq DEF Init, CodeInv, Fresh, BindingMatchesCode
<1>2. CodeInv => BindingMatchesCode
  BY DEF CodeInv
<1> QED
  BY <1>1, <1>2, CodeInvStep, LifecycleInvariant, BindingIsDurable, PTL DEF Spec, BindingTrue

-----------------------------------------------------------------------------
(* Stops and the conversation                                               *)

\* The end is told while there is neither a conversation nor a connection.
NotifyKnows == pc = "notify" => conversation = None
StopInv == StopAfterTeardown /\ NotifyKnows

NameStep ==
  \/ conversation' \in {conversation, None} /\ rtc' \in {rtc, None}
  \/ /\ requests' = requests
     /\ \E c \in Conversations \ ConversationsInUse : conversation' = c /\ rtc' \in {c, None}

LEMMA NameSteps == ASSUME TypeOK, [Next]_vars PROVE NameStep
<1>1. CASE Tick
  BY <1>1 DEF NameStep, Tick, TickLoss, EndLocally, BeginEnd, TickBegin, TickOffline, TickPairing, StopConversation,
              TickUnprovisioned, TickPoll, TickStart, TickStop, TickRenewal
<1>2. CASE Ending
  BY <1>2 DEF NameStep, Ending, LeaveRtc, FinishEnd, NotifyStop
<1>3. CASE PairGate \/ PairAnswer \/ RenewAnswer
  BY <1>3 DEF NameStep, PairGate, PairAnswer, RenewAnswer, EndLocally, StopConversation, BeginEnd
<1>4. CASE StartAnswer
  BY <1>4 DEF NameStep, StartAnswer, StartRejected, StartAccepted, JoinRtc
<1>5. CASE ServiceResult
  BY <1>5 DEF NameStep, ServiceResult, ApplyRefused, EndLocally, BeginEnd
<1>6. CASE StartPairing \/ Request \/ Exit \/ Rtc \/ Network
  BY <1>6 DEF NameStep, StartPairing, Request, RequestPair, RequestStart, RequestStop, Exit,
              Rtc, RtcCallback, RtcEnded, RtcTokenExpires, Network, NetworkUp, NetworkDown, NetworkGeneration, NetworkLoss
<1>7. CASE Shutdown \/ Execute \/ Reboot \/ UNCHANGED vars
  BY <1>7 DEF NameStep, Shutdown, StopConversation, EndLocally, BeginEnd, Execute, Reboot, vars
<1> QED
  BY <1>1, <1>2, <1>3, <1>4, <1>5, <1>6, <1>7 DEF Next, Running, Answer

LEMMA NotifyStep == LifecycleInv /\ NotifyKnows /\ [Next]_vars => NotifyKnows'
<1> SUFFICES ASSUME LifecycleInv, NotifyKnows, [Next]_vars PROVE NotifyKnows'
  OBVIOUS
<1>1. CASE Tick
  BY <1>1 DEF NotifyKnows, Tick, TickLoss, EndLocally, BeginEnd, TickBegin, TickOffline, TickPairing, StopConversation,
              TickUnprovisioned, TickPoll, TickStart, TickStop, TickRenewal, Return, Idle
<1>2. CASE Ending
  BY <1>2 DEF NotifyKnows, Ending, LeaveRtc, FinishEnd, NotifyStop, Return, LifecycleInv, Coherent, OwnerKnowsPhase
<1>3. CASE PairGate \/ PairAnswer \/ RenewAnswer
  BY <1>3 DEF NotifyKnows, PairGate, PairAnswer, RenewAnswer, EndLocally, StopConversation, BeginEnd, Return
<1>4. CASE StartAnswer
  BY <1>4 DEF NotifyKnows, StartAnswer, Return
<1>5. CASE ServiceResult
  BY <1>5 DEF NotifyKnows, ServiceResult, ApplyRefused, EndLocally, BeginEnd, Idle
<1>6. CASE StartPairing \/ Request \/ Exit \/ Rtc \/ Network
  BY <1>6 DEF NotifyKnows, StartPairing, Request, RequestPair, RequestStart, RequestStop, Exit,
              Rtc, RtcCallback, RtcEnded, RtcTokenExpires, Network, NetworkUp, NetworkDown, NetworkGeneration, NetworkLoss
<1>7. CASE Shutdown \/ Execute \/ Reboot \/ UNCHANGED vars
  BY <1>7 DEF NotifyKnows, Shutdown, StopConversation, EndLocally, BeginEnd, Execute, Reboot, Return, Idle, vars
<1> QED
  BY <1>1, <1>2, <1>3, <1>4, <1>5, <1>6, <1>7 DEF Next, Running, Answer

\* A step that adds no stop keeps those there are, whichever of them it removes.
Told(r, c, j) == r.type = "STOP" => r.conversation \notin {None, c, j}
AllTold(s, c, j) == \A i \in 1..Len(s) : Told(s[i], c, j)

LEMMA ToldElsewhere ==
  ASSUME TypeOK, AllTold(requests, rtc, conversation), NameStep
  PROVE  AllTold(requests, rtc', conversation')
<1>1. CASE conversation' \in {conversation, None} /\ rtc' \in {rtc, None}
  BY <1>1 DEF AllTold, Told
<1>2. ASSUME NEW c \in Conversations \ ConversationsInUse, conversation' = c, rtc' \in {c, None}
      PROVE  AllTold(requests, rtc', conversation')
  <2>1. \A i \in 1..Len(requests) : requests[i].conversation # c
    BY <1>2 DEF ConversationsInUse
  <2> QED
    BY <1>2, <2>1 DEF AllTold, Told
<1> QED
  BY <1>1, <1>2 DEF NameStep

LEMMA ToldQueues ==
  ASSUME LifecycleInv, NotifyKnows, QueueStep, NEW c, NEW j, AllTold(requests, c, j),
         TellsStop => ending \notin {c, j}
  PROVE  AllTold(requests', c, j)
<1>t. requests \in Seq(Requests) /\ ending \in MaybeConversation
  BY DEF LifecycleInv, TypeOK
<1>u. AllTold(Unbound(requests), c, j)
  BY <1>t, UnboundItems DEF AllTold, Told
<1>c. AllTold(CutOff(requests), c, j)
  BY <1>t, CutOffItems DEF AllTold, Told
<1>a. ASSUME NEW r \in Requests, Told(r, c, j) PROVE AllTold(Append(requests, r), c, j)
  <2> SUFFICES ASSUME NEW i \in 1..Len(Append(requests, r)) PROVE Told(Append(requests, r)[i], c, j)
    BY DEF AllTold
  <2>1. i \in 1..Len(requests) \/ i = Len(requests) + 1
    BY <1>t, AppendItems
  <2> QED
    BY <1>a, <1>t, <2>1, AppendItems DEF AllTold
<1>1. CASE KeepsRequests
  BY <1>1, <1>u, <1>c DEF KeepsRequests
<1>2. ASSUME NEW type \in {"PAIR_POLL", "DEVICE_POLL"}, AsksPoll(type)
      PROVE  AllTold(requests', c, j)
  <2>1. NewRequest(type, None) \in Requests
    BY NewRequestType, EmptyValues DEF LifecycleInv
  <2>2. Told(NewRequest(type, None), c, j)
    BY DEF NewRequest, Told
  <2> QED
    BY <1>2, <1>a, <2>1, <2>2 DEF AsksPoll
<1>3. CASE TellsStop
  <2>1. NewRequest("STOP", ending) \in Requests
    BY <1>t, NewRequestType DEF LifecycleInv
  <2>2. Told(NewRequest("STOP", ending), c, j)
    BY <1>3 DEF NewRequest, Told, TellsStop
  <2> QED
    BY <1>3, <1>a, <2>1, <2>2 DEF TellsStop
<1>4. CASE TakesResult
  BY <1>4, <1>u DEF TakesResult
<1>5. CASE WorksOnRequest
  <2> SUFFICES ASSUME NEW i \in 1..Len(Tail(requests)) PROVE Told(Tail(requests)[i], c, j)
    BY <1>5 DEF AllTold, WorksOnRequest
  <2>1. i + 1 \in 1..Len(requests) /\ Tail(requests)[i] = requests[i + 1]
    BY <1>5, <1>t, TailItems DEF WorksOnRequest
  <2> QED
    BY <2>1 DEF AllTold
<1>6. CASE StartsOver
  BY <1>6, EmptySeq DEF StartsOver, AllTold
<1> QED
  BY <1>1, <1>2, <1>3, <1>4, <1>5, <1>6 DEF QueueStep

LEMMA StopInvStep == LifecycleInv /\ StopInv /\ [Next]_vars => StopInv'
<1> SUFFICES ASSUME LifecycleInv, StopInv, [Next]_vars PROVE StopInv'
  OBVIOUS
<1>1. TypeOK /\ QueueStep /\ NameStep /\ NotifyKnows'
  BY QueueSteps, NameSteps, NotifyStep DEF LifecycleInv, StopInv
<1>2. AllTold(requests, rtc, conversation)
  BY DEF StopInv, StopAfterTeardown, AllTold, Told
<1>3. AllTold(requests, rtc', conversation')
  BY <1>1, <1>2, ToldElsewhere
<1>4. TellsStop => rtc' = None /\ conversation' = None /\ ending # None
  BY DEF StopInv, NotifyKnows, LifecycleInv, Coherent, OwnerKnowsPhase, RtcMatchesConversation, TellsStop
<1>5. AllTold(requests', rtc', conversation')
  BY <1>1, <1>3, <1>4, ToldQueues DEF StopInv
<1> QED
  BY <1>1, <1>5 DEF StopInv, StopAfterTeardown, AllTold, Told

\* The server is told of an end only once RTC has left that conversation and no other has
\* been given its name, for as long as the message waits in the queue.
THEOREM StopIsToldAfterTeardown == Spec => []StopAfterTeardown
<1>1. Init => StopInv
  BY EmptySeq DEF Init, StopInv, StopAfterTeardown, NotifyKnows
<1>2. StopInv => StopAfterTeardown
  BY DEF StopInv
<1> QED
  BY <1>1, <1>2, StopInvStep, LifecycleInvariant, PTL DEF Spec

-----------------------------------------------------------------------------
(* One poll                                                                 *)

One(s) == \A i, j \in Polls(s) : i = j
OnTheWay == Polls(requests) # {} \/ Polls(results) # {}

\* The flag covers a poll wherever it is; only an exit drops polls under a raised flag.
PollInv ==
  /\ One(requests) /\ One(results)
  /\ Polls(requests) = {} \/ Polls(results) = {}
  /\ OnTheWay => pollPending = TRUE
  /\ exiting = FALSE /\ pollPending = TRUE => OnTheWay

LEMMA PollsUnbound == ASSUME NEW s \in Seq(Requests) PROVE Polls(Unbound(s)) = Polls(s)
  BY UnboundItems DEF Polls

LEMMA PollsCutOff == ASSUME NEW s \in Seq(Requests) PROVE Polls(CutOff(s)) = Polls(s)
  BY CutOffItems DEF Polls

\* Taking the head shifts the others, and takes the one poll if it was one.
LEMMA PollsTail ==
  ASSUME NEW s \in Seq(Requests), s # <<>>
  PROVE  /\ One(s) => One(Tail(s))
         /\ Head(s).type = "STOP" => (Polls(Tail(s)) = {} <=> Polls(s) = {})
         /\ Head(s).type # "STOP" => Polls(s) # {}
         /\ Head(s).type # "STOP" /\ One(s) => Polls(Tail(s)) = {}
<1>1. 1 \in 1..Len(s) /\ Head(s) = s[1] /\ Len(s) \in Nat
  BY TailItems
<1>2. ASSUME NEW i \in Polls(Tail(s)) PROVE i \in Nat /\ i >= 1 /\ i + 1 \in Polls(s)
  <2>1. i \in 1..Len(Tail(s)) /\ Len(Tail(s)) = Len(s) - 1 /\ Tail(s)[i] = s[i + 1]
    BY <1>2, TailItems DEF Polls
  <2> QED
    BY <1>1, <2>1, <1>2 DEF Polls
<1>3. ASSUME NEW i \in Polls(s), i # 1 PROVE i - 1 \in Polls(Tail(s))
  <2>1. i \in 1..Len(s) /\ i - 1 \in 1..Len(Tail(s))
    BY <1>3, <1>1, TailItems DEF Polls
  <2>2. Tail(s)[i - 1] = s[i]
    BY <2>1, TailItems
  <2> QED
    BY <2>1, <2>2 DEF Polls
<1>4. One(s) => One(Tail(s))
  BY <1>2 DEF One
<1>5. Head(s).type = "STOP" => (Polls(Tail(s)) = {} <=> Polls(s) = {})
  BY <1>1, <1>2, <1>3 DEF Polls
<1>6. Head(s).type # "STOP" => 1 \in Polls(s)
  BY <1>1 DEF Polls
<1>7. Head(s).type # "STOP" /\ One(s) => Polls(Tail(s)) = {}
  BY <1>2, <1>6 DEF One
<1> QED
  BY <1>4, <1>5, <1>6, <1>7

LEMMA PollsAppend ==
  ASSUME NEW s \in Seq(Requests), NEW r \in Requests
  PROVE  /\ r.type = "STOP" => Polls(Append(s, r)) = Polls(s)
         /\ r.type # "STOP" /\ Polls(s) = {} => One(Append(s, r)) /\ Polls(Append(s, r)) # {}
<1>1. Polls(Append(s, r)) = Polls(s) \cup (IF r.type = "STOP" THEN {} ELSE {Len(s) + 1})
  BY AppendItems DEF Polls
<1> QED
  BY <1>1 DEF One

LEMMA PollInvStep == LifecycleInv /\ PollInv /\ [Next]_vars => PollInv'
<1> SUFFICES ASSUME LifecycleInv, PollInv, [Next]_vars PROVE PollInv'
  OBVIOUS
<1>t. /\ requests \in Seq(Requests) /\ results \in Seq(Requests) /\ ending \in MaybeConversation
      /\ exiting \in BOOLEAN /\ pollPending \in BOOLEAN
  BY DEF LifecycleInv, TypeOK
<1>q. QueueStep
  BY QueueSteps
<1>1. CASE KeepsRequests
  <2>1. Polls(requests') = Polls(requests) /\ Polls(results') = Polls(results)
    BY <1>1, <1>t, PollsUnbound, PollsCutOff DEF KeepsRequests
  <2>2. pollPending' = pollPending /\ (exiting' = FALSE => exiting = FALSE)
    BY <1>1, <1>t DEF KeepsRequests
  <2> QED
    BY <2>1, <2>2 DEF PollInv, One, OnTheWay
<1>2. ASSUME NEW type \in {"PAIR_POLL", "DEVICE_POLL"}, AsksPoll(type) PROVE PollInv'
  <2>1. NewRequest(type, None) \in Requests /\ NewRequest(type, None).type # "STOP"
    BY NewRequestType, EmptyValues DEF LifecycleInv, NewRequest
  <2>2. Polls(requests) = {} /\ Polls(results) = {}
    BY <1>2 DEF AsksPoll, PollInv, OnTheWay
  <2>3. One(requests') /\ Polls(requests') # {}
    BY <1>2, <1>t, <2>1, <2>2, PollsAppend DEF AsksPoll
  <2> QED
    BY <1>2, <2>2, <2>3 DEF AsksPoll, PollInv, One, OnTheWay
<1>3. CASE TellsStop
  <2>1. NewRequest("STOP", ending) \in Requests /\ NewRequest("STOP", ending).type = "STOP"
    BY <1>t, NewRequestType DEF LifecycleInv, NewRequest
  <2>2. Polls(requests') = Polls(requests)
    BY <1>3, <1>t, <2>1, PollsAppend DEF TellsStop
  <2> QED
    BY <1>3, <2>2 DEF TellsStop, PollInv, One, OnTheWay
<1>4. CASE TakesResult
  <2>1. Polls(requests') = Polls(requests) /\ Polls(results') = Polls(Tail(results)) /\ results # <<>>
    BY <1>4, <1>t, TailItems, PollsUnbound DEF TakesResult
  <2>2. One(requests') /\ One(results')
    BY <1>t, <2>1, PollsTail DEF PollInv, One
  <2>3. CASE Head(results).type = "STOP"
    <3>1. pollPending' = pollPending /\ exiting' = exiting
      BY <1>4, <1>t, <2>3 DEF TakesResult
    <3> QED
      BY <1>t, <2>1, <2>2, <2>3, <3>1, PollsTail DEF PollInv, OnTheWay
  <2>4. CASE Head(results).type # "STOP"
    <3>1. pollPending' = FALSE
      BY <1>4, <1>t, <2>4 DEF TakesResult
    <3>2. Polls(results) # {} /\ Polls(results') = {}
      BY <1>t, <2>1, <2>4, PollsTail DEF PollInv
    <3> QED
      BY <2>1, <2>2, <3>1, <3>2 DEF PollInv, OnTheWay
  <2> QED
    BY <2>3, <2>4
<1>5. CASE WorksOnRequest
  <2> DEFINE answer == [Head(requests) EXCEPT !.conversation = None]
  <2>1. requests # <<>> /\ Head(requests) \in Requests
    BY <1>5, <1>t, TailItems DEF WorksOnRequest
  <2>2. answer \in Requests /\ answer.type = Head(requests).type
    BY <2>1, EmptyValues DEF Requests
  <2>3. \/ results' = Append(results, answer) /\ exiting' = exiting
        \/ results' = results /\ exiting' = TRUE
    BY <1>5 DEF WorksOnRequest
  <2> HIDE DEF answer
  <2>4. requests' = Tail(requests) /\ pollPending' = pollPending
    BY <1>5 DEF WorksOnRequest
  <2>5. CASE Head(requests).type = "STOP"
    <3>1. Polls(results') = Polls(results)
      BY <1>t, <2>2, <2>3, <2>5, PollsAppend
    <3>2. One(requests') /\ (Polls(requests') = {} <=> Polls(requests) = {})
      BY <1>t, <2>1, <2>4, <2>5, PollsTail DEF PollInv
    <3> QED
      BY <1>t, <2>3, <2>4, <3>1, <3>2 DEF PollInv, One, OnTheWay
  <2>6. CASE Head(requests).type # "STOP"
    <3>1. Polls(requests') = {} /\ Polls(requests) # {} /\ Polls(results) = {} /\ pollPending = TRUE
      BY <1>t, <2>1, <2>4, <2>6, PollsTail DEF PollInv, OnTheWay
    <3>2. /\ One(results')
          /\ exiting' = TRUE \/ Polls(results') # {}
      BY <1>t, <2>2, <2>3, <2>6, <3>1, PollsAppend DEF PollInv
    <3> QED
      BY <2>4, <3>1, <3>2 DEF PollInv, One, OnTheWay
  <2> QED
    BY <2>5, <2>6
<1>6. CASE StartsOver
  BY <1>6, EmptySeq DEF StartsOver, PollInv, One, OnTheWay, Polls
<1> QED
  BY <1>q, <1>1, <1>2, <1>3, <1>4, <1>5, <1>6 DEF QueueStep

\* At most one status poll is on its way, through both queues, and poll_pending is raised
\* exactly while there is one, so that polling neither doubles nor stops for good.
THEOREM PollIsAlwaysOne == Spec => []OnePollOutstanding
<1>1. Init => PollInv
  BY EmptySeq DEF Init, PollInv, One, OnTheWay, Polls
<1>2. LifecycleInv /\ PollInv => OnePollOutstanding
  BY DEF PollInv, One, OnTheWay, OnePollOutstanding, LifecycleInv, TypeOK
<1> QED
  BY <1>1, <1>2, PollInvStep, LifecycleInvariant, PTL DEF Spec
=============================================================================
