------------------------ MODULE MediaPipelineProofs ------------------------
(***************************************************************************)
(* The rings and the devices outlive the workers that use them, a stop      *)
(* waits for no device, the echo reference always fits, and no audio of one *)
(* conversation reaches the next, for any capacity of the rings, any split  *)
(* of a device write and any number of connections and prompts.             *)
(***************************************************************************)
EXTENDS MediaPipeline, SequenceTheorems, TLAPS

USE DEF flagVars, ringVars, lifeVars, promptVars, captureVars, pendingVars, playbackVars,
        sendVars, rtcVars, controlVars, history

-----------------------------------------------------------------------------
(* The inductive invariant                                                   *)

StartPlaces == {"devices", "cap", "pb", "snd", "started"}
FlushPlaces == {"flush_cap", "flush_pb", "flush_snd", "flushed"}
LeavePlaces == {"leave", "left"}
WaitPlaces == {"interrupt", "wait_snd", "wait_cap", "wait_pb", "close"}

\* Which call is where, and that a pipeline that starts or is down has no conversation.
ControlFits ==
  /\ control.at \in {"down", "idle"} => control.call = "none"
  /\ control.at \in StartPlaces => control.call = "start"
  /\ control.at \in FlushPlaces => control.call \in {"begin", "refused", "end"}
  /\ control.at \in LeavePlaces => control.call \in {"end", "stop"}
  /\ control.at \in WaitPlaces \union {"destroy"} => control.call \in {"start", "stop"}
  /\ control.call = "start" \/ control.at \in {"down", "destroy"} => ~talking

\* RTC is joined only within a conversation that is neither being begun nor over.
LinkFits ==
  /\ link # "out" => talking /\ control.at \in {"idle", "leave"} \union WaitPlaces
  /\ rtc = "pushing" => link = "connected"
  /\ connected => link = "connected"
  /\ link = "connected" => span > lost /\ span > base
  /\ lost <= span /\ base <= span

\* How far a start or a stop has come with the rings, the devices and the workers.
LifeFits ==
  /\ ~rings => \/ control.at \in {"down", "devices"}
               \/ control.call = "start" /\ control.at \in WaitPlaces \union {"destroy"}
  /\ complete => \/ control.at \in {"down", "destroy"}
                 \/ control.at \in LeavePlaces /\ control.call = "stop"
  /\ control.at = "devices" => alive = {}
  /\ control.at \in {"wait_cap", "wait_pb", "close"} => "snd" \notin alive
  /\ control.at \in {"wait_pb", "close"} => "cap" \notin alive
  /\ control.at = "close" => "pb" \notin alive
  /\ control.at \in {"wait_snd", "wait_cap", "wait_pb"} => started = {}

\* A playback worker at rest has seen nothing; the generation only grows in a run.
GenerationFits ==
  /\ playback \in {"idle", "clearing"} => sawGen = 0 /\ sawPrompt = FALSE /\ sawLost = 0
  /\ sawGen <= generation /\ pendingGen <= generation
  /\ ~complete => generation <= MaxGeneration
  /\ playback \in {"source", "prepare"} => pendingGen = sawGen
  /\ playback \in {"authorize", "writing"} => pendingGen >= sawGen

\* Every frame of ring r was taken after connection n.
After(r, n) == \A i \in 1..Len(r) : r[i] > n

\* Remote audio that playback still has, in the ring or pending, is newer than n.
RemoteAfter(n) ==
  /\ After(pbRing, n)
  /\ pending.src = "rtc" => pending.tag > n

\* Audio of a connection reported lost is there only until playback drains it.
LossFits ==
  /\ clear \/ playback = "drain" \/ RemoteAfter(lost)
  /\ sawLost <= lost
  /\ playback \in {"source", "prepare", "authorize", "writing"} => RemoteAfter(sawLost)

\* What a flush that has not failed has emptied stays empty until it returns.
FlushFits ==
  /\ playback = "clearing" => control.at = "flush_pb"
  /\ send # "sending" => hand = NoFrame
  /\ playback = "clearing" => pbRing = <<>> /\ pending = Nothing
  /\ control.call = "begin" =>
       /\ control.at \in {"flush_pb", "flush_snd", "flushed"} => capture # "storing"
       /\ control.at \in {"flush_snd", "flushed"} => pbRing = <<>> /\ pending.src # "rtc"
       /\ control.at = "flushed" => capRing = <<>> /\ refRing = <<>> /\ send # "sending"

\* Every frame that is kept anywhere was taken after connection n.
AllAfter(n) ==
  /\ After(capRing, n) /\ After(refRing, n) /\ After(hand, n)
  /\ RemoteAfter(n)
  /\ capture = "storing" => captured > n

Apart == link # "out" => AllAfter(base)

Inv ==
  /\ TypeOK /\ ControlFits /\ LinkFits /\ LifeFits /\ RingsOutliveUsers
  /\ GenerationFits /\ LossFits /\ FlushFits /\ ReferenceNeverRefused /\ Apart
-----------------------------------------------------------------------------
(* Types                                                                     *)

\* The capacities are numbers, the one of the reference included.
LEMMA Capacities ==
  /\ Frames \in Nat \ {0} /\ Parts \in Nat \ {0}
  /\ MaxSpans \in Nat /\ MaxGeneration \in Nat
  /\ Frames * Parts \in Nat
BY MediaAssumption

\* A frame that is added to a ring with room for it leaves a ring.
LEMMA Added ==
  ASSUME NEW S, NEW r \in Seq(S), NEW e \in S, NEW m \in Nat, Len(r) < m
  PROVE  Append(r, e) \in Seq(S) /\ Len(Append(r, e)) <= m
BY AppendProperties, LenProperties

\* A frame that is taken from a ring leaves a ring.
LEMMA Taken ==
  ASSUME NEW S, NEW r \in Seq(S), r # <<>>, NEW m \in Nat, Len(r) <= m
  PROVE  Head(r) \in S /\ Tail(r) \in Seq(S) /\ Len(Tail(r)) <= m
BY HeadTailProperties, LenProperties

FlagTypes ==
  /\ running \in BOOLEAN /\ connected \in BOOLEAN /\ clear \in BOOLEAN
  /\ rings \in BOOLEAN /\ complete \in BOOLEAN /\ sawPrompt \in BOOLEAN /\ talking \in BOOLEAN
RingTypes ==
  /\ capRing \in Seq(Spans) /\ Len(capRing) <= Frames
  /\ pbRing \in Seq(Spans) /\ Len(pbRing) <= Frames
  /\ refRing \in Seq(Spans) /\ Len(refRing) <= Frames * Parts
LifeTypes == alive \subseteq Workers /\ started \subseteq {"cap", "pb"}
Generations == 0..(MaxGeneration + 1)
PromptTypes ==
  /\ generation \in Generations /\ pendingGen \in Generations /\ sawGen \in Generations
  /\ sounds \in 0..1
PendingTypes == pending \in [src : {"none", "rtc", "prompt"}, tag : Spans, left : 0..Parts]
CaptureTypes == capture \in {"idle", "reading", "storing"} /\ captured \in Spans
PlaybackTypes ==
  playback \in {"idle", "drain", "source", "prepare", "authorize", "writing", "clearing"}
SendTypes == send \in {"idle", "taking", "sending"} /\ hand \in Seq(Spans) /\ Len(hand) <= Parts + 1
RtcTypes == rtc \in {"idle", "pushing"} /\ link \in {"out", "joined", "connected"}
ControlTypes ==
  control \in [call : {"none", "start", "begin", "refused", "end", "stop"}, at : Places]
HistoryTypes == span \in Spans /\ base \in Spans /\ lost \in Spans /\ sawLost \in Spans

\* The types, one part for each group of variables.
LEMMA TypeParts ==
  TypeOK <=> /\ FlagTypes /\ RingTypes /\ LifeTypes /\ PromptTypes /\ PendingTypes /\ CaptureTypes
             /\ PlaybackTypes /\ SendTypes /\ RtcTypes /\ ControlTypes /\ HistoryTypes
BY DEF TypeOK, FlagTypes, RingTypes, LifeTypes, PromptTypes, PendingTypes, CaptureTypes,
       PlaybackTypes, SendTypes, RtcTypes, ControlTypes, HistoryTypes, Generations

\* The flags stay flags, whoever stores them.
LEMMA FlagTypesStep ==
  ASSUME TypeOK, Next
  PROVE  FlagTypes'
<1> USE TypeParts DEF FlagTypes
<1>1. CASE CaptureSteps
  BY <1>1 DEF CaptureSteps, CaptureReads, CaptureGets, CaptureStores
<1>2. CASE PlaybackSteps
  <2>1. CASE PlaybackDrains
    <3>1. sawPrompt' \in BOOLEAN
      BY <2>1 DEF PlaybackDrains
    <3> QED
      BY <2>1, <3>1 DEF PlaybackDrains
  <2>2. CASE PlaybackWakes \/ PlaybackPrepares \/ PlaybackAuthorizes \/ FlushPlaybackEnds
    BY <2>2 DEF PlaybackWakes, PlaybackPrepares, PreparePrompt, PrepareRemote, PlaybackAuthorizes,
                FlushPlaybackEnds, Quits
  <2>3. CASE PlaybackWrites
    BY <2>3 DEF PlaybackWrites, Quits, EnqueueReference
  <2> QED
    BY <1>2, <2>1, <2>2, <2>3 DEF PlaybackSteps
<1>3. CASE SendSteps
  BY <1>3 DEF SendSteps, SendWakes, SendTakes, SendReturns
<1>4. CASE RtcSteps
  BY <1>4 DEF RtcSteps, RtcConnects, RtcLoses, RtcHears, RtcPushes, Disconnect
<1>5. CASE Calls
  BY <1>5 DEF Calls, StartCalled, BeginCalled, EndCalled, StopCalled, Prompt
<1>6. CASE Starting
  BY <1>6 DEF Starting, StartDevices, StartWorker, StartReturns
<1>7. CASE Flushing
  BY <1>7 DEF Flushing, FlushCapture, FlushPlayback, FlushSend, FlushReturns
<1>8. CASE Leaving
  BY <1>8 DEF Leaving, Leave, EndSession, Disconnect
<1>9. CASE Stopping
  BY <1>9 DEF Stopping, Interrupt, WaitForWorker, CloseDevices, Destroy
<1> QED
  BY <1>1, <1>2, <1>3, <1>4, <1>5, <1>6, <1>7, <1>8, <1>9 DEF Next

\* Who changes what a ring holds.
LEMMA RingUsers ==
  ASSUME Next
  PROVE  \/ CaptureStores \/ PlaybackDrains \/ PlaybackPrepares \/ PlaybackWrites \/ SendTakes
         \/ RtcPushes \/ StartCalled \/ FlushPlayback \/ FlushSend \/ Destroy
         \/ UNCHANGED ringVars
BY DEF Next, CaptureSteps, CaptureReads, CaptureGets, PlaybackSteps, PlaybackWakes,
       PlaybackAuthorizes, FlushPlaybackEnds, SendSteps, SendWakes, SendReturns, RtcSteps,
       RtcConnects, RtcLoses, RtcHears, Calls, BeginCalled, EndCalled, StopCalled, Prompt,
       Starting, StartDevices, StartWorker, StartReturns, Flushing, FlushCapture, FlushReturns,
       Leaving, Leave, EndSession, Stopping, Interrupt, WaitForWorker, CloseDevices

\* Who changes the history.
LEMMA HistoryUsers ==
  ASSUME Next
  PROVE  \/ PlaybackWakes \/ PlaybackPrepares \/ PlaybackAuthorizes \/ PlaybackWrites
         \/ RtcConnects \/ RtcLoses \/ StartCalled \/ FlushReturns \/ Leaving
         \/ UNCHANGED history
BY DEF Next, CaptureSteps, CaptureReads, CaptureGets, CaptureStores, PlaybackSteps, PlaybackDrains,
       FlushPlaybackEnds, SendSteps, SendWakes, SendTakes, SendReturns, RtcSteps,
       RtcHears, RtcPushes, Calls, BeginCalled, EndCalled, StopCalled, Prompt,
       Starting, StartDevices, StartWorker, StartReturns, Flushing, FlushCapture, FlushPlayback,
       FlushSend, Stopping, Interrupt, WaitForWorker, CloseDevices, Destroy

\* Every frame in a ring is of some connection, and no ring overflows.
LEMMA RingTypesStep ==
  ASSUME TypeOK, Next
  PROVE  RingTypes'
<1>t. RingTypes /\ CaptureTypes /\ PendingTypes /\ SendTypes /\ HistoryTypes
  BY TypeParts
<1>e. <<>> \in Seq(Spans) /\ Len(<<>>) = 0
  BY EmptySeq
<1> USE Capacities
<1>1. CASE CaptureStores
  BY <1>1, <1>t, Added DEF CaptureStores, RingTypes, CaptureTypes
<1>2. CASE PlaybackDrains
  BY <1>2, <1>t, <1>e DEF PlaybackDrains, RingTypes
<1>3. CASE PlaybackPrepares
  BY <1>3, <1>t, Taken DEF PlaybackPrepares, PreparePrompt, PrepareRemote, RingTypes
<1>4. CASE PlaybackWrites
  <2>1. UNCHANGED refRing \/ \E n \in 0..pending.left :
           /\ n \in Nat /\ Len(refRing) + n <= Frames * Parts
           /\ refRing' = refRing \o [i \in 1..n |-> pending.tag]
    <3>1. PICK n \in 0..pending.left : EnqueueReference(n) \/ UNCHANGED refRing
      BY <1>4, <1>t DEF PlaybackWrites, PendingTypes
    <3>2. n \in Nat
      BY <3>1, <1>t DEF PendingTypes
    <3> QED
      BY <3>1, <3>2 DEF EnqueueReference
  <2>2. ASSUME NEW n \in Nat, Len(refRing) + n <= Frames * Parts
        PROVE  /\ refRing \o [i \in 1..n |-> pending.tag] \in Seq(Spans)
               /\ Len(refRing \o [i \in 1..n |-> pending.tag]) <= Frames * Parts
    <3>1. [i \in 1..n |-> pending.tag] \in Seq(Spans) /\ Len([i \in 1..n |-> pending.tag]) = n
      BY <1>t DEF PendingTypes
    <3> QED
      BY <1>t, <2>2, <3>1, ConcatProperties, LenProperties DEF RingTypes
  <2> QED
    BY <1>4, <1>t, <2>1, <2>2 DEF PlaybackWrites, RingTypes
<1>5. CASE SendTakes
  <2>1. CASE Len(refRing) >= Parts
    <3>1. /\ SubSeq(refRing, Parts + 1, Len(refRing)) \in Seq(Spans)
          /\ Len(SubSeq(refRing, Parts + 1, Len(refRing))) <= Frames * Parts
      BY <1>t, <2>1, LenProperties, SubSeqProperties, ElementOfSeq DEF RingTypes
    <3> QED
      BY <1>5, <1>t, <3>1, Taken DEF SendTakes, RingTypes
  <2>2. CASE ~(Len(refRing) >= Parts)
    BY <1>5, <1>t, <2>2, Taken DEF SendTakes, RingTypes
  <2> QED
    BY <2>1, <2>2
<1>6. CASE RtcPushes
  BY <1>6, <1>t, Added DEF RtcPushes, RingTypes, HistoryTypes
<1>7. CASE StartCalled \/ FlushPlayback \/ FlushSend \/ Destroy
  <2>1. /\ capRing' \in {capRing, <<>>}
        /\ pbRing' \in {pbRing, <<>>}
        /\ refRing' \in {refRing, <<>>}
    BY <1>7 DEF StartCalled, FlushPlayback, FlushSend, Destroy
  <2>2. 0 <= Frames /\ 0 <= Frames * Parts
    OBVIOUS
  <2>3. capRing' \in Seq(Spans) /\ Len(capRing') <= Frames
    BY <2>1, <2>2, <1>t, <1>e DEF RingTypes
  <2>4. pbRing' \in Seq(Spans) /\ Len(pbRing') <= Frames
    BY <2>1, <2>2, <1>t, <1>e DEF RingTypes
  <2>5. refRing' \in Seq(Spans) /\ Len(refRing') <= Frames * Parts
    BY <2>1, <2>2, <1>t, <1>e DEF RingTypes
  <2> QED
    BY <2>3, <2>4, <2>5 DEF RingTypes
<1>8. CASE UNCHANGED ringVars
  BY <1>8, <1>t DEF RingTypes
<1> QED
  BY <1>1, <1>2, <1>3, <1>4, <1>5, <1>6, <1>7, <1>8, RingUsers

\* The numbers of connections and prompts stay in their bounds.
LEMMA HistoryTypesStep ==
  ASSUME TypeOK, Next
  PROVE  HistoryTypes'
<1>t. HistoryTypes
  BY TypeParts
<1> USE <1>t, Capacities DEF HistoryTypes, Spans
<1>1. CASE PlaybackWakes \/ PlaybackPrepares \/ PlaybackAuthorizes \/ PlaybackWrites
  BY <1>1 DEF PlaybackWakes, PlaybackPrepares, PreparePrompt, PrepareRemote, PlaybackAuthorizes,
              PlaybackWrites, Quits
<1>2. CASE RtcConnects
  BY <1>2 DEF RtcConnects
<1>3. CASE RtcLoses \/ FlushReturns \/ Leaving
  <2>1. span' = span /\ base' \in {base, span} /\ lost' \in {lost, span} /\ sawLost' = sawLost
    BY <1>3 DEF RtcLoses, FlushReturns, Leaving, Leave, EndSession, Disconnect
  <2> QED
    BY <2>1
<1>4. CASE StartCalled
  BY <1>4 DEF StartCalled
<1>5. CASE UNCHANGED history
  BY <1>5
<1> QED
  BY <1>1, <1>2, <1>3, <1>4, <1>5, HistoryUsers

\* Who changes the devices and the workers there are.
LEMMA LifeUsers ==
  ASSUME Next
  PROVE  \/ StartCalled \/ StartDevices \/ StartWorker \/ Interrupt \/ WaitForWorker
         \/ UNCHANGED <<alive, started>>
BY DEF Next, CaptureSteps, CaptureReads, CaptureGets, CaptureStores, PlaybackSteps, PlaybackWakes,
       PlaybackDrains, PlaybackPrepares, PlaybackAuthorizes, PlaybackWrites, FlushPlaybackEnds,
       SendSteps, SendWakes, SendTakes, SendReturns, RtcSteps, RtcConnects, RtcLoses, RtcHears,
       RtcPushes, Calls, BeginCalled, EndCalled, StopCalled, Prompt, Starting, StartReturns,
       Flushing, FlushCapture, FlushPlayback, FlushSend, FlushReturns, Leaving, Leave, EndSession,
       Stopping, CloseDevices, Destroy

\* Who changes prompts and what is pending.
LEMMA PromptUsers ==
  ASSUME Next
  PROVE  \/ PlaybackWakes \/ PlaybackDrains \/ PlaybackPrepares \/ PlaybackAuthorizes \/ PlaybackWrites
         \/ StartCalled \/ FlushPlayback \/ Prompt \/ CloseDevices
         \/ UNCHANGED <<promptVars, pendingVars, sawGen, sawPrompt>>
BY DEF Next, CaptureSteps, CaptureReads, CaptureGets, CaptureStores, PlaybackSteps,
       FlushPlaybackEnds, SendSteps, SendWakes, SendTakes, SendReturns, RtcSteps, RtcConnects,
       RtcLoses, RtcHears, RtcPushes, Calls, BeginCalled, EndCalled, StopCalled, Starting,
       StartDevices, StartWorker, StartReturns, Flushing, FlushCapture, FlushSend, FlushReturns,
       Leaving, Leave, EndSession, Stopping, Interrupt, WaitForWorker, Destroy

\* The devices that run are devices, and the workers are the three.
LEMMA LifeTypesStep ==
  ASSUME TypeOK, Next
  PROVE  LifeTypes'
<1>t. LifeTypes
  BY TypeParts
<1> USE <1>t DEF LifeTypes, Workers
<1>1. CASE StartCalled \/ StartDevices \/ Interrupt
  BY <1>1 DEF StartCalled, StartDevices, Interrupt
<1>2. CASE StartWorker \/ WaitForWorker
  BY <1>2 DEF StartWorker, WaitForWorker
<1>3. CASE UNCHANGED <<alive, started>>
  BY <1>3
<1> QED
  BY <1>1, <1>2, <1>3, LifeUsers

\* Generations only count the prompts of one run; the last is the stop's own.
LEMMA PromptTypesStep ==
  ASSUME TypeOK, LifeFits, GenerationFits, Next
  PROVE  PromptTypes'
<1>t. PromptTypes /\ FlagTypes
  BY TypeParts
<1> USE <1>t, Capacities DEF PromptTypes, Generations
<1>1. CASE PlaybackWakes \/ PlaybackDrains \/ PlaybackPrepares
  BY <1>1 DEF PlaybackWakes, PlaybackDrains, PlaybackPrepares, PreparePrompt, PrepareRemote, Quits
<1>2. CASE PlaybackAuthorizes \/ PlaybackWrites
  BY <1>2 DEF PlaybackAuthorizes, PlaybackWrites, Quits
<1>3. CASE StartCalled \/ FlushPlayback
  <2>1. /\ generation' \in {generation, 0} /\ sounds' \in {sounds, 0} /\ sawGen' = sawGen
        /\ pendingGen' \in {pendingGen, generation, 0}
    BY <1>3 DEF StartCalled, FlushPlayback
  <2> QED
    BY <2>1
<1>4. CASE Prompt
  BY <1>4 DEF Prompt
<1>5. CASE CloseDevices
  <2>1. generation \in 0..MaxGeneration
    BY <1>5 DEF CloseDevices, Goes, LifeFits, GenerationFits, LeavePlaces
  <2> QED
    BY <1>5, <2>1 DEF CloseDevices
<1>6. CASE UNCHANGED <<generation, pendingGen, sawGen, sounds>>
  BY <1>6
<1> QED
  BY <1>1, <1>2, <1>3, <1>4, <1>5, <1>6, PromptUsers

\* What is pending is nothing, a frame of remote audio or a piece of a prompt.
LEMMA PendingTypesStep ==
  ASSUME TypeOK, Next
  PROVE  PendingTypes'
<1>t. PendingTypes /\ RingTypes
  BY TypeParts
<1>n. Nothing \in [src : {"none", "rtc", "prompt"}, tag : Spans, left : 0..Parts]
  BY Capacities DEF Nothing, Spans
<1> USE <1>t, <1>n, Capacities DEF PendingTypes
<1>1. CASE PlaybackDrains \/ PlaybackAuthorizes \/ StartCalled \/ FlushPlayback
  <2>1. pending' \in {pending, Nothing}
    BY <1>1 DEF PlaybackDrains, PlaybackAuthorizes, StartCalled, FlushPlayback, Discard
  <2> QED
    BY <2>1
<1>2. CASE PlaybackPrepares
  <2>1. pbRing # <<>> => Head(pbRing) \in Spans
    BY Taken DEF RingTypes
  <2>2. \/ pending' = pending
        \/ pending' = [src |-> "prompt", tag |-> 0, left |-> Parts]
        \/ pbRing # <<>> /\ pending' = [src |-> "rtc", tag |-> Head(pbRing), left |-> Parts]
    BY <1>2 DEF PlaybackPrepares, PreparePrompt, PrepareRemote
  <2> QED
    BY <2>1, <2>2 DEF Spans
<1>3. CASE PlaybackWrites
  BY <1>3 DEF PlaybackWrites, Discard
<1>4. CASE PlaybackWakes \/ Prompt \/ CloseDevices
  BY <1>4 DEF PlaybackWakes, Prompt, CloseDevices
<1>5. CASE UNCHANGED <<promptVars, pendingVars, sawGen, sawPrompt>>
  BY <1>5
<1> QED
  BY <1>1, <1>2, <1>3, <1>4, <1>5, PromptUsers

\* Who moves the workers.
LEMMA WorkerUsers ==
  ASSUME Next
  PROVE  /\ CaptureSteps \/ UNCHANGED captureVars
         /\ PlaybackSteps \/ FlushPlayback \/ UNCHANGED <<playback, sawGen, sawPrompt>>
         /\ SendWakes \/ SendTakes \/ SendReturns \/ UNCHANGED sendVars
         /\ RtcSteps \/ Leave \/ FlushReturns \/ UNCHANGED rtcVars
BY DEF Next, CaptureSteps, CaptureReads, CaptureGets, CaptureStores, PlaybackSteps, PlaybackWakes,
       PlaybackDrains, PlaybackPrepares, PlaybackAuthorizes, PlaybackWrites, FlushPlaybackEnds,
       SendSteps, SendWakes, SendTakes, SendReturns, RtcSteps, RtcConnects, RtcLoses, RtcHears,
       RtcPushes, Calls, StartCalled, BeginCalled, EndCalled, StopCalled, Prompt, Starting,
       StartDevices, StartWorker, StartReturns, Flushing, FlushCapture, FlushPlayback, FlushSend,
       FlushReturns, Leaving, Leave, EndSession, Stopping, Interrupt, WaitForWorker, CloseDevices,
       Destroy

\* A capture worker holds a frame of a connection there has been.
LEMMA CaptureTypesStep ==
  ASSUME TypeOK, Next
  PROVE  CaptureTypes'
<1>t. CaptureTypes /\ HistoryTypes
  BY TypeParts
<1> USE <1>t, Capacities DEF CaptureTypes, HistoryTypes
<1>1. CASE CaptureSteps
  BY <1>1 DEF CaptureSteps, CaptureReads, CaptureGets, CaptureStores, Spans
<1>2. CASE UNCHANGED captureVars
  BY <1>2
<1> QED
  BY <1>1, <1>2, WorkerUsers

\* Playback is at one of its places.
LEMMA PlaybackTypesStep ==
  ASSUME TypeOK, Next
  PROVE  PlaybackTypes'
<1>t. PlaybackTypes
  BY TypeParts
<1> USE <1>t DEF PlaybackTypes, Playing, Quits
<1>1. CASE PlaybackSteps
  BY <1>1 DEF PlaybackSteps, PlaybackWakes, PlaybackDrains, PlaybackPrepares, PreparePrompt,
              PrepareRemote, PlaybackAuthorizes, PlaybackWrites, FlushPlaybackEnds
<1>2. CASE FlushPlayback
  BY <1>2 DEF FlushPlayback
<1>3. CASE UNCHANGED playback
  BY <1>3
<1> QED
  BY <1>1, <1>2, <1>3, WorkerUsers

\* A frame that is sent is one of the capture ring, with at most a frame of reference.
LEMMA SendTypesStep ==
  ASSUME TypeOK, Next
  PROVE  SendTypes'
<1>t. SendTypes /\ RingTypes
  BY TypeParts
<1>e. <<>> \in Seq(Spans) /\ Len(<<>>) = 0
  BY EmptySeq
<1> USE <1>t, Capacities DEF SendTypes
<1>1. CASE SendWakes \/ SendReturns
  <2>1. send' \in {"taking", "idle"} /\ (hand' = hand \/ hand' = <<>>)
    BY <1>1 DEF SendWakes, SendReturns, NoFrame
  <2>2. 0 <= Parts + 1
    OBVIOUS
  <2>3. CASE hand' = <<>>
    BY <1>e, <2>1, <2>2, <2>3
  <2>4. CASE hand' = hand
    BY <2>1, <2>4
  <2> QED
    BY <2>1, <2>3, <2>4
<1>2. CASE SendTakes
  <2>1. ASSUME capRing # <<>>
        PROVE  Head(capRing) \in Spans /\ <<Head(capRing)>> \in Seq(Spans) /\ Len(<<Head(capRing)>>) = 1
    BY <2>1, Taken DEF RingTypes
  <2>2. ASSUME Len(refRing) >= Parts
        PROVE  SubSeq(refRing, 1, Parts) \in Seq(Spans) /\ Len(SubSeq(refRing, 1, Parts)) = Parts
    BY <2>2, LenProperties, SubSeqProperties, ElementOfSeq DEF RingTypes
  <2>3. ASSUME capRing # <<>>, Len(refRing) >= Parts
        PROVE  /\ <<Head(capRing)>> \o SubSeq(refRing, 1, Parts) \in Seq(Spans)
               /\ Len(<<Head(capRing)>> \o SubSeq(refRing, 1, Parts)) = Parts + 1
    BY <2>1, <2>2, <2>3, ConcatProperties
  <2>4. \/ capRing = <<>> /\ send' = "idle" /\ hand' = hand
        \/ capRing # <<>> /\ ~(Len(refRing) >= Parts) /\ send' = "sending" /\ hand' = <<Head(capRing)>>
        \/ /\ capRing # <<>> /\ Len(refRing) >= Parts /\ send' = "sending"
           /\ hand' = <<Head(capRing)>> \o SubSeq(refRing, 1, Parts)
    BY <1>2 DEF SendTakes
  <2>5. 1 <= Parts + 1 /\ Parts + 1 <= Parts + 1
    OBVIOUS
  <2>6. CASE capRing = <<>>
    BY <2>4, <2>6
  <2>7. CASE capRing # <<>> /\ ~(Len(refRing) >= Parts)
    BY <2>1, <2>4, <2>5, <2>7
  <2>8. CASE capRing # <<>> /\ Len(refRing) >= Parts
    BY <2>3, <2>4, <2>5, <2>8
  <2> QED
    BY <2>6, <2>7, <2>8
<1>3. CASE UNCHANGED sendVars
  BY <1>3
<1> QED
  BY <1>1, <1>2, <1>3, WorkerUsers

\* The RTC worker is at one of its places, its connection in one of its states.
LEMMA RtcTypesStep ==
  ASSUME TypeOK, Next
  PROVE  RtcTypes'
<1>t. RtcTypes
  BY TypeParts
<1> USE <1>t DEF RtcTypes
<1>1. CASE RtcSteps
  BY <1>1 DEF RtcSteps, RtcConnects, RtcLoses, RtcHears, RtcPushes
<1>2. CASE Leave \/ FlushReturns
  BY <1>2 DEF Leave, FlushReturns
<1>3. CASE UNCHANGED rtcVars
  BY <1>3
<1> QED
  BY <1>1, <1>2, <1>3, WorkerUsers

\* Only the control worker moves its own place, and the end of a flush of playback.
LEMMA ControlUsers ==
  ASSUME Next
  PROVE  Calls \/ Starting \/ Flushing \/ Leaving \/ Stopping \/ FlushPlaybackEnds
         \/ UNCHANGED controlVars
BY DEF Next, CaptureSteps, CaptureReads, CaptureGets, CaptureStores, PlaybackSteps, PlaybackWakes,
       PlaybackDrains, PlaybackPrepares, PlaybackAuthorizes, PlaybackWrites, SendSteps, SendWakes,
       SendTakes, SendReturns, RtcSteps, RtcConnects, RtcLoses, RtcHears, RtcPushes

\* Each worker is created, or not, and the next place is the next worker's.
LEMMA WorkerStarts ==
  ASSUME StartWorker
  PROVE  \E w \in Workers :
           /\ control.at = w /\ control' = [control EXCEPT !.at = AfterWorker[w]]
           /\ alive' \in {alive, alive \union {w}}
           /\ AfterWorker[w] \in {"pb", "snd", "started"}
BY DEF StartWorker, Workers, AfterWorker, Goes

\* A stop has seen the end of each worker in turn, or gives up on one.
LEMMA WorkerEnds ==
  ASSUME WaitForWorker
  PROVE  \/ /\ control.at = "wait_snd" /\ control' = [control EXCEPT !.at = "wait_cap"]
            /\ alive' = alive \ {"snd"} /\ ("snd" \in alive => send = "idle")
         \/ /\ control.at = "wait_cap" /\ control' = [control EXCEPT !.at = "wait_pb"]
            /\ alive' = alive \ {"cap"} /\ ("cap" \in alive => capture = "idle")
         \/ /\ control.at = "wait_pb" /\ control' = [control EXCEPT !.at = "close"]
            /\ alive' = alive \ {"pb"} /\ ("pb" \in alive => playback = "idle")
         \/ /\ control.at \in {"wait_snd", "wait_cap", "wait_pb"}
            /\ control' = [control EXCEPT !.at = Shutdown] /\ UNCHANGED alive
<1>1. PICK w \in Workers :
        /\ Waiting(w)
        /\ \/ /\ w \in alive => AtRest(w)
              /\ alive' = alive \ {w}
              /\ control' = [control EXCEPT !.at = AfterWait[w]]
           \/ /\ control' = [control EXCEPT !.at = Shutdown]
              /\ UNCHANGED alive
  BY DEF WaitForWorker
<1>2. CASE w = "snd"
  BY <1>1, <1>2 DEF Waiting, AtRest, AfterWait
<1>3. CASE w = "cap"
  BY <1>1, <1>3 DEF Waiting, AtRest, AfterWait
<1>4. CASE w = "pb"
  BY <1>1, <1>4 DEF Waiting, AtRest, AfterWait
<1> QED
  BY <1>1, <1>2, <1>3, <1>4 DEF Workers

\* The control worker is at a place of the call it is in.
LEMMA ControlStep ==
  ASSUME TypeOK, ControlFits, Next
  PROVE  ControlTypes' /\ ControlFits'
<1>t. ControlTypes /\ FlagTypes
  BY TypeParts
<1> USE <1>t DEF ControlTypes, ControlFits, Places, StartPlaces, FlushPlaces, LeavePlaces, WaitPlaces,
                 Goes, Idle, Down
<1>1. CASE Calls
  <2>1. CASE StartCalled
    BY <2>1 DEF StartCalled
  <2>2. CASE BeginCalled
    BY <2>2 DEF BeginCalled
  <2>3. CASE EndCalled
    BY <2>3 DEF EndCalled
  <2>5. CASE StopCalled
    BY <2>5 DEF StopCalled
  <2>4. CASE Prompt
    BY <2>4 DEF Prompt
  <2> QED
    BY <1>1, <2>1, <2>2, <2>3, <2>4, <2>5 DEF Calls
<1>2. CASE StartDevices
  BY <1>2 DEF StartDevices
<1>3. CASE StartWorker
  <2>1. UNCHANGED talking
    BY <1>3 DEF StartWorker
  <2> QED
    BY <1>3, <2>1, WorkerStarts DEF Workers
<1>4. CASE StartReturns
  BY <1>4 DEF StartReturns
<1>5. CASE Flushing
  <2>1. ASSUME NEW from \in FlushPlaces, NEW to \in FlushPlaces, Goes(from, to) \/ FlushFailure(from, to),
               UNCHANGED talking
        PROVE  ControlTypes' /\ ControlFits'
    <3>1. control.call \in {"begin", "refused", "end"}
      BY <2>1 DEF FlushFailure
    <3>2. control' = [call |-> control.call, at |-> to] \/ control' = [call |-> "refused", at |-> to]
      BY <2>1 DEF FlushFailure
    <3>3. control'.at \in FlushPlaces /\ control'.call \in {"begin", "refused", "end"}
      BY <3>1, <3>2
    <3>4. ControlTypes'
      BY <3>1, <3>2
    <3> QED
      BY <2>1, <3>3, <3>4
  <2>2. CASE FlushCapture
    BY <2>1, <2>2 DEF FlushCapture
  <2>3. CASE FlushPlayback
    <3>1. UNCHANGED talking /\ (UNCHANGED control \/ FlushFailure("flush_pb", "flush_snd"))
      BY <2>3 DEF FlushPlayback
    <3> QED
      BY <2>1, <3>1
  <2>5. CASE FlushSend
    BY <2>1, <2>5 DEF FlushSend
  <2>4. CASE FlushReturns
    BY <2>4 DEF FlushReturns
  <2> QED
    BY <1>5, <2>2, <2>3, <2>4, <2>5 DEF Flushing
<1>6. CASE FlushPlaybackEnds
  BY <1>6 DEF FlushPlaybackEnds
<1>7. CASE Leaving
  BY <1>7 DEF Leaving, Leave, EndSession
<1>8. CASE Interrupt \/ CloseDevices \/ Destroy
  <2>1. CASE Interrupt
    BY <2>1 DEF Interrupt
  <2>2. CASE CloseDevices
    BY <2>2 DEF CloseDevices, Shutdown
  <2>3. CASE Destroy
    BY <2>3 DEF Destroy
  <2> QED
    BY <1>8, <2>1, <2>2, <2>3
<1>9. CASE WaitForWorker
  <2>1. UNCHANGED talking
    BY <1>9 DEF WaitForWorker
  <2> QED
    BY <1>9, <2>1, WorkerEnds DEF Shutdown
<1>10. CASE UNCHANGED controlVars
  BY <1>10
<1> QED
  BY <1>1, <1>2, <1>3, <1>4, <1>5, <1>6, <1>7, <1>8, <1>9, <1>10, ControlUsers
     DEF Starting, Stopping

\* Who may change the connection, the conversation or what is known of either.
LEMMA LinkUsers ==
  ASSUME Next
  PROVE  \/ RtcConnects \/ RtcLoses \/ RtcHears \/ RtcPushes \/ PlaybackWrites
         \/ StartCalled \/ BeginCalled \/ EndCalled \/ StopCalled \/ Prompt \/ Starting
         \/ FlushCapture \/ FlushPlayback \/ FlushSend \/ FlushPlaybackEnds \/ FlushReturns
         \/ Leave \/ EndSession \/ Interrupt \/ WaitForWorker \/ CloseDevices \/ Destroy
         \/ UNCHANGED <<connected, rtcVars, controlVars, span, lost, base>>
BY DEF Next, CaptureSteps, CaptureReads, CaptureGets, CaptureStores, PlaybackSteps, PlaybackWakes,
       PlaybackDrains, PlaybackPrepares, PlaybackAuthorizes, SendSteps, SendWakes, SendTakes,
       SendReturns, RtcSteps, Calls, Flushing, Leaving, Stopping

-----------------------------------------------------------------------------
(* The connection                                                            *)

\* Media is connected only in a conversation, and a connection is newer than the
\* one lost and the ones of the conversation before.
LEMMA LinkStep ==
  ASSUME TypeOK, ControlFits, LinkFits, Next
  PROVE  LinkFits'
<1>t. RtcTypes /\ HistoryTypes /\ FlagTypes /\ ControlTypes
  BY TypeParts
<1> USE <1>t, Capacities DEF LinkFits, RtcTypes, HistoryTypes, FlagTypes, ControlTypes, Spans, WaitPlaces
<1>1. CASE RtcConnects \/ RtcLoses
  BY <1>1 DEF RtcConnects, RtcLoses, Disconnect
<1>2. CASE RtcHears \/ RtcPushes
  BY <1>2 DEF RtcHears, RtcPushes
<1>3. CASE PlaybackWrites
  <2>1. UNCHANGED <<link, talking, control, rtc, span, lost, base>> /\ (connected' => connected)
    BY <1>3 DEF PlaybackWrites, EnqueueReference
  <2> QED
    BY <2>1
<1>4. CASE StartCalled
  BY <1>4 DEF StartCalled, ControlFits, Down
<1>5. CASE BeginCalled
  BY <1>5 DEF BeginCalled, ControlFits, Idle
<1>6. CASE EndCalled \/ StopCalled \/ Prompt
  BY <1>6 DEF EndCalled, StopCalled, Prompt, Idle
<1>7. CASE Starting
  <2>1. UNCHANGED <<link, talking, rtc, connected, span, lost, base>> /\ control.at \in StartPlaces
    BY <1>7, WorkerStarts DEF Starting, StartDevices, StartWorker, StartReturns, StartPlaces, Workers, Goes
  <2> QED
    BY <2>1 DEF ControlFits, StartPlaces
<1>8. CASE FlushCapture \/ FlushPlayback \/ FlushSend \/ FlushPlaybackEnds
  <2>1. UNCHANGED <<link, talking, rtc, connected, span, lost, base>>
    BY <1>8 DEF FlushCapture, FlushPlayback, FlushSend, FlushPlaybackEnds
  <2>2. UNCHANGED control \/ control.at \in FlushPlaces
    BY <1>8 DEF FlushCapture, FlushPlayback, FlushSend, FlushPlaybackEnds, FlushFailure, Goes, FlushPlaces
  <2> QED
    BY <2>1, <2>2 DEF FlushPlaces
<1>9. CASE FlushReturns
  <2>1. link = "out" /\ connected = FALSE /\ rtc # "pushing"
    BY <1>9 DEF FlushReturns
  <2>2. link' = "joined" => talking'
    BY <1>9, <2>1 DEF FlushReturns
  <2>3. /\ UNCHANGED <<connected, rtc, span, lost>>
        /\ link' \in {"out", "joined"} /\ base' \in {base, span} /\ control'.at = "idle"
    BY <1>9, <2>1 DEF FlushReturns, Idle
  <2> QED
    BY <2>1, <2>2, <2>3
<1>10. CASE Leave
  BY <1>10 DEF Leave, Disconnect
<1>11. CASE EndSession
  BY <1>11 DEF EndSession, Disconnect
<1>12. CASE Interrupt
  BY <1>12 DEF Interrupt, Goes
<1>13. CASE WaitForWorker
  <2>1. UNCHANGED <<link, talking, rtc, connected, span, lost, base>>
    BY <1>13 DEF WaitForWorker
  <2>2. /\ control.at \in {"wait_snd", "wait_cap", "wait_pb"}
        /\ control'.at \in {"wait_cap", "wait_pb", "close", Shutdown}
    BY <1>13, WorkerEnds
  <2> QED
    BY <2>1, <2>2 DEF Shutdown
<1>14. CASE CloseDevices \/ Destroy
  BY <1>14 DEF CloseDevices, Destroy, Goes, Shutdown, Down
<1>15. CASE UNCHANGED <<connected, rtcVars, controlVars, span, lost, base>>
  BY <1>15
<1> QED
  BY <1>1, <1>2, <1>3, <1>4, <1>5, <1>6, <1>7, <1>8, <1>9, <1>10, <1>11, <1>12, <1>13, <1>14, <1>15, LinkUsers

\* Who changes whether the rings are there, whether a stop is complete, and who runs.
LEMMA RingLifeUsers ==
  ASSUME Next
  PROVE  \/ StartCalled \/ StartDevices \/ StartWorker \/ Interrupt \/ WaitForWorker
         \/ CloseDevices \/ Destroy \/ UNCHANGED lifeVars
BY DEF Next, CaptureSteps, CaptureReads, CaptureGets, CaptureStores, PlaybackSteps, PlaybackWakes,
       PlaybackDrains, PlaybackPrepares, PlaybackAuthorizes, PlaybackWrites, FlushPlaybackEnds,
       SendSteps, SendWakes, SendTakes, SendReturns, RtcSteps, RtcConnects, RtcLoses, RtcHears,
       RtcPushes, Calls, BeginCalled, EndCalled, StopCalled, Prompt, Starting, StartReturns,
       Flushing, FlushCapture, FlushPlayback, FlushSend, FlushReturns, Leaving, Leave, EndSession,
       Stopping

\* A worker that is not there now was not there before, or has come to rest.
LEMMA AliveUsers ==
  ASSUME Next, RingsOutliveUsers
  PROVE  /\ "cap" \notin alive' => capture = "idle"
         /\ "pb" \notin alive' => playback = "idle"
         /\ "snd" \notin alive' => send = "idle"
<1>1. CASE StartCalled
  BY <1>1 DEF StartCalled, RingsOutliveUsers
<1>2. CASE StartWorker
  BY <1>2, WorkerStarts DEF RingsOutliveUsers
<1>3. CASE WaitForWorker
  BY <1>3, WorkerEnds DEF RingsOutliveUsers
<1>4. CASE UNCHANGED alive
  BY <1>4 DEF RingsOutliveUsers
<1> QED
  BY <1>1, <1>2, <1>3, <1>4, LifeUsers DEF StartDevices, Interrupt

-----------------------------------------------------------------------------
(* The rings, the devices and the workers                                    *)

\* A start or a stop is where its effects say it is.
LEMMA LifeStep ==
  ASSUME TypeOK, ControlFits, LinkFits, LifeFits, RingsOutliveUsers, Next
  PROVE  LifeFits'
<1>t. LifeTypes /\ FlagTypes /\ ControlTypes
  BY TypeParts
<1> USE <1>t DEF LifeFits, LifeTypes, FlagTypes, ControlTypes, StartPlaces, FlushPlaces, LeavePlaces, WaitPlaces
<1>1. CASE Calls
  <2>1. CASE StartCalled
    BY <2>1 DEF StartCalled
  <2>2. CASE ~StartCalled
    <3>1. UNCHANGED lifeVars /\ (UNCHANGED control \/ control = Idle)
      BY <1>1, <2>2 DEF Calls, BeginCalled, EndCalled, StopCalled, Prompt
    <3>2. control' = control \/ control' \in {[call |-> "begin", at |-> "flush_cap"],
              [call |-> "end", at |-> "leave"], [call |-> "stop", at |-> "interrupt"]}
      BY <1>1, <2>2 DEF Calls, BeginCalled, EndCalled, StopCalled, Prompt
    <3> QED
      BY <3>1, <3>2 DEF Idle
  <2> QED
    BY <2>1, <2>2
<1>2. CASE StartDevices
  BY <1>2 DEF StartDevices, Goes, ControlFits
<1>3. CASE StartWorker
  <2>1. UNCHANGED <<rings, complete, started>>
    BY <1>3 DEF StartWorker
  <2> QED
    BY <1>3, <2>1, WorkerStarts DEF Workers, ControlFits
<1>4. CASE StartReturns
  BY <1>4 DEF StartReturns, Idle, ControlFits
<1>5. CASE Flushing \/ FlushPlaybackEnds
  <2>1. UNCHANGED lifeVars
    BY <1>5 DEF Flushing, FlushCapture, FlushPlayback, FlushSend, FlushReturns, FlushPlaybackEnds
  <2>2. UNCHANGED control \/ (control.at \in FlushPlaces /\ control'.at \in FlushPlaces \union {"idle"})
    BY <1>5 DEF Flushing, FlushCapture, FlushPlayback, FlushSend, FlushReturns, FlushPlaybackEnds,
                FlushFailure, Goes, Idle
  <2> QED
    BY <2>1, <2>2 DEF ControlFits
<1>6. CASE Leaving
  BY <1>6 DEF Leaving, Leave, EndSession, ControlFits
<1>7. CASE Interrupt
  BY <1>7 DEF Interrupt, Goes, ControlFits
<1>8. CASE WaitForWorker
  <2>1. UNCHANGED <<rings, complete, started>>
    BY <1>8 DEF WaitForWorker
  <2> QED
    BY <1>8, <2>1, WorkerEnds DEF Shutdown, ControlFits
<1>9. CASE CloseDevices
  BY <1>9 DEF CloseDevices, Goes, Shutdown, ControlFits
<1>10. CASE Destroy
  BY <1>10 DEF Destroy, Down, ControlFits
<1>11. CASE UNCHANGED <<lifeVars, controlVars>>
  BY <1>11
<1> QED
  BY <1>1, <1>2, <1>3, <1>4, <1>5, <1>6, <1>7, <1>8, <1>9, <1>10, <1>11, RingLifeUsers, ControlUsers
     DEF Calls, Starting, Stopping

\* A ring is freed, and a worker is gone, only when nothing uses it any more.
LEMMA RingsStep ==
  ASSUME TypeOK, ControlFits, LinkFits, LifeFits, RingsOutliveUsers, Next
  PROVE  RingsOutliveUsers'
<1>t. LifeTypes /\ FlagTypes /\ ControlTypes /\ RtcTypes
  BY TypeParts
<1> USE <1>t DEF LifeTypes, FlagTypes, ControlTypes
<1>a. "cap" \notin alive' => capture' = "idle"
  <2>1. CASE CaptureSteps
    BY <2>1 DEF CaptureSteps, CaptureReads, CaptureGets, CaptureStores, RingsOutliveUsers
  <2>2. CASE UNCHANGED captureVars
    BY <2>2, AliveUsers DEF RingsOutliveUsers
  <2> QED
    BY <2>1, <2>2, WorkerUsers
<1>b. "pb" \notin alive' => playback' = "idle"
  <2>1. CASE PlaybackSteps
    <3>1. UNCHANGED alive
      BY <2>1 DEF PlaybackSteps, PlaybackWakes, PlaybackDrains, PlaybackPrepares,
                  PlaybackAuthorizes, PlaybackWrites, FlushPlaybackEnds
    <3>2. playback # "idle" \/ "pb" \in alive
      BY <2>1 DEF PlaybackSteps, PlaybackWakes, PlaybackDrains, PlaybackPrepares,
                  PlaybackAuthorizes, PlaybackWrites, FlushPlaybackEnds, Playing
    <3> QED
      BY <3>1, <3>2 DEF RingsOutliveUsers
  <2>2. CASE FlushPlayback
    BY <2>2 DEF FlushPlayback
  <2>3. CASE UNCHANGED playback
    BY <2>3, AliveUsers DEF RingsOutliveUsers
  <2> QED
    BY <2>1, <2>2, <2>3, WorkerUsers
<1>c. "snd" \notin alive' => send' = "idle"
  <2>1. CASE SendWakes \/ SendTakes \/ SendReturns
    BY <2>1 DEF SendWakes, SendTakes, SendReturns, RingsOutliveUsers
  <2>2. CASE UNCHANGED sendVars
    BY <2>2, AliveUsers DEF RingsOutliveUsers
  <2> QED
    BY <2>1, <2>2, WorkerUsers
<1>d. ~rings' => alive' = {} /\ rtc' # "pushing"
  <2>1. rtc' = "pushing" => rings'
    BY LifeStep, LinkStep, ControlStep DEF LifeFits, LinkFits, ControlFits, WaitPlaces
  <2>2. ~rings' => alive' = {}
    <3>1. CASE StartCalled \/ StartDevices
      BY <3>1 DEF StartCalled, StartDevices, LifeFits
    <3>2. CASE StartWorker
      <4>1. UNCHANGED rings
        BY <3>2 DEF StartWorker
      <4> QED
        BY <3>2, <4>1, WorkerStarts DEF LifeFits, Workers, WaitPlaces
    <3>3. CASE WaitForWorker
      <4>1. UNCHANGED rings /\ alive' \subseteq alive
        BY <3>3, WorkerEnds DEF WaitForWorker
      <4> QED
        BY <4>1 DEF RingsOutliveUsers
    <3>4. CASE Destroy
      BY <3>4 DEF Destroy, RingsOutliveUsers
    <3>5. CASE Interrupt \/ CloseDevices
      BY <3>5 DEF Interrupt, CloseDevices, RingsOutliveUsers
    <3>6. CASE UNCHANGED lifeVars
      BY <3>6 DEF RingsOutliveUsers
    <3> QED
      BY <3>1, <3>2, <3>3, <3>4, <3>5, <3>6, RingLifeUsers
  <2> QED
    BY <2>1, <2>2
<1>e. complete' => alive' = {}
  <2>1. CASE StartCalled
    BY <2>1 DEF StartCalled
  <2>2. CASE StartWorker
    <3>1. UNCHANGED complete
      BY <2>2 DEF StartWorker
    <3> QED
      BY <2>2, <3>1, WorkerStarts DEF LifeFits, Workers, LeavePlaces
  <2>3. CASE WaitForWorker
    <3>1. UNCHANGED complete /\ alive' \subseteq alive
      BY <2>3, WorkerEnds DEF WaitForWorker
    <3> QED
      BY <3>1 DEF RingsOutliveUsers
  <2>4. CASE CloseDevices
    BY <2>4 DEF CloseDevices, Goes, LifeFits, Workers
  <2>5. CASE StartDevices \/ Interrupt \/ Destroy
    BY <2>5 DEF StartDevices, Interrupt, Destroy, RingsOutliveUsers
  <2>6. CASE UNCHANGED lifeVars
    BY <2>6 DEF RingsOutliveUsers
  <2> QED
    BY <2>1, <2>2, <2>3, <2>4, <2>5, <2>6, RingLifeUsers
<1> QED
  BY <1>a, <1>b, <1>c, <1>d, <1>e DEF RingsOutliveUsers

-----------------------------------------------------------------------------
(* What playback has seen of prompts and of lost connections                 *)

\* Who changes what playback has seen, or the generation it compares it with.
LEMMA PlaybackUsers ==
  ASSUME Next
  PROVE  \/ PlaybackSteps \/ FlushPlayback \/ StartCalled \/ Prompt \/ CloseDevices
         \/ UNCHANGED <<playbackVars, promptVars, pendingVars, complete, sawLost>>
BY DEF Next, CaptureSteps, CaptureReads, CaptureGets, CaptureStores, SendSteps, SendWakes, SendTakes,
       SendReturns, RtcSteps, RtcConnects, RtcLoses, RtcHears, RtcPushes, Calls, BeginCalled,
       EndCalled, StopCalled, Starting, StartDevices, StartWorker, StartReturns, Flushing,
       FlushCapture, FlushSend, FlushReturns, Leaving, Leave, EndSession, Stopping, Interrupt,
       WaitForWorker, Destroy

\* What playback has seen is never newer than the prompt of now, and what it
\* writes is never older than what it has seen.
LEMMA GenerationStep ==
  ASSUME TypeOK, RingsOutliveUsers, GenerationFits, Next
  PROVE  GenerationFits'
<1>t. PromptTypes /\ FlagTypes /\ PlaybackTypes /\ HistoryTypes
  BY TypeParts
<1> USE <1>t, Capacities DEF PromptTypes, Generations, FlagTypes, PlaybackTypes, HistoryTypes,
                             GenerationFits
<1>1. CASE PlaybackWakes
  BY <1>1 DEF PlaybackWakes, Playing
<1>2. CASE PlaybackDrains
  BY <1>2 DEF PlaybackDrains
<1>3. CASE PlaybackPrepares
  <2>1. playback = "prepare" /\ UNCHANGED <<generation, complete>>
    BY <1>3 DEF PlaybackPrepares
  <2>2. \/ playback' = "authorize" /\ UNCHANGED <<sawGen, sawPrompt, sawLost>>
        \/ playback' = "idle" /\ sawGen' = 0 /\ sawPrompt' = FALSE /\ sawLost' = 0
    BY <1>3 DEF PlaybackPrepares, PreparePrompt, PrepareRemote, Quits
  <2>3. pendingGen' \in {pendingGen, generation, sawGen}
    BY <1>3 DEF PlaybackPrepares, PreparePrompt, PrepareRemote
  <2> QED
    BY <2>1, <2>2, <2>3
<1>4. CASE PlaybackAuthorizes
  BY <1>4 DEF PlaybackAuthorizes, Quits
<1>5. CASE PlaybackWrites
  BY <1>5 DEF PlaybackWrites, Quits
<1>6. CASE FlushPlaybackEnds
  BY <1>6 DEF FlushPlaybackEnds, Playing
<1>7. CASE FlushPlayback
  <2>1. UNCHANGED <<sawGen, sawPrompt, sawLost, generation, complete>>
    BY <1>7 DEF FlushPlayback
  <2>2. \/ playback = "idle" /\ playback' = "clearing" /\ pendingGen' = generation
        \/ UNCHANGED <<playback, pendingGen>>
    BY <1>7 DEF FlushPlayback, Playing
  <2> QED
    BY <2>1, <2>2
<1>8. CASE StartCalled
  <2>1. playback = "idle"
    BY <1>8 DEF StartCalled, RingsOutliveUsers
  <2> QED
    BY <1>8, <2>1 DEF StartCalled
<1>9. CASE Prompt
  BY <1>9 DEF Prompt
<1>10. CASE CloseDevices
  BY <1>10 DEF CloseDevices
<1>11. CASE UNCHANGED <<playbackVars, promptVars, pendingVars, complete, sawLost>>
  BY <1>11
<1> QED
  BY <1>1, <1>2, <1>3, <1>4, <1>5, <1>6, <1>7, <1>8, <1>9, <1>10, <1>11, PlaybackUsers
     DEF PlaybackSteps

-----------------------------------------------------------------------------
(* Rings whose frames are all of later connections                           *)

\* Connections are numbers.
LEMMA SpanRings ==
  /\ Spans \subseteq Nat
  /\ \A r : r \in Seq(Spans) => r \in Seq(Nat)
BY Capacities DEF Spans

\* A ring with nothing in it is later than any connection.
LEMMA AfterNone ==
  ASSUME NEW n
  PROVE  After(<<>>, n)
BY EmptySeq DEF After

\* A ring that is later than a connection is later than the ones before it.
LEMMA AfterEarlier ==
  ASSUME NEW r \in Seq(Nat), NEW m \in Nat, NEW n \in Nat, n <= m, After(r, m)
  PROVE  After(r, n)
<1>1. \A i \in 1..Len(r) : r[i] \in Nat
  BY ElementOfSeq
<1> QED
  BY <1>1 DEF After

\* A frame that is taken from a ring was in it.
LEMMA AfterTaken ==
  ASSUME NEW r \in Seq(Nat), r # <<>>, NEW n \in Nat, After(r, n)
  PROVE  Head(r) > n /\ After(Tail(r), n)
<1>1. Len(r) \in Nat /\ Len(r) # 0
  BY EmptySeq
<1>2. Head(r) = r[1]
  BY <1>1
<1>3. Len(Tail(r)) = Len(r) - 1 /\ \A i \in 1..Len(Tail(r)) : Tail(r)[i] = r[i + 1]
  BY HeadTailProperties
<1> QED
  BY <1>1, <1>2, <1>3 DEF After

\* A frame of a later connection that is added keeps the ring later.
LEMMA AfterAdded ==
  ASSUME NEW r \in Seq(Nat), NEW e \in Nat, NEW n \in Nat, e > n, After(r, n)
  PROVE  After(Append(r, e), n)
<1>1. Len(r) \in Nat
  BY LenProperties
<1> QED
  BY <1>1, AppendProperties DEF After

\* Two rings that are later, one after the other, are later.
LEMMA AfterJoined ==
  ASSUME NEW r \in Seq(Nat), NEW s \in Seq(Nat), NEW n \in Nat, After(r, n), After(s, n)
  PROVE  After(r \o s, n)
<1>1. /\ Len(r) \in Nat /\ Len(s) \in Nat /\ Len(r \o s) = Len(r) + Len(s)
      /\ \A i \in 1..Len(r \o s) : (r \o s)[i] = IF i <= Len(r) THEN r[i] ELSE s[i - Len(r)]
  BY LenProperties, ConcatProperties
<1>2. ASSUME NEW i \in 1..Len(r \o s)
      PROVE  (r \o s)[i] > n
  <2>1. CASE i <= Len(r)
    BY <1>1, <2>1 DEF After
  <2>2. CASE ~(i <= Len(r))
    <3>1. i - Len(r) \in 1..Len(s)
      BY <1>1, <2>2
    <3> QED
      BY <1>1, <2>2, <3>1 DEF After
  <2> QED
    BY <2>1, <2>2
<1> QED
  BY <1>2 DEF After

\* A part of a ring that is later is later.
LEMMA AfterPart ==
  ASSUME NEW r \in Seq(Nat), NEW a \in Nat \ {0}, NEW b \in Nat, b <= Len(r), NEW n \in Nat, After(r, n)
  PROVE  After(SubSeq(r, a, b), n)
<1>1. Len(r) \in Nat
  BY LenProperties
<1>2. CASE a <= b + 1
  <2>1. \A i \in a..b : r[i] \in Nat
    BY <1>1, ElementOfSeq
  <2>2. /\ Len(SubSeq(r, a, b)) = b - a + 1
        /\ \A i \in 1..(b - a + 1) : SubSeq(r, a, b)[i] = r[a + i - 1]
    BY <1>1, <1>2, <2>1, SubSeqProperties
  <2> QED
    BY <1>1, <1>2, <2>2 DEF After
<1>3. CASE ~(a <= b + 1)
  <2>1. Len(SubSeq(r, a, b)) = 0
    BY <1>1, <1>3
  <2> QED
    BY <2>1 DEF After
<1> QED
  BY <1>2, <1>3

\* The parts of one frame are all of its connection.
LEMMA AfterParts ==
  ASSUME NEW t \in Nat, NEW k \in Nat, NEW n \in Nat, t > n
  PROVE  [i \in 1..k |-> t] \in Seq(Nat) /\ After([i \in 1..k |-> t], n)
<1>1. [i \in 1..k |-> t] \in Seq(Nat) /\ Len([i \in 1..k |-> t]) = k
  OBVIOUS
<1> QED
  BY <1>1 DEF After

-----------------------------------------------------------------------------
(* Remote audio of a lost connection                                         *)

\* Who changes what is known of a loss, or the remote audio that playback has.
LEMMA RemoteUsers ==
  ASSUME Next
  PROVE  \/ PlaybackSteps \/ RtcConnects \/ RtcLoses \/ RtcPushes \/ StartCalled \/ FlushPlayback
         \/ Leaving \/ Destroy
         \/ UNCHANGED <<clear, pbRing, pendingVars, playbackVars, lost, sawLost>>
BY DEF Next, CaptureSteps, CaptureReads, CaptureGets, CaptureStores, SendSteps, SendWakes, SendTakes,
       SendReturns, RtcSteps, RtcHears, Calls, BeginCalled, EndCalled, StopCalled, Prompt, Starting,
       StartDevices, StartWorker, StartReturns, Flushing, FlushCapture, FlushSend, FlushReturns,
       Stopping, Interrupt, WaitForWorker, CloseDevices

\* What is taken out of the ring to be played stays later than a connection.
LEMMA PreparedAfter ==
  ASSUME TypeOK, PlaybackPrepares, NEW n \in Nat, RemoteAfter(n)
  PROVE  After(pbRing', n) /\ (pending'.src = "rtc" => pending'.tag > n)
<1>t. pbRing \in Seq(Nat)
  BY TypeParts, SpanRings DEF RingTypes
<1>1. CASE UNCHANGED <<pbRing, pending>>
  BY <1>1 DEF RemoteAfter
<1>2. CASE pbRing # <<>> /\ pbRing' = Tail(pbRing) /\ pending' = [src |-> "rtc", tag |-> Head(pbRing), left |-> Parts]
  BY <1>2, <1>t, AfterTaken DEF RemoteAfter
<1>3. CASE UNCHANGED pbRing /\ pending' = [src |-> "prompt", tag |-> 0, left |-> Parts]
  BY <1>3 DEF RemoteAfter
<1> QED
  BY <1>1, <1>2, <1>3 DEF PlaybackPrepares, PreparePrompt, PrepareRemote

\* Playback that did not drop anything since a loss has nothing from before it.
LEMMA LossStep ==
  ASSUME TypeOK, RingsOutliveUsers, LinkFits, FlushFits, LossFits, Next
  PROVE  LossFits'
<1>t. /\ FlagTypes /\ HistoryTypes /\ PlaybackTypes
      /\ lost \in Nat /\ sawLost \in Nat /\ span \in Nat /\ pbRing \in Seq(Nat) /\ pending.tag \in Nat
  BY TypeParts, SpanRings DEF HistoryTypes, RingTypes, PendingTypes
<1>n. Nothing.src # "rtc"
  BY DEF Nothing
<1> USE <1>t, <1>n DEF LossFits, FlagTypes, PlaybackTypes
<1>s. ASSUME NEW n \in Nat, RemoteAfter(n),
             pbRing' = pbRing \/ pbRing' = <<>>,
             \/ pending' = Nothing
             \/ pending'.src = pending.src /\ pending'.tag = pending.tag
      PROVE  After(pbRing', n) /\ (pending'.src = "rtc" => pending'.tag > n)
  BY <1>s, AfterNone DEF RemoteAfter
<1>e. ASSUME NEW n \in Nat, pbRing' = <<>>, pending' = Nothing
      PROVE  After(pbRing', n) /\ (pending'.src = "rtc" => pending'.tag > n)
  BY <1>e, AfterNone
<1>1. CASE PlaybackWakes
  <2>1. /\ playback = "idle" /\ playback' \in {"drain", "source"} /\ sawLost' = lost
        /\ UNCHANGED <<pbRing, pending, lost>> /\ (playback' = "source" => ~clear)
    BY <1>1 DEF PlaybackWakes, Playing
  <2> QED
    BY <2>1 DEF RemoteAfter
<1>2. CASE PlaybackDrains
  <2>1. /\ playback \in {"drain", "source"} /\ playback' = "prepare" /\ UNCHANGED <<clear, lost, sawLost>>
        /\ pbRing' = pbRing \/ pbRing' = <<>>
        /\ pending' = pending \/ pending' = Nothing
        /\ playback = "drain" => pbRing' = <<>> /\ pending' = Nothing
    BY <1>2 DEF PlaybackDrains, Discard
  <2> QED
    BY <2>1, <1>s, <1>e DEF RemoteAfter
<1>3. CASE PlaybackPrepares
  <2>1. playback = "prepare" /\ UNCHANGED <<clear, lost>>
    BY <1>3 DEF PlaybackPrepares
  <2>2. \/ playback' = "authorize" /\ sawLost' = sawLost
        \/ playback' = "idle" /\ sawLost' = 0
    BY <1>3 DEF PlaybackPrepares, PreparePrompt, PrepareRemote, Quits
  <2> QED
    BY <1>3, <2>1, <2>2, PreparedAfter DEF RemoteAfter
<1>4. CASE PlaybackAuthorizes \/ PlaybackWrites
  <2>1. playback \in {"authorize", "writing"} /\ UNCHANGED <<clear, lost, pbRing>>
    BY <1>4 DEF PlaybackAuthorizes, PlaybackWrites
  <2>2. \/ playback' = "writing" /\ sawLost' = sawLost
        \/ playback' = "idle" /\ sawLost' = 0
    BY <1>4 DEF PlaybackAuthorizes, PlaybackWrites, Quits
  <2>3. \/ pending' = Nothing
        \/ pending'.src = pending.src /\ pending'.tag = pending.tag
    BY <1>4, TypeParts DEF PlaybackAuthorizes, PlaybackWrites, Discard, PendingTypes
  <2> QED
    BY <2>1, <2>2, <2>3, <1>s DEF RemoteAfter
<1>5. CASE FlushPlaybackEnds
  <2>1. /\ playback = "clearing" /\ playback' = "idle"
        /\ UNCHANGED <<pbRing, pending, lost, sawLost>>
    BY <1>5 DEF FlushPlaybackEnds, Playing
  <2>2. pbRing' = <<>> /\ pending' = Nothing
    BY <2>1 DEF FlushFits
  <2> QED
    BY <2>1, <2>2, <1>e DEF RemoteAfter
<1>6. CASE FlushPlayback
  <2>1. UNCHANGED <<clear, lost, sawLost>>
    BY <1>6 DEF FlushPlayback
  <2>2. \/ playback = "idle" /\ playback' = "clearing" /\ pbRing' = <<>> /\ pending' = Nothing
        \/ UNCHANGED <<playback, pbRing, pending>>
    BY <1>6 DEF FlushPlayback, Playing, Discard
  <2> QED
    BY <2>1, <2>2, <1>e DEF RemoteAfter
<1>7. CASE RtcConnects
  BY <1>7 DEF RtcConnects, RemoteAfter
<1>8. CASE RtcLoses \/ Leaving
  <2>1. UNCHANGED <<pbRing, pending, playback, sawLost>>
    BY <1>8 DEF RtcLoses, Leaving, Leave, EndSession
  <2>2. \/ clear' /\ lost' = span
        \/ UNCHANGED <<clear, lost>>
    BY <1>8 DEF RtcLoses, Leaving, Leave, EndSession, Disconnect
  <2> QED
    BY <2>1, <2>2 DEF RemoteAfter, LinkFits
<1>9. CASE RtcPushes
  <2>1. UNCHANGED <<clear, pending, playback, lost, sawLost>> /\ span > lost
    BY <1>9 DEF RtcPushes, LinkFits
  <2>2. pbRing' = pbRing \/ pbRing' = Append(pbRing, span)
    BY <1>9 DEF RtcPushes
  <2>3. ASSUME NEW n \in Nat, n <= lost, RemoteAfter(n)
        PROVE  After(pbRing', n)
    <3>1. span > n
      BY <2>1, <2>3
    <3> QED
      BY <2>2, <2>3, <3>1, AfterAdded DEF RemoteAfter
  <2> QED
    BY <2>1, <2>3 DEF RemoteAfter
<1>10. CASE StartCalled
  <2>1. playback = "idle"
    BY <1>10 DEF StartCalled, RingsOutliveUsers
  <2> QED
    BY <1>10, <2>1, <1>e DEF StartCalled, RemoteAfter
<1>11. CASE Destroy
  <2>1. UNCHANGED <<clear, pending, playback, lost, sawLost>> /\ (pbRing' = pbRing \/ pbRing' = <<>>)
    BY <1>11 DEF Destroy
  <2> QED
    BY <2>1, <1>s DEF RemoteAfter
<1>12. CASE UNCHANGED <<clear, pbRing, pendingVars, playbackVars, lost, sawLost>>
  BY <1>12 DEF RemoteAfter
<1> QED
  BY <1>1, <1>2, <1>3, <1>4, <1>5, <1>6, <1>7, <1>8, <1>9, <1>10, <1>11, <1>12, RemoteUsers
     DEF PlaybackSteps

-----------------------------------------------------------------------------
(* The flush before a conversation                                           *)

\* A conversation that is being begun moves on only when a worker has done its part.
LEMMA BeginMoves ==
  ASSUME TypeOK, ControlFits, Next, control'.call = "begin", control'.at # "flush_cap"
  PROVE  /\ control.call = "begin" /\ control.at \in FlushPlaces
         /\ \/ UNCHANGED control
            \/ /\ control.at = "flush_cap" /\ control'.at = "flush_pb"
               /\ capture = "idle" /\ UNCHANGED <<captureVars, playback>>
            \/ FlushPlaybackEnds /\ control.at = "flush_pb" /\ control'.at = "flush_snd"
            \/ /\ control.at = "flush_snd" /\ control'.at = "flushed"
               /\ capRing' = <<>> /\ refRing' = <<>> /\ send = "idle"
               /\ UNCHANGED <<sendVars, pbRing, pendingVars, playback, captureVars>>
<1>t. ControlTypes
  BY TypeParts
<1> USE <1>t DEF ControlTypes, ControlFits, Places, StartPlaces, FlushPlaces, LeavePlaces, WaitPlaces
<1>1. CASE Calls
  BY <1>1 DEF Calls, StartCalled, BeginCalled, EndCalled, StopCalled, Prompt, Idle, Down
<1>2. CASE Starting
  <2>1. CASE StartDevices
    BY <2>1 DEF StartDevices, Goes
  <2>2. CASE StartWorker
    BY <2>2, WorkerStarts DEF Workers
  <2>3. CASE StartReturns
    BY <2>3 DEF StartReturns, Idle
  <2> QED
    BY <1>2, <2>1, <2>2, <2>3 DEF Starting
<1>3. CASE Flushing
  BY <1>3 DEF Flushing, FlushCapture, FlushPlayback, FlushSend, FlushReturns, FlushFailure, Goes, Idle
<1>4. CASE FlushPlaybackEnds
  BY <1>4 DEF FlushPlaybackEnds, Goes
<1>5. CASE Leaving
  BY <1>5 DEF Leaving, Leave, EndSession
<1>6. CASE Stopping
  <2>1. control.at \in WaitPlaces \union {"destroy"}
    BY <1>6, WorkerEnds DEF Stopping, Interrupt, CloseDevices, Destroy, Goes
  <2>2. control'.call \in {control.call, "none"}
    BY <1>6, WorkerEnds DEF Stopping, Interrupt, CloseDevices, Destroy, Goes, Down
  <2> QED
    BY <2>1, <2>2
<1>7. CASE UNCHANGED controlVars
  BY <1>7
<1> QED
  BY <1>1, <1>2, <1>3, <1>4, <1>5, <1>6, <1>7, ControlUsers

\* A flush of playback holds the control worker, and keeps playback empty.
LEMMA ClearingStep ==
  ASSUME TypeOK, ControlFits, LinkFits, FlushFits, Next, playback' = "clearing"
  PROVE  control'.at = "flush_pb" /\ pbRing' = <<>> /\ pending' = Nothing
<1>t. ControlTypes
  BY TypeParts
<1>1. CASE FlushPlayback
  BY <1>1 DEF FlushPlayback, Playing, Discard, FlushFits
<1>2. CASE ~FlushPlayback
  <2>1. playback = "clearing" /\ UNCHANGED playback /\ ~PlaybackSteps
    BY <1>2, WorkerUsers DEF PlaybackSteps, PlaybackWakes, PlaybackDrains, PlaybackPrepares,
       PreparePrompt, PrepareRemote, PlaybackAuthorizes, PlaybackWrites, FlushPlaybackEnds, Playing, Quits
  <2>2. control.at = "flush_pb" /\ pbRing = <<>> /\ pending = Nothing /\ rtc # "pushing"
    BY <2>1 DEF FlushFits, LinkFits, WaitPlaces
  <2>3. UNCHANGED control
    <3>1. ~Calls
      BY <2>2 DEF Calls, StartCalled, BeginCalled, EndCalled, StopCalled, Prompt, Idle, Down
    <3>2. ~Starting
      BY <2>2, WorkerStarts DEF Starting, StartDevices, StartReturns, Goes, Workers
    <3>3. ~Flushing
      BY <1>2, <2>2 DEF Flushing, FlushCapture, FlushSend, FlushReturns, FlushFailure, Goes
    <3>4. ~Leaving /\ ~Stopping
      BY <2>2, WorkerEnds DEF Leaving, Leave, EndSession, Stopping, Interrupt, CloseDevices, Destroy, Goes
    <3> QED
      BY <2>1, <3>1, <3>2, <3>3, <3>4, ControlUsers DEF PlaybackSteps
  <2>4. UNCHANGED pbRing
    BY <1>2, <2>1, <2>2, RingUsers
       DEF PlaybackSteps, CaptureStores, SendTakes, RtcPushes, StartCalled, FlushSend, Destroy, Down
  <2>5. UNCHANGED pending
    BY <1>2, <2>1, <2>2, PromptUsers DEF PlaybackSteps, StartCalled, Prompt, CloseDevices, Down
  <2> QED
    BY <2>2, <2>3, <2>4, <2>5
<1> QED
  BY <1>1, <1>2

\* What the flush of a beginning conversation has emptied is not filled again.
LEMMA FlushStep ==
  ASSUME TypeOK, ControlFits, LinkFits, FlushFits, Next
  PROVE  FlushFits'
<1>t. ControlTypes /\ CaptureTypes /\ PlaybackTypes /\ SendTypes /\ RtcTypes /\ PendingTypes /\ FlagTypes
  BY TypeParts
<1>a. send' # "sending" => hand' = NoFrame
  <2>1. CASE SendWakes \/ SendTakes \/ SendReturns
    BY <2>1 DEF SendWakes, SendTakes, SendReturns, FlushFits
  <2>2. CASE UNCHANGED sendVars
    BY <2>2 DEF FlushFits
  <2> QED
    BY <2>1, <2>2, WorkerUsers
<1>b. ASSUME control'.call = "begin", control'.at \in {"flush_pb", "flush_snd", "flushed"}
      PROVE  /\ capture' # "storing"
             /\ control'.at \in {"flush_snd", "flushed"} => pbRing' = <<>> /\ pending'.src # "rtc"
             /\ control'.at = "flushed" => capRing' = <<>> /\ refRing' = <<>> /\ send' # "sending"
  <2>1. control.call = "begin" /\ control.at \in FlushPlaces /\ control # Down
    BY <1>b, BeginMoves DEF Down
  <2>2. connected = FALSE /\ rtc # "pushing"
    BY <2>1, <1>t DEF LinkFits, FlushPlaces, WaitPlaces, FlagTypes
  <2>3. capture' # "storing"
    <3>1. capture = "storing" => UNCHANGED captureVars \/ capture' # "storing"
      BY WorkerUsers DEF CaptureSteps, CaptureReads, CaptureGets, CaptureStores
    <3>2. capture # "storing" => capture' # "storing"
      BY <2>2, WorkerUsers DEF CaptureSteps, CaptureReads, CaptureGets, CaptureStores
    <3>3. capture # "storing"
      BY <1>b, BeginMoves DEF FlushFits
    <3> QED
      BY <3>2, <3>3
  <2>4. ASSUME control'.at \in {"flush_snd", "flushed"}
        PROVE  pbRing' = <<>> /\ pending'.src # "rtc"
    <3>1. CASE FlushPlaybackEnds
      BY <3>1 DEF FlushPlaybackEnds, Playing, FlushFits, Nothing
    <3>2. CASE ~FlushPlaybackEnds
      <4>1. pbRing = <<>> /\ pending.src # "rtc"
        BY <1>b, <2>1, <2>4, <3>2, BeginMoves DEF FlushFits
      <4>2. pbRing' = <<>>
        BY <2>1, <2>2, <4>1, RingUsers
           DEF CaptureStores, PlaybackDrains, PlaybackPrepares, PreparePrompt, PrepareRemote,
               PlaybackWrites, SendTakes, RtcPushes, StartCalled, FlushPlayback, FlushSend, Destroy
      <4>3. pending'.src # "rtc"
        <5>1. CASE PlaybackWrites
          BY <1>t, <4>1, <5>1 DEF PlaybackWrites, Discard, Nothing, PendingTypes
        <5>2. CASE PlaybackPrepares
          BY <4>1, <5>2 DEF PlaybackPrepares, PreparePrompt, PrepareRemote
        <5>3. CASE PlaybackDrains \/ PlaybackAuthorizes \/ StartCalled \/ FlushPlayback
          <6>1. pending' = pending \/ pending' = Nothing
            BY <5>3 DEF PlaybackDrains, PlaybackAuthorizes, StartCalled, FlushPlayback, Discard
          <6> QED
            BY <4>1, <6>1 DEF Nothing
        <5>4. CASE PlaybackWakes \/ Prompt \/ CloseDevices \/ UNCHANGED pendingVars
          BY <4>1, <5>4 DEF PlaybackWakes, Prompt, CloseDevices
        <5> QED
          BY <5>1, <5>2, <5>3, <5>4, PromptUsers
      <4> QED
        BY <4>2, <4>3
    <3> QED
      BY <3>1, <3>2
  <2>5. ASSUME control'.at = "flushed"
        PROVE  capRing' = <<>> /\ refRing' = <<>> /\ send' # "sending"
    <3>1. CASE capRing' = <<>> /\ refRing' = <<>> /\ send = "idle" /\ UNCHANGED sendVars
      BY <3>1
    <3>2. CASE UNCHANGED control
      <4>1. /\ capRing = <<>> /\ refRing = <<>> /\ send # "sending" /\ capture # "storing"
            /\ pending.src # "rtc"
        BY <2>1, <2>5, <3>2 DEF FlushFits
      <4>2. UNCHANGED refRing \/ refRing' = <<>>
        BY <1>t, <2>1, <4>1, RingUsers, Capacities
           DEF CaptureStores, PlaybackDrains, PlaybackPrepares, PlaybackWrites, EnqueueReference,
               SendTakes, RtcPushes, StartCalled, FlushPlayback, FlushSend, Destroy
      <4>3. UNCHANGED capRing \/ capRing' = <<>>
        BY <2>1, <4>1, RingUsers
           DEF CaptureStores, PlaybackDrains, PlaybackPrepares, PlaybackWrites,
               SendTakes, RtcPushes, StartCalled, FlushPlayback, FlushSend, Destroy
      <4>4. send' # "sending"
        BY <4>1, WorkerUsers DEF SendWakes, SendTakes, SendReturns
      <4> QED
        BY <4>1, <4>2, <4>3, <4>4
    <3> QED
      BY <1>b, <2>5, <3>1, <3>2, BeginMoves DEF FlushPlaces
  <2> QED
    BY <2>3, <2>4, <2>5
<1> QED
  BY <1>a, <1>b, ClearingStep DEF FlushFits

-----------------------------------------------------------------------------
(* The echo reference                                                        *)

\* The reference ring has the room that playback saw: only playback fills it.
LEMMA ReferenceStep ==
  ASSUME TypeOK, RingsOutliveUsers, FlushFits, ReferenceNeverRefused, Next
  PROVE  ReferenceNeverRefused'
<1>t. PlaybackTypes /\ RingTypes /\ PendingTypes /\ pending.left \in Nat /\ Len(refRing) \in Nat
  BY TypeParts, Capacities, LenProperties DEF RingTypes, PendingTypes
<1> SUFFICES ASSUME playback' = "writing", pending'.src = "rtc"
             PROVE  Len(refRing') + pending'.left <= Frames * Parts
  BY DEF ReferenceNeverRefused
<1> USE Capacities
<1>1. CASE PlaybackAuthorizes
  BY <1>1 DEF PlaybackAuthorizes, Quits, ReferenceFits
<1>2. CASE ~PlaybackAuthorizes
  <2>1. ~PlaybackSteps /\ ~FlushPlaybackEnds
    BY <1>2 DEF PlaybackSteps, PlaybackWakes, PlaybackDrains, PlaybackPrepares, PreparePrompt,
                PrepareRemote, PlaybackWrites, FlushPlaybackEnds, Playing, Quits
  <2>2. playback = "writing"
    BY <2>1, WorkerUsers DEF FlushPlayback, Playing
  <2>3. ~StartCalled
    BY <2>2 DEF StartCalled, RingsOutliveUsers
  <2>4. UNCHANGED pending
    BY <2>1, <2>2, <2>3, PromptUsers DEF PlaybackSteps, FlushPlayback, Playing, Prompt, CloseDevices
  <2>5. Len(refRing) + pending.left <= Frames * Parts
    BY <2>2, <2>4 DEF ReferenceNeverRefused
  <2>6. CASE UNCHANGED refRing
    BY <2>4, <2>5, <2>6
  <2>7. CASE refRing' = <<>>
    <3>1. Len(refRing') = 0
      BY <2>7, EmptySeq
    <3> QED
      BY <1>t, <2>4, <2>5, <3>1
  <2>8. CASE Len(refRing) >= Parts /\ refRing' = SubSeq(refRing, Parts + 1, Len(refRing))
    <3>1. Len(refRing') \in Nat /\ Len(refRing') <= Len(refRing)
      BY <1>t, <2>8, SubSeqProperties, ElementOfSeq DEF RingTypes
    <3> QED
      BY <1>t, <2>4, <2>5, <3>1
  <2> QED
    BY <2>1, <2>3, <2>6, <2>7, <2>8, RingUsers
       DEF PlaybackSteps, CaptureStores, SendTakes, RtcPushes, FlushPlayback, FlushSend, Destroy
<1> QED
  BY <1>1, <1>2

-----------------------------------------------------------------------------
(* Conversations apart                                                       *)

\* Only a conversation that is begun joins, and counts the connections before it.
LEMMA BaseStays ==
  ASSUME TypeOK, LinkFits, Next, ~FlushReturns, link' # "out"
  PROVE  link # "out" /\ UNCHANGED base
<1>1. link # "out"
  BY WorkerUsers DEF RtcSteps, RtcConnects, RtcLoses, RtcHears, RtcPushes, Leave
<1>2. ~StartCalled
  <2>1. control.at # "down"
    BY <1>1 DEF LinkFits, WaitPlaces
  <2> QED
    BY <2>1 DEF StartCalled, Down
<1>3. UNCHANGED base
  BY <1>2, HistoryUsers DEF PlaybackWakes, PlaybackPrepares, PlaybackAuthorizes, PlaybackWrites,
     RtcConnects, RtcLoses, Leaving, Leave, EndSession
<1> QED
  BY <1>1, <1>3

\* The capture ring and the capture worker: what is captured is of the connection of then.
LEMMA CaptureApart ==
  ASSUME TypeOK, LinkFits, AllAfter(base), Next
  PROVE  After(capRing', base) /\ (capture' = "storing" => captured' > base)
<1>t. capRing \in Seq(Nat) /\ base \in Nat /\ captured \in Nat /\ span \in Nat /\ FlagTypes
  BY TypeParts, SpanRings DEF RingTypes, HistoryTypes, CaptureTypes
<1>a. After(capRing, base) /\ (capture = "storing" => captured > base)
  BY DEF AllAfter
<1>1. After(capRing', base)
  <2>1. CASE CaptureStores
    BY <1>a, <1>t, <2>1, AfterAdded DEF CaptureStores
  <2>2. CASE SendTakes
    BY <1>a, <1>t, <2>2, AfterTaken DEF SendTakes
  <2>3. CASE capRing' = <<>>
    BY <1>t, <2>3, AfterNone
  <2>4. CASE UNCHANGED capRing
    BY <1>a, <2>4
  <2> QED
    BY <2>1, <2>2, <2>3, <2>4, RingUsers
       DEF PlaybackDrains, PlaybackPrepares, PlaybackWrites, RtcPushes, StartCalled, FlushPlayback,
           FlushSend, Destroy
<1>2. capture' = "storing" => captured' > base
  <2>1. CASE CaptureGets
    BY <1>t, <2>1 DEF CaptureGets, LinkFits
  <2>2. CASE ~CaptureGets
    BY <1>a, <2>2, WorkerUsers DEF CaptureSteps, CaptureReads, CaptureStores
  <2> QED
    BY <2>1, <2>2
<1> QED
  BY <1>1, <1>2

\* The reference ring and the frame being sent: both are filled from the other rings.
LEMMA SendApart ==
  ASSUME TypeOK, AllAfter(base), Next
  PROVE  After(refRing', base) /\ After(hand', base)
<1>t. /\ refRing \in Seq(Nat) /\ capRing \in Seq(Nat) /\ hand \in Seq(Nat) /\ base \in Nat
      /\ pending.tag \in Nat /\ pending.left \in Nat /\ Len(refRing) \in Nat
  <2>1. RingTypes /\ HistoryTypes /\ SendTypes /\ PendingTypes
    BY TypeParts
  <2>2. refRing \in Seq(Nat) /\ capRing \in Seq(Nat) /\ hand \in Seq(Nat) /\ base \in Nat
    BY <2>1, SpanRings DEF RingTypes, HistoryTypes, SendTypes
  <2>3. pending.tag \in Nat /\ pending.left \in Nat
    <3>1. pending.tag \in Spans /\ pending.left \in 0..Parts
      BY <2>1 DEF PendingTypes
    <3>2. pending.left \in Nat
      BY <3>1, Capacities
    <3> QED
      BY <3>1, <3>2, SpanRings
  <2> QED
    BY <2>2, <2>3, LenProperties
<1>a. /\ After(capRing, base) /\ After(refRing, base) /\ After(hand, base)
      /\ pending.src = "rtc" => pending.tag > base
  BY DEF AllAfter, RemoteAfter
<1> USE Capacities
<1>1. After(refRing', base)
  <2>1. CASE PlaybackWrites
    <3>1. UNCHANGED refRing \/ \E n \in 0..pending.left :
             pending.src = "rtc" /\ refRing' = refRing \o [i \in 1..n |-> pending.tag]
      <4>1. PICK n \in 0..pending.left : EnqueueReference(n) \/ UNCHANGED refRing
        BY <1>t, <2>1 DEF PlaybackWrites
      <4> QED
        BY <4>1 DEF EnqueueReference
    <3>2. ASSUME NEW n \in 0..pending.left, pending.src = "rtc"
          PROVE  After(refRing \o [i \in 1..n |-> pending.tag], base)
      <4>1. n \in Nat /\ pending.tag > base
        BY <1>t, <1>a, <3>2
      <4> DEFINE parts == [i \in 1..n |-> pending.tag]
      <4>2. parts \in Seq(Nat) /\ After(parts, base)
        BY <1>t, <4>1, AfterParts
      <4> HIDE DEF parts
      <4>3. After(refRing \o parts, base)
        BY <1>t, <1>a, <4>2, AfterJoined
      <4> QED
        BY <4>3 DEF parts
    <3> QED
      BY <1>a, <3>1, <3>2
  <2>2. CASE SendTakes
    <3>1. UNCHANGED refRing \/ (Len(refRing) >= Parts /\ refRing' = SubSeq(refRing, Parts + 1, Len(refRing)))
      BY <2>2 DEF SendTakes
    <3>2. Parts + 1 \in Nat \ {0}
      OBVIOUS
    <3>3. Len(refRing) <= Len(refRing)
      BY <1>t
    <3>4. After(SubSeq(refRing, Parts + 1, Len(refRing)), base)
      BY <1>a, <1>t, <3>2, <3>3, AfterPart
    <3> QED
      BY <1>a, <3>1, <3>4
  <2>3. CASE refRing' = <<>>
    BY <1>t, <2>3, AfterNone
  <2>4. CASE UNCHANGED refRing
    BY <1>a, <2>4
  <2> QED
    BY <2>1, <2>2, <2>3, <2>4, RingUsers
       DEF CaptureStores, PlaybackDrains, PlaybackPrepares, RtcPushes, StartCalled, FlushPlayback,
           FlushSend, Destroy
<1>2. After(hand', base)
  <2>1. CASE SendTakes
    <3>1. \/ UNCHANGED hand
          \/ capRing # <<>> /\ hand' = <<Head(capRing)>>
          \/ /\ capRing # <<>> /\ Len(refRing) >= Parts
             /\ hand' = <<Head(capRing)>> \o SubSeq(refRing, 1, Parts)
      BY <2>1 DEF SendTakes
    <3>2. ASSUME capRing # <<>>
          PROVE  <<Head(capRing)>> \in Seq(Nat) /\ After(<<Head(capRing)>>, base)
      <4>1. Head(capRing) \in Nat /\ Head(capRing) > base
        BY <1>a, <1>t, <3>2, AfterTaken, HeadTailProperties
      <4> QED
        BY <4>1 DEF After
    <3>3. ASSUME capRing # <<>>, Len(refRing) >= Parts
          PROVE  After(<<Head(capRing)>> \o SubSeq(refRing, 1, Parts), base)
      <4>1. 1 \in Nat \ {0} /\ Parts \in Nat /\ Parts <= Len(refRing)
        BY <1>t, <3>3
      <4>2. SubSeq(refRing, 1, Parts) \in Seq(Nat)
        BY <1>t, <4>1, SubSeqProperties, ElementOfSeq
      <4>3. After(SubSeq(refRing, 1, Parts), base)
        BY <1>a, <1>t, <4>1, AfterPart
      <4> QED
        BY <1>t, <3>2, <3>3, <4>2, <4>3, AfterJoined
    <3> QED
      BY <1>a, <3>1, <3>2, <3>3
  <2>2. CASE hand' = <<>>
    BY <1>t, <2>2, AfterNone
  <2>3. CASE UNCHANGED hand
    BY <1>a, <2>3
  <2> QED
    BY <2>1, <2>2, <2>3, WorkerUsers DEF SendWakes, SendReturns, NoFrame
<1> QED
  BY <1>1, <1>2

\* The playback ring and what is pending: remote audio is heard when connected.
LEMMA RemoteApart ==
  ASSUME TypeOK, LinkFits, AllAfter(base), Next
  PROVE  After(pbRing', base) /\ (pending'.src = "rtc" => pending'.tag > base)
<1>t. pbRing \in Seq(Nat) /\ base \in Nat /\ span \in Nat /\ PendingTypes
  BY TypeParts, SpanRings DEF RingTypes, HistoryTypes
<1>a. RemoteAfter(base) /\ After(pbRing, base) /\ (pending.src = "rtc" => pending.tag > base)
  BY DEF AllAfter, RemoteAfter
<1>1. CASE PlaybackPrepares
  BY <1>a, <1>t, <1>1, PreparedAfter
<1>2. CASE ~PlaybackPrepares
  <2>1. After(pbRing', base)
    <3>1. CASE RtcPushes
      <4>1. span > base
        BY <3>1 DEF RtcPushes, LinkFits
      <4> QED
        BY <1>a, <1>t, <3>1, <4>1, AfterAdded DEF RtcPushes
    <3>2. CASE pbRing' = <<>>
      BY <1>t, <3>2, AfterNone
    <3>3. CASE UNCHANGED pbRing
      BY <1>a, <3>3
    <3> QED
      BY <1>2, <3>1, <3>2, <3>3, RingUsers
         DEF CaptureStores, PlaybackDrains, PlaybackWrites, SendTakes, StartCalled, FlushPlayback,
             FlushSend, Destroy
  <2>2. \/ pending' = Nothing
        \/ pending'.src = pending.src /\ pending'.tag = pending.tag
    <3>1. CASE PlaybackWrites
      BY <1>t, <3>1 DEF PlaybackWrites, Discard, PendingTypes
    <3>2. CASE ~PlaybackWrites
      BY <1>2, <3>2, PromptUsers DEF PlaybackWakes, PlaybackDrains, PlaybackAuthorizes, StartCalled,
         FlushPlayback, Prompt, CloseDevices, Discard
    <3> QED
      BY <3>1, <3>2
  <2> QED
    BY <1>a, <2>1, <2>2 DEF Nothing
<1> QED
  BY <1>1, <1>2

\* What is kept anywhere in a conversation was taken in it.
LEMMA ApartStep ==
  ASSUME TypeOK, ControlFits, LinkFits, FlushFits, Apart, Next
  PROVE  Apart'
<1> SUFFICES ASSUME link' # "out"
             PROVE  AllAfter(base)'
  BY DEF Apart
<1>1. CASE FlushReturns
  <2>1. control.at = "flushed" /\ link = "out"
    BY <1>1 DEF FlushReturns, LinkFits, WaitPlaces
  <2>2. control.call = "begin"
    BY <1>1, <2>1 DEF FlushReturns
  <2>3. /\ capRing = <<>> /\ refRing = <<>> /\ pbRing = <<>> /\ hand = <<>>
        /\ pending.src # "rtc" /\ capture # "storing"
    BY <2>1, <2>2 DEF FlushFits, NoFrame
  <2>4. UNCHANGED <<ringVars, hand, pending, capture>>
    BY <1>1 DEF FlushReturns
  <2> QED
    BY <2>3, <2>4, AfterNone DEF AllAfter, RemoteAfter
<1>2. CASE ~FlushReturns
  <2>1. link # "out" /\ UNCHANGED base
    BY <1>2, BaseStays
  <2>2. AllAfter(base)
    BY <2>1 DEF Apart
  <2> QED
    BY <2>1, <2>2, CaptureApart, SendApart, RemoteApart DEF AllAfter, RemoteAfter
<1> QED
  BY <1>1, <1>2

-----------------------------------------------------------------------------
(* The theorems                                                              *)

\* The pipeline begins with nothing running and nothing kept.
LEMMA InitInv ==
  ASSUME Init
  PROVE  Inv
<1> USE DEF Init
<1>1. TypeOK
  <2>1. <<>> \in Seq(Spans) /\ Len(<<>>) = 0
    BY EmptySeq
  <2>2. 0 \in Spans /\ 0 \in Generations /\ 0 \in 0..1 /\ 0 \in 0..Parts
    BY Capacities DEF Spans, Generations
  <2>3. 0 <= Frames /\ 0 <= Frames * Parts /\ 0 <= Parts + 1
    BY Capacities
  <2>4. FlagTypes /\ LifeTypes /\ CaptureTypes /\ PlaybackTypes /\ RtcTypes /\ HistoryTypes /\ PromptTypes
    BY <2>2 DEF FlagTypes, LifeTypes, CaptureTypes, PlaybackTypes, RtcTypes, HistoryTypes, PromptTypes
  <2>5. RingTypes
    BY <2>1, <2>3 DEF RingTypes
  <2>6. SendTypes
    BY <2>1, <2>3 DEF SendTypes, NoFrame
  <2>7. PendingTypes
    BY <2>2 DEF PendingTypes, Nothing
  <2>8. ControlTypes
    BY DEF ControlTypes, Down, Places
  <2> QED
    BY <2>4, <2>5, <2>6, <2>7, <2>8, TypeParts
<1>2. ControlFits
  BY DEF ControlFits, Down, StartPlaces, FlushPlaces, LeavePlaces, WaitPlaces
<1>3. LinkFits
  BY DEF LinkFits
<1>4. LifeFits /\ RingsOutliveUsers
  BY DEF LifeFits, RingsOutliveUsers, Down, LeavePlaces
<1>5. GenerationFits
  BY Capacities DEF GenerationFits
<1>6. LossFits
  BY AfterNone DEF LossFits, RemoteAfter, Nothing
<1>7. FlushFits
  BY DEF FlushFits, Down
<1>8. ReferenceNeverRefused /\ Apart
  BY DEF ReferenceNeverRefused, Apart
<1> QED
  BY <1>1, <1>2, <1>3, <1>4, <1>5, <1>6, <1>7, <1>8 DEF Inv

\* The types after a step, one part for each group of variables.
LEMMA TypePartsAfter ==
  TypeOK' <=> /\ FlagTypes' /\ RingTypes' /\ LifeTypes' /\ PromptTypes' /\ PendingTypes' /\ CaptureTypes'
              /\ PlaybackTypes' /\ SendTypes' /\ RtcTypes' /\ ControlTypes' /\ HistoryTypes'
BY TypeParts, PTL

\* Every step keeps the types.
LEMMA TypeStep ==
  ASSUME Inv, Next
  PROVE  TypeOK'
BY FlagTypesStep, RingTypesStep, LifeTypesStep, PromptTypesStep, PendingTypesStep, CaptureTypesStep,
   PlaybackTypesStep, SendTypesStep, RtcTypesStep, ControlStep, HistoryTypesStep,
   TypePartsAfter DEF Inv

\* Every step keeps all of the invariant.
LEMMA InvStep ==
  ASSUME Inv, [Next]_vars
  PROVE  Inv'
<1>1. CASE Next
  <2>1. TypeOK'
    BY <1>1, TypeStep
  <2>2. ControlFits' /\ LinkFits' /\ LifeFits' /\ RingsOutliveUsers'
    BY <1>1, ControlStep, LinkStep, LifeStep, RingsStep DEF Inv
  <2>3. GenerationFits' /\ LossFits' /\ FlushFits'
    BY <1>1, GenerationStep, LossStep, FlushStep DEF Inv
  <2>4. ReferenceNeverRefused' /\ Apart'
    BY <1>1, ReferenceStep, ApartStep DEF Inv
  <2> QED
    BY <2>1, <2>2, <2>3, <2>4 DEF Inv
<1>2. CASE UNCHANGED vars
  <2> USE <1>2 DEF vars, Inv
  <2>1. TypeOK'
    BY DEF TypeOK
  <2>2. ControlFits' /\ LinkFits' /\ LifeFits' /\ RingsOutliveUsers'
    BY DEF ControlFits, LinkFits, LifeFits, RingsOutliveUsers
  <2>3. GenerationFits' /\ LossFits' /\ FlushFits'
    BY DEF GenerationFits, LossFits, FlushFits, RemoteAfter
  <2>4. ReferenceNeverRefused' /\ Apart'
    BY DEF ReferenceNeverRefused, Apart, AllAfter, RemoteAfter
  <2> QED
    BY <2>1, <2>2, <2>3, <2>4
<1> QED
  BY <1>1, <1>2

\* The invariant holds in every state the pipeline reaches.
LEMMA InvHolds == Spec => []Inv
<1>1. Init => Inv
  BY InitInv
<1>2. Inv /\ [Next]_vars => Inv'
  BY InvStep
<1> QED
  BY <1>1, <1>2, PTL DEF Spec

\* The rings never hold more than they have room for, every frame is of some
\* connection, and the generation of a prompt stays in its bound.
THEOREM MediaTypeCorrect == Spec => []TypeOK
<1>1. Inv => TypeOK
  BY DEF Inv
<1> QED
  BY <1>1, InvHolds, PTL

\* mybot_media_pipeline_destroy() frees the rings only when no worker and no RTC
\* callback uses them, whatever part of a start or a stop failed before.
THEOREM RingsOutliveWorkers == Spec => []RingsOutliveUsers
<1>1. Inv => RingsOutliveUsers
  BY DEF Inv
<1> QED
  BY <1>1, InvHolds, PTL

\* The echo reference of what is being written always fits its ring, however the
\* send worker drains it meanwhile: playback_timer() never ends RTC media itself.
THEOREM ReferenceAlwaysFits == Spec => []ReferenceNeverRefused
<1>1. Inv => ReferenceNeverRefused
  BY DEF Inv
<1> QED
  BY <1>1, InvHolds, PTL

\* A stop waits for a worker only after both devices have been told to stop, so it
\* never waits for a read or a write that nothing ends.
THEOREM StopWaitsForNoDevice == Spec => []WaitsForNoDevice
<1>1. Inv => WaitsForNoDevice
  <2> SUFFICES ASSUME Inv, NEW w \in Workers, Waiting(w)
               PROVE  w \notin started
    BY DEF WaitsForNoDevice
  <2>1. control.at \in {"wait_snd", "wait_cap", "wait_pb"}
    BY DEF Waiting, Workers
  <2> QED
    BY <2>1 DEF Inv, LifeFits
<1> QED
  BY <1>1, InvHolds, PTL

\* What a worker sends or plays was captured or heard in the conversation of now, and
\* was not withdrawn before playback woke up to write it.
THEOREM AudioBelongsToNow == Spec => []AudioBelongs
<1>1. Inv => SessionsApart
  <2> SUFFICES ASSUME Inv, link # "out", NEW s \in Held
               PROVE  s > base
    BY DEF SessionsApart
  <2>1. /\ After(capRing, base) /\ After(pbRing, base) /\ After(refRing, base) /\ After(hand, base)
        /\ pending.src = "rtc" => pending.tag > base
        /\ capture = "storing" => captured > base
    BY DEF Inv, Apart, AllAfter, RemoteAfter
  <2>2. ASSUME NEW r, NEW n, r \in Seq(Spans), After(r, n), s \in Range(r)
        PROVE  s > n
    <3>1. PICK i \in DOMAIN r : s = r[i]
      BY <2>2 DEF Range
    <3>2. DOMAIN r = 1..Len(r)
      BY <2>2
    <3> QED
      BY <2>2, <3>1, <3>2 DEF After
  <2>3. capRing \in Seq(Spans) /\ pbRing \in Seq(Spans) /\ refRing \in Seq(Spans) /\ hand \in Seq(Spans)
    BY TypeParts DEF Inv, RingTypes, SendTypes
  <2>4. \/ s \in Range(capRing) \/ s \in Range(pbRing) \/ s \in Range(refRing) \/ s \in Range(hand)
        \/ pending.src = "rtc" /\ s = pending.tag
        \/ capture = "storing" /\ s = captured
    <3> DEFINE inRings == UNION {Range(capRing), Range(pbRing), Range(refRing), Range(hand)}
               inPlayback == IF pending.src = "rtc" THEN {pending.tag} ELSE {}
               inCapture == IF capture = "storing" THEN {captured} ELSE {}
    <3>1. s \in inRings \/ s \in inPlayback \/ s \in inCapture
      <4>1. s \in inRings \union inPlayback \union inCapture
        BY DEF Held
      <4> HIDE DEF inRings, inPlayback, inCapture
      <4> QED
        BY <4>1
    <3>2. s \in inRings =>
            s \in Range(capRing) \/ s \in Range(pbRing) \/ s \in Range(refRing) \/ s \in Range(hand)
      OBVIOUS
    <3>3. s \in inPlayback => pending.src = "rtc" /\ s = pending.tag
      OBVIOUS
    <3>4. s \in inCapture => capture = "storing" /\ s = captured
      OBVIOUS
    <3> HIDE DEF inRings, inPlayback, inCapture
    <3> QED
      BY <3>1, <3>2, <3>3, <3>4
  <2> QED
    BY <2>1, <2>2, <2>3, <2>4
<1>2. Inv => WithdrawnIsSilent
  BY DEF Inv, GenerationFits, LossFits, RemoteAfter, WithdrawnIsSilent
<1>3. Inv => AudioBelongs
  BY <1>1, <1>2 DEF AudioBelongs
<1> QED
  BY <1>3, InvHolds, PTL

=============================================================================
