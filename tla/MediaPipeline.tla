---------------------------- MODULE MediaPipeline ----------------------------
(***************************************************************************)
(* mybot_media_pipeline.c with the announcements of mybot_announce.c and    *)
(* the calls mybot_app.c makes on them: the capture, playback and send      *)
(* workers share three rings with the RTC worker, while the control worker  *)
(* starts and stops the pipeline, begins and ends conversations and plays   *)
(* prompts.  A ring is a bounded sequence (BoundedFifo), a frame of audio   *)
(* is the connection it was taken in, and playback writes frames in parts.  *)
(*                                                                          *)
(* The build has the echo reference (MYBOT_CLOUD_AEC); without it refRing   *)
(* stays empty.  Volume, muting and wake words change no state kept here.   *)
(***************************************************************************)
EXTENDS Naturals, Sequences, SequencesExt, FiniteSets

CONSTANTS
  Frames,            \* capacity of a ring, in frames
  Parts,             \* parts of a frame a device write may take
  MaxSpans,          \* bound: connections in one run of the pipeline
  MaxGeneration      \* bound: prompts played and stopped in one run

ASSUME MediaAssumption ==
  /\ {Frames, Parts, MaxSpans} \subseteq Nat \ {0}
  /\ MaxGeneration \in Nat

VARIABLES
  running, connected, clear,    \* the atomics running, rtc_connected, announce_clear_pb
  rings,                        \* the ring buffers are allocated
  capRing, pbRing, refRing,     \* what they hold
  complete,                     \* stop_complete
  alive,                        \* the workers that exist
  started,                      \* devices started: cap_started, pb_started
  generation, sounds,           \* announce: generation, frames left in its queue
  pending, pendingGen,          \* pb_pending_*: source, connection, parts left; generation
  capture, captured,            \* the capture worker's place and what it holds
  playback, sawGen, sawPrompt,  \* the playback worker's place, generation, announce_active
  send, hand,                   \* the send worker's place and the frame it sends
  rtc, link,                    \* the RTC worker's place and its connection
  control, talking,             \* the control worker's place; between start and stop
  span, base, lost,             \* history: connections made; made before this conversation; lost
  sawLost                       \* history: lost when playback woke up

flagVars == <<running, connected, clear>>
ringVars == <<capRing, pbRing, refRing>>
lifeVars == <<rings, complete, alive, started>>
promptVars == <<generation, sounds>>
captureVars == <<capture, captured>>
pendingVars == <<pending, pendingGen>>
playbackVars == <<playback, sawGen, sawPrompt>>
sendVars == <<send, hand>>
rtcVars == <<rtc, link>>
controlVars == <<control, talking>>
history == <<span, base, lost, sawLost>>
vars == <<flagVars, ringVars, lifeVars, promptVars, captureVars, pendingVars, playbackVars,
          sendVars, rtcVars, controlVars, history>>

Workers == {"cap", "pb", "snd"}
Nothing == [src |-> "none", tag |-> 0, left |-> 0]
NoFrame == <<>>

-----------------------------------------------------------------------------
(* The capture worker                                                       *)

\* capture_timer() reads the device, which may block until it is stopped.
CaptureReads ==
  /\ "cap" \in alive /\ capture = "idle" /\ running
  /\ capture' = "reading"
  /\ UNCHANGED <<flagVars, ringVars, lifeVars, promptVars, captured, pendingVars, playbackVars,
                 sendVars, rtcVars, controlVars, history>>

\* The device has a frame, or none; only a connected pipeline keeps it.
CaptureGets ==
  /\ capture = "reading"
  /\ \/ connected /\ capture' = "storing" /\ captured' = span
     \/ capture' = "idle" /\ UNCHANGED captured
  /\ UNCHANGED <<flagVars, ringVars, lifeVars, promptVars, pendingVars, playbackVars, sendVars,
                 rtcVars, controlVars, history>>

\* A full ring refuses the frame.
CaptureStores ==
  /\ capture = "storing"
  /\ capRing' = IF Len(capRing) < Frames THEN Append(capRing, captured) ELSE capRing
  /\ capture' = "idle" /\ captured' = 0
  /\ UNCHANGED <<flagVars, pbRing, refRing, lifeVars, promptVars, pendingVars, playbackVars,
                 sendVars, rtcVars, controlVars, history>>

-----------------------------------------------------------------------------
(* The playback worker: playback_timer()                                    *)

Playing(from, to) == playback = from /\ playback' = to
Quits == playback' = "idle" /\ sawGen' = 0 /\ sawPrompt' = FALSE /\ sawLost' = 0
Discard == pending' = Nothing

\* The flag is taken before the ring is drained: what comes in between goes too.
PlaybackWakes ==
  /\ "pb" \in alive /\ running
  /\ Playing("idle", IF clear \/ pendingGen # generation THEN "drain" ELSE "source")
  /\ sawGen' = generation /\ sawLost' = lost
  /\ clear' = FALSE
  /\ UNCHANGED <<running, connected, ringVars, lifeVars, promptVars, captureVars, pendingVars,
                 sawPrompt, sendVars, rtcVars, controlVars, span, base, lost>>

\* A prompt that is being played wins over remote audio, buffered or pending.
PlaybackDrains ==
  /\ playback \in {"drain", "source"}
  /\ playback' = "prepare"
  /\ sawPrompt' = (sounds > 0)
  /\ pbRing' = IF playback = "drain" \/ sounds > 0 THEN <<>> ELSE pbRing
  /\ IF playback = "drain" \/ (sounds > 0 /\ pending.src = "rtc")
     THEN Discard ELSE UNCHANGED pending
  /\ pendingGen' = IF playback = "drain" THEN sawGen ELSE pendingGen
  /\ UNCHANGED <<flagVars, capRing, refRing, lifeVars, promptVars, captureVars, sawGen,
                 sendVars, rtcVars, controlVars, history>>

\* prepare_pending_playback(): mybot_announce_read_pcm() answers with the prompt
\* and the generation of that moment, which may be newer than the ones seen before.
PreparePrompt ==
  /\ sawPrompt
  /\ pendingGen' = generation
  /\ IF sounds > 0
     THEN /\ sounds' = sounds - 1
          /\ pending' = [src |-> "prompt", tag |-> 0, left |-> Parts]
          /\ playback' = "authorize" /\ UNCHANGED <<sawGen, sawPrompt, sawLost>>
     ELSE Quits /\ UNCHANGED <<sounds, pending>>
  /\ UNCHANGED pbRing

PrepareRemote ==
  /\ ~sawPrompt
  /\ IF pbRing # <<>>
     THEN /\ pbRing' = Tail(pbRing)
          /\ pending' = [src |-> "rtc", tag |-> Head(pbRing), left |-> Parts]
          /\ pendingGen' = sawGen
          /\ playback' = "authorize" /\ UNCHANGED <<sawGen, sawPrompt, sawLost>>
     ELSE Quits /\ UNCHANGED <<pbRing, pendingVars>>
  /\ UNCHANGED sounds

PlaybackPrepares ==
  /\ playback = "prepare"
  /\ \/ /\ pending.left > 0
        /\ playback' = "authorize"
        /\ UNCHANGED <<pbRing, sounds, pendingVars, sawGen, sawPrompt, sawLost>>
     \/ pending.left = 0 /\ (PreparePrompt \/ PrepareRemote)
  /\ UNCHANGED <<flagVars, capRing, refRing, lifeVars, generation, captureVars, sendVars, rtcVars,
                 controlVars, span, base, lost>>

\* Room for something is not room for all that is pending.
ReferenceFitsInPart == Len(refRing) < Frames * Parts

\* Remote audio waits until its echo reference will fit; audio whose prompt was
\* stopped or replaced is not written.
ReferenceFits == Len(refRing) + pending.left <= Frames * Parts

Authorized == generation = pendingGen

PlaybackAuthorizes ==
  /\ playback = "authorize"
  /\ \/ pending.src = "rtc" /\ ~ReferenceFits /\ Quits /\ UNCHANGED pending
     \/ /\ pending.src # "rtc" \/ ReferenceFits
        /\ IF Authorized THEN playback' = "writing" /\ UNCHANGED <<pending, sawGen, sawPrompt, sawLost>>
                         ELSE Quits /\ Discard
  /\ UNCHANGED <<flagVars, ringVars, lifeVars, promptVars, captureVars, pendingGen, sendVars,
                 rtcVars, controlVars, span, base, lost>>

\* The device takes some of the frame, or fails, which drops it.  What was played
\* of remote audio becomes the reference; a refused reference ends RTC media.
EnqueueReference(n) ==
  IF pending.src # "rtc" \/ n = 0 THEN UNCHANGED <<refRing, connected>>
  ELSE IF Len(refRing) + n <= Frames * Parts
  THEN refRing' = refRing \o [i \in 1..n |-> pending.tag] /\ UNCHANGED connected
  ELSE connected' = FALSE /\ UNCHANGED refRing

PlaybackWrites ==
  /\ playback = "writing"
  /\ Quits
  /\ \/ Discard /\ UNCHANGED <<refRing, connected>>
     \/ \E n \in 0..pending.left :
          /\ EnqueueReference(n)
          /\ IF n = pending.left \/ ~Authorized THEN Discard
             ELSE pending' = [pending EXCEPT !.left = @ - n]
  /\ UNCHANGED <<running, clear, capRing, pbRing, lifeVars, promptVars, captureVars, pendingGen,
                 sendVars, rtcVars, controlVars, span, base, lost>>

-----------------------------------------------------------------------------
(* The send worker: send_timer()                                            *)

SendWakes ==
  /\ "snd" \in alive /\ send = "idle" /\ running /\ connected
  /\ send' = "taking"
  /\ UNCHANGED <<flagVars, ringVars, lifeVars, promptVars, captureVars, pendingVars, playbackVars,
                 hand, rtcVars, controlVars, history>>

\* A frame goes out with as much reference as there is for it, or with silence.
SendTakes ==
  /\ send = "taking"
  /\ IF capRing = <<>> THEN send' = "idle" /\ UNCHANGED <<capRing, refRing, hand>>
     ELSE /\ send' = "sending"
          /\ capRing' = Tail(capRing)
          /\ IF Len(refRing) >= Parts
             THEN /\ hand' = <<Head(capRing)>> \o SubSeq(refRing, 1, Parts)
                  /\ refRing' = SubSeq(refRing, Parts + 1, Len(refRing))
             ELSE hand' = <<Head(capRing)>> /\ UNCHANGED refRing
  /\ UNCHANGED <<flagVars, pbRing, lifeVars, promptVars, captureVars, pendingVars, playbackVars,
                 rtcVars, controlVars, history>>

\* mybot_agora_rtc_send_audio() waits for the RTC worker, which sends the frame
\* if it is connected then and refuses it otherwise.
SendReturns ==
  /\ send = "sending" /\ rtc = "idle"
  /\ send' = "idle" /\ hand' = NoFrame
  /\ UNCHANGED <<flagVars, ringVars, lifeVars, promptVars, captureVars, pendingVars, playbackVars,
                 rtcVars, controlVars, history>>

-----------------------------------------------------------------------------
(* The RTC worker                                                           *)

\* mybot_media_pipeline_set_rtc_connected(true)
RtcConnects ==
  /\ rtc = "idle" /\ link = "joined" /\ span < MaxSpans
  /\ link' = "connected" /\ connected' = TRUE
  /\ span' = span + 1
  /\ UNCHANGED <<running, clear, ringVars, lifeVars, promptVars, captureVars, pendingVars,
                 playbackVars, sendVars, rtc, controlVars, base, lost, sawLost>>

\* mybot_media_pipeline_set_rtc_connected(false): reconnecting, a lost connection or
\* an error.  No worker reads both flags, so the two stores are one step.
Disconnect == connected' = FALSE /\ clear' = TRUE /\ lost' = span

RtcLoses ==
  /\ rtc = "idle" /\ link = "connected"
  /\ link' = "joined"
  /\ Disconnect
  /\ UNCHANGED <<running, ringVars, lifeVars, promptVars, captureVars, pendingVars, playbackVars,
                 sendVars, rtc, controlVars, span, base, sawLost>>

\* mybot_media_pipeline_push_remote_audio()
RtcHears ==
  /\ rtc = "idle" /\ link = "connected"
  /\ running /\ connected /\ ~clear /\ sounds = 0
  /\ rtc' = "pushing"
  /\ UNCHANGED <<flagVars, ringVars, lifeVars, promptVars, captureVars, pendingVars, playbackVars,
                 sendVars, link, controlVars, history>>

RtcPushes ==
  /\ rtc = "pushing"
  /\ rtc' = "idle"
  /\ pbRing' = IF Len(pbRing) < Frames THEN Append(pbRing, span) ELSE pbRing
  /\ UNCHANGED <<flagVars, capRing, refRing, lifeVars, promptVars, captureVars, pendingVars,
                 playbackVars, sendVars, link, controlVars, history>>

-----------------------------------------------------------------------------
(* The control worker                                                       *)

Down == [call |-> "none", at |-> "down"]
Idle == [call |-> "none", at |-> "idle"]
Goes(from, to) == control.at = from /\ control' = [control EXCEPT !.at = to]

\* start_services() clears the pipeline, whatever it holds, and starts it.  Bound: not
\* after a stop that gave up on a worker, which it would clear with the worker running.
StartCalled ==
  /\ control = Down /\ alive = {}
  /\ control' = [call |-> "start", at |-> "devices"]
  /\ running' = TRUE /\ connected' = FALSE /\ clear' = FALSE /\ complete' = FALSE
  /\ alive' = {} /\ started' = {} /\ rings' = FALSE
  /\ capRing' = <<>> /\ pbRing' = <<>> /\ refRing' = <<>>
  /\ generation' = 0 /\ sounds' = 0 /\ pending' = Nothing /\ pendingGen' = 0
  /\ span' = 0 /\ base' = 0 /\ lost' = 0 /\ sawLost' = 0
  /\ UNCHANGED <<captureVars, playbackVars, sendVars, rtcVars, talking>>

\* The devices are opened, the rings allocated and the devices started, in this
\* order; any of it may fail.
StartDevices ==
  /\ control.at = "devices"
  /\ \E up \in {{}, {"cap"}, {"cap", "pb"}} :
       /\ started' = up
       /\ rings' \in (IF up = {} THEN BOOLEAN ELSE {TRUE})
       /\ \/ Goes("devices", "interrupt")
          \/ up = {"cap", "pb"} /\ Goes("devices", "cap")
  /\ UNCHANGED <<flagVars, ringVars, complete, alive, promptVars, captureVars, pendingVars,
                 playbackVars, sendVars, rtcVars, talking, history>>

\* The three workers are created one after the other, and all three are tried.
AfterWorker == [cap |-> "pb", pb |-> "snd", snd |-> "started"]
StartWorker ==
  \E w \in Workers :
    /\ Goes(w, AfterWorker[w])
    /\ alive' \in {alive, alive \union {w}}
    /\ UNCHANGED <<flagVars, ringVars, rings, complete, started, promptVars, captureVars,
                   pendingVars, playbackVars, sendVars, rtcVars, talking, history>>

\* A failed start stops and destroys what there is; no conversation has begun.
StartReturns ==
  /\ control.at = "started"
  /\ control' = IF alive = Workers THEN Idle ELSE [call |-> "start", at |-> "interrupt"]
  /\ UNCHANGED <<flagVars, ringVars, lifeVars, promptVars, captureVars, pendingVars, playbackVars,
                 sendVars, rtcVars, talking, history>>

\* mybot_announce_play_pair_code(), for a device that is being paired, and
\* mybot_announce_stop()
Prompt ==
  /\ control = Idle /\ generation < MaxGeneration
  /\ generation' = generation + 1
  /\ sounds' \in (IF talking THEN {0} ELSE 0..1)
  /\ UNCHANGED <<flagVars, ringVars, lifeVars, captureVars, pendingVars, playbackVars, sendVars,
                 rtcVars, controlVars, history>>

-----------------------------------------------------------------------------
(* Conversations: dev_on_conversation_start(), dev_on_conversation_stop()   *)

BeginCalled ==
  /\ control = Idle /\ ~talking
  /\ control' = [call |-> "begin", at |-> "flush_cap"]
  /\ talking' = TRUE
  /\ UNCHANGED <<flagVars, ringVars, lifeVars, promptVars, captureVars, pendingVars, playbackVars,
                 sendVars, rtcVars, history>>

EndCalled ==
  /\ control = Idle /\ talking
  /\ control' = [call |-> "end", at |-> "leave"]
  /\ UNCHANGED <<flagVars, ringVars, lifeVars, promptVars, captureVars, pendingVars, playbackVars,
                 sendVars, rtcVars, talking, history>>

\* mybot_media_pipeline_flush_session() calls on each worker in turn and waits;
\* a call that fails fails the flush, but the others are still made.  Ending a
\* conversation ignores the result; beginning one does not.
FlushFailure(from, to) ==
  /\ control.at = from
  /\ control' = [call |-> IF control.call = "begin" THEN "refused" ELSE control.call, at |-> to]

\* A capture worker asked nothing may still hold a frame of the conversation before.
FlushCaptureWithoutBarrier ==
  /\ "cap" \in alive
  /\ Goes("flush_cap", "flush_pb")
  /\ UNCHANGED <<flagVars, ringVars, lifeVars, promptVars, captureVars, pendingVars, playbackVars,
                 sendVars, rtcVars, talking, history>>

\* flush_capture_barrier_cb(): a capture that is under way has stored its frame.
FlushCapture ==
  /\ "cap" \in alive
  /\ \/ capture = "idle" /\ Goes("flush_cap", "flush_pb")
     \/ FlushFailure("flush_cap", "flush_pb")
  /\ UNCHANGED <<flagVars, ringVars, lifeVars, promptVars, captureVars, pendingVars, playbackVars,
                 sendVars, rtcVars, talking, history>>

\* flush_playback_cb(), its last store apart
FlushPlayback ==
  /\ "pb" \in alive
  /\ \/ /\ control.at = "flush_pb"
        /\ Playing("idle", "clearing")
        /\ pbRing' = <<>>
        /\ Discard /\ pendingGen' = generation
        /\ UNCHANGED control
     \/ playback # "clearing" /\ FlushFailure("flush_pb", "flush_snd")
        /\ UNCHANGED <<playback, pbRing, pendingVars>>
  /\ UNCHANGED <<flagVars, capRing, refRing, lifeVars, promptVars, captureVars, sawGen, sawPrompt,
                 sendVars, rtcVars, talking, history>>

FlushPlaybackEnds ==
  /\ Playing("clearing", "idle")
  /\ Goes("flush_pb", "flush_snd")
  /\ clear' = FALSE
  /\ UNCHANGED <<running, connected, ringVars, lifeVars, promptVars, captureVars, pendingVars,
                 sawGen, sawPrompt, sendVars, rtcVars, talking, history>>

\* flush_send_cb()
FlushSend ==
  /\ "snd" \in alive
  /\ \/ /\ send = "idle" /\ Goes("flush_snd", "flushed")
        /\ capRing' = <<>> /\ refRing' = <<>>
     \/ FlushFailure("flush_snd", "flushed") /\ UNCHANGED <<capRing, refRing>>
  /\ UNCHANGED <<flagVars, pbRing, lifeVars, promptVars, captureVars, pendingVars, playbackVars,
                 sendVars, rtcVars, talking, history>>

\* After the flush the conversation is joined, unless a call failed or the join does.
FlushReturns ==
  /\ control.at = "flushed"
  /\ control' = Idle
  /\ talking' = (control.call # "end")
  /\ \/ /\ control.call = "begin"
        /\ link' = "joined" /\ base' = span
     \/ UNCHANGED <<link, base>>
  /\ UNCHANGED <<flagVars, ringVars, lifeVars, promptVars, captureVars, pendingVars, playbackVars,
                 sendVars, rtc, span, lost, sawLost>>

\* mybot_agora_rtc_leave() runs on the RTC worker, where a state that changes is
\* reported at once.
Leave ==
  /\ control.at = "leave" /\ rtc = "idle"
  /\ link' = "out"
  /\ IF link # "out" THEN Disconnect ELSE UNCHANGED <<connected, clear, lost>>
  /\ control' = [control EXCEPT !.at = "left"]
  /\ UNCHANGED <<running, ringVars, lifeVars, promptVars, captureVars, pendingVars, playbackVars,
                 sendVars, rtc, talking, span, base, sawLost>>

\* mybot_media_pipeline_end_session(): the workers of a stopped pipeline are gone.
EndSession ==
  /\ control.at = "left"
  /\ Disconnect
  /\ control' = [control EXCEPT !.at = IF control.call = "end" THEN "flush_cap" ELSE "destroy"]
  /\ talking' = (control.call = "end")
  /\ UNCHANGED <<running, ringVars, lifeVars, promptVars, captureVars, pendingVars, playbackVars,
                 sendVars, rtcVars, span, base, sawLost>>

-----------------------------------------------------------------------------
(* Stopping: cleanup_services(), control_stop_runtime()                     *)

StopCalled ==
  /\ control = Idle
  /\ control' = [call |-> "stop", at |-> "interrupt"]
  /\ UNCHANGED <<flagVars, ringVars, lifeVars, promptVars, captureVars, pendingVars, playbackVars,
                 sendVars, rtcVars, talking, history>>

\* Only the capture device is told to stop.
InterruptCapture ==
  /\ Goes("interrupt", "wait_snd")
  /\ running' = FALSE /\ connected' = FALSE
  /\ started' = started \ {"cap"}
  /\ UNCHANGED <<clear, ringVars, rings, complete, alive, promptVars, captureVars, pendingVars,
                 playbackVars, sendVars, rtcVars, talking, history>>

\* mybot_media_pipeline_stop() interrupts both devices before it waits for anyone.
Interrupt ==
  /\ Goes("interrupt", "wait_snd")
  /\ running' = FALSE /\ connected' = FALSE
  /\ started' = {}
  /\ UNCHANGED <<clear, ringVars, rings, complete, alive, promptVars, captureVars, pendingVars,
                 playbackVars, sendVars, rtcVars, talking, history>>

\* aosl_mpq_destroy_wait() lets the worker finish what it is doing, or gives up.
AtRest(w) == CASE w = "cap" -> capture = "idle" [] w = "pb" -> playback = "idle" [] OTHER -> send = "idle"
AfterWait == [snd |-> "wait_cap", cap |-> "wait_pb", pb |-> "close"]
Waiting(w) == control.at = (CASE w = "snd" -> "wait_snd" [] w = "cap" -> "wait_cap" [] OTHER -> "wait_pb")

\* A shutdown that forgets RTC
ShutdownInConversation == "destroy"

\* mybot_device_lifecycle_shutdown() ends a conversation that is still there.
Shutdown == IF talking THEN "leave" ELSE "destroy"

WaitForWorker ==
  \E w \in Workers :
    /\ Waiting(w)
    /\ \/ /\ w \in alive => AtRest(w)
          /\ alive' = alive \ {w}
          /\ control' = [control EXCEPT !.at = AfterWait[w]]
       \/ /\ w \in alive
          /\ control' = [control EXCEPT !.at = Shutdown]
          /\ UNCHANGED alive
    /\ UNCHANGED <<flagVars, ringVars, rings, complete, started, promptVars, captureVars,
                   pendingVars, playbackVars, sendVars, rtcVars, talking, history>>

\* mybot_announce_stop(); the devices are closed
CloseDevices ==
  /\ Goes("close", Shutdown)
  /\ generation' = generation + 1 /\ sounds' = 0
  /\ complete' = TRUE
  /\ UNCHANGED <<flagVars, ringVars, rings, alive, started, captureVars, pendingVars, playbackVars,
                 sendVars, rtcVars, talking, history>>

\* mybot_media_pipeline_destroy(), after the lifecycle has left RTC
Destroy ==
  /\ control.at = "destroy"
  /\ IF complete THEN rings' = FALSE /\ capRing' = <<>> /\ pbRing' = <<>> /\ refRing' = <<>>
                 ELSE UNCHANGED <<rings, ringVars>>
  /\ control' = Down
  /\ UNCHANGED <<flagVars, complete, alive, started, promptVars, captureVars, pendingVars,
                 playbackVars, sendVars, rtcVars, talking, history>>

-----------------------------------------------------------------------------
Init ==
  /\ running = FALSE /\ connected = FALSE /\ clear = FALSE
  /\ rings = FALSE /\ capRing = <<>> /\ pbRing = <<>> /\ refRing = <<>>
  /\ complete = FALSE /\ alive = {} /\ started = {}
  /\ generation = 0 /\ sounds = 0
  /\ pending = Nothing /\ pendingGen = 0
  /\ capture = "idle" /\ captured = 0
  /\ playback = "idle" /\ sawGen = 0 /\ sawPrompt = FALSE
  /\ send = "idle" /\ hand = NoFrame
  /\ rtc = "idle" /\ link = "out"
  /\ control = Down /\ talking = FALSE
  /\ span = 0 /\ base = 0 /\ lost = 0 /\ sawLost = 0

CaptureSteps == CaptureReads \/ CaptureGets \/ CaptureStores
PlaybackSteps ==
  \/ PlaybackWakes \/ PlaybackDrains
  \/ PlaybackPrepares \/ PlaybackAuthorizes \/ PlaybackWrites \/ FlushPlaybackEnds
SendSteps == SendWakes \/ SendTakes \/ SendReturns
RtcSteps == RtcConnects \/ RtcLoses \/ RtcHears \/ RtcPushes
Starting == StartDevices \/ StartWorker \/ StartReturns
Flushing == FlushCapture \/ FlushPlayback \/ FlushSend \/ FlushReturns
Leaving == Leave \/ EndSession
Stopping == Interrupt \/ WaitForWorker \/ CloseDevices \/ Destroy
Calls == StartCalled \/ BeginCalled \/ EndCalled \/ StopCalled \/ Prompt

Next == CaptureSteps \/ PlaybackSteps \/ SendSteps \/ RtcSteps \/ Calls
        \/ Starting \/ Flushing \/ Leaving \/ Stopping
Spec == Init /\ [][Next]_vars

-----------------------------------------------------------------------------
(* Properties                                                               *)

Places == {"down", "devices", "cap", "pb", "snd", "started", "idle", "flush_cap", "flush_pb",
           "flush_snd", "flushed", "leave", "left", "interrupt", "wait_snd", "wait_cap",
           "wait_pb", "close", "destroy"}
Spans == 0..MaxSpans

TypeOK ==
  /\ {running, connected, clear, rings, complete, sawPrompt, talking} \subseteq BOOLEAN
  /\ capRing \in Seq(Spans) /\ Len(capRing) <= Frames
  /\ pbRing \in Seq(Spans) /\ Len(pbRing) <= Frames
  /\ refRing \in Seq(Spans) /\ Len(refRing) <= Frames * Parts
  /\ alive \subseteq Workers /\ started \subseteq {"cap", "pb"}
  /\ {generation, pendingGen, sawGen} \subseteq 0..(MaxGeneration + 1) /\ sounds \in 0..1
  /\ pending \in [src : {"none", "rtc", "prompt"}, tag : Spans, left : 0..Parts]
  /\ capture \in {"idle", "reading", "storing"} /\ captured \in Spans
  /\ playback \in {"idle", "drain", "source", "prepare", "authorize", "writing", "clearing"}
  /\ send \in {"idle", "taking", "sending"} /\ hand \in Seq(Spans) /\ Len(hand) <= Parts + 1
  /\ rtc \in {"idle", "pushing"} /\ link \in {"out", "joined", "connected"}
  /\ control \in [call : {"none", "start", "begin", "refused", "end", "stop"}, at : Places]
  /\ {span, base, lost, sawLost} \subseteq Spans

\* Audio of one conversation is neither sent nor played in the next: once RTC is
\* joined, what any ring holds and what any worker has in its hands was captured
\* or received in this conversation (dev_on_conversation_start() flushes first).
Held ==
  (UNION {Range(capRing), Range(pbRing), Range(refRing), Range(hand)})
  \union (IF pending.src = "rtc" THEN {pending.tag} ELSE {})
  \union (IF capture = "storing" THEN {captured} ELSE {})
SessionsApart == link # "out" => \A s \in Held : s > base

\* Audio that was withdrawn before playback woke up, because its prompt was stopped
\* or replaced or its connection reported lost, is not written any more.  A wake-up
\* writes once, so that withdrawn audio goes to the device at most once more ("RTC
\* audio received while an announcement is active is intentionally discarded").
WithdrawnIsSilent ==
  playback = "writing" =>
    /\ pendingGen >= sawGen
    /\ pending.src = "rtc" => pending.tag > sawLost

\* What is sent or played belongs to the conversation and the prompt of now.
AudioBelongs == SessionsApart /\ WithdrawnIsSilent

\* The rings are there as long as a worker or a callback may use them, and the
\* devices as long as a worker reads or writes them.
RingsOutliveUsers ==
  /\ ~rings => alive = {} /\ rtc # "pushing"
  /\ complete => alive = {}
  /\ "cap" \notin alive => capture = "idle"
  /\ "pb" \notin alive => playback = "idle"
  /\ "snd" \notin alive => send = "idle"

\* The echo reference of what is being played fits its ring: were it refused,
\* playback_timer() would end RTC media in the middle of a conversation.
ReferenceNeverRefused ==
  playback = "writing" /\ pending.src = "rtc" => Len(refRing) + pending.left <= Frames * Parts

\* A stop never waits for a worker that is blocked in its device: an interrupted
\* device returns, and nothing else may keep a read or a write for ever ("Interrupt
\* both device directions before waiting for any worker").
InDevice(w) == (w = "cap" /\ capture = "reading") \/ (w = "pb" /\ playback = "writing")
WaitsForNoDevice == \A w \in Workers : Waiting(w) /\ InDevice(w) => w \notin started
=============================================================================
