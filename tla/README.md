# Formal models of bk_solution_ai

This directory holds TLA+ specifications of the voice-assistant solution in this
repository, TLC configurations that check them on small instances, and TLAPS proofs of
their main theorems. The specifications are translated from the C sources; the headers
and the component READMEs were used to find the promises that the code is checked against.

    tlc -workers 2 -config MCAppControl.cfg MCAppControl.tla     # one run
    tlapm RingBufferProofs.tla                                   # one proof module

`PROJECT.json` lists the components, the runs, the mutants (a changed definition that
each property must reject), the source lines behind every definition, the hazards and
the theorems.

## The system

The repository is firmware for Beken bk7258 boards. Two generations of the product live
side by side.

* **mybot** (`components/mybot`): a portable SDK. `core/mybot_app.c` owns a *control
  queue* and a *service queue* (each one worker thread over a FIFO of the AOSL library),
  the device lifecycle, the application state, the media pipeline and the RTC adapter.
  A port for bk725x supplies Wi-Fi, HTTPS, keys, audio, display and storage.
* **the earlier projects** (`beken_genie`, `volc_rtc`): components for the same job
  written around the vendor SDK: network transfer (Agora or Volc RTC), audio and video
  engines, smart configuration, application events and shutdown countdown.

AOSL (queues, timers, atomics), the RTC SDKs, FreeRTOS, lwIP and the audio and video
drivers are not in the repository. Where a model needs them it assumes what the calling
code relies on, and says so below.

| component | state | operations | interacts with |
|---|---|---|---|
| PCM ring (`support/mybot_ringbuf.c`) | head, tail, bytes | write, read, free/used size, clear | capture and send workers; RTC callback and playback worker |
| device lifecycle (`core/mybot_device_lifecycle.c`) | state, pair code, credential, conversation, mailboxes, generations, retries | tick, requests, service results, network changes, RTC notifications, shutdown | control worker, service worker, Wi-Fi thread, RTC queue, key-value store, server |
| application runtime (`core/mybot_app.c`) | exit generation, start/stop gate, queues, flags | `mybot_start`, `mybot_stop`, key, wake-word, Wi-Fi and RTM events | everything of the SDK |
| application state model (`core/mybot_state_model.c`) | one atomic snapshot: phase, online, device state | begin_*, network lost/restored, set device state, fail, projection | control worker writes; key, wake-word and Wi-Fi threads read |
| Agora adapter (`rtc/mybot_agora_rtc.c`) | state, generation, connection, RTM login and subscription, event queue | init, join, leave, renew, send, fini | lifecycle callbacks, media, SDK threads |
| media pipeline, announcements, video (`media/`, `platform/mybot_announce.c`) | two rings, workers, prompt, connected flag | start, stop, flush, push, prompt, volume | ring, RTC adapter, audio hooks |
| HTTP client, JSON, device client | one response | request, incremental parse, validation | service worker, control worker |
| bk725x port: controller, network worker, provisioning (`platforms/bk725x/modules`) | main loop, queue of presses, published link, contexts shared with two workers, credential list | press, publish, subscribe, connect, watch, try, save, stop | SDK through its hooks, Wi-Fi driver, user's browser |
| bk725x port: keys, audio, display, storage | device handles, reference counts | press decoding, open, read, write, draw | SDK through its hooks |
| frame queue, video engine | tokens of a pool, held frames, threads | malloc, complete, get, free, init, start, stop, deinit | camera, transfer thread |
| network transfer (Agora, Volc) | started flag, running flag, RTC thread, semaphore, agent information, connection | init, start, stop, update, deinit | smart configuration, keys, RTC library, server |
| application events, countdown | queue, standby, agent, warnings, indications, tickets, timer | post, handle, arm, sleep | every other component, LED, power |
| smart configuration | provisioning state, mode | provision, reconnect, switch mode | Wi-Fi, transfer, video engine |

### What is hard here

* Callbacks of five kinds of threads (Wi-Fi, keys, capture, RTC, service) reach state
  that one worker owns, through mailboxes, atomics and two bounded queues.
* The owner blocks: in HTTP calls, and in the synchronous call that leaves RTC. The world
  moves on meanwhile, and what it asked for comes back stale.
* The link may be lost and come back between any two steps; power may fail between a
  grant and its write to flash.
* Queues do not wait for room. A full control queue makes the application exit.
* `mybot_stop()` waits for callbacks that post to the queue it is destroying.
* Two of the five kinds of events travel on two paths at once (published and queued).
* Workers sit in devices that only the thread that stops them can interrupt.
* A driver may refuse to give back what it was lent, and what still uses a context must
  find it there.
* The older components share globals and start and stop each other's threads over one
  semaphore, called from the network, key and configuration threads.

### What makes each component correct

* Ring: no unread byte is overwritten, bytes come out in order, a free size once told
  stays available.
* Lifecycle: the credential in use is the one a reboot restores and the one granted for
  the code shown; stale answers have no effect; RTC is joined only for the active
  conversation; requests never cross conversations; a loss or a stop ends the
  conversation; pairing always has a next step.
* Application: what is shown follows the lifecycle and the link, a stop leaves nothing
  behind, and start and stop return.
* Adapter: an event of one session has no effect in the next; every wait ends; what init
  and join acquire, leave and fini release.
* Media: audio of a conversation is never sent or played in another, withdrawn audio falls
  silent, the echo reference always fits, no ring is freed under its users, and a stop
  waits for no device.
* Controller: the SDK knows every state of the link that lasts; network and provisioning
  never share the Wi-Fi; contexts outlive their users; the list that is served is the one
  that is stored; a request that was queued is honoured.
* Frame pool: a frame has one owner, a token is lost only with a task that is deleted, and
  the task never outlives the pool.
* Transfer: one RTC thread, which leaves nothing to the next; flag and thread agree; every
  call returns.
* Events: the sleep timer runs for the reason the device has now, the places that keep
  standby agree, and what was heard last is known once the queue is empty.

## Modules

    BoundedFifo  <--implements--  RingBuffer            (RingBufferProofs)
    DeviceBinding    <--implements--  DeviceLifecycle   (DeviceLifecycleProofs)
    LifecycleSurface <--implements--  DeviceLifecycle
    AppControl  EXTENDS LifecycleSurface                (AppControlProofs)
    AgoraRtc                                            (AgoraRtcProofs)
    MediaPipeline                                       (MediaPipelineProofs)
    WifiRuntime <- NetworkWorker, Provisioning <- Controller   (ControllerProofs)

    VideoEngine EXTENDS FrameQueue                      (VideoEngineProofs)
    NetworkTransfer                                     (ServiceProofs)
    AppEvent                                            (ServiceProofs)

`AgoraRtc` and `MediaPipeline` stand alone: the one receives any calls in any order, the
other takes its rings for bounded sequences, as `BoundedFifo` promises.

### RingBuffer, BoundedFifo

`RingBuffer` is `mybot_ringbuf.c` with one producer and one consumer. `head`, `tail`
and `data` are the C fields. A write is three kinds of step: the decision from a tail
read once (`StartWrite`), one copy per byte (`CopyIn`), and the store of the new head
(`PublishHead`); a read likewise. The two `memcpy` calls across the wrap are therefore
any interleaving of byte copies. `QueryFree` remembers the free size a producer was told,
because `playback_timer` sizes a later write by it. `BoundedFifo` is the promise: a
sequence of at most `Capacity` bytes that grows by chunks and shrinks by chunks.
`in`, `out` and `last` are history. `mybot_ringbuf_clear()` resets both indices; nothing in
the repository calls it, and the model lets it happen only while nobody copies.

### DeviceLifecycle, DeviceBinding, LifecycleSurface

`DeviceLifecycle` is `mybot_device_lifecycle.c` with the callbacks that `mybot_app.c`
gives it. An action is the stretch of one thread between two points where another thread
can be seen: `set_network_available(false)` is three actions (the flag, the generation,
the pending loss), `request_service` and its answer are two, ending a conversation is
`BeginEnd`, `LeaveRtc`, `FinishEnd`, `NotifyStop`. Of a generation counter only its
comparison with an earlier snapshot is ever used; each snapshot is kept as "has not moved
since". The server's answer is any answer at any time. A poll interval has passed or not.

* The pair-code request may come from any state: this is the interface of the lifecycle.
  The application's gate (`control_pair`) is stricter.
* Flash writes are atomic and may fail. A pair code and the credential granted for it
  have one name, so that `BindingMatchesCode` can compare them.
* The check for an empty channel name in a renewal answer is unreachable after the
  response has been validated, and is left out.
* The call that leaves RTC is assumed to be admitted to the RTC queue.
* The state diagram in `components/mybot/README.md` leaves out the moves from runtime to
  pairing (a key) and from pairing to unprovisioned (a failed or stale code request).

`DeviceBinding` says what the outside sees: a credential is bound and stored in one step,
one conversation at a time, RTC inside it, and release only when RTC is out.
`LifecycleSurface` is what the application sees: life, network mailboxes, what was asked,
and whether the owner is busy.

### AppControl

`AppControl` is the rest of the control worker: `mybot_start()` and `mybot_stop()` behind
their gate, `handle_control_start`, `start_services` and its failure, `control_stop_runtime`
and `cleanup_services`, `on_key_event` with `handle_key_event`, `on_wifi_event` with
`handle_wifi_event`, and the snapshot of `mybot_state_model.c`. Threads:

| thread | actions | code |
|---|---|---|
| Wi-Fi | `WifiEmits`, `WifiPublishes`, `WifiQueues` | `on_wifi_event` |
| keys, capture | `KeyPressed`, `KeyQueues`, `ExitPressed` | `on_key_event`, `media_on_wake_word` |
| control worker | `LifecycleStep`, `HandleKey`, `HandleWifi`, `Services*`, `Control*`, `Fini*` | queue functions, timer, finalizer |
| caller | `StartCalled`, `StopCalled`, `CallReturns` | `mybot_start`, `mybot_stop` |
| RTC | `RtcAsksStop` | `rtc_on_state_changed` |

* A wake word is merged with the START key; PAIR and the volume keys change nothing that
  this module keeps.
* The order in which the worker takes queued functions and timer ticks is AOSL's. Every
  order is allowed.
* The Wi-Fi thread emits serially and in transition order, and no callback is in flight
  once `mybot_wifi_deinit()` has returned: this is the contract in `mybot_wifi.h`.
* `set_network_available` is one step here; its three writes are interleaved in
  `DeviceLifecycle`.
* Failures of `aosl_mpq_create` in `mybot_start()` and the validation of the
  configuration have no state to leave behind and are not modelled.

### AgoraRtc

`AgoraRtc` is `mybot_agora_rtc.c`: init, join, leave, the two RTM commands, fini, the
generations that tell one login from the next, and the callbacks of the RTSA library.

| thread | actions | code |
|---|---|---|
| control worker | `Call*` | the public functions: post and wait |
| RTC worker | `Do*`, the steps of a join | `rtc_*_impl`, `process_rtm_event`, ... |
| library | `Answer`, `RaiseFlag`, `PostAnswer`, `EndLogin`, `ReportConn` | `on_rtm_event`, ... |

A join occupies the RTC worker while it waits, so its answers arrive through flags that the
callback writes; the callback's check, its flags and its post are three steps, and so are
the worker's generation and reset. The model leaves nothing to the calling order: any of
the commands may follow any other, which is more than `AppControl` asks for.

* `logoutIsFinal`, chosen at the start, says which library is below: one whose logout
  succeeds and ends the callbacks of its session, or one that may refuse a logout and
  answer after it. Over the second, an answer to a login that timed out can confirm the
  next one for the same account, because the flag carries no generation until after it is
  raised. `JoinFollowsLogin` is therefore stated for the first only; every other property
  holds over both.
* `granted` is history: the logins and subscriptions the library has answered with success
  since the last logout that was final. `JoinFollowsLogin` asks for the subscription just
  made, but for some login of the session, not for the one requested last: a failure that is
  taken for the next login's (see the disagreements below) clears that login without telling
  the library, which answers it all the same, and the answer confirms the login after it.
  For the same reason `SecondJoinIsHarmless` excepts a login flag that says "failed".
* Media, messages, tokens and received data change no state of the adapter.
* Events queued behind a fini find neither a login nor a connection; they are dropped.
* `MaxLogins`, `MaxSubs` and `MaxConns` bound the generations and connections. The
  wrap-around of a 32-bit generation is out of reach.

### FrameQueue, VideoEngine

`FrameQueue` is `video_frame_que.c` for the pool of one format. `free` is the number of
messages in the free queue, since they are all alike; `ready` is the ready queue; `count`
and `made` are kept apart because the code sets the count before it creates the queues.
`held`, `live` and `issued` are who holds a buffer, which are out of the heap, and which of
those took a token of this pool.

A call on the pool touches two queues, or a queue and the heap, one after the other, and is
cut between them: `doing` says for each thread which call it is in the middle of.

| call | steps | cut before line |
|---|---|---|
| `frame_queue_malloc` | `AskToken`; `HeapGives`, or `HeapRefuses`, which puts the token back; `Steal` for MJPEG and YUV | 345, 373 |
| `frame_queue_free` | `GiveBack` to the heap, then `ReturnToken` to the free queue | 527 |
| `frame_queue_complete` | `Queue`, or the two steps of a free | |
| `frame_queue_get_frame` | `GetFrame` | |

A thread deleted in the middle (`Abandon`) leaves its call there. `lost` and `foreign` are
history: the tokens that went with such a thread, and the buffers and half-done calls that
were out when the pool was made. `TokensKept` is an account with two sides: free tokens,
issued buffers, tokens carried by a call and lost ones are at least the pool, and at most the
pool and one for each thing an earlier pool left out.

* `frame_queue_clear_all` gets and frees frame by frame, and has no step of its own.
* Making and destroying the queues is one step each. Nobody else calls then but a camera that
  could not be closed; what the RTOS does with a queue that is deleted while the camera is
  inside one of its operations is not in the repository.

`VideoEngine` extends it with `video_engine.c` and the three that use the pool:

| thread | actions | code |
|---|---|---|
| caller | `Call*`, `PrepareQueue`, `OpenCamera`, `StartTask`, `KillTask`, `CloseCamera`, `Dispose` | `video_engine_init`, `_start`, `_stop`, `_deinit` |
| camera | `CameraAsks`, `CameraObtains`, `CameraIsRefused`, `CameraSteals`, `CameraDelivers`, `CameraDrops`, `CameraReturnsToken` | `video_engine_frame_malloc`, `_frame_complete` |
| transfer task | `TaskTests`, `TaskGets`, `TaskFindsNoQueue`, `TaskSent`, `TaskReturnsToken`, `TaskExits` | `video_engine_transfer_task` |

* One caller at a time: nothing in the file serializes two.
* The camera driver is external. It asks for a frame when it has none, completes it with
  success or failure, and has completed every frame when closing succeeds. Its close and
  its delete may fail (`CloseMayFail`); it then goes on calling.
* The stop deletes the task wherever it is, also between the two steps of a free.
* Testing the task's handle and deleting the thread are one step, which succeeds. A task that
  exits between the two leaves a null handle to `rtos_delete_thread`, and were the deletion to
  fail the code would forget the handle all the same and go on (`video_engine.c:441-442`,
  594); what the RTOS does is not in the repository.
* `VideoFlows` speaks of an engine that was started over a camera that films into a pool whose
  queues exist, and that has a token left. A camera that could not be closed leaves its handle
  behind, and a start over it opens none (`video_engine.c:252-256`): such an engine is started
  and sends nothing. `LostTokens` counts the tokens that went with deleted tasks, in the frame
  they held or in their call.
* The transfer task sends with a call that returns; what the network does with a frame
  belongs to the network transfer.

### MediaPipeline

`MediaPipeline` is `mybot_media_pipeline.c` with `mybot_announce.c` and the calls that
`mybot_app.c` makes on them, in the build with the echo reference (`MYBOT_CLOUD_AEC`).

| thread | actions | code |
|---|---|---|
| capture worker | `CaptureReads`, `CaptureGets`, `CaptureStores` | `capture_timer` |
| playback worker | `PlaybackWakes`, `-Drains`, `-Prepares`, `-Authorizes`, `-Writes`, `FlushPlaybackEnds` | `playback_timer` and its helpers |
| send worker | `SendWakes`, `SendTakes`, `SendReturns` | `send_timer` |
| RTC worker | `RtcConnects`, `RtcLoses`, `RtcHears`, `RtcPushes` | `set_rtc_connected`, `push_remote_audio` |
| control worker | `Start*`, `Begin*`, `End*`, `Flush*`, `Leave`, `EndSession`, `Stop*`, `Interrupt`, `WaitForWorker`, `CloseDevices`, `Destroy`, `Prompt` | `mybot_media_pipeline_start`, `_flush_session`, `_end_session`, `_stop`, `_destroy`, announcements |

* A frame of audio is the connection it was taken in (`span`); playback writes a frame in
  `Parts` parts, because a device may take less than it is given.
* Each ring is a bounded sequence. Its operations are atomic here; `RingBuffer` shows what
  makes them so.
* Three pairs of accesses are one step because nobody can come between them and matter:
  reading the announcement's generation and exchanging the clear flag; draining the ring
  and asking whether a prompt plays; the two stores of `set_rtc_connected(false)`, which
  no worker reads together.
* A prompt is played only outside a conversation and stopped at any time.
* A stop may give up on a worker (`aosl_mpq_destroy_wait` fails). What it leaves behind is
  checked; a new start after that is not modelled, because `start_services()` would clear
  the pipeline with the worker running (see the disagreements below).
* `span`, `base`, `lost` and `sawLost` are history.

### WifiRuntime, NetworkWorker, Provisioning, Controller

`Controller` is the main loop of the bk725x port, `controller_run()`, over the two users of
the Wi-Fi. `WifiRuntime` is what they share of the driver, `NetworkWorker` and
`Provisioning` are the two with their worker threads.

| thread | actions | code |
|---|---|---|
| controller | `Ensure`, `Start`, `Await`, `Prompt`, `Boot`, `Run`, `Poll`, `End`, `LeaveNetwork`, `Join`, `Provision`, `Provisioning`, `JoinPortal`, `Cleanup`, `Drop` | `controller_run`, `ensure_network`, `provision_network`, `start_sdk`, `controller_cleanup` |
| network worker | the disjuncts of `Worker` | `network_worker`, `connect_saved_until`, `reconnect_current` |
| provisioning worker | the disjuncts of `Portal` | `wifi_worker`, `run_configuration_portal`, the request handlers |
| buttons, SDK, driver | `Press`, `SdkFails`, `LinkMoves` | `mybot_event_post`, the SDK's state, the driver |

* The driver is external: it may refuse to start or to stop the station, a scan, the access
  point or a callback; a callback that has been taken back does not run. Its events only
  wake waits that also time out and then ask for the link, so they are left out.
* `mybot_start()` and `mybot_stop()` run while the controller waits for them, so the
  subscription never meets a publication in progress, and the connectivity module's lock
  and user counts are left out.
* The SDK is `AppControl`; here it runs, and fails when it likes.
* A request to the web server is what it asks for. A completed provisioning may have saved
  nothing: `/exit` ends it at any time.
* The workers are asked to stop and then joined without a time-out.
* A context is kept when a stop could not release all it holds; the controller then gives
  up, and the model stops there (`exited`).

### NetworkTransfer

`NetworkTransfer` is `network_transfer.c` over either back end, chosen by `backend`: where
`bk_agora_api.c` and `bk_volc_api.c` differ, so does the action.

| thread | actions | code |
|---|---|---|
| callers | `Ntwk*`, `StartAgent`, `UpdateAgent`, `CreateThread`, `StartReturns`, `RtcStop`, `RtcStopped` | `ntwk_trans_*`, `bk_agora_start`, `bk_agora_rtc_start`, `_stop` and their Volc twins |
| RTC thread | `RtcUnnamed`, `RtcCreates` ... `RtcExits` | `bk_agora_rtc_main`, `bk_byte_rtc_main` |
| library | `Joined`, `JoinedTells`, `JoinedReturns`, `Lost`, `Rejoined` | `__on_join_channel_success`, ... |

* `Callers` is the set of calling threads, `Overlap` whether two of them may call at once.
  Nothing in the code keeps them apart; the run and the theorems say what holds when
  somebody does, and `transfer_overlap` what happens when nobody does.
* A library that has been finished calls no more. The server may refuse anything; stopping
  the agent is answered without asking it.
* The thread releases one semaphore for both the start and the stop, whatever became of it,
  with one exception: a Volc thread without an `app_id` goes without a word, and the start
  that waits for it never returns. `CallReturns` names that case.
* Volc does not look at whether its engine could be made (`bk_volc_api.c:363-374`), so that
  the library is asked to join all the same; it is taken to refuse. Its loss callback is not
  registered (`volc_rtc_engine.c:285`), so a rejoin finds the connected flag set and is a step
  that changes nothing.
* Beside a second thread over the same globals nothing further is modelled.

### AppEvent

`AppEvent` is the one thread of `app_event.c` with the countdown, and what `led_blink()`
writes back. The sources are any thread, posting any event at any time into a queue that
drops what does not fit. Handling an event is two steps, since the countdown's callback runs
on the timer's thread between the change of a ticket and the update of the timer. Going to
sleep restarts the device. `asr` and `missed` remember what the recognition said last and
whether that word was lost; that it has spoken and that it posts its word are one step. Tones,
screens, the mode switch and registered handlers (there are none) are left out; the RTOS's
timers do not fail.

## Runs

| run | instance | states | shows |
|---|---|---|---|
| `ring` | 3 bytes, chunks up to 3, 8 bytes in all | 20 thousand | no overrun, order, the promise of a free size; the refinement of the FIFO |
| `lifecycle` | 3 codes, 3 conversations, symmetric; retries up to 2, queues of 2 | 1.5 million | binding, polls, conversations apart, stops after teardown, a way back to pairing; the refinement of `DeviceBinding` |
| `lifecycle_liveness` | 2 codes, 1 conversation, no reboot, queues of 1 | 188 thousand | the owner and the poll return; loss and stop end a conversation; the refinement of `LifecycleSurface` |
| `app` | queue of 2 | 167 thousand | the state shown, wake words, quiet after a stop; calls return; a lost link ends the conversation |
| `rtc` | 1 account, 3 logins, 2 connections, queue of 1, both libraries | 716 thousand | connection and call state agree; a join stands on the answers of its session; a second join is harmless; calls return |
| `rtc_stale_login` | 1 account, 2 logins, queue of 2 | violation | a stale failure ends the new login |
| `media` | rings of 1 frame in 2 parts, 2 connections, 2 prompts | 9.3 million | audio belongs to its conversation, rings outlive their users, the reference fits, a stop waits for no device |
| `port` | queue of 1, 3 networks, a list of 2 | 176 thousand | the SDK is told, modes apart, contexts outlive users, lists agree; the link reaches the SDK; requests are honoured |
| `events` | queue of 1, all events | 4.7 million | sleep is timed, standby agrees, the last word is known |
| `video` | pool of 3, 5 buffers, stealing, failing close | 267 thousand | one owner for each buffer, tokens lost and added only as accounted, the task ends before its pool, video flows |
| `transfer` | 2 callers in turn, both back ends | 1.1 thousand | one thread, runs apart, the flag is true, calls return |
| `transfer_overlap` | 2 callers at once | violation | a second RTC thread over the same globals |

The bounds are the smallest at which the interesting cases happen. A ring of three bytes
has every wrap of a chunk of two or three, and eight bytes take both indices around it
twice. Three names let the device hold one, the flash a second (an erase that failed) and
the server hand out a third; a name is reused only once nothing holds it (`TokensInUse`,
`ConversationsInUse`). Back-off limits of two reach the cap. Queues of two hold a poll and
a stop notification in either order. A control queue of two holds a Wi-Fi transition and
its reversal, or one of them and a key, and overflows on the next. Three logins
are the least at which a stale failure can end the second and the third meet the answer to
the second; with two, stronger properties held that the code does not have. That answers
are told apart by account too is proved for any set of accounts. Two connections are one
conversation with a loss in it, or two conversations; a ring of one frame is full and empty at
once often, and a frame in two parts can be cut by a flush, a prompt or a stop. A list of two
among three networks fills, and drops its oldest. A press queue of one is full after one press,
an event queue of one drops every second word. The state of `NetworkTransfer` is that of one
thread and one call; a third caller would have nothing to add while calls do not overlap. A pool
of three has a frame with the camera, one with the task and one queued; two more buffers let a
stop leave two behind while the pool is made anew.

Deadlock is checked except where the system may stop for good: in `media` after a stop that
gave up on a worker or at the bound on connections, in `port` once the controller has
given up, in the two `transfer` runs when a Volc start is never answered.

### Where the code and its words disagree

Two disagreements are runs of their own.

* `EndedByItsOwnEvent` (`rtc_stale_login`): events carry a login generation so that stale
  ones are ignored. `on_rtm_event` stamps it after the checks, from the variable a new login
  has set by then, so a failure of the old login can take down the new one. The library is
  not told: it goes on with that login, and a third can be confirmed by its answer.
* `OneThread` with `Overlap` (`transfer_overlap`): the developer guide says that the network
  transfer "uses thread-safe mechanisms internally". `ntwk_trans_start` tests `is_started` at
  its beginning (`network_transfer.c:65`) and sets it at its end (79), and the back end's
  running flag is set only by a thread that has joined (`bk_volc_api.c:381`). Two starts, from
  the network and the key thread, both find them clear; the first creates the RTC thread, and
  the second goes on to create another over the same semaphore and globals.

The others were met while modelling, and the models follow the code:

* `mybot_device_lifecycle.c:746` says that the owner consumes a loss before it accepts
  another command. `request_start` (773) looks only at `network_available`: after a loss
  and a reconnection between two ticks it accepts the command and the next tick drops it.
* `mybot.h:63` says that device-service traffic is paused in WIFI_DISCONNECTED. A
  "connected" event queued while services start is applied to the lifecycle when it is
  taken from the queue, possibly after a newer disconnection was published directly
  (`mybot_app.c:962-981`); the lifecycle then polls on until the next event.
* `video_engine.h:157` says that deinit frees all allocated memory. The stop clears the
  task's running flag and deletes the thread in the next statement (`video_engine.c:441`),
  so a task that is sending a frame is deleted with it: the pool is one token short until it
  is made anew, and the frame is never freed. One that is inside `frame_queue_free`, after the
  buffer and before the token (`video_frame_que.c:516-527`), leaves no frame behind, but its
  token is gone all the same. Only a deinit makes the pool anew: after as many such stops and
  starts as the pool has tokens none of its frames can be allocated.
* A response to a conversation start that arrives after a network change is discarded
  (`mybot_device_lifecycle.c:407-411`), and the server keeps a conversation nobody ends.
* `mybot_media_pipeline.c:364` protects a live pipeline from being overwritten, but
  `start_services()` clears it first (`mybot_app.c:903`), so after a stop that gave up on a
  worker the protection sees nothing.
* `bk_agora_rtc_start()` reports success whether its thread joined or gave up, since both
  release the semaphore (`bk_agora_api.c:453`). `FlagMatchesThread` therefore speaks of runs
  in which nothing failed.
* `bk_countdown.rst:17` gives every ticket its time. After an OTA the timer stays off for a
  network error that was timed before it, because the update does not forget the ticket
  last selected (`countdown_app.c:31-35`). `SleepIsTimed` names that case.
* A comment in `app_event.c:536-538` says that joining clears the warning of a failed
  provisioning; the code does not clear it.
* `FrameQueue`'s init leaves its count set when a queue cannot be made
  (`video_frame_que.c:117`), so that the next init succeeds over queues that are not there.

### Fairness

The control queue and the RTC queue are FIFO with timers served between items, so a tick,
a service result, the call that leaves RTC and a queued event are served even if other
items keep coming (SF). HTTP calls time out, RTC callbacks return and the threads of Wi-Fi
and keys finish a call they have begun (WF). Nothing is assumed of the user, the link or
the server: they may act or not. A device that keeps rebooting promises nothing, so the
liveness run has no reboot. `AppControl` assumes that a blocking call of the lifecycle
ends; `WorkReturns` of `lifecycle_liveness` is what justifies it. `AgoraRtc` needs only that
the RTC worker and a forwarding callback go on (WF): the RTSA library need not answer,
because both waits of a join time out. In `VideoEngine` the caller and the task go
on and every thread ends the call on the pool that it is in (WF); the open camera asks for
frames and completes them again and again, a heap that has a buffer does not refuse it for
ever, and a task that waits on the ready queue is woken by a frame, even if the camera takes
some back (SF). That assumes of the sensor that it films, which is what it is for; nothing is
assumed of its failures.
`NetworkTransfer` needs that callers, the RTC thread and a callback that has begun go on
(WF); server and library owe nothing. `Controller` needs its three threads to go on (WF), and
that a station which is started again and again does start once (SF): a driver that always
refuses leaves the worker trying, and the link never reaches anyone. `MediaPipeline` and
`AppEvent` are checked for safety only.

## Proofs

| theorem | from |
|---|---|
| `RingTypeCorrect`, `RingNeverOverrun`, `RingReadsInOrder`, `RingKeepsPromise`, `RingIsSafe` | `RingInv` |
| `RingImplementsFifo` | `RingInv` before and after each step |
| `LifecycleTypeCorrect` | `TypeOK` alone |
| `BindingIsDurable`, `RtcFollowsConversation`, `StopNeverOutlivesConversation`, `RenewalStaysInConversation`, `ConversationsStayApart`, `PairingAlwaysAhead` | `LifecycleInv` |
| `BindingStaysTrue` | `LifecycleInv`, `CodeInv` |
| `StopIsToldAfterTeardown` | `LifecycleInv`, `StopInv` |
| `PollIsAlwaysOne` | `LifecycleInv`, `PollInv` |
| `LifecycleImplementsBinding` | `LifecycleInv` |
| `LifecycleImplementsSurface` | `LifecycleInv`, `NetworkThreadKnows` |
| `PoolKeepsTokens` | `TokenInv` |
| `PoolHasOneOwner` | `OwnerInv` |
| `EngineUsesPool`, `EngineKeepsFrames` | `PoolTypeOK`, then the two above |
| `VideoTypeCorrect`, `TransferTaskEndsFirst` | `EngineInv` |
| `AppTypeCorrect`, `StateIsAlwaysShown`, `WakeWordsOnlyWhenReady`, `AlwaysQuietWhenStopped` | `AppInv` |
| `RtcTypeCorrect`, `ConnectionAlwaysAgrees`, `JoinsFollowLogins`, `SecondJoinsAreHarmless` | `RtcInv` |
| `MediaTypeCorrect`, `RingsOutliveWorkers`, `ReferenceAlwaysFits`, `StopWaitsForNoDevice`, `AudioBelongsToNow` | `Inv` of `MediaPipelineProofs` |
| `EventsTypeCorrect`, `StandbyAlwaysAgrees` | `EventTypeOK`; `StandbyAgrees` itself |
| `SleepIsAlwaysTimed` | `TimerInv` |
| `SettledAlwaysCurrent` | `HeardInv` |
| `ControllerTypeCorrect`, `SdkIsAlwaysTold`, `ModesStayApart`, `NetworkAlwaysServesSdk`, `ListsAlwaysAgree` | `Inv` of `ControllerProofs` |
| `TransferTypeCorrect` | the types of the calls, the context and the thread |
| `OneThreadAtATime`, `RunsStayApart`, `FlagIsTrue` | `TransferInv`, with `Overlap = FALSE` |

The ring is proved for every capacity and chunk size in the naturals. None of the safety
properties is inductive alone: that a write hits no unread slot needs the producer's old
view of the space to be still there (`Reserved`), a read needs the bytes it found to be
still there (`Held`), and both need the slots between the indices to hold the stream
(`Stored`, `Copied`). `RingInv` states this with counters that never wrap (`in`, `out`)
next to the indices that do (`Counted`). The refinement maps the ring to the sequence of
bytes between its indices. `Stored` says that this sequence is a run of the stream, so the
mapping becomes arithmetic on `in` and `out`: publishing the head appends a chunk, publishing
the tail takes one off the front, and every other step changes neither end.

The lifecycle is proved for every set of codes and conversations, every back-off limits
and every queue capacity. `LifecycleInv` adds to the properties what the owner's position
says of the state (`OwnerKnowsPhase`), that the RTC queue is in a callback only while
joined (`RtcKnowsConversation`), and that an unpaired device has a request or a retry in
store (`PairingComes`). The assumption about constants is `LifecycleAssumption`.

The end of `DeviceLifecycleProofs` is about the two queues, whose length is not bounded in
the proof. It first classifies what any step does to them (`QueueStep`: kept, a poll asked, a
stop told, a result taken, a request worked on, started over), and then needs one argument per
class rather than one per action. `CodeInv` says that a poll not made stale names the code shown
now, in both queues. `StopInv` adds to the property that the owner tells of an end only while it
has no conversation. `PollInv` counts polls over both queues, and lets the flag outlast them
only when the worker is exiting.

The application runtime is proved for any room in the control queue. `ControlFits` says, for
each place of the control worker, who holds the gate, which phase is shown, where the
lifecycle can be and which handlers may still be in flight; `QuietWhenStopped` follows from
it. `StateShown` needs more, because an event on its way may be older than what is shown:
`LinkHeard` follows the newest one, which the Wi-Fi thread holds, or which is the last Wi-Fi
event in the queue, or which has been handled, and says that it tells the link as it is. A
queue without room ends the run, so an event that is dropped is never missed. The steps of
the lifecycle are those of `LifecycleSurface`, which `DeviceLifecycle` is proved to implement.
The assumption is `QueueAssumption`.

The RTC adapter is proved for any accounts, channels and room in the queue, for any number of
logins and connections, and for both libraries. The connection needs little: a join in
progress holds the worker (`JobFits`), the library is up unless the wrapper is idle, and a
queued "joined" is of a connection that has been joined (`LibraryFits`). `JoinFollowsLogin`
rests on two flags that carry no generation, so `AnswersFit` has to say why they are of this
session. For the login: a flag that says yes was raised by a granted answer, and is lowered
before the next login is asked for (`LoginAnswered`). For the subscription, whose generation
must match too: none is outstanding, in the library or in a callback, unless the worker waits
for it, and then it is the one asked for last (`OneSubAsked`). A step either keeps what has
been granted or is a final logout, after which nothing is requested or outstanding
(`SessionSteps`); so each part is proved for the first kind only. The assumption is
`RtcAssumption`.

The media pipeline is proved for any capacity of the rings, any split of a device write and
any number of connections and prompts. `ControlFits` and `LifeFits` tie each place of the
control worker to the rings, devices and workers that exist there, from which
`RingsOutliveUsers` and `WaitsForNoDevice` follow, also for a start that failed half-way or a
stop that gave up. `AudioBelongs` needs `FlushFits` (what a flush has emptied stays empty
until it returns, whoever is between reading a ring and using what was read), `Apart` (while
RTC is joined, everything kept anywhere is of this conversation) and `LossFits` (audio of a
lost connection is there only until playback drains it). The assumption is `MediaAssumption`.

The frame pool is proved for every pool size, finite heap and finite set of threads, on its
own: `OwnerInv` adds the types to `OneOwner`, which is inductive with them. `TokenInv` is
`OwnerInv` and `TokensKept`; it needs the owners, because a buffer given back leaves either
the issued ones or the strays, and only one thread gives it. What each step does to the terms
of the account is a lemma of its own (`CarriersJoin`, `PopMoves`, `StraysShrink`, ...).
`EngineUsesPool` then shows that each step of the engine is a step of one call on the pool or
none, the deletion in the middle of a call included, so that both facts carry over to the engine
whatever its threads do, without a second induction. `EngineInv` says which of the engine's
calls can be in progress with a task or a context, and that a pool in use has a count, for
`TaskEndsFirst`. The assumptions are `PoolAssumption`, `MemoryAssumption` and
`EngineAssumption`.

The events are proved for any queue limit. `TimerInv` extends the claim about the timer to
the events that do not touch tickets, which may be half handled (`handling` in `Battery`),
and ties the timer to the ticket last selected. `HeardInv` says that the last word of the
recognition in the queue, if it found room, is the one in force, and that a queue without a
word leaves standby as it was.

The controller is proved for any queue, any set of networks and any length of the list.
`Inv` says, for each place the controller can be in (`at`, `then`), who may have a context,
who may be subscribed and what may be published; the rest follows from what each worker may
do on its own. That a list has no doubles needs lemmas about removing and adding an entry.

The transfer is proved for any set of callers whose calls do not overlap. `ThreadInv` says
that a thread which is not in its loop has a caller waiting over an empty semaphore, which
is why no second thread begins; `ConnInv` follows the library from there, and `FlagInv` says
what each call in progress has already changed. Only the types are proved for calls that
overlap, where `transfer_overlap` shows the rest to fail.

Only model-checked: liveness (`WorkReturns`, `ConversationsEnd`, `CallReturns` and
`CallsReturn`, `LinkLossEndsConversation`, `LinkReachesSdk`, `RequestHonoured`, `VideoFlows`).
Liveness under fairness and `ENABLED` are outside what TLAPS proves, as is induction over
recursive definitions. Every other property of a run that passes is a theorem. The
adapter's `EndedByItsOwnEvent` is none: the code does not have it.

## Plan

Done: `RingBuffer` and its FIFO, `DeviceLifecycle` with its two abstractions, `AppControl`,
`AgoraRtc`, `MediaPipeline`, the port's `Controller` with `NetworkWorker` and `Provisioning`,
`FrameQueue` and `VideoEngine`, `NetworkTransfer`, `AppEvent`, and the safety of all of them
proved.

Next, in this order:

1. More facts of the code as theorems: that each module's invariant still holds when a
   neighbour is composed with it (`AppControl` over `AgoraRtc`'s calls, `MediaPipeline` over
   `RingBuffer`), and what of `NetworkTransfer` holds for calls that overlap.
2. `SmartConfig` over `NetworkTransfer` and `VideoEngine`: provisioning, reconnection, the
   mode switch and its half-failed updates (`bk_smart_config_core.c:345-358`).
3. `RemoteCommands`: the RTM command history and video control, over `AppControl`.
4. Pure algorithms against references on bounded inputs: the incremental HTTP response
   parser, press decoding, Wi-Fi credential records.

## Not modelled

Rendering (display, LED patterns, presenter text), storage drivers, the CPU monitor, the
motor, command-line interfaces and audio parameters hold no protocol state. JSON, the HTTP
parser and the agents' requests are pure algorithms within one blocking call. The audio
devices and the audio engine hand buffers to the vendor's driver, which is not in the
repository. Contents of requests, audio and video are abstracted everywhere.

Of the 173 thousand lines of the sources about 139 thousand are generated arrays of audio and
images (`prompt_tone_*_array.h`, `mybot_assets.c`); what is modelled is a share of the
remaining 33 thousand. `PROJECT.json` lists each component with its status and reason.
