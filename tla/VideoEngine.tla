----------------------------- MODULE VideoEngine -----------------------------
(***************************************************************************)
(* video_engine.c over the frame queue of the format it transfers: the      *)
(* camera fills frames from its own thread, the transfer task sends them,   *)
(* and one caller initializes, starts, stops and deinitializes the engine   *)
(* while both go on.                                                        *)
(*                                                                          *)
(* The camera driver is external: opening and closing may fail, a camera    *)
(* that closes has completed every frame it held, and there is one camera.  *)
(* So is the deletion of a thread, which does not fail.                     *)
(***************************************************************************)
EXTENDS FrameQueue

CONSTANTS
  CloseMayFail       \* bk_camera_close() or bk_camera_delete() may fail

ASSUME EngineAssumption == {"camera", "transfer"} \subseteq Users /\ CloseMayFail \in BOOLEAN

VARIABLES
  ctx,               \* g_video_engine_ctx # NULL
  opened,            \* its camera_handle # NULL
  running, handle,   \* its transfer_task_running, transfer_task_handle # NULL
  started,           \* its is_started
  caller,            \* the call in progress and how far it is
  task,              \* where the transfer task is
  filming            \* the camera is open and calls back

engineVars == <<ctx, opened, running, handle, started>>
vars == <<poolVars, engineVars, caller, task, filming>>

Idle == [call |-> "none", at |-> "idle"]
Goes(place) == caller' = [caller EXCEPT !.at = place]
Enters(call, place) == caller = Idle /\ caller' = [call |-> call, at |-> place]
Returns == caller' = Idle

-----------------------------------------------------------------------------
(* video_engine_init(), video_engine_start()                                *)

CallInit ==
  /\ ~ctx
  /\ Enters("init", "queue")
  /\ ctx' = TRUE
  /\ UNCHANGED <<poolVars, opened, running, handle, started, task, filming>>

\* video_engine_start(), also by way of video_engine_init() on a stopped engine
CallStart ==
  /\ ctx /\ ~started
  /\ Enters("start", "camera")
  /\ UNCHANGED <<poolVars, engineVars, task, filming>>

\* frame_queue_init_all(): a pool left by an earlier failure is taken as it is,
\* and the pool of another format may be the one that fails.
TakeAsItIs == count > 0 /\ UNCHANGED poolVars

PrepareQueue ==
  /\ caller.at = "queue"
  /\ \/ /\ Create \/ TakeAsItIs
        /\ Goes("camera")
        /\ UNCHANGED ctx
     \/ /\ Create \/ CreateFails \/ TakeAsItIs
        /\ ctx' = FALSE
        /\ Returns
  /\ UNCHANGED <<opened, running, handle, started, task, filming>>

\* A failed start leaves the context to whoever created it.
GiveUp == IF caller.call = "init" THEN Goes("dispose") ELSE Returns

\* video_engine_dvp_camera_open(); a handle that is still there counts as open.
OpenCamera ==
  /\ caller.at = "camera"
  /\ \/ opened /\ Goes("task") /\ UNCHANGED <<opened, filming>>
     \/ /\ ~opened /\ ~filming
        /\ opened' = TRUE /\ filming' = TRUE
        /\ Goes("task")
     \/ ~opened /\ GiveUp /\ UNCHANGED <<opened, filming>>
  /\ UNCHANGED <<poolVars, ctx, running, handle, started, task>>

\* video_engine_transfer_start()
StartTask ==
  /\ caller.at = "task"
  /\ \/ /\ running' = TRUE /\ handle' = TRUE /\ task' = "test"
        /\ started' = TRUE
        /\ Returns
     \/ Goes("close") /\ UNCHANGED <<running, handle, task, started>>
  /\ UNCHANGED <<poolVars, ctx, opened, filming>>

-----------------------------------------------------------------------------
(* video_engine_stop(), video_engine_deinit()                               *)

CallStop ==
  /\ ctx /\ started
  /\ \E call \in {"stop", "deinit"} : Enters(call, "kill")
  /\ running' = FALSE
  /\ UNCHANGED <<poolVars, ctx, opened, handle, started, task, filming>>

CallDeinitStopped ==
  /\ ctx /\ ~started
  /\ Enters("deinit", "dispose")
  /\ UNCHANGED <<poolVars, engineVars, task, filming>>

\* video_engine_transfer_stop() leaves a task that is still there no time to finish.
LeaveTask ==
  /\ caller.at = "kill"
  /\ handle' = FALSE
  /\ Goes("close")
  /\ UNCHANGED <<poolVars, ctx, opened, running, started, task, filming>>

KillTask ==
  /\ caller.at = "kill"
  /\ handle' = FALSE
  /\ IF handle THEN task' = "none" /\ Abandon("transfer") ELSE UNCHANGED <<task, poolVars>>
  /\ Goes("close")
  /\ UNCHANGED <<ctx, opened, running, started, filming>>

\* After the camera: video_engine_stop() has stopped whatever failed.
Closed ==
  /\ started' = FALSE
  /\ IF caller.call \in {"init", "deinit"} THEN Goes("dispose") ELSE Returns

\* Its last callback has returned, with the last frame.
CameraAtRest == held["camera"] = {} /\ doing["camera"] = "none"

\* video_engine_camera_close()
CloseCamera ==
  /\ caller.at = "close"
  /\ \/ ~opened /\ UNCHANGED <<opened, filming>>
     \/ opened /\ CameraAtRest /\ opened' = FALSE /\ filming' = FALSE
     \/ CloseMayFail /\ opened /\ CameraAtRest /\ filming' = FALSE /\ UNCHANGED opened
     \/ CloseMayFail /\ opened /\ UNCHANGED <<opened, filming>>
  /\ Closed
  /\ UNCHANGED <<poolVars, ctx, running, handle, task>>

\* frame_queue_deinit_all(), os_free()
Dispose ==
  /\ caller.at = "dispose"
  /\ Destroy
  /\ ctx' = FALSE /\ opened' = FALSE /\ running' = FALSE /\ handle' = FALSE /\ started' = FALSE
  /\ Returns
  /\ UNCHANGED <<task, filming>>

-----------------------------------------------------------------------------
(* The camera's callbacks                                                   *)

CameraWorks == UNCHANGED <<engineVars, caller, task, filming>>

CameraAsks ==
  /\ filming /\ held["camera"] = {}
  /\ AskToken("camera")
  /\ CameraWorks

CameraObtains == HeapGives("camera") /\ CameraWorks

CameraIsRefused == HeapRefuses("camera") /\ CameraWorks

CameraSteals == Steal("camera") /\ CameraWorks

CameraDelivers ==
  /\ \E f \in held["camera"] : Complete("camera", f)
  /\ CameraWorks

CameraDrops ==
  /\ \E f \in held["camera"] : Free("camera", f)
  /\ CameraWorks

CameraReturnsToken == ReturnToken("camera") /\ CameraWorks

-----------------------------------------------------------------------------
(* video_engine_transfer_task()                                             *)

TaskMoves(from, to) ==
  /\ task = from /\ task' = to
  /\ UNCHANGED <<caller, filming>>

TaskTests ==
  /\ doing["transfer"] = "none"
  /\ TaskMoves("test", IF ctx /\ running THEN "get" ELSE "exit")
  /\ UNCHANGED <<poolVars, engineVars>>

TaskGets ==
  /\ TaskMoves("get", "send")
  /\ GetFrame("transfer")
  /\ UNCHANGED engineVars

\* A queue that was never made returns at once, empty-handed.
TaskFindsNoQueue ==
  /\ ~made
  /\ TaskMoves("get", "test")
  /\ UNCHANGED <<poolVars, engineVars>>

TaskSent ==
  /\ TaskMoves("send", "test")
  /\ \E f \in held["transfer"] : Free("transfer", f)
  /\ UNCHANGED engineVars

TaskReturnsToken ==
  /\ ReturnToken("transfer")
  /\ UNCHANGED <<engineVars, caller, task, filming>>

TaskExits ==
  /\ TaskMoves("exit", "none")
  /\ handle' = FALSE
  /\ UNCHANGED <<poolVars, ctx, opened, running, started>>

-----------------------------------------------------------------------------
Init ==
  /\ PoolInit
  /\ ctx = FALSE /\ opened = FALSE /\ running = FALSE /\ handle = FALSE /\ started = FALSE
  /\ caller = Idle /\ task = "none" /\ filming = FALSE

Calling == CallInit \/ CallStart \/ CallStop \/ CallDeinitStopped

Working == PrepareQueue \/ OpenCamera \/ StartTask \/ KillTask \/ CloseCamera \/ Dispose

Camera ==
  \/ CameraAsks \/ CameraObtains \/ CameraIsRefused \/ CameraSteals
  \/ CameraDelivers \/ CameraDrops \/ CameraReturnsToken

Transfer ==
  TaskTests \/ TaskGets \/ TaskFindsNoQueue \/ TaskSent \/ TaskReturnsToken \/ TaskExits

Next == Calling \/ Working \/ Camera \/ Transfer

Spec == Init /\ [][Next]_vars

\* The threads run and end the calls they are in.  The camera allocates and
\* completes frames again and again, a heap that has a buffer does not refuse it
\* for ever, and a task waiting for a frame is woken by the one that is queued.
FairSpec ==
  /\ Spec
  /\ WF_vars(Working) /\ WF_vars(TaskTests) /\ WF_vars(TaskSent) /\ WF_vars(TaskExits)
  /\ WF_vars(TaskReturnsToken) /\ WF_vars(CameraReturnsToken) /\ WF_vars(CameraSteals)
  /\ SF_vars(TaskGets) /\ SF_vars(CameraAsks) /\ SF_vars(CameraObtains) /\ SF_vars(CameraDelivers)

-----------------------------------------------------------------------------
\* The context and the threads keep their types.
TypeOK ==
  /\ PoolTypeOK
  /\ ctx \in BOOLEAN /\ opened \in BOOLEAN /\ running \in BOOLEAN /\ handle \in BOOLEAN
  /\ started \in BOOLEAN /\ filming \in BOOLEAN
  /\ caller \in [call : {"none", "init", "start", "stop", "deinit"},
                 at : {"idle", "queue", "camera", "task", "kill", "close", "dispose"}]
  /\ task \in {"none", "test", "get", "send", "exit"}

\* The transfer task never outlives the pool or the context it reads, and none
\* is left when another is created, however the stop meets it.
TaskEndsFirst ==
  /\ task # "none" => ctx /\ count > 0
  /\ caller.at \in {"queue", "camera", "task", "dispose"} => task = "none"

\* Tokens that went with a deleted task: in the buffer it held, or in its call.
LostTokens == Cardinality(issued \ (Queued \cup InHands)) + lost

\* Video flows: an engine that is started over a camera that films into a pool
\* sends a frame or is stopped, whichever frames the camera drops or steals back,
\* while the stops before have not lost every token of the pool and the heap is
\* not full.  A start over the handle of a camera that failed to close
\* (video_engine.c:252) films nothing and is left out.
VideoFlows ==
  (started /\ running /\ filming /\ made /\ LostTokens < Pool /\ live # Frames)
    ~> (task = "send" \/ ~running)
=============================================================================
