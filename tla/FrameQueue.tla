----------------------------- MODULE FrameQueue -----------------------------
(***************************************************************************)
(* video_frame_que.c for one image format: a pool of frame buffers.  The    *)
(* free queue holds one token for each buffer that may still be allocated,  *)
(* the ready queue the buffers a producer completed.  Tokens are all alike, *)
(* so the free queue is a number.  Both queues take Pool messages and are   *)
(* read and written without waiting, apart from a consumer of ready frames. *)
(*                                                                          *)
(* A call on the pool is cut where it has touched one of the queues or the   *)
(* heap and has another still to touch: other threads run in between, and a *)
(* thread may be deleted there.  A queue that could not be created takes and *)
(* gives nothing.                                                           *)
(***************************************************************************)
EXTENDS Naturals, FiniteSets, Sequences, Functions

CONSTANTS
  Pool,        \* MJPEG_MAX_FRAME_COUNT, H264_MAX_FRAME_COUNT or YUV_MAX_FRAME_COUNT
  Frames,      \* buffers of the heap
  Users,       \* the threads that hold frames
  Steals       \* the format may reuse the oldest ready frame: MJPEG and YUV

ASSUME PoolAssumption == Pool \in Nat \ {0} /\ Steals \in BOOLEAN

ASSUME MemoryAssumption == IsFiniteSet(Frames) /\ IsFiniteSet(Users)

VARIABLES
  count,       \* frame_queue[index].count
  made,        \* both queues exist
  free, ready, \* the contents of free_que and ready_que
  held,        \* what each user holds
  doing,       \* the call each user is in the middle of
  live,        \* buffers allocated from the heap and not freed
  issued,      \* those allocated since this pool was made, and not given back
  lost,        \* history: tokens that went with a thread deleted in a call
  foreign      \* history: buffers and tokens that were out when this pool was made

poolVars == <<count, made, free, ready, held, doing, live, issued, lost, foreign>>

Queued == Range(ready)
InHands == UNION {held[u] : u \in Users}

\* With a token taken and no buffer yet, or a buffer freed and its token not yet
\* back.
Carries(u) == doing[u] \in {"malloc", "free"}
Carriers == {u \in Users : Carries(u)}

-----------------------------------------------------------------------------
(* frame_queue_init(), frame_queue_deinit()                                 *)

Create ==
  /\ count = 0
  /\ count' = Pool /\ made' = TRUE /\ free' = Pool /\ ready' = <<>> /\ issued' = {}
  /\ lost' = 0 /\ foreign' = Cardinality(InHands) + Cardinality(Carriers)
  /\ UNCHANGED <<held, doing, live>>

\* The count is set before the queues are created, and stays.
CreateFails ==
  /\ count = 0
  /\ count' = Pool
  /\ UNCHANGED <<made, free, ready, held, doing, live, issued, lost, foreign>>

\* What users hold is not the queue's to free.
Destroy ==
  /\ count > 0
  /\ live' = live \ Queued
  /\ count' = 0 /\ made' = FALSE /\ free' = 0 /\ ready' = <<>> /\ issued' = {}
  /\ UNCHANGED <<held, doing, lost, foreign>>

-----------------------------------------------------------------------------
(* frame_queue_malloc(), frame_queue_get_frame(), frame_queue_complete(),   *)
(* frame_queue_free(); frame_queue_clear_all() gets and frees frame by frame *)

Turns(u, from, to) == doing[u] = from /\ doing' = [doing EXCEPT ![u] = to]

Takes(u, f) == held' = [held EXCEPT ![u] = @ \cup {f}]
GivesUp(u, f) == f \in held[u] /\ held' = [held EXCEPT ![u] = @ \ {f}]

PutsToken == free' = IF made /\ free < Pool THEN free + 1 ELSE free

\* What follows a token that was not there or led to no buffer.
Instead == IF Steals THEN "steal" ELSE "none"

AskToken(u) ==
  /\ count > 0
  /\ \/ free > 0 /\ free' = free - 1 /\ Turns(u, "none", "malloc")
     \/ free = 0 /\ free' = free /\ Turns(u, "none", Instead)
  /\ UNCHANGED <<count, made, ready, held, live, issued, lost, foreign>>

HeapGives(u) ==
  /\ Turns(u, "malloc", "none")
  /\ \E f \in Frames \ live :
       Takes(u, f) /\ live' = live \cup {f} /\ issued' = issued \cup {f}
  /\ UNCHANGED <<count, made, free, ready, lost, foreign>>

HeapRefuses(u) ==
  /\ Turns(u, "malloc", Instead)
  /\ PutsToken
  /\ UNCHANGED <<count, made, ready, held, live, issued, lost, foreign>>

PopReady(u) ==
  /\ ready # <<>>
  /\ Takes(u, Head(ready))
  /\ ready' = Tail(ready)
  /\ UNCHANGED <<count, made, free, live, issued, lost, foreign>>

Steal(u) ==
  /\ Turns(u, "steal", "none")
  /\ \/ PopReady(u)
     \/ /\ ready = <<>>
        /\ UNCHANGED <<count, made, free, ready, held, live, issued, lost, foreign>>

Malloc(u) == AskToken(u) \/ HeapGives(u) \/ HeapRefuses(u) \/ Steal(u)

GetFrame(u) == doing[u] = "none" /\ PopReady(u) /\ UNCHANGED doing

\* Without a pool the buffer is neither freed nor queued.
Mislay(u, f) ==
  /\ count = 0 /\ doing[u] = "none"
  /\ GivesUp(u, f)
  /\ UNCHANGED <<count, made, free, ready, doing, live, issued, lost, foreign>>

GiveBackStillHolding(u, f) ==
  /\ count > 0 /\ f \in held[u]
  /\ Turns(u, "none", "free")
  /\ live' = live \ {f} /\ issued' = issued \ {f}
  /\ UNCHANGED <<count, made, free, ready, held, lost, foreign>>

\* First the heap has its buffer back, then the free queue its token.
GiveBack(u, f) ==
  /\ count > 0
  /\ Turns(u, "none", "free")
  /\ GivesUp(u, f)
  /\ live' = live \ {f} /\ issued' = issued \ {f}
  /\ UNCHANGED <<count, made, free, ready, lost, foreign>>

ForgetToken(u) ==
  /\ Turns(u, "free", "none")
  /\ UNCHANGED <<count, made, free, ready, held, live, issued, lost, foreign>>

ReturnToken(u) ==
  /\ Turns(u, "free", "none")
  /\ PutsToken
  /\ UNCHANGED <<count, made, ready, held, live, issued, lost, foreign>>

Free(u, f) == Mislay(u, f) \/ GiveBack(u, f)

Queue(u, f) ==
  /\ made /\ Len(ready) < Pool /\ doing[u] = "none"
  /\ GivesUp(u, f)
  /\ ready' = Append(ready, f)
  /\ UNCHANGED <<count, made, free, doing, live, issued, lost, foreign>>

Complete(u, f) ==
  \/ Queue(u, f)
  \/ ~(made /\ Len(ready) < Pool) /\ Free(u, f)

\* A thread deleted wherever it is: nobody gives back the buffers it holds, nor
\* the token it carries.
Abandon(u) ==
  /\ held' = [held EXCEPT ![u] = {}]
  /\ doing' = [doing EXCEPT ![u] = "none"]
  /\ lost' = IF made /\ Carries(u) THEN lost + 1 ELSE lost
  /\ UNCHANGED <<count, made, free, ready, live, issued, foreign>>

-----------------------------------------------------------------------------
PoolInit ==
  /\ count = 0 /\ made = FALSE /\ free = 0 /\ ready = <<>>
  /\ held = [u \in Users |-> {}] /\ doing = [u \in Users |-> "none"]
  /\ live = {} /\ issued = {} /\ lost = 0 /\ foreign = 0

PoolNext ==
  \/ Create \/ CreateFails \/ Destroy
  \/ \E u \in Users : Malloc(u) \/ GetFrame(u) \/ ReturnToken(u) \/ Abandon(u)
  \/ \E u \in Users, f \in Frames : Complete(u, f) \/ Free(u, f)

PoolSpec == PoolInit /\ [][PoolNext]_poolVars

-----------------------------------------------------------------------------
\* Every variable keeps the type its queue gives it.
PoolTypeOK ==
  /\ count \in {0, Pool} /\ made \in BOOLEAN /\ (made => count = Pool)
  /\ free \in 0..Pool /\ (~made => free = 0)
  /\ ready \in Seq(Frames) /\ Len(ready) <= Pool /\ (~made => ready = <<>>)
  /\ held \in [Users -> SUBSET Frames]
  /\ doing \in [Users -> {"none", "malloc", "steal", "free"}]
  /\ live \subseteq Frames /\ issued \subseteq live
  /\ lost \in Nat /\ foreign \in Nat

\* A buffer has one owner: it is queued once or held by one user, and neither
\* the heap nor a second user has it meanwhile.  Buffers change hands through
\* completing, stealing, getting and freeing, in whatever order threads do it.
OneOwner ==
  /\ \A i, j \in 1..Len(ready) : ready[i] = ready[j] => i = j
  /\ Queued \cap InHands = {}
  /\ \A u, v \in Users : held[u] \cap held[v] # {} => u = v
  /\ Queued \cup InHands \subseteq live

Tokens == free + Cardinality(issued) + Cardinality(Carriers)

\* Buffers of an earlier pool, still to be given back to this one.
Strays == (Queued \cup InHands) \ issued

\* A token is in the free queue, in a call or in a buffer, and goes only with a
\* thread deleted in a call; none is added but for a buffer or a call that an
\* earlier pool left out, one for each.
TokensKept ==
  made => /\ Tokens + lost >= Pool
          /\ Tokens + lost + Cardinality(Strays) <= Pool + foreign

\* The pool keeps its buffers and its tokens, whoever calls it.
PoolKept == OneOwner /\ TokensKept
=============================================================================
