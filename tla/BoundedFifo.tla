---------------------------- MODULE BoundedFifo ----------------------------
(***************************************************************************)
(* What mybot_ringbuf promises its two users, without the indices: a       *)
(* bounded first-in first-out queue of bytes.  A write is accepted as a    *)
(* whole or refused, a read delivers exactly the oldest bytes, a clear     *)
(* forgets what is queued.  A byte is represented by its position in the   *)
(* producer's stream, so loss, duplication and reordering are all visible. *)
(***************************************************************************)
EXTENDS Integers, Sequences

CONSTANT Capacity   \* bytes the queue holds, the size given to create()

VARIABLES
  queue,   \* the bytes accepted and not yet delivered, oldest first
  in,      \* how many bytes the producer has had accepted
  last     \* the bytes the latest successful read delivered

fifoVars == <<queue, in, last>>

FifoInit == queue = <<>> /\ in = 0 /\ last = <<>>

\* The next n bytes of the producer's stream.
Stream(n) == [i \in 1..n |-> in + i - 1]

Put(n) ==
  /\ Len(queue) + n <= Capacity
  /\ queue' = queue \o Stream(n)
  /\ in' = in + n
  /\ UNCHANGED last

Get(n) ==
  /\ n <= Len(queue)
  /\ last' = SubSeq(queue, 1, n)
  /\ queue' = SubSeq(queue, n + 1, Len(queue))
  /\ UNCHANGED in

Reset ==
  /\ queue' = <<>>
  /\ UNCHANGED <<in, last>>

FifoNext ==
  \/ \E n \in 1..Capacity : Put(n) \/ Get(n)
  \/ Reset

FifoSpec == FifoInit /\ [][FifoNext]_fifoVars
=============================================================================
