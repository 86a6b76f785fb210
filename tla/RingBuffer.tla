----------------------------- MODULE RingBuffer -----------------------------
(***************************************************************************)
(* src/support/mybot_ringbuf.c: the lock-free ring that carries PCM from   *)
(* the capture worker to the send worker and from the RTC callback worker  *)
(* to the playback worker.  One producer and one consumer run              *)
(* concurrently; neither takes a lock.  An operation reads the peer's      *)
(* index once, copies the payload byte by byte, and publishes its own      *)
(* index last; those are the steps the other side can interleave with.     *)
(*                                                                         *)
(* A byte is its position in the producer's stream.  A refused write or    *)
(* read leaves everything unchanged and is a stuttering step.              *)
(***************************************************************************)
EXTENDS Integers, Sequences

CONSTANTS
  Capacity,   \* the size given to create()
  MaxChunk,   \* longest write or read the callers issue
  MaxBytes    \* bound on the bytes ever written (model checking only)

ASSUME RingAssumption ==
  /\ Capacity \in Nat \ {0}
  /\ MaxChunk \in Nat \ {0}
  /\ MaxBytes \in Nat

VARIABLES
  head,      \* write position, published by the producer
  tail,      \* read position, published by the consumer
  buf,       \* the slots
  wlen,      \* length of the write in progress, 0 when the producer is idle
  wdone,     \* bytes of it already copied in
  rlen,      \* length of the read in progress, 0 when the consumer is idle
  dst,       \* bytes of it already copied out
  promise,   \* what the producer's latest get_free_size() answered, 0 once used
  in,        \* bytes published so far
  out,       \* bytes consumed or cleared so far
  last       \* the bytes the latest read delivered

producerVars == <<wlen, wdone, promise, in>>
consumerVars == <<rlen, dst, out, last>>
vars == <<head, tail, buf, producerVars, consumerVars>>

\* create(): one guard byte tells a full ring from an empty one.
Size == Capacity + 1
Slots == 0..Capacity

\* What a slot holds before anything is written to it.
Junk == -1

Used(h, t) == (h + Size - t) % Size

FreeWithoutGuardByte(h, t) == Size - Used(h, t)
Free(h, t) == Size - Used(h, t) - 1

\* Where an index stands n bytes further on.
Advance(pos, n) == (pos + n) % Size

\* The slot the i-th byte (from 0) of a chunk lands in: one memcpy when the
\* chunk does not reach the end of the array, two when it wraps.
Slot(start, len, i) ==
  LET pos    == Advance(start, len)
      remain == Size - start
  IN  IF pos >= start \/ i < remain THEN start + i ELSE i - remain

Init ==
  /\ head = 0 /\ tail = 0
  /\ buf = [s \in Slots |-> Junk]
  /\ wlen = 0 /\ wdone = 0 /\ promise = 0 /\ in = 0
  /\ rlen = 0 /\ dst = <<>> /\ out = 0 /\ last = <<>>

-----------------------------------------------------------------------------
(* The producer                                                            *)

QueryFree ==
  /\ wlen = 0
  /\ promise' = Free(head, tail)
  /\ UNCHANGED <<head, tail, buf, wlen, wdone, in, consumerVars>>

StartWrite(n) ==
  /\ wlen = 0
  /\ in + n <= MaxBytes
  /\ Free(head, tail) >= n
  /\ wlen' = n
  /\ wdone' = 0
  /\ promise' = 0
  /\ UNCHANGED <<head, tail, buf, in, consumerVars>>

CopyIn ==
  /\ wdone < wlen
  /\ buf' = [buf EXCEPT ![Slot(head, wlen, wdone)] = in + wdone]
  /\ wdone' = wdone + 1
  /\ UNCHANGED <<head, tail, wlen, promise, in, consumerVars>>

PublishHeadBeforeCopy ==
  /\ wlen > 0
  /\ head' = Advance(head, wlen)
  /\ in' = in + wlen
  /\ wlen' = 0
  /\ wdone' = 0
  /\ UNCHANGED <<tail, buf, promise, consumerVars>>

PublishHead ==
  /\ wlen > 0
  /\ wdone = wlen
  /\ head' = Advance(head, wlen)
  /\ in' = in + wlen
  /\ wlen' = 0
  /\ wdone' = 0
  /\ UNCHANGED <<tail, buf, promise, consumerVars>>

-----------------------------------------------------------------------------
(* The consumer                                                            *)

StartRead(n) ==
  /\ rlen = 0
  /\ Used(head, tail) >= n
  /\ rlen' = n
  /\ UNCHANGED <<head, tail, buf, dst, out, last, producerVars>>

CopyOut ==
  /\ Len(dst) < rlen
  /\ dst' = Append(dst, buf[Slot(tail, rlen, Len(dst))])
  /\ UNCHANGED <<head, tail, buf, rlen, out, last, producerVars>>

PublishTail ==
  /\ rlen > 0
  /\ Len(dst) = rlen
  /\ tail' = Advance(tail, rlen)
  /\ out' = out + rlen
  /\ last' = dst
  /\ rlen' = 0
  /\ dst' = <<>>
  /\ UNCHANGED <<head, buf, producerVars>>

-----------------------------------------------------------------------------
\* clear(): its callers stop both users first, as mybot_ringbuf.h demands.
Clear ==
  /\ wlen = 0 /\ rlen = 0
  /\ head' = 0
  /\ tail' = 0
  /\ out' = in
  /\ UNCHANGED <<buf, producerVars, rlen, dst, last>>

Next ==
  \/ QueryFree \/ CopyIn \/ PublishHead
  \/ CopyOut \/ PublishTail
  \/ \E n \in 1..MaxChunk : StartWrite(n) \/ StartRead(n)
  \/ Clear

Spec == Init /\ [][Next]_vars

-----------------------------------------------------------------------------
(* Properties                                                              *)

TypeOK ==
  /\ head \in Slots /\ tail \in Slots
  /\ buf \in [Slots -> Int]
  /\ wlen \in 0..Capacity /\ wdone \in 0..wlen
  /\ rlen \in 0..Capacity
  /\ dst \in Seq(Int) /\ Len(dst) <= rlen
  /\ promise \in Nat /\ in \in Nat /\ out \in Nat
  /\ last \in Seq(Int)

\* The slots that hold published bytes the consumer has not released.
Unread == {Advance(tail, j) : j \in 0..(Used(head, tail) - 1)}

\* While a write is being copied in, no slot it will touch holds a byte the
\* consumer may still be reading: the free space seen at the start of the
\* write is not taken back (mybot_ringbuf_write against a concurrent read).
NoOverrun ==
  \A i \in 0..(wlen - 1) : Slot(head, wlen, i) \notin Unread

\* Every byte copied out so far is the next byte of the stream: no torn, lost,
\* repeated or reordered data, even while the producer is copying.
ReadInOrder ==
  \A i \in 1..Len(dst) : dst[i] = out + i - 1

\* A producer that asked for the free size may rely on it until it writes
\* (playback_timer sizes the AEC reference write this way, and treats a
\* refusal afterwards as fatal).
PromiseKept == promise <= Free(head, tail)

\* The ring is safe for its one producer and its one consumer.
RingSafe == NoOverrun /\ ReadInOrder /\ PromiseKept

\* The ring implements the bounded queue: its content is what lies between the
\* two published indices.
Content == [j \in 1..Used(head, tail) |-> buf[Advance(tail, j - 1)]]
Fifo == INSTANCE BoundedFifo WITH queue <- Content
FifoSpec == Fifo!FifoSpec
=============================================================================
