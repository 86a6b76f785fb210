-------------------------- MODULE RingBufferProofs --------------------------
(***************************************************************************)
(* Proofs about RingBuffer for every capacity, chunk size and stream       *)
(* length.  The index arithmetic is settled first; the rest never sees %.  *)
(***************************************************************************)
EXTENDS RingBuffer, SequenceTheorems, TLAPS

-----------------------------------------------------------------------------
(* Index arithmetic                                                        *)

\* A sum that goes past the modulus at most once.
LEMMA ModOnce ==
  \A n \in Nat \ {0} : \A a \in 0..(2 * n - 1) :
    a % n = IF a < n THEN a ELSE a - n
  OBVIOUS

LEMMA ModSize ==
  \A a \in 0..(2 * Size - 1) : a % Size = IF a < Size THEN a ELSE a - Size
  <1>1. Size \in Nat \ {0}
    BY RingAssumption DEF Size
  <1> HIDE DEF Size
  <1>2. QED
    BY <1>1, ModOnce

\* The indices are slots, so their distance is the forward distance.
LEMMA UsedValue ==
  ASSUME NEW h \in Slots, NEW t \in Slots
  PROVE  /\ Used(h, t) = IF h >= t THEN h - t ELSE h - t + Size
         /\ Used(h, t) \in 0..Capacity
  <1>1. Size \in Nat \ {0} /\ Capacity \in Nat \ {0}
    BY RingAssumption DEF Size
  <1> DEFINE d == h + Size - t
  <1>2. d \in 0..(2 * Size - 1)
    BY <1>1 DEF Slots, Size
  <1>3. d % Size = IF d < Size THEN d ELSE d - Size
    <2> HIDE DEF d
    <2>1. QED BY <1>2, ModSize
  <1>4. QED
    BY <1>1, <1>3 DEF Used, Slots, Size

LEMMA AdvanceValue ==
  ASSUME NEW p \in Slots, NEW n \in 0..Capacity
  PROVE  /\ Advance(p, n) = IF p + n < Size THEN p + n ELSE p + n - Size
         /\ Advance(p, n) \in Slots
  <1>1. Size \in Nat \ {0} /\ Capacity \in Nat \ {0}
    BY RingAssumption DEF Size
  <1> DEFINE s == p + n
  <1>2. s \in 0..(2 * Size - 1)
    BY <1>1 DEF Slots, Size
  <1>3. s % Size = IF s < Size THEN s ELSE s - Size
    <2> HIDE DEF s
    <2>1. QED BY <1>2, ModSize
  <1>4. QED
    BY <1>1, <1>3 DEF Advance, Slots, Size

\* The two-part memcpy of a wrapping chunk puts byte i where the index
\* arithmetic of the other side expects it.
LEMMA SlotValue ==
  ASSUME NEW start \in Slots, NEW len \in 0..Capacity, NEW i \in 0..(len - 1)
  PROVE  Slot(start, len, i) = Advance(start, i)
  <1>1. Size = Capacity + 1 /\ Capacity \in Nat \ {0} /\ i \in 0..Capacity
    BY RingAssumption DEF Size
  <1>2. Advance(start, len)
          = IF start + len < Size THEN start + len ELSE start + len - Size
    BY AdvanceValue
  <1>3. Advance(start, i) = IF start + i < Size THEN start + i ELSE start + i - Size
    BY <1>1, AdvanceValue
  <1>4. QED
    BY <1>1, <1>2, <1>3 DEF Slot, Slots

-----------------------------------------------------------------------------
(* The inductive invariant.  Reserved and Held are the two facts the       *)
(* lock-free protocol rests on: the free space a writer found at its start *)
(* is not taken back while it copies, nor is the data a reader found.      *)

Reserved == wlen + Used(head, tail) <= Capacity
Held == rlen <= Used(head, tail)
Counted == in = out + Used(head, tail)
Stored == \A j \in 0..(Used(head, tail) - 1) : buf[Advance(tail, j)] = out + j
Copied == \A i \in 0..(wdone - 1) : buf[Advance(head, i)] = in + i
PromiseSpent == wlen > 0 => promise = 0

RingInv ==
  /\ TypeOK
  /\ Reserved
  /\ Held
  /\ Counted
  /\ Stored
  /\ Copied
  /\ ReadInOrder
  /\ PromiseKept
  /\ PromiseSpent

LEMMA InitInv == Init => RingInv
  <1>1. 0 \in Slots /\ Capacity \in Nat \ {0}
    BY RingAssumption DEF Slots
  <1>2. Used(0, 0) = 0
    BY <1>1, UsedValue
  <1>3. SUFFICES ASSUME Init PROVE RingInv
    OBVIOUS
  <1>4. TypeOK
    BY <1>1, <1>3 DEF Init, TypeOK, Junk
  <1>5. PromiseKept
    BY <1>1, <1>2, <1>3 DEF Init, PromiseKept, Free, Size
  <1>6. QED
    BY <1>1, <1>2, <1>3, <1>4, <1>5
       DEF Init, RingInv, Reserved, Held, Counted, Stored, Copied, ReadInOrder,
           PromiseSpent

\* The capacity and the distance between the indices, as every step needs them.
LEMMA Bounds ==
  ASSUME TypeOK
  PROVE  /\ Capacity \in Nat \ {0} /\ Size = Capacity + 1
         /\ Used(head, tail) \in 0..Capacity
         /\ Used(head, tail) = IF head >= tail THEN head - tail ELSE head - tail + Size
  BY RingAssumption, UsedValue DEF TypeOK, Size

-----------------------------------------------------------------------------
(* Each step preserves the invariant                                       *)

LEMMA QueryFreeInv ==
  ASSUME RingInv, QueryFree PROVE RingInv'
  <1>1. /\ UNCHANGED <<head, tail, buf, wlen, wdone, in, rlen, dst, out, last>>
        /\ promise' = Free(head, tail)
    BY DEF QueryFree, consumerVars
  <1>2. Free(head, tail) \in Nat
    BY Bounds DEF RingInv, Free
  <1>3. TypeOK'
    BY <1>1, <1>2 DEF RingInv, TypeOK
  <1>4. PromiseKept'
    BY <1>1, <1>2 DEF PromiseKept, Free, Used
  <1>5. (Reserved /\ Held /\ Counted /\ Stored /\ Copied /\ ReadInOrder)'
    BY <1>1 DEF RingInv, Reserved, Held, Counted, Stored, Copied, ReadInOrder,
                Used, Advance
  <1>6. PromiseSpent'
    BY <1>1 DEF QueryFree, PromiseSpent
  <1>7. QED
    BY <1>3, <1>4, <1>5, <1>6 DEF RingInv

LEMMA StartWriteInv ==
  ASSUME RingInv, NEW n \in 1..MaxChunk, StartWrite(n) PROVE RingInv'
  <1>1. /\ UNCHANGED <<head, tail, buf, in, rlen, dst, out, last>>
        /\ Free(head, tail) >= n /\ wlen' = n /\ wdone' = 0 /\ promise' = 0
    BY DEF StartWrite, consumerVars
  <1>2. n \in Nat /\ n <= Capacity - Used(head, tail)
    BY <1>1, Bounds, RingAssumption DEF RingInv, Free
  <1>3. TypeOK'
    BY <1>1, <1>2, Bounds DEF RingInv, TypeOK
  <1>4. Reserved'
    BY <1>1, <1>2, Bounds DEF RingInv, Reserved, Used
  <1>5. PromiseKept'
    BY <1>1, <1>2, Bounds DEF RingInv, PromiseKept, Free, Used
  <1>6. Copied'
    BY <1>1 DEF Copied
  <1>7. (Held /\ Counted /\ Stored /\ ReadInOrder)'
    BY <1>1 DEF RingInv, Held, Counted, Stored, ReadInOrder, Used, Advance
  <1>8. PromiseSpent'
    BY <1>1 DEF PromiseSpent
  <1>9. QED
    BY <1>3, <1>4, <1>5, <1>6, <1>7, <1>8 DEF RingInv

\* The byte goes to a slot ahead of the published data: nothing the consumer
\* may read changes, and the bytes copied before it stay in place.
LEMMA CopyInInv ==
  ASSUME RingInv, CopyIn PROVE RingInv'
  <1> DEFINE at == Advance(head, wdone)
  <1>1. /\ UNCHANGED <<head, tail, wlen, promise, in, rlen, dst, out, last>>
        /\ wdone < wlen /\ wdone' = wdone + 1
        /\ buf' = [buf EXCEPT ![Slot(head, wlen, wdone)] = in + wdone]
    BY DEF CopyIn, consumerVars
  <1>2. /\ head \in Slots /\ tail \in Slots /\ buf \in [Slots -> Int]
        /\ wlen \in 0..Capacity /\ wdone \in 0..(wlen - 1) /\ in \in Nat
        /\ Capacity \in Nat \ {0} /\ Size = Capacity + 1
    BY <1>1, Bounds DEF RingInv, TypeOK
  <1>3. buf' = [buf EXCEPT ![at] = in + wdone]
    BY <1>1, <1>2, SlotValue
  <1>4. at = IF head + wdone < Size THEN head + wdone ELSE head + wdone - Size
    BY <1>2, AdvanceValue
  <1>5. at \in Slots
    BY <1>2, AdvanceValue
  <1> HIDE DEF at
  <1>6. /\ Used(head, tail) \in 0..Capacity
        /\ Used(head, tail) = IF head >= tail THEN head - tail ELSE head - tail + Size
        /\ wlen + Used(head, tail) <= Capacity
    BY Bounds DEF RingInv, Reserved
  <1>7. TypeOK'
    <2>1. buf' \in [Slots -> Int]
      BY <1>2, <1>3, <1>5
    <2>2. wdone' \in 0..wlen'
      BY <1>1, <1>2
    <2>3. QED
      BY <1>1, <2>1, <2>2 DEF RingInv, TypeOK
  <1>8. ASSUME NEW j \in 0..(Used(head, tail) - 1)
        PROVE  Advance(tail, j) # at /\ Advance(tail, j) \in Slots
    <2>1. j \in 0..Capacity
      BY <1>2, Bounds DEF RingInv
    <2>2. /\ Advance(tail, j) = IF tail + j < Size THEN tail + j ELSE tail + j - Size
          /\ Advance(tail, j) \in Slots
      BY <1>2, <2>1, AdvanceValue
    <2>3. QED
      BY <1>2, <1>4, <1>6, <2>2 DEF Slots
  <1>9. Stored'
    BY <1>1, <1>2, <1>3, <1>8 DEF RingInv, Stored, Used, Advance
  <1>10. ASSUME NEW i \in 0..wdone
        PROVE  buf'[Advance(head, i)] = in + i
    <2>1. i \in 0..Capacity
      BY <1>2
    <2>2. /\ Advance(head, i) = IF head + i < Size THEN head + i ELSE head + i - Size
          /\ Advance(head, i) \in Slots
      BY <1>2, <2>1, AdvanceValue
    <2>3. CASE i = wdone
      BY <1>2, <1>3, <1>5, <2>3 DEF at
    <2>4. CASE i < wdone
      <3>1. Advance(head, i) # at
        BY <1>2, <1>4, <2>2, <2>4 DEF Slots
      <3>2. buf[Advance(head, i)] = in + i
        BY <1>2, <2>4 DEF RingInv, Copied
      <3>3. QED
        BY <1>2, <1>3, <2>2, <3>1, <3>2
    <2>5. QED
      BY <1>2, <2>3, <2>4
  <1>11. Copied'
    BY <1>1, <1>2, <1>10 DEF Copied, Advance
  <1>12. (Reserved /\ Held /\ Counted /\ ReadInOrder /\ PromiseKept /\ PromiseSpent)'
    BY <1>1 DEF RingInv, Reserved, Held, Counted, ReadInOrder, PromiseKept,
                PromiseSpent, Free, Used
  <1>13. QED
    BY <1>7, <1>9, <1>11, <1>12 DEF RingInv

\* Publishing turns the copied bytes into stored ones.
LEMMA PublishHeadInv ==
  ASSUME RingInv, PublishHead PROVE RingInv'
  <1> DEFINE used == Used(head, tail)
  <1>1. /\ UNCHANGED <<tail, buf, promise, rlen, dst, out, last>>
        /\ wlen > 0 /\ wdone = wlen /\ wlen' = 0 /\ wdone' = 0
        /\ in' = in + wlen /\ head' = Advance(head, wlen)
    BY DEF PublishHead, consumerVars
  <1>2. /\ head \in Slots /\ tail \in Slots /\ wlen \in 0..Capacity /\ in \in Nat
        /\ out \in Nat /\ Capacity \in Nat \ {0} /\ Size = Capacity + 1
    BY Bounds DEF RingInv, TypeOK
  <1>3. /\ used \in 0..Capacity
        /\ used = IF head >= tail THEN head - tail ELSE head - tail + Size
        /\ wlen + used <= Capacity
    BY Bounds DEF RingInv, Reserved
  <1>4. /\ head' \in Slots
        /\ head' = IF head + wlen < Size THEN head + wlen ELSE head + wlen - Size
    BY <1>1, <1>2, AdvanceValue
  <1>5. Used(head, tail)' = used + wlen
    <2>1. Used(head', tail)
            = IF head' >= tail THEN head' - tail ELSE head' - tail + Size
      BY <1>2, <1>4, UsedValue
    <2>2. QED
      <3> HIDE DEF used
      <3>1. Used(head', tail) = used + wlen
        BY <1>2, <1>3, <1>4, <2>1 DEF Slots
      <3>2. QED
        BY <1>1, <3>1
  <1>6. TypeOK'
    BY <1>1, <1>2, <1>4 DEF RingInv, TypeOK
  <1>7. ASSUME NEW j \in 0..(used + wlen - 1)
        PROVE  buf[Advance(tail, j)] = out + j
    <2>1. CASE j < used
      BY <1>3, <2>1 DEF RingInv, Stored
    <2>2. CASE j >= used
      <3> DEFINE i == j - used
      <3>1. i \in 0..(wlen - 1) /\ i \in 0..Capacity /\ j \in 0..Capacity
        BY <1>2, <1>3, <2>2
      <3>2. /\ Advance(head, i) = IF head + i < Size THEN head + i ELSE head + i - Size
            /\ Advance(tail, j) = IF tail + j < Size THEN tail + j ELSE tail + j - Size
        BY <1>2, <3>1, AdvanceValue
      <3>3. buf[Advance(head, i)] = in + i
        BY <1>1, <3>1 DEF RingInv, Copied
      <3>4. in = out + used
        BY DEF RingInv, Counted
      <3>5. Advance(head, i) = Advance(tail, j)
        <4> HIDE DEF used
        <4>1. QED
          BY <1>2, <1>3, <2>2, <3>1, <3>2 DEF Slots
      <3>6. QED
        BY <1>2, <1>3, <3>1, <3>3, <3>4, <3>5
    <2>3. QED
      BY <1>2, <1>3, <2>1, <2>2
  <1>8. Stored'
    <2> HIDE DEF used
    <2>1. SUFFICES ASSUME NEW j \in 0..(used + wlen - 1)
                   PROVE  (buf[Advance(tail, j)] = out + j)'
      BY <1>2, <1>3, <1>5 DEF Stored
    <2>2. Advance(tail, j)' = Advance(tail, j)
      BY <1>1 DEF Advance
    <2>3. QED
      BY <1>1, <1>7, <2>2
  <1>9. (Reserved /\ Held /\ Counted)'
    <2> HIDE DEF used
    <2>1. rlen <= used /\ in = out + used /\ rlen \in Nat
      BY DEF used, RingInv, Held, Counted, TypeOK
    <2>2. QED
      BY <1>1, <1>2, <1>3, <1>5, <2>1 DEF Reserved, Held, Counted
  <1>10. (PromiseKept /\ PromiseSpent)'
    <2> HIDE DEF used
    <2>1. promise = 0
      BY <1>1, <1>2 DEF RingInv, PromiseSpent
    <2>2. Free(head, tail)' = Size - (used + wlen) - 1
      BY <1>1, <1>5 DEF Free, Size
    <2>3. QED
      BY <1>1, <1>2, <1>3, <2>1, <2>2 DEF PromiseKept, PromiseSpent
  <1>11. (Copied /\ ReadInOrder)'
    BY <1>1 DEF RingInv, Copied, ReadInOrder
  <1>12. QED
    BY <1>6, <1>8, <1>9, <1>10, <1>11 DEF RingInv

LEMMA StartReadInv ==
  ASSUME RingInv, NEW n \in 1..MaxChunk, StartRead(n) PROVE RingInv'
  <1>1. /\ UNCHANGED <<head, tail, buf, wlen, wdone, promise, in, dst, out, last>>
        /\ rlen = 0 /\ rlen' = n /\ Used(head, tail) >= n
    BY DEF StartRead, producerVars
  <1>2. n \in Nat /\ n <= Used(head, tail) /\ Used(head, tail) \in 0..Capacity
    BY <1>1, Bounds, RingAssumption DEF RingInv
  <1>3. TypeOK'
    BY <1>1, <1>2, RingAssumption DEF RingInv, TypeOK
  <1>4. Held'
    BY <1>1, <1>2 DEF Held, Used
  <1>5. (Reserved /\ Counted /\ Stored /\ Copied)'
    BY <1>1 DEF RingInv, Reserved, Counted, Stored, Copied, Used, Advance
  <1>6. (ReadInOrder /\ PromiseKept /\ PromiseSpent)'
    BY <1>1 DEF RingInv, ReadInOrder, PromiseKept, PromiseSpent, Free, Used
  <1>7. QED
    BY <1>3, <1>4, <1>5, <1>6 DEF RingInv

\* The byte copied out is the next stored one.
LEMMA CopyOutInv ==
  ASSUME RingInv, CopyOut PROVE RingInv'
  <1> DEFINE k == Len(dst)
  <1>1. /\ UNCHANGED <<head, tail, buf, wlen, wdone, promise, in, rlen, out, last>>
        /\ k < rlen /\ dst' = Append(dst, buf[Slot(tail, rlen, k)])
    BY DEF CopyOut, producerVars
  <1>2. /\ tail \in Slots /\ buf \in [Slots -> Int] /\ rlen \in 0..Capacity
        /\ dst \in Seq(Int) /\ k \in 0..(rlen - 1) /\ out \in Nat
        /\ Used(head, tail) \in 0..Capacity /\ rlen <= Used(head, tail)
    BY <1>1, Bounds DEF RingInv, TypeOK, Held
  <1>3. Slot(tail, rlen, k) = Advance(tail, k)
    <2> HIDE DEF k
    <2>1. QED BY <1>2, SlotValue
  <1>4. buf[Slot(tail, rlen, k)] = out + k
    <2> HIDE DEF k
    <2>1. QED BY <1>2, <1>3 DEF RingInv, Stored
  <1>5. dst' = Append(dst, out + k)
    BY <1>1, <1>4
  <1>6. dst' \in Seq(Int) /\ Len(dst') = k + 1
    BY <1>2, <1>5
  <1>7. TypeOK'
    BY <1>1, <1>2, <1>6 DEF RingInv, TypeOK
  <1>8. ReadInOrder'
    BY <1>1, <1>2, <1>5, <1>6 DEF RingInv, ReadInOrder
  <1>9. (Reserved /\ Held /\ Counted /\ Stored /\ Copied)'
    BY <1>1 DEF RingInv, Reserved, Held, Counted, Stored, Copied, Used, Advance
  <1>10. (PromiseKept /\ PromiseSpent)'
    BY <1>1 DEF RingInv, PromiseKept, PromiseSpent, Free, Used
  <1>11. QED
    BY <1>7, <1>8, <1>9, <1>10 DEF RingInv

\* Releasing the bytes read shortens the stored stretch from its old end.
LEMMA PublishTailInv ==
  ASSUME RingInv, PublishTail PROVE RingInv'
  <1> DEFINE used == Used(head, tail)
  <1>1. /\ UNCHANGED <<head, buf, wlen, wdone, promise, in>>
        /\ rlen > 0 /\ rlen' = 0 /\ dst' = <<>> /\ last' = dst
        /\ out' = out + rlen /\ tail' = Advance(tail, rlen)
    BY DEF PublishTail, producerVars
  <1>2. /\ head \in Slots /\ tail \in Slots /\ rlen \in 0..Capacity /\ in \in Nat
        /\ out \in Nat /\ wlen \in 0..Capacity /\ promise \in Nat
        /\ Capacity \in Nat \ {0} /\ Size = Capacity + 1
    BY Bounds DEF RingInv, TypeOK
  <1>3. /\ used \in 0..Capacity /\ rlen <= used /\ wlen + used <= Capacity
        /\ used = IF head >= tail THEN head - tail ELSE head - tail + Size
        /\ in = out + used
    BY Bounds DEF RingInv, Reserved, Held, Counted
  <1>4. /\ tail' \in Slots
        /\ tail' = IF tail + rlen < Size THEN tail + rlen ELSE tail + rlen - Size
    BY <1>1, <1>2, AdvanceValue
  <1>5. Used(head, tail)' = used - rlen
    <2>1. Used(head, tail')
            = IF head >= tail' THEN head - tail' ELSE head - tail' + Size
      BY <1>2, <1>4, UsedValue
    <2>2. QED
      <3> HIDE DEF used
      <3>1. Used(head, tail') = used - rlen
        BY <1>2, <1>3, <1>4, <2>1 DEF Slots
      <3>2. QED
        BY <1>1, <3>1
  <1>6. TypeOK'
    BY <1>1, <1>2, <1>4 DEF RingInv, TypeOK
  <1>7. Stored'
    <2> HIDE DEF used
    <2>1. SUFFICES ASSUME NEW j \in 0..(used - rlen - 1)
                   PROVE  (buf[Advance(tail, j)] = out + j)'
      BY <1>5 DEF Stored
    <2> DEFINE i == rlen + j
    <2>2. j \in 0..Capacity /\ i \in 0..Capacity /\ i \in 0..(used - 1)
      BY <1>2, <1>3
    <2>3. /\ Advance(tail', j) = IF tail' + j < Size THEN tail' + j ELSE tail' + j - Size
          /\ Advance(tail, i) = IF tail + i < Size THEN tail + i ELSE tail + i - Size
      <3> HIDE DEF i
      <3>1. QED BY <1>2, <1>4, <2>2, AdvanceValue
    <2>4. Advance(tail', j) = Advance(tail, i)
      BY <1>2, <1>3, <1>4, <2>2, <2>3 DEF Slots
    <2>5. buf[Advance(tail, i)] = out + i
      <3> HIDE DEF i
      <3>1. QED BY <2>2 DEF RingInv, Stored, used
    <2>6. QED
      BY <1>1, <1>2, <2>2, <2>4, <2>5
  <1>8. (Reserved /\ Held /\ Counted)'
    <2> HIDE DEF used
    <2>1. Reserved'
      BY <1>1, <1>2, <1>3, <1>5 DEF Reserved
    <2>2. Held'
      BY <1>1, <1>2, <1>3, <1>5 DEF Held
    <2>3. Counted'
      BY <1>1, <1>2, <1>3, <1>5 DEF Counted
    <2>4. QED
      BY <2>1, <2>2, <2>3
  <1>9. PromiseKept'
    <2> HIDE DEF used
    <2>1. promise <= Size - used - 1
      BY DEF RingInv, PromiseKept, Free, used
    <2>2. Free(head, tail)' = Size - (used - rlen) - 1
      BY <1>1, <1>5 DEF Free, Size
    <2>3. promise <= Size - (used - rlen) - 1
      BY <1>2, <1>3, <2>1
    <2>4. QED
      BY <1>1, <2>2, <2>3 DEF PromiseKept
  <1>10. (Copied /\ ReadInOrder /\ PromiseSpent)'
    BY <1>1 DEF RingInv, Copied, ReadInOrder, PromiseSpent, Advance
  <1>11. QED
    BY <1>6, <1>7, <1>8, <1>9, <1>10 DEF RingInv

LEMMA ClearInv ==
  ASSUME RingInv, Clear PROVE RingInv'
  <1>1. /\ UNCHANGED <<buf, wlen, wdone, promise, in, rlen, dst, last>>
        /\ wlen = 0 /\ rlen = 0 /\ head' = 0 /\ tail' = 0 /\ out' = in
    BY DEF Clear, producerVars
  <1>2. 0 \in Slots /\ Capacity \in Nat \ {0} /\ Size = Capacity + 1
    BY RingAssumption DEF Slots, Size
  <1>3. Used(head', tail') = 0
    BY <1>1, <1>2, UsedValue
  <1>4. Used(head, tail)' = 0
    BY <1>3
  <1>5. wdone = 0 /\ dst = <<>> /\ promise <= Capacity /\ promise \in Nat /\ in \in Nat
    <2>1. promise <= Size - Used(head, tail) - 1 /\ Used(head, tail) \in 0..Capacity
      BY Bounds DEF RingInv, PromiseKept, Free
    <2>2. QED
      BY <1>1, <1>2, <2>1 DEF RingInv, TypeOK
  <1>6. TypeOK'
    BY <1>1, <1>2 DEF RingInv, TypeOK
  <1>7. Free(head, tail)' = Capacity
    BY <1>2, <1>4 DEF Free, Size
  <1>8. (Reserved /\ Held /\ Counted /\ Stored /\ Copied)'
    BY <1>1, <1>2, <1>4, <1>5 DEF Reserved, Held, Counted, Stored, Copied
  <1>9. (ReadInOrder /\ PromiseKept /\ PromiseSpent)'
    BY <1>1, <1>5, <1>7 DEF RingInv, ReadInOrder, PromiseKept, PromiseSpent
  <1>10. QED
    BY <1>6, <1>8, <1>9 DEF RingInv

LEMMA NextInv == RingInv /\ [Next]_vars => RingInv'
  <1>1. SUFFICES ASSUME RingInv, [Next]_vars PROVE RingInv'
    OBVIOUS
  <1>2. CASE QueryFree
    BY <1>1, <1>2, QueryFreeInv
  <1>3. CASE \E n \in 1..MaxChunk : StartWrite(n)
    BY <1>1, <1>3, StartWriteInv
  <1>4. CASE CopyIn
    BY <1>1, <1>4, CopyInInv
  <1>5. CASE PublishHead
    BY <1>1, <1>5, PublishHeadInv
  <1>6. CASE \E n \in 1..MaxChunk : StartRead(n)
    BY <1>1, <1>6, StartReadInv
  <1>7. CASE CopyOut
    BY <1>1, <1>7, CopyOutInv
  <1>8. CASE PublishTail
    BY <1>1, <1>8, PublishTailInv
  <1>9. CASE Clear
    BY <1>1, <1>9, ClearInv
  <1>10. CASE UNCHANGED vars
    BY <1>1, <1>10
       DEF vars, producerVars, consumerVars, RingInv, TypeOK, Reserved, Held,
           Counted, Stored, Copied, ReadInOrder, PromiseKept, PromiseSpent,
           Free, Used, Advance
  <1>11. QED
    BY <1>1, <1>2, <1>3, <1>4, <1>5, <1>6, <1>7, <1>8, <1>9, <1>10 DEF Next

-----------------------------------------------------------------------------
(* The theorems                                                            *)

LEMMA RingInvariant == Spec => []RingInv
  BY InitInv, NextInv, PTL DEF Spec

\* The indices stay inside the array and every length within the capacity, for
\* every capacity and every chunk size.
THEOREM RingTypeCorrect == Spec => []TypeOK
  <1>1. RingInv => TypeOK
    BY DEF RingInv
  <1>2. QED
    BY <1>1, RingInvariant, PTL

\* mybot_ringbuf_write never copies over a byte mybot_ringbuf_read may still be
\* reading, although neither takes a lock.
THEOREM RingNeverOverrun == Spec => []NoOverrun
  <1>1. ASSUME RingInv PROVE NoOverrun
    <2> DEFINE used == Used(head, tail)
    <2>1. SUFFICES ASSUME NEW i \in 0..(wlen - 1), NEW j \in 0..(used - 1)
                   PROVE  Slot(head, wlen, i) # Advance(tail, j)
      BY DEF NoOverrun, Unread
    <2>2. /\ head \in Slots /\ tail \in Slots /\ wlen \in 0..Capacity
          /\ used \in 0..Capacity /\ wlen + used <= Capacity
          /\ used = IF head >= tail THEN head - tail ELSE head - tail + Size
          /\ Capacity \in Nat \ {0} /\ Size = Capacity + 1
      BY <1>1, Bounds DEF RingInv, TypeOK, Reserved
    <2> HIDE DEF used
    <2>3. i \in 0..Capacity /\ j \in 0..Capacity
      BY <2>2
    <2>4. Slot(head, wlen, i) = Advance(head, i)
      BY <2>2, SlotValue
    <2>5. /\ Advance(head, i) = IF head + i < Size THEN head + i ELSE head + i - Size
          /\ Advance(tail, j) = IF tail + j < Size THEN tail + j ELSE tail + j - Size
      BY <2>2, <2>3, AdvanceValue
    <2>6. QED
      BY <2>2, <2>3, <2>4, <2>5 DEF Slots
  <1>2. QED
    BY <1>1, RingInvariant, PTL

\* What mybot_ringbuf_read delivers is the producer's byte stream, in order.
THEOREM RingReadsInOrder == Spec => []ReadInOrder
  <1>1. RingInv => ReadInOrder
    BY DEF RingInv
  <1>2. QED
    BY <1>1, RingInvariant, PTL

\* A write no longer than the free size last reported is never refused.
THEOREM RingKeepsPromise == Spec => []PromiseKept
  <1>1. RingInv => PromiseKept
    BY DEF RingInv
  <1>2. QED
    BY <1>1, RingInvariant, PTL

\* Together: the bytes of the two memory copies stay apart, arrive in order and fit
\* where the producer was told they would.
THEOREM RingIsSafe == Spec => []RingSafe
  BY RingNeverOverrun, RingReadsInOrder, RingKeepsPromise, PTL DEF RingSafe

-----------------------------------------------------------------------------
(* The ring implements the bounded queue                                   *)

\* The n bytes of the producer's stream that follow the first o.
Bytes(o, n) == [j \in 1..n |-> o + j - 1]

LEMMA BytesValue ==
  ASSUME NEW o \in Nat, NEW n \in Nat
  PROVE  /\ Bytes(o, n) \in Seq(Int)
         /\ Len(Bytes(o, n)) = n
         /\ \A i \in 1..n : Bytes(o, n)[i] = o + i - 1
  BY DEF Bytes

\* Two stretches of the stream, one after the other, are one.
LEMMA BytesJoin ==
  ASSUME NEW o \in Nat, NEW m \in Nat, NEW n \in Nat
  PROVE  Bytes(o, m) \o Bytes(o + m, n) = Bytes(o, m + n)
  <1> DEFINE a == Bytes(o, m)
             b == Bytes(o + m, n)
             c == Bytes(o, m + n)
  <1>1. /\ a \in Seq(Int) /\ Len(a) = m /\ \A i \in 1..m : a[i] = o + i - 1
        /\ b \in Seq(Int) /\ Len(b) = n /\ \A i \in 1..n : b[i] = o + m + i - 1
        /\ c \in Seq(Int) /\ Len(c) = m + n /\ \A i \in 1..(m + n) : c[i] = o + i - 1
    <2>1. o + m \in Nat /\ m + n \in Nat
      OBVIOUS
    <2>2. QED
      BY <2>1, BytesValue
  <1> HIDE DEF a, b, c
  <1>2. /\ a \o b \in Seq(Int) /\ Len(a \o b) = m + n
        /\ \A i \in 1..(m + n) : (a \o b)[i] = IF i <= m THEN a[i] ELSE b[i - m]
    BY <1>1, ConcatProperties
  <1>3. ASSUME NEW i \in 1..(m + n)
        PROVE  (a \o b)[i] = c[i]
    <2>1. CASE i <= m
      BY <1>1, <1>2, <2>1
    <2>2. CASE ~(i <= m)
      <3>1. i - m \in 1..n
        BY <2>2
      <3>2. b[i - m] = o + m + (i - m) - 1
        BY <1>1, <3>1
      <3>3. (a \o b)[i] = b[i - m] /\ c[i] = o + i - 1
        BY <1>1, <1>2, <2>2
      <3>4. QED
        BY <3>2, <3>3
    <2>3. QED
      BY <2>1, <2>2
  <1>4. a \o b = c
    BY <1>1, <1>2, <1>3, SeqEqual
  <1>5. QED
    BY <1>4 DEF a, b, c

\* A stretch of the stream, cut in two.
LEMMA BytesCut ==
  ASSUME NEW o \in Nat, NEW n \in Nat, NEW k \in 0..n
  PROVE  /\ SubSeq(Bytes(o, n), 1, k) = Bytes(o, k)
         /\ SubSeq(Bytes(o, n), k + 1, n) = Bytes(o + k, n - k)
  <1> DEFINE s == Bytes(o, n)
  <1>1. s \in Seq(Int) /\ Len(s) = n /\ \A i \in 1..n : s[i] = o + i - 1
    BY BytesValue
  <1> HIDE DEF s
  <1>2. \A i \in 1..n : s[i] \in Int
    BY <1>1
  <1>3. SubSeq(s, 1, k) = Bytes(o, k)
    <2> DEFINE t == SubSeq(s, 1, k)
               u == Bytes(o, k)
    <2>1. u \in Seq(Int) /\ Len(u) = k /\ \A i \in 1..k : u[i] = o + i - 1
      BY BytesValue
    <2>2. t \in Seq(Int) /\ Len(t) = k /\ \A i \in 1..k : t[i] = s[i]
      BY <1>2, SubSeqProperties
    <2> HIDE DEF t, u
    <2>3. t = u
      BY <1>1, <2>1, <2>2, SeqEqual
    <2>4. QED
      BY <2>3 DEF t, u
  <1>4. SubSeq(s, k + 1, n) = Bytes(o + k, n - k)
    <2> DEFINE t == SubSeq(s, k + 1, n)
               u == Bytes(o + k, n - k)
    <2>1. u \in Seq(Int) /\ Len(u) = n - k /\ \A i \in 1..(n - k) : u[i] = o + k + i - 1
      <3>1. o + k \in Nat /\ n - k \in Nat
        OBVIOUS
      <3>2. QED
        BY <3>1, BytesValue
    <2>2. t \in Seq(Int) /\ Len(t) = n - k /\ \A i \in 1..(n - k) : t[i] = s[k + i]
      BY <1>2, SubSeqProperties
    <2> HIDE DEF t, u
    <2>3. ASSUME NEW i \in 1..(n - k)
          PROVE  t[i] = u[i]
      <3>1. k + i \in 1..n
        OBVIOUS
      <3>2. QED
        BY <1>1, <2>1, <2>2, <3>1
    <2>4. t = u
      BY <2>1, <2>2, <2>3, SeqEqual
    <2>5. QED
      BY <2>4 DEF t, u
  <1>5. QED
    BY <1>3, <1>4 DEF s

\* What lies between the indices is the stretch of the stream that was written and
\* is not yet read.
ContentFits ==
  /\ Content = Bytes(out, Used(head, tail))
  /\ in = out + Used(head, tail)
  /\ Used(head, tail) \in Nat /\ in \in Nat /\ out \in Nat

LEMMA ContentValue == RingInv => ContentFits
  <1>1. SUFFICES ASSUME RingInv PROVE ContentFits
    OBVIOUS
  <1>2. /\ Used(head, tail) \in 0..Capacity /\ Capacity \in Nat /\ in \in Nat /\ out \in Nat
        /\ in = out + Used(head, tail)
    BY <1>1, Bounds DEF RingInv, TypeOK, Counted
  <1>3. ASSUME NEW j \in 1..Used(head, tail)
        PROVE  buf[Advance(tail, j - 1)] = out + j - 1
    <2>1. j - 1 \in 0..(Used(head, tail) - 1)
      BY <1>2
    <2>2. buf[Advance(tail, j - 1)] = out + (j - 1)
      BY <1>1, <2>1 DEF RingInv, Stored
    <2>3. QED
      BY <1>2, <2>2
  <1>4. QED
    BY <1>2, <1>3 DEF ContentFits, Content, Bytes

LEMMA ContentAfter == RingInv' => ContentFits'
  BY ContentValue, PTL

\* A publication of the producer puts a whole write into the queue.
LEMMA PublishHeadPuts ==
  ASSUME RingInv, RingInv', PublishHead
  PROVE  \E n \in 1..Capacity : Fifo!Put(n)
  <1> DEFINE used == Used(head, tail)
  <1>1. /\ wlen \in 1..Capacity /\ used \in Nat /\ out \in Nat /\ wlen + used <= Capacity
        /\ in = out + used
    <2>1. wlen \in 1..Capacity /\ out \in Nat /\ wlen + used <= Capacity /\ in = out + used
      BY DEF RingInv, TypeOK, Reserved, Counted, PublishHead
    <2>2. used \in Nat
      BY Bounds DEF RingInv
    <2>3. QED
      BY <2>1, <2>2
  <1>2. in' = in + wlen /\ out' = out /\ last' = last /\ wlen' = 0
    BY DEF PublishHead, consumerVars
  <1>3. Used(head, tail)' = used + wlen
    <2>1. in' = out' + Used(head, tail)' /\ Used(head, tail)' \in Nat
      BY ContentAfter DEF ContentFits
    <2> HIDE DEF used
    <2>2. QED
      BY <1>1, <1>2, <2>1
  <1>4. Content = Bytes(out, used)
    BY ContentValue DEF ContentFits
  <1>5. Content' = Bytes(out, used + wlen)
    BY <1>2, <1>3, ContentAfter DEF ContentFits
  <1> HIDE DEF used
  <1>6. Content' = Content \o Bytes(in, wlen)
    <2>1. wlen \in Nat
      BY <1>1
    <2>2. Bytes(out, used) \o Bytes(out + used, wlen) = Bytes(out, used + wlen)
      BY <1>1, <2>1, BytesJoin
    <2>3. QED
      BY <1>1, <1>4, <1>5, <2>2
  <1>7. Len(Content) = used
    BY <1>1, <1>4, BytesValue
  <1>8. Fifo!Put(wlen)
    BY <1>1, <1>2, <1>6, <1>7 DEF Fifo!Put, Fifo!Stream, Bytes
  <1>9. QED
    BY <1>1, <1>8

\* A release of the consumer gets exactly the oldest bytes from the queue.
LEMMA PublishTailGets ==
  ASSUME RingInv, RingInv', PublishTail
  PROVE  \E n \in 1..Capacity : Fifo!Get(n)
  <1> DEFINE used == Used(head, tail)
  <1>1. /\ rlen \in 1..Capacity /\ used \in Nat /\ out \in Nat /\ rlen <= used /\ in = out + used
        /\ dst \in Seq(Int) /\ Len(dst) = rlen
    <2>1. /\ rlen \in 1..Capacity /\ out \in Nat /\ rlen <= used /\ in = out + used
          /\ dst \in Seq(Int) /\ Len(dst) = rlen
      BY DEF RingInv, TypeOK, Held, Counted, PublishTail
    <2>2. used \in Nat
      BY Bounds DEF RingInv
    <2>3. QED
      BY <2>1, <2>2
  <1>2. in' = in /\ out' = out + rlen /\ last' = dst
    BY DEF PublishTail, producerVars
  <1>3. Used(head, tail)' = used - rlen
    <2>1. in' = out' + Used(head, tail)' /\ Used(head, tail)' \in Nat
      BY ContentAfter DEF ContentFits
    <2> HIDE DEF used
    <2>2. QED
      BY <1>1, <1>2, <2>1
  <1>4. Content = Bytes(out, used)
    BY ContentValue DEF ContentFits
  <1>5. Content' = Bytes(out + rlen, used - rlen)
    BY <1>2, <1>3, ContentAfter DEF ContentFits
  <1> HIDE DEF used
  <1>6. dst = Bytes(out, rlen)
    <2>1. \A i \in 1..rlen : dst[i] = out + i - 1
      BY <1>1 DEF RingInv, ReadInOrder
    <2> DEFINE b == Bytes(out, rlen)
    <2>2. b \in Seq(Int) /\ Len(b) = rlen /\ \A i \in 1..rlen : b[i] = out + i - 1
      <3>1. rlen \in Nat
        BY <1>1
      <3>2. QED
        BY <1>1, <3>1, BytesValue
    <2> HIDE DEF b
    <2>3. dst = b
      BY <1>1, <2>1, <2>2, SeqEqual
    <2>4. QED
      BY <2>3 DEF b
  <1>7. /\ last' = SubSeq(Content, 1, rlen)
        /\ Content' = SubSeq(Content, rlen + 1, used)
    <2>1. rlen \in 0..used
      BY <1>1
    <2>2. /\ SubSeq(Bytes(out, used), 1, rlen) = Bytes(out, rlen)
          /\ SubSeq(Bytes(out, used), rlen + 1, used) = Bytes(out + rlen, used - rlen)
      BY <1>1, <2>1, BytesCut
    <2>3. QED
      BY <1>2, <1>4, <1>5, <1>6, <2>2
  <1>8. Len(Content) = used
    BY <1>1, <1>4, BytesValue
  <1>9. Fifo!Get(rlen)
    BY <1>1, <1>2, <1>7, <1>8 DEF Fifo!Get
  <1>10. QED
    BY <1>1, <1>9

\* clear() empties the queue.
LEMMA ClearResets ==
  ASSUME RingInv, RingInv', Clear
  PROVE  Fifo!Reset
  <1>1. in' = in /\ out' = in /\ last' = last /\ in \in Nat
    BY DEF Clear, producerVars, RingInv, TypeOK
  <1>2. Used(head, tail)' = 0
    <2>1. in' = out' + Used(head, tail)' /\ Used(head, tail)' \in Nat
      BY ContentAfter DEF ContentFits
    <2>2. QED
      BY <1>1, <2>1
  <1>3. Content' = Bytes(in, 0)
    BY <1>1, <1>2, ContentAfter DEF ContentFits
  <1>4. Bytes(in, 0) = <<>>
    BY DEF Bytes
  <1>5. QED
    BY <1>1, <1>3, <1>4 DEF Fifo!Reset

\* Copying a byte in or out, asking and starting leave the queue alone.
LEMMA OthersStutter ==
  ASSUME RingInv, RingInv',
         UNCHANGED <<head, tail, out, in, last>>
  PROVE  UNCHANGED Fifo!fifoVars
  <1>1. Content = Bytes(out, Used(head, tail))
    BY ContentValue DEF ContentFits
  <1>2. Content' = Bytes(out, Used(head, tail))
    BY ContentAfter DEF ContentFits, Used
  <1>3. QED
    BY <1>1, <1>2 DEF Fifo!fifoVars

\* The lock-free ring implements the bounded queue, for every capacity: a write is
\* taken whole when it is published, a read delivers exactly the oldest bytes, and
\* no copy, query or refusal in between is visible to the other side.
THEOREM RingImplementsFifo == Spec => FifoSpec
  <1>1. Init => Fifo!FifoInit
    <2>1. SUFFICES ASSUME Init PROVE Fifo!FifoInit
      OBVIOUS
    <2>2. RingInv
      BY <2>1, InitInv
    <2>3. Used(head, tail) = 0
      BY <2>1, <2>2, Bounds DEF RingInv, Init
    <2>4. Content = <<>>
      BY <2>2, <2>3, ContentValue DEF ContentFits, Bytes
    <2>5. QED
      BY <2>1, <2>4 DEF Init, Fifo!FifoInit
  <1>2. RingInv /\ RingInv' /\ [Next]_vars => [Fifo!FifoNext]_(Fifo!fifoVars)
    <2>1. SUFFICES ASSUME RingInv, RingInv', [Next]_vars
                   PROVE  [Fifo!FifoNext]_(Fifo!fifoVars)
      OBVIOUS
    <2>2. CASE PublishHead
      BY <2>1, <2>2, PublishHeadPuts DEF Fifo!FifoNext
    <2>3. CASE PublishTail
      BY <2>1, <2>3, PublishTailGets DEF Fifo!FifoNext
    <2>4. CASE Clear
      BY <2>1, <2>4, ClearResets DEF Fifo!FifoNext
    <2>5. CASE ~PublishHead /\ ~PublishTail /\ ~Clear
      <3>1. UNCHANGED <<head, tail, out, in, last>>
        BY <2>1, <2>5 DEF Next, QueryFree, StartWrite, CopyIn, StartRead, CopyOut, vars,
           producerVars, consumerVars
      <3>2. QED
        BY <2>1, <3>1, OthersStutter
    <2>6. QED
      BY <2>2, <2>3, <2>4, <2>5
  <1>3. QED
    BY <1>1, <1>2, RingInvariant, PTL DEF Spec, FifoSpec, Fifo!FifoSpec

=============================================================================
