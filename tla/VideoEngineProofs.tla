-------------------------- MODULE VideoEngineProofs --------------------------
(* The frame pool keeps its tokens and every buffer has one owner, for any   *)
(* pool size, heap and threads; and the video engine uses it as a pool.      *)
EXTENDS VideoEngine, FiniteSetTheorems, SequenceTheorems, TLAPS

-----------------------------------------------------------------------------
(* Types                                                                     *)

\* A pool starts with its types.
LEMMA PoolTypeInit == PoolInit => PoolTypeOK
<1> SUFFICES ASSUME PoolInit
             PROVE  PoolTypeOK
  OBVIOUS
<1>1. <<>> \in Seq(Frames) /\ Len(<<>>) = 0
  BY EmptySeq
<1>2. Pool \in Nat /\ 0 \in 0..Pool /\ 0 <= Pool
  BY PoolAssumption
<1>3. held \in [Users -> SUBSET Frames]
  BY DEF PoolInit
<1> QED
  BY <1>1, <1>2, <1>3 DEF PoolInit, PoolTypeOK

\* Completing a frame queues it, or gives it back.
LEMMA CompleteIsOne ==
  ASSUME NEW u, NEW f, Complete(u, f)
  PROVE  Queue(u, f) \/ Mislay(u, f) \/ GiveBack(u, f)
BY DEF Complete, Free

\* A call goes on to a point where calls can be.
LEMMA DoingStep ==
  ASSUME PoolTypeOK, [PoolNext]_poolVars
  PROVE  doing' \in [Users -> {"none", "malloc", "steal", "free"}]
<1> USE DEF PoolTypeOK
<1>1. ASSUME NEW u, NEW from, NEW to \in {"none", "malloc", "steal", "free"}, Turns(u, from, to)
      PROVE  doing' \in [Users -> {"none", "malloc", "steal", "free"}]
  BY <1>1 DEF Turns
<1>2. Instead \in {"none", "steal"}
  BY DEF Instead
<1>3. CASE Create \/ CreateFails \/ Destroy \/ UNCHANGED poolVars
  BY <1>3 DEF Create, CreateFails, Destroy, poolVars
<1>4. ASSUME NEW u \in Users, Malloc(u) \/ ReturnToken(u)
      PROVE  doing' \in [Users -> {"none", "malloc", "steal", "free"}]
  BY <1>1, <1>2, <1>4 DEF Malloc, AskToken, HeapGives, HeapRefuses, Steal, ReturnToken
<1>5. ASSUME NEW u \in Users, GetFrame(u) \/ Abandon(u)
      PROVE  doing' \in [Users -> {"none", "malloc", "steal", "free"}]
  BY <1>5 DEF GetFrame, Abandon
<1>6. ASSUME NEW u \in Users, NEW f \in Frames, Complete(u, f) \/ Free(u, f)
      PROVE  doing' \in [Users -> {"none", "malloc", "steal", "free"}]
  <2>1. Queue(u, f) \/ Mislay(u, f) \/ GiveBack(u, f)
    BY <1>6 DEF Complete, Free
  <2> QED
    BY <1>1, <2>1 DEF Queue, Mislay, GiveBack
<1> QED
  BY <1>3, <1>4, <1>5, <1>6 DEF PoolNext

\* Putting a token back does not fill the queue beyond its size.
LEMMA PutsTokenType ==
  ASSUME PoolTypeOK, PutsToken
  PROVE  free' \in 0..Pool /\ (~made => free' = 0)
BY PoolAssumption DEF PoolTypeOK, PutsToken

\* Every call on the pool keeps its types.
LEMMA PoolTypeStep ==
  ASSUME PoolTypeOK, [PoolNext]_poolVars
  PROVE  PoolTypeOK'
<1> USE PoolAssumption, DoingStep DEF PoolTypeOK
<1>1. CASE Create
  <2>1. InHands \subseteq Frames /\ Carriers \subseteq Users
    BY DEF InHands, Carriers
  <2>2. Cardinality(InHands) \in Nat /\ Cardinality(Carriers) \in Nat
    BY <2>1, MemoryAssumption, FS_Subset, FS_CardinalityType
  <2>3. lost' \in Nat /\ foreign' \in Nat
    BY <1>1, <2>2 DEF Create
  <2>4. <<>> \in Seq(Frames) /\ Len(<<>>) = 0 /\ 0 <= Pool
    BY EmptySeq
  <2>5. /\ count' = Pool /\ made' = TRUE /\ free' = Pool /\ ready' = <<>> /\ issued' = {}
        /\ held' = held /\ live' = live
    BY <1>1 DEF Create
  <2> QED
    BY <2>3, <2>4, <2>5
<1>2. CASE CreateFails
  BY <1>2 DEF CreateFails
<1>3. CASE Destroy
  <2>1. <<>> \in Seq(Frames) /\ Len(<<>>) = 0 /\ 0 \in 0..Pool
    BY EmptySeq, PoolAssumption
  <2>2. live' \subseteq Frames /\ issued' \subseteq live'
    BY <1>3 DEF Destroy
  <2>3. held' \in [Users -> SUBSET Frames] /\ lost' \in Nat /\ foreign' \in Nat
    BY <1>3 DEF Destroy
  <2>4. count' = 0 /\ made' = FALSE /\ free' = 0 /\ ready' = <<>> /\ 0 <= Pool
    BY <1>3 DEF Destroy
  <2> QED
    BY <2>1, <2>2, <2>3, <2>4
<1>4. ASSUME NEW u \in Users, AskToken(u)
      PROVE  PoolTypeOK'
  BY <1>4 DEF AskToken
<1>5. ASSUME NEW u \in Users, HeapGives(u)
      PROVE  PoolTypeOK'
  BY <1>5 DEF HeapGives, Takes
<1>6. ASSUME NEW u \in Users, HeapRefuses(u) \/ ReturnToken(u)
      PROVE  PoolTypeOK'
  BY <1>6, PutsTokenType DEF HeapRefuses, ReturnToken
<1>7. ASSUME NEW u \in Users, PopReady(u)
      PROVE  PoolTypeOK'
  <2>1. Head(ready) \in Frames /\ Tail(ready) \in Seq(Frames) /\ Len(Tail(ready)) = Len(ready) - 1
    BY <1>7, HeadTailProperties DEF PopReady
  <2>2. Len(ready) \in Nat /\ made
    BY <1>7, LenProperties DEF PopReady
  <2> QED
    BY <1>7, <2>1, <2>2 DEF PopReady, Takes
<1>8. ASSUME NEW u \in Users, Steal(u) \/ GetFrame(u)
      PROVE  PoolTypeOK'
  <2>1. PopReady(u) \/ UNCHANGED <<count, made, free, ready, held, live, issued, lost, foreign>>
    BY <1>8 DEF Steal, GetFrame
  <2>2. CASE UNCHANGED <<count, made, free, ready, held, live, issued, lost, foreign>>
    BY <2>2
  <2> QED
    BY <1>7, <2>1, <2>2
<1>9. ASSUME NEW u \in Users, Abandon(u)
      PROVE  PoolTypeOK'
  <2>1. lost' \in Nat
    BY <1>9 DEF Abandon
  <2> QED
    BY <1>9, <2>1 DEF Abandon
<1>10. ASSUME NEW u \in Users, NEW f \in Frames, Queue(u, f)
       PROVE  PoolTypeOK'
  <2>1. Append(ready, f) \in Seq(Frames) /\ Len(Append(ready, f)) = Len(ready) + 1
    BY <1>10, AppendProperties
  <2>2. Len(ready) \in Nat
    BY LenProperties
  <2> QED
    BY <1>10, <2>1, <2>2 DEF Queue, GivesUp
<1>11. ASSUME NEW u \in Users, NEW f \in Frames, Mislay(u, f)
       PROVE  PoolTypeOK'
  BY <1>11 DEF Mislay, GivesUp
<1>12. ASSUME NEW u \in Users, NEW f \in Frames, GiveBack(u, f)
       PROVE  PoolTypeOK'
  BY <1>12 DEF GiveBack, GivesUp
<1>13. CASE UNCHANGED poolVars
  BY <1>13 DEF poolVars
<1> QED
  BY <1>1, <1>2, <1>3, <1>4, <1>5, <1>6, <1>8, <1>9, <1>10, <1>11, <1>12, <1>13, CompleteIsOne
  DEF PoolNext, Malloc, Free

-----------------------------------------------------------------------------
(* Owners                                                                    *)

OwnerInv == PoolTypeOK /\ OneOwner

\* At first nobody has a buffer.
LEMMA OwnerInit == PoolInit => OwnerInv
BY PoolTypeInit DEF PoolInit, OwnerInv, OneOwner, Queued, InHands, Range

\* Every call passes a buffer on from one owner to one other.
LEMMA OwnerStep ==
  ASSUME OwnerInv, [PoolNext]_poolVars
  PROVE  OwnerInv'
<1>0. PoolTypeOK /\ PoolTypeOK'
  BY PoolTypeStep DEF OwnerInv
<1>r. DOMAIN ready = 1..Len(ready) /\ Len(ready) \in Nat
  BY <1>0, LenProperties DEF PoolTypeOK
<1>1. CASE Create \/ Destroy
  <2>1. ready' = <<>> /\ Queued' = {}
    BY <1>1 DEF Create, Destroy, Queued, Range
  <2>2. held' = held /\ InHands' = InHands
    BY <1>1 DEF Create, Destroy, InHands
  <2>3. InHands \subseteq live'
    BY <1>1 DEF Create, Destroy, OwnerInv, OneOwner
  <2> QED
    BY <1>0, <2>1, <2>2, <2>3 DEF OwnerInv, OneOwner
<1>2. ASSUME NEW u \in Users, AskToken(u) \/ HeapRefuses(u) \/ ReturnToken(u)
      PROVE  OwnerInv'
  <2>1. UNCHANGED <<ready, held, live>>
    BY <1>2 DEF AskToken, HeapRefuses, ReturnToken
  <2> QED
    BY <1>0, <2>1 DEF OwnerInv, OneOwner, Queued, InHands
<1>3. CASE CreateFails \/ UNCHANGED poolVars
  BY <1>0, <1>3 DEF CreateFails, poolVars, OwnerInv, OneOwner, Queued, InHands
<1>4. ASSUME NEW u \in Users, HeapGives(u)
      PROVE  OwnerInv'
  <2>1. PICK f \in Frames \ live : Takes(u, f) /\ live' = live \cup {f}
    BY <1>4 DEF HeapGives
  <2>2. ready' = ready /\ Queued' = Queued
    BY <1>4 DEF HeapGives, Queued
  <2>3. \A v \in Users : held'[v] = IF v = u THEN held[v] \cup {f} ELSE held[v]
    BY <1>0, <2>1 DEF Takes, PoolTypeOK
  <2>4. InHands' = InHands \cup {f}
    BY <2>3 DEF InHands
  <2>5. f \notin Queued \cup InHands /\ \A v \in Users : f \notin held[v]
    BY <2>1 DEF OwnerInv, OneOwner, InHands
  <2>6. \A v, w \in Users : held'[v] \cap held'[w] # {} => v = w
    <3>1. \A v, w \in Users : held[v] \cap held[w] # {} => v = w
      BY DEF OwnerInv, OneOwner
    <3>2. ASSUME NEW v \in Users, NEW w \in Users, NEW x \in held'[v] \cap held'[w]
          PROVE  v = w
      <4>1. CASE x = f
        BY <4>1, <3>2, <2>3, <2>5
      <4>2. CASE x # f
        <5>1. x \in held[v]
          <6>1. held'[v] = IF v = u THEN held[v] \cup {f} ELSE held[v]
            BY <2>3
          <6> QED
            BY <4>2, <3>2, <6>1
        <5>2. x \in held[w]
          <6>1. held'[w] = IF w = u THEN held[w] \cup {f} ELSE held[w]
            BY <2>3
          <6> QED
            BY <4>2, <3>2, <6>1
        <5> QED
          BY <3>1, <5>1, <5>2
      <4> QED
        BY <4>1, <4>2
    <3> QED
      BY <3>2
  <2>7. Queued' \cap InHands' = {} /\ Queued' \cup InHands' \subseteq live'
    BY <2>1, <2>2, <2>4, <2>5 DEF OwnerInv, OneOwner
  <2> QED
    BY <1>0, <2>2, <2>6, <2>7 DEF OwnerInv, OneOwner
<1>5. ASSUME NEW u \in Users, PopReady(u)
      PROVE  OwnerInv'
  <2> DEFINE f == Head(ready)
  <2>1. /\ f = ready[1] /\ Tail(ready) \in Seq(Frames) /\ Len(Tail(ready)) = Len(ready) - 1
        /\ \A i \in 1..Len(Tail(ready)) : Tail(ready)[i] = ready[i + 1]
        /\ Len(ready) >= 1
    BY <1>0, <1>5, HeadTailProperties, EmptySeq DEF PopReady, PoolTypeOK
  <2>2. f \in Queued
    BY <1>r, <2>1 DEF Queued, Range
  <2>3. DOMAIN Tail(ready) = 1..Len(Tail(ready))
    BY <2>1, LenProperties
  <2>4. Queued' = Queued \ {f}
    <3>1. ready' = Tail(ready)
      BY <1>5 DEF PopReady
    <3>2. \A i \in 1..Len(ready) : i # 1 => ready[i] # f
      BY <1>r, <2>1 DEF OwnerInv, OneOwner
    <3>3. ASSUME NEW x \in Queued'
          PROVE  x \in Queued \ {f}
      <4>1. PICK i \in 1..Len(Tail(ready)) : x = Tail(ready)[i]
        BY <2>3, <3>1, <3>3 DEF Queued, Range
      <4>2. x = ready[i + 1] /\ i + 1 \in 1..Len(ready) /\ i + 1 # 1
        BY <1>r, <2>1, <4>1
      <4> QED
        BY <1>r, <3>2, <4>2 DEF Queued, Range
    <3>4. ASSUME NEW x \in Queued, x # f
          PROVE  x \in Queued'
      <4>1. PICK i \in 1..Len(ready) : x = ready[i]
        BY <1>r DEF Queued, Range
      <4>2. i - 1 \in 1..Len(Tail(ready)) /\ Tail(ready)[i - 1] = x
        BY <1>r, <2>1, <3>4, <4>1
      <4> QED
        BY <2>3, <3>1, <4>2 DEF Queued, Range
    <3> QED
      BY <3>3, <3>4
  <2>5. \A i, j \in 1..Len(ready') : ready'[i] = ready'[j] => i = j
    <3>1. ready' = Tail(ready)
      BY <1>5 DEF PopReady
    <3>2. \A i, j \in 1..Len(ready) : ready[i] = ready[j] => i = j
      BY DEF OwnerInv, OneOwner
    <3> QED
      BY <1>r, <2>1, <3>1, <3>2
  <2>6. \A v \in Users : held'[v] = IF v = u THEN held[v] \cup {f} ELSE held[v]
    BY <1>0, <1>5 DEF PopReady, Takes, PoolTypeOK
  <2>7. InHands' = InHands \cup {f}
    BY <2>6 DEF InHands
  <2>8. f \notin InHands /\ \A v \in Users : f \notin held[v]
    BY <2>2 DEF OwnerInv, OneOwner, InHands
  <2>9. live' = live /\ f \in live
    BY <1>5, <2>2 DEF PopReady, OwnerInv, OneOwner
  <2>10. \A v, w \in Users : held'[v] \cap held'[w] # {} => v = w
    <3>1. \A v, w \in Users : held[v] \cap held[w] # {} => v = w
      BY DEF OwnerInv, OneOwner
    <3>2. ASSUME NEW v \in Users, NEW w \in Users, NEW x \in held'[v] \cap held'[w]
          PROVE  v = w
      <4>1. CASE x = f
        BY <4>1, <3>2, <2>6, <2>8
      <4>2. CASE x # f
        <5>1. x \in held[v]
          <6>1. held'[v] = IF v = u THEN held[v] \cup {f} ELSE held[v]
            BY <2>6
          <6> QED
            BY <4>2, <3>2, <6>1
        <5>2. x \in held[w]
          <6>1. held'[w] = IF w = u THEN held[w] \cup {f} ELSE held[w]
            BY <2>6
          <6> QED
            BY <4>2, <3>2, <6>1
        <5> QED
          BY <3>1, <5>1, <5>2
      <4> QED
        BY <4>1, <4>2
    <3> QED
      BY <3>2
  <2>11. Queued' \cap InHands' = {} /\ Queued' \cup InHands' \subseteq live'
    BY <2>4, <2>7, <2>8, <2>9 DEF OwnerInv, OneOwner
  <2> QED
    BY <1>0, <2>5, <2>10, <2>11 DEF OwnerInv, OneOwner
<1>6. ASSUME NEW u \in Users, Abandon(u)
      PROVE  OwnerInv'
  <2>1. ready' = ready /\ Queued' = Queued /\ live' = live
    BY <1>6 DEF Abandon, Queued
  <2>2. \A v \in Users : held'[v] = IF v = u THEN {} ELSE held[v]
    BY <1>0, <1>6 DEF Abandon, PoolTypeOK
  <2>3. InHands' \subseteq InHands
    BY <2>2 DEF InHands
  <2> QED
    BY <1>0, <2>1, <2>2, <2>3 DEF OwnerInv, OneOwner
<1>7. ASSUME NEW u \in Users, NEW f \in Frames, GivesUp(u, f)
      PROVE  /\ \A v \in Users : held'[v] = IF v = u THEN held[v] \ {f} ELSE held[v]
             /\ InHands' = InHands \ {f}
             /\ f \in InHands
             /\ \A v, w \in Users : held'[v] \cap held'[w] # {} => v = w
  <2>1. \A v \in Users : held'[v] = IF v = u THEN held[v] \ {f} ELSE held[v]
    BY <1>0, <1>7 DEF GivesUp, PoolTypeOK
  <2>2. f \in held[u] /\ \A v \in Users : f \in held[v] => v = u
    BY <1>7 DEF GivesUp, OwnerInv, OneOwner
  <2>3. InHands' = InHands \ {f} /\ f \in InHands
    BY <2>1, <2>2 DEF InHands
  <2> QED
    BY <2>1, <2>3 DEF OwnerInv, OneOwner
<1>8. ASSUME NEW u \in Users, NEW f \in Frames, Queue(u, f)
      PROVE  OwnerInv'
  <2>1. /\ ready' \in Seq(Frames) /\ Len(ready') = Len(ready) + 1
        /\ \A i \in 1..Len(ready) : ready'[i] = ready[i]
        /\ ready'[Len(ready) + 1] = f
    BY <1>0, <1>8, AppendProperties DEF Queue, PoolTypeOK
  <2>2. DOMAIN ready' = 1..Len(ready')
    BY <2>1, LenProperties
  <2>3. Queued' = Queued \cup {f}
    BY <1>r, <2>1, <2>2 DEF Queued, Range
  <2>4. f \notin Queued
    BY <1>7, <1>8 DEF Queue, OwnerInv, OneOwner
  <2>5. \A i, j \in 1..Len(ready') : ready'[i] = ready'[j] => i = j
    <3>1. \A i \in 1..Len(ready) : ready[i] # f
      BY <1>r, <2>4 DEF Queued, Range
    <3>2. \A i, j \in 1..Len(ready) : ready[i] = ready[j] => i = j
      BY DEF OwnerInv, OneOwner
    <3> QED
      BY <1>r, <2>1, <3>1, <3>2
  <2>6. live' = live /\ GivesUp(u, f)
    BY <1>8 DEF Queue
  <2> QED
    BY <1>0, <1>7, <2>3, <2>5, <2>6 DEF OwnerInv, OneOwner
<1>9. ASSUME NEW u \in Users, NEW f \in Frames, Mislay(u, f) \/ GiveBack(u, f)
      PROVE  OwnerInv'
  <2>1. ready' = ready /\ Queued' = Queued
    BY <1>9 DEF Mislay, GiveBack, Queued
  <2>2. GivesUp(u, f) /\ live \ {f} \subseteq live'
    BY <1>9 DEF Mislay, GiveBack
  <2>3. f \notin Queued
    BY <1>7, <2>2 DEF OwnerInv, OneOwner
  <2> QED
    BY <1>0, <1>7, <2>1, <2>2, <2>3 DEF OwnerInv, OneOwner
<1>10. ASSUME NEW u \in Users, Steal(u) \/ GetFrame(u)
       PROVE  OwnerInv'
  <2>1. PopReady(u) \/ UNCHANGED <<ready, held, live>>
    BY <1>10 DEF Steal, GetFrame
  <2>2. CASE UNCHANGED <<ready, held, live>>
    BY <1>0, <2>2 DEF OwnerInv, OneOwner, Queued, InHands
  <2> QED
    BY <1>5, <2>1, <2>2
<1> QED
  BY <1>1, <1>2, <1>3, <1>4, <1>6, <1>8, <1>9, <1>10, CompleteIsOne
  DEF PoolNext, Malloc, Free
-----------------------------------------------------------------------------
(* Tokens                                                                    *)

\* The heap and the threads are finite, and so is what the count of tokens counts.
LEMMA CountsAreNumbers ==
  ASSUME PoolTypeOK
  PROVE  /\ IsFiniteSet(issued) /\ Cardinality(issued) \in Nat
         /\ IsFiniteSet(Carriers) /\ Cardinality(Carriers) \in Nat
         /\ IsFiniteSet(InHands) /\ Cardinality(InHands) \in Nat
         /\ IsFiniteSet(Strays) /\ Cardinality(Strays) \in Nat
<1>1. Queued \subseteq Frames
  <2>1. ready \in [1..Len(ready) -> Frames] /\ DOMAIN ready = 1..Len(ready)
    BY LenProperties DEF PoolTypeOK
  <2> QED
    BY <2>1 DEF Queued, Range
<1>2. issued \subseteq Frames /\ InHands \subseteq Frames /\ Carriers \subseteq Users
  BY DEF PoolTypeOK, InHands, Carriers
<1>3. Strays \subseteq Frames
  BY <1>1, <1>2 DEF Strays
<1> QED
  BY <1>2, <1>3, MemoryAssumption, FS_Subset, FS_CardinalityType

\* The same after a step.
LEMMA CountsStayNumbers ==
  ASSUME PoolTypeOK'
  PROVE  /\ IsFiniteSet(issued') /\ Cardinality(issued') \in Nat
         /\ IsFiniteSet(Carriers') /\ Cardinality(Carriers') \in Nat
         /\ IsFiniteSet(InHands') /\ Cardinality(InHands') \in Nat
         /\ IsFiniteSet(Strays') /\ Cardinality(Strays') \in Nat
<1>1. Queued' \subseteq Frames
  <2>1. ready' \in [1..Len(ready') -> Frames] /\ DOMAIN ready' = 1..Len(ready')
    BY LenProperties DEF PoolTypeOK
  <2> QED
    BY <2>1 DEF Queued, Range
<1>2. issued' \subseteq Frames /\ InHands' \subseteq Frames /\ Carriers' \subseteq Users
  BY DEF PoolTypeOK, InHands, Carriers
<1>3. Strays' \subseteq Frames
  BY <1>1, <1>2 DEF Strays
<1> QED
  BY <1>2, <1>3, MemoryAssumption, FS_Subset, FS_CardinalityType

\* A user that takes a token in a call, or frees a buffer, carries one token more.
LEMMA CarriersJoin ==
  ASSUME PoolTypeOK, NEW u \in Users, ~Carries(u),
         NEW to \in {"malloc", "free"}, doing' = [doing EXCEPT ![u] = to]
  PROVE  Cardinality(Carriers') = Cardinality(Carriers) + 1
<1>1. \A v \in Users : doing'[v] = IF v = u THEN to ELSE doing[v]
  BY DEF PoolTypeOK
<1>2. Carriers' = Carriers \cup {u} /\ u \notin Carriers
  BY <1>1 DEF Carriers, Carries
<1> QED
  BY <1>2, CountsAreNumbers, FS_AddElement

\* A user that passes its token on carries one less.
LEMMA CarriersLeave ==
  ASSUME PoolTypeOK, NEW u \in Users, Carries(u),
         NEW to \in {"none", "steal"}, doing' = [doing EXCEPT ![u] = to]
  PROVE  Cardinality(Carriers') = Cardinality(Carriers) - 1
<1>1. \A v \in Users : doing'[v] = IF v = u THEN to ELSE doing[v]
  BY DEF PoolTypeOK
<1>2. Carriers' = Carriers \ {u} /\ u \in Carriers
  BY <1>1 DEF Carriers, Carries
<1> QED
  BY <1>2, CountsAreNumbers, FS_RemoveElement

\* A user without a token that gets none changes nothing.
LEMMA CarriersStay ==
  ASSUME PoolTypeOK, NEW u \in Users, ~Carries(u),
         NEW to \in {"none", "steal"}, doing' = [doing EXCEPT ![u] = to]
  PROVE  Carriers' = Carriers
<1>1. \A v \in Users : doing'[v] = IF v = u THEN to ELSE doing[v]
  BY DEF PoolTypeOK
<1> QED
  BY <1>1 DEF Carriers, Carries

\* A ready frame that is popped is in somebody's hands afterwards.
LEMMA PopMoves ==
  ASSUME PoolTypeOK, NEW u \in Users, PopReady(u)
  PROVE  Queued' \cup InHands' \subseteq Queued \cup InHands
<1>1. /\ Head(ready) = ready[1] /\ Len(ready) \in Nat /\ Len(ready) >= 1
      /\ Tail(ready) \in Seq(Frames) /\ Len(Tail(ready)) = Len(ready) - 1
      /\ \A i \in 1..Len(Tail(ready)) : Tail(ready)[i] = ready[i + 1]
  BY HeadTailProperties, LenProperties, EmptySeq DEF PopReady, PoolTypeOK
<1>2. DOMAIN ready = 1..Len(ready) /\ DOMAIN Tail(ready) = 1..Len(Tail(ready))
  BY <1>1, LenProperties DEF PoolTypeOK
<1>3. Head(ready) \in Queued
  BY <1>1, <1>2 DEF Queued, Range
<1>4. Queued' \subseteq Queued
  <2>1. ready' = Tail(ready)
    BY DEF PopReady
  <2>2. ASSUME NEW x \in Queued'
        PROVE  x \in Queued
    <3>1. PICK i \in 1..Len(Tail(ready)) : x = Tail(ready)[i]
      BY <1>2, <2>1, <2>2 DEF Queued, Range
    <3>2. x = ready[i + 1] /\ i + 1 \in 1..Len(ready)
      BY <1>1, <3>1
    <3> QED
      BY <1>2, <3>2 DEF Queued, Range
  <2> QED
    BY <2>2
<1>5. InHands' \subseteq InHands \cup {Head(ready)}
  <2>1. \A v \in Users : held'[v] = IF v = u THEN held[v] \cup {Head(ready)} ELSE held[v]
    BY DEF PopReady, Takes, PoolTypeOK
  <2> QED
    BY <2>1 DEF InHands
<1> QED
  BY <1>3, <1>4, <1>5

\* A frame that is queued joins those that are.
LEMMA AppendMoves ==
  ASSUME PoolTypeOK, NEW f \in Frames, ready' = Append(ready, f)
  PROVE  Queued' = Queued \cup {f}
<1>1. DOMAIN ready = 1..Len(ready) /\ Len(ready) \in Nat
  BY LenProperties DEF PoolTypeOK
<1>2. /\ ready' \in Seq(Frames) /\ Len(ready') = Len(ready) + 1
      /\ \A i \in 1..Len(ready) : ready'[i] = ready[i]
      /\ ready'[Len(ready) + 1] = f
  BY AppendProperties DEF PoolTypeOK
<1>3. DOMAIN ready' = 1..Len(ready')
  BY <1>2, LenProperties
<1> QED
  BY <1>1, <1>2, <1>3 DEF Queued, Range

\* A frame that is given up was somebody's.
LEMMA GivesUpMoves ==
  ASSUME PoolTypeOK, NEW u \in Users, NEW f, GivesUp(u, f)
  PROVE  f \in InHands /\ InHands' \subseteq InHands
<1>1. \A v \in Users : held'[v] = IF v = u THEN held[v] \ {f} ELSE held[v]
  BY DEF GivesUp, PoolTypeOK
<1> QED
  BY <1>1 DEF GivesUp, InHands

\* The owners count in the sum of tokens: a buffer that is freed is nobody's.
TokenInv == OwnerInv /\ TokensKept

\* A pool that does not exist yet has lost no token.
LEMMA TokenInit == PoolInit => TokenInv
BY OwnerInit DEF PoolInit, TokenInv, TokensKept

\* Where nobody gains a buffer, no stray appears.
LEMMA StraysShrink ==
  ASSUME PoolTypeOK, PoolTypeOK', Queued' \cup InHands' \subseteq Queued \cup InHands, issued' = issued
  PROVE  Cardinality(Strays') <= Cardinality(Strays)
<1>1. Strays' \subseteq Strays
  BY DEF Strays
<1> QED
  BY <1>1, CountsAreNumbers, FS_Subset

\* The tokens of a pool that goes on, added up before and after a step.
SumHolds ==
  /\ made' = made /\ foreign' = foreign
  /\ Cardinality(Strays') <= Cardinality(Strays)
  /\ made => Pool <= Tokens' + lost' /\ Tokens' + lost' <= Tokens + lost

\* A step that adds nothing to the sum of tokens but may take what is left over,
\* and lets no stray appear, keeps the tokens.
LEMMA SumKept ==
  ASSUME TokenInv, PoolTypeOK', SumHolds
  PROVE  TokensKept'
<1>1. PoolTypeOK
  BY DEF TokenInv, OwnerInv
<1>2. ASSUME made
      PROVE  Tokens' + lost' + Cardinality(Strays') <= Pool + foreign
  <2>1. Tokens \in Nat /\ lost \in Nat /\ foreign \in Nat /\ Pool \in Nat
    BY <1>1, CountsAreNumbers, PoolAssumption DEF PoolTypeOK, Tokens
  <2>2. Tokens' \in Nat /\ lost' \in Nat
    BY CountsStayNumbers, PoolAssumption DEF PoolTypeOK, Tokens
  <2>3. Cardinality(Strays) \in Nat /\ Cardinality(Strays') \in Nat
    BY <1>1, CountsAreNumbers, CountsStayNumbers
  <2>4. Tokens + lost + Cardinality(Strays) <= Pool + foreign
    BY <1>2 DEF TokenInv, TokensKept
  <2>5. Tokens' + lost' <= Tokens + lost /\ Cardinality(Strays') <= Cardinality(Strays)
    BY <1>2 DEF SumHolds
  <2>6. PICK t, l, n : t = Tokens' /\ l = lost' /\ n = Cardinality(Strays')
    OBVIOUS
  <2>7. t \in Nat /\ l \in Nat /\ n \in Nat /\ t + l <= Tokens + lost /\ n <= Cardinality(Strays)
    BY <2>2, <2>3, <2>5, <2>6
  <2>8. t + l + n <= Pool + foreign
    BY <2>1, <2>3, <2>4, <2>7
  <2> QED
    BY <2>6, <2>8
<1> QED
  BY <1>2 DEF TokensKept, SumHolds

\* Every call returns the token it took, carries it, or leaves it with a buffer.
LEMMA TokenStep ==
  ASSUME TokenInv, [PoolNext]_poolVars
  PROVE  TokenInv'
<1>0. PoolTypeOK /\ PoolTypeOK' /\ OwnerInv'
  BY PoolTypeStep, OwnerStep DEF TokenInv, OwnerInv
<1>p. /\ Pool \in Nat /\ free \in Nat /\ free' \in Nat /\ lost \in Nat /\ lost' \in Nat
      /\ free <= Pool
  BY <1>0, PoolAssumption DEF PoolTypeOK
<1>n. /\ Cardinality(issued) \in Nat /\ Cardinality(issued') \in Nat
      /\ Cardinality(Carriers) \in Nat /\ Cardinality(Carriers') \in Nat
      /\ Cardinality(Strays) \in Nat /\ Cardinality(Strays') \in Nat
      /\ IsFiniteSet(issued) /\ IsFiniteSet(Strays)
  BY <1>0, CountsAreNumbers, CountsStayNumbers
<1>k. made => Pool <= Tokens + lost
  BY DEF TokenInv, TokensKept
<1> SUFFICES TokensKept'
  BY <1>0 DEF TokenInv
<1>1. CASE Create
  <2>1. /\ Queued' = {} /\ InHands' = InHands /\ Carriers' = Carriers /\ issued' = {}
        /\ free' = Pool /\ lost' = 0
        /\ foreign' = Cardinality(InHands) + Cardinality(Carriers)
    BY <1>1 DEF Create, Queued, Range, InHands, Carriers, Carries
  <2>2. Strays' = InHands /\ Cardinality(issued') = 0
    BY <2>1, FS_EmptySet DEF Strays
  <2>3. Cardinality(InHands) \in Nat
    BY <1>0, CountsAreNumbers
  <2>4. Tokens' = Pool + Cardinality(Carriers)
    BY <1>p, <1>n, <2>1, <2>2 DEF Tokens
  <2> QED
    BY <1>p, <1>n, <2>1, <2>2, <2>3, <2>4 DEF TokensKept
<1>2. CASE CreateFails \/ UNCHANGED poolVars
  <2>1. UNCHANGED <<made, free, ready, held, doing, issued, lost, foreign>>
    BY <1>2 DEF CreateFails, poolVars
  <2> QED
    BY <2>1 DEF TokenInv, TokensKept, Tokens, Strays, Queued, InHands, Carriers, Carries
<1>3. CASE Destroy
  BY <1>3 DEF Destroy, TokensKept
<1>4. ASSUME NEW u \in Users, AskToken(u)
      PROVE  TokensKept'
  <2>1. /\ UNCHANGED <<made, foreign, lost, issued>>
        /\ Queued' \cup InHands' \subseteq Queued \cup InHands
    BY <1>4 DEF AskToken, Queued, InHands
  <2>2. CASE free > 0 /\ free' = free - 1 /\ Turns(u, "none", "malloc")
    <3>1. Cardinality(Carriers') = Cardinality(Carriers) + 1
      BY <1>0, <2>2, CarriersJoin DEF Turns, Carries
    <3>2. Tokens' = Tokens
      BY <1>p, <1>n, <2>1, <2>2, <3>1 DEF Tokens
    <3> QED
      BY <1>0, <1>p, <1>n, <1>k, <2>1, <3>2, StraysShrink, SumKept DEF Tokens, SumHolds
  <2>3. CASE free' = free /\ Turns(u, "none", Instead)
    <3>1. Carriers' = Carriers
      BY <1>0, <2>3, CarriersStay DEF Turns, Carries, Instead
    <3>2. Tokens' = Tokens
      BY <2>1, <2>3, <3>1 DEF Tokens
    <3> QED
      BY <1>0, <1>p, <1>n, <1>k, <2>1, <3>2, StraysShrink, SumKept DEF Tokens, SumHolds
  <2> QED
    BY <1>4, <2>2, <2>3 DEF AskToken
<1>5. ASSUME NEW u \in Users, HeapGives(u)
      PROVE  TokensKept'
  <2>1. PICK f \in Frames \ live :
          Takes(u, f) /\ issued' = issued \cup {f}
    BY <1>5 DEF HeapGives
  <2>2. UNCHANGED <<made, free, ready, lost, foreign>> /\ Turns(u, "malloc", "none")
    BY <1>5 DEF HeapGives
  <2>3. Cardinality(Carriers') = Cardinality(Carriers) - 1
    BY <1>0, <2>2, CarriersLeave DEF Turns, Carries
  <2>4. Cardinality(issued') = Cardinality(issued) + 1
    BY <1>0, <1>n, <2>1, FS_AddElement DEF PoolTypeOK
  <2>5. Tokens' = Tokens
    BY <1>p, <1>n, <2>2, <2>3, <2>4 DEF Tokens
  <2>6. Cardinality(Strays') <= Cardinality(Strays)
    <3>1. \A v \in Users : held'[v] = IF v = u THEN held[v] \cup {f} ELSE held[v]
      BY <1>0, <2>1 DEF Takes, PoolTypeOK
    <3>2. InHands' \subseteq InHands \cup {f} /\ Queued' = Queued
      BY <2>2, <3>1 DEF InHands, Queued
    <3>3. Strays' \subseteq Strays
      BY <2>1, <3>2 DEF Strays
    <3> QED
      BY <1>n, <3>3, FS_Subset
  <2> QED
    BY <1>0, <1>p, <1>n, <1>k, <2>2, <2>5, <2>6, SumKept DEF Tokens, SumHolds
<1>6. ASSUME NEW u \in Users, HeapRefuses(u) \/ ReturnToken(u)
      PROVE  TokensKept'
  <2>1. /\ UNCHANGED <<made, foreign, lost, issued>> /\ PutsToken
        /\ Queued' \cup InHands' \subseteq Queued \cup InHands
    BY <1>6 DEF HeapRefuses, ReturnToken, Queued, InHands
  <2>2. Turns(u, "malloc", Instead) \/ Turns(u, "free", "none")
    BY <1>6 DEF HeapRefuses, ReturnToken
  <2>3. Cardinality(Carriers') = Cardinality(Carriers) - 1
    BY <1>0, <2>2, CarriersLeave DEF Turns, Carries, Instead
  <2>4. made => Pool <= Tokens' + lost' /\ Tokens' + lost' <= Tokens + lost
    <3>1. CASE made /\ free < Pool
      <4>1. free' = free + 1
        BY <2>1, <3>1 DEF PutsToken
      <4> QED
        BY <1>p, <1>n, <1>k, <2>1, <2>3, <3>1, <4>1 DEF Tokens
    <3>2. CASE made /\ free = Pool
      <4>1. free' = free
        BY <1>p, <2>1, <3>2 DEF PutsToken
      <4> QED
        BY <1>p, <1>n, <1>k, <2>1, <2>3, <3>2, <4>1 DEF Tokens
    <3> QED
      BY <1>p, <3>1, <3>2
  <2> QED
    BY <1>0, <2>1, <2>4, StraysShrink, SumKept DEF SumHolds
<1>7. ASSUME NEW u \in Users, Steal(u) \/ GetFrame(u)
      PROVE  TokensKept'
  <2>1. UNCHANGED <<made, free, issued, lost, foreign>>
    BY <1>7 DEF Steal, GetFrame, PopReady
  <2>2. Carriers' = Carriers
    <3>1. CASE Turns(u, "steal", "none")
      BY <1>0, <3>1, CarriersStay DEF Turns, Carries
    <3>2. CASE UNCHANGED doing
      BY <3>2 DEF Carriers, Carries
    <3> QED
      BY <1>7, <3>1, <3>2 DEF Steal, GetFrame
  <2>3. Tokens' = Tokens
    BY <2>1, <2>2 DEF Tokens
  <2>4. Queued' \cup InHands' \subseteq Queued \cup InHands
    <3>1. CASE UNCHANGED <<ready, held>>
      BY <3>1 DEF Queued, InHands
    <3>2. CASE PopReady(u)
      BY <1>0, <3>2, PopMoves
    <3> QED
      BY <1>7, <3>1, <3>2 DEF Steal, GetFrame
  <2> QED
    BY <1>0, <1>p, <1>n, <1>k, <2>1, <2>3, <2>4, StraysShrink, SumKept DEF Tokens, SumHolds
<1>8. ASSUME NEW u \in Users, Abandon(u)
      PROVE  TokensKept'
  <2>1. UNCHANGED <<made, free, ready, issued, foreign>>
    BY <1>8 DEF Abandon
  <2>2. Queued' \cup InHands' \subseteq Queued \cup InHands
    <3>1. \A v \in Users : held'[v] = IF v = u THEN {} ELSE held[v]
      BY <1>0, <1>8 DEF Abandon, PoolTypeOK
    <3> QED
      BY <2>1, <3>1 DEF Queued, InHands
  <2>3. made => Tokens' + lost' = Tokens + lost
    <3>1. CASE Carries(u)
      <4>1. Cardinality(Carriers') = Cardinality(Carriers) - 1
        BY <1>0, <1>8, <3>1, CarriersLeave DEF Abandon
      <4>2. made => lost' = lost + 1
        BY <1>8, <3>1 DEF Abandon
      <4> QED
        BY <1>p, <1>n, <2>1, <4>1, <4>2 DEF Tokens
    <3>2. CASE ~Carries(u)
      <4>1. Carriers' = Carriers
        BY <1>0, <1>8, <3>2, CarriersStay DEF Abandon
      <4>2. lost' = lost
        BY <1>8, <3>2 DEF Abandon
      <4> QED
        BY <2>1, <4>1, <4>2 DEF Tokens
    <3> QED
      BY <3>1, <3>2
  <2>4. Cardinality(Strays') <= Cardinality(Strays)
    BY <1>0, <2>1, <2>2, StraysShrink
  <2> QED
    BY <1>0, <1>p, <1>n, <1>k, <2>1, <2>3, <2>4, SumKept DEF Tokens, SumHolds
<1>9. ASSUME NEW u \in Users, NEW f \in Frames, Queue(u, f) \/ Mislay(u, f)
      PROVE  TokensKept'
  <2>1. UNCHANGED <<made, free, doing, issued, lost, foreign>> /\ GivesUp(u, f)
    BY <1>9 DEF Queue, Mislay
  <2>2. Tokens' = Tokens
    BY <2>1 DEF Tokens, Carriers, Carries
  <2>3. Queued' \cup InHands' \subseteq Queued \cup InHands
    <3>1. f \in InHands /\ InHands' \subseteq InHands
      BY <1>0, <2>1, GivesUpMoves
    <3>2. CASE UNCHANGED ready
      BY <3>1, <3>2 DEF Queued
    <3>3. CASE ready' = Append(ready, f)
      <4>1. Queued' = Queued \cup {f}
        BY <1>0, <3>3, AppendMoves
      <4> QED
        BY <3>1, <4>1
    <3> QED
      BY <1>9, <3>2, <3>3 DEF Queue, Mislay
  <2> QED
    BY <1>0, <1>p, <1>n, <1>k, <2>1, <2>2, <2>3, StraysShrink, SumKept DEF Tokens, SumHolds
<1>10. ASSUME NEW u \in Users, NEW f \in Frames, GiveBack(u, f)
       PROVE  TokensKept'
  <2>1. /\ UNCHANGED <<made, free, ready, lost, foreign>> /\ GivesUp(u, f)
        /\ Turns(u, "none", "free") /\ live' = live \ {f} /\ issued' = issued \ {f}
    BY <1>10 DEF GiveBack
  <2>2. Cardinality(Carriers') = Cardinality(Carriers) + 1
    BY <1>0, <2>1, CarriersJoin DEF Turns, Carries
  <2>3. f \in InHands /\ InHands' \subseteq InHands /\ Queued' = Queued
    BY <1>0, <2>1, GivesUpMoves DEF Queued
  <2>4. f \notin Queued' \cup InHands'
    BY <1>0, <2>1 DEF OwnerInv, OneOwner
  <2>5. CASE f \in issued
    <3>1. Cardinality(issued') = Cardinality(issued) - 1
      BY <1>n, <2>1, <2>5, FS_RemoveElement
    <3>2. Tokens' = Tokens
      BY <1>p, <1>n, <2>1, <2>2, <3>1 DEF Tokens
    <3>3. Strays' \subseteq Strays
      BY <2>1, <2>3, <2>4 DEF Strays
    <3>4. Cardinality(Strays') <= Cardinality(Strays)
      BY <1>n, <3>3, FS_Subset
    <3> QED
      BY <1>0, <1>p, <1>n, <1>k, <2>1, <3>2, <3>4, SumKept DEF Tokens, SumHolds
  <2>6. CASE f \notin issued
    <3>1. issued' = issued
      BY <2>1, <2>6
    <3>2. Tokens' = Tokens + 1
      BY <1>p, <1>n, <2>1, <2>2, <3>1 DEF Tokens
    <3>3. Strays' \subseteq Strays \ {f} /\ f \in Strays
      BY <2>3, <2>4, <2>6, <3>1 DEF Strays
    <3>4. Cardinality(Strays \ {f}) = Cardinality(Strays) - 1 /\ IsFiniteSet(Strays \ {f})
      BY <1>n, <3>3, FS_RemoveElement
    <3>5. Cardinality(Strays') <= Cardinality(Strays) - 1
      BY <3>3, <3>4, FS_Subset
    <3>6. Tokens \in Nat /\ foreign \in Nat
      BY <1>0, <1>p, <1>n DEF Tokens, PoolTypeOK
    <3>7. made => Tokens + lost >= Pool /\ Tokens + lost + Cardinality(Strays) <= Pool + foreign
      BY DEF TokenInv, TokensKept
    <3>8. made' = made /\ foreign' = foreign /\ lost' = lost
      BY <2>1
    <3> QED
      BY <1>p, <1>n, <3>2, <3>5, <3>6, <3>7, <3>8 DEF TokensKept
  <2> QED
    BY <2>5, <2>6
<1> QED
  BY <1>1, <1>2, <1>3, <1>4, <1>5, <1>6, <1>7, <1>8, <1>9, <1>10, CompleteIsOne
  DEF PoolNext, Malloc, Free

-----------------------------------------------------------------------------
(* The engine uses its queue as a pool                                       *)

\* A step of the engine is a call on the pool, or none.
LEMMA EngineStep ==
  ASSUME PoolTypeOK, [Next]_vars
  PROVE  [PoolNext]_poolVars
<1> USE EngineAssumption DEF PoolNext
<1>1. CASE Calling
  BY <1>1 DEF Calling, CallInit, CallStart, CallStop, CallDeinitStopped
<1>2. CASE PrepareQueue
  BY <1>2 DEF PrepareQueue, TakeAsItIs
<1>3. CASE OpenCamera \/ StartTask \/ CloseCamera
  BY <1>3 DEF OpenCamera, StartTask, CloseCamera
<1>4. CASE KillTask
  BY <1>4 DEF KillTask
<1>5. CASE Dispose
  BY <1>5 DEF Dispose
<1>6. CASE CameraAsks \/ CameraObtains \/ CameraIsRefused \/ CameraSteals
  BY <1>6 DEF CameraAsks, CameraObtains, CameraIsRefused, CameraSteals, Malloc
<1>7. CASE CameraDelivers
  BY <1>7 DEF CameraDelivers, PoolTypeOK
<1>8. CASE CameraDrops
  BY <1>8 DEF CameraDrops, PoolTypeOK
<1>9. CASE CameraReturnsToken \/ TaskReturnsToken
  BY <1>9 DEF CameraReturnsToken, TaskReturnsToken
<1>10. CASE TaskGets
  BY <1>10 DEF TaskGets
<1>11. CASE TaskSent
  BY <1>11 DEF TaskSent, PoolTypeOK
<1>12. CASE TaskTests \/ TaskFindsNoQueue \/ TaskExits
  BY <1>12 DEF TaskTests, TaskFindsNoQueue, TaskExits
<1>13. CASE UNCHANGED vars
  BY <1>13 DEF vars
<1> QED
  BY <1>1, <1>2, <1>3, <1>4, <1>5, <1>6, <1>7, <1>8, <1>9, <1>10, <1>11, <1>12, <1>13
  DEF Next, Working, Camera, Transfer

-----------------------------------------------------------------------------
(* Theorems                                                                  *)

\* For any pool, heap and threads, however their calls cut into each other: a
\* token is in the free queue, in a call or in a buffer, or went with a thread that
\* was deleted in a call; and none appears but for a buffer or a call that was out
\* when the pool was made.
THEOREM PoolKeepsTokens == PoolSpec => []TokensKept
<1>1. PoolInit => TokenInv
  BY TokenInit
<1>2. TokenInv /\ [PoolNext]_poolVars => TokenInv'
  BY TokenStep
<1>3. TokenInv => TokensKept
  BY DEF TokenInv
<1> QED
  BY <1>1, <1>2, <1>3, PTL DEF PoolSpec

\* A buffer is queued once, or one thread holds it, and it is not in the heap.
THEOREM PoolHasOneOwner == PoolSpec => []OneOwner
<1>1. PoolInit => OwnerInv
  BY OwnerInit
<1>2. OwnerInv /\ [PoolNext]_poolVars => OwnerInv'
  BY OwnerStep
<1>3. OwnerInv => OneOwner
  BY DEF OwnerInv
<1> QED
  BY <1>1, <1>2, <1>3, PTL DEF PoolSpec

\* The engine, the camera and the transfer task use the pool only by its calls, and
\* a stop that deletes the task, between two calls or inside one, is one of the
\* deletions the pool allows for.
THEOREM EngineUsesPool == Spec => PoolSpec
<1>1. Init => PoolInit /\ PoolTypeOK
  BY PoolTypeInit DEF Init
<1>2. PoolTypeOK /\ [Next]_vars => [PoolNext]_poolVars
  BY EngineStep
<1>3. PoolTypeOK /\ [PoolNext]_poolVars => PoolTypeOK'
  BY PoolTypeStep
<1> QED
  BY <1>1, <1>2, <1>3, PTL DEF Spec, PoolSpec

\* A stop that deletes the transfer task with a frame in its hands, or between
\* freeing the frame and returning its token, loses that one token and no other, and
\* no frame gets a second owner.
THEOREM EngineKeepsFrames == Spec => []PoolKept
BY EngineUsesPool, PoolKeepsTokens, PoolHasOneOwner, PTL DEF PoolKept

-----------------------------------------------------------------------------
(* The transfer task                                                         *)

\* What a call in progress has and has not done to the context, the pool and the
\* task: between calls a task may run, but not while a call makes or frees a pool.
EngineFits ==
  /\ caller.at # "idle" => ctx
  /\ ctx /\ caller.at # "queue" => count > 0
  /\ handle <=> task # "none"
  /\ task # "none" => started /\ ctx
  /\ caller.at \in {"queue", "camera", "task", "close", "dispose"} => task = "none"

EngineInv == TypeOK /\ EngineFits

\* The part of the types that is the engine's own.
FlagTypes ==
  /\ ctx \in BOOLEAN /\ opened \in BOOLEAN /\ running \in BOOLEAN /\ handle \in BOOLEAN
  /\ started \in BOOLEAN /\ filming \in BOOLEAN
CallerTypes ==
  caller \in [call : {"none", "init", "start", "stop", "deinit"},
              at : {"idle", "queue", "camera", "task", "kill", "close", "dispose"}]
TaskTypes == task \in {"none", "test", "get", "send", "exit"}
EngineTypes == FlagTypes /\ CallerTypes /\ TaskTypes

\* The flags stay flags, whichever of them a call sets.
LEMMA FlagTypesStep ==
  ASSUME FlagTypes, Next
  PROVE  FlagTypes'
<1> USE DEF FlagTypes, engineVars
<1>1. CASE Calling
  BY <1>1 DEF Calling, CallInit, CallStart, CallStop, CallDeinitStopped
<1>2. CASE PrepareQueue \/ OpenCamera \/ StartTask
  BY <1>2 DEF PrepareQueue, OpenCamera, StartTask
<1>3. CASE KillTask \/ Dispose
  BY <1>3 DEF KillTask, Dispose
<1>4. CASE CloseCamera
  BY <1>4 DEF CloseCamera, Closed
<1>5. CASE Camera
  BY <1>5 DEF Camera, CameraAsks, CameraObtains, CameraIsRefused,
       CameraSteals, CameraDelivers, CameraDrops, CameraReturnsToken, CameraWorks
<1>6. CASE Transfer
  BY <1>6 DEF Transfer, TaskTests, TaskGets, TaskFindsNoQueue, TaskSent, TaskReturnsToken, TaskExits, TaskMoves
<1> QED
  BY <1>1, <1>2, <1>3, <1>4, <1>5, <1>6 DEF Next, Working

\* A call moves from place to place and returns.
LEMMA CallerTypesStep ==
  ASSUME CallerTypes, Next
  PROVE  CallerTypes'
<1> USE DEF CallerTypes, Idle, Enters, Goes, Returns
<1>1. CASE Calling
  BY <1>1 DEF Calling, CallInit, CallStart, CallStop, CallDeinitStopped
<1>2. CASE PrepareQueue
  <2>1. Goes("camera") \/ Returns
    BY <1>2 DEF PrepareQueue
  <2> QED
    BY <2>1
<1>3. CASE OpenCamera
  <2>1. Goes("task") \/ Goes("dispose") \/ Returns
    BY <1>3 DEF OpenCamera, GiveUp
  <2> QED
    BY <2>1
<1>4. CASE StartTask \/ KillTask \/ Dispose
  <2>1. Goes("close") \/ Returns
    BY <1>4 DEF StartTask, KillTask, Dispose
  <2> QED
    BY <2>1
<1>5. CASE CloseCamera
  <2>1. Goes("dispose") \/ Returns
    BY <1>5 DEF CloseCamera, Closed
  <2> QED
    BY <2>1
<1>6. CASE Camera \/ Transfer
  <2>1. UNCHANGED caller
    BY <1>6 DEF Camera, CameraAsks, CameraObtains, CameraIsRefused,
       CameraSteals, CameraDelivers, CameraDrops, CameraReturnsToken, CameraWorks, Transfer, TaskTests,
                TaskGets, TaskFindsNoQueue, TaskSent, TaskReturnsToken, TaskExits, TaskMoves
  <2> QED
    BY <2>1
<1> QED
  BY <1>1, <1>2, <1>3, <1>4, <1>5, <1>6 DEF Next, Working

\* The task is at one of its places.
LEMMA TaskTypesStep ==
  ASSUME TaskTypes, Next
  PROVE  TaskTypes'
<1> USE DEF TaskTypes
<1>1. CASE Calling \/ Camera \/ PrepareQueue \/ OpenCamera \/ CloseCamera \/ Dispose
  <2>1. UNCHANGED task
    BY <1>1 DEF Calling, CallInit, CallStart, CallStop, CallDeinitStopped, Camera, CameraAsks, CameraObtains, CameraIsRefused,
       CameraSteals, CameraDelivers, CameraDrops, CameraReturnsToken, CameraWorks, PrepareQueue, OpenCamera, CloseCamera, Dispose
  <2> QED
    BY <2>1
<1>2. CASE StartTask \/ KillTask
  BY <1>2 DEF StartTask, KillTask
<1>3. CASE Transfer
  BY <1>3 DEF Transfer, TaskTests, TaskGets, TaskFindsNoQueue, TaskSent, TaskReturnsToken, TaskExits, TaskMoves
<1> QED
  BY <1>1, <1>2, <1>3 DEF Next, Working

\* Frames come and go without a change to the pool's size.
LEMMA FramesKeepCount ==
  ASSUME Camera \/ Transfer \/ KillTask
  PROVE  UNCHANGED count
<1>1. ASSUME NEW u, NEW f, Complete(u, f) \/ Free(u, f)
      PROVE  UNCHANGED count
  BY <1>1 DEF Complete, Free, Queue, Mislay, GiveBack
<1>2. CASE Camera
  BY <1>1, <1>2 DEF Camera, CameraAsks, CameraObtains, CameraIsRefused, CameraSteals, CameraDelivers,
     CameraDrops, CameraReturnsToken, AskToken, HeapGives, HeapRefuses, Steal, PopReady, ReturnToken
<1>3. CASE Transfer
  BY <1>1, <1>3 DEF Transfer, TaskTests, TaskGets, TaskFindsNoQueue, TaskSent, TaskReturnsToken, TaskExits,
     GetFrame, PopReady, ReturnToken, poolVars
<1>4. CASE KillTask
  BY <1>4 DEF KillTask, Abandon, poolVars
<1> QED
  BY <1>2, <1>3, <1>4

\* No call makes, opens or frees anything before the task of the last run has ended.
LEMMA EngineFitsStep ==
  ASSUME EngineTypes, EngineFits, Next
  PROVE  EngineFits'
<1> USE PoolAssumption DEF EngineTypes, FlagTypes, CallerTypes, TaskTypes, EngineFits, engineVars, poolVars,
                           Idle, Enters, Goes, Returns
<1>1. CASE CallInit
  BY <1>1 DEF CallInit
<1>2. CASE CallStart \/ CallDeinitStopped
  BY <1>2 DEF CallStart, CallDeinitStopped
<1>3. CASE CallStop
  BY <1>3 DEF CallStop
<1>4. CASE PrepareQueue
  <2>1. count' > 0
    <3>1. count' = Pool \/ (count > 0 /\ count' = count)
      BY <1>4 DEF PrepareQueue, Create, CreateFails, TakeAsItIs
    <3> QED
      BY <3>1
  <2>2. task = "none" /\ ctx /\ UNCHANGED <<handle, started, task>>
    BY <1>4 DEF PrepareQueue
  <2>3. \/ Goes("camera") /\ UNCHANGED ctx
        \/ Returns /\ ctx' = FALSE
    BY <1>4 DEF PrepareQueue
  <2>4. CASE Goes("camera") /\ UNCHANGED ctx
    BY <2>1, <2>2, <2>4
  <2>5. CASE Returns /\ ctx' = FALSE
    BY <2>2, <2>5
  <2> QED
    BY <2>3, <2>4, <2>5
<1>5. CASE OpenCamera
  BY <1>5 DEF OpenCamera, GiveUp
<1>6. CASE StartTask
  BY <1>6 DEF StartTask
<1>7. CASE KillTask
  BY <1>7, FramesKeepCount DEF KillTask
<1>8. CASE CloseCamera
  BY <1>8 DEF CloseCamera, Closed
<1>9. CASE Dispose
  BY <1>9 DEF Dispose
<1>10. CASE Camera
  <2>1. CameraWorks
    BY <1>10 DEF Camera, CameraAsks, CameraObtains, CameraIsRefused, CameraSteals, CameraDelivers, CameraDrops,
       CameraReturnsToken
  <2> QED
    BY <1>10, <2>1, FramesKeepCount DEF CameraWorks
<1>11. CASE TaskTests \/ TaskGets \/ TaskFindsNoQueue \/ TaskSent
  <2>1. UNCHANGED <<engineVars, caller>> /\ task # "none" /\ task' # "none"
    BY <1>11 DEF TaskTests, TaskGets, TaskFindsNoQueue, TaskSent, TaskMoves
  <2> QED
    BY <1>11, <2>1, FramesKeepCount DEF Transfer
<1>12. CASE TaskExits
  BY <1>12 DEF TaskExits, TaskMoves
<1>13. CASE TaskReturnsToken
  <2>1. UNCHANGED <<engineVars, caller, task>>
    BY <1>13 DEF TaskReturnsToken
  <2> QED
    BY <1>13, <2>1, FramesKeepCount DEF Transfer
<1> QED
  BY <1>1, <1>2, <1>3, <1>4, <1>5, <1>6, <1>7, <1>8, <1>9, <1>10, <1>11, <1>12, <1>13
  DEF Next, Calling, Working, Transfer

\* The engine's invariant holds in every state it reaches.
LEMMA EngineInvHolds == Spec => []EngineInv
<1>1. Init => EngineInv
  <2>1. Init => PoolTypeOK
    BY PoolTypeInit DEF Init
  <2>2. ASSUME Init
        PROVE  FlagTypes /\ CallerTypes /\ TaskTypes /\ EngineFits
    BY <2>2 DEF Init, FlagTypes, CallerTypes, TaskTypes, EngineFits, Idle
  <2> QED
    BY <2>1, <2>2 DEF EngineInv, TypeOK, FlagTypes, CallerTypes, TaskTypes
<1>2. EngineInv /\ [Next]_vars => EngineInv'
  <2> SUFFICES ASSUME EngineInv, [Next]_vars
               PROVE  EngineInv'
    OBVIOUS
  <2>1. PoolTypeOK'
    BY EngineStep, PoolTypeStep DEF EngineInv, TypeOK
  <2>2. EngineTypes' /\ EngineFits'
    <3>1. EngineTypes /\ EngineFits
      BY DEF EngineInv, TypeOK, EngineTypes, FlagTypes, CallerTypes, TaskTypes
    <3>2. CASE Next
      BY <3>1, <3>2, FlagTypesStep, CallerTypesStep, TaskTypesStep, EngineFitsStep DEF EngineTypes
    <3>3. CASE UNCHANGED vars
      BY <3>1, <3>3 DEF vars, engineVars, poolVars, EngineTypes, FlagTypes, CallerTypes, TaskTypes, EngineFits
    <3> QED
      BY <3>2, <3>3
  <2> QED
    BY <2>1, <2>2 DEF EngineInv, TypeOK, EngineTypes, FlagTypes, CallerTypes, TaskTypes
<1> QED
  BY <1>1, <1>2, PTL DEF Spec

\* The context, the threads and the pool keep their types.
THEOREM VideoTypeCorrect == Spec => []TypeOK
<1>1. EngineInv => TypeOK
  BY DEF EngineInv
<1> QED
  BY <1>1, EngineInvHolds, PTL

\* No call of video_engine.c makes or frees the pool or the context, or creates a
\* transfer task, while the task of the run before is still there.
THEOREM TransferTaskEndsFirst == Spec => []TaskEndsFirst
<1>1. EngineInv => TaskEndsFirst
  BY DEF EngineInv, EngineFits, TaskEndsFirst
<1> QED
  BY <1>1, EngineInvHolds, PTL

=============================================================================
