-------------------------- MODULE SampleQueue_proofs --------------------------
(***************************************************************************)
(* Proofs about SampleQueue, for every queue length, pool and FFT size:    *)
(*   - every variable keeps its type;                                      *)
(*   - a popped frame has the length main reads, also after a change of    *)
(*     the FFT size;                                                       *)
(*   - every frame of the pool has one owner, and none leaks;              *)
(*   - the pool never grows past the frames that are in flight;            *)
(*   - frames are consecutive samples, drawn in order, and keep coming.    *)
(***************************************************************************)
EXTENDS SampleQueue, FiniteSetTheorems, SequenceTheorems, TLAPS

USE DEF poolVars, mainVars

\* Where the two threads are and which handles are empty there.
ControlInv ==
  /\ producer = "queue" <=> frame # Empty
  /\ producer = "queue" => m_accumulator = Empty
  /\ main = "frame" <=> samples_frame # Empty
  /\ main \in {"stopped", "start"} => ~running /\ producer = "idle"
  /\ main \notin {"stopping", "stopped"} => current_fft_size = m_fft_size

\* How full a frame is at each place: the accumulator never is, all others are.
FillInv ==
  /\ m_accumulator # Empty => /\ m_accumulator.capacity = m_fft_size
                              /\ Len(m_accumulator.samples) < m_fft_size
  /\ frame # Empty => Len(frame.samples) = m_fft_size
  /\ \A i \in DOMAIN m_queue : Len(m_queue[i].samples) = m_fft_size
  /\ samples_frame # Empty => Len(samples_frame.samples) = current_fft_size

\* Only an empty handle has no frame.
HandleInv ==
  \A h \in {m_accumulator, frame, samples_frame} :
    h.frame = Empty.frame => h = Empty

Inv == /\ TypeOK /\ ControlInv /\ FillInv /\ HandleInv
       /\ EveryFrameHasOneOwner /\ PoolIsBounded

-----------------------------------------------------------------------------
(* Frames and handles *)

LEMMA FrameType ==
  ASSUME NEW p \in Int, NEW n \in Nat
  PROVE  FrameOf(p, n) \in FrameIds
BY DEF FrameOf, FrameIds

LEMMA FrameEqual ==
  ASSUME NEW p, NEW m, NEW q, NEW n, FrameOf(p, m) = FrameOf(q, n)
  PROVE  p = q /\ m = n
<1>1. FrameOf(p, m).pool = FrameOf(q, n).pool
  OBVIOUS
<1>2. FrameOf(p, m).number = FrameOf(q, n).number
  OBVIOUS
<1> QED BY <1>1, <1>2 DEF FrameOf

LEMMA EmptyType ==
  /\ Empty \in Handles
  /\ Len(Empty.samples) = 0 /\ Empty.frame = FrameOf(-1, 0)
<1>1. <<>> \in Seq(Int) /\ Len(<<>>) = 0
  BY EmptySeq
<1> QED BY <1>1, FrameType DEF Empty, Handles

LEMMA FreshType ==
  ASSUME NEW id \in FrameIds, m_fft_size \in Nat
  PROVE  FreshHandle(id) \in Handles /\ Len(FreshHandle(id).samples) = 0
<1>1. <<>> \in Seq(Int) /\ Len(<<>>) = 0
  BY EmptySeq
<1> QED BY <1>1 DEF FreshHandle, Handles

\* A frame of a pool is not the frame of an empty handle.
LEMMA RealFrame ==
  ASSUME NEW p \in Nat, NEW n
  PROVE  FrameOf(p, n) # Empty.frame
BY FrameEqual, EmptyType

\* The frames of the current pool.
PoolFrames(n) == {FrameOf(m_pool, k) : k \in 1..n}

\* What Gather() does to a handle with room: it keeps its frame, and takes at
\* most what it has room for.
LEMMA GatheredType ==
  ASSUME NEW h \in Handles, NEW count \in Nat \ {0}, delivered \in Nat,
         Len(h.samples) < h.capacity
  PROVE  LET g == [h EXCEPT !.samples = Gathered(h, count)]
         IN  /\ g \in Handles
             /\ g.frame = h.frame /\ g.capacity = h.capacity
             /\ Len(g.samples) <= h.capacity
             /\ Len(g.samples) > 0
<1> DEFINE take == Minimum(count, h.capacity - Len(h.samples))
           taken == [k \in 1..take |-> delivered + k - 1]
           g == [h EXCEPT !.samples = Gathered(h, count)]
<1>1. h.samples \in Seq(Int) /\ Len(h.samples) \in Nat /\ h.capacity \in Nat
  BY LenProperties DEF Handles
<1>2. take \in Nat \ {0} /\ take <= h.capacity - Len(h.samples)
  BY <1>1 DEF Minimum
<1>3. taken \in Seq(Int) /\ Len(taken) = take
  <2> HIDE DEF take
  <2>1. \A k \in 1..take : delivered + k - 1 \in Int
    BY <1>2
  <2>2. taken \in Seq(Int)
    BY <1>2, <2>1, IsASeq
  <2>3. DOMAIN taken = 1..take /\ DOMAIN taken = 1..Len(taken) /\ Len(taken) \in Nat
    BY <2>2, LenProperties
  <2> QED BY <2>2, <2>3, <1>2
<1>4. Gathered(h, count) = h.samples \o taken
  BY DEF Gathered
<1>5. /\ h.samples \o taken \in Seq(Int)
      /\ Len(h.samples \o taken) = Len(h.samples) + take
  <2> HIDE DEF taken, take
  <2> QED BY <1>1, <1>3, ConcatProperties
<1>6. /\ g.samples = Gathered(h, count) /\ g.frame = h.frame
      /\ g.capacity = h.capacity
  BY DEF Handles
<1>7. g \in Handles
  <2> HIDE DEF taken, take
  <2> QED BY <1>4, <1>5 DEF Handles
<1>8. Len(g.samples) = Len(h.samples) + take
  <2> HIDE DEF taken, take
  <2> QED BY <1>4, <1>5, <1>6
<1> HIDE DEF g, take
<1> QED BY <1>1, <1>2, <1>6, <1>7, <1>8 DEF g

-----------------------------------------------------------------------------
(* The frames of a queue *)

Distinct(q) == \A i, j \in DOMAIN q : i # j => q[i].frame # q[j].frame

LEMMA AppendFrames ==
  ASSUME NEW q \in Seq(Handles), NEW h \in Handles
  PROVE  /\ FramesIn(Append(q, h)) = FramesIn(q) \cup {h.frame}
         /\ Distinct(q) /\ h.frame \notin FramesIn(q) => Distinct(Append(q, h))
<1>1. /\ DOMAIN q = 1..Len(q) /\ Len(q) \in Nat
      /\ DOMAIN Append(q, h) = 1..Len(q)+1
      /\ \A i \in 1..Len(q) : Append(q, h)[i] = q[i]
      /\ Append(q, h)[Len(q)+1] = h
  OBVIOUS
<1> QED BY <1>1 DEF FramesIn, Distinct

LEMMA TailFrames ==
  ASSUME NEW q \in Seq(Handles), q # <<>>, Distinct(q)
  PROVE  /\ FramesIn(Tail(q)) = FramesIn(q) \ {Head(q).frame}
         /\ Head(q).frame \in FramesIn(q)
         /\ Distinct(Tail(q))
<1>1. /\ DOMAIN q = 1..Len(q) /\ Len(q) \in Nat \ {0} /\ Head(q) = q[1]
      /\ DOMAIN Tail(q) = 1..Len(q)-1
      /\ \A i \in 1..Len(q)-1 : Tail(q)[i] = q[i+1]
  BY EmptySeq, HeadTailProperties, LenProperties
<1>2. Distinct(Tail(q))
  BY <1>1 DEF Distinct
<1>3. Head(q).frame \in FramesIn(q)
  BY <1>1 DEF FramesIn
<1>4. ASSUME NEW x \in FramesIn(Tail(q))
      PROVE  x \in FramesIn(q) /\ x # Head(q).frame
  <2>1. PICK i \in DOMAIN Tail(q) : x = Tail(q)[i].frame
    BY <1>4 DEF FramesIn
  <2>2. i + 1 \in DOMAIN q /\ x = q[i+1].frame /\ i + 1 # 1 /\ 1 \in DOMAIN q
    BY <1>1, <2>1
  <2> QED BY <1>1, <2>2 DEF FramesIn, Distinct
<1>5. ASSUME NEW x \in FramesIn(q), x # Head(q).frame
      PROVE  x \in FramesIn(Tail(q))
  <2>1. PICK i \in DOMAIN q : x = q[i].frame
    BY DEF FramesIn
  <2>2. i # 1
    BY <1>1, <1>5, <2>1
  <2>3. i - 1 \in DOMAIN Tail(q) /\ Tail(q)[i-1] = q[(i-1)+1] /\ (i-1)+1 = i
    BY <1>1, <2>1, <2>2
  <2> QED BY <2>1, <2>3 DEF FramesIn
<1> QED BY <1>2, <1>3, <1>4, <1>5

LEMMA LastFrame ==
  ASSUME NEW q \in Seq(Handles), q # <<>>, Distinct(q)
  PROVE  /\ {q[i].frame : i \in 1..Len(q)-1} = FramesIn(q) \ {q[Len(q)].frame}
         /\ q[Len(q)] \in Handles /\ q[Len(q)].frame \in FramesIn(q)
<1>1. DOMAIN q = 1..Len(q) /\ Len(q) \in Nat \ {0}
  BY EmptySeq, LenProperties
<1> QED BY <1>1, ElementOfSeq DEF FramesIn, Distinct

LEMMA NoFrames == FramesIn(<<>>) = {} /\ Distinct(<<>>)
BY DEF FramesIn, Distinct

\* The pigeonhole: frames that are all queued, but for one, are at most one more
\* than the queue is long.
LEMMA FramesBound ==
  ASSUME NEW q \in Seq(Handles), NEW p, NEW c \in Nat, NEW held,
         \A n \in 1..c : FrameOf(p, n) = held \/ FrameOf(p, n) \in FramesIn(q)
  PROVE  c <= Len(q) + 1
<1> DEFINE place(n) == CHOOSE i \in DOMAIN q : q[i].frame = FrameOf(p, n)
           f == [n \in 1..c |-> IF FrameOf(p, n) = held THEN 0 ELSE place(n)]
<1>1. DOMAIN q = 1..Len(q) /\ Len(q) \in Nat
  BY LenProperties
<1>2. \A n \in 1..c : FrameOf(p, n) # held =>
         place(n) \in DOMAIN q /\ q[place(n)].frame = FrameOf(p, n)
  BY DEF FramesIn
<1>3. f \in [1..c -> 0..Len(q)]
  BY <1>1, <1>2
<1>4. \A m, n \in 1..c : f[m] = f[n] => m = n
  <2>1. ASSUME NEW m \in 1..c, NEW n \in 1..c, f[m] = f[n]
        PROVE  m = n
    <3>1. FrameOf(p, m) = FrameOf(p, n)
      BY <1>1, <1>2, <2>1
    <3> QED BY <3>1, FrameEqual
  <2> QED BY <2>1
<1>5. f \in Injection(1..c, 0..Len(q))
  BY <1>3, <1>4 DEF Injection, IsInjective
<1>6. /\ IsFiniteSet(0..Len(q)) /\ Cardinality(0..Len(q)) = Len(q) + 1
      /\ Cardinality(1..c) = c
  BY <1>1, FS_Interval
<1>7. Cardinality(1..c) <= Cardinality(0..Len(q))
  <2> HIDE DEF f
  <2> QED BY <1>5, <1>6, FS_Injection
<1> QED BY <1>6, <1>7

-----------------------------------------------------------------------------
(* Ownership *)

\* The sets of frames that the accumulator, push()'s local, main's local, the
\* queue and the free list own: disjoint, and together the pool.
Own(A, F, S, Q, Fr, P) ==
  /\ A \cap F = {} /\ S \cap (A \cup F) = {}
  /\ (A \cup F \cup S) \cap Q = {}
  /\ Fr \cap (A \cup F \cup S \cup Q) = {}
  /\ Fr \cup A \cup F \cup S \cup Q = P

Owned == /\ Distinct(m_queue)
         /\ Own(HeldBy(m_accumulator), HeldBy(frame), HeldBy(samples_frame),
                QueuedFrames, m_free_queue, PoolFrames(created))

LEMMA OwnedIsOneOwner == Owned <=> EveryFrameHasOneOwner
BY DEF Owned, Own, EveryFrameHasOneOwner, Distinct, Carried, PoolFrames

LEMMA OwnedIsOneOwnerNext == Owned' <=> EveryFrameHasOneOwner'
BY DEF Owned, Own, EveryFrameHasOneOwner, Distinct, Carried, PoolFrames

LEMMA HeldByEmpty == HeldBy(Empty) = {}
BY DEF HeldBy

LEMMA HeldByReal ==
  ASSUME NEW h, h.frame # Empty.frame
  PROVE  HeldBy(h) = {h.frame}
BY DEF HeldBy

\* All frames in use belong to the pool there is, so a release returns them.
LEMMA ReleasedAll ==
  ASSUME NEW frames, frames \subseteq PoolFrames(created)
  PROVE  Released(frames) = m_free_queue \cup frames
BY DEF Released, PoolFrames, FrameOf

LEMMA PoolFrameType ==
  ASSUME m_pool \in Nat
  PROVE  PoolFrames(created) \subseteq FrameIds /\ Empty.frame \notin PoolFrames(created)
BY FrameType, RealFrame DEF PoolFrames

-----------------------------------------------------------------------------
(* The initial state *)

LEMMA InitInv == Init => Inv
<1> SUFFICES ASSUME Init PROVE Inv
  OBVIOUS
<1>1. TypeOK
  BY EmptyType, FrameType, QueueAssumption, EmptySeq
     DEF Init, TypeOK, PlaceType, CountType, HandleType, NewFrames
<1>2. ControlInv /\ FillInv /\ HandleInv
  BY DEF Init, ControlInv, FillInv, HandleInv
<1>3. Owned
  BY HeldByEmpty, NoFrames
     DEF Init, Owned, Own, PoolFrames, QueuedFrames, NewFrames
<1>4. PoolIsBounded
  BY QueueAssumption DEF Init, PoolIsBounded, PeakInFlight
<1> QED BY <1>1, <1>2, <1>3, <1>4, OwnedIsOneOwner DEF Inv

-----------------------------------------------------------------------------
(* The producer's steps *)

\* Gather() into a handle that is the accumulator or was acquired just now.
LEMMA GatherInv ==
  ASSUME Inv, producer = "idle", running,
         NEW h \in Handles, h.frame # Empty.frame,
         h.capacity = m_fft_size, Len(h.samples) < m_fft_size,
         NEW count \in 1..m_fft_size, Gather(h, count),
         delivered' = delivered + count,
         m_free_queue' \subseteq FrameIds, created' \in Nat, PoolIsBounded',
         Own({h.frame}, {}, HeldBy(samples_frame), QueuedFrames,
             m_free_queue', PoolFrames(created)'),
         UNCHANGED <<m_pool, m_fft_size, m_queue, running, mainVars, cleared>>
  PROVE  Inv'
<1> DEFINE g == [h EXCEPT !.samples = Gathered(h, count)]
<1>0. /\ m_fft_size \in Nat \ {0} /\ delivered \in Nat /\ count \in Nat \ {0}
      /\ unfinished \in Nat /\ frame = Empty
      /\ PlaceType /\ CountType /\ HandleType /\ ControlInv /\ FillInv /\ HandleInv
      /\ Distinct(m_queue)
  BY OwnedIsOneOwner DEF Inv, TypeOK, CountType, ControlInv, Owned
<1>1. /\ g \in Handles /\ g.frame = h.frame /\ g.capacity = m_fft_size
      /\ Len(g.samples) <= m_fft_size /\ Len(g.samples) > 0
      /\ Len(g.samples) \in Nat
  <2>1. /\ g \in Handles /\ g.frame = h.frame /\ g.capacity = h.capacity
        /\ Len(g.samples) <= h.capacity /\ Len(g.samples) > 0
    BY <1>0, GatheredType
  <2> HIDE DEF g
  <2>2. g.samples \in Seq(Int)
    BY <2>1 DEF Handles
  <2> QED BY <2>1, <2>2, LenProperties
<1>2. g # Empty
  <2> HIDE DEF g
  <2> QED BY <1>1, EmptyType
<1>3. \/ /\ Len(g.samples) < m_fft_size
         /\ m_accumulator' = g /\ frame' = Empty /\ producer' = "idle"
         /\ unfinished' = unfinished + 1
      \/ /\ Len(g.samples) = m_fft_size
         /\ m_accumulator' = Empty /\ frame' = g /\ producer' = "queue"
         /\ unfinished' = 0
  <2>1. \/ /\ Len(g.samples) < m_fft_size
           /\ m_accumulator' = g /\ UNCHANGED <<frame, producer>>
           /\ unfinished' = unfinished + 1
        \/ /\ ~(Len(g.samples) < m_fft_size)
           /\ m_accumulator' = Empty /\ frame' = g /\ producer' = "queue"
           /\ unfinished' = 0
    BY DEF Gather
  <2> HIDE DEF g
  <2> QED BY <1>0, <1>1, <2>1
<1> HIDE DEF g
<1>4. TypeOK'
  <2>1. PlaceType'
    BY <1>0, <1>3 DEF PlaceType
  <2>2. CountType'
    BY <1>0, <1>3 DEF CountType
  <2>3. HandleType'
    BY <1>0, <1>1, <1>3, EmptyType DEF HandleType
  <2> QED BY <2>1, <2>2, <2>3 DEF TypeOK
<1>5. ControlInv'
  BY <1>0, <1>2, <1>3 DEF ControlInv
<1>6. FillInv'
  BY <1>0, <1>1, <1>3 DEF FillInv
<1>7. HandleInv'
  BY <1>0, <1>1, <1>3 DEF HandleInv
<1>8. Owned'
  <2>1. /\ HeldBy(g) = {h.frame} /\ HeldBy(Empty) = {}
    BY <1>1, HeldByReal, HeldByEmpty
  <2>2. QueuedFrames' = QueuedFrames /\ Distinct(m_queue)'
        /\ HeldBy(samples_frame)' = HeldBy(samples_frame)
    BY <1>0 DEF QueuedFrames, Distinct, HeldBy
  <2>3. \/ HeldBy(m_accumulator)' = {h.frame} /\ HeldBy(frame)' = {}
        \/ HeldBy(m_accumulator)' = {} /\ HeldBy(frame)' = {h.frame}
    BY <1>3, <2>1 DEF HeldBy
  <2> QED BY <2>2, <2>3 DEF Owned, Own
<1> QED BY <1>4, <1>5, <1>6, <1>7, <1>8, OwnedIsOneOwnerNext DEF Inv

\* A frame taken from the pool, or added to it, is nobody's; and the pool grows
\* only when all its frames are queued or drawn.
LEMMA AcquireOwns ==
  ASSUME Inv, producer = "idle", m_accumulator = Empty, NEW id, Acquire(id)
  PROVE  /\ id \in FrameIds /\ id # Empty.frame
         /\ m_free_queue' \subseteq FrameIds /\ created' \in Nat
         /\ m_pool' = m_pool
         /\ Own({id}, {}, HeldBy(samples_frame), QueuedFrames,
                m_free_queue', PoolFrames(created)')
         /\ MAX_SAMPLE_QUEUE_SIZE \in Nat => PoolIsBounded'
<1>0. /\ m_pool \in Nat /\ created \in Nat /\ m_free_queue \subseteq FrameIds
      /\ m_queue \in Seq(Handles) /\ Len(m_queue) <= MAX_SAMPLE_QUEUE_SIZE
      /\ HeldBy(m_accumulator) = {} /\ HeldBy(frame) = {}
      /\ Own({}, {}, HeldBy(samples_frame), QueuedFrames, m_free_queue,
             PoolFrames(created))
      /\ PoolIsBounded
  BY OwnedIsOneOwner, HeldByEmpty
     DEF Inv, TypeOK, CountType, HandleType, ControlInv, Owned
<1>1. CASE /\ id \in m_free_queue /\ m_free_queue' = m_free_queue \ {id}
           /\ UNCHANGED <<m_pool, created>>
  <2>1. id \in PoolFrames(created)
    BY <1>0, <1>1 DEF Own
  <2>2. PoolFrames(created)' = PoolFrames(created)
    BY <1>1 DEF PoolFrames
  <2>3. PoolIsBounded'
    BY <1>0, <1>1 DEF PoolIsBounded
  <2> QED BY <1>0, <1>1, <2>1, <2>2, <2>3, PoolFrameType DEF Own
<1>2. CASE /\ m_free_queue = {} /\ id = FrameOf(m_pool, created + 1)
           /\ created' = created + 1 /\ UNCHANGED <<m_pool, m_free_queue>>
  <2>1. PoolFrames(created)' = PoolFrames(created) \cup {id}
    BY <1>0, <1>2 DEF PoolFrames
  <2>2. id \notin PoolFrames(created)
    <3>1. \A n \in 1..created : n # created + 1
      BY <1>0
    <3>2. \A n \in 1..created : FrameOf(m_pool, n) # FrameOf(m_pool, created + 1)
      BY <3>1, FrameEqual
    <3> QED BY <1>2, <3>2 DEF PoolFrames
  <2>3. id \in FrameIds /\ id # Empty.frame
    BY <1>0, <1>2, FrameType, RealFrame
  <2>4. Own({id}, {}, HeldBy(samples_frame), QueuedFrames, m_free_queue',
            PoolFrames(created)')
    BY <1>0, <1>2, <2>1, <2>2 DEF Own
  <2>5. created <= Len(m_queue) + 1
    <3> DEFINE held == samples_frame.frame
    <3>1. \A n \in 1..created :
            FrameOf(m_pool, n) = held \/ FrameOf(m_pool, n) \in FramesIn(m_queue)
      BY <1>0, <1>2 DEF Own, PoolFrames, HeldBy, QueuedFrames
    <3> HIDE DEF held
    <3> QED BY <1>0, <3>1, FramesBound
  <2>6. PoolIsBounded'
    BY <1>0, <1>2, <2>5, QueueAssumption, LenProperties
       DEF PoolIsBounded, PeakInFlight
  <2> QED BY <1>0, <1>2, <2>3, <2>4, <2>6
<1> QED BY <1>1, <1>2 DEF Acquire

LEMMA PushDeliveryInv == Inv /\ PushDelivery => Inv'
<1> SUFFICES ASSUME Inv, PushDelivery PROVE Inv'
  OBVIOUS
<1>0. /\ producer = "idle" /\ running
      /\ m_fft_size \in Nat \ {0} /\ m_accumulator \in Handles
      /\ m_free_queue \subseteq FrameIds /\ created \in Nat
      /\ UNCHANGED <<m_fft_size, m_queue, running, mainVars, cleared>>
  BY DEF Inv, TypeOK, CountType, HandleType, PushDelivery
<1>1. PICK count \in 1..m_fft_size :
        /\ delivered' = delivered + count
        /\ \/ /\ m_accumulator # Empty
              /\ Gather(m_accumulator, count)
              /\ UNCHANGED poolVars
           \/ /\ m_accumulator = Empty
              /\ \E id \in m_free_queue \cup {FrameOf(m_pool, created + 1)} :
                   Acquire(id) /\ Gather(FreshHandle(id), count)
  BY DEF PushDelivery
<1>2. CASE /\ m_accumulator # Empty /\ Gather(m_accumulator, count)
           /\ UNCHANGED poolVars
  <2>1. /\ m_accumulator.capacity = m_fft_size
        /\ Len(m_accumulator.samples) < m_fft_size
        /\ m_accumulator.frame # Empty.frame /\ frame = Empty
    BY <1>0, <1>2 DEF Inv, FillInv, HandleInv, ControlInv
  <2>2. Own({m_accumulator.frame}, {}, HeldBy(samples_frame), QueuedFrames,
            m_free_queue, PoolFrames(created))
    BY <2>1, HeldByReal, HeldByEmpty, OwnedIsOneOwner DEF Inv, Owned
  <2>3. PoolFrames(created)' = PoolFrames(created) /\ PoolIsBounded'
    BY <1>2 DEF PoolFrames, Inv, PoolIsBounded
  <2> QED BY <1>0, <1>1, <1>2, <2>1, <2>2, <2>3, GatherInv
<1>3. CASE /\ m_accumulator = Empty
           /\ \E id \in m_free_queue \cup {FrameOf(m_pool, created + 1)} :
                Acquire(id) /\ Gather(FreshHandle(id), count)
  <2>1. PICK id : Acquire(id) /\ Gather(FreshHandle(id), count)
    BY <1>3
  <2>2. /\ id \in FrameIds /\ id # Empty.frame
        /\ m_free_queue' \subseteq FrameIds /\ created' \in Nat
        /\ m_pool' = m_pool
        /\ Own({id}, {}, HeldBy(samples_frame), QueuedFrames,
               m_free_queue', PoolFrames(created)')
        /\ PoolIsBounded'
    BY <1>0, <1>3, <2>1, AcquireOwns, QueueAssumption
  <2>3. /\ FreshHandle(id) \in Handles /\ Len(FreshHandle(id).samples) = 0
        /\ FreshHandle(id).frame = id /\ FreshHandle(id).capacity = m_fft_size
    <3>1. FreshHandle(id).frame = id /\ FreshHandle(id).capacity = m_fft_size
      BY DEF FreshHandle
    <3> QED BY <1>0, <2>2, <3>1, FreshType
  <2>4. Len(FreshHandle(id).samples) < m_fft_size
    BY <1>0, <2>3
  <2> QED BY <1>0, <1>1, <2>1, <2>2, <2>3, <2>4, GatherInv
<1> QED BY <1>1, <1>2, <1>3

LEMMA EnqueueInv == Inv /\ Enqueue => Inv'
<1> SUFFICES ASSUME Inv, Enqueue PROVE Inv'
  OBVIOUS
<1> DEFINE A == HeldBy(m_accumulator)
           S == HeldBy(samples_frame)
           P == PoolFrames(created)
<1>0. /\ PlaceType /\ CountType /\ HandleType /\ ControlInv /\ FillInv /\ HandleInv
      /\ m_free_queue \subseteq FrameIds /\ m_queue \in Seq(Handles)
      /\ producer = "queue" /\ frame \in Handles /\ frame # Empty
      /\ frame.frame # Empty.frame /\ Len(frame.samples) = m_fft_size
      /\ frame' = Empty /\ producer' = "idle" /\ m_pool \in Nat
      /\ UNCHANGED <<m_pool, created, m_fft_size, m_accumulator, running, mainVars,
                     delivered, cleared, unfinished>>
      /\ MAX_SAMPLE_QUEUE_SIZE \in Nat \ {0} /\ m_fft_size \in Nat
  BY QueueAssumption
     DEF Inv, TypeOK, CountType, HandleType, ControlInv, FillInv, HandleInv, Enqueue
<1>1. /\ Distinct(m_queue)
      /\ Own(A, {frame.frame}, S, FramesIn(m_queue), m_free_queue, P)
  BY <1>0, OwnedIsOneOwner, HeldByReal DEF Inv, Owned, QueuedFrames
<1>2. frame.frame \notin FramesIn(m_queue)
  BY <1>1 DEF Own
<1>3. /\ m_queue' \in Seq(Handles) /\ Len(m_queue') <= MAX_SAMPLE_QUEUE_SIZE
      /\ \A i \in DOMAIN m_queue' : Len(m_queue'[i].samples) = m_fft_size
      /\ Distinct(m_queue')
      /\ m_free_queue' \subseteq FrameIds
      /\ Own(A, {}, S, FramesIn(m_queue'), m_free_queue', P)
  <2>1. CASE QueueFull
    <3> DEFINE t == Tail(m_queue)
    <3>1. m_queue # <<>> /\ Len(m_queue) \in Nat \ {0}
      BY <1>0, <2>1, EmptySeq, LenProperties DEF QueueFull
    <3>2. /\ t \in Seq(Handles) /\ Len(t) = Len(m_queue) - 1
          /\ \A i \in 1..Len(t) : t[i] = m_queue[i+1]
      BY <1>0, <3>1, HeadTailProperties
    <3>3. /\ FramesIn(t) = FramesIn(m_queue) \ {Head(m_queue).frame}
          /\ Head(m_queue).frame \in FramesIn(m_queue) /\ Distinct(t)
      BY <1>0, <1>1, <3>1, TailFrames
    <3>4. m_free_queue' = m_free_queue \cup {Head(m_queue).frame}
      <4>1. m_free_queue' = Released({Head(m_queue).frame})
        BY <2>1 DEF Enqueue
      <4>2. {Head(m_queue).frame} \subseteq P
        BY <1>1, <3>3 DEF Own
      <4> QED BY <4>1, <4>2, ReleasedAll
    <3>5. m_queue' = Append(t, frame)
      BY <2>1 DEF Enqueue
    <3>6. \A i \in 1..Len(t) : Len(t[i].samples) = m_fft_size
      <4> DOMAIN m_queue = 1..Len(m_queue)
        BY <1>0, LenProperties
      <4> QED BY <1>0, <3>1, <3>2 DEF FillInv
    <3> HIDE DEF t, A, S, P
    <3>7. /\ FramesIn(m_queue') = FramesIn(t) \cup {frame.frame}
          /\ Distinct(m_queue')
      BY <1>0, <1>2, <3>2, <3>3, <3>5, AppendFrames
    <3>8. Own(A, {}, S, FramesIn(m_queue'), m_free_queue', P)
      BY <1>1, <3>3, <3>4, <3>7 DEF Own
    <3>9. m_free_queue' \subseteq FrameIds
      <4> PoolFrames(created) \subseteq FrameIds
        BY <1>0, PoolFrameType
      <4> QED BY <1>1, <3>8 DEF Own, P
    <3>10. /\ m_queue' \in Seq(Handles) /\ Len(m_queue') = Len(m_queue)
           /\ \A i \in DOMAIN m_queue' : Len(m_queue'[i].samples) = m_fft_size
      <4>1. /\ m_queue' \in Seq(Handles) /\ Len(m_queue') = Len(t) + 1
            /\ DOMAIN m_queue' = 1..Len(t)+1
            /\ \A i \in 1..Len(t) : m_queue'[i] = t[i]
            /\ m_queue'[Len(t)+1] = frame
        BY <1>0, <3>2, <3>5
      <4> QED BY <1>0, <3>1, <3>2, <3>6, <4>1
    <3> QED BY <1>0, <3>7, <3>8, <3>9, <3>10 DEF HandleType
  <2>2. CASE ~QueueFull
    <3>1. m_queue' = Append(m_queue, frame) /\ m_free_queue' = m_free_queue
      BY <2>2 DEF Enqueue
    <3>2. /\ FramesIn(m_queue') = FramesIn(m_queue) \cup {frame.frame}
          /\ Distinct(m_queue')
      BY <1>0, <1>1, <1>2, <3>1, AppendFrames
    <3>3. Len(m_queue) + 1 <= MAX_SAMPLE_QUEUE_SIZE
      BY <1>0, <2>2, LenProperties DEF QueueFull
    <3>4. /\ m_queue' \in Seq(Handles) /\ Len(m_queue') = Len(m_queue) + 1
          /\ DOMAIN m_queue' = 1..Len(m_queue)+1 /\ DOMAIN m_queue = 1..Len(m_queue)
          /\ \A i \in 1..Len(m_queue) : m_queue'[i] = m_queue[i]
          /\ m_queue'[Len(m_queue)+1] = frame
      BY <1>0, <3>1, LenProperties
    <3>5. \A i \in DOMAIN m_queue' : Len(m_queue'[i].samples) = m_fft_size
      BY <1>0, <3>4 DEF FillInv
    <3> HIDE DEF A, S, P
    <3>6. Own(A, {}, S, FramesIn(m_queue'), m_free_queue', P)
      BY <1>1, <3>1, <3>2 DEF Own
    <3> QED BY <1>0, <3>1, <3>2, <3>3, <3>4, <3>5, <3>6
  <2> QED BY <2>1, <2>2
<1>4. TypeOK'
  <2>1. PlaceType'
    BY <1>0 DEF PlaceType
  <2>2. CountType'
    BY <1>0 DEF CountType
  <2>3. HandleType'
    BY <1>0, <1>3, EmptyType DEF HandleType
  <2> QED BY <1>3, <2>1, <2>2, <2>3 DEF TypeOK
<1>5. ControlInv'
  BY <1>0 DEF ControlInv
<1>6. FillInv'
  BY <1>0, <1>3 DEF FillInv
<1>7. HandleInv'
  BY <1>0 DEF HandleInv
<1>8. Owned'
  <2>1. /\ HeldBy(m_accumulator)' = A /\ HeldBy(frame)' = {}
        /\ HeldBy(samples_frame)' = S /\ PoolFrames(created)' = P
        /\ QueuedFrames' = FramesIn(m_queue') /\ Distinct(m_queue)' = Distinct(m_queue')
    BY <1>0, HeldByEmpty DEF HeldBy, PoolFrames, QueuedFrames, FramesIn, Distinct
  <2> QED BY <1>3, <2>1 DEF Owned
<1>9. PoolIsBounded'
  BY <1>0 DEF Inv, PoolIsBounded
<1> QED BY <1>4, <1>5, <1>6, <1>7, <1>8, <1>9, OwnedIsOneOwnerNext DEF Inv

-----------------------------------------------------------------------------
(* Main's steps on frames *)

\* What a step of main does to the queue, the pool and its own frame leaves all
\* else in order: the producer's side of the invariant is kept.
LEMMA MainInv ==
  ASSUME Inv,
         UNCHANGED <<m_pool, created, m_fft_size, m_accumulator, producer, frame,
                     running, current_fft_size, delivered, unfinished>>,
         cleared' \in Nat, rendered' \in Int,
         main \in {"loop", "frame"}, main' \in {"loop", "frame"},
         samples_frame' \in Handles, main' = "frame" <=> samples_frame' # Empty,
         samples_frame' # Empty => /\ samples_frame'.frame # Empty.frame
                                   /\ Len(samples_frame'.samples) = m_fft_size,
         m_queue' = m_queue \/ m_queue' = <<>>,
         Own(HeldBy(m_accumulator), HeldBy(frame), HeldBy(samples_frame'),
             FramesIn(m_queue'), m_free_queue', PoolFrames(created))
  PROVE  Inv'
<1>0. /\ PlaceType /\ CountType /\ HandleType /\ ControlInv /\ FillInv /\ HandleInv
      /\ Distinct(m_queue) /\ m_pool \in Nat
      /\ MAX_SAMPLE_QUEUE_SIZE \in Nat /\ m_queue \in Seq(Handles)
  BY QueueAssumption, OwnedIsOneOwner DEF Inv, TypeOK, CountType, HandleType, Owned
<1>1. m_queue' \in Seq(Handles) /\ Len(m_queue') <= MAX_SAMPLE_QUEUE_SIZE
  <2>1. CASE m_queue' = m_queue
    BY <1>0, <2>1 DEF HandleType
  <2>2. CASE m_queue' = <<>>
    BY <1>0, <2>2, EmptySeq
  <2> QED BY <2>1, <2>2
<1>2. /\ \A i \in DOMAIN m_queue' : Len(m_queue'[i].samples) = m_fft_size
      /\ Distinct(m_queue')
  <2>1. CASE m_queue' = m_queue
    BY <1>0, <2>1 DEF FillInv
  <2>2. CASE m_queue' = <<>>
    BY <2>2, NoFrames, EmptySeq
  <2> QED BY <2>1, <2>2
<1>3. TypeOK'
  <2>1. PlaceType'
    BY <1>0 DEF PlaceType
  <2>2. CountType'
    BY <1>0 DEF CountType
  <2>3. HandleType'
    BY <1>0, <1>1 DEF HandleType
  <2>4. m_free_queue' \subseteq FrameIds
    BY <1>0, PoolFrameType DEF Own
  <2> QED BY <2>1, <2>2, <2>3, <2>4 DEF TypeOK
<1>4. ControlInv'
  BY <1>0 DEF ControlInv
<1>5. FillInv'
  <2>1. current_fft_size = m_fft_size
    BY <1>0 DEF ControlInv
  <2> QED BY <1>0, <1>2, <2>1 DEF FillInv
<1>6. HandleInv'
  BY <1>0 DEF HandleInv
<1>7. Owned'
  <2>1. /\ HeldBy(m_accumulator)' = HeldBy(m_accumulator)
        /\ HeldBy(frame)' = HeldBy(frame)
        /\ HeldBy(samples_frame)' = HeldBy(samples_frame')
        /\ PoolFrames(created)' = PoolFrames(created)
        /\ QueuedFrames' = FramesIn(m_queue') /\ Distinct(m_queue)' = Distinct(m_queue')
    BY DEF HeldBy, PoolFrames, QueuedFrames, FramesIn, Distinct
  <2> QED BY <1>2, <2>1 DEF Owned
<1>8. PoolIsBounded'
  BY DEF Inv, PoolIsBounded
<1> QED BY <1>3, <1>4, <1>5, <1>6, <1>7, <1>8, OwnedIsOneOwnerNext DEF Inv

LEMMA PopNewestInv == Inv /\ PopNewest => Inv'
<1> SUFFICES ASSUME Inv, PopNewest PROVE Inv'
  OBVIOUS
<1> DEFINE last == m_queue[Len(m_queue)]
           A == HeldBy(m_accumulator)
           F == HeldBy(frame)
           P == PoolFrames(created)
<1>0. /\ m_queue \in Seq(Handles) /\ m_queue # <<>> /\ m_pool \in Nat
      /\ Distinct(m_queue) /\ ControlInv /\ FillInv
      /\ Own(A, F, HeldBy(samples_frame), FramesIn(m_queue), m_free_queue, P)
      /\ main = "loop" /\ main' = "frame" /\ cleared \in Nat
      /\ m_fft_size \in Nat \ {0}
  BY OwnedIsOneOwner
     DEF Inv, TypeOK, CountType, HandleType, Owned, QueuedFrames, PopNewest
<1>1. /\ samples_frame' = last /\ m_queue' = <<>>
      /\ rendered' = samples_frame'.samples[Len(samples_frame'.samples)]
      /\ m_free_queue' = Released(Outdated)
      /\ UNCHANGED <<m_pool, created, m_fft_size, m_accumulator, producer, frame,
                     running, current_fft_size, delivered, cleared, unfinished>>
  BY DEF PopNewest, LeftByPop
<1>2. /\ Outdated = FramesIn(m_queue) \ {last.frame}
      /\ last \in Handles /\ last.frame \in FramesIn(m_queue)
  BY <1>0, LastFrame DEF Outdated
<1>3. Len(last.samples) = m_fft_size
  <2> DOMAIN m_queue = 1..Len(m_queue) /\ Len(m_queue) \in Nat \ {0}
    BY <1>0, EmptySeq, LenProperties
  <2> QED BY <1>0 DEF FillInv
<1> HIDE DEF last, A, F, P
<1>4. samples_frame = Empty
  BY <1>0 DEF ControlInv
<1>5. FramesIn(m_queue) \subseteq P /\ Outdated \subseteq P
  BY <1>0, <1>2 DEF Own
<1>6. last.frame # Empty.frame
  BY <1>0, <1>2, <1>5, PoolFrameType DEF P
<1>7. last # Empty
  BY <1>6
<1>8. rendered' \in Int
  <2> last.samples \in Seq(Int)
    BY <1>2 DEF Handles
  <2> QED BY <1>0, <1>1, <1>3, ElementOfSeq
<1>9. m_free_queue' = m_free_queue \cup Outdated
  BY <1>1, <1>5, ReleasedAll DEF P
<1>10. Own(A, F, HeldBy(samples_frame'), FramesIn(m_queue'), m_free_queue', P)
  <2> HeldBy(samples_frame') = {last.frame} /\ HeldBy(samples_frame) = {}
      /\ FramesIn(m_queue') = {}
    BY <1>1, <1>4, <1>6, HeldByReal, HeldByEmpty, NoFrames
  <2> QED BY <1>0, <1>2, <1>9 DEF Own
<1> QED BY <1>0, <1>1, <1>2, <1>3, <1>6, <1>7, <1>8, <1>10, MainInv DEF A, F, P

LEMMA EndOfFrameInv == Inv /\ EndOfFrame => Inv'
<1> SUFFICES ASSUME Inv, EndOfFrame PROVE Inv'
  OBVIOUS
<1> DEFINE A == HeldBy(m_accumulator)
           F == HeldBy(frame)
           P == PoolFrames(created)
<1>0. /\ ControlInv /\ HandleInv /\ cleared \in Nat /\ rendered \in Int
      /\ Own(A, F, HeldBy(samples_frame), FramesIn(m_queue), m_free_queue, P)
      /\ main = "frame" /\ main' = "loop" /\ samples_frame' = Empty
      /\ m_free_queue' = Released({samples_frame.frame})
      /\ UNCHANGED <<m_pool, created, m_fft_size, m_accumulator, m_queue, producer,
                     frame, running, current_fft_size, rendered, delivered, cleared,
                     unfinished>>
  BY OwnedIsOneOwner DEF Inv, TypeOK, CountType, Owned, QueuedFrames, EndOfFrame
<1>1. samples_frame.frame # Empty.frame
  BY <1>0 DEF ControlInv, HandleInv
<1> HIDE DEF A, F, P
<1>2. HeldBy(samples_frame) = {samples_frame.frame} /\ HeldBy(samples_frame') = {}
  BY <1>0, <1>1, HeldByReal, HeldByEmpty
<1>3. {samples_frame.frame} \subseteq P
  BY <1>0, <1>2 DEF Own
<1>4. m_free_queue' = m_free_queue \cup {samples_frame.frame}
  BY <1>0, <1>3, ReleasedAll DEF P
<1>5. Own(A, F, HeldBy(samples_frame'), FramesIn(m_queue'), m_free_queue', P)
  BY <1>0, <1>2, <1>4 DEF Own
<1> QED BY <1>0, <1>5, EmptyType, MainInv DEF A, F, P

LEMMA ClearInv == Inv /\ Clear => Inv'
<1> SUFFICES ASSUME Inv, Clear PROVE Inv'
  OBVIOUS
<1> DEFINE A == HeldBy(m_accumulator)
           F == HeldBy(frame)
           P == PoolFrames(created)
<1>0. /\ ControlInv /\ delivered \in Nat /\ rendered \in Int
      /\ Own(A, F, HeldBy(samples_frame), FramesIn(m_queue), m_free_queue, P)
      /\ main = "loop" /\ m_queue' = <<>> /\ cleared' = delivered
      /\ m_free_queue' = Released(FramesIn(m_queue))
      /\ UNCHANGED <<m_pool, created, m_fft_size, m_accumulator, producer, frame,
                     running, mainVars, delivered, unfinished>>
  BY OwnedIsOneOwner
     DEF Inv, TypeOK, CountType, Owned, QueuedFrames, Clear, LeftByClear
<1>1. samples_frame = Empty
  BY <1>0 DEF ControlInv
<1> HIDE DEF A, F, P
<1>2. FramesIn(m_queue) \subseteq P
  BY <1>0 DEF Own
<1>3. m_free_queue' = m_free_queue \cup FramesIn(m_queue)
  BY <1>0, <1>2, ReleasedAll DEF P
<1>4. Own(A, F, HeldBy(samples_frame'), FramesIn(m_queue'), m_free_queue', P)
  BY <1>0, <1>3, NoFrames DEF Own
<1> QED BY <1>0, <1>1, <1>4, EmptyType, MainInv DEF A, F, P

-----------------------------------------------------------------------------
(* The change of the FFT size *)

\* Steps that touch no frame.
LEMMA SameFrames ==
  ASSUME Inv,
         UNCHANGED <<m_pool, m_free_queue, created, m_accumulator, m_queue, frame,
                     samples_frame>>
  PROVE  EveryFrameHasOneOwner' /\ PoolIsBounded'
BY DEF Inv, EveryFrameHasOneOwner, Carried, QueuedFrames, FramesIn, HeldBy,
       PoolIsBounded

LEMMA SameFramesInv ==
  ASSUME Inv, PushFails \/ PopTimesOut \/ UNCHANGED vars \/ ChangeFftSize
              \/ StopSource \/ StartSource
  PROVE  Inv'
<1> USE DEF vars
<1>1. /\ UNCHANGED <<m_pool, m_free_queue, created, m_fft_size, m_accumulator,
                     m_queue, frame, producer, samples_frame, cleared,
                     unfinished, rendered>>
      /\ PlaceType /\ CountType /\ HandleType /\ ControlInv /\ FillInv /\ HandleInv
      /\ m_free_queue \subseteq FrameIds
  BY DEF Inv, TypeOK, PushFails, PopTimesOut, ChangeFftSize, StopSource, StartSource
<1>2. /\ running' \in BOOLEAN /\ current_fft_size' \in Nat \ {0}
      /\ delivered' \in Nat
      /\ main' \in {"loop", "frame", "stopping", "stopped", "start"}
      /\ samples_frame # Empty => current_fft_size' = current_fft_size
      /\ main' = "frame" <=> main = "frame"
      /\ main' \in {"stopped", "start"} => ~running' /\ producer = "idle"
      /\ main' \notin {"stopping", "stopped"} => current_fft_size' = m_fft_size
  <2>1. CASE PushFails
    BY <1>1, <2>1 DEF PushFails, PlaceType, CountType, ControlInv
  <2>2. CASE ChangeFftSize
    BY <1>1, <2>2, QueueAssumption DEF ChangeFftSize, PlaceType, CountType, ControlInv
  <2>3. CASE StopSource
    BY <1>1, <2>3 DEF StopSource, PlaceType, CountType, ControlInv
  <2>4. CASE StartSource
    BY <1>1, <2>4 DEF StartSource, PlaceType, CountType, ControlInv
  <2>5. CASE PopTimesOut \/ UNCHANGED vars
    BY <1>1, <2>5 DEF PopTimesOut, PlaceType, CountType, ControlInv
  <2> QED BY <2>1, <2>2, <2>3, <2>4, <2>5
<1>3. TypeOK'
  BY <1>1, <1>2 DEF TypeOK, PlaceType, CountType, HandleType
<1>4. ControlInv'
  BY <1>1, <1>2 DEF ControlInv
<1>5. FillInv' /\ HandleInv'
  BY <1>1, <1>2 DEF FillInv, HandleInv
<1> QED BY <1>1, <1>3, <1>4, <1>5, SameFrames DEF Inv

\* reconfigure() runs with the source stopped, so nobody holds a frame but the
\* queue and the accumulator, which it empties before the pool goes.
LEMMA ReconfigureInv == Inv /\ Reconfigure => Inv'
<1> SUFFICES ASSUME Inv, Reconfigure PROVE Inv'
  OBVIOUS
<1>1. /\ PlaceType /\ CountType /\ HandleType /\ ControlInv
      /\ main = "stopped" /\ main' = "start"
      /\ m_queue' = <<>> /\ m_accumulator' = Empty /\ unfinished' = 0
      /\ m_pool' = m_pool + 1 /\ m_free_queue' = NewFrames(m_pool')
      /\ created' = MAIN_FRAME_POOL_FRAMES /\ m_fft_size' = current_fft_size
      /\ UNCHANGED <<producer, frame, running, current_fft_size, samples_frame,
                     rendered, delivered, cleared>>
      /\ MAX_SAMPLE_QUEUE_SIZE \in Nat \ {0} /\ MAIN_FRAME_POOL_FRAMES \in Nat
  BY QueueAssumption DEF Inv, TypeOK, Reconfigure, LeftByReconfigure
<1>2. frame = Empty /\ samples_frame = Empty /\ producer = "idle" /\ ~running
  BY <1>1 DEF ControlInv
<1>3. TypeOK'
  <2>1. PlaceType'
    BY <1>1 DEF PlaceType
  <2>2. CountType'
    BY <1>1 DEF CountType
  <2>3. HandleType'
    BY <1>1, EmptyType, EmptySeq DEF HandleType
  <2>4. m_free_queue' \subseteq FrameIds
    BY <1>1, FrameType DEF NewFrames, CountType
  <2> QED BY <2>1, <2>2, <2>3, <2>4 DEF TypeOK
<1>4. ControlInv'
  BY <1>1, <1>2 DEF ControlInv
<1>5. FillInv' /\ HandleInv'
  BY <1>1, <1>2, EmptySeq DEF FillInv, HandleInv
<1>6. Owned'
  <2>1. /\ HeldBy(m_accumulator)' = {} /\ HeldBy(frame)' = {}
        /\ HeldBy(samples_frame)' = {} /\ QueuedFrames' = {}
        /\ Distinct(m_queue)' /\ PoolFrames(created)' = NewFrames(m_pool')
    BY <1>1, <1>2, HeldByEmpty, NoFrames
       DEF HeldBy, QueuedFrames, FramesIn, Distinct, PoolFrames, NewFrames
  <2> QED BY <1>1, <2>1 DEF Owned, Own
<1>7. PoolIsBounded'
  BY <1>1 DEF PoolIsBounded, PeakInFlight
<1> QED BY <1>3, <1>4, <1>5, <1>6, <1>7, OwnedIsOneOwnerNext DEF Inv

-----------------------------------------------------------------------------
\* The invariant is kept by every step of the producer and of main.
LEMMA NextInv == Inv /\ [Next]_vars => Inv'
<1> SUFFICES ASSUME Inv, [Next]_vars PROVE Inv'
  OBVIOUS
<1>1. CASE PushDelivery
  BY <1>1, PushDeliveryInv
<1>2. CASE Enqueue
  BY <1>2, EnqueueInv
<1>3. CASE PopNewest
  BY <1>3, PopNewestInv
<1>4. CASE EndOfFrame
  BY <1>4, EndOfFrameInv
<1>5. CASE Clear
  BY <1>5, ClearInv
<1>6. CASE Reconfigure
  BY <1>6, ReconfigureInv
<1>7. CASE PushFails \/ PopTimesOut \/ UNCHANGED vars \/ ChangeFftSize
           \/ StopSource \/ StartSource
  BY <1>7, SameFramesInv
<1> QED BY <1>1, <1>2, <1>3, <1>4, <1>5, <1>6, <1>7 DEF Next

\* Inv holds in every reachable state, for every length of the queue, size of
\* the pool and set of FFT sizes.
THEOREM Invariance == Spec => []Inv
<1>1. Init => Inv
  BY InitInv
<1>2. Inv /\ [Next]_vars => Inv'
  BY NextInv
<1> QED BY <1>1, <1>2, PTL DEF Spec

\* Every variable keeps its type and the queue its bound.
THEOREM TypeCorrect == Spec => []TypeOK
<1>1. Inv => TypeOK
  BY DEF Inv
<1> QED BY <1>1, Invariance, PTL

\* A popped frame has the length that main reads of it, also when the FFT size
\* changed since the frame was begun.
THEOREM FrameFits == Spec => []FrameFitsFft
<1>1. Inv => FrameFitsFft
  BY DEF Inv, FillInv, FrameFitsFft
<1> QED BY <1>1, Invariance, PTL

\* The handles move every frame between one owner and the next: none is shared,
\* and none is lost when a pop, a clear, a full queue or a reconfigure drops it.
THEOREM OneOwner == Spec => []EveryFrameHasOneOwner
<1>1. Inv => EveryFrameHasOneOwner
  BY DEF Inv
<1> QED BY <1>1, Invariance, PTL

\* MAIN_FRAME_POOL_FRAMES frames are enough when they are two more than the
\* queue holds; a smaller pool grows to that number at most.
THEOREM PoolBound == Spec => []PoolIsBounded
<1>1. Inv => PoolIsBounded
  BY DEF Inv
<1> QED BY <1>1, Invariance, PTL

-----------------------------------------------------------------------------
(***************************************************************************)
(* The order of the samples in the frames, on top of the ownership and     *)
(* lengths above: a frame is one run of the stream, what is drawn never    *)
(* goes back, a cleared channel shows once more at most, and short         *)
(* deliveries still complete frames.                                       *)
(***************************************************************************)

First(h) == h.samples[1]
Last(h) == h.samples[Len(h.samples)]

\* A run of consecutive samples that fits into its frame.
Run(h) ==
  /\ Len(h.samples) <= h.capacity
  /\ \A k \in 1..Len(h.samples) : h.samples[k] = h.samples[1] + k - 1

RunInv ==
  /\ Run(m_accumulator) /\ Run(frame) /\ Run(samples_frame)
  /\ \A i \in DOMAIN m_queue : Run(m_queue[i])

\* From what was drawn over the queue, oldest first, and push()'s local to the
\* accumulator, every frame ends before the next begins.
QueueOrder ==
  /\ \A i, j \in DOMAIN m_queue : i < j => Last(m_queue[i]) < First(m_queue[j])
  /\ \A i \in DOMAIN m_queue :
       /\ rendered < First(m_queue[i]) /\ Last(m_queue[i]) < delivered
       /\ frame # Empty => Last(m_queue[i]) < First(frame)
       /\ m_accumulator # Empty => Last(m_queue[i]) < First(m_accumulator)
ProducerOrder ==
  /\ frame # Empty => rendered < First(frame) /\ Last(frame) < delivered
  /\ m_accumulator # Empty => /\ rendered < First(m_accumulator)
                              /\ Last(m_accumulator) = delivered - 1
                              /\ Len(m_accumulator.samples) > 0
  /\ rendered < delivered /\ cleared <= delivered
  /\ unfinished <= Len(m_accumulator.samples)

OrderInv == RunInv /\ QueueOrder /\ ProducerOrder /\ AtMostOneStale

-----------------------------------------------------------------------------
LEMMA EmptyRun == Run(Empty) /\ ~Stale(Empty) /\ Len(Empty.samples) = 0
<1>1. Empty.samples = <<>> /\ Empty.capacity = 0
  BY DEF Empty
<1> QED BY <1>1 DEF Run, Stale

\* The ends of a run.
LEMMA RunEnds ==
  ASSUME NEW h \in Handles, Run(h), Len(h.samples) > 0
  PROVE  /\ First(h) \in Int /\ Last(h) \in Int /\ First(h) <= Last(h)
         /\ Last(h) = First(h) + Len(h.samples) - 1
         /\ h.samples # <<>>
<1>1. h.samples \in Seq(Int) /\ Len(h.samples) \in Nat
  BY LenProperties DEF Handles
<1>2. 1 \in 1..Len(h.samples) /\ Len(h.samples) \in 1..Len(h.samples)
  BY <1>1
<1>3. First(h) \in Int
  BY <1>1, <1>2, ElementOfSeq DEF First
<1>4. Last(h) = First(h) + Len(h.samples) - 1
  BY <1>2 DEF Run, First, Last
<1>5. h.samples # <<>>
  BY EmptySeq
<1> QED BY <1>1, <1>3, <1>4, <1>5

\* A delivery appended to the accumulator, or begun in a fresh frame, keeps the
\* run, up to the delivery's end unless the frame is full.
LEMMA GatheredRun ==
  ASSUME NEW h \in Handles, Run(h), NEW count \in Nat \ {0}, delivered \in Nat,
         Len(h.samples) < h.capacity,
         Len(h.samples) = 0 \/ Last(h) = delivered - 1
  PROVE  LET g == [h EXCEPT !.samples = Gathered(h, count)]
         IN  /\ g \in Handles /\ Run(g)
             /\ g.capacity = h.capacity
             /\ Len(g.samples) > Len(h.samples)
             /\ First(g) = IF Len(h.samples) = 0 THEN delivered ELSE First(h)
             /\ Last(g) < delivered + count
             /\ Len(g.samples) < h.capacity => Last(g) = delivered + count - 1
<1> DEFINE take == Minimum(count, h.capacity - Len(h.samples))
           taken == [k \in 1..take |-> delivered + k - 1]
           g == [h EXCEPT !.samples = Gathered(h, count)]
           n == Len(h.samples)
<1>1. h.samples \in Seq(Int) /\ n \in Nat /\ h.capacity \in Nat
  BY LenProperties DEF Handles
<1>2. /\ take \in Nat \ {0} /\ take <= h.capacity - n /\ take <= count
      /\ take < h.capacity - n => take = count
  BY <1>1 DEF Minimum
<1>3. g \in Handles /\ g.capacity = h.capacity /\ Len(g.samples) <= h.capacity
  BY GatheredType
<1>4. g.samples = h.samples \o taken
  BY DEF Gathered, Handles
<1>5. /\ taken \in Seq(Int) /\ Len(taken) = take
      /\ \A k \in 1..take : taken[k] = delivered + k - 1
  <2> HIDE DEF take
  <2>1. \A k \in 1..take : delivered + k - 1 \in Int
    BY <1>2
  <2>2. taken \in Seq(Int)
    BY <1>2, <2>1, IsASeq
  <2>3. DOMAIN taken = 1..take /\ DOMAIN taken = 1..Len(taken) /\ Len(taken) \in Nat
    BY <2>2, LenProperties
  <2> QED BY <2>2, <2>3, <1>2
<1> HIDE DEF taken, take
<1>6. /\ Len(h.samples \o taken) = n + take
      /\ \A k \in 1..n+take : (h.samples \o taken)[k] =
           IF k <= n THEN h.samples[k] ELSE taken[k - n]
  <2> DEFINE s == h.samples
  <2>1. s \in Seq(Int) /\ Len(s) = n
    BY <1>1
  <2> HIDE DEF s
  <2>2. /\ Len(s \o taken) = Len(s) + Len(taken)
        /\ \A k \in 1..Len(s)+Len(taken) : (s \o taken)[k] =
             IF k <= Len(s) THEN s[k] ELSE taken[k - Len(s)]
    <3>1. taken \in Seq(Int)
      BY <1>5
    <3> QED BY ONLY <2>1, <3>1, ConcatProperties
  <2>3. Len(s) + Len(taken) = n + take
    BY <1>5, <2>1
  <2> HIDE DEF n
  <2>4. /\ Len(s \o taken) = n + take
        /\ \A k \in 1..n+take : (s \o taken)[k] =
             IF k <= n THEN s[k] ELSE taken[k - n]
    BY <2>1, <2>2, <2>3
  <2> QED BY <2>4 DEF s
<1> HIDE DEF g
<1>7. /\ Len(g.samples) = n + take
      /\ \A k \in 1..n : g.samples[k] = h.samples[k]
      /\ \A k \in n+1..n+take : g.samples[k] = delivered + (k - n) - 1
  <2>1. \A k \in n+1..n+take : k - n \in 1..take /\ ~(k <= n) /\ k \in 1..n+take
    BY <1>1, <1>2
  <2>2. \A k \in 1..n : k \in 1..n+take /\ k <= n
    BY <1>1, <1>2
  <2> QED BY <1>4, <1>5, <1>6, <2>1, <2>2
<1>8. CASE n = 0
  <2>1. g.samples[1] = delivered /\ Len(g.samples) = take
        /\ \A k \in 1..take : g.samples[k] = delivered + k - 1
    BY <1>2, <1>7, <1>8
  <2>2. Last(g) = delivered + take - 1
    BY <1>2, <2>1 DEF Last
  <2> QED BY <1>1, <1>2, <1>3, <1>8, <2>1, <2>2 DEF Run, First, g
<1>9. CASE n > 0
  <2>1. /\ First(h) \in Int /\ delivered - 1 = First(h) + n - 1
    BY <1>1, <1>9, RunEnds
  <2>2. \A k \in 1..n : g.samples[k] = First(h) + k - 1
    BY <1>7 DEF Run, First
  <2> HIDE DEF n
  <2>3. ASSUME NEW k \in 1..n+take
        PROVE  g.samples[k] = First(h) + k - 1
    <3>1. CASE k <= n
      BY <1>1, <2>2, <3>1
    <3>2. CASE k > n
      <4>1. k \in n+1..n+take
        BY <1>1, <1>2, <3>2
      <4>2. g.samples[k] = delivered + (k - n) - 1
        BY <1>7, <4>1
      <4> QED BY <1>1, <1>2, <2>1, <4>2
    <3> QED BY <1>1, <1>2, <3>1, <3>2
  <2>4. g.samples[1] = First(h) /\ Last(g) = First(h) + (n + take) - 1
    <3>1. 1 \in 1..n /\ n + take \in 1..n+take
      BY <1>1, <1>2, <1>9
    <3>2. g.samples[1] = First(h) + 1 - 1
      BY <2>2, <3>1
    <3>3. g.samples[n + take] = First(h) + (n + take) - 1
      BY <2>3, <3>1
    <3> QED BY <1>7, <2>1, <3>2, <3>3 DEF Last
  <2>5. Run(g) /\ First(g) = First(h)
    BY <1>3, <1>7, <2>3, <2>4 DEF Run, First
  <2>6. /\ Last(g) < delivered + count
        /\ n + take < h.capacity => Last(g) = delivered + count - 1
    <3>1. Last(g) = delivered + take - 1
      BY <1>1, <1>2, <2>1, <2>4
    <3> QED BY <1>1, <1>2, <3>1
  <2>7. n + take > n /\ n # 0
    BY <1>1, <1>2, <1>9
  <2> QED BY <1>3, <1>7, <2>5, <2>6, <2>7 DEF n, g
<1> QED BY <1>1, <1>8, <1>9

-----------------------------------------------------------------------------
LEMMA InitOrder == Init => OrderInv
<1> SUFFICES ASSUME Init PROVE OrderInv
  OBVIOUS
<1>1. /\ m_accumulator = Empty /\ frame = Empty /\ samples_frame = Empty
      /\ m_queue = <<>> /\ DOMAIN m_queue = {}
      /\ delivered = 0 /\ cleared = 0 /\ unfinished = 0 /\ rendered = -1
  BY DEF Init
<1> QED BY <1>1, EmptyRun
        DEF OrderInv, RunInv, QueueOrder, ProducerOrder, AtMostOneStale

\* What the invariants say of the handles, for the steps below.
LEMMA Facts ==
  ASSUME Inv, OrderInv
  PROVE  /\ delivered \in Nat /\ cleared \in Nat /\ unfinished \in Nat
         /\ rendered \in Int /\ m_fft_size \in Nat \ {0}
         /\ m_accumulator \in Handles /\ frame \in Handles
         /\ m_queue \in Seq(Handles) /\ DOMAIN m_queue = 1..Len(m_queue)
         /\ Len(m_queue) \in Nat
         /\ \A i \in 1..Len(m_queue) :
              /\ m_queue[i] \in Handles /\ Run(m_queue[i])
              /\ First(m_queue[i]) \in Int /\ Last(m_queue[i]) \in Int
              /\ First(m_queue[i]) <= Last(m_queue[i])
              /\ m_queue[i].samples # <<>>
         /\ frame # Empty => /\ First(frame) \in Int /\ Last(frame) \in Int
                             /\ First(frame) <= Last(frame)
                             /\ frame.samples # <<>>
         /\ m_accumulator # Empty =>
              /\ First(m_accumulator) \in Int /\ Last(m_accumulator) \in Int
              /\ First(m_accumulator) <= Last(m_accumulator)
         /\ producer = "idle" => frame = Empty
         /\ producer = "queue" => frame # Empty /\ m_accumulator = Empty
<1>1. /\ delivered \in Nat /\ cleared \in Nat /\ unfinished \in Nat
      /\ rendered \in Int /\ m_fft_size \in Nat \ {0}
      /\ m_accumulator \in Handles /\ frame \in Handles
      /\ m_queue \in Seq(Handles)
  BY DEF Inv, TypeOK, CountType, HandleType
<1>2. DOMAIN m_queue = 1..Len(m_queue) /\ Len(m_queue) \in Nat
  BY <1>1, LenProperties
<1>3. ASSUME NEW i \in 1..Len(m_queue)
      PROVE  /\ m_queue[i] \in Handles /\ Run(m_queue[i])
             /\ First(m_queue[i]) \in Int /\ Last(m_queue[i]) \in Int
             /\ First(m_queue[i]) <= Last(m_queue[i])
             /\ m_queue[i].samples # <<>>
  <2>1. m_queue[i] \in Handles
    BY <1>1, <1>2, ElementOfSeq
  <2>2. Run(m_queue[i]) /\ Len(m_queue[i].samples) = m_fft_size
    BY <1>2 DEF OrderInv, RunInv, Inv, FillInv
  <2>3. Len(m_queue[i].samples) > 0
    BY <1>1, <2>2
  <2> QED BY <2>1, <2>2, <2>3, RunEnds
<1>4. ASSUME frame # Empty
      PROVE  /\ First(frame) \in Int /\ Last(frame) \in Int
             /\ First(frame) <= Last(frame) /\ frame.samples # <<>>
  <2>1. Run(frame) /\ Len(frame.samples) = m_fft_size
    BY <1>4 DEF OrderInv, RunInv, Inv, FillInv
  <2>2. Len(frame.samples) > 0
    BY <1>1, <2>1
  <2> QED BY <1>1, <2>1, <2>2, RunEnds
<1>5. ASSUME m_accumulator # Empty
      PROVE  /\ First(m_accumulator) \in Int /\ Last(m_accumulator) \in Int
             /\ First(m_accumulator) <= Last(m_accumulator)
  BY <1>1, <1>5, RunEnds DEF OrderInv, RunInv, ProducerOrder
<1>6. /\ producer = "idle" => frame = Empty
      /\ producer = "queue" => frame # Empty /\ m_accumulator = Empty
  BY DEF Inv, ControlInv
<1> QED BY <1>1, <1>2, <1>3, <1>4, <1>5, <1>6

\* Gather() into the accumulator, or into a frame acquired just now.
LEMMA GatherOrder ==
  ASSUME Inv, OrderInv, producer = "idle",
         NEW h \in Handles, Run(h),
         h.capacity = m_fft_size, Len(h.samples) < m_fft_size,
         \/ h = m_accumulator /\ m_accumulator # Empty
         \/ Len(h.samples) = 0 /\ m_accumulator = Empty,
         NEW count \in 1..m_fft_size, Gather(h, count),
         delivered' = delivered + count,
         UNCHANGED <<m_queue, samples_frame, rendered, cleared>>
  PROVE  OrderInv'
<1> DEFINE g == [h EXCEPT !.samples = Gathered(h, count)]
<1>0. /\ delivered \in Nat /\ cleared \in Nat /\ unfinished \in Nat
      /\ rendered \in Int /\ m_fft_size \in Nat \ {0} /\ count \in Nat \ {0}
      /\ frame = Empty /\ rendered < delivered /\ cleared <= delivered
      /\ RunInv /\ QueueOrder /\ ProducerOrder /\ AtMostOneStale
  BY Facts DEF OrderInv, ProducerOrder
<1>1. /\ g \in Handles /\ Run(g)
      /\ Len(g.samples) > Len(h.samples)
      /\ First(g) = IF Len(h.samples) = 0 THEN delivered ELSE First(h)
      /\ Last(g) < delivered + count
      /\ Len(g.samples) < m_fft_size => Last(g) = delivered + count - 1
  <2>1. Len(h.samples) = 0 \/ Last(h) = delivered - 1
    BY <1>0 DEF ProducerOrder
  <2> QED BY <1>0, <2>1, GatheredRun
<1>2. \/ /\ Len(g.samples) < m_fft_size
         /\ m_accumulator' = g /\ frame' = Empty
         /\ unfinished' = unfinished + 1
      \/ /\ m_accumulator' = Empty /\ frame' = g
         /\ unfinished' = 0
  <2>1. \/ /\ Len(g.samples) < m_fft_size
           /\ m_accumulator' = g /\ UNCHANGED <<frame, producer>>
           /\ unfinished' = unfinished + 1
        \/ /\ m_accumulator' = Empty /\ frame' = g /\ producer' = "queue"
           /\ unfinished' = 0
    BY DEF Gather
  <2> HIDE DEF g
  <2> QED BY <1>0, <2>1
<1> HIDE DEF g
<1>3. /\ Len(h.samples) \in Nat /\ Len(g.samples) \in Nat
      /\ h.samples \in Seq(Int) /\ g.samples \in Seq(Int)
  BY <1>1, LenProperties DEF Handles
<1>4. First(g) \in Int /\ Last(g) \in Int
  BY <1>1, <1>3, RunEnds
<1>5. g # Empty
  BY <1>1, <1>3, EmptyRun
<1>6. /\ rendered < First(g)
      /\ \A i \in DOMAIN m_queue : Last(m_queue[i]) < First(g)
      /\ unfinished <= Len(h.samples)
      /\ Stale(g) => Stale(m_accumulator)
  <2>1. CASE Len(h.samples) = 0
    <3>1. First(g) = delivered
      BY <1>1, <2>1
    <3>2. unfinished <= Len(h.samples)
      BY <1>0, <2>1, EmptyRun DEF ProducerOrder
    <3>3. ~Stale(g)
      BY <1>0, <3>1 DEF Stale, First
    <3> QED BY <1>0, <3>1, <3>2, <3>3 DEF QueueOrder
  <2>2. CASE Len(h.samples) # 0
    <3>1. h = m_accumulator /\ m_accumulator # Empty /\ First(g) = First(h)
      BY <1>1, <2>2
    <3>2. h.samples # <<>>
      BY <2>2
    <3>3. Stale(g) => Stale(m_accumulator)
      BY <3>1, <3>2 DEF Stale, First
    <3> QED BY <1>0, <3>1, <3>3 DEF QueueOrder, ProducerOrder
  <2> QED BY <2>1, <2>2
<1>7. RunInv'
  BY <1>0, <1>1, <1>2, EmptyRun DEF RunInv
<1>8. QueueOrder'
  <2>1. \A i \in DOMAIN m_queue : Last(m_queue[i]) < delivered'
    BY <1>0, Facts DEF QueueOrder
  <2> QED BY <1>0, <1>2, <1>6, <2>1 DEF QueueOrder
<1>9. ProducerOrder'
  <2>1. rendered < delivered' /\ cleared <= delivered'
    BY <1>0
  <2>2. CASE /\ Len(g.samples) < m_fft_size
             /\ m_accumulator' = g /\ frame' = Empty
             /\ unfinished' = unfinished + 1
    <3>0. Len(g.samples) > 0 /\ unfinished + 1 <= Len(g.samples)
      BY ONLY <1>0, <1>1, <1>3, <1>6
    <3>1. /\ Last(g) = delivered' - 1 /\ rendered' < First(g)
          /\ Len(g.samples) > 0
      <4>1. rendered' < First(g)
        BY <1>6
      <4>2. Last(g) = delivered' - 1
        BY <1>0, <1>1, <2>2
      <4> QED BY <3>0, <4>1, <4>2
    <3>2. unfinished' <= Len(g.samples)
      BY <2>2, <3>0
    <3>3. rendered' < delivered' /\ cleared' <= delivered'
      BY <1>0, <2>1
    <3> QED BY <2>2, <3>1, <3>2, <3>3, Zenon DEF ProducerOrder
  <2>3. CASE /\ m_accumulator' = Empty /\ frame' = g
             /\ unfinished' = 0
    BY <1>0, <1>1, <1>6, <2>1, <2>3, EmptyRun DEF ProducerOrder
  <2> QED BY <1>2, <2>2, <2>3
<1>10. AtMostOneStale'
  <2>1. /\ Stale(m_accumulator)' => Stale(m_accumulator)
        /\ Stale(frame)' => Stale(m_accumulator)
        /\ ~(Stale(m_accumulator)' /\ Stale(frame)')
    BY <1>2, <1>6, EmptyRun DEF Stale
  <2>2. \A i \in DOMAIN m_queue : Stale(m_queue[i])' => Stale(m_queue[i])
    BY DEF Stale
  <2> QED BY <1>0, <2>1, <2>2 DEF AtMostOneStale
<1> QED BY <1>7, <1>8, <1>9, <1>10 DEF OrderInv

LEMMA PushOrder == Inv /\ OrderInv /\ PushDelivery => OrderInv'
<1> SUFFICES ASSUME Inv, OrderInv, PushDelivery PROVE OrderInv'
  OBVIOUS
<1>0. /\ producer = "idle" /\ m_accumulator \in Handles
      /\ m_fft_size \in Nat \ {0}
      /\ UNCHANGED <<m_queue, samples_frame, rendered, cleared>>
  BY Facts DEF PushDelivery
<1>1. PICK count \in 1..m_fft_size :
        /\ delivered' = delivered + count
        /\ \/ /\ m_accumulator # Empty
              /\ Gather(m_accumulator, count)
           \/ /\ m_accumulator = Empty
              /\ \E id \in m_free_queue \cup {FrameOf(m_pool, created + 1)} :
                   Gather(FreshHandle(id), count)
  BY DEF PushDelivery
<1>2. CASE m_accumulator # Empty /\ Gather(m_accumulator, count)
  <2>1. /\ m_accumulator.capacity = m_fft_size
        /\ Len(m_accumulator.samples) < m_fft_size /\ Run(m_accumulator)
    BY <1>2 DEF Inv, FillInv, OrderInv, RunInv
  <2> QED BY <1>0, <1>1, <1>2, <2>1, GatherOrder
<1>3. CASE /\ m_accumulator = Empty
           /\ \E id \in m_free_queue \cup {FrameOf(m_pool, created + 1)} :
                Gather(FreshHandle(id), count)
  <2>1. PICK id \in m_free_queue \cup {FrameOf(m_pool, created + 1)} :
          Gather(FreshHandle(id), count)
    BY <1>3
  <2>2. id \in FrameIds
    BY FrameType DEF Inv, TypeOK, CountType
  <2>3. /\ FreshHandle(id) \in Handles /\ Len(FreshHandle(id).samples) = 0
        /\ FreshHandle(id).capacity = m_fft_size
    BY <1>0, <2>2, FreshType DEF FreshHandle
  <2>4. Run(FreshHandle(id)) /\ Len(FreshHandle(id).samples) < m_fft_size
    BY <1>0, <2>3 DEF Run
  <2> QED BY <1>0, <1>1, <1>3, <2>1, <2>3, <2>4, GatherOrder
<1> QED BY <1>1, <1>2, <1>3

LEMMA AppendHandle ==
  ASSUME NEW q \in Seq(Handles), NEW h \in Handles
  PROVE  /\ Append(q, h) \in Seq(Handles) /\ Len(Append(q, h)) = Len(q) + 1
         /\ DOMAIN Append(q, h) = 1..Len(q)+1
         /\ \A i \in 1..Len(q) : Append(q, h)[i] = q[i]
         /\ Append(q, h)[Len(q)+1] = h
OBVIOUS

\* A frame of the channel left is queued into an empty queue only: what was
\* queued before it is older.
LEMMA EnqueueOrder == Inv /\ OrderInv /\ Enqueue => OrderInv'
<1> SUFFICES ASSUME Inv, OrderInv, Enqueue PROVE OrderInv'
  OBVIOUS
<1> DEFINE n == Len(m_queue)
<1>0. /\ m_queue \in Seq(Handles) /\ DOMAIN m_queue = 1..n /\ n \in Nat
      /\ frame \in Handles /\ frame # Empty /\ m_accumulator = Empty
      /\ First(frame) \in Int /\ Last(frame) \in Int /\ First(frame) <= Last(frame)
      /\ frame.samples # <<>> /\ frame' = Empty /\ cleared \in Nat
      /\ \A i \in 1..n : /\ First(m_queue[i]) \in Int /\ Last(m_queue[i]) \in Int
                         /\ First(m_queue[i]) <= Last(m_queue[i])
                         /\ m_queue[i].samples # <<>>
      /\ UNCHANGED <<m_accumulator, samples_frame, rendered, delivered, cleared,
                     unfinished>>
      /\ RunInv /\ QueueOrder /\ ProducerOrder /\ AtMostOneStale
      /\ MAX_SAMPLE_QUEUE_SIZE \in Nat \ {0}
  BY Facts, QueueAssumption DEF Enqueue, OrderInv
<1>1. Stale(frame) => n = 0
  <2>1. SUFFICES ASSUME Stale(frame), n # 0 PROVE FALSE
    OBVIOUS
  <2>2. 1 \in 1..n
    BY <1>0, <2>1
  <2>3. First(m_queue[1]) < First(frame) /\ First(frame) < cleared
    <3>1. Last(m_queue[1]) < First(frame) /\ First(m_queue[1]) <= Last(m_queue[1])
          /\ First(m_queue[1]) \in Int /\ Last(m_queue[1]) \in Int
      BY <1>0, <2>2 DEF QueueOrder
    <3> QED BY <1>0, <2>1, <3>1 DEF Stale, First
  <2>4. First(m_queue[1]) < cleared
    BY <1>0, <2>2, <2>3
  <2>5. Stale(m_queue[1])
    BY <1>0, <2>2, <2>4 DEF Stale, First
  <2> QED BY <1>0, <2>1, <2>2, <2>5 DEF AtMostOneStale
<1>2. PICK k \in {0, 1} :
        /\ k = 1 => n > 0
        /\ m_queue' \in Seq(Handles) /\ DOMAIN m_queue' = 1..(n - k + 1)
        /\ \A i \in 1..(n - k) : i + k \in 1..n /\ m_queue'[i] = m_queue[i + k]
        /\ m_queue'[n - k + 1] = frame
  <2>1. CASE QueueFull
    <3> DEFINE t == Tail(m_queue)
    <3>1. n > 0 /\ m_queue # <<>>
      BY <1>0, <2>1, EmptySeq DEF QueueFull
    <3>2. /\ t \in Seq(Handles) /\ Len(t) = n - 1
          /\ \A i \in 1..Len(t) : t[i] = m_queue[i+1]
      BY <1>0, <3>1, HeadTailProperties
    <3>3. m_queue' = Append(t, frame)
      BY <2>1, Zenon DEF Enqueue
    <3> HIDE DEF t
    <3>4. /\ m_queue' \in Seq(Handles) /\ Len(m_queue') = Len(t) + 1
          /\ DOMAIN m_queue' = 1..Len(t)+1
          /\ \A i \in 1..Len(t) : m_queue'[i] = t[i]
          /\ m_queue'[Len(t)+1] = frame
      BY <1>0, <3>2, <3>3, AppendHandle
    <3>5. n - 1 = Len(t) /\ (n - 1 + 1 = Len(t) + 1)
          /\ \A i \in 1..(n - 1) : i + 1 \in 1..n
      BY <1>0, <3>2
    <3> WITNESS 1 \in {0, 1}
    <3> QED BY <3>1, <3>2, <3>4, <3>5
  <2>2. CASE ~QueueFull
    <3>1. m_queue' = Append(m_queue, frame)
      BY <2>2 DEF Enqueue
    <3>2. /\ m_queue' \in Seq(Handles) /\ DOMAIN m_queue' = 1..n+1
          /\ \A i \in 1..n : m_queue'[i] = m_queue[i]
          /\ m_queue'[n+1] = frame
      BY <1>0, <3>1, AppendHandle
    <3>3. n - 0 = n /\ \A i \in 1..n : i + 0 = i
      BY <1>0
    <3> WITNESS 0 \in {0, 1}
    <3> QED BY <3>2, <3>3
  <2> QED BY <2>1, <2>2
<1> DEFINE m == n - k
<1>3. /\ m \in Nat /\ DOMAIN m_queue' = 1..(m + 1) /\ m_queue'[m + 1] = frame
      /\ \A i \in 1..m : i + k \in DOMAIN m_queue /\ m_queue'[i] = m_queue[i + k]
      /\ k \in Nat
      /\ n = 0 => m = 0
  <2>1. n \in Nat /\ DOMAIN m_queue = 1..n
    BY <1>0
  <2> HIDE DEF n
  <2>2. m \in Nat /\ k \in Nat /\ (n = 0 => m = 0)
    BY <1>2, <2>1
  <2> QED BY <1>2, <2>1, <2>2
<1> HIDE DEF m, n
<1>4. RunInv'
  <2>1. ASSUME NEW i \in DOMAIN m_queue'
        PROVE  Run(m_queue'[i])
    <3>1. i \in 1..m \/ i = m + 1
      BY <1>3
    <3> QED BY <1>0, <1>3, <3>1 DEF RunInv
  <2>2. Run(m_accumulator') /\ Run(frame') /\ Run(samples_frame')
    BY <1>0, EmptyRun DEF RunInv
  <2> QED BY <2>1, <2>2 DEF RunInv, Run
<1>5. QueueOrder'
  <2>1. ASSUME NEW i \in 1..(m + 1), NEW j \in 1..(m + 1), i < j
        PROVE  Last(m_queue'[i]) < First(m_queue'[j])
    <3>1. i \in 1..m /\ i + k < j + k
      BY <1>3, <2>1
    <3>2. CASE j \in 1..m
      BY <1>0, <1>3, <3>1, <3>2 DEF QueueOrder
    <3>3. CASE j = m + 1
      BY <1>0, <1>3, <3>1, <3>3 DEF QueueOrder
    <3> QED BY <1>3, <3>2, <3>3
  <2>2. ASSUME NEW i \in 1..(m + 1)
        PROVE  rendered < First(m_queue'[i]) /\ Last(m_queue'[i]) < delivered
    <3>1. CASE i \in 1..m
      BY <1>0, <1>3, <3>1 DEF QueueOrder
    <3>2. CASE i = m + 1
      BY <1>0, <1>3, <3>2 DEF ProducerOrder
    <3> QED BY <1>3, <3>1, <3>2
  <2>3. /\ \A i, j \in DOMAIN m_queue' : i < j => Last(m_queue'[i]) < First(m_queue'[j])
        /\ \A i \in DOMAIN m_queue' :
             rendered < First(m_queue'[i]) /\ Last(m_queue'[i]) < delivered
    BY <1>3, <2>1, <2>2
  <2> QED BY <1>0, <2>3 DEF QueueOrder, First, Last
<1>6. ProducerOrder'
  BY <1>0 DEF ProducerOrder
<1>7. AtMostOneStale'
  <2>1. ~Stale(frame)' /\ ~Stale(m_accumulator)'
    BY <1>0, EmptyRun DEF Stale
  <2>2. ASSUME NEW i \in 1..(m + 1), Stale(m_queue[i])'
        PROVE  i = 1
    <3>1. m_queue'[i].samples # <<>> /\ m_queue'[i].samples[1] < cleared
      BY <1>0, <2>2 DEF Stale
    <3>2. CASE i \in 1..m
      <4>1. Stale(m_queue[i + k]) /\ i + k \in DOMAIN m_queue
        BY <1>3, <3>1, <3>2 DEF Stale
      <4>2. i + k = 1
        BY <1>0, <4>1 DEF AtMostOneStale
      <4> QED BY <1>3, <3>2, <4>2
    <3>3. CASE i = m + 1
      <4>1. Stale(frame)
        BY <1>3, <3>1, <3>3 DEF Stale
      <4> QED BY <1>1, <1>3, <3>3, <4>1
    <3> QED BY <1>3, <3>2, <3>3
  <2> QED BY <1>3, <2>1, <2>2 DEF AtMostOneStale
<1> QED BY <1>4, <1>5, <1>6, <1>7 DEF OrderInv

LEMMA PopOrder == Inv /\ OrderInv /\ PopNewest => OrderInv'
<1> SUFFICES ASSUME Inv, OrderInv, PopNewest PROVE OrderInv'
  OBVIOUS
<1> DEFINE n == Len(m_queue)
<1>0. /\ n \in DOMAIN m_queue
      /\ samples_frame' = m_queue[n] /\ rendered' = Last(m_queue[n])
      /\ m_queue' = <<>>
      /\ UNCHANGED <<m_accumulator, frame, delivered, cleared, unfinished>>
  BY Facts, EmptySeq DEF PopNewest, LeftByPop, Last
<1> HIDE DEF n
<1>1. RunInv'
  BY <1>0 DEF OrderInv, RunInv, Run
<1>2. QueueOrder'
  BY <1>0 DEF QueueOrder
<1>3. ProducerOrder'
  BY <1>0 DEF OrderInv, QueueOrder, ProducerOrder, First, Last
<1>4. AtMostOneStale'
  BY <1>0 DEF OrderInv, AtMostOneStale, Stale
<1> QED BY <1>1, <1>2, <1>3, <1>4 DEF OrderInv

\* clear() leaves one frame of the channel left at most: push() fills either its
\* local or the accumulator.
LEMMA ClearOrder == Inv /\ OrderInv /\ Clear => OrderInv'
<1> SUFFICES ASSUME Inv, OrderInv, Clear PROVE OrderInv'
  OBVIOUS
<1>0. /\ m_queue' = <<>> /\ cleared' = delivered /\ delivered \in Nat
      /\ UNCHANGED <<m_accumulator, frame, samples_frame, rendered, delivered,
                     unfinished>>
      /\ m_accumulator = Empty \/ frame = Empty
  BY Facts DEF Clear, LeftByClear, Inv, TypeOK, PlaceType
<1>1. RunInv' /\ QueueOrder'
  BY <1>0 DEF OrderInv, RunInv, QueueOrder, Run
<1>2. ProducerOrder'
  BY <1>0 DEF OrderInv, ProducerOrder, First, Last
<1>3. AtMostOneStale'
  BY <1>0, EmptyRun DEF AtMostOneStale, Stale
<1> QED BY <1>1, <1>2, <1>3 DEF OrderInv

\* The steps that fill no frame and take none off the queue.
LEMMA OtherOrder ==
  ASSUME Inv, OrderInv,
         PushFails \/ PopTimesOut \/ EndOfFrame \/ ChangeFftSize \/ StopSource
           \/ Reconfigure \/ StartSource \/ UNCHANGED vars
  PROVE  OrderInv'
<1>0. /\ delivered \in Nat /\ delivered' \in Nat /\ delivered <= delivered'
      /\ m_accumulator # Empty => delivered' = delivered
      /\ m_queue' \in {m_queue, <<>>}
      /\ \/ m_accumulator' = m_accumulator /\ unfinished' = unfinished
         \/ m_accumulator' = Empty /\ unfinished' = 0
      /\ frame' = frame /\ samples_frame' \in {samples_frame, Empty}
      /\ UNCHANGED <<rendered, cleared>>
  <2>0. delivered \in Nat /\ m_fft_size \in Nat
    BY Facts
  <2>1. CASE PushFails
    <3>1. PICK count \in 1..m_fft_size : delivered' = delivered + count
      BY <2>1 DEF PushFails
    <3>2. delivered' \in Nat /\ delivered <= delivered'
      BY <2>0, <3>1
    <3> QED BY <2>0, <2>1, <3>2 DEF PushFails
  <2>2. CASE Reconfigure
    BY <2>0, <2>2 DEF Reconfigure, LeftByReconfigure
  <2>3. CASE PopTimesOut \/ EndOfFrame \/ ChangeFftSize
    BY <2>0, <2>3 DEF PopTimesOut, EndOfFrame, ChangeFftSize, vars
  <2>4. CASE StopSource \/ StartSource \/ UNCHANGED vars
    BY <2>0, <2>4 DEF StopSource, StartSource, vars
  <2> QED BY <2>1, <2>2, <2>3, <2>4
<1>1. RunInv'
  <2>1. Run(m_accumulator') /\ Run(frame') /\ Run(samples_frame')
    BY <1>0, EmptyRun DEF OrderInv, RunInv
  <2>2. \A i \in DOMAIN m_queue' : Run(m_queue'[i])
    BY <1>0 DEF OrderInv, RunInv
  <2> QED BY <2>1, <2>2 DEF RunInv, Run
<1>2. QueueOrder'
  <2>1. ASSUME NEW i \in DOMAIN m_queue'
        PROVE  /\ m_queue' = m_queue /\ i \in DOMAIN m_queue
               /\ Last(m_queue[i]) < delivered'
    <3>1. m_queue' = m_queue /\ i \in DOMAIN m_queue
      BY <1>0
    <3>2. Last(m_queue[i]) < delivered /\ Last(m_queue[i]) \in Int
      BY <3>1, Facts DEF OrderInv, QueueOrder
    <3> QED BY <1>0, <3>1, <3>2
  <2> QED BY <1>0, <2>1 DEF OrderInv, QueueOrder, First, Last
<1>3. ProducerOrder'
  <2>1. frame' # Empty => rendered' < First(frame') /\ Last(frame') < delivered'
    BY <1>0, Facts DEF OrderInv, ProducerOrder
  <2>2. m_accumulator' # Empty => /\ rendered' < First(m_accumulator')
                                 /\ Last(m_accumulator') = delivered' - 1
                                 /\ Len(m_accumulator'.samples) > 0
    BY <1>0 DEF OrderInv, ProducerOrder
  <2>3. rendered' < delivered' /\ cleared' <= delivered'
    BY <1>0, Facts DEF OrderInv, ProducerOrder
  <2>4. unfinished' <= Len(m_accumulator'.samples)
    BY <1>0, EmptyRun DEF OrderInv, ProducerOrder
  <2> QED BY <2>1, <2>2, <2>3, <2>4 DEF ProducerOrder, First, Last
<1>4. AtMostOneStale'
  <2>1. Stale(m_accumulator)' => Stale(m_accumulator)
    BY <1>0, EmptyRun DEF Stale
  <2>2. Stale(frame)' => Stale(frame)
    BY <1>0 DEF Stale
  <2>3. ASSUME NEW i \in DOMAIN m_queue', Stale(m_queue[i])'
        PROVE  i \in DOMAIN m_queue /\ Stale(m_queue[i])
    BY <1>0, <2>3 DEF Stale
  <2> QED BY <2>1, <2>2, <2>3 DEF OrderInv, AtMostOneStale
<1> QED BY <1>1, <1>2, <1>3, <1>4 DEF OrderInv

LEMMA OrderStep == Inv /\ OrderInv /\ [Next]_vars => OrderInv'
BY PushOrder, EnqueueOrder, PopOrder, ClearOrder, OtherOrder DEF Next

LEMMA OrderInvariance == Spec => [](Inv /\ OrderInv)
<1>1. Init => Inv /\ OrderInv
  BY InitInv, InitOrder
<1>2. Inv /\ OrderInv /\ [Next]_vars => (Inv /\ OrderInv)'
  BY NextInv, OrderStep
<1> QED BY <1>1, <1>2, PTL DEF Spec

-----------------------------------------------------------------------------
(* The theorems. *)

\* push() never writes past a frame's end, and never a gap into one, whatever
\* lengths the source delivers and whatever is lost between two frames.
THEOREM FramesAreRuns == Spec => []FramesAreConsecutive
<1>1. Inv /\ OrderInv => FramesAreConsecutive
  <2> SUFFICES ASSUME Inv, OrderInv PROVE FramesAreConsecutive
    OBVIOUS
  <2>1. ASSUME NEW h \in Handles, Run(h)
        PROVE  Len(h.samples) <= h.capacity /\ Consecutive(h.samples)
    <3>1. h.samples \in Seq(Int) /\ Len(h.samples) \in Nat
      BY <2>1, LenProperties DEF Handles
    <3>2. ASSUME NEW k \in 2..Len(h.samples)
          PROVE  h.samples[k] = h.samples[k-1] + 1
      <4>1. k \in 1..Len(h.samples) /\ k - 1 \in 1..Len(h.samples)
            /\ 1 \in 1..Len(h.samples)
        BY <3>1, <3>2
      <4>2. h.samples[k] = h.samples[1] + k - 1
        BY <2>1, <4>1 DEF Run
      <4>3. h.samples[k-1] = h.samples[1] + (k - 1) - 1
        BY <2>1, <4>1 DEF Run
      <4>4. h.samples[1] \in Int /\ k \in Int
        BY <3>1, <4>1, ElementOfSeq
      <4> QED BY <4>2, <4>3, <4>4
    <3> QED BY <2>1, <3>2 DEF Run, Consecutive
  <2>2. \A h \in {m_accumulator, frame, samples_frame} \cup
                 {m_queue[i] : i \in DOMAIN m_queue} : h \in Handles /\ Run(h)
    BY ElementOfSeq DEF OrderInv, RunInv, Inv, TypeOK, HandleType
  <2> QED BY <2>1, <2>2 DEF FramesAreConsecutive
<1> QED BY OrderInvariance, <1>1, PTL

\* After clear() for a new channel at most one frame holds samples pushed before.
THEOREM OneStaleFrame == Spec => []AtMostOneStale
<1>1. OrderInv => AtMostOneStale
  BY DEF OrderInv
<1> QED BY OrderInvariance, <1>1, PTL

\* push() completes a frame within m_fft_size deliveries, however short.
THEOREM FramesComplete == Spec => []FramesKeepComing
<1>1. Inv /\ OrderInv => FramesKeepComing
  <2> SUFFICES ASSUME Inv, OrderInv PROVE FramesKeepComing
    OBVIOUS
  <2>1. unfinished <= Len(m_accumulator.samples) /\ unfinished \in Nat
        /\ m_fft_size \in Nat \ {0}
    BY Facts DEF OrderInv, ProducerOrder
  <2>2. Len(m_accumulator.samples) < m_fft_size
    BY <2>1, EmptyRun DEF Inv, FillInv
  <2>3. Len(m_accumulator.samples) \in Nat
    BY LenProperties DEF Inv, TypeOK, HandleType, Handles
  <2> QED BY <2>1, <2>2, <2>3 DEF FramesKeepComing
<1> QED BY OrderInvariance, <1>1, PTL

\* pop_newest() returns a frame that begins after the end of the last one, over
\* full queues, clears and changes of the FFT size.
THEOREM DrawnForwards == Spec => NeverBackwards
<1>1. Inv /\ OrderInv /\ [Next]_vars =>
        [(samples_frame' # samples_frame /\ samples_frame' # Empty) =>
            samples_frame'.samples[1] > rendered]_vars
  <2> SUFFICES ASSUME Inv, OrderInv, Next,
                      samples_frame' # samples_frame, samples_frame' # Empty
               PROVE  samples_frame'.samples[1] > rendered
    OBVIOUS
  <2>1. PopNewest
    BY DEF Next, PushDelivery, PushFails, Enqueue, PopTimesOut, EndOfFrame, Clear,
           ChangeFftSize, StopSource, Reconfigure, StartSource, vars
  <2>2. Len(m_queue) \in DOMAIN m_queue
    BY <2>1, Facts, EmptySeq DEF PopNewest
  <2>3. rendered < First(m_queue[Len(m_queue)])
    BY <2>2 DEF OrderInv, QueueOrder
  <2>4. First(m_queue[Len(m_queue)]) \in Int /\ rendered \in Int
    BY <2>2, Facts
  <2> QED BY <2>1, <2>3, <2>4 DEF PopNewest, First
<1> QED BY OrderInvariance, <1>1, PTL DEF Spec, NeverBackwards
=============================================================================
