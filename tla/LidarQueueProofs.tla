-------------------------- MODULE LidarQueueProofs --------------------------
(***************************************************************************)
(* What TLAPS proves of LidarQueue, for any ring size and index width.     *)
(***************************************************************************)
EXTENDS LidarQueue, TLAPS

(* The size is positive and the indices wrap at a multiple of it. *)
LEMMA Sizes == Size \in Nat \ {0} /\ Wrap \in Nat /\ Wrap > Size
<1>1. PICK k \in 2..Wrap : Wrap = k * Size
  BY QueueAssumption
<1>2. Size \in Nat \ {0} /\ Wrap \in Nat /\ k \in Nat /\ k >= 2
  BY QueueAssumption
<1>3. k * Size >= 2 * Size
  BY <1>2
<1> QED  BY <1>1, <1>2, <1>3

(* Two numbers with the same remainder differ by a multiple. *)
LEMMA SameSlot ==
  ASSUME NEW i \in Nat, NEW j \in Nat, SlotOf(i) = SlotOf(j)
  PROVE  \E m \in Int : i - j = m * Size
<1>1. Size \in Nat \ {0}
  BY Sizes
<1>2. /\ i = Size * (i \div Size) + (i % Size) /\ i \div Size \in Int
      /\ j = Size * (j \div Size) + (j % Size) /\ j \div Size \in Int
      /\ i % Size \in Int /\ j % Size \in Int
  BY <1>1
<1> DEFINE a == i \div Size
           b == j \div Size
<1>3. i - j = (a - b) * Size
  BY <1>1, <1>2 DEF SlotOf
<1> QED  BY <1>2, <1>3

(* A multiple of Size is not strictly between 0 and Size. *)
LEMMA NoMultipleBetween ==
  ASSUME NEW m \in Int, 0 < m * Size
  PROVE  m * Size >= Size
<1>1. Size \in Nat \ {0}
  BY Sizes
<1>2. CASE m <= 0
  BY <1>1, <1>2
<1>3. CASE m >= 1
  BY <1>1, <1>3
<1> QED  BY <1>2, <1>3

(* Masked indices that are fewer than Size packets apart are different     *)
(* slots, although the indices wrap.                                       *)
LEMMA SlotsDiffer ==
  ASSUME rd \in Indices, wr \in Indices,
         0 < QueueUsedSize, QueueUsedSize < Size
  PROVE  SlotOf(wr) # SlotOf(rd)
<1> SUFFICES ASSUME SlotOf(wr) = SlotOf(rd) PROVE FALSE
  OBVIOUS
<1>1. Size \in Nat \ {0} /\ Wrap \in Nat /\ rd \in Nat /\ wr \in Nat
  BY Sizes DEF Indices
<1>2. PICK m \in Int : wr - rd = m * Size
  BY <1>1, SameSlot
<1>3. PICK k \in Int : Wrap = k * Size
  BY QueueAssumption
<1>4. \E n \in Int : QueueUsedSize = n * Size
  <2>1. CASE wr >= rd
    BY <1>2, <2>1 DEF QueueUsedSize
  <2>2. CASE ~(wr >= rd)
    <3>1. m * Size + k * Size = (m + k) * Size
      BY <1>1
    <3>2. QueueUsedSize = (m + k) * Size
      BY <1>1, <1>2, <1>3, <2>2, <3>1 DEF QueueUsedSize
    <3> QED  BY <3>2
  <2> QED  BY <2>1, <2>2
<1> QED  BY <1>1, <1>4, NoMultipleBetween

-----------------------------------------------------------------------------
(* What each thread knows while its access to the indices is to come: the  *)
(* slot it uses is the one its index names, and the other thread can only  *)
(* have made more room, or more packets, since it looked.                  *)
PushInv ==
  "index" \in stores => QueueUsedSize < Size /\ putAt = SlotOf(wr)

PopInv ==
  "index" \in loads => QueueUsedSize > 0 /\ takeAt = SlotOf(rd)

(* Where accesses are ordered, the index comes last. *)
IndexLast ==
  ordered => /\ stores # {} => "index" \in stores
             /\ loads # {} => "index" \in loads

RingInv ==
  /\ TypeOK
  /\ QueueUsedSize <= Size
  /\ PushInv /\ PopInv /\ IndexLast
  /\ ~storage => stores = {} /\ loads = {}

LEMMA RingInit == Init => RingInv
<1> SUFFICES ASSUME Init PROVE RingInv
  OBVIOUS
<1>0. Filled(Empty) \in Contents /\ 0 \in Indices /\ 0 \in Slots
  BY Sizes DEF Filled, Contents, Indices, Slots
<1>1. TypeOK
  BY <1>0 DEF Init, TypeOK
<1>2. QueueUsedSize = 0
  BY DEF Init, QueueUsedSize
<1> QED
  BY <1>1, <1>2, Sizes DEF Init, RingInv, PushInv, PopInv, IndexLast

(* A masked index is a slot. *)
LEMMA SlotTyped == ASSUME NEW i \in Indices PROVE SlotOf(i) \in Slots
BY Sizes DEF SlotOf, Slots, Indices

(* How an index that advances changes the number of packets. *)
LEMMA WriteAdvances ==
  ASSUME rd \in Indices, wr \in Indices, QueueUsedSize < Size,
         wr' = After(wr), rd' = rd
  PROVE  wr' \in Indices /\ QueueUsedSize' = QueueUsedSize + 1
BY Sizes DEF Indices, After, QueueUsedSize

LEMMA ReadAdvances ==
  ASSUME rd \in Indices, wr \in Indices, QueueUsedSize > 0,
         rd' = After(rd), wr' = wr
  PROVE  rd' \in Indices /\ QueueUsedSize' = QueueUsedSize - 1
BY Sizes DEF Indices, After, QueueUsedSize

LEMMA UsedTyped ==
  ASSUME rd \in Indices, wr \in Indices
  PROVE  QueueUsedSize \in Nat
BY Sizes DEF Indices, QueueUsedSize

(* Every step keeps the ring's invariant. *)
LEMMA RingStep == RingInv /\ [Next]_vars => RingInv'
<1> SUFFICES ASSUME RingInv, [Next]_vars PROVE RingInv'
  OBVIOUS
<1> USE DEF queueVars, pushVars, popVars
<1>0. /\ TypeOK /\ QueueUsedSize <= Size /\ PushInv /\ PopInv /\ IndexLast
      /\ ~storage => stores = {} /\ loads = {}
      /\ QueueUsedSize \in Nat /\ rd \in Indices /\ wr \in Indices
  BY UsedTyped DEF RingInv, TypeOK
<1>1. CASE InitQueue
  <2>1. QueueUsedSize' = 0
    BY <1>1 DEF InitQueue, QueueUsedSize
  <2>2. TypeOK'
    BY <1>0, <1>1, Sizes
    DEF InitQueue, TypeOK, Filled, Contents, Indices, Slots
  <2> QED
    BY <1>0, <1>1, <2>1, <2>2, Sizes
    DEF InitQueue, RingInv, PushInv, PopInv, IndexLast
<1>2. ASSUME NEW p \in Packets, StartPush(p) PROVE RingInv'
  <2>1. QueueUsedSize' = QueueUsedSize /\ QueueUsedSize < Size
    BY <1>0, <1>2, Sizes DEF StartPush, QueueUsedSize, QueueIsFull
  <2>2. TypeOK'
    BY <1>0, <1>2, SlotTyped DEF StartPush, TypeOK, Accesses
  <2> QED
    BY <1>0, <1>2, <2>1, <2>2
    DEF StartPush, RingInv, PushInv, PopInv, IndexLast, Accesses, SlotOf
<1>3. ASSUME NEW a \in stores, Store(a) PROVE RingInv'
  <2>1. CASE a = "index"
    <3>1. wr' \in Indices /\ QueueUsedSize' = QueueUsedSize + 1
      BY <1>0, <1>3, <2>1, WriteAdvances DEF Store, PushInv
    <3>2. TypeOK'
      BY <1>0, <1>3, <2>1, <3>1 DEF Store, TypeOK
    <3>3. "index" \notin stores' /\ (ordered => stores' = {})
      BY <1>3, <2>1 DEF Store, InOrder
    <3>4. QueueUsedSize < Size
      BY <1>0, <1>3, <2>1 DEF PushInv
    <3> QED
      BY <1>0, <1>3, <2>1, <3>1, <3>2, <3>3, <3>4, Sizes
      DEF Store, RingInv, PushInv, PopInv, IndexLast, SlotOf
  <2>2. CASE a # "index"
    <3>1. QueueUsedSize' = QueueUsedSize
      BY <1>3, <2>2 DEF Store, QueueUsedSize
    <3>2. slot' \in [Slots -> Contents]
      <4>1. a \in Fields
        BY <1>0, <2>2 DEF TypeOK, Accesses
      <4>2. [slot[putAt] EXCEPT ![a] = packet] \in Contents
        BY <1>0, <4>1 DEF TypeOK, Contents
      <4> QED  BY <1>0, <1>3, <2>2, <4>2 DEF Store, TypeOK
    <3>3. TypeOK'
      BY <1>0, <1>3, <2>2, <3>2 DEF Store, TypeOK
    <3>4. "index" \in stores' <=> "index" \in stores
      BY <1>3, <2>2 DEF Store
    <3>5. storage' = storage /\ storage
      BY <1>0, <1>3 DEF Store
    <3> QED
      BY <1>0, <1>3, <2>2, <3>1, <3>3, <3>4, <3>5
      DEF Store, RingInv, PushInv, PopInv, IndexLast, InOrder, SlotOf
  <2> QED  BY <2>1, <2>2
<1>4. CASE StartPop
  <2>1. QueueUsedSize' = QueueUsedSize /\ QueueUsedSize > 0
    BY <1>0, <1>4, Sizes
    DEF StartPop, QueueUsedSize, QueueIsEmpty, Indices
  <2>2. TypeOK'
    BY <1>0, <1>4, SlotTyped DEF StartPop, TypeOK, Accesses
  <2> QED
    BY <1>0, <1>4, <2>1, <2>2
    DEF StartPop, RingInv, PushInv, PopInv, IndexLast, Accesses, SlotOf
<1>5. ASSUME NEW a \in loads, Load(a) PROVE RingInv'
  <2>1. pkg' \in Contents /\ out' \in Contents
    <3>1. pkg' \in Contents
      <4>1. CASE a = "index"
        BY <1>0, <1>5, <4>1 DEF Load, TypeOK
      <4>2. CASE a # "index"
        <5>1. a \in Fields
          BY <1>0, <4>2 DEF TypeOK, Accesses
        <5>2. slot[takeAt][a] \in Packets \cup {Empty}
          BY <1>0, <5>1 DEF TypeOK, Contents
        <5> QED  BY <1>0, <1>5, <4>2, <5>2 DEF Load, TypeOK, Contents
      <4> QED  BY <4>1, <4>2
    <3> QED  BY <1>0, <1>5, <3>1 DEF Load, TypeOK
  <2>2. CASE a = "index"
    <3>1. rd' \in Indices /\ QueueUsedSize' = QueueUsedSize - 1
      BY <1>0, <1>5, <2>2, ReadAdvances DEF Load, PopInv
    <3>2. TypeOK'
      BY <1>0, <1>5, <2>1, <2>2, <3>1 DEF Load, TypeOK
    <3>3. "index" \notin loads' /\ (ordered => loads' = {})
      BY <1>5, <2>2 DEF Load, InOrder
    <3>4. UNCHANGED <<ordered, storage, wr, stores, putAt>> /\ storage
      BY <1>0, <1>5 DEF Load
    <3>5. PushInv' /\ PopInv' /\ IndexLast'
      BY <1>0, <3>1, <3>3, <3>4, Sizes DEF PushInv, PopInv, IndexLast, SlotOf
    <3> QED
      BY <1>0, <3>1, <3>2, <3>4, <3>5, Sizes DEF RingInv
  <2>3. CASE a # "index"
    <3>1. QueueUsedSize' = QueueUsedSize
      BY <1>5, <2>3 DEF Load, QueueUsedSize
    <3>2. TypeOK'
      BY <1>0, <1>5, <2>1, <2>3 DEF Load, TypeOK
    <3>3. "index" \in loads' <=> "index" \in loads
      BY <1>5, <2>3 DEF Load
    <3>4. storage' = storage /\ storage
      BY <1>0, <1>5 DEF Load
    <3> QED
      BY <1>0, <1>5, <2>3, <3>1, <3>2, <3>3, <3>4
      DEF Load, RingInv, PushInv, PopInv, IndexLast, InOrder, SlotOf
  <2> QED  BY <2>2, <2>3
<1>6. CASE UNCHANGED vars
  BY <1>0, <1>6
  DEF vars, RingInv, TypeOK, PushInv, PopInv, IndexLast, QueueUsedSize, SlotOf
<1> QED
  BY <1>1, <1>2, <1>3, <1>4, <1>5, <1>6 DEF Next, Push, FinishPush, Pop

(* Every variable keeps its type: indices stay in their width, and both    *)
(* threads stay inside the ring.                                           *)
THEOREM TypeCorrect == Spec => []TypeOK
<1>1. RingInv => TypeOK
  BY DEF RingInv
<1> QED  BY RingInit, RingStep, <1>1, PTL DEF Spec

(* The ring never holds more packets than slots, ordered accesses or not.  *)
THEOREM Bounded == Spec => []NeverOverfull
<1>1. RingInv => NeverOverfull
  BY Sizes, UsedTyped DEF RingInv, PushInv, NeverOverfull, TypeOK
<1> QED  BY RingInit, RingStep, <1>1, PTL DEF Spec

(* Where accesses are ordered, the threads are never in the same slot, for *)
(* every ring size and index width.                                        *)
THEOREM Apart == Spec => []SlotsApart
<1>1. RingInv => SlotsApart
  <2> SUFFICES ASSUME RingInv, ordered,
                      stores \cap Fields # {}, loads \cap Fields # {}
               PROVE  putAt # takeAt
    BY DEF SlotsApart
  <2>1. "index" \in stores /\ "index" \in loads
    BY DEF RingInv, IndexLast
  <2>2. /\ QueueUsedSize > 0 /\ QueueUsedSize < Size
        /\ putAt = SlotOf(wr) /\ takeAt = SlotOf(rd)
    BY <2>1 DEF RingInv, PushInv, PopInv
  <2> QED  BY <2>2, SlotsDiffer DEF RingInv, TypeOK
<1> QED  BY RingInit, RingStep, <1>1, PTL DEF Spec

-----------------------------------------------------------------------------
(* Once around, an index names the same slot. *)
LEMMA WrapAway == ASSUME NEW i \in Nat PROVE SlotOf(i + Wrap) = SlotOf(i)
<1>1. PICK k \in Nat : Wrap = k * Size
  BY QueueAssumption
<1>2. Size \in Nat \ {0} /\ Wrap \in Nat
  BY Sizes
<1> DEFINE q == i \div Size
           r == i % Size
           q2 == (i + Wrap) \div Size
           r2 == (i + Wrap) % Size
<1>3. /\ i = Size * q + r /\ q \in Int /\ r \in 0..(Size - 1)
      /\ i + Wrap = Size * q2 + r2 /\ q2 \in Int /\ r2 \in 0..(Size - 1)
  BY <1>2
<1> HIDE DEF q, r, q2, r2
<1>4. r - r2 = (q2 - q - k) * Size /\ r2 - r = (q + k - q2) * Size
  BY <1>1, <1>2, <1>3
<1>5. r = r2
  <2>1. ~(0 < (q2 - q - k) * Size)
    BY <1>2, <1>3, <1>4, NoMultipleBetween
  <2>2. ~(0 < (q + k - q2) * Size)
    BY <1>2, <1>3, <1>4, NoMultipleBetween
  <2> QED
    BY <1>3, <1>4, <2>1, <2>2
<1> QED
  BY <1>5 DEF r, r2, SlotOf

(* The slot to fill next comes after those that wait. *)
LEMMA EndSlot ==
  ASSUME rd \in Indices, wr \in Indices
  PROVE  SlotOf(rd + QueueUsedSize) = SlotOf(wr)
<1>1. rd \in Nat /\ wr \in Nat /\ Wrap \in Nat
  BY Sizes DEF Indices
<1>2. CASE wr >= rd
  BY <1>1, <1>2 DEF QueueUsedSize
<1>3. CASE ~(wr >= rd)
  <2>1. rd + QueueUsedSize = wr + Wrap
    BY <1>1, <1>3 DEF QueueUsedSize
  <2> QED
    BY <1>1, <2>1, WrapAway
<1> QED
  BY <1>2, <1>3

(* The slots that wait, counted from the next index. *)
LEMMA NextSlot ==
  ASSUME rd \in Indices, NEW k \in Nat \ {0}
  PROVE  SlotOf(After(rd) + k - 1) = SlotOf(rd + k)
<1>1. rd \in Nat /\ Wrap \in Nat /\ Wrap > 0
  BY Sizes DEF Indices
<1>2. CASE rd = Wrap - 1
  <2>1. After(rd) + k - 1 = k - 1 /\ rd + k = (k - 1) + Wrap /\ k - 1 \in Nat
    BY <1>1, <1>2 DEF After
  <2> QED
    BY <2>1, WrapAway
<1>3. CASE rd # Wrap - 1
  BY <1>1, <1>3 DEF After
<1> QED
  BY <1>2, <1>3

(* The slot that is filled is none of those that wait. *)
LEMMA FreeSlot ==
  ASSUME rd \in Indices, wr \in Indices, QueueUsedSize < Size,
         NEW k \in 1..QueueUsedSize
  PROVE  SlotOf(wr) # SlotOf(rd + k - 1)
<1> SUFFICES ASSUME SlotOf(wr) = SlotOf(rd + k - 1) PROVE FALSE
  OBVIOUS
<1>1. rd \in Nat /\ QueueUsedSize \in Nat /\ Size \in Nat \ {0}
  BY Sizes, UsedTyped DEF Indices
<1>2. SlotOf(rd + QueueUsedSize) = SlotOf(rd + k - 1)
  BY EndSlot
<1>3. PICK m \in Int : (rd + QueueUsedSize) - (rd + k - 1) = m * Size
  BY <1>1, <1>2, SameSlot
<1> QED
  BY <1>1, <1>3, NoMultipleBetween

(* Where accesses are ordered: what a thread has stored or copied so far,  *)
(* and that the packets that wait are whole.                               *)
DataInv ==
  ordered =>
    /\ ~storage => rd = wr
    /\ stores # {} => packet \in Packets
    /\ stores # {} => \A f \in Fields \ stores : slot[putAt][f] = packet
    /\ loads # {} => \A f \in Fields \ loads : pkg[f] = slot[takeAt][f]
    /\ \A k \in 1..QueueUsedSize :
         \E p \in Packets : slot[SlotOf(rd + k - 1)] = Filled(p)

(* What is left of a sequence without its first element. *)
LEMMA TailIs ==
  ASSUME NEW S, NEW w \in Seq(S), w # <<>>
  PROVE  Tail(w) = [k \in 1..(Len(w) - 1) |-> w[k + 1]]
<1>1. Tail(w) \in Seq(S) /\ Len(Tail(w)) = Len(w) - 1 /\ Len(w) \in Nat \ {0}
  OBVIOUS
<1>2. \A k \in 1..(Len(w) - 1) : Tail(w)[k] = w[k + 1]
  OBVIOUS
<1> DEFINE t == Tail(w)
<1>3. t \in Seq(S) /\ Len(t) = Len(w) - 1
  BY <1>1
<1> HIDE DEF t
<1>4. t = [k \in 1..Len(t) |-> t[k]]
  BY <1>3
<1>5. \A k \in 1..(Len(w) - 1) : t[k] = w[k + 1]
  BY <1>2 DEF t
<1>6. t = [k \in 1..(Len(w) - 1) |-> w[k + 1]]
  BY <1>3, <1>4, <1>5
<1> QED
  BY <1>6 DEF t

LEMMA DataInit == Init => DataInv
BY Sizes DEF Init, DataInv, QueueUsedSize

(* Where accesses are ordered, a step of the ring keeps its packets whole, *)
(* and is a step of the bounded queue or changes nothing that is seen.     *)
LEMMA FifoStep ==
  RingInv /\ DataInv /\ [Next]_vars => DataInv' /\ [Fifo!Next]_(Fifo!fifoVars)
<1> SUFFICES ASSUME RingInv, DataInv, [Next]_vars
             PROVE  DataInv' /\ [Fifo!Next]_(Fifo!fifoVars)
  OBVIOUS
<1>0. /\ TypeOK /\ QueueUsedSize <= Size /\ PushInv /\ PopInv /\ IndexLast
      /\ ~storage => stores = {} /\ loads = {}
      /\ QueueUsedSize \in Nat /\ rd \in Indices /\ wr \in Indices
      /\ rd \in Nat /\ wr \in Nat /\ Size \in Nat \ {0}
  BY UsedTyped, Sizes DEF RingInv, TypeOK, Indices
<1>a. ordered' = ordered
  BY DEF Next, Push, FinishPush, Pop, InitQueue, StartPush, Store, StartPop, Load, vars
<1>1. CASE ~ordered
  BY <1>1, <1>a DEF DataInv, Fifo!fifoVars
<1> SUFFICES ASSUME ordered
             PROVE  DataInv' /\ [Fifo!Next]_(Fifo!fifoVars)
  BY <1>1
<1> USE <1>0, <1>a DEF queueVars, pushVars, popVars
<1>2. ASSUME UNCHANGED <<QueueUsedSize, Waiting, out>>
      PROVE  [Fifo!Next]_(Fifo!fifoVars)
  BY <1>2 DEF Fifo!fifoVars
<1>3. CASE InitQueue
  <2>1. QueueUsedSize = 0 /\ QueueUsedSize' = 0
    BY <1>3, Sizes DEF InitQueue, DataInv, QueueUsedSize
  <2>2. Waiting = <<>> /\ Waiting' = <<>> /\ out' = out
    BY <1>3, <2>1 DEF InitQueue, Waiting
  <2>3. DataInv'
    BY <1>3, <2>1 DEF InitQueue, DataInv
  <2> QED
    BY <1>2, <2>1, <2>2, <2>3
<1>4. ASSUME NEW p \in Packets, StartPush(p)
      PROVE  DataInv' /\ [Fifo!Next]_(Fifo!fifoVars)
  <2>1. UNCHANGED <<rd, wr, slot, out, storage, pkg, takeAt, loads>> /\ stores' = Accesses /\ packet' = p
    BY <1>4 DEF StartPush
  <2>2. UNCHANGED <<QueueUsedSize, Waiting>>
    BY <2>1 DEF QueueUsedSize, Waiting
  <2>3. DataInv'
    BY <1>4, <2>1, <2>2 DEF StartPush, DataInv, Accesses
  <2> QED
    BY <1>2, <2>1, <2>2, <2>3
<1>5. ASSUME NEW a \in stores, Store(a)
      PROVE  DataInv' /\ [Fifo!Next]_(Fifo!fifoVars)
  <2>1. "index" \in stores /\ QueueUsedSize < Size /\ putAt = SlotOf(wr) /\ packet \in Packets
    BY <1>5 DEF IndexLast, PushInv, DataInv
  <2>2. CASE a = "index"
    <3>1. stores = {"index"} /\ stores' = {} /\ wr' = After(wr)
          /\ UNCHANGED <<rd, slot, storage, packet, putAt, pkg, takeAt, loads, out>>
      BY <1>5, <2>2 DEF Store, InOrder
    <3>2. QueueUsedSize' = QueueUsedSize + 1
      BY <2>1, <3>1, WriteAdvances
    <3>3. SlotOf(rd + QueueUsedSize) = putAt
      BY <2>1, EndSlot
    <3>4. slot[putAt] = Filled(packet)
      <4>1. slot[putAt] \in [Fields -> Packets \cup {Empty}]
        BY DEF TypeOK, Contents
      <4>2. \A f \in Fields : slot[putAt][f] = packet
        BY <3>1 DEF DataInv, Fields
      <4> QED
        BY <4>1, <4>2 DEF Filled
    <3>5. DataInv'
      <4>1. ASSUME NEW k \in 1..QueueUsedSize'
            PROVE  \E p \in Packets : slot'[SlotOf(rd' + k - 1)] = Filled(p)
        <5>1. CASE k \in 1..QueueUsedSize
          BY <3>1, <5>1 DEF DataInv
        <5>2. CASE k = QueueUsedSize + 1
          <6>1. rd' + k - 1 = rd + QueueUsedSize
            BY <3>1, <5>2
          <6> QED
            BY <2>1, <3>1, <3>3, <3>4, <6>1
        <5> QED
          BY <3>2, <5>1, <5>2
      <4>2. storage
        BY <2>1
      <4> QED
        BY <3>1, <4>1, <4>2 DEF DataInv
    <3>6. Waiting' = Append(Waiting, packet)
      <4>1. Waiting = [k \in 1..QueueUsedSize |-> slot[SlotOf(rd + k - 1)]["header"]]
        BY DEF Waiting
      <4>2. Waiting \in Seq({slot[SlotOf(rd + k - 1)]["header"] : k \in 1..QueueUsedSize})
        BY <4>1
      <4>3. Len(Waiting) = QueueUsedSize
        BY <4>1
      <4>4. Append(Waiting, packet) =
              [k \in 1..(QueueUsedSize + 1) |->
                 IF k = QueueUsedSize + 1 THEN packet ELSE slot[SlotOf(rd + k - 1)]["header"]]
        BY <4>1, <4>2, <4>3
      <4>5. Waiting' = [k \in 1..(QueueUsedSize + 1) |-> slot[SlotOf(rd + k - 1)]["header"]]
        BY <3>1, <3>2 DEF Waiting
      <4>6. slot[SlotOf(rd + (QueueUsedSize + 1) - 1)]["header"] = packet
        <5>1. rd + (QueueUsedSize + 1) - 1 = rd + QueueUsedSize
          OBVIOUS
        <5> QED
          BY <3>3, <3>4, <5>1 DEF Filled, Fields
      <4> QED
        BY <4>4, <4>5, <4>6
    <3>7. Len(Waiting) = QueueUsedSize
      BY DEF Waiting
    <3>8. Fifo!Push(packet)
      BY <2>1, <3>1, <3>6, <3>7 DEF Fifo!Push
    <3> QED
      BY <2>1, <3>5, <3>8 DEF Fifo!Next
  <2>3. CASE a # "index"
    <3>1. /\ a \in Fields /\ stores' = stores \ {a} /\ slot' = [slot EXCEPT ![putAt][a] = packet]
          /\ UNCHANGED <<rd, wr, storage, packet, putAt, pkg, takeAt, loads, out>>
      BY <1>5, <2>3 DEF Store, TypeOK, Accesses
    <3>2. QueueUsedSize' = QueueUsedSize
      BY <3>1 DEF QueueUsedSize
    <3>3. \A k \in 1..QueueUsedSize : slot'[SlotOf(rd + k - 1)] = slot[SlotOf(rd + k - 1)]
      BY <2>1, <3>1, FreeSlot DEF TypeOK
    <3>4. Waiting' = Waiting
      BY <3>1, <3>2, <3>3 DEF Waiting
    <3>5. slot'[putAt][a] = packet /\ \A f \in Fields : f # a => slot'[putAt][f] = slot[putAt][f]
      BY <3>1 DEF TypeOK, Contents
    <3>6. loads # {} => takeAt # putAt
      <4>1. loads # {} => QueueUsedSize > 0 /\ takeAt = SlotOf(rd)
        BY DEF IndexLast, PopInv
      <4> QED
        BY <2>1, <4>1, SlotsDiffer
    <3>7. loads # {} => slot'[takeAt] = slot[takeAt]
      BY <3>1, <3>6 DEF TypeOK
    <3>8. DataInv'
      BY <2>1, <3>1, <3>2, <3>3, <3>5, <3>7 DEF DataInv
    <3> QED
      BY <1>2, <3>1, <3>2, <3>4, <3>8
  <2> QED
    BY <2>2, <2>3
<1>6. CASE StartPop
  <2>1. UNCHANGED <<rd, wr, slot, out, storage, packet, putAt, stores>> /\ loads' = Accesses
    BY <1>6 DEF StartPop
  <2>2. UNCHANGED <<QueueUsedSize, Waiting>>
    BY <2>1 DEF QueueUsedSize, Waiting
  <2>3. DataInv'
    BY <1>6, <2>1, <2>2 DEF StartPop, DataInv, Accesses
  <2> QED
    BY <1>2, <2>1, <2>2, <2>3
<1>7. ASSUME NEW a \in loads, Load(a)
      PROVE  DataInv' /\ [Fifo!Next]_(Fifo!fifoVars)
  <2>1. "index" \in loads /\ QueueUsedSize > 0 /\ takeAt = SlotOf(rd)
    BY <1>7 DEF IndexLast, PopInv
  <2>2. CASE a = "index"
    <3>1. loads = {"index"} /\ loads' = {} /\ rd' = After(rd) /\ pkg' = pkg
          /\ out' = (IF pkg["points"] # Empty THEN pkg ELSE out)
          /\ UNCHANGED <<wr, slot, storage, packet, putAt, stores>>
      BY <1>7, <2>2 DEF Load, InOrder
    <3>2. QueueUsedSize' = QueueUsedSize - 1
      BY <2>1, <3>1, ReadAdvances
    <3>3. PICK p \in Packets : slot[takeAt] = Filled(p)
      <4>1. rd + 1 - 1 = rd /\ 1 \in 1..QueueUsedSize
        BY <2>1
      <4> QED
        BY <2>1, <4>1 DEF DataInv
    <3>4. \A f \in Fields : pkg[f] = p
      BY <3>1, <3>3 DEF DataInv, Filled, Fields
    <3>5. out' = pkg /\ {out'[f] : f \in Fields} \ {Empty} = {p}
      BY <3>1, <3>4, QueueAssumption DEF Fields
    <3>6. ASSUME NEW k \in 1..QueueUsedSize'
          PROVE  /\ k + 1 \in 1..QueueUsedSize
                 /\ SlotOf(rd' + k - 1) = SlotOf(rd + (k + 1) - 1)
      <4>1. k \in Nat \ {0} /\ rd + (k + 1) - 1 = rd + k
        BY <3>2
      <4>2. SlotOf(rd' + k - 1) = SlotOf(rd + k)
        BY <3>1, <4>1, NextSlot
      <4> QED
        BY <3>2, <4>1, <4>2
    <3>7. DataInv'
      BY <2>1, <3>1, <3>6 DEF DataInv
    <3>8. Waiting # <<>> /\ Head(Waiting) = p /\ Waiting' = Tail(Waiting)
      <4>1. Waiting = [k \in 1..QueueUsedSize |-> slot[SlotOf(rd + k - 1)]["header"]]
        BY DEF Waiting
      <4>2. Waiting \in Seq({slot[SlotOf(rd + k - 1)]["header"] : k \in 1..QueueUsedSize})
        BY <4>1
      <4>3. Len(Waiting) = QueueUsedSize /\ Waiting # <<>>
        BY <2>1, <4>1
      <4>4. Head(Waiting) = p
        <5>1. Head(Waiting) = Waiting[1] /\ 1 \in 1..QueueUsedSize /\ rd + 1 - 1 = rd
          BY <2>1, <4>2, <4>3
        <5> QED
          BY <2>1, <3>3, <4>1, <5>1 DEF Filled, Fields
      <4>5. Tail(Waiting) = [k \in 1..(QueueUsedSize - 1) |-> Waiting[k + 1]]
        BY <4>2, <4>3, TailIs
      <4>6. Waiting' = [k \in 1..(QueueUsedSize - 1) |-> slot[SlotOf(rd' + k - 1)]["header"]]
        BY <3>1, <3>2 DEF Waiting
      <4>7. \A k \in 1..(QueueUsedSize - 1) :
              Waiting[k + 1] = slot[SlotOf(rd' + k - 1)]["header"]
        BY <3>2, <3>6, <4>1
      <4> QED
        BY <4>3, <4>4, <4>5, <4>6, <4>7
    <3>9. Fifo!Pop
      BY <3>5, <3>8 DEF Fifo!Pop
    <3> QED
      BY <3>7, <3>9 DEF Fifo!Next
  <2>3. CASE a # "index"
    <3>1. /\ a \in Fields /\ loads' = loads \ {a} /\ loads' # {}
          /\ pkg' = [pkg EXCEPT ![a] = slot[takeAt][a]]
          /\ UNCHANGED <<rd, wr, slot, storage, packet, putAt, stores, takeAt, out>>
      BY <1>7, <2>1, <2>3 DEF Load, TypeOK, Accesses
    <3>2. UNCHANGED <<QueueUsedSize, Waiting>>
      BY <3>1 DEF QueueUsedSize, Waiting
    <3>3. DataInv'
      BY <2>1, <3>1, <3>2 DEF DataInv, TypeOK, Contents
    <3> QED
      BY <1>2, <3>1, <3>2, <3>3
  <2> QED
    BY <2>2, <2>3
<1>8. CASE UNCHANGED vars
  <2>1. UNCHANGED <<QueueUsedSize, Waiting>>
    BY <1>8 DEF vars, QueueUsedSize, Waiting
  <2>2. DataInv'
    BY <1>8, <2>1 DEF vars, DataInv
  <2> QED
    BY <1>2, <1>8, <2>1, <2>2 DEF vars
<1> QED
  BY <1>3, <1>4, <1>5, <1>6, <1>7, <1>8 DEF Next, Push, FinishPush, Pop

(* The ring implements the bounded queue, for every size and index width:  *)
(* where accesses are ordered, packets come out once each, whole, and in   *)
(* the order they went in.                                                 *)
THEOREM RingImplementsFifo == Spec => Fifo!Spec
<1>1. Init => Fifo!Init
  BY DEF Init, Fifo!Init, Waiting, QueueUsedSize, Filled, Fields
<1> QED
  BY <1>1, RingInit, RingStep, DataInit, FifoStep, PTL DEF Spec, Fifo!Spec
=============================================================================
