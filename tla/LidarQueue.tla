----------------------------- MODULE LidarQueue -----------------------------
(***************************************************************************)
(* The ring of point cloud packets of one LiDAR (comm/ldq.cpp), between    *)
(* the thread that builds frames and the thread that publishes them.       *)
(*                                                                         *)
(* There is no lock: the indices are volatile uint32_t that run freely and *)
(* wrap, the slots plain memory.  The language gives the two threads no    *)
(* order (a data race); ordered says whether the build and the processor   *)
(* let them see each other's accesses in program order.                    *)
(***************************************************************************)
EXTENDS Integers, Sequences

CONSTANTS
  Packets,   \* packets the frame builder stores
  Empty,     \* what a slot holds before its first use
  Size,      \* slots of the ring, a power of 2
  Wrap       \* number of values of an index, 2^32 in the code

ASSUME QueueAssumption ==
  /\ Empty \notin Packets
  /\ Size \in Nat \ {0} /\ Wrap \in Nat
  /\ \E k \in 2..Wrap : Wrap = k * Size

VARIABLES
  ordered,  \* accesses are seen in program order
  storage,  \* storage_packet has been allocated
  rd, wr,   \* rd_idx, wr_idx
  slot,     \* storage_packet: the header and the points of each slot
  packet,   \* what QueuePushAny is storing
  putAt,    \* its local wr_idx, the slot it fills
  stores,   \* its stores that are not yet seen
  pkg,      \* the copy QueuePrePop makes
  takeAt,   \* its local rd_idx, the slot it copies
  loads,    \* the accesses of QueuePop still to come
  out       \* the packet published last

queueVars == <<storage, rd, wr, slot>>
pushVars == <<packet, putAt, stores>>
popVars == <<pkg, takeAt, loads, out>>
vars == <<ordered, storage, rd, wr, slot, packet, putAt, stores, pkg, takeAt,
          loads, out>>

Fields == {"header", "points"}
Accesses == Fields \cup {"index"}
Slots == 0..(Size - 1)
Indices == 0..(Wrap - 1)
Contents == [Fields -> Packets \cup {Empty}]

TypeOK ==
  /\ ordered \in BOOLEAN /\ storage \in BOOLEAN
  /\ rd \in Indices /\ wr \in Indices
  /\ slot \in [Slots -> Contents]
  /\ packet \in Packets \cup {Empty}
  /\ putAt \in Slots /\ takeAt \in Slots
  /\ stores \in SUBSET Accesses /\ loads \in SUBSET Accesses
  /\ pkg \in Contents /\ out \in Contents

Filled(p) == [f \in Fields |-> p]

Init ==
  /\ ordered \in BOOLEAN
  /\ storage = FALSE
  /\ rd = 0 /\ wr = 0
  /\ slot = [i \in Slots |-> Filled(Empty)]
  /\ packet = Empty /\ putAt = 0 /\ stores = {}
  /\ pkg = Filled(Empty) /\ takeAt = 0 /\ loads = {}
  /\ out = Filled(Empty)

-----------------------------------------------------------------------------
(* Arithmetic of unsigned indices, and masking by size - 1. *)
After(i) == IF i = Wrap - 1 THEN 0 ELSE i + 1
SlotOf(i) == i % Size

QueueUsedSize == IF wr >= rd THEN wr - rd ELSE wr - rd + Wrap
QueueIsEmpty == rd = wr

(* Mutated forms: one packet too many; a difference that does not wrap. *)
FullOneLate == QueueUsedSize > Size
FullUnwrapped == wr - rd > Size - 1

QueueIsFull == QueueUsedSize > Size - 1

(* A mutated form: the index comes first. *)
IndexFirst(pending) ==
  {a \in pending : a # "index" /\ ordered => "index" \notin pending}

(* The accesses that may come next: where program order is seen, the index *)
(* comes after the contents it publishes or gives back.                    *)
InOrder(pending) ==
  {a \in pending : a = "index" /\ ordered => pending = {"index"}}

-----------------------------------------------------------------------------
(* The frame builder, in PushLidarData.                                    *)

(* The first packet allocates the ring. *)
InitQueue ==
  /\ ~storage
  /\ storage' = TRUE /\ rd' = 0 /\ wr' = 0
  /\ slot' = [i \in Slots |-> Filled(Empty)]
  /\ UNCHANGED <<ordered, pushVars, popVars>>

(* There is room; a packet that finds none is dropped. *)
StartPush(p) ==
  /\ storage /\ stores = {} /\ ~QueueIsFull
  /\ packet' = p /\ putAt' = SlotOf(wr) /\ stores' = Accesses
  /\ UNCHANGED <<ordered, queueVars, popVars>>

Store(a) ==
  /\ a \in InOrder(stores)
  /\ stores' = stores \ {a}
  /\ IF a = "index"
     THEN wr' = After(wr) /\ UNCHANGED slot
     ELSE slot' = [slot EXCEPT ![putAt][a] = packet] /\ UNCHANGED wr
  /\ UNCHANGED <<ordered, storage, rd, packet, putAt, popVars>>

-----------------------------------------------------------------------------
(* The publisher, in PublishPointcloud2 or PublishCustomPointcloud.        *)

StartPop ==
  /\ storage /\ loads = {} /\ ~QueueIsEmpty
  /\ takeAt' = SlotOf(rd) /\ loads' = Accesses
  /\ UNCHANGED <<ordered, queueVars, pushVars, pkg, out>>

(* A copy without points is not published. *)
Load(a) ==
  /\ a \in InOrder(loads)
  /\ loads' = loads \ {a}
  /\ rd' = (IF a = "index" THEN After(rd) ELSE rd)
  /\ pkg' = (IF a = "index" THEN pkg
             ELSE [pkg EXCEPT ![a] = slot[takeAt][a]])
  /\ out' = (IF loads' = {} /\ pkg'["points"] # Empty THEN pkg' ELSE out)
  /\ UNCHANGED <<ordered, storage, wr, slot, pushVars, takeAt>>

-----------------------------------------------------------------------------
Push == InitQueue \/ (\E p \in Packets : StartPush(p))
Pop == StartPop \/ \E a \in loads : Load(a)

FinishPush == \E a \in stores : Store(a)

Next == Push \/ FinishPush \/ Pop

(* A thread inside QueuePushAny or QueuePop finishes it, and the publisher *)
(* goes on while the queue is not empty.                                   *)
Spec == Init /\ [][Next]_vars /\ WF_vars(FinishPush) /\ WF_vars(Pop)

-----------------------------------------------------------------------------
(* Properties.                                                             *)

(* The ring never holds more packets than it has slots, whether or not the *)
(* accesses are ordered: the difference of two wrapping indices stays in   *)
(* the range QueueIsFull compares it with.                                 *)
NeverOverfull ==
  QueueUsedSize + (IF "index" \in stores THEN 1 ELSE 0) <= Size

(* Where accesses are ordered, the threads are never in the same slot. *)
SlotsApart ==
  ordered /\ stores \cap Fields # {} /\ loads \cap Fields # {} => putAt # takeAt

(* The packets between the indices, oldest first. *)
Waiting ==
  [k \in 1..QueueUsedSize |-> slot[SlotOf(rd + k - 1)]["header"]]

(* Where accesses are ordered, the ring is a bounded queue: nothing is     *)
(* lost, repeated, torn or reordered, through any number of wraps.         *)
Fifo == INSTANCE BoundedFifo WITH
          Capacity <- Size,
          waiting <- IF ordered THEN Waiting ELSE <<>>,
          taken <- IF ordered THEN {out[f] : f \in Fields} \ {Empty} ELSE {}

FifoSpec == Fifo!LiveSpec
=============================================================================
