------------------------- MODULE FrameBuilderProofs -------------------------
(***************************************************************************)
(* What TLAPS proves of FrameBuilder, for any number of LiDARs and         *)
(* packets, any interval and any clocks.                                   *)
(***************************************************************************)
EXTENDS FrameBuilder, TLAPS

(* The numbers of a cloud, of an empty one and of one with a point more. *)
LEMMA Numbering ==
  ASSUME NEW c \in Seq(Point), NEW p \in Point
  PROVE  /\ NumbersOf(c) \in Seq(Nat) /\ Len(NumbersOf(c)) = Len(c)
         /\ NumbersOf(Append(c, p)) = Append(NumbersOf(c), p.no)
         /\ NumbersOf(<<>>) = <<>>
<1>1. /\ Len(c) \in Nat /\ \A i \in 1..Len(c) : c[i] \in Point
      /\ Append(c, p) \in Seq(Point) /\ Len(Append(c, p)) = Len(c) + 1
      /\ \A i \in 1..(Len(c) + 1) :
           Append(c, p)[i] = IF i = Len(c) + 1 THEN p ELSE c[i]
  OBVIOUS
<1>2. \A i \in 1..Len(c) : c[i].no \in Nat
  BY <1>1 DEF Point
<1>3. NumbersOf(c) \in Seq(Nat) /\ Len(NumbersOf(c)) = Len(c)
  BY <1>1, <1>2 DEF NumbersOf
<1>4. NumbersOf(<<>>) = <<>>
  BY DEF NumbersOf
<1>5. NumbersOf(Append(c, p)) = [i \in 1..(Len(c) + 1) |->
        IF i = Len(c) + 1 THEN p.no ELSE c[i].no]
  BY <1>1 DEF NumbersOf
<1>6. p.no \in Nat
  BY DEF Point
<1>7. Append(NumbersOf(c), p.no) = [i \in 1..(Len(c) + 1) |->
        IF i = Len(c) + 1 THEN p.no ELSE c[i].no]
  BY <1>1, <1>2, <1>3, <1>6 DEF NumbersOf
<1> QED  BY <1>3, <1>4, <1>5, <1>7

-----------------------------------------------------------------------------
(* Types.                                                                  *)

LEMMA InitTypes == Init => TypeOK
<1> SUFFICES ASSUME Init PROVE TypeOK
  OBVIOUS
<1>1. /\ cloud \in [Lidars -> Seq(Point)] /\ points \in [Lidars -> Seq(Point)]
      /\ published \in [Lidars -> Seq(Nat)] /\ queue \in Seq(Raw)
      /\ sent \in [Lidars -> Nat]
  BY DEF Init
<1>2. clock \in Times /\ {lastPub, started} \subseteq 0..clock
      /\ timed \in Nat /\ left \in 0..MaxPackets
  BY FrameBuilderAssumption DEF Init, Times
<1>3. /\ setup \in {"synced", "free", "mixed"} /\ flag \in BOOLEAN
      /\ incoming = Nothing /\ id = 0 /\ pc = "loop" /\ main = "running"
  BY DEF Init
<1> QED  BY <1>1, <1>2, <1>3 DEF TypeOK

(* Taking a packet keeps the types of what it changes. *)
LEMMA TakeTypes ==
  ASSUME TypeOK, Take
  PROVE  /\ queue' \in Seq(Raw) /\ id' \in Lidars
         /\ cloud' \in [Lidars -> Seq(Point)] /\ pc' = "timer"
<1>1. /\ queue \in Seq(Raw) /\ queue # <<>> /\ queue' = Tail(queue)
      /\ cloud \in [Lidars -> Seq(Point)] /\ pc' = "timer"
  BY DEF TypeOK, Take
<1>2. Head(queue) \in Raw /\ Tail(queue) \in Seq(Raw)
  BY <1>1
<1>3. Head(queue).lidar \in Lidars
      /\ [no |-> Head(queue).no, stamp |-> Head(queue).stamp] \in Point
  BY <1>2 DEF Raw, Point
<1>4. id' = Head(queue).lidar
      /\ cloud' = IF Head(queue).no = 0 THEN cloud
                  ELSE [cloud EXCEPT ![Head(queue).lidar] =
                         Append(@, [no |-> Head(queue).no,
                                    stamp |-> Head(queue).stamp])]
  BY DEF Take
<1> QED  BY <1>1, <1>2, <1>3, <1>4

LEMMA PublishTypes ==
  ASSUME TypeOK, NEW S, Publish(S)
  PROVE  /\ cloud' \in [Lidars -> Seq(Point)]
         /\ points' \in [Lidars -> Seq(Point)]
         /\ published' \in [Lidars -> Seq(Nat)]
<1>1. \A l \in Lidars : cloud[l] \in Seq(Point) /\ points[l] \in Seq(Point)
                         /\ published[l] \in Seq(Nat)
  BY DEF TypeOK
<1>2. \A c \in Seq(Point) : NumbersOf(c) \in Seq(Nat)
  <2>1. [no |-> 0, stamp |-> 0] \in Point
    BY DEF Point
  <2> QED  BY <2>1, Numbering
<1>3. \A l \in Lidars : published[l] \o NumbersOf(cloud[l]) \in Seq(Nat)
  BY <1>1, <1>2
<1> QED  BY <1>1, <1>3 DEF Publish

LEMMA NextTypes == TypeOK /\ [Next]_vars => TypeOK'
<1> SUFFICES ASSUME TypeOK, [Next]_vars PROVE TypeOK'
  OBVIOUS
<1> USE FrameBuilderAssumption
<1>1. CASE Receive
  <2>1. PICK p \in Packets :
          /\ flag' = p.synced
          /\ incoming' = IF p.kind = "imu" THEN Nothing ELSE p
    BY <1>1 DEF Receive
  <2>2. Packets \subseteq [lidar : Lidars, kind : Kinds, synced : BOOLEAN]
    BY DEF Packets
  <2>3. flag' \in BOOLEAN
        /\ incoming' \in [lidar : Lidars, kind : Kinds, synced : BOOLEAN]
                            \cup {Nothing}
    BY <2>1, <2>2
  <2>4. left' \in 0..MaxPackets
    BY <1>1 DEF Receive, TypeOK
  <2> QED  BY <1>1, <2>3, <2>4 DEF Receive, TypeOK, frameVars, timerVars
<1>2. CASE Enqueue
  <2>1. PICK t \in Stamps :
          LET l == incoming.lidar
          IN IF incoming.kind = "points"
             THEN /\ sent' = [sent EXCEPT ![l] = @ + 1]
                  /\ queue' = Append(queue, [lidar |-> l, no |-> sent[l] + 1,
                                             stamp |-> t])
             ELSE /\ queue' = Append(queue,
                                     [lidar |-> l, no |-> 0, stamp |-> t])
                  /\ UNCHANGED sent
    BY <1>2 DEF Enqueue
  <2>2. t \in Nat
    BY DEF TypeOK, Stamps, Times
  <2>3. incoming.lidar \in Lidars
    BY <1>2 DEF Enqueue, TypeOK
  <2>4. queue' \in Seq(Raw) /\ sent' \in [Lidars -> Nat]
    <3> DEFINE l == incoming.lidar
    <3>1. sent[l] + 1 \in Nat /\ queue \in Seq(Raw)
          /\ sent \in [Lidars -> Nat]
      BY <2>3 DEF TypeOK
    <3>2. /\ [lidar |-> l, no |-> sent[l] + 1, stamp |-> t] \in Raw
          /\ [lidar |-> l, no |-> 0, stamp |-> t] \in Raw
      BY <2>2, <2>3, <3>1 DEF Raw
    <3>3. \A r \in Raw : Append(queue, r) \in Seq(Raw)
      BY <3>1
    <3>4. queue' \in Seq(Raw)
      BY <2>1, <3>2, <3>3
    <3>5. sent' \in [Lidars -> Nat]
      BY <2>1, <3>1
    <3> QED  BY <3>4, <3>5
  <2> QED  BY <1>2, <2>4 DEF Enqueue, TypeOK, frameVars, timerVars
<1>3. CASE Loop
  <2>1. CASE Take
    BY <1>3, <2>1, TakeTypes DEF Loop, TypeOK, timerVars
  <2>2. CASE ~Take
    BY <1>3, <2>2 DEF Loop, TypeOK, timerVars
  <2> QED  BY <2>1, <2>2
<1>4. CASE Wake
  <2>1. CASE Take
    BY <1>4, <2>1, TakeTypes DEF Wake, TypeOK, timerVars
  <2>2. CASE ~Take
    BY <1>4, <2>2 DEF Wake, TypeOK, timerVars
  <2> QED  BY <2>1, <2>2
<1>5. CASE CheckStamps
  <2>1. /\ cloud' \in [Lidars -> Seq(Point)]
        /\ points' \in [Lidars -> Seq(Point)]
        /\ published' \in [Lidars -> Seq(Nat)]
    BY <1>5, PublishTypes DEF CheckStamps, frameVars, TypeOK
  <2> QED  BY <1>5, <2>1 DEF CheckStamps, TypeOK, sdkVars
<1>6. CASE StartTimer
  BY <1>6 DEF StartTimer, TypeOK, Times, sdkVars, frameVars
<1>7. CASE NotYet
  BY <1>7 DEF NotYet, TypeOK, sdkVars, frameVars
<1>8. CASE PublishAll
  <2>1. /\ cloud' \in [Lidars -> Seq(Point)]
        /\ points' \in [Lidars -> Seq(Point)]
        /\ published' \in [Lidars -> Seq(Nat)]
    BY <1>8, PublishTypes DEF PublishAll
  <2>2. lastPub' \in 0..clock /\ timed' \in Nat
    BY <1>8 DEF PublishAll, TypeOK, Times
  <2> QED  BY <1>8, <2>1, <2>2 DEF PublishAll, TypeOK, sdkVars
<1>9. CASE RemoveObserver \/ RequestExit \/ Join
  BY <1>9 DEF RemoveObserver, RequestExit, Join, TypeOK, sdkVars, frameVars,
              timerVars
<1>10. CASE Tick
  BY <1>10 DEF Tick, TypeOK, Times, sdkVars, frameVars, timerVars
<1>11. CASE UNCHANGED vars
  BY <1>11 DEF vars, TypeOK, sdkVars, frameVars, timerVars
<1> QED  BY <1>1, <1>2, <1>3, <1>4, <1>5, <1>6, <1>7, <1>8, <1>9, <1>10,
            <1>11 DEF Next, BuilderStep

(* Type correctness: the queue, the clouds and the buffers hold packets of *)
(* known LiDARs, and a publication time is never in the future.            *)
THEOREM TypeCorrect == Spec => []TypeOK
BY InitTypes, NextTypes, PTL DEF Spec

-----------------------------------------------------------------------------
(* Pace.                                                                   *)

(* The time of publication is as many intervals after the first as frames  *)
(* were published on the clock of the host.                                *)
Pace ==
  IF lastPub = 0 THEN timed = 0
  ELSE lastPub = started + timed * Interval

LEMMA NextPace == TypeOK /\ Pace /\ [Next]_vars => Pace'
<1> SUFFICES ASSUME TypeOK, Pace, [Next]_vars PROVE Pace'
  OBVIOUS
<1> USE FrameBuilderAssumption
<1>1. CASE UNCHANGED timerVars
  BY <1>1 DEF Pace, timerVars
<1>2. CASE StartTimer
  <2>1. timed = 0 /\ timed' = 0 /\ lastPub' = clock /\ started' = clock
    BY <1>2 DEF StartTimer, Pace
  <2>2. timed' * Interval = 0
    BY <2>1
  <2> QED  BY <2>1, <2>2 DEF Pace, TypeOK, Times
<1>3. CASE PublishAll
  <2>1. /\ lastPub # 0 /\ lastPub' = lastPub + Interval /\ timed' = timed + 1
        /\ started' = started
    BY <1>3 DEF PublishAll
  <2>2. timed \in Nat /\ lastPub \in Nat /\ started \in Nat
    BY DEF TypeOK, Times
  <2>3. (timed + 1) * Interval = timed * Interval + Interval
    BY <2>2
  <2> QED  BY <2>1, <2>2, <2>3 DEF Pace
<1>4. [Next]_vars =>
        UNCHANGED timerVars \/ StartTimer \/ PublishAll
  BY DEF Next, BuilderStep, Receive, Enqueue, Loop, Wake, CheckStamps, NotYet,
         RemoveObserver, RequestExit, Join, Tick, vars, timerVars
<1> QED  BY <1>1, <1>2, <1>3, <1>4

(* However long the builder is held up and however it catches up, frames   *)
(* on the clock of the host never outnumber the intervals gone by.         *)
THEOREM Paced == Spec => []FramesPaced
<1>1. Init => Pace
  BY DEF Init, Pace
<1>2. TypeOK /\ Pace => FramesPaced
  <2> SUFFICES ASSUME TypeOK, Pace, timed > 0
               PROVE  started + timed * Interval <= clock
    BY DEF FramesPaced
  <2>1. lastPub \in 0..clock /\ clock \in Nat /\ timed # 0
    BY DEF TypeOK, Times
  <2> QED  BY <2>1 DEF Pace
<1> QED  BY <1>1, <1>2, NextPace, TypeCorrect, PTL DEF Spec

-----------------------------------------------------------------------------
(* Synchronisation.                                                        *)

(* The flag is up before a packet is on its way to the timer. *)
FlagFirst ==
  setup = "synced" =>
    /\ incoming # Nothing \/ queue # <<>> \/ pc = "timer" => flag
    /\ lastPub = 0

LEMMA NextFlagFirst == TypeOK /\ FlagFirst /\ [Next]_vars => FlagFirst'
<1> SUFFICES ASSUME TypeOK, FlagFirst, [Next]_vars, setup = "synced"
             PROVE  FlagFirst'
  BY DEF FlagFirst, Next, BuilderStep, Receive, Enqueue, Loop, Wake,
         CheckStamps, StartTimer, NotYet, PublishAll, RemoveObserver,
         RequestExit, Join, Tick, vars
<1>1. CASE Receive
  BY <1>1 DEF Receive, Packets, FlagFirst, timerVars
<1>2. CASE Enqueue
  BY <1>2 DEF Enqueue, FlagFirst, timerVars
<1>3. CASE Loop \/ Wake
  BY <1>3 DEF Loop, Wake, Take, FlagFirst, timerVars
<1>4. CASE CheckStamps
  BY <1>4 DEF CheckStamps, FlagFirst, sdkVars
<1>5. CASE StartTimer \/ NotYet \/ PublishAll
  BY <1>5 DEF StartTimer, NotYet, PublishAll, FlagFirst
<1>6. CASE RemoveObserver \/ RequestExit \/ Join \/ Tick \/ UNCHANGED vars
  BY <1>6 DEF RemoveObserver, RequestExit, Join, Tick, vars, FlagFirst,
              sdkVars, timerVars
<1> QED  BY <1>1, <1>2, <1>3, <1>4, <1>5, <1>6 DEF Next, BuilderStep

(* Frames of synchronised LiDARs are never cut by the clock of the host.   *)
THEOREM SyncedByStamps == Spec => []SyncedNeverTimed
<1>1. Init => FlagFirst
  BY DEF Init, FlagFirst
<1>2. FlagFirst => SyncedNeverTimed
  BY DEF FlagFirst, SyncedNeverTimed
<1> QED  BY <1>1, <1>2, NextFlagFirst, TypeCorrect, PTL DEF Spec
-----------------------------------------------------------------------------
(* What is due.                                                            *)

(* Without synchronisation no packet puts the flag up. *)
FlagDown ==
  setup = "free" => ~flag /\ ~incoming.synced

LEMMA NextFlagDown == TypeOK /\ FlagDown /\ [Next]_vars => FlagDown'
<1> SUFFICES ASSUME TypeOK, FlagDown, [Next]_vars, setup = "free"
             PROVE  FlagDown'
  BY DEF FlagDown, Next, BuilderStep, Receive, Enqueue, Loop, Wake,
         CheckStamps, StartTimer, NotYet, PublishAll, RemoveObserver,
         RequestExit, Join, Tick, vars
<1>1. CASE Receive
  BY <1>1 DEF Receive, Packets, Nothing, FlagDown
<1>2. CASE Enqueue
  BY <1>2 DEF Enqueue, Nothing, FlagDown
<1>3. CASE Loop \/ Wake \/ RemoveObserver \/ RequestExit \/ Join \/ Tick
  BY <1>3 DEF Loop, Wake, RemoveObserver, RequestExit, Join, Tick, sdkVars,
              FlagDown
<1>4. CASE CheckStamps \/ StartTimer \/ NotYet \/ PublishAll
  BY <1>4 DEF CheckStamps, StartTimer, NotYet, PublishAll, sdkVars, FlagDown
<1>5. CASE UNCHANGED vars
  BY <1>5 DEF vars, sdkVars, FlagDown
<1> QED  BY <1>1, <1>2, <1>3, <1>4, <1>5 DEF Next, BuilderStep

(* Without synchronisation a look at the timer leaves no point behind that *)
(* is due, of whichever LiDAR, and not only of the one whose packet it was *)
(* looked at for.                                                          *)
THEOREM NoLidarForgotten == Spec => NothingOverdue
<1>1. Init => FlagDown
  BY DEF Init, Nothing, FlagDown
<1>2. TypeOK /\ FlagDown /\ [Next]_vars =>
        [setup = "free" /\ pc = "timer" /\ pc' = "loop" =>
           \A l \in Lidars :
             cloud'[l] # <<>> => clock < lastPub' + Interval]_vars
  <2> SUFFICES ASSUME TypeOK, FlagDown, Next, setup = "free", pc = "timer",
                      pc' = "loop", NEW l \in Lidars, cloud'[l] # <<>>
               PROVE  clock < lastPub' + Interval
    OBVIOUS
  <2>1. clock \in Nat /\ lastPub \in Nat /\ Interval \in Nat \ {0}
    BY FrameBuilderAssumption DEF TypeOK, Times
  <2>2. ~flag
    BY DEF FlagDown
  <2>3. CASE StartTimer
    BY <2>1, <2>3 DEF StartTimer
  <2>4. CASE NotYet
    BY <2>1, <2>4 DEF NotYet, timerVars
  <2>5. CASE PublishAll
    BY <2>5 DEF PublishAll, Publish
  <2>6. StartTimer \/ NotYet \/ PublishAll
    BY <2>2 DEF Next, BuilderStep, Receive, Enqueue, Loop, Wake, Take,
                CheckStamps, RemoveObserver, RequestExit, Join, Tick
  <2> QED  BY <2>3, <2>4, <2>5, <2>6
<1> QED  BY <1>1, <1>2, NextFlagDown, TypeCorrect, PTL DEF Spec,
            NothingOverdue

-----------------------------------------------------------------------------
(* Streams.                                                                *)

(* A packet at the end of the queue is the next of its LiDAR. *)
LEMMA Enqueued ==
  ASSUME NEW q \in Seq(Raw), NEW r \in Raw, NEW l, NEW a \in Nat, NEW b \in Nat,
         a <= b, InLine(q, l, a, b)
  PROVE  /\ r.lidar = l /\ r.no = b + 1 => InLine(Append(q, r), l, a, b + 1)
         /\ r.lidar # l \/ r.no = 0 => InLine(Append(q, r), l, a, b)
<1> DEFINE s == Append(q, r)
           n == Len(q) + 1
<1>1. /\ Len(q) \in Nat /\ Len(s) = n /\ s[n] = r
      /\ \A i \in 1..Len(q) : s[i] = q[i] /\ q[i] \in Raw
  OBVIOUS
<1> HIDE DEF s
<1>2. \A i \in 1..Len(q) : q[i].no \in Nat
  BY <1>1 DEF Raw
<1>3. \A i \in Waiting(q, l) : i \in 1..Len(q) /\ q[i].no \in (a + 1)..b
  BY DEF InLine, Waiting
<1>4. ASSUME r.lidar = l, r.no = b + 1
      PROVE  InLine(s, l, a, b + 1)
  <2>1. Waiting(s, l) = Waiting(q, l) \cup {n}
    BY <1>1, <1>4 DEF Waiting
  <2>2. {s[i].no : i \in Waiting(s, l)} = {q[i].no : i \in Waiting(q, l)}
                                           \cup {b + 1}
    BY <1>1, <1>3, <1>4, <2>1
  <2>3. {s[i].no : i \in Waiting(s, l)} = (a + 1)..(b + 1)
    <3>1. {q[i].no : i \in Waiting(q, l)} = (a + 1)..b
      BY DEF InLine
    <3>2. ((a + 1)..b) \cup {b + 1} = (a + 1)..(b + 1)
      OBVIOUS
    <3> QED  BY <2>2, <3>1, <3>2
  <2>4. ASSUME NEW i \in Waiting(s, l), NEW j \in Waiting(s, l), i < j
        PROVE  s[i].no < s[j].no
    <3>1. i \in Waiting(q, l) /\ i # n
      BY <1>1, <1>3, <2>1, <2>4
    <3>2. s[i] = q[i] /\ q[i].no \in (a + 1)..b
      BY <1>1, <1>3, <3>1
    <3>3. CASE j = n
      BY <1>1, <1>4, <3>2, <3>3
    <3>4. CASE j # n
      <4>1. j \in Waiting(q, l) /\ s[j] = q[j]
        BY <1>1, <1>3, <2>1, <3>4
      <4> QED  BY <2>4, <3>1, <3>2, <4>1 DEF InLine
    <3> QED  BY <3>3, <3>4
  <2> QED  BY <2>3, <2>4 DEF InLine
<1>5. ASSUME r.lidar # l \/ r.no = 0
      PROVE  InLine(s, l, a, b)
  <2>1. Waiting(s, l) = Waiting(q, l)
    BY <1>1, <1>5 DEF Waiting
  <2>2. \A i \in Waiting(q, l) : s[i].no = q[i].no
    BY <1>1, <1>3
  <2>3. {s[i].no : i \in Waiting(s, l)} = {q[i].no : i \in Waiting(q, l)}
    BY <2>1, <2>2
  <2> QED  BY <2>1, <2>2, <2>3 DEF InLine
<1> QED  BY <1>4, <1>5 DEF s

(* The front of the queue is the next point its LiDAR is waited for. *)
LEMMA Dequeued ==
  ASSUME NEW q \in Seq(Raw), q # <<>>, NEW l, NEW a \in Nat, NEW b \in Nat,
         a <= b, InLine(q, l, a, b)
  PROVE  /\ Head(q).lidar = l /\ Head(q).no # 0 =>
              a < b /\ Head(q).no = a + 1 /\ InLine(Tail(q), l, a + 1, b)
         /\ Head(q).lidar # l \/ Head(q).no = 0 => InLine(Tail(q), l, a, b)
<1> DEFINE s == Tail(q)
<1>1. /\ Len(q) \in Nat \ {0} /\ Len(s) = Len(q) - 1 /\ Head(q) = q[1]
      /\ \A i \in 1..Len(s) : s[i] = q[i + 1]
  OBVIOUS
<1> HIDE DEF s
<1>2. \A i \in Waiting(q, l) : i \in 1..Len(q) /\ q[i].no \in (a + 1)..b
  BY DEF InLine, Waiting
<1>3. \A i \in Waiting(s, l) : /\ i \in 1..Len(s) /\ i + 1 \in Waiting(q, l)
                                /\ s[i].no = q[i + 1].no
  BY <1>1 DEF Waiting
<1>4. \A i \in Waiting(q, l) \ {1} : i - 1 \in Waiting(s, l)
  BY <1>1 DEF Waiting
<1>5. \A i, j \in Waiting(s, l) : i < j => s[i].no < s[j].no
  BY <1>3 DEF InLine
<1>6. \A m \in (a + 1)..b : \E i \in Waiting(q, l) : q[i].no = m
  <2>1. {q[i].no : i \in Waiting(q, l)} = (a + 1)..b
    BY DEF InLine
  <2> QED  BY <2>1
<1>7. {s[i].no : i \in Waiting(s, l)} = {q[i].no : i \in Waiting(q, l) \ {1}}
  <2>1. \A i \in Waiting(s, l) : i + 1 # 1
    BY <1>3
  <2>2. \A i \in Waiting(q, l) \ {1} : s[i - 1].no = q[i].no
    BY <1>2, <1>3, <1>4
  <2> QED  BY <1>3, <1>4, <2>1, <2>2
<1>8. ASSUME Head(q).lidar = l, Head(q).no # 0
      PROVE  a < b /\ Head(q).no = a + 1 /\ InLine(s, l, a + 1, b)
  <2>1. 1 \in Waiting(q, l)
    BY <1>1, <1>8 DEF Waiting
  <2>2. \A i \in Waiting(q, l) \ {1} : q[1].no < q[i].no
    BY <1>2, <2>1 DEF InLine
  <2>3. a < b /\ q[1].no \in (a + 1)..b
    BY <1>2, <2>1
  <2>4. PICK i \in Waiting(q, l) : q[i].no = a + 1
    BY <1>6, <2>3
  <2>5. q[1].no = a + 1
    BY <1>2, <2>2, <2>3, <2>4
  <2>6. {q[k].no : k \in Waiting(q, l) \ {1}} = (a + 2)..b
    <3>1. \A k \in Waiting(q, l) \ {1} : q[k].no \in (a + 2)..b
      BY <1>2, <2>2, <2>5
    <3>2. ASSUME NEW m \in (a + 2)..b
          PROVE  \E k \in Waiting(q, l) \ {1} : q[k].no = m
      <4>1. PICK k \in Waiting(q, l) : q[k].no = m
        BY <1>6
      <4>2. k # 1
        BY <2>5, <4>1
      <4> QED  BY <4>1, <4>2
    <3> QED  BY <3>1, <3>2
  <2>7. a + 1 + 1 = a + 2
    OBVIOUS
  <2> QED  BY <1>1, <1>5, <1>7, <2>3, <2>5, <2>6, <2>7 DEF InLine
<1>9. ASSUME Head(q).lidar # l \/ Head(q).no = 0
      PROVE  InLine(s, l, a, b)
  <2>1. 1 \notin Waiting(q, l)
    BY <1>1, <1>9 DEF Waiting
  <2>2. Waiting(q, l) \ {1} = Waiting(q, l)
    BY <2>1
  <2> QED  BY <1>5, <1>7, <2>2 DEF InLine
<1> QED  BY <1>8, <1>9 DEF s

LEMMA StreamTypes ==
  ASSUME TypeOK, NEW l \in Lidars
  PROVE  /\ published[l] \in Seq(Nat) /\ NumbersOf(cloud[l]) \in Seq(Nat)
         /\ Stream(l) \in Seq(Nat) /\ Len(Stream(l)) \in Nat
<1>1. published[l] \in Seq(Nat) /\ cloud[l] \in Seq(Point)
  BY DEF TypeOK
<1>2. [no |-> 0, stamp |-> 0] \in Point
  BY DEF Point
<1>3. NumbersOf(cloud[l]) \in Seq(Nat)
  BY <1>1, <1>2, Numbering
<1>4. \A x, y \in Seq(Nat) : x \o y \in Seq(Nat) /\ Len(x \o y) \in Nat
  OBVIOUS
<1> QED  BY <1>1, <1>3, <1>4 DEF Stream

(* A publication moves points along their streams. *)
LEMMA PublishStreams ==
  ASSUME TypeOK, NEW S, Publish(S), NEW l \in Lidars
  PROVE  Stream(l)' = Stream(l)
<1>1. [no |-> 0, stamp |-> 0] \in Point /\ <<>> \in Seq(Point)
  BY DEF Point
<1>2. NumbersOf(<<>>) = <<>>
  BY <1>1, Numbering
<1>3. published[l] \in Seq(Nat) /\ NumbersOf(cloud[l]) \in Seq(Nat)
  BY StreamTypes
<1>4. CASE l \in S
  <2>1. published'[l] = published[l] \o NumbersOf(cloud[l])
        /\ cloud'[l] = <<>>
    BY <1>4 DEF Publish
  <2>2. NumbersOf(cloud'[l]) = <<>>
    BY <1>2, <2>1
  <2>3. (published[l] \o NumbersOf(cloud[l])) \o <<>> =
          published[l] \o NumbersOf(cloud[l])
    BY <1>3
  <2> QED  BY <2>1, <2>2, <2>3 DEF Stream
<1>5. CASE l \notin S
  BY <1>5 DEF Publish, Stream
<1> QED  BY <1>4, <1>5

(* What is said of one LiDAR: the part StreamsKept has for it, and that no *)
(* point is published before it was sent.                                  *)
Kept(l) ==
  /\ Stream(l) = [n \in 1..Len(Stream(l)) |-> n]
  /\ InLine(queue, l, Len(Stream(l)), sent[l])
  /\ Len(Stream(l)) <= sent[l]

Streams == \A l \in Lidars : Kept(l)

LEMMA EnqueueStreams ==
  ASSUME TypeOK, Streams, Enqueue, NEW l \in Lidars
  PROVE  Kept(l)'
<1> DEFINE k == Len(Stream(l))
           d == incoming.lidar
<1>1. /\ queue \in Seq(Raw) /\ sent \in [Lidars -> Nat] /\ sent[l] \in Nat
      /\ d \in Lidars /\ sent[d] \in Nat /\ k \in Nat
  BY StreamTypes DEF TypeOK, Enqueue
<1>2. k <= sent[l] /\ InLine(queue, l, k, sent[l])
      /\ Stream(l) = [n \in 1..k |-> n]
  BY DEF Streams, Kept
<1>3. Stream(l)' = Stream(l)
  BY DEF Enqueue, frameVars, Stream
<1>4. PICK t \in Stamps :
        IF incoming.kind = "points"
        THEN /\ sent' = [sent EXCEPT ![d] = @ + 1]
             /\ queue' = Append(queue, [lidar |-> d, no |-> sent[d] + 1,
                                        stamp |-> t])
        ELSE /\ queue' = Append(queue, [lidar |-> d, no |-> 0, stamp |-> t])
             /\ UNCHANGED sent
  BY DEF Enqueue
<1>5. t \in Nat
  BY FrameBuilderAssumption DEF TypeOK, Stamps, Times
<1>6. InLine(queue', l, k, sent'[l]) /\ k <= sent'[l]
  <2>1. CASE incoming.kind = "points"
    <3> DEFINE r == [lidar |-> d, no |-> sent[d] + 1, stamp |-> t]
    <3>1. r \in Raw /\ r.lidar = d /\ r.no = sent[d] + 1 /\ r.no # 0
      BY <1>1, <1>5 DEF Raw
    <3>2. queue' = Append(queue, r) /\ sent' = [sent EXCEPT ![d] = @ + 1]
      BY <1>4, <2>1
    <3> HIDE DEF r
    <3>3. CASE d = l
      <4>1. sent'[l] = sent[l] + 1
        BY <1>1, <3>2, <3>3
      <4>2. InLine(Append(queue, r), l, k, sent[l] + 1)
        BY <1>1, <1>2, <3>1, <3>3, Enqueued
      <4> QED  BY <1>1, <1>2, <3>2, <4>1, <4>2
    <3>4. CASE d # l
      <4>1. sent'[l] = sent[l]
        BY <1>1, <3>2, <3>4
      <4>2. InLine(Append(queue, r), l, k, sent[l])
        BY <1>1, <1>2, <3>1, <3>4, Enqueued
      <4> QED  BY <1>2, <3>2, <4>1, <4>2
    <3> QED  BY <3>3, <3>4
  <2>2. CASE incoming.kind # "points"
    <3> DEFINE r == [lidar |-> d, no |-> 0, stamp |-> t]
    <3>1. r \in Raw /\ r.no = 0
      BY <1>1, <1>5 DEF Raw
    <3>2. queue' = Append(queue, r) /\ sent' = sent
      BY <1>4, <2>2
    <3> HIDE DEF r
    <3>3. InLine(Append(queue, r), l, k, sent[l])
      BY <1>1, <1>2, <3>1, Enqueued
    <3> QED  BY <1>2, <3>2, <3>3
  <2> QED  BY <2>1, <2>2
<1> QED  BY <1>2, <1>3, <1>6 DEF Kept

LEMMA TakeStreams ==
  ASSUME TypeOK, Streams, Take, UNCHANGED <<sent, published>>,
         NEW l \in Lidars
  PROVE  Kept(l)'
<1> DEFINE k == Len(Stream(l))
           p == Head(queue)
           x == [no |-> p.no, stamp |-> p.stamp]
<1>1. /\ queue \in Seq(Raw) /\ queue # <<>> /\ queue' = Tail(queue)
      /\ cloud \in [Lidars -> Seq(Point)] /\ sent[l] \in Nat
      /\ published[l] \in Seq(Nat) /\ NumbersOf(cloud[l]) \in Seq(Nat)
      /\ k \in Nat
  BY StreamTypes DEF TypeOK, Take
<1>2. k <= sent[l] /\ InLine(queue, l, k, sent[l])
      /\ Stream(l) = [n \in 1..k |-> n]
  BY DEF Streams, Kept
<1>3. p \in Raw /\ p.no \in Nat /\ x \in Point /\ x.no = p.no
  <2>1. p \in Raw
    BY <1>1
  <2> QED  BY <2>1 DEF Raw, Point
<1>4. cloud' = IF p.no = 0 THEN cloud
               ELSE [cloud EXCEPT ![p.lidar] = Append(@, x)]
  BY DEF Take
<1> HIDE DEF p, x
<1>5. CASE p.lidar = l /\ p.no # 0
  <2>1. k < sent[l] /\ p.no = k + 1
        /\ InLine(Tail(queue), l, k + 1, sent[l])
    BY <1>1, <1>2, <1>5, Dequeued DEF p
  <2>2. cloud'[l] = Append(cloud[l], x)
    BY <1>1, <1>4, <1>5
  <2>3. NumbersOf(cloud'[l]) = Append(NumbersOf(cloud[l]), k + 1)
    BY <1>1, <1>3, <2>1, <2>2, Numbering
  <2>4. Stream(l)' = published[l] \o Append(NumbersOf(cloud[l]), k + 1)
    BY <2>3 DEF Stream
  <2>5. \A u, v \in Seq(Nat), m \in Nat :
          u \o Append(v, m) = Append(u \o v, m)
    OBVIOUS
  <2>6. Stream(l)' = Append([n \in 1..k |-> n], k + 1)
    <3>1. published[l] \o NumbersOf(cloud[l]) = [n \in 1..k |-> n]
      BY <1>2 DEF Stream
    <3>2. published[l] \o Append(NumbersOf(cloud[l]), k + 1) =
            Append(published[l] \o NumbersOf(cloud[l]), k + 1)
      <4>1. k + 1 \in Nat
        BY <1>1
      <4> HIDE DEF k
      <4> QED  BY <1>1, <2>5, <4>1
    <3> QED  BY <2>4, <3>1, <3>2
  <2>7. Append([n \in 1..k |-> n], k + 1) = [n \in 1..(k + 1) |-> n]
        /\ Len([n \in 1..(k + 1) |-> n]) = k + 1
    BY <1>1
  <2> QED  BY <1>1, <2>1, <2>6, <2>7 DEF Kept
<1>6. CASE p.lidar # l \/ p.no = 0
  <2>1. InLine(Tail(queue), l, k, sent[l])
    BY <1>1, <1>2, <1>6, Dequeued DEF p
  <2>2. cloud'[l] = cloud[l]
    BY <1>1, <1>4, <1>6
  <2>3. Stream(l)' = Stream(l)
    BY <2>2 DEF Stream, NumbersOf
  <2> QED  BY <1>1, <1>2, <2>1, <2>3 DEF Kept
<1> QED  BY <1>5, <1>6

LEMMA NextStreams == TypeOK /\ Streams /\ [Next]_vars => Streams'
<1> SUFFICES ASSUME TypeOK, Streams, [Next]_vars, NEW l \in Lidars
             PROVE  Kept(l)'
  BY DEF Streams
<1>1. CASE Enqueue
  BY <1>1, EnqueueStreams
<1>2. CASE Take /\ UNCHANGED <<sent, published>>
  BY <1>2, TakeStreams
<1>3. ASSUME NEW S, Publish(S), UNCHANGED <<queue, sent>>
      PROVE  Kept(l)'
  <2>1. Stream(l)' = Stream(l)
    BY <1>3, PublishStreams
  <2> QED  BY <1>3, <2>1 DEF Streams, Kept
<1>4. CASE UNCHANGED <<queue, sent, cloud, published>>
  BY <1>4 DEF Streams, Kept, Stream, NumbersOf
<1>5. CASE Loop \/ Wake
  BY <1>2, <1>4, <1>5 DEF Loop, Wake
<1>6. CASE CheckStamps
  BY <1>3, <1>4, <1>6 DEF CheckStamps, sdkVars, frameVars
<1>7. CASE PublishAll
  BY <1>3, <1>7 DEF PublishAll, sdkVars
<1>8. CASE Receive \/ StartTimer \/ NotYet \/ RemoveObserver \/ RequestExit
           \/ Join \/ Tick \/ UNCHANGED vars
  BY <1>4, <1>8 DEF Receive, StartTimer, NotYet, RemoveObserver, RequestExit,
                     Join, Tick, vars, sdkVars, frameVars
<1> QED  BY <1>1, <1>5, <1>6, <1>7, <1>8 DEF Next, BuilderStep

(* No point is lost, doubled or moved between the SDK and the frames,      *)
(* whatever the timers do and however the mode changes.                    *)
THEOREM StreamsInOrder == Spec => []StreamsKept
<1>1. Init => Streams
  <2> SUFFICES ASSUME Init, NEW l \in Lidars PROVE Kept(l)
    BY DEF Streams
  <2>1. published[l] = <<>> /\ cloud[l] = <<>> /\ queue = <<>>
        /\ sent[l] = 0
    BY DEF Init
  <2>2. Stream(l) = <<>> /\ Len(Stream(l)) = 0
    BY <2>1 DEF Stream, NumbersOf
  <2>3. Waiting(queue, l) = {}
    BY <2>1 DEF Waiting
  <2>4. InLine(queue, l, 0, 0)
    BY <2>3 DEF InLine
  <2>5. <<>> = [n \in 1..0 |-> n]
    OBVIOUS
  <2> QED  BY <2>1, <2>2, <2>4, <2>5 DEF Kept
<1>2. Streams => StreamsKept
  BY DEF Streams, Kept, StreamsKept
<1> QED  BY <1>1, <1>2, NextStreams, TypeCorrect, PTL DEF Spec
=============================================================================
