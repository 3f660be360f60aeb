--------------------------- MODULE SlamGraphProofs ---------------------------
(***************************************************************************)
(* What TLAPS proves of SlamGraph, for every launch, bag and bound.        *)
(***************************************************************************)
EXTENDS SlamGraph, SequenceTheorems, FiniteSetTheorems, WellFoundedInduction,
        TLAPS

Kinds == {"none", "full", "empty", "odd"}
Cloud == [id : Nat, kind : Kinds]

(* A half that waits is the LiDAR's last cloud, and newer than all of its  *)
(* clouds that were merged.                                                *)
HalvesInv ==
  /\ raw \in [1..2 -> Nat]
  /\ halves \in [1..2 -> Cloud]
  /\ \A l \in 1..2 : halves[l] # Merger!None => halves[l].id <= raw[l]

LidarShape == lidar = [i \in 1..Len(lidar) |-> lidar[i]] /\ Len(lidar) \in Nat

(* What was merged: clouds of a LiDAR that came before its waiting half.   *)
MergedInv ==
  /\ LidarShape
  /\ \A i \in DOMAIN lidar : \A x \in lidar[i].of :
       /\ x[1] \in 1..2 /\ x[2] \in Nat /\ x[2] <= raw[x[1]]
       /\ halves[x[1]] # Merger!None => x[2] < halves[x[1]].id

CloudsInv == HalvesInv /\ MergedInv /\ CloudsOnce

(* A scan that is appended keeps the order if all it is made of is newer   *)
(* than what was merged before.                                            *)
LEMMA AppendOnce ==
  ASSUME LidarShape, CloudsOnce, NEW c, lidar' = Append(lidar, c),
         \A i \in DOMAIN lidar : \A x \in lidar[i].of, y \in c.of :
            x[1] = y[1] => x[2] < y[2]
  PROVE  /\ LidarShape' /\ CloudsOnce'
         /\ \A i \in DOMAIN lidar' : \A x \in lidar'[i].of :
              x \in c.of \/ \E j \in DOMAIN lidar : x \in lidar[j].of
<1>1. lidar \in Seq({lidar[i] : i \in 1..Len(lidar)} \cup {c})
  BY DEF LidarShape
<1>2. /\ lidar' \in Seq({lidar[i] : i \in 1..Len(lidar)} \cup {c})
      /\ Len(lidar') = Len(lidar) + 1
      /\ \A i \in 1..Len(lidar) : lidar'[i] = lidar[i]
      /\ lidar'[Len(lidar) + 1] = c
  BY <1>1
<1>3. DOMAIN lidar = 1..Len(lidar) /\ DOMAIN lidar' = 1..(Len(lidar) + 1)
  BY <1>1, <1>2
<1>4. LidarShape'
  <2>1. lidar' \in [1..Len(lidar')
                       -> {lidar[i] : i \in 1..Len(lidar)} \cup {c}]
    BY <1>2, LenProperties
  <2>2. Len(lidar') \in Nat
    BY <1>2
  <2> QED  BY <2>1, <2>2 DEF LidarShape
<1>5. ASSUME NEW i \in DOMAIN lidar', NEW j \in DOMAIN lidar', i < j,
             NEW x \in lidar'[i].of, NEW y \in lidar'[j].of, x[1] = y[1]
      PROVE  x[2] < y[2]
  <2>0. Len(lidar) \in Nat
    BY DEF LidarShape
  <2>1. i \in DOMAIN lidar /\ lidar'[i] = lidar[i]
    BY <1>2, <1>3, <1>5, <2>0
  <2>2. CASE j \in DOMAIN lidar
    <3>1. lidar'[j] = lidar[j]
      BY <1>2, <1>3, <2>2
    <3> QED  BY <1>5, <2>1, <2>2, <3>1 DEF CloudsOnce, Merger!CloudsOnce
  <2>3. CASE j = Len(lidar) + 1
    BY <1>2, <1>5, <2>1, <2>3
  <2> QED  BY <1>3, <2>0, <2>2, <2>3
<1>6. CloudsOnce'
  BY <1>5 DEF CloudsOnce, Merger!CloudsOnce
<1>7. ASSUME NEW i \in DOMAIN lidar', NEW x \in lidar'[i].of
      PROVE  x \in c.of \/ \E j \in DOMAIN lidar : x \in lidar[j].of
  <2>0. Len(lidar) \in Nat
    BY DEF LidarShape
  <2> QED  BY <1>2, <1>3, <1>7, <2>0
<1> QED  BY <1>4, <1>6, <1>7

(* A cloud that comes is newer than all of its LiDAR that were merged, and *)
(* so is the half that waited for it.                                      *)
LEMMA MergerKeeps == CloudsInv /\ Merger!Next => CloudsInv'
<1> SUFFICES ASSUME CloudsInv, NEW l \in 1..2, Merger!cb_cloud(l)
             PROVE  CloudsInv'
  BY DEF Merger!Next
<1>1. PICK kind \in {"full", "empty", "odd"} :
        LET pair == [halves EXCEPT ![l] = [id |-> raw[l] + 1, kind |-> kind]]
        IN  /\ lidar' = lidar \o Merger!Merged(pair)
            /\ halves' = Merger!After(pair)
  BY DEF Merger!cb_cloud
<1> DEFINE pair == [halves EXCEPT ![l] = [id |-> raw[l] + 1, kind |-> kind]]
<1>2. lidar' = lidar \o Merger!Merged(pair) /\ halves' = Merger!After(pair)
  BY <1>1
<1>3. /\ raw' = [raw EXCEPT ![l] = @ + 1] /\ raw' \in [1..2 -> Nat]
      /\ \A k \in 1..2 : raw[k] \in Nat /\ raw'[k] >= raw[k]
      /\ raw'[l] = raw[l] + 1
  BY DEF Merger!cb_cloud, CloudsInv, HalvesInv
<1>4. /\ pair \in [1..2 -> Cloud]
      /\ pair[l].id = raw[l] + 1
      /\ \A k \in 1..2 : k # l => pair[k] = halves[k]
  BY <1>3 DEF CloudsInv, HalvesInv, Cloud, Kinds
<1>5. \A k \in 1..2 : pair[k] # Merger!None => pair[k].id <= raw'[k]
  BY <1>3, <1>4 DEF CloudsInv, HalvesInv, Cloud
<1>6. \A i \in DOMAIN lidar : \A x \in lidar[i].of :
        /\ x[1] \in 1..2 /\ x[2] \in Nat /\ x[2] <= raw'[x[1]]
        /\ pair[x[1]] # Merger!None => x[2] < pair[x[1]].id
  <2> SUFFICES ASSUME NEW i \in DOMAIN lidar, NEW x \in lidar[i].of
               PROVE  /\ x[1] \in 1..2 /\ x[2] \in Nat /\ x[2] <= raw'[x[1]]
                      /\ pair[x[1]] # Merger!None => x[2] < pair[x[1]].id
    OBVIOUS
  <2>1. /\ x[1] \in 1..2 /\ x[2] \in Nat /\ x[2] <= raw[x[1]]
        /\ halves[x[1]] # Merger!None => x[2] < halves[x[1]].id
    BY DEF CloudsInv, MergedInv
  <2>2. CASE x[1] = l
    BY <1>3, <1>4, <2>1, <2>2
  <2>3. CASE x[1] # l
    BY <1>3, <1>4, <2>1, <2>3
  <2> QED  BY <2>2, <2>3
<1>7. halves' \in [1..2 -> Cloud]
      /\ \A k \in 1..2 : halves'[k] # Merger!None => halves'[k] = pair[k]
  <2>1. Merger!None \in Cloud
    BY DEF Merger!None, Cloud, Kinds
  <2> HIDE DEF pair
  <2>2. CASE halves' = pair
    BY <1>4, <2>2
  <2>3. CASE halves' = <<Merger!None, Merger!None>>
    BY <2>1, <2>3
  <2> QED  BY <1>2, <2>2, <2>3 DEF Merger!After
<1>8. HalvesInv'
  BY <1>3, <1>5, <1>7 DEF HalvesInv, Merger!None
<1> HIDE DEF pair
<1>9. CASE Merger!Merged(pair) = <<>>
  <2>1. lidar' = lidar
    BY <1>2, <1>9 DEF CloudsInv, MergedInv, LidarShape
  <2> QED
    BY <1>6, <1>7, <1>8, <2>1
    DEF CloudsInv, MergedInv, LidarShape, CloudsOnce, Merger!CloudsOnce,
        Merger!None
<1>10. CASE Merger!Merged(pair) # <<>>
  <2>1. Merger!None \notin {pair[1], pair[2]}
    BY <1>10 DEF Merger!Merged
  <2> DEFINE c == [stamp |-> now, kind |-> "full",
                   of |-> {<<k, pair[k].id>> :
                             k \in {m \in 1..2 : pair[m].kind = "full"}}]
  <2>2. Merger!Merged(pair) = <<c>>
    BY <1>10 DEF Merger!Merged
  <2>3. \A y \in c.of : y[1] \in 1..2 /\ y[2] = pair[y[1]].id
    OBVIOUS
  <2> HIDE DEF c
  <2>4. lidar' = Append(lidar, c)
    BY <1>2, <2>2 DEF CloudsInv, MergedInv, LidarShape
  <2>5. \A k \in 1..2 : pair[k] # Merger!None
    BY <2>1
  <2>6. \A i \in DOMAIN lidar : \A x \in lidar[i].of, y \in c.of :
          x[1] = y[1] => x[2] < y[2]
    BY <1>6, <2>3, <2>5
  <2>7. /\ LidarShape' /\ CloudsOnce'
        /\ \A i \in DOMAIN lidar' : \A x \in lidar'[i].of :
              x \in c.of \/ \E j \in DOMAIN lidar : x \in lidar[j].of
    BY <2>4, <2>6, AppendOnce DEF CloudsInv, MergedInv
  <2>8. halves' = <<Merger!None, Merger!None>>
    BY <1>2, <2>1 DEF Merger!After
  <2>9. \A k \in 1..2 : halves'[k] = Merger!None
    BY <2>8
  <2>10. \A y \in c.of : y[1] \in 1..2 /\ y[2] \in Nat /\ y[2] <= raw'[y[1]]
    BY <1>4, <1>5, <2>3, <2>5 DEF Cloud
  <2>11. MergedInv'
    BY <1>6, <2>7, <2>9, <2>10 DEF MergedInv, Merger!None
  <2> QED  BY <1>8, <2>7, <2>11 DEF CloudsInv
<1> QED  BY <1>9, <1>10

(* The player sends scans that no LiDAR's clouds are in. *)
LEMMA PlayKeeps == CloudsInv /\ Play => CloudsInv'
<1> SUFFICES ASSUME CloudsInv, Play PROVE CloudsInv'
  OBVIOUS
<1> DEFINE c == [stamp |-> Bag.lidar[Len(lidar) + 1], kind |-> "full", of |-> {}]
<1>1. lidar' = Append(lidar, c) /\ UNCHANGED <<halves, raw>> /\ c.of = {}
  BY DEF Play, mergerVars
<1> HIDE DEF c
<1>2. /\ LidarShape' /\ CloudsOnce'
      /\ \A i \in DOMAIN lidar' : \A x \in lidar'[i].of :
           x \in c.of \/ \E j \in DOMAIN lidar : x \in lidar[j].of
  BY <1>1, AppendOnce DEF CloudsInv, MergedInv
<1>3. MergedInv'
  BY <1>1, <1>2 DEF CloudsInv, MergedInv, Merger!None
<1> QED
  BY <1>1, <1>2, <1>3 DEF CloudsInv, HalvesInv, Merger!None

(* No other node writes the clouds. *)
LEMMA OthersKeepClouds ==
  ASSUME CloudsInv, UNCHANGED <<halves, raw, lidar>>
  PROVE  CloudsInv'
BY DEF CloudsInv, HalvesInv, MergedInv, LidarShape, CloudsOnce,
       Merger!CloudsOnce, Merger!None

(* The mesh builder only reads the topics, and the SLAM node the clouds.   *)
LEMMA MeshReads == Mesh!Next => UNCHANGED <<odom, lidar>>
BY DEF Mesh!Next, Mesh!Call, Mesh!Signal, Mesh!Step, Mesh!TakePosesLock,
       Mesh!TakeScansLock, Mesh!_on_odom, Mesh!_on_lidar, Mesh!SnapshotPoses,
       Mesh!SnapshotScans, Mesh!OpenTmp, Mesh!WriteRow, Mesh!Replace,
       Mesh!OpenRec, Mesh!WriteRec, Mesh!Tool, Mesh!Nvblox, Mesh!Return,
       Mesh!Exit

LEMMA SlamReads == Slam!Next => UNCHANGED <<now, lidar>>
BY DEF Slam!Next, Slam!onLidar, Slam!publishStartupTf, Slam!publishObstacles

(* The facts about clouds hold at the start and ever after.                *)
LEMMA CloudsStart == Init => CloudsInv
<1> SUFFICES ASSUME Init PROVE CloudsInv
  OBVIOUS
<1>1. halves = <<Merger!None, Merger!None>> /\ raw = <<0, 0>> /\ lidar = <<>>
  BY DEF Init, Merger!Init
<1>2. HalvesInv
  BY <1>1 DEF HalvesInv, Cloud, Kinds, Merger!None
<1> QED
  BY <1>1, <1>2 DEF CloudsInv, MergedInv, LidarShape, CloudsOnce, Merger!CloudsOnce

LEMMA CloudsStep == CloudsInv /\ [Next]_vars => CloudsInv'
<1> SUFFICES ASSUME CloudsInv, [Next]_vars PROVE CloudsInv'
  OBVIOUS
<1>1. CASE Play
  BY <1>1, PlayKeeps
<1>2. CASE MergerStep
  BY <1>2, MergerKeeps DEF MergerStep
<1>3. CASE Tick \/ BridgeStep \/ UNCHANGED vars
  BY <1>3, OthersKeepClouds DEF Tick, BridgeStep, vars, mergerVars
<1>4. CASE SlamStep
  BY <1>4, SlamReads, OthersKeepClouds DEF SlamStep, mergerVars
<1>5. CASE MeshStep
  BY <1>5, MeshReads, OthersKeepClouds DEF MeshStep, mergerVars
<1> QED  BY <1>1, <1>2, <1>3, <1>4, <1>5 DEF Next

LEMMA CloudsAlways == Spec => []CloudsInv
BY CloudsStart, CloudsStep, PTL DEF Spec

(* No cloud of a LiDAR is merged twice, and all in the order they came in, *)
(* for any number of clouds.                                               *)
THEOREM MergedOnce == Spec => []CloudsOnce
<1>1. CloudsInv => CloudsOnce
  BY DEF CloudsInv
<1> QED  BY <1>1, CloudsAlways, PTL

-----------------------------------------------------------------------------
(* The SLAM node has sent transforms for scans it has taken only, and the  *)
(* stamp of the last pose is that of the transform, which the heartbeat    *)
(* leaves alone from the first pose with a stamp on.                       *)
SlamInv ==
  /\ now \in Nat
  /\ slam.read \in Nat /\ slam.last \in Nat
  /\ slam = [read |-> slam.read, last |-> slam.last,
             heartbeat |-> slam.heartbeat, map |-> slam.map]
  /\ tf.pose \in Nat /\ tf.pose <= slam.read
  /\ tf.pose > 0 => tf.stamp = slam.last
  /\ slam.last > 0 => tf.stamp = slam.last /\ tf.pose > 0

(* What a step of the SLAM node keeps and may not do.                      *)
LEMMA SlamKeeps ==
  ASSUME SlamInv, Slam!Next, Len(lidar) \in Nat
  PROVE  /\ SlamInv'
         /\ tf.pose > 0 /\ tf.stamp > 0 => tf'.pose >= tf.pose
         /\ slam.last > 0 /\ obstacles' # obstacles => obstacles' = tf.stamp
<1>1. CASE Slam!onLidar
  <2>1. PICK k \in slam.read + 1 .. Len(lidar) : Slam!NoPose(k) \/ Slam!Pose(k)
    BY <1>1 DEF Slam!onLidar
  <2>2. k \in Nat /\ k > slam.read /\ UNCHANGED <<now, obstacles>>
    BY <1>1, <2>1 DEF SlamInv, Slam!onLidar
  <2>3. CASE Slam!NoPose(k)
    <3>1. /\ tf' = tf /\ slam'.read = k /\ slam'.last = slam.last
          /\ slam' = [read |-> slam'.read, last |-> slam'.last,
                      heartbeat |-> slam'.heartbeat, map |-> slam'.map]
      BY <2>3 DEF Slam!NoPose, SlamInv
    <3> QED  BY <2>2, <3>1 DEF SlamInv
  <2>4. CASE Slam!Pose(k)
    <3>1. /\ tf' = [pose |-> k, stamp |-> now]
          /\ slam'.read = k /\ slam'.last = now
          /\ slam' = [read |-> slam'.read, last |-> slam'.last,
                      heartbeat |-> slam'.heartbeat, map |-> slam'.map]
      BY <2>4 DEF Slam!Pose, SlamInv
    <3> QED  BY <2>2, <3>1 DEF SlamInv
  <2> QED  BY <2>1, <2>3, <2>4
<1>2. CASE Slam!publishStartupTf
  <2>1. CASE slam.last > 0
    <3>1. /\ tf' = tf /\ slam'.read = slam.read /\ slam'.last = slam.last
          /\ slam' = [read |-> slam'.read, last |-> slam'.last,
                      heartbeat |-> slam'.heartbeat, map |-> slam'.map]
      BY <1>2, <2>1 DEF Slam!publishStartupTf, SlamInv
    <3> QED  BY <1>2, <3>1 DEF Slam!publishStartupTf, SlamInv
  <2>2. CASE slam.last = 0
    <3>1. /\ tf' = [pose |-> 0, stamp |-> now]
          /\ UNCHANGED <<slam, now, obstacles>>
      BY <1>2, <2>2 DEF Slam!publishStartupTf
    <3> QED  BY <2>2, <3>1 DEF SlamInv
  <2> QED  BY <2>1, <2>2 DEF SlamInv
<1>3. CASE Slam!publishObstacles
  BY <1>3 DEF Slam!publishObstacles, SlamInv
<1> QED  BY <1>1, <1>2, <1>3 DEF Slam!Next

(* Every step keeps SlamInv, and does to the transforms and the obstacles  *)
(* only what the SLAM node may do.                                         *)
LEMMA SlamInvStep ==
  ASSUME CloudsInv, SlamInv, [Next]_vars
  PROVE  /\ SlamInv'
         /\ tf.pose > 0 /\ tf.stamp > 0 => tf'.pose >= tf.pose
         /\ slam.last > 0 /\ obstacles' # obstacles => obstacles' = tf.stamp
<1>0. Len(lidar) \in Nat
  BY DEF CloudsInv, MergedInv, LidarShape
<1>1. CASE SlamStep
  BY <1>0, <1>1, SlamKeeps DEF SlamStep
<1>2. CASE UNCHANGED <<slam, tf, obstacles>> /\ now' \in {now, now + 1}
  BY <1>2 DEF SlamInv
<1>3. CASE Play \/ MeshStep \/ BridgeStep \/ UNCHANGED vars
  BY <1>2, <1>3 DEF Play, MeshStep, BridgeStep, vars, slamVars
<1>4. CASE MergerStep \/ Tick
  BY <1>2, <1>4 DEF MergerStep, Merger!Next, Merger!cb_cloud, Tick, slamVars
<1> QED  BY <1>1, <1>3, <1>4 DEF Next

(* Once a pose was sent, the transforms never go back to the identity or   *)
(* to an earlier scan, and the obstacles come with the stamp of the        *)
(* transform sent last, for any launch and any bag.                        *)
THEOREM PoseNeverBack == Spec => PoseStays
<1>1. Init => SlamInv
  BY DEF Init, Slam!Init, SlamInv
<1>2. CloudsInv /\ SlamInv /\ [Next]_vars => SlamInv'
  BY SlamInvStep
<1>3. CloudsInv /\ SlamInv /\ [Next]_vars =>
        [/\ tf.pose > 0 /\ tf.stamp > 0 => tf'.pose >= tf.pose
         /\ slam.last > 0 /\ obstacles' # obstacles => obstacles' = tf.stamp]_vars
  BY SlamInvStep
<1> QED  BY <1>1, <1>2, <1>3, CloudsAlways, PTL DEF Spec, PoseStays
-----------------------------------------------------------------------------
(* The mesh builder.  At most two activations are on the main thread: a    *)
(* callback, and the signal handler on top of it.  Both may build.         *)
Places == {"start", "poses", "between", "scans", "tmp", "rows", "rec", "scan",
           "tool", "done", "failed"}

(* Where a build is until it has moved its trajectory into place, and      *)
(* where it works with its snapshot of the poses.                          *)
Early == {"start", "poses", "between", "scans", "tmp", "rows"}
Snapped == {"between", "scans", "tmp", "rows"}

Act == [what : {"odom", "lidar", "service", "shutdown"}, at : Places,
        poses : Seq(Nat), scans : Seq(Nat), inode : Nat, rows : Nat]

(* The file f has the first n poses of p. *)
Starts(f, p, n) ==
  /\ f \in Seq(Nat) /\ Len(f) = n /\ n <= Len(p)
  /\ \A k \in 1..n : f[k] = p[k]

MeshTyped ==
  /\ poses \in Seq(Nat) /\ scans \in Seq(Nat) /\ stack \in Seq(Act)
  /\ taken = [odom |-> taken.odom, lidar |-> taken.lidar]
  /\ taken.odom \in Nat /\ taken.lidar \in Nat
  /\ node = [ok |-> node.ok, triggered |-> node.triggered,
             builds |-> node.builds, exited |-> node.exited, opt |-> node.opt]
  /\ node.triggered \in BOOLEAN
  /\ files = [inodes |-> files.inodes, tmp |-> files.tmp, tum |-> files.tum,
              rec |-> files.rec, mesh |-> files.mesh]
  /\ files.inodes \in Seq(Seq(Nat)) /\ files.tmp \in Nat /\ files.tum \in Nat

(* Only the signal handler interrupts, and only once. *)
StackShape ==
  /\ Len(stack) <= 2
  /\ Len(stack) = 2 => stack[2].what = "shutdown" /\ node.triggered
  /\ \A i \in DOMAIN stack : stack[i].what = "shutdown" =>
       i = Len(stack) /\ node.triggered

(* While a build is under way no pose is added, so its snapshot is all.    *)
Snapshots ==
  \A i \in DOMAIN stack :
    /\ stack[i].what \in Mesh!Builds /\ stack[i].at \in Snapped
         => stack[i].poses = poses
    /\ stack[i].at \in {"tmp", "rows"} =>
         stack[i].what \in Mesh!Builds /\ stack[i].poses # <<>>
    /\ stack[i].at \in Early \ {"rows"} => stack[i].rows = 0

(* A build that writes is in the temporary file, which it, or the build on *)
(* top of it that writes too, has filled up to where it is; or that file   *)
(* was moved into place, whole, by a build on top of it that is past that. *)
Writing(i) == i \in DOMAIN stack /\ stack[i].at = "rows"

Writers ==
  \A i \in DOMAIN stack : Writing(i) =>
    /\ stack[i].inode \in DOMAIN files.inodes
    /\ stack[i].rows <= Len(stack[i].poses)
    /\ /\ stack[i].inode = files.tmp
       /\ i = Len(stack) \/ stack[Len(stack)].at # "rows"
       => Starts(files.inodes[files.tmp], poses, stack[i].rows)
    /\ stack[i].inode # files.tmp =>
         /\ files.tmp = 0 /\ stack[i].inode = files.tum
         /\ Starts(files.inodes[files.tum], poses, Len(poses))
         /\ node.triggered
         /\ i = Len(stack) \/ stack[Len(stack)].at \notin Early

(* The names are of different files, and the trajectory has the first      *)
(* poses of the session.                                                   *)
Names ==
  /\ files.tmp # 0 => files.tmp \in DOMAIN files.inodes /\ files.tmp # files.tum
  /\ files.tum # 0 =>
       /\ files.tum \in DOMAIN files.inodes
       /\ files.inodes[files.tum] # <<>>
       /\ Starts(files.inodes[files.tum], poses, Len(files.inodes[files.tum]))

WholeInv == MeshTyped /\ StackShape /\ Snapshots /\ Writers /\ Names

(* An element of a sequence is replaced. *)
LEMMA SeqChanged ==
  ASSUME NEW S, NEW s \in Seq(S), NEW i \in 1..Len(s), NEW v \in S,
         NEW t, t = [s EXCEPT ![i] = v]
  PROVE  /\ t \in Seq(S) /\ Len(t) = Len(s)
         /\ DOMAIN s = 1..Len(s) /\ DOMAIN t = DOMAIN s
         /\ t[i] = v /\ \A k \in DOMAIN s : k # i => t[k] = s[k]
  OBVIOUS

LEMMA RowsChanged ==
  ASSUME NEW t \in Act, NEW r \in Nat
  PROVE  LET a == [t EXCEPT !.rows = r]
         IN  /\ a \in Act /\ a.at = t.at /\ a.what = t.what
             /\ a.inode = t.inode /\ a.poses = t.poses /\ a.rows = r
  BY DEF Act

(* The activation on top is replaced by a. *)
LEMMA TopChanged ==
  ASSUME stack \in Seq(Act), stack # <<>>, NEW a \in Act,
         stack' = [stack EXCEPT ![Len(stack)] = a]
  PROVE  /\ Len(stack) \in Nat \ {0}
         /\ stack' \in Seq(Act) /\ Len(stack') = Len(stack)
         /\ DOMAIN stack = 1..Len(stack) /\ DOMAIN stack' = 1..Len(stack)
         /\ stack'[Len(stack)] = a
         /\ \A i \in DOMAIN stack : i # Len(stack) => stack'[i] = stack[i]
         /\ \A i \in DOMAIN stack : stack[i] \in Act
  OBVIOUS

(* A step of the running build that is not about the trajectory. *)
LEMMA QuietTop ==
  ASSUME WholeInv, stack # <<>>, NEW a \in Act,
         stack' = [stack EXCEPT ![Len(stack)] = a],
         a.what = Mesh!Top.what, a.at # "rows",
         Mesh!Top.at # "rows" \/ files.tmp = 0,
         a.at \in Early => Mesh!Top.at \in Early /\ a.rows = 0,
         a.what \in Mesh!Builds /\ a.at \in Snapped => a.poses = poses,
         a.at = "tmp" => a.what \in Mesh!Builds /\ a.poses # <<>>,
         UNCHANGED <<poses, scans, taken, node>>,
         files' = [inodes |-> files.inodes, tmp |-> files.tmp,
                   tum |-> files.tum, rec |-> files'.rec, mesh |-> files'.mesh]
  PROVE  WholeInv'
<1> DEFINE n == Len(stack)
<1>1. /\ n \in Nat \ {0}
      /\ stack' \in Seq(Act) /\ Len(stack') = n
      /\ DOMAIN stack = 1..n /\ DOMAIN stack' = 1..n
      /\ stack'[n] = a
      /\ \A i \in DOMAIN stack : i # n => stack'[i] = stack[i]
  BY TopChanged DEF WholeInv, MeshTyped
<1>2. Mesh!Top = stack[n]
  BY DEF Mesh!Top
<1>3. files'.inodes = files.inodes /\ files'.tmp = files.tmp /\ files'.tum = files.tum
  OBVIOUS
<1>4. MeshTyped'
  BY <1>1, <1>3 DEF WholeInv, MeshTyped
<1> HIDE DEF n
<1>5. StackShape'
  BY <1>1, <1>2 DEF WholeInv, StackShape, n
<1>6. Snapshots'
  BY <1>1, <1>2 DEF WholeInv, Snapshots, Early, Snapped
<1>7. Names'
  BY <1>3 DEF WholeInv, Names, Starts
<1>8. Writers'
  <2> SUFFICES ASSUME NEW i \in DOMAIN stack', stack'[i].at = "rows"
               PROVE  /\ stack'[i].inode \in DOMAIN files'.inodes
                      /\ stack'[i].rows <= Len(stack'[i].poses)
                      /\ /\ stack'[i].inode = files'.tmp
                         /\ i = Len(stack') \/ stack'[Len(stack')].at # "rows"
                         => Starts(files'.inodes[files'.tmp], poses', stack'[i].rows)
                      /\ stack'[i].inode # files'.tmp =>
                           /\ files'.tmp = 0 /\ stack'[i].inode = files'.tum
                           /\ Starts(files'.inodes[files'.tum], poses', Len(poses'))
                           /\ node'.triggered
                           /\ i = Len(stack') \/ stack'[Len(stack')].at \notin Early
    BY DEF Writers, Writing
  <2>1. i # n /\ stack'[i] = stack[i] /\ i \in DOMAIN stack /\ Writing(i)
    BY <1>1 DEF Writing
  <2>2. /\ stack[i].inode \in DOMAIN files.inodes
        /\ stack[i].rows <= Len(stack[i].poses)
        /\ /\ stack[i].inode = files.tmp
           /\ i = n \/ stack[n].at # "rows"
           => Starts(files.inodes[files.tmp], poses, stack[i].rows)
        /\ stack[i].inode # files.tmp =>
             /\ files.tmp = 0 /\ stack[i].inode = files.tum
             /\ Starts(files.inodes[files.tum], poses, Len(poses))
             /\ node.triggered
             /\ i = n \/ stack[n].at \notin Early
    BY <2>1 DEF WholeInv, Writers, n
  <2>3. stack[i].inode # 0
    BY <2>2 DEF WholeInv, MeshTyped
  <2> QED  BY <1>1, <1>2, <1>3, <2>1, <2>2, <2>3
<1> QED  BY <1>4, <1>5, <1>6, <1>7, <1>8 DEF WholeInv

(* A callback starts, or the signal handler on top of one. *)
LEMMA Pushed ==
  ASSUME WholeInv, NEW what \in {"odom", "lidar", "service", "shutdown"},
         stack' = Append(stack, Mesh!Activation(what)),
         IF what = "shutdown" THEN ~node.triggered /\ node'.triggered
                              ELSE stack = <<>> /\ node'.triggered = node.triggered,
         node' = [ok |-> node'.ok, triggered |-> node'.triggered,
                  builds |-> node'.builds, exited |-> node'.exited,
                  opt |-> node'.opt],
         taken' = [odom |-> taken'.odom, lidar |-> taken'.lidar],
         taken'.odom \in Nat, taken'.lidar \in Nat,
         UNCHANGED <<poses, scans, files>>
  PROVE  WholeInv'
<1> DEFINE n == Len(stack)
           a == Mesh!Activation(what)
<1>0. <<>> \in Seq(Nat)
  OBVIOUS
<1>1. a \in Act /\ a.at = "start" /\ a.what = what /\ a.rows = 0
  BY <1>0 DEF Mesh!Activation, Act, Places
<1> HIDE DEF a
<1>2. /\ n \in Nat /\ stack' \in Seq(Act) /\ Len(stack') = n + 1
      /\ DOMAIN stack = 1..n /\ DOMAIN stack' = 1..(n + 1)
      /\ stack'[n + 1] = a
      /\ \A i \in DOMAIN stack : stack'[i] = stack[i]
  BY <1>1 DEF WholeInv, MeshTyped, a
<1> HIDE DEF n
<1>3. n <= 1
  BY <1>2 DEF WholeInv, StackShape, n
<1>4. MeshTyped' /\ Names'
  BY <1>2 DEF WholeInv, MeshTyped, Names, Starts
<1>5. StackShape'
  BY <1>1, <1>2, <1>3 DEF WholeInv, StackShape, n
<1>6. Snapshots'
  BY <1>1, <1>2 DEF WholeInv, Snapshots, Snapped
<1>7. Writers'
  <2> SUFFICES ASSUME NEW i \in DOMAIN stack', stack'[i].at = "rows"
               PROVE  /\ stack'[i].inode \in DOMAIN files.inodes
                      /\ stack'[i].rows <= Len(stack'[i].poses)
                      /\ stack'[i].inode = files.tmp
                      /\ Starts(files.inodes[files.tmp], poses, stack'[i].rows)
    BY <1>2 DEF Writers, Writing, Starts
  <2>1. i \in DOMAIN stack /\ stack'[i] = stack[i] /\ i = n /\ n = 1
    BY <1>1, <1>2, <1>3
  <2>2. what = "shutdown" /\ ~node.triggered
    BY <1>2, <2>1 DEF n
  <2> QED  BY <2>1, <2>2 DEF WholeInv, Writers, Writing, n
<1> QED  BY <1>4, <1>5, <1>6, <1>7 DEF WholeInv

(* The activation on top ends; a callback that is the only one may have    *)
(* added a pose or a scan.                                                 *)
LEMMA Popped ==
  ASSUME WholeInv, stack # <<>>, stack' = Mesh!Below, Mesh!Top.at # "rows",
         \/ poses' = poses
         \/ Len(stack) = 1 /\ poses' = Append(poses, taken.odom),
         scans' \in Seq(Nat),
         node' = [ok |-> node'.ok, triggered |-> node.triggered,
                  builds |-> node'.builds, exited |-> node'.exited,
                  opt |-> node'.opt],
         UNCHANGED <<taken, files>>
  PROVE  WholeInv'
<1> DEFINE n == Len(stack)
<1>1. /\ n \in Nat \ {0} /\ stack' \in Seq(Act) /\ Len(stack') = n - 1
      /\ DOMAIN stack = 1..n /\ DOMAIN stack' = 1..(n - 1)
      /\ \A i \in DOMAIN stack' : stack'[i] = stack[i] /\ i \in DOMAIN stack
  <2>1. stack \in Seq(Act) /\ n \in Nat \ {0} /\ DOMAIN stack = 1..n
    BY DEF WholeInv, MeshTyped
  <2>2. stack' = SubSeq(stack, 1, n - 1)
    BY DEF Mesh!Below
  <2> HIDE DEF n
  <2>3. n - 1 \in 0..n /\ \A i \in 1..(n - 1) : i \in 1..n
    BY <2>1
  <2>4. stack' \in Seq(Act) /\ Len(stack') = n - 1
        /\ \A i \in 1..(n - 1) : stack'[i] = stack[i]
    BY <2>1, <2>2, <2>3
  <2> QED  BY <2>1, <2>3, <2>4
<1>2. Mesh!Top = stack[n]
  BY DEF Mesh!Top
<1> HIDE DEF n
<1>3. n <= 2
  BY DEF WholeInv, StackShape, n
<1>4. poses' \in Seq(Nat)
  <2>1. poses \in Seq(Nat) /\ taken.odom \in Nat
    BY DEF WholeInv, MeshTyped
  <2>2. Append(poses, taken.odom) \in Seq(Nat)
    BY <2>1
  <2> QED  BY <2>1, <2>2
<1>5. MeshTyped'
  BY <1>1, <1>4 DEF WholeInv, MeshTyped
<1>6. StackShape'
  <2>1. \A i \in DOMAIN stack' : stack'[i].what # "shutdown"
    BY <1>1 DEF WholeInv, StackShape, n
  <2> QED  BY <1>1, <1>3, <2>1 DEF StackShape
<1>7. Names'
  <2>1. CASE poses' = poses
    BY <2>1 DEF WholeInv, Names, Starts
  <2>2. CASE poses' = Append(poses, taken.odom)
    <3>1. /\ Len(poses') = Len(poses) + 1 /\ Len(poses) \in Nat
          /\ \A k \in 1..Len(poses) : poses'[k] = poses[k]
      BY <2>2 DEF WholeInv, MeshTyped
    <3>2. ASSUME NEW f, NEW m \in Nat, Starts(f, poses, m) PROVE Starts(f, poses', m)
      <4>1. /\ f \in Seq(Nat) /\ Len(f) = m /\ m <= Len(poses)
            /\ \A k \in 1..m : f[k] = poses[k]
        BY <3>2 DEF Starts
      <4>2. m <= Len(poses') /\ \A k \in 1..m : k \in 1..Len(poses)
        BY <3>1, <4>1
      <4>3. \A k \in 1..m : f[k] = poses'[k]
        BY <3>1, <4>1, <4>2
      <4> QED  BY <4>1, <4>2, <4>3 DEF Starts
    <3>3. CASE files.tum = 0
      BY <3>3 DEF WholeInv, Names
    <3>4. CASE files.tum # 0
      <4> DEFINE f == files.inodes[files.tum]
      <4>1. f # <<>> /\ Starts(f, poses, Len(f)) /\ files.tum \in DOMAIN files.inodes
        BY <3>4 DEF WholeInv, Names
      <4>2. Len(f) \in Nat
        BY <4>1 DEF Starts
      <4> HIDE DEF f
      <4>3. Starts(f, poses', Len(f))
        BY <3>2, <4>1, <4>2
      <4> QED  BY <4>1, <4>3 DEF WholeInv, Names, f
    <3> QED  BY <3>3, <3>4
  <2> QED  BY <2>1, <2>2
<1>8. CASE n = 1
  <2>1. DOMAIN stack' = {}
    BY <1>1, <1>8
  <2> QED  BY <1>5, <1>6, <1>7, <2>1 DEF WholeInv, Snapshots, Writers
<1>9. CASE n = 2
  <2>1. poses' = poses /\ DOMAIN stack' = {1} /\ stack'[1] = stack[1] /\ Len(stack') = 1
    BY <1>1, <1>9 DEF n
  <2>2. Snapshots'
    BY <1>1, <2>1 DEF WholeInv, Snapshots
  <2>3. Writers'
    <3>1. node'.triggered = node.triggered /\ files' = files /\ 1 \in DOMAIN stack
      BY <1>1, <1>9
    <3>2. stack[Len(stack)].at # "rows"
      BY <1>2 DEF n
    <3>3. Writing(1)' => Writing(1)
      BY <2>1, <3>1 DEF Writing
    <3> QED  BY <2>1, <3>1, <3>2, <3>3 DEF WholeInv, Writers, Writing
  <2> QED  BY <1>5, <1>6, <1>7, <2>2, <2>3 DEF WholeInv
<1> QED  BY <1>1, <1>3, <1>8, <1>9

(* A build opens the temporary file, which it may share with the build it  *)
(* interrupted.                                                            *)
LEMMA Opened == WholeInv /\ Mesh!OpenTmp => WholeInv'
<1> SUFFICES ASSUME WholeInv, Mesh!OpenTmp PROVE WholeInv'
  OBVIOUS
<1> DEFINE n == Len(stack)
           inode == IF files.tmp = 0 THEN Len(files.inodes) + 1 ELSE files.tmp
           inodes == IF files.tmp = 0 THEN Append(files.inodes, <<>>)
                     ELSE [files.inodes EXCEPT ![inode] = <<>>]
           a == [Mesh!Top EXCEPT !.at = "rows", !.inode = inode]
<1>1. /\ stack # <<>> /\ Mesh!Top.at = "tmp" /\ Mesh!Top.what \in Mesh!Builds
      /\ UNCHANGED <<taken, node, poses, scans>>
  BY DEF Mesh!OpenTmp, Mesh!Running
<1>2. Mesh!Top = stack[n] /\ n \in 1..2 /\ DOMAIN stack = 1..n /\ stack[n] \in Act
  <2>1. stack \in Seq(Act) /\ Len(stack) <= 2
    BY DEF WholeInv, MeshTyped, StackShape
  <2>2. n \in 1..2 /\ DOMAIN stack = 1..n
    <3>1. Len(stack) \in Nat \ {0} /\ DOMAIN stack = 1..Len(stack)
      BY <1>1, <2>1, EmptySeq, LenProperties
    <3> QED  BY <2>1, <3>1
  <2> HIDE DEF n
  <2>3. stack[n] \in Act
    BY <2>1, <2>2 DEF n
  <2> QED  BY <2>2, <2>3 DEF Mesh!Top, n
<1>3. /\ Mesh!Top.poses = poses /\ poses # <<>> /\ Mesh!Top.rows = 0
  BY <1>1, <1>2 DEF WholeInv, Snapshots, Snapped, Early
<1>4. /\ files.inodes \in Seq(Seq(Nat)) /\ <<>> \in Seq(Nat)
      /\ files.tmp \in Nat /\ files.tum \in Nat
      /\ files.tmp # 0 => files.tmp \in DOMAIN files.inodes /\ files.tmp # files.tum
      /\ files.tum # 0 => files.tum \in DOMAIN files.inodes
  BY DEF WholeInv, MeshTyped, Names
<1>5. /\ inode \in Nat \ {0} /\ inodes \in Seq(Seq(Nat))
      /\ inode \in DOMAIN inodes /\ inodes[inode] = <<>> /\ inode # files.tum
      /\ DOMAIN files.inodes \subseteq DOMAIN inodes
      /\ \A k \in DOMAIN files.inodes : k # inode => inodes[k] = files.inodes[k]
  <2>0. Len(files.inodes) \in Nat /\ DOMAIN files.inodes = 1..Len(files.inodes)
    BY <1>4
  <2>1. CASE files.tmp = 0
    <3>1. /\ inodes = Append(files.inodes, <<>>) /\ inode = Len(files.inodes) + 1
      BY <2>1
    <3> HIDE DEF inodes, inode
    <3>2. /\ inodes \in Seq(Seq(Nat)) /\ Len(inodes) = Len(files.inodes) + 1
          /\ DOMAIN inodes = 1..(Len(files.inodes) + 1)
          /\ \A k \in 1..Len(files.inodes) : inodes[k] = files.inodes[k]
          /\ inodes[inode] = <<>>
      BY <1>4, <3>1
    <3> QED  BY <1>4, <2>0, <3>1, <3>2
  <2>2. CASE files.tmp # 0
    <3>1. /\ inodes = [files.inodes EXCEPT ![inode] = <<>>] /\ inode = files.tmp
      BY <2>2
    <3> HIDE DEF inodes, inode
    <3>2. /\ inodes \in Seq(Seq(Nat)) /\ DOMAIN inodes = DOMAIN files.inodes
          /\ inodes[inode] = <<>>
          /\ \A k \in DOMAIN files.inodes : k # inode => inodes[k] = files.inodes[k]
      BY <1>4, <2>0, <2>2, <3>1, SeqChanged
    <3> QED  BY <1>4, <2>0, <2>2, <3>1, <3>2
  <2> QED  BY <2>1, <2>2
<1>6. files' = [inodes |-> inodes, tmp |-> inode, tum |-> files.tum,
                rec |-> files.rec, mesh |-> files.mesh]
  <2>1. files' = [files EXCEPT !.tmp = inode, !.inodes = inodes]
    BY DEF Mesh!OpenTmp
  <2> HIDE DEF inodes, inode
  <2> QED  BY <2>1 DEF WholeInv, MeshTyped
<1>7. stack' = [stack EXCEPT ![n] = a]
  <2>1. stack' = [stack EXCEPT ![n].at = "rows", ![n].inode = inode]
    BY DEF Mesh!OpenTmp
  <2> HIDE DEF inode, n
  <2> QED  BY <1>2, <2>1
<1> HIDE DEF inodes, inode
<1>8. a \in Act /\ a.at = "rows" /\ a.inode = inode /\ a.what = Mesh!Top.what
      /\ a.poses = poses /\ a.rows = 0
  BY <1>2, <1>3, <1>5 DEF Act, Places
<1> HIDE DEF a
<1>9. /\ stack' \in Seq(Act) /\ Len(stack') = n /\ DOMAIN stack' = 1..n
      /\ stack'[n] = a /\ \A i \in DOMAIN stack : i # n => stack'[i] = stack[i]
  BY <1>1, <1>7, <1>8, TopChanged DEF WholeInv, MeshTyped
<1> HIDE DEF n
<1>10. MeshTyped'
  BY <1>1, <1>5, <1>6, <1>9 DEF WholeInv, MeshTyped
<1>11. StackShape'
  BY <1>1, <1>2, <1>8, <1>9 DEF WholeInv, StackShape, n
<1>12. Snapshots'
  BY <1>1, <1>2, <1>3, <1>8, <1>9 DEF WholeInv, Snapshots, Snapped, Early
<1>13. Names'
  BY <1>1, <1>4, <1>5, <1>6 DEF WholeInv, Names, Starts
<1>14. Writers'
  <2>1. Starts(inodes[inode], poses, 0) /\ Len(poses) \in Nat
    BY <1>5 DEF Starts, WholeInv, MeshTyped
  <2> SUFFICES ASSUME NEW i \in DOMAIN stack', stack'[i].at = "rows"
               PROVE  /\ stack'[i].inode = inode
                      /\ stack'[i].rows <= Len(stack'[i].poses)
                      /\ i = n => stack'[i].rows = 0
    BY <1>1, <1>5, <1>6, <1>8, <1>9, <2>1 DEF Writers, Writing
  <2>2. CASE i = n
    BY <1>8, <1>9, <2>1, <2>2
  <2>3. CASE i # n
    <3>1. stack'[i] = stack[i] /\ i \in DOMAIN stack /\ stack[i].at = "rows"
      BY <1>2, <1>9, <2>3
    <3>2. /\ stack[i].rows <= Len(stack[i].poses)
          /\ stack[i].inode = files.tmp
          /\ stack[i].inode \in DOMAIN files.inodes
      BY <1>1, <1>2, <2>3, <3>1 DEF WholeInv, Writers, Writing, Early, n
    <3>3. files.tmp # 0
      BY <1>4, <3>2
    <3> QED  BY <2>3, <3>1, <3>2, <3>3 DEF inode
  <2> QED  BY <2>2, <2>3
<1> QED  BY <1>10, <1>11, <1>12, <1>13, <1>14 DEF WholeInv

(* A row of the snapshot goes to its place in the file. *)
LEMMA PutStarts ==
  ASSUME NEW f \in Seq(Nat), poses \in Seq(Nat), NEW r \in 1..Len(poses),
         NEW m \in Nat, Starts(f, poses, m), m = r - 1 \/ m = Len(poses)
  PROVE  /\ Mesh!Put(f, r, poses[r]) \in Seq(Nat)
         /\ m = r - 1 => Starts(Mesh!Put(f, r, poses[r]), poses, r)
         /\ m = Len(poses) => Mesh!Put(f, r, poses[r]) = f
<1> DEFINE len == IF r > Len(f) THEN r ELSE Len(f)
           g == [k \in 1..len |-> IF k = r THEN poses[r] ELSE f[k]]
<1>1. Mesh!Put(f, r, poses[r]) = g
  BY DEF Mesh!Put
<1>2. /\ Len(f) = m /\ Len(poses) \in Nat /\ m <= Len(poses)
      /\ \A k \in 1..m : f[k] = poses[k]
      /\ \A k \in 1..Len(poses) : poses[k] \in Nat
  BY DEF Starts
<1>3. len \in Nat /\ (m = r - 1 => len = r) /\ (m = Len(poses) => len = m)
  BY <1>2
<1> HIDE DEF len
<1>4. \A k \in 1..len : (IF k = r THEN poses[r] ELSE f[k]) = poses[k] /\ k \in 1..Len(poses)
  BY <1>2, <1>3
<1>5. g \in Seq(Nat) /\ Len(g) = len /\ \A k \in 1..len : g[k] = poses[k]
  <2>1. g \in [1..len -> Nat]
    BY <1>2, <1>4
  <2>2. \A k \in 1..len : g[k] = poses[k]
    BY <1>4
  <2> HIDE DEF g
  <2> QED  BY <1>3, <2>1, <2>2
<1> HIDE DEF g
<1>6. m = r - 1 => Starts(g, poses, r)
  BY <1>2, <1>3, <1>5 DEF Starts
<1>7. m = Len(poses) => g = f
  <2> SUFFICES ASSUME m = Len(poses) PROVE g = f
    OBVIOUS
  <2>1. Len(g) = Len(f) /\ \A k \in 1..Len(g) : g[k] = f[k]
    BY <1>2, <1>3, <1>5
  <2> QED  BY <1>5, <2>1, SeqEqual
<1> QED  BY <1>1, <1>5, <1>6, <1>7

(* The activation on top, and how much it can be. *)
LEMMA TopIs ==
  ASSUME WholeInv, stack # <<>>
  PROVE  /\ Len(stack) \in 1..2 /\ DOMAIN stack = 1..Len(stack)
         /\ Mesh!Top = stack[Len(stack)] /\ stack[Len(stack)] \in Act
<1>1. stack \in Seq(Act) /\ Len(stack) <= 2
  BY DEF WholeInv, MeshTyped, StackShape
<1>2. Len(stack) \in Nat \ {0} /\ DOMAIN stack = 1..Len(stack)
  BY <1>1, EmptySeq, LenProperties
<1> DEFINE n == Len(stack)
<1>3. n \in 1..2 /\ n \in DOMAIN stack
  BY <1>1, <1>2
<1> HIDE DEF n
<1>4. stack[n] \in Act
  BY <1>1, <1>2, <1>3 DEF n
<1> QED  BY <1>2, <1>3, <1>4 DEF Mesh!Top, n

(* A row is written: into the temporary file, or again, as it is there,    *)
(* into the trajectory.                                                    *)
LEMMA RowWritten == WholeInv /\ Mesh!WriteRow => WholeInv'
<1> SUFFICES ASSUME WholeInv, Mesh!WriteRow PROVE WholeInv'
  OBVIOUS
<1> DEFINE n == Len(stack)
           x == Mesh!Top.inode
           r == Mesh!Top.rows + 1
           f == files.inodes[x]
           g == Mesh!Put(f, r, poses[r])
           a == [Mesh!Top EXCEPT !.rows = r]
<1>1. /\ stack # <<>> /\ Mesh!Top.at = "rows" /\ Mesh!Top.rows < Len(Mesh!Top.poses)
      /\ UNCHANGED <<taken, node, poses, scans>>
  BY DEF Mesh!WriteRow, Mesh!Running
<1>2. Mesh!Top = stack[n] /\ n \in 1..2 /\ DOMAIN stack = 1..n /\ Mesh!Top \in Act
  BY <1>1, TopIs
<1>3. Mesh!Top.poses = poses /\ Mesh!Top.what \in Mesh!Builds /\ poses # <<>>
  BY <1>1, <1>2 DEF WholeInv, Snapshots, Snapped
<1>4. /\ files.inodes \in Seq(Seq(Nat)) /\ poses \in Seq(Nat) /\ Len(poses) \in Nat
      /\ files.tmp \in Nat /\ files.tum \in Nat
      /\ files.tmp # 0 => files.tmp # files.tum
  BY DEF WholeInv, MeshTyped, Names
<1>5. /\ x \in DOMAIN files.inodes /\ x \in 1..Len(files.inodes) /\ f \in Seq(Nat)
      /\ x = files.tmp => Starts(f, poses, r - 1)
      /\ x # files.tmp => files.tmp = 0 /\ x = files.tum
                          /\ Starts(f, poses, Len(poses))
  <2>1. /\ x \in DOMAIN files.inodes
        /\ x = files.tmp => Starts(f, poses, Mesh!Top.rows)
        /\ x # files.tmp => files.tmp = 0 /\ x = files.tum
                            /\ Starts(f, poses, Len(poses))
    BY <1>1, <1>2 DEF WholeInv, Writers, Writing
  <2>2. Mesh!Top.rows \in Nat
    BY <1>2 DEF Act
  <2> HIDE DEF f
  <2>3. r - 1 = Mesh!Top.rows
    BY <2>2
  <2>4. x \in 1..Len(files.inodes)
    BY <1>4, <2>1, LenProperties
  <2>5. f \in Seq(Nat)
    BY <2>1 DEF Starts
  <2> QED  BY <2>1, <2>3, <2>4, <2>5
<1>6. r \in 1..Len(poses) /\ r - 1 \in Nat
  BY <1>1, <1>2, <1>3, <1>4 DEF Act
<1>7. files' = [inodes |-> [files.inodes EXCEPT ![x] = g], tmp |-> files.tmp,
                tum |-> files.tum, rec |-> files.rec, mesh |-> files.mesh]
  <2>1. files' = [files EXCEPT !.inodes = [files.inodes EXCEPT ![x] = g]]
    BY <1>3, <1>5 DEF Mesh!WriteRow, WholeInv, MeshTyped
  <2> HIDE DEF g, x
  <2> QED  BY <2>1 DEF WholeInv, MeshTyped
<1>8. stack' = [stack EXCEPT ![n] = a]
  <2>1. stack' = [stack EXCEPT ![n].rows = @ + 1]
    BY DEF Mesh!WriteRow
  <2> HIDE DEF n
  <2> QED  BY <1>2, <2>1
<1>9. /\ a \in Act /\ a.at = "rows" /\ a.what = Mesh!Top.what /\ a.inode = x
      /\ a.poses = poses /\ a.rows = r
  <2>1. r \in Nat
    BY <1>2 DEF Act
  <2>2. /\ a \in Act /\ a.at = Mesh!Top.at /\ a.what = Mesh!Top.what
        /\ a.inode = Mesh!Top.inode /\ a.poses = Mesh!Top.poses /\ a.rows = r
    <3> HIDE DEF r
    <3> QED  BY <1>2, <2>1, RowsChanged
  <2> QED  BY <1>1, <1>3, <2>2
<1> HIDE DEF a
<1>10. /\ stack' \in Seq(Act) /\ Len(stack') = n /\ DOMAIN stack' = 1..n
       /\ stack'[n] = a /\ \A i \in DOMAIN stack : i # n => stack'[i] = stack[i]
  BY <1>1, <1>8, <1>9, TopChanged DEF WholeInv, MeshTyped
<1> HIDE DEF n, f, x, r
<1>11. /\ g \in Seq(Nat)
       /\ x = files.tmp => Starts(g, poses, r)
       /\ x # files.tmp => g = f
  <2>1. CASE x = files.tmp
    BY <1>4, <1>5, <1>6, <2>1, PutStarts
  <2>2. CASE x # files.tmp
    BY <1>4, <1>5, <1>6, <2>2, PutStarts
  <2> QED  BY <2>1, <2>2
<1> HIDE DEF g
<1>12. /\ files'.inodes \in Seq(Seq(Nat))
       /\ DOMAIN files'.inodes = DOMAIN files.inodes
       /\ files'.inodes[x] = g
       /\ \A k \in DOMAIN files.inodes : k # x => files'.inodes[k] = files.inodes[k]
       /\ files'.tmp = files.tmp /\ files'.tum = files.tum
  <2>1. files'.inodes = [files.inodes EXCEPT ![x] = g]
    BY <1>7
  <2> QED  BY <1>4, <1>5, <1>7, <1>11, <2>1, SeqChanged
<1>13. x # files.tmp => files'.inodes[x] = files.inodes[x]
  BY <1>11, <1>12 DEF f
<1>14. MeshTyped'
  BY <1>1, <1>7, <1>10, <1>12 DEF WholeInv, MeshTyped
<1>15. StackShape'
  BY <1>1, <1>2, <1>9, <1>10 DEF WholeInv, StackShape, n
<1>16. Snapshots'
  BY <1>1, <1>2, <1>3, <1>9, <1>10 DEF WholeInv, Snapshots, Snapped, Early
<1>17. files.tum # 0 => files'.inodes[files.tum] = files.inodes[files.tum]
  <2> SUFFICES ASSUME files.tum # 0
               PROVE  files'.inodes[files.tum] = files.inodes[files.tum]
    OBVIOUS
  <2>1. files.tum \in DOMAIN files.inodes
    BY DEF WholeInv, Names
  <2>2. CASE x = files.tum
    <3>1. x # files.tmp
      BY <1>4, <2>2
    <3> QED  BY <1>13, <2>2, <3>1
  <2>3. CASE x # files.tum
    BY <1>12, <2>1, <2>3
  <2> QED  BY <2>2, <2>3
<1>18. Names'
  BY <1>1, <1>12, <1>17 DEF WholeInv, Names, Starts
<1>19. Writers'
  <2>1. ASSUME NEW i \in DOMAIN stack', stack'[i].at = "rows"
        PROVE  /\ stack'[i].inode \in DOMAIN files.inodes
               /\ stack'[i].rows <= Len(stack'[i].poses)
               /\ /\ stack'[i].inode = files.tmp
                  /\ i = n
                  => Starts(files'.inodes[files.tmp], poses, stack'[i].rows)
               /\ stack'[i].inode # files.tmp =>
                    /\ files.tmp = 0 /\ stack'[i].inode = files.tum
                    /\ Starts(files.inodes[files.tum], poses, Len(poses))
                    /\ node.triggered
                    /\ i = n
    <3>1. CASE i = n
      <4>1. stack'[i] = a
        BY <1>10, <3>1
      <4>2. x # files.tmp => node.triggered
        BY <1>1, <1>2 DEF WholeInv, Writers, Writing, x, n
      <4>3. x # files.tmp => Starts(files.inodes[files.tum], poses, Len(poses))
        BY <1>5 DEF f
      <4>4. x = files.tmp => Starts(files'.inodes[files.tmp], poses, r)
        BY <1>11, <1>12
      <4> QED  BY <1>5, <1>6, <1>9, <3>1, <4>1, <4>2, <4>3, <4>4
    <3>2. CASE i # n
      <4>1. i \in DOMAIN stack /\ stack'[i] = stack[i] /\ stack[i].at = "rows"
        BY <1>2, <1>10, <2>1, <3>2
      <4>2. /\ stack[i].inode \in DOMAIN files.inodes
            /\ stack[i].rows <= Len(stack[i].poses)
            /\ stack[i].inode = files.tmp
        BY <1>1, <1>2, <3>2, <4>1 DEF WholeInv, Writers, Writing, Early, n
      <4> QED  BY <3>2, <4>1, <4>2
    <3> QED  BY <3>1, <3>2
  <2>2. \A k \in DOMAIN files.inodes : k = files.tum => files.tum # 0
    BY <1>4, LenProperties
  <2>3. stack'[n].at = "rows" /\ Len(stack') = n
    BY <1>9, <1>10
  <2>4. ASSUME NEW i \in DOMAIN stack', stack'[i].at = "rows"
        PROVE  /\ stack'[i].inode \in DOMAIN files.inodes
               /\ stack'[i].rows <= Len(stack'[i].poses)
               /\ /\ stack'[i].inode = files.tmp
                  /\ i = n
                  => Starts(files'.inodes[files.tmp], poses, stack'[i].rows)
               /\ stack'[i].inode # files.tmp =>
                    /\ files.tmp = 0 /\ stack'[i].inode = files.tum
                    /\ Starts(files'.inodes[files.tum], poses, Len(poses))
                    /\ node.triggered
                    /\ i = n
    <3>1. stack'[i].inode \in DOMAIN files.inodes
      BY <2>1, <2>4
    <3>2. stack'[i].inode # files.tmp =>
            files'.inodes[files.tum] = files.inodes[files.tum]
      BY <1>17, <2>1, <2>2, <2>4, <3>1
    <3> QED  BY <2>1, <2>4, <3>2
  <2> QED  BY <1>1, <1>10, <1>12, <2>3, <2>4 DEF Writers, Writing, Starts
<1> QED  BY <1>14, <1>15, <1>16, <1>18, <1>19 DEF WholeInv

(* The temporary file, now whole, becomes the trajectory. *)
LEMMA Replaced == WholeInv /\ Mesh!Replace => WholeInv'
<1> SUFFICES ASSUME WholeInv, Mesh!Replace PROVE WholeInv'
  OBVIOUS
<1> DEFINE n == Len(stack)
<1>1. /\ stack # <<>> /\ Mesh!Top.at = "rows" /\ Mesh!Top.rows = Len(Mesh!Top.poses)
      /\ UNCHANGED <<taken, node, poses, scans>>
  BY DEF Mesh!Replace, Mesh!Running
<1>2. Mesh!Top = stack[n] /\ n \in 1..2 /\ DOMAIN stack = 1..n /\ Mesh!Top \in Act
  BY <1>1, TopIs
<1>3. Mesh!Top.poses = poses /\ Mesh!Top.what \in Mesh!Builds /\ poses # <<>>
  BY <1>1, <1>2 DEF WholeInv, Snapshots, Snapped
<1>4. PICK at \in {"failed", "tool", "rec"} :
        /\ stack' = [stack EXCEPT ![n].at = at]
        /\ IF files.tmp = 0 THEN files' = files
           ELSE files' = [files EXCEPT !.tum = files.tmp, !.tmp = 0]
  BY DEF Mesh!Replace, Mesh!Go
<1> DEFINE a == [Mesh!Top EXCEPT !.at = at]
<1>5. stack' = [stack EXCEPT ![n] = a]
  BY <1>2, <1>4
<1>6. /\ a \in Act /\ a.at = at /\ a.what = Mesh!Top.what /\ at \notin Early
      /\ at \notin Snapped
  BY <1>2 DEF Act, Places, Early, Snapped
<1> HIDE DEF a
<1>7. CASE files.tmp = 0
  <2>1. files' = [inodes |-> files.inodes, tmp |-> files.tmp, tum |-> files.tum,
                  rec |-> files'.rec, mesh |-> files'.mesh]
    BY <1>4, <1>7 DEF WholeInv, MeshTyped
  <2> QED
    BY <1>1, <1>5, <1>6, <1>7, <2>1, QuietTop DEF Snapped, Early
<1>8. CASE files.tmp # 0
  <2>1. files' = [inodes |-> files.inodes, tmp |-> 0, tum |-> files.tmp,
                  rec |-> files.rec, mesh |-> files.mesh]
    BY <1>4, <1>8 DEF WholeInv, MeshTyped
  <2>2. /\ stack' \in Seq(Act) /\ Len(stack') = n /\ DOMAIN stack' = 1..n
        /\ stack'[n] = a /\ \A i \in DOMAIN stack : i # n => stack'[i] = stack[i]
    BY <1>1, <1>5, <1>6, TopChanged DEF WholeInv, MeshTyped
  <2> HIDE DEF n
  <2>3. /\ files.tmp \in DOMAIN files.inodes /\ files.tmp \in Nat
        /\ poses \in Seq(Nat) /\ Len(poses) \in Nat
    BY <1>8 DEF WholeInv, MeshTyped, Names
  <2>4. Starts(files.inodes[files.tmp], poses, Len(poses))
    BY <1>1, <1>2, <1>3, <1>8 DEF WholeInv, Writers, Writing, n
  <2>5. files.inodes[files.tmp] # <<>> /\ Len(files.inodes[files.tmp]) = Len(poses)
    <3>1. Len(poses) # 0
      BY <1>3, <2>3, EmptySeq
    <3> QED  BY <2>3, <2>4, <3>1 DEF Starts
  <2>6. MeshTyped'
    BY <1>1, <2>1, <2>2, <2>3 DEF WholeInv, MeshTyped
  <2>7. StackShape'
    BY <1>1, <1>2, <1>6, <2>2 DEF WholeInv, StackShape, n
  <2>8. Snapshots'
    BY <1>1, <1>2, <1>3, <1>6, <2>2 DEF WholeInv, Snapshots, Snapped, Early
  <2>9. Names'
    BY <1>1, <1>8, <2>1, <2>3, <2>4, <2>5 DEF Names, Starts
  <2>10. Writers'
    <3> SUFFICES ASSUME NEW i \in DOMAIN stack', stack'[i].at = "rows"
                 PROVE  /\ stack'[i].inode = files.tmp
                        /\ stack'[i].rows <= Len(stack'[i].poses)
                        /\ node.triggered
      BY <1>1, <1>6, <1>8, <2>1, <2>2, <2>3, <2>4 DEF Writers, Writing, Starts
    <3>1. i # n /\ i \in DOMAIN stack /\ stack'[i] = stack[i]
      BY <1>2, <1>6, <2>2 DEF Early
    <3>2. /\ stack[i].inode = files.tmp
          /\ stack[i].rows <= Len(stack[i].poses)
      BY <1>8, <2>2, <3>1 DEF WholeInv, Writers, Writing
    <3>3. node.triggered
      BY <1>2, <3>1 DEF WholeInv, StackShape, n
    <3> QED  BY <3>1, <3>2, <3>3
  <2> QED  BY <2>6, <2>7, <2>8, <2>9, <2>10 DEF WholeInv
<1> QED  BY <1>7, <1>8

(* The activation on top goes to a place, before or after the trajectory.  *)
LEMMA Went ==
  ASSUME WholeInv, stack # <<>>, NEW at \in Places \ {"rows", "tmp"}, Mesh!Go(at),
         Mesh!Top.at # "rows",
         at \in Early => Mesh!Top.at \in Early,
         Mesh!Top.what \in Mesh!Builds /\ at \in Snapped => Mesh!Top.poses = poses,
         UNCHANGED <<poses, scans, taken, node>>,
         files' = [inodes |-> files.inodes, tmp |-> files.tmp,
                   tum |-> files.tum, rec |-> files'.rec, mesh |-> files'.mesh]
  PROVE  WholeInv'
<1> DEFINE n == Len(stack)
           a == [stack[n] EXCEPT !.at = at]
<1>1. Mesh!Top = stack[n] /\ n \in 1..2 /\ DOMAIN stack = 1..n /\ stack[n] \in Act
  BY TopIs
<1>2. a \in Act /\ a.at = at /\ a.what = stack[n].what /\ a.rows = stack[n].rows
      /\ a.poses = stack[n].poses
  BY <1>1 DEF Act
<1>3. stack' = [stack EXCEPT ![n] = a]
  BY DEF Mesh!Go
<1> HIDE DEF a
<1>4. at \in Early => a.rows = 0
  BY <1>1, <1>2 DEF WholeInv, Snapshots
<1> QED  BY <1>1, <1>2, <1>3, <1>4, QuietTop

(* Every step of the mesh builder keeps the trajectory whole. *)
LEMMA MeshKeepsWhole ==
  ASSUME WholeInv, Len(lidar) \in Nat, Mesh!Next
  PROVE  WholeInv'
<1>0. /\ node = [ok |-> node.ok, triggered |-> node.triggered,
                 builds |-> node.builds, exited |-> node.exited, opt |-> node.opt]
      /\ taken = [odom |-> taken.odom, lidar |-> taken.lidar]
      /\ taken.odom \in Nat /\ taken.lidar \in Nat
      /\ files = [inodes |-> files.inodes, tmp |-> files.tmp, tum |-> files.tum,
                  rec |-> files.rec, mesh |-> files.mesh]
      /\ poses \in Seq(Nat) /\ scans \in Seq(Nat)
  BY DEF WholeInv, MeshTyped
<1>a. taken.odom \in Nat /\ taken.lidar \in Nat /\ scans \in Seq(Nat)
  BY <1>0
<1>b. node = [ok |-> node.ok, triggered |-> node.triggered,
              builds |-> node.builds, exited |-> node.exited, opt |-> node.opt]
  BY <1>0
<1>1. CASE Mesh!Call
  <2>1. UNCHANGED <<poses, scans, files>> /\ stack = <<>>
    BY <1>1 DEF Mesh!Call
  <2>2. CASE /\ \E k \in taken.odom + 1 .. Len(odom) : taken' = [taken EXCEPT !.odom = k]
             /\ Mesh!Push("odom") /\ UNCHANGED node
    <3>1. PICK k \in taken.odom + 1 .. Len(odom) : taken' = [taken EXCEPT !.odom = k]
      BY <2>2
    <3>2. taken' = [odom |-> taken'.odom, lidar |-> taken'.lidar]
          /\ taken'.odom \in Nat /\ taken'.lidar \in Nat
      <4>1. k \in Nat
        BY ONLY <1>a, <3>1
      <4>2. taken' = [odom |-> k, lidar |-> taken.lidar]
        BY ONLY <1>0, <3>1
      <4>3. taken'.odom = k /\ taken'.lidar = taken.lidar
        BY ONLY <4>2
      <4> QED  BY ONLY <1>a, <4>1, <4>2, <4>3
    <3> QED  BY <1>b, <2>1, <2>2, <3>2, Pushed DEF Mesh!Push
  <2>3. CASE /\ \E k \in taken.lidar + 1 .. Len(lidar) : taken' = [taken EXCEPT !.lidar = k]
             /\ Mesh!Push("lidar") /\ UNCHANGED node
    <3>1. PICK k \in taken.lidar + 1 .. Len(lidar) : taken' = [taken EXCEPT !.lidar = k]
      BY <2>3
    <3>2. taken' = [odom |-> taken'.odom, lidar |-> taken'.lidar]
          /\ taken'.odom \in Nat /\ taken'.lidar \in Nat
      <4>1. k \in Nat
        BY ONLY <1>a, <3>1
      <4>2. taken' = [odom |-> taken.odom, lidar |-> k]
        BY ONLY <1>0, <3>1
      <4>3. taken'.odom = taken.odom /\ taken'.lidar = k
        BY ONLY <4>2
      <4> QED  BY ONLY <1>a, <4>1, <4>2, <4>3
    <3> QED  BY <1>b, <2>1, <2>3, <3>2, Pushed DEF Mesh!Push
  <2>4. CASE /\ node' = [node EXCEPT !.builds = @ + 1]
             /\ Mesh!Push("service") /\ UNCHANGED taken
    BY <1>0, <2>1, <2>4, Pushed DEF Mesh!Push
  <2> QED  BY <1>1, <2>2, <2>3, <2>4 DEF Mesh!Call
<1>2. CASE Mesh!Signal
  <2>1. /\ ~node.triggered /\ node' = [node EXCEPT !.triggered = TRUE]
        /\ Mesh!Push("shutdown") /\ UNCHANGED <<taken, poses, scans, files>>
    BY <1>2 DEF Mesh!Signal
  <2> QED  BY <1>0, <2>1, Pushed DEF Mesh!Push
<1>3. CASE Mesh!Step
  <2> DEFINE n == Len(stack)
  <2>1. ASSUME stack # <<>>
        PROVE  /\ Mesh!Top = stack[n] /\ n \in 1..2 /\ n \in DOMAIN stack
               /\ Mesh!Top \in Act
    BY <2>1, TopIs
  <2> HIDE DEF n
  <2>2. CASE Mesh!TakePosesLock
    <3>1. /\ stack # <<>> /\ Mesh!Top.at = "start" /\ Mesh!Go("poses")
          /\ UNCHANGED <<taken, node, poses, scans, files>>
      BY <2>2 DEF Mesh!TakePosesLock, Mesh!Running
    <3> QED  BY <1>0, <3>1, Went DEF Places, Early, Snapped
  <2>3. CASE Mesh!TakeScansLock
    <3>1. /\ stack # <<>> /\ Mesh!Go("scans")
          /\ \/ Mesh!Top.at = "start" /\ Mesh!Top.what = "lidar"
             \/ Mesh!Top.at = "between"
          /\ UNCHANGED <<taken, node, poses, scans, files>>
      BY <2>3 DEF Mesh!TakeScansLock, Mesh!Running
    <3>2. Mesh!Top.what \in Mesh!Builds => Mesh!Top.poses = poses
      BY <2>1, <3>1 DEF WholeInv, Snapshots, Snapped, Mesh!Builds
    <3> QED  BY <1>0, <3>1, <3>2, Went DEF Places, Early
  <2>4. CASE Mesh!_on_odom
    <3>1. /\ stack # <<>> /\ Mesh!Top.at = "poses" /\ Mesh!Top.what = "odom"
          /\ poses' = Append(poses, taken.odom) /\ stack' = Mesh!Below
          /\ UNCHANGED <<taken, node, scans, files>>
      BY <2>4 DEF Mesh!_on_odom, Mesh!Running
    <3>2. Len(stack) = 1
      BY <2>1, <3>1 DEF WholeInv, StackShape, n
    <3> QED  BY <1>0, <3>1, <3>2, Popped
  <2>5. CASE Mesh!_on_lidar
    <3> DEFINE all == Append(scans, taken.lidar)
    <3>1. /\ stack # <<>> /\ Mesh!Top.at = "scans" /\ stack' = Mesh!Below
          /\ scans' = IF Len(all) > MaxScans THEN Tail(all) ELSE all
          /\ UNCHANGED <<taken, node, poses, files>>
      BY <2>5 DEF Mesh!_on_lidar, Mesh!Running
    <3>2. all \in Seq(Nat) /\ all # <<>>
      BY ONLY <1>a
    <3> HIDE DEF all
    <3>3. Tail(all) \in Seq(Nat)
      BY <3>2
    <3>4. scans' \in Seq(Nat)
      BY <3>1, <3>2, <3>3
    <3> QED  BY <1>0, <3>1, <3>4, Popped
  <2>6. CASE Mesh!SnapshotPoses
    <3> DEFINE a == [Mesh!Top EXCEPT !.at = "between", !.poses = poses]
    <3>1. /\ stack # <<>> /\ Mesh!Top.at = "poses"
          /\ stack' = [stack EXCEPT ![n].at = "between", ![n].poses = poses]
          /\ UNCHANGED <<taken, node, poses, scans, files>>
      BY <2>6 DEF Mesh!SnapshotPoses, Mesh!Running, n
    <3>2. stack' = [stack EXCEPT ![n] = a]
      BY <2>1, <3>1
    <3>3. /\ a \in Act /\ a.at = "between" /\ a.poses = poses
          /\ a.what = Mesh!Top.what /\ a.rows = Mesh!Top.rows
      BY <1>0, <2>1, <3>1 DEF Act, Places
    <3> HIDE DEF a
    <3>4. Mesh!Top.rows = 0
      BY <2>1, <3>1 DEF WholeInv, Snapshots, Early
    <3> QED  BY <1>0, <3>1, <3>2, <3>3, <3>4, QuietTop DEF Early, n
  <2>7. CASE Mesh!SnapshotScans
    <3> DEFINE at == IF Mesh!Top.poses = <<>> THEN "failed" ELSE "tmp"
               a == [Mesh!Top EXCEPT !.scans = scans, !.at = at]
    <3>1. /\ stack # <<>> /\ Mesh!Top.at = "scans" /\ Mesh!Top.what \in Mesh!Builds
          /\ stack' = [stack EXCEPT ![n].scans = scans, ![n].at = at]
          /\ UNCHANGED <<taken, node, poses, scans, files>>
      BY <2>7 DEF Mesh!SnapshotScans, Mesh!Running, n
    <3>2. at \in {"failed", "tmp"} /\ (at = "tmp" => Mesh!Top.poses # <<>>)
      OBVIOUS
    <3> HIDE DEF at
    <3>3. stack' = [stack EXCEPT ![n] = a]
      BY <2>1, <3>1
    <3>4. /\ a \in Act /\ a.at = at /\ a.poses = Mesh!Top.poses
          /\ a.what = Mesh!Top.what /\ a.rows = Mesh!Top.rows
      BY <1>0, <2>1, <3>1, <3>2 DEF Act, Places
    <3> HIDE DEF a
    <3>5. Mesh!Top.rows = 0 /\ Mesh!Top.poses = poses
      BY <2>1, <3>1 DEF WholeInv, Snapshots, Early, Snapped
    <3> QED  BY <1>0, <3>1, <3>2, <3>3, <3>4, <3>5, QuietTop DEF Early, n
  <2>8. CASE Mesh!OpenTmp
    BY <2>8, Opened
  <2>9. CASE Mesh!WriteRow
    BY <2>9, RowWritten
  <2>10. CASE Mesh!Replace
    BY <2>10, Replaced
  <2>11. CASE Mesh!OpenRec
    <3>1. /\ stack # <<>> /\ Mesh!Top.at = "rec" /\ Mesh!Go("scan")
          /\ files' = [files EXCEPT !.rec = <<>>]
          /\ UNCHANGED <<taken, node, poses, scans>>
      BY <2>11 DEF Mesh!OpenRec, Mesh!Running
    <3> QED  BY <1>0, <3>1, Went DEF Places, Early, Snapped
  <2>12. CASE Mesh!WriteRec
    <3>1. /\ stack # <<>> /\ Mesh!Top.at = "scan" /\ Mesh!Go("tool")
          /\ \E rec : files' = [files EXCEPT !.rec = rec]
          /\ UNCHANGED <<taken, node, poses, scans>>
      BY <2>12 DEF Mesh!WriteRec, Mesh!Running
    <3> QED  BY <1>0, <3>1, Went DEF Places, Early, Snapped
  <2>13. CASE Mesh!Tool
    <3>1. /\ stack # <<>> /\ Mesh!Top.at = "tool"
          /\ \/ (\E mesh : files' = [files EXCEPT !.mesh = mesh]) /\ Mesh!Go("done")
             \/ Mesh!Go("failed") /\ UNCHANGED files
          /\ UNCHANGED <<taken, node, poses, scans>>
      BY <2>13 DEF Mesh!Tool, Mesh!Running
    <3>2. CASE UNCHANGED files
      BY <1>0, <3>1, <3>2, Went DEF Places, Early, Snapped
    <3>3. CASE \E mesh : files' = [files EXCEPT !.mesh = mesh]
      <4>1. PICK mesh : files' = [files EXCEPT !.mesh = mesh]
        BY <3>3
      <4>2. files' = [inodes |-> files.inodes, tmp |-> files.tmp, tum |-> files.tum,
                      rec |-> files'.rec, mesh |-> files'.mesh]
        BY <1>0, <4>1
      <4> QED  BY <3>1, <4>2, Went DEF Places, Early, Snapped
    <3> QED  BY <3>1, <3>2, <3>3
  <2>14. CASE Mesh!Nvblox
    <3>1. /\ stack # <<>> /\ Mesh!Top.at = "start"
          /\ Mesh!Go("failed") \/ Mesh!Go("done")
          /\ UNCHANGED <<taken, node, poses, scans, files>>
      BY <2>14 DEF Mesh!Nvblox, Mesh!Running
    <3> QED  BY <1>0, <3>1, Went DEF Places, Early, Snapped
  <2>15. CASE Mesh!Return
    <3>1. /\ stack # <<>> /\ Mesh!Top.at # "rows" /\ stack' = Mesh!Below
          /\ \E ok : node' = [node EXCEPT !.ok = ok]
          /\ UNCHANGED <<taken, poses, scans, files>>
      BY <2>15 DEF Mesh!Return, Mesh!Running
    <3> QED  BY <1>0, <3>1, Popped
  <2>16. CASE Mesh!Exit
    <3>1. /\ node' = [node EXCEPT !.exited = TRUE]
          /\ UNCHANGED <<taken, poses, scans, stack, files>>
      BY <2>16 DEF Mesh!Exit
    <3>2. MeshTyped'
      BY <3>1 DEF WholeInv, MeshTyped
    <3>3. node'.triggered = node.triggered
      BY <1>0, <3>1
    <3> QED
      BY <3>1, <3>2, <3>3
      DEF WholeInv, StackShape, Snapshots, Writers, Writing, Names, Starts
  <2> QED
    BY <1>3, <2>2, <2>3, <2>4, <2>5, <2>6, <2>7, <2>8, <2>9, <2>10, <2>11, <2>12,
       <2>13, <2>14, <2>15, <2>16
    DEF Mesh!Step
<1> QED  BY <1>1, <1>2, <1>3 DEF Mesh!Next

(* There is no trajectory at the start, and every step keeps it whole.     *)
LEMMA WholeStarts == Init => WholeInv
<1> SUFFICES ASSUME Init PROVE WholeInv
  OBVIOUS
<1>1. Mesh!Init
  BY DEF Init
<1>2. /\ taken = [odom |-> 0, lidar |-> 0] /\ poses = <<>> /\ scans = <<>>
      /\ stack = <<>>
      /\ \E o : node = [ok |-> TRUE, triggered |-> FALSE, builds |-> 0,
                        exited |-> FALSE, opt |-> o]
      /\ files = [inodes |-> <<>>, tmp |-> 0, tum |-> 0, rec |-> <<>>, mesh |-> <<>>]
  BY <1>1 DEF Mesh!Init
<1>3. DOMAIN stack = {} /\ Len(stack) = 0 /\ stack \in Seq(Act)
      /\ poses \in Seq(Nat) /\ scans \in Seq(Nat) /\ files.inodes \in Seq(Seq(Nat))
  BY <1>2
<1>4. MeshTyped
  BY <1>2, <1>3 DEF MeshTyped
<1> QED
  BY <1>2, <1>3, <1>4
  DEF WholeInv, StackShape, Snapshots, Writers, Writing, Names

LEMMA WholeStep ==
  ASSUME CloudsInv, WholeInv, [Next]_vars
  PROVE  WholeInv'
<1>1. CASE MeshStep
  BY <1>1, MeshKeepsWhole DEF MeshStep, CloudsInv, MergedInv, LidarShape
<1>2. CASE UNCHANGED meshVars
  BY <1>2
  DEF meshVars, WholeInv, MeshTyped, StackShape, Snapshots, Writers, Writing,
      Names, Starts
<1> QED
  BY <1>1, <1>2
  DEF Next, Play, Tick, MergerStep, SlamStep, BridgeStep, vars

(* The trajectory file, whenever it is there, has the poses of the session *)
(* up to some moment, in their order: whichever of two builds of the mesh, *)
(* one interrupted by the other, was the last to write.                    *)
THEOREM TrajectoryAlwaysWhole == Spec => []TrajectoryWhole
<1>1. WholeInv => TrajectoryWhole
  <2> SUFFICES ASSUME WholeInv, files.tum # 0
               PROVE  LET rows == files.inodes[files.tum]
                      IN  /\ rows # <<>> /\ Len(rows) <= Len(poses)
                          /\ rows = SubSeq(poses, 1, Len(rows))
    BY DEF TrajectoryWhole, Mesh!TrajectoryWhole
  <2> DEFINE rows == files.inodes[files.tum]
  <2>1. rows # <<>> /\ Starts(rows, poses, Len(rows)) /\ poses \in Seq(Nat)
    BY DEF WholeInv, Names, MeshTyped
  <2> HIDE DEF rows
  <2>2. /\ rows \in Seq(Nat) /\ Len(rows) \in Nat /\ Len(rows) <= Len(poses)
        /\ \A k \in 1..Len(rows) : rows[k] = poses[k]
    BY <2>1 DEF Starts
  <2>3. /\ SubSeq(poses, 1, Len(rows)) \in Seq(Nat)
        /\ Len(SubSeq(poses, 1, Len(rows))) = Len(rows)
        /\ \A k \in 1..Len(rows) : SubSeq(poses, 1, Len(rows))[k] = poses[k]
    BY <2>1, <2>2
  <2>4. rows = SubSeq(poses, 1, Len(rows))
    BY <2>2, <2>3, SeqEqual
  <2> QED  BY <2>1, <2>2, <2>4 DEF rows
<1>2. CloudsInv /\ WholeInv /\ [Next]_vars => WholeInv'
  BY WholeStep
<1> QED  BY <1>1, <1>2, WholeStarts, CloudsAlways, PTL DEF Spec

-----------------------------------------------------------------------------
(* Where images are projected from: a least element, the quotient, and the *)
(* pose between two that are late.                                         *)

(* A set of numbers has a least one. *)
LEMMA Least ==
  ASSUME NEW S, S \subseteq Nat, S # {}
  PROVE  \E m \in S : \A k \in S : m <= k
<1>1. PICK m \in S : \A k \in S : <<k, m>> \notin OpToRel(<, Nat)
  BY NatLessThanWellFounded, WFMin
<1>2. \A k \in S : ~(k < m)
  BY <1>1 DEF OpToRel
<1> QED  BY <1>2

(* A multiple of w that is not above x is one of a number not above the    *)
(* quotient; one that is not below x, of a number not below it.            *)
LEMMA Quotient ==
  ASSUME NEW x \in Int, NEW w \in Nat \ {0}, NEW k \in Int
  PROVE  /\ x \div w \in Int
         /\ k * w <= x => k <= x \div w
         /\ x <= k * w => x \div w <= k
<1> DEFINE q == x \div w
<1>1. q \in Int /\ q * w <= x /\ x < q * w + w
  OBVIOUS
<1> HIDE DEF q
<1>2. ASSUME NEW a \in Int, NEW b \in Int, a < b
      PROVE  a * w + w <= b * w
  <2>1. PICK d \in Nat : b = a + 1 + d
    <3>1. b - a - 1 \in Nat /\ b = a + 1 + (b - a - 1)
      BY <1>2
    <3> QED  BY <3>1
  <2>2. b * w = a * w + w + d * w
    BY <2>1
  <2>3. d * w \in Nat
    OBVIOUS
  <2>4. a * w \in Int
    OBVIOUS
  <2> QED  BY <2>2, <2>3, <2>4
<1>3. k * w \in Int /\ q * w \in Int
  BY <1>1
<1>4. ASSUME k * w <= x PROVE k <= q
  <2> SUFFICES ASSUME q < k PROVE FALSE
    BY <1>1
  <2>1. q * w + w <= k * w
    BY <1>1, <1>2
  <2> QED  BY <1>1, <1>3, <1>4, <2>1
<1>5. ASSUME x <= k * w PROVE q <= k
  <2> SUFFICES ASSUME k < q PROVE FALSE
    BY <1>1
  <2>1. k * w + w <= q * w
    BY <1>1, <1>2
  <2> QED  BY <1>1, <1>3, <1>5, <2>1
<1> QED  BY <1>1, <1>4, <1>5 DEF q

(* Rows in the order of their times stay where they are. *)
LEMMA LoadedInOrder ==
  ASSUME NEW n \in Nat, NEW rows, DOMAIN rows = 1..n,
         \A i \in 1..n : rows[i].t \in Int,
         \A i, j \in 1..n : i < j => rows[i].t <= rows[j].t
  PROVE  Color!load_tum(rows) = [i \in 1..n |-> rows[i]]
<1> DEFINE Before(k) == {j \in DOMAIN rows :
                           rows[j].t < rows[k].t \/ (rows[j].t = rows[k].t /\ j < k)}
<1>1. ASSUME NEW k \in 1..n
      PROVE  Color!Cardinality(Before(k)) = k - 1
  <2>1. Before(k) = 1..(k - 1)
    <3>1. \A j \in 1..n : j < k => j \in Before(k)
      OBVIOUS
    <3>2. \A j \in 1..n : ~(j < k) => j \notin Before(k)
      <4> SUFFICES ASSUME NEW j \in 1..n, j >= k PROVE j \notin Before(k)
        OBVIOUS
      <4>1. rows[k].t <= rows[j].t
        OBVIOUS
      <4> QED  BY <4>1
    <3> QED  BY <3>1, <3>2
  <2>2. Cardinality(1..(k - 1)) = k - 1
    BY FS_Interval
  <2>3. \A S : Color!Cardinality(S) = Cardinality(S)
    BY DEF Color!Cardinality, Cardinality
  <2> QED  BY <2>1, <2>2, <2>3
<1> DEFINE At(i) == CHOOSE k \in DOMAIN rows : Color!Cardinality(Before(k)) = i - 1
<1>2. ASSUME NEW i \in 1..n PROVE At(i) = i
  BY <1>1
<1>3. Color!load_tum(rows) = [i \in DOMAIN rows |-> rows[At(i)]]
  BY DEF Color!load_tum
<1> HIDE DEF At
<1> QED  BY <1>2, <1>3

Row == [t : Int, at : Int]

(* Between the first time of a trajectory and its last there are two poses *)
(* one after the other. *)
LEMMA Around ==
  ASSUME NEW n \in Nat, NEW traj \in [1..n -> Row], NEW t \in Int,
         n > 0, traj[1].t < t, t < traj[n].t
  PROVE  \E i \in 1..(n - 1) : traj[i].t <= t /\ t < traj[i + 1].t
<1> DEFINE S == {k \in 1..n : t < traj[k].t}
<1>1. S \subseteq Nat /\ n \in S
  OBVIOUS
<1>2. PICK m \in S : \A k \in S : m <= k
  BY <1>1, Least
<1>3. m \in 1..n /\ m # 1 /\ t < traj[m].t
  BY DEF Row
<1>4. m - 1 \in 1..n /\ m - 1 \in 1..(n - 1) /\ m - 1 \notin S
  BY <1>2, <1>3
<1>5. traj[m - 1].t <= t
  BY <1>4 DEF Row
<1>6. (m - 1) + 1 = m
  BY <1>3
<1> QED  BY <1>3, <1>4, <1>5, <1>6

(* Of a robot that was seen late by up to B steps of the clock, ten units  *)
(* for each, the pose at a time between two times is not farther behind    *)
(* than that.                                                              *)
Late(p, origin, B) ==
  \E e \in 0..B : p.at = 10 * (p.t - origin - e)

LEMMA LateBetween ==
  ASSUME NEW B \in Nat, NEW origin \in Int, NEW p \in Row, NEW q \in Row,
         Late(p, origin, B), Late(q, origin, B),
         NEW t \in Int, p.t <= t, t < q.t
  PROVE  LET v == p.at + ((q.at - p.at) * (t - p.t)) \div (q.t - p.t)
         IN  v \in Int /\ 10 * (t - origin) - v \in 0 .. 10 * B
<1>1. PICK e \in 0..B : p.at = 10 * (p.t - origin - e)
  BY DEF Late
<1>2. PICK f \in 0..B : q.at = 10 * (q.t - origin - f)
  BY DEF Late
<1> DEFINE u == t - p.t
           w == q.t - p.t
           d == 10 * (e - f)
           x == (q.at - p.at) * u
<1>3. p.t \in Int /\ q.t \in Int /\ p.at \in Int /\ q.at \in Int
  BY DEF Row
<1>4. u \in Nat /\ w \in Nat \ {0} /\ u < w /\ d \in Int
  BY <1>3
<1>5. q.at - p.at = 10 * w + d
  BY <1>1, <1>2, <1>3
<1> HIDE DEF u, w, d
<1>6. x \in Int /\ x = (10 * u) * w + d * u
  <2>1. x = (10 * w + d) * u
    BY <1>5
  <2> QED  BY <1>4, <2>1
<1>7. /\ d >= 0 => 0 <= d * u /\ d * u <= d * w
      /\ d <= 0 => d * w <= d * u /\ d * u <= 0
  <2>1. PICK k \in Nat : w = u + k
    <3>1. w - u \in Nat /\ w = u + (w - u)
      BY <1>4
    <3> QED  BY <3>1
  <2>2. d * w = d * u + d * k
    BY <1>4, <2>1
  <2>3. d >= 0 => d * u >= 0 /\ d * k >= 0
    BY <1>4
  <2>4. d <= 0 => d * u <= 0 /\ d * k <= 0
    BY <1>4
  <2>5. d * u \in Int /\ d * k \in Int /\ d * w \in Int
    BY <1>4
  <2> QED  BY <2>2, <2>3, <2>4, <2>5
<1>8. /\ d * u \in Int /\ d * w \in Int /\ (10 * u) * w \in Int
      /\ (10 * u + d) * w = (10 * u) * w + d * w
      /\ 10 * u \in Int /\ 10 * u + d \in Int
  BY <1>4
<1> DEFINE z == x \div w
<1> HIDE DEF x
<1>9. /\ z \in Int
      /\ d >= 0 => 10 * u <= z /\ z <= 10 * u + d
      /\ d <= 0 => 10 * u + d <= z /\ z <= 10 * u
  <2>1. \A k \in Int : /\ x \div w \in Int
                       /\ k * w <= x => k <= x \div w
                       /\ x <= k * w => x \div w <= k
    BY <1>4, <1>6, Quotient
  <2>2. ASSUME d >= 0 PROVE 10 * u <= z /\ z <= 10 * u + d
    <3>1. (10 * u) * w <= x /\ x <= (10 * u + d) * w
      BY <1>6, <1>7, <1>8, <2>2
    <3> QED  BY <1>8, <2>1, <3>1
  <2>3. ASSUME d <= 0 PROVE 10 * u + d <= z /\ z <= 10 * u
    <3>1. (10 * u + d) * w <= x /\ x <= (10 * u) * w
      BY <1>6, <1>7, <1>8, <2>3
    <3> QED  BY <1>8, <2>1, <3>1
  <2>4. z \in Int
    BY <2>1
  <2> QED  BY <2>2, <2>3, <2>4
<1> HIDE DEF z
<1>10. 10 * (t - origin) = p.at + 10 * e + 10 * u
  BY <1>1, <1>3 DEF u
<1>11. p.at + z \in Int /\ 10 * (t - origin) - (p.at + z) \in 0 .. 10 * B
  <2>1. d = 10 * e - 10 * f
    BY DEF d
  <2> QED  BY <1>3, <1>4, <1>9, <1>10, <2>1
<1> QED  BY <1>11 DEF z, x, u, w

(* The same with the poses at the ends, which are given for times outside  *)
(* too: they are off by as much as the time is outside, at most.           *)
LEMMA InterpolatedLate ==
  ASSUME NEW B \in Nat, NEW origin \in Int, NEW n \in Nat \ {0}, NEW reach \in Nat \ {0},
         NEW traj \in [1..n -> Row], Len(traj) = n, traj # <<>>,
         traj[1].t <= traj[n].t,
         \A i \in 1..n : Late(traj[i], origin, B),
         NEW t \in Int, Color!interp_pose(traj, t, reach) # Color!NoPose
  PROVE  LET v == Color!interp_pose(traj, t, reach)
             far == Outside(traj, t)
         IN  /\ far \in Nat /\ far < reach /\ v \in Int
             /\ 10 * (t - origin) - v \in -10 * far .. 10 * (B + far)
<1> DEFINE lo == CHOOSE i \in 1..(Len(traj) - 1) : traj[i].t <= t /\ t < traj[i + 1].t
           p == traj[lo]
           q == traj[lo + 1]
           v == p.at + ((q.at - p.at) * (t - p.t)) \div (q.t - p.t)
           pose == Color!interp_pose(traj, t, reach)
           far == Outside(traj, t)
<1>1. pose = IF t <= traj[1].t
             THEN IF traj[1].t - t < reach THEN traj[1].at ELSE Color!NoPose
             ELSE IF t >= traj[n].t
             THEN IF t - traj[n].t < reach THEN traj[n].at ELSE Color!NoPose
             ELSE v
  <2>1. pose = IF traj = <<>> THEN Color!NoPose
               ELSE IF t <= traj[1].t
               THEN IF traj[1].t - t < reach THEN traj[1].at ELSE Color!NoPose
               ELSE IF t >= traj[Len(traj)].t
               THEN IF t - traj[Len(traj)].t < reach THEN traj[Len(traj)].at ELSE Color!NoPose
               ELSE v
    BY ONLY DEF Color!interp_pose
  <2> HIDE DEF pose, v
  <2> QED  BY ONLY <2>1, Len(traj) = n, traj # <<>>
<1>2. /\ traj[1] \in Row /\ traj[n] \in Row
      /\ traj[1].t \in Int /\ traj[n].t \in Int
  BY DEF Row
<1>3. far = IF t < traj[1].t THEN traj[1].t - t
            ELSE IF t > traj[n].t THEN t - traj[n].t ELSE 0
  BY DEF Outside
<1>4. ASSUME NEW i \in 1..n, NEW f \in Nat,
             traj[i].t - t = f \/ t - traj[i].t = f
      PROVE  traj[i].at \in Int /\ 10 * (t - origin) - traj[i].at \in -10 * f .. 10 * (B + f)
  <2>1. PICK e \in 0..B : traj[i].at = 10 * (traj[i].t - origin - e)
    BY DEF Late
  <2>2. traj[i].t \in Int /\ traj[i].at \in Int
    BY DEF Row
  <2> DEFINE a == traj[i].at
             s == traj[i].t
  <2>3. a = 10 * (s - origin - e) /\ (s - t = f \/ t - s = f) /\ a \in Int /\ s \in Int
    BY <1>4, <2>1, <2>2
  <2> HIDE DEF a, s
  <2>4. a \in Int /\ 10 * (t - origin) - a \in -10 * f .. 10 * (B + f)
    BY ONLY <2>3, e \in 0..B, f \in Nat, t \in Int, origin \in Int, B \in Nat
  <2> QED  BY <2>4 DEF a
<1>5. ASSUME traj[1].t < t, t < traj[n].t
      PROVE  v \in Int /\ 10 * (t - origin) - v \in 0 .. 10 * B
  <2>1. lo \in 1..(n - 1) /\ traj[lo].t <= t /\ t < traj[lo + 1].t
    <3>1. \E i \in 1..(n - 1) : traj[i].t <= t /\ t < traj[i + 1].t
      BY <1>5, Around
    <3> QED  BY <3>1
  <2> HIDE DEF lo
  <2>2. p \in Row /\ q \in Row /\ Late(p, origin, B) /\ Late(q, origin, B)
    BY <2>1
  <2> QED  BY <2>1, <2>2, LateBetween
<1> HIDE DEF v, far, pose
<1>6. pose # Color!NoPose
  BY DEF pose
<1>7. CASE t <= traj[1].t
  <2>1. pose = traj[1].at /\ traj[1].t - t < reach
    BY ONLY <1>1, <1>6, <1>7
  <2>2. far = traj[1].t - t /\ far \in Nat /\ 1 \in 1..n
    BY ONLY <1>2, <1>3, <1>7, t \in Int, n \in Nat \ {0}, traj[1].t <= traj[n].t
  <2>3. /\ traj[1].at \in Int
        /\ 10 * (t - origin) - traj[1].at \in -10 * far .. 10 * (B + far)
    BY <1>4, <2>2
  <2> QED  BY <2>1, <2>2, <2>3 DEF far, pose
<1>8. CASE ~(t <= traj[1].t) /\ t >= traj[n].t
  <2>1. pose = traj[n].at /\ t - traj[n].t < reach
    BY ONLY <1>1, <1>6, <1>8
  <2>2. far = t - traj[n].t /\ far \in Nat /\ n \in 1..n
    BY ONLY <1>2, <1>3, <1>8, t \in Int, n \in Nat \ {0}
  <2>3. /\ traj[n].at \in Int
        /\ 10 * (t - origin) - traj[n].at \in -10 * far .. 10 * (B + far)
    BY <1>4, <2>2
  <2> QED  BY <2>1, <2>2, <2>3 DEF far, pose
<1>9. CASE ~(t <= traj[1].t) /\ ~(t >= traj[n].t)
  <2>1. pose = v
    BY ONLY <1>1, <1>9
  <2>2. far = 0 /\ traj[1].t < t /\ t < traj[n].t
    BY ONLY <1>2, <1>3, <1>9, t \in Int
  <2>3. v \in Int /\ 10 * (t - origin) - v \in 0 .. 10 * B
    BY <1>5, <2>2
  <2> QED  BY <2>1, <2>2, <2>3 DEF far, pose
<1> QED  BY <1>7, <1>8, <1>9

-----------------------------------------------------------------------------
(* What the SLAM node has published: poses stamped by the clock, in order. *)
OdomInv ==
  /\ odom \in Seq([stamp : Nat, of : Nat])
  /\ \A i \in 1..Len(odom) : odom[i].stamp <= now
  /\ \A i, j \in 1..Len(odom) : i < j => odom[i].stamp <= odom[j].stamp

(* A bag that is played: a scan has the stamp it has in the bag, and is    *)
(* taken, if it is, no later than the bound on the delay after it was due. *)
DueAt(k) == Bag.start + Bag.lidar[k]

BagInv ==
  /\ launched \in Launches
  /\ "bag" \in launched =>
       /\ Len(lidar) <= Len(Bag.lidar)
       /\ \A k \in 1..Len(lidar) : lidar[k].stamp = Bag.lidar[k] /\ DueAt(k) <= now
       /\ \A k \in slam.read + 1 .. Len(lidar) : now - DueAt(k) <= MaxDelay
       /\ \A i \in 1..Len(odom) :
            /\ odom[i].of \in 1..Len(lidar)
            /\ odom[i].stamp - DueAt(odom[i].of) \in 0..MaxDelay

LEMMA Published ==
  ASSUME OdomInv, now \in Nat, NEW k \in Nat,
         odom' = Append(odom, [stamp |-> now, of |-> k]), now' = now
  PROVE  /\ OdomInv' /\ Len(odom') = Len(odom) + 1
         /\ \A i \in 1..Len(odom) : odom'[i] = odom[i]
         /\ odom'[Len(odom) + 1] = [stamp |-> now, of |-> k]
<1> DEFINE r == [stamp |-> now, of |-> k]
           Entry == [stamp : Nat, of : Nat]
           n == Len(odom)
<1>1. r \in Entry /\ r.stamp = now
  OBVIOUS
<1> HIDE DEF r
<1>2. odom \in Seq(Entry) /\ n \in Nat /\ \A i \in 1..n : odom[i].stamp \in Nat
  <2>1. odom \in Seq(Entry)
    BY DEF OdomInv
  <2>2. \A x \in Entry : x.stamp \in Nat
    OBVIOUS
  <2> HIDE DEF Entry
  <2> QED  BY <2>1, <2>2
<1> HIDE DEF Entry
<1>4. /\ odom' \in Seq(Entry) /\ Len(odom') = n + 1
      /\ \A i \in 1..n : odom'[i] = odom[i]
      /\ odom'[n + 1] = r
  BY <1>1, <1>2 DEF r
<1> HIDE DEF n
<1>5. /\ \A i \in 1..n : odom[i].stamp <= now
      /\ \A i, j \in 1..n : i < j => odom[i].stamp <= odom[j].stamp
  BY DEF OdomInv, n
<1>6. \A i \in 1..(n + 1) : odom'[i].stamp <= now
  BY <1>1, <1>2, <1>4, <1>5
<1>7. \A i, j \in 1..(n + 1) : i < j => odom'[i].stamp <= odom'[j].stamp
  <2> SUFFICES ASSUME NEW i \in 1..(n + 1), NEW j \in 1..(n + 1), i < j
               PROVE  odom'[i].stamp <= odom'[j].stamp
    OBVIOUS
  <2>1. i \in 1..n
    BY <1>2
  <2>2. CASE j = n + 1
    BY <1>1, <1>4, <1>5, <2>1, <2>2
  <2>3. CASE j \in 1..n
    BY <1>4, <1>5, <2>1, <2>3
  <2>4. j = n + 1 \/ j \in 1..n
    BY <1>2
  <2> QED  BY <2>2, <2>3, <2>4
<1> QED  BY <1>4, <1>6, <1>7 DEF OdomInv, n, r, Entry

LEMMA OdomKept ==
  ASSUME OdomInv, SlamInv, odom' = odom, now' \in {now, now + 1}
  PROVE  OdomInv'
<1>1. now \in Nat /\ \A i \in 1..Len(odom) : odom[i].stamp \in Nat
  <2> DEFINE R == [stamp : Nat, of : Nat]
  <2>1. odom \in Seq(R) /\ now \in Nat
    BY DEF OdomInv, SlamInv
  <2>2. \A x \in R : x.stamp \in Nat
    OBVIOUS
  <2> HIDE DEF R
  <2> QED  BY <2>1, <2>2
<1>2. ASSUME NEW i \in 1..Len(odom) PROVE odom[i].stamp <= now'
  BY <1>1 DEF OdomInv
<1> QED  BY <1>2 DEF OdomInv

(* The SLAM node takes a scan when it is not too late for it. *)
LEMMA SlamTimely ==
  ASSUME SlamInv, OdomInv, BagInv, Slam!Next, Len(lidar) \in Nat,
         UNCHANGED <<launched, lidar>>
  PROVE  OdomInv' /\ BagInv'
<1>0. /\ now \in Nat /\ slam.read \in Nat /\ MaxDelay \in Nat
      /\ slam = [read |-> slam.read, last |-> slam.last,
                 heartbeat |-> slam.heartbeat, map |-> slam.map]
  BY SlamGraphAssumption DEF SlamInv
<1>1. ASSUME UNCHANGED <<now, odom>>, slam'.read \in Nat, slam'.read >= slam.read
      PROVE  OdomInv' /\ BagInv'
  <2>1. OdomInv'
    BY <1>1 DEF OdomInv
  <2>2. slam'.read + 1 .. Len(lidar) \subseteq slam.read + 1 .. Len(lidar)
    BY <1>0, <1>1
  <2> QED  BY <1>1, <2>1, <2>2 DEF BagInv, DueAt
<1>2. CASE Slam!onLidar
  <2>1. PICK k \in slam.read + 1 .. Len(lidar) : Slam!NoPose(k) \/ Slam!Pose(k)
    BY <1>2 DEF Slam!onLidar
  <2>2. k \in Nat /\ k > slam.read /\ k \in 1..Len(lidar) /\ now' = now
    BY <1>0, <1>2, <2>1 DEF Slam!onLidar
  <2>3. CASE Slam!NoPose(k)
    <3>1. slam'.read = k /\ odom' = odom
      BY <1>0, <2>3 DEF Slam!NoPose
    <3> QED  BY <1>0, <1>1, <2>2, <3>1
  <2>4. CASE Slam!Pose(k)
    <3>1. slam'.read = k /\ odom' = Append(odom, [stamp |-> now, of |-> k])
      BY <1>0, <2>4 DEF Slam!Pose
    <3>2. /\ OdomInv' /\ Len(odom') = Len(odom) + 1
          /\ \A i \in 1..Len(odom) : odom'[i] = odom[i]
          /\ odom'[Len(odom) + 1] = [stamp |-> now, of |-> k]
      BY <1>0, <2>2, <3>1, Published
    <3>3. Len(odom) \in Nat
      BY DEF OdomInv
    <3> DEFINE n == Len(odom)
    <3> HIDE DEF n
    <3>4. ASSUME "bag" \in launched
          PROVE  \A i \in 1..Len(odom') :
                   /\ odom'[i].of \in 1..Len(lidar)
                   /\ odom'[i].stamp - DueAt(odom'[i].of) \in 0..MaxDelay
      <4>1. Bag.lidar[k] \in Int /\ DueAt(k) \in Int
        <5>1. Bag.start \in Int /\ Bag.lidar \in Seq(Int)
          BY SlamGraphAssumption
        <5>2. k \in 1..Len(Bag.lidar)
          <6>1. Len(lidar) <= Len(Bag.lidar)
            BY <3>4 DEF BagInv
          <6> QED  BY <1>0, <2>2, <5>1, <6>1
        <5>3. Bag.lidar[k] \in Int
          BY <5>1, <5>2
        <5> QED  BY <5>1, <5>3 DEF DueAt
      <4>2. DueAt(k) <= now /\ now - DueAt(k) <= MaxDelay
        BY <2>1, <2>2, <3>4 DEF BagInv
      <4>3. now - DueAt(k) \in 0..MaxDelay
        BY <1>0, <4>1, <4>2
      <4>4. \A i \in 1..n : /\ odom[i].of \in 1..Len(lidar)
                            /\ odom[i].stamp - DueAt(odom[i].of) \in 0..MaxDelay
        BY <3>4 DEF BagInv, n
      <4>5. \A i \in 1..(n + 1) : i \in 1..n \/ i = n + 1
        BY <3>3 DEF n
      <4>6. /\ \A i \in 1..n : odom'[i] = odom[i]
            /\ odom'[n + 1].stamp = now /\ odom'[n + 1].of = k
        BY <3>2 DEF n
      <4>7. Len(odom') = n + 1
        BY <3>2 DEF n
      <4> QED  BY <2>2, <4>3, <4>4, <4>5, <4>6, <4>7
    <3>5. slam'.read + 1 .. Len(lidar) \subseteq slam.read + 1 .. Len(lidar)
      BY <1>0, <2>2, <3>1
    <3>6. \A j : DueAt(j)' = DueAt(j)
      BY DEF DueAt
    <3>7. BagInv'
      BY <2>2, <3>4, <3>5, <3>6 DEF BagInv
    <3> QED  BY <3>2, <3>7
  <2> QED  BY <2>1, <2>3, <2>4
<1>3. CASE Slam!publishStartupTf
  <2>1. /\ UNCHANGED <<now, odom>>
        /\ slam' = slam \/ slam' = [slam EXCEPT !.heartbeat = FALSE]
    BY <1>3 DEF Slam!publishStartupTf
  <2>2. slam'.read = slam.read
    BY <1>0, <2>1
  <2> QED  BY <1>0, <1>1, <2>1, <2>2
<1>4. CASE Slam!publishObstacles
  BY <1>0, <1>1, <1>4 DEF Slam!publishObstacles
<1> QED  BY <1>2, <1>3, <1>4 DEF Slam!Next

(* A scan is played when it is due, and the clock waits for it to be taken *)
(* or lost. *)
LEMMA BagKept ==
  ASSUME CloudsInv, SlamInv, OdomInv, BagInv, [Next]_vars
  PROVE  OdomInv' /\ BagInv'
<1>0. /\ now \in Nat /\ slam.read \in Nat /\ MaxDelay \in Nat /\ Len(lidar) \in Nat
      /\ lidar = [i \in 1..Len(lidar) |-> lidar[i]]
      /\ Bag.start \in Int /\ Bag.lidar \in Seq(Int) /\ Len(Bag.lidar) \in Nat
      /\ \A k \in 1..Len(Bag.lidar) : Bag.lidar[k] \in Int /\ DueAt(k) \in Int
  <2>1. /\ now \in Nat /\ slam.read \in Nat /\ MaxDelay \in Nat /\ Len(lidar) \in Nat
        /\ lidar = [i \in 1..Len(lidar) |-> lidar[i]]
    BY SlamGraphAssumption DEF SlamInv, CloudsInv, MergedInv, LidarShape
  <2>2. Bag.start \in Int /\ Bag.lidar \in Seq(Int)
    BY SlamGraphAssumption
  <2>3. Len(Bag.lidar) \in Nat /\ \A k \in 1..Len(Bag.lidar) : Bag.lidar[k] \in Int
    BY <2>2
  <2>4. \A k \in 1..Len(Bag.lidar) : DueAt(k) \in Int
    BY <2>2, <2>3 DEF DueAt
  <2> QED  BY <2>1, <2>2, <2>3, <2>4
<1>1. CASE SlamStep
  BY <1>0, <1>1, SlamTimely, SlamReads DEF SlamStep
<1>2. CASE UNCHANGED <<launched, now, lidar, slam, odom>>
  BY <1>2 DEF OdomInv, BagInv, DueAt
<1>3. CASE MeshStep \/ BridgeStep \/ UNCHANGED vars
  BY <1>2, <1>3, MeshReads DEF MeshStep, BridgeStep, vars, slamVars
<1>4. CASE MergerStep
  <2>1. UNCHANGED <<launched, odom>> /\ now' \in {now, now + 1} /\ "merger" \in launched
    BY <1>4 DEF MergerStep, Merger!Next, Merger!cb_cloud, slamVars
  <2>2. "bag" \notin launched /\ launched \in Launches
    BY <2>1, SlamGraphAssumption DEF BagInv
  <2>3. BagInv'
    BY <2>1, <2>2 DEF BagInv
  <2> QED  BY <2>1, <2>3, OdomKept
<1>5. CASE Play
  <2> DEFINE n == Len(lidar)
             c == [stamp |-> Bag.lidar[n + 1], kind |-> "full", of |-> {}]
  <2>1. /\ "bag" \in launched /\ n < Len(Bag.lidar) /\ DueAt(n + 1) = now
        /\ lidar' = Append(lidar, c) /\ UNCHANGED <<launched, now, slam, odom>>
    BY <1>5 DEF Play, DueAt, slamVars
  <2>2. c.stamp = Bag.lidar[n + 1]
    OBVIOUS
  <2> HIDE DEF c
  <2>3. /\ Len(lidar') = n + 1 /\ \A k \in 1..n : lidar'[k] = lidar[k]
        /\ lidar'[n + 1] = c
    <3>1. lidar \in Seq({lidar[i] : i \in 1..n} \cup {c})
      BY <1>0
    <3> QED  BY <2>1, <3>1
  <2> HIDE DEF n
  <2>4. /\ n \in Nat /\ n <= Len(Bag.lidar)
        /\ \A k \in 1..n : lidar[k].stamp = Bag.lidar[k] /\ DueAt(k) <= now
        /\ \A k \in slam.read + 1 .. n : now - DueAt(k) <= MaxDelay
        /\ \A i \in 1..Len(odom) :
             /\ odom[i].of \in 1..n
             /\ odom[i].stamp - DueAt(odom[i].of) \in 0..MaxDelay
    BY <1>0, <2>1 DEF BagInv, n
  <2>5. \A k \in 1..(n + 1) : lidar'[k].stamp = Bag.lidar[k] /\ DueAt(k) <= now
    <3>1. \A k \in 1..(n + 1) : k \in 1..n \/ k = n + 1
      BY <2>4
    <3>2. DueAt(n + 1) <= now
      BY <1>0, <2>1
    <3> QED  BY <2>1, <2>2, <2>3, <2>4, <3>1, <3>2
  <2>6. \A k \in slam.read + 1 .. n + 1 : now - DueAt(k) <= MaxDelay
    <3>1. \A k \in slam.read + 1 .. n + 1 : k \in slam.read + 1 .. n \/ k = n + 1
      BY <1>0, <2>4
    <3>2. now - DueAt(n + 1) = 0
      BY <1>0, <2>1
    <3> QED  BY <1>0, <2>4, <3>1, <3>2
  <2>7. \A i \in 1..Len(odom) : odom[i].of \in 1..(n + 1)
    BY <2>4
  <2>8. \A j : DueAt(j)' = DueAt(j)
    BY DEF DueAt
  <2>9. n + 1 <= Len(Bag.lidar) /\ launched \in Launches
    BY <1>0, <2>1, <2>4 DEF BagInv
  <2>10. BagInv'
    BY <2>1, <2>3, <2>4, <2>5, <2>6, <2>7, <2>8, <2>9 DEF BagInv
  <2> QED  BY <2>1, <2>10 DEF OdomInv
<1>6. CASE Tick
  <2>1. /\ now' = now + 1 /\ UNCHANGED <<launched, lidar, slam, odom>>
        /\ "bag" \in launched =>
             \A k \in slam.read + 1 .. Len(lidar) :
               now - (Bag.start + lidar[k].stamp) < MaxDelay
    BY <1>6 DEF Tick, slamVars
  <2>2. OdomInv'
    BY <2>1, OdomKept
  <2>3. ASSUME "bag" \in launched
        PROVE  /\ \A k \in 1..Len(lidar) : DueAt(k) <= now + 1
               /\ \A k \in slam.read + 1 .. Len(lidar) : now + 1 - DueAt(k) <= MaxDelay
    <3>1. ASSUME NEW k \in 1..Len(lidar)
          PROVE  /\ DueAt(k) \in Int /\ DueAt(k) <= now
                 /\ DueAt(k) = Bag.start + lidar[k].stamp
      BY <1>0, <2>3 DEF BagInv, DueAt
    <3>2. slam.read + 1 .. Len(lidar) \subseteq 1..Len(lidar)
      BY <1>0
    <3>3. \A k \in slam.read + 1 .. Len(lidar) : now - DueAt(k) < MaxDelay
      BY <2>1, <2>3, <3>1, <3>2
    <3> QED  BY <1>0, <3>1, <3>2, <3>3
  <2>4. \A j : DueAt(j)' = DueAt(j)
    BY DEF DueAt
  <2>5. "bag" \in launched =>
          /\ Len(lidar) <= Len(Bag.lidar)
          /\ \A k \in 1..Len(lidar) : lidar[k].stamp = Bag.lidar[k]
          /\ \A i \in 1..Len(odom) :
               /\ odom[i].of \in 1..Len(lidar)
               /\ odom[i].stamp - DueAt(odom[i].of) \in 0..MaxDelay
    BY DEF BagInv
  <2>6. launched' \in Launches
    BY <2>1 DEF BagInv
  <2>7. UNCHANGED <<launched, lidar, slam, odom>> /\ now' = now + 1
    BY <2>1
  <2>8. ASSUME "bag" \in launched
        PROVE  /\ Len(lidar') <= Len(Bag.lidar)
               /\ \A k \in 1..Len(lidar') :
                    lidar'[k].stamp = Bag.lidar[k] /\ DueAt(k) <= now'
               /\ \A k \in slam'.read + 1 .. Len(lidar') : now' - DueAt(k) <= MaxDelay
               /\ \A i \in 1..Len(odom') :
                    /\ odom'[i].of \in 1..Len(lidar')
                    /\ odom'[i].stamp - DueAt(odom'[i].of) \in 0..MaxDelay
    <3>1. lidar' = lidar /\ odom' = odom /\ slam' = slam /\ now' = now + 1
      BY <2>7
    <3>2. \A k \in 1..Len(lidar) : lidar[k].stamp = Bag.lidar[k] /\ DueAt(k) <= now + 1
      BY <2>3, <2>5, <2>8
    <3>3. \A k \in slam.read + 1 .. Len(lidar) : now + 1 - DueAt(k) <= MaxDelay
      BY <2>3, <2>8
    <3>4. /\ Len(lidar) <= Len(Bag.lidar)
          /\ \A i \in 1..Len(odom) :
               /\ odom[i].of \in 1..Len(lidar)
               /\ odom[i].stamp - DueAt(odom[i].of) \in 0..MaxDelay
      BY <2>5, <2>8
    <3>5. \A k \in 1..Len(lidar') :
            lidar'[k].stamp = Bag.lidar[k] /\ DueAt(k) <= now'
      BY ONLY <3>1, <3>2
    <3>6. \A k \in slam'.read + 1 .. Len(lidar') : now' - DueAt(k) <= MaxDelay
      <4>1. ASSUME NEW k \in slam.read + 1 .. Len(lidar)
            PROVE  now' - DueAt(k) <= MaxDelay
        <5>1. k \in 1..Len(Bag.lidar)
          BY <1>0, <2>5, <2>8
        <5>2. now + 1 - DueAt(k) <= MaxDelay /\ DueAt(k) \in Int
          BY <1>0, <3>3, <5>1
        <5> QED  BY <1>0, <3>1, <5>2
      <4> QED  BY <3>1, <4>1
    <3>7. /\ Len(lidar') <= Len(Bag.lidar)
          /\ \A i \in 1..Len(odom') :
               /\ odom'[i].of \in 1..Len(lidar')
               /\ odom'[i].stamp - DueAt(odom'[i].of) \in 0..MaxDelay
      BY ONLY <3>1, <3>4
    <3> QED  BY ONLY <3>5, <3>6, <3>7
  <2>9. BagInv'
    BY ONLY <2>6, <2>7, <2>8 DEF BagInv, DueAt
  <2> QED  BY <2>2, <2>9
<1> QED  BY <1>1, <1>3, <1>4, <1>5, <1>6 DEF Next

-----------------------------------------------------------------------------
(* The mesh builder takes poses in the order in which they are published,  *)
(* if not all of them, so the numbers in _poses grow; the one that is      *)
(* taken but not yet appended belongs to the callback at the bottom of the *)
(* stack.                                                                  *)
Pending == IF stack # <<>> /\ stack[1].what = "odom" THEN 1 ELSE 0

Numbered ==
  /\ Pending <= taken.odom /\ taken.odom <= Len(odom)
  /\ \A i \in 1..Len(poses) : poses[i] \in 1..(taken.odom - Pending)
  /\ \A i, j \in 1..Len(poses) : i < j => poses[i] <= poses[j]

(* Steps that leave the callback at the bottom where it is. *)
LEMMA NumberedKept ==
  ASSUME Numbered, UNCHANGED <<poses, taken, odom>>,
         (stack' # <<>> /\ stack'[1].what = "odom") <=> (stack # <<>> /\ stack[1].what = "odom")
  PROVE  Numbered'
BY DEF Numbered, Pending

(* The activation on top goes on, and no other is changed. *)
LEMMA SameCallback ==
  ASSUME WholeInv, stack # <<>>, NEW a, a.what = Mesh!Top.what,
         stack' = [stack EXCEPT ![Len(stack)] = a]
  PROVE  stack' # <<>> /\ stack'[1].what = stack[1].what
<1>1. /\ Len(stack) \in 1..2 /\ DOMAIN stack = 1..Len(stack)
      /\ Mesh!Top = stack[Len(stack)]
  BY TopIs
<1>2. DOMAIN stack' = DOMAIN stack /\ 1 \in DOMAIN stack
  BY <1>1
<1>3. stack' # <<>>
  <2>1. DOMAIN <<>> = {}
    OBVIOUS
  <2> QED  BY <1>2, <2>1
<1>4. stack'[1] = IF Len(stack) = 1 THEN a ELSE stack[1]
  BY <1>1, <1>2
<1> QED  BY <1>1, <1>3, <1>4

(* The activation that returns is not that of a pose. *)
LEMMA OtherReturns ==
  ASSUME WholeInv, stack # <<>>, Mesh!Top.what # "odom", stack' = Mesh!Below
  PROVE  (stack' # <<>> /\ stack'[1].what = "odom") <=> (stack # <<>> /\ stack[1].what = "odom")
<1>1. /\ Len(stack) \in 1..2 /\ Mesh!Top = stack[Len(stack)] /\ stack \in Seq(Act)
  BY TopIs DEF WholeInv, MeshTyped
<1>2. stack' = SubSeq(stack, 1, Len(stack) - 1)
  BY DEF Mesh!Below
<1>3. CASE Len(stack) = 1
  <2>1. stack' = <<>>
    BY <1>1, <1>2, <1>3
  <2> QED  BY <1>1, <1>3, <2>1
<1>4. CASE Len(stack) = 2
  <2>1. stack' # <<>> /\ stack'[1] = stack[1]
    BY <1>1, <1>2, <1>4
  <2> QED  BY <2>1
<1> QED  BY <1>1, <1>3, <1>4

LEMMA NumberedStep ==
  ASSUME WholeInv, Numbered, Mesh!Next
  PROVE  Numbered'
<1>0. /\ poses \in Seq(Nat) /\ Len(poses) \in Nat /\ taken.odom \in Nat
      /\ taken = [odom |-> taken.odom, lidar |-> taken.lidar]
      /\ stack \in Seq(Act) /\ UNCHANGED odom
  <2>1. UNCHANGED odom
    BY MeshReads
  <2> QED  BY <2>1 DEF WholeInv, MeshTyped
<1>1. ASSUME NEW what, stack' = Append(stack, Mesh!Activation(what))
      PROVE  /\ stack' # <<>>
             /\ stack = <<>> => stack'[1].what = what
             /\ stack # <<>> => stack'[1] = stack[1]
  <2> DEFINE a == Mesh!Activation(what)
             S == Act \cup {a}
  <2>1. stack \in Seq(S) /\ a \in S /\ a.what = what
    BY <1>0 DEF Mesh!Activation
  <2> HIDE DEF a, S
  <2>2. stack' = Append(stack, a)
    BY <1>1 DEF a
  <2> QED  BY <2>1, <2>2
<1>2. CASE Mesh!Call
  <2>1. stack = <<>> /\ UNCHANGED poses
    BY <1>2 DEF Mesh!Call
  <2>2. CASE /\ \E k \in taken.odom + 1 .. Len(odom) : taken' = [taken EXCEPT !.odom = k]
             /\ Mesh!Push("odom")
    <3>1. /\ taken'.odom \in Nat /\ taken'.odom <= Len(odom)
          /\ 1..taken.odom \subseteq 1..(taken'.odom - 1)
      <4>1. PICK k \in taken.odom + 1 .. Len(odom) : taken' = [taken EXCEPT !.odom = k]
        BY <2>2
      <4>2. taken'.odom = k
        BY <1>0, <4>1
      <4> QED  BY ONLY <1>0, <4>1, <4>2
    <3>2. Pending = 0 /\ Pending' = 1
      BY <1>1, <2>1, <2>2 DEF Mesh!Push, Pending
    <3>3. /\ taken.odom - Pending = taken.odom /\ taken'.odom - Pending' = taken'.odom - 1
          /\ Pending' <= taken'.odom
      <4>1. taken'.odom > 0
        BY <1>0, <2>2
      <4> QED  BY <1>0, <3>1, <3>2, <4>1
    <3> QED  BY <1>0, <2>1, <3>1, <3>3 DEF Numbered
  <2>3. CASE /\ \E k \in taken.lidar + 1 .. Len(lidar) : taken' = [taken EXCEPT !.lidar = k]
             /\ Mesh!Push("lidar")
    <3>1. taken'.odom = taken.odom
      BY <1>0, <2>3
    <3>2. stack' # <<>> /\ stack'[1].what = "lidar"
      BY <1>1, <2>1, <2>3 DEF Mesh!Push
    <3> QED  BY <1>0, <2>1, <3>1, <3>2 DEF Numbered, Pending
  <2>4. CASE Mesh!Push("service") /\ UNCHANGED taken
    <3>1. stack' # <<>> /\ stack'[1].what = "service"
      BY <1>1, <2>1, <2>4 DEF Mesh!Push
    <3> QED  BY <1>0, <2>1, <2>4, <3>1 DEF Numbered, Pending
  <2> QED  BY <1>2, <2>2, <2>3, <2>4 DEF Mesh!Call
<1>3. CASE Mesh!Signal
  <2>1. UNCHANGED <<poses, taken>> /\ Mesh!Push("shutdown")
    BY <1>3 DEF Mesh!Signal
  <2>2. (stack' # <<>> /\ stack'[1].what = "odom") <=> (stack # <<>> /\ stack[1].what = "odom")
    BY <1>1, <2>1 DEF Mesh!Push
  <2> QED  BY <1>0, <2>1, <2>2, NumberedKept
<1>4. CASE Mesh!_on_odom
  <2>1. /\ stack # <<>> /\ Mesh!Top.what = "odom"
        /\ poses' = Append(poses, taken.odom) /\ stack' = Mesh!Below /\ UNCHANGED taken
    BY <1>4 DEF Mesh!_on_odom, Mesh!Running
  <2>2. Len(stack) = 1 /\ Mesh!Top = stack[1]
    BY <2>1, TopIs DEF WholeInv, StackShape
  <2>3. stack' = <<>>
    BY <1>0, <2>1, <2>2 DEF Mesh!Below
  <2>4. /\ Pending = 1 /\ 1 <= taken.odom /\ taken.odom <= Len(odom)
        /\ \A i \in 1..Len(poses) : poses[i] \in 1..(taken.odom - 1)
        /\ \A i, j \in 1..Len(poses) : i < j => poses[i] <= poses[j]
    BY <2>1, <2>2 DEF Numbered, Pending
  <2>5. /\ Len(poses') = Len(poses) + 1 /\ poses'[Len(poses) + 1] = taken.odom
        /\ \A i \in 1..Len(poses) : poses'[i] = poses[i]
    BY <1>0, <2>1
  <2> DEFINE n == Len(poses)
             k == taken.odom
  <2>6. k \in Nat /\ k > 0
    BY <1>0, <2>4
  <2>7. n \in Nat /\ Len(poses') = n + 1 /\ \A i \in 1..(n + 1) : i \in 1..n \/ i = n + 1
    BY <1>0, <2>5
  <2>8. \A i \in 1..n : poses'[i] \in 1..k /\ poses'[i] <= k /\ poses'[i] = poses[i]
    <3> HIDE DEF n, k
    <3>1. \A x \in 1..(k - 1) : x \in 1..k /\ x <= k
      BY <2>6
    <3>2. \A i \in 1..n : poses[i] \in 1..(k - 1) /\ poses'[i] = poses[i]
      BY <2>4, <2>5 DEF n, k
    <3> QED  BY <3>1, <3>2
  <2>9. \A i \in 1..(n + 1) : poses'[i] \in 1..k
    <3>1. k \in 1..k
      BY <2>6
    <3> QED  BY <2>5, <2>7, <2>8, <3>1
  <2>10. \A i, j \in 1..(n + 1) : i < j => poses'[i] <= poses'[j]
    <3> SUFFICES ASSUME NEW i \in 1..(n + 1), NEW j \in 1..(n + 1), i < j
                 PROVE  poses'[i] <= poses'[j]
      OBVIOUS
    <3>1. i \in 1..n
      BY <2>7
    <3>2. CASE j = n + 1
      BY <2>5, <2>8, <3>1, <3>2
    <3>3. CASE j \in 1..n
      BY <2>4, <2>8, <3>1, <3>3
    <3> QED  BY <2>7, <3>2, <3>3
  <2>11. Pending' = 0 /\ taken'.odom - Pending' = k
    <3>1. Pending' = 0 /\ taken' = taken
      BY <2>1, <2>3 DEF Pending
    <3> QED  BY <2>6, <3>1
  <2> QED  BY <1>0, <2>1, <2>4, <2>7, <2>9, <2>10, <2>11 DEF Numbered
<1>5. CASE Mesh!_on_lidar \/ Mesh!Return
  <2>1. /\ stack # <<>> /\ Mesh!Top.what # "odom" /\ stack' = Mesh!Below
        /\ UNCHANGED <<poses, taken>>
    BY <1>5 DEF Mesh!_on_lidar, Mesh!Return, Mesh!Running, Mesh!Builds
  <2> QED  BY <1>0, <2>1, OtherReturns, NumberedKept
<1>6. CASE Mesh!Exit
  BY <1>0, <1>6, NumberedKept DEF Mesh!Exit
<1>7. ASSUME stack # <<>>, UNCHANGED <<poses, taken>>,
             NEW a, a.what = Mesh!Top.what, stack' = [stack EXCEPT ![Len(stack)] = a]
      PROVE  Numbered'
  <2>1. stack' # <<>> /\ stack'[1].what = stack[1].what
    BY <1>7, SameCallback
  <2> QED  BY <1>0, <1>7, <2>1, NumberedKept
<1>8. ASSUME stack # <<>>, UNCHANGED <<poses, taken>>, NEW at, Mesh!Go(at)
      PROVE  Numbered'
  <2> DEFINE a == [Mesh!Top EXCEPT !.at = at]
  <2>1. Mesh!Top \in Act /\ Mesh!Top = stack[Len(stack)]
    BY <1>8, TopIs
  <2>2. a.what = Mesh!Top.what
    BY <2>1 DEF Act
  <2>3. stack' = [stack EXCEPT ![Len(stack)] = a]
    BY <1>8, <2>1 DEF Mesh!Go
  <2> QED  BY <1>7, <1>8, <2>2, <2>3
<1>9. CASE Mesh!TakePosesLock \/ Mesh!TakeScansLock \/ Mesh!Nvblox
  <2>1. stack # <<>> /\ UNCHANGED <<poses, taken>> /\ \E at : Mesh!Go(at)
    BY <1>9 DEF Mesh!TakePosesLock, Mesh!TakeScansLock, Mesh!Nvblox, Mesh!Running
  <2> QED  BY <1>8, <2>1
<1>10. CASE Mesh!Replace \/ Mesh!OpenRec \/ Mesh!WriteRec \/ Mesh!Tool
  <2>1. stack # <<>> /\ UNCHANGED <<poses, taken>>
    BY <1>10 DEF Mesh!Replace, Mesh!OpenRec, Mesh!WriteRec, Mesh!Tool, Mesh!Running
  <2>2. \E at : Mesh!Go(at)
    BY <1>10 DEF Mesh!Replace, Mesh!OpenRec, Mesh!WriteRec, Mesh!Tool
  <2> QED  BY <1>8, <2>1, <2>2
<1>11. CASE Mesh!SnapshotPoses \/ Mesh!SnapshotScans \/ Mesh!OpenTmp \/ Mesh!WriteRow
  <2>1. stack # <<>> /\ UNCHANGED <<poses, taken>>
    BY <1>11 DEF Mesh!SnapshotPoses, Mesh!SnapshotScans, Mesh!OpenTmp,
                 Mesh!WriteRow, Mesh!Running
  <2>2. /\ Mesh!Top \in Act /\ Mesh!Top = stack[Len(stack)]
        /\ Len(stack) \in DOMAIN stack
    BY <2>1, TopIs
  <2> DEFINE n == Len(stack)
  <2>3. \/ stack' = [stack EXCEPT ![n].at = "between", ![n].poses = poses]
        \/ \E at : stack' = [stack EXCEPT ![n].scans = scans, ![n].at = at]
        \/ \E inode : stack' = [stack EXCEPT ![n].at = "rows", ![n].inode = inode]
        \/ \E r : stack' = [stack EXCEPT ![n].rows = r]
    BY <1>11, <2>2 DEF Mesh!SnapshotPoses, Mesh!SnapshotScans, Mesh!OpenTmp,
                       Mesh!WriteRow
  <2> HIDE DEF n
  <2>4. \E a : a.what = Mesh!Top.what /\ stack' = [stack EXCEPT ![n] = a]
    <3>1. CASE stack' = [stack EXCEPT ![n].at = "between", ![n].poses = poses]
      <4> DEFINE a == [Mesh!Top EXCEPT !.at = "between", !.poses = poses]
      <4>1. a.what = Mesh!Top.what /\ stack' = [stack EXCEPT ![n] = a]
        BY <2>2, <3>1 DEF Act, n
      <4> QED  BY <4>1
    <3>2. ASSUME NEW at, stack' = [stack EXCEPT ![n].scans = scans, ![n].at = at]
          PROVE  \E a : a.what = Mesh!Top.what /\ stack' = [stack EXCEPT ![n] = a]
      <4> DEFINE a == [Mesh!Top EXCEPT !.scans = scans, !.at = at]
      <4>1. a.what = Mesh!Top.what /\ stack' = [stack EXCEPT ![n] = a]
        BY <2>2, <3>2 DEF Act, n
      <4> QED  BY <4>1
    <3>3. ASSUME NEW inode, stack' = [stack EXCEPT ![n].at = "rows", ![n].inode = inode]
          PROVE  \E a : a.what = Mesh!Top.what /\ stack' = [stack EXCEPT ![n] = a]
      <4> DEFINE a == [Mesh!Top EXCEPT !.at = "rows", !.inode = inode]
      <4>1. a.what = Mesh!Top.what /\ stack' = [stack EXCEPT ![n] = a]
        BY <2>2, <3>3 DEF Act, n
      <4> QED  BY <4>1
    <3>4. ASSUME NEW r, stack' = [stack EXCEPT ![n].rows = r]
          PROVE  \E a : a.what = Mesh!Top.what /\ stack' = [stack EXCEPT ![n] = a]
      <4> DEFINE a == [Mesh!Top EXCEPT !.rows = r]
      <4>1. a.what = Mesh!Top.what /\ stack' = [stack EXCEPT ![n] = a]
        BY <2>2, <3>4 DEF Act, n
      <4> QED  BY <4>1
    <3> QED  BY <2>3, <3>1, <3>2, <3>3, <3>4
  <2> QED  BY <1>7, <2>1, <2>4 DEF n
<1> QED
  BY <1>2, <1>3, <1>4, <1>5, <1>6, <1>9, <1>10, <1>11 DEF Mesh!Next, Mesh!Step

-----------------------------------------------------------------------------
(* The trajectory on disk has poses that were published, in order, each    *)
(* late by no more than the bound.                                         *)
AlignInv == CloudsInv /\ SlamInv /\ OdomInv /\ BagInv /\ WholeInv /\ Numbered

LEMMA TrajectoryLate ==
  ASSUME AlignInv, "bag" \in launched, files.tum # 0
  PROVE  \E n \in Nat \ {0} :
           /\ Trajectory \in [1..n -> Row] /\ Len(Trajectory) = n
           /\ Trajectory # <<>> /\ Trajectory[1].t <= Trajectory[n].t
           /\ \A i \in 1..n : Late(Trajectory[i], Bag.start, MaxDelay)
<1> DEFINE rows == files.inodes[files.tum]
           n == Len(rows)
           pose(i) == [t |-> odom[rows[i]].stamp, at |-> 10 * lidar[odom[rows[i]].of].stamp]
           R == [i \in DOMAIN rows |-> pose(i)]
<1>1. /\ rows \in Seq(Nat) /\ rows # <<>> /\ n <= Len(poses)
      /\ \A i \in 1..n : rows[i] = poses[i]
      /\ poses \in Seq(Nat) /\ Len(poses) \in Nat
  BY DEF AlignInv, WholeInv, Names, Starts, MeshTyped
<1>2. n \in Nat \ {0} /\ DOMAIN rows = 1..n
  BY <1>1, EmptySeq, LenProperties
<1>3. Len(odom) \in Nat /\ \A i \in 1..Len(poses) : poses[i] \in 1..Len(odom)
  <2>1. Len(odom) \in Nat
    BY DEF AlignInv, OdomInv
  <2>2. /\ taken.odom <= Len(odom) /\ taken.odom \in Nat /\ Pending \in {0, 1}
        /\ \A i \in 1..Len(poses) : poses[i] \in 1..(taken.odom - Pending)
    BY DEF AlignInv, Numbered, Pending, WholeInv, MeshTyped
  <2>3. 1..(taken.odom - Pending) \subseteq 1..Len(odom)
    BY <2>1, <2>2
  <2> QED  BY <2>1, <2>2, <2>3
<1>4. /\ \A i \in 1..n : rows[i] \in 1..Len(odom)
      /\ \A i, j \in 1..n : i < j => rows[i] <= rows[j]
  <2>1. \A i, j \in 1..Len(poses) : i < j => poses[i] <= poses[j]
    BY DEF AlignInv, Numbered
  <2> HIDE DEF n, rows
  <2>2. \A i \in 1..n : i \in 1..Len(poses)
    BY <1>1, <1>2
  <2> QED  BY <1>1, <1>3, <2>1, <2>2
<1>5. Trajectory = Color!load_tum(R)
  BY DEF Trajectory
<1> HIDE DEF n, rows
<1>6. \A k \in 1..Len(odom) : odom[k].stamp \in Nat
  <2> DEFINE S == [stamp : Nat, of : Nat]
  <2>1. odom \in Seq(S) /\ \A x \in S : x.stamp \in Nat
    BY DEF AlignInv, OdomInv
  <2> HIDE DEF S
  <2> QED  BY <2>1
<1>7. ASSUME NEW i \in 1..n
      PROVE  /\ pose(i).t = odom[rows[i]].stamp /\ pose(i) \in Row
             /\ Late(pose(i), Bag.start, MaxDelay)
  <2> DEFINE k == odom[rows[i]].of
             e == odom[rows[i]].stamp - DueAt(k)
  <2>1. /\ k \in 1..Len(lidar) /\ e \in 0..MaxDelay /\ lidar[k].stamp = Bag.lidar[k]
        /\ Len(lidar) <= Len(Bag.lidar)
    BY <1>4 DEF AlignInv, BagInv
  <2>2. Bag.start \in Int /\ Bag.lidar \in Seq(Int) /\ Len(Bag.lidar) \in Nat
    BY SlamGraphAssumption
  <2>3. Bag.lidar[k] \in Int
    <3>1. Len(lidar) \in Nat
      BY DEF AlignInv, CloudsInv, MergedInv, LidarShape
    <3>2. k \in 1..Len(Bag.lidar)
      BY <2>1, <2>2, <3>1
    <3> QED  BY <2>2, <3>2
  <2>4. odom[rows[i]].stamp \in Nat
    BY <1>4, <1>6
  <2>5. e = odom[rows[i]].stamp - (Bag.start + Bag.lidar[k])
    BY DEF DueAt
  <2>6. pose(i) = [t |-> odom[rows[i]].stamp, at |-> 10 * Bag.lidar[k]]
    BY <2>1
  <2> HIDE DEF k, e
  <2>7. 10 * Bag.lidar[k] = 10 * (odom[rows[i]].stamp - Bag.start - e)
    <3>1. Bag.start \in Int
      BY <2>2
    <3> QED  BY ONLY <2>3, <2>4, <2>5, <3>1
  <2>8. pose(i).t = odom[rows[i]].stamp /\ pose(i).at = 10 * Bag.lidar[k]
    BY <2>6
  <2>9. pose(i) \in Row
    BY <2>3, <2>4, <2>6 DEF Row
  <2>10. pose(i).at = 10 * (pose(i).t - Bag.start - e)
    BY <2>7, <2>8
  <2> QED  BY <2>1, <2>8, <2>9, <2>10 DEF Late, e, k
<1> HIDE DEF pose
<1>8. \A i, j \in 1..n : i < j => odom[rows[i]].stamp <= odom[rows[j]].stamp
  <2>1. \A k, m \in 1..Len(odom) : k <= m => odom[k].stamp <= odom[m].stamp
    <3>1. \A k, m \in 1..Len(odom) : k < m => odom[k].stamp <= odom[m].stamp
      BY DEF AlignInv, OdomInv
    <3> SUFFICES ASSUME NEW k \in 1..Len(odom), NEW m \in 1..Len(odom), k <= m
                 PROVE  odom[k].stamp <= odom[m].stamp
      OBVIOUS
    <3>2. CASE k = m
      BY <1>6, <3>2
    <3>3. CASE k < m
      BY <3>1, <3>3
    <3> QED  BY <3>2, <3>3
  <2> QED  BY <1>4, <2>1
<1>9. /\ DOMAIN R = 1..n /\ \A i \in 1..n : R[i] = pose(i)
      /\ R = [i \in 1..n |-> R[i]] /\ Len(R) = n
  BY <1>2
<1> HIDE DEF R
<1>10. /\ \A i \in 1..n : R[i].t \in Int
       /\ \A i, j \in 1..n : i < j => R[i].t <= R[j].t
  <2>1. \A i \in 1..n : R[i].t = odom[rows[i]].stamp
    BY <1>7, <1>9
  <2>2. \A i \in 1..n : odom[rows[i]].stamp \in Int
    BY <1>4, <1>6
  <2> QED  BY ONLY <1>8, <2>1, <2>2
<1>11. Trajectory = R
  BY <1>2, <1>5, <1>9, <1>10, LoadedInOrder
<1>12. /\ Trajectory \in [1..n -> Row] /\ Trajectory # <<>>
       /\ Trajectory[1].t <= Trajectory[n].t
  <2>1. Trajectory \in [1..n -> Row] /\ 1 \in 1..n /\ n \in 1..n
    BY <1>2, <1>7, <1>9, <1>11
  <2>2. Trajectory[1].t <= Trajectory[n].t
    <3>1. CASE n = 1
      BY <1>10, <1>11, <2>1, <3>1
    <3>2. CASE n # 1
      BY <1>2, <1>10, <1>11, <2>1, <3>2
    <3> QED  BY <3>1, <3>2
  <2> QED  BY <2>1, <2>2
<1>13. \A i \in 1..n : Late(Trajectory[i], Bag.start, MaxDelay)
  BY <1>7, <1>9, <1>11
<1> QED  BY <1>2, <1>9, <1>11, <1>12, <1>13

(* A trajectory on disk comes from a scan of the bag. *)
LEMMA PlayedSome ==
  ASSUME AlignInv, "bag" \in launched, files.tum # 0
  PROVE  1 \in 1..Len(Bag.lidar) /\ Len(Bag.lidar) \in Nat
<1>1. Len(lidar) \in Nat /\ Len(Bag.lidar) \in Nat /\ Len(odom) \in Nat
  BY SlamGraphAssumption
  DEF AlignInv, OdomInv, CloudsInv, MergedInv, LidarShape
<1> DEFINE rows == files.inodes[files.tum]
<1>2. /\ rows \in Seq(Nat) /\ rows # <<>> /\ Len(rows) <= Len(poses)
      /\ poses \in Seq(Nat) /\ Len(poses) \in Nat
  BY DEF AlignInv, WholeInv, Names, Starts, MeshTyped
<1> HIDE DEF rows
<1>3. 1 \in 1..Len(poses)
  <2>1. Len(rows) \in Nat \ {0}
    BY <1>2, EmptySeq, LenProperties
  <2> QED  BY <1>2, <2>1
<1>4. 1 \in 1..Len(odom)
  <2>1. poses[1] \in 1..(taken.odom - Pending) /\ taken.odom <= Len(odom)
        /\ taken.odom \in Nat /\ Pending \in {0, 1}
    BY <1>3 DEF AlignInv, Numbered, Pending, WholeInv, MeshTyped
  <2> QED  BY <1>1, <2>1
<1>5. odom[1].of \in 1..Len(lidar) /\ Len(lidar) <= Len(Bag.lidar)
  BY <1>4 DEF AlignInv, BagInv
<1> QED  BY <1>1, <1>5

LEMMA AlignedLate == AlignInv => ImagesAligned
<1> SUFFICES ASSUME AlignInv, "bag" \in launched, files.tum # 0,
                    NEW i \in DOMAIN Color!Aligned(Bag, Trajectory, HalfSecond)
             PROVE  LET aligned == Color!Aligned(Bag, Trajectory, HalfSecond)
                        late == Trajectory[1].at - 10 * Bag.lidar[1]
                        s == Bag.images[i].stamp
                        outside == Outside(Trajectory, s + Color!time_offset(Bag, Trajectory))
                        reach == 10 * (MaxDelay + outside)
                    IN  /\ outside < HalfSecond
                        /\ aligned[i] - (10 * s + late) \in -reach .. reach
  BY DEF ImagesAligned
<1> DEFINE traj == Trajectory
           offset == Color!time_offset(Bag, traj)
           s == Bag.images[i].stamp
           t == s + offset
           v == Color!interp_pose(traj, t, HalfSecond)
           far == Outside(traj, t)
           first == Bag.lidar[1]
<1>1. PICK n \in Nat \ {0} :
        /\ traj \in [1..n -> Row] /\ Len(traj) = n
        /\ traj # <<>> /\ traj[1].t <= traj[n].t
        /\ \A k \in 1..n : Late(traj[k], Bag.start, MaxDelay)
  BY TrajectoryLate
<1>2. /\ i \in Color!load_camera_keyframes(Bag.images, Bag.stride)
      /\ v # Color!NoPose
      /\ Color!Aligned(Bag, traj, HalfSecond)[i] = v
  BY DEF Color!Aligned
<1> HIDE DEF traj
<1>3. s \in Int
  <2> DEFINE T == [ts : Int, stamp : Int, ok : BOOLEAN]
  <2>1. i \in DOMAIN Bag.images
    BY <1>2 DEF Color!load_camera_keyframes
  <2>2. Bag.images \in Seq(T) /\ \A x \in T : x.stamp \in Int
    BY SlamGraphAssumption
  <2> HIDE DEF T
  <2> QED  BY <2>1, <2>2
<1>4. /\ Bag.start \in Int /\ Bag.lidar \in Seq(Int) /\ MaxDelay \in Nat
      /\ HalfSecond \in Nat \ {0}
  BY SlamGraphAssumption
<1>5. 1 \in 1..Len(Bag.lidar) /\ Len(Bag.lidar) \in Nat
  BY <1>4, PlayedSome
<1>6. offset = traj[1].t - first /\ first \in Int
  <2>1. Bag.lidar # <<>>
    BY <1>4, <1>5
  <2> QED  BY <1>4, <1>5, <2>1 DEF Color!time_offset
<1>7. 1 \in 1..n /\ traj[1].t \in Int /\ traj[1].at \in Int
  BY <1>1 DEF Row
<1>8. PICK e \in 0..MaxDelay : traj[1].at = 10 * (traj[1].t - Bag.start - e)
  BY <1>1, <1>7 DEF Late
<1> HIDE DEF offset, s, v, far, first
<1>9. /\ t \in Int
      /\ 10 * s + (traj[1].at - 10 * first) = 10 * (t - Bag.start) - 10 * e
  <2>1. t = s + (traj[1].t - first)
    BY <1>6 DEF t
  <2>2. Bag.start \in Int /\ MaxDelay \in Nat
    BY <1>4
  <2> HIDE DEF t
  <2> QED  BY ONLY <1>3, <1>6, <1>7, <1>8, <2>1, <2>2, e \in 0..MaxDelay
<1> HIDE DEF t
<1>10. /\ far \in Nat /\ far < HalfSecond /\ v \in Int
       /\ 10 * (t - Bag.start) - v \in -10 * far .. 10 * (MaxDelay + far)
  <2>1. Color!interp_pose(traj, t, HalfSecond) # Color!NoPose
    BY <1>2 DEF v
  <2> QED  BY <1>1, <1>4, <1>9, <2>1, InterpolatedLate DEF v, far
<1>11. v - (10 * s + (traj[1].at - 10 * first))
         \in -(10 * (MaxDelay + far)) .. 10 * (MaxDelay + far)
  <2>1. v - (10 * s + (traj[1].at - 10 * first)) = v - (10 * (t - Bag.start) - 10 * e)
    BY <1>9
  <2>2. e \in Int /\ 0 <= e /\ e <= MaxDelay
    BY <1>4
  <2>3. 10 * (t - Bag.start) \in Int
    BY <1>4, <1>9
  <2> DEFINE y == 10 * (t - Bag.start)
  <2> HIDE DEF y
  <2>4. y \in Int /\ y - v >= -10 * far /\ y - v <= 10 * (MaxDelay + far)
    BY <1>10, <2>3 DEF y
  <2>5. v - (y - 10 * e) \in -(10 * (MaxDelay + far)) .. 10 * (MaxDelay + far)
    BY ONLY <1>4, <1>10, <2>2, <2>4
  <2> QED  BY <2>1, <2>5 DEF y
<1> QED  BY <1>2, <1>10, <1>11 DEF traj, offset, s, t, far, first

LEMMA StartsAligned == Init => AlignInv
<1> SUFFICES ASSUME Init PROVE AlignInv
  OBVIOUS
<1>1. /\ launched \in Launches /\ now = 1 /\ lidar = <<>> /\ odom = <<>>
      /\ taken.odom = 0 /\ poses = <<>> /\ stack = <<>>
  BY DEF Init, Merger!Init, Slam!Init, Mesh!Init
<1>2. Len(odom) = 0 /\ Len(lidar) = 0 /\ Len(poses) = 0
  BY <1>1
<1>3. Len(Bag.lidar) \in Nat
  BY SlamGraphAssumption
<1>4. SlamInv
  BY DEF Init, Slam!Init, SlamInv
<1>5. OdomInv
  BY <1>1, <1>2 DEF OdomInv
<1>6. \A n \in Nat : n + 1 .. 0 = {}
  OBVIOUS
<1>7. BagInv
  BY <1>1, <1>2, <1>3, <1>4, <1>6 DEF BagInv, SlamInv
<1>8. Numbered
  <2>1. Pending = 0
    BY <1>1 DEF Pending
  <2> QED  BY <1>1, <1>2, <2>1 DEF Numbered
<1> QED  BY <1>4, <1>5, <1>7, <1>8, CloudsStart, WholeStarts DEF AlignInv

(* What the mesh builder does not do is at most to publish one more pose.  *)
LEMMA NumberedOthers ==
  ASSUME SlamInv, OdomInv, Numbered, WholeInv, [Next]_vars, ~MeshStep
  PROVE  Numbered'
<1>1. UNCHANGED meshVars
  BY DEF Next, Play, Tick, MergerStep, SlamStep, BridgeStep, vars
<1>2. CASE odom' = odom
  BY <1>1, <1>2, NumberedKept DEF meshVars
<1>3. CASE SlamStep /\ odom' # odom
  <2>1. PICK k : odom' = Append(odom, [stamp |-> now, of |-> k])
    BY <1>3 DEF SlamStep, Slam!Next, Slam!onLidar, Slam!NoPose, Slam!Pose,
                Slam!publishStartupTf, Slam!publishObstacles
  <2>2. Len(odom') = Len(odom) + 1 /\ Len(odom) \in Nat
    <3> DEFINE r == [stamp |-> now, of |-> k]
               T == [stamp : Nat, of : Nat]
    <3>1. odom \in Seq(T) /\ odom' = Append(odom, r)
      BY <2>1 DEF OdomInv
    <3> HIDE DEF r, T
    <3>2. odom \in Seq(T \cup {r}) /\ r \in T \cup {r}
      BY <3>1
    <3> QED  BY <3>1, <3>2
  <2>3. taken.odom \in Nat /\ taken.odom <= Len(odom')
    BY <2>2 DEF Numbered, WholeInv, MeshTyped
  <2>4. Pending' = Pending /\ poses' = poses /\ taken' = taken
    BY <1>1 DEF meshVars, Pending
  <2> QED  BY <2>3, <2>4 DEF Numbered
<1>4. SlamStep \/ odom' = odom
  BY DEF Next, Play, Tick, MergerStep, BridgeStep, vars, slamVars, Merger!Next,
         Merger!cb_cloud
<1> QED  BY <1>2, <1>3, <1>4

LEMMA AlignedStep == AlignInv /\ [Next]_vars => AlignInv'
<1> SUFFICES ASSUME AlignInv, [Next]_vars PROVE AlignInv'
  OBVIOUS
<1>1. CloudsInv /\ SlamInv /\ OdomInv /\ BagInv /\ WholeInv /\ Numbered
  BY DEF AlignInv
<1>2. CloudsInv'
  BY <1>1, CloudsStep
<1>3. SlamInv'
  BY <1>1, SlamInvStep
<1>4. OdomInv' /\ BagInv'
  BY <1>1, BagKept
<1>5. WholeInv'
  BY <1>1, WholeStep
<1>6. Numbered'
  <2>1. CASE MeshStep
    BY <1>1, <2>1, NumberedStep DEF MeshStep
  <2>2. CASE ~MeshStep
    BY <1>1, <2>2, NumberedOthers
  <2> QED  BY <2>1, <2>2
<1> QED  BY <1>2, <1>3, <1>4, <1>5, <1>6 DEF AlignInv

(* Whatever the bag, whichever poses the mesh builder missed, and however  *)
(* often builds interrupt each other: the images are projected from where  *)
(* they were taken, but for the delay, the time outside the trajectory and *)
(* the lateness of the first pose.                                         *)
THEOREM ImagesWhereTaken == Spec => []ImagesAligned
<1>1. Init => AlignInv
  BY StartsAligned
<1>2. AlignInv /\ [Next]_vars => AlignInv'
  BY AlignedStep
<1> QED  BY <1>1, <1>2, AlignedLate, PTL DEF Spec

-----------------------------------------------------------------------------
(* What color_mesh computes for any camera and any samples.                *)

(* A set that holds zero, and the successor of what it holds up to N.      *)
LEMMA Upward ==
  ASSUME NEW N \in Nat, NEW S, 0 \in S, \A n \in 1..N : n - 1 \in S => n \in S
  PROVE  0..N \subseteq S
<1> SUFFICES ASSUME (0..N) \ S # {} PROVE FALSE
  OBVIOUS
<1>1. PICK n \in (0..N) \ S : \A k \in (0..N) \ S : n <= k
  <2>1. (0..N) \ S \subseteq Nat
    OBVIOUS
  <2> QED  BY <2>1, Least
<1>2. n \in 1..N /\ n - 1 \in 0..N /\ ~(n <= n - 1)
  BY <1>1
<1> QED  BY <1>1, <1>2

(* A function that gives the value at n from the one before it.            *)
Recursive(f, N, A, a, step) ==
  /\ f \in [0..N -> A] /\ f[0] = a
  /\ \A n \in 1..N : f[n] = step[n][f[n - 1]]

LEMMA Recursion ==
  ASSUME NEW N \in Nat, NEW A, NEW a \in A,
         NEW step, \A n \in 1..N, x \in A : step[n][x] \in A
  PROVE  \E f : Recursive(f, N, A, a, step)
<1> DEFINE Is(f, n) == /\ f \in [0..n -> A] /\ f[0] = a
                       /\ \A i \in 1..n : f[i] = step[i][f[i - 1]]
           S == {n \in 0..N : \E f : Is(f, n)}
<1>1. 0 \in S
  <2>1. Is([i \in 0..0 |-> a], 0)
    <3>1. 0..0 = {0} /\ 1..0 = {}
      OBVIOUS
    <3> QED  BY <3>1
  <2>2. 0 \in 0..N
    OBVIOUS
  <2> HIDE DEF Is
  <2> QED  BY <2>1, <2>2
<1>2. ASSUME NEW n \in 1..N, n - 1 \in S PROVE n \in S
  <2>1. PICK f : Is(f, n - 1)
    BY <1>2
  <2> DEFINE g == [i \in 0..n |-> IF i = n THEN step[n][f[n - 1]] ELSE f[i]]
  <2>2. n - 1 \in 0..(n - 1) /\ f[n - 1] \in A /\ step[n][f[n - 1]] \in A
    BY <2>1
  <2>3. /\ \A i \in 0..n : i = n \/ i \in 0..(n - 1)
        /\ \A i \in 1..n : (i = n \/ i \in 1..(n - 1)) /\ i - 1 \in 0..(n - 1) /\ i - 1 # n
        /\ 0 # n /\ 0 \in 0..n /\ \A i \in 0..(n - 1) : i # n /\ i \in 0..n
    OBVIOUS
  <2>4. g \in [0..n -> A] /\ g[0] = a /\ g[n] = step[n][f[n - 1]]
        /\ \A i \in 0..(n - 1) : g[i] = f[i]
    BY <2>1, <2>2, <2>3
  <2> HIDE DEF g
  <2>5. \A i \in 1..n : g[i] = step[i][g[i - 1]]
    BY <2>1, <2>3, <2>4
  <2>6. Is(g, n)
    BY <2>4, <2>5
  <2> HIDE DEF Is
  <2> QED  BY <2>6
<1> HIDE DEF S
<1>3. N \in S
  BY <1>1, <1>2, Upward
<1> QED  BY <1>3 DEF S, Recursive

(* The colours and weights that are added up.                              *)
Sample == [color : Nat, weight : Nat]

LEMMA AccumulatedIs ==
  ASSUME NEW samples \in Seq(Sample)
  PROVE  \E acc \in [0..Len(samples) -> Sample] :
           /\ acc[0] = [color |-> 0, weight |-> 0]
           /\ \A n \in 1..Len(samples) :
                acc[n] = [color |-> acc[n - 1].color + samples[n].color * samples[n].weight,
                          weight |-> acc[n - 1].weight + samples[n].weight]
           /\ Color!Accumulated(samples) = acc[Len(samples)]
<1> DEFINE N == Len(samples)
           zero == [color |-> 0, weight |-> 0]
           Next1(n, x) == [color |-> x.color + samples[n].color * samples[n].weight,
                           weight |-> x.weight + samples[n].weight]
           P(f) == f = [n \in 0..N |-> IF n = 0 THEN zero ELSE Next1(n, f[n - 1])]
           acc == CHOOSE f : P(f)
           step == [n \in 1..N |-> [x \in Sample |-> Next1(n, x)]]
<1>1. N \in Nat /\ zero \in Sample
      /\ \A n \in 1..N : samples[n].color \in Nat /\ samples[n].weight \in Nat
  <2>1. \A n \in 1..N : samples[n] \in Sample
    OBVIOUS
  <2> QED  BY <2>1 DEF Sample
<1>2. \A n \in 1..N, x \in Sample : Next1(n, x) \in Sample
  <2> SUFFICES ASSUME NEW n \in 1..N, NEW x \in Sample PROVE Next1(n, x) \in Sample
    OBVIOUS
  <2>1. \A c, w \in Nat : c * w \in Nat
    OBVIOUS
  <2>2. samples[n].color * samples[n].weight \in Nat
    BY <1>1, <2>1
  <2> QED  BY SMTT(30), <1>1, <2>2 DEF Sample
<1> HIDE DEF zero, Next1
<1>3. PICK f \in [0..N -> Sample] : f[0] = zero /\ \A n \in 1..N : f[n] = step[n][f[n - 1]]
  <2> DEFINE A == Sample
  <2>1. zero \in A /\ N \in Nat /\ \A n \in 1..N, x \in A : step[n][x] \in A
    BY <1>1, <1>2
  <2> HIDE DEF step, N, A
  <2>2. \E f : Recursive(f, N, A, zero, step)
    BY <2>1, Recursion
  <2> QED  BY <2>2 DEF A, Recursive
<1>4. \A n \in 1..N : f[n - 1] \in Sample /\ f[n] = Next1(n, f[n - 1])
  <2> SUFFICES ASSUME NEW n \in 1..N PROVE f[n - 1] \in Sample /\ f[n] = Next1(n, f[n - 1])
    OBVIOUS
  <2>1. f[n - 1] \in Sample
    BY <1>1, <1>3
  <2> QED  BY <1>3, <2>1
<1>5. P(f)
  <2>1. \A n \in 0..N : f[n] = IF n = 0 THEN zero ELSE Next1(n, f[n - 1])
    BY <1>1, <1>3, <1>4
  <2> HIDE DEF N
  <2> QED  BY <1>3, <2>1
<1>6. P(acc)
  <2> HIDE DEF P
  <2> QED  BY <1>5
<1>7. Color!Accumulated(samples) = acc[N]
  BY DEF Color!Accumulated, Next1, zero
<1> HIDE DEF acc
<1>8. acc[0] = zero /\ \A n \in 1..N : acc[n] = Next1(n, acc[n - 1])
  BY SMTT(30), <1>1, <1>6
<1>9. \A n \in 0..N : acc[n] \in Sample
  <2> DEFINE S == {n \in 0..N : acc[n] \in Sample}
  <2>1. 0 \in S
    BY <1>1, <1>8
  <2>2. ASSUME NEW n \in 1..N, n - 1 \in S PROVE n \in S
    BY <1>2, <1>8, <2>2
  <2> HIDE DEF S
  <2>3. 0..N \subseteq S
    BY <1>1, <2>1, <2>2, Upward
  <2> QED  BY <2>3 DEF S
<1>10. acc \in [0..N -> Sample]
  BY <1>6, <1>9
<1> QED  BY <1>7, <1>8, <1>10 DEF zero, Next1

(* An average of colours lies between the darkest and the lightest of      *)
(* those that count, and what nothing sampled is grey, for any samples.    *)
THEOREM ColourBetween ==
  ASSUME NEW samples \in Seq(Sample), NEW lo \in Nat, NEW hi \in Nat,
         \A i \in 1..Len(samples) : samples[i].weight > 0 => samples[i].color \in lo..hi
  PROVE  IF \E i \in 1..Len(samples) : samples[i].weight > 0
         THEN Color!ColorOf(samples) \in lo..hi
         ELSE Color!ColorOf(samples) = 128
<1> DEFINE N == Len(samples)
<1>1. N \in Nat /\ \A n \in 1..N : samples[n].color \in Nat /\ samples[n].weight \in Nat
  <2>1. \A n \in 1..N : samples[n] \in Sample
    OBVIOUS
  <2> QED  BY <2>1 DEF Sample
<1>2. PICK acc \in [0..N -> Sample] :
        /\ acc[0] = [color |-> 0, weight |-> 0]
        /\ \A n \in 1..N :
             acc[n] = [color |-> acc[n - 1].color + samples[n].color * samples[n].weight,
                       weight |-> acc[n - 1].weight + samples[n].weight]
        /\ Color!Accumulated(samples) = acc[N]
  BY AccumulatedIs
<1>3. \A n \in 0..N : acc[n].color \in Nat /\ acc[n].weight \in Nat
  BY <1>2 DEF Sample
<1>4. \A n \in 1..N :
        /\ n - 1 \in 0..N /\ n \in 0..N
        /\ acc[n].color = acc[n - 1].color + samples[n].color * samples[n].weight
        /\ acc[n].weight = acc[n - 1].weight + samples[n].weight
  <2> SUFFICES ASSUME NEW n \in 1..N
               PROVE  /\ n - 1 \in 0..N /\ n \in 0..N
                      /\ acc[n].color = acc[n - 1].color + samples[n].color * samples[n].weight
                      /\ acc[n].weight = acc[n - 1].weight + samples[n].weight
    OBVIOUS
  <2>1. n - 1 \in 0..N /\ n \in 0..N
    BY <1>1
  <2> DEFINE c == acc[n - 1].color + samples[n].color * samples[n].weight
             w == acc[n - 1].weight + samples[n].weight
  <2>2. acc[n] = [color |-> c, weight |-> w]
    BY <1>2
  <2> HIDE DEF c, w
  <2>3. acc[n].color = c /\ acc[n].weight = w
    BY <2>2
  <2> QED  BY <2>1, <2>3 DEF c, w
<1>5. \A a, b \in Nat, w \in Nat : a <= b => a * w <= b * w
  <2> SUFFICES ASSUME NEW a \in Nat, NEW b \in Nat, NEW w \in Nat, a <= b
               PROVE  a * w <= b * w
    OBVIOUS
  <2>1. PICK d \in Nat : b = a + d
    <3>1. b - a \in Nat /\ b = a + (b - a)
      OBVIOUS
    <3> QED  BY <3>1
  <2>2. b * w = a * w + d * w
    BY <2>1
  <2>3. d * w \in Nat /\ a * w \in Nat
    OBVIOUS
  <2> QED  BY <2>2, <2>3
<1> DEFINE S == {n \in 0..N : lo * acc[n].weight <= acc[n].color
                              /\ acc[n].color <= hi * acc[n].weight}
<1>6. 0 \in S
  BY <1>1, <1>2
<1>7. ASSUME NEW n \in 1..N, n - 1 \in S PROVE n \in S
  <2> DEFINE C == acc[n - 1].color
             W == acc[n - 1].weight
             c == samples[n].color
             w == samples[n].weight
  <2>1. /\ C \in Nat /\ W \in Nat /\ c \in Nat /\ w \in Nat
        /\ acc[n].color = C + c * w /\ acc[n].weight = W + w
        /\ n \in 0..N
    BY <1>1, <1>3, <1>4
  <2>2. lo * W <= C /\ C <= hi * W
    BY <1>7
  <2>3. lo * w <= c * w /\ c * w <= hi * w
    <3>1. CASE w > 0
      <4>1. lo <= c /\ c <= hi
        BY <3>1
      <4> HIDE DEF c, w
      <4> QED  BY <1>5, <2>1, <4>1
    <3>2. CASE w = 0
      <4>1. c * 0 = 0 /\ lo * 0 = 0 /\ hi * 0 = 0
        BY <2>1
      <4> QED  BY <3>2, <4>1
    <3> QED  BY <2>1, <3>1, <3>2
  <2> HIDE DEF C, W, c, w
  <2>4. lo * (W + w) = lo * W + lo * w /\ hi * (W + w) = hi * W + hi * w
    BY <2>1
  <2>5. lo * (W + w) <= C + c * w /\ C + c * w <= hi * (W + w)
    <3>1. lo * W \in Nat /\ lo * w \in Nat /\ hi * W \in Nat /\ hi * w \in Nat /\ c * w \in Nat
      <4>1. lo \in Nat /\ hi \in Nat /\ W \in Nat /\ w \in Nat /\ c \in Nat
        BY <2>1
      <4>2. \A a, b \in Nat : a * b \in Nat
        OBVIOUS
      <4> QED  BY ONLY <4>1, <4>2
    <3> DEFINE a == lo * W
               b == lo * w
               d == hi * W
               e == hi * w
               f == c * w
    <3>2. a \in Nat /\ b \in Nat /\ d \in Nat /\ e \in Nat /\ f \in Nat
          /\ a <= C /\ C <= d /\ b <= f /\ f <= e
      BY <2>2, <2>3, <3>1
    <3>3. lo * (W + w) = a + b /\ hi * (W + w) = d + e /\ c * w = f
      BY <2>4
    <3> HIDE DEF a, b, d, e, f
    <3>4. a + b <= C + f /\ C + f <= d + e
      BY <2>1, <3>2
    <3> QED  BY <3>3, <3>4
  <2> QED  BY <2>1, <2>5
<1> HIDE DEF S
<1>8. N \in S
  <2>1. 0..N \subseteq S
    BY <1>1, <1>6, <1>7, Upward
  <2> QED  BY <1>1, <2>1
<1> DEFINE T == {n \in 0..N : \A i \in 1..n : samples[i].weight <= acc[n].weight}
           Z == {n \in 0..N : (\A i \in 1..n : samples[i].weight = 0) => acc[n].weight = 0}
<1>9. 0 \in T /\ 0 \in Z
  <2>1. 1..0 = {} /\ 0 \in 0..N
    BY <1>1
  <2> QED  BY <1>2, <2>1
<1>10. ASSUME NEW n \in 1..N PROVE (n - 1 \in T => n \in T) /\ (n - 1 \in Z => n \in Z)
  <2>1. \A i \in 1..n : i = n \/ i \in 1..(n - 1)
    OBVIOUS
  <2>2. /\ acc[n].weight = acc[n - 1].weight + samples[n].weight
        /\ acc[n - 1].weight \in Nat /\ samples[n].weight \in Nat /\ n \in 0..N
        /\ \A i \in 1..(n - 1) : i \in 1..n /\ samples[i].weight \in Nat
    BY <1>1, <1>3, <1>4
  <2>3. /\ acc[n - 1].weight <= acc[n].weight /\ samples[n].weight <= acc[n].weight
        /\ acc[n].weight \in Nat
    BY <2>2
  <2>4. ASSUME n - 1 \in T PROVE n \in T
    <3>1. \A i \in 1..(n - 1) : samples[i].weight <= acc[n - 1].weight
      BY <2>4
    <3>2. ASSUME NEW i \in 1..n PROVE samples[i].weight <= acc[n].weight
      <4>1. CASE i = n
        BY <2>3, <4>1
      <4>2. CASE i \in 1..(n - 1)
        BY <2>2, <2>3, <3>1, <4>2
      <4> QED  BY <2>1, <4>1, <4>2
    <3> QED  BY <2>2, <3>2
  <2>5. ASSUME n - 1 \in Z PROVE n \in Z
    <3>1. ASSUME \A i \in 1..n : samples[i].weight = 0 PROVE acc[n].weight = 0
      <4>1. acc[n - 1].weight = 0
        BY <2>2, <2>5, <3>1
      <4>2. samples[n].weight = 0
        BY <3>1
      <4> QED  BY <2>2, <4>1, <4>2
    <3> QED  BY <2>2, <3>1
  <2> QED  BY <2>4, <2>5
<1> HIDE DEF T, Z
<1>11. N \in T
  <2>1. 0..N \subseteq T
    BY <1>1, <1>9, <1>10, Upward
  <2> QED  BY <1>1, <2>1
<1>12. N \in Z
  <2>1. 0..N \subseteq Z
    BY <1>1, <1>9, <1>10, Upward
  <2> QED  BY <1>1, <2>1
<1> DEFINE C == acc[N].color
           W == acc[N].weight
<1>13. /\ C \in Nat /\ W \in Nat /\ lo * W <= C /\ C <= hi * W
       /\ Color!ColorOf(samples) = IF W = 0 THEN 128 ELSE C \div W
  BY <1>1, <1>2, <1>3, <1>8 DEF Color!ColorOf, S
<1>14. CASE \E i \in 1..N : samples[i].weight > 0
  <2>1. W \in Nat \ {0}
    <3>1. PICK i \in 1..N : samples[i].weight > 0
      BY <1>14
    <3>2. samples[i].weight <= W /\ samples[i].weight \in Nat
      BY <1>1, <1>11 DEF T
    <3>3. W \in Nat
      BY <1>13
    <3> HIDE DEF W
    <3> QED  BY <3>1, <3>2, <3>3
  <2> HIDE DEF C, W
  <2>2. C \div W \in Int /\ lo <= C \div W /\ C \div W <= hi
    BY <1>13, <2>1, Quotient
  <2> QED  BY <1>13, <1>14, <2>1, <2>2
<1>15. CASE ~\E i \in 1..N : samples[i].weight > 0
  <2>1. \A i \in 1..N : samples[i].weight = 0
    BY <1>1, <1>15
  <2>2. W = 0
    BY <1>12, <2>1 DEF Z
  <2> QED  BY <1>13, <1>15, <2>2
<1> QED  BY <1>14, <1>15

LEMMA InverseSquare ==
  ASSUME NEW y \in Nat \ {0}, NEW z \in Nat \ {0}, y <= z
  PROVE  100000 \div (z * z) \in Nat /\ 100000 \div (z * z) <= 100000 \div (y * y)
<1> DEFINE u == y * y
           v == z * z
           q == 100000 \div v
<1>1. PICK d \in Nat : z = y + d
  <2>1. z - y \in Nat /\ z = y + (z - y)
    OBVIOUS
  <2> QED  BY <2>1
<1>2. v = u + (2 * (y * d) + d * d)
  BY <1>1
<1>3. u \in Nat \ {0} /\ v \in Nat \ {0} /\ y * d \in Nat /\ d * d \in Nat
  BY <1>1
<1>4. u <= v
  <2> DEFINE a == y * d
             b == d * d
  <2>1. a \in Nat /\ b \in Nat /\ v = u + (2 * a + b)
    BY <1>2, <1>3
  <2> HIDE DEF a, b, u, v
  <2> QED  BY <1>3, <2>1
<1> HIDE DEF u, v
<1>5. q \in Nat /\ q * v <= 100000
  BY <1>3
<1>6. q * u <= 100000
  <2>1. PICK e \in Nat : v = u + e
    <3>1. v - u \in Nat /\ v = u + (v - u)
      BY <1>3, <1>4
    <3> QED  BY <3>1
  <2> HIDE DEF q
  <2>2. q * v = q * u + q * e
    BY <1>3, <1>5, <2>1
  <2>3. q * e \in Nat /\ q * u \in Nat
    BY <1>3, <1>5, <2>1
  <2> QED  BY <1>5, <2>2, <2>3
<1> HIDE DEF q
<1>7. q <= 100000 \div u
  BY <1>3, <1>5, <1>6, Quotient
<1> QED  BY <1>5, <1>7 DEF q, u, v

(* A camera's sample of a vertex in its range has the colour of the image, *)
(* and a nearer one counts for at least as much, wherever the camera is.   *)
THEOREM NearerCounts ==
  ASSUME NEW camera \in Int, NEW y \in Int, NEW z \in Int, y <= z,
         NEW near \in Nat, NEW far \in Int, near < y - camera, z - camera < far,
         NEW grey \in Nat, NEW other \in Nat
  PROVE  LET s == Color!project_and_sample(y, camera, grey, near, far)
             u == Color!project_and_sample(z, camera, other, near, far)
         IN  /\ s \in Sample /\ s.color = grey /\ u \in Sample /\ u.color = other
             /\ u.weight <= s.weight
<1> DEFINE dy == y - camera
           dz == z - camera
           wy == 100000 \div (dy * dy)
           wz == 100000 \div (dz * dz)
<1>1. /\ dy \in Nat \ {0} /\ dz \in Nat \ {0} /\ dy <= dz
      /\ near < dy /\ dy < far /\ near < dz /\ dz < far
  OBVIOUS
<1>2. /\ Color!project_and_sample(y, camera, grey, near, far) = [color |-> grey, weight |-> wy]
      /\ Color!project_and_sample(z, camera, other, near, far) = [color |-> other, weight |-> wz]
  BY <1>1 DEF Color!project_and_sample
<1> HIDE DEF dy, dz
<1>3. wy \in Nat /\ wz \in Nat /\ wz <= wy
  <2>1. dy <= dy /\ dz <= dz
    BY <1>1
  <2> QED  BY <1>1, <2>1, InverseSquare
<1> HIDE DEF wy, wz
<1> QED  BY <1>2, <1>3 DEF Sample

(* The links from one up to the root, in the order of compose_to_root.     *)
Leads(chain, leaf, root, way) ==
  /\ way # <<>> /\ way[1] = leaf /\ way[Len(way)] = root
  /\ \A i \in 1..(Len(way) - 1) :
       /\ way[i] # root /\ way[i] \in DOMAIN chain
       /\ way[i + 1] = chain[way[i]].parent

(* A walk of N steps from a link, which goes on to the parent if it can.   *)
Walks(walk, N, Links, chain, leaf) ==
  /\ N \in Nat /\ walk \in [0..N -> [link : Links, offset : Int]]
  /\ walk[0] = [link |-> leaf, offset |-> 0]
  /\ \A n \in 1..N :
       walk[n] = IF walk[n - 1].link \notin DOMAIN chain THEN walk[n - 1]
                 ELSE [link |-> chain[walk[n - 1].link].parent,
                       offset |-> chain[walk[n - 1].link].offset + walk[n - 1].offset]

LEMMA UpIs ==
  ASSUME NEW Links, NEW chain, IsFiniteSet(DOMAIN chain), NEW leaf \in Links,
         \A c \in DOMAIN chain : chain[c].parent \in Links /\ chain[c].offset \in Int
  PROVE  Walks(Color!Up(chain, leaf), Cardinality(DOMAIN chain), Links, chain, leaf)
<1> DEFINE N == Cardinality(DOMAIN chain)
           A == [link : Links, offset : Int]
           a == [link |-> leaf, offset |-> 0]
           Above(x) == IF x.link \notin DOMAIN chain THEN x
                       ELSE [link |-> chain[x.link].parent,
                             offset |-> chain[x.link].offset + x.offset]
           P(f) == f = [n \in 0..N |-> IF n = 0 THEN a ELSE Above(f[n - 1])]
           walk == CHOOSE f : P(f)
           step == [n \in 1..N |-> [x \in A |-> Above(x)]]
<1>1. N \in Nat /\ a \in A
  BY FS_CardinalityType
<1>2. \A x \in A : Above(x) \in A
  OBVIOUS
<1>3. Color!Up(chain, leaf) = walk
  <2>1. \A S : Color!Cardinality(S) = Cardinality(S)
    BY DEF Color!Cardinality, Cardinality
  <2> QED  BY <2>1 DEF Color!Up
<1> HIDE DEF a, Above, A, N
<1>4. \E f : Recursive(f, N, A, a, step)
  <2>1. \A n \in 1..N, x \in A : step[n][x] \in A
    BY <1>2
  <2> HIDE DEF step
  <2> QED  BY <1>1, <2>1, Recursion
<1>5. PICK f \in [0..N -> A] : f[0] = a /\ \A n \in 1..N : f[n] = step[n][f[n - 1]]
  BY <1>4 DEF Recursive
<1>6. \A n \in 1..N : f[n] = Above(f[n - 1])
  <2> SUFFICES ASSUME NEW n \in 1..N PROVE f[n] = Above(f[n - 1])
    OBVIOUS
  <2>1. f[n - 1] \in A
    BY <1>1, <1>5
  <2> QED  BY <1>5, <2>1
<1>7. P(f)
  <2>1. \A n \in 0..N : f[n] = IF n = 0 THEN a ELSE Above(f[n - 1])
    BY <1>1, <1>5, <1>6
  <2> QED  BY <1>5, <2>1
<1>8. P(walk)
  <2> HIDE DEF P
  <2> QED  BY <1>7
<1> HIDE DEF walk
<1>9. walk[0] = a /\ \A n \in 1..N : walk[n] = Above(walk[n - 1])
  BY <1>1, <1>8
<1>10. \A n \in 0..N : walk[n] \in A
  <2> DEFINE S == {n \in 0..N : walk[n] \in A}
  <2>1. 0 \in S
    BY <1>1, <1>9
  <2>2. ASSUME NEW n \in 1..N, n - 1 \in S PROVE n \in S
    BY <1>2, <1>9, <2>2
  <2> HIDE DEF S
  <2>3. 0..N \subseteq S
    BY <1>1, <2>1, <2>2, Upward
  <2> QED  BY <2>3 DEF S
<1>11. walk \in [0..N -> A]
  BY <1>8, <1>10
<1> QED  BY <1>1, <1>3, <1>9, <1>11 DEF N, A, a, Above, Walks

(* On a way to the root no link is met twice, or it would never get there. *)
LEMMA NoLinkTwice ==
  ASSUME NEW Links, NEW chain, NEW leaf, NEW root, NEW way \in Seq(Links),
         Leads(chain, leaf, root, way),
         NEW i \in 1..(Len(way) - 1), NEW j \in 1..(Len(way) - 1), i < j
  PROVE  way[i] # way[j]
<1> DEFINE m == Len(way)
           S == {k \in 0..(m - j) : way[i + k] = way[j + k]}
<1>1. m \in Nat
  OBVIOUS
<1>2. way[m] = root
      /\ \A n \in 1..(m - 1) : way[n] # root /\ way[n + 1] = chain[way[n]].parent
  BY DEF Leads
<1> HIDE DEF m
<1>3. i \in 1..(m - 1) /\ j \in 1..(m - 1) /\ m - j \in Nat
  BY <1>1 DEF m
<1> SUFFICES ASSUME way[i] = way[j] PROVE FALSE
  OBVIOUS
<1>4. 0 \in S
  BY <1>3
<1>5. ASSUME NEW k \in 1..(m - j), k - 1 \in S PROVE k \in S
  <2> DEFINE p == i + (k - 1)
             q == j + (k - 1)
  <2>1. p \in 1..(m - 1) /\ q \in 1..(m - 1) /\ p + 1 = i + k /\ q + 1 = j + k
        /\ k \in 0..(m - j)
    BY <1>1, <1>3
  <2>2. way[p] = way[q]
    BY <1>5
  <2> HIDE DEF p, q
  <2>3. way[p + 1] = way[q + 1]
    BY <1>2, <2>1, <2>2
  <2> QED  BY <2>1, <2>3
<1> HIDE DEF S
<1>6. m - j \in S
  <2>1. 0..(m - j) \subseteq S
    BY <1>3, <1>4, <1>5, Upward
  <2> QED  BY <1>3, <2>1
<1>7. way[i + (m - j)] = way[m]
  BY <1>1, <1>3, <1>6 DEF S
<1>8. i + (m - j) \in 1..(m - 1)
  BY <1>1, <1>3
<1> QED  BY <1>2, <1>7, <1>8

LEMMA UpTo ==
  ASSUME NEW k \in Nat \ {0}
  PROVE  Cardinality(1..(k - 1)) = k - 1
<1>1. k - 1 \in Nat
  OBVIOUS
<1>2. Cardinality(1..(k - 1)) = IF 1 > k - 1 THEN 0 ELSE (k - 1) - 1 + 1
  BY <1>1, FS_Interval
<1> QED  BY <1>1, <1>2

(* The walk follows the way, and finds the root at its end first.          *)
LEMMA WalkFollows ==
  ASSUME NEW Links, NEW chain, IsFiniteSet(DOMAIN chain), NEW leaf \in Links,
         \A c \in DOMAIN chain : chain[c].parent \in Links /\ chain[c].offset \in Int,
         NEW root, NEW way \in Seq(Links), Leads(chain, leaf, root, way)
  PROVE  LET m == Len(way)
             walk == Color!Up(chain, leaf)
         IN  /\ m - 1 \in DOMAIN walk /\ walk \in [DOMAIN walk -> [link : Links, offset : Int]]
             /\ \A k \in 0..(m - 1) : k \in DOMAIN walk /\ walk[k].link = way[k + 1]
             /\ walk[0].offset = 0
             /\ \A k \in 1..(m - 1) :
                  walk[k].offset = chain[way[k]].offset + walk[k - 1].offset
             /\ Color!compose_to_root(chain, leaf, root)
                  = [ok |-> TRUE, offset |-> walk[m - 1].offset]
<1> DEFINE m == Len(way)
           walk == Color!Up(chain, leaf)
           N == Cardinality(DOMAIN chain)
<1>1. m \in Nat \ {0} /\ \A i \in 1..m : way[i] \in Links
  BY DEF Leads
<1>2. /\ way[1] = leaf /\ way[m] = root
      /\ \A i \in 1..(m - 1) : /\ way[i] # root /\ way[i] \in DOMAIN chain
                               /\ way[i + 1] = chain[way[i]].parent
  BY DEF Leads
<1>3. /\ N \in Nat /\ walk \in [0..N -> [link : Links, offset : Int]]
      /\ walk[0] = [link |-> leaf, offset |-> 0]
      /\ \A n \in 1..N :
           walk[n] = IF walk[n - 1].link \notin DOMAIN chain THEN walk[n - 1]
                     ELSE [link |-> chain[walk[n - 1].link].parent,
                           offset |-> chain[walk[n - 1].link].offset + walk[n - 1].offset]
  <2>1. Walks(walk, N, Links, chain, leaf)
    BY UpIs
  <2> HIDE DEF walk, N
  <2> QED  BY <2>1 DEF Walks
<1>4. m - 1 <= N
  <2> DEFINE I == 1..(m - 1)
             f == [i \in I |-> way[i]]
  <2>1. f \in [I -> DOMAIN chain]
    BY <1>2
  <2>2. \A i, j \in I : f[i] = f[j] => i = j
    <3> SUFFICES ASSUME NEW i \in I, NEW j \in I, way[i] = way[j], i # j PROVE FALSE
      OBVIOUS
    <3>1. i < j \/ j < i
      BY <1>1
    <3> QED  BY <3>1, NoLinkTwice
  <2> HIDE DEF f
  <2>3. f \in Injection(I, DOMAIN chain)
    BY <2>1, <2>2 DEF Injection, IsInjective
  <2>4. Cardinality(I) <= N
    BY <2>3, FS_Injection
  <2>5. Cardinality(I) = m - 1
    BY ONLY <1>1, UpTo
  <2> QED  BY <2>4, <2>5
<1> HIDE DEF m, walk, N
<1> DEFINE S == {k \in 0..(m - 1) : walk[k].link = way[k + 1]}
<1>5. 0 \in S
  BY <1>1, <1>2, <1>3
<1>6. \A k \in 1..(m - 1) : k \in 1..N /\ k - 1 \in 0..N /\ k \in 0..(m - 1)
  BY <1>1, <1>3, <1>4
<1>7. ASSUME NEW k \in 1..(m - 1), k - 1 \in S PROVE k \in S
  <2>1. walk[k - 1].link = way[k]
    BY <1>7
  <2>2. way[k] \in DOMAIN chain /\ way[k + 1] = chain[way[k]].parent
    BY <1>2
  <2> DEFINE up == chain[way[k]].offset + walk[k - 1].offset
  <2>3. walk[k] = [link |-> chain[way[k]].parent, offset |-> up]
    BY <1>3, <1>6, <2>1, <2>2
  <2> HIDE DEF up
  <2>4. walk[k].link = chain[way[k]].parent
    BY <2>3
  <2> QED  BY <1>6, <2>2, <2>4
<1>8. \A k \in 0..(m - 1) : k \in 0..N /\ walk[k].link = way[k + 1]
  <2> HIDE DEF S
  <2>1. 0..(m - 1) \subseteq S
    <3>1. m - 1 \in Nat
      BY <1>1
    <3> QED  BY <1>5, <1>7, <3>1, Upward
  <2> QED  BY <1>1, <1>3, <1>4, <2>1 DEF S
<1>9. \A k \in 1..(m - 1) : walk[k].offset = chain[way[k]].offset + walk[k - 1].offset
  <2> SUFFICES ASSUME NEW k \in 1..(m - 1)
               PROVE  walk[k].offset = chain[way[k]].offset + walk[k - 1].offset
    OBVIOUS
  <2>1. walk[k - 1].link = way[k] /\ way[k] \in DOMAIN chain
    BY <1>1, <1>2, <1>8
  <2> DEFINE p == chain[way[k]].parent
             up == chain[way[k]].offset + walk[k - 1].offset
  <2>2. walk[k] = [link |-> p, offset |-> up]
    BY <1>3, <1>6, <2>1
  <2> HIDE DEF up, p
  <2>3. walk[k].offset = up
    BY <2>2
  <2> QED  BY <2>3 DEF up
<1>10. walk[0].offset = 0 /\ DOMAIN walk = 0..N
  BY <1>3
<1> DEFINE found == {n \in DOMAIN walk : walk[n].link = root}
<1>11. m - 1 \in found /\ \A k \in found : m - 1 <= k
  <2>1. m - 1 \in 0..(m - 1) /\ (m - 1) + 1 = m
    BY <1>1
  <2>2. m - 1 \in found
    BY <1>2, <1>8, <1>10, <2>1
  <2>3. ASSUME NEW k \in found, ~(m - 1 <= k) PROVE FALSE
    <3>1. k \in 0..(m - 1) /\ k + 1 \in 1..(m - 1)
      BY <1>1, <1>3, <1>10, <2>3
    <3> QED  BY <1>2, <1>8, <2>3, <3>1
  <2> QED  BY <2>2, <2>3
<1>12. (CHOOSE n \in found : \A k \in found : n <= k) = m - 1
  <2>1. \A n \in found : n \in Nat
    BY <1>3, <1>10
  <2> HIDE DEF found
  <2>2. \A n \in found : (\A k \in found : n <= k) => n = m - 1
    BY <1>1, <1>11, <2>1
  <2> QED  BY <1>11, <2>2
<1>13. Color!compose_to_root(chain, leaf, root)
         = [ok |-> TRUE, offset |-> walk[m - 1].offset]
  <2>1. Color!compose_to_root(chain, leaf, root)
          = IF found = {} THEN [ok |-> FALSE]
            ELSE [ok |-> TRUE,
                  offset |-> walk[CHOOSE n \in found : \A k \in found : n <= k].offset]
    BY DEF Color!compose_to_root, walk
  <2> HIDE DEF found
  <2> QED  BY <1>11, <1>12, <2>1
<1>14. m - 1 \in DOMAIN walk
  BY <1>11
<1> QED  BY <1>3, <1>8, <1>9, <1>10, <1>13, <1>14 DEF m, walk, N

(* Where the walk comes to the root there is a way.                        *)
LEMMA WalkIsWay ==
  ASSUME NEW Links, NEW chain, IsFiniteSet(DOMAIN chain), NEW leaf \in Links,
         \A c \in DOMAIN chain : chain[c].parent \in Links /\ chain[c].offset \in Int,
         NEW root, Color!compose_to_root(chain, leaf, root).ok
  PROVE  \E way \in Seq(Links) : Leads(chain, leaf, root, way)
<1> DEFINE walk == Color!Up(chain, leaf)
           N == Cardinality(DOMAIN chain)
           found == {n \in DOMAIN walk : walk[n].link = root}
<1>1. /\ N \in Nat /\ walk \in [0..N -> [link : Links, offset : Int]]
      /\ walk[0] = [link |-> leaf, offset |-> 0]
      /\ \A n \in 1..N :
           walk[n] = IF walk[n - 1].link \notin DOMAIN chain THEN walk[n - 1]
                     ELSE [link |-> chain[walk[n - 1].link].parent,
                           offset |-> chain[walk[n - 1].link].offset + walk[n - 1].offset]
  <2>1. Walks(walk, N, Links, chain, leaf)
    BY UpIs
  <2> HIDE DEF walk, N
  <2> QED  BY <2>1 DEF Walks
<1>2. found # {}
  <2> SUFFICES ASSUME found = {} PROVE FALSE
    OBVIOUS
  <2>1. Color!compose_to_root(chain, leaf, root) = [ok |-> FALSE]
    BY DEF Color!compose_to_root
  <2> QED  BY <2>1
<1> HIDE DEF walk, N
<1>3. PICK n \in found : \A k \in found : n <= k
  <2>1. found \subseteq Nat
    BY <1>1
  <2> HIDE DEF found
  <2> QED  BY <1>2, <2>1, Least
<1>4. n \in 0..N /\ walk[n].link = root /\ \A k \in 0..(n - 1) : walk[k].link # root
  <2>1. n \in 0..N /\ walk[n].link = root
    BY <1>1, <1>3
  <2>2. ASSUME NEW k \in 0..(n - 1), walk[k].link = root PROVE FALSE
    <3>1. k \in found /\ ~(n <= k)
      BY <1>1, <2>1, <2>2
    <3> QED  BY <1>3, <3>1
  <2> QED  BY <2>1, <2>2
<1>5. ASSUME NEW k \in 0..(n - 1), walk[k].link \notin DOMAIN chain PROVE FALSE
  <2> DEFINE S == {j \in 0..(n - k) : walk[k + j].link = walk[k].link}
  <2>1. 0 \in S /\ n - k \in Nat /\ k \in Nat
    BY <1>1, <1>4
  <2>2. ASSUME NEW j \in 1..(n - k), j - 1 \in S PROVE j \in S
    <3>1. k + j \in 1..N /\ (k + j) - 1 = k + (j - 1) /\ j \in 0..(n - k)
      BY <1>1, <1>4
    <3>2. walk[k + (j - 1)].link = walk[k].link
      BY <2>2
    <3>3. walk[k + j] = walk[k + (j - 1)]
      BY <1>1, <1>5, <3>1, <3>2
    <3> QED  BY <3>1, <3>2, <3>3
  <2> HIDE DEF S
  <2>3. n - k \in S
    <3>1. 0..(n - k) \subseteq S
      BY <2>1, <2>2, Upward
    <3> QED  BY <2>1, <3>1
  <2>4. walk[k + (n - k)].link = walk[k].link /\ k + (n - k) = n
    BY <1>4, <2>1, <2>3 DEF S
  <2> QED  BY <1>4, <2>4
<1> DEFINE way == [i \in 1..(n + 1) |-> walk[i - 1].link]
<1>6. way \in Seq(Links) /\ Len(way) = n + 1
  <2>1. n + 1 \in Nat /\ \A i \in 1..(n + 1) : i - 1 \in 0..N
    BY <1>1, <1>4
  <2>2. \A i \in 1..(n + 1) : walk[i - 1].link \in Links
    BY <1>1, <2>1
  <2>3. way \in [1..(n + 1) -> Links]
    BY <2>2
  <2> HIDE DEF way
  <2> QED  BY <2>1, <2>3
<1>7. way[1] = leaf /\ way[n + 1] = root /\ way # <<>>
  <2>1. 1 \in 1..(n + 1) /\ n + 1 \in 1..(n + 1) /\ (n + 1) - 1 = n /\ 1 - 1 = 0
    BY <1>1, <1>4
  <2>2. way[1] = walk[0].link /\ way[n + 1] = walk[n].link
    BY <2>1
  <2>3. walk[0].link = leaf
    BY <1>1
  <2>4. Len(way) # 0
    BY <1>1, <1>4, <1>6
  <2> HIDE DEF way
  <2> QED  BY <1>4, <2>2, <2>3, <2>4
<1>8. ASSUME NEW i \in 1..n
      PROVE  /\ way[i] # root /\ way[i] \in DOMAIN chain
             /\ way[i + 1] = chain[way[i]].parent
  <2>1. /\ i - 1 \in 0..(n - 1) /\ i \in 1..N /\ i \in 1..(n + 1) /\ i + 1 \in 1..(n + 1)
        /\ (i + 1) - 1 = i
    BY <1>1, <1>4
  <2>2. way[i] = walk[i - 1].link /\ way[i + 1] = walk[i].link
    BY <2>1
  <2>3. walk[i - 1].link \in DOMAIN chain /\ walk[i - 1].link # root
    BY <1>4, <1>5, <2>1
  <2>4. walk[i].link = chain[walk[i - 1].link].parent
    <3> DEFINE p == chain[walk[i - 1].link].parent
               up == chain[walk[i - 1].link].offset + walk[i - 1].offset
    <3>1. walk[i] = [link |-> p, offset |-> up]
      BY <1>1, <2>1, <2>3
    <3> HIDE DEF p, up
    <3>2. walk[i].link = p
      BY <3>1
    <3> QED  BY <3>2 DEF p
  <2> HIDE DEF way
  <2> QED  BY <2>2, <2>3, <2>4
<1> HIDE DEF way
<1>9. Leads(chain, leaf, root, way)
  <2>1. (n + 1) - 1 = n
    BY <1>1, <1>4
  <2> QED  BY <1>6, <1>7, <1>8, <2>1 DEF Leads
<1> QED  BY <1>6, <1>9

(* A camera is placed if and only if its links lead to the root, for any   *)
(* chain however its links are cyclic or hang on other roots, and then by  *)
(* the sum of the offsets on the way.                                      *)
THEOREM CameraPlaced ==
  ASSUME NEW Links, NEW chain, IsFiniteSet(DOMAIN chain), NEW leaf \in Links,
         \A c \in DOMAIN chain : chain[c].parent \in Links /\ chain[c].offset \in Int,
         NEW root
  PROVE  LET placed == Color!compose_to_root(chain, leaf, root)
         IN  /\ placed.ok <=> \E way \in Seq(Links) : Leads(chain, leaf, root, way)
             /\ \A way \in Seq(Links) : Leads(chain, leaf, root, way) =>
                  \E sum \in [1..Len(way) -> Int] :
                    /\ sum[1] = 0
                    /\ \A i \in 1..(Len(way) - 1) :
                         sum[i + 1] = chain[way[i]].offset + sum[i]
                    /\ placed = [ok |-> TRUE, offset |-> sum[Len(way)]]
<1> DEFINE placed == Color!compose_to_root(chain, leaf, root)
           walk == Color!Up(chain, leaf)
<1>1. ASSUME NEW way \in Seq(Links), Leads(chain, leaf, root, way)
      PROVE  /\ placed.ok
             /\ \E sum \in [1..Len(way) -> Int] :
                  /\ sum[1] = 0
                  /\ \A i \in 1..(Len(way) - 1) :
                       sum[i + 1] = chain[way[i]].offset + sum[i]
                  /\ placed = [ok |-> TRUE, offset |-> sum[Len(way)]]
  <2> DEFINE m == Len(way)
             sum == [i \in 1..m |-> walk[i - 1].offset]
  <2>1. /\ walk \in [DOMAIN walk -> [link : Links, offset : Int]]
        /\ \A k \in 0..(m - 1) : k \in DOMAIN walk
        /\ walk[0].offset = 0
        /\ \A k \in 1..(m - 1) : walk[k].offset = chain[way[k]].offset + walk[k - 1].offset
        /\ placed = [ok |-> TRUE, offset |-> walk[m - 1].offset]
    BY <1>1, WalkFollows
  <2>2. m \in Nat \ {0}
    BY <1>1 DEF Leads
  <2> HIDE DEF m, walk, placed
  <2>3. \A i \in 1..m : i - 1 \in 0..(m - 1) /\ walk[i - 1].offset \in Int
    BY <2>1, <2>2
  <2>4. sum \in [1..m -> Int]
    BY <2>3
  <2>5. /\ sum[1] = walk[0].offset /\ sum[m] = walk[m - 1].offset
        /\ \A i \in 1..(m - 1) : sum[i] = walk[i - 1].offset /\ sum[i + 1] = walk[i].offset
    <3>1. /\ 1 \in 1..m /\ m \in 1..m /\ 1 - 1 = 0
          /\ \A i \in 1..(m - 1) : i \in 1..m /\ i + 1 \in 1..m /\ (i + 1) - 1 = i
      BY <2>2
    <3> QED  BY <3>1
  <2> HIDE DEF sum
  <2>6. placed.ok /\ placed = [ok |-> TRUE, offset |-> sum[m]]
    BY <2>1, <2>5
  <2>7. sum[1] = 0 /\ \A i \in 1..(m - 1) : sum[i + 1] = chain[way[i]].offset + sum[i]
    BY <2>1, <2>5
  <2> QED  BY <2>4, <2>6, <2>7 DEF m
<1>2. placed.ok => \E way \in Seq(Links) : Leads(chain, leaf, root, way)
  BY WalkIsWay
<1> HIDE DEF placed
<1>3. placed.ok <=> \E way \in Seq(Links) : Leads(chain, leaf, root, way)
  BY <1>1, <1>2
<1> QED  BY <1>1, <1>3 DEF placed

-----------------------------------------------------------------------------
(* Of a number that is at most w from where it starts, the part of the way *)
(* from a to b that it is of w leads to a place between them.              *)
LEMMA OnTheWay ==
  ASSUME NEW a \in Int, NEW b \in Int, NEW w \in Nat \ {0}, NEW u \in 0..w
  PROVE  LET v == a + ((b - a) * u) \div w
         IN  /\ v \in Int
             /\ a <= b => a <= v /\ v <= b
             /\ b <= a => b <= v /\ v <= a
<1> DEFINE d == b - a
           x == d * u
           q == x \div w
<1>1. d \in Int /\ u \in Nat /\ b = a + d /\ (a <= b => 0 <= d) /\ (b <= a => d <= 0)
  OBVIOUS
<1> HIDE DEF d
<1>2. x \in Int
  BY <1>1
<1>3. /\ 0 <= d => 0 * w <= x /\ x <= d * w
      /\ d <= 0 => d * w <= x /\ x <= 0 * w
  <2>1. PICK k \in Nat : w = u + k
    <3>1. w - u \in Nat /\ w = u + (w - u)
      OBVIOUS
    <3> QED  BY <3>1
  <2>2. d * w = x + d * k
    BY <1>1, <2>1
  <2>3. d * u \in Int /\ d * k \in Int /\ d * w \in Int /\ 0 * w = 0
    BY <1>1
  <2>4. /\ 0 <= d => 0 <= d * u /\ 0 <= d * k
        /\ d <= 0 => d * u <= 0 /\ d * k <= 0
    BY <1>1
  <2> QED  BY <2>2, <2>3, <2>4
<1> HIDE DEF x
<1>4. \A k \in Int : /\ x \div w \in Int
                     /\ k * w <= x => k <= x \div w
                     /\ x <= k * w => x \div w <= k
  BY <1>2, Quotient
<1>5. /\ q \in Int
      /\ 0 <= d => 0 <= q /\ q <= d
      /\ d <= 0 => d <= q /\ q <= 0
  <2>1. 0 \in Int /\ d \in Int
    BY <1>1
  <2> QED  BY ONLY <1>3, <1>4, <2>1
<1> HIDE DEF q
<1>6. /\ a + q \in Int
      /\ a <= b => a <= a + q /\ a + q <= b
      /\ b <= a => b <= a + q /\ a + q <= a
  BY <1>1, <1>5
<1> QED  BY <1>6 DEF q, x, d

(* load_tum, whatever the order of the rows of the file: it returns each   *)
(* of them once, by time, and those of the same time in the order of the   *)
(* file, which is what the stable list.sort of the code does.              *)
THEOREM TrajectorySorted ==
  ASSUME NEW n \in Nat, NEW rows \in [1..n -> Row]
  PROVE  LET traj == Color!load_tum(rows)
         IN  \E p \in Bijection(1..n, 1..n) :
               /\ traj = [i \in 1..n |-> rows[p[i]]]
               /\ \A i, j \in 1..n : i < j =>
                    \/ traj[i].t < traj[j].t
                    \/ traj[i].t = traj[j].t /\ p[i] < p[j]
<1> DEFINE Before(k) == {j \in DOMAIN rows :
                           rows[j].t < rows[k].t \/ (rows[j].t = rows[k].t /\ j < k)}
           At(i) == CHOOSE k \in DOMAIN rows : Color!Cardinality(Before(k)) = i - 1
           rank == [k \in 1..n |-> Cardinality(Before(k)) + 1]
           p == [i \in 1..n |-> At(i)]
<1>1. DOMAIN rows = 1..n /\ \A k \in 1..n : rows[k].t \in Int
  BY DEF Row
<1>2. Color!load_tum(rows) = [i \in DOMAIN rows |-> rows[At(i)]]
  BY DEF Color!load_tum
<1>3. \A j, k \in 1..n : j \in Before(k) <=>
        rows[j].t < rows[k].t \/ (rows[j].t = rows[k].t /\ j < k)
  BY <1>1
<1>4. \A k \in 1..n : Before(k) \subseteq 1..n
  BY <1>1
<1>5. \A i \in 1..n : At(i) = CHOOSE k \in 1..n : Cardinality(Before(k)) = i - 1
  <2>1. \A S : Color!Cardinality(S) = Cardinality(S)
    BY DEF Color!Cardinality, Cardinality
  <2> HIDE DEF Before
  <2> QED  BY <1>1, <2>1
<1> HIDE DEF Before, At
<1>6. IsFiniteSet(1..n) /\ Cardinality(1..n) = n
  BY FS_Interval
<1>7. \A k \in 1..n : k \notin Before(k)
  BY <1>1, <1>3
<1>8. \A j, k \in 1..n : j \in Before(k) => Before(j) \subseteq Before(k)
  <2> SUFFICES ASSUME NEW j \in 1..n, NEW k \in 1..n, j \in Before(k), NEW i \in Before(j)
               PROVE  i \in Before(k)
    OBVIOUS
  <2>1. i \in 1..n
    BY <1>4
  <2>2. /\ rows[i].t < rows[j].t \/ (rows[i].t = rows[j].t /\ i < j)
        /\ rows[j].t < rows[k].t \/ (rows[j].t = rows[k].t /\ j < k)
    BY <1>3, <2>1
  <2>3. rows[i].t < rows[k].t \/ (rows[i].t = rows[k].t /\ i < k)
    <3>1. rows[i].t \in Int /\ rows[j].t \in Int /\ rows[k].t \in Int
      BY <1>1, <2>1
    <3> QED  BY <2>1, <2>2, <3>1
  <2> QED  BY <1>3, <2>1, <2>3
<1>9. \A j, k \in 1..n : j = k \/ j \in Before(k) \/ k \in Before(j)
  <2> SUFFICES ASSUME NEW j \in 1..n, NEW k \in 1..n, j # k
               PROVE  j \in Before(k) \/ k \in Before(j)
    OBVIOUS
  <2>1. rows[j].t \in Int /\ rows[k].t \in Int
    BY <1>1
  <2>2. \/ rows[j].t < rows[k].t \/ (rows[j].t = rows[k].t /\ j < k)
        \/ rows[k].t < rows[j].t \/ (rows[k].t = rows[j].t /\ k < j)
    BY <2>1
  <2> QED  BY <1>3, <2>2
<1>10. ASSUME NEW S \in SUBSET (1..n), NEW k \in 1..n, NEW T, T \subseteq S, k \in S, k \notin T
       PROVE  /\ Cardinality(T) \in Nat /\ Cardinality(S) \in Nat
              /\ Cardinality(T) < Cardinality(S)
  <2>1. IsFiniteSet(S) /\ Cardinality(S) \in Nat
    BY <1>6, FS_Subset, FS_CardinalityType
  <2>2. IsFiniteSet(S \ {k}) /\ Cardinality(S \ {k}) = Cardinality(S) - 1
    BY <1>10, <2>1, FS_RemoveElement
  <2>3. T \in SUBSET (S \ {k})
    BY <1>10
  <2>4. IsFiniteSet(T) /\ Cardinality(T) <= Cardinality(S \ {k})
    BY <2>2, <2>3, FS_Subset
  <2>5. Cardinality(T) \in Nat
    BY <2>4, FS_CardinalityType
  <2> QED  BY <2>1, <2>2, <2>4, <2>5
<1>11. rank \in [1..n -> 1..n] /\ \A k \in 1..n : rank[k] = Cardinality(Before(k)) + 1
  <2>1. ASSUME NEW k \in 1..n PROVE Cardinality(Before(k)) + 1 \in 1..n
    <3>1. Cardinality(Before(k)) \in Nat /\ Cardinality(Before(k)) < n
      <4>1. 1..n \in SUBSET (1..n)
        OBVIOUS
      <4> QED  BY <1>4, <1>6, <1>7, <1>10, <4>1
    <3> QED  BY <3>1
  <2> QED  BY <2>1
<1>12. \A j, k \in 1..n : j \in Before(k) => rank[j] < rank[k]
  <2> SUFFICES ASSUME NEW j \in 1..n, NEW k \in 1..n, j \in Before(k)
               PROVE  rank[j] < rank[k]
    OBVIOUS
  <2>1. /\ Cardinality(Before(j)) \in Nat /\ Cardinality(Before(k)) \in Nat
        /\ Cardinality(Before(j)) < Cardinality(Before(k))
    BY <1>4, <1>7, <1>8, <1>10
  <2> QED  BY <1>11, <2>1
<1> HIDE DEF rank
<1>13. \A j, k \in 1..n : rank[j] = rank[k] => j = k
  <2> SUFFICES ASSUME NEW j \in 1..n, NEW k \in 1..n, j # k PROVE rank[j] # rank[k]
    OBVIOUS
  <2>1. rank[j] < rank[k] \/ rank[k] < rank[j]
    BY <1>9, <1>12
  <2>2. rank[j] \in 1..n /\ rank[k] \in 1..n
    BY <1>11
  <2> QED  BY <2>1, <2>2
<1>14. \A i \in 1..n : \E k \in 1..n : rank[k] = i
  <2>1. rank \in Injection(1..n, 1..n)
    BY <1>11, <1>13 DEF Injection, IsInjective
  <2>2. rank \in Surjection(1..n, 1..n)
    BY <1>6, <2>1, FS_Injection
  <2> QED  BY <2>2 DEF Surjection
<1>15. \A i \in 1..n : At(i) \in 1..n /\ rank[At(i)] = i
  <2> SUFFICES ASSUME NEW i \in 1..n PROVE At(i) \in 1..n /\ rank[At(i)] = i
    OBVIOUS
  <2>1. PICK k \in 1..n : rank[k] = i
    BY <1>14
  <2>2. \A m \in 1..n : Cardinality(Before(m)) = i - 1 <=> rank[m] = i
    <3> SUFFICES ASSUME NEW m \in 1..n
                 PROVE  Cardinality(Before(m)) = i - 1 <=> rank[m] = i
      OBVIOUS
    <3>1. IsFiniteSet(Before(m))
      BY <1>4, <1>6, FS_Subset
    <3>2. Cardinality(Before(m)) \in Nat
      BY <3>1, FS_CardinalityType
    <3>3. rank[m] = Cardinality(Before(m)) + 1
      BY <1>11
    <3> QED  BY <3>2, <3>3
  <2>3. At(i) \in 1..n /\ Cardinality(Before(At(i))) = i - 1
    <3>1. Cardinality(Before(k)) = i - 1
      BY <2>1, <2>2
    <3>2. At(i) = CHOOSE m \in 1..n : Cardinality(Before(m)) = i - 1
      BY <1>5
    <3> QED  BY ONLY <3>1, <3>2, k \in 1..n
  <2> QED  BY <2>2, <2>3
<1>16. p \in [1..n -> 1..n] /\ \A i \in 1..n : p[i] = At(i) /\ rank[p[i]] = i
  BY <1>15
<1> HIDE DEF p
<1>17. p \in Bijection(1..n, 1..n)
  <2>1. ASSUME NEW k \in 1..n PROVE \E i \in 1..n : p[i] = k
    <3>1. rank[k] \in 1..n
      BY <1>11
    <3>2. p[rank[k]] \in 1..n /\ rank[p[rank[k]]] = rank[k]
      BY <1>16, <3>1
    <3> QED  BY <1>13, <3>1, <3>2
  <2>2. \A i, j \in 1..n : p[i] = p[j] => i = j
    BY <1>16
  <2> QED  BY <1>16, <2>1, <2>2 DEF Bijection, Injection, Surjection, IsInjective
<1>18. Color!load_tum(rows) = [i \in 1..n |-> rows[p[i]]]
  BY <1>1, <1>2, <1>16
<1>19. ASSUME NEW i \in 1..n, NEW j \in 1..n, i < j
       PROVE  \/ rows[p[i]].t < rows[p[j]].t
              \/ rows[p[i]].t = rows[p[j]].t /\ p[i] < p[j]
  <2>1. p[i] \in 1..n /\ p[j] \in 1..n /\ rank[p[i]] = i /\ rank[p[j]] = j
    BY <1>16
  <2>2. p[i] # p[j] /\ ~(rank[p[j]] < rank[p[i]])
    BY <1>19, <2>1
  <2>3. p[i] \in Before(p[j])
    BY <1>9, <1>12, <2>1, <2>2
  <2> QED  BY <1>3, <2>1, <2>3
<1> QED  BY <1>17, <1>18, <1>19

(* interp_pose on a trajectory that load_tum read from any file: less than *)
(* half a second before or after the trajectory the pose is the one at the *)
(* end, whatever the robot did since, and farther outside there is none;   *)
(* inside, between the ends, exactly one pair of rows next to each other   *)
(* has the time between them, which the binary search of the code          *)
(* therefore ends with, rows of the same time included, and the pose lies  *)
(* between those of the two rows.                                          *)
THEOREM PoseBetweenRows ==
  ASSUME NEW n \in Nat \ {0}, NEW rows \in [1..n -> Row], NEW t \in Int,
         NEW half_second \in Nat \ {0}
  PROVE  LET traj == Color!load_tum(rows)
             pose == Color!interp_pose(traj, t, half_second)
             before == traj[1].t - t
             after == t - traj[n].t
         IN  /\ before >= half_second \/ after >= half_second => pose = Color!NoPose
             /\ 0 <= before /\ before < half_second => pose = traj[1].at
             /\ 0 <= after /\ after < half_second /\ before < 0 => pose = traj[n].at
             /\ traj[1].t < t /\ t < traj[n].t =>
                  \E i \in 1..(n - 1) :
                    /\ \A k \in 1..n : k <= i <=> traj[k].t <= t
                    /\ \A k \in 1..(n - 1) : traj[k].t <= t /\ t < traj[k + 1].t => k = i
                    /\ pose \in Int
                    /\ traj[i].at <= traj[i + 1].at =>
                         traj[i].at <= pose /\ pose <= traj[i + 1].at
                    /\ traj[i + 1].at <= traj[i].at =>
                         traj[i + 1].at <= pose /\ pose <= traj[i].at
<1> DEFINE traj == Color!load_tum(rows)
<1>1. PICK p \in Bijection(1..n, 1..n) :
        /\ traj = [i \in 1..n |-> rows[p[i]]]
        /\ \A i, j \in 1..n : i < j =>
             \/ traj[i].t < traj[j].t
             \/ traj[i].t = traj[j].t /\ p[i] < p[j]
  BY TrajectorySorted
<1> HIDE DEF traj
<1>2. traj \in [1..n -> Row] /\ Len(traj) = n /\ traj # <<>>
  <2>1. p \in [1..n -> 1..n]
    BY DEF Bijection, Injection
  <2>2. traj \in [1..n -> Row]
    BY <1>1, <2>1
  <2>3. traj \in Seq(Row) /\ Len(traj) = n
    BY <2>2
  <2> QED  BY <2>2, <2>3
<1>3. \A k \in 1..n : traj[k].t \in Int /\ traj[k].at \in Int
  BY <1>2 DEF Row
<1>4. \A i, j \in 1..n : i <= j => traj[i].t <= traj[j].t
  <2> SUFFICES ASSUME NEW i \in 1..n, NEW j \in 1..n, i <= j PROVE traj[i].t <= traj[j].t
    OBVIOUS
  <2>1. traj[i].t \in Int /\ traj[j].t \in Int
    BY <1>3
  <2>2. CASE i = j
    BY <2>1, <2>2
  <2>3. CASE i < j
    <3>1. traj[i].t < traj[j].t \/ traj[i].t = traj[j].t
      BY <1>1, <2>3
    <3> QED  BY <2>1, <3>1
  <2> QED  BY <2>2, <2>3
<1> DEFINE lo == CHOOSE i \in 1..(Len(traj) - 1) : traj[i].t <= t /\ t < traj[i + 1].t
           a == traj[lo]
           b == traj[lo + 1]
           v == a.at + ((b.at - a.at) * (t - a.t)) \div (b.t - a.t)
<1>5. Color!interp_pose(traj, t, half_second) =
        IF traj = <<>> THEN Color!NoPose
        ELSE IF t <= traj[1].t
             THEN IF traj[1].t - t < half_second THEN traj[1].at ELSE Color!NoPose
        ELSE IF t >= traj[Len(traj)].t
             THEN IF t - traj[Len(traj)].t < half_second THEN traj[Len(traj)].at ELSE Color!NoPose
        ELSE v
  BY DEF Color!interp_pose
<1>6. ASSUME traj[1].t < t, t < traj[n].t
      PROVE  lo \in 1..(n - 1) /\ traj[lo].t <= t /\ t < traj[lo + 1].t
  <2>1. \E i \in 1..(n - 1) : traj[i].t <= t /\ t < traj[i + 1].t
    BY <1>2, <1>6, Around
  <2> QED  BY <1>2, <2>1
<1> HIDE DEF lo
<1>7. ASSUME traj[1].t < t, t < traj[n].t
      PROVE  /\ v \in Int
             /\ a.at <= b.at => a.at <= v /\ v <= b.at
             /\ b.at <= a.at => b.at <= v /\ v <= a.at
  <2>1. lo \in 1..n /\ lo + 1 \in 1..n
    BY <1>6, <1>7
  <2>2. a.t \in Int /\ a.at \in Int /\ b.t \in Int /\ b.at \in Int /\ a.t <= t /\ t < b.t
    BY <1>3, <1>6, <1>7, <2>1
  <2> HIDE DEF a, b
  <2>3. b.t - a.t \in Nat \ {0} /\ t - a.t \in 0..(b.t - a.t)
    BY <2>2
  <2> QED  BY <2>2, <2>3, OnTheWay
<1> HIDE DEF v
<1>8. ASSUME NEW i \in 1..(n - 1), traj[i].t <= t, t < traj[i + 1].t
      PROVE  \A k \in 1..n : k <= i <=> traj[k].t <= t
  <2>1. i \in 1..n /\ i + 1 \in 1..n
    OBVIOUS
  <2>2. ASSUME NEW k \in 1..n, k <= i PROVE traj[k].t <= t
    <3>1. traj[k].t <= traj[i].t /\ traj[k].t \in Int /\ traj[i].t \in Int
      BY <1>3, <1>4, <2>1, <2>2
    <3> QED  BY <1>8, <3>1
  <2>3. ASSUME NEW k \in 1..n, ~(k <= i) PROVE ~(traj[k].t <= t)
    <3>1. i + 1 <= k
      BY <2>3
    <3>2. traj[i + 1].t <= traj[k].t /\ traj[k].t \in Int /\ traj[i + 1].t \in Int
      BY <1>3, <1>4, <2>1, <3>1
    <3> QED  BY <1>8, <3>2
  <2> QED  BY <2>2, <2>3
<1>9. ASSUME traj[1].t < t, t < traj[n].t
      PROVE  /\ \A k \in 1..n : k <= lo <=> traj[k].t <= t
             /\ \A k \in 1..(n - 1) : traj[k].t <= t /\ t < traj[k + 1].t => k = lo
  <2>1. lo \in 1..(n - 1) /\ \A k \in 1..n : k <= lo <=> traj[k].t <= t
    BY <1>6, <1>8, <1>9
  <2>2. ASSUME NEW k \in 1..(n - 1), traj[k].t <= t, t < traj[k + 1].t PROVE k = lo
    <3>1. \A m \in 1..n : m <= k <=> traj[m].t <= t
      BY <1>8, <2>2
    <3>2. k \in 1..n /\ lo \in 1..n
      BY <2>1
    <3>3. (lo <= k <=> lo <= lo) /\ (k <= lo <=> k <= k)
      BY <2>1, <3>1, <3>2
    <3> QED  BY <3>2, <3>3
  <2> QED  BY <2>1, <2>2
<1> DEFINE pose == Color!interp_pose(traj, t, half_second)
<1>10. /\ traj[1].t - t >= half_second \/ t - traj[n].t >= half_second => pose = Color!NoPose
       /\ 0 <= traj[1].t - t /\ traj[1].t - t < half_second => pose = traj[1].at
       /\ 0 <= t - traj[n].t /\ t - traj[n].t < half_second /\ traj[1].t - t < 0 =>
            pose = traj[n].at
  <2>1. 1 \in 1..n /\ n \in 1..n
    OBVIOUS
  <2>2. traj[1].t \in Int /\ traj[n].t \in Int /\ traj[1].t <= traj[n].t
    BY <1>3, <1>4, <2>1
  <2>3. pose = IF t <= traj[1].t
               THEN IF traj[1].t - t < half_second THEN traj[1].at ELSE Color!NoPose
               ELSE IF t >= traj[n].t
               THEN IF t - traj[n].t < half_second THEN traj[n].at ELSE Color!NoPose
               ELSE v
    BY <1>2, <1>5
  <2> QED  BY ONLY <2>2, <2>3, half_second \in Nat \ {0}, t \in Int
<1>11. traj[1].t < t /\ t < traj[n].t => pose = v
  <2>1. 1 \in 1..n /\ n \in 1..n
    OBVIOUS
  <2>2. traj[1].t \in Int /\ traj[n].t \in Int
    BY <1>3, <2>1
  <2> QED  BY <1>2, <1>5, <2>2
<1>12. ASSUME traj[1].t < t, t < traj[n].t
       PROVE  \E i \in 1..(n - 1) :
                /\ \A k \in 1..n : k <= i <=> traj[k].t <= t
                /\ \A k \in 1..(n - 1) : traj[k].t <= t /\ t < traj[k + 1].t => k = i
                /\ pose \in Int
                /\ traj[i].at <= traj[i + 1].at =>
                     /\ traj[i].at <= pose
                     /\ pose <= traj[i + 1].at
                /\ traj[i + 1].at <= traj[i].at =>
                     /\ traj[i + 1].at <= pose
                     /\ pose <= traj[i].at
  <2>1. lo \in 1..(n - 1) /\ pose = v
    BY <1>6, <1>11, <1>12
  <2>2. /\ v \in Int
        /\ traj[lo].at <= traj[lo + 1].at => traj[lo].at <= v /\ v <= traj[lo + 1].at
        /\ traj[lo + 1].at <= traj[lo].at => traj[lo + 1].at <= v /\ v <= traj[lo].at
    BY <1>7, <1>12
  <2>3. /\ \A k \in 1..n : k <= lo <=> traj[k].t <= t
        /\ \A k \in 1..(n - 1) : traj[k].t <= t /\ t < traj[k + 1].t => k = lo
    BY <1>9, <1>12
  <2> QED  BY <2>1, <2>2, <2>3
<1> QED  BY <1>10, <1>12 DEF traj

(* An image of a bag. *)
Image == [ts : Int, stamp : Int, ok : BOOLEAN]

(* When the image that was kept last was received, image after image.      *)
LEMMA LastKeptIs ==
  ASSUME NEW images \in Seq(Image), NEW stride \in Int
  PROVE  \E last \in [0..Len(images) -> Int] :
           /\ last[0] = 0
           /\ \A n \in 1..Len(images) :
                last[n] = IF images[n].ts - last[n - 1] >= stride /\ images[n].ok
                          THEN images[n].ts ELSE last[n - 1]
           /\ Color!load_camera_keyframes(images, stride) =
                {n \in 1..Len(images) : images[n].ts - last[n - 1] >= stride /\ images[n].ok}
<1> DEFINE N == Len(images)
           Next1(n, x) == IF images[n].ts - x >= stride /\ images[n].ok THEN images[n].ts ELSE x
           P(f) == f = [n \in 0..N |-> IF n = 0 THEN 0 ELSE Next1(n, f[n - 1])]
           last == CHOOSE f : P(f)
           step == [n \in 1..N |-> [x \in Int |-> Next1(n, x)]]
<1>1. N \in Nat /\ DOMAIN images = 1..N /\ \A n \in 1..N : images[n].ts \in Int
  <2>1. N \in Nat /\ DOMAIN images = 1..N /\ \A n \in 1..N : images[n] \in Image
    OBVIOUS
  <2>2. \A x \in Image : x.ts \in Int
    BY DEF Image
  <2> QED  BY ONLY <2>1, <2>2
<1>2. \A n \in 1..N, x \in Int : Next1(n, x) \in Int
  BY <1>1
<1> HIDE DEF Next1
<1>3. PICK f \in [0..N -> Int] : f[0] = 0 /\ \A n \in 1..N : f[n] = step[n][f[n - 1]]
  <2> DEFINE A == Int
  <2>1. 0 \in A /\ N \in Nat /\ \A n \in 1..N, x \in A : step[n][x] \in A
    BY <1>1, <1>2
  <2> HIDE DEF step, N, A
  <2>2. \E f : Recursive(f, N, A, 0, step)
    BY <2>1, Recursion
  <2> QED  BY <2>2 DEF A, Recursive
<1>4. \A n \in 1..N : f[n] = Next1(n, f[n - 1])
  <2> SUFFICES ASSUME NEW n \in 1..N PROVE f[n] = Next1(n, f[n - 1])
    OBVIOUS
  <2>1. f[n - 1] \in Int
    BY <1>1, <1>3
  <2> QED  BY <1>3, <2>1
<1>5. P(f)
  <2>1. \A n \in 0..N : f[n] = IF n = 0 THEN 0 ELSE Next1(n, f[n - 1])
    BY <1>1, <1>3, <1>4
  <2> HIDE DEF N
  <2> QED  BY <1>3, <2>1
<1>6. P(last)
  <2> HIDE DEF P
  <2> QED  BY <1>5
<1>7. Color!load_camera_keyframes(images, stride) =
        {n \in DOMAIN images : images[n].ts - last[n - 1] >= stride /\ images[n].ok}
  BY DEF Color!load_camera_keyframes, Next1
<1> HIDE DEF last
<1>8. \A n \in 0..N : last[n] = IF n = 0 THEN 0 ELSE Next1(n, last[n - 1])
  BY <1>6
<1>9. last = [n \in 0..N |-> last[n]]
  <2>1. DOMAIN last = 0..N /\ last = [n \in DOMAIN last |-> last[n]]
    BY <1>6
  <2> QED  BY ONLY <2>1
<1> HIDE DEF P, N
<1>10. last[0] = 0 /\ \A n \in 1..N : last[n] = Next1(n, last[n - 1])
  <2>1. 0 \in 0..N /\ \A n \in 1..N : n \in 0..N /\ n # 0
    BY <1>1
  <2> QED  BY ONLY <1>8, <2>1
<1>11. \A n \in 0..N : last[n] \in Int
  <2> DEFINE S == {n \in 0..N : last[n] \in Int}
  <2>1. 0 \in S
    BY <1>1, <1>10
  <2>2. ASSUME NEW n \in 1..N, n - 1 \in S PROVE n \in S
    <3>1. last[n - 1] \in Int /\ n \in 0..N
      BY <1>1, <2>2
    <3> QED  BY <1>2, <1>10, <3>1
  <2> HIDE DEF S
  <2>3. 0..N \subseteq S
    BY <1>1, <2>1, <2>2, Upward
  <2> QED  BY <2>3 DEF S
<1>12. last \in [0..N -> Int]
  BY <1>9, <1>11
<1> QED  BY <1>1, <1>7, <1>10, <1>12 DEF N, Next1

LEMMA FurtherApart ==
  ASSUME NEW a \in Int, NEW b \in Int, NEW c \in Int, NEW d \in Int, a <= b, c - b >= d
  PROVE  c - a >= d
OBVIOUS

(* The images load_camera_keyframes keeps of a camera can be decoded, and  *)
(* of two the later was received at least a stride after the earlier; one  *)
(* that is skipped cannot be decoded, or was received less than a stride   *)
(* after one before it that is kept, or after the start of the clock. An   *)
(* image that cannot be decoded hides no other.                            *)
THEOREM KeyframesApart ==
  ASSUME NEW images \in Seq(Image), NEW stride \in Nat
  PROVE  LET kept == Color!load_camera_keyframes(images, stride)
         IN  /\ \A i \in kept : i \in DOMAIN images /\ images[i].ok
             /\ \A i, j \in kept : i < j => images[j].ts - images[i].ts >= stride
             /\ \A n \in DOMAIN images \ kept :
                  \/ ~images[n].ok
                  \/ images[n].ts < stride
                  \/ \E i \in kept : i < n /\ images[n].ts - images[i].ts < stride
<1> DEFINE N == Len(images)
           kept == Color!load_camera_keyframes(images, stride)
<1>1. N \in Nat /\ DOMAIN images = 1..N /\ \A n \in 1..N : images[n].ts \in Int
  <2>1. N \in Nat /\ DOMAIN images = 1..N /\ \A n \in 1..N : images[n] \in Image
    OBVIOUS
  <2>2. \A x \in Image : x.ts \in Int
    BY DEF Image
  <2> QED  BY ONLY <2>1, <2>2
<1>2. PICK last \in [0..N -> Int] :
        /\ last[0] = 0
        /\ \A n \in 1..N :
             last[n] = IF images[n].ts - last[n - 1] >= stride /\ images[n].ok
                       THEN images[n].ts ELSE last[n - 1]
        /\ kept = {n \in 1..N : images[n].ts - last[n - 1] >= stride /\ images[n].ok}
  <2>1. stride \in Int
    OBVIOUS
  <2> QED  BY ONLY images \in Seq(Image), <2>1, LastKeptIs
<1> DEFINE Keeps(n) == images[n].ts - last[n - 1] >= stride /\ images[n].ok
<1> HIDE DEF N, kept
<1>3. \A n \in 1..N : /\ n - 1 \in 0..N /\ n \in 0..N
                      /\ last[n - 1] \in Int /\ last[n] \in Int
                      /\ \A k \in 1..n : k \in 1..(n - 1) \/ k = n
                      /\ \A k \in 1..n : k \in 1..N
  BY <1>1
<1>4. \A n \in 1..N : /\ ~Keeps(n) => last[n] = last[n - 1]
                      /\ Keeps(n) => last[n] = images[n].ts /\ last[n - 1] <= images[n].ts
  <2> SUFFICES ASSUME NEW n \in 1..N
               PROVE  /\ ~Keeps(n) => last[n] = last[n - 1]
                      /\ Keeps(n) => last[n] = images[n].ts /\ last[n - 1] <= images[n].ts
    OBVIOUS
  <2>1. images[n].ts \in Int /\ last[n - 1] \in Int
    BY <1>1, <1>3
  <2>2. last[n] = IF images[n].ts - last[n - 1] >= stride /\ images[n].ok
                  THEN images[n].ts ELSE last[n - 1]
    BY <1>2
  <2> QED  BY ONLY <2>1, <2>2, stride \in Nat
<1> DEFINE Bound(n) == /\ \A k \in 1..n : Keeps(k) => images[k].ts <= last[n]
                       /\ last[n] = 0 \/ \E k \in 1..n : Keeps(k) /\ last[n] = images[k].ts
<1>5. \A n \in 0..N : Bound(n)
  <2> DEFINE S == {n \in 0..N : Bound(n)}
  <2>1. 0 \in S
    BY <1>1, <1>2
  <2>2. ASSUME NEW n \in 1..N, n - 1 \in S PROVE n \in S
    <3>1. Bound(n - 1) /\ n \in 0..N /\ 1..(n - 1) \subseteq 1..n /\ n \in 1..n
      BY <1>1, <1>3, <2>2
    <3> HIDE DEF Keeps
    <3>2. CASE ~Keeps(n)
      <4>1. last[n] = last[n - 1]
        BY <1>4, <3>2
      <4>2. \A k \in 1..n : Keeps(k) => k \in 1..(n - 1)
        BY <1>3, <3>2
      <4> QED  BY <3>1, <4>1, <4>2
    <3>3. CASE Keeps(n)
      <4>1. last[n] = images[n].ts /\ last[n - 1] <= images[n].ts
            /\ last[n - 1] \in Int /\ images[n].ts \in Int
        BY <1>1, <1>3, <1>4, <3>3
      <4>2. ASSUME NEW k \in 1..n, Keeps(k) PROVE images[k].ts <= last[n]
        <5>1. CASE k = n
          BY <4>1, <5>1
        <5>2. CASE k \in 1..(n - 1)
          <6>1. images[k].ts <= last[n - 1] /\ images[k].ts \in Int
            BY <1>1, <1>3, <3>1, <4>2, <5>2
          <6> QED  BY <4>1, <6>1
        <5> QED  BY <1>3, <5>1, <5>2
      <4> QED  BY <3>1, <3>3, <4>1, <4>2
    <3> QED  BY <3>2, <3>3
  <2> HIDE DEF S
  <2>3. 0..N \subseteq S
    BY <1>1, <2>1, <2>2, Upward
  <2> QED  BY <2>3 DEF S
<1>6. ASSUME NEW i \in 1..N, NEW j \in 1..N, i < j, Keeps(i), Keeps(j)
      PROVE  images[j].ts - images[i].ts >= stride
  <2>1. i \in 1..(j - 1)
    BY <1>1, <1>6
  <2>2. images[i].ts <= last[j - 1]
    BY <1>3, <1>5, <1>6, <2>1
  <2>3. images[j].ts - last[j - 1] >= stride
    BY <1>6
  <2>4. images[i].ts \in Int /\ images[j].ts \in Int /\ last[j - 1] \in Int
    BY <1>1, <1>3
  <2>5. stride \in Int
    OBVIOUS
  <2> QED  BY ONLY <2>2, <2>3, <2>4, <2>5, FurtherApart
<1>7. \A n \in 1..N : n \in kept <=> Keeps(n)
  BY <1>2
<1>8. kept \subseteq 1..N
  BY <1>2
<1>9. \A i \in kept : i \in DOMAIN images /\ images[i].ok
  BY <1>1, <1>2
<1>10. ASSUME NEW i \in kept, NEW j \in kept, i < j PROVE images[j].ts - images[i].ts >= stride
  <2>1. i \in 1..N /\ j \in 1..N
    BY <1>8
  <2>2. Keeps(i) /\ Keeps(j)
    BY <1>7, <2>1
  <2> HIDE DEF Keeps
  <2> QED  BY <1>6, <1>10, <2>1, <2>2
<1>11. ASSUME NEW n \in 1..N, n \notin kept
       PROVE  \/ ~images[n].ok
              \/ images[n].ts < stride
              \/ \E i \in kept : i < n /\ images[n].ts - images[i].ts < stride
  <2>1. ~Keeps(n)
    BY <1>7, <1>11
  <2>2. \/ ~images[n].ok
        \/ images[n].ts - last[n - 1] < stride /\ images[n].ts \in Int
    BY <1>1, <1>3, <2>1
  <2> HIDE DEF Keeps
  <2>3. last[n - 1] = 0 \/ \E k \in 1..(n - 1) : Keeps(k) /\ last[n - 1] = images[k].ts
    <3>1. n - 1 \in 0..N
      BY <1>3
    <3> QED  BY <1>5, <3>1
  <2>4. CASE last[n - 1] = 0
    BY <2>2, <2>4
  <2>5. ASSUME NEW k \in 1..(n - 1), Keeps(k), last[n - 1] = images[k].ts
        PROVE  k \in kept /\ k < n
    <3>1. k \in 1..N /\ k < n
      BY <1>1
    <3> QED  BY <1>7, <2>5, <3>1
  <2> QED  BY <2>2, <2>3, <2>4, <2>5
<1> QED  BY <1>1, <1>9, <1>10, <1>11 DEF kept
=============================================================================
