------------------------------ MODULE ColorMesh ------------------------------
(***************************************************************************)
(* color_mesh.py: which pose of the robot each image of a bag is taken     *)
(* for, and what colour a vertex gets. The robot moves along a line; a     *)
(* pose is [t, at]. Colours are grey values.                               *)
(***************************************************************************)
EXTENDS Integers, Sequences, FiniteSets

NoPose == -1

(* A chain of links up to the root, child |-> [parent, offset]: what       *)
(* compose_to_root walks, at most once through each link.                  *)
Up(chain, leaf) ==
  LET walk[n \in 0..Cardinality(DOMAIN chain)] ==
        IF n = 0 THEN [link |-> leaf, offset |-> 0]
        ELSE LET below == walk[n - 1]
             IN  IF below.link \notin DOMAIN chain THEN below
                 ELSE [link |-> chain[below.link].parent,
                       offset |-> chain[below.link].offset + below.offset]
  IN  walk

(* The cameras that hang on the root; a cycle, or another root, makes      *)
(* compose_to_root raise, and the camera is skipped.                       *)
compose_to_root(chain, leaf, root) ==
  LET found == {n \in DOMAIN Up(chain, leaf) : Up(chain, leaf)[n].link = root}
  IN  IF found = {} THEN [ok |-> FALSE]
      ELSE [ok |-> TRUE,
            offset |-> Up(chain, leaf)[CHOOSE n \in found : \A m \in found : n <= m].offset]

(* load_tum sorts the poses by time; those of the same time stay in order. *)
load_tum(rows) ==
  LET Before(k) == {j \in DOMAIN rows :
                      rows[j].t < rows[k].t \/ (rows[j].t = rows[k].t /\ j < k)}
  IN  [i \in DOMAIN rows |->
         rows[CHOOSE k \in DOMAIN rows : Cardinality(Before(k)) = i - 1]]

(* interp_pose: the two poses around t that the binary search finds, and   *)
(* the pose between them; up to half a second outside, the pose at the     *)
(* end, and none from there on.                                            *)
interp_pose(traj, t, half_second) ==
  LET n == Len(traj)
      lo == CHOOSE i \in 1..(n - 1) : traj[i].t <= t /\ t < traj[i + 1].t
      p == traj[lo]
      q == traj[lo + 1]
  IN  IF traj = <<>> THEN NoPose
      ELSE IF t <= traj[1].t
           THEN IF traj[1].t - t < half_second THEN traj[1].at ELSE NoPose
      ELSE IF t >= traj[n].t
           THEN IF t - traj[n].t < half_second THEN traj[n].at ELSE NoPose
      ELSE p.at + ((q.at - p.at) * (t - p.t)) \div (q.t - p.t)

(* load_camera_keyframes: the images that can be decoded and were received *)
(* at least a stride after the last one that was kept, by number. Images   *)
(* are [ts: when the bag received it, stamp: of its header, ok], and come  *)
(* in the order of ts.                                                     *)
load_camera_keyframes(images, stride) ==
  LET Keeps(n, last) == images[n].ts - last >= stride /\ images[n].ok
      last_t[n \in 0..Len(images)] ==
        IF n = 0 THEN 0
        ELSE IF Keeps(n, last_t[n - 1]) THEN images[n].ts ELSE last_t[n - 1]
  IN  {n \in DOMAIN images : Keeps(n, last_t[n - 1])}

(* A mutated form: the clocks are taken for the same. *)
NoOffset(bag, traj) == 0

(* What is added to the stamps of a bag, whose first scan is the first     *)
(* pose, played again while the trajectory was recorded.                   *)
time_offset(bag, traj) == IF bag.lidar = <<>> THEN 0 ELSE traj[1].t - bag.lidar[1]

(* project_and_sample for a camera that looks along the line: a vertex in  *)
(* its range of depths gets its grey value, the more weight the nearer.    *)
project_and_sample(vertex, camera, grey, min_depth, max_depth) ==
  LET z == vertex - camera
  IN  IF min_depth < z /\ z < max_depth
      THEN [color |-> grey, weight |-> 100000 \div (z * z)]
      ELSE [color |-> 0, weight |-> 0]

(* main: color_acc and weight_acc of a vertex after its samples, and the   *)
(* average, or grey if nothing was sampled.                                *)
Accumulated(samples) ==
  LET acc[n \in 0..Len(samples)] ==
        IF n = 0 THEN [color |-> 0, weight |-> 0]
        ELSE [color |-> acc[n - 1].color + samples[n].color * samples[n].weight,
              weight |-> acc[n - 1].weight + samples[n].weight]
  IN  acc[Len(samples)]

ColorOf(samples) ==
  LET acc == Accumulated(samples)
  IN  IF acc.weight = 0 THEN 128 ELSE acc.color \div acc.weight

(* The poses of the keyframes of a camera, by the stamps of their headers; *)
(* images without a pose are skipped.                                      *)
Aligned(bag, traj, half_second) ==
  LET pose(i) == interp_pose(traj, bag.images[i].stamp + time_offset(bag, traj), half_second)
      kept == load_camera_keyframes(bag.images, bag.stride)
  IN  [i \in {k \in kept : pose(k) # NoPose} |-> pose(i)]

(* A camera is placed if its links reach the root, by the sum of the       *)
(* offsets on the way; an average lies between the values it is of, and a  *)
(* nearer sample counts for at least as much as a farther one.             *)
ASSUME ColoursSound ==
  /\ LET chain == [cam |-> [parent |-> "mast", offset |-> 2], mast |-> [parent |-> "Core", offset |-> 3],
                   spare |-> [parent |-> "spare", offset |-> 1]]
     IN  /\ compose_to_root(chain, "cam", "Core") = [ok |-> TRUE, offset |-> 5]
         /\ ~compose_to_root(chain, "spare", "Core").ok
         /\ ~compose_to_root(chain, "cam", "base_link").ok
  /\ \A a, b \in {0, 90, 255}, y, z \in 1..6 :
       LET s == project_and_sample(y, 0, a, 0, 6)
           u == project_and_sample(z, 0, b, 0, 6)
           c == ColorOf(<<s, u>>)
       IN  /\ s.weight > 0 /\ u.weight > 0 /\ a <= b => a <= c /\ c <= b
           /\ y < z => s.weight >= u.weight
           /\ s.weight + u.weight = 0 => c = 128
=============================================================================
