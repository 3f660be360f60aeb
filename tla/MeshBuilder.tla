----------------------------- MODULE MeshBuilder -----------------------------
(***************************************************************************)
(* mesh_builder.py. Callbacks run one at a time in the main thread; the    *)
(* signal handler runs there too, between any two steps of a callback.     *)
(* The topics are sequences of [stamp, of]; a file is what was written.    *)
(***************************************************************************)
EXTENDS Integers, Sequences

CONSTANTS
  MeshOptions,  \* parameters: [method, recorded: recording_dir is set,
                \*  on_shutdown: build_on_shutdown]
  MaxScans,     \* max_in_memory_scans
  MaxBuilds     \* bound: calls of the service

VARIABLES
  odom, lidar,    \* what was published on the two topics
  taken,          \* how much of it was taken, or lost
  poses, scans,   \* _poses and _scans
  stack,          \* the activations of the main thread, the running one last
  node,           \* [ok: the context is, triggered, builds, exited, opt]
  files           \* contents by inode, the names tmp and tum, rec, mesh

Activation(what) == [what |-> what, at |-> "start", poses |-> <<>>, scans |-> <<>>,
                     inode |-> 0, rows |-> 0]

Init ==
  /\ taken = [odom |-> 0, lidar |-> 0]
  /\ poses = <<>> /\ scans = <<>> /\ stack = <<>>
  /\ \E o \in MeshOptions :
       node = [ok |-> TRUE, triggered |-> FALSE, builds |-> 0, exited |-> FALSE, opt |-> o]
  /\ files = [inodes |-> <<>>, tmp |-> 0, tum |-> 0, rec |-> <<>>, mesh |-> <<>>]

Top == stack[Len(stack)]
Below == SubSeq(stack, 1, Len(stack) - 1)
Push(what) == stack' = Append(stack, Activation(what))
Go(at) == stack' = [stack EXCEPT ![Len(stack)].at = at]
Free(lock) == \A i \in DOMAIN stack : stack[i].at # lock
Running(kinds, at) == stack # <<>> /\ Top.what \in kinds /\ Top.at = at
Builds == {"service", "shutdown"}
Wanted == Top.what = "shutdown" => node.opt.on_shutdown

(* The executor starts a callback. What a subscription does not hold any   *)
(* more, or was sent before it was there, is lost. *)
Call ==
  /\ stack = <<>> /\ node.ok
  /\ \/ /\ \E k \in taken.odom + 1 .. Len(odom) : taken' = [taken EXCEPT !.odom = k]
        /\ Push("odom") /\ UNCHANGED node
     \/ /\ ~node.opt.recorded
        /\ \E k \in taken.lidar + 1 .. Len(lidar) : taken' = [taken EXCEPT !.lidar = k]
        /\ Push("lidar") /\ UNCHANGED node
     \/ /\ node.builds < MaxBuilds
        /\ node' = [node EXCEPT !.builds = @ + 1]
        /\ Push("service") /\ UNCHANGED taken
  /\ UNCHANGED <<odom, lidar, poses, scans, files>>

(* SIGINT or SIGTERM: _shutdown_build, whatever was running. It does       *)
(* nothing the second time.                                                *)
Signal ==
  /\ ~node.triggered /\ ~node.exited
  /\ node' = [node EXCEPT !.triggered = TRUE]
  /\ Push("shutdown")
  /\ UNCHANGED <<odom, lidar, taken, poses, scans, files>>

(* The locks are not reentrant. *)
TakePosesLock ==
  /\ Running({"odom"} \cup Builds, "start")
  /\ Top.what \in Builds => node.opt.method # "nvblox" /\ Wanted
  /\ Free("poses") /\ Go("poses")
  /\ UNCHANGED <<odom, lidar, taken, node, poses, scans, files>>

TakeScansLock ==
  /\ Running({"lidar"}, "start") \/ Running(Builds, "between")
  /\ Free("scans") /\ Go("scans")
  /\ UNCHANGED <<odom, lidar, taken, node, poses, scans, files>>

(* _on_odom and _on_lidar, to their end. A scan without points is not kept. *)
_on_odom ==
  /\ Running({"odom"}, "poses")
  /\ poses' = Append(poses, taken.odom)
  /\ stack' = Below
  /\ UNCHANGED <<odom, lidar, taken, node, scans, files>>

_on_lidar ==
  /\ Running({"lidar"}, "scans")
  /\ LET all == Append(scans, taken.lidar)
     IN  scans' = IF Len(all) > MaxScans THEN Tail(all) ELSE all
  /\ stack' = Below
  /\ UNCHANGED <<odom, lidar, taken, node, poses, files>>

-----------------------------------------------------------------------------
(* _do_build: the two snapshots, each under its lock. *)
SnapshotPoses ==
  /\ Running(Builds, "poses")
  /\ stack' = [stack EXCEPT ![Len(stack)].at = "between", ![Len(stack)].poses = poses]
  /\ UNCHANGED <<odom, lidar, taken, node, poses, scans, files>>

SnapshotScans ==
  /\ Running(Builds, "scans")
  /\ stack' = [stack EXCEPT ![Len(stack)].scans = scans,
                            ![Len(stack)].at = IF Top.poses = <<>> THEN "failed" ELSE "tmp"]
  /\ UNCHANGED <<odom, lidar, taken, node, poses, scans, files>>

(* A mutated form: the trajectory is written in place. *)
OpenInPlace ==
  /\ Running(Builds, "tmp")
  /\ LET inode == IF files.tum = 0 THEN Len(files.inodes) + 1 ELSE files.tum
     IN  /\ files' = [files EXCEPT !.tmp = inode, !.tum = inode,
              !.inodes = IF files.tum = 0 THEN Append(@, <<>>) ELSE [@ EXCEPT ![inode] = <<>>]]
         /\ stack' = [stack EXCEPT ![Len(stack)].at = "rows", ![Len(stack)].inode = inode]
  /\ UNCHANGED <<odom, lidar, taken, node, poses, scans>>

(* _write_tum: the temporary file, truncated if it is there, row by row.   *)
OpenTmp ==
  /\ Running(Builds, "tmp")
  /\ LET inode == IF files.tmp = 0 THEN Len(files.inodes) + 1 ELSE files.tmp
     IN  /\ files' = [files EXCEPT !.tmp = inode,
              !.inodes = IF files.tmp = 0 THEN Append(@, <<>>) ELSE [@ EXCEPT ![inode] = <<>>]]
         /\ stack' = [stack EXCEPT ![Len(stack)].at = "rows", ![Len(stack)].inode = inode]
  /\ UNCHANGED <<odom, lidar, taken, node, poses, scans>>

(* What a writer at a place of a file leaves in it. *)
Put(file, i, row) ==
  [k \in 1..(IF i > Len(file) THEN i ELSE Len(file)) |-> IF k = i THEN row ELSE file[k]]

WriteRow ==
  /\ Running(Builds, "rows") /\ Top.rows < Len(Top.poses)
  /\ files' = [files EXCEPT !.inodes[Top.inode] = Put(@, Top.rows + 1, Top.poses[Top.rows + 1])]
  /\ stack' = [stack EXCEPT ![Len(stack)].rows = @ + 1]
  /\ UNCHANGED <<odom, lidar, taken, node, poses, scans>>

(* os.replace, which fails if another build has moved the file. *)
Replace ==
  /\ Running(Builds, "rows") /\ Top.rows = Len(Top.poses)
  /\ IF files.tmp = 0 THEN Go("failed") /\ UNCHANGED files
     ELSE /\ files' = [files EXCEPT !.tum = files.tmp, !.tmp = 0]
          /\ Go(IF node.opt.recorded THEN "tool" ELSE IF Top.scans = <<>> THEN "failed" ELSE "rec")
  /\ UNCHANGED <<odom, lidar, taken, node, poses, scans>>

(* _write_lidar_recording, in place. *)
OpenRec ==
  /\ Running(Builds, "rec")
  /\ files' = [files EXCEPT !.rec = <<>>] /\ Go("scan")
  /\ UNCHANGED <<odom, lidar, taken, node, poses, scans>>

WriteRec ==
  /\ Running(Builds, "scan")
  /\ files' = [files EXCEPT !.rec =
       Top.scans \o SubSeq(@, Len(Top.scans) + 1, Len(@))]
  /\ Go("tool")
  /\ UNCHANGED <<odom, lidar, taken, node, poses, scans>>

(* build_mesh.py ends, with a mesh of what it found or without one, and    *)
(* _colorize_mesh does not change the outcome.                             *)
Tool ==
  /\ Running(Builds, "tool")
  /\ \/ files' = [files EXCEPT !.mesh = <<files.inodes[files.tum], files.rec>>] /\ Go("done")
     \/ Go("failed") /\ UNCHANGED files
  /\ UNCHANGED <<odom, lidar, taken, node, poses, scans>>

(* _do_build_nvblox: the answer is a callback of this node, which waits    *)
(* for the one that is running.                                            *)
Nvblox ==
  /\ Running(Builds, "start") /\ node.opt.method = "nvblox" /\ Wanted
  /\ \/ Go("failed")
     \/ Len(stack) = 1 /\ Top.what = "shutdown" /\ Go("done")
  /\ UNCHANGED <<odom, lidar, taken, node, poses, scans, files>>

(* _handle_build answers, _shutdown_build ends the context. *)
Return ==
  /\ \/ Running(Builds, "done") \/ Running(Builds, "failed")
     \/ Running({"shutdown"}, "start") /\ ~Wanted
  /\ stack' = Below
  /\ node' = [node EXCEPT !.ok = @ /\ Top.what = "service"]
  /\ UNCHANGED <<odom, lidar, taken, poses, scans, files>>

(* spin returns, and main. *)
Exit ==
  /\ stack = <<>> /\ ~node.ok /\ ~node.exited
  /\ node' = [node EXCEPT !.exited = TRUE]
  /\ UNCHANGED <<odom, lidar, taken, poses, scans, stack, files>>

Step ==
  \/ TakePosesLock \/ TakeScansLock \/ _on_odom \/ _on_lidar
  \/ SnapshotPoses \/ SnapshotScans \/ OpenTmp \/ WriteRow \/ Replace
  \/ OpenRec \/ WriteRec \/ Tool \/ Nvblox \/ Return \/ Exit

Next == Call \/ Signal \/ Step

-----------------------------------------------------------------------------
(* The trajectory on disk is a whole one, all poses up to some moment: not *)
(* even a build that the signal handler interrupts while it writes, and    *)
(* that goes on afterwards, leaves anything else under that name.          *)
TrajectoryWhole ==
  files.tum # 0 =>
    LET rows == files.inodes[files.tum]
    IN  rows # <<>> /\ Len(rows) <= Len(poses) /\ rows = SubSeq(poses, 1, Len(rows))

(* A process that is told to exit builds its mesh and exits. *)
ShutdownEnds == node.triggered ~> node.exited
=============================================================================
