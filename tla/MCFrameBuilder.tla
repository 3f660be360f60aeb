--------------------------- MODULE MCFrameBuilder ---------------------------
(* FrameBuilder for TLC: two LiDARs, synchronised or not. *)
EXTENDS FrameBuilder

SomeTimes == {1, 2}
=============================================================================
