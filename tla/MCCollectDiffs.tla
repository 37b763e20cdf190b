---------------------------- MODULE MCCollectDiffs ----------------------------
(***************************************************************************)
(* Fewer workers than commits, so that one takes a second commit while     *)
(* another is still at its first.                                          *)
(***************************************************************************)
EXTENDS CollectDiffs

MCCount == 3
MCWorkerCount == 2
MCDiffs == {"names", "stat"}

=============================================================================
