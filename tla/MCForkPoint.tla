----------------------------- MODULE MCForkPoint -----------------------------
(***************************************************************************)
(* Every history of four commits, the smallest with a merge of two         *)
(* branches, and every tip, reflog and window of it.                       *)
(***************************************************************************)
EXTENDS ForkPoint

MCN == 4

=============================================================================
