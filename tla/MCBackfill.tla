------------------------------ MODULE MCBackfill ------------------------------
(***************************************************************************)
(* Instances of Backfill for TLC.  The chunks are of three commits (1000   *)
(* in the code): a full one, cut unevenly, and a last one of one commit.   *)
(***************************************************************************)
EXTENDS Backfill

CONSTANTS c1, c2, c3, c4

MCCommits == {c1, c2, c3, c4}
MCCommitList == <<c1, c2, c3, c4>>
MCChunkSize == 3

=============================================================================
