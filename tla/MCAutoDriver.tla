---------------------------- MODULE MCAutoDriver ----------------------------
(***************************************************************************)
(* Instances of AutoDriver.                                                *)
(***************************************************************************)
EXTENDS AutoDriver

Serial == {}
WorktreeWalks == {"worktree"}
EveryWalk == {"worktree", "inplace"}
=============================================================================
