-------------------------- MODULE MCPlanDetailWalk --------------------------
(***************************************************************************)
(* Instances of PlanDetailWalk.                                            *)
(***************************************************************************)
EXTENDS PlanDetailWalk

\* The serial path and no limit; a pool smaller than the number of stubs.
SerialOrAll == {0, 1}
PoolOfTwo == {2}
StaleHeadOrNoGit == {"no git", "clean"}
Directories == {"no git", "none", "clean"}
=============================================================================
