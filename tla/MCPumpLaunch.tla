---------------------------- MODULE MCPumpLaunch ----------------------------
(* The windows are alike.                                                  *)
EXTENDS PumpLaunch, TLC

MCSymmetry == Permutations(Windows)
=============================================================================
