---------------------------- MODULE MCStateFile ----------------------------
(***************************************************************************)
(* Instances of StateFile: a direct-modeling flow of two steps and an      *)
(* SV-convert flow of one.                                                 *)
(***************************************************************************)
EXTENDS StateFile, TLC

MCLength == [dm |-> 2, sv |-> 1]

Transactional == {"advance"}
EveryKind == {"advance"} \union LegacyKinds

ProcSymmetry == Permutations(Procs)
=============================================================================
