---------------------------- MODULE MCTranscript ----------------------------
(* The paths are alike.                                                    *)
EXTENDS Transcript, TLC

MCSymmetry == Permutations(Paths)
=============================================================================
