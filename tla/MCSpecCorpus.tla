---------------------------- MODULE MCSpecCorpus ----------------------------
(* The contents of a document are only compared, and the processes alike.  *)
EXTENDS SpecCorpus, TLC

MCSymmetry == Permutations(Procs) \union Permutations(Versions) \union Permutations(Drafts)
=============================================================================
