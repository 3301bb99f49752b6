------------------------- MODULE MCTappedPresenter -------------------------
(***************************************************************************)
(* Instances of TappedPresenter.                                           *)
(***************************************************************************)
EXTENDS TappedPresenter
=============================================================================
