----------------------------- MODULE MCInterrupt -----------------------------
(***************************************************************************)
(* Instances of Interrupt.                                                 *)
(***************************************************************************)
EXTENDS Interrupt

EveryTransport == {"http", "child", "child stream"}
=============================================================================
