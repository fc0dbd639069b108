----------------------------- MODULE MCInterrupt -----------------------------
(***************************************************************************)
(* A small instance of Interrupt for TLC.                                  *)
(***************************************************************************)
EXTENDS Interrupt, TLC

CONSTANTS main, other, u

TwoThreads == {main, other}
Calls == main :> 2 @@ other :> 1
OneToken == {u}
=============================================================================
