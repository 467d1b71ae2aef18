------------------------------- MODULE MCSession -------------------------------
(* A small instance of Session for TLC. *)
EXTENDS Session

CONSTANTS main, side

MCContexts == {main, side}
=============================================================================
