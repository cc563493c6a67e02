------------------------------ MODULE MCLogin ------------------------------
(***************************************************************************)
(* Login for TLC: three callbacks, enough to end the wait, to fill the     *)
(* error channel and to wait for room in it for ever.                      *)
(***************************************************************************)
EXTENDS Login

CONSTANTS c1, c2, c3

MCCallbacks == {c1, c2, c3}

=============================================================================
