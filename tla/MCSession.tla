----------------------------- MODULE MCSession -----------------------------
(***************************************************************************)
(* Session for TLC: three processes, two logins, two rotations each:       *)
(* enough for a refresh to cross another refresh, a login and a logout.    *)
(***************************************************************************)
EXTENDS Session, TLC

CONSTANTS p1, p2, p3

MCProcs == {p1, p2, p3}

Symmetry == Permutations(MCProcs)

=============================================================================
