----------------------------- MODULE MCProfiles -----------------------------
(***************************************************************************)
(* Profiles for TLC: two processes, two names, two creations, so that a    *)
(* name can be created again after it was deleted and while another        *)
(* process still acts on the deleted one.                                  *)
(***************************************************************************)
EXTENDS Profiles, TLC

CONSTANTS p1, p2, work, play

MCProcs == {p1, p2}
MCNames == {work, play}

Symmetry == Permutations(MCProcs) \union Permutations(MCNames)

=============================================================================
