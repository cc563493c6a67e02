---------------------------- MODULE MCAtomicFile ----------------------------
(***************************************************************************)
(* AtomicFile for TLC: two writers and a reader, two contents of two       *)
(* chunks; two temporary names, so that one that a crash leaves behind     *)
(* still leaves one; and four inodes: one for each writer, one for the     *)
(* file and one for a file that was replaced while it was being read.      *)
(***************************************************************************)
EXTENDS AtomicFile, TLC

CONSTANTS w1, w2, r1, v1, v2, n1, n2

MCWriters == {w1, w2}
MCReaders == {r1}
MCValues == {v1, v2}
MCNames == {n1, n2}
MCInodes == 1..4

Symmetry == Permutations(MCWriters) \union Permutations(MCNames)
              \union Permutations(MCValues)

=============================================================================
