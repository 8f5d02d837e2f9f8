------------------------- MODULE MCFileProfileStore -------------------------
(* Two processes and two profiles, each with a valid and an invalid body.  *)
EXTENDS FileProfileStore, TLC

Symm == Permutations(Procs)

=============================================================================
