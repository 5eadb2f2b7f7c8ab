------------------------------ MODULE MCFbuf -------------------------------
(* Fbuf for TLC: the handles are interchangeable. *)
EXTENDS Fbuf, TLC

Symmetry == Permutations(Handles)

=============================================================================
