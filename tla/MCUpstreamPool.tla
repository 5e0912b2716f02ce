--------------------------- MODULE MCUpstreamPool ---------------------------
(***************************************************************************)
(* Instances of UpstreamPool for TLC: users and handlers are model values. *)
(***************************************************************************)
EXTENDS UpstreamPool, TLC

CONSTANTS u1, u2, h1, h2

\* Nothing tells one handler from another, nor one user.
Symmetry == Permutations(Handlers) \cup Permutations(Users)
=============================================================================
