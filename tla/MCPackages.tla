----------------------------- MODULE MCPackages -----------------------------
(***************************************************************************)
(* Instances of Packages for TLC: names and handlers are model values.     *)
(***************************************************************************)
EXTENDS Packages

CONSTANTS starter, pro, custom, missing, h1, h2, h3
=============================================================================
