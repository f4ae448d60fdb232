----------------------------- MODULE MCExports -----------------------------
(***************************************************************************)
(* Exports on small instances.                                             *)
(***************************************************************************)
EXTENDS Exports, TLC

\* Domains are only compared, and told apart by their ids.
DomainSymmetry == Permutations(Domains)
=============================================================================
