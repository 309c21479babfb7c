---------------------------- MODULE MCFulfilment ----------------------------
(***************************************************************************)
(* Small fulfilments for Fulfilment: two suppliers, who are interchangeable. *)
(***************************************************************************)
EXTENDS Fulfilment

Symmetry == Permutations(Suppliers)
=============================================================================
