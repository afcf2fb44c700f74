----------------------------- MODULE MCCartStore -----------------------------
(* CartStore with interchangeable clients and identifiers.                 *)
EXTENDS CartStore, TLC

Symmetry == Permutations(Client) \union Permutations(CartId) \union Permutations(ItemId)
=============================================================================
