---------------------------- MODULE MCShopLedger ----------------------------
(* Two orders, which meet in the buyer's points, in the last unit of the  *)
(* stock and in the sweeper's batch, and are otherwise interchangeable.    *)
EXTENDS ShopLedger, TLC

CONSTANTS o1, o2

Symmetry == Permutations({o1, o2})
=============================================================================
