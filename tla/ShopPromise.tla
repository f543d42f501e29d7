---------------------------- MODULE ShopPromise ----------------------------
(***************************************************************************)
(* What the Shop promises about an order and its item, with nothing of how  *)
(* it keeps it: an item appears in game only while its order is open, and   *)
(* an order is refunded as undelivered only when no item appeared.          *)
(***************************************************************************)
EXTENDS Naturals

CONSTANT Orders

VARIABLES
    phase, \* what the buyer is told of the order
    items  \* how many items of it appeared in game

pvars == <<phase, items>>

PInit ==
    /\ phase = [o \in Orders |-> "NONE"]
    /\ items = [o \in Orders |-> 0]

Buy(o) ==
    /\ phase[o] = "NONE"
    /\ phase' = [phase EXCEPT ![o] = "OPEN"]
    /\ UNCHANGED items

\* A boot of the game server puts an item of every order in S on the map.
Spawn(S) ==
    /\ S # {}
    /\ \A o \in S : phase[o] = "OPEN"
    /\ items' = [o \in Orders |-> IF o \in S THEN items[o] + 1 ELSE items[o]]
    /\ UNCHANGED phase

Deliver(o) ==
    /\ phase[o] = "OPEN"
    /\ phase' = [phase EXCEPT ![o] = "DELIVERED"]
    /\ UNCHANGED items

Cancel(o) ==
    /\ phase[o] = "OPEN"
    /\ items[o] = 0
    /\ phase' = [phase EXCEPT ![o] = "CANCELLED"]
    /\ UNCHANGED items

PNext ==
    \/ \E o \in Orders : Buy(o) \/ Deliver(o) \/ Cancel(o)
    \/ \E S \in SUBSET Orders : Spawn(S)

PSpec == PInit /\ [][PNext]_pvars
=============================================================================
