------------------------------ MODULE Replica ------------------------------
(***************************************************************************)
(* What the project promises its users (README.md, "The key invariant"):   *)
(* of every provider the catalog holds exactly the inventory of some       *)
(* version the provider published, and it follows the provider one         *)
(* version at a time, never skipping one and never going back.             *)
(***************************************************************************)
EXTENDS Integers

CONSTANTS
    Providers,
    NoRows,     \* an empty item table
    Latest,     \* Latest[p]: the newest version p will ever publish
    Inventory   \* Inventory[p][v]: p's item table at version v

VARIABLES
    catalog_items,
    version     \* the version of each provider the catalog stands at

Init ==
    /\ catalog_items = [p \in Providers |-> NoRows]
    /\ version = [p \in Providers |-> 0]

Advance(p) ==
    /\ version[p] < Latest[p]
    /\ version' = [version EXCEPT ![p] = @ + 1]
    /\ catalog_items' = [catalog_items EXCEPT ![p] = Inventory[p][version[p] + 1]]

Next == \E p \in Providers : Advance(p)

Spec == Init /\ [][Next]_<<catalog_items, version>>

(* The slice of a provider is never ahead of, or behind, its marker. *)
InStep == \A p \in Providers :
    catalog_items[p] = IF version[p] = 0 THEN NoRows ELSE Inventory[p][version[p]]
=============================================================================
