--------------------------- MODULE MCCatalogStore ---------------------------
(***************************************************************************)
(* A small instance of CatalogStore: two connections, segments that touch  *)
(* an item twice, remove what they upsert and remove what is not there.    *)
(***************************************************************************)
EXTENDS CatalogStore, TLC

Item(id, payload) == [id |-> id, payload |-> payload]

(* v1 upserts item a twice; v2 removes item b, which it upserts itself and *)
(* v1 may have brought, and then again; both are applied in any order.     *)
MCSegments == {
    [provider_id |-> "acme", version |-> 1,
     upserts |-> <<Item("a", "x"), Item("a", "y"), Item("b", "y")>>, removals |-> <<>>],
    [provider_id |-> "acme", version |-> 2,
     upserts |-> <<Item("b", "x")>>, removals |-> <<"b", "b">>] }

(* Connections are interchangeable; every property checked is a safety one. *)
Symmetry == Permutations(Connections)
=============================================================================
