----------------------------- MODULE MCCrawler -----------------------------
(***************************************************************************)
(* Instances of Crawler.  Two providers share item ids and one signing     *)
(* key.  acme publishes three segments: v2 overwrites a and removes b, v3  *)
(* brings b back and removes what never existed.  globex publishes one     *)
(* segment and, at version 2, a file that claims another version.          *)
(***************************************************************************)
EXTENDS Crawler, TLC

Item(id, payload) == [id |-> id, payload |-> payload]
File(p, v, upserts, removals) ==
    [provider_id |-> p, version |-> v, upserts |-> upserts, removals |-> removals]

MCConfig == <<"acme", "globex">>

(* The provider that keeps failing comes first. *)
MCFlakyFirst == <<"globex", "acme">>

MCContent ==
    "a1" :> File("acme", 1, <<Item("a", "x"), Item("b", "x")>>, <<>>) @@
    "a2" :> File("acme", 2, <<Item("a", "y")>>, <<"b">>) @@
    "a3" :> File("acme", 3, <<Item("b", "y")>>, <<"c">>) @@
    "g1" :> File("globex", 1, <<Item("a", "y")>>, <<>>) @@
    "g2" :> File("globex", 3, <<Item("a", "x")>>, <<>>) @@
    "junk" :> None

MCFiles == "acme" :> <<"a1", "a2", "a3">> @@ "globex" :> <<"g1", "g2">>

Payload(p, version, segments) ==
    [provider_id |-> p, key_id |-> "k", version |-> version, segments |-> segments]

MCKeyOf == [p \in Providers |-> "k"]

(* acme: a gap at first, then everything; the index is numbered after its  *)
(* newest segment, as in mock_provider/generate_mock_data.py.              *)
MCPublications ==
    "acme" :> <<Payload("acme", 1, {1}), Payload("acme", 3, {1, 3}),
                Payload("acme", 4, {1, 2, 3})>> @@
    "globex" :> <<Payload("globex", 1, {1}), Payload("globex", 9, {1, 2})>>

(* acme numbers its indexes by publication: the first one is version 1.    *)
MCCountedPublications ==
    "acme" :> <<Payload("acme", 1, {1, 2}), Payload("acme", 2, {1, 2, 3})>> @@
    "globex" :> <<Payload("globex", 1, {1})>>

(* One small publication per provider, for liveness and many processes.    *)
MCShortPublications ==
    "acme" :> <<Payload("acme", 1, {1}), Payload("acme", 2, {1, 2})>> @@
    "globex" :> <<Payload("globex", 1, {1})>>

(* What each provider's files build up, from an empty table.  Crawler's    *)
(* InventoryAssumption holds every entry against Merge.                    *)
Of(payload, version) == [payload |-> payload, source_version |-> version]
Table(a, b) == "a" :> a @@ "b" :> b @@ "c" :> None

MCInventory ==
    "acme" :> (0 :> NoRows @@
               1 :> Table(Of("x", 1), Of("x", 1)) @@
               2 :> Table(Of("y", 2), None) @@
               3 :> Table(Of("y", 2), Of("y", 3))) @@
    "globex" :> (0 :> NoRows @@ 1 :> Table(Of("y", 1), None))

(* Crawlers are interchangeable; used with safety properties only. *)
Symmetry == Permutations(Procs)
=============================================================================
