--------------------------- MODULE MCCommandLine ---------------------------
(***************************************************************************)
(* An instance of CommandLine: each way to write one of the numbers, and  *)
(* each list of up to three entries out of sound and faulty ones, among    *)
(* them one id written with and without blanks.                            *)
(***************************************************************************)
EXTENDS CommandLine, SequencesExt

MCStrip == [t \in Texts |-> IF t = " a " THEN "a" ELSE t]

Enabled(id) == [id |-> id, manifest_url |-> TRUE, enabled |-> TRUE]

Entries == {Enabled("a"), Enabled(" a "), Enabled("b"), Enabled(None),
            [Enabled("b") EXCEPT !.enabled = FALSE],
            [Enabled("b") EXCEPT !.enabled = None],
            [Enabled("a") EXCEPT !.manifest_url = FALSE]}

Example == [form |-> "mapping", database_path |-> TRUE,
            numbers |-> [n \in DOMAIN Casts |-> "whole"],
            providers |-> <<Enabled("a"), Enabled("b")>>]

MCFiles ==
    {[Example EXCEPT !.providers = list] : list \in SeqOf(Entries, 3)}
    \union {[Example EXCEPT !.numbers[n] = raw] : n \in DOMAIN Casts, raw \in Written}
    \union {[Example EXCEPT !.form = form] : form \in {"missing", "unreadable", "malformed"}}
    \union {[Example EXCEPT !.database_path = FALSE]}
=============================================================================
