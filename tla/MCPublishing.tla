---------------------------- MODULE MCPublishing ----------------------------
(***************************************************************************)
(* An instance of Publishing: the two segments of generate_mock_data.py,   *)
(* and enough builds that a crawl can meet the remains of three.           *)
(***************************************************************************)
EXTENDS Publishing
=============================================================================
