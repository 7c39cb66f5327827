---------------------------- MODULE MCTransport ----------------------------
(***************************************************************************)
(* Three agents; two dial the same one, and one of these is dialed itself. *)
(* The table lacks the latency from city x to itself.                      *)
(***************************************************************************)
EXTENDS Transport, TLC

CONSTANTS a1, a2, a3, d1, d2, d3

MCSrc == d1 :> a1 @@ d2 :> a3 @@ d3 :> a1
MCDst == d1 :> a2 @@ d2 :> a2 @@ d3 :> a3
MCCity == a1 :> "x" @@ a2 :> "y" @@ a3 :> "x"
MCAvg == <<"x", "y">> :> 3 @@ <<"y", "x">> :> 5 @@ <<"y", "y">> :> 2
=============================================================================
