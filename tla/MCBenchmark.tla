---------------------------- MODULE MCBenchmark ----------------------------
(***************************************************************************)
(* Clusters of up to four agents, with every number of validators; the     *)
(* random topology is given enough connections.                            *)
(***************************************************************************)
EXTENDS Benchmark

MCNodeCounts == 0..4
MCDegrees == {2}
MCCounts == {4}
MCRates == {0, 900}
=============================================================================
