--------------------------- MODULE MCTopologies ---------------------------
(***************************************************************************)
(* Clusters of up to five agents, with every number of validators, and     *)
(* degrees below and above the two neighbours of a ring.                   *)
(***************************************************************************)
EXTENDS Topologies

MCNodeCounts == 0..5
MCDegrees == {1, 3}
MCCounts == {0, 3, 7}
=============================================================================
