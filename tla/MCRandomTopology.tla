-------------------------- MODULE MCRandomTopology --------------------------
(***************************************************************************)
(* Up to four peers, and every receiver around the boundaries: MaxPeers    *)
(* from none to more than the ring needs, Count from none to more than     *)
(* there are pairs.                                                        *)
(***************************************************************************)
EXTENDS RandomTopology

MCSizes == 0..4
MCTopologies == [MaxPeers : 0..3, Count : {0, 2, 4, 9}, CreateRing : BOOLEAN]
=============================================================================
