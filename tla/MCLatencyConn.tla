--------------------------- MODULE MCLatencyConn ---------------------------
(***************************************************************************)
(* Networks with and without latency, bandwidth limit and MTU.  At one     *)
(* kilobit a byte takes 192/128, hence one unit of time, two bytes three.  *)
(***************************************************************************)
EXTENDS LatencyConn

MCNetworks == { [Kbps |-> 1, Latency |-> 0, MTU |-> 2],
                [Kbps |-> 1, Latency |-> 3, MTU |-> 1],
                [Kbps |-> 0, Latency |-> 2, MTU |-> 0] }
=============================================================================
