--------------------------- MODULE DelayedStream ---------------------------
(***************************************************************************)
(* What a latency connection promises for one direction: a stream of bytes *)
(* that arrive once, in order, and never before the latency has passed     *)
(* since the Write that was given them.  A byte is its place in the        *)
(* stream.  LatencyConn implements this module.                            *)
(***************************************************************************)
EXTENDS Naturals, Sequences

CONSTANT Sizes        \* how many bytes Write may be given

VARIABLES latency,    \* one-way latency, fixed
          now,
          offered,    \* per byte given to Write: the time of that call
          delivered   \* the bytes that Read returned

streamVars == <<latency, now, offered, delivered>>

StreamInit ==
    /\ latency \in Nat
    /\ now = 0 /\ offered = <<>> /\ delivered = <<>>

\* Write is called with n bytes
Offer ==
    /\ \E n \in Sizes : offered' = offered \o [i \in 1..n |-> now]
    /\ UNCHANGED <<latency, now, delivered>>

\* Read returns: the stream is known up to byte m
Deliver ==
    /\ \E m \in Len(delivered)..Len(offered) :
          /\ \A i \in (Len(delivered) + 1)..m : offered[i] + latency <= now
          /\ delivered' = [i \in 1..m |-> i]
    /\ UNCHANGED <<latency, now, offered>>

Pass ==
    /\ now' = now + 1
    /\ UNCHANGED <<latency, offered, delivered>>

StreamNext == Offer \/ Deliver \/ Pass

StreamSpec == StreamInit /\ [][StreamNext]_streamVars
=============================================================================
