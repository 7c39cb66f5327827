--------------------------- MODULE RandomTopology ---------------------------
(***************************************************************************)
(* RandomTopology.populate (src/cluster/random_topology.go): from n peers  *)
(* it builds a list of connections, first a ring on request, then random   *)
(* pairs, until Count pairs exist or no peer can take part any more.       *)
(*                                                                         *)
(* Peers are named by their position in the slice the caller passes; the   *)
(* slices possiblePeers and possibleConns are only read at random          *)
(* positions after the ring is built, so both are sets here.  The list of  *)
(* connections is a multiset: how often each (src, dst) was added.         *)
(***************************************************************************)
EXTENDS Integers, FiniteSets, FiniteSetsExt, PopulatePromise

CONSTANTS Sizes,        \* values of len(peers)
          Topologies    \* receivers t of populate

ASSUME TopologyAssumption ==
    /\ Sizes \subseteq Nat
    /\ Topologies \subseteq [MaxPeers : Nat, Count : Nat, CreateRing : BOOLEAN]

VARIABLES t,              \* the receiver, never written
          n,              \* len(peers), never written
          phase,          \* "ring", "random" or "done"
          i,              \* index of the ring's loop
          count,          \* connections still wanted
          possiblePeers,  \* peers that may be drawn as a source
          peerMap,        \* the keys of peerMap
          connCount,      \* per peer
          possibleConns,  \* per peer: ports it has not drawn yet
          connections     \* per ordered pair: times it was added

vars == <<t, n, phase, i, count, possiblePeers, peerMap, connCount,
          possibleConns, connections>>

Peers == 0..(n - 1)
NoPort == -1

\* rndToplogyPeer.CanBeUsed, for given values of its fields
CanBeUsed(conns, cc, p) == conns[p] # {} /\ cc[p] < t.MaxPeers

Init ==
    /\ t \in Topologies
    /\ n \in Sizes
    /\ phase = "ring"
    /\ i = 0
    /\ count = t.Count
    /\ possiblePeers = Peers
    /\ peerMap = Peers
    /\ connCount = [p \in Peers |-> 0]
    /\ possibleConns = [p \in Peers |-> Peers \ {p}]
    /\ connections = [e \in Peers \X Peers |-> 0]

RingEnd == IF n <= 2 THEN n - 1 ELSE n

\* Mutant: only the source forgets the destination.
LinkedOneWay(conns, src, dst) == [conns EXCEPT ![src] = @ \ {dst}]

\* Both ends of (src, dst) forget the other and count the connection.
Linked(conns, src, dst) == [conns EXCEPT ![src] = @ \ {dst}, ![dst] = @ \ {src}]
Counted(src, dst) ==
    [p \in Peers |-> connCount[p] + (IF p = src THEN 1 ELSE 0) + (IF p = dst THEN 1 ELSE 0)]
Added(src, dst) == [connections EXCEPT ![<<src, dst>>] = @ + 1]

\* Mutant: a peer is joined with the one after its neighbour.
RingNextFar(k) == IF k + 2 < n THEN k + 2 ELSE (k + 1) % n

RingNext(k) == (k + 1) % n

\* One pass of the ring's loop.
RingStep ==
    /\ phase = "ring" /\ t.CreateRing /\ i < RingEnd /\ count > 0
    /\ LET src == i
           dst == RingNext(i) IN
       /\ possibleConns' = Linked(possibleConns, src, dst)
       /\ connCount' = Counted(src, dst)
       /\ connections' = Added(src, dst)
    /\ i' = i + 1
    /\ count' = count - 1
    /\ UNCHANGED <<t, n, phase, possiblePeers, peerMap>>

\* The ring is skipped, complete, or cut short by count.
RingDone ==
    /\ phase = "ring"
    /\ ~(t.CreateRing /\ i < RingEnd /\ count > 0)
    /\ phase' = "random"
    /\ UNCHANGED <<t, n, i, count, possiblePeers, peerMap, connCount, possibleConns,
                   connections>>

\* PopRandomPortID
Popped(src) == IF possibleConns[src] = {} THEN {NoPort} ELSE possibleConns[src]

\* The condition of the random loop, for a source and the port it popped.
Draw(src, dst) ==
    /\ phase = "random" /\ count > 0
    /\ src \in possiblePeers
    /\ dst \in Popped(src)

Accepts(dst) == dst \in peerMap /\ CanBeUsed(possibleConns, connCount, dst)

\* Mutants: all peers are dropped, or none.
UnusableAll(conns, cc, S) == S
UnusableNone(conns, cc, S) == {}

\* Peers of S that leave the slice and the map
Unusable(conns, cc, S) == {p \in S : ~CanBeUsed(conns, cc, p)}

\* The destination is gone or cannot be used: the source is dropped only if it
\* cannot be used either.
Reject(src, dst) ==
    /\ Draw(src, dst)
    /\ ~Accepts(dst)
    /\ possibleConns' = [possibleConns EXCEPT ![src] = @ \ {dst}]
    /\ LET gone == Unusable(possibleConns', connCount, {src}) IN
       /\ peerMap' = peerMap \ gone
       /\ possiblePeers' = possiblePeers \ gone
    /\ UNCHANGED <<t, n, phase, i, count, connCount, connections>>

\* The pair is added; when one of its ends is used up, every peer that cannot
\* be used leaves the slice and the map.
Link(src, dst) ==
    /\ Draw(src, dst)
    /\ Accepts(dst)
    /\ possibleConns' = Linked(possibleConns, src, dst)
    /\ connCount' = Counted(src, dst)
    /\ connections' = Added(src, dst)
    /\ count' = count - 1
    /\ LET Usable(p) == CanBeUsed(possibleConns', connCount', p)
           gone == IF Usable(src) /\ Usable(dst)
                   THEN {} ELSE Unusable(possibleConns', connCount', possiblePeers) IN
       /\ peerMap' = peerMap \ gone
       /\ possiblePeers' = possiblePeers \ gone
    /\ UNCHANGED <<t, n, phase, i>>

\* The loop's condition fails and populate returns.
Return ==
    /\ phase = "random"
    /\ count = 0 \/ possiblePeers = {}
    /\ phase' = "done"
    /\ UNCHANGED <<t, n, i, count, possiblePeers, peerMap, connCount, possibleConns,
                   connections>>

Next ==
    \/ RingStep
    \/ RingDone
    \/ \E src \in Peers : \E dst \in Peers \cup {NoPort} : Reject(src, dst) \/ Link(src, dst)
    \/ Return

Spec == Init /\ [][Next]_vars

\* populate is sequential code: its one goroutine keeps running.
FairSpec == Spec /\ WF_vars(Next)

-----------------------------------------------------------------------------
Joined(p, q) == connections[<<p, q>>] + connections[<<q, p>>] > 0

\* Types of populate's variables.
TypeOK ==
    /\ t \in Topologies
    /\ n \in Sizes
    /\ phase \in {"ring", "random", "done"}
    /\ i \in Nat
    /\ count \in Nat
    /\ possiblePeers \subseteq Peers
    /\ peerMap \subseteq Peers
    /\ connCount \in [Peers -> Nat]
    /\ possibleConns \in [Peers -> SUBSET Peers]
    /\ connections \in [Peers \X Peers -> Nat]

\* No peer is paired with itself and no two peers are paired twice, in either
\* direction: agent.Connect refuses a pair that is under way, and waits for
\* ever for notifications of a pair that is already connected.
NoDuplicate ==
    \A p, q \in Peers : connections[<<p, q>>] + (IF p = q THEN 1 ELSE connections[<<q, p>>]) <= 1

\* A peer that can be drawn from possiblePeers has an entry in peerMap, so
\* srcPeer and peer are never nil pointers (lines 67 and 99).
DrawnIsMapped == possiblePeers \subseteq peerMap

\* The degree never passes MaxPeers, save for the two ring neighbours.
\* The loop never checks the SOURCE against MaxPeers before it links it.
DegreeBound ==
    \A p \in Peers : connCount[p] <= t.MaxPeers \/ (t.CreateRing /\ connCount[p] <= 2)

\* populate gives up early (count > 0) only when no pair is left: any two
\* peers are joined or one of them has MaxPeers connections.  Rejected draws
\* and stale entries of possibleConns never cost a connection.
Saturated ==
    phase = "done" /\ count > 0 =>
        \A p, q \in Peers :
            p = q \/ Joined(p, q) \/ connCount[p] >= t.MaxPeers \/ connCount[q] >= t.MaxPeers

\* The pairs on the list, without their direction.
List == {e \in PairsOf(Peers) : \E p, q \in e : p # q /\ Joined(p, q)}

\* The list that is returned is one of the graphs PopulatePromise allows.
KeepsPromise == phase = "done" => List \in Populated(Peers, t)

\* What is left to do: connections that are wanted, ports that are not drawn,
\* sources that are not dropped, and the ends of the two loops.
Undrawn == {e \in Peers \X Peers : e[2] \in possibleConns[e[1]]}
LoopsLeft == CASE phase = "ring" -> 2 [] phase = "random" -> 1 [] phase = "done" -> 0
Remaining == count + Cardinality(Undrawn) + Cardinality(possiblePeers) + LoopsLeft

\* No pass of a loop is in vain, not even one that rejects its draw or finds no
\* port to draw (lines 49 and 62): it leaves less to do.  Hence populate ends
\* after at most as many passes as Remaining says at its start.
EveryPassCounts == [][Remaining' < Remaining]_vars

\* The random loop ends: no draw leaves everything as it was.
Terminates == <>(phase = "done")

-----------------------------------------------------------------------------
(***************************************************************************)
(* The inductive invariant behind NoDuplicate, DrawnIsMapped, DegreeBound  *)
(* and Saturated.                                                          *)
(***************************************************************************)
Full(p) == connCount[p] >= t.MaxPeers

\* Where the ring's loop stands: its edges, and the degrees they give.
RingShape ==
    phase = "ring" =>
        /\ i <= n /\ (i > 0 => t.CreateRing /\ i <= RingEnd)
        /\ possiblePeers = Peers
        /\ \A p, q \in Peers : connections[<<p, q>>] > 0 => p < i /\ q = (p + 1) % n
        /\ \A p \in Peers : connCount[p] = (IF p < i THEN 1 ELSE 0)
                                          + (IF p > 0 /\ p <= i THEN 1 ELSE 0)
                                          + (IF p = 0 /\ i = n THEN 1 ELSE 0)

\* Peers that are joined have forgotten each other's port.
Forgotten ==
    /\ \A p \in Peers : p \notin possibleConns[p]
    /\ \A p, q \in Peers : connections[<<p, q>>] > 0 =>
                              q \notin possibleConns[p] /\ p \notin possibleConns[q]

\* A port is forgotten for no other reason than a link or a full end.
Rejected ==
    \A p, q \in Peers : \/ p = q
                        \/ q \in possibleConns[p]
                        \/ Joined(p, q)
                        \/ Full(p)
                        \/ Full(q)

\* A peer that left the slice could not be used.
Dropped == \A p \in Peers \ possiblePeers : Full(p) \/ possibleConns[p] = {}

\* While the random loop can go on, no source is full, or all peers are.
Uniform ==
    phase # "ring" /\ count > 0 =>
        (\A p \in possiblePeers : ~Full(p)) \/ (\A p \in Peers : Full(p))

Stopped == phase = "done" => count = 0 \/ possiblePeers = {}

IInv ==
    /\ TypeOK /\ NoDuplicate /\ DegreeBound
    /\ possiblePeers = peerMap
    /\ RingShape /\ Forgotten /\ Rejected /\ Dropped /\ Uniform /\ Stopped

\* What KeepsPromise needs besides: count and connCount tell the size and the
\* degrees of the list, and the ring is on it as far as it came.
Tally ==
    /\ Cardinality(List) + count = t.Count
    /\ \A p \in Peers : DegreeIn(List, p) = connCount[p]

RingListed ==
    /\ \A k \in Peers : k < i => connections[<<k, (k + 1) % n>>] > 0
    /\ phase = "ring" => i + count = t.Count
    /\ phase # "ring" /\ t.CreateRing => i >= n - 1 \/ i >= t.Count

PInv == Tally /\ RingListed

=============================================================================
