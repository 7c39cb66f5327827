-------------------------- MODULE PopulatePromise --------------------------
(***************************************************************************)
(* What RandomTopology.populate (src/cluster/random_topology.go) promises  *)
(* the topologies that call it, as a set of graphs: no loops and no pair   *)
(* twice, degrees within their bound, the path of the ring as far as Count *)
(* allows, and no pair left out without a reason.  RandomTopology is       *)
(* checked to keep the promise, Topologies relies on it.                   *)
(***************************************************************************)
EXTENDS Integers, FiniteSets, FiniteSetsExt

\* A connection without its direction.
PairsOf(S) == kSubset(2, S)

DegreeIn(E, p) == Cardinality({e \in E : p \in e})

\* The orders in which a Go map may yield the elements of S.
Orders(S) == {s \in [1..Cardinality(S) -> S] : \A j, k \in DOMAIN s : s[j] = s[k] => j = k}

\* The ring's connections, as far as Count allows, for every order of S.
Rings(S, count) ==
    {{{s[k], s[k + 1]} : k \in 1..Min({Cardinality(S) - 1, count})} : s \in Orders(S)}

Within(pairs, rings, S, t) ==
    {E \in SUBSET pairs :
        /\ Cardinality(E) <= t.Count
        /\ \A p \in S : \/ DegreeIn(E, p) <= t.MaxPeers
                        \/ t.CreateRing /\ DegreeIn(E, p) <= 2
        /\ Cardinality(E) < t.Count =>
              \A e \in pairs \ E : \E p \in e : DegreeIn(E, p) >= t.MaxPeers
        /\ t.CreateRing => \E R \in rings : R \subseteq E}

\* The union over singletons has TLC compute the pairs and the rings once.
Populated(S, t) ==
    UNION {Within(pairs, rings, S, t) : pairs \in {PairsOf(S)}, rings \in {Rings(S, t.Count)}}
=============================================================================
