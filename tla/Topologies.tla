----------------------------- MODULE Topologies -----------------------------
(***************************************************************************)
(* MakeConnections of the three topologies: LinearTopology                 *)
(* (src/cluster/topology.go), RandomTopology (random_topology.go) and      *)
(* SuperClusterTopology (supercluster_topology.go), with ConnectAll        *)
(* (connections_list.go).  Each builds one or more lists of pairs and      *)
(* connects the pairs of a list concurrently; a list is finished before    *)
(* the next one is built.  populate is used through PopulatePromise,       *)
(* ConnectAll through what MultiRoutineRunner does: every pair once, and a *)
(* panic for an empty list.                                                *)
(***************************************************************************)
EXTENDS Integers, FiniteSets, FiniteSetsExt, PopulatePromise

CONSTANTS NodeCounts,   \* numbers of agents to try
          Degrees,      \* peering degrees to try
          Counts        \* connection counts to try

ASSUME TopologiesAssumption ==
    NodeCounts \subseteq Nat /\ Degrees \subseteq Nat /\ Counts \subseteq Nat

VARIABLES topology,     \* "linear", "random" or "super-cluster"
          agents,       \* the keys of the agents' map
          validators,   \* the agents with IsValidator
          degree,       \* MaxPeers of the random topology, ValidatorPeering
          nonDegree,    \* NonValidatorPeering
          stage,        \* the list under way: 0 before the first
          pc,           \* "build", "connect", "returned" or "panic"
          pending,      \* pairs of the list whose Connect has not returned
          asked         \* per pair: calls of Connect

topoArgs == <<topology, agents, validators, degree, nonDegree>>
topoVars == <<topology, agents, validators, degree, nonDegree, stage, pc, pending, asked>>

nonValidators == agents \ validators

\* The start command refuses any other -topology.
KnownTopologies == {"linear", "random", "super-cluster"}

\* Cluster.AddAgents makes the first ValidatorCount agents validators.
TopologyInit ==
    /\ topology \in KnownTopologies
    /\ \E n \in NodeCounts : agents = 0..(n - 1)
    /\ \E v \in 0..Cardinality(agents) : validators = 0..(v - 1)
    /\ degree \in Degrees
    /\ nonDegree \in IF topology = "super-cluster" THEN Degrees ELSE {-1}
    /\ stage = 0
    /\ pc = "build"
    /\ pending = {}
    /\ asked = [e \in PairsOf(agents) |-> 0]

\* ConnectAll of a list: every pair is connected once; the runner divides by
\* zero when the list is empty.
ConnectAll(list) ==
    /\ stage' = stage + 1
    /\ pending' = list
    /\ pc' = IF list = {} THEN "panic" ELSE "connect"
    /\ UNCHANGED <<topoArgs, asked>>

\* LinearTopology: the sorted keys, each with the next; wg.Add(-1) panics
\* without agents, and with one agent there is nothing to wait for.
LinearList == {{k, k + 1} : k \in 0..(Cardinality(agents) - 2)}
MakeLinear ==
    /\ topology = "linear" /\ pc = "build" /\ stage = 0
    /\ stage' = 1
    /\ pending' = LinearList
    /\ pc' = IF agents = {} THEN "panic" ELSE "connect"
    /\ UNCHANGED <<topoArgs, asked>>

\* RandomTopology, with the ring the command always asks for.
MakeRandom ==
    /\ topology = "random" /\ pc = "build" /\ stage = 0
    /\ \E cnt \in Counts :
          \E list \in Populated(agents, [MaxPeers |-> degree, Count |-> cnt, CreateRing |-> TRUE]) :
             ConnectAll(list)

\* SuperClusterTopology calls populate with a Count no small cluster
\* reaches.
connectionsNumber == 1000000
PopulateAll(S, peering) == Populated(S, [MaxPeers |-> peering, Count |-> connectionsNumber, CreateRing |-> TRUE])

MakeValidators ==
    /\ topology = "super-cluster" /\ pc = "build" /\ stage = 0
    /\ \E list \in PopulateAll(validators, degree) : ConnectAll(list)

MakeNonValidators ==
    /\ topology = "super-cluster" /\ pc = "build" /\ stage = 1
    /\ nonValidators # {}
    /\ \E list \in PopulateAll(nonValidators, nonDegree) : ConnectAll(list)

\* Mutant: the index is taken into the slice of the non validators.
CrossListWrong(vs, ns) ==
    {{ns[k], ns[k - 1]} : k \in 2..Cardinality(nonValidators)}

\* Mutant: as many non validators as there are validators get one, the first.
CrossListDiv(vs, ns) ==
    {{ns[k], vs[1]} : k \in 1..Min({Cardinality(validators), Cardinality(nonValidators)})}

\* The i-th non validator with validator i % len(validators), in the orders
\* the map yields them; without validators the first list was empty already.
CrossList(vs, ns) ==
    {{ns[k], vs[((k - 1) % Cardinality(validators)) + 1]} : k \in 1..Cardinality(nonValidators)}

MakeCross ==
    /\ topology = "super-cluster" /\ pc = "build" /\ stage = 2
    /\ \E vs \in Orders(validators), ns \in Orders(nonValidators) : ConnectAll(CrossList(vs, ns))

\* Connect of a pair is called and returns; the result, nil or an error, is
\* only counted and printed.
Connect(e) ==
    /\ pc = "connect" /\ e \in pending
    /\ asked' = [asked EXCEPT ![e] = @ + 1]
    /\ pending' = pending \ {e}
    /\ UNCHANGED <<topoArgs, stage, pc>>

LastStage == IF topology = "super-cluster" /\ nonValidators # {} THEN 3 ELSE 1

\* All calls are back (wg.Wait): the next list, or the end
ListDone ==
    /\ pc = "connect" /\ pending = {}
    /\ pc' = IF stage = LastStage THEN "returned" ELSE "build"
    /\ UNCHANGED <<topoArgs, stage, pending, asked>>

MakeConnections ==
    \/ MakeLinear \/ MakeRandom
    \/ MakeValidators \/ MakeNonValidators \/ MakeCross
    \/ \E e \in pending : Connect(e)
    \/ ListDone

TopologySpec == TopologyInit /\ [][MakeConnections]_topoVars

-----------------------------------------------------------------------------
\* Types; the pairs of a list are pairs of two agents.
TopologyTypeOK ==
    /\ validators \subseteq agents
    /\ stage \in 0..3
    /\ pc \in {"build", "connect", "returned", "panic"}
    /\ pending \subseteq PairsOf(agents)
    /\ asked \in [PairsOf(agents) -> Nat]

\* No two agents are ever connected twice, by one list or by several: a
\* second Connect of a pair would wait for callbacks that never come.
NoPairTwice ==
    \A e \in PairsOf(agents) : asked[e] + (IF e \in pending THEN 1 ELSE 0) <= 1

\* "Each non validator is connected to at least one validator"
\* (supercluster_topology.go:9): when MakeConnections returns, Connect was
\* called for every non validator and exactly one validator.
CoveredOnReturn ==
    pc = "returned" /\ topology = "super-cluster" =>
        \A a \in nonValidators : Cardinality({v \in validators : asked[{a, v}] = 1}) = 1

\* What MakeConnections has left at most: its lists, with every pair on each of
\* them, the pairs of the list under way, and the return of that one.
ListsLeft ==
    (3 - stage) * (Cardinality(PairsOf(agents)) + 2) + Cardinality(pending)
        + (IF pc = "connect" THEN 1 ELSE 0)

-----------------------------------------------------------------------------
(***************************************************************************)
(* The inductive invariant behind NoPairTwice and CoveredOnReturn, and     *)
(* behind the connected graph that Benchmark!SendersReachAll is about.     *)
(***************************************************************************)
\* The pairs of the lists so far, connected or about to be.
Touched == pending \cup {e \in PairsOf(agents) : asked[e] > 0}

Members ==
    /\ \E n \in NodeCounts : agents = 0..(n - 1)
    /\ validators \subseteq agents

\* How far MakeConnections is, and what it leaves behind.
Progress ==
    /\ topology \in KnownTopologies
    /\ pc \in {"build", "returned"} => pending = {}
    /\ pc = "returned" => stage = LastStage
    /\ topology # "super-cluster" => stage <= 1
    /\ topology # "super-cluster" /\ stage > 0 => pc # "build"
    /\ stage > 1 \/ (stage = 1 /\ pc = "build") => nonValidators # {}

\* The lists name pairs of different kinds.
Placed ==
    /\ stage = 0 => Touched = {}
    /\ topology = "super-cluster" /\ stage = 1 => Touched \subseteq SUBSET validators
    /\ topology = "super-cluster" /\ stage = 2 =>
          Touched \subseteq (SUBSET validators) \cup (SUBSET nonValidators)

\* The pairs of T hold a path through all of S, and give a its only element
\* of V.
PathThrough(S, T) ==
    \E s \in Orders(S) : \A k \in 1..(Cardinality(S) - 1) : {s[k], s[k + 1]} \in T
OnlyOne(a, V, T) == \E v \in V : \A w \in V : {a, w} \in T <=> w = v

Wired ==
    pc # "panic" =>
        /\ topology = "linear" /\ stage > 0 => PathThrough(agents, Touched)
        /\ topology = "super-cluster" /\ stage > 0 =>
              validators # {} /\ PathThrough(validators, Touched)
        /\ topology = "super-cluster" /\ stage > 1 => PathThrough(nonValidators, Touched)
        /\ topology = "super-cluster" /\ stage > 2 =>
              \A a \in nonValidators : OnlyOne(a, validators, Touched)

\* A panic is an empty list, for the reasons Benchmark!CrashCauses names.
PanicCause ==
    pc = "panic" =>
        \/ agents = {}
        \/ topology = "random" /\ (Cardinality(agents) = 1 \/ 0 \in Counts)
        \/ topology = "super-cluster" /\ (Cardinality(validators) < 2 \/ Cardinality(nonValidators) = 1)

TopologyInv ==
    /\ TopologyTypeOK /\ NoPairTwice
    /\ Members /\ Progress /\ Placed /\ Wired /\ PanicCause

=============================================================================
