--------------------------- MODULE ClusterProofs ---------------------------
(***************************************************************************)
(* A run of the benchmark for any number of agents that have ports, any    *)
(* validators among them, and any degrees and connection counts: no pair   *)
(* is connected twice, the topologies wire what they promise, agents       *)
(* listen before they are used, and a crash has one of the known causes.   *)
(* The routine runner under it calls its function once per item.           *)
(***************************************************************************)
EXTENDS Benchmark, MultiRoutineRunner, FiniteSetTheorems, TLAPS

\* There are fewer ports than connections the super-cluster asks for.
LEMMA PortsLimit == Ports \in Nat /\ connectionsNumber \in Nat /\ Ports <= connectionsNumber
  BY DEF Ports, connectionsNumber

\* The set of agents is an interval of indices, with room for every pair of
\* it in the Count of the super-cluster.
LEMMA AgentFacts ==
  ASSUME Members
  PROVE  /\ IsFiniteSet(agents) /\ Cardinality(agents) \in Nat /\ Cardinality(agents) <= Ports
         /\ agents = 0..(Cardinality(agents) - 1)
         /\ validators \subseteq agents
         /\ IsFiniteSet(validators) /\ Cardinality(validators) \in Nat /\ Cardinality(validators) <= Ports
         /\ nonValidators = agents \ validators
         /\ IsFiniteSet(nonValidators)
         /\ Cardinality(nonValidators) \in Nat /\ Cardinality(nonValidators) <= Ports
  <1>1. PICK m \in NodeCounts : agents = 0..(m - 1)
    BY DEF Members
  <1>2. m \in Nat /\ m <= Ports
    BY BenchmarkAssumption, TopologiesAssumption
  <1>3. IsFiniteSet(agents) /\ Cardinality(agents) = m
    BY <1>1, <1>2, FS_Interval
  <1>4. validators \subseteq agents
    BY DEF Members
  <1>5. /\ IsFiniteSet(validators) /\ Cardinality(validators) <= m
        /\ IsFiniteSet(agents \ validators) /\ Cardinality(agents \ validators) <= m
    BY <1>3, <1>4, FS_Subset
  <1>6. Cardinality(validators) \in Nat /\ Cardinality(agents \ validators) \in Nat
    BY <1>5, FS_CardinalityType
  <1> QED
    BY <1>1, <1>2, <1>3, <1>4, <1>5, <1>6, PortsLimit DEF nonValidators

\* Two different elements of a set are one of its pairs, and a pair has
\* elements.
LEMMA PairIn ==
  ASSUME NEW S, NEW x \in S, NEW y \in S, x # y
  PROVE  {x, y} \in PairsOf(S)
  <1>1. IsFiniteSet({x}) /\ Cardinality({x}) = 1
    BY FS_Singleton
  <1>2. Cardinality({x} \cup {y}) = 2
    BY <1>1, FS_AddElement
  <1>3. {x} \cup {y} = {x, y}
    OBVIOUS
  <1> QED
    BY <1>2, <1>3 DEF PairsOf, kSubset

LEMMA PairParts ==
  ASSUME NEW S, NEW e \in PairsOf(S)
  PROVE  e \in SUBSET S /\ e # {}
  <1>1. e \in SUBSET S /\ Cardinality(e) = 2
    BY DEF PairsOf, kSubset
  <1>2. e # {}
    BY <1>1, FS_EmptySet
  <1> QED
    BY <1>1, <1>2

LEMMA PairMono ==
  ASSUME NEW S, NEW T, S \subseteq T
  PROVE  PairsOf(S) \subseteq PairsOf(T)
  BY DEF PairsOf, kSubset

LEMMA MinOfTwo ==
  ASSUME NEW a \in Int, NEW b \in Int
  PROVE  Min({a, b}) = IF a <= b THEN a ELSE b
  <1>1. \E x \in {a, b} : \A y \in {a, b} : x =< y
    OBVIOUS
  <1> QED
    BY <1>1 DEF Min

\* An order of a finite set reaches all of it, once.
LEMMA OrderFacts ==
  ASSUME NEW S, IsFiniteSet(S), NEW s \in Orders(S)
  PROVE  /\ Cardinality(S) \in Nat
         /\ s \in [1..Cardinality(S) -> S]
         /\ \A x \in S : \E k \in 1..Cardinality(S) : s[k] = x
         /\ \A j, k \in 1..Cardinality(S) : s[j] = s[k] => j = k
  <1>1. Cardinality(S) \in Nat
    BY FS_CardinalityType
  <1>2. /\ s \in [1..Cardinality(S) -> S]
        /\ \A j, k \in 1..Cardinality(S) : s[j] = s[k] => j = k
    BY DEF Orders
  <1>3. s \in Injection(1..Cardinality(S), S)
    BY <1>2 DEF Injection, IsInjective
  <1>4. Cardinality(1..Cardinality(S)) = Cardinality(S)
    BY <1>1, FS_Interval
  <1>5. s \in Surjection(1..Cardinality(S), S)
    BY <1>3, <1>4, FS_Injection
  <1> QED
    BY <1>1, <1>2, <1>5 DEF Surjection

\* What the topologies use of populate: pairs of its peers, and the ring as
\* far as Count allows.
LEMMA PopulatedFacts ==
  ASSUME NEW S, NEW t, NEW list \in Populated(S, t), t.CreateRing
  PROVE  /\ list \subseteq PairsOf(S)
         /\ \E s \in Orders(S) :
               \A k \in 1..Min({Cardinality(S) - 1, t.Count}) : {s[k], s[k + 1]} \in list
  <1>1. list \in Within(PairsOf(S), Rings(S, t.Count), S, t)
    BY DEF Populated
  <1>2. list \subseteq PairsOf(S) /\ \E R \in Rings(S, t.Count) : R \subseteq list
    BY <1>1 DEF Within
  <1>3. PICK s \in Orders(S) :
          {{s[k], s[k + 1]} : k \in 1..Min({Cardinality(S) - 1, t.Count})} \subseteq list
    BY <1>2 DEF Rings
  <1> QED
    BY <1>2, <1>3

\* A path through S crosses every set that holds a part of S.
LEMMA PathCut ==
  ASSUME NEW S, IsFiniteSet(S), NEW s \in Orders(S), NEW C,
         NEW x \in S \cap C, NEW y \in S \ C
  PROVE  \E k \in 1..(Cardinality(S) - 1) : (s[k] \in C) # (s[k + 1] \in C)
  <1> DEFINE N == Cardinality(S)
  <1>1. /\ N \in Nat /\ s \in [1..N -> S]
        /\ \A z \in S : \E k \in 1..N : s[k] = z
    BY OrderFacts
  <1>2. PICK j \in 1..N : s[j] = x
    BY <1>1
  <1>3. PICK l \in 1..N : s[l] = y
    BY <1>1
  <1> HIDE DEF N
  <1>4. ASSUME NEW a \in 1..N, NEW b \in 1..N, a < b, (s[a] \in C) # (s[b] \in C)
        PROVE  \E k \in 1..(N - 1) : (s[k] \in C) # (s[k + 1] \in C)
    <2> DEFINE T == {m \in Nat : m \in 1..N /\ a < m /\ ((s[a] \in C) # (s[m] \in C))}
    <2>1. b \in T /\ T \subseteq Nat
      BY <1>1, <1>4
    <2>2. PICK m \in T : \A z \in T : ~(<<z, m>> \in OpToRel(<, Nat))
      <3> HIDE DEF T
      <3>1. T # {}
        BY <2>1
      <3> QED
        BY <2>1, <3>1, WFMin, NatLessThanWellFounded
    <2>3. \A z \in T : ~(z < m)
      BY <2>1, <2>2 DEF OpToRel
    <2>4. m - 1 \in 1..(N - 1) /\ (m - 1) + 1 = m
      BY <1>1
    <2>5. (s[a] \in C) <=> (s[m - 1] \in C)
      <3>1. CASE m - 1 = a
        BY <3>1
      <3>2. CASE m - 1 > a
        <4>1. m - 1 \notin T
          BY <2>3, <2>4
        <4>2. m - 1 \in Nat /\ m - 1 \in 1..N /\ a < m - 1
          BY <1>1, <3>2
        <4>3. ~((s[a] \in C) # (s[m - 1] \in C))
          BY <4>1, <4>2
        <4> QED
          BY <4>3
      <3> QED
        BY <1>1, <2>4, <3>1, <3>2
    <2>6. (s[m - 1] \in C) # (s[(m - 1) + 1] \in C)
      BY <2>4, <2>5
    <2> QED
      BY <2>4, <2>6
  <1>5. (s[j] \in C) # (s[l] \in C) /\ j # l
    BY <1>2, <1>3
  <1>6. CASE j < l
    BY <1>4, <1>5, <1>6 DEF N
  <1>7. CASE l < j
    BY <1>4, <1>5, <1>7 DEF N
  <1> QED
    BY <1>1, <1>5, <1>6, <1>7

-----------------------------------------------------------------------------
(***************************************************************************)
(* MakeConnections keeps the invariant of Topologies.                      *)
(***************************************************************************)
LEMMA TopoInit == TopologyInit => TopologyInv
  <1> SUFFICES ASSUME TopologyInit PROVE TopologyInv
    OBVIOUS
  <1>1. PICK m \in NodeCounts : agents = 0..(m - 1)
    BY DEF TopologyInit
  <1>2. m \in Nat /\ IsFiniteSet(agents) /\ Cardinality(agents) = m
    <2>1. m \in Nat
      BY BenchmarkAssumption, TopologiesAssumption
    <2> QED
      BY <1>1, <2>1, FS_Interval
  <1>3. PICK v \in 0..m : validators = 0..(v - 1)
    BY <1>2 DEF TopologyInit
  <1>4. validators \subseteq agents
    BY <1>1, <1>2, <1>3
  <1>5. Members
    BY <1>1, <1>4 DEF Members
  <1>6. asked = [e \in PairsOf(agents) |-> 0] /\ pending = {} /\ stage = 0 /\ pc = "build"
    BY DEF TopologyInit
  <1>7. TopologyTypeOK /\ NoPairTwice
    BY <1>4, <1>6 DEF TopologyTypeOK, NoPairTwice
  <1>8. Touched = {}
    BY <1>6 DEF Touched
  <1>9. Progress /\ Placed /\ Wired /\ PanicCause
    BY <1>6, <1>8 DEF Progress, Placed, Wired, PanicCause, TopologyInit
  <1> QED
    BY <1>5, <1>7, <1>9 DEF TopologyInv

LEMMA PathMono ==
  ASSUME NEW S, NEW T, NEW U, T \subseteq U, PathThrough(S, T)
  PROVE  PathThrough(S, U)
  BY DEF PathThrough

\* A new list of pairs that were not touched.
LEMMA ListStep ==
  ASSUME TopologyInv, pc = "build", stage # 3,
         NEW list, list \subseteq PairsOf(agents), list \cap Touched = {},
         stage' = stage + 1, pending' = list, pc' \in {"panic", "connect"},
         UNCHANGED <<topology, agents, validators, degree, nonDegree, asked>>
  PROVE  /\ TopologyTypeOK' /\ NoPairTwice' /\ Members'
         /\ Touched' = Touched \cup list
  <1>1. pending = {} /\ stage \in 0..2
    BY DEF TopologyInv, Progress, TopologyTypeOK
  <1>2. TopologyTypeOK'
    BY <1>1 DEF TopologyInv, TopologyTypeOK
  <1>3. Members'
    BY DEF TopologyInv, Members
  <1>4. Touched = {e \in PairsOf(agents) : asked[e] > 0}
    BY <1>1 DEF Touched
  <1>5. Touched' = list \cup {e \in PairsOf(agents) : asked[e] > 0}
    BY DEF Touched
  <1>6. ASSUME NEW e \in PairsOf(agents)
        PROVE  asked'[e] + (IF e \in pending' THEN 1 ELSE 0) <= 1
    <2>1. asked[e] \in Nat /\ asked[e] <= 1 /\ asked'[e] = asked[e]
      BY <1>1 DEF TopologyInv, TopologyTypeOK, NoPairTwice
    <2>2. CASE e \in list
      BY <1>4, <2>1, <2>2
    <2>3. CASE e \notin list
      BY <2>1, <2>3
    <2> QED
      BY <2>2, <2>3
  <1>7. NoPairTwice'
    BY <1>6 DEF NoPairTwice
  <1> QED
    BY <1>2, <1>3, <1>4, <1>5, <1>7

\* Connect moves a pair from the list to the pairs that were asked for.
LEMMA ConnectStep ==
  ASSUME TopologyInv, NEW e \in pending, Connect(e)
  PROVE  TopologyInv'
  <1>1. /\ pc = "connect" /\ pc' = pc /\ stage' = stage /\ topology' = topology
        /\ agents' = agents /\ validators' = validators
        /\ pending' = pending \ {e}
        /\ asked' = [asked EXCEPT ![e] = @ + 1]
    BY DEF Connect, topoArgs
  <1>2. /\ e \in PairsOf(agents) /\ asked \in [PairsOf(agents) -> Nat]
        /\ pending \subseteq PairsOf(agents)
    BY DEF TopologyInv, TopologyTypeOK
  <1>3. asked[e] = 0 /\ asked'[e] = 1 /\ asked' \in [PairsOf(agents) -> Nat]
    BY <1>1, <1>2 DEF TopologyInv, NoPairTwice
  <1>4. \A f \in PairsOf(agents) : f # e => asked'[f] = asked[f]
    BY <1>1, <1>2
  <1>5. TopologyTypeOK'
    BY <1>1, <1>2, <1>3 DEF TopologyInv, TopologyTypeOK
  <1>6. NoPairTwice'
    <2> SUFFICES ASSUME NEW f \in PairsOf(agents)
                 PROVE  asked'[f] + (IF f \in pending' THEN 1 ELSE 0) <= 1
      BY <1>1 DEF NoPairTwice
    <2>1. CASE f = e
      BY <1>1, <1>3, <2>1
    <2>2. CASE f # e
      BY <1>1, <1>4, <2>2 DEF TopologyInv, NoPairTwice
    <2> QED
      BY <2>1, <2>2
  <1>7. Touched' = Touched
    BY <1>1, <1>2, <1>3, <1>4 DEF Touched
  <1>8. nonValidators' = nonValidators
    BY <1>1 DEF nonValidators
  <1>9. Members' /\ Placed' /\ Wired'
    BY <1>1, <1>7, <1>8 DEF TopologyInv, Members, Placed, Wired
  <1>10. Progress' /\ PanicCause'
    BY <1>1, <1>8 DEF TopologyInv, Progress, PanicCause
  <1> QED
    BY <1>5, <1>6, <1>9, <1>10 DEF TopologyInv

LEMMA ListDoneStep ==
  ASSUME TopologyInv, ListDone
  PROVE  TopologyInv'
  <1>1. /\ pc = "connect" /\ stage' = stage /\ topology' = topology
        /\ agents' = agents /\ validators' = validators
        /\ pending = {} /\ pending' = pending /\ asked' = asked
        /\ pc' = IF stage = LastStage THEN "returned" ELSE "build"
    BY DEF ListDone, topoArgs
  <1>2. Touched' = Touched /\ nonValidators' = nonValidators
    BY <1>1 DEF Touched, nonValidators
  <1>3. TopologyTypeOK' /\ NoPairTwice' /\ Members'
    BY <1>1 DEF TopologyInv, TopologyTypeOK, NoPairTwice, Members
  <1>4. Placed' /\ Wired' /\ PanicCause'
    BY <1>1, <1>2 DEF TopologyInv, Placed, Wired, PanicCause
  <1>5. stage \in 0..3 /\ topology \in KnownTopologies /\ LastStage' = LastStage
    BY <1>1, <1>2 DEF TopologyInv, TopologyTypeOK, Progress, LastStage
  <1>6. Progress'
    BY <1>1, <1>2, <1>5 DEF TopologyInv, Progress, LastStage
  <1> QED
    BY <1>3, <1>4, <1>6 DEF TopologyInv

\* LinearTopology: the indices in their order are the path.
LEMMA LinearStep ==
  ASSUME TopologyInv, MakeLinear
  PROVE  TopologyInv'
  <1> DEFINE N == Cardinality(agents)
  <1>1. /\ topology = "linear" /\ pc = "build" /\ stage = 0 /\ stage' = 1
        /\ pending' = LinearList
        /\ pc' = IF agents = {} THEN "panic" ELSE "connect"
        /\ UNCHANGED <<topology, agents, validators, degree, nonDegree, asked>>
    BY DEF MakeLinear, topoArgs
  <1>2. N \in Nat /\ agents = 0..(N - 1) /\ IsFiniteSet(agents)
    BY AgentFacts DEF TopologyInv
  <1> HIDE DEF N
  <1>3. LinearList = {{k, k + 1} : k \in 0..(N - 2)}
    BY DEF LinearList, N
  <1>4. LinearList \subseteq PairsOf(agents)
    <2> SUFFICES ASSUME NEW k \in 0..(N - 2) PROVE {k, k + 1} \in PairsOf(agents)
      BY <1>3
    <2>1. k \in agents /\ k + 1 \in agents /\ k # k + 1
      BY <1>2
    <2> QED
      BY <2>1, PairIn
  <1>5. Touched = {}
    BY <1>1 DEF TopologyInv, Placed
  <1>6. /\ TopologyTypeOK' /\ NoPairTwice' /\ Members'
        /\ Touched' = Touched \cup LinearList
    BY <1>1, <1>4, <1>5, ListStep
  <1>7. Progress' /\ Placed' /\ PanicCause'
    BY <1>1 DEF TopologyInv, Progress, Placed, PanicCause
  <1>8. PathThrough(agents, LinearList)
    <2> DEFINE s == [k \in 1..N |-> k - 1]
    <2>1. s \in [1..N -> agents] /\ \A j, k \in 1..N : s[j] = s[k] => j = k
      BY <1>2
    <2>2. s \in Orders(agents)
      BY <2>1 DEF Orders, N
    <2>3. \A k \in 1..(N - 1) : {s[k], s[k + 1]} \in LinearList
      <3> SUFFICES ASSUME NEW k \in 1..(N - 1) PROVE {s[k], s[k + 1]} \in LinearList
        OBVIOUS
      <3> DEFINE h == k - 1
      <3>1. s[k] = h /\ s[k + 1] = h + 1 /\ h \in 0..(N - 2)
        BY <1>2
      <3> HIDE DEF h, s
      <3>2. {h, h + 1} \in LinearList
        BY <1>3, <3>1
      <3> QED
        BY <3>1, <3>2
    <2> HIDE DEF s
    <2> QED
      BY <2>2, <2>3 DEF PathThrough, N
  <1>9. Wired'
    BY <1>1, <1>5, <1>6, <1>8 DEF Wired
  <1> QED
    BY <1>6, <1>7, <1>9 DEF TopologyInv

LEMMA RandomStep ==
  ASSUME TopologyInv, MakeRandom
  PROVE  TopologyInv'
  <1> DEFINE N == Cardinality(agents)
             t(c) == [MaxPeers |-> degree, Count |-> c, CreateRing |-> TRUE]
  <1>c. PICK c \in Counts : \E list \in Populated(agents, t(c)) : ConnectAll(list)
    BY DEF MakeRandom
  <1>1. PICK list \in Populated(agents, t(c)) : ConnectAll(list)
    BY <1>c
  <1>2. /\ topology = "random" /\ pc = "build" /\ stage = 0 /\ stage' = 1 /\ stage' = stage + 1
        /\ pending' = list
        /\ pc' = IF list = {} THEN "panic" ELSE "connect"
        /\ UNCHANGED <<topology, agents, validators, degree, nonDegree, asked>>
    BY <1>1 DEF MakeRandom, ConnectAll, topoArgs
  <1>3. /\ N \in Nat /\ c \in Nat /\ (N = 0 <=> agents = {})
    BY AgentFacts, BenchmarkAssumption, TopologiesAssumption, FS_EmptySet DEF TopologyInv
  <1>4. t(c).CreateRing /\ t(c).Count = c
    OBVIOUS
  <1> HIDE DEF t
  <1>5. /\ list \subseteq PairsOf(agents)
        /\ \E s \in Orders(agents) :
              \A k \in 1..Min({N - 1, c}) : {s[k], s[k + 1]} \in list
    <2>1. /\ list \subseteq PairsOf(agents)
          /\ \E s \in Orders(agents) :
                \A k \in 1..Min({N - 1, t(c).Count}) : {s[k], s[k + 1]} \in list
      BY <1>4, PopulatedFacts
    <2> QED
      BY <1>4, <2>1
  <1> HIDE DEF N
  <1>6. list = {} => N <= 1 \/ c = 0
    <2>1. list = {} => ~(1 \in 1..Min({N - 1, c}))
      BY <1>5
    <2>2. Min({N - 1, c}) = IF N - 1 <= c THEN N - 1 ELSE c
      BY <1>3, MinOfTwo
    <2> QED
      BY <1>3, <2>1, <2>2
  <1>7. Touched = {}
    BY <1>2 DEF TopologyInv, Placed
  <1>8. TopologyTypeOK' /\ NoPairTwice' /\ Members'
    BY <1>2, <1>5, <1>7, ListStep
  <1>9. Progress' /\ Placed' /\ Wired'
    BY <1>2 DEF TopologyInv, Progress, Placed, Wired
  <1>10. PanicCause'
    BY <1>2, <1>3, <1>6 DEF PanicCause, N
  <1> QED
    BY <1>8, <1>9, <1>10 DEF TopologyInv

\* The Count of the super-cluster leaves the path whole.
LEMMA PopulateAllFacts ==
  ASSUME NEW S, IsFiniteSet(S), Cardinality(S) \in Nat, Cardinality(S) <= Ports,
         NEW d, NEW list \in PopulateAll(S, d)
  PROVE  /\ list \subseteq PairsOf(S)
         /\ PathThrough(S, list)
         /\ list = {} => Cardinality(S) < 2
  <1> DEFINE t == [MaxPeers |-> d, Count |-> connectionsNumber, CreateRing |-> TRUE]
             N == Cardinality(S)
  <1>1. t.CreateRing /\ list \in Populated(S, t)
    BY DEF PopulateAll
  <1>c. t.Count = connectionsNumber
    OBVIOUS
  <1> HIDE DEF t
  <1>2. /\ list \subseteq PairsOf(S)
        /\ \E s \in Orders(S) :
              \A k \in 1..Min({N - 1, t.Count}) : {s[k], s[k + 1]} \in list
    BY <1>1, PopulatedFacts
  <1>3. N \in Nat /\ N <= Ports
    OBVIOUS
  <1> HIDE DEF N
  <1>4. Min({N - 1, t.Count}) = N - 1
    BY <1>c, <1>3, PortsLimit, MinOfTwo
  <1>5. PICK s \in Orders(S) : \A k \in 1..(N - 1) : {s[k], s[k + 1]} \in list
    BY <1>2, <1>4
  <1>6. PathThrough(S, list)
    BY <1>5 DEF PathThrough, N
  <1>7. list = {} => N < 2
    <2>1. list = {} => ~(1 \in 1..(N - 1))
      BY <1>5
    <2> QED
      BY <1>3, <2>1
  <1> QED
    BY <1>2, <1>6, <1>7 DEF N

LEMMA ValidatorsStep ==
  ASSUME TopologyInv, MakeValidators
  PROVE  TopologyInv'
  <1>1. PICK list \in PopulateAll(validators, degree) : ConnectAll(list)
    BY DEF MakeValidators
  <1>2. /\ topology = "super-cluster" /\ pc = "build"
        /\ stage = 0 /\ stage' = 1 /\ stage' = stage + 1
        /\ pending' = list
        /\ pc' = IF list = {} THEN "panic" ELSE "connect"
        /\ UNCHANGED <<topology, agents, validators, degree, nonDegree, asked>>
    BY <1>1 DEF MakeValidators, ConnectAll, topoArgs
  <1>3. /\ validators \subseteq agents
        /\ IsFiniteSet(validators)
        /\ Cardinality(validators) \in Nat /\ Cardinality(validators) <= Ports
    BY AgentFacts DEF TopologyInv
  <1>4. /\ list \subseteq PairsOf(validators)
        /\ PathThrough(validators, list)
        /\ list = {} => Cardinality(validators) < 2
    BY <1>3, PopulateAllFacts
  <1>5. list \subseteq PairsOf(agents)
    BY <1>3, <1>4, PairMono
  <1>6. Touched = {}
    BY <1>2 DEF TopologyInv, Placed
  <1>7. /\ TopologyTypeOK' /\ NoPairTwice' /\ Members'
        /\ Touched' = Touched \cup list
    BY <1>2, <1>5, <1>6, ListStep
  <1>8. list \subseteq SUBSET validators /\ (list # {} => validators # {})
    <2>1. \A e \in list : e \in SUBSET validators /\ e # {}
      BY <1>4, PairParts
    <2> QED
      BY <2>1
  <1>9. Progress' /\ Placed'
    BY <1>2, <1>6, <1>7, <1>8 DEF TopologyInv, Progress, Placed
  <1>10. Wired'
    BY <1>2, <1>4, <1>6, <1>7, <1>8 DEF Wired
  <1>11. PanicCause'
    BY <1>2, <1>4 DEF PanicCause
  <1> QED
    BY <1>7, <1>9, <1>10, <1>11 DEF TopologyInv

LEMMA NonValidatorsStep ==
  ASSUME TopologyInv, MakeNonValidators
  PROVE  TopologyInv'
  <1> DEFINE NV == nonValidators
  <1>1. PICK list \in PopulateAll(NV, nonDegree) : ConnectAll(list)
    BY DEF MakeNonValidators
  <1>2. /\ topology = "super-cluster" /\ pc = "build" /\ NV # {}
        /\ stage = 1 /\ stage' = 2 /\ stage' = stage + 1
        /\ pending' = list
        /\ pc' = IF list = {} THEN "panic" ELSE "connect"
        /\ UNCHANGED <<topology, agents, validators, degree, nonDegree, asked>>
    BY <1>1 DEF MakeNonValidators, ConnectAll, topoArgs
  <1>3. /\ NV = agents \ validators
        /\ IsFiniteSet(NV) /\ Cardinality(NV) \in Nat /\ Cardinality(NV) <= Ports
    BY AgentFacts DEF TopologyInv
  <1>4. NV' = NV
    BY <1>2 DEF nonValidators
  <1> HIDE DEF NV
  <1>5. /\ list \subseteq PairsOf(NV)
        /\ PathThrough(NV, list)
        /\ list = {} => Cardinality(NV) < 2
    BY <1>3, PopulateAllFacts
  <1>6. list \subseteq PairsOf(agents)
    <2>1. NV \subseteq agents
      BY <1>3
    <2> QED
      BY <1>5, <2>1, PairMono
  <1>7. \A e \in list : e \in SUBSET NV /\ e # {}
    BY <1>5, PairParts
  <1>8. Touched \subseteq SUBSET validators
    BY <1>2 DEF TopologyInv, Placed
  <1>9. list \cap Touched = {}
    <2> SUFFICES ASSUME NEW e \in list, e \in Touched PROVE FALSE
      OBVIOUS
    <2> QED
      BY <1>3, <1>7, <1>8
  <1>10. /\ TopologyTypeOK' /\ NoPairTwice' /\ Members'
         /\ Touched' = Touched \cup list
    BY <1>2, <1>6, <1>9, ListStep
  <1>11. Progress'
    BY <1>2, <1>4 DEF TopologyInv, Progress, NV
  <1>12. Placed'
    <2>1. Touched' \subseteq (SUBSET validators) \cup (SUBSET NV)
      <3>1. list \subseteq SUBSET NV
        BY <1>7
      <3> QED
        BY <1>8, <1>10, <3>1
    <2>2. validators' = validators /\ stage' = 2
      BY <1>2
    <2> QED
      BY <1>4, <2>1, <2>2 DEF Placed, NV
  <1>13. Wired'
    <2>1. /\ PathThrough(validators, Touched \cup list) /\ validators # {}
          /\ PathThrough(NV, Touched \cup list)
      <3>1. validators # {} /\ PathThrough(validators, Touched)
        BY <1>2 DEF TopologyInv, Wired
      <3> QED
        BY <1>5, <3>1, PathMono
    <2> QED
      BY <1>2, <1>4, <1>10, <2>1 DEF Wired, NV
  <1>14. PanicCause'
    <2>1. list = {} => Cardinality(NV) = 1
      <3>1. Cardinality(NV) # 0
        BY <1>2, <1>3, FS_EmptySet
      <3> QED
        BY <1>3, <1>5, <3>1
    <2> QED
      BY <1>2, <1>4, <2>1 DEF PanicCause, NV
  <1> QED
    BY <1>10, <1>11, <1>12, <1>13, <1>14 DEF TopologyInv

\* The cross list joins every non validator with one validator.
LEMMA CrossFacts ==
  ASSUME NEW V, IsFiniteSet(V), V # {}, V = validators,
         NEW NV, IsFiniteSet(NV), NV # {}, NV = nonValidators, V \cap NV = {},
         NEW vs \in Orders(V), NEW ns \in Orders(NV)
  PROVE  /\ CrossList(vs, ns) # {}
         /\ \A e \in CrossList(vs, ns) : \E a \in NV, v \in V : e = {a, v}
         /\ \A a \in NV : OnlyOne(a, V, CrossList(vs, ns))
  <1> DEFINE N == Cardinality(NV)
             M == Cardinality(V)
             at(k) == ((k - 1) % M) + 1
  <1>1. /\ N \in Nat /\ ns \in [1..N -> NV]
        /\ \A x \in NV : \E k \in 1..N : ns[k] = x
        /\ \A j, k \in 1..N : ns[j] = ns[k] => j = k
    BY OrderFacts
  <1>2. M \in Nat /\ M # 0 /\ vs \in [1..M -> V]
    BY OrderFacts, FS_EmptySet
  <1>3. CrossList(vs, ns) = {{ns[k], vs[at(k)]} : k \in 1..N}
    BY DEF CrossList
  <1> HIDE DEF N, M
  <1>4. \A k \in 1..N : at(k) \in 1..M
    BY <1>1, <1>2
  <1> HIDE DEF at
  <1>5. \A k \in 1..N : ns[k] \in NV /\ vs[at(k)] \in V
    BY <1>1, <1>2, <1>4
  <1>6. CrossList(vs, ns) # {}
    <2>1. PICK x : x \in NV
      OBVIOUS
    <2>2. PICK k \in 1..N : ns[k] = x
      BY <1>1, <2>1
    <2> QED
      BY <1>3, <2>2
  <1>7. \A e \in CrossList(vs, ns) : \E a \in NV, v \in V : e = {a, v}
    BY <1>3, <1>5
  <1>8. ASSUME NEW a \in NV PROVE OnlyOne(a, V, CrossList(vs, ns))
    <2>1. PICK k \in 1..N : ns[k] = a
      BY <1>1
    <2>2. vs[at(k)] \in V
      BY <1>5
    <2>3. ASSUME NEW w \in V
          PROVE  {a, w} \in CrossList(vs, ns) <=> w = vs[at(k)]
      <3>1. ASSUME {a, w} \in CrossList(vs, ns) PROVE w = vs[at(k)]
        <4>1. PICK j \in 1..N : {a, w} = {ns[j], vs[at(j)]}
          BY <1>3, <3>1
        <4>2. ns[j] \in NV /\ vs[at(j)] \in V
          BY <1>5
        <4>3. a = ns[j] /\ w = vs[at(j)]
          BY <4>1, <4>2
        <4>4. j = k
          BY <1>1, <2>1, <4>3
        <4> QED
          BY <4>3, <4>4
      <3>2. ASSUME w = vs[at(k)] PROVE {a, w} \in CrossList(vs, ns)
        BY <1>3, <2>1, <3>2
      <3> QED
        BY <3>1, <3>2
    <2> QED
      BY <2>2, <2>3 DEF OnlyOne
  <1> QED
    BY <1>6, <1>7, <1>8

LEMMA CrossStep ==
  ASSUME TopologyInv, MakeCross
  PROVE  TopologyInv'
  <1> DEFINE NV == nonValidators
             T == Touched
  <1>1. PICK vs \in Orders(validators), ns \in Orders(NV) :
          ConnectAll(CrossList(vs, ns))
    BY DEF MakeCross
  <1> DEFINE list == CrossList(vs, ns)
  <1>2. /\ topology = "super-cluster" /\ pc = "build"
        /\ stage = 2 /\ stage' = 3 /\ stage' = stage + 1
        /\ pending' = list
        /\ pc' = IF list = {} THEN "panic" ELSE "connect"
        /\ UNCHANGED <<topology, agents, validators, degree, nonDegree, asked>>
    BY <1>1 DEF MakeCross, ConnectAll, topoArgs
  <1>3. /\ NV = agents \ validators /\ validators \subseteq agents
        /\ IsFiniteSet(NV) /\ IsFiniteSet(validators)
    BY AgentFacts DEF TopologyInv
  <1>4. NV' = NV
    BY <1>2 DEF nonValidators
  <1>5. NV # {} /\ validators # {}
    BY <1>2 DEF TopologyInv, Progress, Wired
  <1>6. /\ list # {}
        /\ \A e \in list : \E a \in NV, v \in validators : e = {a, v}
        /\ \A a \in NV : OnlyOne(a, validators, list)
    <2>1. validators \cap NV = {}
      BY <1>3
    <2> QED
      BY <1>1, <1>3, <1>5, <2>1, CrossFacts
  <1>7. T \subseteq (SUBSET validators) \cup (SUBSET NV)
    BY <1>2 DEF TopologyInv, Placed
  <1> HIDE DEF list, NV, T
  <1>8. list \subseteq PairsOf(agents)
    <2> SUFFICES ASSUME NEW e \in list PROVE e \in PairsOf(agents)
      OBVIOUS
    <2>1. PICK a \in NV, v \in validators : e = {a, v}
      BY <1>6
    <2>2. a \in agents /\ v \in agents /\ a # v
      BY <1>3
    <2> QED
      BY <2>1, <2>2, PairIn
  <1>9. \A a \in NV, v \in validators : {a, v} \notin T
    <2> SUFFICES ASSUME NEW a \in NV, NEW v \in validators, {a, v} \in T PROVE FALSE
      OBVIOUS
    <2>1. {a, v} \in SUBSET validators \/ {a, v} \in SUBSET NV
      BY <1>7
    <2> QED
      BY <1>3, <2>1
  <1>10. list \cap T = {}
    BY <1>6, <1>9
  <1>11. TopologyTypeOK' /\ NoPairTwice' /\ Members' /\ T' = T \cup list
    BY <1>2, <1>8, <1>10, ListStep DEF T
  <1>12. Progress' /\ Placed' /\ PanicCause'
    BY <1>2, <1>4, <1>5, <1>6 DEF TopologyInv, Progress, Placed, PanicCause, NV
  <1>13. PathThrough(validators, T \cup list) /\ PathThrough(NV, T \cup list)
    <2>1. PathThrough(validators, T) /\ PathThrough(NV, T)
      BY <1>2 DEF TopologyInv, Wired, T, NV
    <2> QED
      BY <2>1, PathMono
  <1>14. ASSUME NEW a \in NV PROVE OnlyOne(a, validators, T \cup list)
    <2>1. \A w \in validators : {a, w} \in T \cup list <=> {a, w} \in list
      BY <1>9
    <2> QED
      BY <1>6, <2>1 DEF OnlyOne
  <1>15. Wired'
    BY <1>2, <1>4, <1>5, <1>11, <1>13, <1>14 DEF Wired, T, NV
  <1> QED
    BY <1>11, <1>12, <1>15 DEF TopologyInv

LEMMA TopoNext ==
  ASSUME TopologyInv, MakeConnections
  PROVE  TopologyInv'
  BY LinearStep, RandomStep, ValidatorsStep, NonValidatorsStep, CrossStep, ConnectStep,
     ListDoneStep DEF MakeConnections

LEMMA TopoStutter ==
  ASSUME TopologyInv, UNCHANGED topoVars
  PROVE  TopologyInv'
  <1>1. /\ topology' = topology /\ agents' = agents /\ validators' = validators
        /\ stage' = stage /\ pc' = pc /\ pending' = pending /\ asked' = asked
    BY DEF topoVars
  <1>2. /\ Touched' = Touched /\ nonValidators' = nonValidators
        /\ LastStage' = LastStage
    BY <1>1 DEF Touched, nonValidators, LastStage
  <1>3. TopologyTypeOK' /\ NoPairTwice' /\ Members' /\ Progress'
    BY <1>1, <1>2 DEF TopologyInv, TopologyTypeOK, NoPairTwice, Members, Progress
  <1>4. Placed' /\ Wired' /\ PanicCause'
    BY <1>1, <1>2 DEF TopologyInv, Placed, Wired, PanicCause
  <1> QED
    BY <1>3, <1>4 DEF TopologyInv

LEMMA TopoInvariance == TopologySpec => []TopologyInv
  <1>1. ASSUME TopologyInv, [MakeConnections]_topoVars PROVE TopologyInv'
    <2>1. CASE MakeConnections
      BY <1>1, <2>1, TopoNext
    <2>2. CASE UNCHANGED topoVars
      BY <1>1, <2>2, TopoStutter DEF topoVars, topoVars
    <2> QED
      BY <1>1, <2>1, <2>2
  <1> QED
    BY <1>1, TopoInit, PTL DEF TopologySpec

LEMMA AskedOnce ==
  ASSUME TopologyInv, pc = "returned", NEW e \in PairsOf(agents)
  PROVE  e \in Touched <=> asked[e] = 1
  <1>1. pending = {}
    BY DEF TopologyInv, Progress
  <1>2. asked[e] \in Nat /\ asked[e] <= 1
    BY <1>1 DEF TopologyInv, TopologyTypeOK, NoPairTwice
  <1>3. e \in Touched <=> asked[e] > 0
    BY <1>1 DEF Touched
  <1> QED
    BY <1>2, <1>3

LEMMA Covered == TopologyInv => CoveredOnReturn
  <1> SUFFICES ASSUME TopologyInv, pc = "returned", topology = "super-cluster",
                      NEW a \in nonValidators
               PROVE  Cardinality({v \in validators : asked[{a, v}] = 1}) = 1
    BY DEF CoveredOnReturn
  <1>1. nonValidators = agents \ validators /\ validators \subseteq agents
    BY AgentFacts DEF TopologyInv
  <1>2. stage = 3
    BY DEF TopologyInv, Progress, LastStage
  <1>3. OnlyOne(a, validators, Touched)
    BY <1>2 DEF TopologyInv, Wired
  <1>4. PICK v \in validators : \A w \in validators : {a, w} \in Touched <=> w = v
    BY <1>3 DEF OnlyOne
  <1>5. ASSUME NEW w \in validators PROVE asked[{a, w}] = 1 <=> w = v
    <2>1. {a, w} \in PairsOf(agents)
      BY <1>1, PairIn
    <2>2. {a, w} \in Touched <=> asked[{a, w}] = 1
      BY <2>1, AskedOnce
    <2> QED
      BY <1>4, <2>2
  <1>6. {w \in validators : asked[{a, w}] = 1} = {v}
    BY <1>5
  <1> QED
    BY <1>6, FS_Singleton

\* For any number of agents, validators, degrees and connection counts, none of
\* the topologies calls Connect twice for a pair (Topologies!NoPairTwice).
THEOREM PairsOnce == TopologySpec => []NoPairTwice
  <1>1. TopologyInv => NoPairTwice
    BY DEF TopologyInv
  <1> QED
    BY <1>1, TopoInvariance, PTL

\* The super-cluster connects every non validator with exactly one validator,
\* however many there are of both (Topologies!CoveredOnReturn).
THEOREM ValidatorForEach == TopologySpec => []CoveredOnReturn
  BY Covered, TopoInvariance, PTL

-----------------------------------------------------------------------------
(***************************************************************************)
(* The run of the benchmark.                                               *)
(***************************************************************************)
LEMMA InitIInv == Init => IInv
  <1> SUFFICES ASSUME Init PROVE IInv
    OBVIOUS
  <1>1. TopologyInv
    BY TopoInit DEF Init
  <1>2. Cardinality(agents) \in Nat
    BY <1>1, AgentFacts DEF TopologyInv
  <1>3. TopologyTypeOK
    BY <1>1 DEF TopologyInv
  <1>4. TypeOK
    BY <1>2, <1>3, BenchmarkAssumption DEF Init, TypeOK
  <1>5. Listening
    <2>1. host = {a \in agents : work[a] = "returned"}
      BY DEF Init
    <2> QED
      BY <2>1, FS_EmptySet DEF Init, Listening
  <1>6. Connected /\ ListensBeforeConnect /\ CrashCauses
    BY DEF Init, Connected, ListensBeforeConnect, CrashCauses
  <1> QED
    BY <1>1, <1>4, <1>5, <1>6 DEF IInv

\* An agent that listens is counted once.
LEMMA ListenOkStep ==
  ASSUME IInv, NEW a \in agents, ListenOk(a)
  PROVE  IInv'
  <1>1. /\ phase = "starting" /\ phase' = phase /\ work[a] = "todo"
        /\ work' = [work EXCEPT ![a] = "returned"] /\ host' = host \cup {a}
        /\ started' = started + 1 /\ failed' = failed /\ senders' = senders /\ rate' = rate
        /\ UNCHANGED topoVars /\ agents' = agents /\ validators' = validators
    BY DEF ListenOk, topoVars
  <1>2. TopologyInv' /\ TopologyTypeOK'
    <2>1. TopologyInv'
      BY <1>1, TopoStutter DEF IInv
    <2> QED
      BY <2>1 DEF TopologyInv
  <1>3. IsFiniteSet(agents) /\ Cardinality(agents) \in Nat
    BY AgentFacts DEF IInv, TopologyInv
  <1>4. /\ work \in [agents -> {"todo", "remove", "returned"}] /\ host \subseteq agents
        /\ host = {x \in agents : work[x] = "returned"} /\ started = Cardinality(host)
        /\ failed = 0 /\ senders \subseteq agents /\ rate \in Int
    BY DEF IInv, TypeOK, Listening
  <1>5. a \notin host /\ IsFiniteSet(host)
    <2>1. IsFiniteSet(host)
      BY <1>3, <1>4, FS_Subset
    <2> QED
      BY <1>1, <1>4, <2>1
  <1>6. host' = {x \in agents : work'[x] = "returned"}
    BY <1>1, <1>4
  <1>7. started' = Cardinality(host')
    <2>1. Cardinality(host \cup {a}) = Cardinality(host) + 1
      BY <1>5, FS_AddElement
    <2> QED
      BY <1>1, <1>4, <2>1
  <1>8. started' \in 0..Cardinality(agents)
    <2>1. host' \subseteq agents
      BY <1>6
    <2>2. Cardinality(host') <= Cardinality(agents) /\ IsFiniteSet(host')
      BY <1>3, <2>1, FS_Subset
    <2>3. Cardinality(host') \in Nat
      BY <2>2, FS_CardinalityType
    <2> QED
      BY <1>3, <1>7, <2>2, <2>3
  <1>9. TypeOK'
    <2>1. work' \in [agents -> {"todo", "remove", "returned"}]
      BY <1>1, <1>4
    <2> QED
      BY <1>1, <1>2, <1>3, <1>4, <1>8, <2>1 DEF TypeOK
  <1>10. Listening'
    BY <1>1, <1>4, <1>6, <1>7 DEF Listening
  <1>11. Connected' /\ ListensBeforeConnect' /\ CrashCauses'
    BY <1>1 DEF Connected, ListensBeforeConnect, CrashCauses
  <1> QED
    BY <1>2, <1>9, <1>10, <1>11 DEF IInv

LEMMA ListenFailsStep ==
  ASSUME IInv, NEW a \in agents, ListenFails(a)
  PROVE  IInv'
  <1>1. /\ phase = "starting" /\ phase' = phase /\ work[a] = "todo"
        /\ work' = [work EXCEPT ![a] = "remove"] /\ host' = host
        /\ started' = started /\ failed' = failed /\ senders' = senders /\ rate' = rate
        /\ UNCHANGED topoVars /\ agents' = agents /\ validators' = validators
    BY DEF ListenFails, topoVars
  <1>2. TopologyInv' /\ TopologyTypeOK'
    <2>1. TopologyInv'
      BY <1>1, TopoStutter DEF IInv
    <2> QED
      BY <2>1 DEF TopologyInv
  <1>3. /\ work \in [agents -> {"todo", "remove", "returned"}]
        /\ host = {x \in agents : work[x] = "returned"}
    BY DEF IInv, TypeOK, Listening
  <1>4. host' = {x \in agents : work'[x] = "returned"}
    BY <1>1, <1>3
  <1>5. TypeOK'
    <2>1. work' \in [agents -> {"todo", "remove", "returned"}]
      BY <1>1, <1>3
    <2> QED
      BY <1>1, <1>2, <2>1 DEF IInv, TypeOK
  <1>6. Listening'
    BY <1>1, <1>4 DEF IInv, Listening
  <1>7. Connected' /\ ListensBeforeConnect' /\ CrashCauses'
    BY <1>1 DEF Connected, ListensBeforeConnect, CrashCauses
  <1> QED
    BY <1>2, <1>5, <1>6, <1>7 DEF IInv

\* Steps of StartGossipBench, which start and stop no agent.
LEMMA PhaseStep ==
  ASSUME IInv, UNCHANGED <<topoVars, messaging, rate, host, work, started, failed>>,
         phase' \in {"start", "starting", "connecting", "messaging", "looping", "done", "panic"},
         senders' \subseteq agents
  PROVE  TypeOK' /\ TopologyInv' /\ Listening'
  <1>1. /\ work' = work /\ host' = host /\ started' = started /\ failed' = failed
        /\ agents' = agents
    BY DEF topoVars
  <1>2. TopologyInv' /\ TopologyTypeOK'
    <2>1. TopologyInv'
      BY TopoStutter DEF IInv
    <2> QED
      BY <2>1 DEF TopologyInv
  <1>3. TypeOK'
    BY <1>1, <1>2 DEF IInv, TypeOK
  <1>4. Listening'
    BY <1>1 DEF IInv, Listening
  <1> QED
    BY <1>2, <1>3, <1>4

LEMMA ConnectAgentsStep ==
  ASSUME IInv, ConnectAgents
  PROVE  IInv'
  <1>1. /\ phase = "connecting" /\ phase' = phase /\ MakeConnections
        /\ messaging' = messaging /\ work' = work /\ host' = host
        /\ started' = started /\ failed' = failed /\ senders' = senders /\ rate' = rate
    BY DEF ConnectAgents
  <1>2. agents' = agents /\ validators' = validators
    BY <1>1 DEF MakeConnections, MakeLinear, MakeRandom, MakeValidators,
       MakeNonValidators, MakeCross, ConnectAll, Connect, ListDone,
       topoArgs
  <1>3. TopologyInv' /\ TopologyTypeOK'
    <2>1. TopologyInv'
      BY <1>1, TopoNext DEF IInv
    <2> QED
      BY <2>1 DEF TopologyInv
  <1>4. TypeOK' /\ Listening'
    BY <1>1, <1>2, <1>3 DEF IInv, TypeOK, Listening
  <1>5. Connected' /\ ListensBeforeConnect' /\ CrashCauses'
    BY <1>1, <1>2 DEF IInv, Connected, ListensBeforeConnect, CrashCauses
  <1> QED
    BY <1>3, <1>4, <1>5 DEF IInv

LEMMA NextIInv ==
  ASSUME IInv, [Next]_vars
  PROVE  IInv'
  <1> USE DEF IInv
  <1>0. senders \subseteq agents /\ phase \in {"start", "starting", "connecting", "messaging",
                                               "looping", "done", "panic"}
    BY DEF TypeOK
  <1>1. CASE StartAgents
    <2>1. /\ UNCHANGED <<topoVars, messaging, rate, host, work, started, failed>>
          /\ senders' = senders /\ agents' = agents
          /\ phase' = IF agents = {} THEN "panic" ELSE "starting"
      BY <1>1 DEF StartAgents, topoVars
    <2>2. TypeOK' /\ TopologyInv' /\ Listening'
      BY <1>0, <2>1, PhaseStep
    <2>3. Connected' /\ ListensBeforeConnect' /\ CrashCauses'
      BY <2>1 DEF Connected, ListensBeforeConnect, CrashCauses
    <2> QED
      BY <2>2, <2>3
  <1>2. CASE \E a \in agents : ListenOk(a) \/ ListenFails(a) \/ RemoveAgent(a)
    <2>1. PICK a \in agents : ListenOk(a) \/ ListenFails(a) \/ RemoveAgent(a)
      BY <1>2
    <2>2. CASE RemoveAgent(a)
      <3>1. /\ UNCHANGED <<topoVars, messaging, rate, host, work, started, failed>>
            /\ senders' = senders /\ agents' = agents /\ work' = work
            /\ work[a] = "remove" /\ phase' = "panic"
        BY <2>2 DEF RemoveAgent, topoVars
      <3>2. TypeOK' /\ TopologyInv' /\ Listening'
        BY <1>0, <3>1, PhaseStep
      <3>3. Connected' /\ ListensBeforeConnect' /\ CrashCauses'
        BY <3>1 DEF Connected, ListensBeforeConnect, CrashCauses
      <3> QED
        BY <3>2, <3>3
    <2> QED
      BY <2>1, <2>2, ListenOkStep, ListenFailsStep
  <1>3. CASE StartAgentsReturn
    <2>1. /\ UNCHANGED <<topoVars, messaging, rate, host, work, started, failed>>
          /\ senders' = senders /\ agents' = agents /\ host' = host
          /\ phase' = "connecting" /\ \A a \in agents : work[a] = "returned"
      BY <1>3 DEF StartAgentsReturn, topoVars
    <2>2. TypeOK' /\ TopologyInv' /\ Listening'
      BY <1>0, <2>1, PhaseStep
    <2>3. host = agents
      BY <2>1 DEF Listening
    <2>4. Connected' /\ ListensBeforeConnect' /\ CrashCauses'
      BY <2>1, <2>3 DEF Connected, ListensBeforeConnect, CrashCauses
    <2> QED
      BY <2>2, <2>4
  <1>4. CASE ConnectAgents
    BY <1>4, ConnectAgentsStep
  <1>5. CASE ConnectAgentsReturn
    <2>1. /\ UNCHANGED <<topoVars, messaging, rate, host, work, started, failed>>
          /\ senders' = senders /\ agents' = agents /\ host' = host /\ pc' = pc
          /\ topology' = topology /\ validators' = validators
          /\ phase = "connecting" /\ pc \in {"returned", "panic"}
          /\ phase' = IF pc = "panic" THEN "panic" ELSE "messaging"
      BY <1>5 DEF ConnectAgentsReturn, topoVars
    <2>2. TypeOK' /\ TopologyInv' /\ Listening'
      BY <1>0, <2>1, PhaseStep
    <2>3. Connected' /\ ListensBeforeConnect'
      BY <2>1 DEF Connected, ListensBeforeConnect
    <2>4. pc = "panic" => agents = {} \/ EmptyList
      BY DEF TopologyInv, PanicCause, nonValidators, EmptyList
    <2>5. CrashCauses'
      BY <2>1, <2>4 DEF CrashCauses, EmptyList
    <2> QED
      BY <2>2, <2>3, <2>5
  <1>6. CASE StartMessaging
    <2>1. /\ UNCHANGED <<topoVars, messaging, rate, host, work, started, failed>>
          /\ agents' = agents /\ host' = host /\ pc' = pc /\ messaging' = messaging /\ rate' = rate
          /\ validators' = validators /\ phase = "messaging"
          /\ senders' = agents \cap validators
          /\ phase' = IF NoLeader(senders') \/ NoTicker THEN "panic" ELSE "looping"
      BY <1>6 DEF StartMessaging, topoVars, filterValidators
    <2>2. TypeOK' /\ TopologyInv' /\ Listening'
      BY <1>0, <2>1, PhaseStep
    <2>3. senders' = validators
      BY <2>1, AgentFacts DEF TopologyInv
    <2>4. Connected' /\ ListensBeforeConnect'
      BY <2>1, <2>3 DEF Connected, ListensBeforeConnect
    <2>5. CrashCauses'
      BY <2>1, <2>3 DEF CrashCauses, NoLeader, NoTicker
    <2> QED
      BY <2>2, <2>4, <2>5
  <1>7. CASE LoopReturns
    <2>1. /\ UNCHANGED <<topoVars, messaging, rate, host, work, started, failed>>
          /\ senders' = senders /\ agents' = agents /\ host' = host /\ pc' = pc
          /\ phase = "looping" /\ phase' = "done"
      BY <1>7 DEF LoopReturns, LoopOver, topoVars
    <2>2. TypeOK' /\ TopologyInv' /\ Listening'
      BY <1>0, <2>1, PhaseStep
    <2>3. Connected' /\ ListensBeforeConnect' /\ CrashCauses'
      BY <2>1 DEF Connected, ListensBeforeConnect, CrashCauses
    <2> QED
      BY <2>2, <2>3
  <1>8. CASE UNCHANGED vars
    <2>1. /\ UNCHANGED <<topoVars, messaging, rate, host, work, started, failed>>
          /\ UNCHANGED <<phase, senders, agents, validators, topology, pc>>
      BY <1>8 DEF vars, topoVars
    <2>2. TypeOK' /\ TopologyInv' /\ Listening'
      BY <1>0, <2>1, PhaseStep
    <2>3. Connected' /\ ListensBeforeConnect' /\ CrashCauses'
      BY <2>1 DEF Connected, ListensBeforeConnect, CrashCauses, EmptyList
    <2> QED
      BY <2>2, <2>3
  <1> QED
    BY <1>1, <1>2, <1>3, <1>4, <1>5, <1>6, <1>7, <1>8 DEF Next

LEMMA Invariance == Spec => []IInv
  BY InitIInv, NextIInv, PTL DEF Spec

\* The counts of StartAgents, the Hosts and the connections stay those of the
\* cluster's agents in every run of StartGossipBench.
THEOREM TypeCorrect == Spec => []TypeOK
  <1>1. IInv => TypeOK
    BY DEF IInv
  <1> QED
    BY <1>1, Invariance, PTL

\* From the first Connect of the topology on, every agent of the cluster has a
\* Host, however the start routines were interleaved.
THEOREM ListenFirst == Spec => []ListensBeforeConnect
  <1>1. IInv => ListensBeforeConnect
    BY DEF IInv
  <1> QED
    BY <1>1, Invariance, PTL

\* A run crashes for the causes EmptyList and CrashCauses name and for no other,
\* whatever the flags of the start command are.
THEOREM KnownCrashes == Spec => []CrashCauses
  <1>1. IInv => CrashCauses
    BY DEF IInv
  <1> QED
    BY <1>1, Invariance, PTL

\* The connections of a topology are made once within a run of the benchmark,
\* and as the super-cluster promises.
THEOREM TopologyInRun == Spec => [](NoPairTwice /\ CoveredOnReturn)
  <1>1. IInv => NoPairTwice /\ CoveredOnReturn
    BY Covered DEF IInv, TopologyInv
  <1> QED
    BY <1>1, Invariance, PTL

\* Seen from the topology, a run of StartGossipBench is one call of
\* MakeConnections on the cluster's agents and nothing else: whatever starting
\* and messaging do, they leave the agents, the lists and the connections alone
\* (start_gossip_cmd.go:242-247), so that what holds of Topologies holds here.
THEOREM RunsTopology == Spec => TopologySpec
  <1>1. Init => TopologyInit
    BY DEF Init
  <1>2. ASSUME [Next]_vars PROVE [MakeConnections]_topoVars
    <2>1. CASE ConnectAgents
      BY <2>1 DEF ConnectAgents
    <2>2. CASE UNCHANGED topoVars
      BY <2>2
    <2>3. [Next]_vars => ConnectAgents \/ UNCHANGED topoVars
      BY DEF Next, vars, StartAgents, ListenOk, ListenFails, RemoveAgent, StartAgentsReturn,
             ConnectAgentsReturn, StartMessaging, LoopReturns
    <2> QED
      BY <1>2, <2>1, <2>2, <2>3
  <1> QED
    BY <1>1, <1>2, PTL DEF Spec, TopologySpec

\* A run of the start command is bounded: what it has left is a natural number
\* that every step lowers.
LEMMA ListsLeftType ==
  ASSUME TopologyInv
  PROVE  /\ IsFiniteSet(PairsOf(agents)) /\ Cardinality(PairsOf(agents)) \in Nat
         /\ IsFiniteSet(pending) /\ Cardinality(pending) \in Nat
         /\ Cardinality(pending) <= Cardinality(PairsOf(agents))
         /\ ListsLeft \in Nat
  <1>1. IsFiniteSet(agents)
    BY AgentFacts DEF TopologyInv
  <1>2. IsFiniteSet(SUBSET agents)
    BY <1>1, FS_SUBSET
  <1>3. IsFiniteSet(PairsOf(agents))
    <2>1. PairsOf(agents) \subseteq SUBSET agents
      BY DEF PairsOf, kSubset
    <2> QED
      BY <1>2, <2>1, FS_Subset
  <1>4. /\ IsFiniteSet(pending) /\ Cardinality(pending) <= Cardinality(PairsOf(agents))
        /\ Cardinality(PairsOf(agents)) \in Nat /\ Cardinality(pending) \in Nat
    BY <1>3, FS_Subset, FS_CardinalityType DEF TopologyInv, TopologyTypeOK
  <1>5. 3 - stage \in Nat /\ (IF pc = "connect" THEN 1 ELSE 0) \in Nat
    BY DEF TopologyInv, TopologyTypeOK
  <1>6. ListsLeft \in Nat
    <2> DEFINE m == 3 - stage
               k == Cardinality(PairsOf(agents)) + 2
    <2>1. m \in Nat /\ k \in Nat
      BY <1>4, <1>5
    <2> HIDE DEF m, k
    <2>2. m * k \in Nat
      BY <2>1
    <2>3. ListsLeft = m * k + Cardinality(pending) + (IF pc = "connect" THEN 1 ELSE 0)
      BY DEF ListsLeft, m, k
    <2> QED
      BY <1>4, <1>5, <2>2, <2>3
  <1> QED
    BY <1>3, <1>4, <1>6

\* The next list: one less is left, however long it is.
LEMMA OneListLess ==
  ASSUME NEW m \in Nat, NEW k \in Nat, NEW q \in Nat, NEW c \in {0, 1}, q <= k
  PROVE  m * (k + 2) + q + c < (m + 1) * (k + 2)
  <1>1. (m + 1) * (k + 2) = m * (k + 2) + (k + 2)
    OBVIOUS
  <1>2. m * (k + 2) \in Nat
    OBVIOUS
  <1> QED
    BY <1>1, <1>2

LEMMA ConnectingCounts ==
  ASSUME TopologyInv, TopologyInv', MakeConnections
  PROVE  ListsLeft' < ListsLeft /\ ListsLeft' \in Nat /\ agents' = agents
  <1> DEFINE k == Cardinality(PairsOf(agents))
             q == Cardinality(pending)
             r == Cardinality(pending')
  <1>1. agents' = agents
    BY DEF MakeConnections, MakeLinear, MakeRandom, MakeValidators, MakeNonValidators, MakeCross,
           ConnectAll, Connect, ListDone, topoArgs
  <1>2. k \in Nat /\ q \in Nat /\ q <= k /\ IsFiniteSet(PairsOf(agents)) /\ IsFiniteSet(pending)
    BY ListsLeftType
  <1>3. pending' \subseteq PairsOf(agents)
    BY <1>1 DEF TopologyInv, TopologyTypeOK
  <1>4. r \in Nat /\ r <= k
    BY <1>2, <1>3, FS_Subset, FS_CardinalityType
  <1>5. ListsLeft' = (3 - stage') * (k + 2) + r + (IF pc' = "connect" THEN 1 ELSE 0)
    BY <1>1 DEF ListsLeft
  <1>6. ListsLeft = (3 - stage) * (k + 2) + q + (IF pc = "connect" THEN 1 ELSE 0)
    BY DEF ListsLeft
  <1>7. stage \in 0..3 /\ stage' \in 0..3
    BY DEF TopologyInv, TopologyTypeOK
  <1>8. CASE MakeLinear \/ MakeRandom \/ MakeValidators \/ MakeNonValidators \/ MakeCross
    <2>1. pc = "build" /\ stage' = stage + 1
      <3>1. CASE MakeLinear
        BY <3>1 DEF MakeLinear
      <3>2. CASE MakeRandom \/ MakeValidators
        BY <3>2 DEF MakeRandom, MakeValidators, ConnectAll
      <3>3. CASE MakeNonValidators \/ MakeCross
        BY <3>3 DEF MakeNonValidators, MakeCross, ConnectAll
      <3> QED
        BY <1>8, <3>1, <3>2, <3>3
    <2>2. pending = {}
      BY <2>1 DEF TopologyInv, Progress
    <2>3. q = 0
      BY <2>2, FS_EmptySet
    <2> DEFINE m == 3 - stage'
               c == IF pc' = "connect" THEN 1 ELSE 0
    <2>4. m \in Nat /\ 3 - stage = m + 1 /\ c \in {0, 1}
      BY <1>7, <2>1
    <2> HIDE DEF k, q, r, m, c
    <2>5. ListsLeft' = m * (k + 2) + r + c
      BY <1>5 DEF m, c
    <2>6. ListsLeft = (m + 1) * (k + 2)
      <3>1. ListsLeft = (m + 1) * (k + 2) + 0 + 0
        BY <1>6, <2>1, <2>3, <2>4
      <3>2. (m + 1) * (k + 2) \in Nat
        BY <1>2, <2>4
      <3> QED
        BY <3>1, <3>2
    <2>7. m * (k + 2) + r + c < (m + 1) * (k + 2)
      BY <1>2, <1>4, <2>4, OneListLess
    <2>8. m * (k + 2) \in Nat
      BY <1>2, <2>4
    <2> QED
      BY <1>1, <1>4, <2>4, <2>5, <2>6, <2>7, <2>8
  <1>9. CASE (\E e \in pending : Connect(e)) \/ ListDone
    <2>1. stage' = stage
      BY <1>9 DEF Connect, ListDone
    <2>2. \/ r = q - 1 /\ pc' = pc
          \/ r = q /\ pc = "connect" /\ pc' # "connect"
      <3>1. CASE \E e \in pending : Connect(e)
        <4>1. PICK e \in pending : pending' = pending \ {e} /\ pc' = pc
          BY <3>1 DEF Connect
        <4>2. r = q - 1
          BY <1>2, <4>1, FS_RemoveElement
        <4> QED
          BY <4>1, <4>2
      <3>2. CASE ListDone
        BY <3>2 DEF ListDone
      <3> QED
        BY <1>9, <3>1, <3>2
    <2> DEFINE x == (3 - stage) * (k + 2)
    <2>3. x \in Nat
      <3>1. 3 - stage \in Nat
        BY <1>7
      <3> QED
        BY <1>2, <3>1
    <2>4. ListsLeft' = x + r + (IF pc' = "connect" THEN 1 ELSE 0)
      BY <1>5, <2>1
    <2>5. ListsLeft = x + q + (IF pc = "connect" THEN 1 ELSE 0)
      BY <1>6
    <2> HIDE DEF k, q, r, x
    <2> QED
      BY <1>1, <1>2, <1>4, <2>2, <2>3, <2>4, <2>5
  <1> QED
    BY <1>8, <1>9 DEF MakeConnections

LEMMA RunLeftType ==
  ASSUME IInv
  PROVE  /\ ListsLeft \in Nat /\ CallsLeft \in Nat /\ RunLeft \in Nat
         /\ IsFiniteSet(ToListen) /\ Cardinality(ToListen) \in Nat
  <1>1. ListsLeft \in Nat /\ IsFiniteSet(agents)
    BY ListsLeftType, AgentFacts DEF IInv, TopologyInv
  <1>2. IsFiniteSet(ToListen) /\ Cardinality(ToListen) \in Nat
    BY <1>1, FS_Subset, FS_CardinalityType DEF ToListen
  <1>3. CallsLeft \in Nat
    BY DEF IInv, TypeOK, CallsLeft
  <1> QED
    BY <1>1, <1>2, <1>3 DEF RunLeft

LEMMA RunCounts ==
  ASSUME IInv, IInv', Next
  PROVE  RunLeft' < RunLeft
  <1> DEFINE x == ListsLeft
             y == Cardinality(ToListen)
             z == CallsLeft
             u == ListsLeft'
             v == Cardinality(ToListen')
             w == CallsLeft'
  <1>1. x \in Nat /\ y \in Nat /\ z \in Nat /\ IsFiniteSet(ToListen)
    BY RunLeftType
  <1>2. w \in Nat
    BY DEF IInv, TypeOK, CallsLeft
  <1>3. RunLeft = x + y + z /\ RunLeft' = u + v + w
    BY DEF RunLeft
  <1>4. ASSUME UNCHANGED topoVars PROVE u = x /\ agents' = agents
    BY <1>4 DEF ListsLeft, topoVars
  <1>5. CASE ConnectAgents
    <2>1. MakeConnections /\ w = z /\ work' = work
      BY <1>5 DEF ConnectAgents, CallsLeft
    <2>2. u < x /\ u \in Nat /\ agents' = agents
      BY <2>1, ConnectingCounts DEF IInv
    <2>3. ToListen' = ToListen
      BY <2>1, <2>2 DEF ToListen
    <2>4. v = y
      BY <2>3
    <2> HIDE DEF x, y, z, u, v, w
    <2> QED
      BY <1>1, <1>3, <2>1, <2>2, <2>4
  <1>6. CASE \E a \in agents : ListenOk(a) \/ ListenFails(a)
    <2>1. PICK a \in agents : ListenOk(a) \/ ListenFails(a)
      BY <1>6
    <2>2. /\ UNCHANGED topoVars /\ w = z /\ work[a] = "todo"
          /\ \E s \in {"returned", "remove"} : work' = [work EXCEPT ![a] = s]
      BY <2>1 DEF ListenOk, ListenFails, CallsLeft
    <2>3. u = x /\ agents' = agents
      BY <1>4, <2>2
    <2>4. ToListen' = ToListen \ {a} /\ a \in ToListen
      BY <2>2, <2>3 DEF ToListen, IInv, TypeOK
    <2>5. v = y - 1 /\ v \in Nat
      BY <1>1, <2>4, FS_RemoveElement, FS_CardinalityType
    <2> HIDE DEF x, y, z, u, v, w
    <2> QED
      BY <1>1, <1>3, <2>2, <2>3, <2>5
  <1>7. CASE \/ StartAgents \/ (\E a \in agents : RemoveAgent(a)) \/ StartAgentsReturn
             \/ ConnectAgentsReturn \/ StartMessaging \/ LoopReturns
    <2>1. UNCHANGED topoVars /\ work' = work
      BY <1>7 DEF StartAgents, RemoveAgent, StartAgentsReturn, ConnectAgentsReturn, StartMessaging,
                  LoopReturns
    <2>2. w < z
      BY <1>7 DEF StartAgents, RemoveAgent, StartAgentsReturn, ConnectAgentsReturn, StartMessaging,
                  LoopReturns, LoopOver, CallsLeft
    <2>3. u = x /\ agents' = agents
      BY <1>4, <2>1
    <2>4. ToListen' = ToListen
      BY <2>1, <2>3 DEF ToListen
    <2>5. v = y
      BY <2>4
    <2> HIDE DEF x, y, z, u, v, w
    <2> QED
      BY <1>1, <1>2, <1>3, <2>2, <2>3, <2>5
  <1> QED
    BY <1>5, <1>6, <1>7 DEF Next

\* Whatever the flags are and whatever fails, a run of StartGossipBench takes a
\* bounded number of steps, each of which leaves less (start_gossip_cmd.go:242-247).
THEOREM RunIsBounded == Spec => [](RunLeft \in Nat) /\ RunsOut
  <1>1. IInv => RunLeft \in Nat
    BY RunLeftType
  <1>2. IInv /\ IInv' /\ [Next]_vars => [RunLeft' < RunLeft]_vars
    BY RunCounts
  <1> QED
    BY <1>1, <1>2, Invariance, PTL DEF Spec, RunsOut

\* A path through A that was asked for crosses every set that divides A.
LEMMA CutOfPath ==
  ASSUME IInv, pc = "returned", NEW A \in SUBSET agents,
         PathThrough(A, Touched),
         NEW S, NEW x \in A \cap S, NEW y \in A \ S
  PROVE  \E e \in DOMAIN asked : asked[e] = 1 /\ e \cap S # {} /\ ~(e \subseteq S)
  <1>1. IsFiniteSet(A)
    BY AgentFacts, FS_Subset DEF IInv, TopologyInv
  <1>2. PICK s \in Orders(A) :
          \A k \in 1..(Cardinality(A) - 1) : {s[k], s[k + 1]} \in Touched
    BY DEF PathThrough
  <1>3. PICK k \in 1..(Cardinality(A) - 1) : (s[k] \in S) # (s[k + 1] \in S)
    BY <1>1, PathCut
  <1>4. {s[k], s[k + 1]} \in Touched
    BY <1>2
  <1>5. DOMAIN asked = PairsOf(agents) /\ Touched \subseteq PairsOf(agents)
    BY DEF IInv, TopologyInv, TopologyTypeOK, Touched
  <1>6. asked[{s[k], s[k + 1]}] = 1
    BY <1>4, <1>5, AskedOnce DEF IInv
  <1>7. {s[k], s[k + 1]} \cap S # {} /\ ~({s[k], s[k + 1]} \subseteq S)
    BY <1>3
  <1> QED
    BY <1>4, <1>5, <1>6, <1>7

LEMMA Reached == IInv => SendersReachAll
  <1> SUFFICES ASSUME IInv, phase = "looping" PROVE SendersReachAll
    BY DEF SendersReachAll
  <1>1. pc = "returned" /\ senders = validators
    BY DEF IInv, Connected
  <1> SUFFICES ASSUME topology # "random", NEW S \in (SUBSET agents) \ {{}, agents}
               PROVE  \E e \in DOMAIN asked : asked[e] = 1 /\ e \cap S # {} /\ ~(e \subseteq S)
    BY <1>1 DEF SendersReachAll
  <1> DEFINE NV == nonValidators
             T == Touched
  <1>2. /\ NV = agents \ validators /\ validators \subseteq agents
    BY AgentFacts DEF IInv, TopologyInv
  <1>3. PICK x \in agents : x \in S
    OBVIOUS
  <1>4. PICK y \in agents : y \notin S
    OBVIOUS
  <1>5. stage = LastStage /\ topology \in {"linear", "super-cluster"}
    BY <1>1 DEF IInv, TopologyInv, Progress, KnownTopologies
  <1>6. CASE topology = "linear"
    <2>1. PathThrough(agents, T)
      BY <1>1, <1>5, <1>6 DEF IInv, TopologyInv, Wired, LastStage
    <2> QED
      BY <1>1, <1>3, <1>4, <2>1, CutOfPath
  <1>7. CASE topology = "super-cluster"
    <2>1. validators # {} /\ PathThrough(validators, T)
      BY <1>1, <1>5, <1>7 DEF IInv, TopologyInv, Wired, LastStage
    <2>2. NV # {} => /\ PathThrough(NV, T)
                     /\ \A a \in NV : OnlyOne(a, validators, T)
      BY <1>1, <1>5, <1>7 DEF IInv, TopologyInv, Wired, LastStage
    <2> HIDE DEF NV, T
    <2>3. CASE \E p, q \in validators : p \in S /\ q \notin S
      BY <1>1, <1>2, <2>1, <2>3, CutOfPath DEF T
    <2>4. CASE \E p, q \in NV : p \in S /\ q \notin S
      BY <1>1, <1>2, <2>2, <2>4, CutOfPath DEF T
    <2>5. CASE /\ ~(\E p, q \in validators : p \in S /\ q \notin S)
               /\ ~(\E p, q \in NV : p \in S /\ q \notin S)
      <3>1. PICK a : a \in NV
        BY <1>2, <1>3, <1>4, <2>5
      <3>2. PICK v \in validators : {a, v} \in T
        BY <2>2, <3>1 DEF OnlyOne
      <3>3. (a \in S) # (v \in S)
        BY <1>2, <1>3, <1>4, <2>5, <3>1, <3>2
      <3>4. DOMAIN asked = PairsOf(agents) /\ T \subseteq PairsOf(agents)
        BY DEF IInv, TopologyInv, TopologyTypeOK, Touched, T
      <3>5. asked[{a, v}] = 1
        BY <1>1, <3>2, <3>4, AskedOnce DEF IInv, T
      <3>6. {a, v} \cap S # {} /\ ~({a, v} \subseteq S)
        BY <3>3
      <3> QED
        BY <3>2, <3>4, <3>5, <3>6
    <2> QED
      BY <2>3, <2>4, <2>5
  <1> QED
    BY <1>5, <1>6, <1>7

\* When Loop starts, the senders are all validators, and the connections that
\* the linear topology and the super-cluster asked for join every agent with
\* every other, for any number of them.
THEOREM LoopOnConnectedGraph == Spec => []SendersReachAll
  BY Reached, Invariance, PTL

-----------------------------------------------------------------------------
(***************************************************************************)
(* MultiRoutineRunner, on which StartAgents and ConnectAll run, for any    *)
(* arguments.                                                              *)
(***************************************************************************)
\* Facts about products and quotients behind the cut into blocks.
LEMMA Products ==
  ASSUME NEW a \in Nat, NEW b \in Nat, NEW c \in Nat
  PROVE  a * c \in Nat /\ (a < b => a * c + c <= b * c)
  <1>1. a * c \in Nat /\ b * c \in Nat
    OBVIOUS
  <1>2. ASSUME a < b PROVE a * c + c <= b * c
    <2> DEFINE d == b - (a + 1)
    <2>1. d \in Nat /\ b = a + 1 + d
      BY <1>2
    <2> HIDE DEF d
    <2>2. b * c = a * c + c + d * c
      BY <2>1
    <2>3. d * c \in Nat
      BY <2>1
    <2> QED
      BY <1>1, <2>2, <2>3
  <1> QED
    BY <1>1, <1>2

LEMMA Quotient ==
  ASSUME NEW a \in Nat, NEW b \in Nat \ {0}
  PROVE  /\ a \div b \in Nat
         /\ (a \div b) * b <= a /\ a < (a \div b) * b + b
  OBVIOUS

LEMMA Ceiling ==
  ASSUME NEW a \in Nat, NEW b \in Nat \ {0}
  PROVE  CeilDiv(a, b) \in Nat /\ a <= CeilDiv(a, b) * b
  <1> DEFINE x == a + b - 1
             q == x \div b
  <1>1. x \in Nat
    OBVIOUS
  <1>2. q \in Nat /\ x < q * b + b
    BY <1>1, Quotient
  <1>3. CeilDiv(a, b) = q
    BY DEF CeilDiv
  <1>4. q * b \in Nat
    BY <1>2
  <1> HIDE DEF q
  <1> QED
    BY <1>2, <1>3, <1>4

\* The indices of a block.
LEMMA BlockIs ==
  ASSUME itemsCount \in Nat, cntPerRoutine \in Nat, NEW r \in Nat, NEW k
  PROVE  k \in Block(r) <=> /\ k \in Nat /\ k < itemsCount
                                   /\ r * cntPerRoutine <= k
                                   /\ k < r * cntPerRoutine + cntPerRoutine
  <1> DEFINE p == r * cntPerRoutine
  <1>1. p \in Nat
    OBVIOUS
  <1>2. Block(r) = p..(p + (IF cntPerRoutine + p > itemsCount
                                   THEN itemsCount - p ELSE cntPerRoutine) - 1)
    BY DEF Block
  <1> HIDE DEF p
  <1> QED
    BY <1>1, <1>2 DEF p

\* No index is in two blocks, and every item is in one.
LEMMA BlocksApart ==
  ASSUME itemsCount \in Nat, cntPerRoutine \in Nat, NEW r \in Nat, NEW s \in Nat,
         NEW k \in Block(r), k \in Block(s)
  PROVE  r = s
  <1> DEFINE c == cntPerRoutine
  <1>1. /\ k \in Nat /\ r * c <= k /\ k < r * c + c /\ s * c <= k /\ k < s * c + c
    BY BlockIs
  <1>2. r * c \in Nat /\ s * c \in Nat /\ (r < s => r * c + c <= s * c) /\ (s < r => s * c + c <= r * c)
    BY Products
  <1> QED
    BY <1>1, <1>2

LEMMA BlocksCover ==
  ASSUME itemsCount \in Nat, routinesCount \in Nat \ {0},
         cntPerRoutine = CeilDiv(itemsCount, routinesCount),
         NEW k \in 0..(itemsCount - 1)
  PROVE  \E r \in 0..(routinesCount - 1) : k \in Block(r)
  <1> DEFINE c == cntPerRoutine
             r == k \div c
  <1>1. c \in Nat /\ itemsCount <= c * routinesCount
    BY Ceiling
  <1>2. c # 0
    BY <1>1
  <1>3. r \in Nat /\ r * c <= k /\ k < r * c + c
    BY <1>1, <1>2, Quotient
  <1> HIDE DEF r
  <1>4. r < routinesCount
    <2> SUFFICES ASSUME ~(r < routinesCount) PROVE FALSE
      OBVIOUS
    <2>1. routinesCount * c <= r * c
      <3>1. routinesCount * c \in Nat /\ (routinesCount < r => routinesCount * c + c <= r * c)
        BY <1>1, <1>3, Products
      <3>2. CASE routinesCount = r
        BY <1>1, <1>3, <3>2
      <3>3. CASE routinesCount < r
        BY <1>1, <1>3, <3>1, <3>3
      <3> QED
        BY <1>3, <3>2, <3>3
    <2>2. c * routinesCount = routinesCount * c
      BY <1>1
    <2> QED
      BY <1>1, <1>3, <2>1, <2>2
  <1>5. k \in Block(r)
    BY <1>1, <1>3, BlockIs
  <1> QED
    BY <1>3, <1>4, <1>5

\* The smallest element of a set of numbers is in it.
LEMMA MinIn ==
  ASSUME NEW S, S \subseteq Nat, S # {}
  PROVE  Min(S) \in S
  <1>1. PICK x \in S : \A y \in S : ~(<<y, x>> \in OpToRel(<, Nat))
    BY WFMin, NatLessThanWellFounded
  <1>2. \A y \in S : ~(y < x)
    BY <1>1 DEF OpToRel
  <1>3. \A y \in S : x <= y
    BY <1>2
  <1> QED
    BY <1>1, <1>3 DEF Min

LEMMA RunnerInitInv == RunnerInit => RunnerInv
  <1> SUFFICES ASSUME RunnerInit PROVE RunnerInv
    OBVIOUS
  <1>1. /\ itemsCount \in Nat /\ itemsPerRoutine \in Nat \ {0} /\ maxRoutines \in Nat \ {0}
        /\ runnerPc = "enter" /\ routinesCount = 0 /\ cntPerRoutine = 0 /\ spawned = 0
        /\ todo = [r \in Routines |-> {}]
        /\ rpc = [r \in Routines |-> "none"]
        /\ calls = [k \in Indices |-> 0]
        /\ success = 0 /\ failures = 0
    BY RunnerAssumption DEF RunnerInit
  <1>2. Types
    BY <1>1 DEF Types
  <1>3. Planned /\ AllDone
    BY <1>1 DEF Planned, AllDone
  <1>4. OnBlock
    BY <1>1 DEF OnBlock, Routines
  <1>5. Through
    BY <1>1 DEF Through
  <1>6. Calling = {} /\ Called = {}
    BY <1>1 DEF Calling, Called
  <1>7. Tally
    BY <1>1, <1>6, FS_EmptySet DEF Tally
  <1> QED
    BY <1>2, <1>3, <1>4, <1>5, <1>7 DEF RunnerInv

\* What every step keeps of the arguments, and the types it starts from.
LEMMA RunnerFacts ==
  ASSUME RunnerInv
  PROVE  /\ itemsCount \in Nat /\ itemsPerRoutine \in Nat \ {0} /\ maxRoutines \in Nat \ {0}
         /\ routinesCount \in Nat /\ routinesCount <= maxRoutines /\ cntPerRoutine \in Nat
         /\ spawned \in Nat /\ spawned <= routinesCount
         /\ Routines = 0..(maxRoutines - 1)
         /\ Indices = 0..(2 * itemsCount + 1)
         /\ todo \in [Routines -> SUBSET Int]
         /\ rpc \in [Routines -> {"none", "loop", "called", "done"}]
         /\ calls \in [Indices -> Nat]
         /\ success \in Nat /\ failures \in Nat
         /\ IsFiniteSet(Calling) /\ IsFiniteSet(Called)
         /\ Cardinality(Calling) \in Nat /\ Cardinality(Called) \in Nat
         /\ success + failures + Cardinality(Calling) = Cardinality(Called)
  <1>1. /\ itemsCount \in Nat /\ itemsPerRoutine \in Nat \ {0} /\ maxRoutines \in Nat \ {0}
        /\ routinesCount \in Nat /\ routinesCount <= maxRoutines /\ cntPerRoutine \in Nat
        /\ spawned \in Nat /\ spawned <= routinesCount
        /\ todo \in [Routines -> SUBSET Int]
        /\ rpc \in [Routines -> {"none", "loop", "called", "done"}]
        /\ calls \in [Indices -> Nat]
        /\ success \in Nat /\ failures \in Nat
    BY DEF RunnerInv, Types
  <1>2. /\ Routines = 0..(maxRoutines - 1)
        /\ Indices = 0..(2 * itemsCount + 1)
    BY DEF Routines, Indices
  <1>3. IsFiniteSet(Routines) /\ IsFiniteSet(Indices)
    BY <1>1, <1>2, FS_Interval
  <1>4. IsFiniteSet(Calling) /\ IsFiniteSet(Called)
    BY <1>3, FS_Subset DEF Calling, Called
  <1>5. Cardinality(Calling) \in Nat /\ Cardinality(Called) \in Nat
    BY <1>4, FS_CardinalityType
  <1>6. success + failures + Cardinality(Calling) = Cardinality(Called)
    BY DEF RunnerInv, Tally
  <1> QED
    BY <1>1, <1>2, <1>4, <1>5, <1>6

\* A step that starts no goroutine, calls nothing and counts nothing.
LEMMA SamePlan ==
  ASSUME UNCHANGED <<itemsCount, maxRoutines, cntPerRoutine>>
  PROVE  /\ Routines' = Routines /\ Indices' = Indices
         /\ \A r : Block(r)' = Block(r)
  BY DEF Routines, Indices, Block

LEMMA SplitStep ==
  ASSUME RunnerInv, Split
  PROVE  RunnerInv'
  <1>1. /\ runnerPc = "enter"
        /\ routinesCount' = Min({CeilDiv(itemsCount, itemsPerRoutine), maxRoutines})
        /\ IF routinesCount' = 0
           THEN runnerPc' = "panic" /\ cntPerRoutine' = cntPerRoutine
           ELSE runnerPc' = "spawn" /\ cntPerRoutine' = CeilDiv(itemsCount, routinesCount')
        /\ UNCHANGED <<itemsCount, itemsPerRoutine, maxRoutines, spawned, todo, rpc, calls,
                       success, failures, result>>
    BY DEF Split, runnerArgs
  <1>2. spawned = 0
    BY <1>1 DEF RunnerInv, Planned
  <1>3. routinesCount' \in Nat /\ routinesCount' <= maxRoutines
    <2> DEFINE q == CeilDiv(itemsCount, itemsPerRoutine)
    <2>1. q \in Nat /\ maxRoutines \in Nat
      BY RunnerFacts, Ceiling
    <2> HIDE DEF q
    <2>2. Min({q, maxRoutines}) = IF q <= maxRoutines THEN q ELSE maxRoutines
      <3>1. \E x \in {q, maxRoutines} : \A y \in {q, maxRoutines} : x =< y
        BY <2>1
      <3> QED
        BY <2>1, <3>1 DEF Min
    <2> QED
      BY <1>1, <2>1, <2>2 DEF q
  <1>4. cntPerRoutine' \in Nat
    BY <1>1, <1>3, RunnerFacts, Ceiling
  <1>5. Routines' = Routines /\ Indices' = Indices
    BY <1>1 DEF Routines, Indices
  <1>6. Types'
    BY <1>1, <1>2, <1>3, <1>4, <1>5, RunnerFacts DEF Types
  <1>7. CeilDiv(itemsCount, routinesCount)' = CeilDiv(itemsCount, routinesCount')
    BY <1>1 DEF CeilDiv
  <1>8. Planned' /\ AllDone'
    BY <1>1, <1>2, <1>3, <1>7 DEF Planned, AllDone
  <1>9. \A r \in Routines : rpc[r] = "none" /\ todo[r] = {}
    BY <1>2, RunnerFacts DEF RunnerInv, OnBlock
  <1>10. OnBlock'
    BY <1>1, <1>2, <1>5, <1>9, RunnerFacts DEF OnBlock
  <1>11. \A k \in Indices : ~(calls[k] > 0)
    BY <1>2 DEF RunnerInv, Through
  <1>12. Through'
    BY <1>1, <1>2, <1>5, <1>11 DEF Through
  <1>13. Tally'
    BY <1>1, <1>5 DEF RunnerInv, Tally, Calling, Called
  <1> QED
    BY <1>6, <1>8, <1>10, <1>12, <1>13 DEF RunnerInv

LEMMA SpawnStep ==
  ASSUME RunnerInv, Spawn
  PROVE  RunnerInv'
  <1>1. /\ runnerPc = "spawn" /\ spawned < routinesCount
        /\ todo' = [todo EXCEPT ![spawned] = Block(spawned)]
        /\ rpc' = [rpc EXCEPT ![spawned] = "loop"]
        /\ spawned' = spawned + 1
        /\ UNCHANGED <<itemsCount, itemsPerRoutine, maxRoutines, runnerPc, routinesCount,
                       cntPerRoutine, calls, success, failures, result>>
    BY DEF Spawn, runnerArgs, plan
  <1>2. spawned \in Routines /\ spawned' \in Nat
    BY <1>1, RunnerFacts
  <1>3. /\ Routines' = Routines /\ Indices' = Indices
        /\ \A r : Block(r)' = Block(r)
    BY <1>1, SamePlan
  <1>4. Block(spawned) \subseteq Int /\ Block(spawned) \subseteq Indices
    <2>1. \A k \in Block(spawned) : k \in Nat /\ k < itemsCount
      BY RunnerFacts, BlockIs
    <2> QED
      BY <2>1, RunnerFacts
  <1>5. Types'
    <2>1. todo' \in [Routines -> SUBSET Int]
      BY <1>1, <1>2, <1>4, RunnerFacts
    <2>2. rpc' \in [Routines -> {"none", "loop", "called", "done"}]
      BY <1>1, <1>2, RunnerFacts
    <2> QED
      BY <1>1, <1>2, <1>3, <2>1, <2>2 DEF RunnerInv, Types
  <1>6. CeilDiv(itemsCount, routinesCount)' = CeilDiv(itemsCount, routinesCount)
    BY <1>1 DEF CeilDiv
  <1>7. Planned' /\ AllDone'
    BY <1>1, <1>6 DEF RunnerInv, Planned, AllDone
  <1>8. ASSUME NEW r \in Routines
        PROVE  /\ rpc'[r] = "none" <=> r >= spawned'
               /\ todo'[r] \subseteq Block(r)
               /\ rpc'[r] \in {"none", "done"} => todo'[r] = {}
    <2>1. /\ rpc[r] = "none" <=> r >= spawned
          /\ todo[r] \subseteq Block(r)
          /\ rpc[r] \in {"none", "done"} => todo[r] = {}
      BY DEF RunnerInv, OnBlock
    <2>2. CASE r = spawned
      BY <1>1, <1>2, <2>2, RunnerFacts
    <2>3. CASE r # spawned
      <3>1. rpc'[r] = rpc[r] /\ todo'[r] = todo[r]
        BY <1>1, <2>3, RunnerFacts
      <3>2. r \in Int /\ spawned \in Int /\ spawned' = spawned + 1
        BY <1>1, RunnerFacts DEF Routines
      <3>3. r >= spawned <=> r >= spawned'
        BY <2>3, <3>2
      <3> QED
        BY <2>1, <3>1, <3>3
    <2> QED
      BY <2>2, <2>3
  <1>9. OnBlock'
    BY <1>3, <1>8 DEF OnBlock
  <1>10. \A k \in Block(spawned) : calls[k] = 0
    <2> SUFFICES ASSUME NEW k \in Block(spawned), calls[k] # 0 PROVE FALSE
      OBVIOUS
    <2>1. calls[k] > 0 /\ k \in Indices
      BY <1>4, RunnerFacts
    <2>2. PICK r \in 0..(spawned - 1) : k \in Block(r)
      BY <2>1 DEF RunnerInv, Through
    <2>3. r = spawned
      BY <2>2, RunnerFacts, BlocksApart
    <2> QED
      BY <2>2, <2>3, RunnerFacts
  <1>11. \A r \in 0..(spawned' - 1) : \A k \in Block(r) :
            calls'[k] = (IF k \in todo'[r] THEN 0 ELSE 1)
    <2> SUFFICES ASSUME NEW r \in 0..(spawned' - 1), NEW k \in Block(r)
                 PROVE  calls'[k] = (IF k \in todo'[r] THEN 0 ELSE 1)
      OBVIOUS
    <2>1. CASE r = spawned
      BY <1>1, <1>2, <1>10, <2>1, RunnerFacts
    <2>2. CASE r # spawned
      <3>0. /\ spawned \in Nat /\ maxRoutines \in Nat /\ spawned <= maxRoutines
            /\ Routines = 0..(maxRoutines - 1) /\ spawned' = spawned + 1
        BY <1>1, RunnerFacts
      <3>1. r \in 0..(spawned - 1) /\ r \in Routines
        BY <2>2, <3>0
      <3>2. todo'[r] = todo[r]
        BY <1>1, <2>2, <3>1, RunnerFacts
      <3> QED
        BY <1>1, <3>1, <3>2 DEF RunnerInv, Through
    <2> QED
      BY <2>1, <2>2
  <1>12. \A k \in Indices : calls'[k] > 0 => \E r \in 0..(spawned' - 1) : k \in Block(r)
    <2>1. 0..(spawned - 1) \subseteq 0..(spawned' - 1)
      BY <1>1, RunnerFacts
    <2> QED
      BY <1>1, <2>1 DEF RunnerInv, Through
  <1>13. Through'
    BY <1>3, <1>11, <1>12 DEF Through
  <1>14. Tally'
    <2>1. Called' = Called
      BY <1>1, <1>3 DEF Called
    <2>2. rpc[spawned] = "none"
      BY <1>2, RunnerFacts DEF RunnerInv, OnBlock
    <2>3. Calling' = Calling
      BY <1>1, <1>2, <1>3, <2>2, RunnerFacts DEF Calling
    <2> QED
      BY <1>1, <2>1, <2>3 DEF RunnerInv, Tally
  <1> QED
    BY <1>5, <1>7, <1>9, <1>13, <1>14 DEF RunnerInv

\* Steps of the caller and of a goroutine that leave blocks and calls alone.
LEMMA QuietStep ==
  ASSUME RunnerInv,
         UNCHANGED <<itemsCount, itemsPerRoutine, maxRoutines, routinesCount, cntPerRoutine,
                     spawned, todo, calls>>
  PROVE  /\ Routines' = Routines /\ Indices' = Indices
         /\ \A r : Block(r)' = Block(r)
         /\ CeilDiv(itemsCount, routinesCount)' = CeilDiv(itemsCount, routinesCount)
         /\ Through'
         /\ Called' = Called
  <1>1. /\ Routines' = Routines /\ Indices' = Indices
        /\ \A r : Block(r)' = Block(r)
    BY SamePlan
  <1>2. CeilDiv(itemsCount, routinesCount)' = CeilDiv(itemsCount, routinesCount)
    BY DEF CeilDiv
  <1>3. Through'
    BY <1>1 DEF RunnerInv, Through
  <1>4. Called' = Called
    BY <1>1 DEF Called
  <1> QED
    BY <1>1, <1>2, <1>3, <1>4

LEMMA CallerStays ==
  ASSUME RunnerInv, runnerPc' \in {"enter", "spawn", "wait", "returned", "panic"},
         UNCHANGED <<itemsCount, itemsPerRoutine, maxRoutines, routinesCount, cntPerRoutine,
                     spawned, todo, rpc, calls, success, failures>>
  PROVE  Types' /\ OnBlock' /\ Through' /\ Tally'
  <1>1. /\ Routines' = Routines /\ Indices' = Indices
        /\ \A r : Block(r)' = Block(r)
        /\ Through' /\ Called' = Called
    BY QuietStep
  <1>2. Types'
    BY <1>1 DEF RunnerInv, Types
  <1>3. OnBlock'
    BY <1>1 DEF RunnerInv, OnBlock
  <1>4. Calling' = Calling
    BY <1>1 DEF Calling
  <1>5. Tally'
    BY <1>1, <1>4 DEF RunnerInv, Tally
  <1> QED
    BY <1>1, <1>2, <1>3, <1>5

LEMMA WaitSteps ==
  ASSUME RunnerInv, SpawnEnd \/ Return \/ UNCHANGED runnerVars
  PROVE  RunnerInv'
  <1>1. UNCHANGED <<itemsCount, itemsPerRoutine, maxRoutines, routinesCount, cntPerRoutine,
                    spawned, todo, rpc, calls, success, failures>>
    BY DEF SpawnEnd, Return, runnerVars, runnerArgs, plan
  <1>2. runnerPc' \in {"enter", "spawn", "wait", "returned", "panic"}
    BY DEF SpawnEnd, Return, runnerVars, RunnerInv, Types
  <1>3. Types' /\ OnBlock' /\ Through' /\ Tally'
    BY <1>1, <1>2, CallerStays
  <1>4. /\ Routines' = Routines
        /\ CeilDiv(itemsCount, routinesCount)' = CeilDiv(itemsCount, routinesCount)
    BY <1>1, QuietStep
  <1>5. CASE SpawnEnd
    <2>1. runnerPc = "spawn" /\ spawned = routinesCount /\ runnerPc' = "wait"
      BY <1>5 DEF SpawnEnd
    <2> QED
      BY <1>1, <1>3, <1>4, <2>1 DEF RunnerInv, Planned, AllDone
  <1>6. CASE Return
    <2>1. /\ runnerPc = "wait" /\ runnerPc' = "returned" /\ result' = <<success, failures>>
          /\ \A r \in 0..(routinesCount - 1) : rpc[r] = "done"
      BY <1>6 DEF Return, GroupEmpty
    <2>2. spawned = routinesCount
      BY <2>1 DEF RunnerInv, Planned
    <2>3. \A r \in Routines : rpc[r] \in {"none", "done"}
      <3> SUFFICES ASSUME NEW r \in Routines PROVE rpc[r] \in {"none", "done"}
        OBVIOUS
      <3>1. r >= spawned => rpc[r] = "none"
        BY DEF RunnerInv, OnBlock
      <3>2. r < spawned => r \in 0..(routinesCount - 1)
        BY <2>2, RunnerFacts
      <3>3. r \in Int /\ spawned \in Int
        BY RunnerFacts
      <3> QED
        BY <2>1, <3>1, <3>2, <3>3
    <2>4. AllDone'
      BY <1>1, <1>4, <2>1, <2>3 DEF AllDone
    <2>5. Planned'
      BY <1>1, <1>4, <2>1, <2>2 DEF RunnerInv, Planned
    <2> QED
      BY <1>3, <2>4, <2>5 DEF RunnerInv
  <1>7. CASE UNCHANGED runnerVars
    <2>1. runnerPc' = runnerPc /\ result' = result
      BY <1>7 DEF runnerVars
    <2>2. Planned' /\ AllDone'
      BY <1>1, <1>4, <2>1 DEF RunnerInv, Planned, AllDone
    <2> QED
      BY <1>3, <2>2 DEF RunnerInv
  <1> QED
    BY <1>5, <1>6, <1>7

\* fn is called for an index that was not called before.
LEMMA CallStep ==
  ASSUME RunnerInv, NEW r \in Routines, Call(r)
  PROVE  RunnerInv'
  <1> DEFINE k == Min(todo[r])
  <1>1. /\ rpc[r] = "loop" /\ todo[r] # {}
        /\ calls' = [calls EXCEPT ![k] = @ + 1]
        /\ todo' = [todo EXCEPT ![r] = @ \ {k}]
        /\ rpc' = [rpc EXCEPT ![r] = "called"]
        /\ UNCHANGED <<itemsCount, itemsPerRoutine, maxRoutines, runnerPc, routinesCount,
                       cntPerRoutine, spawned, success, failures, result>>
    BY DEF Call, runnerArgs, plan
  <1>2. r \in Nat /\ ~(r >= spawned) /\ todo[r] \subseteq Block(r)
    <2>1. r \in Nat
      BY RunnerFacts
    <2>2. (rpc[r] = "none" <=> r >= spawned) /\ todo[r] \subseteq Block(r)
      BY DEF RunnerInv, OnBlock
    <2> QED
      BY <1>1, <2>1, <2>2
  <1>3. \A j \in Block(r) : j \in Nat /\ j < itemsCount
    BY <1>2, RunnerFacts, BlockIs
  <1>4. todo[r] \subseteq Nat
    BY <1>2, <1>3
  <1>5. k \in todo[r]
    BY <1>1, <1>4, MinIn
  <1> HIDE DEF k
  <1>6. k \in Block(r) /\ k \in Indices
    BY <1>2, <1>3, <1>5, RunnerFacts
  <1>7. r \in 0..(spawned - 1)
    BY <1>2, RunnerFacts
  <1>8. calls[k] = 0
    BY <1>5, <1>6, <1>7 DEF RunnerInv, Through
  <1>9. /\ calls' \in [Indices -> Nat] /\ calls'[k] = 1
        /\ \A j \in Indices : j # k => calls'[j] = calls[j]
    BY <1>1, <1>6, <1>8, RunnerFacts
  <1>10. /\ todo' \in [Routines -> SUBSET Int] /\ todo'[r] = todo[r] \ {k}
         /\ \A s \in Routines : s # r => todo'[s] = todo[s]
    BY <1>1, RunnerFacts
  <1>11. /\ rpc' \in [Routines -> {"none", "loop", "called", "done"}] /\ rpc'[r] = "called"
         /\ \A s \in Routines : s # r => rpc'[s] = rpc[s]
    BY <1>1, RunnerFacts
  <1>12. /\ Routines' = Routines /\ Indices' = Indices
         /\ \A s : Block(s)' = Block(s)
    BY <1>1, SamePlan
  <1>13. Types'
    BY <1>1, <1>9, <1>10, <1>11, <1>12 DEF RunnerInv, Types
  <1>14. CeilDiv(itemsCount, routinesCount)' = CeilDiv(itemsCount, routinesCount)
    BY <1>1 DEF CeilDiv
  <1>15. Planned'
    BY <1>1, <1>14 DEF RunnerInv, Planned
  <1>16. AllDone'
    <2>1. runnerPc # "returned"
      BY <1>1 DEF RunnerInv, AllDone
    <2> QED
      BY <1>1, <2>1 DEF AllDone
  <1>17. ASSUME NEW s \in Routines
         PROVE  /\ rpc'[s] = "none" <=> s >= spawned
                /\ todo'[s] \subseteq Block(s)
                /\ rpc'[s] \in {"none", "done"} => todo'[s] = {}
    <2>1. /\ rpc[s] = "none" <=> s >= spawned
          /\ todo[s] \subseteq Block(s)
          /\ rpc[s] \in {"none", "done"} => todo[s] = {}
      BY DEF RunnerInv, OnBlock
    <2>2. CASE s = r
      BY <1>2, <1>10, <1>11, <2>2
    <2>3. CASE s # r
      BY <1>10, <1>11, <2>1, <2>3
    <2> QED
      BY <2>2, <2>3
  <1>18. OnBlock'
    BY <1>1, <1>12, <1>17 DEF OnBlock
  <1>19. ASSUME NEW s \in 0..(spawned - 1), NEW j \in Block(s)
         PROVE  calls'[j] = (IF j \in todo'[s] THEN 0 ELSE 1)
    <2>1. s \in Nat /\ s \in Routines
      BY RunnerFacts
    <2>2. j \in Nat /\ j < itemsCount
      BY <2>1, RunnerFacts, BlockIs
    <2>3. j \in Indices
      <3>1. itemsCount \in Nat /\ Indices = 0..(2 * itemsCount + 1)
        BY RunnerFacts
      <3> QED
        BY <2>2, <3>1
    <2>4. calls[j] = (IF j \in todo[s] THEN 0 ELSE 1)
      BY DEF RunnerInv, Through
    <2>5. CASE j = k
      <3>1. s = r
        BY <1>2, <1>6, <2>1, <2>5, RunnerFacts, BlocksApart
      <3> QED
        BY <1>9, <1>10, <2>5, <3>1
    <2>6. CASE j # k
      <3>1. calls'[j] = calls[j]
        BY <1>9, <2>3, <2>6
      <3>2. j \in todo'[s] <=> j \in todo[s]
        BY <1>10, <2>1, <2>6
      <3> QED
        BY <2>4, <3>1, <3>2
    <2> QED
      BY <2>5, <2>6
  <1>20. ASSUME NEW j \in Indices, calls'[j] > 0
         PROVE  \E s \in 0..(spawned - 1) : j \in Block(s)
    <2>1. CASE j = k
      BY <1>6, <1>7, <2>1
    <2>2. CASE j # k
      BY <1>9, <1>20, <2>2 DEF RunnerInv, Through
    <2> QED
      BY <2>1, <2>2
  <1>21. Through'
    BY <1>1, <1>12, <1>19, <1>20 DEF Through
  <1>22. Tally'
    <2>1. Calling' = Calling \cup {r}
      BY <1>11, <1>12 DEF Calling
    <2>2. Called' = Called \cup {k}
      BY <1>6, <1>9, <1>12 DEF Called
    <2>3. r \notin Calling /\ k \notin Called
      BY <1>1, <1>8 DEF Calling, Called
    <2>4. /\ Cardinality(Calling') = Cardinality(Calling) + 1
          /\ Cardinality(Called') = Cardinality(Called) + 1
      BY <2>1, <2>2, <2>3, RunnerFacts, FS_AddElement
    <2> DEFINE x == Cardinality(Calling)
               y == Cardinality(Called)
    <2>5. /\ x \in Nat /\ y \in Nat /\ success \in Nat /\ failures \in Nat
          /\ success + failures + x = y
      BY RunnerFacts
    <2> HIDE DEF x, y
    <2>6. success + failures + (x + 1) = y + 1
      BY <2>5
    <2> QED
      BY <1>1, <2>4, <2>6 DEF Tally, x, y
  <1> QED
    BY <1>13, <1>15, <1>16, <1>18, <1>21, <1>22 DEF RunnerInv

\* A goroutine between two calls of fn: it counts one, or leaves the group.
LEMMA CountStep ==
  ASSUME RunnerInv, NEW r \in Routines, Count(r) \/ Done(r)
  PROVE  RunnerInv'
  <1>1. UNCHANGED <<itemsCount, itemsPerRoutine, maxRoutines, runnerPc, routinesCount,
                    cntPerRoutine, spawned, todo, calls, result>>
    BY DEF Count, Done, runnerArgs, plan
  <1>2. /\ Routines' = Routines /\ Indices' = Indices
        /\ \A s : Block(s)' = Block(s)
        /\ CeilDiv(itemsCount, routinesCount)' = CeilDiv(itemsCount, routinesCount)
        /\ Through' /\ Called' = Called
    BY <1>1, QuietStep
  <1>3. \/ /\ rpc[r] = "called" /\ rpc' = [rpc EXCEPT ![r] = "loop"]
           /\ success' = success + 1 /\ failures' = failures
        \/ /\ rpc[r] = "called" /\ rpc' = [rpc EXCEPT ![r] = "loop"]
           /\ failures' = failures + 1 /\ success' = success
        \/ /\ rpc[r] = "loop" /\ todo[r] = {} /\ rpc' = [rpc EXCEPT ![r] = "done"]
           /\ success' = success /\ failures' = failures
    BY DEF Count, Done, Finished
  <1>4. /\ rpc' \in [Routines -> {"none", "loop", "called", "done"}]
        /\ \A s \in Routines : s # r => rpc'[s] = rpc[s]
        /\ rpc[r] \in {"loop", "called"} /\ rpc'[r] \in {"loop", "done"}
        /\ rpc'[r] = "done" => todo[r] = {}
    BY <1>3, RunnerFacts
  <1>5. success' \in Nat /\ failures' \in Nat
    <2>1. success \in Nat /\ failures \in Nat
      BY RunnerFacts
    <2> QED
      BY <1>3, <2>1
  <1>6. Types'
    BY <1>1, <1>2, <1>4, <1>5 DEF RunnerInv, Types
  <1>7. Planned'
    BY <1>1, <1>2 DEF RunnerInv, Planned
  <1>8. AllDone'
    <2>1. runnerPc # "returned"
      BY <1>4 DEF RunnerInv, AllDone
    <2> QED
      BY <1>1, <2>1 DEF AllDone
  <1>9. ASSUME NEW s \in Routines
        PROVE  /\ rpc'[s] = "none" <=> s >= spawned
               /\ todo[s] \subseteq Block(s)
               /\ rpc'[s] \in {"none", "done"} => todo[s] = {}
    <2>1. /\ rpc[s] = "none" <=> s >= spawned
          /\ todo[s] \subseteq Block(s)
          /\ rpc[s] \in {"none", "done"} => todo[s] = {}
      BY DEF RunnerInv, OnBlock
    <2>2. CASE s = r
      BY <1>4, <2>1, <2>2
    <2>3. CASE s # r
      BY <1>4, <2>1, <2>3
    <2> QED
      BY <2>2, <2>3
  <1>10. OnBlock'
    BY <1>1, <1>2, <1>9 DEF OnBlock
  <1>11. Tally'
    <2> DEFINE x == Cardinality(Calling)
               y == Cardinality(Called)
    <2>1. /\ x \in Nat /\ y \in Nat /\ success \in Nat /\ failures \in Nat
          /\ success + failures + x = y
      BY RunnerFacts
    <2>2. CASE rpc[r] = "called"
      <3>1. rpc'[r] = "loop"
        BY <1>3, <2>2, RunnerFacts
      <3>2. Calling' = Calling \ {r} /\ r \in Calling
        BY <1>2, <1>4, <2>2, <3>1 DEF Calling
      <3>3. Cardinality(Calling') = x - 1
        BY <3>2, RunnerFacts, FS_RemoveElement
      <3> HIDE DEF x, y
      <3>4. success' + failures' + (x - 1) = y
        <4>1. CASE success' = success + 1 /\ failures' = failures
          BY <2>1, <4>1
        <4>2. CASE success' = success /\ failures' = failures + 1
          BY <2>1, <4>2
        <4> QED
          BY <1>3, <2>2, <4>1, <4>2
      <3> QED
        BY <1>2, <3>3, <3>4 DEF Tally, y
    <2>3. CASE rpc[r] = "loop"
      <3>1. rpc'[r] = "done" /\ success' = success /\ failures' = failures
        BY <1>3, <2>3, RunnerFacts
      <3>2. Calling' = Calling
        BY <1>2, <1>4, <2>3, <3>1 DEF Calling
      <3> QED
        BY <1>2, <3>1, <3>2 DEF RunnerInv, Tally
    <2> QED
      BY <1>4, <2>2, <2>3
  <1> QED
    BY <1>2, <1>6, <1>7, <1>8, <1>10, <1>11 DEF RunnerInv

LEMMA RunnerInvariance == RunnerSpec => []RunnerInv
  <1>1. ASSUME RunnerInv, [RunnerNext]_runnerVars PROVE RunnerInv'
    <2>1. CASE CallerStep
      BY <1>1, <2>1, SplitStep, SpawnStep, WaitSteps DEF CallerStep
    <2>2. CASE \E r \in Routines : RoutineStep(r)
      BY <1>1, <2>2, CallStep, CountStep DEF RoutineStep
    <2>3. CASE UNCHANGED runnerVars
      BY <1>1, <2>3, WaitSteps
    <2> QED
      BY <1>1, <2>1, <2>2, <2>3 DEF RunnerNext
  <1> QED
    BY <1>1, RunnerInitInv, PTL DEF RunnerSpec

LEMMA AllCalled == RunnerInv => ReturnsComplete
  <1> SUFFICES ASSUME RunnerInv, runnerPc = "returned" PROVE ReturnsComplete
    BY DEF ReturnsComplete
  <1>1. /\ routinesCount > 0 /\ cntPerRoutine = CeilDiv(itemsCount, routinesCount)
        /\ spawned = routinesCount
    BY DEF RunnerInv, Planned
  <1>2. /\ result = <<success, failures>>
        /\ \A r \in Routines : rpc[r] \in {"none", "done"} /\ todo[r] = {}
    BY DEF RunnerInv, AllDone, OnBlock
  <1>3. ASSUME NEW k \in Indices PROVE calls[k] = (IF k < itemsCount THEN 1 ELSE 0)
    <2>0. k \in Nat /\ calls[k] \in Nat
      BY RunnerFacts
    <2>1. CASE k < itemsCount
      <3>1. k \in 0..(itemsCount - 1) /\ routinesCount \in Nat \ {0}
        BY <1>1, <2>0, <2>1, RunnerFacts
      <3>2. PICK r \in 0..(routinesCount - 1) : k \in Block(r)
        BY <1>1, <3>1, RunnerFacts, BlocksCover
      <3>3. r \in Routines /\ r \in 0..(spawned - 1)
        BY <1>1, RunnerFacts
      <3>4. calls[k] = 1
        BY <1>2, <3>2, <3>3 DEF RunnerInv, Through
      <3> QED
        BY <2>1, <3>4
    <2>2. CASE ~(k < itemsCount)
      <3>1. ~(calls[k] > 0)
        <4> SUFFICES ASSUME calls[k] > 0 PROVE FALSE
          OBVIOUS
        <4>1. PICK r \in 0..(spawned - 1) : k \in Block(r)
          BY DEF RunnerInv, Through
        <4>2. r \in Nat
          BY RunnerFacts
        <4> QED
          BY <2>2, <4>1, <4>2, RunnerFacts, BlockIs
      <3> QED
        BY <2>0, <2>2, <3>1
    <2> QED
      BY <2>1, <2>2
  <1>4. Calling = {}
    BY <1>2 DEF Calling
  <1>5. Called = 0..(itemsCount - 1)
    <2>1. itemsCount \in Nat /\ Indices = 0..(2 * itemsCount + 1)
      BY RunnerFacts
    <2>2. \A k \in Indices : calls[k] = 1 <=> k < itemsCount
      BY <1>3
    <2>3. \A k : k \in 0..(itemsCount - 1) <=> k \in Indices /\ k < itemsCount
      BY <2>1
    <2> QED
      BY <2>2, <2>3 DEF Called
  <1>6. Cardinality(Calling) = 0 /\ Cardinality(Called) = itemsCount
    <2>1. itemsCount \in Nat
      BY RunnerFacts
    <2>2. Cardinality(0..(itemsCount - 1)) = itemsCount
      BY <2>1, FS_Interval
    <2> QED
      BY <1>4, <1>5, <2>2, FS_EmptySet
  <1>7. success + failures = itemsCount
    BY <1>6, RunnerFacts
  <1> QED
    BY <1>2, <1>3, <1>7 DEF ReturnsComplete

\* Whatever its arguments are, when MultiRoutineRunner returns, fn has been
\* called once for every item and for nothing past the last one, and what it
\* returns counts every call (utils.go:13-54).
THEOREM EveryItemOnce == RunnerSpec => []ReturnsComplete
  BY AllCalled, RunnerInvariance, PTL

\* The same seen while it runs, step by step: the caller's and the goroutines'
\* steps that start, call, count or return are those of ForEach.
LEMMA CeilDivZero ==
  ASSUME NEW a \in Nat, NEW b \in Nat \ {0}
  PROVE  CeilDiv(a, b) = 0 <=> a = 0
  <1> DEFINE q == CeilDiv(a, b)
  <1>1. q \in Nat /\ a <= q * b
    BY Ceiling
  <1>2. CASE a = 0
    <2>1. b - 1 \in Nat /\ q = (b - 1) \div b
      BY <1>2 DEF CeilDiv
    <2>2. q * b <= b - 1
      BY <2>1, Quotient
    <2>3. 0 < q => 0 * b + b <= q * b
      BY <1>1, Products
    <2> HIDE DEF q
    <2>4. q * b \in Nat
      BY <1>1
    <2> QED
      BY <1>1, <1>2, <2>2, <2>3, <2>4 DEF q
  <1>3. CASE a # 0
    <2> HIDE DEF q
    <2>1. q = 0 => q * b = 0
      BY <1>1
    <2> QED
      BY <1>1, <1>3, <2>1 DEF q
  <1> QED
    BY <1>2, <1>3

LEMMA ItemsAreIndices ==
  ASSUME RunnerInv
  PROVE  itemsCount \in Nat /\ \A k \in 0..(itemsCount - 1) : k \in Indices /\ calls[k] \in Nat
  <1>1. /\ itemsCount \in Nat /\ Indices = 0..(2 * itemsCount + 1)
        /\ calls \in [Indices -> Nat]
    BY RunnerFacts
  <1>2. \A k \in 0..(itemsCount - 1) : k \in Indices
    BY <1>1
  <1> QED
    BY <1>1, <1>2

LEMMA SplitBegins ==
  ASSUME RunnerInv, Split
  PROVE  Each!Begin
  <1>1. /\ runnerPc = "enter"
        /\ routinesCount' = Min({CeilDiv(itemsCount, itemsPerRoutine), maxRoutines})
        /\ runnerPc' = (IF routinesCount' = 0 THEN "panic" ELSE "spawn")
        /\ UNCHANGED <<itemsCount, maxRoutines, rpc, calls, success, failures, result>>
    BY DEF Split, runnerArgs
  <1>2. ToCall = 0..(itemsCount - 1)
    <2>1. spawned = 0
      BY <1>1 DEF RunnerInv, Planned
    <2>2. \A k \in Indices : ~(calls[k] > 0)
      BY <2>1 DEF RunnerInv, Through
    <2>3. \A k \in 0..(itemsCount - 1) : calls[k] = 0
      BY <2>2, ItemsAreIndices
    <2> QED
      BY <2>3 DEF ToCall
  <1>3. routinesCount' = 0 <=> itemsCount = 0
    <2> DEFINE q == CeilDiv(itemsCount, itemsPerRoutine)
    <2>1. q \in Nat /\ maxRoutines \in Nat \ {0} /\ (q = 0 <=> itemsCount = 0)
      BY RunnerFacts, Ceiling, CeilDivZero
    <2> HIDE DEF q
    <2>2. Min({q, maxRoutines}) = IF q <= maxRoutines THEN q ELSE maxRoutines
      <3>1. \E x \in {q, maxRoutines} : \A y \in {q, maxRoutines} : x =< y
        BY <2>1
      <3> QED
        BY <2>1, <3>1 DEF Min
    <2> QED
      BY <1>1, <2>1, <2>2 DEF q
  <1>4. ToCall = {} <=> itemsCount = 0
    <2>1. itemsCount \in Nat
      BY RunnerFacts
    <2> QED
      BY <1>2, <2>1
  <1>5. Outline = "enter" /\ Outline' = IF ToCall = {} THEN "panic" ELSE "run"
    BY <1>1, <1>3, <1>4 DEF Outline
  <1>6. ToCall' = ToCall /\ Calling' = Calling
    BY <1>1 DEF ToCall, Calling, Routines
  <1> QED
    BY <1>1, <1>5, <1>6 DEF Each!Begin

\* While a goroutine is between its start and its end, the runner runs.
LEMMA RunsMeanwhile ==
  ASSUME RunnerInv, NEW r \in Routines, rpc[r] \in {"loop", "called"}
  PROVE  Outline = "run" /\ r \in 0..(spawned - 1)
  <1>1. r \in Nat /\ spawned \in Nat /\ (rpc[r] = "none" <=> r >= spawned)
    <2>1. r \in Nat /\ spawned \in Nat
      BY RunnerFacts
    <2> QED
      BY <2>1 DEF RunnerInv, OnBlock
  <1>2. r < spawned
    BY <1>1
  <1>3. runnerPc \notin {"enter", "panic"}
    BY <1>1, <1>2 DEF RunnerInv, Planned
  <1>4. runnerPc # "returned"
    BY DEF RunnerInv, AllDone
  <1>5. runnerPc \in {"spawn", "wait"}
    BY <1>3, <1>4 DEF RunnerInv, Types
  <1> QED
    BY <1>1, <1>2, <1>5 DEF Outline

LEMMA CallCalls ==
  ASSUME RunnerInv, NEW r \in Routines, Call(r)
  PROVE  \E k \in ToCall : Each!CallFn(k)
  <1> DEFINE k == Min(todo[r])
  <1>1. /\ rpc[r] = "loop" /\ todo[r] # {}
        /\ calls' = [calls EXCEPT ![k] = @ + 1]
        /\ rpc' = [rpc EXCEPT ![r] = "called"]
        /\ UNCHANGED <<itemsCount, maxRoutines, runnerPc, success, failures, result>>
    BY DEF Call, runnerArgs, plan
  <1>2. Outline = "run" /\ r \in 0..(spawned - 1) /\ r \in Nat
    BY <1>1, RunsMeanwhile
  <1>3. todo[r] \subseteq Block(r)
    BY DEF RunnerInv, OnBlock
  <1>4. \A j \in Block(r) : j \in Nat /\ j < itemsCount
    BY <1>2, RunnerFacts, BlockIs
  <1>5. k \in todo[r]
    BY <1>1, <1>3, <1>4, MinIn
  <1> HIDE DEF k
  <1>6. k \in 0..(itemsCount - 1) /\ k \in Indices
    <2>1. k \in Nat /\ k < itemsCount /\ itemsCount \in Nat
      BY <1>3, <1>4, <1>5, ItemsAreIndices
    <2>2. k \in 0..(itemsCount - 1)
      BY <2>1
    <2> QED
      BY <2>2, ItemsAreIndices
  <1>7. calls[k] = 0
    BY <1>2, <1>3, <1>5 DEF RunnerInv, Through
  <1>8. calls'[k] = 1 /\ \A j \in 0..(itemsCount - 1) : j # k => calls'[j] = calls[j]
    <2>1. calls \in [Indices -> Nat]
      BY RunnerFacts
    <2> QED
      BY <1>1, <1>6, <1>7, <2>1, ItemsAreIndices
  <1>9. k \in ToCall /\ ToCall' = ToCall \ {k}
    BY <1>1, <1>6, <1>7, <1>8 DEF ToCall
  <1>10. Calling' = Calling \cup {r} /\ r \notin Calling
    BY <1>1, RunnerFacts DEF Calling, Routines
  <1>11. Cardinality(Calling') = Cardinality(Calling) + 1
    BY <1>10, RunnerFacts, FS_AddElement
  <1>12. Outline' = Outline
    BY <1>1 DEF Outline
  <1> QED
    BY <1>1, <1>2, <1>9, <1>11, <1>12 DEF Each!CallFn

LEMMA CountCounts ==
  ASSUME RunnerInv, NEW r \in Routines, Count(r)
  PROVE  Each!EndFn
  <1>1. /\ rpc[r] = "called" /\ rpc' = [rpc EXCEPT ![r] = "loop"]
        /\ \/ success' = success + 1 /\ failures' = failures
           \/ failures' = failures + 1 /\ success' = success
        /\ UNCHANGED <<itemsCount, maxRoutines, runnerPc, calls, result>>
    BY DEF Count, runnerArgs, plan
  <1>2. Outline = "run" /\ Outline' = Outline /\ ToCall' = ToCall
    BY <1>1, RunsMeanwhile DEF Outline, ToCall
  <1>3. Calling' = Calling \ {r} /\ r \in Calling
    BY <1>1, RunnerFacts DEF Calling, Routines
  <1>4. Cardinality(Calling') = Cardinality(Calling) - 1
    BY <1>3, RunnerFacts, FS_RemoveElement
  <1>5. Cardinality(Calling) # 0
    BY <1>3, RunnerFacts, FS_EmptySet
  <1>6. Cardinality(Calling) > 0
    BY <1>5, RunnerFacts
  <1> QED
    BY <1>1, <1>2, <1>4, <1>6 DEF Each!EndFn

LEMMA ReturnReturns ==
  ASSUME RunnerInv, Return, RunnerInv', ReturnsComplete'
  PROVE  Each!ReturnCounts
  <1>1. /\ runnerPc = "wait" /\ runnerPc' = "returned" /\ result' = <<success, failures>>
        /\ UNCHANGED <<itemsCount, maxRoutines, rpc, calls, success, failures>>
    BY DEF Return, runnerArgs, plan
  <1>2. Outline = "run" /\ Outline' = "returned" /\ ToCall' = ToCall /\ Calling' = Calling
    BY <1>1 DEF Outline, ToCall, Calling, Routines
  <1>3. \A k \in Indices : calls[k] = (IF k < itemsCount THEN 1 ELSE 0)
    BY <1>1 DEF ReturnsComplete, Indices
  <1>4. \A k \in 0..(itemsCount - 1) : calls[k] = 1
    <2>1. \A k \in 0..(itemsCount - 1) : k < itemsCount
      BY ItemsAreIndices
    <2> QED
      BY <1>3, <2>1, ItemsAreIndices
  <1>5. ToCall = {}
    BY <1>4 DEF ToCall
  <1>6. \A r \in Routines : rpc[r] \in {"none", "done"}
    BY <1>1 DEF RunnerInv, AllDone, Routines
  <1>7. Calling = {}
    BY <1>6 DEF Calling
  <1>8. Cardinality(Calling) = 0
    BY <1>7, FS_EmptySet
  <1> QED
    BY <1>1, <1>2, <1>5, <1>8 DEF Each!ReturnCounts

\* Starting a goroutine, the end of one, and waiting are not seen from outside.
LEMMA Unseen ==
  ASSUME RunnerInv,
         \/ Spawn \/ SpawnEnd \/ UNCHANGED runnerVars
         \/ \E r \in Routines : Done(r)
  PROVE  UNCHANGED Each!forEachVars
  <1>1. UNCHANGED <<itemsCount, maxRoutines, calls, success, failures, result>>
    BY DEF Spawn, SpawnEnd, Done, runnerVars, runnerArgs, plan
  <1>2. Outline' = Outline
    BY DEF Spawn, SpawnEnd, Done, runnerVars, Outline
  <1>3. ToCall' = ToCall
    BY <1>1 DEF ToCall
  <1>4. Calling' = Calling
    <2>1. Routines' = Routines
      BY <1>1 DEF Routines
    <2>2. CASE Spawn
      <3>1. rpc' = [rpc EXCEPT ![spawned] = "loop"] /\ spawned < routinesCount
        BY <2>2 DEF Spawn
      <3>2. spawned \in Routines
        BY <3>1, RunnerFacts
      <3>3. rpc[spawned] = "none"
        BY <3>2, RunnerFacts DEF RunnerInv, OnBlock
      <3> QED
        BY <2>1, <3>1, <3>2, <3>3, RunnerFacts DEF Calling
    <2>3. CASE \E r \in Routines : Done(r)
      <3>1. PICK r \in Routines : rpc[r] = "loop" /\ rpc' = [rpc EXCEPT ![r] = "done"]
        BY <2>3 DEF Done, Finished
      <3> QED
        BY <2>1, <3>1, RunnerFacts DEF Calling
    <2>4. CASE SpawnEnd \/ UNCHANGED runnerVars
      BY <2>1, <2>4 DEF SpawnEnd, runnerVars, Calling
    <2> QED
      BY <2>2, <2>3, <2>4
  <1> QED
    BY <1>1, <1>2, <1>3, <1>4 DEF Each!forEachVars

LEMMA RunnerStarts == RunnerInit => Each!ForEachInit
  <1> SUFFICES ASSUME RunnerInit PROVE Each!ForEachInit
    OBVIOUS
  <1>1. /\ itemsCount \in ItemsCounts /\ itemsCount \in Nat
        /\ runnerPc = "enter" /\ rpc = [r \in Routines |-> "none"]
        /\ calls = [k \in Indices |-> 0]
        /\ success = 0 /\ failures = 0 /\ result = <<0, 0>>
    BY RunnerAssumption DEF RunnerInit
  <1>2. Outline = "enter"
    BY <1>1 DEF Outline
  <1>3. \A k \in 0..(itemsCount - 1) : calls[k] = 0
    BY <1>1 DEF Indices
  <1>4. ToCall = 0..(itemsCount - 1)
    BY <1>3 DEF ToCall
  <1>5. Calling = {}
    BY <1>1 DEF Calling
  <1>6. Cardinality(Calling) = 0
    BY <1>5, FS_EmptySet
  <1> QED
    BY <1>1, <1>2, <1>4, <1>6 DEF Each!ForEachInit

\* For StartAgents and ConnectAll the runner is a loop over the items whose
\* calls overlap: whatever its arguments, and however its goroutines interleave,
\* each step is one of ForEach or is not seen (utils.go:13-54).
THEOREM RunnerRefinement == RunnerSpec => ImplementsForEach
  <1>1. RunnerInv => ReturnsComplete
    BY AllCalled
  <1>2. ASSUME RunnerInv, RunnerInv', ReturnsComplete', [RunnerNext]_runnerVars
        PROVE  [Each!ForEachNext]_Each!forEachVars
    <2>1. CASE Split
      BY <1>2, <2>1, SplitBegins DEF Each!ForEachNext
    <2>2. CASE Return
      BY <1>2, <2>2, ReturnReturns DEF Each!ForEachNext
    <2>3. ASSUME NEW r \in Routines, Call(r) PROVE Each!ForEachNext
      BY <1>2, <2>3, CallCalls DEF Each!ForEachNext
    <2>4. ASSUME NEW r \in Routines, Count(r) PROVE Each!ForEachNext
      BY <1>2, <2>4, CountCounts DEF Each!ForEachNext
    <2>5. CASE \/ Spawn \/ SpawnEnd \/ UNCHANGED runnerVars
               \/ \E r \in Routines : Done(r)
      BY <1>2, <2>5, Unseen
    <2> QED
      BY <1>2, <2>1, <2>2, <2>3, <2>4, <2>5 DEF RunnerNext, CallerStep, RoutineStep
  <1> QED
    BY <1>1, <1>2, RunnerStarts, RunnerInvariance, PTL
    DEF RunnerSpec, ImplementsForEach, Each!ForEachSpec

\* The steps that are left: a natural number, and what lowers it.
LEMMA StepsLeftType ==
  ASSUME RunnerInv
  PROVE  /\ maxRoutines - spawned \in Nat /\ CallerLeft \in Nat /\ StepsLeft \in Nat
         /\ IsFiniteSet(ToCall) /\ Cardinality(ToCall) \in Nat
         /\ IsFiniteSet(Calling) /\ Cardinality(Calling) \in Nat
         /\ IsFiniteSet(Alive) /\ Cardinality(Alive) \in Nat
  <1>1. /\ itemsCount \in Nat /\ maxRoutines \in Nat /\ Routines = 0..(maxRoutines - 1)
        /\ spawned \in Nat /\ spawned <= routinesCount /\ routinesCount \in Nat
        /\ routinesCount <= maxRoutines
        /\ IsFiniteSet(Calling) /\ Cardinality(Calling) \in Nat
    BY RunnerFacts
  <1>2. maxRoutines - spawned \in Nat
    BY <1>1
  <1>3. CallerLeft \in Nat
    BY DEF RunnerInv, Types, CallerLeft
  <1>4. IsFiniteSet(0..(itemsCount - 1)) /\ IsFiniteSet(Routines)
    BY <1>1, FS_Interval
  <1>5. IsFiniteSet(ToCall) /\ IsFiniteSet(Alive)
    BY <1>4, FS_Subset DEF ToCall, Alive
  <1>6. Cardinality(ToCall) \in Nat /\ Cardinality(Alive) \in Nat
    BY <1>5, FS_CardinalityType
  <1>7. StepsLeft \in Nat
    BY <1>1, <1>2, <1>3, <1>6 DEF StepsLeft
  <1> QED
    BY <1>1, <1>2, <1>3, <1>5, <1>6, <1>7

LEMMA FewerLeft ==
  ASSUME NEW a \in Nat, NEW b \in Nat, NEW c \in Nat, NEW d \in Nat, NEW e \in Nat,
         NEW v \in Nat, NEW w \in Nat, NEW x \in Nat, NEW y \in Nat, NEW z \in Nat,
         v <= a, y <= d, z <= e,
         \/ w = b /\ x = c /\ (v < a \/ y < d \/ z < e)
         \/ w = b /\ x = c - 1
         \/ w = b - 1 /\ x = c + 1
  PROVE  v + 2 * w + x + y + z < a + 2 * b + c + d + e
  OBVIOUS

\* The goroutines that are not done.
LEMMA AliveStep ==
  ASSUME RunnerInv, NEW r \in Routines, NEW s, rpc' = [rpc EXCEPT ![r] = s], rpc[r] # "done",
         maxRoutines' = maxRoutines
  PROVE  Alive' = IF s = "done" THEN Alive \ {r} ELSE Alive
  <1>1. rpc \in [Routines -> {"none", "loop", "called", "done"}] /\ Routines' = Routines
    BY RunnerFacts DEF Routines
  <1> QED
    BY <1>1 DEF Alive

LEMMA StepCounts ==
  ASSUME RunnerInv, RunnerInv', ReturnsComplete', RunnerNext
  PROVE  StepsLeft' < StepsLeft
  <1> DEFINE a == maxRoutines - spawned
             b == Cardinality(ToCall)
             c == Cardinality(Calling)
             d == Cardinality(Alive)
             e == CallerLeft
             v == maxRoutines' - spawned'
             w == Cardinality(ToCall')
             x == Cardinality(Calling')
             y == Cardinality(Alive')
             z == CallerLeft'
  <1>1. /\ a \in Nat /\ b \in Nat /\ c \in Nat /\ d \in Nat /\ e \in Nat
        /\ IsFiniteSet(ToCall) /\ IsFiniteSet(Alive)
        /\ maxRoutines \in Nat /\ spawned \in Nat
    BY StepsLeftType, RunnerFacts
  <1>2. maxRoutines' = maxRoutines
    BY DEF RunnerNext, CallerStep, RoutineStep, Split, Spawn, SpawnEnd, Return, Call, Count, Done,
           runnerArgs
  <1>3. ASSUME v \in Nat, z \in Nat, v <= a, y \in Nat, y <= d, z <= e,
               w \in Nat, x \in Nat,
               \/ w = b /\ x = c /\ (v < a \/ y < d \/ z < e)
               \/ w = b /\ x = c - 1
               \/ w = b - 1 /\ x = c + 1
        PROVE  StepsLeft' < StepsLeft
    <2>1. StepsLeft = a + 2 * b + c + d + e /\ StepsLeft' = v + 2 * w + x + y + z
      BY DEF StepsLeft
    <2> HIDE DEF a, b, c, d, e, v, w, x, y, z
    <2>2. v + 2 * w + x + y + z < a + 2 * b + c + d + e
      BY <1>1, <1>3, FewerLeft
    <2> QED
      BY <2>1, <2>2
  <1>4. CASE Split
    <2>1. Each!Begin
      BY <1>4, SplitBegins
    <2>2. w = b /\ x = c
      BY <2>1 DEF Each!Begin
    <2>3. v = a /\ rpc' = rpc /\ e = 3 /\ z \in {0, 2}
      BY <1>2, <1>4 DEF Split, CallerLeft
    <2>4. Alive' = Alive
      BY <1>2, <2>3 DEF Alive, Routines
    <2>5. y = d
      BY <2>4
    <2> HIDE DEF a, b, c, d, e, v, w, x, y, z
    <2> QED
      BY <1>1, <1>3, <2>2, <2>3, <2>5
  <1>5. CASE Return
    <2>1. Each!ReturnCounts
      BY <1>5, ReturnReturns
    <2>2. w = b /\ x = c
      BY <2>1 DEF Each!ReturnCounts
    <2>3. v = a /\ rpc' = rpc /\ e = 1 /\ z = 0
      BY <1>2, <1>5 DEF Return, CallerLeft
    <2>4. Alive' = Alive
      BY <1>2, <2>3 DEF Alive, Routines
    <2>5. y = d
      BY <2>4
    <2> HIDE DEF a, b, c, d, e, v, w, x, y, z
    <2> QED
      BY <1>1, <1>3, <2>2, <2>3, <2>5
  <1>6. CASE Spawn \/ SpawnEnd
    <2>1. UNCHANGED Each!forEachVars
      BY <1>6, Unseen
    <2>2. w = b /\ x = c
      BY <2>1 DEF Each!forEachVars
    <2>3. CASE Spawn
      <3>1. /\ spawned' = spawned + 1 /\ spawned < routinesCount
            /\ rpc' = [rpc EXCEPT ![spawned] = "loop"] /\ e = 2 /\ z = 2
        BY <2>3 DEF Spawn, CallerLeft
      <3>2. spawned \in Routines /\ rpc[spawned] = "none" /\ spawned < maxRoutines
        <4>1. spawned \in Routines /\ spawned < maxRoutines /\ spawned >= spawned
          BY <3>1, RunnerFacts
        <4> QED
          BY <4>1 DEF RunnerInv, OnBlock
      <3>3. Alive' = Alive
        <4>1. rpc[spawned] # "done" /\ "loop" # "done"
          BY <3>2
        <4> QED
          BY <1>2, <3>1, <3>2, <4>1, AliveStep, Zenon
      <3>4. y = d
        BY <3>3
      <3>5. v \in Nat /\ v < a
        BY <1>1, <1>2, <3>1, <3>2
      <3> HIDE DEF a, b, c, d, e, v, w, x, y, z
      <3> QED
        BY <1>1, <1>3, <2>2, <3>1, <3>4, <3>5
    <2>4. CASE SpawnEnd
      <3>1. v = a /\ rpc' = rpc /\ e = 2 /\ z = 1
        BY <1>2, <2>4 DEF SpawnEnd, CallerLeft
      <3>2. Alive' = Alive
        BY <1>2, <3>1 DEF Alive, Routines
      <3>3. y = d
        BY <3>2
      <3> HIDE DEF a, b, c, d, e, v, w, x, y, z
      <3> QED
        BY <1>1, <1>3, <2>2, <3>1, <3>3
    <2> QED
      BY <1>6, <2>3, <2>4
  <1>7. ASSUME NEW r \in Routines, Call(r) \/ Count(r)
        PROVE  StepsLeft' < StepsLeft
    <2>1. v = a /\ z = e
      BY <1>2, <1>7 DEF Call, Count, CallerLeft
    <2>2. /\ \E s \in {"loop", "called"} : rpc' = [rpc EXCEPT ![r] = s]
          /\ rpc[r] \in {"loop", "called"}
      BY <1>7 DEF Call, Count
    <2>3. Alive' = Alive
      BY <1>2, <2>2, AliveStep
    <2>4. y = d
      BY <2>3
    <2>5. \/ w = b - 1 /\ x = c + 1 /\ w \in Nat /\ x \in Nat
          \/ w = b /\ x = c - 1 /\ x \in Nat
      <3>1. CASE Call(r)
        <4>1. PICK k \in ToCall : ToCall' = ToCall \ {k} /\ x = c + 1
          BY <3>1, CallCalls DEF Each!CallFn
        <4>2. w = b - 1 /\ w \in Nat
          BY <1>1, <4>1, FS_RemoveElement, FS_CardinalityType
        <4> QED
          BY <1>1, <4>1, <4>2
      <3>2. CASE Count(r)
        <4>1. ToCall' = ToCall /\ x = c - 1 /\ c > 0
          BY <3>2, CountCounts DEF Each!EndFn
        <4>2. w = b
          BY <4>1
        <4> HIDE DEF b, c, w, x
        <4> QED
          BY <1>1, <4>1, <4>2
      <3> QED
        BY <1>7, <3>1, <3>2
    <2> HIDE DEF a, b, c, d, e, v, w, x, y, z
    <2> QED
      BY <1>1, <1>3, <2>1, <2>4, <2>5
  <1>8. ASSUME NEW r \in Routines, Done(r)
        PROVE  StepsLeft' < StepsLeft
    <2>1. UNCHANGED Each!forEachVars
      BY <1>8, Unseen
    <2>2. w = b /\ x = c
      BY <2>1 DEF Each!forEachVars
    <2>3. v = a /\ z = e
      BY <1>2, <1>8 DEF Done, CallerLeft
    <2>4. rpc' = [rpc EXCEPT ![r] = "done"] /\ rpc[r] = "loop"
      BY <1>8 DEF Done, Finished
    <2>5. Alive' = Alive \ {r} /\ r \in Alive
      BY <1>2, <2>4, AliveStep DEF Alive
    <2>6. y = d - 1 /\ y \in Nat
      BY <1>1, <2>5, FS_RemoveElement, FS_CardinalityType
    <2> HIDE DEF a, b, c, d, e, v, w, x, y, z
    <2> QED
      BY <1>1, <1>3, <2>2, <2>3, <2>6
  <1> QED
    BY <1>4, <1>5, <1>6, <1>7, <1>8 DEF RunnerNext, CallerStep, RoutineStep

\* Whatever the arguments and the interleaving, the caller and the goroutines
\* take a bounded number of steps, each of which leaves fewer (utils.go:25-49).
THEOREM RunnerRunsOut == RunnerSpec => [](StepsLeft \in Nat) /\ EveryStepCounts
  <1>1. RunnerInv => StepsLeft \in Nat
    BY StepsLeftType
  <1>2. RunnerInv => ReturnsComplete
    BY AllCalled
  <1>3. RunnerInv /\ RunnerInv' /\ ReturnsComplete' /\ [RunnerNext]_runnerVars =>
          [StepsLeft' < StepsLeft]_runnerVars
    BY StepCounts
  <1> QED
    BY <1>1, <1>2, <1>3, RunnerInvariance, PTL DEF RunnerSpec, EveryStepCounts
=============================================================================
