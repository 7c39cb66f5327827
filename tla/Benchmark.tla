----------------------------- MODULE Benchmark -----------------------------
(***************************************************************************)
(* A run of the benchmark: StartGossipBench                                *)
(* (src/cmd/benchmark/commands/start_gossip_cmd.go) and the Cluster it     *)
(* drives (src/cluster/cluster.go).  The agents are added, started         *)
(* concurrently, connected by one of the topologies, and then the          *)
(* validators among them run a messaging loop.                             *)
(*                                                                         *)
(* The connections are made by the actions of Topologies, on the agents of *)
(* the cluster; the messaging loop is one step, after what MessageLoop     *)
(* shows of it.  An agent is named by its index; the listening port is     *)
(* startingPort more.  A panic in any goroutine ends the program.          *)
(***************************************************************************)
EXTENDS Topologies

\* Every agent listens on a TCP port of its own, a 16-bit number.
Ports == 65536

CONSTANT Rates        \* message rates to try, in milliseconds

ASSUME BenchmarkAssumption == (\A n \in NodeCounts : n <= Ports) /\ Rates \subseteq Int

VARIABLES phase,       \* where StartGossipBench is
          messaging,   \* "constant-rate" or "hotstuff"
          rate,        \* Rate of a constant-rate messaging; hotstuff does not use it
          host,        \* agents whose Host is set, hence open
          work,        \* per agent: the start routine's progress
          started, failed,
          senders      \* the agents handed to Loop

vars == <<topoVars, phase, messaging, rate, host, work, started, failed, senders>>

\* Run refuses any other -messaging before it starts.
KnownMessaging == {"constant-rate", "hotstuff"}

\* NewCluster and AddAgents: agents without a Host, the first
\* validatorCount of them validators.
Init ==
    /\ TopologyInit
    /\ phase = "start"
    /\ messaging \in KnownMessaging
    /\ rate \in Rates
    /\ host = {}
    /\ work = [a \in agents |-> "todo"]
    /\ started = 0 /\ failed = 0
    /\ senders = {}

\* StartAgents hands the agents to MultiRoutineRunner, which divides by zero
\* when there is none.
StartAgents ==
    /\ phase = "start"
    /\ phase' = IF agents = {} THEN "panic" ELSE "starting"
    /\ UNCHANGED <<topoVars, messaging, rate, host, work, started, failed, senders>>

\* Listen succeeds: the last thing it does is to set the Host
ListenOk(a) ==
    /\ phase = "starting" /\ work[a] = "todo"
    /\ work' = [work EXCEPT ![a] = "returned"]
    /\ host' = host \cup {a}
    /\ started' = started + 1
    /\ UNCHANGED <<topoVars, phase, messaging, rate, failed, senders>>

\* Listen returns an error, from libp2p, gossipsub or the topic
ListenFails(a) ==
    /\ phase = "starting" /\ work[a] = "todo"
    /\ work' = [work EXCEPT ![a] = "remove"]
    /\ UNCHANGED <<topoVars, phase, messaging, rate, host, started, failed, senders>>

\* Mutant: the agent is left in the cluster.
RemoveAgentNot(a) ==
    /\ phase = "starting" /\ work[a] = "remove"
    /\ work' = [work EXCEPT ![a] = "returned"]
    /\ failed' = failed + 1
    /\ UNCHANGED <<topoVars, phase, messaging, rate, host, started, senders>>

\* RemoveAgent stops the agent before it deletes it; Stop calls Close on the
\* Host, which the failed Listen has left nil.  Nothing recovers the panic.
RemoveAgent(a) ==
    /\ phase = "starting" /\ work[a] = "remove"
    /\ phase' = "panic"
    /\ UNCHANGED <<topoVars, messaging, rate, host, work, started, failed, senders>>

\* The runner has waited for all routines, StartAgents returns its counts
StartAgentsReturn ==
    /\ phase = "starting"
    /\ \A a \in agents : work[a] = "returned"
    /\ phase' = "connecting"
    /\ UNCHANGED <<topoVars, messaging, rate, host, work, started, failed, senders>>

\* ConnectAgents: MakeConnections of the topology takes a step
ConnectAgents ==
    /\ phase = "connecting"
    /\ MakeConnections
    /\ UNCHANGED <<phase, messaging, rate, host, work, started, failed, senders>>

\* MakeConnections is over, or took the program down
ConnectAgentsReturn ==
    /\ phase = "connecting" /\ pc \in {"returned", "panic"}
    /\ phase' = IF pc = "panic" THEN "panic" ELSE "messaging"
    /\ UNCHANGED <<topoVars, messaging, rate, host, work, started, failed, senders>>

\* Mutant: the wrong agents are filtered out.
filterValidatorsNot(S) == S \ validators

filterValidators(S) == S \cap validators

\* Mutant: a leader is drawn for either kind of messaging.
NoLeaderEver(S) == S = {}

\* The leader of hotstuff is drawn with rand.Intn(len(agents))
NoLeader(S) == messaging = "hotstuff" /\ S = {}

\* time.NewTicker(c.Rate) panics; hotstuff ticks once a second
NoTicker == messaging = "constant-rate" /\ rate <= 0

\* StartMessaging: Loop starts with the validators.  It panics before its first
\* tick, hence before anybody sends, if it cannot choose a leader or tick.
StartMessaging ==
    /\ phase = "messaging"
    /\ senders' = filterValidators(agents)
    /\ phase' = IF NoLeader(senders') \/ NoTicker THEN "panic" ELSE "looping"
    /\ UNCHANGED <<topoVars, messaging, rate, host, work, started, failed>>

\* Mutant: a loop without agents waits for one.
LoopOverIfBusy == phase = "looping" /\ senders # {}

LoopOver == phase = "looping"

\* Loop returns (MessageLoop!Terminates) and StartGossipBench ends
LoopReturns ==
    /\ LoopOver
    /\ phase' = "done"
    /\ UNCHANGED <<topoVars, messaging, rate, host, work, started, failed, senders>>

Next ==
    \/ StartAgents
    \/ \E a \in agents : ListenOk(a) \/ ListenFails(a) \/ RemoveAgent(a)
    \/ StartAgentsReturn
    \/ ConnectAgents \/ ConnectAgentsReturn
    \/ StartMessaging \/ LoopReturns

Spec == Init /\ [][Next]_vars

\* Goroutines are scheduled; Listen, Connect and Loop return.
FairSpec == Spec /\ WF_vars(Next)

-----------------------------------------------------------------------------
\* Types; the counts of StartAgents are of agents.
TypeOK ==
    /\ TopologyTypeOK
    /\ phase \in {"start", "starting", "connecting", "messaging", "looping", "done", "panic"}
    /\ rate \in Int
    /\ host \subseteq agents
    /\ work \in [agents -> {"todo", "remove", "returned"}]
    /\ started \in 0..Cardinality(agents) /\ failed \in 0..Cardinality(agents)
    /\ senders \subseteq agents

\* Connect and SendMessage use the Host of both agents without a check
\* (agent.go:187, 228, 246): from the first connection on, every agent that is
\* left in the cluster listens, whatever Listen did for each of them.
ListensBeforeConnect ==
    phase \in {"connecting", "messaging", "looping", "done"} => agents = host

\* The messages of every validator can reach every agent: when Loop starts,
\* the senders are the validators, all of them, and a topology that promises a
\* connected graph has asked for one (StartMessaging after ConnectAgents).
SendersReachAll ==
    phase = "looping" =>
        /\ senders = validators
        /\ topology # "random" =>
              \A S \in (SUBSET agents) \ {{}, agents} :
                  \E e \in DOMAIN asked : asked[e] = 1 /\ e \cap S # {} /\ ~(e \subseteq S)

\* The parameters for which a topology has a list without a pair.
EmptyList ==
    \/ topology = "random" /\ (Cardinality(agents) = 1 \/ 0 \in Counts)
    \/ topology = "super-cluster" /\ (Cardinality(validators) < 2 \/ Cardinality(agents \ validators) = 1)

\* Once its log file is open, the program crashes for these reasons only: no
\* agent at all, an agent that could not listen, an empty list of connections,
\* hotstuff without a validator, or a constant rate that is not positive
\* (start_gossip_cmd.go:132 takes -rate unchecked).  With other parameters, and
\* ports that are free, a run completes.
CrashCauses ==
    phase = "panic" =>
        \/ agents = {}
        \/ \E a \in agents : work[a] = "remove"
        \/ EmptyList
        \/ messaging = "hotstuff" /\ validators = {}
        \/ messaging = "constant-rate" /\ rate <= 0

\* What a run has left: agents that have not returned from Listen, the lists of
\* the topology, and the calls of StartGossipBench.
CallsLeft ==
    CASE phase = "start" -> 5 [] phase = "starting" -> 4 [] phase = "connecting" -> 3
      [] phase = "messaging" -> 2 [] phase = "looping" -> 1 [] phase \in {"done", "panic"} -> 0
ToListen == {a \in agents : work[a] = "todo"}
RunLeft == ListsLeft + Cardinality(ToListen) + CallsLeft

\* Every step of a run brings it nearer to its end: none is repeated, and no
\* list is built again (start_gossip_cmd.go:242-247).
RunsOut == [][RunLeft' < RunLeft]_vars

\* A run comes to its end.
Ends == <>(phase \in {"done", "panic"})

-----------------------------------------------------------------------------
\* "Agents added: %d. Failed agents: %v" (start_gossip_cmd.go:244): an agent
\* that fails to listen is removed and counted, and the run goes on.
FailedAgentsAreCounted ==
    (\E a \in DOMAIN work : work[a] = "remove") => phase # "panic"

-----------------------------------------------------------------------------
(***************************************************************************)
(* The inductive invariant behind the safety properties.                   *)
(***************************************************************************)
\* What StartAgents has counted.
Listening ==
    /\ host = {a \in agents : work[a] = "returned"}
    /\ started = Cardinality(host) /\ failed = 0

\* Messages are sent over the connections of a finished topology.
Connected ==
    /\ phase \in {"messaging", "looping", "done"} => pc = "returned"
    /\ phase = "looping" => senders = validators

IInv ==
    /\ TypeOK /\ TopologyInv
    /\ Listening /\ Connected /\ ListensBeforeConnect /\ CrashCauses
=============================================================================
