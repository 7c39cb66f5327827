# A TLA+ verification project for libp2p-gossip-bench

libp2p-gossip-bench starts a cluster of gossipsub agents inside one process,
connects them by a topology over simulated network links, lets the validators
among them publish messages for a while, and logs what is sent and received; a
second command computes statistics from the log.  This directory models the
concurrent, the timed and the combinatorial parts of that program in TLA+.  Small
instances are checked with TLC, and the central invariants are proved with
TLAPS for all instances.

## 1. Inventory

| Part | State | Operations | Interacts with |
|---|---|---|---|
| `observer/` | linked list of `state{value,next,done}`; `subject.state`; a pointer per stream | `Update`, `Observe`, `Value`, `Changes`, `HasNext`, `Next`, `WaitNext` | the messaging loops |
| `cluster/message_loop.go` | time subject, `stopCh`, `start`, WaitGroup, two counters, ticker and end timer | `Loop` (constant rate, hotstuff), `startUpdatingSubject` | observer, `agent.SendMessage`, the context of the command |
| `cluster/random_topology.go` | `possiblePeers`, `peerMap`, per peer `connCount` and `possibleConns`, `connections` | `populate`, `MakeConnections` | `ConnectAll` |
| `cluster/topology.go`, `supercluster_topology.go`, `connections_list.go` | lists of pairs | `MakeConnections`, `Add`, `ConnectAll` | `populate`, the runner, `agent.Connect` |
| `utils/utils.go` | block size, counters, WaitGroup | `MultiRoutineRunner` | `StartAgents`, `ConnectAll` |
| `agent/connection_helper.go`, `agent.Connect` | map from port pair to WaitGroup | `Add`, `Wait`, `Delete`, `Connected`, `Connect` | callbacks of the libp2p swarms |
| `cluster/cluster.go`, `start_gossip_cmd.go` | map of agents, `Host` of each | `AddAgents`, `StartAgents`, `RemoveAgent`, `ConnectAgents`, `StartMessaging`, `StartGossipBench` | everything above |
| `network/` | map of transports, `acceptCh` and `closedCh` of each | `Dial` and its goroutine, `Accept`, `Listen`, `Close`, `GetTransport` | the swarm's listen loop and upgrader, the latency connection |
| `latency/network_latency.go` | `lastSendEnd`, `readBuf` per connection | `Write`, `Read` | the transport |
| `latency/latency.go` | a table | `Find`, `GetRandomCity` | `Cluster.CreateConn` |
| `agent.go`: `Listen`, `SendMessage`, codec | `Host`, `Topic` | `Listen`, `SendMessage`, `createMessage`, the receiving goroutine | gossipsub, the log |
| `cmd/stats` | the reused `logLine`; `result`: map from message to counters | `RunStats`, `addStatistics`, `printStats` | the log |

What is hard here: lock-free readers of a list that a writer extends; wake-ups
and stop signals of many goroutines; dropped ticks; callbacks that may come
before or after the call they belong to; a WaitGroup without a timeout; a
randomised algorithm with lazily cleaned structures; block arithmetic; lists
that may be empty; one of several agents failing to start; a hand-over between a
goroutine and a listener that may be gone; computed times that must agree with
the clock across calls; a log that many goroutines write and one variable reads.
Section 4 says what correctness means for each; `PROJECT.json` lists the hazards
line by line.

## 2. Modules

| Module | Models | Role |
|---|---|---|
| `EventLog` | what `observer` promises | abstract: an append-only log with cursors |
| `Observer` | `observer/*.go` | detailed; implements `EventLog` |
| `PopulatePromise` | what `populate` promises | abstract: a set of graphs |
| `RandomTopology`, `MCRandomTopology` | `populate` and `rndToplogyPeer` | detailed; its result is in `PopulatePromise` |
| `Topologies`, `MCTopologies` | `MakeConnections` of the three topologies, `ConnectAll` | uses `PopulatePromise` for `populate` |
| `MessageLoop` | `message_loop.go` | composes `EventLog` with the goroutines and timers |
| `ForEach` | what `MultiRoutineRunner` promises | abstract: a loop over items whose calls overlap |
| `MultiRoutineRunner`, `MCMultiRoutineRunner` | `utils.go` | detailed; implements `ForEach` |
| `AgentConnect`, `MCAgentConnect` | `Connect` and `agentConnectionHelper` | |
| `Benchmark`, `MCBenchmark` | `StartGossipBench`, `Cluster` | extends `Topologies` with the start of the agents and the messaging |
| `Transport`, `MCTransport` | `network/`, `Cluster.CreateConn`, `latency.go` | |
| `DelayedStream` | what a latency connection promises | abstract: bytes in order, once, not too early |
| `LatencyConn`, `MCLatencyConn` | `network_latency.go` | detailed; implements `DelayedStream` |
| `MessageLog` | what the agents log: `Listen`, `SendMessage`, the receiver | the source of every log that `Stats` reads |
| `Stats`, `MCStats` | `stats_cmd.go` | composes `MessageLog` with its evaluation |
| `ObserverProofs`, `RandomTopologyProofs`, `AgentConnectProofs`, `MessageLoopProofs`, `TransportProofs`, `LatencyConnProofs`, `StatsProofs` | | theorems about the module of that name |
| `ClusterProofs` | | theorems about `Topologies`, `Benchmark` and `MultiRoutineRunner` |

The map of `PROJECT.json` gives the lines of every definition.

### How state and actions correspond to the code

*Observer.*  `nodes` is the heap of `state` objects in allocation order,
`pos[s]` the pointer of a stream.  `Update` holds the write lock throughout,
but streams read `done` and `next` without any lock, so it is three actions:
`UpdateLink` (`s.next = newState`), `UpdateClose` (`close(s.done)`),
`UpdateEnd` (`s.state = ...`, `Unlock`).  `StreamNext` is `WaitNext`, or `Next`
after `Changes` was ready, the only use the interface allows.

*RandomTopology.*  One pass of either loop is one action; `rand.Intn` is a
choice.  The slices `possiblePeers` and `possibleConns` are read at random
positions only (after the ring, which runs over the untouched slice), so they
are sets.  `connections` is a multiset, so that duplicates would show.  The
two outcomes of a draw are `Reject` and `Link`; `Link` contains the clean-up
loop of lines 95-108.  `count` and `connCount` are unsigned in Go; both stay
far below their width, and `TypeOK` shows that `count` does not wrap below zero.

*Topologies.*  The lists of pairs are built and connected one after the other
(`stage`).  Connecting a list is a set of pending pairs from which one `Connect`
after the other returns, in any order.  `ConnectAll` of an empty list panics,
because the runner divides by zero.  Whether a `Connect` succeeded is only
counted and printed and is left out.

*MessageLoop.*  The caller (`mpc`) and every agent's goroutine (`apc`) are
processes; the subject is used through `EventLog`.  A ticker channel holds one
tick and drops further ones; the time of the k-th tick, in whole periods, may
come out as k or k-1.  `rate` is the period of the ticker, the option `-rate` or
a second; `StartTimers` panics if it is not positive, as `time.NewTicker` does.
`sentAt` and `killed` are history variables.  The empty bodies of
`case <-ctx.Done()` are actions that only record the reception.

*MultiRoutineRunner.*  `Split` computes the blocks, `Spawn` starts one goroutine
at a time while earlier ones already run, `Call` and `Count` are separate since
a goroutine may be between `fn` and the counter when another one ends.

*AgentConnect.*  The helper's lock covers single map accesses, so `Add` is two
actions, and a lookup is separate from the `Wait` or `Done` that follows it.  A
key is an ordered pair of ports; the code packs the pair into an `int64` with 32
bits for each port, which loses nothing.  libp2p is external: the dialing end
comes up while `Host.Connect` runs, and its callback has returned when
`Host.Connect` does; the listening end comes up or fails at any later moment.

*Benchmark.*  `phase` follows `StartGossipBench`; agents listen concurrently;
`ConnectAgents` is a step `MakeConnections` of `Topologies`; the messaging loop
is one step, justified by `MessageLoop`, whose two panics (no leader, no ticker)
come before its first tick and so before anybody sends.  `RemoveAgent` crashes, since `Stop`
uses the `Host` that the failed `Listen` left nil; `Listen` sets it in its last
statement.

*Transport.*  Every dial has three parts that move on their own: its two ends
(`dial`, `inbound`) and the goroutine that hands the pipe over (`hand`), which
first looks the other transport up (a panic if it is not in the manager's map)
and then sends on the unbuffered `acceptCh`.  `Accept(a, d)` is the reception;
the swarm's listen loop serves one connection at a time, since the code upgrades
inside `Accept`.  Every error of `Accept` ends that loop, whose deferred function
closes the listener again; `closes` counts how often `closedCh` would be closed,
so that the `sync.Once` is needed.  Upgrades are external: one end succeeds only
while the other end takes part.  A dial starts when all agents listen, which is
`ListensBeforeConnect` of `Benchmark`.  Hosts may be closed at any moment.

*LatencyConn.*  One direction of one connection.  A byte is its place in the
stream, so that loss, duplication and reordering show.  Time is an integer, and a
sleep ends at any moment from its end on.  `net.Pipe` has no buffer: a write and
a read are one joint action, once for the header (`PassHeader`) and once or
several times for the bytes (`PassBytes`).  A pass of the loop in `Write` is
`CutPacket` (the packet, and the sleep while the wire is full), `Stamp` (its
time and header) and the two writes.  `Read` is `Read`, the joint actions and
`ReadReturn`, which is its deferred sleep.  Writes and reads of the pipe fail at
any moment, because an end was closed or by the deadline of either end, wherever
the other one is; a failed `Read` keeps in `readBuf` what it had copied, and the
next ones return it.  Two things are assumed of the caller.  After a failed
`Write` nothing is written, and after a failed `Read` no further packet is asked
for: the code does not remember how much of a packet is missing and would take the
rest of its body for a header.  libp2p, the only caller, keeps to that.  Deadlines
are set during the upgrade (`go-libp2p-noise/handshake.go:57`,
`go-stream-muxer-multistream/multistream.go:43`), and the upgrader closes the
connection if it fails (`go-libp2p-transport-upgrader/upgrader.go:80-107`); later
the multiplexer's receive loop ends with the first error.

*MessageLog.*  A line of the log is written in two steps, since zap takes its
time before it gets hold of the output; so lines need not be in the order of
their times.  A line has exactly the fields its call gives it, and the log has
whole seconds of a finer clock.  `Publish` may fail after the line was written,
a message may reach an agent late or never; gossipsub delivers it at most once.

*Stats.*  The benchmark ends at any moment (`EndOfBenchmark`), also between a
line and what follows it.  `Scan` is one pass of the loop in `RunStats`:
`Unmarshal` keeps the fields a line does not have, `addStatistics` counts.
`PrintStats` keeps what is computed for the output, not its order and wording.

## 3. Runs, bounds and fairness

| Run | Instance | Shows |
|---|---|---|
| `observer` | 2 writers, 2 streams, 2 values, 3 updates | no nil `next`, no double close, refinement of the log, readers catch up |
| `random_topology` | 0 to 4 peers, `MaxPeers` 0..3, `Count` in {0,2,4,9}, with and without ring | no duplicate, degree bound, saturation, the promise, termination |
| `topologies` | 0 to 5 agents, any number of validators, degrees 1 and 3 | no pair twice, each non validator with one validator |
| `message_loop` | 0 to 2 validators, both kinds, rates 0 and 900, 2 ticks | nobody sends before a tick, complete counts, separate rounds, return |
| `runner` | 0 to 5 items, 1 to 3 per routine, 1, 2 or 4 routines | each item once, all counted, refinement of a loop over the items, return |
| `agent_connect` | 4 agents, 3 concurrent calls | both ends connected, separate groups, no stale entry, return |
| `benchmark` | 0 to 4 agents, any number of validators, the topologies, both kinds of messaging, rates 0 and 900 | agents listen before they are connected, validators reach everybody, the causes of a crash, end |
| `transport` | 3 agents, 3 dials, 2 cities, a table with gaps | no panic, the right latency at each end, why a listener ends, no dial forgotten, all come up |
| `latency_conn` | 3 networks, 4 bytes, reads of up to 3 bytes, Writes that start at times 0 to 3 | a delayed byte stream, its rate, its bounded backlog, all arrives |
| `stats` | a validator and another agent, 2 messages, two units in a second, sizes 16 and 17 | the order of the log, no panic, counts, thresholds and report against their definitions |

Why the bounds are enough.  *Observer*: a second writer and a third update
exercise the lock and an update that follows one a stream has not yet seen; a
further stream is independent of the others.  *RandomTopology*: with four peers
a peer can be full while two others are not, a draw can be rejected, and a
source can run out of ports; five peers were tried too.  *Topologies*: five
agents allow three non validators on two validators, where the index wraps.
*MessageLoop*: two agents are a leader and a follower, two ticks an odd and an
even second and a full ticker channel.  *Runner*: five items on four routines is
the first instance where a block starts past the end.  *AgentConnect*: the three
calls share an agent, have equal port sums and both directions.  *Transport*: two
dials meet at one listener, whose other caller is itself dialed; a failed one
leaves another one waiting.  *LatencyConn*: the three networks have a limit
without a delay (every packet but the first waits), both, and a delay alone
without an MTU; at one kilobit a unit of time is such that the integer division
rounds one byte down and two bytes not at all; four bytes make two Writes of two
packets, and a reader's buffer that is smaller than a packet.  *Stats*: useful
messages are sent on a whole second and between two, so that the log cuts the two
times of a delay differently; a
reception may fall two seconds after its sending, beyond the only threshold; one
message can be useful and the other one not; 16 bytes are one too few for a
packet.  The two message IDs are interchangeable, and no liveness is checked in
that run, so the symmetry is sound.

Runs do not check for deadlock: each models a call that returns, or a system
that may fall silent.  Ending is stated as a liveness property instead.

Fairness.  `Observer`: a writer inside `Update` goes on, a stream is read for
ever.  `RandomTopology`: sequential code runs.  `Benchmark`: goroutines are
scheduled and `Listen` and `Connect` return.  `MultiRoutineRunner`: goroutines
are scheduled and `fn` returns.  `MessageLoop`: weak fairness of the
goroutines, of `SendMessage` and of the end timer, and strong fairness of the
stop cases, because a Go `select` draws at random among the ready cases and so
cannot pass over one for ever, even while `ctx.Done()` stays ready.
`AgentConnect`: a dial ends, each end comes up or fails, callbacks run.
`Transport`: agents are started, dials made and goroutines scheduled, and an
upgrade in which both ends take part ends; timeouts need not strike and hosts
need not be closed.  `LatencyConn`: goroutines are scheduled, the reader goes on
reading, time passes; nothing has to fail.  `Topologies` and `Stats` need none.

### Disagreements between the code and what is said of it

Two runs are expected to be violated; `findings` in `PROJECT.json` quotes the
lines.

| Run | What TLC shows |
|---|---|
| `message_loop_kill` | a cancelled context stops neither the agents nor the updater |
| `benchmark_failed_agent` | an agent that cannot listen crashes the program |

Noticed while modelling, without a run of their own:

* two tests of the observer compare with `==` where they mean `!=`, and so fail
  on correct code (`stream_test.go:12`, `state_test.go:48`);
* the ring of `populate` ignores `MaxPeers` (`random_topology.go:11` against 49);
  `DegreeBound` states the bound with that exception;
* `CreateRing` says "there will always be linear connection"
  (`random_topology.go:13`), but a `Count` below the number of peers less one
  cuts the ring short; `PopulatePromise` states the ring with that limit;
* one validator, or one non validator, makes the super-cluster connect an empty
  list, on which `MultiRoutineRunner` divides by zero although its comment says
  "exactly itemCount times" (`utils.go:12`); it is a case of `CrashCauses`;
* the comment of `Write` calls it non-blocking (`network_latency.go:49-51`), but
  over `net.Pipe` it waits for the reader; and `Conn` is said to measure the
  network first (lines 76-79), but nothing calls `sync`;
* `Read` after one that failed within a packet takes the rest of the body for a
  header (`network_latency.go:137-144`); nobody does that (section 2);
* `-rate` is not checked (`start_gossip_cmd.go:132`), and `time.NewTicker` panics if
  it is not positive (`message_loop.go:197`); it is a case of `CrashCauses`;
* the line that says that no validator received a message is never printed
  (`stats_cmd.go:303`): messages that missed a validator are left out above, and
  without validators there are no messages.

## 4. Properties

*Observer*: a closed channel has a next state behind it, and no channel is
closed twice; a stream sees every value from its `Observe` on, in order and
once; a stream that is read catches up.
*RandomTopology*: pairs are unique; degrees are bounded; giving up means
saturation; the result keeps the promise its callers rely on; the loop ends.
*Topologies*: pairs are unique across the lists of one `MakeConnections`, which
is the condition under which `Connect` is correct (`CallsAssumption`); coverage
and connectedness of the result.
*MessageLoop*: whoever sends was woken by a tick, so `start` is written and the
stream's value is a duration; the returned counts are those of all sends; leader
and followers never send on the same tick; `Loop` returns, cancelled or not, unless
it panics at its start.
*Runner*: each item exactly once, each result counted before the return, which
comes; refinement of `ForEach`, the loop over the items that `StartAgents` and
`ConnectAll` take it for.
*AgentConnect*: success means that both ends are connected; groups are not mixed
up; entries do not outlive calls; a call returns unless the listening end fails
after a successful dial, since `Wait` has no timeout.
*Benchmark*: nobody is connected before everybody listens; whoever sends reaches
everybody over the connections made; the only reasons for a crash; a run ends.
*Transport*: no transport is missing when a dial looks it up, no channel is
closed twice; each end has the latency of its own direction; an agent goes deaf
only when its host was closed or a connection it was upgrading failed at the
other end, which shows that one failed dial can make an agent deaf for all later
ones; a closed host's loop ends; a dial's goroutine ends or its target is deaf,
and then it stays for ever; without failures every dial comes up at both ends.
*LatencyConn*: refinement of `DelayedStream`; read times respect the bandwidth
also across `Write`s, which each read the clock anew; the backlog is bounded by
the delay and one packet; everything arrives unless a `Write` or a `Read` failed.
*Stats*: the line of a sending comes before those of its receptions, and lines
without a direction come before all of them, so that the reused `logLine` never
leaks into a count and the panic on a second sending is not reached; the running
counts equal those of the messages themselves; the thresholds, computed from
whole seconds, are off by less than a second; the printed summary and the averages
are those of the receptions themselves.

## 5. Proofs

All theorems are proved from the named assumptions on the constants, for every
value of them.  Each type invariant is proved here and not listed among the
properties of a run.  Every safety property that a run checks, action properties
and refinements included, is a theorem.  Every inductive invariant was checked
with TLC on the instance of its run before it was proved.  Where an argument
calls for induction (a property carries over along a path, a set has a largest
element), the proof takes the least counterexample instead, by the
well-foundedness of the natural numbers.

Some theorems state the safety half of a liveness property, under the names in
this table; each of these properties was checked with TLC, on the instance of
the run of its module, before it was proved.  The other half, that what can be
done is done, is fairness and stays with TLC.

| Theorem | States | The safety half of |
|---|---|---|
| `NoLostWakeup` | `WaitsForNewOnly`: a stream that waits while no `Update` is under way is at the newest state | `CatchesUp` |
| `NoPassInVain` | `EveryPassCounts`: every pass of `populate` leaves less to do | `Terminates` |
| `BlockedForCause` | `NoDoneLost`: a blocked `Wait` has an end that was not told | `ReturnsUnlessListenFails` |
| `RunnerRunsOut` | `EveryStepCounts`: every step of `MultiRoutineRunner` leaves fewer | `Returns` |
| `RunIsBounded` | `RunsOut`: every step of a run of the start command leaves less | `Ends` |
| `DeafStaysDeaf` | `DeafForGood`: nothing more reaches a deaf agent, and its callers' goroutines stay | `HandedOver`, whose exception it is |
| `NothingLeftBehind` | `NothingStuck`: a `Read` that waits while nobody writes was given everything | `AllDelivered` |

The loops of `MessageLoop` may spin on a cancelled context, so there is no such
count of steps for them.

*ObserverProofs* (`ObserverAssumption`): `TypeCorrect`, `NeverPanics`,
`ChainIntact`, `NoLostWakeup`, `Refinement`.  The properties are not inductive:
that `close` never hits a closed channel depends on the lock.  The invariant
`IInv` adds `Owner` (only the lock's holder is inside `Update`), `AtTail` (the
subject points at the last state, or one before it during an `Update`), `Closed`
(exactly the states before the visible end are closed) and `Behind` (no stream
is past the visible end).  `Refinement` maps the states up to the visible end to
the log: `UpdateClose` is the step that publishes, the others stutter.

*RandomTopologyProofs* (`TopologyAssumption`): `TypeCorrect`, `PairsUnique`,
`NoNilPeer`, `DegreesBounded`, `GivesUpOnlySaturated`, `PromiseKept`,
`NoPassInVain`.  `IInv` adds the shape of the unfinished ring (`RingShape`), that
joined peers forgot each other (`Forgotten`), that a port is forgotten only for
a link or a full end (`Rejected`), that dropped peers could not be used
(`Dropped`), and the argument that makes the missing test of the source harmless
(`Uniform`): in the random phase either no peer that can be drawn is full, or
all peers are, and then no link is possible.  For `PromiseKept`, `PInv` adds that
`count` and `connCount` are the size and the degrees of the list of connections
(`Tally`), and that the ring is on it as far as it came (`RingListed`); the
order of the ring that `PopulatePromise` asks for is the order of the
slice.  `NoPassInVain` counts what is left (`Remaining`): the connections that
are wanted, the ports that are not drawn and the sources that are not dropped; a
link uses up a connection, and a draw that is rejected a port or its source.

*AgentConnectProofs* (`CallsAssumption`): `TypeCorrect`, `ConnectMeansBoth`,
`GroupsSeparate`, `NoStaleEntry`, `BlockedForCause`.  `IInv` says that a key maps
to a call's group exactly while the call is under way (`Entry`), that a counter
is two less the ends that were told (`Counts`), and how far callbacks and `Wait`
can be (`Callbacks`).  `TypeCorrect` contains that no counter falls below zero.
`BlockedForCause` adds that whoever was told while a call is under way was told
on its group (`ToldOwn`).

*MessageLoopProofs* (`LoopAssumption`): `TypeCorrect`, `SendsAfterTick`,
`RoundsApart`, `AllCounted`, `SubjectUsedAsAllowed`.  `IInv` says that every
value after the first one of the subject is the time of a tick, and at most one
per tick (`Fed`), that the ticker runs only after `start` is written
(`StartFirst`), and that whoever sends or sent did so on a value after the first
one, and on one that is its turn (`Turn`).  For `AllCounted`, `CInv` adds that
the counters and the agents that are between `SendMessage` and its count make up
all calls so far (`Tally`), that an agent sends on a tick once (`Ahead`), and
that the WaitGroup outlasts the agents (`Waited`).  The set of validators is
assumed to be finite.  `SubjectUsedAsAllowed` shows that the loops are a
behaviour of `EventLog`: with `ObserverProofs!Refinement` this is why `EventLog`
may stand for the observer in this module.

*TransportProofs* (`TransportAssumption`): `TypeCorrect`, `NeverPanics`,
`DelaysRight`, `DeafOnlyForCause`, `DeafStaysDeaf`.  `IInv` says that a transport
is in the manager's map from its construction on (`Built`), that a listener
serves only dials meant for it and whose upgrade is open (`Served`), that a
listening end exists only after its pipe was handed over (`Handed`), and why a
channel was closed or a loop ended (`Causes`).  `DeafStaysDeaf` adds that a dial
is up only if its pipe was received (`Answered`).

*LatencyConnProofs* (`LatencyAssumption`): `TypeCorrect`, `NotTooFull`,
`RateRespected`, `NothingLeftBehind`, `Refinement`.  `IInv` says that what was
delivered, the result of a `Read`, its buffer, the packet and the rest of a
`Write` are consecutive runs of the stream (`Chain`), that both ends agree where
they are in a packet, which has at least a byte while it is under way (`Agree`),
so that a `Read` that asks for a packet never meets the middle of one, how the times that `Write` computes relate to
the clock (`Clock`), and that no byte anywhere has a read time before its
latency (`Late`).  The assumption on the caller enters as the guard of `Read`.  In `Refinement`, `Write` is `Offer`, `Read` from the buffer
and `ReadReturn` are `Deliver`, `Tick` is `Pass`; all other steps stutter.

*StatsProofs* (`LogAssumption`, `StatsAssumption`): `TypeCorrect`, `LogOrdered`,
`NeverPanics`, `CountsRight`, `ThresholdsRight`, `ReportRight`.
`IInv` says that nothing is sent before all agents listen (`Started`), that the
line of a sending is in the log from before `Publish` on, and once (`Sent`), that
the log is in order (`LinesInOrder`), and that the evaluation aggregates nothing
before the first line of a message and knows only messages whose line it has
passed (`Scanned`): so a line without a direction is never taken for the line
whose fields are left in `logLine`.

For the counts, `LineInv` says that the line of a sending is what was stamped
(`SentLines`) and that the lines of the receptions of a message are in a
bijection with the agents that logged it (`ReceivedLines`): a line does not name
its agent, so the invariant claims that such a bijection exists, and the step
that writes a line extends it.  `CountInv` says that the statistics of a message
are the numbers of the lines of each kind among those read so far, and their
latest time.  At the end of the log the bijection turns lines into agents.
`ThresholdsRight` is then arithmetic on times cut to whole seconds, and
`ReportRight` counts the validators without a line and compares sums.  The
averages are sums over sets, and nothing can be proved of a fold by induction
over data; but a sum of natural numbers is the size of the set of pairs of an
element and a smaller number, that size satisfies the equations of the fold, and
a least counterexample shows that the two agree.  Then the bijection carries the
sum over the lines to the sum over the agents.

*ClusterProofs* (`TopologiesAssumption`, `BenchmarkAssumption`): about
`Topologies`, `PairsOnce` and `ValidatorForEach`; about `Benchmark`,
`TypeCorrect`, `ListenFirst`, `KnownCrashes`, `TopologyInRun`, `RunsTopology`,
`LoopOnConnectedGraph` and `RunIsBounded`; about `MultiRoutineRunner`,
`EveryItemOnce`, `RunnerRefinement` and `RunnerRunsOut`.

* `TopologyInv` says which pairs a list may hold at each stage: those of
  the validators, those of the others, then one of each (`Placed`), so that no
  list repeats a pair of an earlier one; that the cross list has one validator for
  each of the others (`OnlyOne`); how far `MakeConnections` is (`Progress`); and
  that each list joins its agents in a path (`Wired`).
* `IInv` of `Benchmark` adds that the counts and `Host`s are those of the agents
  that have returned from `Listen` (`Listening`), and that messaging has a finished
  topology under it (`Connected`).  `LoopOnConnectedGraph` follows from the paths:
  a set that is closed under the connections and is not empty contains, along the
  path, every validator, and with the cross list every agent.
* The super-cluster calls `populate` with a count of a million.  Its ring is whole
  only if there are not more agents than that, hence the assumption that a cluster
  has at most 65536 agents: each listens on a TCP port of its own.
* `EveryItemOnce` holds for any number of items, with at least one item per
  routine and one routine (`RunnerAssumption`).  `RunnerInv` says that each
  routine works on its block from its start to its end (`OnBlock`), that an index
  has been called if a started routine is through with it (`Through`), and that
  the counters and the calls under way make up all calls (`Tally`).  That the
  blocks tile the items is nonlinear arithmetic about the division that rounds up,
  and was proved in small steps.
* `RunnerRefinement` maps the items without a call to those left (`ToCall`), the
  routines inside `fn` to the calls under way (`Calling`) and the caller's place to
  the progress of the loop (`Outline`).  `Call` takes an item, `Count` ends a call,
  `Return` returns; `Spawn`, `SpawnEnd` and `Done` stutter.
* `RunsTopology` is the refinement of `TopologySpec` by a run of the start command;
  the variables are the same ones, and only `MakeConnections` changes them.

Only model-checked: the liveness properties (`CatchesUp`, the two `Terminates`,
`Returns`, `ReturnsUnlessListenFails`, `Ends`, `StopEnds`, `HandedOver`, `AllUp`,
`AllDelivered`), since the prover handles neither fairness nor `ENABLED`.

## 6. Not modelled

Code that nothing calls: the measuring handshake `sync` of the latency
connection with the `Dialer` and `Listener` wrappers around it,
`WaitWithTimeout`, `Disconnect`, and `Start`, `Stop` and `StopAll` of `Cluster`
(`Transport` lets a host be closed at any moment, which covers what the last two
would do to it).  Code without state of its own: the parsing of the command line
and of the embedded table, logging set-up, printing and its wording, `main`, and
the constants given to gossipsub.  The header of a log holds the options of the
command line; more validators than nodes, which nothing refuses, are not
evaluated.  The vendored libraries (libp2p's swarm and upgrader, gossipsub,
`net.Pipe` of the Go library) are external: the modules say what the program
relies on.

## 7. Plan

Done: the modules of section 2 and the proofs of section 5; every safety property
that a run checks is a theorem.  Left, in this order:

1. `Transport` under `AgentConnect`: its `DialUp`, `AcceptUp` and `AcceptFails`
   as the external `ConnUp` and `ListenFailed`;
2. `ConnectAll` as a composition of `MultiRoutineRunner` and `AgentConnect`;
3. the step of `Benchmark` that stands for the messaging loop as an
   implementation by `MessageLoop`.
