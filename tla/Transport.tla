----------------------------- MODULE Transport -----------------------------
(***************************************************************************)
(* The simulated transport and its manager (src/network), with the latency *)
(* a connection gets from the cluster (Cluster.CreateConn) and its table   *)
(* (src/latency/latency.go).                                               *)
(*                                                                         *)
(* Dial makes a pipe, hands one end to the other agent's transport in a    *)
(* goroutine of its own, over a channel without buffer, and upgrades the   *)
(* other end.  The listen loop of an agent's swarm calls Accept again and  *)
(* again, until Accept returns an error.  Swarm and upgrader are external: *)
(* both ends of a pipe take part in an upgrade, a dial has a timeout, a    *)
(* failed upgrade closes its end, an error of Accept closes the listener.  *)
(***************************************************************************)
EXTENDS Integers, FiniteSets

CONSTANTS Agents, Dials, None,
          Src, Dst,             \* per dial: who dials, and whom
          Cities, City,         \* City[a]: what GetRandomCity gave agent a
          Avg,                  \* the table of latencies, which has gaps
          defaultAvgLatency

ASSUME TransportAssumption ==
    /\ Src \in [Dials -> Agents] /\ Dst \in [Dials -> Agents]
    /\ \A d \in Dials : Src[d] # Dst[d]
    /\ None \notin Dials
    /\ City \in [Agents -> Cities] /\ DOMAIN Avg \subseteq Cities \X Cities
    /\ defaultAvgLatency \in Nat /\ \A x \in DOMAIN Avg : Avg[x] \in Nat

VARIABLES transports,   \* the manager's map: agents whose transport exists
          laddr,        \* agents whose transport listens
          closes,       \* per agent: how often closedCh was closed
          loop,         \* per agent: the swarm's listen loop
          serving,      \* per agent: the connection that Accept upgrades
          hand,         \* per dial: the goroutine that hands the pipe over
          dial, inbound,   \* per dial: its two ends
          lat,          \* per dial: the latency at each end
          stopped,      \* agents whose host was closed
          panicked

agentVars == <<transports, laddr, stopped>>
connVars == <<dial, inbound, lat>>
vars == <<agentVars, closes, loop, serving, hand, connVars, panicked>>

\* NewTransportManager
Init ==
    /\ transports = {} /\ laddr = {} /\ stopped = {} /\ panicked = FALSE
    /\ closes = [a \in Agents |-> 0]
    /\ loop = [a \in Agents |-> "none"]
    /\ serving = [a \in Agents |-> None]
    /\ hand = [d \in Dials |-> "none"]
    /\ dial = [d \in Dials |-> "idle"]
    /\ inbound = [d \in Dials |-> "none"]
    /\ lat = [d \in Dials |-> [dial |-> 0, listen |-> 0]]

Find(from, to) == IF <<from, to>> \in DOMAIN Avg THEN Avg[<<from, to>>] ELSE defaultAvgLatency

\* The latency of the end of agent l of a connection to agent r
CreateConn(l, r) == Find(City[l], City[r])

\* Mutant: without the sync.Once.
CloseAgain(a) == [closes EXCEPT ![a] = @ + 1]

Close(a) == IF closes[a] > 0 THEN closes ELSE [closes EXCEPT ![a] = @ + 1]

-----------------------------------------------------------------------------
\* The constructor that TransportManager.Transport returns, called by libp2p.New
NewTransport(a) ==
    /\ loop[a] = "none"
    /\ loop' = [loop EXCEPT ![a] = "built"]
    /\ transports' = transports \cup {a}
    /\ UNCHANGED <<laddr, stopped, closes, serving, hand, connVars, panicked>>

\* The swarm calls Listen and starts its loop
Listen(a) ==
    /\ loop[a] = "built"
    /\ loop' = [loop EXCEPT ![a] = "accept"]
    /\ laddr' = laddr \cup {a}
    /\ UNCHANGED <<transports, stopped, closes, serving, hand, connVars, panicked>>

\* Host.Close, which closes the listener (Agent.Stop, Cluster.Stop, StopAll)
Stop(a) ==
    /\ a \in laddr \ stopped
    /\ stopped' = stopped \cup {a}
    /\ closes' = Close(a)
    /\ UNCHANGED <<transports, laddr, loop, serving, hand, connVars, panicked>>

\* Mutant: the listening side is forgotten.
HandOverNot(d) == hand

\* go func() in Dial
HandOver(d) == [hand EXCEPT ![d] = "lookup"]

\* Dial, up to the upgrade; all agents listen before one is connected
\* (Benchmark!ListensBeforeConnect)
Dial(d) ==
    /\ dial[d] = "idle" /\ laddr = Agents /\ Src[d] \notin stopped
    /\ hand' = HandOver(d)
    /\ dial' = [dial EXCEPT ![d] = "upgrade"]
    /\ lat' = [lat EXCEPT ![d].dial = CreateConn(Src[d], Dst[d])]
    /\ UNCHANGED <<agentVars, closes, loop, serving, inbound, panicked>>

\* Mutant: the dialing agent's own transport.
TargetSelf(d) == Src[d]

\* The agent whose transport the pipe is for
Target(d) == Dst[d]

\* The goroutine of Dial looks the other transport up
GetTransport(d) ==
    /\ hand[d] = "lookup"
    /\ IF Target(d) \in transports
       THEN hand' = [hand EXCEPT ![d] = "send"] /\ UNCHANGED panicked
       ELSE panicked' = TRUE /\ UNCHANGED hand
    /\ UNCHANGED <<agentVars, closes, loop, serving, connVars>>

-----------------------------------------------------------------------------
\* Mutant: what the goroutine hands over names the listening agent.
RemoteSelf(d) == Dst[d]

\* acceptChData: the agent that dialed
Remote(d) == Src[d]

\* Accept receives a pipe and goes on to upgrade it.  The select may take this
\* case after a Close, too.
Accept(a, d) ==
    /\ loop[a] = "accept" /\ hand[d] = "send" /\ Target(d) = a
    /\ hand' = [hand EXCEPT ![d] = "done"]
    /\ serving' = [serving EXCEPT ![a] = d]
    /\ loop' = [loop EXCEPT ![a] = "upgrade"]
    /\ inbound' = [inbound EXCEPT ![d] = "upgrade"]
    /\ lat' = [lat EXCEPT ![d].listen = CreateConn(a, Remote(d))]
    /\ UNCHANGED <<agentVars, closes, dial, panicked>>

\* Mutants: the select has a default case, or does not watch closedCh.
IsClosedDefault(a) == TRUE
IsClosedNever(a) == FALSE

IsClosed(a) == closes[a] > 0

\* Accept finds closedCh closed: net.ErrClosed ends the loop, whose deferred
\* function closes the listener once more
AcceptClosed(a) ==
    /\ loop[a] = "accept" /\ IsClosed(a)
    /\ loop' = [loop EXCEPT ![a] = "ended"]
    /\ closes' = Close(a)
    /\ UNCHANGED <<agentVars, serving, hand, connVars, panicked>>

\* The upgrade of the listening end succeeds, Accept returns the connection
AcceptUp(a) ==
    /\ loop[a] = "upgrade" /\ dial[serving[a]] \in {"upgrade", "up"}
    /\ inbound' = [inbound EXCEPT ![serving[a]] = "up"]
    /\ serving' = [serving EXCEPT ![a] = None]
    /\ loop' = [loop EXCEPT ![a] = "accept"]
    /\ UNCHANGED <<agentVars, closes, hand, dial, lat, panicked>>

\* It fails, because the dialing end is gone: Accept returns the error, the
\* loop takes it for the end of the listener
AcceptFails(a) ==
    /\ loop[a] = "upgrade"
    /\ dial[serving[a]] = "failed" \/ {a, Src[serving[a]]} \cap stopped # {}
    /\ inbound' = [inbound EXCEPT ![serving[a]] = "failed"]
    /\ serving' = [serving EXCEPT ![a] = None]
    /\ loop' = [loop EXCEPT ![a] = "ended"]
    /\ closes' = Close(a)
    /\ UNCHANGED <<agentVars, hand, dial, lat, panicked>>

\* The upgrade of the dialing end succeeds, Dial returns the connection
DialUp(d) ==
    /\ dial[d] = "upgrade" /\ inbound[d] \in {"upgrade", "up"}
    /\ dial' = [dial EXCEPT ![d] = "up"]
    /\ UNCHANGED <<agentVars, closes, loop, serving, hand, inbound, lat, panicked>>

\* It fails, in the end because of the timeout of the dial: Dial returns the
\* error.  The goroutine of this dial is not told.
DialFails(d) ==
    /\ dial[d] = "upgrade"
    /\ dial' = [dial EXCEPT ![d] = "failed"]
    /\ UNCHANGED <<agentVars, closes, loop, serving, hand, inbound, lat, panicked>>

AcceptStep(a) == AcceptClosed(a) \/ AcceptUp(a) \/ AcceptFails(a) \/ \E d \in Dials : Accept(a, d)

Next ==
    \/ \E a \in Agents : NewTransport(a) \/ Listen(a) \/ Stop(a) \/ AcceptStep(a)
    \/ \E d \in Dials : Dial(d) \/ GetTransport(d) \/ DialUp(d) \/ DialFails(d)

Spec == Init /\ [][Next]_vars

\* The agents are started and the dials made; goroutines are scheduled; an
\* upgrade in which both ends take part does not last for ever.  A timeout
\* need not strike.
FairSpec ==
    /\ Spec
    /\ \A a \in Agents : WF_vars(NewTransport(a)) /\ WF_vars(Listen(a)) /\ WF_vars(AcceptStep(a))
    /\ \A d \in Dials : WF_vars(Dial(d)) /\ WF_vars(GetTransport(d)) /\ WF_vars(DialUp(d))

-----------------------------------------------------------------------------
\* Types of the manager's map, the listeners and the two ends of each dial.
TypeOK ==
    /\ {transports, laddr, stopped} \subseteq SUBSET Agents
    /\ closes \in [Agents -> Nat]
    /\ loop \in [Agents -> {"none", "built", "accept", "upgrade", "ended"}]
    /\ serving \in [Agents -> Dials \cup {None}]
    /\ hand \in [Dials -> {"none", "lookup", "send", "done"}]
    /\ dial \in [Dials -> {"idle", "upgrade", "up", "failed"}]
    /\ inbound \in [Dials -> {"none", "upgrade", "up", "failed"}]
    /\ lat \in [Dials -> [dial : Nat, listen : Nat]]
    /\ \A a \in Agents : loop[a] = "upgrade" <=> serving[a] # None

\* Neither of the two panics.  The goroutine of a dial finds the other
\* transport: the manager's map is written before anybody can dial the agent
\* (transport_manager.go:37-44, 57).  And closedCh is closed once, although the
\* swarm's Close and the end of its listen loop both close the listener
\* (transport.go:89).
NoPanic == ~panicked /\ \A a \in Agents : closes[a] <= 1

\* What an agent writes is delayed by the table's latency from its own city to
\* the other's, at whichever end of the dial it is (transport.go:48, 81).
DelayOfDirection ==
    \A d \in Dials :
        /\ dial[d] # "idle" => lat[d].dial = Find(City[Src[d]], City[Dst[d]])
        /\ inbound[d] # "none" => lat[d].listen = Find(City[Dst[d]], City[Src[d]])

\* An agent stops accepting for two reasons only: its host was closed, or a
\* connection that Accept had received failed, after its dial failed or the
\* dialing host was closed (transport.go:77-85).
DeafCauses ==
    \A a \in Agents : loop[a] = "ended" =>
        \/ a \in stopped
        \/ \E d \in Dials : /\ Dst[d] = a /\ inbound[d] = "failed"
                            /\ dial[d] = "failed" \/ Src[d] \in stopped

\* A deaf agent stays deaf: no later dial to it is ever received or comes up,
\* and the goroutine that would hand its pipe over is left behind, since Dial
\* has no way to learn that nobody accepts any more (transport.go:44, 77-85).
DeafForGood ==
    [][\A d \in Dials : loop[Dst[d]] = "ended" /\ inbound[d] = "none" =>
           /\ loop'[Dst[d]] = "ended" /\ inbound'[d] = "none"
           /\ dial'[d] # "up"
           /\ hand[d] = "send" => hand'[d] = "send"]_vars

\* The listen loop of a host that was closed ends: Accept watches closedCh, so
\* that the swarm's Close, which waits for the loop, returns (transport.go:77).
StopEnds == \A a \in Agents : a \in stopped ~> loop[a] = "ended"

\* The goroutine of a dial ends, unless the other agent does not accept any
\* more; then it is left behind for good (transport.go:44).
HandedOver == \A d \in Dials : hand[d] = "send" ~> (hand[d] = "done" \/ loop[Dst[d]] = "ended")

\* However the dials and listeners interleave, and although an agent upgrades
\* one connection at a time, all connections come up at both ends if no dial
\* fails and no host is closed.
AllUp ==
    <>(\/ \A d \in Dials : dial[d] = "up" /\ inbound[d] = "up"
       \/ stopped # {} \/ \E d \in Dials : dial[d] = "failed")
=============================================================================
