-------------------------- MODULE TransportProofs --------------------------
(***************************************************************************)
(* Safety of the simulated transport (src/network), for any agents, dials  *)
(* and table of latencies.  The inductive invariant adds to the types that *)
(* an agent's transport is in the manager's map from the moment it is      *)
(* built, that only one connection is handed over at a time, and why a     *)
(* listener was closed.                                                    *)
(***************************************************************************)
EXTENDS Transport, TLAPS

\* A transport that was built is in the map; agents listen with one, and the
\* goroutine of a dial is there only once all agents listen.
Built ==
    /\ \A a \in Agents : loop[a] # "none" => a \in transports
    /\ \A a \in Agents : a \in laddr => loop[a] # "none"
    /\ \A d \in Dials : dial[d] # "idle" => laddr = Agents
    /\ \A d \in Dials : hand[d] # "none" => dial[d] # "idle"

\* The connection that Accept upgrades was dialed to this agent.
Served ==
    \A a \in Agents : serving[a] # None =>
        /\ Dst[serving[a]] = a
        /\ inbound[serving[a]] = "upgrade" /\ hand[serving[a]] = "done"

\* An end that exists was handed over.
Handed == \A d \in Dials : inbound[d] # "none" => hand[d] = "done"

\* A reason for a closed channel or an ended loop.
Cause(a) ==
    \/ a \in stopped
    \/ \E d \in Dials : /\ Dst[d] = a /\ inbound[d] = "failed"
                        /\ dial[d] = "failed" \/ Src[d] \in stopped

Causes == \A a \in Agents : loop[a] = "ended" \/ closes[a] > 0 => Cause(a)

IInv == TypeOK /\ NoPanic /\ Built /\ Served /\ Handed /\ Causes /\ DelayOfDirection

-----------------------------------------------------------------------------
LEMMA InitIInv == Init => IInv
  <1> SUFFICES ASSUME Init PROVE IInv
    OBVIOUS
  <1> USE TransportAssumption DEF Init
  <1>1. TypeOK /\ NoPanic
    BY DEF TypeOK, NoPanic
  <1>2. Built /\ Served /\ Handed /\ Causes /\ DelayOfDirection
    BY DEF Built, Served, Handed, Causes, DelayOfDirection
  <1> QED
    BY <1>1, <1>2 DEF IInv

\* A latency of the table, or the default of its gaps, is a number.
LEMMA FindType ==
  ASSUME NEW l \in Agents, NEW r \in Agents
  PROVE  CreateConn(l, r) \in Nat /\ CreateConn(l, r) = Find(City[l], City[r])
  BY TransportAssumption DEF CreateConn, Find

LEMMA NewTransportStep ==
  ASSUME IInv, NEW a \in Agents, NewTransport(a)
  PROVE  IInv'
  <1> USE TransportAssumption DEF IInv, NewTransport, agentVars, connVars
  <1>1. TypeOK'
    BY DEF TypeOK
  <1>2. NoPanic' /\ DelayOfDirection' /\ Served' /\ Handed'
    BY DEF NoPanic, DelayOfDirection, Served, Handed
  <1>3. Built'
    BY DEF Built, TypeOK
  <1>4. Causes'
    BY DEF Causes, Cause, TypeOK
  <1> QED
    BY <1>1, <1>2, <1>3, <1>4

LEMMA ListenStep ==
  ASSUME IInv, NEW a \in Agents, Listen(a)
  PROVE  IInv'
  <1> USE TransportAssumption DEF IInv, Listen, agentVars, connVars
  <1>1. TypeOK'
    BY DEF TypeOK
  <1>2. NoPanic' /\ DelayOfDirection'
    BY DEF NoPanic, DelayOfDirection, TypeOK
  <1>3. Built'
    BY DEF Built, TypeOK
  <1>4. Served' /\ Handed'
    BY DEF Served, Handed, TypeOK
  <1>5. Causes'
    BY DEF Causes, Cause, TypeOK
  <1> QED
    BY <1>1, <1>2, <1>3, <1>4, <1>5

LEMMA StopStep ==
  ASSUME IInv, NEW a \in Agents, Stop(a)
  PROVE  IInv'
  <1> USE TransportAssumption DEF IInv, Stop, agentVars, connVars
  <1>1. TypeOK'
    BY DEF TypeOK, Close
  <1>2. NoPanic' /\ DelayOfDirection'
    BY DEF NoPanic, DelayOfDirection, TypeOK, Close
  <1>3. Built'
    BY DEF Built, TypeOK
  <1>4. Served' /\ Handed'
    BY DEF Served, Handed, TypeOK
  <1>5. Causes'
    BY DEF Causes, Cause, TypeOK, Close
  <1> QED
    BY <1>1, <1>2, <1>3, <1>4, <1>5

LEMMA DialStep ==
  ASSUME IInv, NEW d \in Dials, Dial(d)
  PROVE  IInv'
  <1> USE TransportAssumption DEF IInv, Dial, HandOver, agentVars, connVars
  <1>1. CreateConn(Src[d], Dst[d]) \in Nat /\ CreateConn(Src[d], Dst[d]) = Find(City[Src[d]], City[Dst[d]])
    BY FindType
  <1>2. TypeOK'
    BY <1>1 DEF TypeOK
  <1>3. NoPanic' /\ DelayOfDirection'
    BY <1>1 DEF NoPanic, DelayOfDirection, TypeOK
  <1>4. Built'
    BY DEF Built, TypeOK
  <1>5. Served' /\ Handed'
    BY DEF Served, Handed, Built, TypeOK
  <1>6. Causes'
    BY DEF Causes, Cause, TypeOK
  <1> QED
    BY <1>2, <1>3, <1>4, <1>5, <1>6

LEMMA GetTransportStep ==
  ASSUME IInv, NEW d \in Dials, GetTransport(d)
  PROVE  IInv'
  <1> USE TransportAssumption DEF IInv, GetTransport, agentVars, connVars
  <1>1. Target(d) \in transports
    BY DEF Target, Built
  <1>2. TypeOK'
    BY <1>1 DEF TypeOK
  <1>3. NoPanic' /\ DelayOfDirection'
    BY <1>1 DEF NoPanic, DelayOfDirection
  <1>4. Built'
    BY <1>1 DEF Built, TypeOK
  <1>5. Served' /\ Handed'
    BY <1>1 DEF Served, Handed, TypeOK
  <1>6. Causes'
    BY <1>1 DEF Causes, Cause
  <1> QED
    BY <1>2, <1>3, <1>4, <1>5, <1>6

LEMMA AcceptStepReceive ==
  ASSUME IInv, NEW a \in Agents, NEW d \in Dials, Accept(a, d)
  PROVE  IInv'
  <1> USE TransportAssumption DEF IInv, Accept, Target, Remote, agentVars, connVars
  <1>1. CreateConn(a, Src[d]) \in Nat /\ CreateConn(a, Src[d]) = Find(City[Dst[d]], City[Src[d]])
    BY FindType
  <1>2. TypeOK'
    BY <1>1 DEF TypeOK
  <1>3. NoPanic' /\ DelayOfDirection'
    BY <1>1 DEF NoPanic, DelayOfDirection, TypeOK
  <1>4. Built'
    BY DEF Built, TypeOK
  <1>5. Served' /\ Handed'
    BY DEF Served, Handed, TypeOK
  <1>6. Causes'
    BY DEF Causes, Cause, TypeOK, Handed
  <1> QED
    BY <1>2, <1>3, <1>4, <1>5, <1>6

LEMMA AcceptClosedStep ==
  ASSUME IInv, NEW a \in Agents, AcceptClosed(a)
  PROVE  IInv'
  <1> USE TransportAssumption DEF IInv, AcceptClosed, IsClosed, agentVars, connVars
  <1>1. TypeOK'
    BY DEF TypeOK, Close
  <1>2. NoPanic' /\ DelayOfDirection'
    BY DEF NoPanic, DelayOfDirection, TypeOK, Close
  <1>3. Built'
    BY DEF Built, TypeOK
  <1>4. Served' /\ Handed'
    BY DEF Served, Handed, TypeOK
  <1>5. Causes'
    BY DEF Causes, Cause, TypeOK, Close
  <1> QED
    BY <1>1, <1>2, <1>3, <1>4, <1>5

LEMMA AcceptUpStep ==
  ASSUME IInv, NEW a \in Agents, AcceptUp(a)
  PROVE  IInv'
  <1> USE TransportAssumption DEF IInv, AcceptUp, agentVars, connVars
  <1>1. TypeOK'
    BY DEF TypeOK
  <1>2. NoPanic' /\ DelayOfDirection'
    BY DEF NoPanic, DelayOfDirection, Served, TypeOK
  <1>3. Built'
    BY DEF Built, TypeOK
  <1>4. Served' /\ Handed'
    BY DEF Served, Handed, TypeOK
  <1>5. Causes'
    BY DEF Causes, Cause, TypeOK, Served
  <1> QED
    BY <1>1, <1>2, <1>3, <1>4, <1>5

LEMMA AcceptFailsStep ==
  ASSUME IInv, NEW a \in Agents, AcceptFails(a)
  PROVE  IInv'
  <1> USE TransportAssumption DEF IInv, AcceptFails, agentVars, connVars
  <1>1. TypeOK'
    BY DEF TypeOK, Close
  <1>2. NoPanic' /\ DelayOfDirection'
    BY DEF NoPanic, DelayOfDirection, Served, TypeOK, Close
  <1>3. Built'
    BY DEF Built, TypeOK
  <1>4. Served' /\ Handed'
    BY DEF Served, Handed, TypeOK
  <1>5. Causes'
    BY DEF Causes, Cause, TypeOK, Served, Close
  <1> QED
    BY <1>1, <1>2, <1>3, <1>4, <1>5

LEMMA DialUpStep ==
  ASSUME IInv, NEW d \in Dials, DialUp(d)
  PROVE  IInv'
  <1> USE TransportAssumption DEF IInv, DialUp, agentVars, connVars
  <1>1. TypeOK'
    BY DEF TypeOK
  <1>2. NoPanic' /\ DelayOfDirection'
    BY DEF NoPanic, DelayOfDirection, TypeOK
  <1>3. Built'
    BY DEF Built, TypeOK
  <1>4. Served' /\ Handed'
    BY DEF Served, Handed, TypeOK
  <1>5. Causes'
    BY DEF Causes, Cause, TypeOK
  <1> QED
    BY <1>1, <1>2, <1>3, <1>4, <1>5

LEMMA DialFailsStep ==
  ASSUME IInv, NEW d \in Dials, DialFails(d)
  PROVE  IInv'
  <1> USE TransportAssumption DEF IInv, DialFails, agentVars, connVars
  <1>1. TypeOK'
    BY DEF TypeOK
  <1>2. NoPanic' /\ DelayOfDirection'
    BY DEF NoPanic, DelayOfDirection, TypeOK
  <1>3. Built'
    BY DEF Built, TypeOK
  <1>4. Served' /\ Handed'
    BY DEF Served, Handed, TypeOK
  <1>5. Causes'
    BY DEF Causes, Cause, TypeOK
  <1> QED
    BY <1>1, <1>2, <1>3, <1>4, <1>5

LEMMA StutterStep == IInv /\ UNCHANGED vars => IInv'
  BY DEF IInv, vars, agentVars, connVars, TypeOK, NoPanic, Built, Served, Handed, Causes, Cause,
         DelayOfDirection

LEMMA NextIInv == IInv /\ [Next]_vars => IInv'
  BY NewTransportStep, ListenStep, StopStep, DialStep, GetTransportStep, AcceptStepReceive,
     AcceptClosedStep, AcceptUpStep, AcceptFailsStep, DialUpStep, DialFailsStep, StutterStep
     DEF Next, AcceptStep

LEMMA Inductive == Spec => []IInv
  BY InitIInv, NextIInv, PTL DEF Spec

-----------------------------------------------------------------------------
(***************************************************************************)
(* The variables of the transports, of the listen loops and of both ends   *)
(* of every dial keep their types; an agent upgrades a connection exactly  *)
(* while Accept is in its second half (transport.go:73-86).                *)
(***************************************************************************)
THEOREM TypeCorrect == Spec => []TypeOK
  BY Inductive, PTL DEF IInv

(***************************************************************************)
(* Whatever agents are started, dialed and stopped in which order, no dial *)
(* misses the other transport in the manager's map and no closedCh is      *)
(* closed twice (transport_manager.go:40, transport.go:89).                *)
(***************************************************************************)
THEOREM NeverPanics == Spec => []NoPanic
  BY Inductive, PTL DEF IInv

(***************************************************************************)
(* Each end of every connection delays what it sends by the latency from   *)
(* its own city to the other's (transport.go:48, 81; latency.go:32).       *)
(***************************************************************************)
THEOREM DelaysRight == Spec => []DelayOfDirection
  BY Inductive, PTL DEF IInv

(***************************************************************************)
(* An agent goes deaf only when its host is closed or after a connection   *)
(* it had received failed together with its dial (transport.go:77-85).     *)
(***************************************************************************)
THEOREM DeafOnlyForCause == Spec => []DeafCauses
  <1>1. IInv => DeafCauses
    BY DEF IInv, Causes, Cause, DeafCauses
  <1> QED
    BY <1>1, Inductive, PTL

\* A dial comes up only with the other end's help.
Answered == \A d \in Dials : dial[d] = "up" => inbound[d] # "none"

LEMMA AnsweredAlways == Spec => []Answered
  <1>1. Init => Answered
    BY DEF Init, Answered
  <1>2. ASSUME IInv, Answered, [Next]_vars PROVE Answered'
    <2> USE <1>2 DEF IInv, TypeOK, Answered, agentVars, connVars
    <2>1. ASSUME NEW a \in Agents, NewTransport(a) \/ Listen(a) \/ Stop(a) \/ AcceptClosed(a)
          PROVE  Answered'
      BY <2>1 DEF NewTransport, Listen, Stop, AcceptClosed
    <2>2. ASSUME NEW a \in Agents, AcceptUp(a) \/ AcceptFails(a) PROVE Answered'
      BY <2>2 DEF AcceptUp, AcceptFails
    <2>3. ASSUME NEW a \in Agents, NEW d \in Dials, Accept(a, d) PROVE Answered'
      BY <2>3 DEF Accept
    <2>4. ASSUME NEW d \in Dials, Dial(d) \/ GetTransport(d) \/ DialUp(d) \/ DialFails(d)
          PROVE  Answered'
      BY <2>4 DEF Dial, GetTransport, DialUp, DialFails
    <2>5. CASE UNCHANGED vars
      BY <2>5 DEF vars
    <2> QED
      BY <2>1, <2>2, <2>3, <2>4, <2>5 DEF Next, AcceptStep
  <1> QED
    BY <1>1, <1>2, Inductive, PTL DEF Spec

(***************************************************************************)
(* One failed connection is final for its listener: every later dial to    *)
(* that agent stays without an answer, and leaves its goroutine behind     *)
(* (transport.go:44, 77-85).                                               *)
(***************************************************************************)
THEOREM DeafStaysDeaf == Spec => DeafForGood
  <1>1. ASSUME IInv, Answered, Next, NEW d \in Dials, loop[Dst[d]] = "ended", inbound[d] = "none"
        PROVE  /\ loop'[Dst[d]] = "ended" /\ inbound'[d] = "none" /\ dial'[d] # "up"
               /\ hand[d] = "send" => hand'[d] = "send"
    <2> USE <1>1, TransportAssumption DEF IInv, TypeOK, Answered, agentVars, connVars
    <2>1. ASSUME NEW a \in Agents, NewTransport(a) \/ Listen(a) \/ Stop(a) \/ AcceptClosed(a)
          PROVE  /\ loop'[Dst[d]] = "ended" /\ UNCHANGED <<inbound, dial, hand>>
      BY <2>1 DEF NewTransport, Listen, Stop, AcceptClosed
    <2>2. ASSUME NEW a \in Agents, AcceptUp(a) \/ AcceptFails(a)
          PROVE  /\ loop'[Dst[d]] = "ended" /\ inbound'[d] = "none" /\ UNCHANGED <<dial, hand>>
      <3>1. loop[a] = "upgrade" /\ serving[a] # None
        BY <2>2 DEF AcceptUp, AcceptFails
      <3>2. serving[a] # d
        BY <3>1 DEF Served
      <3> QED
        BY <2>2, <3>1, <3>2 DEF AcceptUp, AcceptFails
    <2>3. ASSUME NEW a \in Agents, NEW c \in Dials, Accept(a, c)
          PROVE  /\ loop'[Dst[d]] = "ended" /\ inbound'[d] = "none" /\ dial' = dial
                 /\ hand'[d] = hand[d]
      BY <2>3 DEF Accept, Target
    <2>4. ASSUME NEW c \in Dials, Dial(c) \/ GetTransport(c) \/ DialUp(c) \/ DialFails(c)
          PROVE  /\ loop' = loop /\ inbound' = inbound /\ dial'[d] # "up"
                 /\ hand[d] = "send" => hand'[d] = "send"
      <3>1. CASE Dial(c)
        BY <3>1 DEF Dial, HandOver, Built
      <3>2. CASE GetTransport(c)
        BY <3>2 DEF GetTransport
      <3>3. CASE DialUp(c) \/ DialFails(c)
        BY <3>3 DEF DialUp, DialFails
      <3> QED
        BY <2>4, <3>1, <3>2, <3>3
    <2> QED
      BY <2>1, <2>2, <2>3, <2>4 DEF Next, AcceptStep
  <1>2. IInv /\ Answered /\ [Next]_vars =>
          [\A d \in Dials : loop[Dst[d]] = "ended" /\ inbound[d] = "none" =>
               /\ loop'[Dst[d]] = "ended" /\ inbound'[d] = "none"
               /\ dial'[d] # "up"
               /\ hand[d] = "send" => hand'[d] = "send"]_vars
    BY <1>1
  <1> QED
    BY <1>2, Inductive, AnsweredAlways, PTL DEF Spec, DeafForGood
=============================================================================
