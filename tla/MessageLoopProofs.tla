------------------------- MODULE MessageLoopProofs -------------------------
(***************************************************************************)
(* Safety of the messaging loops for any agents and number of ticks.  A    *)
(* value of the subject stands for a tick that the ticker fired after the  *)
(* start was taken, and a send for a value whose round is the sender's.    *)
(***************************************************************************)
EXTENDS MessageLoop, SequenceTheorems, FiniteSetTheorems, TLAPS

\* After the first value, the subject has the durations of ticks that fired.
Fed ==
    /\ log # <<>> /\ \A i \in 2..Len(log) : log[i] \in Seconds
    /\ Len(log) <= ticks + 1
    /\ tickCh # NoTick => Len(log) <= ticks

\* The ticker runs after the start was taken.
StartFirst ==
    /\ mpc \in {"ticker", "loop"} => started
    /\ ticks > 0 => started /\ mpc \in {"loop", "wait", "returned"}

\* Who sends, or sent, read a tick on which it may.
Turn ==
    /\ \A a \in Agents : apc[a] = "send" => cursor[a] \in 2..Len(log)
    /\ \A a \in Agents : \A i \in sentAt[a] : i \in 2..Len(log) /\ SendsOn(a, log[i])

IInv == TypeOK /\ Fed /\ StartFirst /\ Turn

-----------------------------------------------------------------------------
LEMMA InitIInv == Init => IInv
  <1> SUFFICES ASSUME Init PROVE IInv
    OBVIOUS
  <1>1. log = <<ZeroTime>> /\ Len(log) = 1 /\ log \in Seq(Seconds \cup {ZeroTime}) /\ log # <<>>
        /\ cursor = [a \in Agents |-> 0]
    BY DEF Init, timeSubject!LogInit
  <1>2. TypeOK
    <2>1. cursor \in [Agents -> 0..Len(log)]
      BY <1>1
    <2>2. sentAt \in [Agents -> SUBSET (2..(MaxTicks + 1))]
      BY DEF Init
    <2>3. ticks \in 0..MaxTicks /\ published \in Nat /\ failed \in Nat /\ result \in Nat \X Nat
      BY LoopAssumption DEF Init
    <2>4. apc \in [Agents -> {"none", "new", "select", "send", "returned"}]
      BY DEF Init
    <2>5. rate \in Int
      BY LoopAssumption DEF Init, OneSecond
    <2> QED
      BY <1>1, <2>1, <2>2, <2>3, <2>4, <2>5 DEF Init, TypeOK
  <1>3. Fed /\ StartFirst /\ Turn
    BY <1>1 DEF Init, Fed, StartFirst, Turn, NoTick
  <1> QED
    BY <1>2, <1>3 DEF IInv

\* A leader is chosen before any tick, hence before anybody sent.
LEMMA ChooseLeaderStep == IInv /\ ChooseLeader => IInv'
  <1> SUFFICES ASSUME IInv, ChooseLeader PROVE IInv'
    OBVIOUS
  <1> USE DEF IInv, ChooseLeader, subject, timers, counts
  <1>1. TypeOK'
    BY DEF TypeOK
  <1>2. Fed' /\ StartFirst'
    BY DEF Fed, StartFirst, TypeOK
  <1>3. ticks = 0 /\ Len(log) <= 1 /\ Len(log) \in Nat
    BY DEF StartFirst, Fed, TypeOK
  <1>4. \A a \in Agents : sentAt[a] = {}
    BY <1>3 DEF Turn
  <1>5. Turn'
    BY <1>4 DEF Turn
  <1> QED
    BY <1>1, <1>2, <1>5

\* Steps that leave the subject, the ticks and what was sent alone.
LEMMA QuietStep ==
  ASSUME IInv, TypeOK', UNCHANGED <<kind, leader, subject, ticks, tickCh, sentAt>>,
         started => started',
         \A a \in Agents : apc'[a] = "send" => apc[a] = "send",
         mpc' \in {"ticker", "loop"} => started',
         ticks > 0 => mpc' \in {"loop", "wait", "returned"}
  PROVE  IInv'
  <1> USE DEF IInv, subject
  <1>1. Fed'
    BY DEF Fed
  <1>2. StartFirst'
    BY DEF StartFirst
  <1>3. Turn'
    <2>1. \A a, d : SendsOn(a, d)' <=> SendsOn(a, d)
      BY DEF SendsOn, onEvenSecond
    <2>2. \A a \in Agents : \A i \in sentAt'[a] : SendsOn(a, log[i])'
      BY <2>1 DEF Turn
    <2> QED
      BY <2>2 DEF Turn
  <1> QED
    BY <1>1, <1>2, <1>3

LEMMA MainQuietStep ==
  ASSUME IInv, SetStart \/ StartTimers \/ UpdaterKilled \/ UpdaterEnd \/ Return
  PROVE  IInv'
  <1> USE DEF IInv, subject, timers, counts, fixed
  <1>1. CASE SetStart
    <2>1. TypeOK'
      BY <1>1 DEF SetStart, Assigned, TypeOK
    <2> QED
      BY <1>1, <2>1, QuietStep DEF SetStart, Assigned, StartFirst
  <1>2. CASE StartTimers
    <2>1. TypeOK'
      BY <1>2 DEF StartTimers, TypeOK
    <2> QED
      BY <1>2, <2>1, QuietStep DEF StartTimers, StartFirst
  <1>3. CASE UpdaterKilled
    <2>1. TypeOK'
      BY <1>3 DEF UpdaterKilled, TypeOK, Main
    <2> QED
      BY <1>3, <2>1, QuietStep DEF UpdaterKilled, StartFirst
  <1>4. CASE UpdaterEnd
    <2>1. TypeOK'
      BY <1>4 DEF UpdaterEnd, CloseStop, TypeOK
    <2> QED
      BY <1>4, <2>1, QuietStep DEF UpdaterEnd, StartFirst
  <1>5. CASE Return
    <2>1. TypeOK'
      BY <1>5 DEF Return, TypeOK
    <2> QED
      BY <1>5, <2>1, QuietStep DEF Return, StartFirst
  <1> QED
    BY <1>1, <1>2, <1>3, <1>4, <1>5

LEMMA SpawnStep ==
  ASSUME IInv, NEW a \in Agents, Spawn(a)
  PROVE  IInv'
  <1> USE DEF IInv, Spawn, subject, timers, counts, fixed
  <1>1. TypeOK'
    BY DEF TypeOK
  <1>2. \A b \in Agents : apc'[b] = "send" => apc[b] = "send"
    BY DEF TypeOK
  <1> QED
    BY <1>1, <1>2, QuietStep DEF StartFirst

LEMMA AgentQuietStep ==
  ASSUME IInv, NEW a \in Agents, AgentKilled(a) \/ AgentStop(a) \/ AgentSent(a)
  PROVE  IInv'
  <1> USE DEF IInv, subject, timers, counts, fixed
  <1>1. CASE AgentKilled(a)
    <2>1. TypeOK'
      BY <1>1 DEF AgentKilled, TypeOK
    <2> QED
      BY <1>1, <2>1, QuietStep DEF AgentKilled, StartFirst
  <1>2. CASE AgentStop(a)
    <2>1. TypeOK' /\ \A b \in Agents : apc'[b] = "send" => apc[b] = "send"
      BY <1>2 DEF AgentStop, TypeOK
    <2> QED
      BY <1>2, <2>1, QuietStep DEF AgentStop, StartFirst
  <1>3. CASE AgentSent(a)
    <2>1. TypeOK' /\ \A b \in Agents : apc'[b] = "send" => apc[b] = "send"
      BY <1>3 DEF AgentSent, TypeOK
    <2> QED
      BY <1>3, <2>1, QuietStep DEF AgentSent, StartFirst
  <1> QED
    BY <1>1, <1>2, <1>3

LEMMA ClockStep ==
  ASSUME IInv, EndFires \/ Cancel
  PROVE  IInv'
  <1> USE DEF IInv, subject, timers, counts, fixed
  <1>1. TypeOK'
    BY DEF EndFires, Cancel, TypeOK
  <1> QED
    BY <1>1, QuietStep DEF EndFires, Cancel, StartFirst

LEMMA TickFiresStep == IInv /\ TickFires => IInv'
  <1> SUFFICES ASSUME IInv, TickFires PROVE IInv'
    OBVIOUS
  <1> USE LoopAssumption DEF IInv, TickFires, subject, timers, counts, fixed
  <1>1. ticks' \in 0..MaxTicks /\ tickCh' \in Seconds \cup {NoTick} /\ ticks' = ticks + 1 /\ ticks \in Nat
    BY DEF TypeOK, Seconds
  <1>2. TypeOK'
    BY <1>1 DEF TypeOK
  <1>3. Fed'
    BY <1>1 DEF Fed, TypeOK
  <1>4. StartFirst'
    BY <1>1 DEF StartFirst
  <1>5. Turn'
    <2>1. \A a, d : SendsOn(a, d)' <=> SendsOn(a, d)
      BY DEF SendsOn, onEvenSecond
    <2>2. \A a \in Agents : \A i \in sentAt'[a] : SendsOn(a, log[i])'
      BY <2>1 DEF Turn
    <2> QED
      BY <2>2 DEF Turn
  <1> QED
    BY <1>2, <1>3, <1>4, <1>5

LEMMA UpdaterTickStep == IInv /\ UpdaterTick => IInv'
  <1> SUFFICES ASSUME IInv, UpdaterTick PROVE IInv'
    OBVIOUS
  <1> USE DEF counts, fixed
  <1>0. /\ TypeOK /\ Fed /\ StartFirst /\ Turn /\ mpc = "loop" /\ tickCh # NoTick /\ tickCh' = NoTick
        /\ log' = Append(log, tickCh) /\ cursor' = cursor
        /\ UNCHANGED <<kind, rate, agents, leader, cancelled, result, mpc, apc, started, ticks, endFired, stopped,
                       published, failed, sentAt, killed>>
    BY DEF IInv, UpdaterTick, timeSubject!Publish
  <1>1. /\ log \in Seq(Seconds \cup {ZeroTime}) /\ tickCh \in Seconds /\ Len(log) \in Nat
        /\ ticks \in Nat /\ Len(log) <= ticks
    BY <1>0 DEF TypeOK, Fed
  <1>2. /\ log' \in Seq(Seconds \cup {ZeroTime}) /\ Len(log') = Len(log) + 1
        /\ \A i \in 1..Len(log) : log'[i] = log[i]
        /\ log'[Len(log) + 1] = tickCh
    BY <1>0, <1>1, AppendProperties
  <1>3. TypeOK'
    <2>1. cursor' \in [Agents -> 0..Len(log')]
      BY <1>0, <1>1, <1>2 DEF TypeOK
    <2> QED
      BY <1>0, <1>2, <2>1 DEF TypeOK
  <1>4. Fed'
    <2>1. \A i \in 2..Len(log') : log'[i] \in Seconds
      <3> TAKE i \in 2..Len(log')
      <3>1. CASE i = Len(log) + 1
        BY <3>1, <1>1, <1>2
      <3>2. CASE i # Len(log) + 1
        <4>1. i \in 1..Len(log) /\ i \in 2..Len(log)
          BY <3>2, <1>1, <1>2
        <4> QED
          BY <4>1, <1>0, <1>2 DEF Fed
      <3> QED
        BY <3>1, <3>2
    <2>2. log' # <<>> /\ Len(log') <= ticks' + 1
      BY <1>0, <1>1, <1>2
    <2> QED
      BY <1>0, <2>1, <2>2 DEF Fed
  <1>5. StartFirst'
    BY <1>0 DEF StartFirst
  <1>6. Turn'
    <2>1. \A i \in 2..Len(log) : i \in 1..Len(log) /\ i \in 2..Len(log')
      BY <1>1, <1>2
    <2>2. \A a, d : SendsOn(a, d)' <=> SendsOn(a, d)
      BY <1>0 DEF SendsOn, onEvenSecond
    <2>3. \A a \in Agents : \A i \in sentAt'[a] : i \in 2..Len(log') /\ SendsOn(a, log[i])
      BY <1>0, <2>1 DEF Turn
    <2>4. \A a \in Agents : \A i \in sentAt'[a] : log'[i] = log[i]
      BY <1>0, <1>2, <2>1 DEF Turn
    <2>5. \A a \in Agents : \A i \in sentAt'[a] : SendsOn(a, log[i])'
      BY <1>0, <2>3, <2>4 DEF SendsOn, onEvenSecond
    <2>6. \A a \in Agents : apc'[a] = "send" => cursor'[a] \in 2..Len(log')
      BY <1>0, <2>1 DEF Turn
    <2> QED
      BY <2>3, <2>5, <2>6 DEF Turn
  <1> QED
    BY <1>3, <1>4, <1>5, <1>6 DEF IInv

LEMMA AgentObserveStep ==
  ASSUME IInv, NEW a \in Agents, AgentObserve(a)
  PROVE  IInv'
  <1>0. /\ TypeOK /\ Fed /\ StartFirst /\ Turn /\ cursor' = [cursor EXCEPT ![a] = Len(log)] /\ log' = log
        /\ apc' = [apc EXCEPT ![a] = "select"]
        /\ UNCHANGED <<kind, rate, agents, leader, cancelled, result, mpc, started, ticks, tickCh, endFired, stopped,
                       published, failed, sentAt, killed>>
    BY DEF IInv, AgentObserve, timeSubject!Subscribe, fixed, timers, counts
  <1>1. Len(log) \in Nat
    BY <1>0 DEF TypeOK
  <1>2. TypeOK'
    BY <1>0, <1>1 DEF TypeOK
  <1>3. Fed' /\ StartFirst'
    BY <1>0 DEF Fed, StartFirst
  <1>4. Turn'
    <2>1. \A b \in Agents : apc'[b] = "send" => cursor'[b] \in 2..Len(log)
      BY <1>0 DEF Turn, TypeOK
    <2>2. \A b \in Agents : \A i \in sentAt'[b] : i \in 2..Len(log) /\ SendsOn(b, log[i])'
      BY <1>0 DEF Turn, SendsOn, onEvenSecond
    <2> QED
      BY <1>0, <2>1, <2>2 DEF Turn
  <1> QED
    BY <1>2, <1>3, <1>4 DEF IInv

LEMMA AgentTickStep ==
  ASSUME IInv, NEW a \in Agents, AgentTick(a)
  PROVE  IInv'
  <1> DEFINE c == cursor[a] + 1
  <1>0. /\ TypeOK /\ Fed /\ StartFirst /\ Turn /\ cursor' = [cursor EXCEPT ![a] = c] /\ log' = log
        /\ cursor[a] \in 1..(Len(log) - 1)
        /\ UNCHANGED <<kind, rate, agents, leader, cancelled, result, mpc, started, ticks, tickCh, endFired, stopped,
                       published, failed, killed>>
    BY DEF IInv, AgentTick, timeSubject!Advance, timeSubject!HasNews, fixed, timers, counts
  <1>1. /\ Len(log) \in Nat /\ ticks \in Nat /\ Len(log) <= MaxTicks + 1 /\ MaxTicks \in Nat
        /\ cursor'[a] = c
    BY <1>0, LoopAssumption DEF TypeOK, Fed
  <1>2. c \in 2..Len(log) /\ c \in 2..(MaxTicks + 1) /\ c \in 0..Len(log)
    BY <1>0, <1>1
  <1>3. \/ /\ SendsOn(a, log[c]) /\ apc' = [apc EXCEPT ![a] = "send"]
           /\ sentAt' = [sentAt EXCEPT ![a] = @ \cup {c}]
        \/ UNCHANGED <<apc, sentAt>>
    BY <1>1 DEF AgentTick
  <1> HIDE DEF c
  <1>4. TypeOK'
    <2>1. cursor' \in [Agents -> 0..Len(log)]
      BY <1>0, <1>2 DEF TypeOK
    <2>2. apc' \in [Agents -> {"none", "new", "select", "send", "returned"}]
      BY <1>0, <1>3 DEF TypeOK
    <2>3. sentAt' \in [Agents -> SUBSET (2..(MaxTicks + 1))]
      <3>1. sentAt \in [Agents -> SUBSET (2..(MaxTicks + 1))]
        BY <1>0 DEF TypeOK
      <3>2. sentAt[a] \cup {c} \in SUBSET (2..(MaxTicks + 1))
        BY <1>2, <3>1
      <3> QED
        BY <1>3, <3>1, <3>2
    <2> QED
      BY <1>0, <2>1, <2>2, <2>3 DEF TypeOK
  <1>5. Fed' /\ StartFirst'
    BY <1>0 DEF Fed, StartFirst
  <1>6. \A b, d : SendsOn(b, d)' <=> SendsOn(b, d)
    BY <1>0 DEF SendsOn, onEvenSecond
  <1>7. \A b \in Agents : apc'[b] = "send" => cursor'[b] \in 2..Len(log)
    BY <1>0, <1>2, <1>3 DEF Turn, TypeOK
  <1>8. \A b \in Agents : \A i \in sentAt'[b] : i \in 2..Len(log) /\ SendsOn(b, log[i])
    BY <1>0, <1>2, <1>3 DEF Turn, TypeOK
  <1>9. Turn'
    <2>1. \A b \in Agents : \A i \in sentAt'[b] : SendsOn(b, log[i])'
      BY <1>0, <1>8 DEF SendsOn, onEvenSecond
    <2> QED
      BY <1>0, <1>7, <1>8, <2>1 DEF Turn
  <1> QED
    BY <1>4, <1>5, <1>9 DEF IInv

LEMMA StutterStep == IInv /\ UNCHANGED vars => IInv'
  <1> SUFFICES ASSUME IInv, UNCHANGED vars PROVE IInv'
    OBVIOUS
  <1> USE DEF IInv, vars, subject, timers, counts
  <1>1. TypeOK'
    BY DEF TypeOK
  <1> QED
    BY <1>1, QuietStep DEF StartFirst

LEMMA NextIInv == IInv /\ [Next]_vars => IInv'
  BY ChooseLeaderStep, SpawnStep, MainQuietStep, UpdaterTickStep, AgentObserveStep, AgentQuietStep,
     AgentTickStep, TickFiresStep, ClockStep, StutterStep DEF Next, MainStep

LEMMA Inductive == Spec => []IInv
  BY InitIInv, NextIInv, PTL DEF Spec

-----------------------------------------------------------------------------
(***************************************************************************)
(* The variables of Loop, its updater and its goroutines keep their types. *)
(***************************************************************************)
THEOREM TypeCorrect == Spec => []TypeOK
  BY Inductive, PTL DEF IInv

(***************************************************************************)
(* No goroutine sends before the start is assigned, nor on the time.Time   *)
(* the subject was made with (message_loop.go:57, 120, 126, 155).          *)
(***************************************************************************)
THEOREM SendsAfterTick == Spec => []TickBeforeSend
  <1>1. IInv => TickBeforeSend
    <2> SUFFICES ASSUME IInv, NEW a \in Agents, apc[a] = "send"
                 PROVE  started /\ log[cursor[a]] # ZeroTime
      BY DEF TickBeforeSend
    <2>1. cursor[a] \in 2..Len(log) /\ Len(log) \in Nat /\ ticks \in Nat
      BY DEF IInv, Turn, TypeOK
    <2>2. ticks > 0
      BY <2>1 DEF IInv, Fed
    <2>3. log[cursor[a]] \in Seconds
      BY <2>1 DEF IInv, Fed
    <2> QED
      BY <2>2, <2>3, LoopAssumption DEF IInv, StartFirst, Seconds, ZeroTime
  <1> QED
    BY <1>1, Inductive, PTL

(***************************************************************************)
(* The leader and the others never send on the same tick, however late a   *)
(* goroutine reads it (message_loop.go:123, 158).                          *)
(***************************************************************************)
THEOREM RoundsApart == Spec => []RoundsExclusive
  <1>1. IInv => RoundsExclusive
    <2> SUFFICES ASSUME IInv, kind = "hotstuff", NEW a \in agents, NEW b \in agents, a = leader, b # leader,
                        NEW i \in sentAt[a], i \in sentAt[b]
                 PROVE  FALSE
      BY DEF RoundsExclusive
    <2>1. a \in Agents /\ b \in Agents
      BY DEF IInv, TypeOK
    <2>2. SendsOn(a, log[i]) /\ SendsOn(b, log[i])
      BY <2>1 DEF IInv, Turn
    <2> QED
      BY <2>2 DEF SendsOn
  <1> QED
    BY <1>1, Inductive, PTL
-----------------------------------------------------------------------------
(***************************************************************************)
(* The counters.  A call of SendMessage is counted when it returns; until  *)
(* then its goroutine is in it.                                            *)
(***************************************************************************)
Sending == {a \in Agents : apc[a] = "send"}

Tally == published + failed + Cardinality(Sending) = Cardinality(Sends)

\* A goroutine has not yet sent for a tick that it has not read.
Ahead ==
    \A a \in Agents : /\ apc[a] \in {"none", "new"} => sentAt[a] = {}
                      /\ \A k \in sentAt[a] : k <= cursor[a]

\* Only the goroutines of Loop's agents run, and none after its return.
Waited ==
    /\ \A a \in Agents : a \notin agents => apc[a] = "none"
    /\ mpc = "returned" => AgentsDone /\ result = <<published, failed>>

CInv == Tally /\ Ahead /\ Waited

LEMMA SetsFinite == IsFiniteSet(Sending) /\ IsFiniteSet(Sends)
  <1>1. IsFiniteSet(Agents) /\ MaxTicks \in Nat
    BY LoopAssumption
  <1>2. IsFiniteSet(2..(MaxTicks + 1))
    BY <1>1, FS_Interval
  <1>3. IsFiniteSet(Agents \X (2..(MaxTicks + 1)))
    BY <1>1, <1>2, FS_Product
  <1>4. Sending \in SUBSET Agents /\ Sends \in SUBSET (Agents \X (2..(MaxTicks + 1)))
    BY DEF Sending, Sends
  <1> QED
    BY <1>1, <1>3, <1>4, FS_Subset

LEMMA InitCInv == Init => CInv
  <1> SUFFICES ASSUME Init PROVE CInv
    OBVIOUS
  <1>1. Sending = {} /\ Sends = {}
    BY DEF Init, Sending, Sends
  <1>2. Tally
    BY <1>1, FS_EmptySet DEF Init, Tally
  <1>3. Ahead /\ Waited
    BY DEF Init, Ahead, Waited
  <1> QED
    BY <1>2, <1>3 DEF CInv

\* Steps in which nobody enters or leaves SendMessage.
NoCall(a) ==
    /\ apc'[a] = "send" <=> apc[a] = "send"
    /\ apc'[a] \in {"none", "new"} => apc[a] \in {"none", "new"}
    /\ a \notin agents => apc'[a] = apc[a]
    /\ \/ cursor'[a] = cursor[a] \/ apc[a] \in {"none", "new"}
       \/ cursor[a] \in Nat /\ cursor'[a] = cursor[a] + 1

LEMMA NoCallStep ==
  ASSUME IInv, CInv, UNCHANGED <<agents, published, failed, sentAt>>,
         \A a \in Agents : NoCall(a),
         mpc' = "returned" => AgentsDone' /\ result' = <<published, failed>>
  PROVE  CInv'
  <1>1. Sending' = Sending /\ Sends' = Sends
    BY DEF NoCall, Sending, Sends
  <1>2. Tally'
    BY <1>1 DEF CInv, Tally
  <1>3. Ahead'
    <2> SUFFICES ASSUME NEW a \in Agents
                 PROVE  /\ apc'[a] \in {"none", "new"} => sentAt[a] = {}
                        /\ \A k \in sentAt[a] : k <= cursor'[a]
      BY DEF Ahead
    <2>1. \A k \in sentAt[a] : k \in Nat /\ k <= cursor[a]
      BY DEF CInv, Ahead, IInv, TypeOK
    <2>2. NoCall(a)
      OBVIOUS
    <2> QED
      BY <2>1, <2>2 DEF CInv, Ahead, NoCall
  <1>4. Waited'
    BY DEF CInv, Waited, NoCall
  <1> QED
    BY <1>2, <1>3, <1>4 DEF CInv

\* A goroutine reads a tick: the call it starts is one more.
LEMMA AgentTickCounts ==
  ASSUME IInv, CInv, NEW a \in Agents, AgentTick(a)
  PROVE  CInv'
  <1> DEFINE c == cursor[a] + 1
  <1>1. /\ cursor' = [cursor EXCEPT ![a] = c] /\ apc[a] = "select" /\ cursor \in [Agents -> 0..Len(log)]
        /\ log' = log /\ cursor[a] \in 1..(Len(log) - 1) /\ Len(log) \in Nat /\ cursor[a] \in Nat
        /\ UNCHANGED <<kind, rate, agents, leader, cancelled, result, mpc, started, ticks, tickCh, endFired, stopped,
                       published, failed, killed>>
    BY DEF IInv, TypeOK, AgentTick, timeSubject!Advance, timeSubject!HasNews, fixed, timers, counts
  <1>2. cursor'[a] = c /\ \A b \in Agents \ {a} : cursor'[b] = cursor[b]
    BY <1>1
  <1>3. mpc # "returned" /\ a \in agents
    BY <1>1 DEF CInv, Waited, AgentsDone
  <1>4. CASE UNCHANGED <<apc, sentAt>>
    <2>1. \A b \in Agents : NoCall(b)
      BY <1>1, <1>2, <1>4 DEF NoCall
    <2> QED
      BY <1>1, <1>3, <1>4, <2>1, NoCallStep
  <1>5. CASE apc' = [apc EXCEPT ![a] = "send"] /\ sentAt' = [sentAt EXCEPT ![a] = @ \cup {c}]
    <2>1. sentAt \in [Agents -> SUBSET (2..(MaxTicks + 1))] /\ apc \in [Agents -> {"none", "new", "select", "send", "returned"}]
      BY DEF IInv, TypeOK
    <2>2. c \in 2..(MaxTicks + 1)
      <3>1. ticks \in 0..MaxTicks /\ Len(log) <= ticks + 1 /\ MaxTicks \in Nat
        BY LoopAssumption DEF IInv, TypeOK, Fed
      <3> QED
        BY <1>1, <3>1
    <2>3. c \notin sentAt[a]
      BY <1>1 DEF CInv, Ahead
    <2> HIDE DEF c
    <2>4. Sends' = Sends \cup {<<a, c>>} /\ <<a, c>> \notin Sends
      <3>1. \A b \in Agents : sentAt'[b] = IF b = a THEN sentAt[b] \cup {c} ELSE sentAt[b]
        BY <1>5, <2>1
      <3>2. ASSUME NEW s \in Agents \X (2..(MaxTicks + 1))
            PROVE  s[2] \in sentAt'[s[1]] <=> s[2] \in sentAt[s[1]] \/ s = <<a, c>>
        <4>1. s[1] \in Agents /\ s = <<s[1], s[2]>>
          OBVIOUS
        <4>2. s = <<a, c>> <=> s[1] = a /\ s[2] = c
          BY <4>1
        <4> QED
          BY <3>1, <4>1, <4>2
      <3>3. <<a, c>> \in Agents \X (2..(MaxTicks + 1))
        BY <2>2
      <3>4. <<a, c>> \notin Sends
        BY <2>3 DEF Sends
      <3> QED
        BY <3>2, <3>3, <3>4 DEF Sends
    <2>5. Sending' = Sending \cup {a} /\ a \notin Sending
      BY <1>1, <1>5, <2>1 DEF Sending
    <2>6. /\ Cardinality(Sends') = Cardinality(Sends) + 1 /\ Cardinality(Sending') = Cardinality(Sending) + 1
          /\ Cardinality(Sends) \in Nat /\ Cardinality(Sending) \in Nat
      BY <2>4, <2>5, SetsFinite, FS_AddElement, FS_CardinalityType
    <2>7. Tally'
      BY <1>1, <2>6 DEF CInv, Tally, IInv, TypeOK
    <2>8. Ahead'
      <3> SUFFICES ASSUME NEW b \in Agents
                   PROVE  /\ apc'[b] \in {"none", "new"} => sentAt'[b] = {}
                          /\ \A k \in sentAt'[b] : k <= cursor'[b]
        BY DEF Ahead
      <3>1. CASE b = a
        <4>1. \A k \in sentAt[a] : k \in Nat /\ k <= cursor[a]
          BY <2>1 DEF CInv, Ahead
        <4>2. \A k \in sentAt[a] : k <= c
          BY <1>1, <4>1 DEF c
        <4>3. c <= c
          BY <2>2
        <4> QED
          BY <3>1, <1>2, <1>5, <2>1, <4>2, <4>3
      <3>2. CASE b # a
        BY <3>2, <1>2, <1>5, <2>1 DEF CInv, Ahead
      <3> QED
        BY <3>1, <3>2
    <2>9. Waited'
      BY <1>1, <1>3, <1>5, <2>1 DEF CInv, Waited
    <2> QED
      BY <2>7, <2>8, <2>9 DEF CInv
  <1> QED
    BY <1>2, <1>4, <1>5 DEF AgentTick

\* SendMessage returns: the call is counted.
LEMMA AgentSentCounts ==
  ASSUME IInv, CInv, NEW a \in Agents, AgentSent(a)
  PROVE  CInv'
  <1>1. /\ apc[a] = "send" /\ apc' = [apc EXCEPT ![a] = "select"] /\ published \in Nat /\ failed \in Nat
        /\ apc \in [Agents -> {"none", "new", "select", "send", "returned"}]
        /\ UNCHANGED <<agents, mpc, cursor, sentAt, result>>
    BY DEF AgentSent, fixed, subject, IInv, TypeOK
  <1>2. mpc # "returned" /\ a \in agents
    BY <1>1 DEF CInv, Waited, AgentsDone
  <1>3. Sends' = Sends
    BY <1>1 DEF Sends
  <1>4. Sending' = Sending \ {a} /\ a \in Sending
    BY <1>1 DEF Sending
  <1>5. /\ Cardinality(Sending') = Cardinality(Sending) - 1
        /\ Cardinality(Sends) \in Nat /\ Cardinality(Sending) \in Nat
    BY <1>4, SetsFinite, FS_RemoveElement, FS_CardinalityType
  <1>6. Tally'
    <2>1. published + failed + Cardinality(Sending) = Cardinality(Sends)
      BY DEF CInv, Tally
    <2> DEFINE x == Cardinality(Sending)  y == Cardinality(Sends)
    <2>2. x \in Nat /\ y \in Nat /\ x' = x - 1 /\ y' = y /\ published + failed + x = y
      BY <1>3, <1>5, <2>1
    <2> HIDE DEF x, y
    <2>3. published' + failed' + x' = y'
      <3>1. CASE published' = published + 1 /\ failed' = failed
        BY <1>1, <2>2, <3>1
      <3>2. CASE failed' = failed + 1 /\ published' = published
        BY <1>1, <2>2, <3>2
      <3> QED
        BY <3>1, <3>2 DEF AgentSent
    <2> QED
      BY <2>3 DEF Tally, x, y
  <1>7. Ahead'
    BY <1>1 DEF CInv, Ahead
  <1>8. Waited'
    BY <1>1, <1>2 DEF CInv, Waited
  <1> QED
    BY <1>6, <1>7, <1>8 DEF CInv

LEMMA AgentNoCall ==
  ASSUME IInv, CInv, NEW a \in Agents, AgentObserve(a) \/ AgentKilled(a) \/ AgentStop(a) \/ Spawn(a)
  PROVE  CInv'
  <1> USE DEF fixed, subject, timers, counts
  <1>0. /\ apc \in [Agents -> {"none", "new", "select", "send", "returned"}]
        /\ cursor \in [Agents -> 0..Len(log)]
        /\ apc[a] # "none" => a \in agents
        /\ mpc = "returned" => \A b \in agents : apc[b] = "returned"
    BY DEF IInv, TypeOK, CInv, Waited, AgentsDone
  <1>1. CASE AgentObserve(a)
    <2>1. apc[a] = "new" /\ apc' = [apc EXCEPT ![a] = "select"] /\ cursor' = [cursor EXCEPT ![a] = Len(log)]
          /\ UNCHANGED <<agents, mpc, published, failed, sentAt, result>>
      BY <1>1 DEF AgentObserve, timeSubject!Subscribe
    <2>2. \A b \in Agents : NoCall(b)
      BY <1>0, <2>1 DEF NoCall
    <2>3. mpc # "returned"
      BY <1>0, <2>1
    <2> QED
      BY <2>1, <2>2, <2>3, NoCallStep
  <1>2. CASE AgentKilled(a)
    <2>1. UNCHANGED <<agents, mpc, apc, cursor, published, failed, sentAt, result>>
      BY <1>2 DEF AgentKilled
    <2> QED
      BY <2>1, NoCallStep DEF CInv, Waited, AgentsDone, NoCall
  <1>3. CASE AgentStop(a)
    <2>1. apc[a] = "select" /\ apc' = [apc EXCEPT ![a] = "returned"]
          /\ UNCHANGED <<agents, mpc, cursor, published, failed, sentAt, result>>
      BY <1>3 DEF AgentStop
    <2>2. \A b \in Agents : NoCall(b)
      BY <1>0, <2>1 DEF NoCall
    <2>3. mpc # "returned"
      BY <1>0, <2>1
    <2> QED
      BY <2>1, <2>2, <2>3, NoCallStep
  <1>4. CASE Spawn(a)
    <2>1. a \in agents /\ apc[a] = "none" /\ mpc = "spawn" /\ apc' = [apc EXCEPT ![a] = "new"]
          /\ UNCHANGED <<agents, mpc, cursor, published, failed, sentAt, result>>
      BY <1>4 DEF Spawn
    <2>2. \A b \in Agents : NoCall(b)
      BY <1>0, <2>1 DEF NoCall
    <2>3. mpc # "returned"
      BY <1>0, <2>1
    <2> QED
      BY <2>1, <2>2, <2>3, NoCallStep
  <1> QED
    BY <1>1, <1>2, <1>3, <1>4

\* The other steps leave the goroutines alone.
LEMMA OtherNoCall ==
  ASSUME IInv, CInv,
         \/ ChooseLeader \/ SetStart \/ StartTimers \/ UpdaterKilled \/ UpdaterEnd \/ UpdaterTick \/ Return
         \/ TickFires \/ EndFires \/ Cancel \/ UNCHANGED vars
  PROVE  CInv'
  <1>1. UNCHANGED <<agents, apc, cursor, published, failed, sentAt>>
    BY DEF ChooseLeader, SetStart, StartTimers, UpdaterKilled, UpdaterEnd, UpdaterTick, Return, TickFires,
           EndFires, Cancel, vars, fixed, subject, timers, counts, timeSubject!Publish
  <1>2. mpc' = "returned" => AgentsDone /\ result' = <<published, failed>>
    BY DEF ChooseLeader, SetStart, StartTimers, UpdaterKilled, UpdaterEnd, UpdaterTick, Return, TickFires,
           EndFires, Cancel, vars, fixed, CInv, Waited
  <1>3. AgentsDone' <=> AgentsDone
    BY <1>1 DEF AgentsDone
  <1> QED
    BY <1>1, <1>2, <1>3, NoCallStep DEF NoCall

LEMMA NextCInv == IInv /\ CInv /\ [Next]_vars => CInv'
  BY AgentTickCounts, AgentSentCounts, AgentNoCall, OtherNoCall DEF Next, MainStep

(***************************************************************************)
(* What Loop returns counts every call of SendMessage, also the last ones, *)
(* made as stopCh is closed (message_loop.go:73-75).                       *)
(***************************************************************************)
THEOREM AllCounted == Spec => []ResultComplete
  <1>1. IInv /\ CInv => ResultComplete
    <2> SUFFICES ASSUME IInv, CInv, mpc = "returned"
                 PROVE  result = <<published, failed>> /\ published + failed = Cardinality(Sends)
      BY DEF ResultComplete
    <2>1. Sending = {}
      BY DEF CInv, Waited, AgentsDone, Sending
    <2>2. Cardinality(Sending) = 0
      BY <2>1, FS_EmptySet
    <2> QED
      BY <2>2 DEF IInv, TypeOK, CInv, Tally, Waited
  <1> QED
    BY <1>1, InitCInv, NextCInv, Inductive, PTL DEF Spec

(***************************************************************************)
(* Loop and its goroutines use the time subject only in the ways the       *)
(* observer allows: one Observe per stream, Next only behind a closed      *)
(* Changes channel, and Update with durations only (message_loop.go:43,    *)
(* 52-54, 117-119, 152-154, 216).  This is what lets EventLog stand for    *)
(* package observer here.                                                  *)
(***************************************************************************)
THEOREM SubjectUsedAsAllowed == Spec => timeSubject!LogSpec
  <1>1. Init => timeSubject!LogInit
    BY DEF Init
  <1>2. ASSUME IInv, [Next]_vars PROVE [timeSubject!LogNext]_(timeSubject!logVars)
    <2>1. CASE UpdaterTick
      <3>1. tickCh \in Seconds /\ timeSubject!Publish(tickCh)
        BY <1>2, <2>1 DEF UpdaterTick, IInv, TypeOK
      <3> QED
        BY <3>1 DEF timeSubject!LogNext
    <2>2. CASE \E a \in Agents : AgentObserve(a) \/ AgentTick(a)
      BY <2>2 DEF AgentObserve, AgentTick, timeSubject!LogNext
    <2>3. CASE UNCHANGED subject
      BY <2>3 DEF subject, timeSubject!logVars
    <2>4. \/ UpdaterTick \/ UNCHANGED subject
          \/ \E a \in Agents : AgentObserve(a) \/ AgentTick(a)
      BY <1>2 DEF Next, MainStep, vars, ChooseLeader, Spawn, SetStart, StartTimers, UpdaterKilled,
                  UpdaterEnd, Return, AgentKilled, AgentStop, AgentSent, TickFires, EndFires, Cancel
    <2> QED
      BY <2>1, <2>2, <2>3, <2>4
  <1> QED
    BY <1>1, <1>2, Inductive, PTL DEF Spec, timeSubject!LogSpec
=============================================================================
