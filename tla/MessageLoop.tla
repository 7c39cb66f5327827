----------------------------- MODULE MessageLoop -----------------------------
(***************************************************************************)
(* The messaging loops of src/cluster/message_loop.go.  Loop starts one    *)
(* goroutine per validator, then feeds the ticks of a timer to an observer *)
(* subject until the timeout; every goroutine reads the subject through a  *)
(* stream of its own and sends a message per tick.  ConstantRateMessaging  *)
(* lets everybody send on every tick, HotstuffMessaging the leader on odd  *)
(* seconds and the others on even ones.                                    *)
(*                                                                         *)
(* The subject is used through EventLog, which package observer            *)
(* implements.  The end timer may fire at any moment, the ticker any       *)
(* number of times up to MaxTicks before it.                               *)
(***************************************************************************)
EXTENDS Integers, FiniteSets, Sequences

CONSTANTS Agents,     \* validators the cluster may pass to Loop
          NoAgent,
          Rates,      \* milliseconds between ticks that a constant rate may ask for
          MaxTicks    \* bound: ticks of the ticker

ASSUME LoopAssumption ==
    IsFiniteSet(Agents) /\ NoAgent \notin Agents /\ Rates \subseteq Int /\ MaxTicks \in Nat

VARIABLES kind,       \* "constant" or "hotstuff": which Loop runs
          rate,       \* the period of its ticker
          agents,     \* its argument
          leader,     \* HotstuffMessaging: the leader
          log, cursor,\* timeSubject and the streams on it
          mpc,        \* where the goroutine that called Loop is
          apc,        \* per agent: where its goroutine is
          started,    \* Loop's start is assigned
          ticks,      \* ticks fired so far
          tickCh,     \* tm.C, a channel of capacity one
          endFired,   \* end.C holds a value
          stopped,    \* stopCh is closed
          cancelled,  \* ctx is cancelled
          published, failed,
          result,     \* what Loop returned
          sentAt,     \* history: per agent, the ticks it called SendMessage for
          killed      \* history: who received from ctx.Done()

subject == <<log, cursor>>
timers == <<ticks, tickCh, endFired>>
counts == <<published, failed>>
vars == <<kind, rate, agents, leader, subject, mpc, apc, started, timers, stopped, cancelled,
          counts, result, sentAt, killed>>

\* All that no step but ChooseLeader, Cancel or Return changes
fixed == <<kind, rate, agents, leader, cancelled, result>>

ZeroTime == -1   \* NewSubject(start): a time.Time, not a duration
NoTick == -1
OneSecond == 1000
Seconds == 0..MaxTicks
Main == NoAgent  \* the updater's name in killed

timeSubject == INSTANCE EventLog
               WITH Streams <- Agents, Values <- Seconds, InitValue <- ZeroTime

Init ==
    /\ kind \in {"constant", "hotstuff"}
    /\ rate \in IF kind = "constant" THEN Rates ELSE {OneSecond}
    /\ agents \in SUBSET Agents
    /\ leader = NoAgent
    /\ timeSubject!LogInit
    /\ mpc = "enter"
    /\ apc = [a \in Agents |-> "none"]
    /\ started = FALSE
    /\ ticks = 0 /\ tickCh = NoTick /\ endFired = FALSE
    /\ stopped = FALSE
    /\ cancelled = FALSE
    /\ published = 0 /\ failed = 0
    /\ result = <<0, 0>>
    /\ sentAt = [a \in Agents |-> {}]
    /\ killed = {}

-----------------------------------------------------------------------------
(***************************************************************************)
(* The goroutine that calls Loop.                                          *)
(***************************************************************************)

\* rand.Intn panics without agents; a constant-rate loop needs no leader.
ChooseLeader ==
    /\ mpc = "enter"
    /\ \/ /\ kind = "constant"
          /\ mpc' = "spawn" /\ leader' = NoAgent
       \/ /\ kind = "hotstuff" /\ agents = {}
          /\ mpc' = "panic" /\ leader' = NoAgent
       \/ /\ kind = "hotstuff"
          /\ mpc' = "spawn" /\ leader' \in agents
    /\ UNCHANGED <<kind, rate, agents, subject, apc, started, timers, stopped, cancelled, counts, result, sentAt, killed>>

\* wg.Add(1); go func: the leader's goroutine comes first
Spawn(a) ==
    /\ mpc = "spawn"
    /\ a \in agents /\ apc[a] = "none"
    /\ \A b \in agents \ {a} : b = leader => apc[b] # "none"
    /\ apc' = [apc EXCEPT ![a] = "new"]
    /\ UNCHANGED <<fixed, subject, mpc, started, timers, stopped, counts, sentAt, killed>>

\* Mutant: the time is not taken before the updater runs.
AssignedNot == started

\* The value of started after the assignment
Assigned == TRUE

\* start = time.Now(), an unsynchronised write that the goroutines read
SetStart ==
    /\ mpc = "spawn"
    /\ \A a \in agents : apc[a] # "none"
    /\ started' = Assigned
    /\ mpc' = "ticker"
    /\ UNCHANGED <<fixed, subject, apc, timers, stopped, counts, sentAt, killed>>

\* startUpdatingSubject makes the ticker and the end timer; time.NewTicker
\* panics for a period that is not positive.
StartTimers ==
    /\ mpc = "ticker"
    /\ mpc' = IF rate > 0 THEN "loop" ELSE "panic"
    /\ UNCHANGED <<fixed, subject, apc, started, timers, stopped, counts, sentAt, killed>>

\* case <-ctx.Done() has an empty body: the select is entered again
UpdaterKilled ==
    /\ mpc = "loop" /\ cancelled
    /\ killed' = killed \cup {Main}
    /\ UNCHANGED <<fixed, subject, mpc, apc, started, timers, stopped, counts, sentAt>>

\* Mutant: the agents are not told.
CloseStopNot == stopped

\* close(done)
CloseStop == TRUE

\* case <-end.C: close(done), and the deferred Stops of the timers
UpdaterEnd ==
    /\ mpc = "loop" /\ endFired
    /\ stopped' = CloseStop
    /\ mpc' = "wait"
    /\ UNCHANGED <<fixed, subject, apc, started, timers, counts, sentAt, killed>>

\* case time := <-tm.C: the subject gets the elapsed time
UpdaterTick ==
    /\ mpc = "loop" /\ tickCh # NoTick
    /\ timeSubject!Publish(tickCh)
    /\ tickCh' = NoTick
    /\ UNCHANGED <<fixed, mpc, apc, started, ticks, endFired, stopped, counts, sentAt, killed>>

\* Mutant: Loop returns without waiting for the agents.
AgentsDoneNot == TRUE

AgentsDone == \A a \in agents : apc[a] = "returned"

\* wg.Wait() and the atomic loads
Return ==
    /\ mpc = "wait" /\ AgentsDone
    /\ mpc' = "returned"
    /\ result' = <<published, failed>>
    /\ UNCHANGED <<kind, rate, agents, leader, subject, apc, started, timers, stopped, cancelled, counts, sentAt, killed>>

-----------------------------------------------------------------------------
(***************************************************************************)
(* The goroutine of an agent.                                              *)
(***************************************************************************)

onEvenSecond(d) == d % 2 = 0

\* Mutant: the others do not look at the second either.
SendsOnAlways(a, d) == kind = "constant" \/ a # leader \/ ~onEvenSecond(d)

\* The conditions of lines 123 and 158.
SendsOn(a, d) ==
    \/ kind = "constant"
    \/ kind = "hotstuff" /\ (IF a = leader THEN ~onEvenSecond(d) ELSE onEvenSecond(d))

\* stream := timeSubject.Observe(), at whatever tick that is by now
AgentObserve(a) ==
    /\ apc[a] = "new"
    /\ timeSubject!Subscribe(a)
    /\ apc' = [apc EXCEPT ![a] = "select"]
    /\ UNCHANGED <<fixed, mpc, started, timers, stopped, counts, sentAt, killed>>

\* case <-ctx.Done(): an empty body here too
AgentKilled(a) ==
    /\ apc[a] = "select" /\ cancelled
    /\ killed' = killed \cup {a}
    /\ UNCHANGED <<fixed, subject, mpc, apc, started, timers, stopped, counts, sentAt>>

\* case <-stopCh: return, wg.Done()
AgentStop(a) ==
    /\ apc[a] = "select" /\ stopped
    /\ apc' = [apc EXCEPT ![a] = "returned"]
    /\ UNCHANGED <<fixed, subject, mpc, started, timers, stopped, counts, sentAt, killed>>

\* case <-stream.Changes(): Next, and SendMessage is called or not
AgentTick(a) ==
    /\ apc[a] = "select"
    /\ timeSubject!Advance(a)
    /\ IF SendsOn(a, log[cursor'[a]])
       THEN /\ apc' = [apc EXCEPT ![a] = "send"]
            /\ sentAt' = [sentAt EXCEPT ![a] = @ \cup {cursor'[a]}]
       ELSE UNCHANGED <<apc, sentAt>>
    /\ UNCHANGED <<fixed, mpc, started, timers, stopped, counts, killed>>

\* SendMessage returned nil or an error
AgentSent(a) ==
    /\ apc[a] = "send"
    /\ apc' = [apc EXCEPT ![a] = "select"]
    /\ \/ published' = published + 1 /\ UNCHANGED failed
       \/ failed' = failed + 1 /\ UNCHANGED published
    /\ UNCHANGED <<fixed, subject, mpc, started, timers, stopped, sentAt, killed>>

-----------------------------------------------------------------------------
(***************************************************************************)
(* The runtime's timers and the signal that cancels the context.           *)
(***************************************************************************)

\* The k-th tick comes at k periods after NewTicker, or a little later, and is
\* measured against a start taken a little after NewTicker: as a number of
\* whole periods it is k or k - 1.  A tick that finds the channel full is lost.
TickFires ==
    /\ mpc = "loop" /\ ticks < MaxTicks
    /\ ticks' = ticks + 1
    /\ \E elapsed \in {ticks, ticks + 1} :
          tickCh' = IF tickCh = NoTick THEN elapsed ELSE tickCh
    /\ UNCHANGED <<fixed, subject, mpc, apc, started, endFired, stopped, counts, sentAt, killed>>

EndFires ==
    /\ mpc = "loop" /\ ~endFired
    /\ endFired' = TRUE
    /\ UNCHANGED <<fixed, subject, mpc, apc, started, ticks, tickCh, stopped, counts, sentAt, killed>>

Cancel ==
    /\ ~cancelled
    /\ cancelled' = TRUE
    /\ UNCHANGED <<kind, rate, agents, leader, subject, mpc, apc, started, timers, stopped, counts, result, sentAt, killed>>

MainStep ==
    \/ ChooseLeader \/ (\E a \in Agents : Spawn(a)) \/ SetStart \/ StartTimers
    \/ UpdaterEnd \/ UpdaterTick \/ Return

Next ==
    \/ MainStep \/ UpdaterKilled
    \/ \E a \in Agents : \/ AgentObserve(a) \/ AgentKilled(a) \/ AgentStop(a)
                         \/ AgentTick(a) \/ AgentSent(a)
    \/ TickFires \/ EndFires \/ Cancel

Spec == Init /\ [][Next]_vars

\* Goroutines are scheduled, SendMessage returns, the timeout passes.  A case
\* of a select that stays ready while the loop comes back to it is chosen in
\* the end (Go draws among the ready cases), hence SF.
Fairness ==
    /\ WF_vars(MainStep) /\ SF_vars(UpdaterEnd) /\ WF_vars(EndFires)
    /\ \A a \in Agents : WF_vars(AgentObserve(a)) /\ WF_vars(AgentSent(a)) /\ SF_vars(AgentStop(a))

FairSpec == Spec /\ Fairness

-----------------------------------------------------------------------------
\* Types of the loop's variables and of the goroutines' states.
TypeOK ==
    /\ kind \in {"constant", "hotstuff"} /\ rate \in Int /\ agents \subseteq Agents
    /\ leader \in agents \cup {NoAgent}
    /\ log \in Seq(Seconds \cup {ZeroTime})
    /\ cursor \in [Agents -> 0..Len(log)]
    /\ mpc \in {"enter", "spawn", "ticker", "loop", "wait", "returned", "panic"}
    /\ apc \in [Agents -> {"none", "new", "select", "send", "returned"}]
    /\ ticks \in 0..MaxTicks /\ tickCh \in Seconds \cup {NoTick}
    /\ {started, endFired, stopped, cancelled} \subseteq BOOLEAN
    /\ published \in Nat /\ failed \in Nat /\ result \in Nat \X Nat
    /\ sentAt \in [Agents -> SUBSET (2..(MaxTicks + 1))]
    /\ killed \subseteq Agents \cup {Main}

\* A goroutine that sends was woken by a tick: start is assigned by then, and
\* the value of its stream is a duration, never the time.Time the subject was
\* made with (the read of start at lines 57 and 126, the type assertions at
\* lines 120 and 155).
TickBeforeSend ==
    \A a \in Agents : apc[a] = "send" => started /\ log[cursor[a]] # ZeroTime

\* The calls of SendMessage: by whom, and for which tick
Sends == {s \in Agents \X (2..(MaxTicks + 1)) : s[2] \in sentAt[s[1]]}

\* Loop returns only after every call of SendMessage was counted, and the
\* counts it returns are those of all of them (lines 73-75).
ResultComplete ==
    mpc = "returned" =>
        /\ result = <<published, failed>>
        /\ published + failed = Cardinality(Sends)

\* On one tick the leader sends or the others do, never both, even when a
\* goroutine reads the tick late (lines 102-103 and 138).
RoundsExclusive ==
    kind = "hotstuff" =>
        \A a, b \in agents : a = leader /\ b # leader => sentAt[a] \cap sentAt[b] = {}

\* Loop ends after its timeout, whether the context is cancelled or not, unless
\* it panics at its start.
Terminates == <>(mpc \in {"returned", "panic"})

-----------------------------------------------------------------------------
\* "kill or stop signal received" (message_loop.go:49) above the return of an
\* agent's goroutine, and the updater "will block until context is canceled"
\* (message_loop.go:194): an agent that received from ctx.Done() sends nothing
\* more, and an updater that did so leaves the subject alone.
KillStops ==
    [][/\ \A a \in killed \cap Agents : sentAt'[a] = sentAt[a]
       /\ Main \in killed => log' = log]_vars
=============================================================================
