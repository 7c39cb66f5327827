------------------------------- MODULE Stats -------------------------------
(***************************************************************************)
(* The stats command (src/cmd/stats/commands/stats_cmd.go) on the log of a *)
(* benchmark that has ended, or was killed at any moment.  RunStats reads  *)
(* the lines one by one into the same variable, so that a field which a    *)
(* line does not have keeps the value of the line before; addStatistics    *)
(* counts, printStats evaluates.  A missing time is 0, before all others.  *)
(* The order and the wording of the output are left out.                   *)
(***************************************************************************)
EXTENDS MessageLog, FiniteSetsExt

CONSTANT maxDuration   \* the option -duration, in seconds

ASSUME StatsAssumption == maxDuration \in Int /\ IsFiniteSet(Agents)

VARIABLES phase,       \* "run", then "scan", then "done"; or "panic"
          pos,         \* lines read
          logLine, result, msgNumber,
          report       \* what printStats found

statVars == <<phase, pos, logLine, result, msgNumber, report>>
vars == <<logVars, statVars>>

\* The log's header has these from the command line
AgentsCount == Cardinality(Agents)
ValidatorsCount == Cardinality(Validators)
durations == 1..maxDuration

Init ==
    /\ LogInit
    /\ phase = "run" /\ pos = 0 /\ msgNumber = 0
    /\ logLine = [time |-> 0, direction |-> "", msgID |-> "", aggregateStats |-> FALSE,
                  isValidator |-> FALSE]
    /\ result = [m \in {} |-> 0]
    /\ report = [notAll |-> 0, maxMissing |-> 0, after |-> [t \in {} |-> 0], shown |-> [m \in {} |-> {}]]

\* The benchmark goes on, or ends
Benchmark == phase = "run" /\ LogNext /\ UNCHANGED statVars

EndOfBenchmark ==
    /\ phase = "run"
    /\ phase' = "scan"
    /\ UNCHANGED <<logVars, pos, logLine, result, msgNumber, report>>

-----------------------------------------------------------------------------
\* json.Unmarshal into a struct that holds the line before
Unmarshal(line, old) == [f \in DOMAIN old |-> IF f \in DOMAIN line THEN line[f] ELSE old[f]]

newStats(l) ==
    [sent |-> l.time, nodes |-> 0, validators |-> 0, last |-> 0, lastValidator |-> 0,
     sum |-> 0, sumValidators |-> 0, within |-> [d \in durations |-> 0]]

\* Mutant: the threshold itself does not count.
WithinBelow(duration, d) == duration < d

Within(duration, d) == duration <= d

Later(t, u) == IF t < u THEN u ELSE t

\* The branch "received" of addStatistics
received(r, l) ==
    LET duration == l.time - r.sent
        all == [r EXCEPT !.nodes = @ + 1, !.last = Later(@, l.time), !.sum = @ + duration]
    IN  IF ~l.isValidator THEN all
        ELSE [all EXCEPT !.lastValidator = Later(@, l.time), !.sumValidators = @ + duration,
                         !.validators = @ + 1,
                         !.within = [d \in durations |-> IF Within(duration, d) THEN @[d] + 1 ELSE @[d]]]

\* addStatistics, which panics on a message that was sent already and ignores
\* the reception of one that was not
addStatistics(l) ==
    \/ /\ l.direction = "sent" /\ l.msgID \notin DOMAIN result
       /\ msgNumber' = msgNumber + 1
       /\ result' = [m \in DOMAIN result \cup {l.msgID} |->
                        IF m = l.msgID THEN newStats(l) ELSE result[m]]
       /\ UNCHANGED phase
    \/ /\ l.direction = "sent" /\ l.msgID \in DOMAIN result
       /\ phase' = "panic"
       /\ UNCHANGED <<result, msgNumber>>
    \/ /\ l.direction = "received"
       /\ result' = [m \in DOMAIN result |->
                        IF m = l.msgID THEN received(result[m], l) ELSE result[m]]
       /\ UNCHANGED <<phase, msgNumber>>

\* One pass of the loop in RunStats
Scan ==
    /\ phase = "scan" /\ pos < Len(log)
    /\ pos' = pos + 1
    /\ logLine' = Unmarshal(log[pos'], logLine)
    /\ IF logLine'.aggregateStats THEN addStatistics(logLine')
                                  ELSE UNCHANGED <<phase, result, msgNumber>>
    /\ UNCHANGED <<logVars, report>>

\* Mutant: agents are counted, not validators.
MissingOff(m) == AgentsCount - result[m].nodes

\* The validators that did not get a message
Missing(m) == ValidatorsCount - result[m].validators

\* The time after which the last validator got a message
lastValidatorReceived(m) == result[m].lastValidator - result[m].sent

\* What printStats evaluates: how many messages did not reach all validators,
\* how many validators a message missed at most, and by the time after which
\* the last validator had it the number of the other messages; and of each
\* message the thresholds up to that time
printStats ==
    LET complete == {m \in DOMAIN result : Missing(m) = 0}
    IN  [notAll |-> Cardinality({m \in DOMAIN result : Missing(m) > 0}),
         maxMissing |-> Max({0} \cup {Missing(m) : m \in DOMAIN result}),
         after |-> [t \in {lastValidatorReceived(m) : m \in complete} |->
                      Cardinality({m \in complete : lastValidatorReceived(m) = t})],
         shown |-> [m \in DOMAIN result |-> {d \in durations : d <= lastValidatorReceived(m)}]]

PrintStats ==
    /\ phase = "scan" /\ pos = Len(log)
    /\ phase' = "done" /\ report' = printStats
    /\ UNCHANGED <<logVars, pos, logLine, result, msgNumber>>

Next == Benchmark \/ EndOfBenchmark \/ Scan \/ PrintStats

Spec == Init /\ [][Next]_vars

-----------------------------------------------------------------------------
Records == [time : Nat, direction : {"", "sent", "received"}, msgID : Msgs \cup {""},
            aggregateStats : BOOLEAN, isValidator : BOOLEAN]

\* Types of the evaluation's variables, on top of those of the log.
TypeOK ==
    /\ LogTypeOK
    /\ phase \in {"run", "scan", "done", "panic"} /\ pos \in 0..Len(log)
    /\ logLine \in Records
    /\ DOMAIN result \subseteq Msgs /\ msgNumber \in Nat

\* "Error, sent time already exists." (stats_cmd.go:123) is never raised: no
\* line is counted with what the reused logLine kept of an earlier one, however
\* the goroutines that wrote the log were interleaved.
NoPanic == phase # "panic"

\* The agents of S whose reception of m is in the log
Receivers(m, S) == {a \in S : got[m][a] = "logged"}
Duration(m, a) == Seconds(recvAt[m][a]) - Seconds(sentAt[m])
Durations(m) == [a \in Agents |-> Duration(m, a)]
Longest(m, S) == Max({Duration(m, a) : a \in S})

\* The statistics are those of the messages with a line of their sending and
\* of the useful period, each with the receptions that were logged, however
\* the goroutines interleaved: the definition without a log, a reused variable
\* or a running count (stats_cmd.go:119-169).
CountsExact ==
    phase = "done" =>
        /\ DOMAIN result = {m \in Msgs : useful[m] /\ msg[m] \in {"logged", "published", "failed"}
                                                   /\ size >= packetSize}
        /\ msgNumber = Cardinality(DOMAIN result)
        /\ \A m \in DOMAIN result :
              LET A == Receivers(m, Agents)  V == Receivers(m, Validators)
              IN  /\ result[m].nodes = Cardinality(A) /\ result[m].validators = Cardinality(V)
                  /\ A # {} => result[m].last - result[m].sent = Longest(m, A)
                  /\ V # {} => result[m].lastValidator - result[m].sent = Longest(m, V)

\* The thresholds count in whole seconds of the clock, and yet not too wrong:
\* a validator that got the message within d seconds is counted for d, and none
\* that took d + 1 seconds or longer (stats_cmd.go:161-165).
Thresholds ==
    phase = "done" => \A m \in DOMAIN result : \A d \in durations :
        LET Took(t) == {a \in Receivers(m, Validators) : recvAt[m][a] - sentAt[m] <= t}
        IN  /\ result[m].within[d] >= Cardinality(Took(d * Unit))
            /\ result[m].within[d] <= Cardinality(Took((d + 1) * Unit - 1))

\* What is printed of all messages: those that some validator did not get, how
\* many validators that were at most, and every other one by the time after
\* which the last validator had it; the thresholds printed of a message go far
\* enough to count all validators that got it (stats_cmd.go:243-305).
Summary ==
    phase = "done" =>
        LET lacking(m) == Validators \ Receivers(m, Validators)
            full == {m \in DOMAIN result : lacking(m) = {}}
        IN  /\ report.notAll = Cardinality(DOMAIN result \ full)
            /\ \A m \in DOMAIN result : Cardinality(lacking(m)) <= report.maxMissing
            /\ report.notAll > 0 => \E m \in DOMAIN result : Cardinality(lacking(m)) = report.maxMissing
            /\ Validators # {} => report.after = [t \in {Longest(m, Validators) : m \in full} |->
                                                    Cardinality({m \in full : Longest(m, Validators) = t})]
            /\ \A m \in DOMAIN result : report.shown[m] # {} =>
                  \/ Max(report.shown[m]) = maxDuration
                  \/ result[m].within[Max(report.shown[m])] = Cardinality(Receivers(m, Validators))

\* The summary is right, and the averages of a message are over the durations
\* of its receptions (stats_cmd.go:243-305).
ReportExact ==
    /\ Summary
    /\ phase = "done" => \A m \in DOMAIN result :
          /\ result[m].sum = SumFunctionOnSet(Durations(m), Receivers(m, Agents))
          /\ result[m].sumValidators = SumFunctionOnSet(Durations(m), Receivers(m, Validators))
=============================================================================
