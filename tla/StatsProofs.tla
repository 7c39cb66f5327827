---------------------------- MODULE StatsProofs ----------------------------
(***************************************************************************)
(* Safety of the log and of its evaluation, for any agents and messages.   *)
(* The invariant ties how far a message is to the lines the log has of it, *)
(* and what the evaluation has counted to the lines it has read.  A second *)
(* one says what the lines are: each of a reception belongs to one agent,  *)
(* so that at the end numbers of lines are numbers of agents.              *)
(***************************************************************************)
EXTENDS Stats, FiniteSetTheorems, TLAPS

\* Messages are sent when all agents have subscribed, so that all lines
\* without a direction precede those of messages.
Started ==
    /\ \A m \in Msgs : msg[m] # "new" => listening = Agents
    /\ listening # Agents => \A i \in 1..Len(log) : ~OfMessage(log[i])

\* A message is received when it was published, and the line of its sending
\* is in the log from before that moment on, once.
Sent ==
    /\ \A m \in Msgs, a \in Agents : got[m][a] # "no" => msg[m] = "published"
    /\ \A m \in Msgs : msg[m] \in {"logged", "published"} =>
          \E j \in 1..Len(log) : OfSending(log[j], m)
    /\ \A m \in Msgs : msg[m] \in {"new", "stamped"} =>
          \A j \in 1..Len(log) : ~OfSending(log[j], m)
    /\ \A m \in Msgs : \A i, j \in 1..Len(log) :
          OfSending(log[i], m) /\ OfSending(log[j], m) => i = j

\* Before the first line of a message nothing is aggregated, and a message has
\* statistics only if the line of its sending was read.
Scanned ==
    /\ phase = "run" => pos = 0
    /\ (\A j \in 1..pos : ~OfMessage(log[j])) => logLine.aggregateStats = FALSE
    /\ \A m \in DOMAIN result : \E j \in 1..pos : OfSending(log[j], m)

LogInv == LogTypeOK /\ Started /\ Sent /\ LinesInOrder
StatInv == TypeOK /\ Scanned /\ NoPanic
IInv == LogInv /\ StatInv

\* The lines of the receptions of m among the first k of s, and those that
\* validators wrote
Received(l, m) == OfMessage(l) /\ l.direction = "received" /\ l.msgID = m
ReceivedIn(s, k, m) == {j \in 1..k : Received(s[j], m)}
ValidatedIn(s, k, m) == {j \in ReceivedIn(s, k, m) : s[j].isValidator}

\* A message has a line of its sending once the line is written, if its size
\* is enough for a packet; the line is as it was stamped.
SentLines ==
    /\ size \in Sizes
    /\ \A m \in Msgs : msg[m] \in {"stamped", "logged", "published"} => size >= packetSize
    /\ \A m \in Msgs : msg[m] = "failed" =>
          (size >= packetSize <=> \E j \in 1..Len(log) : OfSending(log[j], m))
    /\ \A m \in Msgs : \A j \in 1..Len(log) : OfSending(log[j], m) => log[j] = SentLine(m)

\* The other lines of a message are those of the agents that logged it, one
\* each.
Wrote(f, m) ==
    /\ f \in Bijection(ReceivedIn(log, Len(log), m), Receivers(m, Agents))
    /\ \A j \in ReceivedIn(log, Len(log), m) : log[j] = ReceivedLine(m, f[j])

ReceivedLines ==
    \A m \in Msgs : \E f \in Bijection(ReceivedIn(log, Len(log), m), Receivers(m, Agents)) : Wrote(f, m)

LineInv == SentLines /\ ReceivedLines

\* t is the latest time of the lines J, or 0
Latest(t, s, J) ==
    /\ J = {} => t = 0
    /\ J # {} => \E j \in J : s[j].time = t
    /\ \A j \in J : s[j].time <= t

\* The times of the lines of s since t
Times(s, t) == [j \in 1..Len(s) |-> s[j].time - t]

Statistics ==
    [sent : Nat, nodes : Nat, validators : Nat, last : Nat, lastValidator : Nat, sum : Int,
     sumValidators : Int, within : [durations -> Nat]]

\* The statistics r of m are those of the first k lines of s.
Counted(r, s, k, m) ==
    /\ r \in Statistics
    /\ r.nodes = Cardinality(ReceivedIn(s, k, m))
    /\ r.validators = Cardinality(ValidatedIn(s, k, m))
    /\ Latest(r.last, s, ReceivedIn(s, k, m))
    /\ Latest(r.lastValidator, s, ValidatedIn(s, k, m))
    /\ \A d \in durations :
          r.within[d] = Cardinality({j \in ValidatedIn(s, k, m) : s[j].time - r.sent <= d})
    /\ r.sum = SumFunctionOnSet(Times(s, r.sent), ReceivedIn(s, k, m))
    /\ r.sumValidators = SumFunctionOnSet(Times(s, r.sent), ValidatedIn(s, k, m))

\* The evaluation has counted the lines that it has read.
CountInv ==
    /\ phase = "done" => pos = Len(log)
    /\ DOMAIN result = {m \in Msgs : useful[m] /\ \E j \in 1..pos : OfSending(log[j], m)}
    /\ IsFiniteSet(DOMAIN result) /\ msgNumber = Cardinality(DOMAIN result)
    /\ \A m \in DOMAIN result :
          result[m].sent = Seconds(sentAt[m]) /\ Counted(result[m], log, pos, m)

-----------------------------------------------------------------------------
LEMMA SecondsType == \A t \in Nat : Seconds(t) \in Nat
  BY LogAssumption DEF Seconds

\* What the three kinds of lines are.
LEMMA LineOfSubscribe ==
  ASSUME NEW t \in Nat
  PROVE  SubscribedLine(t) \in Lines /\ ~OfMessage(SubscribedLine(t))
  BY SecondsType DEF SubscribedLine, Lines, OfMessage

LEMMA LineOfSent ==
  ASSUME LogTypeOK, NEW m \in Msgs
  PROVE  /\ SentLine(m) \in Lines /\ OfMessage(SentLine(m))
         /\ SentLine(m).direction = "sent" /\ SentLine(m).msgID = m
  BY SecondsType DEF SentLine, Lines, OfMessage, LogTypeOK

LEMMA LineOfReceived ==
  ASSUME LogTypeOK, NEW m \in Msgs, NEW a \in Agents
  PROVE  /\ ReceivedLine(m, a) \in Lines /\ OfMessage(ReceivedLine(m, a))
         /\ ReceivedLine(m, a).direction = "received" /\ ReceivedLine(m, a).msgID = m
  <1>1. Seconds(recvAt[m][a]) \in Nat /\ useful[m] \in BOOLEAN /\ (a \in Validators) \in BOOLEAN
    <2>1. recvAt[m][a] \in Nat
      BY DEF LogTypeOK
    <2>2. Seconds(recvAt[m][a]) \in Nat
      BY <2>1, SecondsType
    <2>3. useful[m] \in BOOLEAN
      BY DEF LogTypeOK
    <2>4. (a \in Validators) \in BOOLEAN
      OBVIOUS
    <2> QED
      BY <2>2, <2>3, <2>4
  <1>2. \A t \in Nat, u \in BOOLEAN, v \in BOOLEAN :
          [time |-> t, direction |-> "received", msgID |-> m, aggregateStats |-> u, isValidator |-> v]
             \in [time : Nat, direction : {"received"}, msgID : Msgs, aggregateStats : BOOLEAN,
                  isValidator : BOOLEAN]
    OBVIOUS
  <1>3. ReceivedLine(m, a) \in Lines
    BY <1>1, <1>2, Zenon DEF ReceivedLine, Lines
  <1>4. OfMessage(ReceivedLine(m, a))
    BY DEF ReceivedLine, OfMessage
  <1>5. ReceivedLine(m, a).direction = "received" /\ ReceivedLine(m, a).msgID = m
    BY DEF ReceivedLine
  <1> QED
    BY <1>3, <1>4, <1>5

\* Decoding a line of a message overwrites what the evaluation looks at;
\* decoding another one leaves it.
LEMMA UnmarshalFacts ==
  ASSUME NEW line \in Lines, NEW old \in Records
  PROVE  /\ Unmarshal(line, old) \in Records
         /\ OfMessage(line) => /\ Unmarshal(line, old).direction = line.direction
                               /\ Unmarshal(line, old).msgID = line.msgID
                               /\ line.msgID \in Msgs /\ line.direction \in {"sent", "received"}
         /\ ~OfMessage(line) => Unmarshal(line, old).aggregateStats = old.aggregateStats
  <1>1. CASE line \in [time : Nat]
    BY <1>1 DEF Unmarshal, OfMessage, Records
  <1>2. CASE line \in [time : Nat, direction : {"sent"}, msgID : Msgs, aggregateStats : BOOLEAN]
    BY <1>2 DEF Unmarshal, OfMessage, Records
  <1>3. CASE line \in [time : Nat, direction : {"received"}, msgID : Msgs,
                       aggregateStats : BOOLEAN, isValidator : BOOLEAN]
    BY <1>3 DEF Unmarshal, OfMessage, Records
  <1> QED
    BY <1>1, <1>2, <1>3 DEF Lines

-----------------------------------------------------------------------------
LEMMA InitIInv == Init => IInv
  <1> SUFFICES ASSUME Init PROVE IInv
    OBVIOUS
  <1>1. LogTypeOK
    <2>1. LogInit
      BY DEF Init
    <2>2. log \in Seq(Lines) /\ now \in Nat /\ listening \subseteq Agents
      BY <2>1, LogAssumption DEF LogInit
    <2> QED
      BY <2>1, <2>2 DEF LogInit, LogTypeOK
  <1>2. log = <<>> /\ Len(log) = 0
    BY DEF Init, LogInit
  <1>3. Started /\ Sent /\ LinesInOrder
    <2>1. /\ \A m \in Msgs : msg[m] = "new"
          /\ \A m \in Msgs, a \in Agents : got[m][a] = "no"
      BY DEF Init, LogInit
    <2> QED
      BY <1>2, <2>1 DEF Started, Sent, LinesInOrder
  <1>4. /\ phase = "run" /\ pos = 0 /\ msgNumber = 0 /\ DOMAIN result = {}
        /\ logLine \in Records /\ logLine.aggregateStats = FALSE
    <2>1. phase = "run" /\ pos = 0 /\ msgNumber = 0 /\ result = [m \in {} |-> 0]
      BY DEF Init
    <2>2. logLine = [time |-> 0, direction |-> "", msgID |-> "", aggregateStats |-> FALSE,
                     isValidator |-> FALSE]
      BY DEF Init
    <2> QED
      BY <2>1, <2>2 DEF Records
  <1>5. TypeOK
    BY <1>1, <1>2, <1>4 DEF TypeOK
  <1>6. Scanned /\ NoPanic
    BY <1>4 DEF Scanned, NoPanic
  <1> QED
    BY <1>1, <1>3, <1>5, <1>6 DEF IInv, LogInv, StatInv

LEMMA SubscribeStep ==
  ASSUME LogInv, NEW a \in Agents, Subscribe(a)
  PROVE  LogInv'
  <1> USE DEF LogInv, Subscribe
  <1>1. /\ SubscribedLine(now) \in Lines /\ ~OfMessage(SubscribedLine(now))
        /\ ~OfMessage(SubscribedLine(now)) => \A m : ~OfSending(SubscribedLine(now), m)
    BY LineOfSubscribe DEF LogTypeOK, OfSending
  <1>2. LogTypeOK'
    BY <1>1 DEF LogTypeOK
  <1>3. \A i \in 1..Len(log) : ~OfMessage(log[i])
    BY DEF Started
  <1>4. Len(log') = Len(log) + 1 /\ \A i \in 1..Len(log') :
           log'[i] = IF i = Len(log) + 1 THEN SubscribedLine(now) ELSE log[i]
    BY <1>1 DEF LogTypeOK
  <1>5. \A i \in 1..Len(log') : ~OfMessage(log'[i])
    BY <1>1, <1>3, <1>4 DEF LogTypeOK
  <1>6. Started'
    BY <1>5 DEF Started, LogTypeOK
  <1>7. Sent'
    BY <1>3, <1>5 DEF Sent, LogTypeOK, OfSending, Started
  <1>8. LinesInOrder'
    BY <1>5 DEF LinesInOrder
  <1> QED
    BY <1>2, <1>6, <1>7, <1>8

LEMMA SendMessageStep ==
  ASSUME LogInv, NEW m \in Msgs, SendMessage(m)
  PROVE  LogInv'
  <1> USE DEF LogInv, SendMessage, MessagingOn, createMessage, shouldAggregate
  <1>1. LogTypeOK'
    BY DEF LogTypeOK
  <1>2. Started'
    BY DEF Started, LogTypeOK
  <1>3. Sent'
    BY DEF Sent, LogTypeOK
  <1>4. LinesInOrder'
    BY DEF LinesInOrder
  <1> QED
    BY <1>1, <1>2, <1>3, <1>4

LEMMA LogSentStep ==
  ASSUME LogInv, NEW m \in Msgs, LogSent(m)
  PROVE  LogInv'
  <1> USE DEF LogInv, LogSent
  <1> DEFINE l == SentLine(m)
  <1>1. l \in Lines /\ OfMessage(l) /\ l.direction = "sent" /\ l.msgID = m
    BY LineOfSent
  <1> HIDE DEF l
  <1>2. log' = Append(log, l) /\ listening = Agents
    BY DEF Started, l
  <1>3. Len(log) \in Nat /\ Len(log') = Len(log) + 1 /\ \A i \in 1..Len(log') :
           log'[i] = IF i = Len(log) + 1 THEN l ELSE log[i]
    BY <1>1, <1>2 DEF LogTypeOK
  <1>4. LogTypeOK'
    BY <1>1, <1>2 DEF LogTypeOK
  <1>5. Started'
    BY <1>2 DEF Started, LogTypeOK
  <1>6. OfSending(l, m) /\ \A n \in Msgs : n # m => ~OfSending(l, n)
    BY <1>1 DEF OfSending
  <1>7. Sent'
    <2>1. \A n \in Msgs : msg'[n] = IF n = m THEN "logged" ELSE msg[n]
      BY DEF LogTypeOK
    <2>2. \A n \in Msgs, a \in Agents : got'[n][a] # "no" => msg'[n] = "published"
      BY <2>1 DEF Sent, LogTypeOK
    <2>3. \A n \in Msgs : msg'[n] \in {"logged", "published"} =>
             \E j \in 1..Len(log') : OfSending(log'[j], n)
      BY <1>3, <1>6, <2>1 DEF Sent
    <2>4. \A n \in Msgs : msg'[n] \in {"new", "stamped"} =>
             \A j \in 1..Len(log') : ~OfSending(log'[j], n)
      BY <1>3, <1>6, <2>1 DEF Sent
    <2>5. \A n \in Msgs : \A i, j \in 1..Len(log') :
             OfSending(log'[i], n) /\ OfSending(log'[j], n) => i = j
      BY <1>3, <1>6 DEF Sent
    <2> QED
      BY <2>2, <2>3, <2>4, <2>5 DEF Sent, OfSending, OfMessage
  <1>8. LinesInOrder'
    <2> SUFFICES ASSUME NEW i \in 1..Len(log'), OfMessage(log'[i])
                 PROVE  /\ \A j \in i..Len(log') : OfMessage(log'[j])
                        /\ log'[i].direction = "received" =>
                              \E j \in 1..(i - 1) : OfSending(log'[j], log'[i].msgID)
      BY DEF LinesInOrder, OfSending, OfMessage
    <2>1. CASE i = Len(log) + 1
      BY <2>1, <1>1, <1>3
    <2>2. CASE i \in 1..Len(log)
      BY <2>2, <1>1, <1>3 DEF LinesInOrder
    <2> QED
      BY <2>1, <2>2, <1>3
  <1> QED
    BY <1>4, <1>5, <1>7, <1>8

LEMMA PublishStep ==
  ASSUME LogInv, NEW m \in Msgs, Publish(m)
  PROVE  LogInv'
  <1> USE DEF LogInv, Publish, Publishes
  <1>1. LogTypeOK'
    BY DEF LogTypeOK
  <1>2. Started'
    BY DEF Started, LogTypeOK
  <1>3. Sent'
    BY DEF Sent, LogTypeOK
  <1>4. LinesInOrder'
    BY DEF LinesInOrder
  <1> QED
    BY <1>1, <1>2, <1>3, <1>4

LEMMA ReceiveStep ==
  ASSUME LogInv, NEW m \in Msgs, NEW a \in Agents, Receive(m, a)
  PROVE  LogInv'
  <1> USE DEF LogInv, Receive
  <1>1. LogTypeOK'
    BY DEF LogTypeOK
  <1>2. Started'
    BY DEF Started
  <1>3. Sent'
    BY DEF Sent, LogTypeOK
  <1>4. LinesInOrder'
    BY DEF LinesInOrder
  <1> QED
    BY <1>1, <1>2, <1>3, <1>4

LEMMA LogReceivedStep ==
  ASSUME LogInv, NEW m \in Msgs, NEW a \in Agents, LogReceived(m, a)
  PROVE  LogInv'
  <1> USE DEF LogInv, LogReceived
  <1> DEFINE l == ReceivedLine(m, a)
  <1>1. l \in Lines /\ OfMessage(l) /\ l.direction = "received" /\ l.msgID = m
    BY LineOfReceived
  <1> HIDE DEF l
  <1>2. log' = Append(log, l) /\ msg[m] = "published" /\ listening = Agents
    BY DEF Started, Sent, l
  <1>3. Len(log) \in Nat /\ Len(log') = Len(log) + 1 /\ \A i \in 1..Len(log') :
           log'[i] = IF i = Len(log) + 1 THEN l ELSE log[i]
    BY <1>1, <1>2 DEF LogTypeOK
  <1>4. LogTypeOK'
    BY <1>1, <1>2 DEF LogTypeOK
  <1>5. Started'
    BY <1>2 DEF Started, LogTypeOK
  <1>6. \A n \in Msgs : ~OfSending(l, n)
    BY <1>1 DEF OfSending
  <1>7. Sent'
    <2>1. \A n \in Msgs, b \in Agents : got'[n][b] # "no" => msg'[n] = "published"
      BY <1>2 DEF Sent, LogTypeOK
    <2>2. \A n \in Msgs : msg'[n] \in {"logged", "published"} =>
             \E j \in 1..Len(log') : OfSending(log'[j], n)
      BY <1>3 DEF Sent
    <2>3. \A n \in Msgs : msg'[n] \in {"new", "stamped"} =>
             \A j \in 1..Len(log') : ~OfSending(log'[j], n)
      BY <1>3, <1>6 DEF Sent
    <2>4. \A n \in Msgs : \A i, j \in 1..Len(log') :
             OfSending(log'[i], n) /\ OfSending(log'[j], n) => i = j
      BY <1>3, <1>6 DEF Sent
    <2> QED
      BY <2>1, <2>2, <2>3, <2>4 DEF Sent, OfSending, OfMessage
  <1>8. LinesInOrder'
    <2> SUFFICES ASSUME NEW i \in 1..Len(log'), OfMessage(log'[i])
                 PROVE  /\ \A j \in i..Len(log') : OfMessage(log'[j])
                        /\ log'[i].direction = "received" =>
                              \E j \in 1..(i - 1) : OfSending(log'[j], log'[i].msgID)
      BY DEF LinesInOrder, OfSending, OfMessage
    <2>1. CASE i = Len(log) + 1
      <3>1. \E j \in 1..Len(log) : OfSending(log[j], m)
        BY <1>2 DEF Sent
      <3> QED
        BY <2>1, <3>1, <1>1, <1>3
    <2>2. CASE i \in 1..Len(log)
      BY <2>2, <1>1, <1>3 DEF LinesInOrder
    <2> QED
      BY <2>1, <2>2, <1>3
  <1> QED
    BY <1>4, <1>5, <1>7, <1>8

LEMMA TickStep == LogInv /\ Tick => LogInv'
  BY DEF LogInv, Tick, LogTypeOK, Started, Sent, LinesInOrder, OfSending, OfMessage

LEMMA LogSame == LogInv /\ UNCHANGED logVars => LogInv'
  BY DEF LogInv, logVars, LogTypeOK, Started, Sent, LinesInOrder, OfSending, OfMessage

LEMMA LogNextInv == LogInv /\ LogNext => LogInv'
  BY SubscribeStep, SendMessageStep, LogSentStep, PublishStep, ReceiveStep, LogReceivedStep, TickStep
     DEF LogNext

-----------------------------------------------------------------------------
\* While the benchmark runs nothing was read.
LEMMA BenchmarkStep == IInv /\ Benchmark => IInv'
  <1> SUFFICES ASSUME IInv, Benchmark PROVE IInv'
    OBVIOUS
  <1> USE DEF IInv, StatInv, Benchmark, statVars
  <1>1. LogInv'
    BY LogNextInv
  <1>2. Len(log') \in Nat
    BY <1>1 DEF LogInv, LogTypeOK
  <1>3. TypeOK'
    BY <1>1, <1>2 DEF TypeOK, LogInv, Scanned
  <1>4. Scanned' /\ NoPanic'
    BY DEF Scanned, NoPanic
  <1> QED
    BY <1>1, <1>3, <1>4

LEMMA EndStep == IInv /\ EndOfBenchmark => IInv'
  <1> SUFFICES ASSUME IInv, EndOfBenchmark PROVE IInv'
    OBVIOUS
  <1> USE DEF IInv, StatInv, EndOfBenchmark
  <1>1. LogInv'
    BY LogSame
  <1>2. TypeOK'
    BY <1>1 DEF TypeOK, LogInv, logVars
  <1>3. Scanned' /\ NoPanic'
    BY DEF Scanned, NoPanic, OfMessage, OfSending, logVars
  <1> QED
    BY <1>1, <1>2, <1>3

LEMMA PrintStep == IInv /\ PrintStats => IInv'
  <1> SUFFICES ASSUME IInv, PrintStats PROVE IInv'
    OBVIOUS
  <1> USE DEF IInv, StatInv, PrintStats
  <1>1. LogInv'
    BY LogSame
  <1>2. TypeOK'
    BY <1>1 DEF TypeOK, LogInv, logVars
  <1>3. Scanned' /\ NoPanic'
    BY DEF Scanned, NoPanic, OfMessage, OfSending, logVars
  <1> QED
    BY <1>1, <1>2, <1>3

LEMMA ScanStep == IInv /\ Scan => IInv'
  <1> SUFFICES ASSUME IInv, Scan PROVE IInv'
    OBVIOUS
  <1> USE DEF IInv, StatInv
  <1> DEFINE line == log[pos + 1]
             new == Unmarshal(line, logLine)
  <1>1. /\ phase = "scan" /\ pos \in Nat /\ pos < Len(log) /\ Len(log) \in Nat
        /\ pos' = pos + 1 /\ logLine' = new /\ log' = log /\ line \in Lines
        /\ logLine \in Records /\ UNCHANGED logVars
    BY DEF Scan, TypeOK, LogTypeOK, logVars
  <1>2. LogInv'
    BY <1>1, LogSame
  <1>3. /\ new \in Records
        /\ OfMessage(line) => /\ new.direction = line.direction /\ new.msgID = line.msgID
                              /\ line.msgID \in Msgs /\ line.direction \in {"sent", "received"}
        /\ ~OfMessage(line) => new.aggregateStats = logLine.aggregateStats
    BY <1>1, UnmarshalFacts
  <1> HIDE DEF new
  <1>4. ~OfMessage(line) => \A j \in 1..(pos + 1) : ~OfMessage(log[j])
    BY <1>1 DEF LogInv, LinesInOrder
  <1>5. ~OfMessage(line) => new.aggregateStats = FALSE
    BY <1>1, <1>3, <1>4 DEF Scanned
  <1>6. (\A j \in 1..pos' : ~OfMessage(log'[j])) => logLine'.aggregateStats = FALSE
    BY <1>1, <1>5
  <1>7. \A m \in DOMAIN result : \E j \in 1..pos' : OfSending(log'[j], m)
    BY <1>1 DEF Scanned
  <1>8. CASE ~new.aggregateStats
    <2>1. UNCHANGED <<phase, result, msgNumber>>
      BY <1>8, <1>1 DEF Scan
    <2>2. TypeOK'
      BY <1>1, <1>2, <1>3, <2>1 DEF TypeOK, LogInv
    <2>3. Scanned'
      BY <1>1, <1>6, <1>7, <2>1 DEF Scanned, OfMessage, OfSending
    <2>4. NoPanic'
      BY <2>1 DEF NoPanic
    <2> QED
      BY <1>2, <2>2, <2>3, <2>4
  <1>9. CASE new.aggregateStats
    <2>1. OfMessage(line) /\ addStatistics(new)
      BY <1>9, <1>1, <1>5 DEF Scan
    <2>2. new.direction = "sent" => OfSending(line, new.msgID) /\ new.msgID \notin DOMAIN result
      BY <1>1, <1>3, <2>1 DEF OfSending, LogInv, Sent, Scanned
    <2>3. phase' = "scan" /\ msgNumber' \in Nat /\ DOMAIN result' \subseteq Msgs
      BY <1>1, <1>3, <2>1, <2>2 DEF addStatistics, TypeOK
    <2>4. \A m \in DOMAIN result' : m \in DOMAIN result \/ OfSending(line, m)
      BY <2>1, <2>2 DEF addStatistics
    <2>5. TypeOK'
      BY <1>1, <1>2, <1>3, <2>3 DEF TypeOK, LogInv
    <2>6. \A m \in DOMAIN result' : \E j \in 1..pos' : OfSending(log'[j], m)
      BY <1>1, <1>7, <2>4
    <2>7. Scanned'
      BY <1>1, <1>6, <2>3, <2>6 DEF Scanned, OfMessage, OfSending
    <2>8. NoPanic'
      BY <2>3 DEF NoPanic
    <2> QED
      BY <1>2, <2>5, <2>7, <2>8
  <1> QED
    BY <1>8, <1>9

LEMMA StutterStep == IInv /\ UNCHANGED vars => IInv'
  <1> SUFFICES ASSUME IInv, UNCHANGED vars PROVE IInv'
    OBVIOUS
  <1>1. UNCHANGED logVars /\ UNCHANGED statVars
    BY DEF vars
  <1>2. LogInv'
    BY <1>1, LogSame DEF IInv
  <1>3. StatInv'
    BY <1>1, <1>2 DEF IInv, StatInv, TypeOK, LogInv, Scanned, NoPanic, OfMessage, OfSending, logVars, statVars
  <1> QED
    BY <1>2, <1>3 DEF IInv

LEMMA NextIInv == IInv /\ [Next]_vars => IInv'
  BY BenchmarkStep, EndStep, ScanStep, PrintStep, StutterStep DEF Next

LEMMA Inductive == Spec => []IInv
  BY InitIInv, NextIInv, PTL DEF Spec

-----------------------------------------------------------------------------
(***************************************************************************)
(* The lines of the log.                                                   *)
(***************************************************************************)

\* What a longer log has of a message.
LEMMA LogGrows ==
  ASSUME NEW s \in Seq(Lines), NEW l \in Lines, NEW m
  PROVE  LET t == Append(s, l)
         IN  /\ Len(s) \in Nat /\ Len(t) = Len(s) + 1 /\ t[Len(s) + 1] = l
             /\ \A i \in 1..Len(s) : t[i] = s[i]
             /\ Received(l, m) =>
                   ReceivedIn(t, Len(t), m) = ReceivedIn(s, Len(s), m) \cup {Len(s) + 1}
             /\ ~Received(l, m) => ReceivedIn(t, Len(t), m) = ReceivedIn(s, Len(s), m)
  <1> DEFINE t == Append(s, l)
  <1>1. Len(s) \in Nat /\ Len(t) = Len(s) + 1 /\ t[Len(s) + 1] = l /\ \A i \in 1..Len(s) : t[i] = s[i]
    OBVIOUS
  <1> HIDE DEF t
  <1>2. Received(l, m) => ReceivedIn(t, Len(t), m) = ReceivedIn(s, Len(s), m) \cup {Len(s) + 1}
    BY <1>1 DEF ReceivedIn
  <1>3. ~Received(l, m) => ReceivedIn(t, Len(t), m) = ReceivedIn(s, Len(s), m)
    BY <1>1 DEF ReceivedIn
  <1> QED
    BY <1>1, <1>2, <1>3 DEF t

\* A step that neither writes a line of a reception of m nor changes what one
\* would say keeps the lines of its receptions.
LEMMA ReceptionsKept ==
  ASSUME NEW m \in Msgs, ReceivedLines,
         ReceivedIn(log', Len(log'), m) = ReceivedIn(log, Len(log), m),
         \A j \in ReceivedIn(log, Len(log), m) : log'[j] = log[j],
         Receivers(m, Agents)' = Receivers(m, Agents),
         \A a \in Receivers(m, Agents) : ReceivedLine(m, a)' = ReceivedLine(m, a)
  PROVE  \E f \in Bijection(ReceivedIn(log', Len(log'), m), Receivers(m, Agents)') : Wrote(f, m)'
  <1>1. PICK f \in Bijection(ReceivedIn(log, Len(log), m), Receivers(m, Agents)) : Wrote(f, m)
    BY DEF ReceivedLines
  <1>2. \A j \in ReceivedIn(log, Len(log), m) : f[j] \in Receivers(m, Agents) /\ log[j] = ReceivedLine(m, f[j])
    BY <1>1 DEF Wrote, Bijection, Injection
  <1>3. \A j \in ReceivedIn(log', Len(log'), m) : log'[j] = ReceivedLine(m, f[j])'
    BY <1>2
  <1>4. Wrote(f, m)'
    BY <1>1, <1>3 DEF Wrote
  <1> QED
    BY <1>1, <1>4

LEMMA InitLine == Init => LineInv
  <1> SUFFICES ASSUME Init PROVE LineInv
    OBVIOUS
  <1>1. /\ log = <<>> /\ Len(log) = 0 /\ size \in Sizes
        /\ \A m \in Msgs : msg[m] = "new"
        /\ \A m \in Msgs, a \in Agents : got[m][a] = "no"
    BY DEF Init, LogInit
  <1>2. SentLines
    BY <1>1 DEF SentLines
  <1>3. ASSUME NEW m \in Msgs
        PROVE  \E f \in Bijection(ReceivedIn(log, Len(log), m), Receivers(m, Agents)) : Wrote(f, m)
    <2>1. ReceivedIn(log, Len(log), m) = {} /\ Receivers(m, Agents) = {}
      BY <1>1 DEF ReceivedIn, Receivers
    <2>2. [x \in {} |-> x] \in Bijection({}, {})
      BY DEF Bijection, Injection, Surjection, IsInjective
    <2> QED
      BY <2>1, <2>2 DEF Wrote
  <1> QED
    BY <1>2, <1>3 DEF LineInv, ReceivedLines

\* Steps that write no line and change no stamp of one that was written.
LEMMA QuietStep ==
  ASSUME LogInv, LineInv, UNCHANGED <<size, log>>,
         \A m \in Msgs : msg[m] \notin {"new", "stamped"} =>
             useful'[m] = useful[m] /\ sentAt'[m] = sentAt[m],
         \A m \in Msgs : msg'[m] = msg[m] \/ (msg[m] = "logged" /\ msg'[m] \in {"published", "failed"})
                                          \/ (msg[m] = "new" /\ msg'[m] = createMessage),
         \A m \in Msgs, a \in Agents : /\ got'[m][a] = "logged" <=> got[m][a] = "logged"
                                       /\ got[m][a] = "logged" => recvAt'[m][a] = recvAt[m][a]
  PROVE  LineInv'
  <1>1. size \in Int
    BY LogAssumption DEF LineInv, SentLines
  <1>2. SentLines'
    <2>1. size' = size /\ size' \in Sizes /\ log' = log
      BY DEF LineInv, SentLines
    <2>2. \A m \in Msgs : msg'[m] \in {"stamped", "logged", "published"} => size >= packetSize
      BY <1>1 DEF LineInv, SentLines, createMessage, packetSize
    <2>3. ASSUME NEW m \in Msgs, msg'[m] = "failed"
          PROVE  size >= packetSize <=> \E j \in 1..Len(log) : OfSending(log[j], m)
      <3>1. CASE msg'[m] = msg[m]
        BY <2>3, <3>1 DEF LineInv, SentLines
      <3>2. CASE msg[m] = "logged"
        BY <2>3, <3>2 DEF LineInv, SentLines, LogInv, Sent
      <3>3. CASE msg[m] = "new" /\ msg'[m] = createMessage
        <4>1. ~(size >= packetSize)
          BY <1>1, <2>3, <3>3 DEF createMessage, packetSize
        <4> QED
          BY <4>1, <3>3 DEF LogInv, Sent
      <3> QED
        BY <2>3, <3>1, <3>2, <3>3
    <2>4. ASSUME NEW m \in Msgs, NEW j \in 1..Len(log), OfSending(log[j], m)
          PROVE  log[j] = SentLine(m)'
      <3>1. msg[m] \notin {"new", "stamped"}
        BY <2>4 DEF LogInv, Sent
      <3>2. SentLine(m)' = SentLine(m)
        BY <3>1 DEF SentLine
      <3> QED
        BY <2>4, <3>2 DEF LineInv, SentLines
    <2> QED
      BY <2>1, <2>2, <2>3, <2>4 DEF SentLines, OfSending, OfMessage
  <1>3. ASSUME NEW m \in Msgs
        PROVE  \E f \in Bijection(ReceivedIn(log', Len(log'), m), Receivers(m, Agents)') : Wrote(f, m)'
    <2>1. Receivers(m, Agents)' = Receivers(m, Agents)
      BY DEF Receivers
    <2>2. ASSUME NEW a \in Receivers(m, Agents)
          PROVE  ReceivedLine(m, a)' = ReceivedLine(m, a)
      <3>1. a \in Agents /\ got[m][a] = "logged"
        BY <2>2 DEF Receivers
      <3>2. msg[m] = "published"
        BY <3>1 DEF LogInv, Sent
      <3> QED
        BY <3>1, <3>2 DEF ReceivedLine
    <2> QED
      BY <2>1, <2>2, ReceptionsKept DEF LineInv
  <1> QED
    BY <1>2, <1>3 DEF LineInv, ReceivedLines

\* A line that is not of a sending leaves what the log says of sendings.
LEMMA SentLinesKept ==
  ASSUME LogTypeOK, SentLines, NEW l \in Lines, \A m \in Msgs : ~OfSending(l, m),
         log' = Append(log, l), UNCHANGED <<size, msg, useful, sentAt>>
  PROVE  SentLines'
  <1>1. /\ Len(log) \in Nat /\ Len(log') = Len(log) + 1 /\ log'[Len(log) + 1] = l
        /\ \A i \in 1..Len(log) : log'[i] = log[i]
    BY LogGrows DEF LogTypeOK
  <1>2. \A m \in Msgs : SentLine(m)' = SentLine(m)
    BY DEF SentLine
  <1>3. \A m \in Msgs : \A j \in 1..Len(log') : OfSending(log'[j], m) => j \in 1..Len(log)
    BY <1>1
  <1>4. \A m \in Msgs : (\E j \in 1..Len(log') : OfSending(log'[j], m)) <=>
                        (\E j \in 1..Len(log) : OfSending(log[j], m))
    BY <1>1, <1>3
  <1>5. \A m \in Msgs : \A j \in 1..Len(log') : OfSending(log'[j], m) => log'[j] = SentLine(m)'
    BY <1>1, <1>2, <1>3 DEF SentLines
  <1> QED
    BY <1>4, <1>5 DEF SentLines, OfSending, OfMessage

\* A line that is not of a reception of m leaves what the log says of those.
LEMMA OtherLine ==
  ASSUME LogTypeOK, ReceivedLines, NEW m \in Msgs, NEW l \in Lines, ~Received(l, m),
         log' = Append(log, l), UNCHANGED <<useful, recvAt>>,
         \A a \in Agents : got'[m][a] = got[m][a]
  PROVE  \E f \in Bijection(ReceivedIn(log', Len(log'), m), Receivers(m, Agents)') : Wrote(f, m)'
  <1>1. /\ ReceivedIn(log', Len(log'), m) = ReceivedIn(log, Len(log), m)
        /\ \A i \in 1..Len(log) : log'[i] = log[i]
    BY LogGrows DEF LogTypeOK
  <1>2. \A j \in ReceivedIn(log, Len(log), m) : log'[j] = log[j]
    BY <1>1 DEF ReceivedIn
  <1>3. Receivers(m, Agents)' = Receivers(m, Agents)
    BY DEF Receivers
  <1>4. \A a \in Receivers(m, Agents) : ReceivedLine(m, a)' = ReceivedLine(m, a)
    BY DEF ReceivedLine
  <1> QED
    BY <1>1, <1>2, <1>3, <1>4, ReceptionsKept

LEMMA SubscribeLine ==
  ASSUME LogInv, LineInv, NEW a \in Agents, Subscribe(a)
  PROVE  LineInv'
  <1>1. SubscribedLine(now) \in Lines /\ ~OfMessage(SubscribedLine(now))
    BY LineOfSubscribe DEF LogInv, LogTypeOK
  <1>2. \A m \in Msgs : ~OfSending(SubscribedLine(now), m) /\ ~Received(SubscribedLine(now), m)
    BY <1>1 DEF OfSending, Received
  <1>3. /\ log' = Append(log, SubscribedLine(now))
        /\ UNCHANGED <<size, msg, useful, sentAt, got, recvAt>>
    BY DEF Subscribe
  <1>4. SentLines'
    BY <1>1, <1>2, <1>3, SentLinesKept DEF LogInv, LineInv
  <1>5. ReceivedLines'
    BY <1>1, <1>2, <1>3, OtherLine DEF LogInv, LineInv, ReceivedLines
  <1> QED
    BY <1>4, <1>5 DEF LineInv

LEMMA LogSentLine ==
  ASSUME LogInv, LineInv, NEW m \in Msgs, LogSent(m)
  PROVE  LineInv'
  <1> DEFINE l == SentLine(m)
  <1>1. l \in Lines /\ OfMessage(l) /\ l.direction = "sent" /\ l.msgID = m
    BY LineOfSent DEF LogInv
  <1>2. SentLine(m)' = l /\ \A n \in Msgs : SentLine(n)' = SentLine(n)
    BY DEF SentLine, LogSent
  <1>3. /\ log' = Append(log, l) /\ msg[m] = "stamped"
        /\ \A n \in Msgs : msg'[n] = IF n = m THEN "logged" ELSE msg[n]
        /\ UNCHANGED <<size, useful, sentAt, got, recvAt>>
    BY DEF LogSent, LogInv, LogTypeOK
  <1> HIDE DEF l
  <1>4. /\ Len(log) \in Nat /\ Len(log') = Len(log) + 1 /\ log'[Len(log) + 1] = l
        /\ \A i \in 1..Len(log) : log'[i] = log[i]
    BY <1>1, <1>3, LogGrows DEF LogInv, LogTypeOK
  <1>5. OfSending(l, m) /\ \A n \in Msgs : n # m => ~OfSending(l, n)
    BY <1>1 DEF OfSending
  <1>6. SentLines'
    <2>1. size' \in Sizes
      BY <1>3 DEF LineInv, SentLines
    <2>2. \A n \in Msgs : msg'[n] \in {"stamped", "logged", "published"} => size' >= packetSize
      BY <1>3 DEF LineInv, SentLines
    <2>3. \A n \in Msgs : msg'[n] = "failed" =>
             (size' >= packetSize <=> \E j \in 1..Len(log') : OfSending(log'[j], n))
      <3>1. ASSUME NEW n \in Msgs, msg'[n] = "failed"
            PROVE  size' >= packetSize <=> \E j \in 1..Len(log') : OfSending(log'[j], n)
        <4>1. n # m /\ msg[n] = "failed"
          BY <1>3, <3>1
        <4>2. (\E j \in 1..Len(log') : OfSending(log'[j], n)) <=>
              (\E j \in 1..Len(log) : OfSending(log[j], n))
          BY <1>4, <1>5, <4>1
        <4> QED
          BY <1>3, <4>1, <4>2 DEF LineInv, SentLines
      <3> QED
        BY <3>1
    <2>4. ASSUME NEW n \in Msgs, NEW j \in 1..Len(log'), OfSending(log'[j], n)
          PROVE  log'[j] = SentLine(n)'
      <3>1. CASE j = Len(log) + 1
        BY <1>2, <1>4, <1>5, <2>4, <3>1
      <3>2. CASE j \in 1..Len(log)
        BY <1>2, <1>4, <2>4, <3>2 DEF LineInv, SentLines
      <3> QED
        BY <1>4, <3>1, <3>2
    <2> QED
      BY <2>1, <2>2, <2>3, <2>4 DEF SentLines, OfSending, OfMessage
  <1>7. \A n \in Msgs : ~Received(l, n)
    BY <1>1 DEF Received
  <1>8. ReceivedLines'
    BY <1>1, <1>3, <1>7, OtherLine DEF LogInv, LineInv, ReceivedLines
  <1> QED
    BY <1>6, <1>8 DEF LineInv

LEMMA LogReceivedLine ==
  ASSUME LogInv, LineInv, NEW m \in Msgs, NEW a \in Agents, LogReceived(m, a)
  PROVE  LineInv'
  <1> DEFINE l == ReceivedLine(m, a)
             k == Len(log) + 1
             R == ReceivedIn(log, Len(log), m)
             A == Receivers(m, Agents)
  <1>1. l \in Lines /\ OfMessage(l) /\ l.direction = "received" /\ l.msgID = m
    BY LineOfReceived DEF LogInv
  <1>2. \A n, b : ReceivedLine(n, b)' = ReceivedLine(n, b)
    BY DEF ReceivedLine, LogReceived
  <1>3. /\ log' = Append(log, l) /\ got[m][a] = "stamped"
        /\ \A n \in Msgs, b \in Agents : got'[n][b] = IF n = m /\ b = a THEN "logged" ELSE got[n][b]
        /\ UNCHANGED <<size, msg, useful, sentAt, recvAt>>
    BY DEF LogReceived, LogInv, LogTypeOK
  <1> HIDE DEF l
  <1>4. Received(l, m) /\ \A n \in Msgs : ~OfSending(l, n) /\ (n # m => ~Received(l, n))
    BY <1>1 DEF OfSending, Received
  <1>5. SentLines'
    BY <1>1, <1>3, <1>4, SentLinesKept DEF LogInv, LineInv
  <1>6. ASSUME NEW n \in Msgs, n # m
        PROVE  \E f \in Bijection(ReceivedIn(log', Len(log'), n), Receivers(n, Agents)') : Wrote(f, n)'
    BY <1>1, <1>3, <1>4, <1>6, OtherLine DEF LogInv, LineInv
  <1>7. \E f \in Bijection(ReceivedIn(log', Len(log'), m), Receivers(m, Agents)') : Wrote(f, m)'
    <2>1. PICK f \in Bijection(R, A) : Wrote(f, m)
      BY DEF LineInv, ReceivedLines
    <2>2. /\ f \in [R -> A] /\ \A i, j \in R : f[i] = f[j] => i = j
          /\ \A b \in A : \E j \in R : f[j] = b
      BY <2>1 DEF Bijection, Injection, Surjection, IsInjective
    <2>3. /\ Len(log) \in Nat /\ log'[k] = l /\ \A i \in 1..Len(log) : log'[i] = log[i]
          /\ ReceivedIn(log', Len(log'), m) = R \cup {k}
      BY <1>1, <1>3, <1>4, LogGrows DEF LogInv, LogTypeOK
    <2>4. k \notin R /\ R \subseteq 1..Len(log)
      BY <2>3 DEF ReceivedIn
    <2>5. Receivers(m, Agents)' = A \cup {a} /\ a \notin A
      BY <1>3 DEF Receivers
    <2>6. \A j \in R : log[j] = ReceivedLine(m, f[j])
      BY <2>1 DEF Wrote
    <2> HIDE DEF R, A, k
    <2>7. \E h : h = [j \in R \cup {k} |-> IF j = k THEN a ELSE f[j]]
      OBVIOUS
    <2>8. PICK g : g = [j \in R \cup {k} |-> IF j = k THEN a ELSE f[j]]
      BY <2>7
    <2>9. /\ g[k] = a /\ \A j \in R : g[j] = f[j]
          /\ g \in [R \cup {k} -> A \cup {a}] /\ DOMAIN g = R \cup {k}
      BY <2>2, <2>4, <2>8
    <2>10. g \in Bijection(R \cup {k}, A \cup {a})
      <3>1. \A i, j \in R \cup {k} : g[i] = g[j] => i = j
        BY <2>2, <2>5, <2>9
      <3>2. \A b \in A \cup {a} : \E j \in R \cup {k} : g[j] = b
        BY <2>2, <2>9
      <3> QED
        BY <2>9, <3>1, <3>2 DEF Bijection, Injection, Surjection, IsInjective
    <2>11. ASSUME NEW j \in R \cup {k}
           PROVE  log'[j] = ReceivedLine(m, g[j])'
      <3>1. CASE j = k
        BY <1>2, <2>3, <2>9, <3>1 DEF l
      <3>2. CASE j \in R
        BY <1>2, <2>3, <2>4, <2>6, <2>9, <3>2
      <3> QED
        BY <3>1, <3>2
    <2>12. Wrote(g, m)'
      BY <2>3, <2>5, <2>10, <2>11 DEF Wrote
    <2> QED
      BY <2>3, <2>5, <2>10, <2>12
  <1> QED
    BY <1>5, <1>6, <1>7 DEF LineInv, ReceivedLines

LEMMA NextLine == LogInv /\ LineInv /\ (LogNext \/ UNCHANGED logVars) => LineInv'
  <1> SUFFICES ASSUME LogInv, LineInv, LogNext \/ UNCHANGED logVars PROVE LineInv'
    OBVIOUS
  <1>1. CASE Tick \/ UNCHANGED logVars
    BY <1>1, QuietStep DEF Tick, logVars
  <1>2. ASSUME NEW m \in Msgs, SendMessage(m) PROVE LineInv'
    <2>1. /\ \A n \in Msgs : msg'[n] = IF n = m THEN createMessage ELSE msg[n]
          /\ \A n \in Msgs : n # m => useful'[n] = useful[n] /\ sentAt'[n] = sentAt[n]
          /\ msg[m] = "new" /\ UNCHANGED <<size, log, got, recvAt>>
      BY <1>2 DEF SendMessage, LogInv, LogTypeOK
    <2> QED
      BY <2>1, QuietStep
  <1>3. ASSUME NEW m \in Msgs, Publish(m) PROVE LineInv'
    <2>1. /\ \A n \in Msgs : n # m => msg'[n] = msg[n]
          /\ msg[m] = "logged" /\ msg'[m] \in {"published", "failed"}
          /\ UNCHANGED <<size, log, useful, sentAt, got, recvAt>>
      BY <1>3 DEF Publish, Publishes, LogInv, LogTypeOK
    <2> QED
      BY <2>1, QuietStep
  <1>4. ASSUME NEW m \in Msgs, NEW a \in Agents, Receive(m, a) PROVE LineInv'
    <2>1. /\ \A n \in Msgs, b \in Agents : (n # m \/ b # a) =>
                got'[n][b] = got[n][b] /\ recvAt'[n][b] = recvAt[n][b]
          /\ got[m][a] = "no" /\ got'[m][a] = "stamped"
          /\ UNCHANGED <<size, log, msg, useful, sentAt>>
      BY <1>4 DEF Receive, LogInv, LogTypeOK
    <2>2. \A n \in Msgs, b \in Agents : /\ got'[n][b] = "logged" <=> got[n][b] = "logged"
                                        /\ got[n][b] = "logged" => recvAt'[n][b] = recvAt[n][b]
      BY <2>1
    <2> QED
      BY <2>1, <2>2, QuietStep
  <1> QED
    BY <1>1, <1>2, <1>3, <1>4, SubscribeLine, LogSentLine, LogReceivedLine DEF LogNext

-----------------------------------------------------------------------------
(***************************************************************************)
(* The evaluation of the lines.                                            *)
(***************************************************************************)

\* What decoding a line of a message gives the evaluation.
LEMMA UnmarshalLine ==
  ASSUME NEW line \in Lines, NEW old \in Records, OfMessage(line)
  PROVE  /\ Unmarshal(line, old).time = line.time /\ line.time \in Nat
         /\ Unmarshal(line, old).aggregateStats = line.aggregateStats
         /\ line.direction = "received" =>
               Unmarshal(line, old).isValidator = line.isValidator /\ line.isValidator \in BOOLEAN
  <1>1. CASE line \in [time : Nat]
    BY <1>1 DEF OfMessage
  <1>2. CASE line \in [time : Nat, direction : {"sent"}, msgID : Msgs, aggregateStats : BOOLEAN]
    BY <1>2 DEF Unmarshal, Records
  <1>3. CASE line \in [time : Nat, direction : {"received"}, msgID : Msgs,
                       aggregateStats : BOOLEAN, isValidator : BOOLEAN]
    BY <1>3 DEF Unmarshal, Records
  <1> QED
    BY <1>1, <1>2, <1>3 DEF Lines

\* A line of a message is aggregated if the message is useful; that of a
\* sending has its time.
LEMMA LineSays ==
  ASSUME LogInv, LineInv, NEW j \in 1..Len(log), OfMessage(log[j])
  PROVE  /\ log[j].msgID \in Msgs /\ log[j].direction \in {"sent", "received"}
         /\ log[j].aggregateStats = useful[log[j].msgID]
         /\ log[j].direction = "sent" => log[j].time = Seconds(sentAt[log[j].msgID])
  <1> DEFINE m == log[j].msgID
  <1>1. log[j] \in Lines
    BY DEF LogInv, LogTypeOK
  <1>2. m \in Msgs /\ log[j].direction \in {"sent", "received"}
    BY <1>1 DEF Lines, OfMessage
  <1>3. CASE log[j].direction = "sent"
    <2>1. OfSending(log[j], m)
      BY <1>3 DEF OfSending
    <2>2. log[j] = SentLine(m)
      BY <1>2, <2>1 DEF LineInv, SentLines
    <2> QED
      BY <1>2, <2>2 DEF SentLine
  <1>4. CASE log[j].direction = "received"
    <2>1. j \in ReceivedIn(log, Len(log), m)
      BY <1>4 DEF ReceivedIn, Received
    <2>2. PICK f \in Bijection(ReceivedIn(log, Len(log), m), Receivers(m, Agents)) : Wrote(f, m)
      BY <1>2 DEF LineInv, ReceivedLines
    <2>3. log[j] = ReceivedLine(m, f[j])
      BY <2>1, <2>2 DEF Wrote
    <2>4. ReceivedLine(m, f[j]).aggregateStats = useful[m]
      BY DEF ReceivedLine
    <2> QED
      BY <1>2, <1>4, <2>3, <2>4
  <1> QED
    BY <1>2, <1>3, <1>4

-----------------------------------------------------------------------------
(***************************************************************************)
(* The sum of the numbers f[x], x \in S, which the community modules       *)
(* define as a recursive function.  It satisfies its equation because some *)
(* function does: the number of pairs of an x and a natural number below   *)
(* f[x], less the pairs for the negative numbers.  From then on sums are   *)
(* cardinalities.                                                          *)
(***************************************************************************)
Stack(f, S) == {p \in S \X Nat : p[2] < f[p[1]]}
Positive(n) == IF n > 0 THEN n ELSE 0
Minus(f) == [x \in DOMAIN f |-> -f[x]]
Weight(f, S) == Cardinality(Stack(f, S)) - Cardinality(Stack(Minus(f), S))

OnInts(f, S) == IsFiniteSet(S) /\ S \subseteq DOMAIN f /\ \A x \in S : f[x] \in Int

\* The pairs of one element, of finitely many, and of one element more.
LEMMA StackOne ==
  ASSUME NEW f, NEW a, f[a] \in Int
  PROVE  IsFiniteSet(Stack(f, {a})) /\ Cardinality(Stack(f, {a})) = Positive(f[a])
  <1> DEFINE I == 0..(f[a] - 1)
             h == [n \in I |-> <<a, n>>]
  <1>1. IsFiniteSet(I) /\ Cardinality(I) = Positive(f[a])
    <2>1. 0 \in Int /\ f[a] - 1 \in Int
      OBVIOUS
    <2>2. IsFiniteSet(I) /\ Cardinality(I) = IF 0 > f[a] - 1 THEN 0 ELSE f[a] - 1 - 0 + 1
      BY <2>1, FS_Interval
    <2> QED
      BY <2>2 DEF Positive
  <1>2. h \in [I -> Stack(f, {a})]
    BY DEF Stack
  <1>3. \A i, j \in I : h[i] = h[j] => i = j
    OBVIOUS
  <1>4. ASSUME NEW p \in Stack(f, {a})
        PROVE  \E i \in I : h[i] = p
    <2>1. p[1] = a /\ p[2] \in Nat /\ p[2] < f[a] /\ p = <<p[1], p[2]>>
      BY DEF Stack
    <2>2. p[2] \in I /\ h[p[2]] = p
      BY <2>1
    <2> QED
      BY <2>2
  <1> HIDE DEF h
  <1>5. h \in Bijection(I, Stack(f, {a}))
    BY <1>2, <1>3, <1>4 DEF Bijection, Injection, Surjection, IsInjective
  <1> QED
    BY <1>1, <1>5, FS_Bijection DEF ExistsBijection

LEMMA StackFinite ==
  ASSUME NEW f, NEW S, IsFiniteSet(S), \A x \in S : f[x] \in Int
  PROVE  IsFiniteSet(Stack(f, S)) /\ Cardinality(Stack(f, S)) \in Nat
  <1> DEFINE h == [a \in S |-> Stack(f, {a})]
             T == {h[a] : a \in S}
  <1>1. IsFiniteSet(T)
    <2>1. h \in Surjection(S, T)
      BY DEF Surjection
    <2> QED
      BY <2>1, FS_Surjection
  <1>2. \A U \in T : IsFiniteSet(U)
    BY StackOne
  <1>3. IsFiniteSet(UNION T)
    BY <1>1, <1>2, FS_UNION
  <1>4. Stack(f, S) = UNION T
    BY DEF Stack
  <1> QED
    BY <1>3, <1>4, FS_CardinalityType

LEMMA StackAdd ==
  ASSUME NEW f, NEW S, IsFiniteSet(S), \A x \in S : f[x] \in Int,
         NEW a, a \notin S, f[a] \in Int
  PROVE  Cardinality(Stack(f, S \cup {a})) = Cardinality(Stack(f, S)) + Positive(f[a])
  <1>1. Stack(f, S \cup {a}) = Stack(f, S) \cup Stack(f, {a}) /\ Stack(f, S) \cap Stack(f, {a}) = {}
    BY DEF Stack
  <1>2. IsFiniteSet(Stack(f, S)) /\ Cardinality(Stack(f, S)) \in Nat
    BY StackFinite
  <1>3. IsFiniteSet(Stack(f, {a})) /\ Cardinality(Stack(f, {a})) = Positive(f[a])
    BY StackOne
  <1>4. Positive(f[a]) \in Int
    BY DEF Positive
  <1>5. Cardinality(Stack(f, S) \cup Stack(f, {a})) =
           Cardinality(Stack(f, S)) + Cardinality(Stack(f, {a})) - Cardinality({})
    BY <1>1, <1>2, <1>3, FS_Union
  <1>6. Cardinality({}) = 0
    BY FS_EmptySet
  <1>7. Cardinality(Stack(f, S \cup {a})) = Cardinality(Stack(f, S) \cup Stack(f, {a}))
    BY <1>1, Zenon
  <1> QED
    BY <1>2, <1>3, <1>4, <1>5, <1>6, <1>7

\* Hence the weight satisfies the equation of the sum.
LEMMA WeightAdd ==
  ASSUME NEW f, NEW S, NEW a, a \notin S, OnInts(f, S \cup {a}), IsFiniteSet(S)
  PROVE  Weight(f, S) \in Int /\ Weight(f, S \cup {a}) = Weight(f, S) + f[a]
  <1> DEFINE g == Minus(f)
  <1>1. /\ f[a] \in Int /\ \A x \in S : f[x] \in Int
        /\ g[a] = -f[a] /\ \A x \in S : g[x] \in Int
    BY DEF OnInts, Minus
  <1>2. Cardinality(Stack(f, S)) \in Nat /\ Cardinality(Stack(g, S)) \in Nat
    BY <1>1, StackFinite
  <1>3. Cardinality(Stack(f, S \cup {a})) = Cardinality(Stack(f, S)) + Positive(f[a])
    BY <1>1, StackAdd
  <1>4. Cardinality(Stack(g, S \cup {a})) = Cardinality(Stack(g, S)) + Positive(g[a])
    BY <1>1, StackAdd
  <1>5. Positive(f[a]) - Positive(g[a]) = f[a] /\ Positive(f[a]) \in Int /\ Positive(g[a]) \in Int
    BY <1>1 DEF Positive
  <1> QED
    BY <1>2, <1>3, <1>4, <1>5 DEF Weight

LEMMA WeightEmpty == ASSUME NEW f PROVE Weight(f, {}) = 0
  <1>1. Stack(f, {}) = {} /\ Stack(Minus(f), {}) = {}
    BY DEF Stack
  <1> QED
    BY <1>1, FS_EmptySet DEF Weight

\* The fold behind the sum takes its elements in the order of Chosen.
Chosen(s) == CHOOSE x \in s : TRUE
Folds(g, f, S) == g = [s \in SUBSET S |-> IF s = {} THEN 0 ELSE f[Chosen(s)] + g[s \ {Chosen(s)}]]
Fold(f, S) == CHOOSE g : Folds(g, f, S)

LEMMA SumIsFold == ASSUME NEW f, NEW S PROVE SumFunctionOnSet(f, S) = Fold(f, S)[S]
  BY DEF SumFunctionOnSet, FoldFunctionOnSet, MapThenFoldSet, Chosen, Folds, Fold

\* One step of the fold.
LEMMA Parts ==
  ASSUME NEW f, NEW S, OnInts(f, S), NEW s \in SUBSET S, s # {}
  PROVE  /\ Chosen(s) \in s /\ s \ {Chosen(s)} \in SUBSET S /\ f[Chosen(s)] \in Int
         /\ Weight(f, s \ {Chosen(s)}) \in Int
         /\ Weight(f, s) = f[Chosen(s)] + Weight(f, s \ {Chosen(s)})
  <1> DEFINE a == Chosen(s)
             t == s \ {a}
  <1>1. a \in s
    BY DEF Chosen
  <1> HIDE DEF a
  <1>2. a \notin t /\ t \cup {a} = s /\ IsFiniteSet(s) /\ IsFiniteSet(t)
    BY <1>1, FS_Subset DEF OnInts
  <1>3. OnInts(f, t \cup {a}) /\ f[a] \in Int
    BY <1>1, <1>2 DEF OnInts
  <1> HIDE DEF t
  <1>4. Weight(f, t) \in Int /\ Weight(f, t \cup {a}) = Weight(f, t) + f[a]
    BY <1>2, <1>3, WeightAdd
  <1>5. Weight(f, s) = f[a] + Weight(f, t)
    <2>1. Weight(f, t \cup {a}) = Weight(f, s)
      BY <1>2, Zenon
    <2> QED
      BY <1>3, <1>4, <2>1
  <1>6. t \in SUBSET S
    BY DEF t
  <1> QED
    BY <1>1, <1>3, <1>4, <1>5, <1>6 DEF a, t

\* The fold exists, and a smallest set on which it differs from the weight
\* cannot.
LEMMA SumIsWeight ==
  ASSUME NEW f, NEW S, OnInts(f, S)
  PROVE  SumFunctionOnSet(f, S) = Weight(f, S)
  <1> DEFINE w == [s \in SUBSET S |-> Weight(f, s)]
             g == Fold(f, S)
  <1>1. Folds(w, f, S)
    <2>1. \A s \in SUBSET S : w[s] = IF s = {} THEN 0 ELSE f[Chosen(s)] + w[s \ {Chosen(s)}]
      BY Parts, WeightEmpty
    <2>2. w = [s \in SUBSET S |-> w[s]]
      OBVIOUS
    <2> HIDE DEF w
    <2> QED
      BY <2>1, <2>2 DEF Folds
  <1>2. Folds(g, f, S)
    BY <1>1 DEF Fold
  <1> HIDE DEF g
  <1>3. \A s \in SUBSET S : g[s] = IF s = {} THEN 0 ELSE f[Chosen(s)] + g[s \ {Chosen(s)}]
    BY <1>2 DEF Folds
  <1> DEFINE Wrong == {n \in Nat : \E s \in SUBSET S : Cardinality(s) = n /\ g[s] # Weight(f, s)}
  <1>4. Wrong = {}
    <2> SUFFICES ASSUME Wrong # {} PROVE FALSE
      OBVIOUS
    <2>1. PICK n \in Wrong : \A k \in Wrong : ~(<<k, n>> \in OpToRel(<, Nat))
      BY WFMin, NatLessThanWellFounded
    <2>2. PICK s \in SUBSET S : Cardinality(s) = n /\ g[s] # Weight(f, s)
      OBVIOUS
    <2>3. s # {}
      BY <1>3, <2>2, WeightEmpty
    <2> DEFINE a == Chosen(s)
               t == s \ {a}
    <2>4. a \in s /\ t \in SUBSET S /\ Weight(f, s) = f[a] + Weight(f, t)
      BY <2>3, Parts
    <2>5. IsFiniteSet(s) /\ n \in Nat
      BY FS_Subset DEF OnInts
    <2> HIDE DEF a
    <2>6. Cardinality(t) = n - 1 /\ IsFiniteSet(t)
      BY <2>2, <2>4, <2>5, FS_RemoveElement
    <2>7. Cardinality(t) \in Nat
      BY <2>6, FS_CardinalityType
    <2> HIDE DEF t
    <2>8. <<n - 1, n>> \in OpToRel(<, Nat)
      BY <2>5, <2>6, <2>7 DEF OpToRel
    <2>9. g[t] = Weight(f, t)
      BY <2>1, <2>4, <2>6, <2>7, <2>8
    <2>10. g[s] = f[a] + g[t]
      BY <1>3, <2>3 DEF a, t
    <2> QED
      BY <2>2, <2>4, <2>9, <2>10
  <1>5. Cardinality(S) \in Nat
    BY FS_CardinalityType DEF OnInts
  <1>6. g[S] = Weight(f, S)
    BY <1>4, <1>5
  <1> QED
    BY <1>6, SumIsFold DEF g

\* What is needed of sums: no element, one element more, other names for the
\* elements.
LEMMA SumEmpty == ASSUME NEW f PROVE SumFunctionOnSet(f, {}) = 0
  <1>1. OnInts(f, {})
    BY FS_EmptySet DEF OnInts
  <1> QED
    BY <1>1, SumIsWeight, WeightEmpty

LEMMA SumAdd ==
  ASSUME NEW f, NEW S, NEW a, a \notin S, OnInts(f, S \cup {a}), IsFiniteSet(S)
  PROVE  SumFunctionOnSet(f, S \cup {a}) = SumFunctionOnSet(f, S) + f[a]
  <1>1. OnInts(f, S)
    BY DEF OnInts
  <1>2. SumFunctionOnSet(f, S) = Weight(f, S)
    BY <1>1, SumIsWeight
  <1>3. SumFunctionOnSet(f, S \cup {a}) = Weight(f, S \cup {a})
    BY SumIsWeight
  <1> QED
    BY <1>2, <1>3, WeightAdd

LEMMA StackMoved ==
  ASSUME NEW R, NEW T, NEW h \in Bijection(R, T), NEW P \in SUBSET R, NEW Q \in SUBSET T,
         \A j \in R : j \in P <=> h[j] \in Q,
         NEW f, NEW g, \A j \in P : f[j] = g[h[j]], IsFiniteSet(P), \A j \in P : f[j] \in Int
  PROVE  Cardinality(Stack(f, P)) = Cardinality(Stack(g, Q))
  <1> DEFINE H == [p \in Stack(f, P) |-> <<h[p[1]], p[2]>>]
  <1>1. /\ h \in [R -> T] /\ \A i, j \in R : h[i] = h[j] => i = j
        /\ \A b \in T : \E j \in R : h[j] = b
    BY DEF Bijection, Injection, Surjection, IsInjective
  <1>2. H \in [Stack(f, P) -> Stack(g, Q)]
    BY <1>1 DEF Stack
  <1>3. ASSUME NEW p \in Stack(f, P), NEW q \in Stack(f, P), H[p] = H[q]
        PROVE  p = q
    <2>1. /\ p[1] \in R /\ q[1] \in R
          /\ p = <<p[1], p[2]>> /\ q = <<q[1], q[2]>>
      BY DEF Stack
    <2>2. h[p[1]] = h[q[1]] /\ p[2] = q[2]
      BY <1>3
    <2> QED
      BY <1>1, <2>1, <2>2
  <1>4. ASSUME NEW q \in Stack(g, Q)
        PROVE  \E p \in Stack(f, P) : H[p] = q
    <2>1. q[1] \in Q /\ q[2] \in Nat /\ q[2] < g[q[1]] /\ q = <<q[1], q[2]>>
      BY DEF Stack
    <2>2. PICK j \in P : h[j] = q[1]
      BY <1>1, <2>1
    <2>3. <<j, q[2]>> \in Stack(f, P)
      BY <2>1, <2>2 DEF Stack
    <2>4. H[<<j, q[2]>>] = q
      BY <2>1, <2>2, <2>3
    <2> QED
      BY <2>3, <2>4
  <1> HIDE DEF H
  <1>5. H \in Bijection(Stack(f, P), Stack(g, Q))
    BY <1>2, <1>3, <1>4 DEF Bijection, Injection, Surjection, IsInjective
  <1> QED
    BY <1>5, StackFinite, FS_Bijection DEF ExistsBijection

LEMMA SumMoved ==
  ASSUME NEW R, NEW T, NEW h \in Bijection(R, T), NEW P \in SUBSET R, NEW Q \in SUBSET T,
         \A j \in R : j \in P <=> h[j] \in Q,
         NEW f, NEW g, \A j \in P : f[j] = g[h[j]], OnInts(f, P), OnInts(g, Q)
  PROVE  SumFunctionOnSet(f, P) = SumFunctionOnSet(g, Q)
  <1>1. IsFiniteSet(P) /\ \A j \in P : f[j] \in Int
    BY DEF OnInts
  <1>2. \A j \in P : Minus(f)[j] = Minus(g)[h[j]] /\ Minus(f)[j] \in Int
    BY DEF OnInts, Minus
  <1>3. Cardinality(Stack(f, P)) = Cardinality(Stack(g, Q))
    BY <1>1, StackMoved
  <1>4. Cardinality(Stack(Minus(f), P)) = Cardinality(Stack(Minus(g), Q))
    BY <1>1, <1>2, StackMoved
  <1>5. Weight(f, P) = Weight(g, Q)
    BY <1>3, <1>4 DEF Weight
  <1> QED
    BY <1>5, SumIsWeight

-----------------------------------------------------------------------------
\* The lines of the receptions of m, with one line more.
LEMMA ReceivedNext ==
  ASSUME NEW s, NEW k \in Nat, NEW m
  PROVE  /\ IsFiniteSet(ReceivedIn(s, k, m)) /\ k + 1 \notin ReceivedIn(s, k, m)
         /\ Received(s[k + 1], m) => ReceivedIn(s, k + 1, m) = ReceivedIn(s, k, m) \cup {k + 1}
         /\ ~Received(s[k + 1], m) => ReceivedIn(s, k + 1, m) = ReceivedIn(s, k, m)
  <1>1. IsFiniteSet(1..k)
    BY FS_Interval
  <1>2. ReceivedIn(s, k, m) \subseteq 1..k
    BY DEF ReceivedIn
  <1>3. IsFiniteSet(ReceivedIn(s, k, m))
    BY <1>1, <1>2, FS_Subset
  <1>4. 1..(k + 1) = (1..k) \cup {k + 1} /\ k + 1 \notin 1..k
    OBVIOUS
  <1> QED
    BY <1>2, <1>3, <1>4 DEF ReceivedIn

LEMMA ValidatedNext ==
  ASSUME NEW s, NEW k \in Nat, NEW m
  PROVE  /\ IsFiniteSet(ValidatedIn(s, k, m)) /\ k + 1 \notin ValidatedIn(s, k, m)
         /\ Received(s[k + 1], m) /\ s[k + 1].isValidator =>
               ValidatedIn(s, k + 1, m) = ValidatedIn(s, k, m) \cup {k + 1}
         /\ ~Received(s[k + 1], m) \/ ~s[k + 1].isValidator =>
               ValidatedIn(s, k + 1, m) = ValidatedIn(s, k, m)
  <1>1. ValidatedIn(s, k, m) \subseteq ReceivedIn(s, k, m)
    BY DEF ValidatedIn
  <1> QED
    BY <1>1, ReceivedNext, FS_Subset DEF ValidatedIn

\* A line that is not of a reception of m leaves the statistics of m right.
LEMMA CountedOther ==
  ASSUME NEW r, NEW s, NEW k \in Nat, NEW m, Counted(r, s, k, m), ~Received(s[k + 1], m)
  PROVE  Counted(r, s, k + 1, m)
  BY ReceivedNext, ValidatedNext DEF Counted

\* The statistics of a message that was only sent.
LEMMA CountedNew ==
  ASSUME NEW l \in Records, NEW s, NEW k \in Nat, NEW m, ReceivedIn(s, k, m) = {}
  PROVE  Counted(newStats(l), s, k, m) /\ newStats(l).sent = l.time
  <1>1. ValidatedIn(s, k, m) = {} /\ \A d : {j \in {} : s[j].time - newStats(l).sent <= d} = {}
    BY DEF ValidatedIn
  <1>2. /\ newStats(l) \in Statistics /\ newStats(l).sent = l.time
        /\ newStats(l).nodes = 0 /\ newStats(l).validators = 0
        /\ newStats(l).last = 0 /\ newStats(l).lastValidator = 0
        /\ \A d \in durations : newStats(l).within[d] = 0
        /\ newStats(l).sum = 0 /\ newStats(l).sumValidators = 0
    <2>1. l.time \in Nat /\ [d \in durations |-> 0] \in [durations -> Nat]
      BY DEF Records
    <2> QED
      BY <2>1 DEF newStats, Statistics
  <1> QED
    BY <1>1, <1>2, FS_EmptySet, SumEmpty DEF Counted, Latest

\* What the branch "received" does to the statistics.
LEMMA ReceivedFields ==
  ASSUME NEW r \in Statistics, NEW l, l.time \in Nat, l.isValidator \in BOOLEAN
  PROVE  /\ received(r, l) \in Statistics /\ received(r, l).sent = r.sent
         /\ received(r, l).nodes = r.nodes + 1 /\ received(r, l).last = Later(r.last, l.time)
         /\ received(r, l).sum = r.sum + (l.time - r.sent)
         /\ ~l.isValidator => /\ received(r, l).validators = r.validators
                              /\ received(r, l).sumValidators = r.sumValidators
                              /\ received(r, l).lastValidator = r.lastValidator
                              /\ received(r, l).within = r.within
         /\ l.isValidator =>
               /\ received(r, l).validators = r.validators + 1
               /\ received(r, l).sumValidators = r.sumValidators + (l.time - r.sent)
               /\ received(r, l).lastValidator = Later(r.lastValidator, l.time)
               /\ \A d \in durations : received(r, l).within[d] =
                     IF l.time - r.sent <= d THEN r.within[d] + 1 ELSE r.within[d]
  <1> DEFINE duration == l.time - r.sent
             n == r.nodes + 1
             t == Later(r.last, l.time)
             i == r.sum + duration
             v == r.validators + 1
             u == Later(r.lastValidator, l.time)
             h == r.sumValidators + duration
             w == [d \in durations |-> IF duration <= d THEN r.within[d] + 1 ELSE r.within[d]]
             all == [r EXCEPT !.nodes = n, !.last = t, !.sum = i]
             full == [all EXCEPT !.lastValidator = u, !.sumValidators = h, !.validators = v, !.within = w]
  <1>1. /\ r.sent \in Nat /\ r.nodes \in Nat /\ r.validators \in Nat /\ r.last \in Nat
        /\ r.lastValidator \in Nat /\ r.sum \in Int /\ r.sumValidators \in Int
        /\ r.within \in [durations -> Nat] /\ duration \in Int
    BY DEF Statistics
  <1>2. n \in Nat /\ t \in Nat /\ i \in Int /\ v \in Nat /\ u \in Nat /\ h \in Int
    BY <1>1 DEF Later
  <1>3. w \in [durations -> Nat]
    BY <1>1
  <1> HIDE DEF n, t, i, v, u, h, w
  <1>4. /\ all \in Statistics /\ all.sent = r.sent /\ all.nodes = n
        /\ all.last = t /\ all.validators = r.validators
        /\ all.lastValidator = r.lastValidator /\ all.within = r.within
        /\ all.sumValidators = r.sumValidators /\ all.sum = i
    BY <1>2 DEF Statistics
  <1> HIDE DEF all
  <1>5. /\ full \in Statistics /\ full.sent = r.sent /\ full.nodes = n /\ full.last = t
        /\ full.validators = v /\ full.lastValidator = u /\ full.within = w
        /\ full.sum = i /\ full.sumValidators = h
    BY <1>2, <1>3, <1>4 DEF Statistics
  <1> HIDE DEF full
  <1>6. CASE ~l.isValidator
    <2>1. received(r, l) = all
      BY <1>6 DEF received, all, duration, n, t, i
    <2> QED
      BY <1>4, <1>6, <2>1 DEF n, t, i, duration
  <1>7. CASE l.isValidator
    <2>1. received(r, l) = full
      BY <1>4, <1>7 DEF received, full, all, duration, n, t, i, v, u, h, w, Within
    <2>2. \A d \in durations : w[d] = IF l.time - r.sent <= d THEN r.within[d] + 1 ELSE r.within[d]
      BY DEF w, duration
    <2> QED
      BY <1>5, <1>7, <2>1, <2>2 DEF n, t, v, u, i, h, duration
  <1> QED
    BY <1>6, <1>7

\* The latest time, with one line more.
LEMMA LatestNext ==
  ASSUME NEW t \in Nat, NEW s, NEW J, NEW k, \A j \in J : s[j].time \in Nat, s[k].time \in Nat,
         Latest(t, s, J)
  PROVE  Latest(Later(t, s[k].time), s, J \cup {k})
  BY DEF Latest, Later

\* The statistics of a message with one reception more.
LEMMA CountedReceived ==
  ASSUME NEW r, NEW s \in Seq(Lines), NEW k \in Nat, NEW m, k < Len(s), Counted(r, s, k, m),
         NEW l, Received(s[k + 1], m), l.time = s[k + 1].time, l.isValidator = s[k + 1].isValidator,
         l.isValidator \in BOOLEAN
  PROVE  Counted(received(r, l), s, k + 1, m) /\ received(r, l).sent = r.sent
  <1> DEFINE R == ReceivedIn(s, k, m)
             V == ValidatedIn(s, k, m)
             q == received(r, l)
             F == Times(s, r.sent)
             B(x, d) == {j \in x : s[j].time - r.sent <= d}
  <1>1. /\ IsFiniteSet(R) /\ k + 1 \notin R /\ ReceivedIn(s, k + 1, m) = R \cup {k + 1}
        /\ IsFiniteSet(V) /\ k + 1 \notin V
        /\ l.isValidator => ValidatedIn(s, k + 1, m) = V \cup {k + 1}
        /\ ~l.isValidator => ValidatedIn(s, k + 1, m) = V
    <2>1. IsFiniteSet(R) /\ k + 1 \notin R /\ ReceivedIn(s, k + 1, m) = R \cup {k + 1}
      <3>1. /\ IsFiniteSet(R) /\ k + 1 \notin R
            /\ Received(s[k + 1], m) => ReceivedIn(s, k + 1, m) = R \cup {k + 1}
        BY ReceivedNext
      <3> QED
        BY <3>1
    <2>2. /\ IsFiniteSet(V) /\ k + 1 \notin V
          /\ Received(s[k + 1], m) /\ s[k + 1].isValidator => ValidatedIn(s, k + 1, m) = V \cup {k + 1}
          /\ ~Received(s[k + 1], m) \/ ~s[k + 1].isValidator => ValidatedIn(s, k + 1, m) = V
      BY ValidatedNext
    <2>3. /\ l.isValidator => ValidatedIn(s, k + 1, m) = V \cup {k + 1}
          /\ ~l.isValidator => ValidatedIn(s, k + 1, m) = V
      BY <2>2, Zenon
    <2> QED
      BY <2>1, <2>2, <2>3
  <1>2. \A j \in 1..Len(s) : s[j].time \in Nat
    BY DEF Lines
  <1>3. R \subseteq 1..Len(s) /\ V \subseteq R /\ k + 1 \in 1..Len(s)
    BY DEF ReceivedIn, ValidatedIn
  <1>4. r \in Statistics /\ l.time \in Nat
    BY <1>2, <1>3 DEF Counted
  <1>5. /\ q \in Statistics /\ q.sent = r.sent
        /\ q.nodes = r.nodes + 1 /\ q.last = Later(r.last, l.time)
        /\ q.sum = r.sum + (l.time - r.sent)
        /\ ~l.isValidator => /\ q.validators = r.validators /\ q.lastValidator = r.lastValidator
                             /\ q.within = r.within /\ q.sumValidators = r.sumValidators
        /\ l.isValidator => /\ q.validators = r.validators + 1
                            /\ q.sumValidators = r.sumValidators + (l.time - r.sent)
                            /\ q.lastValidator = Later(r.lastValidator, l.time)
                            /\ \A d \in durations : q.within[d] =
                                  IF l.time - r.sent <= d THEN r.within[d] + 1 ELSE r.within[d]
    BY <1>4, ReceivedFields
  <1>6. /\ r.last \in Nat /\ r.lastValidator \in Nat /\ r.nodes = Cardinality(R)
        /\ r.validators = Cardinality(V) /\ Latest(r.last, s, R) /\ Latest(r.lastValidator, s, V)
        /\ \A d \in durations : r.within[d] = Cardinality(B(V, d))
        /\ r.sum = SumFunctionOnSet(F, R) /\ r.sumValidators = SumFunctionOnSet(F, V)
    BY <1>4 DEF Counted, Statistics
  <1>11. F[k + 1] = l.time - r.sent /\ OnInts(F, R \cup {k + 1}) /\ OnInts(F, V \cup {k + 1})
    <2>1. F[k + 1] = l.time - r.sent /\ DOMAIN F = 1..Len(s)
      BY <1>3 DEF Times
    <2>2. r.sent \in Int /\ \A j \in 1..Len(s) : F[j] \in Int
      BY <1>2, <1>4 DEF Times, Statistics
    <2>3. IsFiniteSet(R \cup {k + 1}) /\ IsFiniteSet(V \cup {k + 1})
      BY <1>1, FS_AddElement
    <2> HIDE DEF F, R, V
    <2> QED
      BY <1>3, <2>1, <2>2, <2>3 DEF OnInts
  <1> HIDE DEF R, V, q, F
  <1>12. q.sum = SumFunctionOnSet(F, R \cup {k + 1})
    <2>1. SumFunctionOnSet(F, R \cup {k + 1}) = SumFunctionOnSet(F, R) + F[k + 1]
      <3>1. k + 1 \notin R /\ IsFiniteSet(R) /\ OnInts(F, R \cup {k + 1})
        BY <1>1, <1>11
      <3> QED
        BY <3>1, SumAdd, Zenon
    <2> QED
      BY <1>5, <1>6, <1>11, <2>1
  <1>7. q.nodes = Cardinality(R \cup {k + 1})
    BY <1>1, <1>5, <1>6, FS_AddElement
  <1>8. Latest(q.last, s, R \cup {k + 1})
    <2>1. (\A j \in R : s[j].time \in Nat) /\ s[k + 1].time \in Nat
      BY <1>2, <1>3
    <2>2. Latest(Later(r.last, s[k + 1].time), s, R \cup {k + 1})
      BY <1>6, <2>1, LatestNext
    <2> QED
      BY <1>5, <2>2
  <1>9. CASE ~l.isValidator
    <2>1. q.validators = Cardinality(V) /\ Latest(q.lastValidator, s, V)
      BY <1>5, <1>6, <1>9
    <2>2. \A d \in durations : q.within[d] = Cardinality({j \in V : s[j].time - q.sent <= d})
      BY <1>5, <1>6, <1>9
    <2>3. q.sumValidators = SumFunctionOnSet(F, V)
      BY <1>5, <1>6, <1>9
    <2> QED
      BY <1>1, <1>5, <1>7, <1>8, <1>9, <1>12, <2>1, <2>2, <2>3 DEF Counted, q, F
  <1>10. CASE l.isValidator
    <2>1. q.validators = Cardinality(V \cup {k + 1})
      <3>1. Cardinality(V \cup {k + 1}) = Cardinality(V) + 1
        BY <1>1, FS_AddElement
      <3> QED
        BY <1>5, <1>6, <1>10, <3>1
    <2>2. Latest(q.lastValidator, s, V \cup {k + 1})
      <3>1. (\A j \in V : s[j].time \in Nat) /\ s[k + 1].time \in Nat
        BY <1>2, <1>3
      <3>2. Latest(Later(r.lastValidator, s[k + 1].time), s, V \cup {k + 1})
        BY <1>6, <3>1, LatestNext
      <3> QED
        BY <1>5, <1>10, <3>2
    <2>3. ASSUME NEW d \in durations
          PROVE  q.within[d] = Cardinality(B(V \cup {k + 1}, d))
      <3>1. IsFiniteSet(B(V, d)) /\ k + 1 \notin B(V, d)
        BY <1>1, FS_Subset
      <3>2. CASE l.time - r.sent <= d
        <4>1. B(V \cup {k + 1}, d) = B(V, d) \cup {k + 1}
          BY <3>2
        <4>2. Cardinality(B(V, d) \cup {k + 1}) = Cardinality(B(V, d)) + 1
          BY <3>1, FS_AddElement
        <4> QED
          BY <1>5, <1>6, <1>10, <3>2, <4>1, <4>2
      <3>3. CASE ~(l.time - r.sent <= d)
        <4>1. B(V \cup {k + 1}, d) = B(V, d)
          BY <3>3
        <4> QED
          BY <1>5, <1>6, <1>10, <3>3, <4>1
      <3> QED
        BY <3>2, <3>3
    <2>4. q.sumValidators = SumFunctionOnSet(F, V \cup {k + 1})
      <3>1. SumFunctionOnSet(F, V \cup {k + 1}) = SumFunctionOnSet(F, V) + F[k + 1]
        <4>1. k + 1 \notin V /\ IsFiniteSet(V) /\ OnInts(F, V \cup {k + 1})
          BY <1>1, <1>11
        <4> QED
          BY <4>1, SumAdd, Zenon
      <3> QED
        BY <1>5, <1>6, <1>10, <1>11, <3>1
    <2> QED
      BY <1>1, <1>5, <1>7, <1>8, <1>10, <1>12, <2>1, <2>2, <2>3, <2>4 DEF Counted, q, F
  <1> QED
    BY <1>9, <1>10, <1>5 DEF q

LEMMA InitCount == Init => CountInv
  <1> SUFFICES ASSUME Init PROVE CountInv
    OBVIOUS
  <1>1. /\ phase = "run" /\ pos = 0 /\ msgNumber = 0 /\ DOMAIN result = {}
    <2>1. phase = "run" /\ pos = 0 /\ msgNumber = 0 /\ result = [m \in {} |-> 0]
      BY DEF Init
    <2> QED
      BY <2>1
  <1>2. IsFiniteSet({}) /\ Cardinality({}) = 0
    BY FS_EmptySet
  <1> QED
    BY <1>1, <1>2 DEF CountInv

\* Nothing was counted before the benchmark has ended.
LEMMA BenchmarkCount == IInv /\ CountInv /\ Benchmark => CountInv'
  <1> SUFFICES ASSUME IInv, CountInv, Benchmark PROVE CountInv'
    OBVIOUS
  <1>1. phase = "run" /\ pos = 0 /\ UNCHANGED statVars
    BY DEF Benchmark, IInv, StatInv, Scanned
  <1>2. DOMAIN result = {}
    BY <1>1 DEF CountInv
  <1>3. phase' = "run" /\ pos' = 0 /\ result' = result /\ msgNumber' = msgNumber
    BY <1>1 DEF statVars
  <1>4. DOMAIN result' = {m \in Msgs : useful'[m] /\ \E j \in 1..pos' : OfSending(log[j], m)'}
    BY <1>2, <1>3
  <1> QED
    BY <1>2, <1>3, <1>4 DEF CountInv

\* Steps that read no line.
LEMMA NoReadCount ==
  ASSUME CountInv, UNCHANGED <<logVars, pos, result, msgNumber>>, phase' = "done" => pos = Len(log)
  PROVE  CountInv'
  BY DEF CountInv, logVars, OfSending, OfMessage

\* The line that is read next, and what it changes of the messages that have
\* a line of their sending.
LEMMA ScanCount == IInv /\ LineInv /\ CountInv /\ Scan => CountInv'
  <1> SUFFICES ASSUME IInv, LineInv, CountInv, Scan PROVE CountInv'
    OBVIOUS
  <1> DEFINE line == log[pos + 1]
             new == Unmarshal(line, logLine)
             SentBy(k, m) == \E j \in 1..k : OfSending(log[j], m)
  <1>1. /\ phase = "scan" /\ pos \in Nat /\ pos < Len(log) /\ Len(log) \in Nat
        /\ pos + 1 \in 1..Len(log)
        /\ pos' = pos + 1 /\ logLine' = new /\ line \in Lines
        /\ logLine \in Records /\ UNCHANGED logVars /\ log \in Seq(Lines)
    BY DEF Scan, TypeOK, LogTypeOK, logVars, IInv, StatInv
  <1>2. log' = log /\ useful' = useful /\ sentAt' = sentAt
    BY <1>1 DEF logVars
  <1>3. /\ new \in Records
        /\ OfMessage(line) => new.direction = line.direction /\ new.msgID = line.msgID
        /\ ~OfMessage(line) => new.aggregateStats = logLine.aggregateStats
    BY <1>1, UnmarshalFacts
  <1>4. OfMessage(line) =>
          /\ new.time = line.time /\ new.aggregateStats = line.aggregateStats
          /\ line.direction = "received" =>
                new.isValidator = line.isValidator /\ line.isValidator \in BOOLEAN
    BY <1>1, UnmarshalLine
  <1>5. OfMessage(line) =>
          /\ line.msgID \in Msgs /\ line.direction \in {"sent", "received"}
          /\ line.aggregateStats = useful[line.msgID]
          /\ line.direction = "sent" => line.time = Seconds(sentAt[line.msgID])
    BY <1>1, LineSays DEF IInv
  <1>6. IF new.aggregateStats THEN addStatistics(new) ELSE UNCHANGED <<phase, result, msgNumber>>
    BY <1>1 DEF Scan
  <1>7. ~OfMessage(line) => new.aggregateStats = FALSE
    <2>1. ~OfMessage(line) => \A j \in 1..pos : ~OfMessage(log[j])
      BY <1>1 DEF IInv, LogInv, LinesInOrder
    <2> QED
      BY <1>3, <2>1 DEF IInv, StatInv, Scanned
  <1>8. \A m : SentBy(pos + 1, m) <=> (SentBy(pos, m) \/ OfSending(line, m))
    BY <1>1
  <1>9. DOMAIN result = {m \in Msgs : useful[m] /\ SentBy(pos, m)}
    BY DEF CountInv
  <1>10. \A m \in DOMAIN result : ~Received(line, m) => Counted(result[m], log, pos + 1, m)
    BY <1>1, CountedOther DEF CountInv
  <1>11. IsFiniteSet(DOMAIN result) /\ msgNumber = Cardinality(DOMAIN result)
         /\ \A m \in DOMAIN result : result[m].sent = Seconds(sentAt[m])
    BY DEF CountInv
  <1>12. ASSUME phase' # "done",
                DOMAIN result' = {m \in Msgs : useful[m] /\ SentBy(pos + 1, m)},
                IsFiniteSet(DOMAIN result'), msgNumber' = Cardinality(DOMAIN result'),
                \A m \in DOMAIN result' :
                   result'[m].sent = Seconds(sentAt[m]) /\ Counted(result'[m], log, pos + 1, m)
         PROVE  CountInv'
    BY <1>1, <1>2, <1>12 DEF CountInv, OfSending, OfMessage
  <1> HIDE DEF new, SentBy
  <1>13. CASE ~new.aggregateStats
    <2>1. phase' # "done" /\ result' = result /\ msgNumber' = msgNumber
      BY <1>1, <1>6, <1>13
    <2>2. \A m \in Msgs : useful[m] => ~OfSending(line, m) /\ ~Received(line, m)
      BY <1>4, <1>5, <1>13 DEF OfSending, Received
    <2>3. DOMAIN result' = {m \in Msgs : useful[m] /\ SentBy(pos + 1, m)}
      BY <1>8, <1>9, <2>1, <2>2
    <2>4. \A m \in DOMAIN result' : Counted(result'[m], log, pos + 1, m)
      BY <1>9, <1>10, <2>1, <2>2
    <2> QED
      BY <1>11, <1>12, <2>1, <2>3, <2>4
  <1>14. CASE new.aggregateStats /\ line.direction = "sent"
    <2> DEFINE n == line.msgID
    <2>1. /\ OfMessage(line) /\ n \in Msgs /\ useful[n] /\ new.msgID = n /\ new.direction = "sent"
          /\ new.time = Seconds(sentAt[n]) /\ OfSending(line, n)
      BY <1>3, <1>4, <1>5, <1>7, <1>14 DEF OfSending
    <2>2. \A j \in 1..Len(log) : OfSending(log[j], n) => j = pos + 1
      BY <1>1, <2>1 DEF IInv, LogInv, Sent
    <2>3. ~SentBy(pos, n) /\ n \notin DOMAIN result
      <3>1. \A j \in 1..pos : j \in 1..Len(log) /\ j # pos + 1
        BY <1>1
      <3>2. ~SentBy(pos, n)
        BY <2>2, <3>1 DEF SentBy
      <3> QED
        BY <1>9, <3>2
    <2>4. /\ msgNumber' = msgNumber + 1 /\ phase' = phase
          /\ result' = [m \in DOMAIN result \cup {n} |-> IF m = n THEN newStats(new) ELSE result[m]]
      BY <1>6, <1>14, <2>1, <2>3 DEF addStatistics
    <2>5. DOMAIN result' = DOMAIN result \cup {n} /\ result'[n] = newStats(new)
          /\ \A m \in DOMAIN result : result'[m] = result[m]
      BY <2>3, <2>4
    <2>6. ReceivedIn(log, pos + 1, n) = {}
      <3> SUFFICES ASSUME NEW i \in ReceivedIn(log, pos + 1, n) PROVE FALSE
        OBVIOUS
      <3>1. i \in 1..(pos + 1) /\ i \in 1..Len(log) /\ Received(log[i], n)
        BY <1>1 DEF ReceivedIn
      <3>2. PICK j \in 1..(i - 1) : OfSending(log[j], n)
        BY <3>1 DEF IInv, LogInv, LinesInOrder, Received
      <3> QED
        BY <1>1, <2>2, <3>1, <3>2
    <2>7. \A m \in Msgs : OfSending(line, m) => m = n
      BY DEF OfSending
    <2>8. DOMAIN result' = {m \in Msgs : useful[m] /\ SentBy(pos + 1, m)}
      BY <1>8, <1>9, <2>1, <2>5, <2>7
    <2>9. IsFiniteSet(DOMAIN result') /\ msgNumber' = Cardinality(DOMAIN result')
      BY <1>11, <2>3, <2>4, <2>5, FS_AddElement
    <2>10. Counted(newStats(new), log, pos + 1, n) /\ newStats(new).sent = Seconds(sentAt[n])
      BY <1>1, <1>3, <2>1, <2>6, CountedNew
    <2>11. \A m \in Msgs : ~Received(line, m)
      BY <1>14 DEF Received
    <2>12. \A m \in DOMAIN result' :
              result'[m].sent = Seconds(sentAt[m]) /\ Counted(result'[m], log, pos + 1, m)
      BY <1>9, <1>10, <1>11, <2>5, <2>10, <2>11
    <2>13. phase' # "done"
      BY <1>1, <2>4
    <2> QED
      BY <1>12, <2>8, <2>9, <2>12, <2>13
  <1>15. CASE new.aggregateStats /\ line.direction = "received"
    <2> DEFINE n == line.msgID
    <2>1. /\ OfMessage(line) /\ n \in Msgs /\ useful[n] /\ new.msgID = n /\ new.direction = "received"
          /\ new.time = line.time /\ new.isValidator = line.isValidator /\ new.isValidator \in BOOLEAN
          /\ Received(line, n)
      BY <1>3, <1>4, <1>5, <1>7, <1>15 DEF Received
    <2>2. /\ msgNumber' = msgNumber /\ phase' = phase
          /\ result' = [m \in DOMAIN result |-> IF m = n THEN received(result[m], new) ELSE result[m]]
      BY <1>6, <1>15, <2>1 DEF addStatistics
    <2>3. /\ DOMAIN result' = DOMAIN result
          /\ \A m \in DOMAIN result : result'[m] = IF m = n THEN received(result[m], new) ELSE result[m]
      BY <2>2
    <2>4. SentBy(pos, n)
      <3>1. \E j \in 1..(pos + 1 - 1) : OfSending(log[j], n)
        BY <1>1, <1>15, <2>1 DEF IInv, LogInv, LinesInOrder
      <3> QED
        BY <1>1, <3>1 DEF SentBy
    <2>5. n \in DOMAIN result /\ Counted(result[n], log, pos, n)
      BY <1>9, <2>1, <2>4 DEF CountInv
    <2>6. Counted(received(result[n], new), log, pos + 1, n) /\ received(result[n], new).sent = result[n].sent
      BY <1>1, <2>1, <2>5, CountedReceived
    <2>7. \A m \in Msgs : ~OfSending(line, m) /\ (m # n => ~Received(line, m))
      BY <1>15 DEF OfSending, Received
    <2>8. DOMAIN result' = {m \in Msgs : useful[m] /\ SentBy(pos + 1, m)}
      BY <1>8, <1>9, <2>3, <2>7
    <2>9. \A m \in DOMAIN result' :
              result'[m].sent = Seconds(sentAt[m]) /\ Counted(result'[m], log, pos + 1, m)
      BY <1>9, <1>10, <1>11, <2>3, <2>6, <2>7
    <2>10. phase' # "done"
      BY <1>1, <2>2
    <2> QED
      BY <1>11, <1>12, <2>2, <2>3, <2>8, <2>9, <2>10
  <1> QED
    BY <1>5, <1>7, <1>13, <1>14, <1>15

LEMMA NextCount == IInv /\ LineInv /\ CountInv /\ [Next]_vars => LineInv' /\ CountInv'
  <1> SUFFICES ASSUME IInv, LineInv, CountInv, [Next]_vars PROVE LineInv' /\ CountInv'
    OBVIOUS
  <1>1. CASE Benchmark
    BY <1>1, NextLine, BenchmarkCount DEF IInv, Benchmark
  <1>2. CASE EndOfBenchmark
    BY <1>2, NextLine, NoReadCount DEF IInv, EndOfBenchmark
  <1>3. CASE Scan
    BY <1>3, NextLine, ScanCount DEF IInv, Scan
  <1>4. CASE PrintStats
    BY <1>4, NextLine, NoReadCount DEF IInv, PrintStats
  <1>5. CASE UNCHANGED vars
    <2>1. UNCHANGED logVars /\ UNCHANGED <<pos, result, msgNumber, phase>>
      BY <1>5 DEF vars, statVars
    <2>2. phase' = "done" => pos = Len(log)
      BY <2>1 DEF CountInv
    <2> QED
      BY <2>1, <2>2, NextLine, NoReadCount DEF IInv
  <1> QED
    BY <1>1, <1>2, <1>3, <1>4, <1>5 DEF Next

LEMMA CountInductive == Spec => [](LineInv /\ CountInv)
  <1>1. Init => LineInv /\ CountInv
    BY InitLine, InitCount
  <1> QED
    BY <1>1, Inductive, NextCount, PTL DEF Spec

-----------------------------------------------------------------------------
(***************************************************************************)
(* What the statistics are at the end.                                     *)
(***************************************************************************)

\* The largest element of a set of numbers.
LEMMA MaxIs ==
  ASSUME NEW S \in SUBSET Int, NEW x \in S, \A y \in S : y <= x
  PROVE  Max(S) = x
  <1>1. \A y \in S : x >= y
    OBVIOUS
  <1>2. Max(S) \in S /\ \A y \in S : Max(S) >= y
    BY <1>1 DEF Max
  <1>3. Max(S) \in Int /\ x \in Int /\ x >= Max(S) /\ Max(S) >= x
    BY <1>1, <1>2
  <1> QED
    BY <1>3

\* A bijection maps a part of its domain to a part of the same size.
LEMMA PartSize ==
  ASSUME NEW R, NEW T, NEW f \in Bijection(R, T), IsFiniteSet(R),
         NEW P \in SUBSET R, NEW Q \in SUBSET T, \A j \in R : j \in P <=> f[j] \in Q
  PROVE  IsFiniteSet(Q) /\ Cardinality(P) = Cardinality(Q)
  <1> DEFINE g == [j \in P |-> f[j]]
  <1>1. /\ f \in [R -> T] /\ \A i, j \in R : f[i] = f[j] => i = j
        /\ \A b \in T : \E j \in R : f[j] = b
    BY DEF Bijection, Injection, Surjection, IsInjective
  <1>2. g \in [P -> Q]
    BY <1>1
  <1>3. g \in Bijection(P, Q)
    <2>1. \A i, j \in P : g[i] = g[j] => i = j
      BY <1>1
    <2>2. \A b \in Q : \E j \in P : g[j] = b
      BY <1>1
    <2> HIDE DEF g
    <2> QED
      BY <1>2, <2>1, <2>2 DEF Bijection, Injection, Surjection, IsInjective
  <1>4. IsFiniteSet(P)
    BY FS_Subset
  <1> QED
    BY <1>3, <1>4, FS_Bijection DEF ExistsBijection

\* The lines J are those that the agents of S wrote of m.
WroteBy(f, J, m, S) ==
    /\ \A j \in J : f[j] \in S /\ log[j].time = Seconds(recvAt[m][f[j]])
    /\ \A a \in S : \E j \in J : f[j] = a

\* What the latest of the lines that agents of S wrote says of durations
IsLongest(t, m, S) ==
    /\ t - Seconds(sentAt[m]) = Longest(m, S)
    /\ \A a \in S : Duration(m, a) <= t - Seconds(sentAt[m])

LEMMA LongestIs ==
  ASSUME LogTypeOK, NEW m \in Msgs, NEW S \in SUBSET Agents, NEW J, NEW f, NEW t \in Nat,
         WroteBy(f, J, m, S), S # {}, Latest(t, log, J)
  PROVE  IsLongest(t, m, S)
  <1> DEFINE D == {Duration(m, a) : a \in S}
  <1>1. /\ Seconds(sentAt[m]) \in Nat /\ \A a \in S : Seconds(recvAt[m][a]) \in Nat
    <2>1. sentAt[m] \in Nat /\ \A a \in Agents : recvAt[m][a] \in Nat
      BY DEF LogTypeOK
    <2> QED
      BY <2>1, SecondsType
  <1>2. D \in SUBSET Int
    BY <1>1 DEF Duration
  <1>3. J # {}
    BY DEF WroteBy
  <1>4. PICK i \in J : log[i].time = t
    BY <1>3 DEF Latest
  <1>5. t - Seconds(sentAt[m]) \in D
    BY <1>4 DEF Duration, WroteBy
  <1>6. ASSUME NEW a \in S
        PROVE  Duration(m, a) <= t - Seconds(sentAt[m])
    <2>1. PICK j \in J : f[j] = a
      BY DEF WroteBy
    <2>2. Seconds(recvAt[m][a]) <= t
      BY <2>1 DEF Latest, WroteBy
    <2> QED
      BY <1>1, <2>2 DEF Duration
  <1>7. \A y \in D : y <= t - Seconds(sentAt[m])
    BY <1>6
  <1> HIDE DEF D
  <1>8. Max(D) = t - Seconds(sentAt[m])
    BY <1>2, <1>5, <1>7, MaxIs
  <1> QED
    BY <1>6, <1>8 DEF D, Longest, IsLongest

Done == IInv /\ LineInv /\ CountInv /\ phase = "done"

\* The statistics of a message are those of the agents that logged it.
LEMMA AtEnd ==
  ASSUME Done, NEW m \in DOMAIN result
  PROVE  LET A == Receivers(m, Agents)
             V == Receivers(m, Validators)
             r == result[m]
         IN  /\ m \in Msgs /\ r \in Statistics /\ r.sent = Seconds(sentAt[m])
             /\ r.nodes = Cardinality(A) /\ r.validators = Cardinality(V)
             /\ A # {} => r.last - r.sent = Longest(m, A)
             /\ V # {} => r.lastValidator - r.sent = Longest(m, V)
             /\ \A a \in V : Duration(m, a) <= r.lastValidator - r.sent
             /\ V = {} => r.lastValidator = 0
             /\ \A d \in durations : r.within[d] = Cardinality({a \in V : Duration(m, a) <= d})
             /\ r.sum = SumFunctionOnSet(Durations(m), A)
             /\ r.sumValidators = SumFunctionOnSet(Durations(m), V)
  <1> DEFINE A == Receivers(m, Agents)
             V == Receivers(m, Validators)
             r == result[m]
             R == ReceivedIn(log, Len(log), m)
             L == ValidatedIn(log, Len(log), m)
             F == Times(log, r.sent)
             G == Durations(m)
  <1>1. /\ m \in Msgs /\ r.sent = Seconds(sentAt[m]) /\ Counted(r, log, Len(log), m)
        /\ log \in Seq(Lines) /\ Len(log) \in Nat /\ LogTypeOK
    <2>1. pos = Len(log) /\ m \in Msgs /\ r.sent = Seconds(sentAt[m]) /\ Counted(r, log, pos, m)
      BY DEF Done, CountInv
    <2>2. LogTypeOK
      BY DEF Done, IInv, LogInv
    <2>3. log \in Seq(Lines) /\ Len(log) \in Nat
      BY <2>2 DEF LogTypeOK
    <2> QED
      BY <2>1, <2>2, <2>3
  <1>2. PICK f \in Bijection(R, A) : Wrote(f, m)
    BY <1>1 DEF Done, LineInv, ReceivedLines
  <1>3. /\ f \in [R -> A] /\ \A b \in A : \E j \in R : f[j] = b
    BY <1>2 DEF Bijection, Injection, Surjection
  <1>4. \A j \in R : log[j] = ReceivedLine(m, f[j])
    BY <1>2 DEF Wrote
  <1>5. \A j \in R : /\ log[j].time = Seconds(recvAt[m][f[j]])
                     /\ log[j].isValidator <=> f[j] \in Validators
    <2>1. \A a : /\ ReceivedLine(m, a).time = Seconds(recvAt[m][a])
                 /\ ReceivedLine(m, a).isValidator <=> a \in Validators
      BY DEF ReceivedLine
    <2> QED
      BY <1>4, <2>1
  <1>6. V \subseteq A /\ A \subseteq Agents /\ \A a \in A : a \in V <=> a \in Validators
    BY LogAssumption DEF Receivers
  <1>7. L \subseteq R /\ \A j \in R : j \in L <=> f[j] \in V
    BY <1>3, <1>5, <1>6 DEF ValidatedIn
  <1>8. IsFiniteSet(R)
    BY <1>1, ReceivedNext
  <1>9. /\ r \in Statistics /\ r.nodes = Cardinality(R) /\ r.validators = Cardinality(L)
        /\ Latest(r.last, log, R) /\ Latest(r.lastValidator, log, L)
        /\ \A d \in durations : r.within[d] = Cardinality({j \in L : log[j].time - r.sent <= d})
        /\ r.sum = SumFunctionOnSet(F, R) /\ r.sumValidators = SumFunctionOnSet(F, L)
    BY <1>1 DEF Counted
  <1>10. r.last \in Nat /\ r.lastValidator \in Nat
    BY <1>9 DEF Statistics
  <1>17. /\ \A j \in R : F[j] \in Int /\ F[j] = G[f[j]]
         /\ \A a \in A : G[a] \in Int
         /\ R \subseteq DOMAIN F /\ A \subseteq DOMAIN G
    <2>1. R \subseteq 1..Len(log) /\ DOMAIN F = 1..Len(log) /\ DOMAIN G = Agents
      BY DEF ReceivedIn, Times, Durations
    <2>2. \A j \in R : F[j] = log[j].time - r.sent
      BY <2>1 DEF Times
    <2>3. \A a \in A : G[a] = Seconds(recvAt[m][a]) - Seconds(sentAt[m])
      BY <1>6 DEF Durations, Duration
    <2>4. Seconds(sentAt[m]) \in Nat /\ \A a \in A : Seconds(recvAt[m][a]) \in Nat
      <3>1. sentAt[m] \in Nat /\ \A a \in Agents : recvAt[m][a] \in Nat
        BY <1>1 DEF LogTypeOK
      <3> QED
        BY <1>6, <3>1, SecondsType
    <2> HIDE DEF A, V, r, R, L, F, G
    <2>5. \A j \in R : F[j] = G[f[j]] /\ f[j] \in A
      BY <1>1, <1>3, <1>5, <2>2, <2>3
    <2>6. \A a \in A : G[a] \in Int
      BY <2>3, <2>4
    <2> QED
      BY <1>6, <2>1, <2>5, <2>6
  <1> HIDE DEF A, V, r, R, L, F, G
  <1>18. IsFiniteSet(L) /\ IsFiniteSet(A) /\ IsFiniteSet(V)
    <2>1. IsFiniteSet(L)
      BY <1>7, <1>8, FS_Subset
    <2>2. IsFiniteSet(A) /\ IsFiniteSet(V)
      BY <1>2, <1>3, <1>6, <1>8, FS_Subset, FS_Bijection DEF ExistsBijection
    <2> QED
      BY <2>1, <2>2
  <1>19. OnInts(F, R) /\ OnInts(F, L) /\ OnInts(G, A) /\ OnInts(G, V)
    BY <1>6, <1>7, <1>8, <1>17, <1>18 DEF OnInts
  <1>20. SumFunctionOnSet(F, R) = SumFunctionOnSet(G, A)
    BY <1>2, <1>3, <1>17, <1>19, SumMoved
  <1>21. SumFunctionOnSet(F, L) = SumFunctionOnSet(G, V)
    BY <1>2, <1>6, <1>7, <1>17, <1>19, SumMoved
  <1>11. r.nodes = Cardinality(A)
    BY <1>2, <1>3, <1>8, <1>9, PartSize
  <1>12. r.validators = Cardinality(V)
    BY <1>2, <1>6, <1>7, <1>8, <1>9, PartSize
  <1>13. A # {} => r.last - r.sent = Longest(m, A)
    <2>1. \A j \in R : f[j] \in A /\ log[j].time = Seconds(recvAt[m][f[j]])
      BY <1>3, <1>5
    <2>2. WroteBy(f, R, m, A)
      BY <1>3, <2>1 DEF WroteBy
    <2>3. A # {} => IsLongest(r.last, m, A)
      <3>1. LogTypeOK /\ m \in Msgs /\ A \in SUBSET Agents
        BY <1>1, <1>6
      <3>2. r.last \in Nat /\ Latest(r.last, log, R)
        BY <1>9, <1>10
      <3> QED
        BY <2>2, <3>1, <3>2, LongestIs
    <2> QED
      BY <1>1, <2>3 DEF IsLongest
  <1>14. /\ V # {} => r.lastValidator - r.sent = Longest(m, V)
         /\ \A a \in V : Duration(m, a) <= r.lastValidator - r.sent
    <2>1. \A j \in L : f[j] \in V /\ log[j].time = Seconds(recvAt[m][f[j]])
      BY <1>5, <1>7
    <2>2. \A a \in V : \E j \in L : f[j] = a
      BY <1>3, <1>6, <1>7
    <2>3. WroteBy(f, L, m, V)
      BY <2>1, <2>2 DEF WroteBy
    <2>4. V # {} => IsLongest(r.lastValidator, m, V)
      <3>1. LogTypeOK /\ m \in Msgs /\ V \in SUBSET Agents
        BY <1>1, <1>6
      <3>2. r.lastValidator \in Nat /\ Latest(r.lastValidator, log, L)
        BY <1>9, <1>10
      <3> QED
        BY <2>3, <3>1, <3>2, LongestIs
    <2> QED
      BY <1>1, <2>4 DEF IsLongest
  <1>15. V = {} => r.lastValidator = 0
    BY <1>7, <1>9 DEF Latest
  <1>16. ASSUME NEW d \in durations
         PROVE  r.within[d] = Cardinality({a \in V : Duration(m, a) <= d})
    <2> DEFINE P == {j \in L : log[j].time - r.sent <= d}
               Q == {a \in V : Duration(m, a) <= d}
    <2>1. \A j \in R : j \in P <=> f[j] \in Q
      BY <1>1, <1>5, <1>7 DEF Duration
    <2>2. P \in SUBSET R /\ Q \in SUBSET A
      BY <1>6, <1>7
    <2> HIDE DEF P, Q
    <2>3. Cardinality(P) = Cardinality(Q)
      BY <1>2, <1>8, <2>1, <2>2, PartSize
    <2> QED
      BY <1>9, <2>3 DEF P, Q
  <1> QED
    BY <1>1, <1>9, <1>11, <1>12, <1>13, <1>14, <1>15, <1>16, <1>20, <1>21 DEF A, V, r, G

LEMMA CountsAtEnd == IInv /\ LineInv /\ CountInv => CountsExact
  <1> SUFFICES ASSUME IInv, LineInv, CountInv, phase = "done" PROVE CountsExact
    BY DEF CountsExact
  <1>1. Done
    BY DEF Done
  <1>2. pos = Len(log) /\ size \in Int
    BY LogAssumption DEF CountInv, LineInv, SentLines
  <1>3. ASSUME NEW m \in Msgs
        PROVE  (\E j \in 1..Len(log) : OfSending(log[j], m)) <=>
               (msg[m] \in {"logged", "published", "failed"} /\ size >= packetSize)
    <2>1. msg[m] \in {"new", "stamped", "logged", "published", "failed"}
      BY DEF IInv, LogInv, LogTypeOK
    <2>2. CASE msg[m] \in {"new", "stamped"}
      BY <2>2 DEF IInv, LogInv, Sent
    <2>3. CASE msg[m] \in {"logged", "published"}
      BY <2>3 DEF IInv, LogInv, Sent, LineInv, SentLines
    <2>4. CASE msg[m] = "failed"
      BY <2>4 DEF LineInv, SentLines
    <2> QED
      BY <2>1, <2>2, <2>3, <2>4
  <1>4. DOMAIN result = {m \in Msgs : useful[m] /\ msg[m] \in {"logged", "published", "failed"}
                                               /\ size >= packetSize}
    BY <1>2, <1>3 DEF CountInv
  <1>5. msgNumber = Cardinality(DOMAIN result)
    BY DEF CountInv
  <1> QED
    BY <1>1, <1>4, <1>5, AtEnd DEF CountsExact

\* Whole seconds of the clock against the time between two readings of it.
LEMMA ClockSeconds ==
  ASSUME NEW s \in Nat, NEW t \in Nat, NEW d \in Int
  PROVE  /\ t - s <= d * Unit => Seconds(t) - Seconds(s) <= d
         /\ Seconds(t) - Seconds(s) <= d => t - s <= (d + 1) * Unit - 1
  <1> DEFINE p == Seconds(s)
             q == Seconds(t)
  <1>1. Unit \in Int /\ Unit > 0
    BY LogAssumption
  <1>2. p \in Int /\ p * Unit <= s /\ s < p * Unit + Unit
    BY <1>1 DEF Seconds
  <1>3. q \in Int /\ q * Unit <= t /\ t < q * Unit + Unit
    BY <1>1 DEF Seconds
  <1> HIDE DEF p, q
  <1>4. ASSUME NEW x \in Int, NEW y \in Int, x <= y
        PROVE  x * Unit <= y * Unit
    BY <1>1, <1>4
  <1>5. /\ (p + d + 1) * Unit = p * Unit + d * Unit + Unit
        /\ (p + d) * Unit = p * Unit + d * Unit
        /\ (d + 1) * Unit = d * Unit + Unit
    BY <1>1, <1>2
  <1>6. p * Unit \in Int /\ q * Unit \in Int /\ d * Unit \in Int
        /\ (p + d + 1) * Unit \in Int /\ (p + d) * Unit \in Int /\ (d + 1) * Unit \in Int
    BY <1>1, <1>2, <1>3
  <1> DEFINE pu == p * Unit
             qu == q * Unit
             du == d * Unit
             pdu == (p + d) * Unit
             pd1 == (p + d + 1) * Unit
             d1 == (d + 1) * Unit
  <1>7. q >= p + d + 1 => qu >= pd1
    BY <1>2, <1>3, <1>4
  <1>8. q <= p + d => qu <= pdu
    BY <1>2, <1>3, <1>4
  <1>9. /\ pu \in Int /\ qu \in Int /\ du \in Int /\ pdu \in Int /\ pd1 \in Int /\ d1 \in Int
        /\ pd1 = pu + du + Unit /\ pdu = pu + du /\ d1 = du + Unit
        /\ pu <= s /\ s < pu + Unit /\ qu <= t /\ t < qu + Unit
    BY <1>2, <1>3, <1>5, <1>6
  <1> HIDE DEF pu, qu, du, pdu, pd1, d1
  <1>10. t - s <= du => q - p <= d
    BY <1>1, <1>2, <1>3, <1>7, <1>9
  <1>11. q - p <= d => t - s <= d1 - 1
    BY <1>1, <1>2, <1>3, <1>8, <1>9
  <1> QED
    BY <1>10, <1>11 DEF p, q, du, d1

LEMMA ThresholdsAtEnd == IInv /\ LineInv /\ CountInv => Thresholds
  <1> SUFFICES ASSUME IInv, LineInv, CountInv, phase = "done",
                      NEW m \in DOMAIN result, NEW d \in durations
               PROVE  LET Took(t) == {a \in Receivers(m, Validators) : recvAt[m][a] - sentAt[m] <= t}
                      IN  /\ result[m].within[d] >= Cardinality(Took(d * Unit))
                          /\ result[m].within[d] <= Cardinality(Took((d + 1) * Unit - 1))
    BY DEF Thresholds
  <1> DEFINE V == Receivers(m, Validators)
             W == {a \in V : Duration(m, a) <= d}
             Took(t) == {a \in V : recvAt[m][a] - sentAt[m] <= t}
             low == d * Unit
             high == (d + 1) * Unit - 1
  <1>1. Done /\ m \in Msgs
    BY AtEnd DEF Done
  <1>2. result[m].within[d] = Cardinality(W)
    BY <1>1, AtEnd
  <1>3. sentAt[m] \in Nat /\ \A a \in V : recvAt[m][a] \in Nat
    BY <1>1, LogAssumption DEF IInv, LogInv, LogTypeOK, Receivers
  <1>4. d \in Int
    BY DEF durations
  <1>5. ASSUME NEW a \in V
        PROVE  /\ recvAt[m][a] - sentAt[m] <= low => Duration(m, a) <= d
               /\ Duration(m, a) <= d => recvAt[m][a] - sentAt[m] <= high
    BY <1>3, <1>4, ClockSeconds DEF Duration
  <1> HIDE DEF low, high
  <1>6. Took(low) \subseteq W /\ W \subseteq Took(high)
    BY <1>5
  <1>7. IsFiniteSet(V)
    BY LogAssumption, StatsAssumption, FS_Subset DEF Receivers
  <1>8. IsFiniteSet(W) /\ IsFiniteSet(Took(low)) /\ IsFiniteSet(Took(high))
    BY <1>7, FS_Subset
  <1> HIDE DEF W, Took, V
  <1>9. /\ Cardinality(Took(low)) <= Cardinality(W) /\ Cardinality(W) <= Cardinality(Took(high))
        /\ Cardinality(W) \in Nat /\ Cardinality(Took(low)) \in Nat /\ Cardinality(Took(high)) \in Nat
    BY <1>6, <1>8, FS_Subset, FS_CardinalityType
  <1>10. /\ result[m].within[d] >= Cardinality(Took(low))
         /\ result[m].within[d] <= Cardinality(Took(high))
    BY <1>2, <1>9
  <1> QED
    BY <1>10 DEF Took, V, low, high

-----------------------------------------------------------------------------
(***************************************************************************)
(* What is printed.                                                        *)
(***************************************************************************)
Reported == phase = "done" => report = printStats

LEMMA ReportedInductive == Spec => []Reported
  <1>1. Init => Reported
    BY DEF Init, Reported
  <1>2. Reported /\ [Next]_vars => Reported'
    <2> SUFFICES ASSUME Reported, [Next]_vars PROVE Reported'
      OBVIOUS
    <2>1. CASE Benchmark
      BY <2>1 DEF Benchmark, statVars, Reported
    <2>2. CASE EndOfBenchmark
      BY <2>2 DEF EndOfBenchmark, Reported
    <2>3. CASE Scan
      BY <2>3 DEF Scan, addStatistics, Reported
    <2>4. CASE PrintStats
      BY <2>4 DEF PrintStats, Reported, printStats, Missing, lastValidatorReceived
    <2>5. CASE UNCHANGED vars
      BY <2>5 DEF vars, statVars, Reported, printStats, Missing, lastValidatorReceived
    <2> QED
      BY <2>1, <2>2, <2>3, <2>4, <2>5 DEF Next
  <1> QED
    BY <1>1, <1>2, PTL DEF Spec

\* A bounded set of natural numbers has a largest element.
LEMMA MaxIn ==
  ASSUME NEW n \in Nat, NEW S \in SUBSET (0..n), S # {}
  PROVE  Max(S) \in S /\ \A y \in S : y <= Max(S)
  <1> DEFINE T == {k \in 0..n : n - k \in S}
  <1>1. PICK y \in S : TRUE
    OBVIOUS
  <1>2. n - y \in 0..n /\ n - (n - y) = y
    BY <1>1
  <1>3. T \in SUBSET Nat /\ n - y \in T
    BY <1>1, <1>2
  <1> HIDE DEF T
  <1>4. PICK k \in T : \A z \in T : ~(<<z, k>> \in OpToRel(<, Nat))
    BY <1>3, WFMin, NatLessThanWellFounded
  <1>5. \A z \in T : ~(z < k)
    BY <1>3, <1>4 DEF OpToRel
  <1>6. k \in 0..n /\ n - k \in S
    BY <1>4 DEF T
  <1>7. ASSUME NEW x \in S
        PROVE  x <= n - k
    <2>1. n - x \in 0..n /\ n - (n - x) = x
      OBVIOUS
    <2>2. n - x \in T
      BY <2>1 DEF T
    <2> QED
      BY <1>5, <1>6, <2>1, <2>2
  <1>8. S \in SUBSET Int
    OBVIOUS
  <1>9. Max(S) = n - k
    BY <1>6, <1>7, <1>8, MaxIs
  <1> QED
    BY <1>6, <1>7, <1>9

Lacking(m) == Validators \ Receivers(m, Validators)

\* The validators that printStats misses are those without a line.
LEMMA MissingIs ==
  ASSUME Done, NEW m \in DOMAIN result
  PROVE  /\ Missing(m) = Cardinality(Lacking(m)) /\ Missing(m) \in 0..ValidatorsCount
         /\ ValidatorsCount \in Nat /\ (Lacking(m) = {} <=> Missing(m) = 0)
  <1> DEFINE V == Receivers(m, Validators)
  <1>1. IsFiniteSet(Validators) /\ V \subseteq Validators
    BY LogAssumption, StatsAssumption, FS_Subset DEF Receivers
  <1>2. IsFiniteSet(V) /\ Validators \cap V = V
    BY <1>1, FS_Subset
  <1>3. result[m].validators = Cardinality(V)
    BY AtEnd
  <1>4. IsFiniteSet(Validators \ V) /\ Cardinality(Validators \ V) = Cardinality(Validators) - Cardinality(V)
    BY <1>1, <1>2, FS_Difference
  <1>5. /\ Cardinality(V) \in Nat /\ Cardinality(Validators) \in Nat /\ Cardinality(Validators \ V) \in Nat
        /\ Cardinality(V) <= Cardinality(Validators)
    BY <1>1, <1>2, <1>4, FS_CardinalityType, FS_Subset
  <1>6. Cardinality(Validators \ V) = 0 <=> Validators \ V = {}
    BY <1>4, FS_EmptySet
  <1>7. Lacking(m) = Validators \ V
    BY DEF Lacking
  <1> HIDE DEF V
  <1>8. Missing(m) = Cardinality(Validators) - Cardinality(V) /\ ValidatorsCount = Cardinality(Validators)
    BY <1>3 DEF Missing, ValidatorsCount, V
  <1> QED
    BY <1>4, <1>5, <1>6, <1>7, <1>8

\* The thresholds printed of a message, if there are any, go up to the last
\* one or to the time when all validators that got it had it.
LEMMA ShownIs ==
  ASSUME Done, NEW m \in DOMAIN result,
         NEW S, S = {d \in durations : d <= lastValidatorReceived(m)}, S # {}
  PROVE  \/ Max(S) = maxDuration
         \/ result[m].within[Max(S)] = Cardinality(Receivers(m, Validators))
  <1> DEFINE V == Receivers(m, Validators)
             x == lastValidatorReceived(m)
  <1>1. /\ m \in Msgs /\ result[m] \in Statistics /\ result[m].sent = Seconds(sentAt[m])
        /\ \A a \in V : Duration(m, a) <= x
        /\ V = {} => result[m].lastValidator = 0
        /\ \A d \in durations : result[m].within[d] = Cardinality({a \in V : Duration(m, a) <= d})
    BY AtEnd DEF lastValidatorReceived
  <1>2. x \in Int /\ (V = {} => x <= 0)
    BY <1>1 DEF Statistics, lastValidatorReceived
  <1>3. PICK e \in S : e \in durations /\ e <= x
    OBVIOUS
  <1>4. e \in Int /\ e >= 1 /\ e <= maxDuration /\ maxDuration \in Int /\ S \in SUBSET Int
    BY <1>3, StatsAssumption DEF durations
  <1>5. V # {} /\ x >= 1
    BY <1>2, <1>3, <1>4
  <1>6. CASE x >= maxDuration
    <2>1. maxDuration \in S /\ \A y \in S : y <= maxDuration
      BY <1>2, <1>4, <1>6 DEF durations
    <2> QED
      BY <1>4, <2>1, MaxIs
  <1>7. CASE x < maxDuration
    <2>1. x \in S /\ \A y \in S : y <= x
      BY <1>2, <1>4, <1>5, <1>7 DEF durations
    <2>2. Max(S) = x /\ x \in durations
      BY <1>4, <2>1, MaxIs
    <2>3. {a \in V : Duration(m, a) <= x} = V
      BY <1>1
    <2> QED
      BY <1>1, <2>2, <2>3
  <1> QED
    BY <1>2, <1>4, <1>6, <1>7

LEMMA SummaryAtEnd == IInv /\ LineInv /\ CountInv /\ Reported => Summary
  <1> SUFFICES ASSUME IInv, LineInv, CountInv, Reported, phase = "done" PROVE Summary
    BY DEF Summary
  <1> DEFINE full == {m \in DOMAIN result : Lacking(m) = {}}
             complete == {m \in DOMAIN result : Missing(m) = 0}
             missed == {Missing(m) : m \in DOMAIN result}
             S == {0} \cup missed
  <1>1. Done /\ report = printStats
    BY DEF Done, Reported
  <1>2. \A m \in DOMAIN result :
           /\ Missing(m) = Cardinality(Lacking(m)) /\ Missing(m) \in 0..ValidatorsCount
           /\ Lacking(m) = {} <=> Missing(m) = 0
    BY <1>1, MissingIs
  <1>3. ValidatorsCount \in Nat
    BY LogAssumption, StatsAssumption, FS_Subset, FS_CardinalityType DEF ValidatorsCount
  <1>4. /\ report.notAll = Cardinality({m \in DOMAIN result : Missing(m) > 0})
        /\ report.maxMissing = Max(S)
        /\ report.after = [t \in {lastValidatorReceived(m) : m \in complete} |->
                             Cardinality({m \in complete : lastValidatorReceived(m) = t})]
        /\ \A m \in DOMAIN result : report.shown[m] = {d \in durations : d <= lastValidatorReceived(m)}
    BY <1>1 DEF printStats
  <1>5. complete = full
    BY <1>2
  <1>6. {m \in DOMAIN result : Missing(m) > 0} = DOMAIN result \ full
    BY <1>2, <1>3
  <1>7. S \in SUBSET (0..ValidatorsCount) /\ S # {}
    BY <1>2, <1>3
  <1>8. Max(S) \in S /\ \A y \in S : y <= Max(S)
    <2> HIDE DEF S
    <2> QED
      BY <1>3, <1>7, MaxIn
  <1>9. report.notAll = Cardinality(DOMAIN result \ full)
    BY <1>4, <1>6
  <1>10. \A m \in DOMAIN result : Cardinality(Lacking(m)) <= report.maxMissing
    BY <1>2, <1>4, <1>8
  <1>11. report.notAll > 0 => \E m \in DOMAIN result : Cardinality(Lacking(m)) = report.maxMissing
    <2> SUFFICES ASSUME report.notAll > 0
                 PROVE  \E m \in DOMAIN result : Cardinality(Lacking(m)) = report.maxMissing
      OBVIOUS
    <2>1. {m \in DOMAIN result : Missing(m) > 0} # {}
      BY <1>4, FS_EmptySet
    <2>2. PICK n \in DOMAIN result : Missing(n) > 0
      BY <2>1
    <2>3. Max(S) >= Missing(n) /\ Max(S) \in 0..ValidatorsCount
      BY <1>2, <1>3, <1>7, <1>8, <2>2
    <2>4. Missing(n) \in Nat /\ Max(S) # 0
      BY <1>2, <1>3, <2>2, <2>3
    <2>5. Max(S) \in missed
      BY <1>8, <2>4
    <2> QED
      BY <1>2, <1>4, <2>5
  <1>12. Validators # {} => report.after = [t \in {Longest(m, Validators) : m \in full} |->
                                              Cardinality({m \in full : Longest(m, Validators) = t})]
    <2> SUFFICES ASSUME Validators # {}
                 PROVE  report.after = [t \in {Longest(m, Validators) : m \in full} |->
                                          Cardinality({m \in full : Longest(m, Validators) = t})]
      OBVIOUS
    <2>1. ASSUME NEW m \in full
          PROVE  lastValidatorReceived(m) = Longest(m, Validators)
      <3>1. m \in DOMAIN result /\ Receivers(m, Validators) = Validators
        BY DEF Lacking, Receivers
      <3> QED
        BY <1>1, <3>1, AtEnd DEF lastValidatorReceived
    <2> HIDE DEF full, complete
    <2>2. {lastValidatorReceived(m) : m \in full} = {Longest(m, Validators) : m \in full}
      BY <2>1
    <2>3. \A t : {m \in full : lastValidatorReceived(m) = t} = {m \in full : Longest(m, Validators) = t}
      BY <2>1
    <2> QED
      BY <1>4, <1>5, <2>2, <2>3
  <1>13. \A m \in DOMAIN result : report.shown[m] # {} =>
            \/ Max(report.shown[m]) = maxDuration
            \/ result[m].within[Max(report.shown[m])] = Cardinality(Receivers(m, Validators))
    BY <1>1, <1>4, ShownIs
  <1> QED
    BY <1>9, <1>10, <1>11, <1>12, <1>13 DEF Summary, Lacking

LEMMA ReportAtEnd == IInv /\ LineInv /\ CountInv /\ Reported => ReportExact
  <1> SUFFICES ASSUME IInv, LineInv, CountInv, Reported PROVE ReportExact
    OBVIOUS
  <1>1. Summary
    BY SummaryAtEnd
  <1>2. ASSUME phase = "done", NEW m \in DOMAIN result
        PROVE  /\ result[m].sum = SumFunctionOnSet(Durations(m), Receivers(m, Agents))
               /\ result[m].sumValidators = SumFunctionOnSet(Durations(m), Receivers(m, Validators))
    BY <1>2, AtEnd DEF Done
  <1> QED
    BY <1>1, <1>2 DEF ReportExact

-----------------------------------------------------------------------------
(***************************************************************************)
(* The variables of the agents' goroutines, of the log and of its          *)
(* evaluation keep their types (agent.go:206-245, stats_cmd.go:78-169).    *)
(***************************************************************************)
THEOREM TypeCorrect == Spec => []TypeOK
  BY Inductive, PTL DEF IInv, StatInv

(***************************************************************************)
(* Whatever the order in which goroutines write, the line of a message's   *)
(* sending precedes those of its receptions, and the lines of the agents'  *)
(* subscriptions precede them all (agent.go:227, 137, 153).                *)
(***************************************************************************)
THEOREM LogOrdered == Spec => []LinesInOrder
  BY Inductive, PTL DEF IInv, LogInv

(***************************************************************************)
(* addStatistics never panics on the log of a benchmark, although it reads *)
(* lines into a variable that keeps old fields (stats_cmd.go:106, 122).    *)
(***************************************************************************)
THEOREM NeverPanics == Spec => []NoPanic
  BY Inductive, PTL DEF IInv, StatInv

(***************************************************************************)
(* However the goroutines that wrote the log interleaved, and whenever the *)
(* benchmark ended, the evaluation counts exactly the useful messages with *)
(* a line of their sending, and of each the receptions that were logged    *)
(* and the last of them (stats_cmd.go:119-169).                            *)
(***************************************************************************)
THEOREM CountsRight == Spec => []CountsExact
  BY Inductive, CountInductive, CountsAtEnd, PTL

(***************************************************************************)
(* The thresholds, which subtract times cut to whole seconds, are off by   *)
(* less than a second, whatever the resolution of the clock                *)
(* (stats_cmd.go:161-165).                                                 *)
(***************************************************************************)
THEOREM ThresholdsRight == Spec => []Thresholds
  BY Inductive, CountInductive, ThresholdsAtEnd, PTL

(***************************************************************************)
(* What printStats prints is right: the summary of all messages is that of *)
(* the validators that logged them, and the sums behind the averages of    *)
(* each message are those of the durations of its receptions, by any       *)
(* number of agents and in whatever order their lines were written         *)
(* (stats_cmd.go:144-157, 205-305).                                        *)
(***************************************************************************)
THEOREM ReportRight == Spec => []ReportExact
  BY ReportAtEnd, Inductive, CountInductive, ReportedInductive, PTL
=============================================================================
