---------------------------- MODULE MessageLog ----------------------------
(***************************************************************************)
(* What the agents write into the log of a benchmark (src/agent/agent.go): *)
(* Listen says that it subscribed, SendMessage that it is about to publish *)
(* a message, the receiving goroutine that a message came.  Goroutines log *)
(* concurrently: zap takes the time of a line before it gets to write it,  *)
(* so lines need not be in the order of their times.  Gossipsub is         *)
(* external: a published message reaches an agent once, later, or never.   *)
(*                                                                         *)
(* A line has the fields its call of Logger.Info gives it; a time in the   *)
(* log is in whole seconds (SyslogTimeEncoder).                            *)
(***************************************************************************)
EXTENDS Integers, Sequences, FiniteSets

CONSTANTS Agents, Validators,
          Msgs,         \* the IDs that uuid.New returns
          Sizes,        \* values of the option -size to look at
          Unit,         \* units of time in a second
          LogEnd,       \* when LogDuration has passed since the start
          MaxTime       \* bound: the run ends by then

ASSUME LogAssumption ==
    /\ Validators \subseteq Agents
    /\ Sizes \subseteq Int
    /\ Unit \in Nat \ {0} /\ LogEnd \in Nat /\ MaxTime \in Nat

VARIABLES size, now, log,
          listening,      \* agents that subscribed
          msg,            \* per message: how far SendMessage is
          useful,         \* per message: IsUseful of its packet
          got,            \* per message and agent: how far the receiver is
          sentAt, recvAt  \* history: the exact times of the lines

logVars == <<size, now, log, listening, msg, useful, got, sentAt, recvAt>>

LogInit ==
    /\ size \in Sizes
    /\ now = Unit /\ log = <<>> /\ listening = {}
    /\ msg = [m \in Msgs |-> "new"]
    /\ useful = [m \in Msgs |-> FALSE]
    /\ got = [m \in Msgs |-> [a \in Agents |-> "no"]]
    /\ sentAt = [m \in Msgs |-> 0]
    /\ recvAt = [m \in Msgs |-> [a \in Agents |-> 0]]

Seconds(t) == t \div Unit

\* The lines; a struct field without a key in the line is missing here
SubscribedLine(t) == [time |-> Seconds(t)]
SentLine(m) ==
    [time |-> Seconds(sentAt[m]), direction |-> "sent", msgID |-> m, aggregateStats |-> useful[m]]

ReceivedLine(m, a) ==
    [time |-> Seconds(recvAt[m][a]), direction |-> "received", msgID |-> m,
     aggregateStats |-> useful[m], isValidator |-> a \in Validators]

-----------------------------------------------------------------------------
\* Listen, at its end
Subscribe(a) ==
    /\ a \notin listening
    /\ listening' = listening \cup {a}
    /\ log' = Append(log, SubscribedLine(now))
    /\ UNCHANGED <<size, now, msg, useful, got, sentAt, recvAt>>

\* Mutant: messaging begins as soon as somebody listens.
MessagingOn1 == listening # {}

\* StartMessaging comes after StartAgents.
MessagingOn == listening = Agents

\* A packet is an ID of 16 bytes and a flag; createMessage refuses less
packetSize == 17
createMessage == IF size < packetSize THEN "failed" ELSE "stamped"

\* What the loop passes for isUseful
shouldAggregate == now < LogEnd

\* SendMessage, up to the time of its line
SendMessage(m) ==
    /\ MessagingOn /\ msg[m] = "new"
    /\ msg' = [msg EXCEPT ![m] = createMessage]
    /\ useful' = [useful EXCEPT ![m] = shouldAggregate]
    /\ sentAt' = [sentAt EXCEPT ![m] = now]
    /\ UNCHANGED <<size, now, log, listening, got, recvAt>>

\* Logger.Info of SendMessage writes its line
LogSent(m) ==
    /\ msg[m] = "stamped"
    /\ msg' = [msg EXCEPT ![m] = "logged"]
    /\ log' = Append(log, SentLine(m))
    /\ UNCHANGED <<size, now, listening, useful, got, sentAt, recvAt>>

\* Mutant: Publish comes before the line is written.
PublishesEarly(m) == msg[m] \in {"stamped", "logged"}

Publishes(m) == msg[m] = "logged"

\* Topic.Publish, which may fail: then the line is there and nothing else
Publish(m) ==
    /\ Publishes(m)
    /\ \E r \in {"published", "failed"} : msg' = [msg EXCEPT ![m] = r]
    /\ UNCHANGED <<size, now, log, listening, useful, got, sentAt, recvAt>>

\* sub.Next and readMessage of an agent's goroutine, up to the time of its line
Receive(m, a) ==
    /\ msg[m] = "published" /\ got[m][a] = "no"
    /\ got' = [got EXCEPT ![m][a] = "stamped"]
    /\ recvAt' = [recvAt EXCEPT ![m][a] = now]
    /\ UNCHANGED <<size, now, log, listening, msg, useful, sentAt>>

\* Its Logger.Info writes the line
LogReceived(m, a) ==
    /\ got[m][a] = "stamped"
    /\ got' = [got EXCEPT ![m][a] = "logged"]
    /\ log' = Append(log, ReceivedLine(m, a))
    /\ UNCHANGED <<size, now, listening, msg, useful, sentAt, recvAt>>

Tick ==
    /\ now < MaxTime
    /\ now' = now + 1
    /\ UNCHANGED <<size, log, listening, msg, useful, got, sentAt, recvAt>>

LogNext ==
    \/ Tick
    \/ \E a \in Agents : Subscribe(a)
    \/ \E m \in Msgs : SendMessage(m) \/ LogSent(m) \/ Publish(m)
    \/ \E m \in Msgs, a \in Agents : Receive(m, a) \/ LogReceived(m, a)

LogSpec == LogInit /\ [][LogNext]_logVars

-----------------------------------------------------------------------------
\* Types of the log and of the goroutines that write it.
Lines ==
    [time : Nat] \cup
    [time : Nat, direction : {"sent"}, msgID : Msgs, aggregateStats : BOOLEAN] \cup
    [time : Nat, direction : {"received"}, msgID : Msgs, aggregateStats : BOOLEAN, isValidator : BOOLEAN]

LogTypeOK ==
    /\ now \in Nat /\ log \in Seq(Lines) /\ listening \subseteq Agents
    /\ msg \in [Msgs -> {"new", "stamped", "logged", "published", "failed"}]
    /\ useful \in [Msgs -> BOOLEAN]
    /\ got \in [Msgs -> [Agents -> {"no", "stamped", "logged"}]]
    /\ sentAt \in [Msgs -> Nat] /\ recvAt \in [Msgs -> [Agents -> Nat]]

OfMessage(l) == "direction" \in DOMAIN l
OfSending(l, m) == OfMessage(l) /\ l.direction = "sent" /\ l.msgID = m

\* "log that message was sent so we can aggregate stats later" (agent.go:226):
\* no line of a received message comes before the line of its sending, and
\* after the first line of a message there is none without a direction.
LinesInOrder ==
    \A i \in 1..Len(log) : OfMessage(log[i]) =>
        /\ \A j \in i..Len(log) : OfMessage(log[j])
        /\ log[i].direction = "received" => \E j \in 1..(i - 1) : OfSending(log[j], log[i].msgID)
=============================================================================
