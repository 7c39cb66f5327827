------------------------- MODULE LatencyConnProofs -------------------------
(***************************************************************************)
(* Safety of the latency connection for any network, sizes of writes and   *)
(* reads, and failures; and that it implements DelayedStream.  The bytes   *)
(* that were delivered, read, buffered, cut into a packet and not yet cut  *)
(* are consecutive runs of the stream; the clock of a Write and the end of *)
(* the last transmission bound the times of the bytes.                     *)
(***************************************************************************)
EXTENDS LatencyConn, SequenceTheorems, TLAPS

\* n bytes of the stream after the first lo
Run(lo, n) == [i \in 1..n |-> lo + i]

\* Where the bytes that are returned next, buffered, and of the packet end
OutEnd == Len(delivered) + Len(out)
BufEnd == OutEnd + Len(readBuf)
PktEnd == BufEnd + Len(pkt)

Chain ==
    /\ delivered = Run(0, Len(delivered)) /\ out = Run(Len(delivered), Len(out))
    /\ readBuf = Run(OutEnd, Len(readBuf)) /\ pkt = Run(BufEnd, Len(pkt))
    /\ p = Run(PktEnd, Len(p)) /\ PktEnd + Len(p) = Len(offered)

\* Both ends agree where they are in a packet, and on its length.
Agree ==
    /\ wpc \in {"idle", "loop"} => pkt = <<>>
    /\ wpc = "idle" => p = <<>>
    /\ wpc = "sleep" /\ network.MTU > 0 => Len(pkt) <= network.MTU
    /\ wpc = "header" => header.Sz = Len(pkt)
    /\ wpc \in {"sleep", "header", "body"} => pkt # <<>>
    /\ wpc = "body" => rpc \in {"body", "sleep", "idle"} /\ need = Len(pkt)
    /\ rpc = "body" => wpc \in {"body", "failed"}
    /\ rpc = "header" => readBuf = <<>>
    /\ rpc # "sleep" => out = <<>>

\* Write's own clock is not ahead of the time, and the wire not too far.
Clock ==
    /\ wpc # "sleep" => tNow <= now
    /\ wpc = "sleep" => /\ tNow <= wake
                        /\ network.Kbps > 0 => lastSendEnd <= wake + network.Latency
    /\ network.Kbps = 0 => lastSendEnd <= now
    /\ header.ReadTime <= lastSendEnd + network.Latency

\* No byte may be read before its latency has passed.
Late ==
    /\ \A i \in 1..Len(offered) : offered[i] <= lastSendEnd
    /\ wpc = "header" => \A i \in 1..Len(offered) : offered[i] + network.Latency <= header.ReadTime
    /\ wpc = "body" => \A i \in 1..Len(offered) : offered[i] + network.Latency <= readTime
    /\ rpc \in {"body", "sleep"} =>
          \A i \in (Len(delivered) + 1)..BufEnd : offered[i] + network.Latency <= readTime
    /\ rpc = "idle" =>
          \A i \in (Len(delivered) + 1)..BufEnd : offered[i] + network.Latency <= now

IInv == TypeOK /\ Chain /\ Agree /\ Clock /\ Late /\ WireBounded

-----------------------------------------------------------------------------
LEMMA RunFacts ==
  ASSUME NEW lo \in Nat, NEW n \in Nat
  PROVE  /\ Run(lo, n) \in Seq(Nat) /\ Len(Run(lo, n)) = n
         /\ \A i \in 1..n : Run(lo, n)[i] = lo + i
  BY DEF Run

LEMMA RunEmpty == \A lo : Run(lo, 0) = <<>>
  BY DEF Run

LEMMA RunFirst ==
  ASSUME NEW lo \in Nat, NEW k \in Nat, NEW n \in 0..k
  PROVE  First(Run(lo, k), n) = Run(lo, n)
  BY RunFacts DEF First, Run

LEMMA RunRest ==
  ASSUME NEW lo \in Nat, NEW k \in Nat, NEW n \in 0..k
  PROVE  Rest(Run(lo, k), n) = Run(lo + n, k - n)
  BY RunFacts DEF Rest, Run

LEMMA RunJoin ==
  ASSUME NEW lo \in Nat, NEW a \in Nat, NEW b \in Nat
  PROVE  Run(lo, a) \o Run(lo + a, b) = Run(lo, a + b)
  BY RunFacts DEF Run

\* A transmission time is a number, and 0 without a limit.
LEMMA Quotient == \A x \in Nat, y \in Nat \ {0} : x \div y \in Nat
  OBVIOUS

LEMMA PktTimeFacts ==
  ASSUME network \in Networks, NEW b \in Nat
  PROVE  pktTime(b) \in Nat /\ (network.Kbps = 0 => pktTime(b) = 0)
  <1>1. network.Kbps \in Nat /\ Second \in Nat
    BY LatencyAssumption
  <1>2. b * Second \in Nat /\ network.Kbps * 128 \in Nat
    BY <1>1
  <1>3. network.Kbps > 0 => network.Kbps * 128 # 0
    BY <1>1
  <1> QED
    BY <1>1, <1>2, <1>3, Quotient DEF pktTime

LEMMA NetworkFacts ==
  ASSUME network \in Networks
  PROVE  network.Kbps \in Nat /\ network.Latency \in Nat /\ network.MTU \in Nat
  BY LatencyAssumption

\* The conjuncts of TypeOK one by one.
Types ==
    /\ now \in Nat /\ tNow \in Nat /\ lastSendEnd \in Nat /\ wake \in Nat /\ want \in Nat
    /\ readTime \in Nat /\ need \in Nat /\ header.ReadTime \in Nat /\ header.Sz \in Nat
    /\ p \in Seq(Nat) /\ pkt \in Seq(Nat) /\ readBuf \in Seq(Nat) /\ out \in Seq(Nat)
    /\ offered \in Seq(Nat) /\ delivered \in Seq(Nat)
    /\ Len(p) \in Nat /\ Len(pkt) \in Nat /\ Len(readBuf) \in Nat /\ Len(out) \in Nat
    /\ Len(offered) \in Nat /\ Len(delivered) \in Nat
    /\ network.Kbps \in Nat /\ network.Latency \in Nat /\ network.MTU \in Nat

LEMMA TypeFacts == TypeOK => Types
  <1> SUFFICES ASSUME TypeOK PROVE Types
    OBVIOUS
  <1>1. now \in Nat /\ tNow \in Nat /\ lastSendEnd \in Nat /\ wake \in Nat /\ want \in Nat
        /\ readTime \in Nat /\ need \in Nat
    BY DEF TypeOK
  <1>2. header.ReadTime \in Nat /\ header.Sz \in Nat
    BY DEF TypeOK
  <1>3. p \in Seq(Nat) /\ pkt \in Seq(Nat) /\ readBuf \in Seq(Nat) /\ out \in Seq(Nat)
        /\ offered \in Seq(Nat) /\ delivered \in Seq(Nat)
    BY DEF TypeOK
  <1>4. network.Kbps \in Nat /\ network.Latency \in Nat /\ network.MTU \in Nat
    BY NetworkFacts DEF TypeOK
  <1> QED
    BY <1>1, <1>2, <1>3, <1>4 DEF Types

LEMMA OfferedTimes == TypeOK => \A i \in 1..Len(offered) : offered[i] \in Nat
  <1> SUFFICES ASSUME TypeOK PROVE \A i \in 1..Len(offered) : offered[i] \in Nat
    OBVIOUS
  <1>1. offered \in Seq(Nat)
    BY DEF TypeOK
  <1> QED
    BY <1>1

\* The runs of the stream end where the next begin.
LEMMA Ends ==
  ASSUME TypeOK
  PROVE  OutEnd \in Nat /\ BufEnd \in Nat /\ PktEnd \in Nat
  <1>1. Types
    BY TypeFacts
  <1> QED
    BY <1>1 DEF Types, OutEnd, BufEnd, PktEnd

LEMMA BufferOffered ==
  ASSUME TypeOK, Chain
  PROVE  BufEnd <= Len(offered) /\ BufEnd \in Nat /\ Len(offered) \in Nat
  <1>1. BufEnd \in Nat /\ Len(pkt) \in Nat /\ Len(p) \in Nat /\ Len(offered) \in Nat
    BY TypeFacts, Ends DEF Types
  <1>2. BufEnd + Len(pkt) + Len(p) = Len(offered)
    BY DEF Chain, PktEnd
  <1> QED
    BY <1>1, <1>2

-----------------------------------------------------------------------------
LEMMA InitIInv == Init => IInv
  <1> SUFFICES ASSUME Init PROVE IInv
    OBVIOUS
  <1> USE DEF Init
  <1>1. TypeOK
    BY NetworkFacts DEF TypeOK
  <1>2. Types
    BY <1>1, TypeFacts
  <1>3. Chain
    BY RunEmpty DEF Chain, OutEnd, BufEnd, PktEnd
  <1>4. Agree
    BY DEF Agree
  <1>5. Clock /\ Late
    BY <1>2 DEF Clock, Late, Types, OutEnd, BufEnd
  <1>6. WireBounded
    BY <1>1, <1>2, PktTimeFacts DEF WireBounded, Types, TypeOK, delay
  <1> QED
    BY <1>1, <1>3, <1>4, <1>5, <1>6 DEF IInv

LEMMA WriteStart ==
  ASSUME IInv, NEW n \in 1..MaxBytes, Write(n)
  PROVE  IInv'
  <1>0. /\ TypeOK /\ Chain /\ Agree /\ Clock /\ Late /\ WireBounded
        /\ wpc = "idle" /\ wpc' = "loop" /\ tNow' = now /\ lastSendEnd' = SendStart
        /\ UNCHANGED <<network, now, pkt, header, wake, rpc, readBuf, want, readTime, need, out, delivered>>
    BY DEF IInv, Write, rlocal
  <1>1. Types /\ n \in Nat
    BY <1>0, TypeFacts, LatencyAssumption
  <1>2. lastSendEnd' \in Nat /\ lastSendEnd' >= now /\ lastSendEnd' >= lastSendEnd
        /\ (lastSendEnd' = now \/ lastSendEnd' = lastSendEnd)
    BY <1>0, <1>1 DEF Types, SendStart
  <1>3. /\ p' = Run(Len(offered), n) /\ p' \in Seq(Nat) /\ Len(p') = n
        /\ p = <<>> /\ pkt = <<>> /\ Len(p) = 0 /\ Len(pkt) = 0
    BY <1>0, <1>1, RunFacts DEF Types, Run, Agree, Write
  <1>4. /\ offered' \in Seq(Nat) /\ Len(offered') = Len(offered) + n
        /\ \A i \in 1..Len(offered') : offered'[i] = IF i <= Len(offered) THEN offered[i] ELSE now
    <2> DEFINE e == [i \in 1..n |-> now]
    <2>1. e \in Seq(Nat) /\ Len(e) = n /\ \A i \in 1..n : e[i] = now
      BY <1>1 DEF Types
    <2>2. offered' = offered \o e
      BY DEF Write
    <2> HIDE DEF e
    <2>3. offered \in Seq(Nat) /\ Len(offered) \in Nat
      BY <1>1 DEF Types
    <2>4. /\ offered \o e \in Seq(Nat) /\ Len(offered \o e) = Len(offered) + Len(e)
          /\ \A i \in 1..Len(offered) + Len(e) :
                (offered \o e)[i] = IF i <= Len(offered) THEN offered[i] ELSE e[i - Len(offered)]
      BY <2>1, <2>3, ConcatProperties
    <2>5. \A i \in 1..Len(offered) + n : ~(i <= Len(offered)) => i - Len(offered) \in 1..n
      BY <1>1, <2>3
    <2> QED
      BY <2>1, <2>2, <2>4, <2>5
  <1>5. TypeOK'
    BY <1>0, <1>1, <1>2, <1>3, <1>4 DEF TypeOK, Types
  <1>6. Chain'
    <2>1. PktEnd' = PktEnd /\ BufEnd' = BufEnd /\ OutEnd' = OutEnd /\ PktEnd \in Nat
      BY <1>0, Ends DEF PktEnd, BufEnd, OutEnd
    <2>2. PktEnd = Len(offered)
      BY <1>0, <1>3, <2>1 DEF Chain
    <2> QED
      BY <1>0, <1>1, <1>3, <1>4, <2>1, <2>2 DEF Chain, Types
  <1>7. Agree'
    BY <1>0, <1>3 DEF Agree
  <1>8. Clock'
    <2>1. header.ReadTime <= lastSendEnd' + network.Latency
      BY <1>0, <1>1, <1>2 DEF Clock, Types
    <2>2. network.Kbps = 0 => lastSendEnd' <= now
      BY <1>0, <1>1, <1>2 DEF Clock, Types
    <2> QED
      BY <1>0, <1>1, <2>1, <2>2 DEF Clock, Types
  <1>9. Late'
    <2>1. BufEnd <= Len(offered) /\ BufEnd \in Nat
      BY <1>0, BufferOffered DEF IInv
    <2>2. \A i \in 1..Len(offered') : offered'[i] <= lastSendEnd'
      <3> TAKE i \in 1..Len(offered')
      <3>1. CASE i <= Len(offered)
        <4>1. i \in 1..Len(offered) /\ offered'[i] = offered[i]
          BY <1>1, <1>4, <3>1 DEF Types
        <4>2. offered[i] <= lastSendEnd /\ offered[i] \in Nat
          BY <1>0, <4>1, OfferedTimes DEF Late
        <4>3. lastSendEnd \in Nat
          BY <1>1 DEF Types
        <4> QED
          BY <4>1, <4>2, <4>3, <1>2
      <3>2. CASE ~(i <= Len(offered))
        BY <1>2, <1>4, <3>2
      <3> QED
        BY <3>1, <3>2
    <2>3. \A i \in (Len(delivered) + 1)..BufEnd : offered'[i] = offered[i]
      <3> TAKE i \in (Len(delivered) + 1)..BufEnd
      <3>1. Len(delivered) \in Nat /\ Len(offered) \in Nat /\ n \in Nat
        BY <1>1 DEF Types
      <3>2. i \in 1..Len(offered) /\ i \in 1..Len(offered) + n /\ i <= Len(offered)
        BY <2>1, <3>1
      <3> QED
        BY <1>4, <3>2
    <2> QED
      BY <1>0, <2>2, <2>3 DEF Late, BufEnd, OutEnd
  <1>10. WireBounded'
    <2>1. pktTime(header.Sz) \in Nat /\ pktTime(header.Sz)' = pktTime(header.Sz)
      BY <1>0, <1>1, PktTimeFacts DEF Types, TypeOK, pktTime
    <2>2. lastSendEnd' <= now + network.Latency + pktTime(header.Sz)
      BY <1>0, <1>1, <1>2, <2>1 DEF WireBounded, Types, delay
    <2> QED
      BY <1>0, <2>1, <2>2 DEF WireBounded, delay
  <1> QED
    BY <1>5, <1>6, <1>7, <1>8, <1>9, <1>10 DEF IInv

LEMMA CutPacketStep == IInv /\ CutPacket => IInv'
  <1> SUFFICES ASSUME IInv, CutPacket PROVE IInv'
    OBVIOUS
  <1>0. /\ TypeOK /\ Chain /\ Agree /\ Clock /\ Late /\ WireBounded
        /\ wpc = "loop" /\ wpc' = "sleep" /\ wake' = now + Congestion /\ tNow' = tNow + Congestion
        /\ pkt' = First(p, PacketSize) /\ p' = Rest(p, PacketSize)
        /\ UNCHANGED <<network, now, lastSendEnd, header, offered, rpc, readBuf, want, readTime, need,
                       out, delivered>>
    BY DEF IInv, CutPacket, AfterPacket, rlocal
  <1>1. Types
    BY <1>0, TypeFacts
  <1>2. Congestion \in Nat /\ (network.Kbps > 0 => lastSendEnd <= tNow + Congestion + network.Latency)
    <2>1. CASE network.Kbps > 0 /\ lastSendEnd - tNow > network.Latency
      BY <1>1, <2>1 DEF Congestion, Types, delay
    <2>2. CASE ~(network.Kbps > 0 /\ lastSendEnd - tNow > network.Latency)
      BY <1>1, <2>2 DEF Congestion, Types, delay
    <2> QED
      BY <2>1, <2>2
  <1>3. /\ PacketSize \in 1..Len(p)
        /\ network.MTU > 0 => PacketSize <= network.MTU
    <2>1. p # <<>>
      BY DEF CutPacket
    <2>2. Len(p) \in Nat \ {0}
      BY <1>1, <2>1, EmptySeq DEF Types
    <2> QED
      BY <1>1, <2>2 DEF PacketSize, Types
  <1>4. p = Run(PktEnd, Len(p)) /\ PktEnd = BufEnd /\ BufEnd \in Nat /\ Len(pkt) = 0
    <2>1. Len(pkt) = 0
      BY <1>0 DEF Agree
    <2> QED
      BY <1>0, <2>1, Ends DEF Chain, PktEnd
  <1> DEFINE z == PacketSize
  <1>5. z \in Nat /\ z \in 0..Len(p) /\ z > 0 /\ Len(p) - z \in Nat /\ BufEnd + z \in Nat /\ Len(p) \in Nat
    BY <1>1, <1>3, <1>4 DEF Types
  <1>6. pkt' = Run(BufEnd, z) /\ p' = Run(BufEnd + z, Len(p) - z)
    <2>1. First(Run(BufEnd, Len(p)), z) = Run(BufEnd, z)
      BY <1>4, <1>5, RunFirst
    <2>2. Rest(Run(BufEnd, Len(p)), z) = Run(BufEnd + z, Len(p) - z)
      BY <1>4, <1>5, RunRest
    <2> QED
      BY <1>0, <1>4, <2>1, <2>2
  <1> HIDE DEF z
  <1>7. /\ Len(pkt') = z /\ pkt' \in Seq(Nat)
        /\ p' \in Seq(Nat) /\ Len(p') = Len(p) - z
    BY <1>4, <1>5, <1>6, RunFacts
  <1>8. TypeOK'
    BY <1>0, <1>1, <1>2, <1>7 DEF TypeOK, Types
  <1>9. Chain'
    <2>1. BufEnd' = BufEnd /\ OutEnd' = OutEnd
      BY <1>0 DEF BufEnd, OutEnd
    <2>2. PktEnd' = BufEnd + z
      BY <1>7, <2>1 DEF PktEnd
    <2>3. PktEnd' + Len(p') = Len(offered)
      <3>1. BufEnd + Len(p) = Len(offered)
        BY <1>0, <1>4 DEF Chain
      <3>2. (BufEnd + z) + (Len(p) - z) = BufEnd + Len(p)
        BY <1>4, <1>5
      <3> QED
        BY <1>7, <2>2, <3>1, <3>2
    <2> QED
      BY <1>0, <1>6, <1>7, <2>1, <2>2, <2>3 DEF Chain
  <1>10. Agree'
    <2>1. pkt' # <<>>
      BY <1>5, <1>7
    <2>2. network.MTU > 0 => Len(pkt') <= network.MTU
      BY <1>3, <1>7 DEF z
    <2> QED
      BY <1>0, <2>1, <2>2 DEF Agree
  <1>11. Clock'
    <2>1. tNow' <= wake' /\ (network.Kbps > 0 => lastSendEnd <= wake' + network.Latency)
      BY <1>0, <1>1, <1>2 DEF Clock, Types
    <2> QED
      BY <1>0, <2>1 DEF Clock
  <1>12. Late' /\ WireBounded'
    BY <1>0 DEF Late, BufEnd, OutEnd, WireBounded, delay, pktTime
  <1> QED
    BY <1>8, <1>9, <1>10, <1>11, <1>12 DEF IInv

LEMMA StampStep == IInv /\ Stamp => IInv' /\ header'.ReadTime >= header.ReadTime + pktTime(header'.Sz)
  <1> SUFFICES ASSUME IInv, Stamp
               PROVE  IInv' /\ header'.ReadTime >= header.ReadTime + pktTime(header'.Sz)
    OBVIOUS
  <1> DEFINE t == pktTime(Len(pkt))
             L == network.Latency
  <1>0. /\ TypeOK /\ Chain /\ Agree /\ Clock /\ Late /\ WireBounded
        /\ wpc = "sleep" /\ wpc' = "header" /\ now >= wake /\ lastSendEnd' = lastSendEnd + t
        /\ header' = [ReadTime |-> lastSendEnd' + L, Sz |-> Len(pkt)]
        /\ UNCHANGED <<network, now, p, pkt, tNow, wake, offered, rpc, readBuf, want, readTime, need,
                       out, delivered>>
    BY DEF IInv, Stamp, delay, rlocal
  <1>1. Types
    BY <1>0, TypeFacts
  <1>2. t \in Nat /\ (network.Kbps = 0 => t = 0)
    BY <1>0, <1>1, PktTimeFacts DEF Types, TypeOK
  <1>3. /\ header'.ReadTime = lastSendEnd' + L /\ header'.Sz = Len(pkt)
        /\ pktTime(header'.Sz) = t /\ pktTime(header.Sz)' = t
    BY <1>0 DEF pktTime
  <1>4. L \in Nat /\ network.Kbps \in Nat
    BY <1>1 DEF Types
  <1> HIDE DEF t
  <1>5. lastSendEnd <= now + L
    <2>1. CASE network.Kbps > 0
      <3>1. lastSendEnd <= wake + L
        BY <1>0, <2>1 DEF Clock
      <3> QED
        BY <1>0, <1>1, <1>4, <3>1 DEF Types
    <2>2. CASE network.Kbps = 0
      <3>1. lastSendEnd <= now
        BY <1>0, <2>2 DEF Clock
      <3> QED
        BY <1>1, <1>4, <3>1 DEF Types
    <2> QED
      BY <1>4, <2>1, <2>2
  <1>6. lastSendEnd' \in Nat /\ lastSendEnd' + L \in Nat /\ lastSendEnd <= lastSendEnd'
    BY <1>0, <1>1, <1>2, <1>4 DEF Types
  <1>7. TypeOK'
    <2>1. header' \in [ReadTime : Nat, Sz : Nat] /\ (network.MTU > 0 => header'.Sz <= network.MTU)
      BY <1>0, <1>1, <1>3, <1>6 DEF Types, Agree
    <2> QED
      BY <1>0, <1>6, <2>1 DEF TypeOK
  <1>8. Chain'
    BY <1>0 DEF Chain, OutEnd, BufEnd, PktEnd
  <1>9. Agree'
    BY <1>0, <1>3 DEF Agree
  <1>10. Clock'
    <2>1. tNow <= now
      BY <1>0, <1>1 DEF Clock, Types
    <2>2. network.Kbps = 0 => lastSendEnd' <= now
      BY <1>0, <1>1, <1>2 DEF Clock, Types
    <2>3. header'.ReadTime <= lastSendEnd' + L
      BY <1>3, <1>6
    <2> QED
      BY <1>0, <2>1, <2>2, <2>3 DEF Clock
  <1>11. Late'
    <2>1. \A i \in 1..Len(offered) : offered[i] <= lastSendEnd' /\ offered[i] + L <= header'.ReadTime
      <3> TAKE i \in 1..Len(offered)
      <3>1. offered[i] \in Nat /\ offered[i] <= lastSendEnd
        BY <1>0, OfferedTimes DEF Late
      <3>2. lastSendEnd \in Nat /\ header'.ReadTime \in Nat
        BY <1>1, <1>3, <1>6 DEF Types
      <3>3. offered[i] <= lastSendEnd'
        BY <1>6, <3>1, <3>2
      <3> HIDE DEF L
      <3> QED
        BY <1>3, <1>4, <1>6, <3>1, <3>3
    <2> QED
      BY <1>0, <2>1 DEF Late, BufEnd, OutEnd
  <1>12. WireBounded'
    <2>1. lastSendEnd' <= now + L + t
      BY <1>0, <1>1, <1>2, <1>4, <1>5 DEF Types
    <2> QED
      BY <1>0, <1>3, <2>1 DEF WireBounded, delay
  <1>13. header'.ReadTime >= header.ReadTime + t
    <2>1. header.ReadTime <= lastSendEnd + L
      BY <1>0 DEF Clock
    <2> QED
      BY <1>0, <1>1, <1>2, <1>3, <1>4, <2>1 DEF Types
  <1> QED
    BY <1>3, <1>7, <1>8, <1>9, <1>10, <1>11, <1>12, <1>13 DEF IInv

\* The writer returns or fails, the reader fails: only the places change.
LEMMA WriterEnds == IInv /\ (WriteReturn \/ WriteFails) => IInv'
  <1> SUFFICES ASSUME IInv, WriteReturn \/ WriteFails PROVE IInv'
    OBVIOUS
  <1> USE DEF IInv, WriteReturn, WriteFails, wlocal, rlocal
  <1>1. TypeOK'
    BY DEF TypeOK
  <1>2. Chain' /\ Agree'
    BY DEF Chain, OutEnd, BufEnd, PktEnd, Agree
  <1>3. Clock' /\ Late' /\ WireBounded'
    BY DEF Clock, Late, OutEnd, BufEnd, WireBounded, delay, pktTime
  <1> QED
    BY <1>1, <1>2, <1>3

LEMMA ReadFailsStep == IInv /\ ReadFails => IInv'
  <1> SUFFICES ASSUME IInv, ReadFails PROVE IInv'
    OBVIOUS
  <1> USE DEF IInv, ReadFails, wlocal, rlocal
  <1>1. TypeOK'
    BY DEF TypeOK
  <1>2. Chain' /\ Agree'
    BY DEF Chain, OutEnd, BufEnd, PktEnd, Agree
  <1>3. Clock' /\ Late' /\ WireBounded'
    BY DEF Clock, Late, OutEnd, BufEnd, WireBounded, delay, pktTime
  <1> QED
    BY <1>1, <1>2, <1>3

LEMMA PassHeaderStep == IInv /\ PassHeader => IInv'
  <1> SUFFICES ASSUME IInv, PassHeader PROVE IInv'
    OBVIOUS
  <1> USE DEF IInv, PassHeader, wlocal
  <1>1. Types /\ readBuf = <<>> /\ out = <<>>
    BY TypeFacts DEF Agree
  <1>2. TypeOK'
    BY <1>1 DEF TypeOK, Types
  <1>3. Chain' /\ Agree'
    BY <1>1 DEF Chain, OutEnd, BufEnd, PktEnd, Agree
  <1>4. Clock' /\ WireBounded'
    BY DEF Clock, WireBounded, delay, pktTime
  <1>5. Late'
    BY <1>1 DEF Late, OutEnd, BufEnd, Types
  <1> QED
    BY <1>2, <1>3, <1>4, <1>5

LEMMA TickStep == IInv /\ Tick => IInv'
  <1> SUFFICES ASSUME IInv, Tick PROVE IInv'
    OBVIOUS
  <1>0. /\ TypeOK /\ Chain /\ Agree /\ Clock /\ Late /\ WireBounded /\ now' = now + 1
        /\ UNCHANGED <<network, wpc, p, pkt, tNow, lastSendEnd, header, wake, offered, rpc, readBuf,
                       want, readTime, need, out, delivered>>
    BY DEF IInv, Tick, wlocal, rlocal
  <1>1. Types
    BY <1>0, TypeFacts
  <1>2. TypeOK'
    BY <1>0, <1>1 DEF TypeOK, Types
  <1>3. Chain' /\ Agree'
    BY <1>0 DEF Chain, OutEnd, BufEnd, PktEnd, Agree
  <1>4. Clock'
    BY <1>0, <1>1 DEF Clock, Types
  <1>5. WireBounded'
    <2>1. pktTime(header.Sz) \in Nat /\ pktTime(header.Sz)' = pktTime(header.Sz)
      BY <1>0, <1>1, PktTimeFacts DEF Types, TypeOK, pktTime
    <2>2. lastSendEnd <= now + 1 + network.Latency + pktTime(header.Sz)
      BY <1>0, <1>1, <2>1 DEF WireBounded, delay, Types
    <2> QED
      BY <1>0, <2>1, <2>2 DEF WireBounded, delay
  <1>6. Late'
    <2>1. BufEnd <= Len(offered) /\ BufEnd \in Nat
      BY <1>0, BufferOffered DEF IInv
    <2>2. rpc = "idle" => \A i \in (Len(delivered) + 1)..BufEnd : offered[i] + network.Latency <= now + 1
      <3> SUFFICES ASSUME rpc = "idle", NEW i \in (Len(delivered) + 1)..BufEnd
                   PROVE  offered[i] + network.Latency <= now + 1
        OBVIOUS
      <3>1. i \in 1..Len(offered)
        BY <1>1, <2>1 DEF Types
      <3>2. offered[i] \in Nat /\ offered[i] + network.Latency <= now
        BY <1>0, <3>1, OfferedTimes DEF Late
      <3> QED
        BY <1>1, <3>2 DEF Types
    <2> QED
      BY <1>0, <2>2 DEF Late, OutEnd, BufEnd
  <1> QED
    BY <1>2, <1>3, <1>4, <1>5, <1>6 DEF IInv

LEMMA AtMostFacts ==
  ASSUME NEW m \in Nat, NEW n \in Nat
  PROVE  AtMost(m, n) \in 0..n /\ AtMost(m, n) \in 0..m
  BY DEF AtMost

\* What is returned from the buffer continues what was delivered.
LEMMA ReadStart ==
  ASSUME IInv, NEW n \in 1..MaxRead, Read(n)
  PROVE  IInv'
  <1>0. /\ TypeOK /\ Chain /\ Agree /\ Clock /\ Late /\ WireBounded
        /\ rpc = "idle" /\ want' = n
        /\ UNCHANGED <<network, now, wpc, p, pkt, tNow, lastSendEnd, header, wake, offered, readTime,
                       need, out>>
    BY DEF IInv, Read, wlocal
  <1>1. Types /\ n \in Nat /\ out = <<>> /\ Len(out) = 0
    BY <1>0, TypeFacts, LatencyAssumption DEF Agree
  <1>2. Clock' /\ WireBounded'
    BY <1>0 DEF Clock, WireBounded, delay, pktTime
  <1>3. CASE readBuf = <<>>
    <2>1. rpc' = "header" /\ need = 0 /\ UNCHANGED <<delivered, readBuf>>
      BY <1>3 DEF Read
    <2>2. TypeOK'
      BY <1>0, <1>1, <2>1 DEF TypeOK
    <2>3. wpc # "body"
      <3>1. pkt # <<>> => Len(pkt) # 0
        BY <1>1, EmptySeq DEF Types
      <3> QED
        BY <1>0, <2>1, <3>1 DEF Agree
    <2>4. Chain' /\ Agree'
      BY <1>0, <1>3, <2>1, <2>3 DEF Chain, OutEnd, BufEnd, PktEnd, Agree
    <2>5. Late'
      BY <1>0, <2>1 DEF Late, OutEnd, BufEnd
    <2> QED
      BY <1>2, <2>2, <2>4, <2>5 DEF IInv
  <1>4. CASE readBuf # <<>>
    <2> DEFINE D == Len(delivered)
               R == Len(readBuf)
               k == AtMost(n, R)
    <2>1. delivered' = delivered \o First(readBuf, k) /\ readBuf' = Rest(readBuf, k) /\ rpc' = rpc
      BY <1>4 DEF Read
    <2>2. D \in Nat /\ R \in Nat /\ k \in 0..R /\ R - k \in Nat /\ k \in Nat
      <3>1. D \in Nat /\ R \in Nat /\ n \in Nat
        BY <1>1 DEF Types
      <3> HIDE DEF D, R
      <3>2. AtMost(n, R) \in 0..R
        BY <3>1, AtMostFacts
      <3> QED
        BY <3>1, <3>2
    <2>3. delivered = Run(0, D) /\ readBuf = Run(D, R)
      BY <1>0, <1>1, <2>2 DEF Chain, OutEnd
    <2> HIDE DEF k, D, R
    <2>4. First(Run(D, R), k) = Run(D, k) /\ Rest(Run(D, R), k) = Run(D + k, R - k)
      BY <2>2, RunFirst, RunRest
    <2>5. delivered' = Run(0, D + k) /\ readBuf' = Run(D + k, R - k)
      <3>1. Run(0, D) \o Run(0 + D, k) = Run(0, D + k)
        BY <2>2, RunJoin
      <3>2. 0 + D = D
        BY <2>2
      <3> QED
        BY <2>1, <2>3, <2>4, <3>1, <3>2
    <2>6. /\ D + k \in Nat /\ Len(delivered') = D + k /\ Len(readBuf') = R - k
          /\ delivered' \in Seq(Nat) /\ readBuf' \in Seq(Nat)
      <3>1. 0 \in Nat /\ D + k \in Nat /\ R - k \in Nat
        BY <2>2
      <3>2. Len(Run(0, D + k)) = D + k /\ Run(0, D + k) \in Seq(Nat)
        BY <3>1, RunFacts
      <3>3. Len(Run(D + k, R - k)) = R - k /\ Run(D + k, R - k) \in Seq(Nat)
        BY <3>1, RunFacts
      <3> QED
        BY <2>5, <3>1, <3>2, <3>3
    <2>7. TypeOK'
      BY <1>0, <1>1, <2>1, <2>6 DEF TypeOK
    <2>8. BufEnd = D + R /\ OutEnd' = D + k /\ BufEnd' = D + R /\ PktEnd' = PktEnd
      BY <1>0, <1>1, <2>2, <2>6 DEF OutEnd, BufEnd, PktEnd, D, R
    <2>9. Chain'
      BY <1>0, <1>1, <2>2, <2>5, <2>6, <2>8, RunEmpty DEF Chain
    <2>10. Agree'
      BY <1>0, <1>1, <2>1 DEF Agree
    <2>11. Late'
      <3>1. \A i \in (D + k + 1)..(D + R) : i \in (D + 1)..(D + R)
        BY <2>2
      <3>2. \A i \in (D + k + 1)..(D + R) : offered[i] + network.Latency <= now
        BY <1>0, <2>8, <3>1 DEF Late, D
      <3> QED
        BY <1>0, <2>1, <2>6, <2>8, <3>2 DEF Late
    <2> QED
      BY <1>2, <2>7, <2>9, <2>10, <2>11 DEF IInv
  <1> QED
    BY <1>3, <1>4

\* Bytes move from the packet into the buffer, with the last ones as many as
\* fit into the reader's own buffer.
LEMMA PassBytesStep ==
  ASSUME IInv, NEW k \in 1..MaxBytes, PassBytes(k)
  PROVE  IInv'
  <1> DEFINE D == Len(delivered)
             R == Len(readBuf)
             K == Len(pkt)
             buf == readBuf \o First(pkt, k)
             n == IF need' = 0 THEN AtMost(want, Len(buf)) ELSE 0
  <1>0. /\ TypeOK /\ Chain /\ Agree /\ Clock /\ Late /\ WireBounded
        /\ wpc = "body" /\ rpc = "body" /\ k <= AtMost(Len(pkt), need) /\ pkt' = Rest(pkt, k)
        /\ wpc' = IF pkt' = <<>> THEN "loop" ELSE "body"
        /\ need' = need - k /\ rpc' = IF need' = 0 THEN "sleep" ELSE "body"
        /\ UNCHANGED <<network, now, p, tNow, lastSendEnd, header, wake, offered, want, readTime,
                       delivered>>
    BY DEF IInv, PassBytes
  <1>1. out' = First(buf, n) /\ readBuf' = Rest(buf, n)
    BY DEF PassBytes
  <1>2. Types /\ k \in Nat /\ need = K /\ out = <<>> /\ Len(out) = 0
    BY <1>0, TypeFacts, LatencyAssumption DEF Agree
  <1>3. D \in Nat /\ R \in Nat /\ K \in Nat /\ k \in 0..K /\ K - k \in Nat /\ want \in Nat
    <2>1. D \in Nat /\ R \in Nat /\ K \in Nat /\ want \in Nat /\ k \in Nat /\ need \in Nat
      BY <1>2 DEF Types
    <2> HIDE DEF D, R
    <2>2. AtMost(K, need) \in 0..K
      BY <1>2, <2>1, AtMostFacts
    <2>3. k <= AtMost(K, need)
      BY <1>0
    <2> HIDE DEF K
    <2>4. k <= K
      BY <2>1, <2>2, <2>3
    <2> QED
      BY <2>1, <2>4
  <1>4. readBuf = Run(D, R) /\ pkt = Run(D + R, K) /\ BufEnd = D + R /\ BufEnd \in Nat
    BY <1>0, <1>2, <1>3 DEF Chain, OutEnd, BufEnd
  <1> HIDE DEF D, R, K
  <1>5. buf = Run(D, R + k) /\ pkt' = Run(D + R + k, K - k)
    <2>1. First(Run(D + R, K), k) = Run(D + R, k) /\ Rest(Run(D + R, K), k) = Run(D + R + k, K - k)
      BY <1>3, RunFirst, RunRest
    <2>2. Run(D, R) \o Run(D + R, k) = Run(D, R + k)
      BY <1>2, <1>3, RunJoin
    <2> QED
      BY <1>0, <1>4, <2>1, <2>2
  <1>6. R + k \in Nat /\ Len(buf) = R + k
    BY <1>2, <1>3, <1>5, RunFacts
  <1>7. n \in 0..(R + k) /\ n \in Nat /\ R + k - n \in Nat /\ (need' # 0 => n = 0)
    <2> HIDE DEF buf
    <2>1. AtMost(want, R + k) \in 0..(R + k)
      BY <1>3, <1>6, AtMostFacts
    <2> QED
      BY <1>3, <1>6, <2>1
  <1> HIDE DEF n, buf
  <1>8. out' = Run(D, n) /\ readBuf' = Run(D + n, R + k - n)
    BY <1>1, <1>3, <1>5, <1>6, <1>7, RunFirst, RunRest
  <1>9. /\ D + n \in Nat /\ D + R + k \in Nat
        /\ Len(out') = n /\ Len(readBuf') = R + k - n /\ Len(pkt') = K - k
        /\ out' \in Seq(Nat) /\ readBuf' \in Seq(Nat) /\ pkt' \in Seq(Nat)
    <2>1. D + n \in Nat /\ D + R + k \in Nat
      BY <1>2, <1>3, <1>7
    <2>2. Len(Run(D, n)) = n /\ Run(D, n) \in Seq(Nat)
      BY <1>3, <1>7, RunFacts
    <2>3. Len(Run(D + n, R + k - n)) = R + k - n /\ Run(D + n, R + k - n) \in Seq(Nat)
      BY <2>1, <1>7, RunFacts
    <2>4. Len(Run(D + R + k, K - k)) = K - k /\ Run(D + R + k, K - k) \in Seq(Nat)
      BY <2>1, <1>3, RunFacts
    <2> QED
      BY <1>5, <1>8, <2>1, <2>2, <2>3, <2>4
  <1>10. need' \in Nat /\ need' = Len(pkt') /\ (pkt' = <<>> <=> need' = 0)
    <2>1. need' = K - k
      BY <1>0, <1>2
    <2> QED
      BY <1>3, <1>9, <2>1, EmptySeq
  <1>11. TypeOK'
    BY <1>0, <1>9, <1>10 DEF TypeOK
  <1>12. /\ OutEnd' = D + n /\ BufEnd' = D + R + k /\ PktEnd' = PktEnd /\ Len(delivered') = D
    <2>1. Len(delivered') = D
      BY <1>0 DEF D
    <2>2. OutEnd' = D + n
      BY <1>9, <2>1 DEF OutEnd
    <2>3. BufEnd' = D + R + k
      BY <1>2, <1>3, <1>7, <1>9, <2>2 DEF BufEnd
    <2>4. PktEnd = D + R + K
      BY <1>4 DEF PktEnd, K
    <2>5. PktEnd' = PktEnd
      BY <1>2, <1>3, <1>9, <2>3, <2>4 DEF PktEnd
    <2> QED
      BY <2>1, <2>2, <2>3, <2>5
  <1>13. Chain'
    BY <1>0, <1>5, <1>8, <1>9, <1>12 DEF Chain, D
  <1>14. Agree'
    <2>1. need' # 0 => out' = <<>>
      BY <1>7, <1>8, RunEmpty
    <2> QED
      BY <1>0, <1>10, <2>1 DEF Agree
  <1>15. Clock' /\ WireBounded'
    BY <1>0 DEF Clock, WireBounded, delay, pktTime
  <1>16. Late'
    <2>1. BufEnd' <= Len(offered) /\ Len(offered) \in Nat
      <3>1. BufEnd + K <= Len(offered) /\ Len(offered) \in Nat
        BY <1>0, <1>2, <1>3, <1>4 DEF Chain, PktEnd, Types, K
      <3> QED
        BY <1>3, <1>4, <1>12, <3>1
    <2>2. \A i \in (D + 1)..BufEnd' : i \in 1..Len(offered)
      BY <1>2, <1>3, <1>12, <2>1
    <2>3. \A i \in (D + 1)..BufEnd' : offered[i] + network.Latency <= readTime
      BY <1>0, <2>2 DEF Late
    <2> QED
      BY <1>0, <1>12, <2>3 DEF Late
  <1> QED
    BY <1>11, <1>13, <1>14, <1>15, <1>16 DEF IInv

LEMMA ReadReturnStep == IInv /\ ReadReturn => IInv'
  <1> SUFFICES ASSUME IInv, ReadReturn PROVE IInv'
    OBVIOUS
  <1> DEFINE D == Len(delivered)
             O == Len(out)
  <1>0. /\ TypeOK /\ Chain /\ Agree /\ Clock /\ Late /\ WireBounded
        /\ rpc = "sleep" /\ now >= readTime /\ delivered' = delivered \o out /\ out' = <<>> /\ rpc' = "idle"
        /\ UNCHANGED <<network, now, wpc, p, pkt, tNow, lastSendEnd, header, wake, offered, readBuf, want,
                       readTime, need>>
    BY DEF IInv, ReadReturn, Due, wlocal
  <1>1. Types /\ D \in Nat /\ O \in Nat /\ D + O \in Nat
    BY <1>0, TypeFacts DEF Types
  <1>2. delivered' = Run(0, D + O)
    <2>1. delivered = Run(0, D) /\ out = Run(D, O)
      BY <1>0 DEF Chain
    <2> HIDE DEF D, O
    <2>2. Run(0, D) \o Run(0 + D, O) = Run(0, D + O)
      BY <1>1, RunJoin
    <2>3. 0 + D = D
      BY <1>1
    <2> QED
      BY <1>0, <2>1, <2>2, <2>3
  <1>3. Len(delivered') = D + O /\ delivered' \in Seq(Nat) /\ Len(out') = 0
    BY <1>0, <1>1, <1>2, RunFacts
  <1> HIDE DEF D, O
  <1>4. TypeOK'
    BY <1>0, <1>3 DEF TypeOK
  <1>5. OutEnd = D + O /\ OutEnd' = OutEnd /\ BufEnd' = BufEnd /\ PktEnd' = PktEnd /\ BufEnd \in Nat
    BY <1>0, <1>1, <1>3, Ends DEF OutEnd, BufEnd, PktEnd, D, O
  <1>6. Chain'
    BY <1>0, <1>2, <1>3, <1>5, RunEmpty DEF Chain
  <1>7. Agree'
    BY <1>0 DEF Agree
  <1>8. Clock' /\ WireBounded'
    BY <1>0 DEF Clock, WireBounded, delay, pktTime
  <1>9. Late'
    <2>1. BufEnd <= Len(offered)
      BY <1>0, BufferOffered DEF IInv
    <2>2. \A i \in (D + O + 1)..BufEnd : i \in (D + 1)..BufEnd /\ i \in 1..Len(offered)
      <3>1. Len(offered) \in Nat
        BY <1>1 DEF Types
      <3> QED
        BY <1>1, <1>5, <2>1, <3>1
    <2>3. \A i \in (D + O + 1)..BufEnd : offered[i] \in Nat /\ offered[i] + network.Latency <= readTime
      BY <1>0, <2>2, OfferedTimes DEF Late, D
    <2>4. now \in Nat /\ readTime \in Nat /\ network.Latency \in Nat
      BY <1>1 DEF Types
    <2>5. \A i \in (D + O + 1)..BufEnd : offered[i] + network.Latency <= now
      BY <1>0, <2>3, <2>4
    <2> QED
      BY <1>0, <1>3, <1>5, <2>5 DEF Late
  <1> QED
    BY <1>4, <1>6, <1>7, <1>8, <1>9 DEF IInv

LEMMA StutterStep == IInv /\ UNCHANGED vars => IInv'
  BY DEF IInv, vars, wlocal, rlocal, TypeOK, Chain, OutEnd, BufEnd, PktEnd, Agree, Clock, Late,
         WireBounded, delay, pktTime

LEMMA NextIInv == IInv /\ [Next]_vars => IInv'
  BY WriteStart, CutPacketStep, StampStep, WriterEnds, PassHeaderStep, PassBytesStep, ReadStart,
     ReadReturnStep, ReadFailsStep, TickStep, StutterStep DEF Next, WriteStep, PipeStep, ReadStep

LEMMA Inductive == Spec => []IInv
  BY InitIInv, NextIInv, PTL DEF Spec

-----------------------------------------------------------------------------
(***************************************************************************)
(* The variables of Write, Read and the pipe keep their types, and no      *)
(* packet is longer than the MTU (network_latency.go:100-148).             *)
(***************************************************************************)
THEOREM TypeCorrect == Spec => []TypeOK
  BY Inductive, PTL DEF IInv

(***************************************************************************)
(* However Writes follow one another, the last transmission ends at most   *)
(* the delay and one packet after now (network_latency.go:115-118).        *)
(***************************************************************************)
THEOREM NotTooFull == Spec => []WireBounded
  BY Inductive, PTL DEF IInv

(***************************************************************************)
(* Packets leave no faster than the bandwidth, across Writes as well       *)
(* (network_latency.go:101-104, 120).                                      *)
(***************************************************************************)
THEOREM RateRespected == Spec => RateBound
  <1>1. IInv /\ [Next]_vars => [Stamp => header'.ReadTime >= header.ReadTime + pktTime(header'.Sz)]_vars
    BY StampStep
  <1> QED
    BY <1>1, Inductive, PTL DEF Spec, RateBound

LEMMA IInvQuiet == IInv => NothingStuck
  <1> SUFFICES ASSUME IInv, wpc = "idle", rpc = "header"
               PROVE  Len(delivered) = Len(offered)
    BY DEF NothingStuck
  <1>1. pkt = <<>> /\ p = <<>> /\ readBuf = <<>> /\ out = <<>>
    BY DEF IInv, Agree
  <1>2. Len(pkt) = 0 /\ Len(p) = 0 /\ Len(readBuf) = 0 /\ Len(out) = 0
    BY <1>1
  <1>3. Len(delivered) \in Nat
    BY DEF IInv, TypeOK
  <1>4. PktEnd + Len(p) = Len(offered)
    BY DEF IInv, Chain
  <1> QED
    BY <1>2, <1>3, <1>4 DEF PktEnd, BufEnd, OutEnd

(***************************************************************************)
(* A Read that waits while nobody writes has returned every byte before,   *)
(* whatever the sizes of writes, packets and reads                         *)
(* (network_latency.go:105-148).                                           *)
(***************************************************************************)
THEOREM NothingLeftBehind == Spec => []NothingStuck
  BY Inductive, IInvQuiet, PTL

-----------------------------------------------------------------------------
\* Read and ReadReturn hand out the next run of the stream, and in time.
LEMMA DeliverStep ==
  ASSUME IInv, IInv', UNCHANGED <<network, now, offered>>,
         NEW m \in Len(delivered)..BufEnd, Len(delivered') = m,
         \A i \in (Len(delivered) + 1)..m : offered[i] + network.Latency <= now
  PROVE  Stream!Deliver
  <1>1. Types /\ TypeOK /\ Chain /\ Chain'
    BY TypeFacts DEF IInv
  <1>2. BufEnd <= Len(offered) /\ BufEnd \in Nat
    BY <1>1, BufferOffered
  <1>3. m \in Len(delivered)..Len(offered) /\ m \in Nat
    BY <1>1, <1>2 DEF Types
  <1>4. delivered' = [i \in 1..m |-> i]
    <2>1. delivered' = Run(0, m)
      BY <1>1 DEF Chain
    <2> QED
      BY <1>3, <2>1 DEF Run
  <1> QED
    BY <1>3, <1>4 DEF Stream!Deliver

(***************************************************************************)
(* The connection is a delayed stream: every step of Write, Read, the pipe *)
(* and the clock is a step of DelayedStream or changes nothing it sees     *)
(* (network_latency.go:100-148).                                           *)
(***************************************************************************)
THEOREM Refinement == Spec => ImplementsStream
  <1>1. Init => Stream!StreamInit
    BY NetworkFacts DEF Init, Stream!StreamInit
  <1>2. IInv /\ IInv' /\ [Next]_vars => [Stream!StreamNext]_Stream!streamVars
    <2> SUFFICES ASSUME IInv, IInv', [Next]_vars PROVE [Stream!StreamNext]_Stream!streamVars
      OBVIOUS
    <2>0. Types /\ TypeOK
      BY TypeFacts DEF IInv
    <2> USE DEF Stream!streamVars
    <2>1. ASSUME NEW n \in 1..MaxBytes, Write(n) PROVE Stream!StreamNext
      BY <2>1 DEF Write, rlocal, Stream!StreamNext, Stream!Offer
    <2>2. CASE CutPacket \/ Stamp \/ WriteReturn \/ WriteFails
      BY <2>2 DEF CutPacket, Stamp, WriteReturn, WriteFails, wlocal, rlocal
    <2>3. CASE PassHeader \/ ReadFails
      BY <2>3 DEF PassHeader, ReadFails, wlocal, rlocal
    <2>4. ASSUME NEW k \in 1..MaxBytes, PassBytes(k) PROVE UNCHANGED Stream!streamVars
      BY <2>4 DEF PassBytes
    <2>5. ASSUME NEW n \in 1..MaxRead, Read(n) PROVE [Stream!StreamNext]_Stream!streamVars
      <3>1. UNCHANGED <<network, now, offered, out>> /\ out = <<>> /\ rpc = "idle"
        BY <2>5 DEF Read, wlocal, IInv, Agree
      <3>2. CASE readBuf = <<>>
        BY <2>5, <3>1, <3>2 DEF Read
      <3>3. CASE readBuf # <<>>
        <4> DEFINE k == AtMost(n, Len(readBuf))
        <4>1. delivered' = delivered \o First(readBuf, k) /\ n \in Nat
          BY <2>5, <3>3, LatencyAssumption DEF Read
        <4>2. k \in 0..Len(readBuf) /\ Len(readBuf) \in Nat /\ Len(delivered) \in Nat /\ readBuf \in Seq(Nat)
              /\ delivered \in Seq(Nat)
          BY <2>0, <4>1, AtMostFacts DEF Types
        <4> HIDE DEF k
        <4>3. Len(delivered') = Len(delivered) + k
          <5>1. Len(First(readBuf, k)) = k /\ First(readBuf, k) \in Seq(Nat)
            BY <4>2 DEF First
          <5> QED
            BY <4>1, <4>2, <5>1, ConcatProperties
        <4>4. BufEnd = Len(delivered) + Len(readBuf)
          BY <3>1, <4>2 DEF BufEnd, OutEnd
        <4>5. \A i \in (Len(delivered) + 1)..(Len(delivered) + k) : i \in (Len(delivered) + 1)..BufEnd
          BY <4>2, <4>4
        <4>6. Len(delivered) + k \in Len(delivered)..BufEnd
          BY <4>2, <4>4
        <4>7. \A i \in (Len(delivered) + 1)..(Len(delivered) + k) : offered[i] + network.Latency <= now
          BY <3>1, <4>5 DEF IInv, Late
        <4>8. Stream!Deliver
          BY <3>1, <4>3, <4>6, <4>7, DeliverStep
        <4> QED
          BY <4>8 DEF Stream!StreamNext
      <3> QED
        BY <3>2, <3>3
    <2>6. CASE ReadReturn
      <3>1. UNCHANGED <<network, now, offered>> /\ rpc = "sleep" /\ now >= readTime /\ delivered' = delivered \o out
        BY <2>6 DEF ReadReturn, Due, wlocal
      <3>2. Len(delivered') = OutEnd /\ OutEnd \in Nat /\ OutEnd \in Len(delivered)..BufEnd
            /\ BufEnd \in Nat /\ Len(delivered) \in Nat
        BY <2>0, <3>1 DEF Types, OutEnd, BufEnd
      <3>3. BufEnd <= Len(offered) /\ Len(offered) \in Nat
        BY <2>0, BufferOffered DEF IInv
      <3>4. \A i \in (Len(delivered) + 1)..OutEnd : i \in (Len(delivered) + 1)..BufEnd /\ i \in 1..Len(offered)
        BY <3>2, <3>3
      <3>5. \A i \in (Len(delivered) + 1)..OutEnd : offered[i] \in Nat /\ offered[i] + network.Latency <= readTime
        BY <2>0, <3>1, <3>4, OfferedTimes DEF IInv, Late
      <3>6. now \in Nat /\ readTime \in Nat /\ network.Latency \in Nat
        BY <2>0 DEF Types
      <3>7. \A i \in (Len(delivered) + 1)..OutEnd : offered[i] + network.Latency <= now
        BY <3>1, <3>5, <3>6
      <3>8. Stream!Deliver
        BY <3>1, <3>2, <3>7, DeliverStep
      <3> QED
        BY <3>8 DEF Stream!StreamNext
    <2>7. CASE Tick
      BY <2>7 DEF Tick, wlocal, rlocal, Stream!StreamNext, Stream!Pass
    <2>8. CASE UNCHANGED vars
      BY <2>8 DEF vars, wlocal, rlocal
    <2> QED
      BY <2>1, <2>2, <2>3, <2>4, <2>5, <2>6, <2>7, <2>8 DEF Next, WriteStep, PipeStep, ReadStep
  <1> QED
    BY <1>1, <1>2, Inductive, PTL DEF Spec, ImplementsStream, Stream!StreamSpec
=============================================================================
