---------------------------- MODULE LatencyConn ----------------------------
(***************************************************************************)
(* One direction of a latency connection (src/latency/network_latency.go)  *)
(* over the pipe the benchmark gives it (net.Pipe).  Write cuts the bytes  *)
(* into packets, computes when each may be read and hands it over behind a *)
(* header; Read takes a packet into its buffer and sleeps until its time.  *)
(*                                                                         *)
(* A byte is its place in the stream.  Time is an integer; a sleep ends at *)
(* any moment from its end on.  net.Pipe has no buffer: a write and a read *)
(* meet.  One goroutine writes and one reads, as the multiplexer of libp2p *)
(* does.                                                                   *)
(*                                                                         *)
(* Both may fail at any moment, whatever the other one does.  The callers  *)
(* are assumed to give up then: after a failed Write nothing is written    *)
(* any more, and after a failed Read no further packet is asked for,       *)
(* although what was copied of one can still be read.  libp2p closes the   *)
(* connection on either.  The code itself would take the rest of a packet  *)
(* for the next header.                                                    *)
(***************************************************************************)
EXTENDS Integers, Sequences

CONSTANTS Networks,    \* the values of Network to look at
          Second,      \* units of time in a second
          MaxBytes,    \* bound: bytes written
          MaxRead,     \* bound: size of a reader's buffer
          LastStart    \* bound: no Write starts later

ASSUME LatencyAssumption ==
    /\ Networks \subseteq [Kbps : Nat, Latency : Nat, MTU : Nat]
    /\ {Second, MaxBytes, MaxRead, LastStart} \subseteq Nat

VARIABLES network, now,
          wpc, p, pkt, tNow, lastSendEnd, header,   \* of Write: where it is, its variables
          wake,                        \* when its sleep ends
          rpc, readBuf,                \* of Read: where it is, the buffer of the connection
          want, readTime, need, out,   \* room, time of the packet, bytes to copy, result
          offered, delivered           \* history: see DelayedStream

wlocal == <<p, pkt, tNow, lastSendEnd, header, wake, offered>>
rlocal == <<readBuf, want, readTime, need, out, delivered>>
vars == <<network, now, wpc, wlocal, rpc, rlocal>>

\* Network.Conn
Init ==
    /\ network \in Networks
    /\ wpc = "idle" /\ rpc = "idle"
    /\ now = 0 /\ tNow = 0 /\ lastSendEnd = 0 /\ wake = 0
    /\ want = 0 /\ readTime = 0 /\ need = 0
    /\ p = <<>> /\ pkt = <<>> /\ readBuf = <<>> /\ out = <<>>
    /\ offered = <<>> /\ delivered = <<>>
    /\ header = [ReadTime |-> 0, Sz |-> 0]

delay == network.Latency

\* Time to transmit b bytes; the division is an integer one
pktTime(b) == IF network.Kbps <= 0 THEN 0 ELSE (b * Second) \div (network.Kbps * 128)

First(s, n) == SubSeq(s, 1, n)
Rest(s, n) == SubSeq(s, n + 1, Len(s))
AtMost(m, n) == IF m < n THEN m ELSE n

-----------------------------------------------------------------------------
\* Mutant: every Write starts on an empty wire.
SendStartAnew == now

\* Where the wire is free for a Write that starts now
SendStart == IF lastSendEnd < now THEN now ELSE lastSendEnd

\* Write is called with n bytes
Write(n) ==
    /\ wpc = "idle" /\ now <= LastStart /\ Len(offered) + n <= MaxBytes
    /\ tNow' = now
    /\ lastSendEnd' = SendStart
    /\ offered' = offered \o [i \in 1..n |-> now]
    /\ p' = [i \in 1..n |-> Len(offered) + i]
    /\ wpc' = "loop"
    /\ UNCHANGED <<network, now, pkt, header, wake, rpc, rlocal>>

PacketSize == IF network.MTU > 0 /\ Len(p) > network.MTU THEN network.MTU ELSE Len(p)

\* Mutant: the rest of a long write is forgotten.
AfterPacketNothing == <<>>

AfterPacket == Rest(p, PacketSize)

\* Mutant: no limit to what is on the wire.
CongestionNever == 0

\* How long the wire is too full for another packet
Congestion ==
    IF network.Kbps > 0 /\ lastSendEnd - tNow > delay THEN lastSendEnd - tNow - delay ELSE 0

\* One pass of the loop begins: cut a packet, sleep while the wire is full
CutPacket ==
    /\ wpc = "loop" /\ p # <<>>
    /\ pkt' = First(p, PacketSize)
    /\ p' = AfterPacket
    /\ wake' = now + Congestion
    /\ tNow' = tNow + Congestion
    /\ wpc' = "sleep"
    /\ UNCHANGED <<network, now, lastSendEnd, header, offered, rpc, rlocal>>

\* The packet gets its time and its header
Stamp ==
    /\ wpc = "sleep" /\ now >= wake
    /\ lastSendEnd' = lastSendEnd + pktTime(Len(pkt))
    /\ header' = [ReadTime |-> lastSendEnd' + delay, Sz |-> Len(pkt)]
    /\ wpc' = "header"
    /\ UNCHANGED <<network, now, p, pkt, tNow, wake, offered, rpc, rlocal>>

\* The loop is over, Write returns
WriteReturn ==
    /\ wpc = "loop" /\ p = <<>>
    /\ wpc' = "idle"
    /\ UNCHANGED <<network, now, wlocal, rpc, rlocal>>

\* Either write on the pipe returns an error (closed, or past a deadline),
\* and so does Write
WriteFails ==
    /\ wpc \in {"header", "body"}
    /\ wpc' = "failed"
    /\ UNCHANGED <<network, now, wlocal, rpc, rlocal>>

-----------------------------------------------------------------------------
\* Read is called with room for n bytes: it returns what is in the buffer, or
\* goes for a packet.  With need > 0 the last Read failed within a packet, and
\* nobody asks for another one.
Read(n) ==
    /\ rpc = "idle"
    /\ want' = n
    /\ IF readBuf # <<>>
       THEN /\ delivered' = delivered \o First(readBuf, AtMost(n, Len(readBuf)))
            /\ readBuf' = Rest(readBuf, AtMost(n, Len(readBuf)))
            /\ UNCHANGED rpc
       ELSE need = 0 /\ rpc' = "header" /\ UNCHANGED <<delivered, readBuf>>
    /\ UNCHANGED <<network, now, wpc, wlocal, readTime, need, out>>

\* binary.Write of the header meets binary.Read
PassHeader ==
    /\ wpc = "header" /\ rpc = "header"
    /\ wpc' = "body" /\ rpc' = "body"
    /\ readTime' = header.ReadTime /\ need' = header.Sz
    /\ UNCHANGED <<network, now, wlocal, readBuf, want, out, delivered>>

\* Conn.Write of the packet meets a read of CopyN, for k bytes; with the last
\* one CopyN returns, the buffer given to Read is filled and Read sleeps
PassBytes(k) ==
    /\ wpc = "body" /\ rpc = "body" /\ k <= AtMost(Len(pkt), need)
    /\ pkt' = Rest(pkt, k)
    /\ wpc' = IF pkt' = <<>> THEN "loop" ELSE "body"
    /\ need' = need - k
    /\ LET buf == readBuf \o First(pkt, k)
           n == IF need' = 0 THEN AtMost(want, Len(buf)) ELSE 0
       IN  /\ out' = First(buf, n)
           /\ readBuf' = Rest(buf, n)
    /\ rpc' = IF need' = 0 THEN "sleep" ELSE "body"
    /\ UNCHANGED <<network, now, p, tNow, lastSendEnd, header, wake, offered, want, readTime, delivered>>

\* A read of the pipe fails: either end is closed, or the reader's deadline has
\* passed, wherever the writer is.  Before the header Read returns at once;
\* later its deferred sleep comes first, and what was copied stays in the buffer.
ReadFails ==
    /\ rpc \in {"header", "body"}
    /\ rpc' = IF rpc = "header" THEN "failed" ELSE "sleep"
    /\ UNCHANGED <<network, now, wpc, wlocal, rlocal>>

\* Mutant: no sleep.
DueAtOnce == TRUE

\* The deferred sleep is over
Due == now >= readTime

ReadReturn ==
    /\ rpc = "sleep" /\ Due
    /\ delivered' = delivered \o out
    /\ out' = <<>>
    /\ rpc' = "idle"
    /\ UNCHANGED <<network, now, wpc, wlocal, readBuf, want, readTime, need>>

\* Time passes; after LastStart only while somebody sleeps
Tick ==
    /\ \/ now < LastStart
       \/ wpc = "sleep" /\ now < wake
       \/ rpc = "sleep" /\ now < readTime
    /\ now' = now + 1
    /\ UNCHANGED <<network, wpc, wlocal, rpc, rlocal>>

WriteStep == CutPacket \/ Stamp \/ WriteReturn
PipeStep == PassHeader \/ \E k \in 1..MaxBytes : PassBytes(k)
ReadStep == (\E n \in 1..MaxRead : Read(n)) \/ ReadReturn

Next ==
    \/ \E n \in 1..MaxBytes : Write(n)
    \/ WriteStep \/ WriteFails \/ PipeStep \/ ReadStep \/ ReadFails \/ Tick

Spec == Init /\ [][Next]_vars

\* Goroutines are scheduled, a reader goes on reading, time passes; nothing has
\* to fail.
FairSpec == /\ Spec /\ WF_vars(WriteStep) /\ WF_vars(PipeStep)
            /\ WF_vars(ReadStep) /\ WF_vars(Tick)

-----------------------------------------------------------------------------
\* Types; no packet is longer than the MTU (line 107).
TypeOK ==
    /\ network \in Networks
    /\ {now, tNow, lastSendEnd, wake, want, readTime, need} \subseteq Nat
    /\ wpc \in {"idle", "loop", "sleep", "header", "body", "failed"}
    /\ rpc \in {"idle", "header", "body", "sleep", "failed"}
    /\ header \in [ReadTime : Nat, Sz : Nat]
    /\ network.MTU > 0 => header.Sz <= network.MTU
    /\ {p, pkt, readBuf, out, offered, delivered} \subseteq Seq(Nat)

Stream == INSTANCE DelayedStream WITH latency <- network.Latency, Sizes <- 1..MaxBytes

\* The connection is a byte stream with a delay: whatever the packets and the
\* sizes of the reads, and whenever a Write or a Read fails, bytes arrive in
\* order, once, and not before the latency has passed since their Write; that
\* includes the part of a packet that a failed Read has left in the buffer
\* (lines 100-148).
ImplementsStream == Stream!StreamSpec

\* The bandwidth is respected across packets and across Writes: a packet may
\* be read no earlier than its transmission time after the packet before it,
\* although each Write reads the clock anew (lines 101-104, 120).
RateBound ==
    [][Stamp => header'.ReadTime >= header.ReadTime + pktTime(header'.Sz)]_vars

\* "The network is full; sleep until this packet can be sent" (line 115): the
\* end of the last transmission is never further ahead than the delay and one
\* packet, so that a read time is at most twice the latency and a packet away.
WireBounded ==
    lastSendEnd <= now + delay + pktTime(header.Sz)

\* A Read that waits for a packet while no Write is under way has been given
\* everything: no byte is left in a buffer that only a later Write would move
\* (lines 105-128 against 131-148).
NothingStuck ==
    wpc = "idle" /\ rpc = "header" => Len(delivered) = Len(offered)

\* The last Read failed, before or within a packet.
ReaderGaveUp == rpc = "failed" \/ (rpc = "idle" /\ need > 0)

\* What was written arrives, unless a Write or a Read failed.
AllDelivered == <>[](Len(delivered) = Len(offered) \/ wpc = "failed" \/ ReaderGaveUp)

=============================================================================
