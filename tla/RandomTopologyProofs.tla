------------------------ MODULE RandomTopologyProofs ------------------------
(***************************************************************************)
(* For any number of peers and any receiver, populate never pairs the same *)
(* two peers twice, never draws a peer without an entry in peerMap, keeps  *)
(* the degrees within their bound, and stops early only when no pair is    *)
(* left.  What it returns is one of the graphs of PopulatePromise.         *)
(***************************************************************************)
EXTENDS RandomTopology, FiniteSetTheorems, TLAPS

\* Facts about the receiver and the sizes that every step needs.
LEMMA Params ==
  ASSUME TypeOK
  PROVE  /\ n \in Nat /\ t.MaxPeers \in Nat /\ t.Count \in Nat /\ t.CreateRing \in BOOLEAN
         /\ i \in Nat /\ count \in Nat
  BY TopologyAssumption DEF TypeOK

LEMMA InitIInv == Init => IInv
  <1> SUFFICES ASSUME Init PROVE IInv
    OBVIOUS
  <1>1. /\ n \in Nat /\ t.MaxPeers \in Nat /\ t.Count \in Nat
        /\ \A p \in Peers : connCount[p] = 0
        /\ \A p \in Peers : possibleConns[p] = Peers \ {p}
        /\ \A p, q \in Peers : connections[<<p, q>>] = 0
    BY TopologyAssumption DEF Init
  <1>2. TypeOK
    BY <1>1 DEF Init, TypeOK
  <1>3. NoDuplicate /\ DegreeBound
    BY <1>1 DEF NoDuplicate, DegreeBound
  <1>4. RingShape
    BY <1>1 DEF RingShape, Init, Peers
  <1>5. Forgotten /\ Rejected
    BY <1>1 DEF Forgotten, Rejected
  <1>6. Dropped /\ Uniform /\ Stopped /\ possiblePeers = peerMap
    BY DEF Init, Dropped, Uniform, Stopped
  <1> QED
    BY <1>2, <1>3, <1>4, <1>5, <1>6 DEF IInv

\* The remainder of the ring's loop: the neighbour of i.
LEMMA Neighbour ==
  ASSUME NEW m \in Nat, NEW k \in Nat, k < m
  PROVE  (k + 1) % m = IF k + 1 = m THEN 0 ELSE k + 1
  <1>1. CASE k + 1 = m
    BY <1>1
  <1>2. CASE k + 1 < m
    BY <1>2
  <1> QED
    BY <1>1, <1>2

\* What a link does to the functions, shared by the ring and the random loop.
LinkEffect(src, dst) ==
    /\ connCount' \in [Peers -> Nat]
    /\ possibleConns' \in [Peers -> SUBSET Peers]
    /\ connections' \in [Peers \X Peers -> Nat]
    /\ \A p \in Peers : connCount'[p] = IF p = src \/ p = dst
                                        THEN connCount[p] + 1 ELSE connCount[p]
    /\ \A p \in Peers : possibleConns'[p] \subseteq possibleConns[p]
    /\ \A p, q \in Peers : q \in possibleConns'[p] <=>
         q \in possibleConns[p] /\ <<p, q>> # <<src, dst>> /\ <<p, q>> # <<dst, src>>
    /\ \A p, q \in Peers : connections'[<<p, q>>] =
         IF p = src /\ q = dst THEN connections[<<p, q>>] + 1 ELSE connections[<<p, q>>]

LEMMA LinkFacts ==
  ASSUME TypeOK, NEW src \in Peers, NEW dst \in Peers, src # dst,
         possibleConns' = Linked(possibleConns, src, dst),
         connCount' = Counted(src, dst),
         connections' = Added(src, dst), n' = n, t' = t
  PROVE  LinkEffect(src, dst)
  <1>1. connCount' \in [Peers -> Nat]
    BY DEF TypeOK, Counted
  <1>2. possibleConns' \in [Peers -> SUBSET Peers]
    BY DEF TypeOK, Linked
  <1>3. connections' \in [Peers \X Peers -> Nat]
    BY DEF TypeOK, Added
  <1>4. \A p \in Peers : connCount'[p] = IF p = src \/ p = dst
                                         THEN connCount[p] + 1 ELSE connCount[p]
    BY DEF TypeOK, Counted
  <1>5. \A p, q \in Peers : q \in possibleConns'[p] <=>
              q \in possibleConns[p] /\ <<p, q>> # <<src, dst>> /\ <<p, q>> # <<dst, src>>
    BY DEF TypeOK, Linked
  <1>6. \A p \in Peers : possibleConns'[p] \subseteq possibleConns[p]
    BY DEF TypeOK, Linked
  <1>7. \A p, q \in Peers : connections'[<<p, q>>] =
              IF p = src /\ q = dst THEN connections[<<p, q>>] + 1 ELSE connections[<<p, q>>]
    BY DEF TypeOK, Added
  <1> QED
    BY <1>1, <1>2, <1>3, <1>4, <1>5, <1>6, <1>7 DEF LinkEffect

\* Linking two peers that are not joined keeps the pairs unique, the ports
\* forgotten, and the reasons for forgetting them.
LEMMA LinkCore ==
  ASSUME TypeOK, NoDuplicate, Forgotten, Rejected,
         NEW src \in Peers, NEW dst \in Peers, src # dst,
         connections[<<src, dst>>] = 0, connections[<<dst, src>>] = 0,
         possibleConns' = Linked(possibleConns, src, dst),
         connCount' = Counted(src, dst),
         connections' = Added(src, dst), n' = n, t' = t
  PROVE  NoDuplicate' /\ Forgotten' /\ Rejected'
  <1>1. /\ connCount' \in [Peers -> Nat]
        /\ connections' \in [Peers \X Peers -> Nat]
        /\ \A p \in Peers : connCount'[p] = IF p = src \/ p = dst
                                            THEN connCount[p] + 1 ELSE connCount[p]
        /\ \A p, q \in Peers : q \in possibleConns'[p] <=>
              q \in possibleConns[p] /\ <<p, q>> # <<src, dst>> /\ <<p, q>> # <<dst, src>>
        /\ \A p, q \in Peers : connections'[<<p, q>>] =
              IF p = src /\ q = dst THEN connections[<<p, q>>] + 1 ELSE connections[<<p, q>>]
    <2>1. LinkEffect(src, dst)
      BY LinkFacts
    <2> QED
      BY <2>1 DEF LinkEffect
  <1>2. /\ connCount \in [Peers -> Nat] /\ connections \in [Peers \X Peers -> Nat]
        /\ Peers' = Peers /\ t.MaxPeers \in Nat
    BY Params DEF TypeOK, Peers
  <1>3. \A p, q \in Peers : connections[<<p, q>>] \in Nat /\ connections'[<<p, q>>] \in Nat
    BY <1>1, <1>2
  <1>4. NoDuplicate'
    <2> SUFFICES ASSUME NEW p \in Peers, NEW q \in Peers
                 PROVE  connections'[<<p, q>>] + (IF p = q THEN 1 ELSE connections'[<<q, p>>]) <= 1
      BY <1>2 DEF NoDuplicate
    <2>1. connections[<<p, q>>] + (IF p = q THEN 1 ELSE connections[<<q, p>>]) <= 1
      BY DEF NoDuplicate
    <2>2. /\ connections'[<<p, q>>] = IF p = src /\ q = dst THEN 1 ELSE connections[<<p, q>>]
          /\ connections'[<<q, p>>] = IF q = src /\ p = dst THEN 1 ELSE connections[<<q, p>>]
      BY <1>1
    <2> QED
      BY <1>3, <2>1, <2>2
  <1>5. Forgotten'
    <2>1. \A p \in Peers : p \notin possibleConns'[p]
      BY <1>1 DEF Forgotten
    <2>2. ASSUME NEW p \in Peers, NEW q \in Peers, connections'[<<p, q>>] > 0
          PROVE  q \notin possibleConns'[p] /\ p \notin possibleConns'[q]
      <3>1. CASE p = src /\ q = dst
        BY <1>1, <3>1
      <3>2. CASE ~(p = src /\ q = dst)
        <4>1. connections[<<p, q>>] > 0
          BY <1>1, <2>2, <3>2
        <4> QED
          BY <1>1, <4>1 DEF Forgotten
      <3> QED
        BY <3>1, <3>2
    <2> QED
      BY <1>2, <2>1, <2>2 DEF Forgotten
  <1>6. Rejected'
    <2> SUFFICES ASSUME NEW p \in Peers, NEW q \in Peers, p # q,
                        q \notin possibleConns'[p]
                 PROVE  \/ connections'[<<p, q>>] + connections'[<<q, p>>] > 0
                        \/ connCount'[p] >= t.MaxPeers
                        \/ connCount'[q] >= t.MaxPeers
      BY <1>2 DEF Rejected, Joined, Full
    <2>1. CASE <<p, q>> = <<src, dst>> \/ <<p, q>> = <<dst, src>>
      <3>1. connections'[<<src, dst>>] = 1
        BY <1>1
      <3> QED
        BY <1>3, <2>1, <3>1
    <2>2. CASE <<p, q>> # <<src, dst>> /\ <<p, q>> # <<dst, src>>
      <3>1. q \notin possibleConns[p]
        BY <1>1, <2>2
      <3>2. \/ connections[<<p, q>>] + connections[<<q, p>>] > 0
            \/ connCount[p] >= t.MaxPeers \/ connCount[q] >= t.MaxPeers
        BY <3>1 DEF Rejected, Joined, Full
      <3>3. connections'[<<p, q>>] = connections[<<p, q>>]
            /\ connections'[<<q, p>>] = connections[<<q, p>>]
        BY <1>1, <2>2
      <3>4. connCount'[p] >= connCount[p] /\ connCount'[q] >= connCount[q]
        BY <1>1, <1>2
      <3> QED
        BY <1>1, <1>2, <3>2, <3>3, <3>4
    <2> QED
      BY <2>1, <2>2
  <1> QED
    BY <1>4, <1>5, <1>6

\* The ring's next pair is not on the list.
LEMMA RingFresh ==
  ASSUME IInv, RingStep
  PROVE  /\ i \in Peers /\ (i + 1) % n \in Peers /\ i # (i + 1) % n
         /\ connections[<<i, (i + 1) % n>>] = 0 /\ connections[<<(i + 1) % n, i>>] = 0
         /\ LinkEffect(i, (i + 1) % n)
  <1> DEFINE src == i
             dst == (i + 1) % n
  <1>1. /\ n \in Nat /\ t.MaxPeers \in Nat /\ i \in Nat /\ count \in Nat /\ count > 0
        /\ phase = "ring" /\ t.CreateRing /\ i < RingEnd
        /\ n' = n /\ t' = t /\ i' = i + 1 /\ count' = count - 1 /\ phase' = phase
        /\ possiblePeers' = possiblePeers /\ peerMap' = peerMap
    BY Params DEF IInv, RingStep, RingNext
  <1>2. n >= 2 /\ i < n /\ dst = IF i + 1 = n THEN 0 ELSE i + 1
    BY <1>1, Neighbour DEF RingEnd
  <1>3. src \in Peers /\ dst \in Peers /\ src # dst /\ Peers' = Peers
    BY <1>1, <1>2 DEF Peers
  <1>4. /\ \A p, q \in Peers : connections[<<p, q>>] > 0 => p < i /\ q = (p + 1) % n
        /\ \A p \in Peers : connCount[p] = (IF p < i THEN 1 ELSE 0)
                                          + (IF p > 0 /\ p <= i THEN 1 ELSE 0)
                                          + (IF p = 0 /\ i = n THEN 1 ELSE 0)
        /\ possiblePeers = Peers
    BY <1>1 DEF IInv, RingShape
  <1>5. connections[<<src, dst>>] = 0 /\ connections[<<dst, src>>] = 0
    <2>1. connections[<<src, dst>>] \in Nat /\ connections[<<dst, src>>] \in Nat
      BY <1>3 DEF IInv, TypeOK
    <2>2. ~(connections[<<src, dst>>] > 0)
      <3>1. ~(src < i)
        BY <1>1
      <3> HIDE DEF src, dst
      <3> QED
        BY <1>3, <1>4, <3>1
    <2>3. ASSUME connections[<<dst, src>>] > 0 PROVE FALSE
      <3>1. dst < i /\ src = (dst + 1) % n
        BY <1>3, <1>4, <2>3
      <3>2. dst = 0 /\ i + 1 = n
        BY <1>1, <1>2, <3>1
      <3>3. 1 % n = 1
        BY <1>1, <1>2
      <3>4. i = 1 /\ n = 2
        BY <1>1, <3>1, <3>2, <3>3
      <3> QED
        BY <1>1, <3>4 DEF RingEnd
    <2> QED
      BY <2>1, <2>2, <2>3
  <1>6. /\ possibleConns' = Linked(possibleConns, src, dst)
        /\ connCount' = Counted(src, dst)
        /\ connections' = Added(src, dst)
    BY DEF RingStep, RingNext
  <1> HIDE DEF src, dst
  <1>7. LinkEffect(src, dst)
    BY <1>1, <1>3, <1>6, LinkFacts DEF IInv
  <1> QED
    BY <1>3, <1>5, <1>7 DEF src, dst

LEMMA RingPreserves ==
  ASSUME IInv, RingStep
  PROVE  IInv'
  <1> DEFINE src == i
             dst == (i + 1) % n
  <1>1. /\ n \in Nat /\ t.MaxPeers \in Nat /\ i \in Nat /\ count \in Nat /\ count > 0
        /\ phase = "ring" /\ t.CreateRing /\ i < RingEnd
        /\ n' = n /\ t' = t /\ i' = i + 1 /\ count' = count - 1 /\ phase' = phase
        /\ possiblePeers' = possiblePeers /\ peerMap' = peerMap
    BY Params DEF IInv, RingStep, RingNext
  <1>2. n >= 2 /\ i < n /\ dst = IF i + 1 = n THEN 0 ELSE i + 1
    BY <1>1, Neighbour DEF RingEnd
  <1>3. src \in Peers /\ dst \in Peers /\ src # dst /\ Peers' = Peers
    BY <1>1, <1>2 DEF Peers
  <1>4. /\ \A p, q \in Peers : connections[<<p, q>>] > 0 => p < i /\ q = (p + 1) % n
        /\ \A p \in Peers : connCount[p] = (IF p < i THEN 1 ELSE 0)
                                          + (IF p > 0 /\ p <= i THEN 1 ELSE 0)
                                          + (IF p = 0 /\ i = n THEN 1 ELSE 0)
        /\ possiblePeers = Peers
    BY <1>1 DEF IInv, RingShape
  <1>5. connections[<<src, dst>>] = 0 /\ connections[<<dst, src>>] = 0
    BY RingFresh
  <1>6. /\ possibleConns' = Linked(possibleConns, src, dst)
        /\ connCount' = Counted(src, dst)
        /\ connections' = Added(src, dst)
    BY DEF RingStep, RingNext
  <1> HIDE DEF src, dst
  <1>7. NoDuplicate' /\ Forgotten' /\ Rejected'
    BY <1>1, <1>3, <1>5, <1>6, LinkCore DEF IInv
  <1>8. /\ connCount' \in [Peers -> Nat]
        /\ possibleConns' \in [Peers -> SUBSET Peers]
        /\ connections' \in [Peers \X Peers -> Nat]
        /\ \A p \in Peers : connCount'[p] = IF p = src \/ p = dst
                                            THEN connCount[p] + 1 ELSE connCount[p]
        /\ \A p, q \in Peers : connections'[<<p, q>>] =
              IF p = src /\ q = dst THEN connections[<<p, q>>] + 1 ELSE connections[<<p, q>>]
    <2>1. LinkEffect(src, dst)
      BY <1>1, <1>3, <1>6, LinkFacts DEF IInv
    <2> QED
      BY <2>1 DEF LinkEffect
  <1>9. TypeOK'
    BY <1>1, <1>3, <1>8 DEF IInv, TypeOK
  <1>10. \A p \in Peers : connCount'[p] = (IF p < i + 1 THEN 1 ELSE 0)
                                         + (IF p > 0 /\ p <= i + 1 THEN 1 ELSE 0)
                                         + (IF p = 0 /\ i + 1 = n THEN 1 ELSE 0)
    <2> TAKE p \in Peers
    <2>1. p \in Nat /\ p < n
      BY <1>1 DEF Peers
    <2>2. connCount[p] = (IF p < i THEN 1 ELSE 0) + (IF p > 0 /\ p <= i THEN 1 ELSE 0)
                         + (IF p = 0 /\ i = n THEN 1 ELSE 0)
      BY <1>4
    <2>3. connCount'[p] = IF p = src \/ p = dst THEN connCount[p] + 1 ELSE connCount[p]
      BY <1>8
    <2>4. src = i /\ dst = IF i + 1 = n THEN 0 ELSE i + 1
      BY <1>2 DEF src
    <2> QED
      BY <1>1, <1>2, <2>1, <2>2, <2>3, <2>4
  <1>11. \A p, q \in Peers : connections'[<<p, q>>] > 0 => p < i + 1 /\ q = (p + 1) % n
    <2> SUFFICES ASSUME NEW p \in Peers, NEW q \in Peers, connections'[<<p, q>>] > 0
                 PROVE  p < i + 1 /\ q = (p + 1) % n
      OBVIOUS
    <2>0. p \in Nat
      BY <1>1 DEF Peers
    <2>1. CASE p = src /\ q = dst
      BY <1>1, <2>1 DEF src, dst
    <2>2. CASE ~(p = src /\ q = dst)
      <3>1. connections[<<p, q>>] > 0
        BY <1>8, <2>2
      <3> QED
        BY <1>1, <1>4, <2>0, <3>1
    <2> QED
      BY <2>1, <2>2
  <1>12. RingShape'
    BY <1>1, <1>2, <1>3, <1>4, <1>10, <1>11 DEF RingShape, RingEnd
  <1>13. DegreeBound'
    <2>1. \A p \in Peers : p \in Nat
      BY <1>1 DEF Peers
    <2>2. \A p \in Peers : connCount'[p] <= 2
      BY <1>1, <1>10, <2>1
    <2> QED
      BY <1>1, <1>3, <2>2 DEF DegreeBound
  <1>14. Dropped' /\ Uniform' /\ Stopped' /\ possiblePeers' = peerMap'
    BY <1>1, <1>3, <1>4 DEF IInv, Dropped, Uniform, Stopped
  <1> QED
    BY <1>7, <1>9, <1>12, <1>13, <1>14 DEF IInv

LEMMA RingDonePreserves ==
  ASSUME IInv, RingDone
  PROVE  IInv'
  <1>1. /\ n \in Nat /\ t.MaxPeers \in Nat /\ i \in Nat /\ count \in Nat
        /\ phase = "ring" /\ phase' = "random"
        /\ ~(t.CreateRing /\ i < RingEnd /\ count > 0)
    BY Params DEF IInv, RingDone
  <1>2. UNCHANGED <<t, n, i, count, possiblePeers, peerMap, connCount, possibleConns,
                    connections>>
    BY DEF RingDone
  <1>3. TypeOK' /\ NoDuplicate' /\ DegreeBound' /\ possiblePeers' = peerMap'
    BY <1>1, <1>2 DEF IInv, TypeOK, NoDuplicate, DegreeBound, Peers
  <1>4. Forgotten' /\ Rejected' /\ Dropped'
    BY <1>2 DEF IInv, Forgotten, Rejected, Dropped, Joined, Full, Peers
  <1>5. RingShape' /\ Stopped'
    BY <1>1 DEF RingShape, Stopped
  <1>6. Uniform'
    <2> SUFFICES ASSUME count > 0
                 PROVE  \A p, q \in Peers : connCount[p] = connCount[q]
      BY <1>2, <1>3 DEF Uniform, Full, Peers, TypeOK
    <2>1. /\ i <= n /\ (i > 0 => t.CreateRing /\ i <= RingEnd)
          /\ ~t.CreateRing \/ i >= RingEnd
          /\ \A p \in Peers : connCount[p] = (IF p < i THEN 1 ELSE 0)
                                            + (IF p > 0 /\ p <= i THEN 1 ELSE 0)
                                            + (IF p = 0 /\ i = n THEN 1 ELSE 0)
      BY <1>1 DEF IInv, RingShape, RingEnd
    <2>2. (n = 0) \/ (i = 0) \/ (n = 2 /\ i = 1) \/ (n >= 3 /\ i = n)
      BY <1>1, <2>1 DEF RingEnd
    <2>3. \A p \in Peers : p \in Nat /\ p < n
      BY <1>1 DEF Peers
    <2>4. CASE i = 0
      BY <1>1, <2>1, <2>3, <2>4
    <2>5. CASE i = 1 /\ n = 2
      BY <1>1, <2>1, <2>3, <2>5
    <2>6. CASE n >= 3 /\ i = n
      BY <1>1, <2>1, <2>3, <2>6
    <2>7. CASE n = 0
      BY <1>1, <2>3, <2>7
    <2> QED
      BY <2>2, <2>4, <2>5, <2>6, <2>7
  <1> QED
    BY <1>3, <1>4, <1>5, <1>6 DEF IInv

LEMMA RejectPreserves ==
  ASSUME IInv, NEW src \in Peers, NEW dst \in Peers \cup {NoPort}, Reject(src, dst)
  PROVE  IInv'
  <1>1. /\ n \in Nat /\ t.MaxPeers \in Nat /\ i \in Nat /\ count \in Nat
        /\ phase = "random" /\ count > 0
        /\ UNCHANGED <<t, n, phase, i, count, connCount, connections>>
        /\ src \in possiblePeers
        /\ possibleConns' = [possibleConns EXCEPT ![src] = @ \ {dst}]
    BY Params DEF IInv, Reject, Draw
  <1>2. Peers' = Peers /\ connCount \in [Peers -> Nat]
        /\ possibleConns \in [Peers -> SUBSET Peers]
    BY <1>1 DEF Peers, IInv, TypeOK
  <1>3. /\ \A p, q \in Peers : q \in possibleConns'[p] <=>
                q \in possibleConns[p] /\ ~(p = src /\ q = dst)
        /\ \A p \in Peers : possibleConns'[p] \subseteq possibleConns[p]
    BY <1>1, <1>2
  <1>4. PICK gone \in SUBSET {src} :
          /\ peerMap' = peerMap \ gone /\ possiblePeers' = possiblePeers \ gone
          /\ gone # {} => ~CanBeUsed(possibleConns', connCount, src)
    <2> DEFINE g == IF CanBeUsed(possibleConns', connCount, src) THEN {} ELSE {src}
    <2>1. peerMap' = peerMap \ g /\ possiblePeers' = possiblePeers \ g
      BY DEF Reject, Unusable
    <2>2. g \in SUBSET {src} /\ (g # {} => ~CanBeUsed(possibleConns', connCount, src))
      OBVIOUS
    <2> QED
      BY <2>1, <2>2
  <1>5. TypeOK' /\ possiblePeers' = peerMap'
    BY <1>1, <1>2, <1>4 DEF IInv, TypeOK
  <1>6. NoDuplicate' /\ DegreeBound' /\ RingShape' /\ Stopped'
    BY <1>1, <1>2 DEF IInv, NoDuplicate, DegreeBound, RingShape, Stopped
  <1>7. Forgotten'
    BY <1>1, <1>2, <1>3 DEF IInv, Forgotten
  <1>8. ASSUME dst \in Peers, dst # src PROVE Joined(src, dst) \/ Full(src) \/ Full(dst)
    <2>1. dst \notin possiblePeers \/ possibleConns[dst] = {} \/ Full(dst)
      BY <1>1, <1>2, <1>8 DEF Reject, Accepts, CanBeUsed, Full, IInv
    <2>2. possibleConns[dst] = {} \/ Full(dst)
      BY <1>8, <2>1 DEF IInv, Dropped
    <2>3. CASE possibleConns[dst] = {}
      <3>1. Joined(dst, src) \/ Full(dst) \/ Full(src)
        BY <1>8, <2>3 DEF IInv, Rejected
      <3>2. connections[<<src, dst>>] \in Nat /\ connections[<<dst, src>>] \in Nat
        BY <1>8 DEF IInv, TypeOK
      <3> QED
        BY <3>1, <3>2 DEF Joined
    <2> QED
      BY <2>2, <2>3
  <1>9. Rejected'
    <2> SUFFICES ASSUME NEW p \in Peers, NEW q \in Peers, p # q, q \notin possibleConns'[p]
                 PROVE  Joined(p, q) \/ Full(p) \/ Full(q)
      BY <1>1, <1>2 DEF Rejected, Joined, Full
    <2>1. CASE p = src /\ q = dst
      BY <1>8, <2>1
    <2>2. CASE ~(p = src /\ q = dst)
      BY <1>3, <2>2 DEF IInv, Rejected
    <2> QED
      BY <2>1, <2>2
  <1>10. Dropped'
    <2> SUFFICES ASSUME NEW p \in Peers, p \notin possiblePeers'
                 PROVE  Full(p) \/ possibleConns'[p] = {}
      BY <1>1, <1>2 DEF Dropped, Full
    <2>1. CASE p \notin possiblePeers
      BY <1>3, <2>1 DEF IInv, Dropped
    <2>2. CASE p \in possiblePeers
      <3>1. p = src /\ ~CanBeUsed(possibleConns', connCount, src)
        BY <1>4, <2>2
      <3> QED
        BY <1>1, <1>2, <3>1 DEF CanBeUsed, Full
    <2> QED
      BY <2>1, <2>2
  <1>11. Uniform'
    <2>1. possiblePeers' \subseteq possiblePeers
      BY <1>4
    <2> QED
      BY <1>1, <1>2, <2>1 DEF IInv, Uniform, Full
  <1> QED
    BY <1>5, <1>6, <1>7, <1>9, <1>10, <1>11 DEF IInv

\* Nor is a pair that the random loop accepts.
LEMMA LinkFresh ==
  ASSUME IInv, NEW src \in Peers, NEW dst \in Peers \cup {NoPort}, Link(src, dst)
  PROVE  /\ dst \in Peers /\ src # dst
         /\ connections[<<src, dst>>] = 0 /\ connections[<<dst, src>>] = 0
         /\ LinkEffect(src, dst)
  <1>1. /\ n \in Nat /\ t.MaxPeers \in Nat /\ i \in Nat /\ count \in Nat
        /\ phase = "random" /\ count > 0 /\ count' = count - 1
        /\ t' = t /\ n' = n /\ phase' = phase /\ i' = i
        /\ src \in possiblePeers /\ dst \in peerMap /\ dst \in Peers
        /\ dst \in Popped(src) /\ CanBeUsed(possibleConns, connCount, dst)
        /\ possibleConns' = Linked(possibleConns, src, dst)
        /\ connCount' = Counted(src, dst)
        /\ connections' = Added(src, dst)
    BY Params DEF IInv, TypeOK, Link, Draw, Accepts
  <1>2. dst \in possibleConns[src] /\ src # dst
    <2>1. dst # NoPort
      BY <1>1 DEF Peers, NoPort
    <2>2. dst \in possibleConns[src]
      BY <1>1, <2>1 DEF Popped
    <2> QED
      BY <2>2 DEF IInv, Forgotten
  <1>3. connections[<<src, dst>>] = 0 /\ connections[<<dst, src>>] = 0
    BY <1>1, <1>2 DEF IInv, Forgotten, TypeOK
  <1>4. LinkEffect(src, dst)
    BY <1>1, <1>2, LinkFacts DEF IInv
  <1> QED
    BY <1>1, <1>2, <1>3, <1>4

LEMMA LinkPreserves ==
  ASSUME IInv, NEW src \in Peers, NEW dst \in Peers \cup {NoPort}, Link(src, dst)
  PROVE  IInv'
  <1>1. /\ n \in Nat /\ t.MaxPeers \in Nat /\ i \in Nat /\ count \in Nat
        /\ phase = "random" /\ count > 0 /\ count' = count - 1
        /\ t' = t /\ n' = n /\ phase' = phase /\ i' = i
        /\ src \in possiblePeers /\ dst \in peerMap /\ dst \in Peers
        /\ dst \in Popped(src) /\ CanBeUsed(possibleConns, connCount, dst)
        /\ possibleConns' = Linked(possibleConns, src, dst)
        /\ connCount' = Counted(src, dst)
        /\ connections' = Added(src, dst)
    BY Params DEF IInv, TypeOK, Link, Draw, Accepts
  <1>2. src # dst
    BY LinkFresh
  <1>3. connections[<<src, dst>>] = 0 /\ connections[<<dst, src>>] = 0
    BY LinkFresh
  <1>4. NoDuplicate' /\ Forgotten' /\ Rejected'
    BY <1>1, <1>2, <1>3, LinkCore DEF IInv
  <1>5. LinkEffect(src, dst)
    BY LinkFresh
  <1>6. Peers' = Peers /\ connCount \in [Peers -> Nat]
    BY <1>1 DEF Peers, IInv, TypeOK
  <1>7. PICK gone \in SUBSET possiblePeers :
          /\ peerMap' = peerMap \ gone /\ possiblePeers' = possiblePeers \ gone
          /\ \A p \in gone : ~CanBeUsed(possibleConns', connCount', p)
          /\ \A p \in {src, dst} : CanBeUsed(possibleConns', connCount', p) \/ p \in gone
    <2> DEFINE Usable(p) == CanBeUsed(possibleConns', connCount', p)
               g == IF Usable(src) /\ Usable(dst)
                    THEN {} ELSE {p \in possiblePeers : ~Usable(p)}
    <2>1. peerMap' = peerMap \ g /\ possiblePeers' = possiblePeers \ g
      BY DEF Link, Unusable
    <2>2. src \in possiblePeers /\ dst \in possiblePeers
      BY <1>1 DEF IInv
    <2> HIDE DEF Usable
    <2>3. /\ g \in SUBSET possiblePeers
          /\ \A p \in g : ~Usable(p)
          /\ \A p \in {src, dst} : Usable(p) \/ p \in g
      BY <2>2
    <2> HIDE DEF g
    <2> QED
      BY <2>1, <2>3 DEF Usable
  <1>8. TypeOK' /\ possiblePeers' = peerMap'
    BY <1>1, <1>5, <1>6, <1>7 DEF IInv, TypeOK, LinkEffect
  <1>9. RingShape' /\ Stopped'
    BY <1>1 DEF RingShape, Stopped
  <1>10. (\A p \in possiblePeers : ~Full(p)) /\ ~Full(src) /\ ~Full(dst)
    <2>1. ~Full(dst)
      BY <1>1, <1>6 DEF CanBeUsed, Full
    <2>2. \A p \in possiblePeers : ~Full(p)
      BY <1>1, <2>1 DEF IInv, Uniform
    <2> QED
      BY <1>1, <2>1, <2>2
  <1>11. \A p \in Peers : connCount'[p] = IF p = src \/ p = dst
                                          THEN connCount[p] + 1 ELSE connCount[p]
    BY <1>5 DEF LinkEffect
  <1>12. DegreeBound'
    BY <1>1, <1>6, <1>10, <1>11 DEF IInv, DegreeBound, Full
  <1>13. Dropped'
    <2> SUFFICES ASSUME NEW p \in Peers, p \notin possiblePeers'
                 PROVE  connCount'[p] >= t.MaxPeers \/ possibleConns'[p] = {}
      BY <1>1, <1>6 DEF Dropped, Full
    <2>0. connCount'[p] \in Nat /\ possibleConns'[p] \subseteq possibleConns[p]
      BY <1>5 DEF LinkEffect
    <2>1. CASE p \notin possiblePeers
      <3>1. Full(p) \/ possibleConns[p] = {}
        BY <2>1 DEF IInv, Dropped
      <3>2. connCount'[p] >= connCount[p]
        BY <1>6, <1>11
      <3> QED
        BY <1>1, <1>6, <2>0, <3>1, <3>2 DEF Full
    <2>2. CASE p \in possiblePeers
      <3>1. ~CanBeUsed(possibleConns', connCount', p)
        BY <1>7, <2>2
      <3> QED
        BY <1>1, <2>0, <3>1 DEF CanBeUsed
    <2> QED
      BY <2>1, <2>2
  <1>14. Uniform'
    <2> SUFFICES ASSUME NEW p \in possiblePeers' PROVE ~(connCount'[p] >= t.MaxPeers)
      BY <1>1 DEF Uniform, Full
    <2>1. p \in possiblePeers /\ p \in Peers
      BY <1>7 DEF IInv, TypeOK
    <2>2. connCount'[p] \in Nat
      BY <1>5, <2>1 DEF LinkEffect
    <2>3. CASE p = src \/ p = dst
      <3>1. CanBeUsed(possibleConns', connCount', p)
        BY <1>7, <2>3
      <3> QED
        BY <1>1, <2>2, <3>1 DEF CanBeUsed
    <2>4. CASE p # src /\ p # dst
      BY <1>10, <1>11, <2>1, <2>4 DEF Full
    <2> QED
      BY <2>3, <2>4
  <1> QED
    BY <1>4, <1>8, <1>9, <1>12, <1>13, <1>14 DEF IInv

LEMMA ReturnPreserves ==
  ASSUME IInv, Return \/ UNCHANGED vars
  PROVE  IInv'
  <1>1. UNCHANGED <<t, n, i, count, possiblePeers, peerMap, connCount, possibleConns,
                    connections>>
    BY DEF Return, vars
  <1>2. \/ phase = "random" /\ phase' = "done" /\ (count = 0 \/ possiblePeers = {})
        \/ phase' = phase
    BY DEF Return, vars
  <1>3. TypeOK' /\ NoDuplicate' /\ DegreeBound' /\ possiblePeers' = peerMap'
    BY <1>1, <1>2 DEF IInv, TypeOK, NoDuplicate, DegreeBound, Peers
  <1>4. Forgotten' /\ Rejected' /\ Dropped'
    BY <1>1 DEF IInv, Forgotten, Rejected, Dropped, Joined, Full, Peers
  <1>5. RingShape'
    BY <1>1, <1>2 DEF IInv, RingShape, RingEnd, Peers
  <1>6. Uniform' /\ Stopped'
    BY <1>1, <1>2 DEF IInv, Uniform, Full, Peers, Stopped
  <1> QED
    BY <1>3, <1>4, <1>5, <1>6 DEF IInv

LEMMA NextIInv == IInv /\ [Next]_vars => IInv'
  BY RingPreserves, RingDonePreserves, RejectPreserves, LinkPreserves, ReturnPreserves DEF Next

LEMMA Inductive == Spec => []IInv
  BY InitIInv, NextIInv, PTL DEF Spec

LEMMA IInvSafe == IInv => DrawnIsMapped /\ Saturated
  <1> SUFFICES ASSUME IInv PROVE DrawnIsMapped /\ Saturated
    OBVIOUS
  <1>1. DrawnIsMapped
    BY DEF IInv, DrawnIsMapped
  <1>2. ASSUME phase = "done", count > 0, NEW p \in Peers, NEW q \in Peers, p # q
        PROVE  Joined(p, q) \/ Full(p) \/ Full(q)
    <2>1. possiblePeers = {}
      BY <1>2, Params DEF IInv, Stopped
    <2>2. Full(p) \/ possibleConns[p] = {}
      BY <2>1 DEF IInv, Dropped
    <2> QED
      BY <1>2, <2>2 DEF IInv, Rejected
  <1> QED
    BY <1>1, <1>2 DEF Saturated, Full

(***************************************************************************)
(* The variables of populate stay in their types; count, an unsigned       *)
(* integer, is never decremented below zero (lines 57 and 84).             *)
(***************************************************************************)
THEOREM TypeCorrect == Spec => []TypeOK
  BY Inductive, PTL DEF IInv

(***************************************************************************)
(* For any peers and any receiver the list holds no pair twice and no peer *)
(* paired with itself, so ConnectAll never calls Connect for a pair that   *)
(* is under way or connected (lines 52-56 and 83-90).                      *)
(***************************************************************************)
THEOREM PairsUnique == Spec => []NoDuplicate
  BY Inductive, PTL DEF IInv

(***************************************************************************)
(* No entry of peerMap is nil when it is used (lines 67-73 and 99-100).    *)
(***************************************************************************)
THEOREM NoNilPeer == Spec => []DrawnIsMapped
  BY Inductive, IInvSafe, PTL

(***************************************************************************)
(* Degrees stay within MaxPeers, or within two for a ring, although the    *)
(* loop never checks the source (lines 73-88).                             *)
(***************************************************************************)
THEOREM DegreesBounded == Spec => []DegreeBound
  BY Inductive, PTL DEF IInv

(***************************************************************************)
(* If populate returns with connections missing, no pair of peers could    *)
(* have been joined (line 62): the lazy bookkeeping loses none.            *)
(***************************************************************************)
THEOREM GivesUpOnlySaturated == Spec => []Saturated
  BY Inductive, IInvSafe, PTL

-----------------------------------------------------------------------------
(***************************************************************************)
(* The list as a graph: its size, its degrees and the ring on it.          *)
(***************************************************************************)
LEMMA PairIs ==
  ASSUME NEW S, IsFiniteSet(S), NEW e
  PROVE  e \in PairsOf(S) <=> \E p, q \in S : p # q /\ e = {p, q}
  <1>1. ASSUME e \in PairsOf(S) PROVE \E p, q \in S : p # q /\ e = {p, q}
    <2>1. e \in SUBSET S /\ Cardinality(e) = 2
      BY <1>1 DEF PairsOf, kSubset
    <2>2. IsFiniteSet(e)
      BY <2>1, FS_Subset
    <2>3. e # {}
      BY <2>1, FS_EmptySet
    <2>4. PICK p \in e : TRUE
      BY <2>3
    <2>5. IsFiniteSet(e \ {p}) /\ Cardinality(e \ {p}) = 1
      BY <2>1, <2>2, <2>4, FS_RemoveElement
    <2>6. PICK q : e \ {p} = {q}
      BY <2>5, FS_Singleton
    <2>7. e = {p, q} /\ p # q /\ p \in S /\ q \in S
      BY <2>1, <2>4, <2>6
    <2> QED
      BY <2>7
  <1>2. ASSUME NEW p \in S, NEW q \in S, p # q, e = {p, q} PROVE e \in PairsOf(S)
    <2>1. IsFiniteSet({p}) /\ Cardinality({p}) = 1
      BY FS_Singleton
    <2>2. Cardinality({p} \cup {q}) = 2
      BY <1>2, <2>1, FS_AddElement
    <2>3. {p} \cup {q} = e
      BY <1>2
    <2> QED
      BY <1>2, <2>2, <2>3 DEF PairsOf, kSubset
  <1> QED
    BY <1>1, <1>2

LEMMA PeersFinite ==
  ASSUME n \in Nat
  PROVE  IsFiniteSet(Peers) /\ Cardinality(Peers) = n
  BY FS_Interval DEF Peers

\* The pairs of a multiset c of ordered pairs.
Tied(c, p, q) == c[<<p, q>>] + c[<<q, p>>] > 0
GraphOf(S, c) == {e \in PairsOf(S) : \E p, q \in e : p # q /\ Tied(c, p, q)}

LEMMA GraphIs ==
  ASSUME NEW S, IsFiniteSet(S), NEW c \in [S \X S -> Nat], NEW e
  PROVE  e \in GraphOf(S, c) <=> \E p, q \in S : p # q /\ e = {p, q} /\ Tied(c, p, q)
  <1>1. ASSUME NEW p \in S, NEW q \in S PROVE Tied(c, p, q) <=> Tied(c, q, p)
    <2>1. c[<<p, q>>] \in Nat /\ c[<<q, p>>] \in Nat
      OBVIOUS
    <2> QED
      BY <2>1 DEF Tied
  <1>2. ASSUME e \in PairsOf(S), \E p, q \in e : p # q /\ Tied(c, p, q)
        PROVE  \E p, q \in S : p # q /\ e = {p, q} /\ Tied(c, p, q)
    <2>1. PICK p \in S, q \in S : p # q /\ e = {p, q}
      BY <1>2, PairIs
    <2>2. Tied(c, p, q)
      BY <1>1, <1>2, <2>1
    <2> QED
      BY <2>1, <2>2
  <1>3. ASSUME NEW p \in S, NEW q \in S, p # q, e = {p, q}, Tied(c, p, q)
        PROVE  e \in PairsOf(S) /\ \E x, y \in e : x # y /\ Tied(c, x, y)
    BY <1>3, PairIs
  <1> QED
    BY <1>2, <1>3 DEF GraphOf

LEMMA ListIsGraph == List = GraphOf(Peers, connections)
  BY DEF List, Joined, GraphOf, Tied

LEMMA ListIs ==
  ASSUME TypeOK, NEW e
  PROVE  e \in List <=> \E p, q \in Peers : p # q /\ e = {p, q} /\ Joined(p, q)
  <1>1. IsFiniteSet(Peers) /\ connections \in [Peers \X Peers -> Nat]
    BY Params, PeersFinite DEF TypeOK
  <1>2. e \in GraphOf(Peers, connections) <=>
          \E p, q \in Peers : p # q /\ e = {p, q} /\ Tied(connections, p, q)
    BY <1>1, GraphIs
  <1> QED
    BY <1>2, ListIsGraph DEF Joined, Tied

LEMMA ListFinite ==
  ASSUME TypeOK
  PROVE  IsFiniteSet(List) /\ \A p : IsFiniteSet({e \in List : p \in e})
  <1>1. IsFiniteSet(SUBSET Peers)
    BY Params, PeersFinite, FS_SUBSET
  <1>2. List \subseteq SUBSET Peers
    BY DEF List, PairsOf, kSubset
  <1>3. IsFiniteSet(List)
    BY <1>1, <1>2, FS_Subset
  <1>4. \A p : {e \in List : p \in e} \in SUBSET List
    OBVIOUS
  <1> QED
    BY <1>3, <1>4, FS_Subset

\* A link puts one new pair on the list.
LEMMA LinkListed ==
  ASSUME TypeOK, TypeOK', n' = n, t' = t, NEW src \in Peers, NEW dst \in Peers, src # dst,
         connections[<<src, dst>>] = 0, connections[<<dst, src>>] = 0,
         LinkEffect(src, dst), count \in Nat, count > 0, count' = count - 1, Tally
  PROVE  Tally'
  <1> DEFINE new == {src, dst}
  <1>0. Peers' = Peers
    BY DEF Peers
  <1>1. \A p, q \in Peers : connections[<<p, q>>] \in Nat /\ connections'[<<p, q>>] \in Nat
    BY <1>0 DEF TypeOK
  <1>2. \A p, q \in Peers : connections'[<<p, q>>] =
           IF p = src /\ q = dst THEN connections[<<p, q>>] + 1 ELSE connections[<<p, q>>]
    BY DEF LinkEffect
  <1>3. ASSUME NEW p \in Peers, NEW q \in Peers
        PROVE  Joined(p, q)' <=> Joined(p, q) \/ {p, q} = new
    <2>1. {p, q} = new <=> (p = src /\ q = dst) \/ (p = dst /\ q = src)
      OBVIOUS
    <2>2. CASE p = src /\ q = dst
      BY <1>1, <1>2, <2>1, <2>2 DEF Joined
    <2>3. CASE p = dst /\ q = src
      BY <1>1, <1>2, <2>1, <2>3 DEF Joined
    <2>4. CASE ~(p = src /\ q = dst) /\ ~(p = dst /\ q = src)
      BY <1>1, <1>2, <2>1, <2>4 DEF Joined
    <2> QED
      BY <2>2, <2>3, <2>4
  <1>4. new \notin List
    <2> SUFFICES ASSUME new \in List PROVE FALSE
      OBVIOUS
    <2>1. PICK p \in Peers, q \in Peers : p # q /\ new = {p, q} /\ Joined(p, q)
      BY ListIs
    <2>2. (p = src /\ q = dst) \/ (p = dst /\ q = src)
      BY <2>1
    <2> QED
      BY <2>1, <2>2 DEF Joined
  <1>5. List' = List \cup {new}
    <2>1. ASSUME NEW e
          PROVE  e \in List' <=> \E p, q \in Peers : p # q /\ e = {p, q} /\ Joined(p, q)'
      <3>1. IsFiniteSet(Peers) /\ connections' \in [Peers \X Peers -> Nat]
        BY <1>0, Params, PeersFinite DEF TypeOK
      <3>2. e \in GraphOf(Peers, connections') <=>
              \E p, q \in Peers : p # q /\ e = {p, q} /\ Tied(connections', p, q)
        BY <3>1, GraphIs
      <3>3. List' = GraphOf(Peers, connections')
        BY <1>0 DEF List, Joined, GraphOf, Tied
      <3> QED
        BY <3>2, <3>3 DEF Joined, Tied
    <2>2. ASSUME NEW e PROVE e \in List' <=> e \in List \cup {new}
      <3>1. e \in List' <=> \E p, q \in Peers : p # q /\ e = {p, q} /\ (Joined(p, q) \/ {p, q} = new)
        <4>1. \A p, q \in Peers : Joined(p, q)' <=> Joined(p, q) \/ {p, q} = new
          BY <1>3
        <4>2. e \in List' <=> \E p, q \in Peers : p # q /\ e = {p, q} /\ Joined(p, q)'
          BY <2>1
        <4> HIDE DEF new
        <4> QED
          BY <4>1, <4>2
      <3>2. e \in List <=> \E p, q \in Peers : p # q /\ e = {p, q} /\ Joined(p, q)
        BY ListIs
      <3>3. new = {src, dst} /\ src # dst
        OBVIOUS
      <3> HIDE DEF new
      <3> QED
        BY <3>1, <3>2, <3>3
    <2> QED
      BY <2>2
  <1>6. Cardinality(List') = Cardinality(List) + 1 /\ Cardinality(List) \in Nat
    BY <1>4, <1>5, ListFinite, FS_AddElement, FS_CardinalityType
  <1>7. Cardinality(List') + count' = t'.Count
    <2>1. Cardinality(List) + count = t.Count
      BY DEF Tally
    <2> DEFINE x == Cardinality(List)
               y == Cardinality(List')
    <2>2. x \in Nat /\ y = x + 1 /\ x + count = t.Count
      BY <1>6, <2>1
    <2> HIDE DEF x, y
    <2>3. y + (count - 1) = t.Count
      BY <2>2
    <2> QED
      BY <2>3 DEF y
  <1>8. ASSUME NEW p \in Peers PROVE DegreeIn(List, p)' = connCount'[p]
    <2> DEFINE D == {e \in List : p \in e}
    <2>1. Cardinality(D) = connCount[p]
      BY DEF Tally, DegreeIn
    <2>2. IsFiniteSet(D) /\ new \notin D
      BY <1>4, ListFinite
    <2>3. connCount'[p] = IF p = src \/ p = dst THEN connCount[p] + 1 ELSE connCount[p]
      BY DEF LinkEffect
    <2>4. DegreeIn(List, p)' = Cardinality({e \in List' : p \in e})
      BY DEF DegreeIn
    <2>5. CASE p = src \/ p = dst
      <3>1. {e \in List' : p \in e} = D \cup {new}
        BY <1>5, <2>5
      <3>2. Cardinality(D \cup {new}) = Cardinality(D) + 1
        BY <2>2, FS_AddElement
      <3> QED
        BY <2>1, <2>3, <2>4, <2>5, <3>1, <3>2
    <2>6. CASE p # src /\ p # dst
      <3>1. {e \in List' : p \in e} = D
        BY <1>5, <2>6
      <3> QED
        BY <2>1, <2>3, <2>4, <2>6, <3>1
    <2> QED
      BY <2>5, <2>6
  <1> QED
    BY <1>0, <1>7, <1>8 DEF Tally

LEMMA InitPInv == Init => PInv
  <1> SUFFICES ASSUME Init PROVE PInv
    OBVIOUS
  <1>1. /\ n \in Nat /\ t.Count \in Nat /\ i = 0 /\ count = t.Count /\ phase = "ring"
        /\ \A p \in Peers : connCount[p] = 0 /\ p \in Nat
        /\ \A p, q \in Peers : connections[<<p, q>>] = 0
    BY TopologyAssumption DEF Init, Peers
  <1>2. List = {}
    <2>1. TypeOK
      BY InitIInv DEF IInv
    <2>2. ASSUME NEW p \in Peers, NEW q \in Peers PROVE ~Joined(p, q)
      <3>1. connections[<<p, q>>] = 0 /\ connections[<<q, p>>] = 0
        BY <1>1
      <3> QED
        BY <3>1 DEF Joined
    <2> QED
      BY <2>1, <2>2, ListIs
  <1>3. Cardinality({}) = 0
    BY FS_EmptySet
  <1>4. \A p \in Peers : DegreeIn(List, p) = 0
    <2>1. \A p : {e \in List : p \in e} = {}
      BY <1>2
    <2> QED
      BY <1>3, <2>1 DEF DegreeIn
  <1>5. Tally
    BY <1>1, <1>2, <1>3, <1>4 DEF Tally
  <1>6. RingListed
    BY <1>1 DEF RingListed
  <1> QED
    BY <1>5, <1>6 DEF PInv

LEMMA NextPInv ==
  ASSUME IInv, IInv', PInv, [Next]_vars
  PROVE  PInv'
  <1>0. /\ n \in Nat /\ t.Count \in Nat /\ t.CreateRing \in BOOLEAN /\ i \in Nat /\ count \in Nat
        /\ TypeOK /\ TypeOK' /\ connections \in [Peers \X Peers -> Nat]
    BY Params DEF IInv, TypeOK
  <1>k. \A k \in Peers : k \in Nat /\ (k + 1) % n \in Peers
    <2> SUFFICES ASSUME NEW k \in Peers PROVE k \in Nat /\ (k + 1) % n \in Peers
      OBVIOUS
    <2>1. k \in Nat /\ k < n
      BY <1>0 DEF Peers
    <2> QED
      BY <1>0, <2>1, Neighbour DEF Peers
  <1>1. CASE RingStep
    <2>1. /\ t.CreateRing /\ count > 0 /\ count' = count - 1 /\ i' = i + 1
          /\ phase = "ring" /\ phase' = phase /\ n' = n /\ t' = t /\ Peers' = Peers
      BY <1>1 DEF RingStep, Peers
    <2> DEFINE dst == (i + 1) % n
    <2>2. /\ i \in Peers /\ dst \in Peers /\ i # dst
          /\ connections[<<i, dst>>] = 0 /\ connections[<<dst, i>>] = 0
          /\ LinkEffect(i, dst)
      BY <1>1, RingFresh
    <2> HIDE DEF dst
    <2>3. Tally'
      BY <1>0, <2>1, <2>2, LinkListed DEF PInv
    <2>4. ASSUME NEW k \in Peers, k < i + 1 PROVE connections'[<<k, (k + 1) % n>>] > 0
      <3>1. CASE k = i
        BY <2>2, <3>1 DEF LinkEffect, dst
      <3>2. CASE k # i
        <4>1. k < i
          <5>1. k \in Nat /\ i \in Nat
            BY <1>0, <1>k
          <5> QED
            BY <2>4, <3>2, <5>1
        <4>2. connections[<<k, (k + 1) % n>>] > 0
          BY <4>1 DEF PInv, RingListed
        <4> DEFINE q == (k + 1) % n
        <4>3. q \in Peers
          BY <1>k
        <4> HIDE DEF q
        <4>4. connections'[<<k, q>>] = connections[<<k, q>>]
          BY <2>2, <3>2, <4>3 DEF LinkEffect
        <4> QED
          BY <4>2, <4>4 DEF q
      <3> QED
        BY <3>1, <3>2
    <2>5. i + 1 + (count - 1) = t.Count
      BY <1>0, <2>1 DEF PInv, RingListed
    <2>6. RingListed'
      BY <2>1, <2>4, <2>5 DEF RingListed
    <2> QED
      BY <2>3, <2>6 DEF PInv
  <1>2. CASE \E src \in Peers : \E dst \in Peers \cup {NoPort} : Link(src, dst)
    <2>1. PICK src \in Peers, dst \in Peers \cup {NoPort} : Link(src, dst)
      BY <1>2
    <2>2. /\ count > 0 /\ count' = count - 1 /\ i' = i
          /\ phase = "random" /\ phase' = phase /\ n' = n /\ t' = t /\ Peers' = Peers
      BY <2>1 DEF Link, Draw, Peers
    <2>3. /\ dst \in Peers /\ src # dst
          /\ connections[<<src, dst>>] = 0 /\ connections[<<dst, src>>] = 0
          /\ LinkEffect(src, dst)
      BY <2>1, LinkFresh
    <2>4. Tally'
      BY <1>0, <2>2, <2>3, LinkListed DEF PInv
    <2>5. ASSUME NEW k \in Peers, k < i PROVE connections'[<<k, (k + 1) % n>>] > 0
      <3> DEFINE q == (k + 1) % n
      <3>1. q \in Peers
        BY <1>k
      <3>2. connections[<<k, q>>] > 0
        BY <2>5 DEF PInv, RingListed
      <3> HIDE DEF q
      <3>3. connections'[<<k, q>>] =
              IF k = src /\ q = dst THEN connections[<<k, q>>] + 1 ELSE connections[<<k, q>>]
        BY <2>3, <3>1 DEF LinkEffect
      <3>4. connections[<<k, q>>] \in Nat
        BY <1>0, <3>1
      <3> QED
        BY <3>2, <3>3, <3>4 DEF q
    <2>6. RingListed'
      BY <2>2, <2>5 DEF PInv, RingListed
    <2> QED
      BY <2>4, <2>6 DEF PInv
  <1>3. CASE \/ RingDone \/ Return \/ UNCHANGED vars
             \/ \E src \in Peers : \E dst \in Peers \cup {NoPort} : Reject(src, dst)
    <2>1. UNCHANGED <<t, n, i, count, connCount, connections>>
      BY <1>3 DEF RingDone, Return, Reject, vars
    <2>2. Peers' = Peers /\ List' = List
      BY <2>1 DEF Peers, List, Joined
    <2>3. Tally'
      BY <2>1, <2>2 DEF PInv, Tally
    <2>4. RingListed'
      <3>1. CASE RingDone
        <4>1. phase = "ring" /\ phase' = "random" /\ ~(t.CreateRing /\ i < RingEnd /\ count > 0)
          BY <3>1 DEF RingDone
        <4>2. i + count = t.Count
          BY <4>1 DEF PInv, RingListed
        <4>3. t.CreateRing => i >= n - 1 \/ i >= t.Count
          BY <1>0, <4>1, <4>2 DEF RingEnd
        <4> QED
          BY <2>1, <2>2, <4>1, <4>3 DEF PInv, RingListed
      <3>2. CASE ~RingDone
        <4>1. phase' = phase \/ (phase = "random" /\ phase' = "done")
          BY <1>3, <3>2 DEF Return, Reject, vars
        <4> QED
          BY <2>1, <2>2, <4>1 DEF PInv, RingListed
      <3> QED
        BY <3>1, <3>2
    <2> QED
      BY <2>3, <2>4 DEF PInv
  <1> QED
    BY <1>1, <1>2, <1>3 DEF Next

LEMMA InductivePInv == Spec => []PInv
  BY InitPInv, NextPInv, Inductive, PTL DEF Spec

LEMMA MinOfTwo ==
  ASSUME NEW a \in Int, NEW b \in Int
  PROVE  Min({a, b}) = IF a <= b THEN a ELSE b
  <1>1. \E x \in {a, b} : \A y \in {a, b} : x =< y
    OBVIOUS
  <1> QED
    BY <1>1 DEF Min

\* The indices in their order give a ring that is on the list.
LEMMA RingOnList ==
  ASSUME IInv, PInv, phase = "done", t.CreateRing
  PROVE  \E R \in Rings(Peers, t.Count) : R \subseteq List
  <1> DEFINE s == [k \in 1..n |-> k - 1]
             m == Min({n - 1, t.Count})
             R == {{s[k], s[k + 1]} : k \in 1..m}
  <1>1. n \in Nat /\ t.Count \in Nat /\ i \in Nat /\ TypeOK
    BY Params DEF IInv
  <1>2. Cardinality(Peers) = n
    BY <1>1, PeersFinite
  <1>3. s \in Orders(Peers)
    BY <1>1, <1>2 DEF Orders, Peers
  <1>4. R \in Rings(Peers, t.Count)
    BY <1>2, <1>3 DEF Rings
  <1>5. m = IF n - 1 <= t.Count THEN n - 1 ELSE t.Count
    BY <1>1, MinOfTwo
  <1> HIDE DEF m
  <1>6. i >= n - 1 \/ i >= t.Count
    BY DEF PInv, RingListed
  <1>7. ASSUME NEW k \in 1..m PROVE {s[k], s[k + 1]} \in List
    <2> DEFINE h == k - 1
    <2>1. h \in Nat /\ h + 1 < n /\ h < i
      BY <1>1, <1>5, <1>6
    <2>2. s[k] = h /\ s[k + 1] = h + 1
      BY <1>1, <2>1
    <2> HIDE DEF h, s
    <2>3. h \in Peers /\ h + 1 \in Peers /\ h # h + 1
      BY <1>1, <2>1 DEF Peers
    <2>4. (h + 1) % n = h + 1
      BY <1>1, <2>1, Neighbour
    <2>5. connections[<<h, h + 1>>] > 0
      BY <2>1, <2>3, <2>4 DEF PInv, RingListed
    <2>6. connections[<<h, h + 1>>] \in Nat /\ connections[<<h + 1, h>>] \in Nat
      BY <1>1, <2>3 DEF TypeOK
    <2>7. Joined(h, h + 1)
      BY <2>5, <2>6 DEF Joined
    <2> QED
      BY <1>1, <2>2, <2>3, <2>7, ListIs
  <1>8. R \subseteq List
    BY <1>7
  <1> HIDE DEF R
  <1> QED
    BY <1>4, <1>8

LEMMA Promise == IInv /\ PInv => KeepsPromise
  <1> SUFFICES ASSUME IInv, PInv, phase = "done" PROVE List \in Populated(Peers, t)
    BY DEF KeepsPromise
  <1> DEFINE P == PairsOf(Peers)
             rings == Rings(Peers, t.Count)
  <1>1. /\ n \in Nat /\ t.MaxPeers \in Nat /\ t.Count \in Nat /\ count \in Nat /\ TypeOK
        /\ IsFiniteSet(Peers) /\ connCount \in [Peers -> Nat]
    BY Params, PeersFinite DEF IInv, TypeOK
  <1>2. List \in SUBSET P
    BY DEF List
  <1>3. Cardinality(List) + count = t.Count /\ Cardinality(List) \in Nat
    BY <1>1, ListFinite, FS_CardinalityType DEF PInv, Tally
  <1>4. Cardinality(List) <= t.Count /\ (Cardinality(List) < t.Count => count > 0)
    BY <1>1, <1>3
  <1>5. \A p \in Peers : DegreeIn(List, p) = connCount[p]
    BY DEF PInv, Tally
  <1>6. \A p \in Peers : DegreeIn(List, p) <= t.MaxPeers \/ (t.CreateRing /\ DegreeIn(List, p) <= 2)
    BY <1>5 DEF IInv, DegreeBound
  <1>7. ASSUME count > 0, NEW e \in P \ List PROVE \E p \in e : DegreeIn(List, p) >= t.MaxPeers
    <2>1. PICK p \in Peers, q \in Peers : p # q /\ e = {p, q}
      BY <1>1, PairIs
    <2>2. ~Joined(p, q)
      BY <1>1, <1>7, <2>1, ListIs
    <2>3. connCount[p] >= t.MaxPeers \/ connCount[q] >= t.MaxPeers
      BY <1>7, <2>1, <2>2, IInvSafe DEF Saturated
    <2> QED
      BY <1>5, <2>1, <2>3
  <1>8. t.CreateRing => \E R \in rings : R \subseteq List
    BY RingOnList
  <1> HIDE DEF P, rings
  <1>9. List \in Within(P, rings, Peers, t)
    BY <1>2, <1>4, <1>6, <1>7, <1>8 DEF Within
  <1> QED
    BY <1>9 DEF Populated, P, rings

(***************************************************************************)
(* For any peers and any receiver, what populate returns is one of the     *)
(* graphs PopulatePromise describes, the only thing the topologies rely    *)
(* on: Count, the degrees, the ring's path and no pair left out without a  *)
(* reason (lines 38-109).                                                  *)
(***************************************************************************)
THEOREM PromiseKept == Spec => []KeepsPromise
  BY Inductive, InductivePInv, Promise, PTL

-----------------------------------------------------------------------------
(***************************************************************************)
(* The loops of populate end: what is left to do is a natural number that  *)
(* every pass lowers.                                                      *)
(***************************************************************************)
LEMMA RemainingType ==
  ASSUME TypeOK
  PROVE  /\ count \in Nat /\ LoopsLeft \in Nat /\ Remaining \in Nat
         /\ IsFiniteSet(Undrawn) /\ Cardinality(Undrawn) \in Nat
         /\ IsFiniteSet(possiblePeers) /\ Cardinality(possiblePeers) \in Nat
  <1>1. IsFiniteSet(Peers)
    BY Params, FS_Interval DEF Peers
  <1>2. IsFiniteSet(Peers \X Peers)
    BY <1>1, FS_Product
  <1>3. IsFiniteSet(Undrawn) /\ IsFiniteSet(possiblePeers)
    BY <1>1, <1>2, FS_Subset DEF Undrawn, TypeOK
  <1>4. Cardinality(Undrawn) \in Nat /\ Cardinality(possiblePeers) \in Nat
    BY <1>3, FS_CardinalityType
  <1>5. count \in Nat /\ LoopsLeft \in Nat
    BY DEF TypeOK, LoopsLeft
  <1> QED
    BY <1>3, <1>4, <1>5 DEF Remaining

LEMMA SumFalls ==
  ASSUME NEW a \in Nat, NEW b \in Nat, NEW c \in Nat, NEW d \in Nat,
         NEW w \in Nat, NEW x \in Nat, NEW y \in Nat, NEW z \in Nat,
         w <= a, x <= b, y <= c, z <= d, w < a \/ x < b \/ y < c \/ z < d
  PROVE  w + x + y + z < a + b + c + d
  OBVIOUS

\* A pass that draws no port twice, drops no peer twice, and counts.
LEMMA LessRemains ==
  ASSUME TypeOK, TypeOK', Undrawn' \subseteq Undrawn, possiblePeers' \subseteq possiblePeers,
         count' <= count, LoopsLeft' <= LoopsLeft,
         \/ Undrawn' # Undrawn \/ possiblePeers' # possiblePeers
         \/ count' < count \/ LoopsLeft' < LoopsLeft
  PROVE  Remaining' < Remaining
  <1> DEFINE u == Cardinality(Undrawn)
             v == Cardinality(Undrawn')
             p == Cardinality(possiblePeers)
             q == Cardinality(possiblePeers')
  <1>1. /\ count \in Nat /\ LoopsLeft \in Nat /\ u \in Nat /\ p \in Nat
        /\ IsFiniteSet(Undrawn) /\ IsFiniteSet(possiblePeers)
    BY RemainingType
  <1>2. count' \in Nat /\ LoopsLeft' \in Nat
    BY DEF TypeOK, LoopsLeft
  <1>3. IsFiniteSet(Undrawn') /\ v <= u /\ v \in Nat /\ (Undrawn' # Undrawn => v < u)
    BY <1>1, FS_Subset, FS_CardinalityType
  <1>4. IsFiniteSet(possiblePeers') /\ q <= p /\ q \in Nat /\ (possiblePeers' # possiblePeers => q < p)
    BY <1>1, FS_Subset, FS_CardinalityType
  <1>5. Remaining = count + u + p + LoopsLeft /\ Remaining' = count' + v + q + LoopsLeft'
    BY DEF Remaining
  <1>6. v < u \/ q < p \/ count' < count \/ LoopsLeft' < LoopsLeft
    BY <1>3, <1>4
  <1>7. v <= u /\ q <= p /\ count' <= count /\ LoopsLeft' <= LoopsLeft
    BY <1>3, <1>4
  <1> HIDE DEF u, v, p, q
  <1>8. /\ count \in Nat /\ LoopsLeft \in Nat /\ u \in Nat /\ p \in Nat
        /\ count' \in Nat /\ LoopsLeft' \in Nat /\ v \in Nat /\ q \in Nat
    BY <1>1, <1>2, <1>3, <1>4
  <1>9. count' + v + q + LoopsLeft' < count + u + p + LoopsLeft
    BY <1>6, <1>7, <1>8, SumFalls
  <1> QED
    BY <1>5, <1>9

LEMMA PassCounts ==
  ASSUME IInv, IInv', Next
  PROVE  Remaining' < Remaining
  <1>1. TypeOK /\ TypeOK' /\ n' = n /\ Peers' = Peers
    BY DEF IInv, Next, RingStep, RingDone, Reject, Link, Return, Peers
  <1>2. possibleConns \in [Peers -> SUBSET Peers]
    BY <1>1 DEF TypeOK
  <1>3. ASSUME \A p \in Peers : possibleConns'[p] \subseteq possibleConns[p]
        PROVE  Undrawn' \subseteq Undrawn
    BY <1>1, <1>3 DEF Undrawn
  <1>4. ASSUME possibleConns' = possibleConns PROVE Undrawn' = Undrawn
    BY <1>1, <1>4 DEF Undrawn
  <1>5. ASSUME NEW src, NEW dst, possibleConns' = Linked(possibleConns, src, dst)
        PROVE  Undrawn' \subseteq Undrawn
    BY <1>2, <1>3, <1>5 DEF Linked
  <1>6. count \in Nat
    BY <1>1 DEF TypeOK
  <1>7. CASE RingStep
    <2>1. /\ count' = count - 1 /\ LoopsLeft' = LoopsLeft /\ possiblePeers' = possiblePeers
          /\ \E src, dst : possibleConns' = Linked(possibleConns, src, dst)
      BY <1>7 DEF RingStep, LoopsLeft
    <2> QED
      BY <1>1, <1>5, <1>6, <2>1, LessRemains, RemainingType
  <1>8. CASE RingDone \/ Return
    <2>1. /\ count' = count /\ possiblePeers' = possiblePeers /\ possibleConns' = possibleConns
          /\ LoopsLeft' < LoopsLeft /\ LoopsLeft' <= LoopsLeft
      BY <1>8 DEF RingDone, Return, LoopsLeft
    <2>2. count' <= count /\ Undrawn' \subseteq Undrawn /\ possiblePeers' \subseteq possiblePeers
      BY <1>4, <1>6, <2>1
    <2> QED
      BY <1>1, <2>1, <2>2, LessRemains
  <1>9. ASSUME NEW src \in Peers, NEW dst \in Peers \cup {NoPort}, Link(src, dst)
        PROVE  Remaining' < Remaining
    <2>1. /\ count' = count - 1 /\ LoopsLeft' = LoopsLeft /\ possiblePeers' \subseteq possiblePeers
          /\ possibleConns' = Linked(possibleConns, src, dst)
      BY <1>9 DEF Link, LoopsLeft
    <2> QED
      BY <1>1, <1>5, <1>6, <2>1, LessRemains, RemainingType
  <1>10. ASSUME NEW src \in Peers, NEW dst \in Peers \cup {NoPort}, Reject(src, dst)
         PROVE  Remaining' < Remaining
    <2>1. /\ count' = count /\ LoopsLeft' = LoopsLeft
          /\ possibleConns' = [possibleConns EXCEPT ![src] = @ \ {dst}]
          /\ possiblePeers' = possiblePeers \ Unusable(possibleConns', connCount, {src})
          /\ src \in possiblePeers
          /\ dst \in Popped(src)
      BY <1>10 DEF Reject, Draw, LoopsLeft
    <2>2. Undrawn' \subseteq Undrawn /\ possiblePeers' \subseteq possiblePeers
      BY <1>2, <1>3, <2>1
    <2>3. CASE possibleConns[src] = {}
      <3>1. possibleConns'[src] = {}
        BY <1>2, <2>1, <2>3
      <3>2. src \in Unusable(possibleConns', connCount, {src})
        BY <3>1 DEF Unusable, CanBeUsed
      <3>3. possiblePeers' # possiblePeers
        BY <2>1, <3>2
      <3> QED
        BY <1>1, <1>6, <2>1, <2>2, <3>3, LessRemains, RemainingType
    <2>4. CASE possibleConns[src] # {}
      <3>1. dst \in possibleConns[src] /\ dst \in Peers
        BY <1>2, <2>1, <2>4 DEF Popped
      <3>2. dst \notin possibleConns'[src]
        BY <1>2, <2>1
      <3>3. <<src, dst>> \in Undrawn /\ <<src, dst>> \notin Undrawn'
        BY <1>1, <3>1, <3>2 DEF Undrawn
      <3> QED
        BY <1>1, <1>6, <2>1, <2>2, <3>3, LessRemains, RemainingType
    <2> QED
      BY <2>3, <2>4
  <1> QED
    BY <1>7, <1>8, <1>9, <1>10 DEF Next

(***************************************************************************)
(* For any peers and any receiver, no pass of the ring's or of the random  *)
(* loop leaves as much to do as it found: a draw that is rejected uses up  *)
(* a port or a source (lines 49-58 and 62-108).                            *)
(***************************************************************************)
THEOREM NoPassInVain == Spec => [](Remaining \in Nat) /\ EveryPassCounts
  <1>1. IInv => Remaining \in Nat
    BY RemainingType DEF IInv
  <1>2. IInv /\ IInv' /\ [Next]_vars => [Remaining' < Remaining]_vars
    BY PassCounts
  <1> QED
    BY <1>1, <1>2, Inductive, PTL DEF Spec, EveryPassCounts
=============================================================================
