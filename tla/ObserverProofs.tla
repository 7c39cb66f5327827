--------------------------- MODULE ObserverProofs ---------------------------
(***************************************************************************)
(* Proofs about Observer for any writers, streams, values and number of    *)
(* updates: the linked list is safe for lock-free readers, and it          *)
(* implements the append-only log of EventLog.                             *)
(***************************************************************************)
EXTENDS Observer, SequenceTheorems, TLAPS

USE ObserverAssumption

LEMMA InitIInv == Init => IInv
  <1> SUFFICES ASSUME Init PROVE IInv
    OBVIOUS
  <1>1. newState(InitValue) \in StateObject
    BY DEF newState, StateObject, Nil
  <1>2. nodes = <<newState(InitValue)>> /\ Len(nodes) = 1 /\ nodes \in Seq(StateObject)
    BY <1>1 DEF Init
  <1>3. TypeOK
    BY <1>2 DEF Init, TypeOK, Nil
  <1>4. NoUpdateLost /\ Owner /\ AtTail /\ Closed /\ Behind
    BY <1>2 DEF Init, NoUpdateLost, Owner, AtTail, Closed, Behind, VisibleLen, newState, Nil
  <1> QED
    BY <1>3, <1>4 DEF IInv

\* What UpdateLink does to the heap: the tail is linked to a fresh state.
LEMMA LinkHeap ==
  ASSUME IInv, NEW w \in Writers, NEW v \in Values, UpdateLink(w, v), NEW n, n = Len(nodes)
  PROVE  /\ n \in Nat /\ n >= 1 /\ state = n
         /\ nodes' \in Seq(StateObject)
         /\ Len(nodes') = n + 1
         /\ \A i \in 1..n : /\ nodes'[i].value = nodes[i].value
                            /\ nodes'[i].done = nodes[i].done
                            /\ nodes'[i].next = IF i = n THEN n + 1 ELSE nodes[i].next
         /\ nodes'[n+1] = newState(v)
  <1> DEFINE e == [nodes[n] EXCEPT !.next = n + 1]
             linked == [nodes EXCEPT ![n] = e]
  <1>1. n \in Nat /\ n >= 1 /\ state = n
    BY DEF IInv, TypeOK, AtTail, UpdateLink, Free
  <1>2. newState(v) \in StateObject
    BY DEF newState, StateObject, Nil
  <1>3. \A i \in 1..n : nodes[i] \in StateObject
    BY <1>1 DEF IInv, TypeOK
  <1>4. e \in StateObject /\ e.next = n + 1 /\ e.value = nodes[n].value /\ e.done = nodes[n].done
    BY <1>1, <1>3 DEF StateObject
  <1>5. /\ linked \in Seq(StateObject)
        /\ Len(linked) = n
        /\ \A i \in 1..n : linked[i] = IF i = n THEN e ELSE nodes[i]
    <2>1. nodes \in Seq(StateObject) /\ n \in 1..Len(nodes)
      BY <1>1 DEF IInv, TypeOK
    <2> HIDE DEF e
    <2> QED
      BY <1>4, <2>1, ExceptSeq
  <1>6. nodes' = Append(linked, newState(v))
    BY <1>1 DEF UpdateLink, Free
  <1> HIDE DEF linked, e
  <1>7. /\ nodes' \in Seq(StateObject)
        /\ Len(nodes') = n + 1
        /\ \A i \in 1..n : nodes'[i] = linked[i]
        /\ nodes'[n+1] = newState(v)
    BY <1>2, <1>5, <1>6, AppendProperties
  <1> QED
    BY <1>1, <1>4, <1>5, <1>7

LEMMA LinkStep ==
  ASSUME IInv, NEW w \in Writers, NEW v \in Values, UpdateLink(w, v)
  PROVE  IInv' /\ VisibleLen' = VisibleLen
  <1> DEFINE n == Len(nodes)
  <1>1. /\ n \in Nat /\ n >= 1 /\ state = n
        /\ nodes' \in Seq(StateObject)
        /\ Len(nodes') = n + 1
        /\ \A i \in 1..n : /\ nodes'[i].value = nodes[i].value
                           /\ nodes'[i].done = nodes[i].done
                           /\ nodes'[i].next = IF i = n THEN n + 1 ELSE nodes[i].next
        /\ nodes'[n+1] = newState(v)
    BY LinkHeap
  <1>2. /\ nodes'[n+1].next = Nil
        /\ nodes'[n+1].done = FALSE
    BY <1>1 DEF newState
  <1>3. TypeOK'
    BY <1>1 DEF UpdateLink, Free, IInv, TypeOK
  <1>4. \A u \in Writers : pc[u] = "idle"
    BY DEF UpdateLink, Free, IInv, Owner
  <1>5. /\ pc'[w] = "linked" /\ recv'[w] = state /\ lock' = w
        /\ \A u \in Writers : u # w => pc'[u] = "idle"
    BY <1>4 DEF UpdateLink, Free, IInv, TypeOK
  <1>6. VisibleLen = n /\ VisibleLen' = n
    BY <1>1, <1>4, <1>5 DEF VisibleLen
  <1>7. NoUpdateLost'
    <2>1. \A i \in 1..n : nodes'[i].next = i + 1
      BY <1>1 DEF IInv, NoUpdateLost
    <2> QED
      BY <1>1, <2>1 DEF NoUpdateLost
  <1>8. Owner' /\ AtTail'
    BY <1>1, <1>2, <1>5 DEF Owner, AtTail, UpdateLink, Free
  <1>9. Closed'
    BY <1>1, <1>2, <1>6 DEF IInv, Closed
  <1>10. Behind'
    BY <1>6 DEF IInv, Behind, UpdateLink, Free
  <1> QED
    BY <1>3, <1>6, <1>7, <1>8, <1>9, <1>10 DEF IInv

\* What UpdateClose does: the last state but one is closed, and the new tail
\* becomes visible to the streams.
LEMMA CloseHeap ==
  ASSUME IInv, NEW w \in Writers, UpdateClose(w), NEW n, n = Len(nodes)
  PROVE  /\ n \in Nat /\ n >= 2 /\ state = n - 1 /\ recv[w] = n - 1
         /\ nodes' \in Seq(StateObject)
         /\ Len(nodes') = n
         /\ \A i \in 1..n : /\ nodes'[i].value = nodes[i].value
                            /\ nodes'[i].next = nodes[i].next
                            /\ nodes'[i].done = IF i = n - 1 THEN TRUE ELSE nodes[i].done
         /\ VisibleLen = n - 1
         /\ VisibleLen' = n
  <1> DEFINE r == recv[w]
             e == [nodes[r] EXCEPT !.done = TRUE]
  <1>1. n \in Nat /\ n >= 2 /\ state = n - 1 /\ r = n - 1
    BY DEF IInv, TypeOK, AtTail, UpdateClose, CloseDone
  <1>2. nodes \in Seq(StateObject) /\ r \in 1..Len(nodes) /\ nodes[r] \in StateObject
    BY <1>1 DEF IInv, TypeOK
  <1>3. e \in StateObject /\ e.next = nodes[r].next /\ e.value = nodes[r].value /\ e.done = TRUE
    BY <1>2 DEF StateObject
  <1>4. nodes' = [nodes EXCEPT ![r] = e]
    BY DEF UpdateClose, CloseDone
  <1> HIDE DEF r, e
  <1>5. /\ nodes' \in Seq(StateObject)
        /\ Len(nodes') = n
        /\ \A i \in 1..n : nodes'[i] = IF i = r THEN e ELSE nodes[i]
    BY <1>2, <1>3, <1>4, ExceptSeq
  <1>6. \A u \in Writers : u # w => pc[u] = "idle"
    BY DEF UpdateClose, CloseDone, IInv, Owner
  <1>7. pc[w] = "linked" /\ \A u \in Writers : pc'[u] # "linked"
    BY <1>6 DEF UpdateClose, CloseDone, IInv, TypeOK
  <1>8. VisibleLen = n - 1 /\ VisibleLen' = n
    BY <1>5, <1>7 DEF VisibleLen
  <1>9. \A i \in 1..n : /\ nodes'[i].value = nodes[i].value
                        /\ nodes'[i].next = nodes[i].next
                        /\ nodes'[i].done = IF i = n - 1 THEN TRUE ELSE nodes[i].done
    BY <1>1, <1>3, <1>5
  <1> QED
    BY <1>1, <1>5, <1>8, <1>9 DEF r

LEMMA CloseStep ==
  ASSUME IInv, NEW w \in Writers, UpdateClose(w)
  PROVE  IInv'
  <1> DEFINE n == Len(nodes)
  <1>1. /\ n \in Nat /\ n >= 2 /\ state = n - 1 /\ recv[w] = n - 1
        /\ nodes' \in Seq(StateObject)
        /\ Len(nodes') = n
        /\ \A i \in 1..n : /\ nodes'[i].value = nodes[i].value
                           /\ nodes'[i].next = nodes[i].next
                           /\ nodes'[i].done = IF i = n - 1 THEN TRUE ELSE nodes[i].done
        /\ VisibleLen = n - 1
        /\ VisibleLen' = n
    BY CloseHeap
  <1>2. TypeOK'
    BY <1>1 DEF UpdateClose, CloseDone, IInv, TypeOK
  <1>a. \A i \in 1..n : nodes'[i].next = nodes[i].next
    BY <1>1
  <1>b. \A i \in 1..n : nodes'[i].done = IF i = n - 1 THEN TRUE ELSE nodes[i].done
    BY <1>1
  <1>3. NoUpdateLost'
    <2>1. ASSUME NEW i \in 1..(n - 1) PROVE nodes'[i].next = i + 1
      <3>1. i \in 1..n
        BY <1>1
      <3>2. nodes[i].next = i + 1
        BY DEF IInv, NoUpdateLost
      <3> QED
        BY <1>a, <3>1, <3>2
    <2> QED
      BY <1>1, <2>1 DEF NoUpdateLost
  <1>4. Owner'
    BY DEF UpdateClose, CloseDone, IInv, TypeOK, Owner
  <1>5. AtTail'
    <2>1. /\ pc[w] = "linked" /\ pc' = [pc EXCEPT ![w] = "closed"]
          /\ state' = state /\ lock' = lock /\ recv' = recv
      BY DEF UpdateClose, CloseDone
    <2>2. lock' # NoWriter
      BY <2>1 DEF IInv, Owner
    <2>3. \A u \in Writers : pc'[u] # "idle" => pc[u] # "idle"
      BY <2>1 DEF IInv, TypeOK
    <2>4. nodes'[n].next = Nil
      <3>1. n \in 1..n /\ nodes[n].next = Nil
        BY <1>1 DEF IInv, AtTail
      <3> QED
        BY <1>a, <3>1
    <2> QED
      BY <1>1, <2>1, <2>2, <2>3, <2>4 DEF IInv, AtTail
  <1>6. Closed'
    <2>1. ASSUME NEW i \in 1..n PROVE nodes'[i].done <=> i < n
      <3>1. CASE i = n - 1
        <4>1. nodes'[i].done = TRUE
          BY <1>b, <3>1
        <4> QED
          BY <1>1, <3>1, <4>1
      <3>2. CASE i # n - 1
        <4>1. nodes'[i].done = nodes[i].done
          BY <1>1, <3>2
        <4>2. nodes[i].done <=> i < n - 1
          BY <1>1 DEF IInv, Closed
        <4> QED
          BY <1>1, <3>2, <4>1, <4>2
      <3> QED
        BY <3>1, <3>2
    <2> QED
      BY <1>1, <2>1 DEF Closed
  <1>7. Behind'
    BY <1>1 DEF UpdateClose, CloseDone, IInv, TypeOK, Behind
  <1> QED
    BY <1>2, <1>3, <1>4, <1>5, <1>6, <1>7 DEF IInv

LEMMA EndStep ==
  ASSUME IInv, NEW w \in Writers, UpdateEnd(w)
  PROVE  IInv' /\ VisibleLen' = VisibleLen
  <1> DEFINE n == Len(nodes)
  <1>1. n \in Nat /\ n >= 2 /\ state = n - 1 /\ recv[w] = n - 1
    BY DEF IInv, TypeOK, AtTail, UpdateEnd
  <1>2. state' = n /\ nodes' = nodes
    BY <1>1 DEF UpdateEnd, IInv, NoUpdateLost
  <1>3. \A u \in Writers : pc'[u] = "idle" /\ pc[u] # "linked"
    BY DEF UpdateEnd, IInv, TypeOK, Owner
  <1>4. VisibleLen = n /\ VisibleLen' = n
    BY <1>2, <1>3 DEF VisibleLen
  <1>5. TypeOK'
    BY <1>1, <1>2 DEF UpdateEnd, IInv, TypeOK
  <1>6. NoUpdateLost' /\ Closed' /\ Behind'
    BY <1>2, <1>4 DEF UpdateEnd, IInv, NoUpdateLost, Closed, Behind
  <1>7. Owner' /\ AtTail'
    BY <1>2, <1>3 DEF UpdateEnd, IInv, Owner, AtTail
  <1> QED
    BY <1>4, <1>5, <1>6, <1>7 DEF IInv

LEMMA ObserveStep ==
  ASSUME IInv, NEW s \in Streams, Observe(s)
  PROVE  IInv' /\ VisibleLen' = VisibleLen /\ state = VisibleLen
  <1>1. \A u \in Writers : pc[u] # "linked"
    BY DEF Observe, Free, IInv, Owner
  <1>2. state = VisibleLen /\ VisibleLen' = VisibleLen
    BY <1>1 DEF Observe, Free, IInv, AtTail, VisibleLen
  <1>3. TypeOK' /\ Behind'
    BY <1>2 DEF Observe, Free, IInv, TypeOK, Behind
  <1>4. NoUpdateLost' /\ Owner' /\ AtTail' /\ Closed'
    BY <1>2 DEF Observe, Free, IInv, NoUpdateLost, Owner, AtTail, Closed
  <1> QED
    BY <1>2, <1>3, <1>4 DEF IInv

LEMMA StreamStep ==
  ASSUME IInv, NEW s \in Streams, StreamNext(s)
  PROVE  /\ IInv' /\ VisibleLen' = VisibleLen
         /\ pos[s] \in 1..(VisibleLen - 1)
         /\ pos' = [pos EXCEPT ![s] = @ + 1]
  <1>0. Len(nodes) \in Nat /\ VisibleLen \in Int /\ VisibleLen <= Len(nodes)
    BY DEF IInv, TypeOK, VisibleLen
  <1>1. pos[s] \in 1..(VisibleLen - 1)
    BY <1>0 DEF StreamNext, Changes, IInv, TypeOK, Closed, Nil
  <1>2. nodes[pos[s]].next = pos[s] + 1
    BY <1>0, <1>1 DEF IInv, NoUpdateLost
  <1>3. VisibleLen' = VisibleLen
    BY DEF StreamNext, VisibleLen
  <1>4. pos' = [pos EXCEPT ![s] = @ + 1]
    BY <1>2 DEF StreamNext
  <1>5. TypeOK' /\ Behind'
    BY <1>0, <1>1, <1>3, <1>4 DEF StreamNext, IInv, TypeOK, Behind
  <1>6. NoUpdateLost' /\ Owner' /\ AtTail' /\ Closed'
    BY <1>3 DEF StreamNext, IInv, NoUpdateLost, Owner, AtTail, Closed
  <1> QED
    BY <1>1, <1>3, <1>4, <1>5, <1>6 DEF IInv

LEMMA StutterStep == IInv /\ UNCHANGED vars => IInv' /\ VisibleLen' = VisibleLen
  BY DEF vars, IInv, TypeOK, NoUpdateLost, Owner, AtTail, Closed, Behind, VisibleLen

LEMMA NextIInv == IInv /\ [Next]_vars => IInv'
  BY LinkStep, CloseStep, EndStep, ObserveStep, StreamStep, StutterStep DEF Next

LEMMA Inductive == Spec => []IInv
  BY InitIInv, NextIInv, PTL DEF Spec

LEMMA IInvSafe == IInv => ClosedIsLinked /\ CloseOnce
  <1> SUFFICES ASSUME IInv PROVE ClosedIsLinked /\ CloseOnce
    OBVIOUS
  <1>1. Len(nodes) \in Nat /\ VisibleLen \in Int /\ VisibleLen <= Len(nodes)
    BY DEF IInv, TypeOK, VisibleLen
  <1>2. ASSUME NEW i \in DOMAIN nodes, nodes[i].done
        PROVE  nodes[i].next # Nil
    <2>1. i \in 1..Len(nodes) /\ i < VisibleLen
      BY <1>1, <1>2 DEF IInv, TypeOK, Closed
    <2> QED
      BY <1>1, <2>1 DEF IInv, NoUpdateLost, Nil
  <1>3. ASSUME NEW w \in Writers, pc[w] = "linked"
        PROVE  ~nodes[recv[w]].done
    <2>1. VisibleLen = Len(nodes) - 1
      BY <1>3 DEF VisibleLen
    <2>2. recv[w] = Len(nodes) - 1 /\ recv[w] \in 1..Len(nodes)
      BY <1>3 DEF IInv, AtTail, TypeOK
    <2> QED
      BY <1>1, <2>1, <2>2 DEF IInv, Closed
  <1> QED
    BY <1>2, <1>3 DEF ClosedIsLinked, CloseOnce

(***************************************************************************)
(* The subject and its streams are type-correct; in particular the         *)
(* subject's own pointer is never nil (subject.go:33-43).                  *)
(***************************************************************************)
THEOREM TypeCorrect == Spec => []TypeOK
  BY Inductive, PTL DEF IInv

(***************************************************************************)
(* However the steps of concurrent Updates interleave with each other and  *)
(* with lock-free readers, a closed channel implies a linked successor, so *)
(* that stream.Next never meets nil (stream.go:41-44, 55-59), and no       *)
(* channel is closed twice (state.go:24).                                  *)
(***************************************************************************)
THEOREM NeverPanics == Spec => []NoPanic
  BY Inductive, IInvSafe, PTL DEF NoPanic

(***************************************************************************)
(* Concurrent calls of Update never fork the list (subject.go:33-37).      *)
(***************************************************************************)
THEOREM ChainIntact == Spec => []NoUpdateLost
  BY Inductive, PTL DEF IInv

LEMMA IInvQuiet == IInv => WaitsForNewOnly
  <1> SUFFICES ASSUME IInv, NEW s \in Streams,
                      lock = NoWriter, pos[s] # Nil, ~nodes[pos[s]].done
               PROVE  pos[s] = Len(nodes)
    BY DEF WaitsForNewOnly
  <1>1. \A w \in Writers : pc[w] # "linked"
    BY ObserverAssumption DEF IInv, Owner
  <1>2. VisibleLen = Len(nodes) /\ Len(nodes) \in Nat
    BY <1>1 DEF IInv, TypeOK, VisibleLen
  <1>3. pos[s] \in 1..Len(nodes)
    BY <1>2 DEF IInv, TypeOK, Nil
  <1> QED
    BY <1>2, <1>3 DEF IInv, Closed

(***************************************************************************)
(* No notification is lost: a stream is left waiting only at the newest    *)
(* state, whatever steps of earlier Updates its reads overlapped           *)
(* (stream.go:37-59, subject.go:33-37).                                    *)
(***************************************************************************)
THEOREM NoLostWakeup == Spec => []WaitsForNewOnly
  BY Inductive, IInvQuiet, PTL

-----------------------------------------------------------------------------
(***************************************************************************)
(* Refinement.  vlog is the log of the mapping.                            *)
(***************************************************************************)
vlog == [i \in 1..VisibleLen |-> nodes[i].value]

LEMMA ValueType ==
  ASSUME IInv
  PROVE  /\ Len(nodes) \in Nat /\ Len(nodes) >= 1
         /\ \A i \in 1..Len(nodes) : nodes[i].value \in Values
  <1>1. Len(nodes) \in Nat /\ Len(nodes) >= 1
    BY DEF IInv, TypeOK
  <1>2. ASSUME NEW i \in 1..Len(nodes) PROVE nodes[i].value \in Values
    <2>1. nodes[i] \in StateObject
      BY ElementOfSeq DEF IInv, TypeOK
    <2> QED
      BY <2>1 DEF StateObject
  <1> QED
    BY <1>1, <1>2

LEMMA VlogSeq ==
  ASSUME IInv
  PROVE  /\ VisibleLen \in Nat /\ VisibleLen >= 1 /\ VisibleLen <= Len(nodes)
         /\ vlog \in Seq(Values) /\ Len(vlog) = VisibleLen
  <1>1. Len(nodes) \in Nat /\ Len(nodes) >= 1 /\ \A i \in 1..Len(nodes) : nodes[i].value \in Values
    BY ValueType
  <1>2. VisibleLen \in Nat /\ VisibleLen >= 1 /\ VisibleLen <= Len(nodes)
    <2>1. CASE \E w \in Writers : pc[w] = "linked"
      BY <1>1, <2>1 DEF VisibleLen, IInv, AtTail, TypeOK
    <2>2. CASE ~\E w \in Writers : pc[w] = "linked"
      BY <1>1, <2>2 DEF VisibleLen
    <2> QED
      BY <2>1, <2>2
  <1>3. vlog \in [1..VisibleLen -> Values]
    BY <1>1, <1>2 DEF vlog
  <1> QED
    BY <1>2, <1>3, IsASeq

\* A step that keeps the visible length and the values keeps the log.
LEMMA VlogSame ==
  ASSUME IInv, VisibleLen' = VisibleLen,
         \A i \in 1..VisibleLen : nodes'[i].value = nodes[i].value
  PROVE  vlog' = vlog
  BY DEF vlog

LEMMA InitLog == Init => Log!LogInit
  <1> SUFFICES ASSUME Init PROVE Log!LogInit
    OBVIOUS
  <1>1. VisibleLen = 1 /\ nodes[1].value = InitValue
    BY DEF Init, VisibleLen, newState
  <1>2. vlog = <<InitValue>>
    BY <1>1 DEF vlog
  <1> QED
    BY <1>2 DEF Init, Log!LogInit, vlog, Nil

LEMMA StepLog == IInv /\ [Next]_vars => [Log!LogNext]_(Log!logVars)
  <1> SUFFICES ASSUME IInv, [Next]_vars
               PROVE  Log!LogNext \/ (vlog' = vlog /\ pos' = pos)
    BY DEF Log!logVars, vlog
  <1> USE VlogSeq
  <1>1. CASE UNCHANGED vars
    <2>1. VisibleLen' = VisibleLen
      BY <1>1, StutterStep
    <2> QED
      BY <1>1, <2>1, VlogSame DEF vars
  <1>2. ASSUME NEW w \in Writers, NEW v \in Values, UpdateLink(w, v)
        PROVE  vlog' = vlog /\ pos' = pos
    <2>1. VisibleLen' = VisibleLen
      BY <1>2, LinkStep
    <2>2. \A i \in 1..Len(nodes) : nodes'[i].value = nodes[i].value
      BY <1>2, LinkHeap
    <2>3. \A i \in 1..VisibleLen : nodes'[i].value = nodes[i].value
      BY <2>2
    <2> QED
      BY <1>2, <2>1, <2>3, VlogSame DEF UpdateLink, Free
  <1>3. ASSUME NEW w \in Writers, UpdateClose(w)
        PROVE  Log!LogNext
    <2> DEFINE n == Len(nodes)
               v == nodes[n].value
    <2>1. /\ n \in Nat /\ n >= 2
          /\ \A i \in 1..n : nodes'[i].value = nodes[i].value
          /\ VisibleLen = n - 1
          /\ VisibleLen' = n
      BY <1>3, CloseHeap
    <2>2. v \in Values
      <3>1. n \in 1..n
        BY <2>1
      <3> QED
        BY <3>1, ValueType
    <2>3. vlog' = Append(vlog, v)
      <3>1. vlog \in Seq(Values) /\ Len(vlog) = n - 1
        BY <2>1
      <3>2. /\ Append(vlog, v) \in Seq(Values) /\ Len(Append(vlog, v)) = n
            /\ \A i \in 1..(n - 1) : Append(vlog, v)[i] = vlog[i]
            /\ Append(vlog, v)[n] = v
        BY <2>1, <2>2, <3>1, AppendProperties
      <3>3. \A i \in 1..n : nodes[i].value \in Values
        BY ValueType
      <3>4. vlog' = [i \in 1..n |-> nodes'[i].value]
        BY <2>1 DEF vlog
      <3>5. vlog' \in [1..n -> Values]
        BY <2>1, <3>3, <3>4
      <3>6. vlog' \in Seq(Values) /\ Len(vlog') = n
        BY <2>1, <3>5, IsASeq
      <3>7. \A i \in 1..n : vlog'[i] = Append(vlog, v)[i]
        <4>1. \A i \in 1..(n - 1) : vlog[i] = nodes[i].value
          BY <2>1 DEF vlog
        <4>2. \A i \in 1..n : vlog'[i] = nodes[i].value
          BY <2>1, <3>4
        <4> HIDE DEF vlog
        <4> QED
          BY <2>1, <3>2, <4>1, <4>2
      <3> HIDE DEF n, v
      <3> QED
        BY <2>1, <3>2, <3>6, <3>7, SeqEqual
    <2>4. pos' = pos
      BY <1>3 DEF UpdateClose, CloseDone
    <2>5. PICK u \in Values : u = v
      BY <2>2
    <2>6. vlog' = Append(vlog, u) /\ pos' = pos
      BY <2>3, <2>4, <2>5
    <2>7. Log!Publish(u)
      BY <2>6 DEF Log!Publish, vlog
    <2> QED
      BY <2>7 DEF Log!LogNext
  <1>4. ASSUME NEW w \in Writers, UpdateEnd(w)
        PROVE  vlog' = vlog /\ pos' = pos
    <2>1. VisibleLen' = VisibleLen
      BY <1>4, EndStep
    <2> QED
      BY <1>4, <2>1, VlogSame DEF UpdateEnd
  <1>5. ASSUME NEW s \in Streams, Observe(s)
        PROVE  Log!LogNext
    <2>1. VisibleLen' = VisibleLen /\ state = VisibleLen
      BY <1>5, ObserveStep
    <2>2. vlog' = vlog
      BY <1>5, <2>1, VlogSame DEF Observe, Free
    <2>3. state = Len(vlog)
      BY <2>1
    <2>4. Log!Subscribe(s)
      BY <1>5, <2>2, <2>3 DEF Observe, Free, Log!Subscribe, vlog, Nil
    <2> QED
      BY <2>4 DEF Log!LogNext
  <1>6. ASSUME NEW s \in Streams, StreamNext(s)
        PROVE  Log!LogNext
    <2>1. /\ VisibleLen' = VisibleLen
          /\ pos[s] \in 1..(VisibleLen - 1)
          /\ pos' = [pos EXCEPT ![s] = @ + 1]
      BY <1>6, StreamStep
    <2>2. vlog' = vlog
      BY <1>6, <2>1, VlogSame DEF StreamNext
    <2>3. pos[s] \in 1..(Len(vlog) - 1)
      BY <2>1
    <2>4. Log!Advance(s)
      BY <2>1, <2>2, <2>3 DEF Log!Advance, Log!HasNews, vlog
    <2> QED
      BY <2>4 DEF Log!LogNext
  <1> QED
    BY <1>1, <1>2, <1>3, <1>4, <1>5, <1>6 DEF Next

(***************************************************************************)
(* The linked list implements the log: a stream reads every value          *)
(* published after its Observe, once and in order (stream.go:3-7), for any *)
(* number of writers and streams.                                          *)
(***************************************************************************)
THEOREM Refinement == Spec => ImplementsLog
  BY InitLog, StepLog, Inductive, PTL DEF Spec, ImplementsLog, Log!LogSpec
=============================================================================
