------------------------- MODULE AgentConnectProofs -------------------------
(***************************************************************************)
(* For any agents and any set of calls without a repeated pair: Connect    *)
(* succeeds only when both ends are connected, and every WaitGroup is used *)
(* by its own call and connection only.                                    *)
(***************************************************************************)
EXTENDS AgentConnect, TLAPS

\* Both ends of a connection compute the same key, and no other call does.
LEMMA KeyFacts ==
  /\ \A c \in Calls : \A e \in Ends : KeyAt(c, e) = KeyAt(c, "dial") /\ KeyAt(c, e) \in Keys
  /\ \A c, d \in Calls : KeyAt(c, "dial") = KeyAt(d, "dial") => c = d
  <1>1. ASSUME NEW c \in Calls
        PROVE  /\ c[1] \in Ports /\ c[2] \in Ports /\ c[1] \in Nat /\ c[2] \in Nat
               /\ c[1] # c[2]
    <2>1. c \in Ports \X Ports /\ c[1] # c[2] /\ Ports \subseteq Nat
      BY CallsAssumption
    <2>2. c[1] \in Ports /\ c[2] \in Ports
      BY <2>1
    <2> QED
      BY <2>1, <2>2
  <1>2. ASSUME NEW c \in Calls, NEW e \in Ends
        PROVE  KeyAt(c, e) = KeyAt(c, "dial") /\ KeyAt(c, e) \in Keys
    <2>1. getKey(c[1], c[2]) = getKey(c[2], c[1])
      BY <1>1 DEF getKey
    <2>2. getKey(c[1], c[2]) \in Keys
      BY <1>1 DEF Keys
    <2> QED
      BY <2>1, <2>2 DEF KeyAt, Ends
  <1>3. ASSUME NEW c \in Calls, NEW d \in Calls, KeyAt(c, "dial") = KeyAt(d, "dial")
        PROVE  c = d
    <2>1. getKey(c[1], c[2]) = getKey(d[1], d[2])
      BY <1>3 DEF KeyAt
    <2>2. {c[1], c[2]} = {d[1], d[2]}
      BY <1>1, <2>1 DEF getKey
    <2> QED
      BY <2>2, CallsAssumption
  <1> QED
    BY <1>2, <1>3

LEMMA InitIInv == Init => IInv
  <1> SUFFICES ASSUME Init PROVE IInv
    OBVIOUS
  <1>1. TypeOK
    BY DEF Init, TypeOK
  <1>2. Entry
    BY KeyFacts DEF Init, Entry, UnderWay, Ends
  <1>3. OwnGroup /\ Callbacks /\ BothConnected
    BY DEF Init, OwnGroup, Callbacks, BothConnected
  <1>4. Counts
    BY DEF Init, Counts
  <1> QED
    BY <1>1, <1>2, <1>3, <1>4 DEF IInv

\* What an access of the map at a call's key finds.
LEMMA Lookup ==
  ASSUME IInv, NEW c \in Calls, NEW e \in Ends
  PROVE  /\ KeyAt(c, e) = KeyAt(c, "dial")
         /\ wgs[KeyAt(c, e)] = IF UnderWay(c) THEN c ELSE None
  BY KeyFacts DEF IInv, Entry

\* What a write of the map at a call's key does.
LEMMA Store ==
  ASSUME IInv, NEW c \in Calls, NEW v \in {c, None},
         wgs' = [wgs EXCEPT ![KeyAt(c, "dial")] = v]
  PROVE  /\ wgs' \in [Keys -> Calls \cup {None}]
         /\ \A d \in Calls : wgs'[KeyAt(d, "dial")] = IF d = c THEN v ELSE wgs[KeyAt(d, "dial")]
         /\ \A k \in Keys : wgs'[k] # None => k = KeyAt(wgs'[k], "dial")
  <1>1. wgs \in [Keys -> Calls \cup {None}]
    BY DEF IInv, TypeOK
  <1>2. \A d \in Calls : KeyAt(d, "dial") \in Keys
    BY KeyFacts DEF Ends
  <1>3. wgs' \in [Keys -> Calls \cup {None}]
    BY <1>1, <1>2
  <1>4. \A d \in Calls : wgs'[KeyAt(d, "dial")] = IF d = c THEN v ELSE wgs[KeyAt(d, "dial")]
    BY <1>1, <1>2, KeyFacts
  <1>5. ASSUME NEW k \in Keys, wgs'[k] # None PROVE k = KeyAt(wgs'[k], "dial")
    <2>1. CASE k = KeyAt(c, "dial")
      BY <1>1, <1>2, <1>5, <2>1
    <2>2. CASE k # KeyAt(c, "dial")
      BY <1>1, <1>2, <1>5, <2>2 DEF IInv, Entry
    <2> QED
      BY <2>1, <2>2
  <1> QED
    BY <1>3, <1>4, <1>5

LEMMA AddCheckStep ==
  ASSUME IInv, NEW c \in Calls, AddCheck(c)
  PROVE  IInv'
  <1>1. cpc[c] = "idle" /\ wgs[KeyAt(c, "dial")] = None
    BY Lookup DEF AddCheck, UnderWay, Ends
  <1>2. cpc' = [cpc EXCEPT ![c] = "checked"] /\ UNCHANGED <<wgs, count, waitOn, err, end, ref>>
    BY <1>1 DEF AddCheck, Goto
  <1>3. TypeOK'
    BY <1>2 DEF IInv, TypeOK
  <1>4. Entry'
    BY <1>1, <1>2 DEF IInv, TypeOK, Entry, UnderWay
  <1>5. OwnGroup' /\ Callbacks'
    BY <1>1, <1>2 DEF IInv, TypeOK, OwnGroup, Callbacks
  <1>6. Counts'
    BY <1>1, <1>2 DEF IInv, TypeOK, Counts, Told
  <1>7. BothConnected'
    BY <1>1, <1>2 DEF IInv, TypeOK, BothConnected
  <1> QED
    BY <1>3, <1>4, <1>5, <1>6, <1>7 DEF IInv

LEMMA AddStoreStep ==
  ASSUME IInv, NEW c \in Calls, AddStore(c)
  PROVE  IInv'
  <1>1. /\ cpc[c] = "checked" /\ cpc' = [cpc EXCEPT ![c] = "dialing"]
        /\ count' = [count EXCEPT ![c] = 2]
        /\ wgs' = [wgs EXCEPT ![KeyAt(c, "dial")] = c]
        /\ UNCHANGED <<waitOn, err, end, ref>>
    BY DEF AddStore, GroupSize, Goto
  <1>2. /\ wgs' \in [Keys -> Calls \cup {None}]
        /\ \A d \in Calls : wgs'[KeyAt(d, "dial")] = IF d = c THEN c ELSE wgs[KeyAt(d, "dial")]
        /\ \A k \in Keys : wgs'[k] # None => k = KeyAt(wgs'[k], "dial")
    BY <1>1, Store
  <1>3. TypeOK'
    BY <1>1, <1>2 DEF IInv, TypeOK
  <1>4. Entry'
    BY <1>1, <1>2 DEF IInv, TypeOK, Entry, UnderWay
  <1>5. OwnGroup' /\ Callbacks'
    BY <1>1 DEF IInv, TypeOK, OwnGroup, Callbacks
  <1>6. Counts'
    <2>1. Told(c, "dial")' = 0 /\ Told(c, "listen")' = 0
      BY <1>1 DEF IInv, Callbacks, Told, Ends
    <2> QED
      BY <1>1, <2>1 DEF IInv, TypeOK, Counts, Told
  <1>7. BothConnected'
    BY <1>1 DEF IInv, TypeOK, BothConnected
  <1> QED
    BY <1>3, <1>4, <1>5, <1>6, <1>7 DEF IInv

\* Steps that move a call within the part where its entry is in the map.
LEMMA MoveStep ==
  ASSUME IInv, NEW c \in Calls, UnderWay(c),
         NEW l \in {"dialed", "wait", "delete"}, cpc' = [cpc EXCEPT ![c] = l],
         UNCHANGED <<wgs, count, err, end, ref>>,
         l = "delete" => \A e \in Ends : end[c][e] \in {"found", "notified"},
         \/ UNCHANGED waitOn /\ l # "wait"
         \/ waitOn' = [waitOn EXCEPT ![c] = c]
  PROVE  IInv'
  <1>1. TypeOK'
    BY DEF IInv, TypeOK
  <1>2. Entry'
    BY DEF IInv, TypeOK, Entry, UnderWay
  <1>a. \A d \in Calls : /\ waitOn'[d] = waitOn[d] \/ waitOn'[d] = d
                         /\ cpc'[d] = "wait" => (d # c /\ waitOn'[d] = waitOn[d]) \/ waitOn'[d] = d
                         /\ cpc'[d] = IF d = c THEN l ELSE cpc[d]
    BY DEF IInv, TypeOK
  <1>b. ref' = ref /\ end' = end
    OBVIOUS
  <1>3. OwnGroup' /\ Callbacks'
    <2>1. OwnGroup'
      BY <1>a, <1>b DEF IInv, OwnGroup
    <2>2. ASSUME NEW d \in Calls PROVE cpc'[d] = "wait" => waitOn'[d] = d
      BY <1>a DEF IInv, Callbacks
    <2>3. \A d \in Calls : cpc'[d] \in {"idle", "checked"} => cpc[d] \in {"idle", "checked"}
      BY <1>a
    <2>4. Callbacks'
      BY <1>b, <2>2, <2>3 DEF IInv, Callbacks
    <2> QED
      BY <2>1, <2>4
  <1>4. Counts'
    BY DEF IInv, TypeOK, Counts, Told, UnderWay
  <1>5. BothConnected'
    BY DEF IInv, TypeOK, BothConnected
  <1> QED
    BY <1>1, <1>2, <1>3, <1>4, <1>5 DEF IInv

LEMMA DialedStep ==
  ASSUME IInv, NEW c \in Calls, Dialed(c)
  PROVE  IInv'
  BY MoveStep DEF Dialed, Goto, UnderWay

LEMMA WaitLookupStep ==
  ASSUME IInv, NEW c \in Calls, WaitLookup(c)
  PROVE  IInv'
  <1>1. UnderWay(c) /\ wgs[KeyAt(c, "dial")] = c
    BY Lookup DEF WaitLookup, UnderWay, Ends
  <1>2. c # None /\ waitOn \in [Calls -> Calls \cup {None}]
    BY CallsAssumption DEF IInv, TypeOK
  <1>3. /\ waitOn' = [waitOn EXCEPT ![c] = c]
        /\ cpc' = [cpc EXCEPT ![c] = "wait"]
        /\ UNCHANGED <<wgs, count, err, end, ref>>
    BY <1>1, <1>2 DEF WaitLookup, Goto
  <1> QED
    BY <1>1, <1>3, MoveStep

LEMMA WaitOverStep ==
  ASSUME IInv, NEW c \in Calls, WaitOver(c)
  PROVE  IInv'
  <1>1. cpc[c] = "wait" /\ waitOn[c] = c /\ count[c] = 0 /\ UnderWay(c)
    BY DEF WaitOver, IInv, Callbacks, UnderWay
  <1>2. 0 = 2 - Told(c, "dial") - Told(c, "listen")
    BY <1>1 DEF IInv, Counts
  <1>3. Told(c, "dial") = 1 /\ Told(c, "listen") = 1
    BY <1>2 DEF Told
  <1>4. \A e \in Ends : end[c][e] \in {"found", "notified"}
    BY <1>3 DEF Told, Ends
  <1>5. cpc' = [cpc EXCEPT ![c] = "delete"] /\ UNCHANGED <<wgs, count, waitOn, err, end, ref>>
    BY DEF WaitOver, Goto
  <1> QED
    BY <1>1, <1>4, <1>5, MoveStep

LEMMA DialFailedStep ==
  ASSUME IInv, NEW c \in Calls, DialFailed(c)
  PROVE  IInv'
  <1>1. /\ cpc[c] = "dialing" /\ end[c]["dial"] = "down"
        /\ err' = [err EXCEPT ![c] = TRUE]
        /\ end' = [end EXCEPT ![c]["dial"] = "failed"]
        /\ cpc' = [cpc EXCEPT ![c] = "delete"]
        /\ UNCHANGED <<wgs, count, waitOn, ref>>
    BY DEF DialFailed, AfterError, Goto
  <1>2. TypeOK'
    BY <1>1 DEF IInv, TypeOK, Ends
  <1>3. Entry'
    BY <1>1 DEF IInv, TypeOK, Entry, UnderWay
  <1>4. OwnGroup' /\ Callbacks'
    BY <1>1 DEF IInv, TypeOK, OwnGroup, Callbacks, Ends
  <1>5. Counts'
    <2>1. \A d \in Calls : \A e \in Ends : Told(d, e)' = Told(d, e)
      BY <1>1 DEF IInv, TypeOK, Told, Ends
    <2> QED
      BY <1>1, <2>1 DEF IInv, TypeOK, Counts, Ends
  <1>6. BothConnected'
    BY <1>1 DEF IInv, TypeOK, BothConnected, Ends
  <1> QED
    BY <1>2, <1>3, <1>4, <1>5, <1>6 DEF IInv

LEMMA DeleteStep ==
  ASSUME IInv, NEW c \in Calls, Delete(c)
  PROVE  IInv'
  <1>1. /\ cpc[c] = "delete" /\ cpc' = [cpc EXCEPT ![c] = "returned"]
        /\ wgs' = [wgs EXCEPT ![KeyAt(c, "dial")] = None]
        /\ UNCHANGED <<count, waitOn, err, end, ref>>
    BY DEF Delete, Goto
  <1>2. /\ wgs' \in [Keys -> Calls \cup {None}]
        /\ \A d \in Calls : wgs'[KeyAt(d, "dial")] = IF d = c THEN None ELSE wgs[KeyAt(d, "dial")]
        /\ \A k \in Keys : wgs'[k] # None => k = KeyAt(wgs'[k], "dial")
    BY <1>1, Store
  <1>3. TypeOK'
    BY <1>1, <1>2 DEF IInv, TypeOK
  <1>4. Entry'
    BY <1>1, <1>2 DEF IInv, TypeOK, Entry, UnderWay
  <1>5. OwnGroup' /\ Callbacks'
    BY <1>1 DEF IInv, TypeOK, OwnGroup, Callbacks
  <1>6. Counts'
    BY <1>1 DEF IInv, TypeOK, Counts, Told
  <1>7. BothConnected'
    BY <1>1 DEF IInv, TypeOK, BothConnected
  <1> QED
    BY <1>3, <1>4, <1>5, <1>6, <1>7 DEF IInv

\* Steps of the host that change the state of one end and nothing else.
LEMMA EndStep ==
  ASSUME IInv, NEW c \in Calls, NEW e \in Ends, cpc[c] \notin {"idle", "checked"},
         end[c][e] = "down", NEW l \in {"up", "failed"},
         end' = [end EXCEPT ![c][e] = l],
         UNCHANGED <<wgs, count, cpc, waitOn, err, ref>>
  PROVE  IInv'
  <1>1. \A d \in Calls : \A f \in Ends : end'[d][f] = IF d = c /\ f = e THEN l ELSE end[d][f]
    BY DEF IInv, TypeOK
  <1>2. TypeOK'
    BY DEF IInv, TypeOK
  <1>3. Entry' /\ OwnGroup'
    BY DEF IInv, Entry, UnderWay, OwnGroup
  <1>4. Callbacks'
    BY <1>1 DEF IInv, Callbacks
  <1>5. Counts'
    <2>1. \A d \in Calls : \A f \in Ends : Told(d, f)' = Told(d, f)
      BY <1>1 DEF Told
    <2> QED
      BY <2>1 DEF IInv, Counts, Ends
  <1>6. BothConnected'
    BY <1>1 DEF IInv, BothConnected
  <1> QED
    BY <1>2, <1>3, <1>4, <1>5, <1>6 DEF IInv

LEMMA HostIInv ==
  ASSUME IInv, NEW c \in Calls, HostStep(c)
  PROVE  IInv'
  <1>1. CASE DialFailed(c)
    BY <1>1, DialFailedStep
  <1>2. CASE ListenFailed(c)
    BY <1>2, EndStep DEF ListenFailed, Ends
  <1>3. ASSUME NEW e \in Ends, ConnUp(c, e) PROVE IInv'
    BY <1>3, EndStep DEF ConnUp
  <1> QED
    BY <1>1, <1>2, <1>3 DEF HostStep

LEMMA LookupStep ==
  ASSUME IInv, NEW c \in Calls, NEW e \in Ends, ConnectedLookup(c, e)
  PROVE  IInv'
  <1>1. /\ end[c][e] = "up" /\ ref[c][e] = None
        /\ UNCHANGED <<wgs, count, cpc, waitOn, err>>
        /\ cpc[c] \notin {"idle", "checked"}
    BY DEF ConnectedLookup, IInv, Callbacks
  <1>2. PICK v \in {c, None} : ref' = [ref EXCEPT ![c][e] = v]
    BY Lookup DEF ConnectedLookup
  <1>3. \A d \in Calls : \A f \in Ends : ref'[d][f] = IF d = c /\ f = e THEN v ELSE ref[d][f]
    BY <1>2 DEF IInv, TypeOK
  <1>4. c # None
    BY CallsAssumption
  <1>5. end' = [end EXCEPT ![c][e] = IF v = None THEN "notified" ELSE "found"]
    BY <1>3 DEF ConnectedLookup
  <1>6. \A d \in Calls : \A f \in Ends :
          end'[d][f] = IF d = c /\ f = e
                       THEN (IF v = None THEN "notified" ELSE "found") ELSE end[d][f]
    BY <1>5 DEF IInv, TypeOK
  <1>7. TypeOK'
    BY <1>1, <1>2, <1>5 DEF IInv, TypeOK
  <1>8. Entry' /\ OwnGroup'
    BY <1>1, <1>3 DEF IInv, Entry, UnderWay, OwnGroup
  <1>9. Callbacks'
    BY <1>1, <1>3, <1>4, <1>6 DEF IInv, Callbacks
  <1>10. Counts'
    <2>1. \A d \in Calls : \A f \in Ends : Told(d, f)' = Told(d, f)
      BY <1>1, <1>3, <1>4, <1>6 DEF Told
    <2> QED
      BY <1>1, <2>1 DEF IInv, Counts, Ends
  <1>11. BothConnected'
    BY <1>1, <1>6 DEF IInv, BothConnected
  <1> QED
    BY <1>7, <1>8, <1>9, <1>10, <1>11 DEF IInv

LEMMA DoneStep ==
  ASSUME IInv, NEW c \in Calls, NEW e \in Ends, ConnectedDone(c, e)
  PROVE  IInv'
  <1>1. /\ end[c][e] = "found" /\ ref[c][e] = c
        /\ count' = [count EXCEPT ![c] = @ - 1]
        /\ end' = [end EXCEPT ![c][e] = "notified"]
        /\ UNCHANGED <<wgs, cpc, waitOn, err, ref>>
        /\ cpc[c] \notin {"idle", "checked"}
    BY DEF ConnectedDone, IInv, Callbacks
  <1>2. \A d \in Calls : \A f \in Ends :
          end'[d][f] = IF d = c /\ f = e THEN "notified" ELSE end[d][f]
    BY <1>1 DEF IInv, TypeOK
  <1>3. count \in [Calls -> 0..2]
    BY DEF IInv, TypeOK
  <1>4. \A d \in Calls : \A f \in Ends :
          Told(d, f)' = IF d = c /\ f = e THEN 1 ELSE Told(d, f)
    BY <1>1, <1>2 DEF Told
  <1>5. Told(c, e) = 0
    BY <1>1 DEF Told
  <1>6. \A d \in Calls : \A f \in Ends : Told(d, f) \in {0, 1} /\ Told(d, f)' \in {0, 1}
    BY DEF Told
  <1>7. Counts'
    <2> SUFFICES ASSUME NEW d \in Calls
                 PROVE  count'[d] = IF cpc[d] \in {"idle", "checked"}
                                    THEN 0 ELSE 2 - Told(d, "dial")' - Told(d, "listen")'
      BY <1>1 DEF Counts
    <2>0. count[d] = IF cpc[d] \in {"idle", "checked"}
                     THEN 0 ELSE 2 - Told(d, "dial") - Told(d, "listen")
      BY DEF IInv, Counts
    <2>1. CASE d # c
      <3>1. Told(d, "dial")' = Told(d, "dial") /\ Told(d, "listen")' = Told(d, "listen")
        BY <1>4, <2>1 DEF Ends
      <3> QED
        BY <1>1, <1>3, <2>0, <2>1, <3>1
    <2>2. CASE d = c
      <3>1. Told(c, "dial")' + Told(c, "listen")' = Told(c, "dial") + Told(c, "listen") + 1
        BY <1>4, <1>5, <1>6 DEF Ends
      <3>2. count'[c] = count[c] - 1
        BY <1>1, <1>3
      <3>3. /\ Told(c, "dial") \in Int /\ Told(c, "listen") \in Int
            /\ Told(c, "dial")' \in Int /\ Told(c, "listen")' \in Int
        BY <1>6 DEF Ends
      <3> QED
        BY <1>1, <2>0, <2>2, <3>1, <3>2, <3>3
    <2> QED
      BY <2>1, <2>2
  <1>8. TypeOK'
    <2>1. count' \in [Calls -> 0..2]
      <3>1. count'[c] = 2 - Told(c, "dial")' - Told(c, "listen")'
        BY <1>1, <1>7 DEF Counts
      <3>2. count'[c] \in 0..2
        BY <1>6, <3>1 DEF Ends
      <3> QED
        BY <1>1, <1>3, <3>2
    <2> QED
      BY <1>1, <2>1 DEF IInv, TypeOK
  <1>9. Entry' /\ OwnGroup'
    BY <1>1 DEF IInv, Entry, UnderWay, OwnGroup
  <1>10. Callbacks'
    BY <1>1, <1>2 DEF IInv, Callbacks
  <1>11. BothConnected'
    BY <1>1, <1>2 DEF IInv, BothConnected
  <1> QED
    BY <1>7, <1>8, <1>9, <1>10, <1>11 DEF IInv

LEMMA StutterStep == IInv /\ UNCHANGED vars => IInv'
  BY DEF vars, IInv, TypeOK, Entry, UnderWay, OwnGroup, Counts, Told, Callbacks, BothConnected

LEMMA NextIInv == IInv /\ [Next]_vars => IInv'
  BY AddCheckStep, AddStoreStep, DialedStep, WaitLookupStep, WaitOverStep, DeleteStep,
     HostIInv, LookupStep, DoneStep, StutterStep
     DEF Next, ConnectStep, CallbackStep

LEMMA Inductive == Spec => []IInv
  BY InitIInv, NextIInv, PTL DEF Spec

LEMMA IInvSafe == IInv => EntriesOfCallsUnderWay
  <1> SUFFICES ASSUME IInv, NEW k \in Keys, wgs[k] # None
               PROVE  UnderWay(wgs[k]) /\ k = KeyAt(wgs[k], "dial")
    BY DEF EntriesOfCallsUnderWay, UnderWay
  <1>1. wgs[k] \in Calls /\ k = KeyAt(wgs[k], "dial")
    BY DEF IInv, TypeOK, Entry
  <1> QED
    BY <1>1 DEF IInv, Entry

(***************************************************************************)
(* The helper's state is type-correct; in particular no counter goes below *)
(* zero, where wg.Done panics (connection_helper.go:80).                   *)
(***************************************************************************)
THEOREM TypeCorrect == Spec => []TypeOK
  BY Inductive, PTL DEF IInv

(***************************************************************************)
(* Connect returns nil only when the callbacks of both ends have run       *)
(* (agent.go:193-204).                                                     *)
(***************************************************************************)
THEOREM ConnectMeansBoth == Spec => []BothConnected
  BY Inductive, PTL DEF IInv

(***************************************************************************)
(* Callbacks and waiters meet on the WaitGroup of their own pair: getKey   *)
(* separates the pairs (connection_helper.go:84-104).                      *)
(***************************************************************************)
THEOREM GroupsSeparate == Spec => []OwnGroup
  BY Inductive, PTL DEF IInv

(***************************************************************************)
(* The map holds the entries of calls under way only: Delete runs on every *)
(* path out of Connect (agent.go:197).                                     *)
(***************************************************************************)
THEOREM NoStaleEntry == Spec => []EntriesOfCallsUnderWay
  BY Inductive, IInvSafe, PTL

-----------------------------------------------------------------------------
(***************************************************************************)
(* While a call is under way, whoever was told was told on its group.      *)
(***************************************************************************)
ToldOwn == \A c \in Calls : \A e \in Ends : UnderWay(c) /\ end[c][e] = "notified" => ref[c][e] = c

LEMMA ToldOwnCalls ==
  ASSUME IInv, ToldOwn, NEW c \in Calls, ConnectStep(c)
  PROVE  ToldOwn'
  <1>1. UNCHANGED <<end, ref>>
    BY DEF ConnectStep, AddCheck, AddStore, Dialed, WaitLookup, WaitOver, Delete
  <1>2. ASSUME NEW d \in Calls, UnderWay(d)', ~UnderWay(d)
        PROVE  d = c /\ cpc[c] = "checked"
    BY <1>2 DEF IInv, TypeOK, UnderWay, Goto, ConnectStep, AddCheck, AddStore, Dialed, WaitLookup,
                WaitOver, Delete
  <1>3. cpc[c] = "checked" => \A e \in Ends : end[c][e] = "down"
    BY DEF IInv, Callbacks
  <1> QED
    BY <1>1, <1>2, <1>3 DEF ToldOwn

LEMMA ToldOwnHost ==
  ASSUME IInv, ToldOwn, NEW c \in Calls, HostStep(c)
  PROVE  ToldOwn'
  <1>1. UNCHANGED ref
    BY DEF HostStep, DialFailed, ListenFailed, ConnUp
  <1>2. \A d \in Calls : UnderWay(d)' => UnderWay(d)
    BY DEF IInv, TypeOK, UnderWay, Goto, HostStep, DialFailed, AfterError, ListenFailed, ConnUp
  <1>3. \A d \in Calls : \A f \in Ends : end'[d][f] = "notified" => end[d][f] = "notified"
    BY DEF IInv, TypeOK, Ends, HostStep, DialFailed, ListenFailed, ConnUp
  <1> QED
    BY <1>1, <1>2, <1>3 DEF ToldOwn

LEMMA ToldOwnLookup ==
  ASSUME IInv, ToldOwn, NEW c \in Calls, NEW e \in Ends, ConnectedLookup(c, e)
  PROVE  ToldOwn'
  <1>1. UNCHANGED cpc
    BY DEF ConnectedLookup
  <1>2. \A d \in Calls : \A f \in Ends : ref'[d][f] = IF d = c /\ f = e THEN wgs[KeyAt(c, e)] ELSE ref[d][f]
    BY DEF ConnectedLookup, IInv, TypeOK
  <1>3. \A d \in Calls : \A f \in Ends : ~(d = c /\ f = e) => end'[d][f] = end[d][f]
    BY DEF ConnectedLookup, IInv, TypeOK
  <1>4. UnderWay(c) => wgs[KeyAt(c, e)] = c
    BY KeyFacts DEF IInv, Entry
  <1> QED
    BY <1>1, <1>2, <1>3, <1>4 DEF ToldOwn, UnderWay

LEMMA ToldOwnDone ==
  ASSUME IInv, ToldOwn, NEW c \in Calls, NEW e \in Ends, ConnectedDone(c, e)
  PROVE  ToldOwn'
  <1>1. UNCHANGED <<cpc, ref>> /\ ref[c][e] = c
    BY DEF ConnectedDone, IInv, Callbacks
  <1>2. \A d \in Calls : \A f \in Ends : ~(d = c /\ f = e) => end'[d][f] = end[d][f]
    BY DEF ConnectedDone, IInv, TypeOK
  <1> QED
    BY <1>1, <1>2 DEF ToldOwn, UnderWay

LEMMA ToldOwnAlways == Spec => []ToldOwn
  <1>1. Init => ToldOwn
    BY DEF Init, ToldOwn, UnderWay
  <1>2. IInv /\ ToldOwn /\ UNCHANGED vars => ToldOwn'
    BY DEF vars, ToldOwn, UnderWay
  <1>3. IInv /\ ToldOwn /\ [Next]_vars => ToldOwn'
    BY <1>2, ToldOwnCalls, ToldOwnHost, ToldOwnLookup, ToldOwnDone DEF Next, CallbackStep
  <1> QED
    BY <1>1, <1>3, Inductive, PTL DEF Spec

LEMMA AllTold == IInv /\ ToldOwn => NoDoneLost
  <1> SUFFICES ASSUME IInv, ToldOwn, NEW c \in Calls, cpc[c] = "wait",
                      \A e \in Ends : end[c][e] = "notified"
               PROVE  count[waitOn[c]] = 0
    BY DEF NoDoneLost
  <1>1. waitOn[c] = c
    BY DEF IInv, Callbacks
  <1>2. ref[c]["dial"] = c /\ ref[c]["listen"] = c
    BY DEF ToldOwn, UnderWay, Ends
  <1>3. Told(c, "dial") = 1 /\ Told(c, "listen") = 1
    BY <1>2 DEF Told, Ends
  <1>4. count[c] = 2 - Told(c, "dial") - Told(c, "listen")
    BY DEF IInv, Counts
  <1> QED
    BY <1>1, <1>3, <1>4

(***************************************************************************)
(* A call of Connect that is blocked in Wait has an end that was not told: *)
(* only a connection that does not come up holds it, never a callback that *)
(* came too early or missed the group (connection_helper.go:40-47, 75-93). *)
(***************************************************************************)
THEOREM BlockedForCause == Spec => []NoDoneLost
  BY Inductive, ToldOwnAlways, AllTold, PTL
=============================================================================
