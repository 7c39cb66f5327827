---------------------------- MODULE AgentConnect ----------------------------
(***************************************************************************)
(* GossipAgent.Connect (src/agent/agent.go) and the agentConnectionHelper  *)
(* it shares with the swarms' Connected callbacks                          *)
(* (src/agent/connection_helper.go).  Connect stores a WaitGroup of two    *)
(* for the pair of ports, dials, and waits until the callbacks of both     *)
(* ends have called Done on it.                                            *)
(*                                                                         *)
(* Every call of Connect is a goroutine, and so is every callback.  The    *)
(* helper's lock is held only around single accesses of the map, so each   *)
(* access is an action.  The host is external: a dial succeeds or fails,   *)
(* the listening end comes up, later or earlier, or fails on its own.      *)
(***************************************************************************)
EXTENDS Integers

CONSTANTS Ports,   \* the agents, by listening port
          Calls,   \* calls <<src, dst>> of src.Connect(dst)
          None

\* What the topologies guarantee (RandomTopology!NoDuplicate): no agent is
\* connected to itself and no two calls are for the same two agents.
ASSUME CallsAssumption ==
    /\ Ports \subseteq Nat
    /\ Calls \subseteq Ports \X Ports
    /\ None \notin Calls
    /\ \A c \in Calls : c[1] # c[2]
    /\ \A c, d \in Calls : {c[1], c[2]} = {d[1], d[2]} => c = d

Ends == {"dial", "listen"}

\* Mutant: the smaller port does not come first.
getKeyUnordered(lport, rport) == <<lport, rport>>

\* Mutant: the ports are added without the shift.
getKeySum(lport, rport) == <<lport + rport, 0>>

\* The key of a connection, the same from both ends: the 64-bit integer with
\* the larger port in its upper half.
getKey(lport, rport) == IF lport < rport THEN <<lport, rport>> ELSE <<rport, lport>>

Keys == {getKey(p, q) : p, q \in Ports}

\* (LocalMultiaddr, RemoteMultiaddr) of a connection as its ends see it.
KeyAt(c, e) == IF e = "dial" THEN getKey(c[1], c[2]) ELSE getKey(c[2], c[1])

VARIABLES wgs,     \* per key: the call that made its WaitGroup, or None
          count,   \* per call: the counter of the WaitGroup it made
          cpc,     \* per call: where Connect is
          waitOn,  \* per call: the WaitGroup that Wait looked up
          err,     \* per call: Connect returns an error
          end,     \* per call and end: the connection, and its callback
          ref      \* per call and end: the WaitGroup the callback looked up

vars == <<wgs, count, cpc, waitOn, err, end, ref>>

Init ==
    /\ wgs = [k \in Keys |-> None]
    /\ count = [c \in Calls |-> 0]
    /\ cpc = [c \in Calls |-> "idle"]
    /\ waitOn = [c \in Calls |-> None]
    /\ err = [c \in Calls |-> FALSE]
    /\ end = [c \in Calls |-> [e \in Ends |-> "down"]]
    /\ ref = [c \in Calls |-> [e \in Ends |-> None]]

Goto(c, l) == cpc' = [cpc EXCEPT ![c] = l]

-----------------------------------------------------------------------------
\* Add, under the read lock: an entry means that Connect fails
AddCheck(c) ==
    /\ cpc[c] = "idle"
    /\ IF wgs[KeyAt(c, "dial")] = None
       THEN Goto(c, "checked") /\ UNCHANGED err
       ELSE Goto(c, "returned") /\ err' = [err EXCEPT ![c] = TRUE]
    /\ UNCHANGED <<wgs, count, waitOn, end, ref>>

\* Mutant: the group waits for one end only.
GroupSizeOne == 1

\* wg.Add: the callbacks of both ends
GroupSize == 2

\* Add, under the write lock: wg.Add(2) and the entry
AddStore(c) ==
    /\ cpc[c] = "checked"
    /\ count' = [count EXCEPT ![c] = GroupSize]
    /\ wgs' = [wgs EXCEPT ![KeyAt(c, "dial")] = c]
    /\ Goto(c, "dialing")
    /\ UNCHANGED <<waitOn, err, end, ref>>

\* Host.Connect returns nil: the callback of the dialing end has run by then
Dialed(c) ==
    /\ cpc[c] = "dialing" /\ end[c]["dial"] = "notified"
    /\ Goto(c, "dialed")
    /\ UNCHANGED <<wgs, count, waitOn, err, end, ref>>

\* Mutant: Delete is not deferred, the error path skips it.
AfterErrorReturned == "returned"

\* The deferred Delete runs on every return after Add
AfterError == "delete"

\* Host.Connect returns an error
DialFailed(c) ==
    /\ cpc[c] = "dialing" /\ end[c]["dial"] = "down"
    /\ err' = [err EXCEPT ![c] = TRUE]
    /\ end' = [end EXCEPT ![c]["dial"] = "failed"]
    /\ Goto(c, AfterError)
    /\ UNCHANGED <<wgs, count, waitOn, ref>>

\* Wait looks the group up; its error is dropped
WaitLookup(c) ==
    /\ cpc[c] = "dialed"
    /\ waitOn' = [waitOn EXCEPT ![c] = wgs[KeyAt(c, "dial")]]
    /\ Goto(c, IF waitOn'[c] = None THEN "delete" ELSE "wait")
    /\ UNCHANGED <<wgs, count, err, end, ref>>

\* wg.Wait() is over
WaitOver(c) ==
    /\ cpc[c] = "wait" /\ count[waitOn[c]] = 0
    /\ Goto(c, "delete")
    /\ UNCHANGED <<wgs, count, waitOn, err, end, ref>>

\* The deferred Delete, and Connect returns
Delete(c) ==
    /\ cpc[c] = "delete"
    /\ wgs' = [wgs EXCEPT ![KeyAt(c, "dial")] = None]
    /\ Goto(c, "returned")
    /\ UNCHANGED <<count, waitOn, err, end, ref>>

-----------------------------------------------------------------------------
\* The connection is up at one end.  The dialing end comes up while
\* Host.Connect runs, the listening end at any time after the dial began.
ConnUp(c, e) ==
    /\ end[c][e] = "down"
    /\ IF e = "dial" THEN cpc[c] = "dialing"
                     ELSE cpc[c] \in {"dialing", "dialed", "wait", "delete", "returned"}
    /\ end' = [end EXCEPT ![c][e] = "up"]
    /\ UNCHANGED <<wgs, count, cpc, waitOn, err, ref>>

\* The listening end fails: Accept, the upgrade or the swarm refuses it.
ListenFailed(c) ==
    /\ end[c]["listen"] = "down" /\ cpc[c] \notin {"idle", "checked"}
    /\ end' = [end EXCEPT ![c]["listen"] = "failed"]
    /\ UNCHANGED <<wgs, count, cpc, waitOn, err, ref>>

\* The callback ConnectedF: Connected looks the group up; without one it
\* returns an error that is dropped
ConnectedLookup(c, e) ==
    /\ end[c][e] = "up"
    /\ ref' = [ref EXCEPT ![c][e] = wgs[KeyAt(c, e)]]
    /\ end' = [end EXCEPT ![c][e] = IF ref'[c][e] = None THEN "notified" ELSE "found"]
    /\ UNCHANGED <<wgs, count, cpc, waitOn, err>>

\* wg.Done(), which panics below zero
ConnectedDone(c, e) ==
    /\ end[c][e] = "found"
    /\ count' = [count EXCEPT ![ref[c][e]] = @ - 1]
    /\ end' = [end EXCEPT ![c][e] = "notified"]
    /\ UNCHANGED <<wgs, cpc, waitOn, err, ref>>

ConnectStep(c) == \/ AddCheck(c) \/ AddStore(c) \/ Dialed(c)
                  \/ WaitLookup(c) \/ WaitOver(c) \/ Delete(c)
HostStep(c) == \/ DialFailed(c) \/ ListenFailed(c)
               \/ \E e \in Ends : ConnUp(c, e)
CallbackStep(c) == \E e \in Ends : ConnectedLookup(c, e) \/ ConnectedDone(c, e)

Next == \E c \in Calls : ConnectStep(c) \/ HostStep(c) \/ CallbackStep(c)

Spec == Init /\ [][Next]_vars

\* Goroutines are scheduled; a dial ends, and each end comes up or fails.
FairSpec == Spec /\ \A c \in Calls : /\ WF_vars(ConnectStep(c))
                                     /\ WF_vars(HostStep(c))
                                     /\ WF_vars(CallbackStep(c))

-----------------------------------------------------------------------------
\* Types of the helper's map, the groups and the goroutines' states; a counter
\* below zero would be a panic.
TypeOK ==
    /\ wgs \in [Keys -> Calls \cup {None}]
    /\ count \in [Calls -> 0..2]
    /\ cpc \in [Calls -> {"idle", "checked", "dialing", "dialed", "wait", "delete", "returned"}]
    /\ waitOn \in [Calls -> Calls \cup {None}]
    /\ err \in [Calls -> BOOLEAN]
    /\ end \in [Calls -> [Ends -> {"down", "up", "found", "notified", "failed"}]]
    /\ ref \in [Calls -> [Ends -> Calls \cup {None}]]

\* Connect succeeds only when both nodes are connected: "do not exit Connect
\* until both nodes are connected" (agent.go:193).
BothConnected ==
    \A c \in Calls : cpc[c] \in {"delete", "returned"} /\ ~err[c] =>
        \A e \in Ends : end[c][e] \in {"found", "notified"}

\* The callbacks of a connection, and Wait, work on the WaitGroup of the call
\* that made the connection, never on another call's.
OwnGroup ==
    \A c \in Calls : /\ waitOn[c] \in {c, None}
                     /\ \A e \in Ends : ref[c][e] \in {c, None}

\* The map holds the groups of calls under way and nothing else: an entry left
\* behind would make every later Connect of that pair fail.
EntriesOfCallsUnderWay ==
    \A k \in Keys : wgs[k] # None =>
        /\ cpc[wgs[k]] \in {"dialing", "dialed", "wait", "delete"}
        /\ k = KeyAt(wgs[k], "dial")

\* Wait blocks only while an end has yet to be told: a callback that comes
\* while the call is under way finds its group, so no Done is lost, whatever
\* the order of the callbacks and of Wait's own lookup
\* (connection_helper.go:40-47, 75-93).
NoDoneLost ==
    \A c \in Calls :
        cpc[c] = "wait" /\ (\A e \in Ends : end[c][e] = "notified") => count[waitOn[c]] = 0

\* A call of Connect comes back, unless the listening end failed after a
\* successful dial: there is no timeout then (Wait, not WaitWithTimeout).
ReturnsUnlessListenFails ==
    \A c \in Calls : <>(cpc[c] = "returned" \/ (end[c]["dial"] = "notified" /\ end[c]["listen"] = "failed"))

-----------------------------------------------------------------------------
(***************************************************************************)
(* The inductive invariant behind the safety properties.                   *)
(***************************************************************************)
UnderWay(c) == cpc[c] \in {"dialing", "dialed", "wait", "delete"}
Told(c, e) == IF end[c][e] = "notified" /\ ref[c][e] = c THEN 1 ELSE 0

\* A call's key maps to its group exactly while the call is under way.
Entry ==
    /\ \A c \in Calls : wgs[KeyAt(c, "dial")] = IF UnderWay(c) THEN c ELSE None
    /\ \A k \in Keys : wgs[k] # None => k = KeyAt(wgs[k], "dial")

\* A counter is two less the ends that were told.
Counts ==
    \A c \in Calls :
        count[c] = IF cpc[c] \in {"idle", "checked"}
                   THEN 0 ELSE 2 - Told(c, "dial") - Told(c, "listen")

\* How far the callbacks and Wait are.
Callbacks ==
    \A c \in Calls :
        /\ cpc[c] = "wait" => waitOn[c] = c
        /\ \A e \in Ends :
              /\ cpc[c] \in {"idle", "checked"} => end[c][e] = "down"
              /\ end[c][e] = "found" => ref[c][e] = c
              /\ end[c][e] \in {"down", "up", "failed"} => ref[c][e] = None

IInv == TypeOK /\ Entry /\ OwnGroup /\ Counts /\ Callbacks /\ BothConnected
=============================================================================
