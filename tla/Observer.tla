------------------------------ MODULE Observer ------------------------------
(***************************************************************************)
(* Package observer (src/observer/state.go, stream.go, subject.go): a      *)
(* subject is a singly linked list of state objects.  Update appends a     *)
(* state and closes the done channel of the previous one; a stream is a    *)
(* pointer into the list that may move on once that channel is closed.     *)
(*                                                                         *)
(* Update and Observe run under the subject's RWMutex, but a stream reads  *)
(* its state's done channel and next pointer WITHOUT the lock, so the      *)
(* steps inside Update are visible to it one by one: they are separate     *)
(* actions here.                                                           *)
(***************************************************************************)
EXTENDS Naturals, Sequences

CONSTANTS Writers,     \* goroutines that call Update
          Streams,     \* streams that Observe may return
          Values,      \* values handed to Update
          InitValue,   \* the argument of NewSubject
          NoWriter,    \* the write lock is free
          MaxUpdates   \* bound: calls of Update in a behaviour

ASSUME ObserverAssumption ==
    /\ NoWriter \notin Writers
    /\ InitValue \in Values
    /\ MaxUpdates \in Nat

VARIABLES nodes,   \* the heap of state objects, in the order of allocation
          state,   \* subject.state, an index of nodes
          lock,    \* the writer that holds subject.RWMutex, or NoWriter
          pc,      \* per writer: the step of Update it is in
          recv,    \* per writer: the receiver s of state.update
          pos      \* per stream: stream.state, Nil before Observe

vars == <<nodes, state, lock, pc, recv, pos>>

Nil == 0

newState(v) == [value |-> v, next |-> Nil, done |-> FALSE]

Init ==
    /\ nodes = <<newState(InitValue)>>
    /\ state = 1
    /\ lock = NoWriter
    /\ pc = [w \in Writers |-> "idle"]
    /\ recv = [w \in Writers |-> Nil]
    /\ pos = [s \in Streams |-> Nil]

\* Mutant: Update and Observe without the lock.
FreeAlways == TRUE

\* Lock and RLock wait for the writer that holds the lock
Free == lock = NoWriter

\* subject.Update takes the lock, state.update runs s.next = newState(value)
UpdateLink(w, v) ==
    /\ pc[w] = "idle" /\ Free
    /\ Len(nodes) <= MaxUpdates
    /\ lock' = w
    /\ recv' = [recv EXCEPT ![w] = state]
    /\ nodes' = Append([nodes EXCEPT ![state].next = Len(nodes) + 1], newState(v))
    /\ pc' = [pc EXCEPT ![w] = "linked"]
    /\ UNCHANGED <<state, pos>>

\* Mutant: the done channel of the stale state is never closed.
CloseDoneNot(w) == nodes

CloseDone(w) == [nodes EXCEPT ![recv[w]].done = TRUE]

\* close(s.done): the streams that wait on s may go on
UpdateClose(w) ==
    /\ pc[w] = "linked"
    /\ nodes' = CloseDone(w)
    /\ pc' = [pc EXCEPT ![w] = "closed"]
    /\ UNCHANGED <<state, lock, recv, pos>>

\* s.state = (the returned s.next), Unlock
UpdateEnd(w) ==
    /\ pc[w] = "closed"
    /\ state' = nodes[recv[w]].next
    /\ lock' = NoWriter
    /\ pc' = [pc EXCEPT ![w] = "idle"]
    /\ UNCHANGED <<nodes, recv, pos>>

\* subject.Observe: RLock, so not while an Update is under way
Observe(s) ==
    /\ pos[s] = Nil /\ Free
    /\ pos' = [pos EXCEPT ![s] = state]
    /\ UNCHANGED <<nodes, state, lock, pc, recv>>

\* stream.Value and stream.Changes (a closed channel is always ready)
Value(s) == nodes[pos[s]].value
Changes(s) == nodes[pos[s]].done

\* WaitNext, or Next after Changes was ready: s.state = s.state.next
StreamNext(s) ==
    /\ pos[s] # Nil
    /\ Changes(s)
    /\ pos' = [pos EXCEPT ![s] = nodes[pos[s]].next]
    /\ UNCHANGED <<nodes, state, lock, pc, recv>>

Next ==
    \/ \E w \in Writers :
          \/ \E v \in Values : UpdateLink(w, v)
          \/ UpdateClose(w)
          \/ UpdateEnd(w)
    \/ \E s \in Streams : Observe(s) \/ StreamNext(s)

Spec == Init /\ [][Next]_vars

\* A writer inside Update does not stop there; a stream is read for ever.
Fairness ==
    /\ \A w \in Writers : WF_vars(UpdateClose(w)) /\ WF_vars(UpdateEnd(w))
    /\ \A s \in Streams : WF_vars(StreamNext(s))

FairSpec == Spec /\ Fairness

-----------------------------------------------------------------------------
StateObject == [value : Values, next : Nat, done : BOOLEAN]

\* Types of the heap, the lock and the pointers; the subject's own pointer is
\* never nil.
TypeOK ==
    /\ nodes \in Seq(StateObject)
    /\ state \in 1..Len(nodes)
    /\ lock \in Writers \cup {NoWriter}
    /\ pc \in [Writers -> {"idle", "linked", "closed"}]
    /\ recv \in [Writers -> 0..Len(nodes)]
    /\ pos \in [Streams -> 0..Len(nodes)]

\* A stream that finds its Changes channel closed finds a next state behind
\* it: Next never dereferences nil, whichever steps of an Update it overlaps
\* (state.go:22-26 against stream.go:41-44).
ClosedIsLinked ==
    \A i \in DOMAIN nodes : nodes[i].done => nodes[i].next # Nil

\* The list never forks or skips: the k-th state links the (k+1)-th, so no
\* value of a concurrent Update is lost and every stream has one future.
NoUpdateLost ==
    \A i \in 1..(Len(nodes) - 1) : nodes[i].next = i + 1

\* No channel is closed twice (Go panics then), with any number of writers.
CloseOnce ==
    \A w \in Writers : pc[w] = "linked" => ~nodes[recv[w]].done

\* Neither of the two panics: a nil next, a channel closed twice.
NoPanic == ClosedIsLinked /\ CloseOnce

\* The values a stream can have reached: all but a linked one whose
\* predecessor is not closed yet.
VisibleLen ==
    IF \E w \in Writers : pc[w] = "linked" THEN Len(nodes) - 1 ELSE Len(nodes)

\* The inductive invariant behind the four properties above: only the holder
\* of the lock is inside Update, the subject points at the tail of the chain
\* (one short of it during an Update), exactly the states before the visible
\* end are closed, and no stream is past that end.
Owner == \A w \in Writers : pc[w] # "idle" => lock = w
AtTail ==
    /\ nodes[Len(nodes)].next = Nil
    /\ lock = NoWriter => state = Len(nodes)
    /\ \A w \in Writers : pc[w] # "idle" => recv[w] = state /\ state = Len(nodes) - 1
Closed == \A i \in 1..Len(nodes) : nodes[i].done <=> i < VisibleLen
Behind == \A s \in Streams : pos[s] <= VisibleLen
IInv == TypeOK /\ NoUpdateLost /\ Owner /\ AtTail /\ Closed /\ Behind

Log == INSTANCE EventLog
       WITH log <- [i \in 1..VisibleLen |-> nodes[i].value], cursor <- pos

\* The linked list behaves as the log of EventLog: streams read every value
\* published after their Observe, in order, without gaps or repetitions
\* (the promise of stream.go:3-7).
ImplementsLog == Log!LogSpec

\* A stream waits in vain only for a value that nobody has given yet: while no
\* Update is under way, a stream whose channel is open is at the newest state
\* (stream.go:37-59 against subject.go:33-37).
WaitsForNewOnly ==
    \A s \in Streams :
        lock = NoWriter /\ pos[s] # Nil /\ ~nodes[pos[s]].done => pos[s] = Len(nodes)

\* A stream that is read catches up with every state allocated so far: no
\* notification is lost between a Next and the close of the next channel.
CatchesUp ==
    \A s \in Streams : \A i \in 1..(MaxUpdates + 1) :
        (pos[s] # Nil /\ Len(nodes) >= i) ~> (pos[s] >= i)

=============================================================================
