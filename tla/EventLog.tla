------------------------------ MODULE EventLog ------------------------------
(***************************************************************************)
(* What package observer promises its users, without pointers, locks or    *)
(* channels: a subject is an append-only log of values, a stream is a      *)
(* cursor into it.  A stream starts at the value that is current when it   *)
(* is created and then sees every later value, once and in order           *)
(* (src/observer/stream.go:3-7).  Observer implements this module; the     *)
(* messaging loops of MessageLoop use the subject through it.              *)
(***************************************************************************)
EXTENDS Naturals, Sequences

CONSTANTS Streams,    \* the streams Observe may return
          Values,     \* what Update may be called with
          InitValue   \* the argument of NewSubject

VARIABLES log,        \* the values of the subject, oldest first
          cursor      \* per stream: its place in log, 0 before Observe

logVars == <<log, cursor>>

LogInit ==
    /\ log = <<InitValue>>
    /\ cursor = [s \in Streams |-> 0]

\* subject.Update
Publish(v) ==
    /\ log' = Append(log, v)
    /\ UNCHANGED cursor

\* subject.Observe
Subscribe(s) ==
    /\ cursor[s] = 0
    /\ cursor' = [cursor EXCEPT ![s] = Len(log)]
    /\ UNCHANGED log

\* stream.Changes: is the channel of the current state closed?
HasNews(s) == cursor[s] \in 1..(Len(log) - 1)

\* stream.Next, legal only once Changes is closed
Advance(s) ==
    /\ HasNews(s)
    /\ cursor' = [cursor EXCEPT ![s] = @ + 1]
    /\ UNCHANGED log

LogNext ==
    \/ \E v \in Values : Publish(v)
    \/ \E s \in Streams : Subscribe(s) \/ Advance(s)

LogSpec == LogInit /\ [][LogNext]_logVars
=============================================================================
