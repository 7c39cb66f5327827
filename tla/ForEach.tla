------------------------------ MODULE ForEach -------------------------------
(***************************************************************************)
(* What utils.MultiRoutineRunner promises StartAgents and ConnectAll,      *)
(* without blocks, goroutines or a WaitGroup: fn is called once for each   *)
(* item, the calls overlap as they like, each is counted as a success or a *)
(* failure, and the counts are returned once no call is left or under way  *)
(* (src/utils/utils.go:12).  MultiRoutineRunner implements this module.    *)
(***************************************************************************)
EXTENDS Naturals

CONSTANT ItemSets     \* the sets of items it may be called for

VARIABLES progress,   \* "enter", "run", "returned", "panic"
          left,       \* items fn is still to be called for
          running,    \* the number of calls under way
          success, failures,
          result      \* what is returned

forEachVars == <<progress, left, running, success, failures, result>>

ForEachInit ==
    /\ progress = "enter"
    /\ left \in ItemSets
    /\ running = 0
    /\ success = 0 /\ failures = 0
    /\ result = <<0, 0>>

\* The call begins; without items it panics.
Begin ==
    /\ progress = "enter"
    /\ progress' = IF left = {} THEN "panic" ELSE "run"
    /\ UNCHANGED <<left, running, success, failures, result>>

CallFn(k) ==
    /\ progress = "run"
    /\ left' = left \ {k}
    /\ running' = running + 1
    /\ UNCHANGED <<progress, success, failures, result>>

\* A call of fn is over and counted.
EndFn ==
    /\ progress = "run" /\ running > 0
    /\ running' = running - 1
    /\ \/ success' = success + 1 /\ UNCHANGED failures
       \/ failures' = failures + 1 /\ UNCHANGED success
    /\ UNCHANGED <<progress, left, result>>

ReturnCounts ==
    /\ progress = "run" /\ left = {} /\ running = 0
    /\ progress' = "returned"
    /\ result' = <<success, failures>>
    /\ UNCHANGED <<left, running, success, failures>>

ForEachNext == Begin \/ (\E k \in left : CallFn(k)) \/ EndFn \/ ReturnCounts

ForEachSpec == ForEachInit /\ [][ForEachNext]_forEachVars
=============================================================================
