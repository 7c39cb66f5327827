------------------------- MODULE MultiRoutineRunner -------------------------
(***************************************************************************)
(* utils.MultiRoutineRunner (src/utils/utils.go): the indices below        *)
(* itemsCount are cut into blocks, one goroutine calls fn for the indices  *)
(* of each block, and the caller gets the numbers of calls that succeeded  *)
(* and failed.  StartAgents and ConnectAll run on it.                      *)
(***************************************************************************)
EXTENDS Integers, FiniteSets, FiniteSetsExt

CONSTANTS ItemsCounts, ItemsPerRoutine, MaxRoutines   \* the arguments to try

ASSUME RunnerAssumption ==
    /\ ItemsCounts \subseteq Nat
    /\ ItemsPerRoutine \subseteq Nat \ {0}
    /\ MaxRoutines \subseteq Nat \ {0}

VARIABLES itemsCount, itemsPerRoutine, maxRoutines,   \* the arguments
          runnerPc,        \* the caller: "enter", "spawn", "wait", "returned", "panic"
          routinesCount, cntPerRoutine,
          spawned,         \* i of the spawning loop
          todo,            \* per goroutine: indices it still has to call fn for
          rpc,             \* per goroutine: "none", "loop", "called", "done"
          calls,           \* per index: calls of fn
          success, failures,
          result           \* what is returned

runnerArgs == <<itemsCount, itemsPerRoutine, maxRoutines>>
plan == <<routinesCount, cntPerRoutine>>
runnerVars == <<itemsCount, itemsPerRoutine, maxRoutines, runnerPc, routinesCount,
                cntPerRoutine, spawned, todo, rpc, calls, success, failures, result>>

\* Goroutines and indices, with room for an index past the last item.
Routines == 0..(maxRoutines - 1)
Indices == 0..(2 * itemsCount + 1)

RunnerInit ==
    /\ itemsCount \in ItemsCounts
    /\ itemsPerRoutine \in ItemsPerRoutine
    /\ maxRoutines \in MaxRoutines
    /\ runnerPc = "enter"
    /\ routinesCount = 0 /\ cntPerRoutine = 0
    /\ spawned = 0
    /\ todo = [r \in Routines |-> {}]
    /\ rpc = [r \in Routines |-> "none"]
    /\ calls = [k \in Indices |-> 0]
    /\ success = 0 /\ failures = 0
    /\ result = <<0, 0>>

CeilDiv(a, b) == (a + b - 1) \div b

\* The number of goroutines and the size of a block; a division by zero panics.
Split ==
    /\ runnerPc = "enter"
    /\ routinesCount' = Min({CeilDiv(itemsCount, itemsPerRoutine), maxRoutines})
    /\ IF routinesCount' = 0
       THEN runnerPc' = "panic" /\ UNCHANGED cntPerRoutine
       ELSE runnerPc' = "spawn" /\ cntPerRoutine' = CeilDiv(itemsCount, routinesCount')
    /\ UNCHANGED <<runnerArgs, spawned, todo, rpc, calls, success, failures, result>>

\* Mutant: the last blocks are not cut at itemsCount.
BlockUncut(r) == (r * cntPerRoutine)..(r * cntPerRoutine + cntPerRoutine - 1)

\* The indices of goroutine r: the block is cut at itemsCount, and empty when
\* it starts past it (cnt is negative then).
Block(r) ==
    LET offset == r * cntPerRoutine
        cnt == IF cntPerRoutine + offset > itemsCount
               THEN itemsCount - offset ELSE cntPerRoutine
    IN offset..(offset + cnt - 1)

Spawn ==
    /\ runnerPc = "spawn" /\ spawned < routinesCount
    /\ todo' = [todo EXCEPT ![spawned] = Block(spawned)]
    /\ rpc' = [rpc EXCEPT ![spawned] = "loop"]
    /\ spawned' = spawned + 1
    /\ UNCHANGED <<runnerArgs, runnerPc, plan, calls, success, failures, result>>

SpawnEnd ==
    /\ runnerPc = "spawn" /\ spawned = routinesCount
    /\ runnerPc' = "wait"
    /\ UNCHANGED <<runnerArgs, plan, spawned, todo, rpc, calls, success, failures, result>>

\* fn runs for the smallest index left
Call(r) ==
    /\ rpc[r] = "loop" /\ todo[r] # {}
    /\ LET k == Min(todo[r]) IN
       /\ calls' = [calls EXCEPT ![k] = @ + 1]
       /\ todo' = [todo EXCEPT ![r] = @ \ {k}]
    /\ rpc' = [rpc EXCEPT ![r] = "called"]
    /\ UNCHANGED <<runnerArgs, runnerPc, plan, spawned, success, failures, result>>

\* fn returned nil or an error, and one of the counters is incremented
Count(r) ==
    /\ rpc[r] = "called"
    /\ rpc' = [rpc EXCEPT ![r] = "loop"]
    /\ \/ success' = success + 1 /\ UNCHANGED failures
       \/ failures' = failures + 1 /\ UNCHANGED success
    /\ UNCHANGED <<runnerArgs, runnerPc, plan, spawned, todo, calls, result>>

\* Mutant: a goroutine without items never leaves the group.
FinishedIfBusy(r) == rpc[r] = "loop" /\ todo[r] = {} /\ Block(r) # {}

\* The loop of a goroutine is over
Finished(r) == rpc[r] = "loop" /\ todo[r] = {}

\* wg.Done()
Done(r) ==
    /\ Finished(r)
    /\ rpc' = [rpc EXCEPT ![r] = "done"]
    /\ UNCHANGED <<runnerArgs, runnerPc, plan, spawned, todo, calls, success, failures, result>>

\* Mutant: wg.Add(1).
GroupEmptyOne == \E r \in 0..(routinesCount - 1) : rpc[r] = "done"

\* wg.Wait() is over
GroupEmpty == \A r \in 0..(routinesCount - 1) : rpc[r] = "done"

Return ==
    /\ runnerPc = "wait" /\ GroupEmpty
    /\ runnerPc' = "returned"
    /\ result' = <<success, failures>>
    /\ UNCHANGED <<runnerArgs, plan, spawned, todo, rpc, calls, success, failures>>

CallerStep == Split \/ Spawn \/ SpawnEnd \/ Return
RoutineStep(r) == Call(r) \/ Count(r) \/ Done(r)

RunnerNext == CallerStep \/ \E r \in Routines : RoutineStep(r)

RunnerSpec == RunnerInit /\ [][RunnerNext]_runnerVars

\* Goroutines are scheduled and fn returns.
FairRunnerSpec ==
    /\ RunnerSpec /\ WF_runnerVars(CallerStep)
    /\ \A r \in 0..(Max(MaxRoutines) - 1) : WF_runnerVars(r \in Routines /\ RoutineStep(r))

-----------------------------------------------------------------------------
\* When the runner returns, fn was called once for every item, and for no index
\* past the last one, where ConnectAll would leave its list; and every call is
\* counted in what it returns.
ReturnsComplete ==
    runnerPc = "returned" =>
        /\ \A k \in Indices : calls[k] = (IF k < itemsCount THEN 1 ELSE 0)
        /\ result[1] + result[2] = itemsCount

\* The blocks, the goroutines and the group, seen from outside: how far the
\* runner is, the items to come and the calls under way.
Outline == IF runnerPc \in {"spawn", "wait"} THEN "run" ELSE runnerPc
ToCall == {k \in 0..(itemsCount - 1) : calls[k] = 0}
Calling == {r \in Routines : rpc[r] = "called"}
Each == INSTANCE ForEach
        WITH ItemSets <- {0..(n - 1) : n \in ItemsCounts},
             progress <- Outline, left <- ToCall, running <- Cardinality(Calling)

\* Whatever is going on in the goroutines, the runner is a loop over the items
\* whose calls overlap: no item is called again, nothing past the last one is
\* called, and it returns the counts of all calls once none is under way
\* (the promise of utils.go:12).
ImplementsForEach == Each!ForEachSpec

\* The steps the runner and its goroutines can still take: goroutines to start,
\* two steps for each item, one for a call under way, wg.Done, and the caller's.
Alive == {r \in Routines : rpc[r] # "done"}
CallerLeft == CASE runnerPc = "enter" -> 3 [] runnerPc = "spawn" -> 2 [] runnerPc = "wait" -> 1
                [] runnerPc \in {"returned", "panic"} -> 0
StepsLeft == (maxRoutines - spawned) + 2 * Cardinality(ToCall) + Cardinality(Calling)
             + Cardinality(Alive) + CallerLeft

\* The goroutines cannot keep the caller waiting for ever: each step leaves
\* fewer of them to take (utils.go:25-49).
EveryStepCounts == [][StepsLeft' < StepsLeft]_runnerVars

\* With items to run the runner returns, also when rounding up the block size
\* leaves goroutines without any.
Returns == <>(runnerPc = "returned" \/ itemsCount = 0)

-----------------------------------------------------------------------------
(***************************************************************************)
(* The inductive invariant behind ReturnsComplete.                         *)
(***************************************************************************)
Types ==
    /\ itemsCount \in Nat /\ itemsPerRoutine \in Nat \ {0} /\ maxRoutines \in Nat \ {0}
    /\ runnerPc \in {"enter", "spawn", "wait", "returned", "panic"}
    /\ routinesCount \in 0..maxRoutines /\ cntPerRoutine \in Nat
    /\ spawned \in 0..routinesCount
    /\ todo \in [Routines -> SUBSET Int]
    /\ rpc \in [Routines -> {"none", "loop", "called", "done"}]
    /\ calls \in [Indices -> Nat]
    /\ success \in Nat /\ failures \in Nat

\* The blocks are cut so that they hold all indices.
Planned ==
    /\ runnerPc \in {"enter", "panic"} => spawned = 0
    /\ runnerPc \in {"spawn", "wait", "returned"} =>
          routinesCount > 0 /\ cntPerRoutine = CeilDiv(itemsCount, routinesCount)
    /\ runnerPc \in {"wait", "returned"} => spawned = routinesCount

\* A goroutine works on its block from its start to wg.Done.
OnBlock ==
    \A r \in Routines :
        /\ rpc[r] = "none" <=> r >= spawned
        /\ todo[r] \subseteq Block(r)
        /\ rpc[r] \in {"none", "done"} => todo[r] = {}

\* The calls so far are those a started goroutine is through with.
Through ==
    /\ \A r \in 0..(spawned - 1) : \A k \in Block(r) : calls[k] = (IF k \in todo[r] THEN 0 ELSE 1)
    /\ \A k \in Indices : calls[k] > 0 => \E r \in 0..(spawned - 1) : k \in Block(r)

\* The counters and the calls under way make up the calls made.
Called == {k \in Indices : calls[k] = 1}
Tally == success + failures + Cardinality(Calling) = Cardinality(Called)

AllDone ==
    runnerPc = "returned" => result = <<success, failures>> /\ \A r \in Routines : rpc[r] \in {"none", "done"}

RunnerInv == Types /\ Planned /\ OnBlock /\ Through /\ Tally /\ AllDone
=============================================================================
