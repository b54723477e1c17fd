----------------------------- MODULE ScopedJoin -----------------------------
(***************************************************************************)
(* The scoped engines (src/src/scoped): fork-join of two branches on OS    *)
(* threads, without descriptors. parallel_call pushes its second branch as *)
(* a TaskRef, runs the first one, and then either gets the TaskRef back    *)
(* and runs the branch inline, or helps with other work until the branch's *)
(* latch is set.                                                           *)
(*                                                                         *)
(* In the sync engine the branch lives in the caller's frame and the latch *)
(* is a flag. In the async engine the branch is an Arc, the latch may hold *)
(* the waker of the driver that polls the call, and the call is a future   *)
(* that its user may drop at any poll.                                     *)
(***************************************************************************)
EXTENDS Integers, FiniteSets, SequencesExt

CONSTANTS
  Thread,      \* worker threads
  Caller,      \* the worker that runs the root
  MaxForks     \* bound: parallel_calls of a behaviour

ASSUME ScopedAssumption == Caller \in Thread /\ MaxForks \in Nat

Root   == 0
Branch == 1 .. MaxForks   \* the second branch of the n-th parallel_call; it names the call
Job    == Branch \cup {Root}

VARIABLES
  engine,    \* "sync" or "async"
  forks,     \* parallel_calls so far
  frames,    \* per thread, what is on its stack: jobs it runs, the last one on top
  calls,     \* per job, its open parallel_calls, the innermost last
  aDone,     \* calls whose first branch has finished
  deque,     \* per thread, its run queue of TaskRefs
  result,    \* branches whose result is stored
  latched,   \* branches whose latch is set
  waiter,    \* per branch, the driver whose waker its latch holds
  woken,     \* drivers whose WakeFlag is up
  outside,   \* drivers whose waker a pending leaf future has given away
  pended,    \* drivers that had such a leaf (bound: one each)
  held,      \* per branch, who holds its storage: the caller's frame, or the Arc's count
  over       \* the pool is told to finish

latches    == <<latched, waiter>>
branches   == <<result, held>>
scopedvars == <<engine, forks, frames, calls, aDone, deque, branches, latches, woken,
                outside, pended, over>>

ScopedInit ==
  /\ engine \in {"sync", "async"} /\ forks = 0 /\ over = FALSE
  /\ frames = [w \in Thread |-> IF w = Caller THEN <<[job |-> Root, at |-> "run"]>> ELSE <<>>]
  /\ calls = [j \in Job |-> <<>>] /\ deque = [w \in Thread |-> <<>>]
  /\ aDone = {} /\ result = {} /\ latched = {} /\ woken = {} /\ outside = {} /\ pended = {}
  /\ waiter = [b \in Branch |-> {}] /\ held = [b \in Branch |-> 0]

Top(w)       == Last(frames[w])
Stands(w, p) == frames[w] # <<>> /\ Top(w).at = p
StepsTo(w, p) == [frames EXCEPT ![w] = Front(@) \o <<[Top(w) EXCEPT !.at = p]>>]
Innermost(j) == Last(calls[j])
Runs(w, j)   == \E i \in DOMAIN frames[w] : frames[w][i].job = j
Driving      == {j \in Job : \E w \in Thread : Runs(w, j)}

(* The job's own code runs, or the first branch of its innermost call:     *)
(* with the same stack, and in the async engine with the same waker.       *)
InUserCode(w) ==
  /\ Stands(w, "run")
  /\ calls[Top(w).job] # <<>> => Innermost(Top(w).job) \notin aDone

---------------------------------------------------------------------------
(* The async call keeps an Arc, and the TaskRef takes another one along.   *)
HoldersAtFork == IF engine = "sync" THEN 1 ELSE 2

(* parallel_call (the async one at its first poll) pushes the branch.      *)
Fork(w) ==
  LET b == forks + 1 IN
  /\ InUserCode(w) /\ b \in Branch
  /\ forks' = b
  /\ calls' = [calls EXCEPT ![Top(w).job] = Append(@, b)]
  /\ deque' = [deque EXCEPT ![w] = Append(@, b)]
  /\ held' = [held EXCEPT ![b] = HoldersAtFork]
  /\ UNCHANGED <<engine, frames, aDone, result, latches, woken, outside, pended, over>>

(* The first branch is over, or the async call is polled again after that: *)
(* take the branch back if it is still the last one of the own queue, and  *)
(* run it inline. Whatever else comes back is put back.                    *)
PopOwn(w) ==
  LET j == Top(w).job
      b == Innermost(j)
      own == deque[w] # <<>> /\ Last(deque[w]) = b
      next == IF engine = "sync" THEN "help" ELSE "waits"
  IN
  /\ Stands(w, "run") /\ calls[j] # <<>>
  /\ aDone' = aDone \cup {b}
  /\ IF own
     THEN /\ deque' = [deque EXCEPT ![w] = Front(@)]
          /\ frames' = [frames EXCEPT ![w] = Append(StepsTo(w, "inline")[w],
                                                    [job |-> b, at |-> "run"])]
          /\ held' = [held EXCEPT ![b] = IF engine = "sync" THEN @ ELSE @ - 1]
     ELSE frames' = StepsTo(w, next) /\ UNCHANGED <<deque, held>>
  /\ UNCHANGED <<engine, forks, calls, result, latches, woken, outside, pended, over>>

(* The innermost call of j returns with both results, or is dropped.       *)
CallEnds(j) ==
  /\ calls' = [calls EXCEPT ![j] = Front(@)]
  /\ aDone' = aDone \ {Innermost(j)}
  /\ held' = [held EXCEPT ![Innermost(j)] = @ - 1]

(* sync: the latch is probed between two attempts to help.                 *)
SeeLatch(w) ==
  LET b == Innermost(Top(w).job) IN
  /\ engine = "sync" /\ Stands(w, "help") /\ b \in latched
  /\ CallEnds(Top(w).job) /\ result' = result \ {b} /\ frames' = StepsTo(w, "run")
  /\ UNCHANGED <<engine, forks, deque, latches, woken, outside, pended, over>>

(* async: leave the driver's waker in the latch, in place of an earlier    *)
(* one, or find the branch finished.                                       *)
RegisterBlind(w) ==
  LET j == Top(w).job
      b == Innermost(j)
  IN
  /\ Stands(w, "waits")
  /\ frames' = StepsTo(w, "help") /\ waiter' = [waiter EXCEPT ![b] = {j}]
  /\ UNCHANGED <<engine, forks, calls, aDone, deque, branches, latched, woken, outside, pended,
                 over>>

Register(w) ==
  LET j == Top(w).job
      b == Innermost(j)
  IN
  /\ Stands(w, "waits")
  /\ IF b \in latched
     THEN CallEnds(j) /\ result' = result \ {b} /\ frames' = StepsTo(w, "run") /\ UNCHANGED waiter
     ELSE /\ frames' = StepsTo(w, "help") /\ waiter' = [waiter EXCEPT ![b] = {j}]
          /\ UNCHANGED <<calls, aDone, branches>>
  /\ UNCHANGED <<engine, forks, deque, latched, woken, outside, pended, over>>

(* async: a future inside the polled one is pending, and the poll ends;    *)
(* somebody wakes the driver later, maybe after it was polled for another  *)
(* reason.                                                                 *)
LeafPends(w) ==
  /\ engine = "async" /\ InUserCode(w) /\ Top(w).job \notin pended
  /\ frames' = StepsTo(w, "help")
  /\ outside' = outside \cup {Top(w).job} /\ pended' = pended \cup {Top(w).job}
  /\ UNCHANGED <<engine, forks, calls, aDone, deque, branches, latches, woken, over>>

LeafWakes(j) ==
  /\ j \in outside
  /\ outside' = outside \ {j} /\ woken' = woken \cup ({j} \cap Driving)
  /\ UNCHANGED <<engine, forks, frames, calls, aDone, deque, branches, latches, pended, over>>

(* async: drive() polls when its flag was up.                              *)
PollDriven(w) ==
  /\ engine = "async" /\ Stands(w, "help") /\ Top(w).job \in woken
  /\ woken' = woken \ {Top(w).job} /\ frames' = StepsTo(w, "run")
  /\ UNCHANGED <<engine, forks, calls, aDone, deque, branches, latches, outside, pended, over>>

(* async: the user drops the future of the innermost call. The branch      *)
(* stays where it is, in a queue or with a driver.                         *)
DropCall(w) ==
  /\ engine = "async" /\ Stands(w, "run") /\ calls[Top(w).job] # <<>>
  /\ CallEnds(Top(w).job)
  /\ UNCHANGED <<engine, forks, frames, deque, result, latches, woken, outside, pended, over>>

(* try_run_one: the newest TaskRef of the own queue, or the oldest of      *)
(* another one.                                                            *)
Takes(w, b) ==
  /\ IF deque[w] # <<>>
     THEN b = Last(deque[w]) /\ deque' = [deque EXCEPT ![w] = Front(@)]
     ELSE \E v \in Thread \ {w} : /\ deque[v] # <<>> /\ b = Head(deque[v])
                                  /\ deque' = [deque EXCEPT ![v] = Tail(@)]
  /\ frames' = [frames EXCEPT ![w] = Append(@, [job |-> b, at |-> "run"])]

(* A waiting thread helps, an idle one works until the pool is over, and   *)
(* drains what it sees after that.                                         *)
RunOne(w) ==
  /\ Stands(w, "help") \/ (frames[w] = <<>> /\ w # Caller)
  /\ \E b \in Branch : Takes(w, b)
  /\ UNCHANGED <<engine, forks, calls, aDone, branches, latches, woken, outside, pended, over>>

(* The branch that a sync caller runs inline is a plain call.              *)
ReturnInline(w) ==
  LET n == Len(frames[w]) IN
  /\ engine = "sync" /\ Stands(w, "run") /\ calls[Top(w).job] = <<>>
  /\ n > 1 /\ frames[w][n - 1].at = "inline"
  /\ frames' = [frames EXCEPT ![w] = [Front(@) EXCEPT ![n - 1].at = "run"]]
  /\ CallEnds(frames[w][n - 1].job)
  /\ UNCHANGED <<engine, forks, deque, result, latches, woken, outside, pended, over>>

(* Otherwise the result is stored, and then the latch set.                 *)
StoreResult(w) ==
  LET n == Len(frames[w]) IN
  /\ Stands(w, "run") /\ Top(w).job # Root /\ calls[Top(w).job] = <<>>
  /\ engine = "sync" /\ n > 1 => frames[w][n - 1].at # "inline"
  /\ result' = result \cup {Top(w).job} /\ frames' = StepsTo(w, "stored")
  /\ UNCHANGED <<engine, forks, calls, aDone, deque, latches, woken, outside, pended, held, over>>

(* Setting the latch wakes the driver it holds. Who executed the TaskRef   *)
(* lets go of its Arc; who drove its own branch inline takes the result.   *)
SetLatch(w) ==
  LET n == Len(frames[w])
      b == Top(w).job
      inline == n > 1 /\ frames[w][n - 1].at = "inline"
      j == frames[w][n - 1].job
  IN
  /\ Stands(w, "stored")
  /\ latched' = latched \cup {b}
  /\ woken' = woken \cup (waiter[b] \cap Driving) /\ waiter' = [waiter EXCEPT ![b] = {}]
  /\ IF inline
     THEN /\ frames' = [frames EXCEPT ![w] = [Front(@) EXCEPT ![n - 1].at = "run"]]
          /\ CallEnds(j) /\ result' = result \ {b}
     ELSE /\ frames' = [frames EXCEPT ![w] = Front(@)]
          /\ held' = [held EXCEPT ![b] = IF engine = "sync" THEN @ ELSE @ - 1]
          /\ UNCHANGED <<calls, aDone, result>>
  /\ UNCHANGED <<engine, forks, deque, outside, pended, over>>

(* The root has returned: the pool is told to finish.                      *)
RootEnds ==
  /\ Stands(Caller, "run") /\ Top(Caller).job = Root /\ calls[Root] = <<>>
  /\ frames' = [frames EXCEPT ![Caller] = <<>>] /\ over' = TRUE
  /\ UNCHANGED <<engine, forks, calls, aDone, deque, branches, latches, woken, outside, pended>>

ThreadStep(w) ==
  \/ Fork(w) \/ PopOwn(w) \/ SeeLatch(w) \/ Register(w) \/ LeafPends(w) \/ PollDriven(w)
  \/ DropCall(w) \/ RunOne(w) \/ ReturnInline(w) \/ StoreResult(w) \/ SetLatch(w)

ScopedNext == RootEnds \/ (\E w \in Thread : ThreadStep(w)) \/ \E j \in Job : LeafWakes(j)

---------------------------------------------------------------------------
Queued(w, b) == \E i \in DOMAIN deque[w] : deque[w][i] = b
IsOpen(b)    == \E j \in Job : \E i \in DOMAIN calls[j] : calls[j][i] = b

(* The storage of a branch outlives every TaskRef in a queue and every     *)
(* thread that runs it: the caller's frame in the sync engine, the Arc     *)
(* when the call was dropped. A branch is in one place.                    *)
StorageHeld ==
  \A b \in 1 .. forks :
    LET places == {w \in Thread : Queued(w, b)} \cup {w \in Thread : Runs(w, b)} IN
    /\ Cardinality(places) <= 1
    /\ places # {} => held[b] > 0
    /\ held[b] > 0 => places # {} \/ IsOpen(b)

(* Who sees the latch set, or is about to look, finds the result.          *)
ResultStored ==
  \A b \in latched : IsOpen(b) => b \in result

(* Before the root returns somebody can go on: a driver whose flag is down *)
(* and that no leaf will wake waits for a branch that is queued or runs,   *)
(* and the waits do not close a circle through the stacks that helping     *)
(* builds up.                                                              *)
SomebodyActs ==
  \/ over
  \/ \E w \in Thread : deque[w] # <<>>
  \/ \E w \in Thread :
       /\ frames[w] # <<>>
       /\ Top(w).at = "help" =>
            \/ Top(w).job \in woken \cup outside
            \/ engine = "sync" /\ Innermost(Top(w).job) \in latched

(* The driver that waits for a finished branch was told.                   *)
WaitersTold ==
  engine = "async" =>
    \A w \in Thread : \A i \in DOMAIN frames[w] :
      LET j == frames[w][i].job IN
      frames[w][i].at = "help" /\ calls[j] # <<>> /\ Innermost(j) \in aDone
        => j \in waiter[Innermost(j)] \/ j \in woken

(* A parallel_call of the scoped engines never runs a branch whose      *)
(* storage is gone, never takes a result that is not there, never waits    *)
(* for a branch that has finished without being told, and helping never    *)
(* brings everybody to a halt (sync_engine.rs, async_engine.rs).           *)
ScopedInv == StorageHeld /\ ResultStored /\ SomebodyActs /\ WaitersTold

ScopedSpec == ScopedInit /\ [][ScopedNext]_scopedvars
=============================================================================
