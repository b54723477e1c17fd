------------------------------ MODULE McsMutex ------------------------------
(***************************************************************************)
(* The mutex and condition variable of resumable/stackful/sync/mcs_mutex.rs*)
(* over StackfulSched.  A waiter suspends; the callback of its switch      *)
(* publishes its token in a wait slot (stackful/suspended.rs) and then does*)
(* what makes the slot reachable: link the waiter's node to its            *)
(* predecessor, or release the lock of the waiters' list and drop the      *)
(* guard.                                                                  *)
(*                                                                         *)
(* An unlock that spins for its successor's link yields every 64 loads;   *)
(* SpinOut names the frames whose spinning lasts that long.                *)
(***************************************************************************)
EXTENDS StackfulSched

CONSTANTS
  Node,        \* memory for nodes
  MaxCalls,    \* bound: lock and wait calls of all tasks
  Waits,       \* whether tasks use the condition variable
  SpinOut      \* frames in which an unlock may spin for 64 loads

ASSUME McsAssumption ==
  /\ None \notin Node
  /\ MaxCalls \in Nat
  /\ Waits \in BOOLEAN
  /\ SpinOut \subseteq {"task", "cv"}

VARIABLES
  tail,       \* McsMutex::tail
  next,       \* next[n], of each node
  slot,       \* slot[n]: the token in the node's wait slot
  free,       \* memory no node is in
  waiters,    \* McsCondvar::waiters: whose slots are in the list
  cvSlot,     \* tasks whose token is in their slot of the list
  cvLock,     \* the list's spin lock is held
  calls       \* lock and wait calls so far

mcs == <<tail, next, slot, free, waiters, cvSlot, cvLock, calls>>
vars == <<sched, mcs>>

Init ==
  /\ SchedInit
  /\ tail = None
  /\ next = [n \in Node |-> None]
  /\ slot = [n \in Node |-> None]
  /\ free = Node
  /\ waiters = <<>> /\ cvSlot = {} /\ cvLock = FALSE
  /\ calls = 0

AtTask(w, steps) == Top(w).op = "task" /\ Top(w).step \in steps

-----------------------------------------------------------------------------
(* lock.                                                                   *)

(* Free memory is alike, so that it does not matter which of it is used.    *)
NewNode(n) ==
  /\ free # {} /\ n = CHOOSE m \in free : TRUE
  /\ free' = free \ {n}
  /\ next' = [next EXCEPT ![n] = None]
  /\ slot' = [slot EXCEPT ![n] = None]

(* A fresh node is swapped into the tail; without a predecessor the task   *)
(* goes on, else it suspends.                                              *)
Lock(w) ==
  LET t == thread[w]
      f == Top(w)
  IN
  /\ \/ AtTask(w, {"out"}) /\ calls < MaxCalls /\ calls' = calls + 1
     \/ AtTask(w, {"relock"}) /\ UNCHANGED calls
  /\ \E n \in Node :
       /\ NewNode(n)
       /\ tail' = n
       /\ \/ /\ tail = None
             /\ frames' = WithTop(w, [f EXCEPT !.step = "in", !.node = n])
             /\ UNCHANGED <<thread, saved, queues>>
          \/ /\ tail # None
             /\ SuspendToSched(w, [f EXCEPT !.step = "waited", !.node = n],
                  [op |-> "lock", who |-> t, step |-> "publish", wk |-> w,
                   node |-> n, prev |-> tail])
  /\ UNCHANGED <<waiters, cvSlot, cvLock>>

(* Mutant: the node is linked before its slot is filled.                   *)
PublishLate(w) ==
  LET f == Top(w) IN
  /\ f.op = "lock" /\ f.step = "publish"
  /\ IF next[f.prev] # f.node
     THEN /\ next' = [next EXCEPT ![f.prev] = f.node]
          /\ UNCHANGED <<thread, frames, slot>>
     ELSE /\ slot' = [slot EXCEPT ![f.node] = f.who]
          /\ Return(w)
          /\ UNCHANGED next
  /\ UNCHANGED <<saved, queues, tail, free, waiters, cvSlot, cvLock, calls>>

(* wait_with: the callback fills the slot.                                 *)
Publish(w) ==
  LET f == Top(w) IN
  /\ f.op = "lock" /\ f.step = "publish"
  /\ slot' = [slot EXCEPT ![f.node] = f.who]
  /\ Advance(w, "link")
  /\ UNCHANGED <<saved, queues, tail, next, free, waiters, cvSlot, cvLock, calls>>

Link(w) ==
  LET f == Top(w) IN
  /\ f.step = "link"
  /\ next' = [next EXCEPT ![f.prev] = f.node]
  /\ Return(w)
  /\ UNCHANGED <<saved, queues, tail, slot, free, waiters, cvSlot, cvLock, calls>>

(* The lock returns to its caller.                                         *)
Granted(w) ==
  /\ AtTask(w, {"waited"})
  /\ Advance(w, "in")
  /\ UNCHANGED <<saved, queues, mcs>>

-----------------------------------------------------------------------------
(* Drop for McsMutexGuard: of a task's own guard, or of the one a wait has *)
(* moved into its callback.                                                *)

StartDrop(w) ==
  /\ AtTask(w, {"in"})
  /\ Advance(w, "drop")
  /\ UNCHANGED <<saved, queues, mcs>>

(* The guard is gone and its node freed.                                   *)
Dropped(w) ==
  /\ free' = free \cup {Top(w).node}
  /\ IF Top(w).op = "task"
     THEN frames' = WithTop(w, [Top(w) EXCEPT !.step = "out", !.node = None]) /\ UNCHANGED thread
     ELSE Return(w)

(* Mutant: the tail is compared with null instead of the node.             *)
ReleaseTailBlind(w) ==
  /\ Top(w).step = "drop"
  /\ tail' = None
  /\ Dropped(w)
  /\ UNCHANGED <<saved, queues, next, slot, waiters, cvSlot, cvLock, calls>>

ReleaseTail(w) ==
  LET n == Top(w).node IN
  /\ Top(w).step = "drop"
  /\ \/ tail = n /\ tail' = None /\ Dropped(w)
     \/ tail # n /\ Advance(w, "spin") /\ UNCHANGED <<tail, free>>
  /\ UNCHANGED <<saved, queues, next, slot, waiters, cvSlot, cvLock, calls>>

Spinning(w) == Top(w).step = "spin" /\ next[Top(w).node] = None

SpinYields(w) ==
  /\ Spinning(w) /\ Top(w).op \in SpinOut
  /\ YieldNow(w)
  /\ UNCHANGED mcs

(* notify: take the successor's token out of its slot and push it.         *)
HandOver(w) ==
  LET n == next[Top(w).node] IN
  /\ Top(w).step = "spin" /\ n # None
  /\ slot[n] # None
  /\ slot' = [slot EXCEPT ![n] = None]
  /\ Push(w, slot[n])
  /\ Dropped(w)
  /\ UNCHANGED <<saved, deferred, rootCont, tail, next, waiters, cvSlot, cvLock, calls>>

-----------------------------------------------------------------------------
(* McsCondvar.                                                             *)

(* wait: with the list locked, append a slot and suspend.                  *)
Wait(w) ==
  LET t == thread[w]
      f == Top(w)
  IN
  /\ Waits /\ AtTask(w, {"in"}) /\ ~ cvLock /\ calls < MaxCalls
  /\ calls' = calls + 1
  /\ cvLock' = TRUE
  /\ waiters' = Append(waiters, t)
  /\ SuspendToSched(w, [f EXCEPT !.step = "relock", !.node = None],
       [op |-> "cv", who |-> t, step |-> "publish", wk |-> w, node |-> f.node, prev |-> None])
  /\ UNCHANGED <<tail, next, slot, free, cvSlot>>

PublishWaiter(w) ==
  LET f == Top(w) IN
  /\ f.op = "cv" /\ f.step = "publish"
  /\ cvSlot' = cvSlot \cup {f.who}
  /\ Advance(w, "unlock")
  /\ UNCHANGED <<saved, queues, tail, next, slot, free, waiters, cvLock, calls>>

UnlockList(w) ==
  /\ Top(w).step = "unlock"
  /\ cvLock' = FALSE
  /\ Advance(w, "drop")
  /\ UNCHANGED <<saved, queues, tail, next, slot, free, waiters, cvSlot, calls>>

(* A waiter's slot leaves the list and its token is pushed.                *)
NotifyOne(w) ==
  /\ Waits /\ AtTask(w, {"out", "in"}) /\ ~ cvLock /\ waiters # <<>>
  /\ Head(waiters) \in cvSlot
  /\ waiters' = Tail(waiters)
  /\ cvSlot' = cvSlot \ {Head(waiters)}
  /\ Push(w, Head(waiters))
  /\ UNCHANGED <<thread, frames, saved, deferred, rootCont, tail, next, slot, free, cvLock, calls>>

(* The list is taken as a whole, and each token in it pushed.              *)
NotifyAll(w) ==
  /\ Waits /\ AtTask(w, {"out", "in"}) /\ ~ cvLock /\ waiters # <<>>
  /\ ToSet(waiters) \subseteq cvSlot
  /\ waiters' = <<>>
  /\ cvSlot' = {}
  /\ main' = [main EXCEPT ![w] = @ \o waiters]
  /\ UNCHANGED <<thread, frames, saved, deferred, rootCont, tail, next, slot, free, cvLock, calls>>

-----------------------------------------------------------------------------
Yield(w) ==
  /\ AtTask(w, {"out", "in"})
  /\ YieldNow(w)
  /\ UNCHANGED mcs

Exit(w) ==
  /\ AtTask(w, {"out"})
  /\ ExitToSched(w)
  /\ UNCHANGED mcs

Run(w) ==
  /\ RunLocal(w) \/ \E v \in Worker \ {w} : RunStolen(w, v)
  /\ UNCHANGED mcs

(* What a worker does in the course of a lock, a drop or a wait, and when  *)
(* it is idle.                                                             *)
Progress(w) ==
  \/ Run(w) \/ Publish(w) \/ Link(w) \/ Granted(w)
  \/ ReleaseTail(w) \/ HandOver(w)
  \/ PublishWaiter(w) \/ UnlockList(w)
  \/ AtTask(w, {"relock"}) /\ Lock(w)

Step(w) ==
  \/ Progress(w) \/ Lock(w) \/ StartDrop(w) \/ SpinYields(w)
  \/ Wait(w) \/ NotifyOne(w) \/ NotifyAll(w) \/ Yield(w) \/ Exit(w)

Next == \E w \in Worker : Step(w)

Spec == Init /\ [][Next]_vars

(* Workers keep running, and a task that is run again and again releases   *)
(* what it holds and exits.                                                *)
FairSpec ==
  /\ Spec
  /\ \A w \in Worker : WF_vars(Progress(w))
  /\ \A t \in Ult :
       SF_vars(\E w \in Worker : thread[w] = t /\ (StartDrop(w) \/ Exit(w)))

-----------------------------------------------------------------------------
(* Properties.                                                             *)

Frame == [op : {"loop", "task", "lock", "cv"}, who : Desc,
          step : {"loop", "out", "waited", "in", "drop", "spin", "relock",
                  "publish", "link", "unlock"},
          wk : Worker \cup {None}, node : Node \cup {None}, prev : Node \cup {None}]

TypeOK ==
  /\ thread \in [Worker -> Desc]
  /\ \A d \in Desc : \A i \in DOMAIN frames[d] : frames[d][i] \in Frame
  /\ saved \subseteq Desc
  /\ \A w \in Worker : ToSet(main[w]) \cup ToSet(deferred[w]) \subseteq Desc
  /\ rootCont \in [Worker -> Worker \cup {None}]
  /\ tail \in Node \cup {None}
  /\ next \in [Node -> Node \cup {None}]
  /\ slot \in [Node -> Ult \cup {None}]
  /\ free \subseteq Node
  /\ ToSet(waiters) \subseteq Ult /\ cvSlot \subseteq Ult
  /\ cvLock \in BOOLEAN
  /\ calls \in 0..MaxCalls

(* The token of every descriptor that has not exited is in exactly one     *)
(* place, and its context is saved exactly while nobody executes it: no    *)
(* task is lost, resumed twice or run by two workers.                      *)
TokenInOnePlace ==
  \A d \in Desc :
    /\ Cardinality(PlacesOf(d) \cup {<<"slot", n>> : n \in {n \in Node : slot[n] = d}}
                     \cup {<<"waiter", t>> : t \in cvSlot \cap {d}})
         = IF frames[d] = <<>> THEN 0 ELSE 1
    /\ d \in saved <=> frames[d] # <<>> /\ \A w \in Worker : thread[w] # d

(* take_cont's expectation: a node that can be reached by the unlock of its*)
(* predecessor, and a waiter that can be reached by a notify, has its token*)
(* in the slot.                                                            *)
ReachableIsParked ==
  /\ \A n \in Node \ free : next[n] # None => slot[next[n]] # None
  /\ ~ cvLock => ToSet(waiters) = cvSlot

(* Whoever can be reached is parked, tokens are in one place, and the words*)
(* keep their types.                                                       *)
ParkedInv == TypeOK /\ ReachableIsParked /\ TokenInOnePlace

(* take_root_cont's expectation: whoever is about to suspend finds a       *)
(* continuation to switch to, the worker's root in the last resort.        *)
MaySuspend(w) ==
  \/ Top(w).op = "task"
  \/ Spinning(w) /\ Top(w).op \in SpinOut
SomewhereToGo == \A w \in Worker : MaySuspend(w) => NextOrRoot(w) # None

(* A task that waits for the lock, and a waiter that was notified, gets it *)
(* in the end.                                                             *)
Wants(t) == frames[t] # <<>> /\ Last(frames[t]).step \in {"waited", "relock"}
              /\ t \notin ToSet(waiters)
LockGranted ==
  \A t \in Ult : Wants(t) ~> (frames[t] = <<>> \/ ~ Wants(t))
=============================================================================
