----------------------------- MODULE DualMutex ------------------------------
(***************************************************************************)
(* The queue lock of resumable/common/sync/dual_mutex.rs over the wait slot*)
(* of resumable/dual/dual_wait.rs, in which a stackful task, an async task *)
(* and a thread outside the pool may wait in one line.  Each waiter has a  *)
(* boxed node; tail is the last one; a waiter parks in its own node's slot *)
(* and then makes its predecessor's next point to the node.                *)
(*                                                                         *)
(* An async waiter's future is ready at its second poll, and a task may be *)
(* polled again for reasons of its own: Stray bounds how often it is.      *)
(***************************************************************************)
EXTENDS Naturals, FiniteSets

CONSTANTS
  UltTask, Async, Os,   \* tasks of each kind
  WaitNode,             \* memory for nodes
  Stray,            \* bound: wakes of async tasks that come from elsewhere
  NoNode

Waiter == UltTask \cup Async \cup Os

ASSUME MutexAssumption ==
  /\ UltTask \cap Async = {} /\ UltTask \cap Os = {} /\ Async \cap Os = {}
  /\ IsFiniteSet(WaitNode)
  /\ Cardinality(WaitNode) >= Cardinality(Waiter)
  /\ Stray \in Nat
  /\ NoNode \notin Waiter \cup WaitNode

Control == {"out",       \* does not use the lock
            "register",  \* has a predecessor, about to publish itself
            "link",      \* published, about to be linked
            "blocked",   \* a stackful task whose token is in its slot
            "pending",   \* an async task whose poll returned Pending
            "parked",    \* an async task nobody polls
            "check",     \* a thread about to look at its parker
            "park",      \* a thread in std::thread::park
            "ready",     \* in a run queue
            "in",        \* in the critical section
            "spin",      \* unlocking, waits for the successor's link
            "notify",    \* unlocking, about to empty the successor's slot
            "wake",      \* unlocking, has the successor's registration
            "unpark",    \* unlocking, has set the successor's done
            "drop",      \* unlocked, about to free its node
            "away"}      \* an async task parked at some other future

VARIABLES
  dualTail,     \* DualMutex::tail
  dualNext,     \* next[n], of each node
  dualSlot,     \* slot[n]: who is registered in the node's wait slot
  freed,     \* memory no node is in
  dualPc,
  node,     \* node[t]: t's node
  prev,     \* prev[t]: its predecessor, captured until it is linked
  hand,     \* hand[t]: the registration t took out of a slot
  wstate,   \* wake state of an async task
  done,     \* threads whose current parker says done
  token,    \* threads whose park token is available
  strays    \* wakes from elsewhere so far

dualVars == <<dualTail, dualNext, dualSlot, freed, dualPc, node, prev, hand, wstate, done, token, strays>>

DualInit ==
  /\ dualTail = NoNode
  /\ dualNext = [n \in WaitNode |-> NoNode]
  /\ dualSlot = [n \in WaitNode |-> NoNode]
  /\ freed = WaitNode
  /\ dualPc = [t \in Waiter |-> "out"]
  /\ node = [t \in Waiter |-> NoNode]
  /\ prev = [t \in Waiter |-> NoNode]
  /\ hand = [t \in Waiter |-> NoNode]
  /\ wstate = [t \in Async |-> "POLLING"]
  /\ done = {} /\ token = {}
  /\ strays = 0

Go(t, from, to) == dualPc[t] = from /\ dualPc' = [dualPc EXCEPT ![t] = to]

-----------------------------------------------------------------------------
(* lock.                                                                   *)

(* Mutant: only the first waiter makes its node the tail.                  *)
StartLockLost(t) ==
  \E n \in freed :
    /\ freed' = freed \ {n}
    /\ dualNext' = [dualNext EXCEPT ![n] = NoNode]
    /\ dualSlot' = [dualSlot EXCEPT ![n] = NoNode]
    /\ node' = [node EXCEPT ![t] = n]
    /\ prev' = [prev EXCEPT ![t] = dualTail]
    /\ dualTail' = IF dualTail = NoNode THEN n ELSE dualTail
    /\ Go(t, "out", IF dualTail = NoNode THEN "in" ELSE "register")
    /\ UNCHANGED <<hand, wstate, done, token, strays>>

(* start_lock: a fresh node becomes the tail; without a predecessor the    *)
(* lock is held.                                                           *)
StartLock(t) ==
  \E n \in freed :
    /\ freed' = freed \ {n}
    /\ dualNext' = [dualNext EXCEPT ![n] = NoNode]
    /\ dualSlot' = [dualSlot EXCEPT ![n] = NoNode]
    /\ node' = [node EXCEPT ![t] = n]
    /\ prev' = [prev EXCEPT ![t] = dualTail]
    /\ dualTail' = n
    /\ Go(t, "out", IF dualTail = NoNode THEN "in" ELSE "register")
    /\ UNCHANGED <<hand, wstate, done, token, strays>>

(* Publish the saved context, the waker or the frame's new parker.         *)
Register(t) ==
  /\ Go(t, "register", "link")
  /\ dualSlot' = [dualSlot EXCEPT ![node[t]] = t]
  /\ done' = done \ {t}
  /\ UNCHANGED <<dualTail, dualNext, freed, node, prev, hand, wstate, token, strays>>

(* wait_with's f.                                                          *)
DualLink(t) ==
  /\ Go(t, "link", IF t \in UltTask THEN "blocked" ELSE IF t \in Async THEN "pending" ELSE "check")
  /\ dualNext' = [dualNext EXCEPT ![prev[t]] = node[t]]
  /\ prev' = [prev EXCEPT ![t] = NoNode]
  /\ UNCHANGED <<dualTail, dualSlot, freed, node, hand, wstate, done, token, strays>>

(* park_after_poll.                                                        *)
Park(t) ==
  /\ Go(t, "pending", IF wstate[t] = "NOTIFIED" THEN "ready" ELSE "parked")
  /\ wstate' = [wstate EXCEPT ![t] = IF @ = "NOTIFIED" THEN "POLLING" ELSE "PARKED"]
  /\ UNCHANGED <<dualTail, dualNext, dualSlot, freed, node, prev, hand, done, token, strays>>

(* A worker takes the task from its queue: a stackful one returns from     *)
(* wait_with, an async one is polled again and its future is ready.        *)
Resume(t) ==
  /\ Go(t, "ready", IF node[t] = NoNode THEN "out" ELSE "in")
  /\ wstate' = IF t \in Async THEN [wstate EXCEPT ![t] = "POLLING"] ELSE wstate
  /\ UNCHANGED <<dualTail, dualNext, dualSlot, freed, node, prev, hand, done, token, strays>>

(* OsParker::wait: look at done, park otherwise.                           *)
CheckDone(t) ==
  /\ Go(t, "check", IF t \in done THEN "in" ELSE "park")
  /\ UNCHANGED <<dualTail, dualNext, dualSlot, freed, node, prev, hand, wstate, done, token, strays>>

Unparked(t) ==
  /\ t \in token
  /\ Go(t, "park", "check")
  /\ token' = token \ {t}
  /\ UNCHANGED <<dualTail, dualNext, dualSlot, freed, node, prev, hand, wstate, done, strays>>

(* park may return for no reason.                                          *)
SpuriousReturn(t) ==
  /\ Go(t, "park", "check")
  /\ UNCHANGED <<dualTail, dualNext, dualSlot, freed, node, prev, hand, wstate, done, token, strays>>

-----------------------------------------------------------------------------
(* Drop for DualMutexGuard.                                                *)

(* Mutant: the lock is released without looking for a successor.           *)
UnlockBlind(t) ==
  /\ dualTail' = IF dualTail = node[t] THEN NoNode ELSE dualTail
  /\ Go(t, "in", "drop")
  /\ UNCHANGED <<dualNext, dualSlot, freed, node, prev, hand, wstate, done, token, strays>>

(* compare_exchange of the tail: the last in line leaves an empty lock.    *)
Unlock(t) ==
  /\ IF dualTail = node[t]
     THEN dualTail' = NoNode /\ Go(t, "in", "drop")
     ELSE Go(t, "in", "spin") /\ UNCHANGED dualTail
  /\ UNCHANGED <<dualNext, dualSlot, freed, node, prev, hand, wstate, done, token, strays>>

SeeSuccessor(t) ==
  /\ Go(t, "spin", "notify")
  /\ dualNext[node[t]] # NoNode
  /\ UNCHANGED <<dualTail, dualNext, dualSlot, freed, node, prev, hand, wstate, done, token, strays>>

(* notify: take what is registered in the successor's slot.                *)
TakeSlot(t) ==
  LET n == dualNext[node[t]] IN
  /\ dualPc[t] = "notify"
  /\ dualPc' = [dualPc EXCEPT ![t] = IF dualSlot[n] = NoNode THEN "drop" ELSE "wake"]
  /\ hand' = [hand EXCEPT ![t] = dualSlot[n]]
  /\ dualSlot' = [dualSlot EXCEPT ![n] = NoNode]
  /\ UNCHANGED <<dualTail, dualNext, freed, node, prev, wstate, done, token, strays>>

(* try_wake_state and the push that follows a successful claim.            *)
TryWake(t, next_pc) ==
  CASE wstate[t] = "POLLING" ->
         wstate' = [wstate EXCEPT ![t] = "NOTIFIED"] /\ dualPc' = next_pc
    [] wstate[t] = "PARKED" ->
         /\ wstate' = [wstate EXCEPT ![t] = "POLLING"]
         /\ dualPc' = [u \in Waiter |-> IF u = t THEN "ready" ELSE next_pc[u]]
    [] OTHER -> dualPc' = next_pc /\ UNCHANGED wstate

(* wake_raw; of OsParker::wake, the store of done.                         *)
WakeRaw(t) ==
  LET w == hand[t] IN
  /\ dualPc[t] = "wake"
  /\ CASE w \in UltTask -> /\ dualPc' = [u \in Waiter |-> IF u = w THEN "ready"
                                                ELSE IF u = t THEN "drop" ELSE dualPc[u]]
                         /\ hand' = [hand EXCEPT ![t] = NoNode]
                         /\ UNCHANGED <<wstate, done>>
       [] w \in Async -> /\ TryWake(w, [dualPc EXCEPT ![t] = "drop"])
                         /\ hand' = [hand EXCEPT ![t] = NoNode]
                         /\ UNCHANGED done
       [] w \in Os    -> /\ done' = done \cup {w}
                         /\ dualPc' = [dualPc EXCEPT ![t] = "unpark"]
                         /\ UNCHANGED <<wstate, hand>>
  /\ UNCHANGED <<dualTail, dualNext, dualSlot, freed, node, prev, token, strays>>

Unpark(t) ==
  /\ Go(t, "unpark", "drop")
  /\ token' = token \cup {hand[t]}
  /\ hand' = [hand EXCEPT ![t] = NoNode]
  /\ UNCHANGED <<dualTail, dualNext, dualSlot, freed, node, prev, wstate, done, strays>>

(* The guard's node is freed after its Drop.                               *)
FreeNode(t) ==
  /\ Go(t, "drop", "out")
  /\ freed' = freed \cup {node[t]}
  /\ node' = [node EXCEPT ![t] = NoNode]
  /\ UNCHANGED <<dualTail, dualNext, dualSlot, prev, hand, wstate, done, token, strays>>

-----------------------------------------------------------------------------
(* An async task awaits something other than the lock.                     *)
Rest(t) ==
  /\ Go(t, "out", "away")
  /\ wstate' = [wstate EXCEPT ![t] = "PARKED"]
  /\ UNCHANGED <<dualTail, dualNext, dualSlot, freed, node, prev, hand, done, token, strays>>

(* A wake that has nothing to do with the lock.  One that finds the task   *)
(* not away is a stray: from a waker it left with a future it no longer    *)
(* awaits, or from a stale registration in a join_state.                   *)
OtherWake(t) ==
  /\ dualPc[t] = "away" \/ strays < Stray
  /\ strays' = IF dualPc[t] = "away" THEN strays ELSE strays + 1
  /\ TryWake(t, dualPc)
  /\ UNCHANGED <<dualTail, dualNext, dualSlot, freed, node, prev, hand, done, token>>

DualStep(t) ==
  \/ Register(t) \/ DualLink(t) \/ Resume(t) \/ CheckDone(t) \/ Unparked(t)
  \/ Unlock(t) \/ SeeSuccessor(t) \/ TakeSlot(t) \/ WakeRaw(t) \/ Unpark(t)
  \/ FreeNode(t)
  \/ t \in Async /\ Park(t)

DualNext ==
  \/ \E t \in Waiter : StartLock(t) \/ DualStep(t)
  \/ \E t \in Os : SpuriousReturn(t)
  \/ \E t \in Async : Rest(t) \/ OtherWake(t)

DualSpec == DualInit /\ [][DualNext]_dualVars

(* Workers and threads keep running, and whoever holds the lock releases it*)
(* in the end.                                                             *)
DualFairSpec == DualSpec /\ \A t \in Waiter : WF_dualVars(DualStep(t))

-----------------------------------------------------------------------------
(* Properties.                                                             *)

DualTypeOK ==
  /\ dualTail \in WaitNode \cup {NoNode}
  /\ dualNext \in [WaitNode -> WaitNode \cup {NoNode}]
  /\ dualSlot \in [WaitNode -> Waiter \cup {NoNode}]
  /\ freed \subseteq WaitNode
  /\ dualPc \in [Waiter -> Control]
  /\ node \in [Waiter -> WaitNode \cup {NoNode}]
  /\ prev \in [Waiter -> WaitNode \cup {NoNode}]
  /\ hand \in [Waiter -> Waiter \cup {NoNode}]
  /\ wstate \in [Async -> {"POLLING", "PARKED", "NOTIFIED"}]
  /\ done \subseteq Os /\ token \subseteq Os
  /\ strays \in 0..Stray

(* Whoever holds the guard, up to the end of its Drop.                     *)
Holding == {"in", "spin", "notify"}
Line == {t \in Waiter : node[t] # NoNode /\ dualPc[t] \notin {"wake", "unpark", "drop"}}

(* No node is used after it was freed: the tail, the predecessor a waiter  *)
(* will link itself to and the successor an unlock will notify are live.   *)
NodesLive ==
  /\ dualTail \notin freed
  /\ \A t \in Waiter :
       /\ dualPc[t] \in {"register", "link"} => prev[t] \notin freed
       /\ dualPc[t] = "notify" => dualNext[node[t]] \notin freed
       /\ node[t] \notin freed

(* The nodes in use are live, and the words keep their types.              *)
LiveInv == DualTypeOK /\ NodesLive

(* A guard is handed out only once: a waiter returns from its wait with its*)
(* slot emptied by the unlock that passed the lock on, and so the future of*)
(* wait_with is "completing once notified".                                *)
CompletesOnceNotified ==
  \A t \in Waiter : dualPc[t] = "in" => dualSlot[node[t]] = NoNode

(* Every task that asks for the lock gets it.                              *)
DualLockGranted == \A t \in Waiter : dualPc[t] = "register" ~> dualPc[t] = "in"

(* Where t stands in line: behind the node it will link itself to, or the  *)
(* one that is linked to its own.                                          *)
Before(t) ==
  IF dualPc[t] \in {"register", "link"} THEN {u \in Line : node[u] = prev[t]}
  ELSE {u \in Line : dualNext[node[u]] = node[t]}

(* Its place, counted from the one that is behind nobody.                  *)
Place[t \in Line] ==
  IF Before(t) = {} THEN 1 ELSE 1 + Place[CHOOSE u \in Before(t) : TRUE]

InPlace(i) == {t \in Line : Place[t] = i}

(* The line as the chain of nodes gives it.                                *)
Order ==
  [i \in 1..Cardinality(Line) |->
     IF InPlace(i) = {} THEN NoNode ELSE CHOOSE t \in InPlace(i) : TRUE]

Inside == {t \in Waiter : dualPc[t] \in Holding}

(* The lock is a FifoLock of the tasks in that order.                      *)
LockOf == INSTANCE FifoLock WITH Task <- Waiter, line <- Order, inside <- Inside

(* Tasks enter one at a time and in the order of their arrival at the tail.*)
ImplementsFifoLock == LockOf!Spec
=============================================================================
