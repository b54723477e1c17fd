------------------------------ MODULE SpinSync ------------------------------
(***************************************************************************)
(* The primitives that keep their waiters in a queue behind a spin lock:   *)
(* Mutex and Condvar (resumable/stackful/sync/mutex.rs), Barrier           *)
(* (stackful/sync/barrier.rs) and DualBarrier (common/sync/dual_barrier.rs)*)
(* with tasks of both kinds.  A waiter queues an empty slot, suspends, and *)
(* only then is its token published in the slot and the spin lock released.*)
(*                                                                         *)
(* The users are getters and putters of items, as condition variables are  *)
(* meant to be used, or they meet at a barrier.                            *)
(***************************************************************************)
EXTENDS Naturals, Sequences, FiniteSets

CONSTANTS
  Getter, Putter,  \* stackful tasks that use the mutex and the condition variable
  Party,           \* tasks that meet at the barrier
  AsyncParty,      \* the async ones among them
  Puts,            \* bound: items a putter puts
  Rounds,          \* bound: rounds of the barrier
  Free             \* nobody

User == Getter \cup Putter
SyncTask == User \cup Party

ASSUME SyncAssumption ==
  /\ IsFiniteSet(SyncTask) /\ Free \notin SyncTask
  /\ Getter \cap Putter = {} /\ User \cap Party = {}
  /\ AsyncParty \subseteq Party /\ Party # {}
  /\ Puts \in Nat /\ Rounds \in Nat

VARIABLES
  used,      \* what the tasks use: "condvar" or "barrier"
  queue,     \* queue[q]: waiters of the mutex "m", condvar "c" and barrier "b"
  spin,      \* spin[q]: who holds its spin lock
  locked,    \* MutexState::locked
  count,     \* BarrierState::count
  step,      \* what each task is doing
  room,      \* the queue a waiting task is in, or was taken from
  inSlot,    \* tasks whose token or waker is in their slot
  word,      \* wake state of an async task
  behind,    \* Condvar::wait's callback: tasks whose mutex it has still to unlock
  inHand,      \* inHand[t]: waiters t has taken out of a queue and not notified
  left,      \* inHand of the callbacks
  items, puts, arrived, passed   \* what the users do

mutexwords   == <<queue, spin, locked>>
condwords    == <<room, behind>>
barrierwords == <<count, arrived, passed>>
syncvars == <<used, mutexwords, condwords, barrierwords, step, inSlot, word, inHand, left,
              items, puts>>

SyncInit ==
  /\ used \in {"condvar", "barrier"}
  /\ queue = [q \in {"m", "c", "b"} |-> <<>>]
  /\ spin = [q \in {"m", "c", "b"} |-> Free]
  /\ locked = FALSE /\ count = 0
  /\ step = [t \in SyncTask |-> "out"] /\ room = [t \in SyncTask |-> "m"]
  /\ inSlot = {} /\ word = [t \in AsyncParty |-> "POLLING"]
  /\ behind = {} /\ inHand = [t \in SyncTask |-> <<>>] /\ left = [t \in SyncTask |-> <<>>]
  /\ items = 0 /\ puts = [t \in Putter |-> 0]
  /\ arrived = [t \in Party |-> 0] /\ passed = [t \in Party |-> 0]

GoOn(t, from, to) == step[t] = from /\ step' = [step EXCEPT ![t] = to]

(* Queue an empty slot; the spin lock goes with the suspended task.        *)
Enqueue(t, q, from) ==
  /\ GoOn(t, from, "switch")
  /\ queue' = [queue EXCEPT ![q] = Append(@, t)]
  /\ spin' = [spin EXCEPT ![q] = t]
  /\ room' = [room EXCEPT ![t] = q]

-----------------------------------------------------------------------------
(* wait_with(move || drop(s)).                                             *)

(* The token of the suspended task, or the async task's waker, goes into   *)
(* its slot.                                                               *)
PublishToken(t) ==
  /\ GoOn(t, "switch", "drop")
  /\ inSlot' = inSlot \cup {t}
  /\ UNCHANGED <<used, mutexwords, barrierwords, condwords, word, inHand, left, items, puts>>

(* The callback; Condvar's then unlocks the mutex.  The task may run again *)
(* as soon as the spin lock is free.                                       *)
DropSpin(t) ==
  /\ GoOn(t, "drop", IF t \in AsyncParty THEN "pending" ELSE "parked")
  /\ spin' = [spin EXCEPT ![room[t]] = Free]
  /\ behind' = IF room[t] = "c" THEN behind \cup {t} ELSE behind
  /\ UNCHANGED <<used, queue, locked, barrierwords, room, inSlot, word, inHand, left, items, puts>>

(* An async task's poll is over: park_after_poll.                          *)
ParkPending(t) ==
  /\ GoOn(t, "pending", IF word[t] = "NOTIFIED" THEN "ready" ELSE "parked")
  /\ word' = [word EXCEPT ![t] = IF @ = "NOTIFIED" THEN "POLLING" ELSE "PARKED"]
  /\ UNCHANGED <<used, mutexwords, barrierwords, condwords, inSlot, inHand, left, items, puts>>

(* A worker runs the task: its wait is over.  A condition variable's       *)
(* waiter locks the mutex again.                                           *)
GoesOn(t) ==
  /\ GoOn(t, "ready", CASE room[t] = "m" -> "in" [] room[t] = "c" -> "relock" [] OTHER -> "out")
  /\ passed' = IF room[t] = "b" THEN [passed EXCEPT ![t] = @ + 1] ELSE passed
  /\ UNCHANGED <<used, mutexwords, count, condwords, inSlot, word, inHand, left, items, puts,
                 arrived>>

(* sth.notify(): the waiter runs again.  An empty slot has nobody to wake. *)
Notified(u) ==
  /\ inSlot' = inSlot \ {u}
  /\ IF u \notin inSlot THEN UNCHANGED <<step, word>>
     ELSE IF u \notin AsyncParty THEN step' = [step EXCEPT ![u] = "ready"] /\ UNCHANGED word
     ELSE /\ word' = [word EXCEPT ![u] = IF @ = "PARKED" THEN "POLLING" ELSE "NOTIFIED"]
          /\ step' = IF word[u] = "PARKED" THEN [step EXCEPT ![u] = "ready"] ELSE step

Notify(t) ==
  /\ inHand[t] # <<>>
  /\ Notified(Head(inHand[t]))
  /\ inHand' = [inHand EXCEPT ![t] = Tail(@)]
  /\ UNCHANGED <<used, mutexwords, barrierwords, condwords, left, items, puts>>

NotifyLeft(t) ==
  /\ left[t] # <<>>
  /\ Notified(Head(left[t]))
  /\ left' = [left EXCEPT ![t] = Tail(@)]
  /\ UNCHANGED <<used, mutexwords, barrierwords, condwords, inHand, items, puts>>

-----------------------------------------------------------------------------
(* Mutex.                                                                  *)
LockMutex(t, from) ==
  /\ used = "condvar" /\ spin["m"] = Free /\ inHand[t] = <<>>
  /\ t \in Putter => puts[t] < Puts
  /\ IF locked
     THEN Enqueue(t, "m", from) /\ UNCHANGED locked
     ELSE GoOn(t, from, "in") /\ locked' = TRUE /\ UNCHANGED <<queue, spin, room>>
  /\ UNCHANGED <<used, barrierwords, inSlot, word, behind, inHand, left, items, puts>>

(* mutex_unlock: the first waiter becomes the holder.                      *)
FirstOf(q) == IF queue[q] = <<>> THEN <<>> ELSE <<Head(queue[q])>>
RestOf(q) == IF queue[q] = <<>> THEN <<>> ELSE Tail(queue[q])

(* Mutant: the lock is free although it was handed over.                   *)
PassMutexOpen ==
  /\ spin["m"] = Free
  /\ queue' = [queue EXCEPT !["m"] = RestOf("m")]
  /\ locked' = FALSE

PassMutex ==
  /\ spin["m"] = Free
  /\ queue' = [queue EXCEPT !["m"] = RestOf("m")]
  /\ locked' = (queue["m"] # <<>>)

(* A getter takes an item and unlocks; a putter puts one, unlocks, and     *)
(* notifies one waiter.                                                    *)
GetItem(t) ==
  /\ t \in Getter /\ items > 0 /\ PassMutex
  /\ GoOn(t, "in", "out")
  /\ items' = items - 1
  /\ inHand' = [inHand EXCEPT ![t] = FirstOf("m")]
  /\ UNCHANGED <<used, spin, barrierwords, condwords, inSlot, word, left, puts>>

PutItem(t) ==
  /\ t \in Putter /\ PassMutex
  /\ GoOn(t, "in", "put")
  /\ items' = items + 1 /\ puts' = [puts EXCEPT ![t] = @ + 1]
  /\ inHand' = [inHand EXCEPT ![t] = FirstOf("m")]
  /\ UNCHANGED <<used, spin, barrierwords, condwords, inSlot, word, left>>

-----------------------------------------------------------------------------
(* Condvar.                                                                *)
WaitItem(t) ==
  /\ t \in Getter /\ items = 0 /\ spin["c"] = Free
  /\ Enqueue(t, "c", "in")
  /\ UNCHANGED <<used, locked, barrierwords, inSlot, word, behind, inHand, left, items, puts>>

(* The end of its callback: mutex_unlock.                                  *)
UnlockBehind(t) ==
  /\ t \in behind /\ PassMutex
  /\ behind' = behind \ {t}
  /\ left' = [left EXCEPT ![t] = FirstOf("m")]
  /\ UNCHANGED <<used, spin, barrierwords, step, room, inSlot, word, inHand, items, puts>>

(* notify_one or notify_all; the first notifies under the spin lock, which *)
(* nobody can tell.                                                        *)
NotifyGetters(t) ==
  /\ t \in Putter /\ inHand[t] = <<>> /\ spin["c"] = Free
  /\ GoOn(t, "put", "out")
  /\ \E all \in BOOLEAN :
       /\ inHand' = [inHand EXCEPT ![t] = IF all THEN queue["c"] ELSE FirstOf("c")]
       /\ queue' = [queue EXCEPT !["c"] = IF all THEN <<>> ELSE RestOf("c")]
  /\ UNCHANGED <<used, spin, locked, barrierwords, condwords, inSlot, word, left, items, puts>>

-----------------------------------------------------------------------------
(* Barrier.                                                                *)

(* wait(): the last one to arrive resets the count, takes all waiters and  *)
(* notifies them; the others wait.                                         *)
Arrives(t) ==
  /\ used = "barrier" /\ spin["b"] = Free /\ inHand[t] = <<>> /\ arrived[t] < Rounds
  /\ arrived' = [arrived EXCEPT ![t] = @ + 1]
  /\ UNCHANGED <<used, locked, inSlot, word, behind, left, items, puts>>

ArriveLast(t) ==
  /\ Arrives(t) /\ count + 1 = Cardinality(Party)
  /\ GoOn(t, "out", "out")
  /\ count' = 0
  /\ queue' = [queue EXCEPT !["b"] = <<>>] /\ inHand' = [inHand EXCEPT ![t] = queue["b"]]
  /\ passed' = [passed EXCEPT ![t] = @ + 1]
  /\ UNCHANGED <<spin, room>>

ArriveEarly(t) ==
  /\ Arrives(t) /\ count + 1 < Cardinality(Party)
  /\ count' = count + 1
  /\ Enqueue(t, "b", "out")
  /\ UNCHANGED <<inHand, passed>>

SyncStep(t) ==
  \/ PublishToken(t) \/ DropSpin(t) \/ GoesOn(t) \/ Notify(t) \/ NotifyLeft(t)
  \/ LockMutex(t, "relock") \/ GetItem(t) \/ PutItem(t)
  \/ WaitItem(t) \/ UnlockBehind(t) \/ NotifyGetters(t)
  \/ t \in AsyncParty /\ ParkPending(t)

SyncNext ==
  \/ \E t \in SyncTask : SyncStep(t)
  \/ \E t \in User : LockMutex(t, "out")
  \/ \E t \in Party : ArriveLast(t) \/ ArriveEarly(t)

-----------------------------------------------------------------------------
(* The mutex has one holder: a task in the critical section, one that      *)
(* waits with the unlocking still to come, or one it is being handed to.   *)
InHands == UNION {{inHand[t][i] : i \in DOMAIN inHand[t]} \cup {left[t][i] : i \in DOMAIN left[t]} :
                    t \in SyncTask}
Holders ==
  {t \in User : \/ step[t] = "in"
                \/ step[t] \in {"switch", "drop"} /\ room[t] = "c"
                \/ room[t] = "m" /\ (step[t] = "ready" \/ t \in InHands)}
OneHolder ==
  /\ Cardinality(Holders) + Cardinality(behind) = IF locked THEN 1 ELSE 0
  /\ queue["m"] # <<>> => locked

(* Whoever is taken out of a queue has its token in the slot: a notify     *)
(* that finds the slot empty panics, or wakes nobody.                      *)
NotifiedIsParked == InHands \subseteq inSlot

(* No item waits beside a waiting getter: somebody who has left the queue, *)
(* or a notify to come, is on the way for each.                            *)
Coming ==
  Cardinality({t \in Getter : step[t] # "out" /\ \A i \in DOMAIN queue["c"] : queue["c"][i] # t})
  + Cardinality({t \in Putter : step[t] = "put"})
NoItemStranded == queue["c"] # <<>> => items <= Coming

(* Nobody passes the barrier before everybody has arrived at it.           *)
TogetherInv == \A t, u \in Party : passed[t] <= arrived[u]

(* Nobody is forgotten: whoever is parked is in its queue or in somebody's *)
(* hand, and the barrier has not been left by all who should open it.      *)
NoneForgotten ==
  /\ \A t \in SyncTask : step[t] \in {"switch", "drop", "pending", "parked"} /\ t \in inSlot =>
       t \in InHands \/ \E i \in DOMAIN queue[room[t]] : queue[room[t]][i] = t
  /\ Len(queue["b"]) = count /\ count < Cardinality(Party)

(* What the users of these primitives rely on.                             *)
SyncInv == OneHolder /\ NotifiedIsParked /\ NoItemStranded /\ TogetherInv /\ NoneForgotten

SyncSpec == SyncInit /\ [][SyncNext]_syncvars
=============================================================================
