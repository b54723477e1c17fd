------------------------------- MODULE WaitSlot ------------------------------
(***************************************************************************)
(* The slot in which one waiter waits to be resumed: DualResumable of      *)
(* dual/dual_wait.rs, for stackful tasks, async tasks and OS threads, and  *)
(* the slot of stackful/suspended.rs, for stackful tasks only; over the    *)
(* tagged slot of interchange.rs and the switches of stackful/worker.rs.   *)
(*                                                                         *)
(* A task that waits switches to another stack first; the callback that    *)
(* publishes it, and lets its caller change its mind, runs there. An OS    *)
(* thread publishes a parker in its own frame, which dies as soon as the   *)
(* thread has seen that it is done.                                        *)
(***************************************************************************)
EXTENDS FiniteSets

CONSTANTS
  Core,       \* workers; a worker's root context goes by its name
  Stackful,   \* stackful tasks
  Pollable,   \* async tasks
  External,   \* OS threads that are no workers
  Slot,
  Empty

ASSUME WaitSlotAssumption ==
  /\ Empty \notin Slot \cup Core \cup Stackful \cup Pollable \cup External
  /\ \A A, B \in {Core, Stackful, Pollable, External} : A # B => A \cap B = {}

Actor  == Core \cup External        \* who can call notify
Waiter == Stackful \cup Pollable \cup External

VARIABLES
  flavor,     \* "dual", or "single": the slot of suspended.rs
  cell,       \* cell[s]: who is published in s
  uses,       \* uses[x]: the slot x is about to be published in, or is
  cur,        \* cur[c]: whose stack a worker runs on
  callback,   \* what a worker does before it goes on there
  ready,      \* stackful tasks in the run queues
  polled,     \* async tasks that are being polled, or will be
  osPc,       \* where an OS thread is
  done,       \* OS threads whose parker says done
  parkToken,   \* OS threads with the token of park
  hand        \* hand[c]: the waiter a caller has taken and wakes, how far

slotvars == <<flavor, cell, uses, cur, callback, ready, polled, osPc, done, parkToken, hand>>
osvars   == <<osPc, done, parkToken>>

NoCallback == [op |-> "none", prev |-> Empty, then |-> Empty]
Nothing    == [who |-> Empty, step |-> "take"]
Taken(x)   == [who |-> x, step |-> "take"]

SlotInit ==
  /\ flavor \in {"dual", "single"}
  /\ cell = [s \in Slot |-> Empty]
  /\ uses = [x \in Waiter |-> Empty]
  /\ cur = [c \in Core |-> c]
  /\ callback = [c \in Core |-> NoCallback]
  /\ ready = Stackful /\ polled = Pollable
  /\ osPc = [o \in External |-> "out"]
  /\ done = {} /\ parkToken = {}
  /\ hand = [c \in Actor |-> Nothing]

-----------------------------------------------------------------------------
(* What a caller relies on: one waiter per slot; nobody takes a task whose *)
(* callback may still cancel; and the slot for tasks alone is only taken   *)
(* from when somebody is in it.                                            *)
Vacant(s)  == \A x \in Waiter : uses[x] # s
Undecided  == {callback[c].prev : c \in {d \in Core : callback[d].op = "decide"}}
MayTake(s) == cell[s] \notin Undecided /\ (flavor = "single" => cell[s] # Empty)

(* take: whoever was in the slot is out of it. A thread's call uses the    *)
(* slot until it returns.                                                  *)
UsesAfter(s) ==
  [x \in Waiter |-> IF cell[s] = x /\ x \notin External THEN Empty ELSE uses[x]]
TakeFrom(s) ==
  /\ cell' = [cell EXCEPT ![s] = Empty]
  /\ uses' = UsesAfter(s)
PublishIn(s, x) == cell' = [cell EXCEPT ![s] = x]

(* Who is at leisure to call something.                                    *)
AtEase(c) ==
  /\ hand[c] = Nothing
  /\ IF c \in Core THEN callback[c] = NoCallback ELSE osPc[c] = "out"
TaskCalls(c) == AtEase(c) /\ cur[c] \in Stackful

(* A worker switches to n's stack and has f to do there first.             *)
SwitchTo(c, n, f) ==
  /\ cur' = [cur EXCEPT ![c] = n]
  /\ callback' = [callback EXCEPT ![c] = f]

(* The worker's next task, or its own root.                                *)
PickNext(c, n) == n \in ready \cup {c} /\ ready' = ready \ {n}

(* The loop on a worker's root runs a task; a task yields.                 *)
RunTask(c) ==
  /\ AtEase(c) /\ cur[c] = c
  /\ \E n \in ready : PickNext(c, n) /\ SwitchTo(c, n, NoCallback)
  /\ UNCHANGED <<flavor, cell, uses, polled, osvars, hand>>

YieldTask(c) ==
  /\ TaskCalls(c)
  /\ \E n \in ready \cup {c} :
       PickNext(c, n) /\ SwitchTo(c, n, [op |-> "push", prev |-> cur[c], then |-> Empty])
  /\ UNCHANGED <<flavor, cell, uses, polled, osvars, hand>>

-----------------------------------------------------------------------------
(* wait_with and wait_with_cond of a task: the next task is picked before  *)
(* it is known whether the wait takes place.                               *)
Suspend(c, s, op, then) ==
  /\ uses' = [uses EXCEPT ![cur[c]] = s]
  /\ \E n \in ready \cup {c} :
       PickNext(c, n) /\ SwitchTo(c, n, [op |-> op, prev |-> cur[c], then |-> then])

WaitWith(c, s) ==
  /\ TaskCalls(c) /\ Vacant(s)
  /\ Suspend(c, s, "publish", Empty)
  /\ UNCHANGED <<flavor, cell, polled, osvars, hand>>

WaitWithCond(c, s) ==
  /\ TaskCalls(c) /\ Vacant(s)
  /\ Suspend(c, s, "publishCond", Empty)
  /\ UNCHANGED <<flavor, cell, polled, osvars, hand>>

(* The callback, the context being saved: publish, and what follows of f:  *)
(* swap's has a waiter to wake, a conditional one has to decide.           *)
Publish(c) ==
  LET p == callback[c]
  IN
  /\ hand[c] = Nothing /\ p.op \in {"publish", "publishCond"}
  /\ PublishIn(uses[p.prev], p.prev)
  /\ callback' = [callback EXCEPT ![c] =
       IF p.op = "publish" THEN NoCallback ELSE [p EXCEPT !.op = "decide"]]
  /\ hand' = [hand EXCEPT ![c] = Taken(p.then)]
  /\ UNCHANGED <<flavor, uses, cur, ready, polled, osvars>>

Commit(c) ==
  /\ callback[c].op = "decide"
  /\ callback' = [callback EXCEPT ![c] = NoCallback]
  /\ UNCHANGED <<flavor, cell, uses, cur, ready, polled, osvars, hand>>

(* A worker that forgets the task it had picked.                           *)
ForgetPicked(c) == UNCHANGED ready

(* f was false: the task takes itself back and runs on, and the one that   *)
(* was picked in its place goes back to where it came from.                *)
GiveBack(c) == ready' = ready \cup ({cur[c]} \cap Stackful)

Cancel(c) ==
  /\ callback[c].op = "decide"
  /\ TakeFrom(uses[callback[c].prev])
  /\ SwitchTo(c, callback[c].prev, NoCallback)
  /\ GiveBack(c)
  /\ UNCHANGED <<flavor, polled, osvars, hand>>

PushPrev(c) ==
  /\ callback[c].op = "push"
  /\ ready' = ready \cup {callback[c].prev}
  /\ callback' = [callback EXCEPT ![c] = NoCallback]
  /\ UNCHANGED <<flavor, cell, uses, cur, polled, osvars, hand>>

-----------------------------------------------------------------------------
(* notify, and enter when no jump is possible: take the waiter and wake it.*)
NotifySlot(c, s) ==
  /\ AtEase(c) /\ MayTake(s)
  /\ hand' = [hand EXCEPT ![c] = Taken(cell[s])]
  /\ TakeFrom(s)
  /\ UNCHANGED <<flavor, cur, callback, ready, polled, osvars>>

(* enter, to a task: jump to it, the caller goes to the queue.             *)
Enter(c, s) ==
  /\ TaskCalls(c) /\ MayTake(s) /\ cell[s] \in Stackful
  /\ TakeFrom(s)
  /\ SwitchTo(c, cell[s], [op |-> "push", prev |-> cur[c], then |-> Empty])
  /\ UNCHANGED <<flavor, ready, polled, osvars, hand>>

(* swap, to a task: jump to it, the caller is published in its own slot.   *)
SwapJump(c, s, next) ==
  /\ TaskCalls(c) /\ Vacant(s) /\ MayTake(next) /\ cell[next] \in Stackful
  /\ cell' = [cell EXCEPT ![next] = Empty]
  /\ uses' = [UsesAfter(next) EXCEPT ![cur[c]] = s]
  /\ SwitchTo(c, cell[next], [op |-> "publish", prev |-> cur[c], then |-> Empty])
  /\ UNCHANGED <<flavor, ready, polled, osvars, hand>>

(* swap, to another waiter: wait, and wake it once published. With nobody  *)
(* in the slot it returns at once.                                         *)
SwapWait(c, s, next) ==
  /\ TaskCalls(c) /\ Vacant(s) /\ MayTake(next) /\ cell[next] \in Pollable \cup External
  /\ cell' = [cell EXCEPT ![next] = Empty]
  /\ uses' = [UsesAfter(next) EXCEPT ![cur[c]] = s]
  /\ \E n \in ready \cup {c} :
       /\ PickNext(c, n)
       /\ SwitchTo(c, n, [op |-> "publish", prev |-> cur[c], then |-> cell[next]])
  /\ UNCHANGED <<flavor, polled, osvars, hand>>

(* wake_raw: a task's token is pushed, an async task's waker is fired.     *)
WakeTask(c) ==
  /\ hand[c].who \in Stackful
  /\ ready' = ready \cup {hand[c].who}
  /\ hand' = [hand EXCEPT ![c] = Nothing]
  /\ UNCHANGED <<flavor, cell, uses, cur, callback, polled, osvars>>

WakePollable(c) ==
  /\ hand[c].who \in Pollable
  /\ polled' = polled \cup {hand[c].who}
  /\ hand' = [hand EXCEPT ![c] = Nothing]
  /\ UNCHANGED <<flavor, cell, uses, cur, callback, ready, osvars>>

(* OsParker::wake: the thread's handle is copied before done is set.       *)
ReadParker(c) ==
  /\ hand[c].who \in External /\ hand[c].step = "take"
  /\ hand' = [hand EXCEPT ![c].step = "cloned"]
  /\ UNCHANGED <<flavor, cell, uses, cur, callback, ready, polled, osvars>>

SetDone(c) ==
  /\ hand[c].step = "cloned"
  /\ done' = done \cup {hand[c].who}
  /\ hand' = [hand EXCEPT ![c].step = "done"]
  /\ UNCHANGED <<flavor, cell, uses, cur, callback, ready, polled, osPc, parkToken>>

Unpark(c) ==
  /\ hand[c].step = "done"
  /\ parkToken' = parkToken \cup {hand[c].who}
  /\ hand' = [hand EXCEPT ![c] = Nothing]
  /\ UNCHANGED <<flavor, cell, uses, cur, callback, ready, polled, osPc, done>>

-----------------------------------------------------------------------------
(* register: a poll of an async task publishes its waker.                  *)
RegisterIn(a, s) ==
  /\ flavor = "dual" /\ a \in polled /\ Vacant(s)
  /\ uses' = [uses EXCEPT ![a] = s] /\ PublishIn(s, a)
  /\ polled' = polled \ {a}
  /\ UNCHANGED <<flavor, cur, callback, ready, osvars, hand>>

(* os_wait_with and os_wait_with_cond: a new parker is published.          *)
OsPublish(o, s, then) ==
  /\ flavor = "dual" /\ AtEase(o) /\ Vacant(s)
  /\ uses' = [uses EXCEPT ![o] = s] /\ PublishIn(s, o)
  /\ done' = done \ {o} /\ osPc' = [osPc EXCEPT ![o] = then]
  /\ UNCHANGED <<flavor, cur, callback, ready, polled, parkToken, hand>>

(* swap of an OS thread: published, it takes the next one's waiter.        *)
OsSwap(o, next) ==
  /\ osPc[o] = "swap" /\ uses[o] # next /\ MayTake(next)
  /\ hand' = [hand EXCEPT ![o] = Taken(cell[next])]
  /\ TakeFrom(next) /\ osPc' = [osPc EXCEPT ![o] = "wait"]
  /\ UNCHANGED <<flavor, cur, callback, ready, polled, done, parkToken>>

OsCommit(o) ==
  /\ osPc[o] = "decide" /\ osPc' = [osPc EXCEPT ![o] = "wait"]
  /\ UNCHANGED <<flavor, cell, uses, cur, callback, ready, polled, done, parkToken, hand>>

(* f was false: leave, unless the parker has been taken meanwhile.         *)
OsCancel(o) ==
  /\ osPc[o] = "decide"
  /\ IF cell[uses[o]] # Empty
     THEN /\ cell' = [cell EXCEPT ![uses[o]] = Empty]
          /\ uses' = [uses EXCEPT ![o] = Empty]
          /\ osPc' = [osPc EXCEPT ![o] = "out"]
     ELSE osPc' = [osPc EXCEPT ![o] = "wait"] /\ UNCHANGED <<cell, uses>>
  /\ UNCHANGED <<flavor, cur, callback, ready, polled, done, parkToken, hand>>

(* OsParker::wait: return when done, else park; park may return at will.   *)
OsWait(o) ==
  /\ osPc[o] = "wait" /\ hand[o] = Nothing
  /\ IF o \in done
     THEN osPc' = [osPc EXCEPT ![o] = "out"] /\ uses' = [uses EXCEPT ![o] = Empty]
     ELSE osPc' = [osPc EXCEPT ![o] = "park"] /\ UNCHANGED uses
  /\ UNCHANGED <<flavor, cell, cur, callback, ready, polled, done, parkToken, hand>>

ParkReturns(o) ==
  /\ osPc[o] = "park"
  /\ osPc' = [osPc EXCEPT ![o] = "wait"] /\ parkToken' = parkToken \ {o}
  /\ UNCHANGED <<flavor, cell, uses, cur, callback, ready, polled, done, hand>>

-----------------------------------------------------------------------------
TaskStep(c) ==
  \/ RunTask(c) \/ YieldTask(c)
  \/ Publish(c) \/ Commit(c) \/ Cancel(c) \/ PushPrev(c)
  \/ \E s \in Slot : WaitWith(c, s) \/ WaitWithCond(c, s) \/ Enter(c, s)
  \/ \E s \in Slot : \E next \in Slot \ {s} : SwapJump(c, s, next) \/ SwapWait(c, s, next)

WakeStep(c) ==
  \/ \E s \in Slot : NotifySlot(c, s)
  \/ WakeTask(c) \/ WakePollable(c) \/ ReadParker(c) \/ SetDone(c) \/ Unpark(c)

OsStep(o) ==
  \/ \E s \in Slot : \E then \in {"wait", "decide", "swap"} : OsPublish(o, s, then)
  \/ \E next \in Slot : OsSwap(o, next)
  \/ OsCommit(o) \/ OsCancel(o) \/ OsWait(o) \/ ParkReturns(o)

SlotNext ==
  \/ \E c \in Core : TaskStep(c)
  \/ \E c \in Actor : WakeStep(c)
  \/ \E a \in Pollable, s \in Slot : RegisterIn(a, s)
  \/ \E o \in External : OsStep(o)

(* Where a waiter is: with a worker, with a callback or a caller that took *)
(* it, in a slot, or in the queues.                                        *)
PlacesOf(x) ==
  {<<"runs", c>> : c \in {d \in Core : cur[d] = x}}
  \cup {<<"leaves", c>> :
          c \in {d \in Core : callback[d].prev = x /\ callback[d].op # "decide"}}
  \cup {<<"next", c>> : c \in {d \in Core : callback[d].then = x}}
  \cup {<<"taken", c>> : c \in {d \in Actor : hand[d].who = x /\ hand[d].step # "done"}}
  \cup {<<"slot", s>> : s \in {q \in Slot : cell[q] = x}}
  \cup {<<"queue", x>> : y \in {x} \cap (ready \cup polled)}

InOnePlace(x) == Cardinality(PlacesOf(x)) = 1

(* A task is in one place, whatever the slots, the callbacks and the       *)
(* cancelled waits do with it: none is lost, none runs on two workers.     *)
TasksKept == \A x \in Stackful \cup Pollable : InOnePlace(x)

(* A thread that waits can be found until its parker is done; from then on *)
(* nobody reaches the parker, in the frame the thread may leave, and if it *)
(* parked it is parkToken.                                                  *)
ThreadsKept ==
  \A o \in External :
    /\ IF osPc[o] = "out" \/ o \in done THEN PlacesOf(o) = {} ELSE InOnePlace(o)
    /\ osPc[o] = "park" /\ o \in done =>
         o \in parkToken \/ \E c \in Actor : hand[c] = [who |-> o, step |-> "done"]

SlotInv == TasksKept /\ ThreadsKept

SlotSpec == SlotInit /\ [][SlotNext]_slotvars
=============================================================================
