------------------------------- MODULE Timers -------------------------------
(***************************************************************************)
(* sleep (src/src/duty.rs): a future that enters itself in a heap and asks *)
(* for the timer duty's poll at its time.  That poll, fire_timers, is run  *)
(* by the keeper or by an idle worker, under the registry's lock.  A       *)
(* sleeper may be polled again, by whoever, with another waker, or be      *)
(* dropped, while its timer fires.                                         *)
(*                                                                         *)
(* The keeper is the one of DutyKeeper, for this one duty; the worker does *)
(* not keep the due times after it has run the duty, as it finds work.     *)
(***************************************************************************)
EXTENDS Integers, FiniteSets, FiniteSetsExt

CONSTANTS
  Sleeper,     \* sleep futures
  LastTime,    \* bound: sleepers wake up at 1..LastTime, and the clock stops there
  MaxPolls,    \* bound: how often a sleeper is polled; wakers are numbered by the poll
  NoTime       \* NEVER

ASSUME TimersAssumption ==
  LastTime \in Nat /\ MaxPolls \in Nat /\ NoTime \in Nat /\ NoTime > LastTime

VARIABLES
  time,        \* now_ns()
  sleeper,     \* the futures: [pc, at, polls]
  slot,        \* TimerSlot: [fired, waker], waker 0 is None
  heap,        \* TimerQueue::heap
  slots,       \* TimerQueue::slots
  qHolder,     \* the mutex of the queue: is it held by fire_timers
  alarm,       \* the timer duty's deadline
  plan,        \* DutyRegistry::planned
  told,        \* the keeper's park token
  keeping,     \* the keeper: "parked", "awake", or it "has it", the registry
  firer,       \* the thread that runs the duty, if any: [pc, now, at, taken]
  called       \* ghost: the wakers called

futures    == <<sleeper, slot>>
timerqueue == <<heap, slots, qHolder>>
timervars  == <<time, futures, timerqueue, alarm, plan, told, keeping, firer, called>>

Quiet == [pc |-> "off", now |-> 0, at |-> {}, taken |-> {}]

TimersInit ==
  /\ time = 0
  /\ sleeper \in [Sleeper -> [pc : {"new"}, at : 1..LastTime, polls : {0}]]
  /\ slot = [s \in Sleeper |-> [fired |-> FALSE, waker |-> 0]]
  /\ heap = {} /\ slots = {} /\ qHolder = FALSE
  /\ alarm = NoTime /\ plan = NoTime /\ told = FALSE /\ keeping = "parked"
  /\ firer = Quiet
  /\ called = {}

TimePasses ==
  /\ time < LastTime
  /\ time' = time + 1
  /\ UNCHANGED <<futures, timerqueue, alarm, plan, told, keeping, firer, called>>

At(s, pc) == sleeper[s].pc = pc
Goes(s, pc) == sleeper' = [sleeper EXCEPT ![s].pc = pc]

-----------------------------------------------------------------------------
(* Sleep::poll.  The first one is ready at once if the time has come ...   *)
Overslept(s) ==
  /\ At(s, "new") /\ time >= sleeper[s].at
  /\ Goes(s, "ready")
  /\ UNCHANGED <<time, slot, timerqueue, alarm, plan, told, keeping, firer, called>>

(* ... else it enters the slot, with its waker, and brings the deadline    *)
(* forward, all under the queue's mutex ...                                *)
EnterSleep(s) ==
  /\ At(s, "new") /\ time < sleeper[s].at /\ ~ qHolder
  /\ slots' = slots \cup {s} /\ heap' = heap \cup {s}
  /\ alarm' = Min({alarm, sleeper[s].at})
  /\ slot' = [slot EXCEPT ![s].waker = 1]
  /\ sleeper' = [sleeper EXCEPT ![s] =
                   [@ EXCEPT !.polls = 1,
                             !.pc = IF sleeper[s].at < alarm THEN "replan" ELSE "pending"]]
  /\ UNCHANGED <<time, qHolder, plan, told, keeping, firer, called>>

(* ... and the first one to be due unparks the keeper, if it has planned   *)
(* for a later time (replan).                                              *)
Replan(s) ==
  /\ At(s, "replan")
  /\ told' = (told \/ alarm < plan)
  /\ Goes(s, "pending")
  /\ UNCHANGED <<time, slot, timerqueue, alarm, plan, keeping, firer, called>>

(* A later poll looks at fired, stores its waker, and looks again.         *)
PollAgain(s) ==
  /\ At(s, "pending") /\ sleeper[s].polls < MaxPolls
  /\ sleeper' = [sleeper EXCEPT ![s] =
                   [@ EXCEPT !.polls = sleeper[s].polls + 1,
                             !.pc = IF slot[s].fired THEN "ready" ELSE "store"]]
  /\ UNCHANGED <<time, slot, timerqueue, alarm, plan, told, keeping, firer, called>>

StoreWaker(s) ==
  /\ At(s, "store")
  /\ slot' = [slot EXCEPT ![s].waker = sleeper[s].polls]
  /\ Goes(s, "recheck")
  /\ UNCHANGED <<time, timerqueue, alarm, plan, told, keeping, firer, called>>

(* Mutant: the poll does not look again.                                   *)
SkipRecheck(s) ==
  /\ At(s, "recheck")
  /\ Goes(s, "pending")
  /\ UNCHANGED <<time, slot, timerqueue, alarm, plan, told, keeping, firer, called>>

Recheck(s) ==
  /\ At(s, "recheck")
  /\ Goes(s, IF slot[s].fired THEN "ready" ELSE "pending")
  /\ UNCHANGED <<time, slot, timerqueue, alarm, plan, told, keeping, firer, called>>

(* Drop for Sleep: the waker goes first, then the slot; the heap entry     *)
(* stays.                                                                  *)
DropWaker(s) ==
  /\ sleeper[s].pc \in {"pending", "ready"} /\ sleeper[s].polls > 0
  /\ slot' = [slot EXCEPT ![s].waker = 0]
  /\ Goes(s, "dropping")
  /\ UNCHANGED <<time, timerqueue, alarm, plan, told, keeping, firer, called>>

DropSlot(s) ==
  /\ At(s, "dropping") /\ ~ qHolder
  /\ slots' = slots \ {s}
  /\ Goes(s, "gone")
  /\ UNCHANGED <<time, slot, heap, qHolder, alarm, plan, told, keeping, firer, called>>

-----------------------------------------------------------------------------
(* The keeper wakes up, forgets its plan and takes the registry; it runs   *)
(* the duty if it is due, and plans for its deadline.                      *)
KeeperUp ==
  /\ keeping = "parked" /\ (told \/ time >= plan)
  /\ plan' = NoTime /\ told' = FALSE /\ keeping' = "awake"
  /\ UNCHANGED <<time, futures, timerqueue, alarm, firer, called>>

KeeperRuns ==
  /\ keeping = "awake" /\ firer.pc = "off"
  /\ keeping' = "has it"
  /\ IF time >= alarm
     THEN alarm' = NoTime /\ firer' = [firer EXCEPT !.pc = "lock", !.now = time]
     ELSE UNCHANGED <<alarm, firer>>
  /\ UNCHANGED <<time, futures, timerqueue, plan, told, called>>

KeeperPlans ==
  /\ keeping = "has it" /\ firer.pc = "off"
  /\ plan' = alarm /\ keeping' = "parked"
  /\ UNCHANGED <<time, futures, timerqueue, alarm, told, firer, called>>

(* An idle worker runs the duty when it is half due (a deadline is not     *)
(* halved): run() clears the deadline and calls fire_timers.               *)
IdlerRuns ==
  /\ keeping # "has it" /\ firer.pc = "off" /\ time >= alarm
  /\ alarm' = NoTime
  /\ firer' = [firer EXCEPT !.pc = "lock", !.now = time]
  /\ UNCHANGED <<time, futures, timerqueue, plan, told, keeping, called>>

LockQueue ==
  /\ firer.pc = "lock"
  /\ qHolder' = TRUE
  /\ firer' = [firer EXCEPT !.pc = "pop"]
  /\ UNCHANGED <<time, futures, heap, slots, alarm, plan, told, keeping, called>>

(* An entry whose time has come: its slot, unless it was dropped, fires ...*)
Pop(s) ==
  /\ firer.pc = "pop" /\ s \in heap
  /\ sleeper[s].at <= firer.now
  /\ \A o \in heap : sleeper[s].at <= sleeper[o].at
  /\ heap' = heap \ {s}
  /\ slots' = slots \ {s}
  /\ slot' = IF s \in slots THEN [slot EXCEPT ![s].fired = TRUE] ELSE slot
  /\ firer' = IF s \in slots THEN [firer EXCEPT !.pc = "take", !.at = {s}] ELSE firer
  /\ UNCHANGED <<time, sleeper, qHolder, alarm, plan, told, keeping, called>>

(* ... and its waker is taken.                                             *)
TakeWaker ==
  /\ firer.pc = "take"
  /\ \E s \in firer.at :
       /\ firer' = [firer EXCEPT !.pc = "pop", !.at = {},
                      !.taken = IF slot[s].waker = 0 THEN @ ELSE @ \cup {<<s, slot[s].waker>>}]
       /\ slot' = [slot EXCEPT ![s].waker = 0]
  /\ UNCHANGED <<time, sleeper, timerqueue, alarm, plan, told, keeping, called>>

SetAlarm ==
  /\ firer.pc = "pop" /\ \A s \in heap : sleeper[s].at > firer.now
  /\ alarm' = Min({alarm} \cup {sleeper[s].at : s \in heap})
  /\ qHolder' = FALSE
  /\ firer' = [firer EXCEPT !.pc = "wake"]
  /\ UNCHANGED <<time, futures, heap, slots, plan, told, keeping, called>>

(* The wakers are called after the mutex is released.                      *)
CallWakers ==
  /\ firer.pc = "wake"
  /\ called' = called \cup firer.taken
  /\ firer' = Quiet
  /\ UNCHANGED <<time, futures, timerqueue, alarm, plan, told, keeping>>

TimersNext ==
  \/ TimePasses \/ KeeperUp \/ KeeperRuns \/ KeeperPlans \/ IdlerRuns
  \/ LockQueue \/ TakeWaker \/ SetAlarm \/ CallWakers
  \/ \E s \in Sleeper :
       \/ Overslept(s) \/ EnterSleep(s) \/ Replan(s) \/ PollAgain(s) \/ StoreWaker(s) \/ Recheck(s)
       \/ DropWaker(s) \/ DropSlot(s) \/ Pop(s)

-----------------------------------------------------------------------------
(* A task that sleeps will be woken: its timer is in the heap, and the duty*)
(* is due by then; when it has fired, the waker of the task's last poll has been *)
(* called, or is about to be.                                              *)
SleepersWoken ==
  /\ firer.pc \in {"off", "wake"} => \A s \in heap : alarm <= sleeper[s].at
  /\ \A s \in Sleeper : At(s, "pending") =>
       IF slot[s].fired
       THEN s \in firer.at \/ <<s, sleeper[s].polls>> \in firer.taken \cup called
       ELSE s \in heap /\ s \in slots /\ slot[s].waker = sleeper[s].polls

(* "the caller recomputes the plan": when nobody is at work on the duty, the *)
(* keeper will be up by the time of every sleeper.                         *)
PlanCoversSleepers ==
  keeping = "parked" /\ ~ told /\ firer.pc = "off" =>
    \A s \in Sleeper : At(s, "pending") /\ ~ (\E o \in Sleeper : At(o, "replan"))
                       /\ ~ slot[s].fired => plan <= sleeper[s].at

TimersSpec == TimersInit /\ [][TimersNext]_timervars
=============================================================================
