-------------------------- MODULE Services_proofs ---------------------------
(***************************************************************************)
(* Proofs about the services that put tasks to sleep and wake them: timers *)
(* (Timers), block_on and the wake words (BlockOnWake), and the primitives *)
(* with spin-locked queues (SpinSync).  The three parts share nothing but  *)
(* the lemmas of the library.                                              *)
(***************************************************************************)
EXTENDS Timers, BlockOnWake, SpinSync, FiniteSetTheorems, SequenceTheorems,
        WellFoundedInduction, TLAPS

-----------------------------------------------------------------------------
(* Timers.                                                                 *)

SleeperRec ==
  [pc : {"new", "replan", "pending", "store", "recheck", "ready", "dropping", "gone"},
   at : Nat, polls : Nat]
SlotRec == [fired : BOOLEAN, waker : Nat]
FirerRec ==
  [pc : {"off", "lock", "pop", "take", "wake"}, now : Nat, at : SUBSET Sleeper,
   taken : SUBSET (Sleeper \X Nat)]

TimersTypeOK ==
  /\ time \in Nat
  /\ sleeper \in [Sleeper -> SleeperRec] /\ slot \in [Sleeper -> SlotRec]
  /\ heap \subseteq Sleeper /\ slots \subseteq Sleeper /\ qHolder \in BOOLEAN
  /\ alarm \in Nat
  /\ firer \in FirerRec /\ called \subseteq Sleeper \X Nat

(* The alarm covers the heap but while the duty is at work; the duty has   *)
(* the queue while it pops.                                                *)
AlarmState ==
  /\ qHolder <=> firer.pc \in {"pop", "take"}
  /\ firer.pc \in {"off", "wake"} => \A s \in heap : alarm <= sleeper[s].at
  /\ firer.pc # "take" => firer.at = {}
  /\ \A s, t \in firer.at : s = t

(* Where a sleeper's timer is, and where the waker of its last poll went.  *)
SleeperState ==
  \A s \in Sleeper :
    /\ s \in heap => ~ slot[s].fired /\ sleeper[s].pc # "new"
    /\ s \in firer.at => slot[s].fired
    /\ sleeper[s].pc = "new" => ~ slot[s].fired
    /\ sleeper[s].pc \in {"replan", "pending", "store", "recheck"} =>
         /\ sleeper[s].polls > 0
         /\ slot[s].fired \/ (s \in heap /\ s \in slots)
    /\ sleeper[s].pc \in {"replan", "pending"} =>
         IF slot[s].fired
         THEN \/ s \in firer.at /\ slot[s].waker = sleeper[s].polls
              \/ <<s, sleeper[s].polls>> \in firer.taken \cup called
         ELSE slot[s].waker = sleeper[s].polls
    /\ sleeper[s].pc = "recheck" /\ ~ slot[s].fired => slot[s].waker = sleeper[s].polls

TimersIInv == TimersTypeOK /\ AlarmState /\ SleeperState

(* The minimum of a set that has one is in it.                             *)
LEMMA MinAttained ==
  ASSUME NEW S \in SUBSET Nat, \E x \in S : \A y \in S : x <= y
  PROVE  Min(S) \in S /\ \A y \in S : Min(S) <= y
BY DEF Min

(* The order that the well-founded induction of the library is about.      *)
LEMMA LessNat == \A x, y \in Nat : <<x, y>> \in OpToRel(<, Nat) <=> x < y
BY DEF OpToRel

(* Every set of numbers that is not empty has a minimum.                   *)
LEMMA MinTyped ==
  ASSUME NEW S \in SUBSET Nat, S # {}
  PROVE  Min(S) \in Nat /\ \A y \in S : Min(S) <= y
<1>1. PICK m \in S : \A y \in S : ~ (<<y, m>> \in OpToRel(<, Nat))
  BY NatLessThanWellFounded, WFMin
<1>2. \A y \in S : ~ (y < m)
  BY <1>1, LessNat
<1>3. \E x \in S : \A y \in S : x <= y
  BY <1>2
<1>4. QED
  BY <1>3, MinAttained

(* The clock.                                                              *)
LEMMA TimePassesKeeps ==
  ASSUME TimersIInv, TimePasses
  PROVE  TimersIInv'
<1>1. TimersTypeOK'
  BY DEF TimersIInv, TimersTypeOK, TimePasses, futures, timerqueue
<1>2. AlarmState'
  BY DEF TimersIInv, AlarmState, TimePasses, futures, timerqueue
<1>3. SleeperState'
  BY DEF TimersIInv, SleeperState, TimePasses, futures, timerqueue
<1>4. QED
  BY <1>1, <1>2, <1>3 DEF TimersIInv

(* A deadline that is over is never queued.                                *)
LEMMA OversleptKeeps ==
  ASSUME TimersIInv, NEW s \in Sleeper, Overslept(s)
  PROVE  TimersIInv'
<1>1. TimersTypeOK'
  BY DEF TimersIInv, TimersTypeOK, SleeperRec, Overslept, Goes, timerqueue
<1>2. AlarmState'
  BY DEF TimersIInv, AlarmState, Overslept, Goes, timerqueue
<1>3. SleeperState'
  BY DEF TimersIInv, SleeperState, Overslept, Goes, timerqueue
<1>4. QED
  BY <1>1, <1>2, <1>3 DEF TimersIInv

(* The first poll queues the timer with the waker in its slot.             *)
LEMMA EnterSleepKeeps ==
  ASSUME TimersIInv, NEW s \in Sleeper, EnterSleep(s)
  PROVE  TimersIInv'
<1> DEFINE r == [sleeper[s] EXCEPT
                   !.polls = 1, !.pc = IF sleeper[s].at < alarm THEN "replan" ELSE "pending"]
<1>1. /\ sleeper' = [sleeper EXCEPT ![s] = r]
      /\ r.at = sleeper[s].at /\ r.polls = 1 /\ r.pc \in {"replan", "pending"}
           /\ r \in SleeperRec
  BY DEF EnterSleep, TimersIInv, TimersTypeOK, SleeperRec
<1>2. /\ sleeper[s].at \in Nat /\ alarm \in Nat
  BY DEF TimersIInv, TimersTypeOK, SleeperRec
<1>3. alarm' \in Nat /\ alarm' <= alarm /\ alarm' <= sleeper[s].at
  BY <1>2, MinTyped DEF EnterSleep
<1> HIDE DEF r
<1>4. TimersTypeOK'
  BY <1>1, <1>3 DEF TimersIInv, TimersTypeOK, SlotRec, EnterSleep
<1>5. \A x \in Sleeper : sleeper'[x].at = sleeper[x].at /\ sleeper[x].at \in Nat
  BY <1>1 DEF TimersIInv, TimersTypeOK, SleeperRec
<1>6. AlarmState'
  BY <1>3, <1>5 DEF TimersIInv, TimersTypeOK, AlarmState, EnterSleep
<1>7. SleeperState'
  BY DEF TimersIInv, TimersTypeOK, SleeperState, EnterSleep, At
<1>8. QED
  BY <1>4, <1>6, <1>7 DEF TimersIInv

(* A deadline before the alarm wakes who plans.                            *)
LEMMA ReplanKeeps ==
  ASSUME TimersIInv, NEW s \in Sleeper, Replan(s)
  PROVE  TimersIInv'
<1>1. TimersTypeOK'
  BY DEF TimersIInv, TimersTypeOK, SleeperRec, Replan, Goes, timerqueue
<1>2. AlarmState'
  BY DEF TimersIInv, AlarmState, Replan, Goes, timerqueue
<1>3. SleeperState'
  BY DEF TimersIInv, SleeperState, Replan, Goes, At, timerqueue
<1>4. QED
  BY <1>1, <1>2, <1>3 DEF TimersIInv

(* A later poll finds the slot fired, or stores its own waker.             *)
LEMMA PollAgainKeeps ==
  ASSUME TimersIInv, NEW s \in Sleeper, PollAgain(s)
  PROVE  TimersIInv'
<1> DEFINE r == [sleeper[s] EXCEPT !.polls = sleeper[s].polls + 1,
                                  !.pc = IF slot[s].fired THEN "ready" ELSE "store"]
<1>0. sleeper[s] \in SleeperRec
  BY DEF TimersIInv, TimersTypeOK
<1>1. /\ sleeper' = [sleeper EXCEPT ![s] = r]
      /\ r.at = sleeper[s].at /\ r.polls = sleeper[s].polls + 1 /\ r \in SleeperRec
      /\ r.pc = (IF slot[s].fired THEN "ready" ELSE "store")
  <2>1. sleeper' = [sleeper EXCEPT ![s] = r]
    BY DEF PollAgain
  <2>2. r.at = sleeper[s].at /\ r.polls = sleeper[s].polls + 1
        /\ r.pc = (IF slot[s].fired THEN "ready" ELSE "store")
    OBVIOUS
  <2>3. r \in SleeperRec
    <3> DEFINE n == sleeper[s].polls + 1
               c == IF slot[s].fired THEN "ready" ELSE "store"
    <3>1. n \in Nat /\ c \in {"ready", "store"}
      BY <1>0 DEF SleeperRec
    <3> HIDE DEF n, c
    <3>2. [sleeper[s] EXCEPT !.polls = n, !.pc = c] \in SleeperRec
      BY <1>0, <3>1 DEF SleeperRec
    <3>3. QED
      BY <3>2 DEF n, c
  <2>4. QED
    BY <2>1, <2>3
<1> HIDE DEF r
<1>2. TimersTypeOK'
  BY <1>1 DEF TimersIInv, TimersTypeOK, PollAgain, timerqueue
<1>3. AlarmState'
  BY DEF TimersIInv, AlarmState, PollAgain, timerqueue
<1>4. SleeperState'
  <2>1. sleeper[s].polls \in Nat
    BY DEF TimersIInv, TimersTypeOK, SleeperRec
  <2>2. QED
    BY <2>1
    DEF TimersIInv, TimersTypeOK, SleeperState, PollAgain, timerqueue, At
<1>5. QED
  BY <1>2, <1>3, <1>4 DEF TimersIInv

(* The waker of this poll replaces the one before.                         *)
LEMMA StoreWakerKeeps ==
  ASSUME TimersIInv, NEW s \in Sleeper, StoreWaker(s)
  PROVE  TimersIInv'
<1>1. TimersTypeOK'
  BY DEF TimersIInv, TimersTypeOK, SleeperRec, SlotRec, StoreWaker, Goes,
      timerqueue
<1>2. AlarmState'
  BY DEF TimersIInv, AlarmState, StoreWaker, Goes, timerqueue
<1>3. SleeperState'
  BY DEF TimersIInv, TimersTypeOK, SleeperState, StoreWaker, Goes, At,
      timerqueue
<1>4. QED
  BY <1>1, <1>2, <1>3 DEF TimersIInv

(* The flag is read again after the waker is stored.                       *)
LEMMA RecheckKeeps ==
  ASSUME TimersIInv, NEW s \in Sleeper, Recheck(s)
  PROVE  TimersIInv'
<1>1. TimersTypeOK'
  BY DEF TimersIInv, TimersTypeOK, SleeperRec, Recheck, Goes, timerqueue
<1>2. AlarmState'
  BY DEF TimersIInv, AlarmState, Recheck, Goes, timerqueue
<1>3. SleeperState'
  BY DEF TimersIInv, SleeperState, Recheck, Goes, At, timerqueue
<1>4. QED
  BY <1>1, <1>2, <1>3 DEF TimersIInv

(* A sleep that is dropped takes its waker with it.                        *)
LEMMA DropWakerKeeps ==
  ASSUME TimersIInv, NEW s \in Sleeper, DropWaker(s)
  PROVE  TimersIInv'
<1>1. TimersTypeOK'
  BY TimersAssumption
  DEF TimersIInv, TimersTypeOK, SleeperRec, SlotRec, DropWaker, Goes, timerqueue
<1>2. AlarmState'
  BY DEF TimersIInv, AlarmState, DropWaker, Goes, timerqueue
<1>3. SleeperState'
  BY DEF TimersIInv, TimersTypeOK, SleeperState, DropWaker, Goes, timerqueue
<1>4. QED
  BY <1>1, <1>2, <1>3 DEF TimersIInv

(* And then gives up its slot.                                             *)
LEMMA DropSlotKeeps ==
  ASSUME TimersIInv, NEW s \in Sleeper, DropSlot(s)
  PROVE  TimersIInv'
<1>1. TimersTypeOK'
  BY DEF TimersIInv, TimersTypeOK, SleeperRec, DropSlot, Goes
<1>2. AlarmState'
  BY DEF TimersIInv, AlarmState, DropSlot, Goes
<1>3. SleeperState'
  BY DEF TimersIInv, SleeperState, DropSlot, Goes, At
<1>4. QED
  BY <1>1, <1>2, <1>3 DEF TimersIInv

(* The keeper starts.                                                      *)
LEMMA KeeperUpKeeps ==
  ASSUME TimersIInv, KeeperUp
  PROVE  TimersIInv'
<1>1. TimersTypeOK'
  BY DEF TimersIInv, TimersTypeOK, KeeperUp, futures, timerqueue
<1>2. AlarmState'
  BY DEF TimersIInv, AlarmState, KeeperUp, futures, timerqueue
<1>3. SleeperState'
  BY DEF TimersIInv, SleeperState, KeeperUp, futures, timerqueue
<1>4. QED
  BY <1>1, <1>2, <1>3 DEF TimersIInv

(* The keeper runs the duty when the alarm is over.                        *)
LEMMA KeeperRunsKeeps ==
  ASSUME TimersIInv, KeeperRuns
  PROVE  TimersIInv'
<1>1. TimersTypeOK'
  <2>1. CASE time >= alarm
    <3>1. [firer EXCEPT !.pc = "lock", !.now = time] \in FirerRec
      BY DEF TimersIInv, TimersTypeOK, FirerRec
    <3>2. QED
      BY <3>1, TimersAssumption
      DEF TimersIInv, TimersTypeOK, KeeperRuns, futures, timerqueue
  <2>2. CASE ~ (time >= alarm)
    BY <2>2 DEF TimersIInv, TimersTypeOK, KeeperRuns, futures, timerqueue
  <2>3. QED
    BY <2>1, <2>2
<1>2. AlarmState'
  BY DEF TimersIInv, TimersTypeOK, AlarmState, FirerRec, KeeperRuns, futures,
      timerqueue
<1>3. SleeperState'
  BY DEF TimersIInv, TimersTypeOK, AlarmState, SleeperState, FirerRec,
      KeeperRuns, futures, timerqueue
<1>4. QED
  BY <1>1, <1>2, <1>3 DEF TimersIInv

(* The keeper plans its sleep.                                             *)
LEMMA KeeperPlansKeeps ==
  ASSUME TimersIInv, KeeperPlans
  PROVE  TimersIInv'
<1>1. TimersTypeOK'
  BY DEF TimersIInv, TimersTypeOK, KeeperPlans, futures, timerqueue
<1>2. AlarmState'
  BY DEF TimersIInv, AlarmState, KeeperPlans, futures, timerqueue
<1>3. SleeperState'
  BY DEF TimersIInv, SleeperState, KeeperPlans, futures, timerqueue
<1>4. QED
  BY <1>1, <1>2, <1>3 DEF TimersIInv

(* Or an idle worker does.                                                 *)
LEMMA IdlerRunsKeeps ==
  ASSUME TimersIInv, IdlerRuns
  PROVE  TimersIInv'
<1>1. TimersTypeOK'
  BY TimersAssumption
  DEF TimersIInv, TimersTypeOK, FirerRec, IdlerRuns, futures, timerqueue
<1>2. AlarmState'
  BY DEF TimersIInv, TimersTypeOK, AlarmState, FirerRec, IdlerRuns, timerqueue
<1>3. SleeperState'
  BY DEF TimersIInv, TimersTypeOK, SleeperState, FirerRec, IdlerRuns, futures,
      timerqueue
<1>4. QED
  BY <1>1, <1>2, <1>3 DEF TimersIInv

(* The duty has the queue.                                                 *)
LEMMA LockQueueKeeps ==
  ASSUME TimersIInv, LockQueue
  PROVE  TimersIInv'
<1>1. TimersTypeOK'
  BY DEF TimersIInv, TimersTypeOK, FirerRec, LockQueue, futures
<1>2. AlarmState'
  BY DEF TimersIInv, AlarmState, LockQueue
<1>3. SleeperState'
  BY DEF TimersIInv, SleeperState, LockQueue, futures
<1>4. QED
  BY <1>1, <1>2, <1>3 DEF TimersIInv

(* The first timer that is due leaves the heap, and is marked fired.       *)
LEMMA PopKeeps ==
  ASSUME TimersIInv, NEW s \in Sleeper, Pop(s)
  PROVE  TimersIInv'
<1>1. TimersTypeOK'
  BY DEF TimersIInv, TimersTypeOK, SlotRec, FirerRec, Pop
<1>2. AlarmState'
  BY DEF TimersIInv, AlarmState, Pop
<1>3. SleeperState'
  BY DEF TimersIInv, TimersTypeOK, AlarmState, SleeperState, Pop
<1>4. QED
  BY <1>1, <1>2, <1>3 DEF TimersIInv

(* Its waker is taken from the slot.                                       *)
LEMMA TakeWakerKeeps ==
  ASSUME TimersIInv, TakeWaker
  PROVE  TimersIInv'
<1>1. PICK s \in firer.at :
        /\ firer' = [firer EXCEPT !.pc = "pop", !.at = {},
             !.taken = IF slot[s].waker = 0 THEN @ ELSE @ \cup {<<s, slot[s].waker>>}]
        /\ slot' = [slot EXCEPT ![s].waker = 0]
  BY DEF TakeWaker
<1>2. s \in Sleeper /\ slot[s].waker \in Nat /\ slot[s].fired
  BY DEF TimersIInv, TimersTypeOK, SlotRec, FirerRec, SleeperState
<1>3. /\ firer'.pc = "pop" /\ firer'.at = {} /\ firer'.now = firer.now
      /\ firer'.taken = IF slot[s].waker = 0 THEN firer.taken
                        ELSE firer.taken \cup {<<s, slot[s].waker>>}
  BY <1>1
<1>4. firer' \in FirerRec
  <2>1. firer'.taken \in SUBSET (Sleeper \X Nat)
    BY <1>2, <1>3 DEF TimersIInv, TimersTypeOK, FirerRec
  <2> DEFINE T == firer'.taken
  <2>2. firer' = [firer EXCEPT !.pc = "pop", !.at = {}, !.taken = T]
    BY <1>1
  <2> HIDE DEF T
  <2>3. T \in SUBSET (Sleeper \X Nat)
    BY <2>1 DEF T
  <2>4. QED
    BY <2>2, <2>3 DEF TimersIInv, TimersTypeOK, FirerRec
<1>5. slot' \in [Sleeper -> SlotRec] /\ slot'[s].waker = 0 /\ slot'[s].fired
      /\ \A x \in Sleeper : slot'[x].fired = slot[x].fired /\ (x # s => slot'[x] = slot[x])
  BY <1>1, <1>2 DEF TimersIInv, TimersTypeOK, SlotRec
<1>6. TimersTypeOK'
  BY <1>4, <1>5 DEF TimersIInv, TimersTypeOK, TakeWaker, timerqueue
<1>7. AlarmState'
  BY DEF TimersIInv, AlarmState, TakeWaker, timerqueue
<1>8. SleeperState'
  <2>1. firer.at = {s}
    BY DEF TimersIInv, AlarmState
  <2>2. QED
    BY <2>1 DEF TimersIInv, SleeperState, TakeWaker, timerqueue
<1>9. QED
  BY <1>6, <1>7, <1>8 DEF TimersIInv

(* The alarm is the first deadline of what is left.                        *)
LEMMA SetAlarmKeeps ==
  ASSUME TimersIInv, SetAlarm
  PROVE  TimersIInv'
<1> DEFINE A == {alarm} \cup {sleeper[s].at : s \in heap}
<1>1. A \in SUBSET Nat /\ A # {}
  BY DEF TimersIInv, TimersTypeOK, SleeperRec
<1>2. alarm' \in Nat /\ \A s \in heap : alarm' <= sleeper[s].at
  <2>1. alarm' = Min(A)
    BY DEF SetAlarm
  <2>2. Min(A) \in Nat /\ \A y \in A : Min(A) <= y
    BY <1>1, MinTyped
  <2>3. QED
    BY <2>1, <2>2
<1>3. firer' \in FirerRec /\ firer'.pc = "wake" /\ firer'.at = firer.at
        /\ firer'.taken = firer.taken
  BY DEF TimersIInv, TimersTypeOK, FirerRec, SetAlarm
<1>4. TimersTypeOK'
  BY <1>2, <1>3 DEF TimersIInv, TimersTypeOK, SetAlarm, futures
<1>5. AlarmState'
  BY <1>2 DEF TimersIInv, AlarmState, SetAlarm, futures
<1>6. SleeperState'
  BY DEF TimersIInv, SleeperState, SetAlarm, futures
<1>7. QED
  BY <1>4, <1>5, <1>6 DEF TimersIInv

(* The wakers are called after the queue is free.                          *)
LEMMA CallWakersKeeps ==
  ASSUME TimersIInv, CallWakers
  PROVE  TimersIInv'
<1>1. TimersTypeOK'
  BY DEF TimersIInv, TimersTypeOK, FirerRec, CallWakers, futures, timerqueue,
      Quiet
<1>2. AlarmState'
  BY DEF TimersIInv, AlarmState, CallWakers, futures, timerqueue, Quiet
<1>3. SleeperState'
  BY DEF TimersIInv, AlarmState, SleeperState, CallWakers, futures, timerqueue,
      Quiet
<1>4. QED
  BY <1>1, <1>2, <1>3 DEF TimersIInv

(* The initial states.                                                     *)
LEMMA TimersInitIInv == TimersInit => TimersIInv
<1> SUFFICES ASSUME TimersInit PROVE TimersIInv
  OBVIOUS
<1>1. sleeper \in [Sleeper -> SleeperRec] /\ \A s \in Sleeper : sleeper[s].pc = "new"
  BY DEF TimersInit, SleeperRec
<1>2. slot \in [Sleeper -> SlotRec] /\ \A s \in Sleeper : ~ slot[s].fired
  BY DEF TimersInit, SlotRec
<1>3. firer \in FirerRec /\ firer.pc = "off" /\ firer.at = {}
  BY DEF TimersInit, FirerRec, Quiet
<1>4. TimersTypeOK
  BY <1>1, <1>2, <1>3, TimersAssumption DEF TimersInit, TimersTypeOK
<1>5. AlarmState /\ SleeperState
  BY <1>3 DEF TimersInit, AlarmState, SleeperState
<1>6. QED
  BY <1>4, <1>5 DEF TimersIInv

(* Every step.                                                             *)
LEMMA TimersNextIInv == TimersIInv /\ [TimersNext]_timervars => TimersIInv'
<1> SUFFICES ASSUME TimersIInv, [TimersNext]_timervars PROVE TimersIInv'
  OBVIOUS
<1>1. CASE UNCHANGED timervars
  BY <1>1
  DEF timervars, futures, timerqueue, TimersIInv, TimersTypeOK, AlarmState,
      SleeperState
<1>2. CASE TimePasses \/ KeeperUp \/ KeeperRuns \/ KeeperPlans \/ IdlerRuns
             \/ LockQueue \/ TakeWaker \/ SetAlarm \/ CallWakers
  BY <1>2, TimePassesKeeps, KeeperUpKeeps, KeeperRunsKeeps, KeeperPlansKeeps,
     IdlerRunsKeeps, LockQueueKeeps, TakeWakerKeeps, SetAlarmKeeps,
     CallWakersKeeps
<1>3. ASSUME NEW s \in Sleeper,
             \/ Overslept(s) \/ EnterSleep(s) \/ Replan(s) \/ PollAgain(s) \/ StoreWaker(s)
             \/ Recheck(s) \/ DropWaker(s) \/ DropSlot(s) \/ Pop(s)
      PROVE  TimersIInv'
  BY <1>3, OversleptKeeps, EnterSleepKeeps, ReplanKeeps, PollAgainKeeps,
     StoreWakerKeeps, RecheckKeeps, DropWakerKeeps, DropSlotKeeps, PopKeeps
<1>4. QED
  BY <1>1, <1>2, <1>3 DEF TimersNext

(* A sleeper that waits has its timer in the heap, and the duty's deadline *)
(* is not after it; or it has fired, and the waker of the last poll has    *)
(* been called or will be (Sleep::poll against fire_timers).               *)
THEOREM TimersSafe == TimersSpec => []SleepersWoken
<1>1. TimersIInv => SleepersWoken
  BY DEF TimersIInv, AlarmState, SleeperState, SleepersWoken, At
<1>2. QED
  BY <1>1, TimersInitIInv, TimersNextIInv, PTL DEF TimersSpec

-----------------------------------------------------------------------------
(* block_on and the wake words.                                            *)

BlockTypeOK ==
  /\ poller \in {"desc", "slot"} /\ taskKind \in {"none", "ult", "async"}
  /\ opened \in 0 .. MaxSessions
  /\ open \in Seq(1 .. opened) /\ Len(open) <= 2
  /\ at \in {"out", "poll", "check", "pending", "saved", "suspended", "blocked"}
  /\ wstate \in [WakeCell -> {"idle", "polling", "notified", "parked"}]
  /\ holds \subseteq Waker /\ firing \subseteq Waker /\ won \subseteq Waker
  /\ tokens \in Nat /\ elsewhere \in BOOLEAN

Parked == {c \in WakeCell : wstate[c] = "parked"}

(* The one place of the context: on the stack of who runs it, in the slot  *)
(* of the session whose word is parked, with the waker that won that word, *)
(* in the queue, or in a wait of another kind.                             *)
PlaceState ==
  /\ open = <<>> <=> at \in {"out", "blocked"}
  /\ taskKind = "none" => at = "out"
  /\ taskKind = "async" => poller = "desc" /\ Len(open) = 1 /\ at # "saved"
  /\ at = "blocked" => taskKind = "ult"
  /\ elsewhere => at = "blocked" /\ tokens = 0
  /\ ~ Suspended => tokens = 0
  /\ at = "blocked" /\ ~ elsewhere => tokens = 1
  /\ at # "suspended" => won = {} /\ Parked = {}
  /\ at = "suspended" =>
       /\ Parked \subseteq {Cell(Now)}
       /\ \A a, b \in won : a = b
       /\ \/ tokens = 1 /\ won = {} /\ Parked = {}
          \/ tokens = 0 /\ won # {} /\ Parked = {}
          \/ tokens = 0 /\ won = {} /\ Parked # {}

BlockInv == BlockTypeOK /\ PlaceState

(* Every source of session n will still mark its word; and the sessions of *)
(* which that is required: those that wait for their innermost one, and    *)
(* the one whose poll was pending.                                         *)
Armed(n) ==
  \A s \in Source : <<n, s>> \in firing \/ (<<n, s>> \in holds /\ <<n, s>> \notin fired)
Waits(i) == i < Len(open) \/ at \in {"pending", "saved"}

(* What the wake words tell: a session that waits has been notified, or    *)
(* all its sources are armed.                                              *)
WordsTell ==
  /\ poller = "desc" => Len(open) <= 1
  /\ \A i, j \in 1 .. Len(open) : open[i] = open[j] => i = j
  /\ \A i \in 1 .. Len(open) :
       /\ i < Len(open) \/ at # "suspended"
            => wstate[Cell(open[i])] \in {"polling", "notified"}
       /\ at = "suspended" /\ taskKind = "ult" => wstate[Cell(open[i])] # "idle"
       /\ Waits(i) \/ wstate[Cell(open[i])] = "parked" =>
            wstate[Cell(open[i])] = "notified" \/ Armed(open[i])
  /\ at = "check" => \/ wstate[Cell(Now)] = "notified"
                     \/ \A s \in Source : <<Now, s>> \in holds \cup firing

(* At most two sessions are open: what is needed of such lengths.          *)
LEMMA SmallLen ==
  \A n \in Nat : /\ n <= 2 => n \in 0 .. 2 /\ n - 1 \in Int
                 /\ n # 0 => n \in 1 .. n
                      /\ (IF 1 <= n - 1 THEN n - 1 - 1 + 1 ELSE 0) = n - 1
                 /\ n # 0 /\ n <= 2 => n \in 1 .. 2
                 /\ \A i \in 1 .. n - 1 : i \in 1 .. n /\ i \in 1 .. n - 1 - 1 + 1
                      /\ 1 + i - 1 = i
OBVIOUS

(* The word of the descriptor is none of the words of the sessions.        *)
LEMMA Cells ==
  /\ DescWord \in WakeCell
  /\ \A n \in Session : n \in WakeCell /\ n # DescWord
BY BlockOnAssumption DEF Session, WakeCell, DescWord

(* Types of the words and of the session that is polled.                   *)
LEMMA CellTyped ==
  ASSUME BlockTypeOK
  PROVE  /\ \A n \in Session : Cell(n) \in WakeCell
         /\ opened \in Nat /\ opened <= MaxSessions /\ MaxSessions \in Nat
         /\ open # <<>> => Now \in Session /\ Now = open[Len(open)] /\ Len(open) \in 1 .. 2
         /\ \A i \in 1 .. Len(open) : open[i] \in 1 .. opened /\ open[i] \in Session
         /\ Len(open) \in 0 .. 2
<1>1. opened \in Nat /\ opened <= MaxSessions /\ MaxSessions \in Nat
  BY BlockOnAssumption DEF BlockTypeOK
<1>2. \A i \in 1 .. Len(open) : open[i] \in 1 .. opened
  BY DEF BlockTypeOK
<1>3. \A i \in 1 .. Len(open) : open[i] \in Session
  BY <1>1, <1>2 DEF Session
<1>4. open \in Seq(1 .. opened) /\ Len(open) <= 2
  BY DEF BlockTypeOK
<1>5. Len(open) \in Nat
  BY <1>4, LenProperties
<1>6. Len(open) \in 0 .. 2
  BY <1>4, <1>5, SmallLen
<1>7. ASSUME open # <<>> PROVE Now \in Session /\ Now = open[Len(open)]
               /\ Len(open) \in 1 .. 2
  <2>1. Len(open) \in Nat \ {0}
    BY <1>4, <1>7, LenProperties, EmptySeq
  <2>2. Len(open) \in 1 .. 2 /\ Len(open) \in 1 .. Len(open)
    BY <1>4, <2>1, SmallLen
  <2>3. Now = open[Len(open)]
    BY DEF Now, Last
  <2>4. QED
    BY <1>3, <2>2, <2>3
<1>8. \A n \in Session : Cell(n) \in WakeCell
  BY Cells DEF Cell
<1>9. QED
  BY <1>1, <1>2, <1>3, <1>7, <1>8

(* What opening a session makes of the sequence of the open ones.          *)
LEMMA Opened ==
  ASSUME BlockTypeOK, opened < MaxSessions
  PROVE  LET q == Append(open, opened + 1) IN
         /\ q \in Seq(1 .. opened + 1) /\ Len(q) = Len(open) + 1 /\ q # <<>>
         /\ Last(q) = opened + 1 /\ q[Len(open) + 1] = opened + 1
         /\ \A i \in 1 .. Len(open) : q[i] = open[i]
<1> DEFINE q == Append(open, opened + 1)
<1>1. open \in Seq(1 .. opened + 1) /\ opened + 1 \in 1 .. opened + 1 /\ opened + 1 \in Int
  BY DEF BlockTypeOK
<1>2. /\ q \in Seq(1 .. opened + 1) /\ Len(q) = Len(open) + 1
           /\ q[Len(open) + 1] = opened + 1
      /\ \A i \in 1 .. Len(open) : q[i] = open[i]
  BY <1>1
<1>3. q # <<>>
  BY <1>1, AppendProperties
<1>4. Last(q) = opened + 1
  BY <1>2 DEF Last
<1>5. QED
  BY <1>2, <1>3, <1>4

(* What closing the innermost session makes of it.                         *)
LEMMA Closed ==
  ASSUME BlockTypeOK, open # <<>>
  PROVE  LET q == Front(open) IN
         /\ q \in Seq(1 .. opened) /\ Len(q) = Len(open) - 1
         /\ \A i \in 1 .. Len(open) - 1 : q[i] = open[i]
         /\ q = <<>> <=> Len(open) = 1
<1> DEFINE q == Front(open)
<1>1. open \in Seq(1 .. opened) /\ Len(open) \in Nat \ {0}
  BY DEF BlockTypeOK
<1>2. q = SubSeq(open, 1, Len(open) - 1) /\ Len(open) - 1 \in Int
  BY DEF Front
<1>3. \A i \in 1 .. Len(open) - 1 : open[i] \in 1 .. opened
  BY <1>1, SmallLen, ElementOfSeq
<1>4. /\ q \in Seq(1 .. opened)
      /\ Len(q) = IF 1 <= Len(open) - 1 THEN Len(open) - 1 - 1 + 1 ELSE 0
      /\ \A i \in 1 .. Len(open) - 1 - 1 + 1 : q[i] = open[1 + i - 1]
  BY <1>2, <1>3
<1> HIDE DEF q
<1>5. Len(q) = Len(open) - 1
  BY <1>1, <1>4, SmallLen
<1>6. \A i \in 1 .. Len(open) - 1 : q[i] = open[i]
  BY <1>4
<1>7. q = <<>> <=> Len(open) = 1
  BY <1>5
<1>8. QED
  BY <1>4, <1>7 DEF q

(* A thread starts outside of every block_on.                              *)
LEMMA SpawnUltPlaces ==
  ASSUME BlockInv, SpawnUlt
  PROVE  BlockInv'
<1>1. BlockTypeOK'
  BY DEF BlockInv, BlockTypeOK, MarkIdle, SpawnUlt
<1>2. PlaceState'
  BY DEF BlockInv, PlaceState, Parked, Suspended, MarkIdle, SpawnUlt
<1>3. QED
  BY <1>1, <1>2 DEF BlockInv

(* Nothing that is armed is lost by SpawnUlt.                              *)
LEMMA SpawnUltWords ==
  ASSUME BlockInv, "desc" \notin Nesting, WordsTell, SpawnUlt
  PROVE  WordsTell'
BY DEF BlockInv, WordsTell, PlaceState, SpawnUlt

(* A polled task starts with its poll under way.                           *)
LEMMA SpawnPolledPlaces ==
  ASSUME BlockInv, SpawnPolled
  PROVE  BlockInv'
<1>1. BlockTypeOK'
  BY CellTyped, Cells DEF BlockInv, BlockTypeOK, MarkIdle, SpawnPolled
<1>2. PlaceState'
  BY DEF BlockInv, PlaceState, Parked, Suspended, MarkIdle, SpawnPolled
<1>3. QED
  BY <1>1, <1>2 DEF BlockInv

(* Nothing that is armed is lost by SpawnPolled.                           *)
LEMMA SpawnPolledWords ==
  ASSUME BlockInv, "desc" \notin Nesting, WordsTell, SpawnPolled
  PROVE  WordsTell'
BY Cells
DEF BlockInv, WordsTell, Waits, PlaceState, Parked, Cell, MarkIdle, SpawnPolled

(* A block_on opens a session, inside at most one other.                   *)
LEMMA BlockOnPlaces ==
  ASSUME BlockInv, BlockOn
  PROVE  BlockInv'
<1>1. BlockTypeOK'
  <2>1. opened' = opened + 1 /\ opened' \in 0 .. MaxSessions /\ opened' \in Session
    BY CellTyped DEF BlockOn, BlockInv, Session
  <2>2. Len(open) \in {0, 1}
    BY DEF BlockInv, BlockOn, PlaceState
  <2>3. open' \in Seq(1 .. opened') /\ Len(open') <= 2
    BY <2>1, <2>2, Opened DEF BlockInv, BlockOn
  <2>4. Cell(opened') \in WakeCell
    BY <2>1, CellTyped DEF BlockInv
  <2>5. wstate' \in [WakeCell -> {"idle", "polling", "notified", "parked"}]
    BY DEF BlockInv, BlockTypeOK, BlockOn, MarkPolling
  <2>6. QED
    BY <2>1, <2>3, <2>5 DEF BlockInv, BlockTypeOK, BlockOn
<1>2. PlaceState'
  BY DEF BlockInv, PlaceState, Parked, Suspended, MarkPolling, BlockOn
<1>3. QED
  BY <1>1, <1>2 DEF BlockInv

(* The session opened has a word of its own; the word of the one outside it is left alone. *)
LEMMA BlockOnWords ==
  ASSUME BlockInv, "desc" \notin Nesting, WordsTell, BlockOn
  PROVE  WordsTell'
<1> DEFINE q == Append(open, opened + 1)
           c == Cell(opened + 1)
<1>1. /\ open' = q /\ q \in Seq(1 .. opened + 1) /\ Len(q) = Len(open) + 1
           /\ q[Len(open) + 1] = opened + 1
      /\ \A i \in 1 .. Len(open) : q[i] = open[i]
      /\ Now' = opened + 1
  BY Opened DEF BlockInv, BlockOn, Now
<1> HIDE DEF q
<1>2. /\ Len(open) \in {0, 1} /\ opened + 1 \in Session
      /\ \A i \in 1 .. Len(open) : open[i] \in 1 .. opened
  BY CellTyped DEF BlockInv, BlockOn, PlaceState, Session
<1>3. poller = "desc" => Len(open) = 0
  BY DEF BlockInv, BlockOn, PlaceState
<1>4. /\ c \in WakeCell /\ wstate'[c] = "polling" /\ at' = "poll"
      /\ \A i \in 1 .. Len(open) : Cell(open[i]) # c
           /\ wstate'[Cell(open[i])] = wstate[Cell(open[i])]
  BY <1>2, <1>3, CellTyped DEF BlockInv, BlockTypeOK, BlockOn, MarkPolling, Cell
<1> HIDE DEF c
<1>5. ASSUME NEW i \in 1 .. Len(q)
      PROVE  \/ i \in 1 .. Len(open) /\ i < Len(q) /\ q[i] = open[i] /\ q[i] # opened + 1
             \/ i = Len(q) /\ q[i] = opened + 1
  <2>1. Len(open) \in Nat /\ opened \in Nat
    BY CellTyped DEF BlockInv
  <2>2. i \in 1 .. Len(open) \/ i = Len(open) + 1
    BY <1>1
  <2>3. QED
    BY <1>1, <1>2, <2>1
<1>6. ASSUME NEW i \in 1 .. Len(open)
      PROVE  /\ open[i] \in Session /\ wstate[Cell(open[i])] \in {"polling", "notified"}
             /\ wstate[Cell(open[i])] = "notified" \/ Armed(open[i])
  <2>1. at = "pending"
    BY DEF BlockOn, BlockInv, PlaceState
  <2>2. open[i] \in Session
    BY CellTyped DEF BlockInv
  <2>3. QED
    BY <2>1, <2>2 DEF WordsTell, Waits
<1>7. /\ at' = "poll" /\ holds' = holds /\ firing' = firing /\ fired' = fired
      /\ poller' = poller /\ taskKind' = taskKind
      /\ \A n \in Session : Cell(n)' = Cell(n) /\ (Armed(n) => Armed(n)')
  BY DEF Cell, Armed, BlockOn
<1>8. ASSUME NEW i \in 1 .. Len(q), NEW n, n = q[i]
      PROVE  /\ n \in Session /\ wstate'[Cell(n)'] \in {"polling", "notified"}
             /\ i < Len(q) => wstate'[Cell(n)'] = "notified" \/ Armed(n)'
  <2>1. CASE i \in 1 .. Len(open) /\ n = open[i]
    BY <1>4, <1>6, <1>7, <2>1
  <2>2. CASE i = Len(q) /\ n = opened + 1
    <3>1. Cell(n)' = c
      BY <1>2, <1>7, <2>2 DEF c
    <3>2. Len(q) \in Nat
      BY <1>1, LenProperties
    <3>3. QED
      BY <1>2, <1>4, <2>2, <3>1
  <2>3. QED
    BY <1>5, <1>8, <2>1, <2>2
<1>9. poller' = "desc" => Len(q) <= 1
  BY <1>1, <1>3, <1>7
<1>10. ASSUME NEW i \in 1 .. Len(q), NEW j \in 1 .. Len(q), q[i] = q[j] PROVE i = j
  <2>1. CASE i \in 1 .. Len(open) /\ j \in 1 .. Len(open)
    BY <1>1, <1>10, <2>1 DEF WordsTell
  <2>2. CASE i = Len(q) \/ j = Len(q)
    BY <1>5, <1>10, <2>2
  <2>3. QED
    BY <1>5, <2>1, <2>2
<1>11. \A i \in 1 .. Len(q) : Waits(i)' => i < Len(q)
  BY <1>1, <1>7 DEF Waits
<1>12. QED
  BY <1>1, <1>7, <1>8, <1>9, <1>10, <1>11 DEF WordsTell

(* The poll leaves its wakers with the sources.                            *)
LEMMA RegisterWakersPlaces ==
  ASSUME BlockInv, RegisterWakers
  PROVE  BlockInv'
<1>1. BlockTypeOK'
  BY CellTyped DEF BlockInv, BlockTypeOK, PlaceState, Waker, RegisterWakers
<1>2. PlaceState'
  BY DEF BlockInv, PlaceState, Parked, Suspended, RegisterWakers
<1>3. QED
  BY <1>1, <1>2 DEF BlockInv

(* Nothing that is armed is lost by RegisterWakers.                        *)
LEMMA RegisterWakersWords ==
  ASSUME BlockInv, "desc" \notin Nesting, WordsTell, RegisterWakers
  PROVE  WordsTell'
BY DEF WordsTell, Waits, Armed, Cell, Now, RegisterWakers

(* The poll was pending.                                                   *)
LEMMA FindPendingPlaces ==
  ASSUME BlockInv, FindPending
  PROVE  BlockInv'
<1>1. BlockTypeOK'
  BY DEF BlockInv, BlockTypeOK, FindPending
<1>2. PlaceState'
  BY DEF BlockInv, PlaceState, Parked, Suspended, FindPending
<1>3. QED
  BY <1>1, <1>2 DEF BlockInv

(* Nothing that is armed is lost by FindPending.                           *)
LEMMA FindPendingWords ==
  ASSUME BlockInv, "desc" \notin Nesting, WordsTell, FindPending
  PROVE  WordsTell'
BY CellTyped DEF BlockInv, WordsTell, Waits, Armed, Cell, FindPending

(* The poll was ready: its session is closed.                              *)
LEMMA FindReadyPlaces ==
  ASSUME BlockInv, FindReady
  PROVE  BlockInv'
<1>1. BlockTypeOK'
  BY Closed, CellTyped
  DEF BlockInv, BlockTypeOK, PlaceState, MarkIdle, FindReady
<1>2. PlaceState'
  BY Closed DEF BlockInv, PlaceState, Parked, Suspended, MarkIdle, FindReady
<1>3. QED
  BY <1>1, <1>2 DEF BlockInv

(* Nothing that is armed is lost by FindReady.                             *)
LEMMA FindReadyWords ==
  ASSUME BlockInv, "desc" \notin Nesting, WordsTell, FindReady
  PROVE  WordsTell'
BY Closed, CellTyped, Cells
DEF BlockInv, WordsTell, Waits, Armed, BlockTypeOK, PlaceState, Cell, MarkIdle,
    FindReady

(* The context of the thread is saved, and nobody can take it yet.         *)
LEMMA SaveContextPlaces ==
  ASSUME BlockInv, SaveContext
  PROVE  BlockInv'
<1>1. BlockTypeOK'
  BY DEF BlockInv, BlockTypeOK, SaveContext
<1>2. PlaceState'
  BY DEF BlockInv, PlaceState, Parked, Suspended, SaveContext
<1>3. QED
  BY <1>1, <1>2 DEF BlockInv

(* Nothing that is armed is lost by SaveContext.                           *)
LEMMA SaveContextWords ==
  ASSUME BlockInv, "desc" \notin Nesting, WordsTell, SaveContext
  PROVE  WordsTell'
BY DEF WordsTell, Waits, Armed, Cell, SaveContext

(* try_park or the notification decides who keeps the context.             *)
LEMMA DecideParkPlaces ==
  ASSUME BlockInv, DecidePark
  PROVE  BlockInv'
<1>1. BlockTypeOK'
  BY DEF BlockInv, BlockTypeOK, DecidePark
<1>2. PlaceState'
  BY CellTyped
  DEF BlockInv, BlockTypeOK, PlaceState, Parked, Suspended, Cell, Now,
      DecidePark
<1>3. QED
  BY <1>1, <1>2 DEF BlockInv

(* Who parks has its wakers armed, and was not notified.                   *)
LEMMA DecideParkWords ==
  ASSUME BlockInv, "desc" \notin Nesting, WordsTell, DecidePark
  PROVE  WordsTell'
BY CellTyped
DEF BlockInv, WordsTell, Waits, Armed, BlockTypeOK, Cell, Now, DecidePark

(* An async task parks only if it was not notified.                        *)
LEMMA ParkAfterPollPlaces ==
  ASSUME BlockInv, ParkAfterPoll
  PROVE  BlockInv'
<1>1. BlockTypeOK'
  BY DEF BlockInv, BlockTypeOK, ParkAfterPoll
<1>2. PlaceState'
  BY CellTyped
  DEF BlockInv, BlockTypeOK, PlaceState, Parked, Suspended, Cell, ParkAfterPoll
<1>3. QED
  BY <1>1, <1>2 DEF BlockInv

(* Nothing that is armed is lost by ParkAfterPoll.                         *)
LEMMA ParkAfterPollWords ==
  ASSUME BlockInv, "desc" \notin Nesting, WordsTell, ParkAfterPoll
  PROVE  WordsTell'
BY DEF BlockInv, WordsTell, Waits, Armed, BlockTypeOK, PlaceState, Cell,
    ParkAfterPoll

(* Who is scheduled runs, and polls again.                                 *)
LEMMA ContinuePlaces ==
  ASSUME BlockInv, Continue
  PROVE  BlockInv'
<1>1. BlockTypeOK'
  BY DEF BlockInv, BlockTypeOK, MarkPolling, Continue
<1>2. PlaceState'
  BY DEF BlockInv, BlockTypeOK, PlaceState, Parked, Suspended, MarkPolling,
      Continue
<1>3. QED
  BY <1>1, <1>2 DEF BlockInv

(* Nothing that is armed is lost by Continue.                              *)
LEMMA ContinueWords ==
  ASSUME BlockInv, "desc" \notin Nesting, WordsTell, Continue
  PROVE  WordsTell'
BY CellTyped
DEF BlockInv, WordsTell, Waits, Armed, BlockTypeOK, PlaceState, Parked, Cell,
    MarkPolling, Continue

(* A wait of another kind keeps the context in its own slot.               *)
LEMMA WaitElsewherePlaces ==
  ASSUME BlockInv, WaitElsewhere
  PROVE  BlockInv'
<1>1. BlockTypeOK'
  BY DEF BlockInv, BlockTypeOK, WaitElsewhere
<1>2. PlaceState'
  BY DEF BlockInv, PlaceState, Parked, Suspended, WaitElsewhere
<1>3. QED
  BY <1>1, <1>2 DEF BlockInv

(* Nothing that is armed is lost by WaitElsewhere.                         *)
LEMMA WaitElsewhereWords ==
  ASSUME BlockInv, "desc" \notin Nesting, WordsTell, WaitElsewhere
  PROVE  WordsTell'
BY DEF BlockInv, WordsTell, PlaceState, WaitElsewhere

(* That wait is over: its continuation is queued.                          *)
LEMMA ResumeElsewherePlaces ==
  ASSUME BlockInv, ResumeElsewhere
  PROVE  BlockInv'
<1>1. elsewhere' \in BOOLEAN
  BY DEF ResumeElsewhere
<1>2. BlockTypeOK'
  BY <1>1 DEF BlockInv, BlockTypeOK, ResumeElsewhere
<1>3. PlaceState'
  BY DEF BlockInv, PlaceState, Parked, Suspended, ResumeElsewhere
<1>4. QED
  BY <1>2, <1>3 DEF BlockInv

(* Nothing that is armed is lost by ResumeElsewhere.                       *)
LEMMA ResumeElsewhereWords ==
  ASSUME BlockInv, "desc" \notin Nesting, WordsTell, ResumeElsewhere
  PROVE  WordsTell'
BY DEF BlockInv, WordsTell, PlaceState, ResumeElsewhere

(* A thread ends outside of every session.                                 *)
LEMMA ExitUltPlaces ==
  ASSUME BlockInv, ExitUlt
  PROVE  BlockInv'
<1>1. BlockTypeOK'
  BY DEF BlockInv, BlockTypeOK, ExitUlt
<1>2. PlaceState'
  BY DEF BlockInv, PlaceState, Parked, Suspended, ExitUlt
<1>3. QED
  BY <1>1, <1>2 DEF BlockInv

(* Nothing that is armed is lost by ExitUlt.                               *)
LEMMA ExitUltWords ==
  ASSUME BlockInv, "desc" \notin Nesting, WordsTell, ExitUlt
  PROVE  WordsTell'
BY DEF BlockInv, WordsTell, PlaceState, ExitUlt

(* A source fires a waker it holds.                                        *)
LEMMA FireSourcePlaces ==
  ASSUME BlockInv, NEW n \in Session, NEW s \in Source, FireSource(n, s)
  PROVE  BlockInv'
<1>1. BlockTypeOK'
  BY DEF BlockInv, BlockTypeOK, FireSource
<1>2. PlaceState'
  BY DEF BlockInv, PlaceState, Parked, Suspended, Cell, Now, FireSource
<1>3. QED
  BY <1>1, <1>2 DEF BlockInv

(* Nothing that is armed is lost by FireSource.                            *)
LEMMA FireSourceWords ==
  ASSUME BlockInv, "desc" \notin Nesting, WordsTell,
         NEW n \in Session, NEW s \in Source, FireSource(n, s)
  PROVE  WordsTell'
<1>1. /\ UNCHANGED <<poller, taskKind, open, at, wstate>>
      /\ \A m \in Session : Cell(m)' = Cell(m)
      /\ Now' = Now
  BY DEF FireSource, Cell, Now
<1>2. \A i \in 1 .. Len(open) : Armed(open[i]) => Armed(open[i])'
  BY DEF Armed, FireSource
<1>3. /\ \A i \in 1 .. Len(open) : open[i] \in Session
      /\ open # <<>> => Now \in Session
  BY CellTyped DEF BlockInv
<1>4. holds \cup firing \subseteq holds' \cup firing'
  BY DEF FireSource
<1>5. at = "check" => open # <<>>
  BY DEF BlockInv, PlaceState
<1>6. \A i \in 1 .. Len(open) : Waits(i)' = Waits(i) /\ Cell(open[i])' = Cell(open[i])
  BY <1>1, <1>3 DEF Waits
<1>7. QED
  BY <1>1, <1>2, <1>3, <1>4, <1>5, <1>6 DEF WordsTell

(* A waker fires although its source did not.                              *)
LEMMA WakeSpuriouslyPlaces ==
  ASSUME BlockInv, NEW n \in Session, NEW s \in Source, WakeSpuriously(n, s)
  PROVE  BlockInv'
<1>1. BlockTypeOK'
  BY DEF BlockInv, BlockTypeOK, WakeSpuriously
<1>2. PlaceState'
  BY DEF BlockInv, PlaceState, Parked, Suspended, Cell, Now, WakeSpuriously
<1>3. QED
  BY <1>1, <1>2 DEF BlockInv

(* Nothing that is armed is lost by WakeSpuriously.                        *)
LEMMA WakeSpuriouslyWords ==
  ASSUME BlockInv, "desc" \notin Nesting, WordsTell,
         NEW n \in Session, NEW s \in Source, WakeSpuriously(n, s)
  PROVE  WordsTell'
BY DEF WordsTell, Waits, Armed, Cell, Now, WakeSpuriously

(* What the compare-exchange of a waker does to the word it is about.      *)
LEMMA Woken ==
  ASSUME BlockInv, NEW n \in Session, NEW s \in Source, TryWakeState(n, s)
  PROVE  /\ Cell(n) \in WakeCell
         /\ \A c \in WakeCell : c # Cell(n) => wstate'[c] = wstate[c]
         /\ \/ wstate[Cell(n)] = "polling" /\ wstate'[Cell(n)] = "notified" /\ won' = won
            \/ wstate[Cell(n)] = "parked" /\ wstate'[Cell(n)] = "polling"
                 /\ won' = won \cup {<<n, s>>}
            \/ /\ wstate[Cell(n)] \in {"idle", "notified"}
                    /\ wstate'[Cell(n)] = wstate[Cell(n)]
               /\ won' = won
         /\ wstate' \in [WakeCell -> {"idle", "polling", "notified", "parked"}]
         /\ firing' = firing \ {<<n, s>>}
         /\ UNCHANGED <<poller, taskKind, lives, opened, open, at, holds, fired, tokens,
                         elsewhere>>
<1>1. Cell(n) \in WakeCell
  BY CellTyped DEF BlockInv
<1>2. wstate[Cell(n)] \in {"idle", "polling", "notified", "parked"}
  BY <1>1 DEF BlockInv, BlockTypeOK
<1> DEFINE w == CASE wstate[Cell(n)] = "polling" -> "notified"
                  [] wstate[Cell(n)] = "parked"  -> "polling"
                  [] OTHER -> wstate[Cell(n)]
<1>3. wstate' = [wstate EXCEPT ![Cell(n)] = w]
  BY DEF TryWakeState
<1>4. /\ wstate[Cell(n)] = "polling" => w = "notified"
      /\ wstate[Cell(n)] = "parked" => w = "polling"
      /\ wstate[Cell(n)] \in {"idle", "notified"} => w = wstate[Cell(n)]
  OBVIOUS
<1> HIDE DEF w
<1>5. wstate \in [WakeCell -> {"idle", "polling", "notified", "parked"}]
  BY DEF BlockInv, BlockTypeOK
<1>6. /\ wstate'[Cell(n)] = w
      /\ \A c \in WakeCell : c # Cell(n) => wstate'[c] = wstate[c]
  BY <1>1, <1>3, <1>5
<1>7. wstate' \in [WakeCell -> {"idle", "polling", "notified", "parked"}]
  BY <1>3, <1>4, <1>5
<1>8. won' = IF wstate[Cell(n)] = "parked" THEN won \cup {<<n, s>>} ELSE won
  BY DEF TryWakeState
<1>9. QED
  BY <1>7 DEF TryWakeState

(* The waker that finds the word parked, and only it, takes the context.   *)
LEMMA TryWakeStatePlaces ==
  ASSUME BlockInv, NEW n \in Session, NEW s \in Source, TryWakeState(n, s)
  PROVE  BlockInv'
<1>1. BlockTypeOK'
  BY Woken DEF BlockInv, BlockTypeOK, Waker
<1>2. CASE wstate[Cell(n)] = "parked"
  <2>1. at = "suspended" /\ Parked = {Cell(n)} /\ tokens = 0 /\ won = {}
    BY <1>2, Woken DEF BlockInv, PlaceState, Parked
  <2>2. Parked' = {}
    BY <2>1, Woken DEF Parked
  <2>3. won' = {<<n, s>>}
    BY <1>2, <2>1, Woken
  <2>4. QED
    BY <1>1, <2>1, <2>2, <2>3, Woken DEF BlockInv, PlaceState
<1>3. CASE wstate[Cell(n)] # "parked"
  <2>1. won' = won /\ Parked' = Parked
    BY <1>3, Woken DEF Parked
  <2>2. Cell(Now)' = Cell(Now)
    BY Woken DEF Cell, Now
  <2>3. /\ open' = open /\ at' = at /\ taskKind' = taskKind /\ poller' = poller
        /\ tokens' = tokens /\ elsewhere' = elsewhere
    BY Woken
  <2>4. QED
    BY <1>1, <2>1, <2>2, <2>3 DEF BlockInv, PlaceState, Suspended
<1>4. QED
  BY <1>2, <1>3

(* The waker leaves its mark in the word before it is spent.               *)
LEMMA TryWakeStateWords ==
  ASSUME BlockInv, "desc" \notin Nesting, WordsTell,
         NEW n \in Session, NEW s \in Source, TryWakeState(n, s)
  PROVE  WordsTell'
<1>1. /\ \A i \in 1 .. Len(open) : open[i] \in Session /\ Cell(open[i]) \in WakeCell
      /\ open # <<>> => Now = open[Len(open)] /\ Len(open) \in 1 .. Len(open)
      /\ \A k \in Session : Cell(k)' = Cell(k)
      /\ Now' = Now
  <2>1. open # <<>> => Len(open) \in 1 .. Len(open)
    BY LenProperties, EmptySeq DEF BlockInv, BlockTypeOK
  <2>2. QED
    BY <2>1, CellTyped, Woken DEF BlockInv, Cell, Now
<1>2. ASSUME NEW i \in 1 .. Len(open)
      PROVE  /\ i < Len(open) \/ at # "suspended"
                  => wstate'[Cell(open[i])] \in {"polling", "notified"}
             /\ at = "suspended" /\ taskKind = "ult" => wstate'[Cell(open[i])] # "idle"
  BY <1>1, Woken DEF WordsTell
<1>3. ASSUME NEW i \in 1 .. Len(open), Waits(i) \/ wstate'[Cell(open[i])] = "parked"
      PROVE  wstate'[Cell(open[i])] = "notified" \/ Armed(open[i])'
  BY <1>1, <1>3, Woken DEF WordsTell, Waits, Armed
<1>4. at = "check" => \/ wstate'[Cell(Now)] = "notified"
                     \/ \A x \in Source : <<Now, x>> \in holds \cup firing'
  <2> SUFFICES ASSUME at = "check"
               PROVE  \/ wstate'[Cell(Now)] = "notified"
                      \/ \A x \in Source : <<Now, x>> \in holds \cup firing'
    OBVIOUS
  <2>1. open # <<>>
    BY DEF BlockInv, PlaceState
  <2>2. wstate[Cell(Now)] \in {"polling", "notified"} /\ Now \in Session
          /\ Cell(Now) \in WakeCell
    BY <1>1, <2>1 DEF WordsTell
  <2>3. CASE Cell(n) = Cell(Now)
    BY <2>2, <2>3, Woken
  <2>4. CASE Cell(n) # Cell(Now)
    <3>1. n # Now /\ wstate'[Cell(Now)] = wstate[Cell(Now)] /\ firing' = firing \ {<<n, s>>}
      BY <2>2, <2>4, Woken
    <3>2. QED
      BY <3>1 DEF WordsTell
  <2>5. QED
    BY <2>3, <2>4
<1>5. /\ UNCHANGED <<poller, taskKind, open, at, holds>>
      /\ \A i \in 1 .. Len(open) : Waits(i)' = Waits(i) /\ Cell(open[i])' = Cell(open[i])
      /\ open # <<>> => Cell(Now)' = Cell(Now)
  BY <1>1, Woken DEF Waits
<1>6. at = "check" => open # <<>>
  BY DEF BlockInv, PlaceState
<1>7. QED
  BY <1>1, <1>2, <1>3, <1>4, <1>5, <1>6 DEF WordsTell

(* The one that took it queues it.                                         *)
LEMMA PushContinuationPlaces ==
  ASSUME BlockInv, NEW n \in Session, NEW s \in Source, PushContinuation(n, s)
  PROVE  BlockInv'
<1>1. BlockTypeOK'
  BY DEF BlockInv, BlockTypeOK, PushContinuation
<1>2. PlaceState'
  BY DEF BlockInv, PlaceState, Parked, Suspended, PushContinuation
<1>3. QED
  BY <1>1, <1>2 DEF BlockInv

(* Nothing that is armed is lost by PushContinuation.                      *)
LEMMA PushContinuationWords ==
  ASSUME BlockInv, "desc" \notin Nesting, WordsTell,
         NEW n \in Session, NEW s \in Source, PushContinuation(n, s)
  PROVE  WordsTell'
BY DEF BlockInv, WordsTell, Waits, Armed, PlaceState, Cell, PushContinuation

(* The initial states.                                                     *)
LEMMA BlockOnInitInv == BlockOnInit => BlockInv /\ WordsTell
<1> SUFFICES ASSUME BlockOnInit PROVE BlockInv /\ WordsTell
  OBVIOUS
<1>1. open = <<>> /\ Len(open) = 0 /\ open \in Seq(1 .. opened)
        /\ opened \in 0 .. MaxSessions
  BY BlockOnAssumption DEF BlockOnInit
<1>2. BlockTypeOK
  <2>1. wstate \in [WakeCell -> {"idle", "polling", "notified", "parked"}]
    BY DEF BlockOnInit
  <2>2. /\ holds \subseteq Waker /\ firing \subseteq Waker /\ won \subseteq Waker
        /\ tokens \in Nat /\ elsewhere \in BOOLEAN
    BY DEF BlockOnInit
  <2>3. /\ poller \in {"desc", "slot"} /\ taskKind \in {"none", "ult", "async"}
        /\ at \in {"out", "poll", "check", "pending", "saved", "suspended", "blocked"}
    BY DEF BlockOnInit
  <2>4. QED
    BY <1>1, <2>1, <2>2, <2>3 DEF BlockTypeOK
<1>3. PlaceState
  BY DEF BlockOnInit, PlaceState, Parked
<1>4. WordsTell
  BY DEF BlockOnInit, WordsTell
<1>5. QED
  BY <1>2, <1>3, <1>4 DEF BlockInv

(* Every step keeps the places.                                            *)
LEMMA BlockOnNextInv == BlockInv /\ [BlockOnNext]_blockonvars => BlockInv'
<1> SUFFICES ASSUME BlockInv, [BlockOnNext]_blockonvars PROVE BlockInv'
  OBVIOUS
<1>1. CASE UNCHANGED blockonvars
  BY <1>1
  DEF blockonvars, BlockInv, BlockTypeOK, PlaceState, Parked, Suspended, Cell,
      Now
<1>2. CASE \/ SpawnUlt \/ SpawnPolled \/ BlockOn \/ RegisterWakers \/ FindPending
                \/ FindReady
           \/ SaveContext \/ DecidePark \/ ParkAfterPoll \/ Continue
           \/ WaitElsewhere \/ ResumeElsewhere \/ ExitUlt
  BY <1>2, SpawnUltPlaces, SpawnPolledPlaces, BlockOnPlaces,
     RegisterWakersPlaces, FindPendingPlaces, FindReadyPlaces,
     SaveContextPlaces, DecideParkPlaces, ParkAfterPollPlaces, ContinuePlaces,
     WaitElsewherePlaces, ResumeElsewherePlaces, ExitUltPlaces
<1>3. ASSUME NEW n \in Session, NEW s \in Source, WakerStep(n, s) PROVE BlockInv'
  BY <1>3, FireSourcePlaces, WakeSpuriouslyPlaces, TryWakeStatePlaces,
     PushContinuationPlaces
  DEF WakerStep
<1>4. QED
  BY <1>1, <1>2, <1>3 DEF BlockOnNext

(* Every step keeps what the words tell.                                   *)
LEMMA BlockOnNextWords ==
  ASSUME "desc" \notin Nesting, BlockInv, WordsTell, [BlockOnNext]_blockonvars
  PROVE  WordsTell'
<1>1. CASE UNCHANGED blockonvars
  BY <1>1 DEF blockonvars, WordsTell, Waits, Armed, Cell, Now
<1>2. CASE \/ SpawnUlt \/ SpawnPolled \/ BlockOn \/ RegisterWakers \/ FindPending
                \/ FindReady
           \/ SaveContext \/ DecidePark \/ ParkAfterPoll \/ Continue
           \/ WaitElsewhere \/ ResumeElsewhere \/ ExitUlt
  BY <1>2, SpawnUltWords, SpawnPolledWords, BlockOnWords, RegisterWakersWords,
     FindPendingWords, FindReadyWords, SaveContextWords, DecideParkWords,
     ParkAfterPollWords, ContinueWords, WaitElsewhereWords,
     ResumeElsewhereWords, ExitUltWords
<1>3. ASSUME NEW n \in Session, NEW s \in Source, WakerStep(n, s) PROVE WordsTell'
  BY <1>3, FireSourceWords, WakeSpuriouslyWords, TryWakeStateWords,
     PushContinuationWords
  DEF WakerStep
<1>4. QED
  BY <1>1, <1>2, <1>3 DEF BlockOnNext

(* A set whose members are equal has none or one.                          *)
LEMMA AloneIsOne ==
  ASSUME NEW S
  PROVE  /\ S = {} => Cardinality(S) = 0
         /\ S # {} /\ (\A a, b \in S : a = b) => Cardinality(S) = 1
<1>1. Cardinality({}) = 0
  BY FS_EmptySet
<1>2. ASSUME S # {}, \A a, b \in S : a = b PROVE Cardinality(S) = 1
  <2>1. PICK a \in S : S = {a}
    BY <1>2
  <2>2. QED
    BY <2>1, FS_Singleton
<1>3. QED
  BY <1>1, <1>2

(* One place for each task that is alive: the sum of the five is what it should be. *)
LEMMA OnePlace == BlockInv => OneContinuation
<1> SUFFICES ASSUME BlockInv PROVE OneContinuation
  OBVIOUS
<1> DEFINE w == Cardinality(won)
           p == Cardinality(Parked)
<1>1. /\ won = {} => w = 0
      /\ Parked = {} => p = 0
      /\ at = "suspended" /\ won # {} => w = 1
      /\ at = "suspended" /\ Parked # {} => p = 1
  BY AloneIsOne DEF BlockInv, PlaceState
<1>2. p = Cardinality({c \in WakeCell : wstate[c] = "parked"})
  BY DEF Parked
<1> HIDE DEF w, p
<1>3. tokens \in Nat /\ elsewhere \in BOOLEAN
  BY DEF BlockInv, BlockTypeOK
<1>4. (IF taskKind # "none" THEN 1 ELSE 0) =
        (IF taskKind # "none" /\ ~ Suspended THEN 1 ELSE 0) + (IF elsewhere THEN 1 ELSE 0)
          + w + tokens + p
  BY <1>1 DEF BlockInv, PlaceState, Suspended
<1>5. QED
  BY <1>2, <1>4 DEF OneContinuation, w

(* A task that is alive runs, or its continuation is in exactly one place: *)
(* the queue, the slot of a parked word, the hand of the waker that won it *)
(* or a wait of another kind (Waker::wake_by_ref against try_park).        *)
THEOREM OneContinuationHeld == BlockOnSpec => []OneContinuation
<1>1. BlockOnInit => BlockInv
  BY BlockOnInitInv
<1>2. QED
  BY <1>1, BlockOnNextInv, OnePlace, PTL DEF BlockOnSpec

(* And no wakeup is lost: a parked session has its sources armed.  Only    *)
(* when block_on is not called by a task that is itself polled through its *)
(* descriptor, whose word the two would share; the run NestedLost shows    *)
(* that this is needed.                                                    *)
THEOREM WakersSafe == ASSUME "desc" \notin Nesting PROVE BlockOnSpec => []WakersInv
<1>1. BlockInv /\ WordsTell => WakeKept
  <2> SUFFICES ASSUME BlockInv, WordsTell, Suspended, open # <<>>,
                      wstate[Cell(Now)] = "parked", NEW s \in Source, <<Now, s>> \in fired
               PROVE  <<Now, s>> \in firing
    BY DEF WakeKept
  <2>1. Now = open[Len(open)] /\ Len(open) \in 1 .. Len(open)
    BY CellTyped DEF BlockInv
  <2>2. Armed(Now)
    BY <2>1 DEF WordsTell
  <2>3. QED
    BY <2>2 DEF Armed
<1>2. BlockInv /\ WordsTell => WakersInv
  BY <1>1, OnePlace DEF WakersInv
<1>3. BlockInv /\ WordsTell /\ [BlockOnNext]_blockonvars => (BlockInv /\ WordsTell)'
  BY BlockOnNextInv, BlockOnNextWords
<1>4. QED
  BY <1>2, <1>3, BlockOnInitInv, PTL DEF BlockOnSpec

-----------------------------------------------------------------------------
(* Mutex, condition variable and barrier.                                  *)

(* The queues: of the mutex, of the condition variable and of the barrier. *)
Lists == {"m", "c", "b"}

(* What a task in a queue is doing.                                        *)
Sleeping == {"switch", "drop", "pending", "parked"}

(* What a task is doing.                                                   *)
StepName == Sleeping \cup {"out", "ready", "in", "relock", "put"}

(* Types.                                                                  *)
SyncTypeOK ==
  /\ used \in {"condvar", "barrier"}
  /\ queue \in [Lists -> Seq(SyncTask)]
  /\ spin \in [Lists -> SyncTask \cup {Free}]
  /\ locked \in BOOLEAN /\ count \in Nat
  /\ step \in [SyncTask -> StepName]
  /\ room \in [SyncTask -> Lists]
  /\ inSlot \subseteq SyncTask /\ behind \subseteq Getter
  /\ word \in [AsyncParty -> {"POLLING", "NOTIFIED", "PARKED"}]
  /\ inHand \in [SyncTask -> Seq(SyncTask)] /\ left \in [SyncTask -> Seq(SyncTask)]
  /\ items \in Nat /\ puts \in [Putter -> Nat]
  /\ arrived \in [Party -> Nat] /\ passed \in [Party -> Nat]

(* x is in the sequence s.                                                 *)
Has(s, x) == \E i \in 1 .. Len(s) : s[i] = x

(* Nothing is in the sequence s twice.                                     *)
NoTwice(s) == \A i, j \in 1 .. Len(s) : s[i] = s[j] => i = j

(* The waiters in each queue.                                              *)
Inside == [q \in Lists |-> {x \in SyncTask : Has(queue[q], x)}]

(* The waiters that somebody has taken out of a queue and is going to      *)
(* notify.                                                                 *)
Taken == {x \in SyncTask : \E u \in SyncTask : Has(inHand[u], x)}

(* The tasks that have nobody to notify before they go on.                 *)
EmptyHands == {u \in SyncTask : inHand[u] = <<>>}

(* The waiters that an unlock running behind its task is going to notify.  *)
TakenLeft == {x \in SyncTask : \E u \in SyncTask : Has(left[u], x)}

(* A waiter is in one queue once, or in one hand.                          *)
Distinct ==
  /\ \A q \in Lists : NoTwice(queue[q])
  /\ \A t \in SyncTask : NoTwice(inHand[t]) /\ NoTwice(left[t])
  /\ \A t, u, x \in SyncTask : Has(inHand[t], x) /\ Has(inHand[u], x) => t = u
  /\ \A t, u, x \in SyncTask : Has(left[t], x) /\ Has(left[u], x) => t = u
  /\ Taken \cap TakenLeft = {}

(* A waiter in a queue sleeps, and has published its token unless it is    *)
(* still switching away.                                                   *)
InQueue ==
  \A q \in Lists : \A t \in Inside[q] :
    /\ room[t] = q /\ step[t] \in Sleeping /\ t \notin Taken /\ t \notin TakenLeft
    /\ step[t] = "switch" \/ t \in inSlot

(* The token of a waiter that will be notified is still in its slot.       *)
HandsHold ==
  \A t \in Taken \cup TakenLeft : t \in inSlot /\ step[t] \in {"pending", "parked"}

(* A token in a slot belongs to a task that sleeps and is going to be      *)
(* woken: it is in a queue or in a hand.                                   *)
Slots ==
  \A t \in inSlot : /\ step[t] \in {"drop", "pending", "parked"}
                    /\ t \in Taken \cup TakenLeft \cup Inside[room[t]]

(* What the step of a task says about its token, the spin lock and the     *)
(* waiters it took.                                                        *)
Steps ==
  \A t \in SyncTask :
    /\ step[t] = "switch" => t \in Inside[room[t]] /\ t \notin inSlot
    /\ step[t] \in {"drop", "parked"} => t \in inSlot
    /\ step[t] \in {"switch", "drop"} => spin[room[t]] = t
    /\ step[t] \notin {"out", "put"} => t \in EmptyHands

(* A spin lock is held by a task that switches away from its queue.        *)
Spins ==
  \A q \in Lists :
    spin[q] # Free => room[spin[q]] = q /\ step[spin[q]] \in {"switch", "drop"}

(* Where the waiters are.                                                  *)
Waiting == InQueue /\ HandsHold /\ Slots /\ Steps /\ Spins

(* Who does what, and where the word of a polled task stands.              *)
WhoIs(t) ==
  /\ t \in Party => step[t] \in Sleeping \cup {"out", "ready"}
  /\ step[t] \in Sleeping \cup {"ready"} =>
       /\ room[t] = "b" => t \in Party
       /\ room[t] = "c" => t \in Getter
       /\ room[t] = "m" => t \in User
  /\ step[t] = "put" => t \in Putter
  /\ step[t] = "relock" => t \in Getter
  /\ step[t] = "pending" => t \in AsyncParty
  /\ t \in AsyncParty =>
       /\ step[t] = "parked" <=> word[t] = "PARKED"
       /\ word[t] = "NOTIFIED" <=> step[t] = "pending" /\ t \notin inSlot

(* ... for every task.                                                     *)
Who == \A t \in SyncTask : WhoIs(t)

(* The tasks that have the mutex, or to which it was handed: a waiter that *)
(* was taken out of the queue owns it before it runs.                      *)
Holding ==
  {t \in User : \/ step[t] = "in"
                \/ step[t] \in {"switch", "drop"} /\ room[t] = "c"
                \/ room[t] = "m" /\ (step[t] = "ready" \/ t \in Taken \/ t \in TakenLeft)}

(* The mutex is locked exactly while one task, or one unlock running       *)
(* behind its task, has it; with waiters it is never unlocked.             *)
HolderState ==
  /\ locked <=> behind # {} \/ Holding # {}
  /\ \A t, u \in Holding : t = u
  /\ \A t, u \in behind : t = u
  /\ Holding # {} => behind = {}
  /\ Inside["m"] # {} => locked
  /\ \A t \in TakenLeft : room[t] = "m"

(* The barrier: all tasks that do not wait have passed the same round,     *)
(* those that wait have arrived at the next one.                           *)
RoundState ==
  /\ \E r \in Nat : \A t \in Party :
       /\ arrived[t] = IF t \in Inside["b"] THEN r + 1 ELSE r
       /\ passed[t] = IF step[t] = "out" THEN arrived[t] ELSE arrived[t] - 1
  /\ Len(queue["b"]) = count /\ count < Cardinality(Party)
  /\ Cardinality(Inside["b"]) = count

(* The getters that are going to look at the items.                        *)
Awake == {t \in Getter : step[t] # "out" /\ t \notin Inside["c"]}

(* The putters that are going to notify.                                   *)
Putting == {t \in Putter : step[t] = "put"}

(* While getters wait, each item has somebody who will take it or announce *)
(* it.                                                                     *)
ItemState == Inside["c"] # {} => items <= Cardinality(Awake) + Cardinality(Putting)

(* The inductive invariant.                                                *)
SyncIInv ==
  SyncTypeOK /\ Distinct /\ Waiting /\ Who /\ HolderState /\ ItemState /\ RoundState

(* An empty sequence has no members, and members are tasks.                *)
LEMMA HasNone ==
  \A s \in Seq(SyncTask) :
    /\ Len(s) \in Nat
    /\ (s = <<>>) <=> (Len(s) = 0)
    /\ (s = <<>>) <=> (\A x \in SyncTask : ~ Has(s, x))
    /\ \A x : Has(s, x) => x \in SyncTask
<1> SUFFICES ASSUME NEW s \in Seq(SyncTask)
             PROVE  /\ Len(s) \in Nat
                    /\ (s = <<>>) <=> (Len(s) = 0)
                    /\ (s = <<>>) <=> (\A x \in SyncTask : ~ Has(s, x))
                    /\ \A x : Has(s, x) => x \in SyncTask
  OBVIOUS
<1>1. Len(s) \in Nat /\ \A i \in 1 .. Len(s) : s[i] \in SyncTask
  BY LenProperties, ElementOfSeq
<1>2. (s = <<>>) <=> (Len(s) = 0)
  BY EmptySeq
<1>3. \A x : Has(s, x) => x \in SyncTask
  BY <1>1 DEF Has
<1>4. ASSUME s = <<>> PROVE \A x \in SyncTask : ~ Has(s, x)
  <2>1. Len(s) = 0
    BY <1>2, <1>4
  <2> HIDE <1>4
  <2>2. QED
    BY <2>1 DEF Has
<1>5. ASSUME s # <<>> PROVE \E x \in SyncTask : Has(s, x)
  <2>1. 1 \in 1 .. Len(s)
    BY <1>1, <1>2, <1>5
  <2>2. QED
    BY <1>1, <2>1 DEF Has
<1>6. QED
  BY <1>1, <1>2, <1>3, <1>4, <1>5

(* ... in particular the empty sequence itself.                            *)
LEMMA NoneTwice ==
  NoTwice(<<>>) /\ <<>> \in Seq(SyncTask) /\ Len(<<>>) = 0 /\ \A x : ~ Has(<<>>, x)
<1>1. <<>> \in Seq(SyncTask) /\ Len(<<>>) = 0
  BY EmptySeq
<1>2. QED
  BY <1>1 DEF NoTwice, Has

(* A sequence of one.                                                      *)
LEMMA HasOne ==
  \A x \in SyncTask :
    /\ <<x>> \in Seq(SyncTask) /\ Len(<<x>>) = 1 /\ NoTwice(<<x>>)
    /\ \A y : Has(<<x>>, y) <=> y = x
BY DEF Has, NoTwice

(* push_back.                                                              *)
LEMMA HasAppend ==
  \A s \in Seq(SyncTask), t \in SyncTask :
    /\ Append(s, t) \in Seq(SyncTask) /\ Len(Append(s, t)) = Len(s) + 1
    /\ \A x : Has(Append(s, t), x) <=> Has(s, x) \/ x = t
    /\ NoTwice(s) /\ ~ Has(s, t) => NoTwice(Append(s, t))
<1> SUFFICES ASSUME NEW s \in Seq(SyncTask), NEW t \in SyncTask
             PROVE  /\ Append(s, t) \in Seq(SyncTask) /\ Len(Append(s, t)) = Len(s) + 1
                    /\ \A x : Has(Append(s, t), x) <=> Has(s, x) \/ x = t
                    /\ NoTwice(s) /\ ~ Has(s, t) => NoTwice(Append(s, t))
  OBVIOUS
<1> DEFINE a == Append(s, t)
           n == Len(s)
<1>1. /\ a \in Seq(SyncTask) /\ Len(a) = n + 1 /\ a[n + 1] = t /\ n \in Nat
      /\ \A i \in 1 .. n : a[i] = s[i]
  BY AppendProperties, LenProperties
<1> HIDE DEF a
<1>2. \A i \in 1 .. n + 1 : i \in 1 .. n \/ i = n + 1
  BY <1>1
<1>3. 1 .. n \subseteq 1 .. n + 1 /\ n + 1 \in 1 .. n + 1 /\ n + 1 \notin 1 .. n
  BY <1>1
<1>4. \A x : Has(a, x) <=> Has(s, x) \/ x = t
  BY <1>1, <1>2, <1>3 DEF Has
<1>5. NoTwice(s) /\ ~ Has(s, t) => NoTwice(a)
  BY <1>1, <1>2, <1>3 DEF Has, NoTwice
<1>6. QED
  BY <1>1, <1>4, <1>5 DEF a

(* pop_front.                                                              *)
LEMMA HasTail ==
  \A s \in Seq(SyncTask) : s # <<>> =>
    /\ Tail(s) \in Seq(SyncTask) /\ Len(Tail(s)) = Len(s) - 1 /\ Len(s) \in Nat \ {0}
    /\ Head(s) \in SyncTask /\ Has(s, Head(s))
    /\ NoTwice(s) => NoTwice(Tail(s)) /\ \A x : Has(Tail(s), x) <=> Has(s, x) /\ x # Head(s)
<1> SUFFICES ASSUME NEW s \in Seq(SyncTask), s # <<>>
             PROVE  /\ Tail(s) \in Seq(SyncTask) /\ Len(Tail(s)) = Len(s) - 1
                         /\ Len(s) \in Nat \ {0}
                    /\ Head(s) \in SyncTask /\ Has(s, Head(s))
                    /\ NoTwice(s) => NoTwice(Tail(s)) /\ \A x : Has(Tail(s), x)
                         <=> Has(s, x) /\ x # Head(s)
  OBVIOUS
<1> DEFINE a == Tail(s)
           n == Len(s)
           h == Head(s)
<1>1. /\ a \in Seq(SyncTask) /\ Len(a) = n - 1 /\ n \in Nat \ {0} /\ h \in SyncTask
      /\ \A i \in 1 .. Len(a) : a[i] = s[i + 1]
  BY HeadTailProperties, EmptySeq
<1>2. h = s[1]
  OBVIOUS
<1> HIDE DEF a, h
<1>3. /\ \A i \in 1 .. n : i = 1 \/ (i - 1 \in 1 .. n - 1 /\ i = (i - 1) + 1)
      /\ \A i \in 1 .. n - 1 : i + 1 \in 1 .. n /\ i + 1 # 1
      /\ 1 \in 1 .. n
      /\ \A i, j \in 1 .. n - 1 : i + 1 = j + 1 => i = j
  BY <1>1
<1>4. Has(s, h)
  BY <1>2, <1>3 DEF Has
<1>5. ASSUME NoTwice(s) PROVE NoTwice(a)
  BY <1>1, <1>3, <1>5 DEF NoTwice
<1>6. ASSUME NoTwice(s), NEW x PROVE Has(a, x) <=> Has(s, x) /\ x # h
  <2>1. ASSUME Has(a, x) PROVE Has(s, x) /\ x # h
    BY <1>1, <1>2, <1>3, <1>6, <2>1 DEF NoTwice, Has
  <2>2. ASSUME Has(s, x), x # h PROVE Has(a, x)
    <3>1. PICK i \in 1 .. n : s[i] = x
      BY <2>2 DEF Has
    <3>2. i - 1 \in 1 .. Len(a) /\ a[i - 1] = x
      BY <1>1, <1>2, <1>3, <2>2, <3>1
    <3>3. QED
      BY <3>2 DEF Has
  <2>3. QED
    BY <2>1, <2>2
<1>7. QED
  BY <1>1, <1>4, <1>5, <1>6 DEF a, h

(* A task lines up in a queue.                                             *)
LEMMA Enqueued ==
  ASSUME SyncTypeOK, Distinct, NEW t \in SyncTask, NEW q \in Lists,
         queue' = [queue EXCEPT ![q] = Append(@, t)], UNCHANGED <<inHand, left>>,
         t \notin Inside[q]
  PROVE  /\ queue' \in [Lists -> Seq(SyncTask)] /\ Len(queue'[q]) = Len(queue[q]) + 1
         /\ \A p \in Lists : p # q => queue'[p] = queue[p]
         /\ Inside' = [Inside EXCEPT ![q] = @ \cup {t}]
         /\ Taken' = Taken /\ TakenLeft' = TakenLeft /\ EmptyHands' = EmptyHands
         /\ Distinct'
<1>1. queue[q] \in Seq(SyncTask) /\ queue'[q] = Append(queue[q], t)
  BY DEF SyncTypeOK
<1>2. \A p \in Lists : p # q => queue'[p] = queue[p]
  BY DEF SyncTypeOK
<1>3. ~ Has(queue[q], t)
  BY DEF Inside
<1>4. /\ queue'[q] \in Seq(SyncTask) /\ Len(queue'[q]) = Len(queue[q]) + 1
      /\ \A x : Has(queue'[q], x) <=> Has(queue[q], x) \/ x = t
      /\ NoTwice(queue'[q])
  BY <1>1, <1>3, HasAppend DEF Distinct
<1>5. queue' \in [Lists -> Seq(SyncTask)]
  BY <1>1, <1>4 DEF SyncTypeOK
<1>6. Inside' = [Inside EXCEPT ![q] = @ \cup {t}]
  BY <1>2, <1>4 DEF Inside
<1>7. Taken' = Taken /\ TakenLeft' = TakenLeft /\ EmptyHands' = EmptyHands
  BY DEF Taken, TakenLeft, EmptyHands
<1>8. Distinct'
  BY <1>2, <1>4, <1>7 DEF Distinct
<1>9. QED
  BY <1>2, <1>4, <1>5, <1>6, <1>7, <1>8

(* A task notifies the first of the waiters it took.                       *)
LEMMA NotifiedOwn ==
  ASSUME SyncTypeOK, Distinct, NEW t \in SyncTask, inHand[t] # <<>>,
         inHand' = [inHand EXCEPT ![t] = Tail(@)], UNCHANGED <<queue, left>>
  PROVE  /\ inHand' \in [SyncTask -> Seq(SyncTask)]
         /\ t \notin EmptyHands /\ EmptyHands \subseteq EmptyHands'
         /\ Head(inHand[t]) \in Taken
         /\ Taken' = Taken \ {Head(inHand[t])} /\ Inside' = Inside /\ TakenLeft' = TakenLeft
         /\ Distinct'
<1> DEFINE h == Head(inHand[t])
<1>1. inHand[t] \in Seq(SyncTask) /\ inHand'[t] = Tail(inHand[t])
  BY DEF SyncTypeOK
<1>2. \A u \in SyncTask : u # t => inHand'[u] = inHand[u]
  BY DEF SyncTypeOK
<1>3. /\ inHand'[t] \in Seq(SyncTask) /\ h \in SyncTask /\ Has(inHand[t], h)
      /\ NoTwice(inHand'[t]) /\ \A x : Has(inHand'[t], x) <=> Has(inHand[t], x) /\ x # h
  BY <1>1, HasTail DEF Distinct
<1> HIDE DEF h
<1>4. inHand' \in [SyncTask -> Seq(SyncTask)]
  BY <1>1, <1>3 DEF SyncTypeOK
<1>5. h \in Taken
  BY <1>3 DEF Taken
<1>6. \A u \in SyncTask : Has(inHand[u], h) => u = t
  BY <1>3 DEF Distinct
<1>7. Taken' = Taken \ {h}
  BY <1>2, <1>3, <1>6 DEF Taken
<1>8. Inside' = Inside /\ TakenLeft' = TakenLeft
  BY DEF Inside, TakenLeft
<1>9. Distinct'
  BY <1>2, <1>3, <1>7, <1>8 DEF Distinct
<1>10. t \notin EmptyHands /\ EmptyHands \subseteq EmptyHands'
  BY <1>2 DEF EmptyHands
<1>11. QED
  BY <1>4, <1>5, <1>7, <1>8, <1>9, <1>10 DEF h

(* ... and an unlock running behind its task the waiter it took.           *)
LEMMA NotifiedLeft ==
  ASSUME SyncTypeOK, Distinct, NEW t \in SyncTask, left[t] # <<>>,
         left' = [left EXCEPT ![t] = Tail(@)], UNCHANGED <<queue, inHand>>
  PROVE  /\ left' \in [SyncTask -> Seq(SyncTask)]
         /\ Head(left[t]) \in TakenLeft
         /\ TakenLeft' = TakenLeft \ {Head(left[t])} /\ Inside' = Inside /\ Taken' = Taken
         /\ EmptyHands' = EmptyHands
         /\ Distinct'
<1> DEFINE h == Head(left[t])
<1>1. left[t] \in Seq(SyncTask) /\ left'[t] = Tail(left[t])
  BY DEF SyncTypeOK
<1>2. \A u \in SyncTask : u # t => left'[u] = left[u]
  BY DEF SyncTypeOK
<1>3. /\ left'[t] \in Seq(SyncTask) /\ h \in SyncTask /\ Has(left[t], h)
      /\ NoTwice(left'[t]) /\ \A x : Has(left'[t], x) <=> Has(left[t], x) /\ x # h
  BY <1>1, HasTail DEF Distinct
<1> HIDE DEF h
<1>4. left' \in [SyncTask -> Seq(SyncTask)]
  BY <1>1, <1>3 DEF SyncTypeOK
<1>5. h \in TakenLeft
  BY <1>3 DEF TakenLeft
<1>6. \A u \in SyncTask : Has(left[u], h) => u = t
  BY <1>3 DEF Distinct
<1>7. TakenLeft' = TakenLeft \ {h}
  BY <1>2, <1>3, <1>6 DEF TakenLeft
<1>8. Inside' = Inside /\ Taken' = Taken /\ EmptyHands' = EmptyHands
  BY DEF Inside, Taken, EmptyHands
<1>9. Distinct'
  BY <1>2, <1>3, <1>7, <1>8 DEF Distinct
<1>10. QED
  BY <1>4, <1>5, <1>7, <1>8, <1>9 DEF h

(* The members of a sequence.                                              *)
Given(a) == {x \in SyncTask : Has(a, x)}

(* What goes from a queue to the hand of who takes it: nothing, the first  *)
(* or all.                                                                 *)
Portion(q, a, b) ==
  \/ queue[q] = <<>> /\ a = <<>> /\ b = <<>>
  \/ queue[q] # <<>> /\ a = <<Head(queue[q])>> /\ b = Tail(queue[q])
  \/ a = queue[q] /\ b = <<>>

(* What is taken was in the queue, and what was in the queue is taken or   *)
(* stays.                                                                  *)
LEMMA PortionFacts ==
  ASSUME SyncTypeOK, Distinct, NEW q \in Lists, NEW a, NEW b, Portion(q, a, b)
  PROVE  /\ a \in Seq(SyncTask) /\ b \in Seq(SyncTask) /\ NoTwice(a) /\ NoTwice(b)
         /\ \A x : Has(a, x) => Has(queue[q], x)
         /\ \A x : Has(b, x) <=> Has(queue[q], x) /\ ~ Has(a, x)
         /\ (queue[q] # <<>>) => (a # <<>>)
<1> DEFINE s == queue[q]
<1>1. s \in Seq(SyncTask) /\ NoTwice(s)
  BY DEF SyncTypeOK, Distinct
<1>2. CASE s = <<>> /\ a = <<>> /\ b = <<>>
  <2>1. \A x : ~ Has(a, x) /\ ~ Has(b, x) /\ ~ Has(s, x)
    BY <1>2, NoneTwice
  <2>2. QED
    BY <1>2, <2>1, NoneTwice
<1>3. CASE s # <<>> /\ a = <<Head(s)>> /\ b = Tail(s)
  <2>1. /\ b \in Seq(SyncTask) /\ NoTwice(b) /\ Head(s) \in SyncTask /\ Has(s, Head(s))
        /\ \A x : Has(b, x) <=> Has(s, x) /\ x # Head(s)
    BY <1>1, <1>3, HasTail
  <2>2. a \in Seq(SyncTask) /\ Len(a) = 1 /\ NoTwice(a) /\ \A x : Has(a, x) <=> x = Head(s)
    BY <1>3, <2>1, HasOne
  <2>3. a # <<>>
    BY <2>2, NoneTwice
  <2>4. QED
    BY <2>1, <2>2, <2>3
<1>4. CASE a = s /\ b = <<>>
  BY <1>1, <1>4, NoneTwice
<1>5. QED
  BY <1>2, <1>3, <1>4 DEF Portion

(* A task takes waiters out of a queue.                                    *)
LEMMA TakenOwn ==
  ASSUME SyncTypeOK, Distinct, NEW q \in Lists, NEW t \in SyncTask, NEW a, NEW b,
         Portion(q, a, b), inHand[t] = <<>>,
         queue' = [queue EXCEPT ![q] = b], inHand' = [inHand EXCEPT ![t] = a], left' = left,
         Inside[q] \cap (Taken \cup TakenLeft) = {}
  PROVE  /\ queue' \in [Lists -> Seq(SyncTask)] /\ inHand' \in [SyncTask -> Seq(SyncTask)]
         /\ \A u \in EmptyHands : u # t => u \in EmptyHands'
         /\ \A p \in Lists : p # q => queue'[p] = queue[p]
         /\ queue'[q] = b
         /\ Given(a) \subseteq Inside[q] /\ Inside' = [Inside EXCEPT ![q] = @ \ Given(a)]
         /\ Taken' = Taken \cup Given(a) /\ TakenLeft' = TakenLeft
         /\ Distinct'
<1>1. /\ a \in Seq(SyncTask) /\ b \in Seq(SyncTask) /\ NoTwice(a) /\ NoTwice(b)
      /\ \A x : Has(a, x) => Has(queue[q], x)
      /\ \A x : Has(b, x) <=> Has(queue[q], x) /\ ~ Has(a, x)
  BY PortionFacts
<1>2. /\ queue' \in [Lists -> Seq(SyncTask)] /\ inHand' \in [SyncTask -> Seq(SyncTask)]
      /\ \A u \in SyncTask : u # t => inHand'[u] = inHand[u]
      /\ \A p \in Lists : p # q => queue'[p] = queue[p]
      /\ inHand'[t] = a /\ queue'[q] = b
  BY <1>1 DEF SyncTypeOK
<1>3. Given(a) \subseteq Inside[q]
  BY <1>1 DEF Inside, Given
<1>4. Inside' = [Inside EXCEPT ![q] = @ \ Given(a)]
  BY <1>1, <1>2 DEF Inside, Given
<1>5. \A x : ~ Has(inHand[t], x)
  BY NoneTwice
<1>6. Taken' = Taken \cup Given(a)
  BY <1>2, <1>5 DEF Taken, Given
<1>7. TakenLeft' = TakenLeft
  BY DEF TakenLeft
<1>8. \A x \in Given(a) : x \notin Taken /\ x \notin TakenLeft
  BY <1>3
<1>9. \A x, u \in SyncTask : Has(a, x) => ~ Has(inHand[u], x)
  BY <1>8 DEF Taken, Given
<1>10. Taken' \cap TakenLeft' = {}
  BY <1>6, <1>7, <1>8 DEF Distinct
<1>11. Distinct'
  BY <1>1, <1>2, <1>9, <1>10 DEF Distinct
<1>12. \A u \in EmptyHands : u # t => u \in EmptyHands'
  BY <1>2 DEF EmptyHands
<1>13. QED
  BY <1>2, <1>3, <1>4, <1>6, <1>7, <1>11, <1>12

(* ... or an unlock behind it does.                                        *)
LEMMA TakenToLeft ==
  ASSUME SyncTypeOK, Distinct, NEW q \in Lists, NEW t \in SyncTask, NEW a, NEW b,
         Portion(q, a, b), left[t] = <<>>,
         queue' = [queue EXCEPT ![q] = b], left' = [left EXCEPT ![t] = a], inHand' = inHand,
         Inside[q] \cap (Taken \cup TakenLeft) = {}
  PROVE  /\ queue' \in [Lists -> Seq(SyncTask)] /\ left' \in [SyncTask -> Seq(SyncTask)]
         /\ \A p \in Lists : p # q => queue'[p] = queue[p]
         /\ queue'[q] = b
         /\ Given(a) \subseteq Inside[q] /\ Inside' = [Inside EXCEPT ![q] = @ \ Given(a)]
         /\ TakenLeft' = TakenLeft \cup Given(a) /\ Taken' = Taken
              /\ EmptyHands' = EmptyHands
         /\ Distinct'
<1>1. /\ a \in Seq(SyncTask) /\ b \in Seq(SyncTask) /\ NoTwice(a) /\ NoTwice(b)
      /\ \A x : Has(a, x) => Has(queue[q], x)
      /\ \A x : Has(b, x) <=> Has(queue[q], x) /\ ~ Has(a, x)
  BY PortionFacts
<1>2. /\ queue' \in [Lists -> Seq(SyncTask)] /\ left' \in [SyncTask -> Seq(SyncTask)]
      /\ \A u \in SyncTask : u # t => left'[u] = left[u]
      /\ \A p \in Lists : p # q => queue'[p] = queue[p]
      /\ left'[t] = a /\ queue'[q] = b
  BY <1>1 DEF SyncTypeOK
<1>3. Given(a) \subseteq Inside[q]
  BY <1>1 DEF Inside, Given
<1>4. Inside' = [Inside EXCEPT ![q] = @ \ Given(a)]
  BY <1>1, <1>2 DEF Inside, Given
<1>5. \A x : ~ Has(left[t], x)
  BY NoneTwice
<1>6. TakenLeft' = TakenLeft \cup Given(a)
  BY <1>2, <1>5 DEF TakenLeft, Given
<1>7. Taken' = Taken /\ EmptyHands' = EmptyHands
  BY DEF Taken, EmptyHands
<1>8. \A x \in Given(a) : x \notin Taken /\ x \notin TakenLeft
  BY <1>3
<1>9. \A x, u \in SyncTask : Has(a, x) => ~ Has(left[u], x)
  BY <1>8 DEF TakenLeft, Given
<1>10. Taken' \cap TakenLeft' = {}
  BY <1>6, <1>7, <1>8 DEF Distinct
<1>11. Distinct'
  BY <1>1, <1>2, <1>9, <1>10 DEF Distinct
<1>12. QED
  BY <1>2, <1>3, <1>4, <1>6, <1>7, <1>11

(* Users of the mutex and parties of the barrier are different tasks.      *)
LEMMA Roles ==
  /\ Getter \subseteq SyncTask /\ Putter \subseteq SyncTask /\ Party \subseteq SyncTask
  /\ AsyncParty \subseteq Party /\ User \subseteq SyncTask
  /\ \A x : x \in User <=> x \in Getter \/ x \in Putter
  /\ \A x \in Party : x \notin User /\ x \notin Getter /\ x \notin Putter
  /\ \A x \in Getter : x \notin Putter
  /\ Free \notin SyncTask
BY SyncAssumption DEF User, SyncTask

(* Queues and hands as sets.                                               *)
LEMMA SetsTyped ==
  ASSUME SyncTypeOK
  PROVE  /\ Inside \in [Lists -> SUBSET SyncTask] /\ Taken \subseteq SyncTask
              /\ TakenLeft \subseteq SyncTask
         /\ \A q \in Lists : (queue[q] = <<>>) <=> (Inside[q] = {})
         /\ \A t \in SyncTask : (t \in behind /\ TakenLeft = {}) => left[t] = <<>>
<1>1. Inside \in [Lists -> SUBSET SyncTask] /\ Taken \subseteq SyncTask
        /\ TakenLeft \subseteq SyncTask
  BY DEF Inside, Taken, TakenLeft
<1>2. \A q \in Lists : queue[q] \in Seq(SyncTask)
  BY DEF SyncTypeOK
<1>3. \A q \in Lists : (queue[q] = <<>>) <=> (\A x \in SyncTask : ~ Has(queue[q], x))
  BY <1>2, HasNone
<1>4. \A q \in Lists : (queue[q] = <<>>) <=> (Inside[q] = {})
  BY <1>3 DEF Inside
<1>5. ASSUME NEW t \in SyncTask, TakenLeft = {} PROVE left[t] = <<>>
  <2>1. left[t] \in Seq(SyncTask) /\ \A x \in SyncTask : ~ Has(left[t], x)
    BY <1>5 DEF SyncTypeOK, TakenLeft
  <2>2. QED
    BY <2>1, HasNone
<1>6. QED
  BY <1>1, <1>4, <1>5

(* A step that leaves the queues and the hands alone.                      *)
LEMMA SameLists ==
  ASSUME Distinct, UNCHANGED <<queue, inHand, left>>
  PROVE  /\ Distinct' /\ Inside' = Inside /\ Taken' = Taken /\ TakenLeft' = TakenLeft
         /\ EmptyHands' = EmptyHands
BY DEF Distinct, Inside, Taken, TakenLeft, EmptyHands

(* All these sets are finite.                                              *)
LEMMA UsersFinite ==
  /\ \A S : S \subseteq Getter => IsFiniteSet(S) /\ Cardinality(S) \in Nat
  /\ \A S : S \subseteq Putter => IsFiniteSet(S) /\ Cardinality(S) \in Nat
  /\ \A S : S \subseteq Party => IsFiniteSet(S) /\ Cardinality(S) \in Nat
<1>1. ASSUME NEW S, S \subseteq SyncTask PROVE IsFiniteSet(S) /\ Cardinality(S) \in Nat
  BY <1>1, SyncAssumption, FS_Subset, FS_CardinalityType
<1>2. QED
  BY <1>1 DEF SyncTask, User

(* A step that sends nobody to sleep and stops nobody from notifying.      *)
LEMMA ItemsKept ==
  ASSUME ItemState, items \in Nat, items' = items, Inside'["c"] # {} => Inside["c"] # {},
         Awake \subseteq Awake', Putting \subseteq Putting'
  PROVE  ItemState'
<1>1. /\ Awake' \subseteq Getter /\ Putting' \subseteq Putter
      /\ Awake \subseteq Getter /\ Putting \subseteq Putter
  BY DEF Awake, Putting
<1>2. Cardinality(Awake) <= Cardinality(Awake')
        /\ Cardinality(Putting) <= Cardinality(Putting')
  BY <1>1, UsersFinite, FS_Subset
<1>3. /\ Cardinality(Awake) \in Nat /\ Cardinality(Awake') \in Nat
      /\ Cardinality(Putting) \in Nat /\ Cardinality(Putting') \in Nat
  BY <1>1, UsersFinite
<1>4. QED
  BY <1>2, <1>3 DEF ItemState

(* A step that leaves the barrier alone.                                   *)
LEMMA RoundKept ==
  ASSUME RoundState, arrived' = arrived, passed' = passed, count' = count,
         queue'["b"] = queue["b"], Inside'["b"] = Inside["b"],
         \A u \in Party : (step'[u] = "out") <=> (step[u] = "out")
  PROVE  RoundState'
<1>1. PICK r \in Nat : \A u \in Party :
        /\ arrived[u] = IF u \in Inside["b"] THEN r + 1 ELSE r
        /\ passed[u] = IF step[u] = "out" THEN arrived[u] ELSE arrived[u] - 1
  BY DEF RoundState
<1>2. \A u \in Party :
        /\ arrived'[u] = IF u \in Inside'["b"] THEN r + 1 ELSE r
        /\ passed'[u] = IF step'[u] = "out" THEN arrived'[u] ELSE arrived'[u] - 1
  BY <1>1
<1>3. /\ Len(queue'["b"]) = count' /\ count' < Cardinality(Party)
      /\ Cardinality(Inside'["b"]) = count'
  BY DEF RoundState
<1>4. QED
  BY <1>2, <1>3 DEF RoundState

(* A step that leaves the mutex alone.                                     *)
LEMMA HolderKept ==
  ASSUME HolderState, locked' = locked, behind' = behind, Inside'["m"] = Inside["m"],
         Holding' = Holding, \A u \in TakenLeft' : room'[u] = "m"
  PROVE  HolderState'
BY DEF HolderState

(* The types, pointwise.                                                   *)
LEMMA Typed ==
  ASSUME SyncTypeOK
  PROVE  /\ \A u \in SyncTask : step[u] \in StepName /\ room[u] \in Lists
         /\ \A q \in Lists : spin[q] \in SyncTask \cup {Free}
         /\ inSlot \subseteq SyncTask /\ behind \subseteq Getter
              /\ behind \subseteq SyncTask
         /\ "m" \in Lists /\ "c" \in Lists /\ "b" \in Lists
         /\ \A q \in Lists : q = "m" \/ q = "c" \/ q = "b"
         /\ \A u \in SyncTask : inHand[u] = <<>> <=> u \in EmptyHands
<1>1. Getter \subseteq SyncTask
  BY Roles
<1>2. \A u \in SyncTask : inHand[u] = <<>> <=> u \in EmptyHands
  BY DEF EmptyHands
<1>3. QED
  BY <1>1, <1>2 DEF SyncTypeOK, Lists

(* A task goes on to another step.                                         *)
LEMMA Moves ==
  ASSUME SyncTypeOK, NEW t \in SyncTask, NEW a, NEW b \in StepName, GoOn(t, a, b)
  PROVE  /\ step' \in [SyncTask -> StepName] /\ step[t] = a /\ step'[t] = b
         /\ \A u \in SyncTask : u # t => step'[u] = step[u]
BY DEF SyncTypeOK, GoOn

(* The names of the steps.                                                 *)
LEMMA StepNames ==
  /\ \A s \in Sleeping : s \in StepName
  /\ "switch" \in Sleeping /\ "drop" \in Sleeping /\ "pending" \in Sleeping
       /\ "parked" \in Sleeping
  /\ "out" \in StepName /\ "ready" \in StepName /\ "in" \in StepName
       /\ "relock" \in StepName
  /\ "put" \in StepName
  /\ \A s \in {"out", "ready", "in", "relock", "put"} : s \notin Sleeping
  /\ \A s \in Sleeping : s \in {"switch", "drop", "pending", "parked"}
BY DEF Sleeping, StepName

(* wait: a task lines up and begins to switch away with the spin lock      *)
(* held.                                                                   *)
LEMMA Enqueues ==
  ASSUME SyncTypeOK, Distinct, Waiting, NEW t \in SyncTask, NEW q \in Lists,
         NEW from \in {"out", "relock", "in"},
           Enqueue(t, q, from), spin[q] = Free, t \in EmptyHands,
         UNCHANGED <<inHand, left, inSlot>>
  PROVE  /\ step[t] = from /\ step' \in [SyncTask -> StepName] /\ step'[t] = "switch"
         /\ \A u \in SyncTask : u # t => step'[u] = step[u]
         /\ room' \in [SyncTask -> Lists] /\ room'[t] = q
         /\ \A u \in SyncTask : u # t => room'[u] = room[u]
         /\ spin' \in [Lists -> SyncTask \cup {Free}]
         /\ queue' \in [Lists -> Seq(SyncTask)] /\ Len(queue'[q]) = Len(queue[q]) + 1
         /\ \A p \in Lists : p # q => queue'[p] = queue[p] /\ Inside'[p] = Inside[p]
         /\ Inside'[q] = Inside[q] \cup {t}
         /\ Taken' = Taken /\ TakenLeft' = TakenLeft /\ EmptyHands' = EmptyHands
         /\ t \notin Taken /\ t \notin TakenLeft /\ \A p \in Lists : t \notin Inside[p]
         /\ Distinct' /\ Waiting'
<1>0. InQueue /\ HandsHold /\ Slots /\ Steps /\ Spins
  BY DEF Waiting
<1>1. step[t] = from /\ from \notin Sleeping /\ t \notin inSlot /\ t \notin Taken
        /\ t \notin TakenLeft
  BY <1>0, StepNames DEF Enqueue, GoOn, Slots, HandsHold
<1>2. \A p \in Lists : t \notin Inside[p]
  BY <1>0, <1>1 DEF InQueue
<1>3. /\ queue' \in [Lists -> Seq(SyncTask)] /\ Len(queue'[q]) = Len(queue[q]) + 1
      /\ \A p \in Lists : p # q => queue'[p] = queue[p]
      /\ Inside' = [Inside EXCEPT ![q] = @ \cup {t}]
      /\ Taken' = Taken /\ TakenLeft' = TakenLeft /\ EmptyHands' = EmptyHands /\ Distinct'
  BY <1>2, Enqueued DEF Enqueue
<1>4. /\ Inside'[q] = Inside[q] \cup {t}
      /\ \A p \in Lists : p # q => Inside'[p] = Inside[p]
      /\ \A p \in Lists : \A u \in Inside'[p] : u \in SyncTask /\ (u \in Inside[p]
           \/ (p = q /\ u = t))
      /\ \A p \in Lists : Inside[p] \subseteq Inside'[p]
  BY <1>3, SetsTyped
<1>5. /\ step' \in [SyncTask -> StepName] /\ step'[t] = "switch"
      /\ \A u \in SyncTask : u # t => step'[u] = step[u]
  BY Moves, StepNames DEF Enqueue
<1>6. /\ spin' \in [Lists -> SyncTask \cup {Free}] /\ spin'[q] = t
      /\ \A p \in Lists : p # q => spin'[p] = spin[p]
      /\ room' \in [SyncTask -> Lists] /\ room'[t] = q
      /\ \A u \in SyncTask : u # t => room'[u] = room[u]
  BY DEF Enqueue, SyncTypeOK
<1>7. Waiting'
  <2>1. InQueue'
    <3> SUFFICES ASSUME NEW p \in Lists, NEW u \in Inside'[p]
                 PROVE  /\ room'[u] = p /\ step'[u] \in Sleeping /\ u \notin Taken'
                             /\ u \notin TakenLeft'
                        /\ step'[u] = "switch" \/ u \in inSlot'
      BY DEF InQueue
    <3>1. CASE u = t
      BY <1>1, <1>2, <1>3, <1>4, <1>5, <1>6, <3>1, StepNames
    <3>2. CASE u # t
      <4>1. u \in Inside[p] /\ u \in SyncTask
        BY <1>4, <3>2
      <4>2. QED
        BY <1>0, <1>3, <1>5, <1>6, <3>2, <4>1 DEF InQueue
    <3>3. QED
      BY <3>1, <3>2
  <2>2. HandsHold'
    BY <1>0, <1>1, <1>3, <1>5, Typed, SetsTyped DEF HandsHold
  <2>3. Slots'
    <3> SUFFICES ASSUME NEW u \in inSlot
                 PROVE  /\ step'[u] \in {"drop", "pending", "parked"}
                        /\ u \in Taken' \cup TakenLeft' \cup Inside'[room'[u]]
      BY DEF Slots
    <3>1. u # t /\ u \in SyncTask
      BY <1>1, Typed
    <3>2. room'[u] = room[u] /\ room[u] \in Lists /\ step'[u] = step[u]
      BY <1>5, <1>6, <3>1, Typed
    <3>3. QED
      BY <1>0, <1>3, <1>4, <3>2 DEF Slots
  <2>4. Steps'
    <3> SUFFICES ASSUME NEW u \in SyncTask
                 PROVE  /\ step'[u] = "switch" => u \in Inside'[room'[u]]
                             /\ u \notin inSlot'
                        /\ step'[u] \in {"drop", "parked"} => u \in inSlot'
                        /\ step'[u] \in {"switch", "drop"} => spin'[room'[u]] = u
                        /\ step'[u] \notin {"out", "put"} => u \in EmptyHands'
      BY DEF Steps
    <3>1. CASE u = t
      BY <1>1, <1>3, <1>4, <1>5, <1>6, <3>1
    <3>2. CASE u # t
      <4>1. room'[u] = room[u] /\ room[u] \in Lists /\ step'[u] = step[u] /\ u # Free
        BY <1>5, <1>6, <3>2, Typed, Roles
      <4>2. step[u] \in {"switch", "drop"} => room[u] # q
        BY <1>0, <4>1 DEF Steps
      <4>3. QED
        BY <1>0, <1>3, <1>4, <1>6, <4>1, <4>2 DEF Steps
    <3>3. QED
      BY <3>1, <3>2
  <2>5. Spins'
    <3> SUFFICES ASSUME NEW p \in Lists, spin'[p] # Free
                 PROVE  room'[spin'[p]] = p /\ step'[spin'[p]] \in {"switch", "drop"}
      BY DEF Spins
    <3>1. CASE p = q
      BY <1>5, <1>6, <3>1
    <3>2. CASE p # q
      <4>1. spin[p] \in SyncTask /\ room[spin[p]] = p
              /\ step[spin[p]] \in {"switch", "drop"}
        BY <1>0, <1>6, <3>2, Typed DEF Spins
      <4>2. spin[p] # t
        BY <1>1, <4>1
      <4>3. QED
        BY <1>5, <1>6, <3>2, <4>1, <4>2
    <3>3. QED
      BY <3>1, <3>2
  <2>6. QED
    BY <2>1, <2>2, <2>3, <2>4, <2>5 DEF Waiting
<1>8. QED
  BY <1>1, <1>2, <1>3, <1>4, <1>5, <1>6, <1>7

(* The first waiter of a queue, or all.                                    *)
LEMMA GivenOne ==
  ASSUME SyncTypeOK, Distinct, NEW q \in Lists
  PROVE  /\ Portion(q, FirstOf(q), RestOf(q)) /\ Portion(q, queue[q], <<>>)
         /\ Given(queue[q]) = Inside[q]
         /\ \A x, y \in Given(FirstOf(q)) : x = y
         /\ queue[q] = <<>> => Given(FirstOf(q)) = {}
         /\ queue[q] # <<>> => Given(FirstOf(q)) # {}
<1>1. Portion(q, FirstOf(q), RestOf(q)) /\ Portion(q, queue[q], <<>>)
  BY DEF Portion, FirstOf, RestOf
<1>2. Given(queue[q]) = Inside[q]
  BY DEF Given, Inside
<1>3. CASE queue[q] = <<>>
  BY <1>1, <1>2, <1>3, NoneTwice DEF Given, FirstOf
<1>4. CASE queue[q] # <<>>
  <2>1. Head(queue[q]) \in SyncTask
    BY <1>4, HasTail DEF SyncTypeOK
  <2>2. FirstOf(q) = <<Head(queue[q])>>
    BY <1>4 DEF FirstOf
  <2>3. \A x : x \in Given(FirstOf(q)) <=> x = Head(queue[q])
    BY <2>1, <2>2, HasOne DEF Given
  <2>4. (\A x, y \in Given(FirstOf(q)) : x = y) /\ Given(FirstOf(q)) # {}
    BY <2>3
  <2>5. QED
    BY <1>1, <1>2, <1>4, <2>4
<1>5. QED
  BY <1>3, <1>4

(* What a task leaves behind that took waiters out of a queue.             *)
Took(t, q, a, b) ==
  /\ queue' \in [Lists -> Seq(SyncTask)] /\ inHand' \in [SyncTask -> Seq(SyncTask)]
  /\ \A p \in Lists : p # q => queue'[p] = queue[p] /\ Inside'[p] = Inside[p]
  /\ queue'[q] = b /\ Inside'[q] = Inside[q] \ Given(a) /\ Given(a) \subseteq Inside[q]
  /\ Taken' = Taken \cup Given(a) /\ TakenLeft' = TakenLeft
  /\ t \notin Taken /\ t \notin TakenLeft /\ \A p \in Lists : t \notin Inside[p]
  /\ \A x \in Given(a) : x \in SyncTask /\ room[x] = q /\ step[x] \in {"pending", "parked"}
  /\ Distinct' /\ Waiting'

(* Waiters are taken under the spin lock, so none of them is still         *)
(* switching away.                                                         *)
LEMMA Takes ==
  ASSUME SyncTypeOK, Distinct, Waiting, NEW t \in SyncTask, NEW q \in Lists, NEW a, NEW b,
         Portion(q, a, b), spin[q] = Free, t \in EmptyHands, step[t] \notin Sleeping,
         queue' = [queue EXCEPT ![q] = b], inHand' = [inHand EXCEPT ![t] = a], left' = left,
         \A u \in SyncTask : u # t => step'[u] = step[u], step'[t] \in {"out", "put"},
         UNCHANGED <<inSlot, room, spin>>
  PROVE  Took(t, q, a, b)
<1>0. InQueue /\ HandsHold /\ Slots /\ Steps /\ Spins
  BY DEF Waiting
<1>1. Inside[q] \cap (Taken \cup TakenLeft) = {}
  BY <1>0 DEF InQueue
<1>2. inHand[t] = <<>>
  BY DEF EmptyHands
<1>3. /\ queue' \in [Lists -> Seq(SyncTask)] /\ inHand' \in [SyncTask -> Seq(SyncTask)]
      /\ \A u \in EmptyHands : u # t => u \in EmptyHands'
      /\ \A p \in Lists : p # q => queue'[p] = queue[p]
      /\ queue'[q] = b /\ Given(a) \subseteq Inside[q]
      /\ Inside' = [Inside EXCEPT ![q] = @ \ Given(a)]
      /\ Taken' = Taken \cup Given(a) /\ TakenLeft' = TakenLeft
      /\ Distinct'
  BY <1>1, <1>2, TakenOwn
<1>4. /\ Inside'[q] = Inside[q] \ Given(a)
      /\ \A p \in Lists : p # q => Inside'[p] = Inside[p]
      /\ \A p \in Lists : Inside'[p] \subseteq Inside[p]
      /\ \A p \in Lists : \A u \in Inside'[p] : u \notin Given(a)
  BY <1>0, <1>3, SetsTyped DEF InQueue
<1>5. t \notin inSlot /\ t \notin Taken /\ t \notin TakenLeft
        /\ \A p \in Lists : t \notin Inside[p]
  BY <1>0, StepNames DEF Slots, HandsHold, InQueue
<1>6. \A x \in Given(a) : /\ x \in SyncTask /\ x # t /\ room[x] = q
                          /\ step[x] \in {"pending", "parked"} /\ x \in inSlot
  <2> SUFFICES ASSUME NEW x \in Given(a)
               PROVE  /\ x \in SyncTask /\ x # t /\ room[x] = q
                      /\ step[x] \in {"pending", "parked"} /\ x \in inSlot
    OBVIOUS
  <2>1. x \in SyncTask /\ x # t /\ x \in Inside[q]
    BY <1>3, <1>5, SetsTyped
  <2>2. room[x] = q /\ step[x] \in Sleeping /\ (step[x] = "switch" \/ x \in inSlot)
    BY <1>0, <2>1 DEF InQueue
  <2>3. step[x] \notin {"switch", "drop"}
    BY <1>0, <2>1, <2>2, Roles DEF Steps
  <2>4. QED
    BY <2>1, <2>2, <2>3, StepNames
<1>7. Waiting'
  <2>1. InQueue'
    <3> SUFFICES ASSUME NEW p \in Lists, NEW u \in Inside'[p]
                 PROVE  /\ room'[u] = p /\ step'[u] \in Sleeping /\ u \notin Taken'
                             /\ u \notin TakenLeft'
                        /\ step'[u] = "switch" \/ u \in inSlot'
      BY DEF InQueue
    <3>1. u \in Inside[p] /\ u \in SyncTask /\ u # t /\ u \notin Given(a)
      BY <1>4, <1>5, SetsTyped
    <3>2. QED
      BY <1>0, <1>3, <3>1 DEF InQueue
  <2>2. HandsHold'
    BY <1>0, <1>3, <1>5, <1>6, SetsTyped DEF HandsHold
  <2>3. Slots'
    <3> SUFFICES ASSUME NEW u \in inSlot
                 PROVE  /\ step'[u] \in {"drop", "pending", "parked"}
                        /\ u \in Taken' \cup TakenLeft' \cup Inside'[room'[u]]
      BY DEF Slots
    <3>1. u # t /\ u \in SyncTask /\ room[u] \in Lists /\ step'[u] = step[u]
      BY <1>5, Typed
    <3>2. u \in Inside[room[u]] => u \in Inside'[room[u]] \/ u \in Given(a)
      BY <1>4, <3>1
    <3>3. QED
      BY <1>0, <1>3, <3>1, <3>2 DEF Slots
  <2>4. Steps'
    <3> SUFFICES ASSUME NEW u \in SyncTask
                 PROVE  /\ step'[u] = "switch" => u \in Inside'[room'[u]]
                             /\ u \notin inSlot'
                        /\ step'[u] \in {"drop", "parked"} => u \in inSlot'
                        /\ step'[u] \in {"switch", "drop"} => spin'[room'[u]] = u
                        /\ step'[u] \notin {"out", "put"} => u \in EmptyHands'
      BY DEF Steps
    <3>1. CASE u = t
      BY <3>1
    <3>2. CASE u # t
      <4>1. room[u] \in Lists /\ step'[u] = step[u]
        BY <3>2, Typed
      <4>2. step[u] = "switch" => u \in Inside'[room[u]]
        BY <1>0, <1>4, <1>6, <4>1 DEF Steps
      <4>3. QED
        BY <1>0, <1>3, <3>2, <4>1, <4>2 DEF Steps
    <3>3. QED
      BY <3>1, <3>2
  <2>5. Spins'
    BY <1>0, Typed, StepNames DEF Spins
  <2>6. QED
    BY <2>1, <2>2, <2>3, <2>4, <2>5 DEF Waiting
<1>8. QED
  BY <1>3, <1>4, <1>5, <1>6, <1>7 DEF Took

(* The same of an unlock running behind its task.                          *)
TookLeft(q, a, b) ==
  /\ queue' \in [Lists -> Seq(SyncTask)] /\ left' \in [SyncTask -> Seq(SyncTask)]
  /\ \A p \in Lists : p # q => queue'[p] = queue[p] /\ Inside'[p] = Inside[p]
  /\ queue'[q] = b /\ Inside'[q] = Inside[q] \ Given(a) /\ Given(a) \subseteq Inside[q]
  /\ TakenLeft' = TakenLeft \cup Given(a) /\ Taken' = Taken
  /\ \A x \in Given(a) : x \in SyncTask /\ room[x] = q /\ step[x] \in {"pending", "parked"}
  /\ Distinct' /\ Waiting'

(* ... that takes the next owner of the mutex.                             *)
LEMMA TakesLeft ==
  ASSUME SyncTypeOK, Distinct, Waiting, NEW t \in SyncTask, NEW q \in Lists, NEW a, NEW b,
         Portion(q, a, b), spin[q] = Free, left[t] = <<>>,
         queue' = [queue EXCEPT ![q] = b], left' = [left EXCEPT ![t] = a], inHand' = inHand,
         UNCHANGED <<step, inSlot, room, spin>>
  PROVE  TookLeft(q, a, b)
<1>0. InQueue /\ HandsHold /\ Slots /\ Steps /\ Spins
  BY DEF Waiting
<1>1. Inside[q] \cap (Taken \cup TakenLeft) = {}
  BY <1>0 DEF InQueue
<1>3. /\ queue' \in [Lists -> Seq(SyncTask)] /\ left' \in [SyncTask -> Seq(SyncTask)]
      /\ \A p \in Lists : p # q => queue'[p] = queue[p]
      /\ queue'[q] = b /\ Given(a) \subseteq Inside[q]
      /\ Inside' = [Inside EXCEPT ![q] = @ \ Given(a)]
      /\ TakenLeft' = TakenLeft \cup Given(a) /\ Taken' = Taken /\ EmptyHands' = EmptyHands
      /\ Distinct'
  BY <1>1, TakenToLeft
<1>4. /\ Inside'[q] = Inside[q] \ Given(a)
      /\ \A p \in Lists : p # q => Inside'[p] = Inside[p]
      /\ \A p \in Lists : Inside'[p] \subseteq Inside[p]
      /\ \A p \in Lists : \A u \in Inside'[p] : u \notin Given(a)
  BY <1>0, <1>3, SetsTyped DEF InQueue
<1>6. \A x \in Given(a) : /\ x \in SyncTask /\ room[x] = q
                          /\ step[x] \in {"pending", "parked"} /\ x \in inSlot
  <2> SUFFICES ASSUME NEW x \in Given(a)
               PROVE  /\ x \in SyncTask /\ room[x] = q
                      /\ step[x] \in {"pending", "parked"} /\ x \in inSlot
    OBVIOUS
  <2>1. x \in SyncTask /\ x \in Inside[q]
    BY <1>3, SetsTyped
  <2>2. room[x] = q /\ step[x] \in Sleeping /\ (step[x] = "switch" \/ x \in inSlot)
    BY <1>0, <2>1 DEF InQueue
  <2>3. step[x] \notin {"switch", "drop"}
    BY <1>0, <2>1, <2>2, Roles DEF Steps
  <2>4. QED
    BY <2>1, <2>2, <2>3, StepNames
<1>7. Waiting'
  <2>1. InQueue'
    <3> SUFFICES ASSUME NEW p \in Lists, NEW u \in Inside'[p]
                 PROVE  /\ room'[u] = p /\ step'[u] \in Sleeping /\ u \notin Taken'
                             /\ u \notin TakenLeft'
                        /\ step'[u] = "switch" \/ u \in inSlot'
      BY DEF InQueue
    <3>1. u \in Inside[p] /\ u \in SyncTask /\ u \notin Given(a)
      BY <1>4, SetsTyped
    <3>2. QED
      BY <1>0, <1>3, <3>1 DEF InQueue
  <2>2. HandsHold'
    BY <1>0, <1>3, <1>6, SetsTyped DEF HandsHold
  <2>3. Slots'
    <3> SUFFICES ASSUME NEW u \in inSlot
                 PROVE  /\ step'[u] \in {"drop", "pending", "parked"}
                        /\ u \in Taken' \cup TakenLeft' \cup Inside'[room'[u]]
      BY DEF Slots
    <3>1. u \in SyncTask /\ room[u] \in Lists
      BY Typed
    <3>2. u \in Inside[room[u]] => u \in Inside'[room[u]] \/ u \in Given(a)
      BY <1>4, <3>1
    <3>3. QED
      BY <1>0, <1>3, <3>1, <3>2 DEF Slots
  <2>4. Steps'
    <3> SUFFICES ASSUME NEW u \in SyncTask
                 PROVE  /\ step'[u] = "switch" => u \in Inside'[room'[u]]
                             /\ u \notin inSlot'
                        /\ step'[u] \in {"drop", "parked"} => u \in inSlot'
                        /\ step'[u] \in {"switch", "drop"} => spin'[room'[u]] = u
                        /\ step'[u] \notin {"out", "put"} => u \in EmptyHands'
      BY DEF Steps
    <3>1. room[u] \in Lists
      BY Typed
    <3>2. step[u] = "switch" => u \in Inside'[room[u]]
      BY <1>0, <1>4, <1>6, <3>1 DEF Steps
    <3>3. QED
      BY <1>0, <1>3, <3>2 DEF Steps
  <2>5. Spins'
    BY <1>0 DEF Spins
  <2>6. QED
    BY <2>1, <2>2, <2>3, <2>4, <2>5 DEF Waiting
<1>8. QED
  BY <1>3, <1>4, <1>6, <1>7 DEF TookLeft

-----------------------------------------------------------------------------
(* The steps of the tasks at a mutex, a condition variable or a barrier.   *)

(* The callback of the switch publishes the token.                         *)
LEMMA PublishTokenSyncs ==
  ASSUME SyncIInv, NEW t \in SyncTask, PublishToken(t)
  PROVE  SyncIInv'
<1>0. /\ SyncTypeOK /\ Distinct /\ InQueue /\ HandsHold /\ Slots /\ Steps /\ Spins /\ Who
      /\ HolderState /\ ItemState /\ RoundState /\ Waiting
  BY DEF SyncIInv, Waiting
<1>1. Distinct' /\ Inside' = Inside /\ Taken' = Taken /\ TakenLeft' = TakenLeft
        /\ EmptyHands' = EmptyHands
  BY <1>0, SameLists DEF PublishToken, mutexwords
<1>2. /\ step' \in [SyncTask -> StepName] /\ step[t] = "switch" /\ step'[t] = "drop"
      /\ \A u \in SyncTask : u # t => step'[u] = step[u]
  BY <1>0, Moves, StepNames DEF PublishToken

<1>3. /\ inSlot' = inSlot \cup {t}
      /\ used' = used /\ queue' = queue /\ spin' = spin /\ locked' = locked
           /\ count' = count
      /\ arrived' = arrived /\ passed' = passed /\ room' = room /\ behind' = behind
      /\ word' = word /\ inHand' = inHand /\ left' = left /\ items' = items /\ puts' = puts
  BY DEF PublishToken, mutexwords, barrierwords, condwords
<1>4. SyncTypeOK'
  BY <1>0, <1>2, <1>3 DEF SyncTypeOK
<1>5. t \in Inside[room[t]] /\ t \notin inSlot /\ spin[room[t]] = t /\ room[t] \in Lists
        /\ t \in EmptyHands
  BY <1>0, <1>2, Typed DEF Steps
<1>6. t \notin Taken /\ t \notin TakenLeft
  BY <1>0, <1>5 DEF HandsHold
<1>7. Waiting'
  <2>1. InQueue'
    <3> SUFFICES ASSUME NEW q \in Lists, NEW u \in Inside'[q]
                 PROVE  /\ room'[u] = q /\ step'[u] \in Sleeping /\ u \notin Taken'
                             /\ u \notin TakenLeft'
                        /\ step'[u] = "switch" \/ u \in inSlot'
      BY DEF InQueue
    <3>1. u \in SyncTask
      BY DEF Inside
    <3>2. CASE u = t
      BY <1>0, <1>1, <1>2, <1>3, <1>5, <1>6, <3>1, <3>2, StepNames DEF InQueue
    <3>3. CASE u # t
      BY <1>0, <1>1, <1>2, <1>3, <1>5, <1>6, <3>1, <3>3, StepNames DEF InQueue
    <3>4. QED
      BY <3>2, <3>3
  <2>2. HandsHold'
    BY <1>0, <1>1, <1>2, <1>3, <1>5, <1>6, Typed, StepNames DEF HandsHold
  <2>3. Slots'
    BY <1>0, <1>1, <1>2, <1>3, <1>5, <1>6, Typed, StepNames DEF Slots
  <2>4. Steps'
    BY <1>0, <1>1, <1>2, <1>3, <1>5, <1>6, Typed, StepNames DEF Steps
  <2>5. Spins'
    BY <1>0, <1>1, <1>2, <1>3, <1>5, <1>6, Typed, StepNames DEF Spins
  <2>6. QED
    BY <2>1, <2>2, <2>3, <2>4, <2>5 DEF Waiting
<1>8. Who'
  BY <1>0, <1>2, <1>3, <1>5, Roles, StepNames DEF Who, WhoIs
<1>9. HolderState'
  <2>1. Holding' = Holding
    BY <1>0, <1>1, <1>2, <1>3, Roles DEF Holding
  <2>2. QED
    BY <1>0, <1>1, <1>3, <2>1, HolderKept DEF HolderState
<1>10. ItemState'
  <2>1. Awake' = Awake /\ Putting' = Putting
    BY <1>1, <1>2, Roles DEF Awake, Putting
  <2>2. QED
    BY <1>0, <1>1, <1>3, <2>1 DEF ItemState
<1>11. RoundState'
  BY <1>0, <1>1, <1>2, <1>3, RoundKept, Roles
<1>12. QED
  BY <1>1, <1>4, <1>7, <1>8, <1>9, <1>10, <1>11 DEF SyncIInv

(* ... and releases the spin lock.                                         *)
LEMMA DropSpinSyncs ==
  ASSUME SyncIInv, NEW t \in SyncTask, DropSpin(t)
  PROVE  SyncIInv'
<1>0. /\ SyncTypeOK /\ Distinct /\ InQueue /\ HandsHold /\ Slots /\ Steps /\ Spins /\ Who
      /\ HolderState /\ ItemState /\ RoundState /\ Waiting
  BY DEF SyncIInv, Waiting
<1>1. Distinct' /\ Inside' = Inside /\ Taken' = Taken /\ TakenLeft' = TakenLeft
        /\ EmptyHands' = EmptyHands
  BY <1>0, SameLists DEF DropSpin
<1>2. /\ step' \in [SyncTask -> StepName] /\ step[t] = "drop"
           /\ step'[t] = IF t \in AsyncParty THEN "pending" ELSE "parked"
      /\ \A u \in SyncTask : u # t => step'[u] = step[u]
  BY <1>0, Moves, StepNames DEF DropSpin

<1>3. /\ spin' = [spin EXCEPT ![room[t]] = Free]
      /\ behind' = IF room[t] = "c" THEN behind \cup {t} ELSE behind
      /\ used' = used /\ queue' = queue /\ locked' = locked /\ count' = count
      /\ arrived' = arrived /\ passed' = passed /\ room' = room /\ inSlot' = inSlot
      /\ word' = word /\ inHand' = inHand /\ left' = left /\ items' = items /\ puts' = puts
  BY DEF DropSpin, barrierwords
<1>4. room[t] \in Lists /\ spin[room[t]] = t /\ t \in inSlot /\ t \in EmptyHands
  BY <1>0, <1>2, Typed DEF Steps
<1>5. t \in Inside[room[t]] /\ t \notin Taken /\ t \notin TakenLeft
  BY <1>0, <1>2, <1>4 DEF HandsHold, Slots
<1>6. /\ spin'[room[t]] = Free /\ \A q \in Lists : q # room[t] => spin'[q] = spin[q]
      /\ spin' \in [Lists -> SyncTask \cup {Free}]
  BY <1>0, <1>3, <1>4 DEF SyncTypeOK
<1>7. /\ step'[t] \in {"pending", "parked"} /\ step'[t] \in Sleeping
      /\ \A q \in Lists : spin'[q] # Free => spin'[q] = spin[q] /\ spin[q] # t
           /\ spin[q] \in SyncTask
      /\ \A u \in SyncTask : step[u] \in {"switch", "drop"} /\ u # t => room[u] # room[t]
  <2>1. step'[t] \in {"pending", "parked"} /\ step'[t] \in Sleeping
    BY <1>2, StepNames
  <2>2. ASSUME NEW q \in Lists, spin'[q] # Free
        PROVE  spin'[q] = spin[q] /\ spin[q] # t /\ spin[q] \in SyncTask
    <3>1. q # room[t] /\ spin'[q] = spin[q]
      BY <1>6, <2>2
    <3>2. spin[q] \in SyncTask /\ room[spin[q]] = q
      BY <1>0, <2>2, <3>1, Typed DEF Spins
    <3>3. QED
      BY <3>1, <3>2
  <2>3. \A u \in SyncTask : step[u] \in {"switch", "drop"} /\ u # t => room[u] # room[t]
    BY <1>0, <1>4 DEF Steps
  <2>4. QED
    BY <2>1, <2>2, <2>3
<1>8. SyncTypeOK'
  <2>1. behind' \subseteq Getter
    BY <1>0, <1>2, <1>3, Typed, StepNames DEF Who, WhoIs
  <2>2. QED
    BY <1>0, <1>2, <1>3, <1>6, <2>1 DEF SyncTypeOK
<1>9. Waiting'
  <2>1. InQueue'
    <3> SUFFICES ASSUME NEW q \in Lists, NEW u \in Inside'[q]
                 PROVE  /\ room'[u] = q /\ step'[u] \in Sleeping /\ u \notin Taken'
                             /\ u \notin TakenLeft'
                        /\ step'[u] = "switch" \/ u \in inSlot'
      BY DEF InQueue
    <3>1. u \in SyncTask
      BY DEF Inside
    <3>2. CASE u = t
      BY <1>0, <1>1, <1>2, <1>4, <1>5, <1>7, <1>3, <3>1, <3>2, StepNames DEF InQueue
    <3>3. CASE u # t
      BY <1>0, <1>1, <1>2, <1>4, <1>5, <1>7, <1>3, <3>1, <3>3, StepNames DEF InQueue
    <3>4. QED
      BY <3>2, <3>3
  <2>2. HandsHold'
    BY <1>0, <1>1, <1>2, <1>4, <1>5, <1>7, Typed, StepNames, <1>3 DEF HandsHold
  <2>3. Slots'
    BY <1>0, <1>1, <1>2, <1>4, <1>5, <1>7, Typed, StepNames, <1>3 DEF Slots
  <2>4. Steps'
    BY <1>0, <1>1, <1>2, <1>4, <1>5, <1>7, Typed, StepNames, <1>3, <1>6 DEF Steps
  <2>5. Spins'
    BY <1>0, <1>1, <1>2, <1>4, <1>5, <1>7, Typed, StepNames, <1>3 DEF Spins
  <2>6. QED
    BY <2>1, <2>2, <2>3, <2>4, <2>5 DEF Waiting
<1>10. Who'
  BY <1>0, <1>2, <1>3, <1>4, <1>7, Roles, StepNames DEF Who, WhoIs
<1>11. Holding' = IF room[t] = "c" THEN Holding \ {t} ELSE Holding
  BY <1>0, <1>1, <1>2, <1>3, <1>5, <1>7, Roles, StepNames DEF Who, WhoIs, Holding
<1>12. HolderState'
  <2>1. CASE room[t] = "c"
    <3>1. t \in Holding
      BY <1>0, <1>2, <2>1, Roles, StepNames DEF Who, WhoIs, Holding
    <3>2. Holding' = {} /\ behind = {} /\ locked
      BY <1>0, <1>11, <2>1, <3>1 DEF HolderState
    <3>3. behind' = {t}
      BY <1>3, <2>1, <3>2
    <3>4. QED
      BY <1>0, <1>1, <1>3, <3>2, <3>3 DEF HolderState
  <2>2. CASE room[t] # "c"
    BY <1>0, <1>1, <1>3, <1>11, <2>2, HolderKept DEF HolderState
  <2>3. QED
    BY <2>1, <2>2
<1>13. ItemState'
  <2>1. Awake' = Awake /\ Putting' = Putting
    BY <1>1, <1>2, Roles DEF Awake, Putting
  <2>2. QED
    BY <1>0, <1>1, <1>3, <2>1 DEF ItemState
<1>14. RoundState'
  BY <1>0, <1>1, <1>2, <1>3, RoundKept, Roles
<1>15. QED
  BY <1>1, <1>8, <1>9, <1>10, <1>12, <1>13, <1>14 DEF SyncIInv

(* A polled task parks its word, or sees that it was notified meanwhile.   *)
LEMMA ParkPendingSyncs ==
  ASSUME SyncIInv, NEW t \in SyncTask, t \in AsyncParty, ParkPending(t)
  PROVE  SyncIInv'
<1>0. /\ SyncTypeOK /\ Distinct /\ InQueue /\ HandsHold /\ Slots /\ Steps /\ Spins /\ Who
      /\ HolderState /\ ItemState /\ RoundState /\ Waiting
  BY DEF SyncIInv, Waiting
<1>1. Distinct' /\ Inside' = Inside /\ Taken' = Taken /\ TakenLeft' = TakenLeft
        /\ EmptyHands' = EmptyHands
  BY <1>0, SameLists DEF ParkPending, mutexwords
<1>2. /\ step' \in [SyncTask -> StepName] /\ step[t] = "pending"
           /\ step'[t] = IF word[t] = "NOTIFIED" THEN "ready" ELSE "parked"
      /\ \A u \in SyncTask : u # t => step'[u] = step[u]
  BY <1>0, Moves, StepNames DEF ParkPending

<1>3. /\ word' = [word EXCEPT ![t] = IF @ = "NOTIFIED" THEN "POLLING" ELSE "PARKED"]
      /\ used' = used /\ queue' = queue /\ spin' = spin /\ locked' = locked
           /\ count' = count
      /\ arrived' = arrived /\ passed' = passed /\ room' = room /\ inSlot' = inSlot
      /\ behind' = behind /\ inHand' = inHand /\ left' = left /\ items' = items
           /\ puts' = puts
  BY DEF ParkPending, mutexwords, barrierwords, condwords
<1>4. /\ word'[t] = IF word[t] = "NOTIFIED" THEN "POLLING" ELSE "PARKED"
      /\ word' \in [AsyncParty -> {"POLLING", "NOTIFIED", "PARKED"}]
      /\ \A u \in AsyncParty : u # t => word'[u] = word[u]
  BY <1>0, <1>3 DEF SyncTypeOK
<1>5. SyncTypeOK'
  BY <1>0, <1>2, <1>3, <1>4 DEF SyncTypeOK
<1>6. /\ t \in Party /\ t \notin User /\ t \notin Getter /\ t \notin Putter
           /\ t \in EmptyHands
      /\ word[t] = "NOTIFIED" <=> t \notin inSlot
  BY <1>0, <1>2, Roles, StepNames DEF Who, WhoIs, Steps
<1>7. Waiting'
  <2>1. InQueue'
    <3> SUFFICES ASSUME NEW q \in Lists, NEW u \in Inside'[q]
                 PROVE  /\ room'[u] = q /\ step'[u] \in Sleeping /\ u \notin Taken'
                             /\ u \notin TakenLeft'
                        /\ step'[u] = "switch" \/ u \in inSlot'
      BY DEF InQueue
    <3>1. u \in SyncTask
      BY DEF Inside
    <3>2. CASE u = t
      BY <1>0, <1>1, <1>2, <1>3, <1>6, <3>1, <3>2, StepNames DEF InQueue
    <3>3. CASE u # t
      BY <1>0, <1>1, <1>2, <1>3, <1>6, <3>1, <3>3, StepNames DEF InQueue
    <3>4. QED
      BY <3>2, <3>3
  <2>2. HandsHold'
    BY <1>0, <1>1, <1>2, <1>3, <1>6, Typed, StepNames DEF HandsHold
  <2>3. Slots'
    BY <1>0, <1>1, <1>2, <1>3, <1>6, Typed, StepNames DEF Slots
  <2>4. Steps'
    BY <1>0, <1>1, <1>2, <1>3, <1>6, Typed, StepNames DEF Steps
  <2>5. Spins'
    BY <1>0, <1>1, <1>2, <1>3, <1>6, Typed, StepNames DEF Spins
  <2>6. QED
    BY <2>1, <2>2, <2>3, <2>4, <2>5 DEF Waiting
<1>8. Who'
  BY <1>0, <1>2, <1>3, <1>4, <1>6, Roles, StepNames DEF Who, WhoIs
<1>9. HolderState'
  <2>1. Holding' = Holding
    BY <1>0, <1>1, <1>2, <1>3, <1>6, Roles DEF Holding
  <2>2. QED
    BY <1>0, <1>1, <1>3, <2>1, HolderKept DEF HolderState
<1>10. ItemState'
  <2>1. Awake' = Awake /\ Putting' = Putting
    BY <1>1, <1>2, <1>6, Roles, StepNames DEF Awake, Putting
  <2>2. QED
    BY <1>0, <1>1, <1>3, <2>1 DEF ItemState
<1>11. RoundState'
  BY <1>0, <1>1, <1>2, <1>3, RoundKept, Roles, StepNames
<1>12. QED
  BY <1>1, <1>5, <1>7, <1>8, <1>9, <1>10, <1>11 DEF SyncIInv

(* A waiter that was woken runs again: with the mutex, to get it back, or  *)
(* past the barrier.                                                       *)
LEMMA GoesOnSyncs ==
  ASSUME SyncIInv, NEW t \in SyncTask, GoesOn(t)
  PROVE  SyncIInv'
<1>0. /\ SyncTypeOK /\ Distinct /\ InQueue /\ HandsHold /\ Slots /\ Steps /\ Spins /\ Who
      /\ HolderState /\ ItemState /\ RoundState /\ Waiting
  BY DEF SyncIInv, Waiting
<1>1. Distinct' /\ Inside' = Inside /\ Taken' = Taken /\ TakenLeft' = TakenLeft
        /\ EmptyHands' = EmptyHands
  BY <1>0, SameLists DEF GoesOn, mutexwords
<1>98. step[t] = "ready" /\ room[t] \in Lists
  BY <1>0, Typed DEF GoesOn, GoOn
<1>99. GoOn(t, "ready", IF room[t] = "m" THEN "in" ELSE IF room[t] = "c" THEN "relock" ELSE "out")
  BY <1>98, Typed DEF GoesOn
<1>2. /\ step' \in [SyncTask -> StepName]
      /\ step'[t] = IF room[t] = "m" THEN "in" ELSE IF room[t] = "c" THEN "relock" ELSE "out"
      /\ \A u \in SyncTask : u # t => step'[u] = step[u]
  BY <1>0, <1>99, Moves, StepNames
<1>3. /\ passed' = IF room[t] = "b" THEN [passed EXCEPT ![t] = @ + 1] ELSE passed
      /\ used' = used /\ queue' = queue /\ spin' = spin /\ locked' = locked
           /\ count' = count
      /\ arrived' = arrived /\ word' = word /\ room' = room /\ inSlot' = inSlot
      /\ behind' = behind /\ inHand' = inHand /\ left' = left /\ items' = items
           /\ puts' = puts
  BY DEF GoesOn, mutexwords, barrierwords, condwords
<1>4. /\ room[t] = "b" => t \in Party
      /\ room[t] # "b" => t \in User /\ t \notin Party
      /\ room[t] = "c" => t \in Getter
      /\ t \notin inSlot /\ t \in EmptyHands /\ t \notin Taken /\ t \notin TakenLeft
      /\ \A q \in Lists : t \notin Inside[q]
  <2>1. t \notin inSlot /\ t \in EmptyHands /\ t \notin Taken /\ t \notin TakenLeft
    BY <1>0, <1>98 DEF Slots, Steps, HandsHold
  <2>2. \A q \in Lists : t \notin Inside[q]
    BY <1>0, <1>98, StepNames DEF InQueue
  <2>3. QED
    BY <1>0, <1>98, <2>1, <2>2, Typed, Roles DEF Who, WhoIs
<1>5. SyncTypeOK'
  <2>1. passed' \in [Party -> Nat]
    BY <1>0, <1>3, <1>4 DEF SyncTypeOK
  <2>2. QED
    BY <1>0, <1>2, <1>3, <2>1 DEF SyncTypeOK
<1>7. Waiting'
  <2>1. InQueue'
    <3> SUFFICES ASSUME NEW q \in Lists, NEW u \in Inside'[q]
                 PROVE  /\ room'[u] = q /\ step'[u] \in Sleeping /\ u \notin Taken'
                             /\ u \notin TakenLeft'
                        /\ step'[u] = "switch" \/ u \in inSlot'
      BY DEF InQueue
    <3>1. u \in SyncTask
      BY DEF Inside
    <3>2. CASE u = t
      BY <1>0, <1>1, <1>2, <1>3, <1>4, <1>98, <3>1, <3>2, StepNames DEF InQueue
    <3>3. CASE u # t
      BY <1>0, <1>1, <1>2, <1>3, <1>4, <1>98, <3>1, <3>3, StepNames DEF InQueue
    <3>4. QED
      BY <3>2, <3>3
  <2>2. HandsHold'
    BY <1>0, <1>1, <1>2, <1>3, <1>4, <1>98, Typed, StepNames DEF HandsHold
  <2>3. Slots'
    BY <1>0, <1>1, <1>2, <1>3, <1>4, <1>98, Typed, StepNames DEF Slots
  <2>4. Steps'
    BY <1>0, <1>1, <1>2, <1>3, <1>4, <1>98, Typed, StepNames DEF Steps
  <2>5. Spins'
    BY <1>0, <1>1, <1>2, <1>3, <1>4, <1>98, Typed, StepNames DEF Spins
  <2>6. QED
    BY <2>1, <2>2, <2>3, <2>4, <2>5 DEF Waiting
<1>8. Who'
  BY <1>0, <1>2, <1>3, <1>4, <1>98, Typed, Roles, StepNames DEF Who, WhoIs
<1>9. HolderState'
  <2>1. Holding' = Holding
    BY <1>0, <1>1, <1>2, <1>3, <1>4, <1>98, Roles DEF Holding
  <2>2. QED
    BY <1>0, <1>1, <1>3, <2>1, HolderKept DEF HolderState
<1>10. ItemState'
  <2>1. Awake' = Awake /\ Putting' = Putting
    BY <1>0, <1>1, <1>2, <1>4, <1>98, Typed, Roles, StepNames DEF Awake, Putting
  <2>2. QED
    BY <1>0, <1>1, <1>3, <2>1 DEF ItemState
<1>11. RoundState'
  <2>1. CASE room[t] = "b"
    <3>1. PICK r \in Nat : \A u \in Party :
            /\ arrived[u] = IF u \in Inside["b"] THEN r + 1 ELSE r
            /\ passed[u] = IF step[u] = "out" THEN arrived[u] ELSE arrived[u] - 1
      BY <1>0 DEF RoundState
    <3>2. passed'[t] = passed[t] + 1 /\ \A u \in Party : u # t => passed'[u] = passed[u]
      BY <1>0, <1>3, <1>4, <2>1 DEF SyncTypeOK
    <3>3. \A u \in Party : /\ arrived'[u] = IF u \in Inside'["b"] THEN r + 1 ELSE r
                           /\ passed'[u] = IF step'[u] = "out" THEN arrived'[u] ELSE arrived'[u] - 1
      BY <1>1, <1>2, <1>3, <1>98, <2>1, <3>1, <3>2, Roles
    <3>4. QED
      BY <1>0, <1>1, <1>3, <3>3 DEF RoundState
  <2>2. CASE room[t] # "b"
    BY <1>0, <1>1, <1>2, <1>3, <1>4, <2>2, RoundKept, Roles
  <2>3. QED
    BY <2>1, <2>2
<1>12. QED
  BY <1>1, <1>5, <1>7, <1>8, <1>9, <1>10, <1>11 DEF SyncIInv

(* A task notifies a waiter it took.                                       *)
LEMMA NotifySyncs ==
  ASSUME SyncIInv, NEW t \in SyncTask, Notify(t)
  PROVE  SyncIInv'
<1>0. /\ SyncTypeOK /\ Distinct /\ InQueue /\ HandsHold /\ Slots /\ Steps /\ Spins /\ Who
      /\ HolderState /\ ItemState /\ RoundState /\ Waiting
  BY DEF SyncIInv, Waiting
<1> DEFINE h == Head(inHand[t])
<1>1. /\ inHand' \in [SyncTask -> Seq(SyncTask)] /\ h \in Taken /\ Taken' = Taken \ {h}
      /\ Inside' = Inside /\ TakenLeft' = TakenLeft /\ EmptyHands \subseteq EmptyHands'
           /\ Distinct'
  BY <1>0, NotifiedOwn DEF Notify, mutexwords
<1> HIDE DEF h
<1>2. /\ h \in SyncTask /\ h \in inSlot /\ step[h] \in {"pending", "parked"}
      /\ h \notin TakenLeft /\ \A q \in Lists : h \notin Inside[q]
      /\ step[h] = "pending" => h \in AsyncParty
      /\ h \in AsyncParty => (step[h] = "parked" <=> word[h] = "PARKED")
  <2>1. h \in SyncTask /\ h \in inSlot /\ step[h] \in {"pending", "parked"}
    BY <1>0, <1>1, Typed DEF HandsHold
  <2>2. h \notin TakenLeft
    BY <1>0, <1>1 DEF Distinct
  <2>3. \A q \in Lists : h \notin Inside[q]
    BY <1>0, <1>1 DEF InQueue
  <2>4. QED
    BY <1>0, <2>1, <2>2, <2>3 DEF Who, WhoIs
<1>3. /\ inSlot' = inSlot \ {h}
      /\ used' = used /\ queue' = queue /\ spin' = spin /\ locked' = locked
           /\ count' = count
      /\ arrived' = arrived /\ passed' = passed /\ room' = room /\ left' = left
      /\ behind' = behind /\ items' = items /\ puts' = puts
  BY DEF Notify, Notified, mutexwords, barrierwords, condwords, h
<1>4. /\ step' \in [SyncTask -> StepName]
      /\ step'[h] = IF step[h] = "parked" THEN "ready" ELSE "pending"
      /\ \A u \in SyncTask : u # h => step'[u] = step[u]
      /\ word' \in [AsyncParty -> {"POLLING", "NOTIFIED", "PARKED"}]
      /\ h \in AsyncParty => word'[h] = IF step[h] = "parked" THEN "POLLING" ELSE "NOTIFIED"
      /\ \A u \in AsyncParty : u # h => word'[u] = word[u]
  <2> Notified(h)
    BY DEF Notify, h
  <2>1. CASE h \notin AsyncParty
    <3>1. step' = [step EXCEPT ![h] = "ready"] /\ word' = word /\ step[h] = "parked"
      BY <1>2, <2>1 DEF Notified
    <3>2. QED
      BY <1>0, <1>2, <2>1, <3>1, StepNames DEF SyncTypeOK
  <2>2. CASE h \in AsyncParty /\ step[h] = "parked"
    <3>1. step' = [step EXCEPT ![h] = "ready"] /\ word' = [word EXCEPT ![h] = "POLLING"]
      BY <1>0, <1>2, <2>2 DEF Notified, SyncTypeOK
    <3>2. QED
      BY <1>0, <1>2, <2>2, <3>1, StepNames DEF SyncTypeOK
  <2>3. CASE h \in AsyncParty /\ step[h] = "pending"
    <3>1. step' = step /\ word' = [word EXCEPT ![h] = "NOTIFIED"]
      BY <1>0, <1>2, <2>3 DEF Notified, SyncTypeOK
    <3>2. QED
      BY <1>0, <1>2, <2>3, <3>1, StepNames DEF SyncTypeOK
  <2>4. QED
    BY <1>2, <2>1, <2>2, <2>3
<1>5. SyncTypeOK'
  BY <1>0, <1>1, <1>3, <1>4 DEF SyncTypeOK
<1>6. Waiting'
  <2>1. InQueue'
    <3> SUFFICES ASSUME NEW q \in Lists, NEW u \in Inside'[q]
                 PROVE  /\ room'[u] = q /\ step'[u] \in Sleeping /\ u \notin Taken'
                             /\ u \notin TakenLeft'
                        /\ step'[u] = "switch" \/ u \in inSlot'
      BY DEF InQueue
    <3>1. u \in SyncTask
      BY DEF Inside
    <3>2. u # h
      BY <1>1, <1>2
    <3>3. u \in Inside[q] /\ room'[u] = room[u] /\ step'[u] = step[u] /\ (u \in inSlot
            => u \in inSlot')
      BY <1>1, <1>3, <1>4, <3>1, <3>2
    <3>4. /\ room[u] = q /\ step[u] \in Sleeping /\ u \notin Taken /\ u \notin TakenLeft
          /\ step[u] = "switch" \/ u \in inSlot
      BY <1>0, <3>3 DEF InQueue
    <3>5. u \notin Taken' /\ u \notin TakenLeft'
      BY <1>1, <3>4
    <3>6. QED
      BY <3>3, <3>4, <3>5
  <2>2. HandsHold'
    <3> SUFFICES ASSUME NEW u \in Taken' \cup TakenLeft'
                 PROVE  u \in inSlot' /\ step'[u] \in {"pending", "parked"}
      BY DEF HandsHold
    <3>1. u \in Taken \cup TakenLeft /\ u # h
      BY <1>1, <1>2
    <3>2. u \in inSlot /\ step[u] \in {"pending", "parked"} /\ u \in SyncTask
      BY <1>0, <3>1, Typed DEF HandsHold
    <3>3. u \in inSlot' /\ step'[u] = step[u]
      BY <1>3, <1>4, <3>1, <3>2
    <3>4. QED
      BY <3>2, <3>3
  <2>3. Slots'
    BY <1>0, <1>1, <1>2, <1>3, <1>4, Typed, StepNames DEF Slots
  <2>4. Steps'
    BY <1>0, <1>1, <1>2, <1>3, <1>4, Typed, StepNames DEF Steps
  <2>5. Spins'
    BY <1>0, <1>1, <1>2, <1>3, <1>4, Typed, StepNames DEF Spins
  <2>6. QED
    BY <2>1, <2>2, <2>3, <2>4, <2>5 DEF Waiting
<1>7. Who'
  <2> SUFFICES ASSUME NEW u \in SyncTask PROVE WhoIs(u)'
    BY DEF Who, WhoIs
  <2>1. CASE u = h
    BY <1>0, <1>2, <1>3, <1>4, <2>1, Typed, Roles, StepNames DEF Who, WhoIs
  <2>2. CASE u # h
    BY <1>0, <1>2, <1>3, <1>4, <2>2, Typed, Roles, StepNames DEF Who, WhoIs
  <2>3. QED
    BY <2>1, <2>2
<1>8. h \in User => step[h] = "parked" /\ h \notin Party
  BY <1>2, Roles
<1>9. HolderState'
  <2>1. Holding' = Holding
    BY <1>0, <1>1, <1>2, <1>3, <1>4, <1>8, Roles DEF Holding
  <2>2. \A u \in TakenLeft' : room'[u] = "m"
    BY <1>0, <1>1, <1>3 DEF HolderState
  <2>3. QED
    BY <1>0, <1>1, <1>3, <2>1, <2>2, HolderKept
<1>10. ItemState'
  <2>1. Awake' = Awake /\ Putting' = Putting
    BY <1>1, <1>2, <1>4, Roles, StepNames DEF Awake, Putting
  <2>2. QED
    BY <1>0, <1>1, <1>3, <2>1 DEF ItemState
<1>11. RoundState'
  <2>1. \A u \in Party : (step'[u] = "out") <=> (step[u] = "out")
    BY <1>2, <1>4, Roles
  <2>2. QED
    BY <1>0, <1>1, <1>3, <2>1, RoundKept
<1>12. QED
  BY <1>1, <1>5, <1>6, <1>7, <1>9, <1>10, <1>11 DEF SyncIInv

(* The unlock of a getter that sleeps notifies the next owner.             *)
LEMMA NotifyLeftSyncs ==
  ASSUME SyncIInv, NEW t \in SyncTask, NotifyLeft(t)
  PROVE  SyncIInv'
<1>0. /\ SyncTypeOK /\ Distinct /\ InQueue /\ HandsHold /\ Slots /\ Steps /\ Spins /\ Who
      /\ HolderState /\ ItemState /\ RoundState /\ Waiting
  BY DEF SyncIInv, Waiting
<1> DEFINE h == Head(left[t])
<1>1. /\ left' \in [SyncTask -> Seq(SyncTask)] /\ h \in TakenLeft
           /\ TakenLeft' = TakenLeft \ {h}
      /\ Inside' = Inside /\ Taken' = Taken /\ EmptyHands \subseteq EmptyHands' /\ Distinct'
  BY <1>0, NotifiedLeft DEF NotifyLeft, mutexwords
<1> HIDE DEF h
<1>2. /\ h \in SyncTask /\ h \in inSlot /\ step[h] \in {"pending", "parked"}
      /\ h \notin Taken /\ \A q \in Lists : h \notin Inside[q]
      /\ step[h] = "pending" => h \in AsyncParty
      /\ h \in AsyncParty => (step[h] = "parked" <=> word[h] = "PARKED")
  <2>1. h \in SyncTask /\ h \in inSlot /\ step[h] \in {"pending", "parked"}
    BY <1>0, <1>1, Typed DEF HandsHold
  <2>2. h \notin Taken
    BY <1>0, <1>1 DEF Distinct
  <2>3. \A q \in Lists : h \notin Inside[q]
    BY <1>0, <1>1 DEF InQueue
  <2>4. QED
    BY <1>0, <2>1, <2>2, <2>3 DEF Who, WhoIs
<1>3. /\ inSlot' = inSlot \ {h}
      /\ used' = used /\ queue' = queue /\ spin' = spin /\ locked' = locked
           /\ count' = count
      /\ arrived' = arrived /\ passed' = passed /\ room' = room /\ inHand' = inHand
      /\ behind' = behind /\ items' = items /\ puts' = puts
  BY DEF NotifyLeft, Notified, mutexwords, barrierwords, condwords, h
<1>4. /\ step' \in [SyncTask -> StepName]
      /\ step'[h] = IF step[h] = "parked" THEN "ready" ELSE "pending"
      /\ \A u \in SyncTask : u # h => step'[u] = step[u]
      /\ word' \in [AsyncParty -> {"POLLING", "NOTIFIED", "PARKED"}]
      /\ h \in AsyncParty => word'[h] = IF step[h] = "parked" THEN "POLLING" ELSE "NOTIFIED"
      /\ \A u \in AsyncParty : u # h => word'[u] = word[u]
  <2> Notified(h)
    BY DEF NotifyLeft, h
  <2>1. CASE h \notin AsyncParty
    <3>1. step' = [step EXCEPT ![h] = "ready"] /\ word' = word /\ step[h] = "parked"
      BY <1>2, <2>1 DEF Notified
    <3>2. QED
      BY <1>0, <1>2, <2>1, <3>1, StepNames DEF SyncTypeOK
  <2>2. CASE h \in AsyncParty /\ step[h] = "parked"
    <3>1. step' = [step EXCEPT ![h] = "ready"] /\ word' = [word EXCEPT ![h] = "POLLING"]
      BY <1>0, <1>2, <2>2 DEF Notified, SyncTypeOK
    <3>2. QED
      BY <1>0, <1>2, <2>2, <3>1, StepNames DEF SyncTypeOK
  <2>3. CASE h \in AsyncParty /\ step[h] = "pending"
    <3>1. step' = step /\ word' = [word EXCEPT ![h] = "NOTIFIED"]
      BY <1>0, <1>2, <2>3 DEF Notified, SyncTypeOK
    <3>2. QED
      BY <1>0, <1>2, <2>3, <3>1, StepNames DEF SyncTypeOK
  <2>4. QED
    BY <1>2, <2>1, <2>2, <2>3
<1>5. SyncTypeOK'
  BY <1>0, <1>1, <1>3, <1>4 DEF SyncTypeOK
<1>6. Waiting'
  <2>1. InQueue'
    <3> SUFFICES ASSUME NEW q \in Lists, NEW u \in Inside'[q]
                 PROVE  /\ room'[u] = q /\ step'[u] \in Sleeping /\ u \notin Taken'
                             /\ u \notin TakenLeft'
                        /\ step'[u] = "switch" \/ u \in inSlot'
      BY DEF InQueue
    <3>1. u \in SyncTask
      BY DEF Inside
    <3>2. u # h
      BY <1>1, <1>2
    <3>3. u \in Inside[q] /\ room'[u] = room[u] /\ step'[u] = step[u] /\ (u \in inSlot
            => u \in inSlot')
      BY <1>1, <1>3, <1>4, <3>1, <3>2
    <3>4. /\ room[u] = q /\ step[u] \in Sleeping /\ u \notin Taken /\ u \notin TakenLeft
          /\ step[u] = "switch" \/ u \in inSlot
      BY <1>0, <3>3 DEF InQueue
    <3>5. u \notin Taken' /\ u \notin TakenLeft'
      BY <1>1, <3>4
    <3>6. QED
      BY <3>3, <3>4, <3>5
  <2>2. HandsHold'
    <3> SUFFICES ASSUME NEW u \in Taken' \cup TakenLeft'
                 PROVE  u \in inSlot' /\ step'[u] \in {"pending", "parked"}
      BY DEF HandsHold
    <3>1. u \in Taken \cup TakenLeft /\ u # h
      BY <1>1, <1>2
    <3>2. u \in inSlot /\ step[u] \in {"pending", "parked"} /\ u \in SyncTask
      BY <1>0, <3>1, Typed DEF HandsHold
    <3>3. u \in inSlot' /\ step'[u] = step[u]
      BY <1>3, <1>4, <3>1, <3>2
    <3>4. QED
      BY <3>2, <3>3
  <2>3. Slots'
    BY <1>0, <1>1, <1>2, <1>3, <1>4, Typed, StepNames DEF Slots
  <2>4. Steps'
    BY <1>0, <1>1, <1>2, <1>3, <1>4, Typed, StepNames DEF Steps
  <2>5. Spins'
    BY <1>0, <1>1, <1>2, <1>3, <1>4, Typed, StepNames DEF Spins
  <2>6. QED
    BY <2>1, <2>2, <2>3, <2>4, <2>5 DEF Waiting
<1>7. Who'
  <2> SUFFICES ASSUME NEW u \in SyncTask PROVE WhoIs(u)'
    BY DEF Who, WhoIs
  <2>1. CASE u = h
    BY <1>0, <1>2, <1>3, <1>4, <2>1, Typed, Roles, StepNames DEF Who, WhoIs
  <2>2. CASE u # h
    BY <1>0, <1>2, <1>3, <1>4, <2>2, Typed, Roles, StepNames DEF Who, WhoIs
  <2>3. QED
    BY <2>1, <2>2
<1>8. h \in User => step[h] = "parked" /\ h \notin Party
  BY <1>2, Roles
<1>9. HolderState'
  <2>1. Holding' = Holding
    BY <1>0, <1>1, <1>2, <1>3, <1>4, <1>8, Roles DEF Holding
  <2>2. \A u \in TakenLeft' : room'[u] = "m"
    BY <1>0, <1>1, <1>3 DEF HolderState
  <2>3. QED
    BY <1>0, <1>1, <1>3, <2>1, <2>2, HolderKept
<1>10. ItemState'
  <2>1. Awake' = Awake /\ Putting' = Putting
    BY <1>1, <1>2, <1>4, Roles, StepNames DEF Awake, Putting
  <2>2. QED
    BY <1>0, <1>1, <1>3, <2>1 DEF ItemState
<1>11. RoundState'
  <2>1. \A u \in Party : (step'[u] = "out") <=> (step[u] = "out")
    BY <1>2, <1>4, Roles
  <2>2. QED
    BY <1>0, <1>1, <1>3, <2>1, RoundKept
<1>12. QED
  BY <1>1, <1>5, <1>6, <1>7, <1>9, <1>10, <1>11 DEF SyncIInv

(* Mutex::lock, the first time or after a wait on the condition variable.  *)
LEMMA LockMutexSyncs ==
  ASSUME SyncIInv, NEW t \in SyncTask, t \in User, NEW from \in {"out", "relock"},
           LockMutex(t, from)
  PROVE  SyncIInv'
<1>0. /\ SyncTypeOK /\ Distinct /\ InQueue /\ HandsHold /\ Slots /\ Steps /\ Spins /\ Who
      /\ HolderState /\ ItemState /\ RoundState /\ Waiting
  BY DEF SyncIInv, Waiting
<1>1. spin["m"] = Free /\ t \in EmptyHands /\ step[t] = from
  BY <1>0, Typed DEF LockMutex, Enqueue, GoOn
<1>2. /\ t \notin inSlot /\ t \notin Taken /\ t \notin TakenLeft /\ t \notin Holding
      /\ \A q \in Lists : t \notin Inside[q]
  <2>1. t \notin inSlot /\ t \notin Taken /\ t \notin TakenLeft
    BY <1>0, <1>1 DEF Slots, HandsHold
  <2>2. \A q \in Lists : t \notin Inside[q]
    BY <1>0, <1>1, StepNames DEF InQueue
  <2>3. t \notin Holding
    BY <1>1, <2>1 DEF Holding
  <2>4. QED
    BY <2>1, <2>2, <2>3
<1>3. /\ used' = used /\ count' = count /\ arrived' = arrived /\ passed' = passed
      /\ inSlot' = inSlot /\ word' = word /\ behind' = behind /\ inHand' = inHand
           /\ left' = left
      /\ items' = items /\ puts' = puts
  BY DEF LockMutex, barrierwords
<1>98. t \notin Party
  BY Roles
<1>4. CASE locked
  <2>1. Enqueue(t, "m", from) /\ locked' = locked
    BY <1>4 DEF LockMutex
  <2>2. /\ step' \in [SyncTask -> StepName] /\ step'[t] = "switch"
        /\ \A u \in SyncTask : u # t => step'[u] = step[u]
        /\ room' \in [SyncTask -> Lists] /\ room'[t] = "m"
        /\ \A u \in SyncTask : u # t => room'[u] = room[u]
        /\ spin' \in [Lists -> SyncTask \cup {Free}] /\ queue' \in [Lists -> Seq(SyncTask)]
        /\ queue'["b"] = queue["b"] /\ Inside'["b"] = Inside["b"]
             /\ Inside'["c"] = Inside["c"]
        /\ Taken' = Taken /\ TakenLeft' = TakenLeft /\ EmptyHands' = EmptyHands
        /\ Distinct' /\ Waiting'
    BY <1>0, <1>1, <1>3, <2>1, Typed, Enqueues
  <2>3. SyncTypeOK'
    BY <1>0, <1>3, <2>1, <2>2 DEF SyncTypeOK
  <2>8. Who'
    <3> SUFFICES ASSUME NEW u \in SyncTask PROVE WhoIs(u)'
      BY DEF Who, WhoIs
    <3>1. CASE u = t
      BY <1>3, <1>98, <2>2, <3>1, Roles, StepNames DEF WhoIs
    <3>2. CASE u # t
      BY <1>0, <1>3, <2>2, <3>2 DEF Who, WhoIs
    <3>3. QED
      BY <3>1, <3>2
  <2>9. HolderState'
    <3>1. Holding' = Holding
      BY <1>1, <1>2, <2>2, Roles DEF Holding
    <3>2. \A u \in TakenLeft' : room'[u] = "m"
      BY <1>0, <1>2, <2>2, SetsTyped DEF HolderState
    <3>3. QED
      BY <1>0, <1>3, <1>4, <2>1, <3>1, <3>2 DEF HolderState
  <2>10. ItemState'
    <3>1. Awake \subseteq Awake' /\ Putting \subseteq Putting'
      BY <1>1, <2>2, Roles DEF Awake, Putting
    <3>2. QED
      BY <1>0, <1>3, <2>2, <3>1, ItemsKept DEF SyncTypeOK
  <2>11. RoundState'
    <3>1. \A u \in Party : step'[u] = step[u]
      BY <1>98, <2>2, Roles
    <3>2. QED
      BY <1>0, <1>3, <2>2, <3>1, RoundKept
  <2>12. QED
    BY <2>2, <2>3, <2>8, <2>9, <2>10, <2>11 DEF SyncIInv
<1>5. CASE ~ locked
  <2>1. /\ GoOn(t, from, "in") /\ locked' = TRUE /\ queue' = queue /\ spin' = spin
             /\ room' = room
    BY <1>5 DEF LockMutex
  <2>2. Distinct' /\ Inside' = Inside /\ Taken' = Taken /\ TakenLeft' = TakenLeft
          /\ EmptyHands' = EmptyHands
    BY <1>0, <1>3, <2>1, SameLists
  <2>3. /\ step' \in [SyncTask -> StepName] /\ step'[t] = "in"
        /\ \A u \in SyncTask : u # t => step'[u] = step[u]
    BY <1>0, <2>1, Moves, StepNames
  <2>6. SyncTypeOK'
    BY <1>0, <1>3, <2>1, <2>3 DEF SyncTypeOK
  <2>7. Waiting'
    <3>1. InQueue'
      <4> SUFFICES ASSUME NEW q \in Lists, NEW u \in Inside'[q]
                   PROVE  /\ room'[u] = q /\ step'[u] \in Sleeping /\ u \notin Taken'
                               /\ u \notin TakenLeft'
                          /\ step'[u] = "switch" \/ u \in inSlot'
        BY DEF InQueue
      <4>1. u \in SyncTask
        BY DEF Inside
      <4>2. CASE u = t
        BY <1>0, <1>1, <1>2, <1>3, <2>1, <2>2, <2>3, <4>1, <4>2, Typed,
           StepNames
        DEF InQueue
      <4>3. CASE u # t
        BY <1>0, <1>1, <1>2, <1>3, <2>1, <2>2, <2>3, <4>1, <4>3, Typed,
           StepNames
        DEF InQueue
      <4>4. QED
        BY <4>2, <4>3
    <3>2. HandsHold'
      BY <1>0, <1>1, <1>2, <1>3, <2>1, <2>2, <2>3, Typed, SetsTyped, Roles,
         StepNames
      DEF HandsHold
    <3>3. Slots'
      BY <1>0, <1>1, <1>2, <1>3, <2>1, <2>2, <2>3, Typed, SetsTyped, Roles,
         StepNames
      DEF Slots
    <3>4. Steps'
      BY <1>0, <1>1, <1>2, <1>3, <2>1, <2>2, <2>3, Typed, SetsTyped, Roles,
         StepNames
      DEF Steps
    <3>5. Spins'
      BY <1>0, <1>1, <1>2, <1>3, <2>1, <2>2, <2>3, Typed, SetsTyped, Roles,
         StepNames
      DEF Spins
    <3>6. QED
      BY <3>1, <3>2, <3>3, <3>4, <3>5 DEF Waiting
  <2>8. Who'
    BY <1>0, <1>1, <1>3, <1>98, <2>1, <2>3, Typed, Roles, StepNames DEF Who, WhoIs
  <2>9. HolderState'
    <3>1. Holding = {} /\ behind = {}
      BY <1>0, <1>5 DEF HolderState
    <3>2. \A u \in Holding' : u = t
      BY <1>3, <2>1, <2>2, <2>3, <3>1, Roles DEF Holding
    <3>3. t \in Holding'
      BY <2>3 DEF Holding
    <3>4. QED
      BY <1>0, <1>3, <2>1, <2>2, <3>1, <3>2, <3>3 DEF HolderState
  <2>10. ItemState'
    <3>1. Awake \subseteq Awake' /\ Putting \subseteq Putting'
      BY <1>1, <2>2, <2>3, Roles DEF Awake, Putting
    <3>2. QED
      BY <1>0, <1>3, <2>2, <3>1, ItemsKept DEF SyncTypeOK
  <2>11. RoundState'
    <3>2. \A u \in Party : step'[u] = step[u]
      BY <1>98, <2>3, Roles
    <3>3. QED
      BY <1>0, <1>3, <2>1, <2>2, <3>2, RoundKept
  <2>12. QED
    BY <2>2, <2>6, <2>7, <2>8, <2>9, <2>10, <2>11 DEF SyncIInv
<1>6. QED
  BY <1>4, <1>5

(* A getter takes an item and unlocks.                                     *)
LEMMA GetItemSyncs ==
  ASSUME SyncIInv, NEW t \in SyncTask, GetItem(t)
  PROVE  SyncIInv'
<1>0. /\ SyncTypeOK /\ Distinct /\ InQueue /\ HandsHold /\ Slots /\ Steps /\ Spins /\ Who
      /\ HolderState /\ ItemState /\ RoundState /\ Waiting
  BY DEF SyncIInv, Waiting
<1>1. /\ spin["m"] = Free /\ t \in Getter /\ t \in User /\ t \notin Party /\ step[t] = "in"
      /\ t \in EmptyHands /\ t \in Holding
  <2>1. spin["m"] = Free /\ t \in Getter /\ t \in User /\ t \notin Party /\ step[t] = "in"
    BY Roles DEF GetItem, PassMutex, GoOn
  <2>2. QED
    BY <1>0, <2>1 DEF Steps, Holding
<1>2. /\ step' \in [SyncTask -> StepName] /\ step'[t] = "out"
      /\ \A u \in SyncTask : u # t => step'[u] = step[u]
  BY <1>0, Moves, StepNames DEF GetItem
<1>3. /\ used' = used /\ spin' = spin /\ count' = count /\ arrived' = arrived
           /\ passed' = passed
      /\ room' = room /\ behind' = behind /\ inSlot' = inSlot /\ word' = word
           /\ left' = left
      /\ locked' = (queue["m"] # <<>>)
      /\ queue' = [queue EXCEPT !["m"] = RestOf("m")]
      /\ inHand' = [inHand EXCEPT ![t] = FirstOf("m")]
  BY DEF GetItem, PassMutex, barrierwords, condwords
<1> DEFINE N == Given(FirstOf("m"))
<1>4. Portion("m", FirstOf("m"), RestOf("m"))
  BY <1>0, GivenOne, Typed
<1>5. /\ queue' \in [Lists -> Seq(SyncTask)] /\ inHand' \in [SyncTask -> Seq(SyncTask)]
      /\ queue'["b"] = queue["b"] /\ Inside'["b"] = Inside["b"]
           /\ Inside'["c"] = Inside["c"]
      /\ Inside'["m"] \subseteq Inside["m"] /\ N \subseteq Inside["m"]
      /\ Taken' = Taken \cup N /\ TakenLeft' = TakenLeft /\ t \notin Taken
           /\ t \notin TakenLeft
      /\ t \notin Inside["m"] /\ t \notin Inside["c"]
      /\ \A x \in N : x \in SyncTask /\ room[x] = "m" /\ step[x] \in {"pending", "parked"}
      /\ Distinct' /\ Waiting'
  <2>1. step[t] \notin Sleeping /\ step'[t] \in {"out", "put"} /\ "m" \in Lists
    BY <1>1, <1>2, StepNames, Typed, <1>0
  <2>2. Took(t, "m", FirstOf("m"), RestOf("m"))
    BY <1>0, <1>1, <1>2, <1>3, <1>4, <2>1, Takes
  <2>3. QED
    BY <1>0, <2>2, Typed DEF Took
<1>6. /\ \A x, y \in N : x = y
      /\ locked' <=> N # {}
      /\ Inside["m"] # {} => locked'
  BY <1>0, <1>3, GivenOne, SetsTyped, Typed
<1> HIDE DEF N
<1>7. SyncTypeOK'
  <2>1. items' \in Nat /\ puts' = puts
    BY <1>0 DEF GetItem, SyncTypeOK
  <2>2. QED
    BY <1>0, <1>2, <1>3, <1>5, <2>1 DEF SyncTypeOK
<1>8. Who'
  <2> SUFFICES ASSUME NEW u \in SyncTask PROVE WhoIs(u)'
    BY DEF Who, WhoIs
  <2>1. CASE u = t
    BY <1>1, <1>2, <2>1, Roles, StepNames DEF WhoIs
  <2>2. CASE u # t
    BY <1>0, <1>2, <1>3, <2>2 DEF Who, WhoIs
  <2>3. QED
    BY <2>1, <2>2
<1>9. HolderState'
  <2>1. behind = {} /\ \A x \in Holding : x = t
    BY <1>0, <1>1 DEF HolderState
  <2>2. \A x \in N : x \in User
    BY <1>0, <1>5, StepNames DEF Who, WhoIs
  <2>3. Holding' = (Holding \ {t}) \cup N
    BY <1>1, <1>2, <1>3, <1>5, <2>2, Roles, StepNames DEF Holding
  <2>4. Holding' = N
    BY <1>1, <1>5, <2>1, <2>3
  <2>5. \A x \in TakenLeft' : room'[x] = "m"
    BY <1>0, <1>3, <1>5 DEF HolderState
  <2>6. Inside'["m"] # {} => locked'
    BY <1>5, <1>6
  <2>7. QED
    BY <1>3, <1>6, <2>1, <2>4, <2>5, <2>6 DEF HolderState
<1>10. ItemState'
  <2>1. t \in Awake /\ Awake' = Awake \ {t} /\ Putting' = Putting /\ t \in Getter
    BY <1>1, <1>2, <1>5, Roles DEF Awake, Putting
  <2>2. /\ IsFiniteSet(Awake) /\ Cardinality(Awake) \in Nat /\ Cardinality(Awake') \in Nat
        /\ Cardinality(Putting) \in Nat
    BY UsersFinite DEF Awake, Putting
  <2>3. Cardinality(Awake') = Cardinality(Awake) - 1
    BY <2>1, <2>2, FS_RemoveElement
  <2>4. items' = items - 1 /\ items \in Nat
    BY <1>0 DEF GetItem, SyncTypeOK
  <2>5. QED
    BY <1>0, <1>5, <2>1, <2>2, <2>3, <2>4 DEF ItemState
<1>11. RoundState'
  <2>1. \A u \in Party : step'[u] = step[u]
    BY <1>1, <1>2, Roles
  <2>2. QED
    BY <1>0, <1>3, <1>5, <2>1, RoundKept
<1>12. QED
  BY <1>5, <1>7, <1>8, <1>9, <1>10, <1>11 DEF SyncIInv

(* A putter adds an item and unlocks.                                      *)
LEMMA PutItemSyncs ==
  ASSUME SyncIInv, NEW t \in SyncTask, PutItem(t)
  PROVE  SyncIInv'
<1>0. /\ SyncTypeOK /\ Distinct /\ InQueue /\ HandsHold /\ Slots /\ Steps /\ Spins /\ Who
      /\ HolderState /\ ItemState /\ RoundState /\ Waiting
  BY DEF SyncIInv, Waiting
<1>1. /\ spin["m"] = Free /\ t \in Putter /\ t \in User /\ t \notin Party /\ step[t] = "in"
      /\ t \in EmptyHands /\ t \in Holding
  <2>1. spin["m"] = Free /\ t \in Putter /\ t \in User /\ t \notin Party /\ step[t] = "in"
    BY Roles DEF PutItem, PassMutex, GoOn
  <2>2. QED
    BY <1>0, <2>1 DEF Steps, Holding
<1>2. /\ step' \in [SyncTask -> StepName] /\ step'[t] = "put"
      /\ \A u \in SyncTask : u # t => step'[u] = step[u]
  BY <1>0, Moves, StepNames DEF PutItem
<1>3. /\ used' = used /\ spin' = spin /\ count' = count /\ arrived' = arrived
           /\ passed' = passed
      /\ room' = room /\ behind' = behind /\ inSlot' = inSlot /\ word' = word
           /\ left' = left
      /\ locked' = (queue["m"] # <<>>)
      /\ queue' = [queue EXCEPT !["m"] = RestOf("m")]
      /\ inHand' = [inHand EXCEPT ![t] = FirstOf("m")]
  BY DEF PutItem, PassMutex, barrierwords, condwords
<1> DEFINE N == Given(FirstOf("m"))
<1>4. Portion("m", FirstOf("m"), RestOf("m"))
  BY <1>0, GivenOne, Typed
<1>5. /\ queue' \in [Lists -> Seq(SyncTask)] /\ inHand' \in [SyncTask -> Seq(SyncTask)]
      /\ queue'["b"] = queue["b"] /\ Inside'["b"] = Inside["b"]
           /\ Inside'["c"] = Inside["c"]
      /\ Inside'["m"] \subseteq Inside["m"] /\ N \subseteq Inside["m"]
      /\ Taken' = Taken \cup N /\ TakenLeft' = TakenLeft /\ t \notin Taken
           /\ t \notin TakenLeft
      /\ t \notin Inside["m"] /\ t \notin Inside["c"]
      /\ \A x \in N : x \in SyncTask /\ room[x] = "m" /\ step[x] \in {"pending", "parked"}
      /\ Distinct' /\ Waiting'
  <2>1. step[t] \notin Sleeping /\ step'[t] \in {"out", "put"} /\ "m" \in Lists
    BY <1>1, <1>2, StepNames, Typed, <1>0
  <2>2. Took(t, "m", FirstOf("m"), RestOf("m"))
    BY <1>0, <1>1, <1>2, <1>3, <1>4, <2>1, Takes
  <2>3. QED
    BY <1>0, <2>2, Typed DEF Took
<1>6. /\ \A x, y \in N : x = y
      /\ locked' <=> N # {}
      /\ Inside["m"] # {} => locked'
  BY <1>0, <1>3, GivenOne, SetsTyped, Typed
<1> HIDE DEF N
<1>7. SyncTypeOK'
  <2>1. items' \in Nat /\ puts' \in [Putter -> Nat]
    BY <1>0, <1>1 DEF PutItem, SyncTypeOK
  <2>2. QED
    BY <1>0, <1>2, <1>3, <1>5, <2>1 DEF SyncTypeOK
<1>8. Who'
  <2> SUFFICES ASSUME NEW u \in SyncTask PROVE WhoIs(u)'
    BY DEF Who, WhoIs
  <2>1. CASE u = t
    BY <1>1, <1>2, <2>1, Roles, StepNames DEF WhoIs
  <2>2. CASE u # t
    BY <1>0, <1>2, <1>3, <2>2 DEF Who, WhoIs
  <2>3. QED
    BY <2>1, <2>2
<1>9. HolderState'
  <2>1. behind = {} /\ \A x \in Holding : x = t
    BY <1>0, <1>1 DEF HolderState
  <2>2. \A x \in N : x \in User
    BY <1>0, <1>5, StepNames DEF Who, WhoIs
  <2>3. Holding' = (Holding \ {t}) \cup N
    BY <1>1, <1>2, <1>3, <1>5, <2>2, Roles, StepNames DEF Holding
  <2>4. Holding' = N
    BY <1>1, <1>5, <2>1, <2>3
  <2>5. \A x \in TakenLeft' : room'[x] = "m"
    BY <1>0, <1>3, <1>5 DEF HolderState
  <2>6. Inside'["m"] # {} => locked'
    BY <1>5, <1>6
  <2>7. QED
    BY <1>3, <1>6, <2>1, <2>4, <2>5, <2>6 DEF HolderState
<1>10. ItemState'
  <2>1. t \notin Putting /\ Awake' = Awake /\ Putting' = Putting \cup {t}
    BY <1>1, <1>2, <1>5, Roles DEF Awake, Putting
  <2>2. /\ IsFiniteSet(Putting) /\ Cardinality(Awake) \in Nat
        /\ Cardinality(Putting) \in Nat /\ Cardinality(Putting') \in Nat
    BY UsersFinite DEF Awake, Putting
  <2>3. Cardinality(Putting') = Cardinality(Putting) + 1
    BY <2>1, <2>2, FS_AddElement
  <2>4. items' = items + 1 /\ items \in Nat
    BY <1>0 DEF PutItem, SyncTypeOK
  <2>5. QED
    BY <1>0, <1>5, <2>1, <2>2, <2>3, <2>4 DEF ItemState
<1>11. RoundState'
  <2>1. \A u \in Party : step'[u] = step[u]
    BY <1>1, <1>2, Roles
  <2>2. QED
    BY <1>0, <1>3, <1>5, <2>1, RoundKept
<1>12. QED
  BY <1>5, <1>7, <1>8, <1>9, <1>10, <1>11 DEF SyncIInv

(* Condvar::wait: a getter that finds no item lines up; the mutex is left  *)
(* to an unlock behind it.                                                 *)
LEMMA WaitItemSyncs ==
  ASSUME SyncIInv, NEW t \in SyncTask, WaitItem(t)
  PROVE  SyncIInv'
<1>0. /\ SyncTypeOK /\ Distinct /\ InQueue /\ HandsHold /\ Slots /\ Steps /\ Spins /\ Who
      /\ HolderState /\ ItemState /\ RoundState /\ Waiting
  BY DEF SyncIInv, Waiting
<1>1. /\ t \in Getter /\ t \in User /\ t \notin Party /\ items = 0 /\ spin["c"] = Free
      /\ step[t] = "in" /\ t \in EmptyHands /\ t \in Holding
  <2>1. t \in Getter /\ t \in User /\ t \notin Party /\ items = 0 /\ spin["c"] = Free
          /\ step[t] = "in"
    BY Roles DEF WaitItem, Enqueue, GoOn
  <2>2. QED
    BY <1>0, <2>1 DEF Steps, Holding
<1>2. /\ Enqueue(t, "c", "in")
      /\ used' = used /\ locked' = locked /\ count' = count /\ arrived' = arrived
           /\ passed' = passed
      /\ inSlot' = inSlot /\ word' = word /\ behind' = behind /\ inHand' = inHand
           /\ left' = left
      /\ items' = items /\ puts' = puts
  BY DEF WaitItem, barrierwords
<1>3. /\ step' \in [SyncTask -> StepName] /\ step'[t] = "switch"
      /\ \A u \in SyncTask : u # t => step'[u] = step[u]
      /\ room' \in [SyncTask -> Lists] /\ room'[t] = "c"
      /\ \A u \in SyncTask : u # t => room'[u] = room[u]
      /\ spin' \in [Lists -> SyncTask \cup {Free}] /\ queue' \in [Lists -> Seq(SyncTask)]
      /\ queue'["b"] = queue["b"] /\ Inside'["b"] = Inside["b"]
           /\ Inside'["m"] = Inside["m"]
      /\ Taken' = Taken /\ TakenLeft' = TakenLeft /\ EmptyHands' = EmptyHands
      /\ t \notin Taken /\ t \notin TakenLeft
      /\ Distinct' /\ Waiting'
  BY <1>0, <1>1, <1>2, Typed, Enqueues
<1>4. SyncTypeOK'
  BY <1>0, <1>2, <1>3 DEF SyncTypeOK
<1>5. Who'
  <2> SUFFICES ASSUME NEW u \in SyncTask PROVE WhoIs(u)'
    BY DEF Who, WhoIs
  <2>1. CASE u = t
    BY <1>1, <1>3, <2>1, Roles, StepNames DEF WhoIs
  <2>2. CASE u # t
    BY <1>0, <1>2, <1>3, <2>2 DEF Who, WhoIs
  <2>3. QED
    BY <2>1, <2>2
<1>6. HolderState'
  <2>1. Holding' = Holding
    BY <1>1, <1>3, Roles DEF Holding
  <2>2. \A u \in TakenLeft' : room'[u] = "m"
    BY <1>0, <1>3, SetsTyped DEF HolderState
  <2>3. QED
    BY <1>0, <1>2, <1>3, <2>1, <2>2, HolderKept
<1>7. ItemState'
  <2>1. Cardinality(Awake') \in Nat /\ Cardinality(Putting') \in Nat
    BY UsersFinite DEF Awake, Putting
  <2>2. QED
    BY <1>1, <1>2, <2>1 DEF ItemState
<1>8. RoundState'
  <2>1. \A u \in Party : step'[u] = step[u]
    BY <1>1, <1>3, Roles
  <2>2. QED
    BY <1>0, <1>2, <1>3, <2>1, RoundKept
<1>9. QED
  BY <1>3, <1>4, <1>5, <1>6, <1>7, <1>8 DEF SyncIInv

(* ... which passes the mutex on.                                          *)
LEMMA UnlockBehindSyncs ==
  ASSUME SyncIInv, NEW t \in SyncTask, UnlockBehind(t)
  PROVE  SyncIInv'
<1>0. /\ SyncTypeOK /\ Distinct /\ InQueue /\ HandsHold /\ Slots /\ Steps /\ Spins /\ Who
      /\ HolderState /\ ItemState /\ RoundState /\ Waiting
  BY DEF SyncIInv, Waiting
<1>1. t \in behind /\ spin["m"] = Free /\ t \in Getter
  BY <1>0, Typed DEF UnlockBehind, PassMutex
<1>2. /\ locked' = (queue["m"] # <<>>) /\ behind' = behind \ {t}
      /\ queue' = [queue EXCEPT !["m"] = RestOf("m")]
      /\ left' = [left EXCEPT ![t] = FirstOf("m")]
      /\ used' = used /\ spin' = spin /\ count' = count /\ arrived' = arrived
           /\ passed' = passed
      /\ step' = step /\ room' = room /\ inSlot' = inSlot /\ word' = word
           /\ inHand' = inHand
      /\ items' = items /\ puts' = puts
  BY DEF UnlockBehind, PassMutex, barrierwords
<1>3. Holding = {} /\ behind = {t}
  BY <1>0, <1>1 DEF HolderState
<1>4. TakenLeft = {}
  <2> SUFFICES ASSUME NEW x \in TakenLeft PROVE FALSE
    OBVIOUS
  <2>1. x \in SyncTask /\ room[x] = "m" /\ step[x] \in Sleeping
    BY <1>0, SetsTyped, StepNames DEF HolderState, HandsHold
  <2>2. x \in User
    BY <1>0, <2>1 DEF Who, WhoIs
  <2>3. QED
    BY <1>3, <2>1, <2>2 DEF Holding
<1>5. left[t] = <<>>
  BY <1>0, <1>1, <1>4, SetsTyped
<1> DEFINE N == Given(FirstOf("m"))
<1>6. /\ queue' \in [Lists -> Seq(SyncTask)] /\ left' \in [SyncTask -> Seq(SyncTask)]
      /\ queue'["b"] = queue["b"] /\ Inside'["b"] = Inside["b"]
           /\ Inside'["c"] = Inside["c"]
      /\ Inside'["m"] \subseteq Inside["m"]
      /\ TakenLeft' = N /\ Taken' = Taken
      /\ \A x \in N : x \in SyncTask /\ room[x] = "m" /\ step[x] \in {"pending", "parked"}
      /\ Distinct' /\ Waiting'
  <2>1. Portion("m", FirstOf("m"), RestOf("m")) /\ "m" \in Lists
    BY <1>0, GivenOne, Typed
  <2>2. TookLeft("m", FirstOf("m"), RestOf("m"))
    BY <1>0, <1>1, <1>2, <1>5, <2>1, TakesLeft
  <2>3. QED
    BY <1>0, <1>4, <2>2, Typed DEF TookLeft
<1>7. /\ \A x, y \in N : x = y
      /\ locked' <=> N # {}
      /\ Inside["m"] # {} => locked'
  BY <1>0, <1>2, GivenOne, SetsTyped, Typed
<1> HIDE DEF N
<1>8. SyncTypeOK'
  BY <1>0, <1>2, <1>6 DEF SyncTypeOK
<1>9. Who'
  BY <1>0, <1>2 DEF Who, WhoIs
<1>10. HolderState'
  <2>1. \A x \in N : x \in User
    BY <1>0, <1>6, StepNames DEF Who, WhoIs
  <2>2. Holding' = Holding \cup N
    BY <1>2, <1>4, <1>6, <2>1 DEF Holding
  <2>3. behind' = {} /\ Holding' = N
    BY <1>2, <1>3, <2>2
  <2>4. \A x \in TakenLeft' : room'[x] = "m"
    BY <1>2, <1>6
  <2>5. Inside'["m"] # {} => locked'
    BY <1>6, <1>7
  <2>6. QED
    BY <1>7, <2>3, <2>4, <2>5 DEF HolderState
<1>11. ItemState'
  <2>1. Awake' = Awake /\ Putting' = Putting
    BY <1>2, <1>6 DEF Awake, Putting
  <2>2. QED
    BY <1>0, <1>2, <1>6, <2>1 DEF ItemState
<1>12. RoundState'
  BY <1>0, <1>2, <1>6, RoundKept
<1>13. QED
  BY <1>6, <1>8, <1>9, <1>10, <1>11, <1>12 DEF SyncIInv

(* notify_one or notify_all.                                               *)
LEMMA NotifyGettersSyncs ==
  ASSUME SyncIInv, NEW t \in SyncTask, NotifyGetters(t)
  PROVE  SyncIInv'
<1>0. /\ SyncTypeOK /\ Distinct /\ InQueue /\ HandsHold /\ Slots /\ Steps /\ Spins /\ Who
      /\ HolderState /\ ItemState /\ RoundState /\ Waiting
  BY DEF SyncIInv, Waiting
<1>1. /\ t \in Putter /\ t \in User /\ t \notin Party /\ t \notin Getter
      /\ t \in EmptyHands /\ spin["c"] = Free /\ step[t] = "put"
  BY Roles DEF NotifyGetters, GoOn, EmptyHands
<1>2. /\ step' \in [SyncTask -> StepName] /\ step'[t] = "out"
      /\ \A u \in SyncTask : u # t => step'[u] = step[u]
  BY <1>0, Moves, StepNames DEF NotifyGetters
<1>3. /\ used' = used /\ spin' = spin /\ locked' = locked /\ count' = count
           /\ arrived' = arrived
      /\ passed' = passed /\ room' = room /\ behind' = behind /\ inSlot' = inSlot
           /\ word' = word
      /\ left' = left /\ items' = items /\ puts' = puts
  BY DEF NotifyGetters, barrierwords, condwords
<1>4. PICK a, b : /\ queue' = [queue EXCEPT !["c"] = b]
        /\ inHand' = [inHand EXCEPT ![t] = a]
                  /\ Portion("c", a, b) /\ (Inside["c"] # {} => Given(a) # {})
  <2>1. PICK all \in BOOLEAN :
          /\ inHand' = [inHand EXCEPT ![t] = IF all THEN queue["c"] ELSE FirstOf("c")]
          /\ queue' = [queue EXCEPT !["c"] = IF all THEN <<>> ELSE RestOf("c")]
    BY DEF NotifyGetters
  <2>2. CASE all
    <3>1. inHand' = [inHand EXCEPT ![t] = queue["c"]]
            /\ queue' = [queue EXCEPT !["c"] = <<>>]
      BY <2>1, <2>2
    <3>2. QED
      BY <1>0, <3>1, GivenOne, Typed
  <2>3. CASE ~ all
    <3>1. inHand' = [inHand EXCEPT ![t] = FirstOf("c")]
            /\ queue' = [queue EXCEPT !["c"] = RestOf("c")]
      BY <2>1, <2>3
    <3>2. QED
      BY <1>0, <3>1, GivenOne, SetsTyped, Typed
  <2>4. QED
    BY <2>2, <2>3
<1>5. /\ queue' \in [Lists -> Seq(SyncTask)] /\ inHand' \in [SyncTask -> Seq(SyncTask)]
      /\ queue'["b"] = queue["b"] /\ Inside'["b"] = Inside["b"]
           /\ Inside'["m"] = Inside["m"]
      /\ Inside'["c"] = Inside["c"] \ Given(a) /\ Given(a) \subseteq Inside["c"]
      /\ Taken' = Taken \cup Given(a) /\ TakenLeft' = TakenLeft
      /\ t \notin Taken /\ t \notin TakenLeft
      /\ \A x \in Given(a) : x \in SyncTask /\ room[x] = "c"
           /\ step[x] \in {"pending", "parked"}
      /\ Distinct' /\ Waiting'
  <2>1. step[t] \notin Sleeping /\ "c" \in Lists
    BY <1>0, <1>1, StepNames, Typed
  <2>2. Took(t, "c", a, b)
    BY <1>0, <1>1, <1>2, <1>3, <1>4, <2>1, Takes
  <2>3. QED
    BY <1>0, <2>2, Typed DEF Took
<1>6. SyncTypeOK'
  BY <1>0, <1>2, <1>3, <1>5 DEF SyncTypeOK
<1>7. Who'
  <2> SUFFICES ASSUME NEW u \in SyncTask PROVE WhoIs(u)'
    BY DEF Who, WhoIs
  <2>1. CASE u = t
    BY <1>1, <1>2, <2>1, Roles, StepNames DEF WhoIs
  <2>2. CASE u # t
    BY <1>0, <1>2, <1>3, <2>2 DEF Who, WhoIs
  <2>3. QED
    BY <2>1, <2>2
<1>8. HolderState'
  <2>1. Holding' = Holding
    BY <1>1, <1>2, <1>3, <1>5, Roles DEF Holding
  <2>2. \A u \in TakenLeft' : room'[u] = "m"
    BY <1>0, <1>3, <1>5 DEF HolderState
  <2>3. QED
    BY <1>0, <1>3, <1>5, <2>1, <2>2, HolderKept
<1>9. ItemState'
  <2>1. \A x \in Given(a) : x \in Getter /\ x # t /\ step'[x] # "out"
    BY <1>0, <1>1, <1>2, <1>5, StepNames DEF Who, WhoIs
  <2>2. t \in Putting /\ Putting' = Putting \ {t}
    BY <1>1, <1>2, Roles DEF Putting
  <2>3. Awake' = Awake \cup Given(a)
    BY <1>1, <1>2, <1>5, <2>1, Roles DEF Awake
  <2>4. /\ IsFiniteSet(Awake) /\ IsFiniteSet(Awake') /\ IsFiniteSet(Putting)
        /\ Cardinality(Awake) \in Nat /\ Cardinality(Awake') \in Nat
             /\ Cardinality(Putting) \in Nat
    BY UsersFinite DEF Awake, Putting
  <2>5. Cardinality(Putting') = Cardinality(Putting) - 1
    BY <2>2, <2>4, FS_RemoveElement
  <2>6. ASSUME Inside'["c"] # {} PROVE items <= Cardinality(Awake') + Cardinality(Putting')
    <3>1. PICK x : x \in Given(a) /\ x \in Inside["c"]
      BY <1>4, <1>5, <2>6
    <3>2. x \notin Awake /\ Awake \cup {x} \subseteq Awake'
      BY <2>3, <3>1 DEF Awake
    <3>3. /\ IsFiniteSet(Awake \cup {x})
               /\ Cardinality(Awake \cup {x}) = Cardinality(Awake) + 1
      BY <2>4, <3>2, FS_AddElement
    <3>4. Cardinality(Awake \cup {x}) <= Cardinality(Awake')
      BY <2>4, <3>2, FS_Subset
    <3>5. items <= Cardinality(Awake) + Cardinality(Putting) /\ items \in Nat
      BY <1>0, <3>1 DEF ItemState, SyncTypeOK
    <3>6. QED
      BY <2>4, <2>5, <3>3, <3>4, <3>5
  <2>7. QED
    BY <1>3, <2>6 DEF ItemState
<1>10. RoundState'
  <2>1. \A u \in Party : step'[u] = step[u]
    BY <1>1, <1>2, Roles
  <2>2. QED
    BY <1>0, <1>3, <1>5, <2>1, RoundKept
<1>11. QED
  BY <1>5, <1>6, <1>7, <1>8, <1>9, <1>10 DEF SyncIInv

(* The last party takes all waiters with it.                               *)
LEMMA ArriveLastSyncs ==
  ASSUME SyncIInv, NEW t \in SyncTask, t \in Party, ArriveLast(t)
  PROVE  SyncIInv'
<1>0. /\ SyncTypeOK /\ Distinct /\ InQueue /\ HandsHold /\ Slots /\ Steps /\ Spins /\ Who
      /\ HolderState /\ ItemState /\ RoundState /\ Waiting
  BY DEF SyncIInv, Waiting
<1>1. /\ t \in EmptyHands /\ spin["b"] = Free /\ step[t] = "out" /\ t \notin User
      /\ count + 1 = Cardinality(Party)
  BY Roles DEF ArriveLast, Arrives, GoOn, EmptyHands
<1>2. step' = step /\ step' \in [SyncTask -> StepName]
  BY <1>0 DEF ArriveLast, GoOn, SyncTypeOK
<1>3. /\ used' = used /\ spin' = spin /\ locked' = locked /\ room' = room
           /\ behind' = behind
      /\ inSlot' = inSlot /\ word' = word /\ left' = left /\ items' = items /\ puts' = puts
      /\ count' = 0
      /\ arrived' = [arrived EXCEPT ![t] = @ + 1] /\ passed' = [passed EXCEPT ![t] = @ + 1]
      /\ queue' = [queue EXCEPT !["b"] = <<>>]
           /\ inHand' = [inHand EXCEPT ![t] = queue["b"]]
  BY DEF ArriveLast, Arrives
<1>4. /\ queue' \in [Lists -> Seq(SyncTask)] /\ inHand' \in [SyncTask -> Seq(SyncTask)]
      /\ queue'["b"] = <<>> /\ Inside'["b"] = {}
      /\ Inside'["c"] = Inside["c"] /\ Inside'["m"] = Inside["m"]
      /\ Taken' = Taken \cup Inside["b"] /\ TakenLeft' = TakenLeft
      /\ t \notin Taken /\ t \notin Inside["b"]
      /\ \A x \in Inside["b"] : x \in SyncTask /\ room[x] = "b"
           /\ step[x] \in {"pending", "parked"}
      /\ Distinct' /\ Waiting'
  <2>1. step[t] \notin Sleeping /\ step'[t] \in {"out", "put"} /\ "b" \in Lists
    BY <1>0, <1>1, <1>2, StepNames, Typed
  <2>2. Portion("b", queue["b"], <<>>) /\ Given(queue["b"]) = Inside["b"]
    BY <1>0, <2>1, GivenOne
  <2>3. Took(t, "b", queue["b"], <<>>)
    BY <1>0, <1>1, <1>2, <1>3, <2>1, <2>2, Takes
  <2>4. QED
    BY <1>0, <2>2, <2>3, Typed DEF Took
<1>5. \A x \in Inside["b"] : x \in Party /\ x \notin User
  BY <1>0, <1>4, Roles, StepNames DEF Who, WhoIs
<1>6. SyncTypeOK'
  <2>1. arrived' \in [Party -> Nat] /\ passed' \in [Party -> Nat] /\ count' \in Nat
    BY <1>0, <1>3 DEF SyncTypeOK
  <2>2. QED
    BY <1>0, <1>2, <1>3, <1>4, <2>1 DEF SyncTypeOK
<1>7. Who'
  BY <1>0, <1>2, <1>3 DEF Who, WhoIs
<1>8. HolderState'
  <2>1. Holding' = Holding
    BY <1>2, <1>3, <1>4, <1>5 DEF Holding
  <2>2. \A u \in TakenLeft' : room'[u] = "m"
    BY <1>0, <1>3, <1>4 DEF HolderState
  <2>3. QED
    BY <1>0, <1>3, <1>4, <2>1, <2>2, HolderKept
<1>9. ItemState'
  <2>1. Awake' = Awake /\ Putting' = Putting
    BY <1>2, <1>4 DEF Awake, Putting
  <2>2. QED
    BY <1>0, <1>3, <1>4, <2>1 DEF ItemState
<1>10. RoundState'
  <2>1. PICK r \in Nat : \A u \in Party :
          /\ arrived[u] = IF u \in Inside["b"] THEN r + 1 ELSE r
          /\ passed[u] = IF step[u] = "out" THEN arrived[u] ELSE arrived[u] - 1
    BY <1>0 DEF RoundState
  <2>2. IsFiniteSet(Party) /\ Cardinality(Party) \in Nat
    BY UsersFinite
  <2>3. Inside["b"] = Party \ {t}
    <3>1. Inside["b"] \subseteq Party \ {t}
      BY <1>4, <1>5
    <3>2. Cardinality(Party \ {t}) = Cardinality(Party) - 1 /\ IsFiniteSet(Party \ {t})
      BY <2>2, FS_RemoveElement
    <3>3. Cardinality(Inside["b"]) = count /\ count \in Nat
      BY <1>0 DEF RoundState, SyncTypeOK
    <3>4. Cardinality(Inside["b"]) = Cardinality(Party \ {t})
      BY <1>1, <2>2, <3>2, <3>3
    <3>5. QED
      BY <3>1, <3>2, <3>4, FS_Subset
  <2>4. /\ arrived'[t] = arrived[t] + 1 /\ passed'[t] = passed[t] + 1
        /\ \A u \in Party : u # t => arrived'[u] = arrived[u] /\ passed'[u] = passed[u]
    BY <1>0, <1>3 DEF SyncTypeOK
  <2>5. \A u \in Party : u # t => step[u] # "out"
    BY <1>4, <2>3
  <2>6. \A u \in Party : /\ arrived'[u] = r + 1
                         /\ passed'[u] = IF step'[u] = "out" THEN arrived'[u] ELSE arrived'[u] - 1
    BY <1>1, <1>2, <1>4, <2>1, <2>3, <2>4, <2>5
  <2>7. r + 1 \in Nat /\ \A u \in Party :
          /\ arrived'[u] = IF u \in Inside'["b"] THEN (r + 1) + 1 ELSE r + 1
          /\ passed'[u] = IF step'[u] = "out" THEN arrived'[u] ELSE arrived'[u] - 1
    BY <1>4, <2>6
  <2>8. Len(queue'["b"]) = count' /\ count' < Cardinality(Party)
    BY <1>0, <1>1, <1>3, <1>4, <2>2, NoneTwice DEF SyncTypeOK
  <2>9. Cardinality(Inside'["b"]) = count'
    BY <1>3, <1>4, FS_EmptySet
  <2>10. QED
    BY <2>7, <2>8, <2>9 DEF RoundState
<1>11. QED
  BY <1>4, <1>6, <1>7, <1>8, <1>9, <1>10 DEF SyncIInv

(* Any other party lines up.                                               *)
LEMMA ArriveEarlySyncs ==
  ASSUME SyncIInv, NEW t \in SyncTask, t \in Party, ArriveEarly(t)
  PROVE  SyncIInv'
<1>0. /\ SyncTypeOK /\ Distinct /\ InQueue /\ HandsHold /\ Slots /\ Steps /\ Spins /\ Who
      /\ HolderState /\ ItemState /\ RoundState /\ Waiting
  BY DEF SyncIInv, Waiting
<1>1. /\ t \in EmptyHands /\ spin["b"] = Free /\ step[t] = "out" /\ t \notin User
      /\ t \notin Getter /\ t \notin Putter /\ count + 1 < Cardinality(Party)
  BY Roles DEF ArriveEarly, Arrives, Enqueue, GoOn, EmptyHands
<1>2. /\ Enqueue(t, "b", "out") /\ count' = count + 1
      /\ arrived' = [arrived EXCEPT ![t] = @ + 1] /\ passed' = passed
      /\ used' = used /\ locked' = locked /\ inSlot' = inSlot /\ word' = word
           /\ behind' = behind
      /\ inHand' = inHand /\ left' = left /\ items' = items /\ puts' = puts
  BY DEF ArriveEarly, Arrives
<1>3. /\ step' \in [SyncTask -> StepName] /\ step'[t] = "switch"
      /\ \A u \in SyncTask : u # t => step'[u] = step[u]
      /\ room' \in [SyncTask -> Lists] /\ room'[t] = "b"
      /\ \A u \in SyncTask : u # t => room'[u] = room[u]
      /\ spin' \in [Lists -> SyncTask \cup {Free}] /\ queue' \in [Lists -> Seq(SyncTask)]
      /\ Len(queue'["b"]) = Len(queue["b"]) + 1 /\ Inside'["b"] = Inside["b"] \cup {t}
      /\ Inside'["c"] = Inside["c"] /\ Inside'["m"] = Inside["m"]
      /\ Taken' = Taken /\ TakenLeft' = TakenLeft /\ t \notin TakenLeft
           /\ t \notin Inside["b"]
      /\ Distinct' /\ Waiting'
  BY <1>0, <1>1, <1>2, Typed, Enqueues
<1>4. SyncTypeOK'
  <2>1. arrived' \in [Party -> Nat] /\ count' \in Nat
    BY <1>0, <1>2 DEF SyncTypeOK
  <2>2. QED
    BY <1>0, <1>2, <1>3, <2>1 DEF SyncTypeOK
<1>5. Who'
  <2> SUFFICES ASSUME NEW u \in SyncTask PROVE WhoIs(u)'
    BY DEF Who, WhoIs
  <2>1. CASE u = t
    <3>1. t \in AsyncParty => word[t] \notin {"PARKED", "NOTIFIED"}
      BY <1>0, <1>1 DEF Who, WhoIs
    <3>2. QED
      BY <1>1, <1>2, <1>3, <2>1, <3>1, Roles, StepNames DEF WhoIs
  <2>2. CASE u # t
    BY <1>0, <1>2, <1>3, <2>2 DEF Who, WhoIs
  <2>3. QED
    BY <2>1, <2>2
<1>6. HolderState'
  <2>1. Holding' = Holding
    BY <1>1, <1>3, Roles DEF Holding
  <2>2. \A u \in TakenLeft' : room'[u] = "m"
    BY <1>0, <1>3, SetsTyped DEF HolderState
  <2>3. QED
    BY <1>0, <1>2, <1>3, <2>1, <2>2, HolderKept
<1>7. ItemState'
  <2>1. Awake' = Awake /\ Putting' = Putting
    BY <1>1, <1>3, Roles DEF Awake, Putting
  <2>2. QED
    BY <1>0, <1>2, <1>3, <2>1 DEF ItemState
<1>8. RoundState'
  <2>1. PICK r \in Nat : \A u \in Party :
          /\ arrived[u] = IF u \in Inside["b"] THEN r + 1 ELSE r
          /\ passed[u] = IF step[u] = "out" THEN arrived[u] ELSE arrived[u] - 1
    BY <1>0 DEF RoundState
  <2>2. /\ arrived'[t] = arrived[t] + 1
        /\ \A u \in Party : u # t => arrived'[u] = arrived[u]
    BY <1>0, <1>2 DEF SyncTypeOK
  <2>3. \A u \in Party : /\ arrived'[u] = IF u \in Inside'["b"] THEN r + 1 ELSE r
                         /\ passed'[u] = IF step'[u] = "out" THEN arrived'[u] ELSE arrived'[u] - 1
    <3> SUFFICES ASSUME NEW u \in Party
                 PROVE  /\ arrived'[u] = IF u \in Inside'["b"] THEN r + 1 ELSE r
                        /\ passed'[u] = IF step'[u] = "out" THEN arrived'[u] ELSE arrived'[u] - 1
      OBVIOUS
    <3>1. CASE u = t
      BY <1>1, <1>2, <1>3, <2>1, <2>2, <3>1
    <3>2. CASE u # t
      <4>1. u \in Inside'["b"] <=> u \in Inside["b"]
        BY <1>3, <3>2
      <4>2. QED
        BY <1>2, <1>3, <2>1, <2>2, <3>2, <4>1, Roles
    <3>3. QED
      BY <3>1, <3>2
  <2>4. Len(queue["b"]) = count /\ count \in Nat /\ Cardinality(Inside["b"]) = count
    BY <1>0 DEF RoundState, SyncTypeOK
  <2>5. Len(queue'["b"]) = count' /\ count' < Cardinality(Party)
    BY <1>1, <1>2, <1>3, <2>4
  <2>6. Cardinality(Inside'["b"]) = count'
    <3>1. IsFiniteSet(Inside["b"])
      BY <1>0, SetsTyped, SyncAssumption, FS_Subset, Typed
    <3>2. QED
      BY <1>2, <1>3, <2>4, <3>1, FS_AddElement
  <2>7. QED
    BY <2>3, <2>5, <2>6 DEF RoundState
<1>9. QED
  BY <1>3, <1>4, <1>5, <1>6, <1>7, <1>8 DEF SyncIInv

(* Nobody waits at the beginning.                                          *)
LEMMA SyncStarts ==
  ASSUME SyncInit
  PROVE  SyncIInv
<1>1. /\ used \in {"condvar", "barrier"} /\ locked = FALSE /\ count = 0 /\ inSlot = {}
           /\ behind = {}
      /\ items = 0
      /\ \A q \in Lists : queue[q] = <<>> /\ spin[q] = Free
      /\ \A t \in SyncTask : step[t] = "out" /\ room[t] = "m" /\ inHand[t] = <<>>
           /\ left[t] = <<>>
      /\ \A t \in AsyncParty : word[t] = "POLLING"
      /\ \A t \in Party : arrived[t] = 0 /\ passed[t] = 0
  BY DEF SyncInit, Lists
<1>2. SyncTypeOK
  <2>1. queue \in [Lists -> Seq(SyncTask)] /\ spin \in [Lists -> SyncTask \cup {Free}]
    BY EmptySeq DEF SyncInit, Lists
  <2>2. step \in [SyncTask -> StepName] /\ room \in [SyncTask -> Lists]
    BY StepNames DEF SyncInit, Lists
  <2>3. inHand \in [SyncTask -> Seq(SyncTask)] /\ left \in [SyncTask -> Seq(SyncTask)]
    BY EmptySeq DEF SyncInit
  <2>4. /\ word \in [AsyncParty -> {"POLLING", "NOTIFIED", "PARKED"}]
        /\ puts \in [Putter -> Nat] /\ arrived \in [Party -> Nat]
             /\ passed \in [Party -> Nat]
    BY DEF SyncInit
  <2>5. QED
    BY <1>1, <2>1, <2>2, <2>3, <2>4 DEF SyncTypeOK
<1>3. /\ Taken = {} /\ TakenLeft = {} /\ \A q \in Lists : Inside[q] = {}
  BY <1>1, NoneTwice DEF Taken, TakenLeft, Inside
<1>4. Distinct
  BY <1>1, <1>3, NoneTwice DEF Distinct
<1>5. Waiting
  BY <1>1, <1>3, StepNames DEF Waiting, InQueue, HandsHold, Slots, Steps, Spins
<1>6. Who
  BY <1>1, Roles, StepNames DEF Who, WhoIs
<1>7. HolderState
  <2>1. Holding = {}
    BY <1>1, <1>3, Roles DEF Holding
  <2>2. QED
    BY <1>1, <1>3, <2>1, Typed, <1>2 DEF HolderState
<1>8. ItemState
  BY <1>2, <1>3, Typed DEF ItemState
<1>9. RoundState
  <2>1. Cardinality(Party) \in Nat /\ Cardinality(Party) # 0
    BY UsersFinite, SyncAssumption, FS_EmptySet
  <2>2. Len(queue["b"]) = 0 /\ Inside["b"] = {}
    BY <1>1, <1>2, <1>3, NoneTwice, Typed
  <2>3. Cardinality(Inside["b"]) = 0
    BY <2>2, FS_EmptySet
  <2>4. \A t \in Party : arrived[t] = 0 /\ passed[t] = 0 /\ step[t] = "out"
    BY <1>1, Roles
  <2>5. 0 \in Nat /\ \A t \in Party : /\ arrived[t] = IF t \in Inside["b"] THEN 0 + 1 ELSE 0
                        /\ passed[t] = IF step[t] = "out" THEN arrived[t] ELSE arrived[t] - 1
    BY <2>2, <2>4
  <2>6. QED
    BY <1>1, <2>1, <2>2, <2>3, <2>5 DEF RoundState
<1>10. QED
  BY <1>2, <1>4, <1>5, <1>6, <1>7, <1>8, <1>9 DEF SyncIInv

(* Every step keeps the invariant.                                         *)
LEMMA SyncSteps ==
  ASSUME SyncIInv, [SyncNext]_syncvars
  PROVE  SyncIInv'
<1>1. ASSUME NEW t \in SyncTask, SyncStep(t) PROVE SyncIInv'
  <2>1. CASE LockMutex(t, "relock")
    <3>1. step[t] = "relock"
      BY <2>1 DEF LockMutex, Enqueue, GoOn
    <3>2. t \in User
      BY <3>1, Roles DEF SyncIInv, Who, WhoIs
    <3>3. QED
      BY <2>1, <3>2, LockMutexSyncs
  <2>2. CASE ~ LockMutex(t, "relock")
    BY <1>1, <2>2, PublishTokenSyncs, DropSpinSyncs, GoesOnSyncs, NotifySyncs,
       NotifyLeftSyncs, GetItemSyncs, PutItemSyncs, WaitItemSyncs,
       UnlockBehindSyncs, NotifyGettersSyncs, ParkPendingSyncs
    DEF SyncStep
  <2>3. QED
    BY <2>1, <2>2
<1>2. ASSUME NEW t \in User, LockMutex(t, "out") PROVE SyncIInv'
  BY <1>2, Roles, LockMutexSyncs
<1>3. ASSUME NEW t \in Party, ArriveLast(t) \/ ArriveEarly(t) PROVE SyncIInv'
  BY <1>3, Roles, ArriveLastSyncs, ArriveEarlySyncs
<1>4. CASE UNCHANGED syncvars
  <2>1. /\ used' = used /\ queue' = queue /\ spin' = spin /\ locked' = locked
             /\ count' = count
        /\ step' = step /\ room' = room /\ inSlot' = inSlot /\ behind' = behind
             /\ word' = word
        /\ inHand' = inHand /\ left' = left /\ items' = items /\ puts' = puts
        /\ arrived' = arrived /\ passed' = passed
    BY <1>4 DEF syncvars, mutexwords, condwords, barrierwords
  <2>2. SyncTypeOK' /\ Distinct' /\ Who'
    BY <2>1 DEF SyncIInv, SyncTypeOK, Distinct, Who, WhoIs, Taken, TakenLeft
  <2>3. /\ Taken' = Taken /\ TakenLeft' = TakenLeft /\ Inside' = Inside
             /\ EmptyHands' = EmptyHands
    BY <2>1 DEF Taken, TakenLeft, Inside, EmptyHands
  <2>4. Waiting'
    BY <2>1, <2>3 DEF SyncIInv, Waiting, InQueue, HandsHold, Slots, Steps, Spins
  <2>5. HolderState'
    BY <2>1, <2>3 DEF SyncIInv, HolderState, Holding
  <2>6. ItemState' /\ RoundState'
    BY <2>1, <2>3 DEF SyncIInv, ItemState, RoundState, Awake, Putting
  <2>7. QED
    BY <2>2, <2>4, <2>5, <2>6 DEF SyncIInv
<1>5. QED
  BY <1>1, <1>2, <1>3, <1>4 DEF SyncNext

(* What the run checks follows from the inductive invariant.               *)
LEMMA SyncIInvGives ==
  ASSUME SyncIInv
  PROVE  SyncInv
<1>0. /\ SyncTypeOK /\ Distinct /\ InQueue /\ HandsHold /\ Slots /\ Steps /\ Spins /\ Who
      /\ HolderState /\ ItemState /\ RoundState
  BY DEF SyncIInv, Waiting
<1>1. \A q \in Lists : queue[q] \in Seq(SyncTask)
  BY <1>0 DEF SyncTypeOK
<1>2. \A t \in SyncTask : inHand[t] \in Seq(SyncTask) /\ left[t] \in Seq(SyncTask)
  BY <1>0 DEF SyncTypeOK
<1>3. \A s \in Seq(SyncTask) :
        /\ DOMAIN s = 1 .. Len(s)
        /\ \A x : Has(s, x) <=> \E i \in DOMAIN s : s[i] = x
        /\ \A x : Has(s, x) => x \in SyncTask
  BY HasNone, LenProperties DEF Has
<1>4. InHands = Taken \cup TakenLeft
  <2>1. ASSUME NEW x \in InHands PROVE x \in Taken \cup TakenLeft
    <3>1. PICK t \in SyncTask : \/ \E i \in DOMAIN inHand[t] : inHand[t][i] = x
                                \/ \E i \in DOMAIN left[t] : left[t][i] = x
      BY <2>1 DEF InHands
    <3>2. Has(inHand[t], x) \/ Has(left[t], x)
      BY <1>2, <1>3, <3>1
    <3>3. x \in SyncTask
      BY <1>2, <1>3, <3>2
    <3>4. QED
      BY <3>2, <3>3 DEF Taken, TakenLeft
  <2>2. ASSUME NEW x \in Taken \cup TakenLeft PROVE x \in InHands
    <3>1. PICK t \in SyncTask : Has(inHand[t], x) \/ Has(left[t], x)
      BY <2>2 DEF Taken, TakenLeft
    <3>2. \/ \E i \in DOMAIN inHand[t] : inHand[t][i] = x
          \/ \E i \in DOMAIN left[t] : left[t][i] = x
      BY <1>2, <1>3, <3>1
    <3>3. QED
      BY <3>2 DEF InHands
  <2>3. QED
    BY <2>1, <2>2
<1>5. OneHolder
  <2>1. Holders = Holding
    BY <1>4 DEF Holders, Holding
  <2>2. /\ \A x, y \in Holding : x = y
        /\ \A x, y \in behind : x = y
        /\ Holding # {} => behind = {}
        /\ locked <=> behind # {} \/ Holding # {}
    BY <1>0 DEF HolderState
  <2>3. \A S : (\A x, y \in S : x = y) => Cardinality(S) = IF S = {} THEN 0 ELSE 1
    <3> SUFFICES ASSUME NEW S, \A x, y \in S : x = y
                 PROVE  Cardinality(S) = IF S = {} THEN 0 ELSE 1
      OBVIOUS
    <3>1. CASE S = {}
      BY <3>1, FS_EmptySet
    <3>2. CASE S # {}
      <4>1. PICK x : S = {x}
        BY <3>2
      <4>2. QED
        BY <3>2, <4>1, FS_Singleton
    <3>3. QED
      BY <3>1, <3>2
  <2>4. Cardinality(Holders) + Cardinality(behind) = IF locked THEN 1 ELSE 0
    <3>1. /\ Cardinality(Holding) = IF Holding = {} THEN 0 ELSE 1
          /\ Cardinality(behind) = IF behind = {} THEN 0 ELSE 1
      BY <2>2, <2>3
    <3>2. QED
      BY <2>1, <2>2, <3>1
  <2>5. queue["m"] # <<>> => locked
    BY <1>0, SetsTyped, Typed DEF HolderState
  <2>6. QED
    BY <2>4, <2>5 DEF OneHolder
<1>6. NotifiedIsParked
  BY <1>0, <1>4 DEF NotifiedIsParked, HandsHold
<1>7. NoItemStranded
  <2>1. Awake = {t \in Getter : step[t] # "out"
          /\ \A i \in DOMAIN queue["c"] : queue["c"][i] # t}
    <3>1. \A t \in Getter : t \in Inside["c"]
            <=> \E i \in DOMAIN queue["c"] : queue["c"][i] = t
      BY <1>0, <1>1, <1>3, Typed, Roles DEF Inside
    <3>2. QED
      BY <3>1 DEF Awake
  <2>2. Coming = Cardinality(Awake) + Cardinality(Putting)
    BY <2>1 DEF Coming, Putting
  <2>3. queue["c"] # <<>> => Inside["c"] # {}
    BY <1>0, SetsTyped, Typed
  <2>4. QED
    BY <1>0, <2>2, <2>3 DEF NoItemStranded, ItemState
<1>8. TogetherInv
  <2>1. PICK r \in Nat : \A u \in Party :
          /\ arrived[u] = IF u \in Inside["b"] THEN r + 1 ELSE r
          /\ passed[u] = IF step[u] = "out" THEN arrived[u] ELSE arrived[u] - 1
    BY <1>0 DEF RoundState
  <2>2. \A u \in Party : u \in Inside["b"] => step[u] # "out"
    BY <1>0, Typed, StepNames DEF InQueue
  <2>3. \A u \in Party : passed[u] <= r /\ r <= arrived[u]
    BY <2>1, <2>2
  <2>4. \A u \in Party : passed[u] \in Int /\ arrived[u] \in Int
    BY <1>0 DEF SyncTypeOK
  <2>5. QED
    BY <2>1, <2>3, <2>4 DEF TogetherInv
<1>9. NoneForgotten
  <2>1. Len(queue["b"]) = count /\ count < Cardinality(Party)
    BY <1>0 DEF RoundState
  <2>2. ASSUME NEW t \in inSlot PROVE t \in InHands
                 \/ \E i \in DOMAIN queue[room[t]] : queue[room[t]][i] = t
    <3>1. t \in Taken \cup TakenLeft \cup Inside[room[t]] /\ room[t] \in Lists
      BY <1>0, Typed DEF Slots
    <3>2. t \in Inside[room[t]] => \E i \in DOMAIN queue[room[t]] : queue[room[t]][i] = t
      BY <1>1, <1>3, <3>1 DEF Inside
    <3>3. QED
      BY <1>4, <3>1, <3>2
  <2>3. QED
    BY <2>1, <2>2 DEF NoneForgotten
<1>10. QED
  BY <1>5, <1>6, <1>7, <1>8, <1>9 DEF SyncInv

(* The mutex has one holder or none, a token is never notified before it   *)
(* is published nor forgotten in a slot, no item waits beside sleeping     *)
(* getters that nobody will wake, and no task is a round ahead of another: *)
(* for any getters, putters and parties (SpinCondvar, SpinMutex and        *)
(* SpinBarrier with their spin-locked queues).                             *)
THEOREM SyncSafe == SyncSpec => []SyncInv
<1>1. SyncInit => SyncIInv
  BY SyncStarts
<1>2. SyncIInv /\ [SyncNext]_syncvars => SyncIInv'
  BY SyncSteps
<1>3. SyncIInv => SyncInv
  BY SyncIInvGives
<1>4. QED
  BY <1>1, <1>2, <1>3, PTL DEF SyncSpec

=============================================================================
