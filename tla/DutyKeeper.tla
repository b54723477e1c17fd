----------------------------- MODULE DutyKeeper -----------------------------
(***************************************************************************)
(* Duties (src/src/duty.rs): polls that must run by their due times, by    *)
(* the keeper thread, or by workers that are idle.  The keeper sleeps      *)
(* until the earliest due time it has planned for; who makes a duty due    *)
(* earlier compares with that plan and unparks it.  One parked worker may  *)
(* keep the due times in the keeper's place, which then only looks whether *)
(* the worker renews its promise (DutyRegistry::park_timeout).             *)
(*                                                                         *)
(* The clock is an action; a thread may be late by any time.  A due time   *)
(* is read in one step, though its parts are separate words: every change  *)
(* that makes it earlier is followed by a replan.                          *)
(***************************************************************************)
EXTENDS Integers, FiniteSets, FiniteSetsExt

CONSTANTS
  Duty,        \* duties
  KeeperOnly,  \* those of DutyPlace::Keeper
  Idler,       \* the workers of a pool
  MinPeriod, MaxPeriod,   \* a duty's obligation, and how far it backs off
  WaitPeriod,  \* its period while it has waiters
  Never,       \* NEVER: later than every time that occurs
  Slack,       \* TIMED_SLACK
  IdlePolls,   \* IDLE_POLLS
  Horizon,     \* bound: the last time that the clock shows
  MaxOps,      \* bound: operations of the user, a shutdown among them
  Nobody

ASSUME DutyAssumption ==
  /\ KeeperOnly \subseteq Duty
  /\ {MinPeriod, MaxPeriod, WaitPeriod, Never, Slack, IdlePolls, Horizon, MaxOps} \subseteq Nat
  /\ 0 < MinPeriod /\ MinPeriod <= MaxPeriod /\ 0 < WaitPeriod /\ 0 < IdlePolls
  /\ Horizon + MaxPeriod + Slack < Never

VARIABLES
  clock,       \* now_ns()
  reg,         \* DutyRegistry::reg
  regLock,     \* who holds its mutex
  onDemand,    \* duties whose min and max are NEVER: no obligation
  last, period, waiters, deadline, idlePolls,   \* the other words of a duty's Inner
  lowered,     \* ghost: duties whose backed-off period a worker's poll or a touch has put back
               \* since the keeper looked at them
  halfDue,     \* DutyRegistry::half_due
  planned,     \* DutyRegistry::planned
  timed,       \* DutyRegistry::timed
  timedUntil,  \* DutyRegistry::timed_until
  keeper,      \* the keeper thread: [pc, left, now, mine, any, until]
  unparked,    \* its park token
  polling,     \* the duty whose poll a thread is in
  idler,       \* the workers: [pc, timed, left, now, next, until]
  closing,     \* the thread in PoolCore::finish: "no", "release", "unpark"
  user,        \* the thread that owns the duties: [pc, duty]
  ops          \* how many operations it has made

dutywords == <<onDemand, last, period, waiters, deadline, idlePolls, lowered>>
planvars == <<halfDue, planned, unparked>>
registry == <<reg, regLock>>
dutyvars == <<clock, registry, dutywords, planvars, timed, timedUntil, keeper, polling,
              idler, closing, user, ops>>

K == "keeper"
ASSUME ThreadAssumption == K \notin Idler /\ Nobody \notin Duty \cup Idler \cup {K}

Least(S) == IF S = {} THEN Never ELSE Min(S)
Add(t, d) == IF t + d >= Never THEN Never ELSE t + d     \* saturating_add

MinOf(d) == IF d \in onDemand THEN Never ELSE MinPeriod
MaxOf(d) == IF d \in onDemand THEN Never ELSE MaxPeriod

(* Inner::effective_period, due and half_due (a waiter's poll is eager).   *)
Period(d) == IF waiters[d] > 0 THEN Least({period[d], WaitPeriod}) ELSE period[d]
Due(d) == Least({Add(last[d], Period(d)), deadline[d]})
HalfDue(d) ==
  Least({Add(last[d], IF waiters[d] > 0 THEN 0 ELSE Period(d) \div 2), deadline[d]})

Anywhere == Duty \ KeeperOnly
LeastHalfDue(D) == Least({HalfDue(d) : d \in D \cap Anywhere})

Idling == [pc |-> "awake", timed |-> FALSE, left |-> {}, now |-> 0, next |-> Never, until |-> Never]
Busy == [Idling EXCEPT !.pc = "busy"]
Asleep == [pc |-> "start", left |-> {}, now |-> 0, mine |-> Never, any |-> Never, until |-> Never]

(* Some duties are registered; the keeper runs since the first one was.    *)
(* Some workers are busy for good; that many operations are still to come. *)
DutyInit ==
  /\ clock = 0
  /\ reg \in SUBSET Duty
  /\ regLock = Nobody
  /\ onDemand \in SUBSET reg
  /\ last = [d \in Duty |-> 0] /\ period = [d \in Duty |-> MinOf(d)]
  /\ waiters = [d \in Duty |-> 0] /\ deadline = [d \in Duty |-> Never]
  /\ idlePolls = [d \in Duty |-> 0] /\ lowered = {}
  /\ halfDue = 0 /\ planned = Never /\ unparked = FALSE
  /\ timed = FALSE /\ timedUntil = Never
  /\ keeper = Asleep
  /\ polling = [t \in Idler \cup {K} |-> Nobody]
  /\ idler \in [Idler -> {Idling, Busy}]
  /\ closing = "no"
  /\ user = [pc |-> "idle", duty |-> Nobody] /\ ops \in 0..MaxOps

Tick ==
  /\ clock < Horizon
  /\ clock' = clock + 1
  /\ UNCHANGED <<registry, dutywords, planvars, timed, timedUntil, keeper, polling, idler,
                 closing, user, ops>>

-----------------------------------------------------------------------------
PutBack(d) == IF period[d] # MinOf(d) THEN lowered \cup {d} ELSE lowered

(* run(): the deadline is cleared, poll is called, and its time and answer *)
(* set the next period.                                                    *)
StartPoll(t, d) ==
  /\ polling' = [polling EXCEPT ![t] = d]
  /\ deadline' = [deadline EXCEPT ![d] = Never]
  /\ UNCHANGED <<onDemand, last, period, waiters, idlePolls, lowered>>

EndPoll(t, did) ==
  LET d == polling[t]
      n == idlePolls[d] + 1 IN
  /\ polling' = [polling EXCEPT ![t] = Nobody]
  /\ last' = [last EXCEPT ![d] = clock]
  /\ IF did
     THEN /\ period' = [period EXCEPT ![d] = MinOf(d)]
          /\ idlePolls' = [idlePolls EXCEPT ![d] = 0]
     ELSE LET backOff == MaxOf(d) > MinOf(d) /\ n >= IdlePolls IN
          /\ period' = [period EXCEPT ![d] = IF backOff THEN Least({2 * @, MaxPeriod}) ELSE @]
          /\ idlePolls' = [idlePolls EXCEPT ![d] = IF backOff THEN 0
                                                  ELSE IF MaxOf(d) > MinOf(d) THEN n ELSE @]
  /\ lowered' = IF t = K THEN lowered \ {d} ELSE IF did THEN PutBack(d) ELSE lowered
  /\ UNCHANGED <<onDemand, waiters, deadline>>

-----------------------------------------------------------------------------
(* keep().                                                                 *)

AtKeeper(pc) == keeper.pc = pc

(* Mutant: the old plan stands while the keeper makes a new one.           *)
KeepOldPlan ==
  /\ AtKeeper("start")
  /\ keeper' = [keeper EXCEPT !.pc = "lock"]
  /\ UNCHANGED <<clock, registry, dutywords, planvars, timed, timedUntil, polling,
                 idler, closing, user, ops>>

(* Until there is a plan, every replan unparks the keeper.                 *)
ForgetPlan ==
  /\ AtKeeper("start")
  /\ planned' = Never
  /\ keeper' = [keeper EXCEPT !.pc = "lock"]
  /\ UNCHANGED <<clock, registry, dutywords, halfDue, unparked, timed, timedUntil,
                 polling, idler, closing, user, ops>>

LockReg ==
  /\ AtKeeper("lock") /\ regLock = Nobody
  /\ regLock' = K
  /\ keeper' = [Asleep EXCEPT !.pc = "visit", !.left = reg, !.now = clock]
  /\ UNCHANGED <<clock, reg, dutywords, planvars, timed, timedUntil, polling, idler, closing,
                 user, ops>>

(* The due time of d goes into mine or any.                                *)
Account(d, due) ==
  IF d \in KeeperOnly
  THEN [keeper EXCEPT !.pc = "visit", !.left = @ \ {d}, !.mine = Least({@, due})]
  ELSE [keeper EXCEPT !.pc = "visit", !.left = @ \ {d}, !.any = Least({@, due})]

SkipDuty(d) ==
  /\ AtKeeper("visit") /\ d \in keeper.left /\ keeper.now < Due(d)
  /\ keeper' = Account(d, Due(d))
  /\ lowered' = lowered \ {d}
  /\ UNCHANGED <<clock, registry, onDemand, last, period, waiters, deadline, idlePolls, planvars, timed,
                 timedUntil, polling, idler, closing, user, ops>>

KeeperPolls(d) ==
  /\ AtKeeper("visit") /\ d \in keeper.left /\ keeper.now >= Due(d)
  /\ StartPoll(K, d)
  /\ keeper' = [keeper EXCEPT !.pc = "polling"]
  /\ UNCHANGED <<clock, registry, planvars, timed, timedUntil, idler, closing, user, ops>>

KeeperPolled(did) ==
  /\ AtKeeper("polling")
  /\ EndPoll(K, did)
  /\ \E d \in reg : d = polling[K] /\ keeper' = Account(d, Due(d)')
  /\ UNCHANGED <<clock, registry, planvars, timed, timedUntil, idler, closing, user, ops>>

(* All were visited: update_half_due, and what the timed worker promises.  *)
ReadPromise ==
  /\ AtKeeper("visit") /\ keeper.left = {}
  /\ halfDue' = LeastHalfDue(reg)
  /\ keeper' = [keeper EXCEPT !.pc = "plan", !.until = timedUntil]
  /\ UNCHANGED <<clock, registry, dutywords, planned, unparked, timed, timedUntil,
                 polling, idler, closing, user, ops>>

(* A worker that promises to wake early enough is only looked after.       *)
StorePlan ==
  LET k == keeper
      any == IF timed /\ k.any >= k.until /\ k.until # Never THEN Add(k.until, Slack) ELSE k.any
  IN
  /\ AtKeeper("plan")
  /\ planned' = Least({k.mine, any})
  /\ regLock' = Nobody
  /\ keeper' = [Asleep EXCEPT !.pc = "parked"]
  /\ UNCHANGED <<clock, reg, dutywords, halfDue, unparked, timed, timedUntil, polling, idler,
                 closing, user, ops>>

KeeperWakes ==
  /\ AtKeeper("parked") /\ (unparked \/ clock >= planned)
  /\ unparked' = FALSE
  /\ keeper' = Asleep
  /\ UNCHANGED <<clock, registry, dutywords, halfDue, planned, timed, timedUntil,
                 polling, idler, closing, user, ops>>

-----------------------------------------------------------------------------
(* The user: operations that may make a duty due earlier end in replan.    *)

UserStarts(d) ==
  /\ user.pc = "idle" /\ d \in reg /\ ops < MaxOps
  /\ ops' = ops + 1

Replans(d) == user' = [pc |-> "half due", duty |-> d]

SetDeadline(d, at) ==
  /\ UserStarts(d) /\ Replans(d)
  /\ deadline' = [deadline EXCEPT ![d] = at]
  /\ UNCHANGED <<clock, registry, onDemand, last, period, waiters, idlePolls, lowered, planvars, timed,
                 timedUntil, keeper, polling, idler, closing>>

(* DutyWaiter::new replans for the first waiter only.                      *)
NewWaiter(d) ==
  /\ UserStarts(d)
  /\ waiters' = [waiters EXCEPT ![d] = @ + 1]
  /\ IF waiters[d] = 0 THEN Replans(d) ELSE UNCHANGED user
  /\ UNCHANGED <<clock, registry, onDemand, last, period, deadline, idlePolls, lowered, planvars, timed,
                 timedUntil, keeper, polling, idler, closing>>

DropWaiter(d) ==
  /\ user.pc = "idle" /\ d \in reg /\ waiters[d] > 0
  /\ waiters' = [waiters EXCEPT ![d] = @ - 1]
  /\ UNCHANGED <<clock, registry, onDemand, last, period, deadline, idlePolls, lowered, planvars, timed,
                 timedUntil, keeper, polling, idler, closing, user, ops>>

(* touch(): the due time moves on, but a period that had backed off is put *)
(* back as well, and nobody is told.                                       *)
Touch(d) ==
  /\ UserStarts(d) /\ clock - last[d] > Least({MinOf(d), WaitPeriod}) \div 4
  /\ last' = [last EXCEPT ![d] = clock]
  /\ period' = [period EXCEPT ![d] = MinOf(d)]
  /\ idlePolls' = [idlePolls EXCEPT ![d] = IF period[d] # MinOf(d) THEN 0 ELSE @]
  /\ lowered' = PutBack(d)
  /\ UNCHANGED <<clock, registry, onDemand, waiters, deadline, planvars, timed, timedUntil, keeper,
                 polling, idler, closing, user>>

(* set_period: from now on the duty is obliged to be polled, or not.       *)
SetPeriod(d) ==
  /\ UserStarts(d) /\ Replans(d)
  /\ onDemand' = IF d \in onDemand THEN onDemand \ {d} ELSE onDemand \cup {d}
  /\ period' = [period EXCEPT ![d] = MinOf(d)'] /\ idlePolls' = [idlePolls EXCEPT ![d] = 0]
  /\ UNCHANGED <<clock, registry, last, waiters, deadline, lowered, planvars, timed,
                 timedUntil, keeper, polling, idler, closing>>

NewDuty(d) ==
  /\ user.pc = "idle" /\ ops < MaxOps /\ d \notin reg /\ regLock = Nobody
  /\ ops' = ops + 1
  /\ reg' = reg \cup {d}
  /\ onDemand' \in {onDemand \ {d}, onDemand \cup {d}}
  /\ last' = [last EXCEPT ![d] = clock] /\ period' = [period EXCEPT ![d] = MinOf(d)']
  /\ waiters' = [waiters EXCEPT ![d] = 0] /\ deadline' = [deadline EXCEPT ![d] = Never]
  /\ idlePolls' = [idlePolls EXCEPT ![d] = 0] /\ lowered' = lowered \ {d}
  /\ Replans(d)
  /\ UNCHANGED <<clock, regLock, planvars, timed, timedUntil, keeper, polling, idler, closing>>

DropDuty(d) ==
  /\ UserStarts(d) /\ regLock = Nobody
  /\ reg' = reg \ {d}
  /\ UNCHANGED <<clock, regLock, dutywords, planvars, timed, timedUntil, keeper, polling, idler,
                 closing, user>>

(* replan: the hint for idle workers first ...                             *)
LowerHalfDue ==
  LET d == user.duty IN
  /\ user.pc = "half due"
  /\ halfDue' = IF d \in KeeperOnly THEN halfDue ELSE Least({halfDue, HalfDue(d)})
  /\ user' = [user EXCEPT !.pc = "unpark"]
  /\ UNCHANGED <<clock, registry, dutywords, planned, unparked, timed, timedUntil,
                 keeper, polling, idler, closing, ops>>

(* ... then, behind the fence, the keeper's plan.                          *)
UnparkKeeper ==
  /\ user.pc = "unpark"
  /\ unparked' = (unparked \/ Due(user.duty) < planned)
  /\ user' = [pc |-> "idle", duty |-> Nobody]
  /\ UNCHANGED <<clock, registry, dutywords, halfDue, planned, timed, timedUntil,
                 keeper, polling, idler, closing, ops>>

-----------------------------------------------------------------------------
(* An idle worker.  It may wake up at any time, when work is pushed, and   *)
(* may be late by any time: a parked worker is one that is awake and slow, *)
(* and so are one that is busy and one that has exited.                    *)

AtIdler(w, pc) == idler[w].pc = pc
Moves(w, state) == idler' = [idler EXCEPT ![w] = state]

(* run_idle, before the worker sleeps: nothing is half due, or somebody    *)
(* has the registry ...                                                    *)
SkipDuties(w) ==
  /\ AtIdler(w, "awake")
  /\ reg = {} \/ clock < halfDue \/ regLock # Nobody
  /\ Moves(w, [idler[w] EXCEPT !.pc = "ready"])
  /\ UNCHANGED <<clock, registry, dutywords, planvars, timed, timedUntil, keeper, polling,
                 closing, user, ops>>

(* ... or the worker runs what is half due itself.                         *)
ServeDuties(w) ==
  /\ AtIdler(w, "awake") /\ reg # {} /\ clock >= halfDue /\ regLock = Nobody
  /\ regLock' = w
  /\ Moves(w, [idler[w] EXCEPT !.pc = "serve", !.left = reg \cap Anywhere, !.now = clock])
  /\ UNCHANGED <<clock, reg, dutywords, planvars, timed, timedUntil, keeper, polling,
                 closing, user, ops>>

IdlerSkips(w, d) ==
  /\ AtIdler(w, "serve") /\ d \in idler[w].left /\ idler[w].now < HalfDue(d)
  /\ Moves(w, [idler[w] EXCEPT !.left = @ \ {d}])
  /\ UNCHANGED <<clock, registry, dutywords, planvars, timed, timedUntil, keeper, polling,
                 closing, user, ops>>

IdlerPolls(w, d) ==
  /\ AtIdler(w, "serve") /\ d \in idler[w].left /\ idler[w].now >= HalfDue(d)
  /\ StartPoll(w, d)
  /\ Moves(w, [idler[w] EXCEPT !.pc = "polling", !.left = @ \ {d}])
  /\ UNCHANGED <<clock, registry, planvars, timed, timedUntil, keeper, closing, user, ops>>

IdlerPolled(w, did) ==
  /\ AtIdler(w, "polling")
  /\ EndPoll(w, did)
  /\ Moves(w, [idler[w] EXCEPT !.pc = "serve"])
  /\ UNCHANGED <<clock, registry, planvars, timed, timedUntil, keeper, closing, user, ops>>

ServedAll(w) ==
  /\ AtIdler(w, "serve") /\ idler[w].left = {}
  /\ halfDue' = LeastHalfDue(reg)
  /\ regLock' = Nobody
  /\ Moves(w, [idler[w] EXCEPT !.pc = "ready", !.now = 0])
  /\ UNCHANGED <<clock, reg, dutywords, planned, unparked, timed, timedUntil, keeper,
                 polling, closing, user, ops>>

(* park_timeout.  The registry is locked: a worker that keeps the due      *)
(* times stays with its promise, another one parks without a timeout.      *)
ParkBlind(w) ==
  /\ AtIdler(w, "ready") /\ (reg = {} \/ regLock # Nobody)
  /\ Moves(w, [idler[w] EXCEPT !.pc = "awake"])
  /\ UNCHANGED <<clock, registry, dutywords, planvars, timed, timedUntil, keeper, polling,
                 closing, user, ops>>

(* Else the earliest due time is read under the lock ...                   *)
ReadDue(w) ==
  /\ AtIdler(w, "ready") /\ reg # {} /\ regLock = Nobody
  /\ LET next == Least({Due(d) : d \in reg \cap Anywhere}) IN
       Moves(w, [idler[w] EXCEPT !.next = next,
                   !.pc = IF next = Never THEN (IF idler[w].timed THEN "release" ELSE "awake")
                          ELSE IF idler[w].timed THEN "take" ELSE "read"])
  /\ UNCHANGED <<clock, registry, dutywords, planvars, timed, timedUntil, keeper, polling,
                 closing, user, ops>>

(* ... and the worker takes the role, unless another one has it and has    *)
(* not yet broken its promise.                                             *)
ReadUntil(w) ==
  /\ AtIdler(w, "read")
  /\ Moves(w, [idler[w] EXCEPT !.pc = "take", !.until = timedUntil])
  /\ UNCHANGED <<clock, registry, dutywords, planvars, timed, timedUntil, keeper, polling,
                 closing, user, ops>>

Takeable(w) ==
  LET until == idler[w].until IN
  idler[w].timed \/ ~ timed \/ (until # Never /\ clock >= Add(until, Slack))

TakeRole(w) ==
  /\ AtIdler(w, "take") /\ Takeable(w)
  /\ timed' = TRUE
  /\ Moves(w, [idler[w] EXCEPT !.pc = "promise", !.timed = TRUE, !.until = Never])
  /\ UNCHANGED <<clock, registry, dutywords, planvars, timedUntil, keeper, polling,
                 closing, user, ops>>

LeaveRole(w) ==
  /\ AtIdler(w, "take") /\ ~ Takeable(w)
  /\ Moves(w, Idling)
  /\ UNCHANGED <<clock, registry, dutywords, planvars, timed, timedUntil, keeper, polling,
                 closing, user, ops>>

Promise(w) ==
  /\ AtIdler(w, "promise")
  /\ timedUntil' = idler[w].next
  /\ Moves(w, [idler[w] EXCEPT !.pc = "awake", !.next = Never])
  /\ UNCHANGED <<clock, registry, dutywords, planvars, timed, keeper, polling,
                 closing, user, ops>>

(* work_found, or no duty is left: the role goes back to the keeper.       *)
FindWork(w) ==
  /\ AtIdler(w, "awake") /\ idler[w].timed
  /\ Moves(w, [Idling EXCEPT !.pc = "release"])
  /\ UNCHANGED <<clock, registry, dutywords, planvars, timed, timedUntil, keeper, polling,
                 closing, user, ops>>

ForgetPromise(w) ==
  /\ AtIdler(w, "release")
  /\ timedUntil' = Never
  /\ Moves(w, [Idling EXCEPT !.pc = "released"])
  /\ UNCHANGED <<clock, registry, dutywords, planvars, timed, keeper, polling,
                 closing, user, ops>>

Release(w) ==
  /\ AtIdler(w, "released")
  /\ timed' = FALSE /\ unparked' = TRUE
  /\ Moves(w, Idling)
  /\ UNCHANGED <<clock, registry, dutywords, halfDue, planned, timedUntil,
                 keeper, polling, closing, user, ops>>

(* A pool is finished: a worker that exits does not give the role back, so *)
(* shutdown does, whoever has it.                                          *)
Finish ==
  /\ closing = "no" /\ ops < MaxOps
  /\ closing' = "release" /\ ops' = ops + 1
  /\ UNCHANGED <<clock, registry, dutywords, planvars, timed, timedUntil, keeper, polling,
                 idler, user>>

ShutdownForgets ==
  /\ closing = "release"
  /\ timedUntil' = Never
  /\ closing' = "unpark"
  /\ UNCHANGED <<clock, registry, dutywords, planvars, timed, keeper, polling, idler, user, ops>>

ShutdownReleases ==
  /\ closing = "unpark"
  /\ timed' = FALSE /\ unparked' = TRUE
  /\ closing' = "no"
  /\ UNCHANGED <<clock, registry, dutywords, halfDue, planned, timedUntil,
                 keeper, polling, idler, user, ops>>

-----------------------------------------------------------------------------
DutyNext ==
  \/ Tick
  \/ ForgetPlan \/ LockReg \/ ReadPromise \/ StorePlan \/ KeeperWakes
  \/ LowerHalfDue \/ UnparkKeeper
  \/ \E did \in BOOLEAN : KeeperPolled(did) \/ \E w \in Idler : IdlerPolled(w, did)
  \/ \E d \in Duty :
       \/ SkipDuty(d) \/ KeeperPolls(d)
       \/ NewWaiter(d) \/ DropWaiter(d) \/ Touch(d) \/ SetPeriod(d) \/ NewDuty(d) \/ DropDuty(d)
       \/ \E at \in 1..Horizon : SetDeadline(d, at)
  \/ \E w \in Idler :
       \/ SkipDuties(w) \/ ServeDuties(w) \/ ServedAll(w)
       \/ ParkBlind(w) \/ ReadDue(w) \/ ReadUntil(w) \/ TakeRole(w) \/ LeaveRole(w)
       \/ Promise(w) \/ FindWork(w) \/ ForgetPromise(w) \/ Release(w)
       \/ \E d \in Duty : IdlerSkips(w, d) \/ IdlerPolls(w, d)
  \/ Finish \/ ShutdownForgets \/ ShutdownReleases

DutySpec == DutyInit /\ [][DutyNext]_dutyvars
-----------------------------------------------------------------------------
(* Properties.                                                             *)

(* No due time is forgotten: while the keeper sleeps and no wake-up is on  *)
(* its way, its plan is not later than any due time but that of a duty     *)
(* whose replan is going on; or a worker has promised to look, and the plan*)
(* is later by its slack only.                                             *)
Kept(d) ==
  \/ planned <= Due(d)
  \/ d \in Anywhere /\ timed /\ planned <= Add(Due(d), Slack)

(* A period that was put back has moved the due time without a replan: such*)
(* a duty is looked at as late as the longest period has it.               *)
KeptLate(d) == d \in lowered /\ planned <= Add(last[d], Add(MaxPeriod, Slack))

DueTimesKept ==
  keeper.pc = "parked" /\ ~ unparked =>
    \A d \in reg : user.duty # d => Kept(d) \/ KeptLate(d)

(* A duty that was dropped is never polled again; nor do two polls run at  *)
(* once.                                                                   *)
PollsUnderLock ==
  \A t \in Idler \cup {K} : polling[t] # Nobody => regLock = t /\ polling[t] \in reg

(* A due time is not forgotten, and no poll outlives its duty.             *)
DutiesInv == DueTimesKept /\ PollsUnderLock
=============================================================================
