------------------------- MODULE DutyKeeper_proofs --------------------------
(***************************************************************************)
(* Proofs about DutyKeeper: no due time is forgotten and no poll outlives  *)
(* its duty, for any set of duties and workers.                            *)
(***************************************************************************)
EXTENDS DutyKeeper, WellFoundedInduction, TLAPS

(* What the words and the threads' own variables hold.                     *)
Time == 0 .. Never

KeeperState ==
  [pc : {"start", "lock", "visit", "polling", "plan", "parked"},
   left : SUBSET Duty, now : Nat, mine : Time, any : Time, until : Time]

IdlerState ==
  [pc : {"awake", "busy", "ready", "serve", "polling", "read", "take", "promise",
         "release", "released"},
   timed : BOOLEAN, left : SUBSET Duty, now : Nat, next : Time, until : Time]

UserState == [pc : {"idle", "half due", "unpark"}, duty : Duty \cup {Nobody}]

DutyTypeOK ==
  /\ clock \in 0 .. Horizon /\ ops \in Nat
  /\ reg \subseteq Duty /\ regLock \in Idler \cup {K, Nobody}
  /\ onDemand \subseteq Duty /\ lowered \subseteq Duty
  /\ last \in [Duty -> Nat] /\ period \in [Duty -> Time]
  /\ waiters \in [Duty -> Nat] /\ deadline \in [Duty -> Time] /\ idlePolls \in [Duty -> Nat]
  /\ halfDue \in Time /\ planned \in Time /\ timedUntil \in Time
  /\ unparked \in BOOLEAN /\ timed \in BOOLEAN
  /\ keeper \in KeeperState /\ idler \in [Idler -> IdlerState]
  /\ polling \in [Idler \cup {K} -> Duty \cup {Nobody}]
  /\ closing \in {"no", "release", "unpark"}
  /\ user \in UserState

(* Who has the registry's lock, and what it may rely on.                   *)
LockState ==
  /\ regLock = K <=> keeper.pc \in {"visit", "polling", "plan"}
  /\ \A w \in Idler : regLock = w <=> idler[w].pc \in {"serve", "polling"}
  /\ polling[K] # Nobody <=> keeper.pc = "polling"
  /\ \A w \in Idler : polling[w] # Nobody <=> idler[w].pc = "polling"
  /\ regLock = K => keeper.left \subseteq reg
  /\ \A w \in Idler : regLock = w => idler[w].left \subseteq reg
  /\ polling[K] # Nobody => polling[K] \in keeper.left
  /\ \A w \in Idler : polling[w] # Nobody => polling[w] \in reg

(* A duty's words: without an obligation it never backs off.               *)
WordState ==
  /\ \A d \in Duty :
       /\ last[d] <= clock
       /\ IF d \in onDemand THEN period[d] = Never ELSE period[d] \in MinPeriod .. MaxPeriod
  /\ user.pc = "idle" <=> user.duty = Nobody

(* A plan for the time p does not let d's due time pass.                   *)
Within(p, d) == p <= Due(d) \/ (d \in lowered /\ p <= Add(last[d], MaxPeriod))

(* While the keeper makes its plan, nothing that it accounted for has      *)
(* become due earlier, unless it will be told.                             *)
Accounted(d) == IF d \in KeeperOnly THEN keeper.mine ELSE keeper.any

PlanState ==
  /\ keeper.pc \in {"lock", "visit", "polling", "plan"} => planned = Never
  /\ keeper.pc = "plan" => keeper.left = {}
  /\ keeper.pc \in {"visit", "polling", "plan"} =>
       \A d \in reg \ keeper.left :
          unparked \/ user.duty = d \/ Within(Accounted(d), d)

DutyIInv == DutyTypeOK /\ LockState /\ WordState /\ PlanState /\ DueTimesKept

(* The minimum of a set that has one is in it.                             *)
LEMMA MinAttained ==
  ASSUME NEW S \in SUBSET Nat, \E x \in S : \A y \in S : x <= y
  PROVE  Min(S) \in S /\ \A y \in S : Min(S) <= y
BY DEF Min

(* The order that the well-founded induction of the library is about.      *)
LEMMA LessNat == \A x, y \in Nat : <<x, y>> \in OpToRel(<, Nat) <=> x < y
BY DEF OpToRel

(* The least of a set of times is a time that is not after any of them.    *)
LEMMA LeastTyped ==
  ASSUME NEW S \in SUBSET Time
  PROVE  Least(S) \in Time /\ \A y \in S : Least(S) <= y
<1>1. CASE S = {}
  BY <1>1, DutyAssumption DEF Least, Time
<1>2. CASE S # {}
  <2>0. S \in SUBSET Nat
    BY DEF Time
  <2>1. PICK m \in S : \A y \in S : ~ (<<y, m>> \in OpToRel(<, Nat))
    BY <1>2, <2>0, NatLessThanWellFounded, WFMin
  <2>2. \A y \in S : ~ (y < m)
    BY <2>0, <2>1, LessNat
  <2>3. \E x \in S : \A y \in S : x <= y
    BY <2>0, <2>2
  <2>4. QED
    BY <1>2, <2>0, <2>3, MinAttained DEF Least
<1>3. QED
  BY <1>1, <1>2

(* The least of two times.                                                 *)
LEMMA LeastTwo ==
  ASSUME NEW a \in Nat, NEW b \in Nat
  PROVE  Least({a, b}) = IF a <= b THEN a ELSE b
BY DEF Least, Min

(* A duty's due time, as a function of its words.                          *)
PeriodAt(p, w) == IF w > 0 THEN Least({p, WaitPeriod}) ELSE p
DueAt(l, p, w, e) == Least({Add(l, PeriodAt(p, w)), e})

(* Due reads the words of its duty.                                        *)
LEMMA DueIsAt ==
  /\ \A d : Due(d) = DueAt(last[d], period[d], waiters[d], deadline[d])
  /\ \A d : Due(d)' = DueAt(last'[d], period'[d], waiters'[d], deadline'[d])
BY DEF Due, DueAt, Period, PeriodAt

(* A waiter caps the period.                                               *)
LEMMA PeriodAtValue ==
  ASSUME NEW p \in Time, NEW w \in Nat
  PROVE  PeriodAt(p, w) = IF w > 0 /\ WaitPeriod < p THEN WaitPeriod ELSE p
BY LeastTwo, DutyAssumption DEF PeriodAt, Time

(* An addition of times saturates.                                         *)
LEMMA AddTyped ==
  ASSUME NEW l \in Nat, NEW p \in Nat
  PROVE  Add(l, p) \in Time
BY DutyAssumption DEF Add, Time

(* The due time is one period after the last poll, or the deadline.        *)
LEMMA DueAtValue ==
  ASSUME NEW l \in Nat, NEW p \in Time, NEW w \in Nat, NEW e \in Time
  PROVE  /\ Add(l, PeriodAt(p, w)) \in Time
         /\ DueAt(l, p, w, e) = IF Add(l, PeriodAt(p, w)) <= e
                                THEN Add(l, PeriodAt(p, w)) ELSE e
         /\ DueAt(l, p, w, e) \in Time
<1>1. PeriodAt(p, w) \in Nat
  BY PeriodAtValue, DutyAssumption DEF Time
<1>2. Add(l, PeriodAt(p, w)) \in Time
  BY <1>1, AddTyped
<1>3. QED
  BY <1>2, LeastTwo DEF DueAt, Time

(* It is not earlier when its words have grown, and a waiter more does not *)
(* count when there was one.                                               *)
LEMMA DueGrows ==
  ASSUME NEW l \in Nat, NEW p \in Time, NEW w \in Nat, NEW e \in Time,
         NEW m \in Nat, NEW q \in Time, NEW v \in Nat, NEW f \in Time,
         l <= m, p <= q, e <= f, v > 0 => w > 0
  PROVE  DueAt(l, p, w, e) <= DueAt(m, q, v, f)
<1>1. PeriodAt(p, w) <= PeriodAt(q, v) /\ PeriodAt(p, w) \in Nat /\ PeriodAt(q, v) \in Nat
  BY PeriodAtValue, DutyAssumption DEF Time
<1>2. Add(l, PeriodAt(p, w)) <= Add(m, PeriodAt(q, v))
  BY <1>1, DutyAssumption DEF Add
<1>3. /\ Add(l, PeriodAt(p, w)) \in Time
      /\ DueAt(l, p, w, e) = IF Add(l, PeriodAt(p, w)) <= e THEN Add(l, PeriodAt(p, w)) ELSE e
  BY DueAtValue
<1>4. /\ Add(m, PeriodAt(q, v)) \in Time
      /\ DueAt(m, q, v, f) = IF Add(m, PeriodAt(q, v)) <= f THEN Add(m, PeriodAt(q, v)) ELSE f
  BY DueAtValue
<1>5. QED
  BY <1>2, <1>3, <1>4 DEF Time

(* It is within a period of the last poll.                                 *)
LEMMA DueBound ==
  ASSUME NEW l \in Nat, NEW p \in Time, NEW w \in Nat, NEW e \in Time,
         NEW m \in Nat, l <= m, p <= MaxPeriod
  PROVE  DueAt(l, p, w, e) <= Add(m, MaxPeriod)
<1>1. PeriodAt(p, w) <= MaxPeriod /\ PeriodAt(p, w) \in Nat
  BY PeriodAtValue, DutyAssumption DEF Time
<1>2. Add(l, PeriodAt(p, w)) <= Add(m, MaxPeriod)
  BY <1>1, DutyAssumption DEF Add
<1>3. Add(m, MaxPeriod) \in Nat
  BY DutyAssumption DEF Add
<1>4. /\ Add(l, PeriodAt(p, w)) \in Time
      /\ DueAt(l, p, w, e) = IF Add(l, PeriodAt(p, w)) <= e THEN Add(l, PeriodAt(p, w)) ELSE e
  BY DueAtValue
<1>5. QED
  BY <1>2, <1>3, <1>4 DEF Time

(* A step that makes d due earlier only because a period was put back.     *)
Calm(d) ==
  /\ last[d] <= last'[d]
  /\ d \in lowered => d \in lowered'
  /\ Due(d) <= Due(d)' \/ (d \in lowered' /\ Due(d) <= Add(last'[d], MaxPeriod))

(* A due time is a time.                                                   *)
LEMMA DueTyped ==
  ASSUME DutyTypeOK, NEW d \in Duty
  PROVE  Due(d) \in Time
BY DueIsAt, DueAtValue DEF DutyTypeOK

(* The same after a step.                                                  *)
LEMMA DueTypedNext ==
  ASSUME DutyTypeOK', NEW d \in Duty
  PROVE  Due(d)' \in Time
BY DueIsAt, DueAtValue DEF DutyTypeOK

(* So is the plan.                                                         *)
LEMMA PlannedTyped ==
  ASSUME DutyTypeOK
  PROVE  planned \in Time
BY DEF DutyTypeOK

(* A plan that d is within stays so over a calm step.                      *)
LEMMA CalmWithin ==
  ASSUME DutyTypeOK, DutyTypeOK', NEW d \in Duty, Calm(d), NEW p \in Time, Within(p, d)
  PROVE  p <= Due(d)' \/ (d \in lowered' /\ p <= Add(last'[d], MaxPeriod))
<1>1. Due(d) \in Nat /\ Due(d)' \in Nat /\ p \in Nat
  BY DueTyped, DueTypedNext DEF Time
<1>2. last[d] \in Nat /\ last'[d] \in Nat
  BY DEF DutyTypeOK
<1>3. Add(last[d], MaxPeriod) <= Add(last'[d], MaxPeriod)
  BY <1>2, DutyAssumption DEF Calm, Add
<1>4. Add(last[d], MaxPeriod) \in Nat /\ Add(last'[d], MaxPeriod) \in Nat
  BY <1>2, DutyAssumption DEF Add
<1>5. QED
  BY <1>1, <1>3, <1>4 DEF Calm, Within

(* And a due time that is kept is kept over a calm step.                   *)
LEMMA CalmKept ==
  ASSUME DutyTypeOK, DutyTypeOK', NEW d \in Duty, Calm(d),
         planned' = planned, timed => timed',
         Kept(d) \/ KeptLate(d)
  PROVE  Kept(d)' \/ KeptLate(d)'
<1>0. Due(d) \in Time /\ Due(d)' \in Time /\ planned \in Time
  BY DueTyped, DueTypedNext, PlannedTyped
<1>1. Due(d) \in Nat /\ Due(d)' \in Nat /\ planned \in Nat
  BY <1>0 DEF Time
<1>2. last[d] \in Nat /\ last'[d] \in Nat
  BY DEF DutyTypeOK
<1>3. Add(last[d], Add(MaxPeriod, Slack)) <= Add(last'[d], Add(MaxPeriod, Slack))
  BY <1>2, DutyAssumption DEF Calm, Add
<1>4. CASE Due(d) <= Due(d)'
  <2>1. Add(Due(d), Slack) <= Add(Due(d)', Slack)
    BY <1>1, <1>4, DutyAssumption DEF Add
  <2>2. Add(Due(d), Slack) \in Nat /\ Add(Due(d)', Slack) \in Nat
    BY <1>1, DutyAssumption DEF Add
  <2>3. Kept(d) => Kept(d)'
    BY <1>1, <1>4, <2>1, <2>2 DEF Kept
  <2>4. KeptLate(d) => KeptLate(d)'
    BY <1>1, <1>2, <1>3, DutyAssumption DEF KeptLate, Calm, Add
  <2>5. QED
    BY <2>3, <2>4
<1>5. CASE d \in lowered' /\ Due(d) <= Add(last'[d], MaxPeriod)
  <2>1. Add(Due(d), Slack) <= Add(last'[d], Add(MaxPeriod, Slack))
    BY <1>1, <1>2, <1>5, DutyAssumption DEF Add
  <2>2. Due(d) <= Add(last'[d], Add(MaxPeriod, Slack))
    BY <1>1, <1>2, <1>5, DutyAssumption DEF Add
  <2>3. Kept(d) => KeptLate(d)'
    BY <1>1, <1>2, <1>5, <2>1, <2>2, DutyAssumption DEF Kept, KeptLate, Add
  <2>4. KeptLate(d) => KeptLate(d)'
    BY <1>1, <1>2, <1>3, DutyAssumption DEF KeptLate, Calm, Add
  <2>5. QED
    BY <2>3, <2>4
<1>6. QED
  BY <1>4, <1>5 DEF Calm

(* The constants are numbers.                                              *)
LEMMA NatConsts ==
  /\ MinPeriod \in Nat /\ MaxPeriod \in Nat /\ WaitPeriod \in Nat /\ Never \in Nat
  /\ Slack \in Nat /\ IdlePolls \in Nat /\ Horizon \in Nat
BY DutyAssumption

(* The periods are times.                                                  *)
LEMMA TimeConsts == Never \in Time /\ 0 \in Time /\ MaxPeriod \in Time /\ MinPeriod \in Time
BY DutyAssumption DEF Time

(* While the words of a duty stay, it is calm.                             *)
LEMMA Unmoved ==
  ASSUME DutyTypeOK, UNCHANGED dutywords, NEW d \in Duty
  PROVE  Calm(d)
<1>1. Due(d) \in Time /\ Due(d)' = Due(d)
  BY DueTyped DEF dutywords, Due, Period
<1>2. QED
  BY <1>1 DEF DutyTypeOK, Calm, dutywords, Time

(* A step that leaves the plan alone keeps it good, if the duties that it  *)
(* moves are calm or somebody is about to be told of them.                 *)
LEMMA CalmStep ==
  ASSUME DutyIInv, DutyTypeOK', keeper' = keeper, planned' = planned,
         unparked => unparked', timed => timed' \/ unparked',
         \A d \in reg' : \/ user'.duty = d
                         \/ d \in reg /\ user.duty # d /\ Calm(d)
  PROVE  PlanState' /\ DueTimesKept'
<1>1. PlanState'
  <2>1. ASSUME keeper.pc \in {"visit", "polling", "plan"}, NEW d \in reg' \ keeper.left,
               ~ unparked', user'.duty # d
        PROVE  Within(Accounted(d), d)'
    <3>1. d \in reg /\ d \in Duty /\ Calm(d) /\ user.duty # d /\ ~ unparked
      BY <2>1 DEF DutyTypeOK
    <3>2. Within(Accounted(d), d)
      BY <2>1, <3>1 DEF DutyIInv, PlanState
    <3>3. Accounted(d) \in Time /\ Accounted(d)' = Accounted(d)
      BY DEF DutyTypeOK, KeeperState, Accounted
    <3>4. QED
      BY <3>1, <3>2, <3>3, CalmWithin DEF DutyIInv, Within
  <2>2. QED
    BY <2>1 DEF DutyIInv, PlanState
<1>2. DueTimesKept'
  <2> SUFFICES ASSUME keeper.pc = "parked", ~ unparked', NEW d \in reg', user'.duty # d
               PROVE  Kept(d)' \/ KeptLate(d)'
    BY DEF DueTimesKept
  <2>1. d \in reg /\ d \in Duty /\ Calm(d) /\ user.duty # d /\ ~ unparked
    BY DEF DutyTypeOK
  <2>2. Kept(d) \/ KeptLate(d)
    BY <2>1 DEF DutyIInv, DueTimesKept
  <2>3. QED
    BY <2>1, <2>2, CalmKept DEF DutyIInv
<1>3. QED
  BY <1>1, <1>2

(* Most steps do not touch a duty.                                         *)
LEMMA StillStep ==
  ASSUME DutyIInv, DutyTypeOK', UNCHANGED <<dutywords, keeper, planned>>,
         unparked => unparked', timed => timed' \/ unparked',
         reg' \subseteq reg, user'.duty = user.duty
  PROVE  PlanState' /\ DueTimesKept'
<1>1. \A d \in reg : Calm(d)
  BY Unmoved DEF DutyIInv, DutyTypeOK
<1>2. QED
  BY <1>1, CalmStep

(* A duty whose words grow is not due earlier.                             *)
LEMMA DueLater ==
  ASSUME DutyTypeOK, DutyTypeOK', NEW d \in Duty,
         last[d] <= last'[d], period[d] <= period'[d], deadline[d] <= deadline'[d],
         waiters'[d] > 0 => waiters[d] > 0
  PROVE  Due(d) <= Due(d)'
<1>1. /\ last[d] \in Nat /\ period[d] \in Time /\ waiters[d] \in Nat /\ deadline[d] \in Time
      /\ last'[d] \in Nat /\ period'[d] \in Time /\ waiters'[d] \in Nat /\ deadline'[d] \in Time
  BY DEF DutyTypeOK
<1>2. DueAt(last[d], period[d], waiters[d], deadline[d])
        <= DueAt(last'[d], period'[d], waiters'[d], deadline'[d])
  BY <1>1, DueGrows
<1>3. QED
  BY <1>2, DueIsAt

(* A duty with a period is due within the longest period.                  *)
LEMMA DueSoon ==
  ASSUME DutyTypeOK, NEW d \in Duty, NEW m \in Nat, last[d] <= m, period[d] <= MaxPeriod
  PROVE  Due(d) <= Add(m, MaxPeriod)
<1>1. last[d] \in Nat /\ period[d] \in Time /\ waiters[d] \in Nat /\ deadline[d] \in Time
  BY DEF DutyTypeOK
<1>2. DueAt(last[d], period[d], waiters[d], deadline[d]) <= Add(m, MaxPeriod)
  BY <1>1, DueBound
<1>3. QED
  BY <1>2, DueIsAt

(* What makes a step calm: the words grow, or the period is put back.      *)
LEMMA CalmIf ==
  ASSUME DutyTypeOK, DutyTypeOK', WordState, NEW d \in Duty,
         last[d] <= last'[d], deadline[d] <= deadline'[d],
         waiters'[d] > 0 => waiters[d] > 0, d \in lowered => d \in lowered',
         period[d] <= period'[d] \/ (d \in lowered' /\ d \notin onDemand)
  PROVE  Calm(d)
<1>1. CASE period[d] <= period'[d]
  BY <1>1, DueLater DEF Calm
<1>2. CASE d \in lowered' /\ d \notin onDemand
  <2>1. period[d] <= MaxPeriod
    BY <1>2 DEF WordState
  <2>2. last'[d] \in Nat
    BY DEF DutyTypeOK
  <2>3. Due(d) <= Add(last'[d], MaxPeriod)
    BY <2>1, <2>2, DueSoon
  <2>4. QED
    BY <1>2, <2>3 DEF Calm
<1>3. QED
  BY <1>1, <1>2

(* What the threads read off the duties is a time.                         *)
LEMMA HalfDueTyped ==
  ASSUME DutyTypeOK, NEW d \in Duty
  PROVE  HalfDue(d) \in Time
<1>1. last[d] \in Nat /\ period[d] \in Time /\ waiters[d] \in Nat /\ deadline[d] \in Time
  BY DEF DutyTypeOK
<1>2. Period(d) \in Nat
  <2>1. Period(d) = PeriodAt(period[d], waiters[d])
    BY DEF Period, PeriodAt
  <2>2. QED
    BY <1>1, <2>1, PeriodAtValue, NatConsts DEF Time
<1>3. (IF waiters[d] > 0 THEN 0 ELSE Period(d) \div 2) \in Nat
  BY <1>1, <1>2
<1>4. Add(last[d], IF waiters[d] > 0 THEN 0 ELSE Period(d) \div 2) \in Time
  BY <1>1, <1>3, AddTyped
<1>5. QED
  BY <1>1, <1>4, LeastTyped DEF HalfDue

LEMMA LeastsTyped ==
  ASSUME DutyTypeOK
  PROVE  /\ LeastHalfDue(reg) \in Time
         /\ Least({Due(d) : d \in reg \cap Anywhere}) \in Time
<1>1. reg \cap Anywhere \subseteq Duty
  BY DEF Anywhere
<1>2. {HalfDue(d) : d \in reg \cap Anywhere} \in SUBSET Time
  BY <1>1, HalfDueTyped
<1>3. {Due(d) : d \in reg \cap Anywhere} \in SUBSET Time
  BY <1>1, DueTyped
<1>4. QED
  BY <1>2, <1>3, LeastTyped DEF LeastHalfDue

(* The end of a poll.                                                      *)
LEMMA EndPollMoves ==
  ASSUME DutyTypeOK, WordState, NEW t \in Idler \cup {K}, NEW did \in BOOLEAN,
         polling[t] \in Duty, EndPoll(t, did)
  PROVE  /\ last' = [last EXCEPT ![polling[t]] = clock]
         /\ last' \in [Duty -> Nat] /\ period' \in [Duty -> Time]
         /\ idlePolls' \in [Duty -> Nat] /\ lowered' \subseteq Duty
         /\ polling' = [polling EXCEPT ![t] = Nobody]
         /\ \A d \in Duty : /\ last[d] <= last'[d] /\ last'[d] <= clock
                            /\ IF d \in onDemand THEN period'[d] = Never
                               ELSE period'[d] \in MinPeriod .. MaxPeriod
                            /\ d # polling[t] => period'[d] = period[d]
                            /\ t # K \/ d # polling[t] => (d \in lowered => d \in lowered')
                            /\ t # K =>
                                 period[d] <= period'[d] \/ (d \in lowered' /\ d \notin onDemand)
<1> DEFINE e == polling[t]
<1>0. /\ last \in [Duty -> Nat] /\ period \in [Duty -> Time] /\ idlePolls \in [Duty -> Nat]
      /\ lowered \subseteq Duty /\ clock \in Nat
      /\ MinOf(e) = IF e \in onDemand THEN Never ELSE MinPeriod
      /\ MaxOf(e) = IF e \in onDemand THEN Never ELSE MaxPeriod
  BY DEF DutyTypeOK, MinOf, MaxOf
<1>1. period' \in [Duty -> Time] /\ \A d \in Duty \ {e} : period'[d] = period[d]
  <2>1. did => period' = [period EXCEPT ![e] = MinOf(e)]
    BY DEF EndPoll
  <2>2. ~ did => period' = [period EXCEPT ![e] = Least({2 * period[e], MaxPeriod})] \/ period' = period
    BY <1>0 DEF EndPoll
  <2>3. MinOf(e) \in Time /\ Least({2 * period[e], MaxPeriod}) \in Time
    <3>1. 2 * period[e] \in Nat /\ MaxPeriod \in Nat
      BY <1>0, NatConsts DEF Time
    <3>2. Least({2 * period[e], MaxPeriod}) = IF 2 * period[e] <= MaxPeriod THEN 2 * period[e] ELSE MaxPeriod
      BY <3>1, LeastTwo
    <3>3. MaxPeriod <= Never
      BY DutyAssumption
    <3>4. QED
      BY <1>0, <3>1, <3>2, <3>3, TimeConsts DEF Time
  <2>4. QED
    BY <1>0, <2>1, <2>2, <2>3
<1>2. last' = [last EXCEPT ![e] = clock] /\ polling' = [polling EXCEPT ![t] = Nobody]
  BY DEF EndPoll
<1>3. idlePolls' \in [Duty -> Nat]
  BY <1>0 DEF EndPoll
<1>4. lowered' \subseteq Duty /\ \A d \in Duty : t # K \/ d # e => (d \in lowered => d \in lowered')
  BY <1>0 DEF EndPoll, PutBack
<1>5. /\ IF e \in onDemand THEN period'[e] = Never ELSE period'[e] \in MinPeriod .. MaxPeriod
      /\ t # K => period[e] <= period'[e] \/ (e \in lowered' /\ e \notin onDemand)
  <2>0. IF e \in onDemand THEN period[e] = Never ELSE period[e] \in MinPeriod .. MaxPeriod
    BY DEF WordState
  <2>1. CASE did
    <3>1. period'[e] = MinOf(e) /\ (t # K => lowered' = PutBack(e))
      BY <1>0, <2>1 DEF EndPoll
    <3>2. QED
      BY <1>0, <2>0, <3>1, NatConsts DEF PutBack
  <2>2. CASE ~ did
    <3>1. \/ period'[e] = period[e]
          \/ e \notin onDemand /\ period'[e] = Least({2 * period[e], MaxPeriod})
      BY <1>0, <2>2, NatConsts DEF EndPoll
    <3>2. CASE e \notin onDemand /\ period'[e] = Least({2 * period[e], MaxPeriod})
      <4>1. period[e] \in Nat /\ 2 * period[e] \in Nat /\ MinPeriod <= period[e] /\ period[e] <= MaxPeriod
        BY <2>0, <3>2, NatConsts
      <4>2. period'[e] = IF 2 * period[e] <= MaxPeriod THEN 2 * period[e] ELSE MaxPeriod
        BY <3>2, <4>1, NatConsts, LeastTwo
      <4>3. QED
        BY <3>2, <4>1, <4>2, NatConsts
    <3>3. QED
      BY <1>1, <2>0, <3>1, <3>2, NatConsts
  <2>3. QED
    BY <2>1, <2>2
<1>6. QED
  <2>1. \A d \in Duty : last[d] <= last'[d] /\ last'[d] <= clock
    BY <1>0, <1>2 DEF WordState
  <2>2. \A d \in Duty \ {e} : /\ period'[d] = period[d] /\ period[d] <= period'[d]
                              /\ IF d \in onDemand THEN period'[d] = Never
                                 ELSE period'[d] \in MinPeriod .. MaxPeriod
    BY <1>0, <1>1 DEF WordState, Time
  <2>3. last' \in [Duty -> Nat]
    BY <1>0, <1>2
  <2>4. QED
    BY <1>1, <1>2, <1>3, <1>4, <1>5, <2>1, <2>2, <2>3

(* The keeper's account of d's due time counts in its plan, and what was   *)
(* accounted before still does.                                            *)
LEMMA AccountTyped ==
  ASSUME keeper \in KeeperState, NEW d \in Duty, NEW p \in Time
  PROVE  /\ Account(d, p) \in KeeperState
         /\ Account(d, p).pc = "visit" /\ Account(d, p).left = keeper.left \ {d}
         /\ Account(d, p).mine <= keeper.mine /\ Account(d, p).any <= keeper.any
         /\ IF d \in KeeperOnly THEN Account(d, p).mine <= p ELSE Account(d, p).any <= p
<1>1. /\ Least({keeper.mine, p}) \in Time /\ Least({keeper.any, p}) \in Time
      /\ Least({keeper.mine, p}) <= keeper.mine /\ Least({keeper.mine, p}) <= p
      /\ Least({keeper.any, p}) <= keeper.any /\ Least({keeper.any, p}) <= p
  BY LeastTyped DEF KeeperState
<1>2. keeper.mine <= keeper.mine /\ keeper.any <= keeper.any
  BY DEF KeeperState, Time
<1>3. QED
  BY <1>1, <1>2 DEF Account, KeeperState

(* While the keeper goes round, it accounts for what it leaves behind, and *)
(* the rest of what it has accounted for stays calm.                       *)
LEMMA RoundStep ==
  ASSUME DutyIInv, DutyTypeOK',
         keeper.pc \in {"visit", "polling", "plan"}, keeper'.pc \in {"visit", "polling", "plan"},
         UNCHANGED <<planned, unparked, user, reg>>,
         keeper'.mine <= keeper.mine, keeper'.any <= keeper.any,
         keeper'.pc = "plan" => keeper'.left = {},
         \A d \in reg \ keeper'.left :
            Accounted(d)' <= Due(d)' \/ (d \notin keeper.left /\ Calm(d))
  PROVE  PlanState' /\ DueTimesKept'
<1>1. ASSUME NEW d \in reg \ keeper'.left, ~ unparked, user.duty # d
      PROVE  Within(Accounted(d), d)'
  <2>1. CASE Accounted(d)' <= Due(d)'
    BY <2>1 DEF Within
  <2>2. CASE d \notin keeper.left /\ Calm(d)
    <3>1. d \in Duty /\ Accounted(d) \in Time /\ Accounted(d)' \in Time /\ Due(d)' \in Time
      BY DueTypedNext DEF DutyIInv, DutyTypeOK, KeeperState, Accounted
    <3>2. Within(Accounted(d), d)
      BY <1>1, <2>2 DEF DutyIInv, PlanState
    <3>3. Accounted(d) <= Due(d)' \/ (d \in lowered' /\ Accounted(d) <= Add(last'[d], MaxPeriod))
      BY <2>2, <3>1, <3>2, CalmWithin DEF DutyIInv
    <3>4. Accounted(d)' <= Accounted(d)
      BY DEF Accounted
    <3>5. Add(last'[d], MaxPeriod) \in Time
      <4>1. last'[d] \in Nat
        BY <3>1 DEF DutyTypeOK
      <4>2. QED
        BY <4>1, AddTyped, NatConsts
    <3>6. QED
      BY <3>1, <3>3, <3>4, <3>5 DEF Within, Time
  <2>3. QED
    BY <1>1, <2>1, <2>2
<1>2. planned' = Never
  BY DEF DutyIInv, PlanState
<1>3. QED
  BY <1>1, <1>2 DEF PlanState, DueTimesKept

(* Time passes: only the clock moves.                                      *)
LEMMA TickKeeps ==
  ASSUME DutyIInv, Tick
  PROVE  DutyIInv'
<1>1. DutyTypeOK'
  BY NatConsts DEF DutyIInv, DutyTypeOK, Tick, registry, dutywords, planvars
<1>2. LockState'
  BY DEF DutyIInv, LockState, Tick, registry
<1>3. WordState'
  BY DEF DutyIInv, DutyTypeOK, WordState, Tick, dutywords
<1>4. PlanState' /\ DueTimesKept'
  BY <1>1, StillStep DEF Tick, registry, planvars
<1>5. QED
  BY <1>1, <1>2, <1>3, <1>4 DEF DutyIInv

(* run_idle: nothing is half due, or the registry is taken.                *)
LEMMA SkipDutiesKeeps ==
  ASSUME DutyIInv, NEW w \in Idler, SkipDuties(w)
  PROVE  DutyIInv'
<1>1. DutyTypeOK'
  BY ThreadAssumption
  DEF DutyIInv, DutyTypeOK, IdlerState, SkipDuties, Moves, registry, dutywords,
      planvars
<1>2. LockState'
  BY DEF AtIdler, DutyIInv, LockState, SkipDuties, Moves, registry
<1>3. WordState'
  BY DEF DutyIInv, WordState, SkipDuties, Moves, dutywords
<1>4. PlanState' /\ DueTimesKept'
  BY <1>1, StillStep DEF SkipDuties, Moves, registry, planvars
<1>5. QED
  BY <1>1, <1>2, <1>3, <1>4 DEF DutyIInv

(* run_idle takes the registry's lock for the duties that any thread may poll. *)
LEMMA ServeDutiesKeeps ==
  ASSUME DutyIInv, NEW w \in Idler, ServeDuties(w)
  PROVE  DutyIInv'
<1>1. DutyTypeOK'
  <2>1. reg \cap Anywhere \in SUBSET Duty /\ clock \in Nat
    BY DEF DutyIInv, DutyTypeOK
  <2>2. [idler[w] EXCEPT !.pc = "serve", !.left = reg \cap Anywhere, !.now = clock] \in IdlerState
    BY <2>1 DEF DutyIInv, DutyTypeOK, IdlerState
  <2>3. idler' \in [Idler -> IdlerState]
    BY <2>2 DEF DutyIInv, DutyTypeOK, ServeDuties, Moves
  <2>4. QED
    BY <2>3 DEF DutyIInv, DutyTypeOK, ServeDuties, dutywords, planvars
<1>2. LockState'
  BY ThreadAssumption DEF DutyIInv, DutyTypeOK, LockState, ServeDuties, Moves
<1>3. WordState'
  BY DEF DutyIInv, WordState, ServeDuties, Moves, dutywords
<1>4. PlanState' /\ DueTimesKept'
  BY <1>1, StillStep DEF ServeDuties, Moves, planvars
<1>5. QED
  BY <1>1, <1>2, <1>3, <1>4 DEF DutyIInv

(* run_idle: a duty that is not half due is left.                          *)
LEMMA IdlerSkipsKeeps ==
  ASSUME DutyIInv, NEW w \in Idler, NEW d \in Duty, IdlerSkips(w, d)
  PROVE  DutyIInv'
<1>1. DutyTypeOK'
  BY DEF DutyIInv, DutyTypeOK, IdlerState, IdlerSkips, Moves, registry,
      dutywords, planvars
<1>2. LockState'
  BY DEF DutyIInv, LockState, IdlerSkips, Moves, registry
<1>3. WordState'
  BY DEF DutyIInv, WordState, IdlerSkips, Moves, dutywords
<1>4. PlanState' /\ DueTimesKept'
  BY <1>1, StillStep DEF IdlerSkips, Moves, registry, planvars
<1>5. QED
  BY <1>1, <1>2, <1>3, <1>4 DEF DutyIInv

(* park_timeout: the registry is taken, and the worker parks as it is.     *)
LEMMA ParkBlindKeeps ==
  ASSUME DutyIInv, NEW w \in Idler, ParkBlind(w)
  PROVE  DutyIInv'
<1>1. DutyTypeOK'
  BY ThreadAssumption
  DEF DutyIInv, DutyTypeOK, IdlerState, ParkBlind, Moves, registry, dutywords,
      planvars
<1>2. LockState'
  BY DEF AtIdler, DutyIInv, LockState, ParkBlind, Moves, registry
<1>3. WordState'
  BY DEF DutyIInv, WordState, ParkBlind, Moves, dutywords
<1>4. PlanState' /\ DueTimesKept'
  BY <1>1, StillStep DEF ParkBlind, Moves, registry, planvars
<1>5. QED
  BY <1>1, <1>2, <1>3, <1>4 DEF DutyIInv

(* park_timeout reads the earliest due time under the lock.                *)
LEMMA ReadDueKeeps ==
  ASSUME DutyIInv, NEW w \in Idler, ReadDue(w)
  PROVE  DutyIInv'
<1>1. DutyTypeOK'
  <2> DEFINE next == Least({Due(d) : d \in reg \cap Anywhere})
             to == IF next = Never THEN (IF idler[w].timed THEN "release" ELSE "awake")
                   ELSE IF idler[w].timed THEN "take" ELSE "read"
  <2>1. next \in Time
    BY LeastsTyped DEF DutyIInv
  <2>2. to \in {"release", "awake", "take", "read"}
    OBVIOUS
  <2>3. \A t \in {"release", "awake", "take", "read"}, n \in Time :
          [idler[w] EXCEPT !.next = n, !.pc = t] \in IdlerState
    BY DEF DutyIInv, DutyTypeOK, IdlerState
  <2>4. idler' = [idler EXCEPT ![w] = [idler[w] EXCEPT !.next = next, !.pc = to]]
    BY DEF ReadDue, Moves
  <2>5. idler' \in [Idler -> IdlerState]
    <3> HIDE DEF next, to
    <3>1. QED
      BY <2>1, <2>2, <2>3, <2>4 DEF DutyIInv, DutyTypeOK
  <2>6. QED
    BY <2>5 DEF DutyIInv, DutyTypeOK, ReadDue, registry, dutywords, planvars
<1>2. LockState'
  BY DEF AtIdler, DutyIInv, LockState, ReadDue, Moves, registry
<1>3. WordState'
  BY DEF DutyIInv, WordState, ReadDue, Moves, dutywords
<1>4. PlanState' /\ DueTimesKept'
  BY <1>1, StillStep DEF ReadDue, Moves, registry, planvars
<1>5. QED
  BY <1>1, <1>2, <1>3, <1>4 DEF DutyIInv

(* park_timeout reads the promise of the worker that keeps the due times.  *)
LEMMA ReadUntilKeeps ==
  ASSUME DutyIInv, NEW w \in Idler, ReadUntil(w)
  PROVE  DutyIInv'
<1>1. DutyTypeOK'
  <2>1. idler' \in [Idler -> IdlerState]
    BY NatConsts, TimeConsts
    DEF DutyIInv, DutyTypeOK, IdlerState, ReadUntil, AtIdler, Moves
  <2>2. QED
    BY <2>1 DEF DutyIInv, DutyTypeOK, ReadUntil, registry, dutywords, planvars
<1>2. LockState'
  BY DEF AtIdler, DutyIInv, LockState, ReadUntil, Moves, registry
<1>3. WordState'
  BY DEF DutyIInv, WordState, ReadUntil, Moves, dutywords
<1>4. PlanState' /\ DueTimesKept'
  BY <1>1, StillStep DEF ReadUntil, Moves, registry, planvars
<1>5. QED
  BY <1>1, <1>2, <1>3, <1>4 DEF DutyIInv

(* park_timeout: the worker becomes the one that keeps the due times.      *)
LEMMA TakeRoleKeeps ==
  ASSUME DutyIInv, NEW w \in Idler, TakeRole(w)
  PROVE  DutyIInv'
<1>1. DutyTypeOK'
  <2>1. idler' \in [Idler -> IdlerState]
    BY NatConsts, TimeConsts
    DEF DutyIInv, DutyTypeOK, IdlerState, TakeRole, AtIdler, Moves
  <2>2. QED
    BY <2>1 DEF DutyIInv, DutyTypeOK, TakeRole, registry, dutywords, planvars
<1>2. LockState'
  BY DEF AtIdler, DutyIInv, LockState, TakeRole, Moves, registry
<1>3. WordState'
  BY DEF DutyIInv, WordState, TakeRole, Moves, dutywords
<1>4. PlanState' /\ DueTimesKept'
  BY <1>1, StillStep DEF TakeRole, Moves, registry, planvars
<1>5. QED
  BY <1>1, <1>2, <1>3, <1>4 DEF DutyIInv

(* park_timeout: another worker has not broken its promise.                *)
LEMMA LeaveRoleKeeps ==
  ASSUME DutyIInv, NEW w \in Idler, LeaveRole(w)
  PROVE  DutyIInv'
<1>1. DutyTypeOK'
  BY TimeConsts
  DEF DutyIInv, DutyTypeOK, IdlerState, LeaveRole, Moves, Idling, registry,
      dutywords, planvars
<1>2. LockState'
  BY DEF AtIdler, DutyIInv, LockState, LeaveRole, Moves, Idling, registry
<1>3. WordState'
  BY DEF DutyIInv, WordState, LeaveRole, Moves, Idling, dutywords
<1>4. PlanState' /\ DueTimesKept'
  BY <1>1, StillStep DEF LeaveRole, Moves, Idling, registry, planvars
<1>5. QED
  BY <1>1, <1>2, <1>3, <1>4 DEF DutyIInv

(* park_timeout: the worker says when it will look.                        *)
LEMMA PromiseKeeps ==
  ASSUME DutyIInv, NEW w \in Idler, Promise(w)
  PROVE  DutyIInv'
<1>1. DutyTypeOK'
  <2>1. idler' \in [Idler -> IdlerState] /\ timedUntil' \in Time
    BY TimeConsts DEF DutyIInv, DutyTypeOK, IdlerState, Promise, AtIdler, Moves
  <2>2. QED
    BY <2>1 DEF DutyIInv, DutyTypeOK, Promise, registry, dutywords, planvars
<1>2. LockState'
  BY DEF AtIdler, DutyIInv, LockState, Promise, Moves, registry
<1>3. WordState'
  BY DEF DutyIInv, WordState, Promise, Moves, dutywords
<1>4. PlanState' /\ DueTimesKept'
  BY <1>1, StillStep DEF Promise, Moves, registry, planvars
<1>5. QED
  BY <1>1, <1>2, <1>3, <1>4 DEF DutyIInv

(* work_found: the worker is about to give the role back.                  *)
LEMMA FindWorkKeeps ==
  ASSUME DutyIInv, NEW w \in Idler, FindWork(w)
  PROVE  DutyIInv'
<1>1. DutyTypeOK'
  BY TimeConsts
  DEF DutyIInv, DutyTypeOK, IdlerState, FindWork, Moves, Idling, registry,
      dutywords, planvars
<1>2. LockState'
  BY DEF AtIdler, DutyIInv, LockState, FindWork, Moves, Idling, registry
<1>3. WordState'
  BY DEF DutyIInv, WordState, FindWork, Moves, Idling, dutywords
<1>4. PlanState' /\ DueTimesKept'
  BY <1>1, StillStep DEF FindWork, Moves, Idling, registry, planvars
<1>5. QED
  BY <1>1, <1>2, <1>3, <1>4 DEF DutyIInv

(* work_found: the promise is withdrawn first.                             *)
LEMMA ForgetPromiseKeeps ==
  ASSUME DutyIInv, NEW w \in Idler, ForgetPromise(w)
  PROVE  DutyIInv'
<1>1. DutyTypeOK'
  BY TimeConsts
  DEF DutyIInv, DutyTypeOK, IdlerState, ForgetPromise, Moves, Idling, registry,
      dutywords, planvars
<1>2. LockState'
  BY DEF AtIdler, DutyIInv, LockState, ForgetPromise, Moves, Idling, registry
<1>3. WordState'
  BY DEF DutyIInv, WordState, ForgetPromise, Moves, Idling, dutywords
<1>4. PlanState' /\ DueTimesKept'
  BY <1>1, StillStep DEF ForgetPromise, Moves, Idling, registry, planvars
<1>5. QED
  BY <1>1, <1>2, <1>3, <1>4 DEF DutyIInv

(* work_found: the role is given back, and the keeper woken, in one step.  *)
LEMMA ReleaseKeeps ==
  ASSUME DutyIInv, NEW w \in Idler, Release(w)
  PROVE  DutyIInv'
<1>1. DutyTypeOK'
  BY TimeConsts
  DEF DutyIInv, DutyTypeOK, IdlerState, Release, Moves, Idling, registry,
      dutywords
<1>2. LockState'
  BY DEF AtIdler, DutyIInv, LockState, Release, Moves, Idling, registry
<1>3. WordState'
  BY DEF DutyIInv, WordState, Release, Moves, Idling, dutywords
<1>4. PlanState' /\ DueTimesKept'
  BY <1>1, StillStep DEF Release, Moves, Idling, registry
<1>5. QED
  BY <1>1, <1>2, <1>3, <1>4 DEF DutyIInv

(* run_idle, at its end: the hint is brought up to date, the lock is released. *)
LEMMA ServedAllKeeps ==
  ASSUME DutyIInv, NEW w \in Idler, ServedAll(w)
  PROVE  DutyIInv'
<1>1. DutyTypeOK'
  <2>1. idler' \in [Idler -> IdlerState]
    BY DEF DutyIInv, DutyTypeOK, IdlerState, ServedAll, AtIdler, Moves
  <2>2. LeastHalfDue(reg) \in Time
    BY LeastsTyped DEF DutyIInv
  <2>3. QED
    BY <2>1, <2>2 DEF DutyIInv, DutyTypeOK, ServedAll, dutywords
<1>2. LockState'
  BY ThreadAssumption DEF AtIdler, DutyIInv, DutyTypeOK, LockState, ServedAll, Moves
<1>3. WordState'
  BY DEF DutyIInv, WordState, ServedAll, Moves, dutywords
<1>4. PlanState' /\ DueTimesKept'
  BY <1>1, StillStep DEF ServedAll, Moves
<1>5. QED
  BY <1>1, <1>2, <1>3, <1>4 DEF DutyIInv

(* A pool is about to be finished.                                         *)
LEMMA FinishKeeps ==
  ASSUME DutyIInv, Finish
  PROVE  DutyIInv'
<1>1. DutyTypeOK'
  BY DEF DutyIInv, DutyTypeOK, Finish, registry, dutywords, planvars
<1>2. LockState'
  BY DEF DutyIInv, LockState, Finish, registry
<1>3. WordState'
  BY DEF DutyIInv, WordState, Finish, dutywords
<1>4. PlanState' /\ DueTimesKept'
  BY <1>1, StillStep DEF Finish, registry, planvars
<1>5. QED
  BY <1>1, <1>2, <1>3, <1>4 DEF DutyIInv

(* shutdown withdraws the promise.                                         *)
LEMMA ShutdownForgetsKeeps ==
  ASSUME DutyIInv, ShutdownForgets
  PROVE  DutyIInv'
<1>1. DutyTypeOK'
  BY TimeConsts
  DEF DutyIInv, DutyTypeOK, ShutdownForgets, registry, dutywords, planvars
<1>2. LockState'
  BY DEF DutyIInv, LockState, ShutdownForgets, registry
<1>3. WordState'
  BY DEF DutyIInv, WordState, ShutdownForgets, dutywords
<1>4. PlanState' /\ DueTimesKept'
  BY <1>1, StillStep DEF ShutdownForgets, registry, planvars
<1>5. QED
  BY <1>1, <1>2, <1>3, <1>4 DEF DutyIInv

(* shutdown gives the role back and wakes the keeper.                      *)
LEMMA ShutdownReleasesKeeps ==
  ASSUME DutyIInv, ShutdownReleases
  PROVE  DutyIInv'
<1>1. DutyTypeOK'
  BY DEF DutyIInv, DutyTypeOK, ShutdownReleases, registry, dutywords
<1>2. LockState'
  BY DEF DutyIInv, LockState, ShutdownReleases, registry
<1>3. WordState'
  BY DEF DutyIInv, WordState, ShutdownReleases, dutywords
<1>4. PlanState' /\ DueTimesKept'
  BY <1>1, StillStep DEF ShutdownReleases, registry
<1>5. QED
  BY <1>1, <1>2, <1>3, <1>4 DEF DutyIInv

(* replan lowers the hint; its duty is still the user's.                   *)
LEMMA LowerHalfDueKeeps ==
  ASSUME DutyIInv, LowerHalfDue
  PROVE  DutyIInv'
<1>1. DutyTypeOK'
  <2>1. user' \in UserState /\ user.duty \in Duty
    BY DEF DutyIInv, DutyTypeOK, UserState, WordState, LowerHalfDue
  <2>2. Least({halfDue, HalfDue(user.duty)}) \in Time
    BY <2>1, HalfDueTyped, LeastTyped DEF DutyIInv, DutyTypeOK
  <2>3. QED
    BY <2>1, <2>2 DEF DutyIInv, DutyTypeOK, LowerHalfDue, registry, dutywords
<1>2. LockState'
  BY DEF DutyIInv, LockState, LowerHalfDue, registry
<1>3. WordState'
  BY DEF DutyIInv, DutyTypeOK, WordState, UserState, LowerHalfDue, dutywords
<1>4. PlanState' /\ DueTimesKept'
  <2>1. user'.duty = user.duty
    BY DEF DutyIInv, DutyTypeOK, UserState, LowerHalfDue
  <2>2. UNCHANGED <<dutywords, keeper, planned, unparked, timed, reg>>
    BY DEF LowerHalfDue, registry
  <2>3. QED
    BY <1>1, <2>1, <2>2, StillStep
<1>5. QED
  BY <1>1, <1>2, <1>3, <1>4 DEF DutyIInv

(* A duty that is dropped under the lock is polled by nobody.              *)
LEMMA DropDutyKeeps ==
  ASSUME DutyIInv, NEW d \in Duty, DropDuty(d)
  PROVE  DutyIInv'
<1>1. DutyTypeOK'
  BY DEF DutyIInv, DutyTypeOK, DropDuty, UserStarts, dutywords, planvars
<1>2. LockState'
  BY ThreadAssumption DEF DutyIInv, LockState, DropDuty, UserStarts
<1>3. WordState'
  BY DEF DutyIInv, WordState, DropDuty, UserStarts, dutywords
<1>4. PlanState' /\ DueTimesKept'
  BY <1>1, StillStep DEF DropDuty, UserStarts, planvars
<1>5. QED
  BY <1>1, <1>2, <1>3, <1>4 DEF DutyIInv

(* run, by a worker: clearing the deadline can only make the duty due later. *)
LEMMA IdlerPollsKeeps ==
  ASSUME DutyIInv, NEW w \in Idler, NEW d \in Duty, IdlerPolls(w, d)
  PROVE  DutyIInv'
<1>1. DutyTypeOK'
  <2>1. idler' \in [Idler -> IdlerState]
    BY DEF DutyIInv, DutyTypeOK, IdlerState, IdlerPolls, AtIdler, Moves
  <2>2. QED
    BY <2>1, TimeConsts
    DEF DutyIInv, DutyTypeOK, IdlerPolls, StartPoll, registry, planvars
<1>2. LockState'
  BY ThreadAssumption
  DEF AtIdler, DutyIInv, DutyTypeOK, LockState, IdlerPolls, Moves, StartPoll, registry
<1>3. WordState'
  BY DEF DutyIInv, WordState, IdlerPolls, Moves, StartPoll
<1>4. PlanState' /\ DueTimesKept'
  <2>1. \A e \in Duty : Calm(e)
    <3>1. ASSUME NEW e \in Duty PROVE Calm(e)
      <4>1. /\ last'[e] = last[e] /\ period'[e] = period[e] /\ lowered' = lowered
            /\ waiters' = waiters /\ deadline'[e] \in {deadline[e], Never}
        BY DEF IdlerPolls, StartPoll
      <4>2. last[e] \in Nat /\ period[e] \in Nat /\ deadline[e] \in Nat /\ deadline[e] <= Never
        BY DEF DutyIInv, DutyTypeOK, Time
      <4>3. QED
        BY <1>1, <4>1, <4>2, CalmIf DEF DutyIInv
    <3>2. QED
      BY <3>1
  <2>2. QED
    BY <1>1, <2>1, CalmStep DEF DutyTypeOK, IdlerPolls, registry, planvars
<1>5. QED
  BY <1>1, <1>2, <1>3, <1>4 DEF DutyIInv

(* run, by a worker: a period that is put back is noted for the keeper.    *)
LEMMA IdlerPolledKeeps ==
  ASSUME DutyIInv, NEW w \in Idler, NEW did \in BOOLEAN, IdlerPolled(w, did)
  PROVE  DutyIInv'
<1>1. DutyTypeOK'
  <2>0. polling[w] \in Duty
    BY DEF AtIdler, DutyIInv, DutyTypeOK, LockState, IdlerPolled
  <2>1. idler' \in [Idler -> IdlerState]
    BY DEF DutyIInv, DutyTypeOK, IdlerState, IdlerPolled, AtIdler, Moves
  <2>2. /\ last' \in [Duty -> Nat] /\ period' \in [Duty -> Time]
        /\ idlePolls' \in [Duty -> Nat] /\ lowered' \subseteq Duty
        /\ polling' = [polling EXCEPT ![w] = Nobody]
    BY <2>0, EndPollMoves DEF DutyIInv, IdlerPolled
  <2>3. QED
    BY <2>1, <2>2
    DEF DutyIInv, DutyTypeOK, IdlerPolled, EndPoll, registry, planvars
<1>2. LockState'
  BY ThreadAssumption
  DEF AtIdler, DutyIInv, DutyTypeOK, LockState, IdlerPolled, Moves, EndPoll, registry
<1>3. WordState'
  <2>0. polling[w] \in Duty
    BY DEF AtIdler, DutyIInv, DutyTypeOK, LockState, IdlerPolled
  <2>1. QED
    BY <2>0, EndPollMoves DEF DutyIInv, WordState, IdlerPolled, EndPoll
<1>4. PlanState' /\ DueTimesKept'
  <2>0. polling[w] \in Duty
    BY DEF AtIdler, DutyIInv, DutyTypeOK, LockState, IdlerPolled
  <2>1. ASSUME NEW e \in Duty PROVE Calm(e)
    <3>1. /\ last[e] <= last'[e] /\ (e \in lowered => e \in lowered')
          /\ period[e] <= period'[e] \/ (e \in lowered' /\ e \notin onDemand)
      BY <2>0, EndPollMoves, ThreadAssumption DEF DutyIInv, IdlerPolled
    <3>2. waiters' = waiters /\ deadline' = deadline /\ deadline[e] \in Time
      BY DEF DutyIInv, DutyTypeOK, IdlerPolled, EndPoll
    <3>3. QED
      BY <1>1, <3>1, <3>2, CalmIf DEF DutyIInv, Time
  <2>2. QED
    BY <1>1, <2>1, CalmStep DEF DutyTypeOK, IdlerPolled, registry, planvars
<1>5. QED
  BY <1>1, <1>2, <1>3, <1>4 DEF DutyIInv

(* set_deadline: whatever it does, the duty is now the user's to replan.   *)
LEMMA SetDeadlineKeeps ==
  ASSUME DutyIInv, NEW d \in Duty, NEW at \in 1 .. Horizon, SetDeadline(d, at)
  PROVE  DutyIInv'
<1>1. DutyTypeOK'
  <2>1. user' \in UserState
    BY DEF UserState, SetDeadline, UserStarts, Replans
  <2>2. at \in Time
    BY DutyAssumption DEF Time
  <2>3. QED
    BY <2>1, <2>2
    DEF DutyIInv, DutyTypeOK, SetDeadline, UserStarts, registry, planvars
<1>2. LockState'
  BY DEF DutyIInv, LockState, SetDeadline, UserStarts, Replans, registry
<1>3. WordState'
  BY ThreadAssumption
  DEF DutyIInv, WordState, UserState, SetDeadline, UserStarts, Replans
<1>4. PlanState' /\ DueTimesKept'
  <2>0. \A e \in Duty : /\ last[e] \in Nat /\ period[e] \in Nat /\ deadline[e] \in Nat
                        /\ waiters[e] \in Nat
    BY DEF DutyIInv, DutyTypeOK, Time
  <2>1. user.pc = "idle" /\ user.duty = Nobody /\ Nobody \notin Duty
    BY ThreadAssumption DEF DutyIInv, WordState, SetDeadline, UserStarts
  <2>2. \A e \in reg' : e = user'.duty \/ (e \in reg /\ Calm(e))
    <3>1. ASSUME NEW e \in Duty \ {d} PROVE Calm(e)
      <4>1. /\ last'[e] = last[e] /\ period'[e] = period[e] /\ waiters'[e] = waiters[e]
            /\ deadline'[e] = deadline[e] /\ (e \in lowered => e \in lowered')
        BY DEF SetDeadline
      <4>2. QED
        BY <1>1, <2>0, <4>1, CalmIf DEF DutyIInv
    <3>2. QED
      BY <3>1
      DEF DutyIInv, DutyTypeOK, SetDeadline, UserStarts, Replans, registry
  <2>9. QED
    BY <1>1, <2>1, <2>2, CalmStep
    DEF DutyIInv, DutyTypeOK, SetDeadline, UserStarts, Replans, registry,
        planvars
<1>5. QED
  BY <1>1, <1>2, <1>3, <1>4 DEF DutyIInv

(* DutyWaiter::new: a waiter that is not the first moves no due time.      *)
LEMMA NewWaiterKeeps ==
  ASSUME DutyIInv, NEW d \in Duty, NewWaiter(d)
  PROVE  DutyIInv'
<1>1. DutyTypeOK'
  <2>1. user' \in UserState
    <3>1. user' = user \/ user' = [pc |-> "half due", duty |-> d]
      BY DEF NewWaiter, Replans
    <3>2. [pc |-> "half due", duty |-> d] \in UserState
      BY DEF UserState
    <3>3. QED
      BY <3>1, <3>2 DEF DutyIInv, DutyTypeOK
  <2>2. QED
    BY <2>1 DEF DutyIInv, DutyTypeOK, NewWaiter, UserStarts, registry, planvars
<1>2. LockState'
  BY DEF DutyIInv, LockState, NewWaiter, UserStarts, Replans, registry
<1>3. WordState'
  <2>1. user'.pc = "idle" <=> user'.duty = Nobody
    <3>1. user' = user \/ user' = [pc |-> "half due", duty |-> d]
      BY DEF NewWaiter, Replans
    <3>2. user.pc = "idle" <=> user.duty = Nobody
      BY DEF DutyIInv, WordState
    <3>3. CASE user' = [pc |-> "half due", duty |-> d]
      BY <3>3, ThreadAssumption
    <3>4. QED
      BY <3>1, <3>2, <3>3
  <2>2. QED
    BY <2>1 DEF DutyIInv, WordState, NewWaiter
<1>4. PlanState' /\ DueTimesKept'
  <2>0. \A e \in Duty : /\ last[e] \in Nat /\ period[e] \in Nat /\ deadline[e] \in Nat
                        /\ waiters[e] \in Nat
    BY DEF DutyIInv, DutyTypeOK, Time
  <2>1. user.pc = "idle" /\ user.duty = Nobody /\ Nobody \notin Duty
    BY ThreadAssumption DEF DutyIInv, WordState, NewWaiter, UserStarts
  <2>2. \A e \in reg' : e = user'.duty \/ (e \in reg /\ Calm(e))
    <3>1. ASSUME NEW e \in Duty, e # d \/ waiters[d] # 0 PROVE Calm(e)
      <4>1. /\ last'[e] = last[e] /\ period'[e] = period[e] /\ lowered' = lowered
            /\ deadline'[e] = deadline[e] /\ (waiters'[e] > 0 => waiters[e] > 0)
        BY <2>0, <3>1 DEF NewWaiter
      <4>2. QED
        BY <1>1, <2>0, <4>1, CalmIf DEF DutyIInv
    <3>2. reg' = reg /\ reg \subseteq Duty /\ d \in Duty
      BY DEF DutyIInv, DutyTypeOK, NewWaiter, registry
    <3>3. waiters[d] = 0 => user'.duty = d
      <4> SUFFICES ASSUME waiters[d] = 0 PROVE user'.duty = d
        OBVIOUS
      <4>1. user' = [pc |-> "half due", duty |-> d]
        BY DEF NewWaiter, Replans
      <4>2. QED
        BY <4>1
    <3>4. QED
      BY <3>1, <3>2, <3>3
  <2>3. user'.duty \in {user.duty, d} /\ UNCHANGED <<reg, keeper, planned, unparked, timed>>
    <3>1. user' = user \/ user' = [pc |-> "half due", duty |-> d]
      BY DEF NewWaiter, Replans
    <3>2. UNCHANGED <<reg, keeper, planned, unparked, timed>>
      BY DEF NewWaiter, registry, planvars
    <3>3. CASE user' = [pc |-> "half due", duty |-> d]
      BY <3>2, <3>3
    <3>4. CASE user' = user
      BY <3>2, <3>4
    <3>5. QED
      BY <3>1, <3>3, <3>4
  <2>4. \A e \in reg' : user'.duty = e \/ (e \in reg /\ user.duty # e /\ Calm(e))
    BY <2>1, <2>2, <2>3 DEF DutyIInv, DutyTypeOK
  <2>5. QED
    BY <1>1, <2>3, <2>4, CalmStep
<1>5. QED
  BY <1>1, <1>2, <1>3, <1>4 DEF DutyIInv

(* The drop of a waiter can only make its duty due later.                  *)
LEMMA DropWaiterKeeps ==
  ASSUME DutyIInv, NEW d \in Duty, DropWaiter(d)
  PROVE  DutyIInv'
<1>1. DutyTypeOK'
  <2>1. waiters[d] - 1 \in Nat
    BY DEF DutyIInv, DutyTypeOK, DropWaiter
  <2>2. QED
    BY <2>1 DEF DutyIInv, DutyTypeOK, DropWaiter, registry, planvars
<1>2. LockState'
  BY DEF DutyIInv, LockState, DropWaiter, registry
<1>3. WordState'
  BY DEF DutyIInv, WordState, UserState, DropWaiter
<1>4. PlanState' /\ DueTimesKept'
  <2>0. \A e \in Duty : /\ last[e] \in Nat /\ period[e] \in Nat /\ deadline[e] \in Nat
                        /\ waiters[e] \in Nat
    BY DEF DutyIInv, DutyTypeOK, Time
  <2>1. user.pc = "idle" /\ user.duty = Nobody /\ Nobody \notin Duty
    BY ThreadAssumption DEF DutyIInv, WordState, DropWaiter, UserStarts
  <2>2. \A e \in reg' : e = user'.duty \/ (e \in reg /\ Calm(e))
    <3>1. ASSUME NEW e \in Duty PROVE Calm(e)
      <4>1. /\ last'[e] = last[e] /\ period'[e] = period[e] /\ lowered' = lowered
            /\ deadline'[e] = deadline[e] /\ (waiters'[e] > 0 => waiters[e] > 0)
        BY <2>0, <3>1 DEF DropWaiter
      <4>2. QED
        BY <1>1, <2>0, <4>1, CalmIf DEF DutyIInv
    <3>2. QED
      BY <3>1
      DEF DutyIInv, DutyTypeOK, DropWaiter, UserStarts, Replans, registry
  <2>9. QED
    BY <1>1, <2>1, <2>2, CalmStep DEF DropWaiter, UserStarts, Replans, planvars
<1>5. QED
  BY <1>1, <1>2, <1>3, <1>4 DEF DutyIInv

(* touch: the due time moves with the clock, or the longest period bounds it. *)
LEMMA TouchKeeps ==
  ASSUME DutyIInv, NEW d \in Duty, Touch(d)
  PROVE  DutyIInv'
<1>1. DutyTypeOK'
  <2>1. MinOf(d) \in Time /\ clock \in Nat /\ PutBack(d) \subseteq Duty
    BY TimeConsts DEF MinOf, PutBack, DutyIInv, DutyTypeOK
  <2>2. QED
    BY <2>1 DEF DutyIInv, DutyTypeOK, Touch, UserStarts, registry, planvars
<1>2. LockState'
  BY DEF DutyIInv, LockState, Touch, UserStarts, registry
<1>3. WordState'
  <2>1. MinPeriod \in MinPeriod .. MaxPeriod /\ Never \in Time /\ clock \in Nat
    BY DutyAssumption, TimeConsts DEF DutyIInv, DutyTypeOK
  <2>2. QED
    BY <2>1 DEF DutyIInv, WordState, Touch, MinOf
<1>4. PlanState' /\ DueTimesKept'
  <2>0. \A e \in Duty : /\ last[e] \in Nat /\ period[e] \in Nat /\ deadline[e] \in Nat
                        /\ waiters[e] \in Nat
    BY DEF DutyIInv, DutyTypeOK, Time
  <2>1. user.pc = "idle" /\ user.duty = Nobody /\ Nobody \notin Duty
    BY ThreadAssumption DEF DutyIInv, WordState, Touch, UserStarts
  <2>2. \A e \in reg' : e = user'.duty \/ (e \in reg /\ Calm(e))
    <3>1. ASSUME NEW e \in Duty PROVE Calm(e)
      <4>1. /\ deadline'[e] = deadline[e] /\ waiters'[e] = waiters[e] /\ (e \in lowered => e \in lowered')
        BY DEF Touch, PutBack
      <4>2. last[e] <= last'[e]
        BY DEF DutyIInv, DutyTypeOK, WordState, Touch
      <4>3. period[e] <= period'[e] \/ (e \in lowered' /\ e \notin onDemand)
        BY <2>0 DEF DutyIInv, WordState, Touch, PutBack, MinOf
      <4>4. QED
        BY <1>1, <2>0, <4>1, <4>2, <4>3, CalmIf DEF DutyIInv
    <3>2. QED
      BY <3>1 DEF DutyIInv, DutyTypeOK, Touch, UserStarts, registry
  <2>9. QED
    BY <1>1, <2>1, <2>2, CalmStep DEF Touch, UserStarts, Replans, planvars
<1>5. QED
  BY <1>1, <1>2, <1>3, <1>4 DEF DutyIInv

(* set_period: whatever it does, the duty is now the user's to replan.     *)
LEMMA SetPeriodKeeps ==
  ASSUME DutyIInv, NEW d \in Duty, SetPeriod(d)
  PROVE  DutyIInv'
<1>1. DutyTypeOK'
  <2>1. user' \in UserState
    BY DEF UserState, SetPeriod, UserStarts, Replans
  <2>2. MinOf(d)' \in Time
    BY TimeConsts DEF MinOf
  <2>3. QED
    BY <2>1, <2>2
    DEF DutyIInv, DutyTypeOK, SetPeriod, UserStarts, registry, planvars
<1>2. LockState'
  BY DEF DutyIInv, LockState, SetPeriod, UserStarts, Replans, registry
<1>3. WordState'
  <2>1. period' = [period EXCEPT ![d] = IF d \in onDemand' THEN Never ELSE MinPeriod]
    BY DEF SetPeriod, MinOf
  <2>2. \A e \in Duty \ {d} : e \in onDemand' <=> e \in onDemand
    BY DEF SetPeriod
  <2>3. MinPeriod \in MinPeriod .. MaxPeriod /\ Never \in Time
    BY DutyAssumption, TimeConsts
  <2>4. user'.pc # "idle" /\ user'.duty # Nobody
    BY ThreadAssumption DEF SetPeriod, Replans
  <2>5. QED
    BY <2>1, <2>2, <2>3, <2>4 DEF DutyIInv, DutyTypeOK, WordState, SetPeriod
<1>4. PlanState' /\ DueTimesKept'
  <2>0. \A e \in Duty : /\ last[e] \in Nat /\ period[e] \in Nat /\ deadline[e] \in Nat
                        /\ waiters[e] \in Nat
    BY DEF DutyIInv, DutyTypeOK, Time
  <2>1. user.pc = "idle" /\ user.duty = Nobody /\ Nobody \notin Duty
    BY ThreadAssumption DEF DutyIInv, WordState, SetPeriod, UserStarts
  <2>2. \A e \in reg' : e = user'.duty \/ (e \in reg /\ Calm(e))
    <3>1. ASSUME NEW e \in Duty \ {d} PROVE Calm(e)
      <4>1. /\ last'[e] = last[e] /\ period'[e] = period[e] /\ waiters'[e] = waiters[e]
            /\ deadline'[e] = deadline[e] /\ (e \in lowered => e \in lowered')
        BY DEF SetPeriod
      <4>2. QED
        BY <1>1, <2>0, <4>1, CalmIf DEF DutyIInv
    <3>2. QED
      BY <3>1 DEF DutyIInv, DutyTypeOK, SetPeriod, UserStarts, Replans, registry
  <2>9. QED
    BY <1>1, <2>1, <2>2, CalmStep
    DEF DutyIInv, DutyTypeOK, SetPeriod, UserStarts, Replans, registry, planvars
<1>5. QED
  BY <1>1, <1>2, <1>3, <1>4 DEF DutyIInv

(* A duty is registered: it is the user's to replan.                       *)
LEMMA NewDutyKeeps ==
  ASSUME DutyIInv, NEW d \in Duty, NewDuty(d)
  PROVE  DutyIInv'
<1>1. DutyTypeOK'
  <2>1. user' \in UserState
    BY DEF UserState, NewDuty, Replans
  <2>2. MinOf(d)' \in Time /\ clock \in Nat /\ onDemand' \subseteq Duty
    BY TimeConsts DEF MinOf, DutyIInv, DutyTypeOK, NewDuty
  <2>3. QED
    BY <2>1, <2>2, TimeConsts DEF DutyIInv, DutyTypeOK, NewDuty, planvars
<1>2. LockState'
  BY DEF DutyIInv, LockState, NewDuty, Replans
<1>3. WordState'
  <2>1. period' = [period EXCEPT ![d] = IF d \in onDemand' THEN Never ELSE MinPeriod]
    BY DEF NewDuty, MinOf
  <2>2. \A e \in Duty \ {d} : e \in onDemand' <=> e \in onDemand
    BY DEF NewDuty
  <2>3. MinPeriod \in MinPeriod .. MaxPeriod /\ Never \in Time /\ clock \in Nat
    BY DutyAssumption, TimeConsts DEF DutyIInv, DutyTypeOK
  <2>4. user'.pc # "idle" /\ user'.duty # Nobody
    BY ThreadAssumption DEF NewDuty, Replans
  <2>5. QED
    BY <2>1, <2>2, <2>3, <2>4 DEF DutyIInv, DutyTypeOK, WordState, NewDuty
<1>4. PlanState' /\ DueTimesKept'
  <2>0. \A e \in Duty : /\ last[e] \in Nat /\ period[e] \in Nat /\ deadline[e] \in Nat
                        /\ waiters[e] \in Nat
    BY DEF DutyIInv, DutyTypeOK, Time
  <2>1. user.pc = "idle" /\ user.duty = Nobody /\ Nobody \notin Duty
    BY ThreadAssumption DEF DutyIInv, WordState, NewDuty, UserStarts
  <2>2. \A e \in reg' : e = user'.duty \/ (e \in reg /\ Calm(e))
    <3>1. ASSUME NEW e \in Duty \ {d} PROVE Calm(e)
      <4>1. /\ last'[e] = last[e] /\ period'[e] = period[e] /\ waiters'[e] = waiters[e]
            /\ deadline'[e] = deadline[e] /\ (e \in lowered => e \in lowered')
        BY DEF NewDuty
      <4>2. QED
        BY <1>1, <2>0, <4>1, CalmIf DEF DutyIInv
    <3>2. QED
      BY <3>1 DEF DutyIInv, DutyTypeOK, NewDuty, UserStarts, Replans
  <2>3. UNCHANGED <<keeper, planned, unparked, timed>>
    BY DEF NewDuty, planvars
  <2>4. \A e \in reg' : user'.duty = e \/ (e \in reg /\ user.duty # e /\ Calm(e))
    BY <2>1, <2>2 DEF DutyIInv, DutyTypeOK
  <2>5. QED
    BY <1>1, <2>3, <2>4, CalmStep
<1>5. QED
  BY <1>1, <1>2, <1>3, <1>4 DEF DutyIInv

(* replan, at its end: the keeper is woken, or its plan is early enough.   *)
LEMMA UnparkKeeperKeeps ==
  ASSUME DutyIInv, UnparkKeeper
  PROVE  DutyIInv'
<1>1. DutyTypeOK'
  BY DEF DutyIInv, DutyTypeOK, UserState, UnparkKeeper, registry, dutywords
<1>2. LockState'
  BY DEF DutyIInv, LockState, UnparkKeeper, registry
<1>3. WordState'
  BY DEF DutyIInv, WordState, UserState, UnparkKeeper, dutywords
<1>4. PlanState' /\ DueTimesKept'
  <2>1. Due(user.duty) \in Time /\ planned \in Time /\ user.duty \in Duty
    BY DueTyped DEF DutyIInv, DutyTypeOK, UserState, WordState, UnparkKeeper
  <2>2. \A d \in Duty : Due(d)' = Due(d)
    BY DEF UnparkKeeper, dutywords, Due, Period
  <2>3. ASSUME ~ unparked', NEW d \in Duty, d = user.duty PROVE planned <= Due(d)
    <3>1. ~ (Due(user.duty) < planned)
      BY <2>3 DEF UnparkKeeper
    <3>2. QED
      BY <2>1, <2>3, <3>1 DEF Time
  <2>4. PlanState'
    <3>1. ASSUME keeper.pc \in {"visit", "polling", "plan"}, NEW d \in reg \ keeper.left, ~ unparked'
          PROVE  Within(Accounted(d), d)
      <4>0. d \in Duty /\ Accounted(d) \in Time /\ ~ unparked
        BY <3>1 DEF DutyIInv, DutyTypeOK, KeeperState, Accounted, UnparkKeeper
      <4>1. CASE d = user.duty
        <5>1. Never <= Due(d)
          BY <2>3, <3>1, <4>0, <4>1 DEF DutyIInv, PlanState
        <5>2. QED
          BY <2>1, <4>0, <4>1, <5>1, NatConsts DEF Within, Time
      <4>2. CASE d # user.duty
        BY <3>1, <4>0, <4>2 DEF DutyIInv, PlanState
      <4>3. QED
        BY <4>1, <4>2
    <3>2. keeper' = keeper /\ reg' = reg /\ planned' = planned /\ lowered' = lowered /\ last' = last
      BY DEF UnparkKeeper, registry, dutywords
    <3>3. \A d \in Duty : Within(Accounted(d), d) => Within(Accounted(d), d)'
      BY <2>2, <3>2 DEF Within, Accounted
    <3>4. QED
      BY <3>1, <3>2, <3>3 DEF DutyIInv, DutyTypeOK, PlanState
  <2>5. DueTimesKept'
    <3>1. ASSUME keeper.pc = "parked", ~ unparked', NEW d \in reg
          PROVE  Kept(d) \/ KeptLate(d)
      BY <2>3, <3>1 DEF DutyIInv, DutyTypeOK, DueTimesKept, Kept, UnparkKeeper
    <3>2. \A d \in Duty : (Kept(d) => Kept(d)') /\ (KeptLate(d) => KeptLate(d)')
      BY <2>2 DEF Kept, KeptLate, UnparkKeeper, dutywords
    <3>3. QED
      BY <3>1, <3>2
      DEF DutyIInv, DutyTypeOK, DueTimesKept, UnparkKeeper, registry
  <2>6. QED
    BY <2>4, <2>5
<1>5. QED
  BY <1>1, <1>2, <1>3, <1>4 DEF DutyIInv

(* keep: without a plan, every replan wakes the keeper.                    *)
LEMMA ForgetPlanKeeps ==
  ASSUME DutyIInv, ForgetPlan
  PROVE  DutyIInv'
<1>1. DutyTypeOK'
  BY TimeConsts
  DEF DutyIInv, DutyTypeOK, KeeperState, ForgetPlan, AtKeeper, registry,
      dutywords
<1>2. LockState'
  BY DEF DutyIInv, LockState, ForgetPlan, AtKeeper, registry
<1>3. WordState'
  BY DEF DutyIInv, WordState, ForgetPlan, AtKeeper, dutywords
<1>4. PlanState' /\ DueTimesKept'
  BY <1>1 DEF PlanState, DueTimesKept, ForgetPlan, AtKeeper
<1>5. QED
  BY <1>1, <1>2, <1>3, <1>4 DEF DutyIInv

(* keep takes the lock: nothing is accounted for, all is left to visit.    *)
LEMMA LockRegKeeps ==
  ASSUME DutyIInv, LockReg
  PROVE  DutyIInv'
<1>1. DutyTypeOK'
  <2>1. reg \in SUBSET Duty /\ clock \in Nat
    BY DEF DutyIInv, DutyTypeOK
  <2>2. keeper' = [pc |-> "visit", left |-> reg, now |-> clock, mine |-> Never, any |-> Never,
                   until |-> Never]
    BY DEF LockReg, Asleep
  <2>3. keeper' \in KeeperState
    BY <2>1, <2>2, TimeConsts DEF KeeperState
  <2>4. QED
    BY <2>3 DEF DutyIInv, DutyTypeOK, LockReg, dutywords, planvars
<1>2. LockState'
  BY ThreadAssumption DEF DutyIInv, LockState, LockReg, AtKeeper, Asleep
<1>3. WordState'
  BY DEF DutyIInv, WordState, LockReg, AtKeeper, Asleep, dutywords
<1>4. PlanState' /\ DueTimesKept'
  BY <1>1
  DEF DutyIInv, PlanState, DueTimesKept, LockReg, AtKeeper, Asleep, planvars
<1>5. QED
  BY <1>1, <1>2, <1>3, <1>4 DEF DutyIInv

(* keep accounts for a duty that is not due.                               *)
LEMMA SkipDutyKeeps ==
  ASSUME DutyIInv, NEW d \in Duty, SkipDuty(d)
  PROVE  DutyIInv'
<1>1. DutyTypeOK'
  <2>1. Due(d) \in Time
    BY DueTyped DEF DutyIInv
  <2>2. keeper' \in KeeperState
    BY <2>1, AccountTyped DEF DutyIInv, DutyTypeOK, SkipDuty
  <2>3. QED
    BY <2>2 DEF DutyIInv, DutyTypeOK, SkipDuty, registry, planvars
<1>2. LockState'
  BY DEF DutyIInv, LockState, SkipDuty, AtKeeper, Account, registry
<1>3. WordState'
  BY DEF DutyIInv, WordState, SkipDuty, AtKeeper
<1>4. PlanState' /\ DueTimesKept'
  <2>1. keeper.pc = "visit" /\ Due(d) \in Time /\ keeper \in KeeperState
    BY DueTyped DEF DutyIInv, DutyTypeOK, SkipDuty, AtKeeper
  <2>2. /\ keeper'.pc = "visit" /\ keeper'.left = keeper.left \ {d}
        /\ keeper'.mine <= keeper.mine /\ keeper'.any <= keeper.any
        /\ IF d \in KeeperOnly THEN keeper'.mine <= Due(d) ELSE keeper'.any <= Due(d)
    BY <2>1, AccountTyped DEF SkipDuty
  <2>3. \A e \in Duty : Due(e)' = Due(e)
    BY DEF SkipDuty, Due, Period
  <2>4. Accounted(d)' <= Due(d)'
    BY <2>2, <2>3 DEF Accounted
  <2>5. ASSUME NEW e \in Duty, e # d PROVE Calm(e)
    <3>1. last'[e] = last[e] /\ period'[e] = period[e] /\ deadline'[e] = deadline[e]
          /\ waiters' = waiters /\ (e \in lowered => e \in lowered')
      BY <2>5 DEF SkipDuty
    <3>2. last[e] \in Nat /\ period[e] \in Nat /\ deadline[e] \in Nat
      BY DEF DutyIInv, DutyTypeOK, Time
    <3>3. QED
      BY <1>1, <3>1, <3>2, CalmIf DEF DutyIInv
  <2>6. UNCHANGED <<planned, unparked, user, reg>> /\ reg \subseteq Duty
    BY DEF DutyIInv, DutyTypeOK, SkipDuty, registry, planvars
  <2>7. QED
    BY <1>1, <2>1, <2>2, <2>4, <2>5, <2>6, RoundStep
<1>5. QED
  BY <1>1, <1>2, <1>3, <1>4 DEF DutyIInv

(* run, by the keeper: the duty stays among those left.                    *)
LEMMA KeeperPollsKeeps ==
  ASSUME DutyIInv, NEW d \in Duty, KeeperPolls(d)
  PROVE  DutyIInv'
<1>1. DutyTypeOK'
  <2>1. keeper' \in KeeperState
    BY DEF DutyIInv, DutyTypeOK, KeeperState, KeeperPolls, StartPoll, AtKeeper
  <2>2. QED
    BY <2>1, TimeConsts
    DEF DutyIInv, DutyTypeOK, KeeperPolls, StartPoll, registry, planvars
<1>2. LockState'
  BY ThreadAssumption
  DEF DutyIInv, DutyTypeOK, LockState, KeeperPolls, AtKeeper, StartPoll,
      registry
<1>3. WordState'
  BY DEF DutyIInv, WordState, KeeperPolls, AtKeeper, StartPoll
<1>4. PlanState' /\ DueTimesKept'
  <2>1. /\ keeper.pc = "visit" /\ keeper'.pc = "polling" /\ keeper'.left = keeper.left
        /\ keeper'.mine = keeper.mine /\ keeper'.any = keeper.any
        /\ keeper.mine \in Nat /\ keeper.any \in Nat
    BY DEF DutyIInv, DutyTypeOK, KeeperState, KeeperPolls, AtKeeper, Time
  <2>2. ASSUME NEW e \in Duty PROVE Calm(e)
    <3>1. /\ last'[e] = last[e] /\ period'[e] = period[e] /\ lowered' = lowered
          /\ waiters' = waiters /\ deadline'[e] \in {deadline[e], Never}
      BY DEF KeeperPolls, StartPoll
    <3>2. last[e] \in Nat /\ period[e] \in Nat /\ deadline[e] \in Nat /\ deadline[e] <= Never
      BY DEF DutyIInv, DutyTypeOK, Time
    <3>3. QED
      BY <1>1, <3>1, <3>2, CalmIf DEF DutyIInv
  <2>3. UNCHANGED <<planned, unparked, user, reg>> /\ reg \subseteq Duty
    BY DEF DutyIInv, DutyTypeOK, KeeperPolls, registry, planvars
  <2>4. QED
    BY <1>1, <2>1, <2>2, <2>3, RoundStep
<1>5. QED
  BY <1>1, <1>2, <1>3, <1>4 DEF DutyIInv

(* run, by the keeper: the new due time is accounted for.                  *)
LEMMA KeeperPolledKeeps ==
  ASSUME DutyIInv, NEW did \in BOOLEAN, KeeperPolled(did)
  PROVE  DutyIInv'
<1>1. DutyTypeOK'
  <2>0. PICK e \in reg : e = polling[K] /\ keeper' = Account(e, Due(e)')
    BY DEF KeeperPolled
  <2>01. e \in Duty /\ polling[K] \in Duty /\ K \in Idler \cup {K} /\ keeper.pc = "polling"
    BY <2>0 DEF DutyIInv, DutyTypeOK, KeeperPolled, AtKeeper
  <2>1. /\ last' \in [Duty -> Nat] /\ period' \in [Duty -> Time]
        /\ idlePolls' \in [Duty -> Nat] /\ lowered' \subseteq Duty
        /\ polling' = [polling EXCEPT ![K] = Nobody]
        /\ \A d \in Duty : /\ last[d] <= last'[d] /\ last'[d] <= clock
                           /\ IF d \in onDemand THEN period'[d] = Never
                              ELSE period'[d] \in MinPeriod .. MaxPeriod
                           /\ d # e => period'[d] = period[d]
                           /\ d # e => (d \in lowered => d \in lowered')
    BY <2>0, <2>01, EndPollMoves DEF DutyIInv, KeeperPolled
  <2>2. Due(e)' \in Time
    <3>1. /\ last'[e] \in Nat /\ period'[e] \in Time
          /\ waiters'[e] \in Nat /\ deadline'[e] \in Time
      BY <2>01, <2>1 DEF DutyIInv, DutyTypeOK, KeeperPolled, EndPoll
    <3>2. QED
      BY <3>1, DueIsAt, DueAtValue
  <2>3. keeper' \in KeeperState
    BY <2>0, <2>01, <2>2, AccountTyped DEF DutyIInv, DutyTypeOK
  <2>4. QED
    BY <2>1, <2>3
    DEF DutyIInv, DutyTypeOK, KeeperPolled, EndPoll, registry, planvars
<1>2. LockState'
  <2>0. PICK e \in reg : e = polling[K] /\ keeper' = Account(e, Due(e)')
    BY DEF KeeperPolled
  <2>1. keeper'.pc = "visit" /\ keeper'.left = keeper.left \ {e}
    BY <2>0 DEF Account
  <2>2. QED
    BY <2>0, <2>1, ThreadAssumption
    DEF DutyIInv, DutyTypeOK, LockState, KeeperPolled, AtKeeper, EndPoll,
        registry
<1>3. WordState'
  <2>0. PICK e \in reg : e = polling[K] /\ keeper' = Account(e, Due(e)')
    BY DEF KeeperPolled
  <2>01. e \in Duty /\ polling[K] \in Duty /\ K \in Idler \cup {K} /\ keeper.pc = "polling"
    BY <2>0 DEF DutyIInv, DutyTypeOK, KeeperPolled, AtKeeper
  <2>1. /\ last' \in [Duty -> Nat] /\ period' \in [Duty -> Time]
        /\ idlePolls' \in [Duty -> Nat] /\ lowered' \subseteq Duty
        /\ polling' = [polling EXCEPT ![K] = Nobody]
        /\ \A d \in Duty : /\ last[d] <= last'[d] /\ last'[d] <= clock
                           /\ IF d \in onDemand THEN period'[d] = Never
                              ELSE period'[d] \in MinPeriod .. MaxPeriod
                           /\ d # e => period'[d] = period[d]
                           /\ d # e => (d \in lowered => d \in lowered')
    BY <2>0, <2>01, EndPollMoves DEF DutyIInv, KeeperPolled
  <2>2. QED
    BY <2>1 DEF DutyIInv, WordState, KeeperPolled, EndPoll
<1>4. PlanState' /\ DueTimesKept'
  <2>0. PICK e \in reg : e = polling[K] /\ keeper' = Account(e, Due(e)')
    BY DEF KeeperPolled
  <2>01. e \in Duty /\ polling[K] \in Duty /\ K \in Idler \cup {K} /\ keeper.pc = "polling"
    BY <2>0 DEF DutyIInv, DutyTypeOK, KeeperPolled, AtKeeper
  <2>1. /\ last' \in [Duty -> Nat] /\ period' \in [Duty -> Time]
        /\ idlePolls' \in [Duty -> Nat] /\ lowered' \subseteq Duty
        /\ polling' = [polling EXCEPT ![K] = Nobody]
        /\ \A d \in Duty : /\ last[d] <= last'[d] /\ last'[d] <= clock
                           /\ IF d \in onDemand THEN period'[d] = Never
                              ELSE period'[d] \in MinPeriod .. MaxPeriod
                           /\ d # e => period'[d] = period[d]
                           /\ d # e => (d \in lowered => d \in lowered')
    BY <2>0, <2>01, EndPollMoves DEF DutyIInv, KeeperPolled
  <2>2. Due(e)' \in Time
    <3>1. /\ last'[e] \in Nat /\ period'[e] \in Time
          /\ waiters'[e] \in Nat /\ deadline'[e] \in Time
      BY <2>01, <2>1 DEF DutyIInv, DutyTypeOK, KeeperPolled, EndPoll
    <3>2. QED
      BY <3>1, DueIsAt, DueAtValue
  <2>3. /\ keeper'.pc = "visit" /\ keeper'.left = keeper.left \ {e}
        /\ keeper'.mine <= keeper.mine /\ keeper'.any <= keeper.any
        /\ IF e \in KeeperOnly THEN keeper'.mine <= Due(e)' ELSE keeper'.any <= Due(e)'
    BY <2>0, <2>01, <2>2, AccountTyped DEF DutyIInv, DutyTypeOK
  <2>4. Accounted(e)' <= Due(e)'
    BY <2>3 DEF Accounted
  <2>5. ASSUME NEW d \in Duty, d # e PROVE Calm(d)
    <3>1. /\ last[d] <= last'[d] /\ period'[d] = period[d] /\ (d \in lowered => d \in lowered')
          /\ deadline' = deadline /\ waiters' = waiters
      BY <2>1, <2>5 DEF KeeperPolled, EndPoll
    <3>2. period[d] \in Nat /\ deadline[d] \in Nat
      BY DEF DutyIInv, DutyTypeOK, Time
    <3>3. QED
      BY <1>1, <3>1, <3>2, CalmIf DEF DutyIInv
  <2>6. UNCHANGED <<planned, unparked, user, reg>> /\ reg \subseteq Duty
    BY DEF DutyIInv, DutyTypeOK, KeeperPolled, registry, planvars
  <2>7. QED
    BY <1>1, <2>01, <2>3, <2>4, <2>5, <2>6, RoundStep
<1>5. QED
  BY <1>1, <1>2, <1>3, <1>4 DEF DutyIInv

(* keep has visited all, and reads the promise.                            *)
LEMMA ReadPromiseKeeps ==
  ASSUME DutyIInv, ReadPromise
  PROVE  DutyIInv'
<1>1. DutyTypeOK'
  <2>1. keeper' \in KeeperState
    BY DEF DutyIInv, DutyTypeOK, KeeperState, ReadPromise
  <2>2. LeastHalfDue(reg) \in Time
    BY LeastsTyped DEF DutyIInv
  <2>3. QED
    BY <2>1, <2>2 DEF DutyIInv, DutyTypeOK, ReadPromise, registry, dutywords
<1>2. LockState'
  BY DEF DutyIInv, LockState, ReadPromise, AtKeeper, registry
<1>3. WordState'
  BY DEF DutyIInv, WordState, ReadPromise, AtKeeper, dutywords
<1>4. PlanState' /\ DueTimesKept'
  <2>1. /\ keeper.pc = "visit" /\ keeper'.pc = "plan" /\ keeper.left = {} /\ keeper'.left = keeper.left
        /\ keeper'.mine = keeper.mine /\ keeper'.any = keeper.any
        /\ keeper.mine \in Nat /\ keeper.any \in Nat
    BY DEF DutyIInv, DutyTypeOK, KeeperState, ReadPromise, AtKeeper, Time
  <2>2. UNCHANGED <<dutywords, planned, unparked, user, reg>> /\ reg \subseteq Duty
    BY DEF DutyIInv, DutyTypeOK, ReadPromise, registry
  <2>3. \A e \in reg : Calm(e)
    BY <2>2, Unmoved DEF DutyIInv
  <2>4. QED
    BY <1>1, <2>1, <2>2, <2>3, RoundStep
<1>5. QED
  BY <1>1, <1>2, <1>3, <1>4 DEF DutyIInv

(* keep stores its plan: what it accounted for becomes what is kept.       *)
LEMMA StorePlanKeeps ==
  ASSUME DutyIInv, StorePlan
  PROVE  DutyIInv'
<1>1. DutyTypeOK'
  <2> DEFINE any == IF timed /\ keeper.any >= keeper.until /\ keeper.until # Never
                    THEN Add(keeper.until, Slack) ELSE keeper.any
  <2>0. /\ keeper.mine \in Time /\ keeper.any \in Time /\ keeper.until \in Time
        /\ Add(keeper.until, Slack) \in Time
    <3>1. keeper.mine \in Time /\ keeper.any \in Time /\ keeper.until \in Time
      BY DEF DutyIInv, DutyTypeOK, KeeperState
    <3>2. keeper.until \in Nat /\ Slack \in Nat
      BY <3>1, NatConsts DEF Time
    <3>3. QED
      BY <3>1, <3>2, AddTyped
  <2>1. any \in Time /\ planned' = Least({keeper.mine, any})
    BY <2>0 DEF StorePlan
  <2>2. planned' \in Time /\ planned' <= keeper.mine /\ planned' <= any
    BY <2>0, <2>1, LeastTyped
  <2>3. keeper' \in KeeperState
    BY TimeConsts DEF StorePlan, Asleep, KeeperState
  <2>4. QED
    BY <2>2, <2>3 DEF DutyIInv, DutyTypeOK, StorePlan, dutywords
<1>2. LockState'
  BY ThreadAssumption DEF DutyIInv, LockState, StorePlan, AtKeeper, Asleep
<1>3. WordState'
  BY DEF DutyIInv, WordState, StorePlan, AtKeeper, Asleep, dutywords
<1>4. PlanState' /\ DueTimesKept'
  <2> DEFINE any == IF timed /\ keeper.any >= keeper.until /\ keeper.until # Never
                    THEN Add(keeper.until, Slack) ELSE keeper.any
  <2>0. /\ keeper.mine \in Time /\ keeper.any \in Time /\ keeper.until \in Time
        /\ Add(keeper.until, Slack) \in Time
    <3>1. keeper.mine \in Time /\ keeper.any \in Time /\ keeper.until \in Time
      BY DEF DutyIInv, DutyTypeOK, KeeperState
    <3>2. keeper.until \in Nat /\ Slack \in Nat
      BY <3>1, NatConsts DEF Time
    <3>3. QED
      BY <3>1, <3>2, AddTyped
  <2>1. any \in Time /\ planned' = Least({keeper.mine, any})
    BY <2>0 DEF StorePlan
  <2>2. planned' \in Time /\ planned' <= keeper.mine /\ planned' <= any
    BY <2>0, <2>1, LeastTyped
  <2>3. /\ keeper.pc = "plan" /\ keeper.left = {} /\ keeper'.pc = "parked"
        /\ reg' = reg /\ unparked' = unparked /\ user' = user /\ timed' = timed
        /\ lowered' = lowered /\ last' = last
    BY DEF DutyIInv, PlanState, StorePlan, AtKeeper, Asleep, dutywords
  <2>4. \A d \in Duty : Due(d)' = Due(d)
    BY DEF StorePlan, dutywords, Due, Period
  <2>5. ASSUME NEW d \in reg, ~ unparked, user.duty # d
        PROVE  Kept(d)' \/ KeptLate(d)'
    <3>1. d \in Duty /\ last[d] \in Nat /\ Due(d) \in Time
      BY DueTyped DEF DutyIInv, DutyTypeOK
    <3>2. Within(Accounted(d), d)
      BY <2>3, <2>5 DEF DutyIInv, PlanState
    <3>3. CASE planned' <= Accounted(d)
      <4>1. Accounted(d) \in Nat /\ planned' \in Nat /\ Due(d) \in Nat
        BY <2>0, <2>2, <3>1 DEF Time, Accounted
      <4>2. Add(last[d], MaxPeriod) <= Add(last[d], Add(MaxPeriod, Slack))
            /\ Add(last[d], MaxPeriod) \in Nat /\ Add(last[d], Add(MaxPeriod, Slack)) \in Nat
        BY <3>1, DutyAssumption DEF Add
      <4>3. planned' <= Due(d) \/ (d \in lowered /\ planned' <= Add(last[d], Add(MaxPeriod, Slack)))
        BY <3>2, <3>3, <4>1, <4>2 DEF Within
      <4>4. QED
        BY <2>3, <2>4, <3>1, <4>3 DEF Kept, KeptLate
    <3>4. CASE d \notin KeeperOnly /\ any # keeper.any
      <4>1. timed /\ keeper.until <= keeper.any /\ any = Add(keeper.until, Slack)
        BY <2>0, <3>4
      <4>2. Within(keeper.any, d) /\ d \in Anywhere
        BY <3>1, <3>2, <3>4 DEF Accounted, Anywhere
      <4>3. /\ keeper.any \in Nat /\ keeper.until \in Nat /\ Due(d) \in Nat /\ planned' \in Nat
        BY <2>0, <2>2, <3>1 DEF Time
      <4>4. keeper.any <= Due(d) => Add(keeper.until, Slack) <= Add(Due(d), Slack)
        BY <4>1, <4>3, DutyAssumption DEF Add
      <4>5. keeper.any <= Add(last[d], MaxPeriod)
              => Add(keeper.until, Slack) <= Add(last[d], Add(MaxPeriod, Slack))
        BY <3>1, <4>1, <4>3, DutyAssumption DEF Add
      <4>6. /\ Add(keeper.until, Slack) \in Nat /\ Add(Due(d), Slack) \in Nat
            /\ Add(last[d], Add(MaxPeriod, Slack)) \in Nat
        BY <3>1, <4>3, DutyAssumption DEF Add
      <4>7. planned' <= Add(keeper.until, Slack)
        BY <2>2, <4>1
      <4>8. \/ planned' <= Add(Due(d), Slack)
            \/ d \in lowered /\ planned' <= Add(last[d], Add(MaxPeriod, Slack))
        <5> HIDE DEF any
        <5>1. QED
          BY <4>2, <4>3, <4>4, <4>5, <4>6, <4>7 DEF Within
      <4>9. QED
        BY <2>3, <2>4, <3>1, <4>1, <4>2, <4>8 DEF Kept, KeptLate
    <3>5. QED
      BY <2>2, <3>3, <3>4 DEF Accounted
  <2>6. QED
    BY <2>3, <2>5 DEF PlanState, DueTimesKept
<1>5. QED
  BY <1>1, <1>2, <1>3, <1>4 DEF DutyIInv

(* keep wakes, and is no longer bound to a plan.                           *)
LEMMA KeeperWakesKeeps ==
  ASSUME DutyIInv, KeeperWakes
  PROVE  DutyIInv'
<1>1. DutyTypeOK'
  BY TimeConsts
  DEF DutyIInv, DutyTypeOK, KeeperState, KeeperWakes, AtKeeper, Asleep,
      registry, dutywords
<1>2. LockState'
  BY DEF DutyIInv, LockState, KeeperWakes, AtKeeper, Asleep, registry
<1>3. WordState'
  BY DEF DutyIInv, WordState, KeeperWakes, AtKeeper, Asleep, dutywords
<1>4. PlanState' /\ DueTimesKept'
  BY <1>1 DEF PlanState, DueTimesKept, KeeperWakes, AtKeeper, Asleep
<1>5. QED
  BY <1>1, <1>2, <1>3, <1>4 DEF DutyIInv

(* Stuttering.                                                             *)
LEMMA StutterKeeps ==
  ASSUME DutyIInv, UNCHANGED dutyvars
  PROVE  DutyIInv'
<1>1. DutyTypeOK'
  BY DEF DutyIInv, DutyTypeOK, dutyvars, registry, dutywords, planvars
<1>2. LockState'
  BY DEF DutyIInv, LockState, dutyvars, registry
<1>3. WordState'
  BY DEF DutyIInv, WordState, dutyvars, dutywords
<1>4. PlanState' /\ DueTimesKept'
  BY <1>1, StillStep DEF dutyvars, registry, planvars
<1>5. QED
  BY <1>1, <1>2, <1>3, <1>4 DEF DutyIInv

(* The initial states.                                                     *)
LEMMA InitIInv == DutyInit => DutyIInv
<1> SUFFICES ASSUME DutyInit PROVE DutyIInv
  OBVIOUS
<1>1. DutyTypeOK
  <2>1. keeper \in KeeperState
    BY TimeConsts DEF DutyInit, Asleep, KeeperState
  <2>2. Idling \in IdlerState /\ Busy \in IdlerState
    BY TimeConsts DEF Idling, Busy, IdlerState
  <2>3. idler \in [Idler -> IdlerState]
    BY <2>2 DEF DutyInit
  <2>4. user \in UserState
    BY DEF DutyInit, UserState
  <2>5. \A d \in Duty : MinOf(d) \in Time
    BY TimeConsts DEF MinOf
  <2>6. ops \in Nat
    <3>1. MaxOps \in Nat
      BY DutyAssumption
    <3>2. QED
      BY <3>1 DEF DutyInit
  <2>7. clock \in 0 .. Horizon
    BY NatConsts DEF DutyInit
  <2>8. QED
    BY <2>1, <2>3, <2>4, <2>5, <2>6, <2>7, TimeConsts DEF DutyInit, DutyTypeOK
<1>2. LockState
  BY ThreadAssumption DEF DutyInit, LockState, Asleep, Idling, Busy
<1>3. WordState
  <2>1. MinPeriod \in MinPeriod .. MaxPeriod /\ 0 <= clock
    BY DutyAssumption DEF DutyInit
  <2>2. \A d \in Duty : last[d] <= clock
    BY DEF DutyInit
  <2>3. QED
    BY <2>1, <2>2 DEF DutyInit, WordState, MinOf
<1>4. PlanState /\ DueTimesKept
  BY DEF DutyInit, Asleep, PlanState, DueTimesKept
<1>5. QED
  BY <1>1, <1>2, <1>3, <1>4 DEF DutyIInv

(* Every step.                                                             *)
LEMMA NextIInv == DutyIInv /\ [DutyNext]_dutyvars => DutyIInv'
<1> SUFFICES ASSUME DutyIInv, [DutyNext]_dutyvars PROVE DutyIInv'
  OBVIOUS
<1>1. CASE UNCHANGED dutyvars
  BY <1>1, StutterKeeps
<1>2. CASE Tick \/ LowerHalfDue \/ UnparkKeeper \/ Finish \/ ShutdownForgets \/ ShutdownReleases
  BY <1>2, TickKeeps, LowerHalfDueKeeps, UnparkKeeperKeeps, FinishKeeps,
     ShutdownForgetsKeeps, ShutdownReleasesKeeps
<1>3. CASE ForgetPlan \/ LockReg \/ ReadPromise \/ StorePlan \/ KeeperWakes
  BY <1>3, ForgetPlanKeeps, LockRegKeeps, ReadPromiseKeeps, StorePlanKeeps,
     KeeperWakesKeeps
<1>4. ASSUME NEW did \in BOOLEAN, KeeperPolled(did) \/ \E w \in Idler : IdlerPolled(w, did)
      PROVE  DutyIInv'
  BY <1>4, KeeperPolledKeeps, IdlerPolledKeeps
<1>5. ASSUME NEW d \in Duty, SkipDuty(d) \/ KeeperPolls(d) PROVE DutyIInv'
  BY <1>5, SkipDutyKeeps, KeeperPollsKeeps
<1>6. ASSUME NEW d \in Duty,
             \/ NewWaiter(d) \/ DropWaiter(d) \/ Touch(d) \/ SetPeriod(d) \/ NewDuty(d) \/ DropDuty(d)
             \/ \E at \in 1 .. Horizon : SetDeadline(d, at)
      PROVE  DutyIInv'
  BY <1>6, NewWaiterKeeps, DropWaiterKeeps, TouchKeeps, SetPeriodKeeps,
     NewDutyKeeps, DropDutyKeeps, SetDeadlineKeeps
<1>7. ASSUME NEW w \in Idler,
             \/ SkipDuties(w) \/ ServeDuties(w) \/ ServedAll(w) \/ ParkBlind(w)
             \/ \E d \in Duty : IdlerSkips(w, d) \/ IdlerPolls(w, d)
      PROVE  DutyIInv'
  BY <1>7, SkipDutiesKeeps, ServeDutiesKeeps, ServedAllKeeps, ParkBlindKeeps,
     IdlerSkipsKeeps, IdlerPollsKeeps
<1>8. ASSUME NEW w \in Idler,
             \/ ReadDue(w) \/ ReadUntil(w) \/ TakeRole(w) \/ LeaveRole(w)
             \/ Promise(w) \/ FindWork(w) \/ ForgetPromise(w) \/ Release(w)
      PROVE  DutyIInv'
  BY <1>8, ReadDueKeeps, ReadUntilKeeps, TakeRoleKeeps, LeaveRoleKeeps,
     PromiseKeeps, FindWorkKeeps, ForgetPromiseKeeps, ReleaseKeeps
<1>9. QED
  BY <1>1, <1>2, <1>3, <1>4, <1>5, <1>6, <1>7, <1>8 DEF DutyNext

(* The polls are what the lock's holder is at.                             *)
LEMMA PollsLocked == DutyIInv => PollsUnderLock
<1> SUFFICES ASSUME DutyIInv, NEW t \in Idler \cup {K}, polling[t] # Nobody
             PROVE  regLock = t /\ polling[t] \in reg
  BY DEF PollsUnderLock
<1>1. CASE t = K
  BY <1>1 DEF DutyIInv, LockState
<1>2. CASE t \in Idler
  BY <1>2 DEF DutyIInv, LockState
<1>3. QED
  BY <1>1, <1>2

(* Whoever polls holds the lock, a duty has a period as long as it has an  *)
(* obligation, and what the keeper accounts for is not due before its plan *)
(* unless somebody is about to wake it: this holds in every state.         *)
THEOREM DutyInvariant == DutySpec => []DutyIInv
<1>1. DutyInit => DutyIInv
  BY InitIInv
<1>2. DutyIInv /\ [DutyNext]_dutyvars => DutyIInv'
  BY NextIInv
<1>3. QED
  BY <1>1, <1>2, PTL DEF DutySpec

(* The keeper never sleeps past a due time (keep), and a duty is polled only *)
(* under the lock and while it is registered (run_idle, run).              *)
THEOREM DutiesSafe == DutySpec => []DutiesInv
<1>1. DutyIInv => DutiesInv
  BY PollsLocked DEF DutiesInv, DutyIInv
<1>2. QED
  BY <1>1, DutyInvariant, PTL

=============================================================================
