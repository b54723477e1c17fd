--------------------------- MODULE StacklessCall ---------------------------
(***************************************************************************)
(* parallel_call of the stackless systems (stackless/system.rs): the first *)
(* branch is polled in place, the second one is built as a task and pushed *)
(* (build_async_task). When the first one is over, the caller pops the     *)
(* worker's queue: it gets the second branch back and polls it in place    *)
(* (BranchPoll), or awaits its JoinHandle. A poll that is pending parks    *)
(* the whole task, and the next poll may be on another worker; the user    *)
(* may drop the call between two polls.                                    *)
(*                                                                         *)
(* The join_state word is reduced to what this uses of it (see             *)
(* JoinProtocol): finished, abandoned, and the registered joiner.          *)
(***************************************************************************)
EXTENDS Integers, FiniteSets, SequencesExt

CONSTANTS
  Lane,       \* workers
  MaxCalls    \* bound: parallel_calls of a behaviour

ASSUME CallAssumption == MaxCalls \in Nat

Main   == 0
Second == 1 .. MaxCalls   \* the second branch of the n-th call; it names the call
Future == Second \cup {Main}
NoTask == -1

VARIABLES
  made,      \* calls so far
  begun,     \* per future, its open calls, the innermost last
  phase,     \* per call: "none", "first", "inPlace", "handle", "over", "dropped"
  lane,      \* per worker, its queue, the newest last
  stack,     \* per worker, its polls: [task, at, prev, tried], nested ones last
  driven,    \* per worker: polling_async
  wake,      \* per task, its wake state: "idle", "polling", "parked", "notified"
  joiner,    \* per second branch, whom its join_state names
  finished,  \* second branches that are FINISHED
  abandoned, \* those whose handle is gone
  leased,    \* per second branch, how many times its pool slot is out
  leaf,      \* tasks whose waker a pending leaf future has
  leafs      \* tasks that had such a leaf (bound: one each)

callwords == <<made, begun, phase>>
joinwords == <<joiner, finished, abandoned, leased>>
leafwords == <<leaf, leafs>>
callvars  == <<callwords, lane, stack, driven, wake, joinwords, leafwords>>

CallInit ==
  /\ made = 0 /\ begun = [f \in Future |-> <<>>]
  /\ phase = [b \in Second |-> "none"]
  /\ \E w \in Lane : lane = [v \in Lane |-> IF v = w THEN <<Main>> ELSE <<>>]
  /\ stack = [w \in Lane |-> <<>>] /\ driven = [w \in Lane |-> NoTask]
  /\ wake = [t \in Future |-> "idle"]
  /\ joiner = [b \in Second |-> NoTask] /\ finished = {} /\ abandoned = {}
  /\ leased = [b \in Second |-> 0]
  /\ leaf = {} /\ leafs = {}

---------------------------------------------------------------------------
ThisPoll(w) == Last(stack[w])
Polling(w)  == stack[w] # <<>> /\ ThisPoll(w).at = "poll"
Inner(f)    == Last(begun[f])
InPlace(f)  == begun[f] # <<>> /\ phase[Inner(f)] = "inPlace"

(* The future that a poll of f reaches: in-place branches pass it on.      *)
Reached(f) ==
  LET reach[n \in 0 .. MaxCalls] ==
        IF n = 0 THEN f ELSE LET g == reach[n - 1] IN IF InPlace(g) THEN Inner(g) ELSE g
  IN reach[MaxCalls]
Current(w) == Reached(ThisPoll(w).task)

(* The code of the future, or the first branch of its innermost call, runs.*)
InUser(w) == Polling(w) /\ (begun[Current(w)] # <<>> => phase[Inner(Current(w))] = "first")

(* Which open call f belongs to, as a branch that is polled in place.      *)
CallerOf(b) == CHOOSE f \in Future : \E i \in DOMAIN begun[f] : begun[f][i] = b

PhaseOf(b, p) == phase' = [phase EXCEPT ![b] = p]
Replace(w, r) == stack' = [stack EXCEPT ![w] = Front(@) \o <<r>>]
IsNext(w, b)  == lane[w] # <<>> /\ Last(lane[w]) = b
PushOn(w, t) == lane' = [lane EXCEPT ![w] = Append(@, t)]

(* run_async_poll: a poll begins; the worker remembers whom it polls.      *)
Begin(w, t) ==
  /\ wake' = [wake EXCEPT ![t] = "polling"]
  /\ driven' = [driven EXCEPT ![w] = t]
NewPoll(w, t) == [task |-> t, at |-> "poll", prev |-> driven[w], tried |-> FALSE]

(* The worker's next task, its newest or another worker's oldest.          *)
TakeTask(w) ==
  /\ stack[w] = <<>>
  /\ \E v \in Lane, t \in Future :
       /\ IF v = w THEN IsNext(w, t) /\ lane' = [lane EXCEPT ![w] = Front(@)]
                   ELSE /\ lane[w] = <<>> /\ lane[v] # <<>> /\ t = Head(lane[v])
                        /\ lane' = [lane EXCEPT ![v] = Tail(@)]
       /\ stack' = [stack EXCEPT ![w] = <<NewPoll(w, t)>>] /\ Begin(w, t)
  /\ UNCHANGED <<callwords, joinwords, leafwords>>

---------------------------------------------------------------------------
(* parallel_call, first poll: build the second branch and push it.         *)
PushSecond(w) ==
  LET b == made + 1 IN
  /\ InUser(w) /\ b \in Second
  /\ made' = b /\ PhaseOf(b, "first")
  /\ begun' = [begun EXCEPT ![Current(w)] = Append(@, b)]
  /\ leased' = [leased EXCEPT ![b] = @ + 1]
  /\ PushOn(w, b)
  /\ UNCHANGED <<stack, driven, wake, joiner, finished, abandoned, leafwords>>

(* The first branch is over: pop the queue of the worker this poll is on.  *)
(* Another task that comes back is put back.                               *)
FirstEnds(w) ==
  LET b == Inner(Current(w)) IN
  /\ InUser(w) /\ begun[Current(w)] # <<>>
  /\ IF IsNext(w, b)
     THEN PhaseOf(b, "inPlace") /\ lane' = [lane EXCEPT ![w] = Front(@)]
     ELSE PhaseOf(b, "handle") /\ UNCHANGED lane
  /\ UNCHANGED <<made, begun, stack, driven, wake, joinwords, leafwords>>

(* The innermost call of f is over; p tells how.                           *)
CallOver(f, p) ==
  /\ begun' = [begun EXCEPT ![f] = Front(@)]
  /\ PhaseOf(Inner(f), p)
FreeSlot(b) == leased' = [leased EXCEPT ![b] = @ - 1]

(* BranchPoll: the branch polled in place is ready, or the user drops it.  *)
BranchOver(w) ==
  LET b == Current(w) IN
  /\ Polling(w) /\ b # ThisPoll(w).task /\ begun[b] = <<>>
  /\ CallOver(CallerOf(b), "over") /\ FreeSlot(b)
  /\ UNCHANGED <<made, lane, stack, driven, wake, joiner, finished, abandoned, leafwords>>

(* JoinHandle::poll first looks whether the branch is the next one of this *)
(* worker's queue, and polls it right here, inside this poll.              *)
AtHandle(w) == Polling(w) /\ begun[Current(w)] # <<>> /\ phase[Inner(Current(w))] = "handle"

Reclaim(w) ==
  LET b == Inner(Current(w)) IN
  /\ AtHandle(w) /\ ~ ThisPoll(w).tried /\ IsNext(w, b)
  /\ lane' = [lane EXCEPT ![w] = Front(@)]
  /\ stack' = [stack EXCEPT ![w] = Front(@) \o <<[ThisPoll(w) EXCEPT !.tried = TRUE], NewPoll(w, b)>>]
  /\ Begin(w, b)
  /\ UNCHANGED <<callwords, joinwords, leafwords>>

(* Then it takes the result, or registers the task that this worker polls. *)
AwaitHandle(w) ==
  LET f == Current(w)
      b == Inner(f)
  IN
  /\ AtHandle(w) /\ (ThisPoll(w).tried \/ ~ IsNext(w, b))
  /\ IF b \in finished
     THEN /\ Replace(w, [ThisPoll(w) EXCEPT !.tried = FALSE])
          /\ CallOver(f, "over") /\ FreeSlot(b) /\ UNCHANGED joiner
     ELSE /\ Replace(w, [ThisPoll(w) EXCEPT !.tried = FALSE, !.at = "park"])
          /\ joiner' = [joiner EXCEPT ![b] =
               IF driven[w] = NoTask THEN ThisPoll(w).task ELSE driven[w]]
          /\ UNCHANGED <<begun, phase, leased>>
  /\ UNCHANGED <<made, lane, driven, wake, finished, abandoned, leafwords>>

(* A future inside the polled one is pending and has the task's waker: the *)
(* poll is, or the code polls something else as well.                      *)
AwaitLeaf(w) ==
  /\ InUser(w) /\ ThisPoll(w).task \notin leafs
  /\ leaf' = leaf \cup {ThisPoll(w).task} /\ leafs' = leafs \cup {ThisPoll(w).task}
  /\ Replace(w, [ThisPoll(w) EXCEPT !.at = "park"]) \/ UNCHANGED stack
  /\ UNCHANGED <<callwords, lane, driven, wake, joinwords>>

(* Mutant: a poll returns and the worker's marker stays as it is.          *)
PollForgets(w) ==
  /\ stack' = [stack EXCEPT ![w] = Front(@)]
  /\ UNCHANGED driven

(* A poll returns; the worker remembers again whom it polled before.       *)
PollReturns(w) ==
  /\ stack' = [stack EXCEPT ![w] = Front(@)]
  /\ driven' = [driven EXCEPT ![w] = ThisPoll(w).prev]

ParkTask(w) ==
  LET t == ThisPoll(w).task IN
  /\ stack[w] # <<>> /\ ThisPoll(w).at = "park"
  /\ PollReturns(w)
  /\ IF wake[t] = "notified"
     THEN wake' = [wake EXCEPT ![t] = "polling"] /\ PushOn(w, t)
     ELSE wake' = [wake EXCEPT ![t] = "parked"] /\ UNCHANGED lane
  /\ UNCHANGED <<callwords, joinwords, leafwords>>

(* The leaf wakes its task, whoever polls it now or claims it.             *)
WakeLeaf(t) ==
  /\ t \in leaf /\ leaf' = leaf \ {t}
  /\ IF wake[t] = "parked"
     THEN wake' = [wake EXCEPT ![t] = "polling"] /\ \E v \in Lane : PushOn(v, t)
     ELSE /\ wake' = [wake EXCEPT ![t] = IF @ = "polling" THEN "notified" ELSE @]
          /\ UNCHANGED lane
  /\ UNCHANGED <<callwords, stack, driven, joinwords, leafs>>

(* A task is ready: FINISHED, and whom its word names is told. A parked    *)
(* joiner is polled next by this worker; an abandoned task is reclaimed.   *)
TaskReady(w) ==
  LET t == ThisPoll(w).task
      j == IF t \in Second THEN joiner[t] ELSE NoTask
      idle == [wake EXCEPT ![t] = "idle"]
  IN
  /\ Polling(w) /\ Current(w) = t /\ begun[t] = <<>>
  /\ finished' = finished \cup {t}
  /\ IF t \in abandoned THEN FreeSlot(t) ELSE UNCHANGED leased
  /\ IF j # NoTask /\ wake[j] = "parked"
     THEN /\ Replace(w, [ThisPoll(w) EXCEPT !.task = j])
          /\ driven' = [driven EXCEPT ![w] = j]
          /\ wake' = [idle EXCEPT ![j] = "polling"]
     ELSE /\ PollReturns(w)
          /\ wake' = [idle EXCEPT ![IF j = NoTask THEN t ELSE j] =
                        IF @ = "polling" THEN "notified" ELSE @]
  /\ UNCHANGED <<callwords, lane, joiner, abandoned, leafwords>>

(* The user drops the innermost call: while its first branch runs nothing  *)
(* owns the second one; later the handle goes, with the result or without. *)
DropFirst(w) ==
  /\ InUser(w) /\ begun[Current(w)] # <<>>
  /\ CallOver(Current(w), "dropped")
  /\ UNCHANGED <<made, lane, stack, driven, wake, joinwords, leafwords>>

DropHandle(w) ==
  LET b == Inner(Current(w)) IN
  /\ AtHandle(w) /\ ~ ThisPoll(w).tried
  /\ CallOver(Current(w), "over")
  /\ IF b \in finished
     THEN FreeSlot(b) /\ UNCHANGED <<joiner, abandoned>>
     ELSE /\ abandoned' = abandoned \cup {b} /\ joiner' = [joiner EXCEPT ![b] = NoTask]
          /\ UNCHANGED leased
  /\ UNCHANGED <<made, lane, stack, driven, wake, finished, leafwords>>

CallNext ==
  \/ \E w \in Lane :
       \/ TakeTask(w) \/ PushSecond(w) \/ FirstEnds(w) \/ BranchOver(w)
       \/ Reclaim(w) \/ AwaitHandle(w) \/ AwaitLeaf(w) \/ ParkTask(w)
       \/ TaskReady(w) \/ DropFirst(w) \/ DropHandle(w)
  \/ \E t \in Future : WakeLeaf(t)

---------------------------------------------------------------------------
(* A task is in one place: a queue, a poll, parked, or polled in place by  *)
(* its caller; a task that is over, or whose slot is back, is in none.     *)
PlacesTaken(t) ==
    Cardinality({<<w, i>> \in Lane \X (1 .. MaxCalls + 1) :
                   i \in DOMAIN lane[w] /\ lane[w][i] = t})
  + Cardinality({<<w, i>> \in Lane \X (1 .. MaxCalls + 1) :
                   i \in DOMAIN stack[w] /\ stack[w][i].task = t})
  + (IF wake[t] = "parked" THEN 1 ELSE 0)
  + (IF t \in Second /\ phase[t] = "inPlace" THEN 1 ELSE 0)
TaskOver(t) == t \in finished \/ (t \in Second /\ leased[t] = 0)
BranchInOnePlace == \A t \in Future : PlacesTaken(t) = IF TaskOver(t) THEN 0 ELSE 1

(* A second branch keeps its pool slot while its call may use it, and when *)
(* the call is over only if it was abandoned and is not over itself. (One  *)
(* whose call was dropped during the first branch keeps it for ever.)      *)
SlotsHeld ==
  \A b \in Second :
    LET used == \/ phase[b] \in {"first", "inPlace", "handle", "dropped"}
                \/ b \in abandoned \ finished
    IN leased[b] = IF used THEN 1 ELSE 0

(* A parked task is woken in the end: a leaf has its waker, or it awaits   *)
(* the handle of a branch whose word names it.                             *)
ParkedIsKnown ==
  \A t \in Future : wake[t] = "parked" =>
    \/ t \in leaf
    \/ LET f == Reached(t) IN
       /\ begun[f] # <<>> /\ phase[Inner(f)] = "handle"
       /\ joiner[Inner(f)] = t /\ Inner(f) \notin finished

(* parallel_call polls each branch in one place, gives back what it takes, *)
(* and no task that waits for a branch is forgotten.                       *)
CallInv == BranchInOnePlace /\ SlotsHeld /\ ParkedIsKnown
=============================================================================
