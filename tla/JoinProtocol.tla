---------------------------- MODULE JoinProtocol ----------------------------
(***************************************************************************)
(* The join protocol of a task descriptor: the join_state word of          *)
(* resumable/common/desc.rs together with everything that acts on it, the  *)
(* spawn, join and exit of stackful tasks (stackful/thread.rs), the poll   *)
(* and completion of spawn_async tasks (stackless/thread.rs), dropping a   *)
(* JoinHandle (common/thread.rs) and the wake state that parks a polling   *)
(* task (common/waker.rs).  The descriptors are those of a dual system, in *)
(* which both kinds of task join both kinds of task.                       *)
(*                                                                         *)
(* A compare-exchange loop is one action: it decides on the value its last *)
(* exchange saw.  A load whose value is used after other steps is a step   *)
(* of its own, and so is everything done after a context switch.           *)
(***************************************************************************)
EXTENDS Integers, FiniteSets

CONSTANTS
  Ult,      \* descriptors of stackful tasks
  Async,    \* descriptors of spawn_async tasks
  Main,     \* the stackful task the program starts with; it never exits
  None      \* a null descriptor pointer

ASSUME DescAssumption ==
  /\ Main \in Ult
  /\ Ult \cap Async = {}
  /\ None \notin Ult \cup Async

Desc == Ult \cup Async

(* The join_state word: a constant, or a tagged pointer to a descriptor.   *)
RUNNING  == [tag |-> "RUNNING",  by |-> None]
FINISHED == [tag |-> "FINISHED", by |-> None]
DETACHED == [tag |-> "DETACHED", by |-> None]
SyncJoiner(j)  == [tag |-> "SyncJoiner",  by |-> j]
AsyncWaker(j)  == [tag |-> "AsyncWaker",  by |-> j]
AsyncJoiner(j) == [tag |-> "AsyncJoiner", by |-> j]

JoinState ==
  {RUNNING, FINISHED, DETACHED}
    \cup {SyncJoiner(j) : j \in Ult}
    \cup {AsyncWaker(j) : j \in Ult}
    \cup {AsyncJoiner(j) : j \in Async}

WakerState == {"IDLE", "POLLING", "PARKED", "NOTIFIED"}

(* Where the control of a task is.  From "commit" and "settle" on, its     *)
(* worker has left the task's stack and acts on the descriptor only.       *)
Control == {"ready",     \* its token is owned by a run queue
            "running",   \* on a worker
            "joining",   \* in join's suspend callback, context saved
            "blocked",   \* its token is owned by a join_state word
            "parking",   \* poll returned Pending, about to decide to park
            "parked",    \* its token is owned by its own wake state
            "exiting",   \* saw no sync joiner, about to look for detachment
            "commit",    \* switched to the joiner, about to store FINISHED
            "settle",    \* switched away, about to swap in FINISHED
            "release",   \* saw DETACHED and switched away, about to free
            "done"}      \* nothing of it executes any more

VARIABLES
  pool,     \* pool[d]: how often d is in the free pool (once at most)
  pc,       \* pc[d]: control of the task on d
  join,     \* join[d]: the join_state word
  wstate,   \* wstate[d]: the wake state
  held,     \* held[d]: the task that owns d's JoinHandle, or None
  tgt,      \* tgt[p]: the handle p is inside join() or block_on() of
  pend,     \* pend[p]: handles that answered Pending in p's current poll
  result,   \* result[d]: the result slot at the top of d's stack
  branch,   \* descriptors of parallel_call branches not yet joined
  fresh,    \* tasks whose context has never been switched to
  wakes     \* <<d, j>>: d's exit still has to wake j

vars == <<pool, pc, join, wstate, held, tgt, pend, result, branch, fresh, wakes>>

Handles(p) == {c \in Desc : held[c] = p}

(* A running task between two operations of its own code.                  *)
InUserCode(p) == pc[p] = "running" /\ tgt[p] = None

Init ==
  /\ pool = [d \in Desc |-> IF d = Main THEN 0 ELSE 1]
  /\ pc = [d \in Desc |-> IF d = Main THEN "running" ELSE "done"]
  /\ join = [d \in Desc |-> IF d = Main THEN DETACHED ELSE RUNNING]
  /\ wstate = [d \in Desc |-> "IDLE"]
  /\ held = [d \in Desc |-> None]
  /\ tgt = [d \in Desc |-> None]
  /\ pend = [d \in Desc |-> {}]
  /\ result = [d \in Desc |-> "none"]
  /\ branch = {}
  /\ fresh = {}
  /\ wakes = {}

-----------------------------------------------------------------------------
(* Creating tasks.                                                         *)

(* Mutant: the join_state word of a recycled descriptor is not reset.      *)
AllocateStaleWord(p, c, hs) ==
  /\ InUserCode(p)
  /\ pool[c] > 0
  /\ hs \subseteq Handles(p) \ branch
  /\ pool' = [pool EXCEPT ![c] = @ - 1]
  /\ wstate' = [wstate EXCEPT ![c] = "IDLE"]
  /\ held' = [d \in Desc |-> IF d = c THEN p ELSE IF d \in hs THEN c ELSE held[d]]
  /\ result' = [result EXCEPT ![c] = "none"]
  /\ pend' = [d \in Desc |-> IF d = c THEN {} ELSE IF d = p THEN pend[d] \ hs ELSE pend[d]]
  /\ UNCHANGED <<join, tgt, wakes>>

(* Take c from the pool and give its handle to p; the handles in hs move   *)
(* into c's closure or future.                                             *)
Allocate(p, c, hs) ==
  /\ InUserCode(p)
  /\ pool[c] > 0
  /\ hs \subseteq Handles(p) \ branch
  /\ pool' = [pool EXCEPT ![c] = @ - 1]
  /\ join' = [join EXCEPT ![c] = RUNNING]
  /\ wstate' = [wstate EXCEPT ![c] = "IDLE"]
  /\ held' = [d \in Desc |-> IF d = c THEN p ELSE IF d \in hs THEN c ELSE held[d]]
  /\ result' = [result EXCEPT ![c] = "none"]
  /\ pend' = [d \in Desc |-> IF d = c THEN {} ELSE IF d = p THEN pend[d] \ hs ELSE pend[d]]
  /\ UNCHANGED <<tgt, wakes>>

(* spawn: the child runs at once, the parent's continuation is pushed.     *)
Spawn(p, c, hs) ==
  /\ p \in Ult /\ c \in Ult
  /\ Allocate(p, c, hs)
  /\ pc' = [d \in Desc |-> IF d = c THEN "running" ELSE IF d = p THEN "ready" ELSE pc[d]]
  /\ UNCHANGED <<branch, fresh>>

(* spawn_async: the child is pushed, the parent goes on.                   *)
SpawnAsync(p, c, hs) ==
  /\ c \in Async
  /\ Allocate(p, c, hs)
  /\ pc' = [pc EXCEPT ![c] = "ready"]
  /\ UNCHANGED <<branch, fresh>>

(* parallel_call(a, b) up to the call of a: b's task is pushed with a      *)
(* context that nothing has switched to.                                   *)
Fork(p, c, hs) ==
  /\ p \in Ult /\ c \in Ult
  /\ Allocate(p, c, hs)
  /\ pc' = [pc EXCEPT ![c] = "ready"]
  /\ branch' = branch \cup {c}
  /\ fresh' = fresh \cup {c}

(* parallel_call after a, when try_pop yields b's descriptor with the very *)
(* context it was pushed with: free the task and call b as a function, so  *)
(* that what b's closure owns is p's from here on.                         *)
TakeBack(p, c) ==
  /\ InUserCode(p)
  /\ held[c] = p /\ c \in branch
  /\ pc[c] = "ready" /\ c \in fresh
  /\ pool' = [pool EXCEPT ![c] = @ + 1]
  /\ pc' = [pc EXCEPT ![c] = "done"]
  /\ held' = [d \in Desc |-> IF d = c THEN None ELSE IF held[d] = c THEN p ELSE held[d]]
  /\ branch' = branch \ {c}
  /\ fresh' = fresh \ {c}
  /\ UNCHANGED <<join, wstate, tgt, pend, result, wakes>>

(* Mutant: parallel_call would still take a branch that has run and yielded*)
(* for the one it pushed.                                                  *)
DispatchStaysFresh(p) ==
  /\ pc[p] = "ready"
  /\ pc' = [pc EXCEPT ![p] = "running"]
  /\ wstate' = IF p \in Async THEN [wstate EXCEPT ![p] = "POLLING"] ELSE wstate
  /\ pend' = IF p \in Async THEN [pend EXCEPT ![p] = {}] ELSE pend
  /\ UNCHANGED <<pool, join, held, tgt, result, branch, fresh, wakes>>

(* A worker takes a token from a queue, or is handed it (ReadyAndContinue),*)
(* and switches to the task or starts its next poll with mark_polling.     *)
Dispatch(p) ==
  /\ pc[p] = "ready"
  /\ pc' = [pc EXCEPT ![p] = "running"]
  /\ wstate' = IF p \in Async THEN [wstate EXCEPT ![p] = "POLLING"] ELSE wstate
  /\ pend' = IF p \in Async THEN [pend EXCEPT ![p] = {}] ELSE pend
  /\ fresh' = fresh \ {p}
  /\ UNCHANGED <<pool, join, held, tgt, result, branch, wakes>>

(* yield_now: a stackful task is deferred; a polled one wakes itself and   *)
(* returns Pending.                                                        *)
Yield(p) ==
  /\ InUserCode(p)
  /\ pc' = [pc EXCEPT ![p] = IF p \in Ult THEN "ready" ELSE "parking"]
  /\ wstate' = IF p \in Async THEN [wstate EXCEPT ![p] = "NOTIFIED"] ELSE wstate
  /\ UNCHANGED <<pool, join, held, tgt, pend, result, branch, fresh, wakes>>

-----------------------------------------------------------------------------
(* Waiting for a task.                                                     *)

(* take_result: move the result out of c's stack and reclaim c.            *)
TakeResult(p, c) ==
  /\ result' = [result EXCEPT ![c] = "moved"]
  /\ pool' = [pool EXCEPT ![c] = @ + 1]
  /\ held' = [held EXCEPT ![c] = None]
  /\ branch' = branch \ {c}
  /\ pend' = [pend EXCEPT ![p] = @ \ {c}]

(* JoinHandle::join, is_finished() true.                                   *)
JoinFinished(p, c) ==
  /\ p \in Ult /\ InUserCode(p) /\ held[c] = p
  /\ join[c] = FINISHED
  /\ TakeResult(p, c)
  /\ UNCHANGED <<pc, join, wstate, tgt, fresh, wakes>>

(* JoinHandle::join, is_finished() false: save the context and run the     *)
(* suspend callback on the scheduler's stack.                              *)
JoinSuspend(p, c) ==
  /\ p \in Ult /\ InUserCode(p) /\ held[c] = p
  /\ join[c] # FINISHED
  /\ pc' = [pc EXCEPT ![p] = "joining"]
  /\ tgt' = [tgt EXCEPT ![p] = c]
  /\ UNCHANGED <<pool, join, wstate, held, pend, result, branch, fresh, wakes>>

(* try_register_joiner: publish p's token in the word, or find the task    *)
(* finished and cancel the suspension.                                     *)
TryRegisterJoiner(p) ==
  LET c == tgt[p] IN
  /\ pc[p] = "joining"
  /\ IF join[c] = FINISHED
     THEN /\ pc' = [pc EXCEPT ![p] = "running"]
          /\ UNCHANGED join
     ELSE /\ join' = [join EXCEPT ![c] = SyncJoiner(p)]
          /\ pc' = [pc EXCEPT ![p] = "blocked"]
  /\ UNCHANGED <<pool, wstate, held, tgt, pend, result, branch, fresh, wakes>>

(* join() after cond_suspend_to_sched returned.                            *)
JoinReturn(p) ==
  /\ pc[p] = "running" /\ tgt[p] # None /\ wstate[p] = "IDLE"
  /\ TakeResult(p, tgt[p])
  /\ tgt' = [tgt EXCEPT ![p] = None]
  /\ UNCHANGED <<pc, join, wstate, fresh, wakes>>

(* JoinHandle::poll by the task a worker is polling: register that task    *)
(* itself, or find the result and take it.                                 *)
PollHandle(p, c) ==
  /\ p \in Async /\ InUserCode(p) /\ held[c] = p
  /\ IF join[c] = FINISHED
     THEN TakeResult(p, c) /\ UNCHANGED join
     ELSE /\ join' = [join EXCEPT ![c] = AsyncJoiner(p)]
          /\ pend' = [pend EXCEPT ![p] = @ \cup {c}]
          /\ UNCHANGED <<pool, held, result, branch>>
  /\ UNCHANGED <<pc, wstate, tgt, fresh, wakes>>

(* The future of an async task returns Pending once it has a Pending child.*)
ReturnPending(p) ==
  /\ p \in Async /\ InUserCode(p)
  /\ pend[p] # {}
  /\ pc' = [pc EXCEPT ![p] = "parking"]
  /\ UNCHANGED <<pool, join, wstate, held, tgt, pend, result, branch, fresh, wakes>>

(* block_on(handle): UltPoller::new marks the descriptor POLLING.          *)
BlockOn(p, c) ==
  /\ p \in Ult /\ InUserCode(p) /\ held[c] = p
  /\ c \notin branch
  /\ tgt' = [tgt EXCEPT ![p] = c]
  /\ wstate' = [wstate EXCEPT ![p] = "POLLING"]
  /\ UNCHANGED <<pool, pc, join, held, pend, result, branch, fresh, wakes>>

(* One turn of block_on's loop: poll the handle with the poller's waker.   *)
(* Ready drops the poller (mark_idle) and returns the result; Pending      *)
(* suspends into Poller::wait.                                             *)
BlockOnPoll(p) ==
  LET c == tgt[p] IN
  /\ pc[p] = "running" /\ c # None /\ wstate[p] # "IDLE"
  /\ IF join[c] = FINISHED
     THEN /\ TakeResult(p, c)
          /\ tgt' = [tgt EXCEPT ![p] = None]
          /\ wstate' = [wstate EXCEPT ![p] = "IDLE"]
          /\ UNCHANGED <<pc, join>>
     ELSE /\ join' = [join EXCEPT ![c] = AsyncWaker(p)]
          /\ pend' = [pend EXCEPT ![p] = {c}]
          /\ pc' = [pc EXCEPT ![p] = "parking"]
          /\ UNCHANGED <<pool, held, result, branch, tgt, wstate>>
  /\ UNCHANGED <<fresh, wakes>>

(* Mutant: the task parks without looking for a wake that came first.      *)
ParkAnyway(p) ==
  /\ pc[p] = "parking"
  /\ wstate' = [wstate EXCEPT ![p] = "PARKED"]
  /\ pc' = [pc EXCEPT ![p] = "parked"]
  /\ UNCHANGED <<pool, join, held, tgt, pend, result, branch, fresh, wakes>>

(* decide_park and park_after_poll: park, unless a wake came in since      *)
(* mark_polling; a polled task then goes back to a queue, a stackful one   *)
(* is resumed where it is.                                                 *)
Park(p) ==
  /\ pc[p] = "parking"
  /\ IF wstate[p] = "NOTIFIED"
     THEN /\ wstate' = [wstate EXCEPT ![p] = "POLLING"]
          /\ pc' = [pc EXCEPT ![p] = IF p \in Async THEN "ready" ELSE "running"]
     ELSE /\ wstate' = [wstate EXCEPT ![p] = "PARKED"]
          /\ pc' = [pc EXCEPT ![p] = "parked"]
  /\ UNCHANGED <<pool, join, held, tgt, pend, result, branch, fresh, wakes>>

(* Mutant: the handle is dropped without looking for FINISHED.             *)
DropUnseen(p, c) ==
  /\ InUserCode(p) /\ held[c] = p /\ c \notin branch
  /\ join' = [join EXCEPT ![c] = DETACHED]
  /\ held' = [held EXCEPT ![c] = None]
  /\ pend' = [pend EXCEPT ![p] = @ \ {c}]
  /\ UNCHANGED <<pool, pc, wstate, tgt, result, branch, fresh, wakes>>

(* Drop for JoinHandle: abandon the task, or drop its result and reclaim.  *)
DropHandle(p, c) ==
  /\ InUserCode(p) /\ held[c] = p /\ c \notin branch
  /\ IF join[c] = FINISHED
     THEN TakeResult(p, c) /\ UNCHANGED join
     ELSE /\ join' = [join EXCEPT ![c] = DETACHED]
          /\ held' = [held EXCEPT ![c] = None]
          /\ pend' = [pend EXCEPT ![p] = @ \ {c}]
          /\ UNCHANGED <<pool, result, branch>>
  /\ UNCHANGED <<pc, wstate, tgt, fresh, wakes>>

-----------------------------------------------------------------------------
(* The end of a task.  Its closure or future is gone, so it holds nothing. *)

MayExit(d) == d # Main /\ InUserCode(d) /\ Handles(d) = {}

(* Mutant: FINISHED is stored before the exiting task has left its stack.  *)
ExitToJoinerEarly(d) ==
  /\ d \in Ult /\ MayExit(d)
  /\ join[d].tag = "SyncJoiner"
  /\ result' = [result EXCEPT ![d] = "written"]
  /\ join' = [join EXCEPT ![d] = FINISHED]
  /\ pc' = [pc EXCEPT ![d] = "commit"]
  /\ UNCHANGED <<pool, wstate, held, tgt, pend, branch, fresh, wakes>>

(* exit_with_result, try_take_handoff_target says Some: write the result   *)
(* and switch to the joiner.                                               *)
ExitToJoiner(d) ==
  /\ d \in Ult /\ MayExit(d)
  /\ join[d].tag = "SyncJoiner"
  /\ result' = [result EXCEPT ![d] = "written"]
  /\ pc' = [pc EXCEPT ![d] = "commit"]
  /\ UNCHANGED <<pool, join, wstate, held, tgt, pend, branch, fresh, wakes>>

(* Mutant: the hand-over resumes the joiner without storing FINISHED.      *)
CommitForgotten(d) ==
  /\ pc[d] = "commit"
  /\ pc' = [x \in Desc |-> CASE x = d          -> "done"
                              [] x = join[d].by -> "running"
                              [] OTHER          -> pc[x]]
  /\ UNCHANGED <<pool, join, wstate, held, tgt, pend, result, branch, fresh, wakes>>

(* commit_finished, run on the joiner's stack before the joiner goes on.   *)
CommitFinished(d) ==
  /\ pc[d] = "commit"
  /\ join' = [join EXCEPT ![d] = FINISHED]
  /\ pc' = [x \in Desc |-> CASE x = d          -> "done"
                              [] x = join[d].by -> "running"
                              [] OTHER          -> pc[x]]
  /\ UNCHANGED <<pool, wstate, held, tgt, pend, result, branch, fresh, wakes>>

(* exit_with_result, try_take_handoff_target says None.                    *)
ExitAlone(d) ==
  /\ d \in Ult /\ MayExit(d)
  /\ join[d].tag # "SyncJoiner"
  /\ pc' = [pc EXCEPT ![d] = "exiting"]
  /\ UNCHANGED <<pool, join, wstate, held, tgt, pend, result, branch, fresh, wakes>>

(* Mutant: the task frees its own stack while it still runs on it.         *)
ExitAbandonedEarly(d) ==
  /\ pc[d] = "exiting"
  /\ join[d] = DETACHED
  /\ result' = [result EXCEPT ![d] = "moved"]
  /\ pool' = [pool EXCEPT ![d] = @ + 1]
  /\ pc' = [pc EXCEPT ![d] = "release"]
  /\ UNCHANGED <<join, wstate, held, tgt, pend, branch, fresh, wakes>>

(* is_abandoned says yes: drop the value and free after the switch.        *)
ExitAbandoned(d) ==
  /\ pc[d] = "exiting"
  /\ join[d] = DETACHED
  /\ result' = [result EXCEPT ![d] = "moved"]
  /\ pc' = [pc EXCEPT ![d] = "release"]
  /\ UNCHANGED <<pool, join, wstate, held, tgt, pend, branch, fresh, wakes>>

FreeTask(d) ==
  /\ pc[d] = "release"
  /\ pool' = [pool EXCEPT ![d] = @ + 1]
  /\ pc' = [pc EXCEPT ![d] = "done"]
  /\ UNCHANGED <<join, wstate, held, tgt, pend, result, branch, fresh, wakes>>

(* is_abandoned says no: write the result, switch to the scheduler.        *)
ExitWriteResult(d) ==
  /\ pc[d] = "exiting"
  /\ join[d] # DETACHED
  /\ result' = [result EXCEPT ![d] = "written"]
  /\ pc' = [pc EXCEPT ![d] = "settle"]
  /\ UNCHANGED <<pool, join, wstate, held, tgt, pend, branch, fresh, wakes>>

(* poll_spawned_task, the future is Ready: mark_idle, write the result.    *)
PollReady(d) ==
  /\ d \in Async /\ MayExit(d)
  /\ wstate' = [wstate EXCEPT ![d] = "IDLE"]
  /\ result' = [result EXCEPT ![d] = "written"]
  /\ pc' = [pc EXCEPT ![d] = "settle"]
  /\ UNCHANGED <<pool, join, held, tgt, pend, branch, fresh, wakes>>

(* Mutants: the swap ignores a sync joiner that registered after the exit  *)
(* looked for one; it frees an abandoned task without dropping the         *)
(* result.                                                                 *)
SettleNoJoiner(d) ==
  LET old == join[d] IN
  /\ pc[d] = "settle"
  /\ join' = [join EXCEPT ![d] = FINISHED]
  /\ pc' = [pc EXCEPT ![d] = "done"]
  /\ wakes' = wakes \cup {<<d, j>> : j \in {j \in Desc : old \in {AsyncWaker(j), AsyncJoiner(j)}}}
  /\ result' = IF old = DETACHED THEN [result EXCEPT ![d] = "moved"] ELSE result
  /\ pool' = IF old = DETACHED THEN [pool EXCEPT ![d] = @ + 1] ELSE pool
  /\ UNCHANGED <<wstate, held, tgt, pend, branch, fresh>>
SettleKeepsResult(d) ==
  LET old == join[d] IN
  /\ pc[d] = "settle"
  /\ join' = [join EXCEPT ![d] = FINISHED]
  /\ pc' = [p \in Desc |-> IF p = d THEN "done"
                           ELSE IF old = SyncJoiner(p) THEN "ready" ELSE pc[p]]
  /\ wakes' = wakes \cup {<<d, j>> : j \in {j \in Desc : old \in {AsyncWaker(j), AsyncJoiner(j)}}}
  /\ pool' = IF old = DETACHED THEN [pool EXCEPT ![d] = @ + 1] ELSE pool
  /\ UNCHANGED <<wstate, held, tgt, pend, result, branch, fresh>>

(* finish_and_settle: swap in FINISHED and act on the old word.  After the *)
(* swap the exit may touch d only if the old word was DETACHED; waking the *)
(* async waiter is a later step of the worker.  (Bound: no two lives of d  *)
(* owe the same task a wake at once.)                                      *)
FinishAndSettle(d) ==
  LET old == join[d] IN
  /\ pc[d] = "settle"
  /\ <<d, old.by>> \notin wakes
  /\ join' = [join EXCEPT ![d] = FINISHED]
  /\ pc' = [p \in Desc |-> IF p = d THEN "done"
                           ELSE IF old = SyncJoiner(p) THEN "ready" ELSE pc[p]]
  /\ wakes' = wakes \cup {<<d, j>> : j \in {j \in Desc : old \in {AsyncWaker(j), AsyncJoiner(j)}}}
  /\ IF old = DETACHED
     THEN /\ result' = [result EXCEPT ![d] = "moved"]
          /\ pool' = [pool EXCEPT ![d] = @ + 1]
     ELSE UNCHANGED <<result, pool>>
  /\ UNCHANGED <<wstate, held, tgt, pend, branch, fresh>>

(* try_wake_state on the waiter taken out of d's word.                     *)
Wake(d, j) ==
  /\ <<d, j>> \in wakes
  /\ wakes' = wakes \ {<<d, j>>}
  /\ CASE wstate[j] = "POLLING" ->
            wstate' = [wstate EXCEPT ![j] = "NOTIFIED"] /\ UNCHANGED pc
       [] wstate[j] = "PARKED" ->
            /\ wstate' = [wstate EXCEPT ![j] = "POLLING"]
            /\ pc' = [pc EXCEPT ![j] = "ready"]
       [] OTHER -> UNCHANGED <<wstate, pc>>
  /\ UNCHANGED <<pool, join, held, tgt, pend, result, branch, fresh>>

-----------------------------------------------------------------------------
(* What the program's own code asks for.                                   *)
UserStep(p) ==
  \/ \E c \in Desc, hs \in SUBSET Handles(p) :
        Spawn(p, c, hs) \/ SpawnAsync(p, c, hs) \/ Fork(p, c, hs)
  \/ \E c \in Desc :
        \/ TakeBack(p, c) \/ JoinFinished(p, c) \/ JoinSuspend(p, c)
        \/ PollHandle(p, c) \/ BlockOn(p, c) \/ DropHandle(p, c)
  \/ Yield(p) \/ ReturnPending(p)
  \/ ExitToJoiner(p) \/ ExitAlone(p) \/ PollReady(p)

(* What the runtime then does by itself.                                   *)
RuntimeStep(p) ==
  \/ Dispatch(p) \/ TryRegisterJoiner(p) \/ JoinReturn(p)
  \/ BlockOnPoll(p) \/ Park(p)
  \/ CommitFinished(p) \/ ExitAbandoned(p) \/ FreeTask(p)
  \/ ExitWriteResult(p) \/ FinishAndSettle(p)
  \/ \E j \in Desc : Wake(p, j)

Next == \E p \in Desc : UserStep(p) \/ RuntimeStep(p)

Spec == Init /\ [][Next]_vars

(* Workers keep running, so every step of the runtime is taken in the end; *)
(* what the program's code does is its own affair.                         *)
FairSpec == Spec /\ \A p \in Desc : WF_vars(RuntimeStep(p))
-----------------------------------------------------------------------------
(* Properties.                                                             *)

(* Every variable keeps to the values the code gives it; in particular a   *)
(* join_state word always decodes to one of the six JoinState cases.       *)
TypeOK ==
  /\ pool \in [Desc -> Nat]
  /\ pc \in [Desc -> Control]
  /\ join \in [Desc -> JoinState]
  /\ wstate \in [Desc -> WakerState]
  /\ held \in [Desc -> Desc \cup {None}]
  /\ tgt \in [Desc -> Desc \cup {None}]
  /\ pend \in [Desc -> SUBSET Desc]
  /\ result \in [Desc -> {"none", "written", "moved"}]
  /\ branch \subseteq Ult
  /\ fresh \subseteq branch
  /\ wakes \subseteq Desc \X Desc

(* A descriptor is reclaimed once per life, by the joiner, the dropper or  *)
(* the exit path, and only when nothing executes on it or for it, nobody   *)
(* owns its handle and nobody is inside a join of it: no use after free and*)
(* no double free of a task's stack.                                       *)
FreeIsQuiet ==
  \A d \in Desc :
    /\ pool[d] <= 1
    /\ pool[d] = 1 => /\ pc[d] = "done"
                      /\ held[d] = None
                      /\ \A p \in Desc : tgt[p] # d

(* Whoever reads FINISHED may take the result and reclaim: by then the     *)
(* exit path is over, the result is there, and, unless the task is already *)
(* back in the pool, some task holds the handle that will reclaim it (no   *)
(* finished task is leaked).                                               *)
FinishedIsOver ==
  \A d \in Desc :
    join[d] = FINISHED /\ pool[d] = 0 =>
      pc[d] = "done" /\ result[d] = "written" /\ held[d] # None

(* The token of a task blocked in join() is in exactly one place, the word *)
(* of the task it joins, and a word names as sync joiner only a task that  *)
(* is blocked on it: the exit that hands over to it, or pushes it, resumes *)
(* it once, and never while it is running.                                 *)
JoinerInWord ==
  \A p, d \in Desc :
    pool[d] = 0 =>
      (join[d] = SyncJoiner(p) <=> pc[p] = "blocked" /\ tgt[p] = d)

(* join() that returns from its suspension finds the task finished         *)
(* (debug_assert!(desc.is_finished())).                                    *)
JoinedIsFinished ==
  \A p \in Desc :
    pc[p] = "running" /\ tgt[p] # None /\ wstate[p] = "IDLE" =>
      join[tgt[p]] = FINISHED

(* No lost wakeup: a parked task has, for every handle that answered       *)
(* Pending in its last poll, its registration still in the word of that    *)
(* task, or a wake from that task's exit on its way.                       *)
NoLostWake ==
  \A p \in Desc : pc[p] = "parked" =>
    \A c \in pend[p] :
      \/ join[c] \in {AsyncWaker(p), AsyncJoiner(p)}
      \/ <<c, p>> \in wakes

(* A result leaves its slot once, after it was written there (or is        *)
(* dropped by the exiting task itself), and no descriptor returns to the   *)
(* pool with a result still in it, unless its closure never ran.           *)
ResultMovedOnce ==
  [][\A d \in Desc :
       /\ result[d] # result'[d] /\ result'[d] = "moved" =>
            result[d] = "written" \/ pc[d] = "exiting"
       /\ pool'[d] > pool[d] => result'[d] = "moved" \/ d \in fresh]_vars

(* A task that blocks in join() or block_on() on a task that has begun to  *)
(* exit is resumed and returns, whichever way the exit and the             *)
(* registration interleave.                                                *)
JoinReturns ==
  \A p, c \in Desc :
    (tgt[p] = c /\ pc[c] \in {"exiting", "commit", "settle"}) ~> tgt[p] = None

(* A polled task that waits for a handle whose task is over is polled      *)
(* again.                                                                  *)
PolledAgain ==
  \A p, c \in Desc :
    (pc[p] = "parked" /\ c \in pend[p] /\ join[c] = FINISHED) ~> pc[p] = "running"

(* The protocol implements TaskSpec: a descriptor out of the pool is live  *)
(* until FINISHED is in its word, its owner is the holder of its handle,   *)
(* and a task waits for the handle it is inside join() or block_on() of.   *)
Phase == [d \in Desc |-> IF pool[d] > 0 THEN "free"
                         ELSE IF join[d] = FINISHED THEN "finished" ELSE "live"]

Task == INSTANCE TaskSpec WITH phase <- Phase, owner <- held, waits <- tgt

(* Every behaviour of the protocol is one TaskSpec allows: each task is    *)
(* collected once, after its end, by its owner, and ends owning nothing.   *)
ImplementsTaskSpec == Task!Spec

-----------------------------------------------------------------------------
(* The inductive invariant behind the safety properties.                   *)

(* The exit path: a task that has begun to exit waits for nothing and holds*)
(* nothing, its word is not FINISHED yet, and what the exit has read of the*)
(* word (a sync joiner, detachment) still holds when it acts on it.        *)
ExitState ==
  \A d \in Desc :
    /\ pc[d] \in {"exiting", "commit", "settle", "release"} =>
         tgt[d] = None /\ join[d] # FINISHED /\ \A c \in Desc : held[c] # d
    /\ pc[d] \in {"commit", "settle"} => result[d] = "written"
    /\ pc[d] = "commit" => join[d].tag = "SyncJoiner"
    /\ pc[d] = "release" => join[d] = DETACHED /\ result[d] = "moved"
    /\ pc[d] = "done" => tgt[d] = None /\ (pool[d] = 0 => join[d] = FINISHED)

(* A task in use is without a handle exactly if its word says DETACHED;    *)
(* parallel_call, in a stackful task, keeps the handles of its branches.   *)
HandleState ==
  \A d \in Desc :
    /\ pool[d] = 0 => (held[d] = None <=> join[d] = DETACHED)
    /\ d \in branch => held[d] \in Ult

(* What the wake state and the joined handle say of a waiting task.        *)
WaitState ==
  \A p \in Desc :
    /\ tgt[p] # None => p \in Ult /\ held[tgt[p]] = p
    /\ pc[p] \in {"joining", "blocked"} => tgt[p] # None /\ wstate[p] = "IDLE"
    /\ pc[p] \in {"running", "ready"} /\ tgt[p] # None /\ wstate[p] = "IDLE" =>
         join[tgt[p]] = FINISHED
    /\ p \in Ult => pend[p] \subseteq {tgt[p]}
    /\ p \in Ult => (wstate[p] # "IDLE" => tgt[p] # None)
    /\ pc[p] = "parking" => wstate[p] # "IDLE"
    /\ p \in Async /\ pc[p] = "running" => wstate[p] # "IDLE"
    /\ wstate[p] = "PARKED" <=> pc[p] = "parked"
    /\ p \in fresh => pc[p] = "ready" /\ tgt[p] = None

(* Every handle that answered Pending in the poll under way, or in the one *)
(* a parked task was parked after, still leads to a wake of that task.     *)
PendState ==
  \A p \in Desc : \A c \in pend[p] :
    pc[p] \in {"running", "parking", "parked"} =>
      /\ held[c] = p
      /\ \/ p \in Ult /\ pc[p] = "running"
         \/ join[c] \in {AsyncWaker(p), AsyncJoiner(p)}
         \/ <<c, p>> \in wakes
         \/ wstate[p] = "NOTIFIED"

IInv ==
  /\ TypeOK /\ FreeIsQuiet /\ FinishedIsOver /\ JoinerInWord
  /\ ExitState /\ HandleState /\ WaitState /\ PendState

=============================================================================
