# A verification development of cmpth-rs

cmpth-rs is a user-level threading library.  A *system* is a choice of worker
(stackful threads with a context switch, stackless tasks that are polled, both at
once, or fork-join on the worker's own stack), of queues, pools, idle policy and
base system.  This directory holds TLA+ modules translated from its source, TLC
configurations that check them on small instances, and proofs checked by TLAPS.
`PROJECT.json` maps every definition to the lines it models and lists the runs, the
mutants each property was tried against, the hazards of the code and the theorems.
Paths below are relative to `src/src/`; those without a directory prefix of their own
are in `resumable/` or in `src/src/` itself.

## 1. Inventory

| Component | State | Operations | Correct when | Modelled in |
|---|---|---|---|---|
| **Join protocol** `common/desc.rs`, `common/thread.rs`, `stackful/thread.rs`, `stackless/thread.rs` | per descriptor: the `join_state` word (RUNNING, FINISHED, DETACHED or a tagged pointer to a joiner), the result slot, the saved context | spawn, spawn_async, parallel_call, join, poll, block_on, drop of the handle, exit | a task is reclaimed once, after it has left its stack; a joiner is resumed once, with the task finished; no result is lost or moved twice | JoinProtocol, TaskSpec, StacklessCall |
| **Wake state** `common/waker.rs`, `stackful/waker.rs`, `stackless/waker.rs`, `stackless/desc.rs` | IDLE, POLLING, PARKED or NOTIFIED in the descriptor or in a slot of the call; the EVER_SHARED bit | mark_polling, decide_park, try_wake_state, mark_idle, clone of wakers | a wake after the last poll leads to another poll; a task is queued once per wake | JoinProtocol, BlockOnWake |
| **Idle loop, ParkIdle** `common/worker_core.rs`, `common/idle.rs`, `common/dispatch.rs`, `common/steal.rs` | `sleepers`, `epoch`, `finished`; per worker an episode (rounds, ticket) | next_task, no_work_found, work_found, new_work, shutdown | nobody sleeps on work; everybody leaves after `finish` | ParkIdle |
| **SearchIdle** `common/idle.rs` | `searching` besides | try_search, stop_searching, the same hooks | bounded searchers, work always has a finder | SearchIdle |
| **Run queues** `common/deque.rs` | a work-stealing deque (external crate) and a deferred queue with a flag, or a locked queue | push, defer, pop, steal | each continuation is taken once, none overtaken for ever | RunQueues |
| **External queue** `common/external_queue.rs` | a locked vector and a `non_empty` flag, or a list drained by a service task | push, pop, run_service, stop_service | the flag never hides an entry; the service drains to the end | RunQueues, PoolLife |
| **Context switch** `stackful/worker.rs`, `stackful/context.rs`, `stackful/suspended.rs` | each worker's current task and root continuation; wait slots | suspend_to_sched, cond_suspend, exit, enter, swap | a context is switched to by one worker at a time, after it was saved | StackfulSched, WaitSlot |
| **Stackful synchronisation** `stackful/sync/{mutex,barrier,mcs_mutex}.rs` | a waiter queue behind a spin lock; an MCS line | lock, unlock, wait, notify | exclusion, no lost hand-over | SpinSync, McsMutex |
| **Delegators** `stackful/sync/*delegator.rs` | an MCS list, a ring, or a combining list of delegated requests | delegate, lock, unlock, the consumer | each request runs once, inside the lock, and its caller goes on | Delegator, CombiningDelegator, Delegation |
| **Dual mutex, barrier and slot** `common/sync/*.rs`, `stackless/async_wait.rs`, `dual/dual_wait.rs` | an MCS queue whose nodes park a stackful task, an async task or a thread; a tagged slot | lock, async lock, unlock, wait, notify, enter, swap | exclusion, FIFO hand-over, wakes reach the waiter | DualMutex, FifoLock, SpinSync, WaitSlot |
| **Pools** `common/pool.rs`, `common/stack.rs`, `dual/desc.rs` | per-worker free lists, batches returned to the owner | alloc, dealloc, drop of the pool | no block handed out twice, none lost | Pool |
| **Life cycle** `common/scheduler.rs`, `stackful/init.rs`, `stackless/scheduler.rs` | the worker threads, `finished`, `dest_cont`, the TLS pointers | init, run, run_async, drop of the guard | the threads end, and the caller goes on on its own thread | PoolLife |
| **Duties and timers** `duty.rs` | per duty its deadline, period and waiters; the keeper's `planned`; `timed_until`; the timer heap | register, touch, set_deadline, replan, keep, idle_slow, park_timeout, sleep | no due time is missed for good, every sleeper is woken | DutyKeeper, Timers |
| **Post delegators** `post.rs` | a slot per thread, a pending list, a busy lock | post, serve_now, with_lock, the duty's poll | each post is served | PostQueue |
| **Scoped engines** `scoped/*.rs` | a branch per `parallel_call`, on the caller's frame or in an Arc; latches | parallel_call, steal, help, poll, drop | a frame is not left while a thief uses it | ScopedJoin |
| **Base system** `os.rs`, `stackful/tls.rs` | a slot with a parker per thread; a mutex, a condition variable and a thread per delegator; lazily assigned indices | wait_with, wait_with_cond, notify, swap, call, drop, slot | no notify is lost or misspent, the delegator's thread never sleeps on work, indices agree | OsBase |
| **Plumbing, traits** `common/worker.rs`, `spin.rs`, `traits/`, `macros.rs`, `interchange.rs` | a lock word, tagged slots, `polling_async` | forwarding | - | parts in StackfulSched, WaitSlot, StacklessCall |
| **Benchmarks** `bench/` | - | measurement programs | - | - |

**How they interact.**  A worker runs `idle_loop`: it takes a continuation from
its queue, from a victim or from the external queue and switches to it (stackful)
or polls it (async).  A running task calls into its worker: *spawn* takes a
descriptor from the pool and pushes a continuation, which calls `new_work` of
the idle policy; *join*, *lock* and *wait* suspend the task in a callback that
runs on the stack switched to and publishes the task's token in some word, a
`join_state`, a wait slot or a wake state; whoever takes the token out of that word
pushes it to a queue again, or switches to it at once.  Idle workers, and a keeper
thread, run the duties' polls, from which timers fire and posts are served.  Shared
memory is the only channel; the hard behaviours are the interleavings of the
publisher of a token and its taker, what may still be touched after the taker has
it, and the store buffers between a producer's publication and a consumer's
registration.  There is no persistence and no network: crash recovery and message
loss do not arise.  Timeouts exist in `duty.rs` only, as due times, and, as the bounded
wait of a parked worker, in `common/idle.rs`.

`PROJECT.json` lists the hazards at their lines, with the properties that would
catch each one.

## 2. The modules

A module models one part and says in its header which files.  Its actions are the
operations of the code, cut wherever another thread may see or change what lies between
two accesses; a compare-exchange loop is one action that decides on the value of its
last exchange, and a load whose value is used later is an action of its own.  Except
where a module says otherwise, the interleaving is sequentially consistent, because
its atomics are AcqRel or stronger and each property is about one word and what is
published through it, or because the data is behind a lock.

The MC modules compose parts that share no state: a variable `part`, chosen at the start,
says what a behaviour is about, and the other parts keep their initial values.  This
keeps the number of runs small and adds the parts' state spaces instead of
multiplying them.

### JoinProtocol: the life of a task descriptor

Each descriptor `d` has the variables of the code: `join[d]` is the decoded
`join_state`, `wstate[d]` the wake state, `result[d]` the result slot ("none",
"written" or "moved"), `pool[d]` how often the descriptor is in the free pool,
and `held[d]` who owns its `JoinHandle`.  `pc[d]` says where the task's control is;
it also stands for the ownership of its *token*: in a queue ("ready"), in a
`join_state` word ("blocked"), in its own wake state ("parked").  `pend`, `branch`
and `fresh` keep what the program's own frames keep: the handles that answered
Pending in the current poll, the branches a `parallel_call` has pushed, the contexts
nobody has switched to.  `wakes` holds the wakes an exit still owes: between the
swap of FINISHED and the claim of the waiter the worker holds only a pointer, and
everything may happen to the waiter meanwhile.

| Action | Code |
|---|---|
| `Spawn`, `SpawnAsync`, `Fork`, `TakeBack` | the spawns; `parallel_call` up to the call of the first closure, and its pop of its own branch |
| `Dispatch`, `Yield` | a switch or a poll from a queue; `yield_now` |
| `JoinFinished`, `JoinSuspend`, `TryRegisterJoiner`, `JoinReturn` | `JoinHandle::join`, cut at the context save and at the exchange |
| `PollHandle`, `ReturnPending`, `BlockOn`, `BlockOnPoll`, `Park` | the handle as a future, `block_on`, `decide_park` |
| `DropHandle` | `Drop for JoinHandle` |
| `ExitToJoiner`/`CommitFinished`, `ExitAlone`/`ExitAbandoned`/`FreeTask`, `ExitWriteResult`/`FinishAndSettle` | the three ways through `exit_with_result`, cut at every read of the word and at the switch away from the stack |
| `PollReady` | a polled future that is Ready, followed by `FinishAndSettle` |
| `Wake` | `try_wake_state` on a waiter taken from a word |

A panic inside a task is one of its results, as in the code.  Descriptors are recycled:
every task's end returns one, and the instances are small enough that recycling happens
in most behaviours.  Which handles a closure captures (`hs`), what a task does next, and
who runs when, are open.

`TaskSpec` is what the protocol promises: tasks, their owners and what each waits for; no
words.  A task is live, then finished, then collected once by its owner, or abandoned and
reclaimed at its end.  `JoinProtocol!Task` is the refinement mapping: a descriptor is
*finished* when FINISHED is in its word, and its owner is the holder of the handle.

### StacklessCall: parallel_call of the stackless systems

`stackless/system.rs` and what it calls.  `begun[f]` are the calls a future is in,
`phase` says how far each one is: its first branch is polled in a `RecursionFrame`
("first"), the second one in a `BranchPoll` ("inPlace") or awaited ("handle").  `stack[w]`
are the polls nested on a worker, since an await may pop the branch it waits for and run
`run_async_poll` on it there and then (`Reclaim`), and `driven[w]` is `polling_async`, from
which `AwaitHandle` takes the joiner's name.  The user may drop the call at any poll
(`DropFirst`, `BranchOver`, `DropHandle`).  `join_state` is reduced to what matters here.
`CallInv`: a task is in exactly one place, its pool slot comes back once, and a parked
task is one that a leaf's waker or a branch's word will find.

### BlockOnWake: pollers and their wakers

The wake word on one descriptor that two tasks use one after the other, under the
three pollers: `UltPoller` and async tasks with the word in the descriptor,
`ResumablePoller` with a word per `block_on`.  A future waits for several sources; when one
has fired, the wakers that the others hold are stale, fire later and hit whoever has the
word then.  `DecidePark`, `ParkAfterPoll` and `TryWakeState` are the three
compare-exchanges of `common/waker.rs`, `PushContinuation` the push that follows a claim.
`Nesting` names the pollers for which a poll may call `block_on`.

### ParkIdle and SearchIdle: the idle loop under the two parking policies

Queues are counted, not ordered: `queue[t]` tasks of thread `t`, of which the last
`hidden[t]` are not visible to others yet.  One action per atomic access:
`StartRound`/`Look`/`Take`/`EndRound` are `next_task` with a sweep over all
victims; `Spin`/`Register`/`RegisterFence`/`Snapshot`/`Park`/`CheckWait`/
`KernelWait`/`WaitEnds`/`Leave` are `no_work_found` and the futex wait;
`WorkFound` is `work_found`; `Push`/`PushFence`/`ReadSleepers`/`Bump`/`WakeOne` are a
push and `new_work`; `SetFinished`/`ShutdownBump`/`WakeAll` are `finish`.

*Weak memory.*  The protocol's correctness rests on two SeqCst fences, so the model
has store buffers where they matter: a push, and the increment of `sleepers`, is
visible to other threads only when it is committed, by `CommitPush`, `CommitRegister`
or by its thread's next fence.  `epoch`, `finished`, decrements of `sleepers` and
`searching` are single words whose readers act on one value; they are sequentially
consistent.  (The increment is a relaxed read-modify-write: nothing orders it before
the loads of the search that follows, except the fence.)  The mutant `PushNoFence`
shows that the fence is needed in the model.

`Take` fails with `Steal::Retry` only if another thief of the same victim, or
its owner's pop of the last task, won the race; the external queue is locked and
has no such outcome.

`SearchIdle` extends ParkIdle with `searching` (the counter), `searchers` and `parking`
(what the episodes say) and `before` (the value a `fetch_add` returned).  `TrySearch`,
`Accept`/`Refuse`, `OverCap`, `KeepSearching`/`StopSearching` are the hooks cut at
each access of the counters; `Found`, `LastFence`, `LastRead` are `work_found`;
`ReadSearching`, `ReadParked` are `new_work` after its fence.  How long a searcher
searches (a clock and a moving average) is a free choice at each empty round.

### RunQueues: where the tasks wait

`HybridRunQueue` with `StealPathQueue`, and `SpinRunQueue` with `PollerUltQueue`, searched
in the order of `StandardDispatch` and `SweepSteal`: `LoopPlan` and `SwitchPlan` are the
orders in which the loop and a switch look.  `Insert` and `SetFlag` are apart, as the code
unlocks before it sets `non_empty`; `ReadFlag`, `PopList` and `ClearFlag` are a taker's
look without the lock, its look with it, and the clearing under it.  The service of
`PollerUltQueue` is a task among the others: `DrainAll`, `Forward`, `Return`,
`YieldService`.  The lock-free deque is an external crate and is a sequence here; the
combination of a hybrid queue with a poller, and the deque's `Retry`, are left out.

### StackfulSched and McsMutex: stacks, tokens and a lock that suspends

StackfulSched is what `stackful/worker.rs` does with contexts, over the two queues of
`common/deque.rs`.  `thread[w]` is whose stack worker `w` executes on, `saved` the
descriptors whose context is not null, `main[w]` and `deferred[w]` the queues,
`rootCont[w]` the token of the scheduler loop.  `frames[d]` is the stack of `d`, the
running frame first.  A switch with a callback puts the callback's frame **on the stack
switched to**, as the assembly does: what the callback still has to do with the token
of the task it came from is interleaved with everything other workers do, and
what it does while suspending once more is done to its host.  A pop and the switch that
follows it are one step, and so are a switch and a callback that only defers the token
or keeps it in `root_cont`: nobody else can see the descriptor in between, or it is
exactly the owner's own word.  The module has no specification of its own: an object
that tasks wait for extends it with its frames' steps.

McsMutex is the lock and condition variable of `stackful/sync/mcs_mutex.rs` over it.
`Lock` swaps the tail and, with a predecessor, suspends; the callback's steps are
`Publish` (the token into the wait slot) and `Link`.  `StartDrop`, `ReleaseTail`,
`SpinYields` and `HandOver` are `Drop for McsMutexGuard`, of a task's own guard or of the
guard that `wait` moved into its callback.  `Wait`, `PublishWaiter`, `UnlockList` and then
the same drop are `McsCondvar::wait`; `NotifyOne` and `NotifyAll` hold the list's lock from
their first access to their last and are one step each.  `SpinOut` says in which frames
a drop may see its successor missing for 64 loads and yield: a task's own, and for the
violation run the callback's too.

### WaitSlot: one waiter in a slot

`DualResumable` (`dual/dual_wait.rs`, flavor "dual") and the slot of
`stackful/suspended.rs` ("single"), with `wait_with`, `wait_with_cond`, `notify`, `enter`
and `swap`, over the tagged slot of `interchange.rs` and the switches of
`stackful/worker.rs`.  `hand[c]` is the token an actor has taken and not yet delivered,
`callback[c]` what a worker has to do on the stack it has switched to: publish, decide,
cancel, give back the task it had picked.  An OS thread's parker is in its own frame:
`ReadParker`, `SetDone` and `Unpark` are a waker's accesses to it, `ParkReturns` the
thread's, which may leave as soon as `done` is set.  Assumed of callers: one waiter per
slot, and nobody takes a task whose callback may still cancel.  A `swap` with nothing to
switch to returns at once, which is no step.

### DualMutex and FifoLock: a queue of three kinds of waiter

`FifoLock` is the promise: tasks stand in a line and enter one at a time from its head.
`DualMutex` is the MCS lock of `common/sync/dual_mutex.rs` for stackful tasks (`UltTask`),
async tasks (`Async`) and threads outside the pool (`Os`) that lock it again and again.
`StartLock` swaps the tail, `Register` publishes the waiter in its node's slot, `DualLink`
sets the predecessor's next; `Unlock`, `SeeSuccessor`, `TakeSlot`, `WakeRaw` and `FreeNode`
are the guard's drop, cut at each shared access, `Unpark` the second half of a thread's
wake.  The three kinds differ in how a wait ends: a stackful task when it is dispatched; a
thread when it sees `done`, after any number of spurious returns and left-over park tokens;
an async task when it is polled for the second time, by whomever.  `OtherWake` is a wake
that has nothing to do with the lock: it ends the async task's other waits (`Rest`), and at
most `Stray` times it comes while the task is elsewhere.  Nodes are boxes; `WaitNode` is the
memory they are placed in, so that a freed address is used again.

### SpinSync: waiters behind a spin lock

The mutex and condition variable of `stackful/sync/mutex.rs`, the barrier and the dual
barrier.  A waiter queues an empty slot (`Enqueue`), suspends, and only then are its token
published (`PublishToken`) and the spin lock released (`DropSpin`).  The users are getters
and putters of items with the condition variable, or tasks of both kinds that meet at the
barrier.  The spin locks and the unlocked mutex are not fair, so only safety is checked.

### Delegator, CombiningDelegator and Delegation

`Delegation` is the promise: each request is executed once, by somebody who has the
resource to himself, and answered once; a `with_lock` body has the resource to itself too.
`Delegator` is `delegator.rs` over its two queues, the boxes of `mcs_delegator.rs` and the
ring of `ring_delegator.rs`: `Claim`, `Publish` and `Link` are a caller's way into the line,
`ConsumerBegin` to `ConsumerRelease` the consumer's, who executes the line and parks while
someone else has the lock; `UnlockAndWait` and `cb` are the callback that goes on after
its caller was resumed.  `Place` maps a ticket to the memory of its node, so that a ring
that wraps round reaches a slot again.  `CombiningDelegator` has no consumer: `Swap`,
`Settle`, `LinkBehind` line up, and the holder's `BeginDrain`, `LoadNext`, `Run`, `Advance`,
`Release` serve whoever is linked.  Resources defer requests as they like and complete them
when polled.  The `!is_active` branch of `unlock_and_wait` is never reached from `call` and is
left out; spin hints and the contents of requests are abstract.

### Pool

`SimplePool`, `ReturnPool` and the blocks under `ThresholdPool` (`common/pool.rs`,
`common/stack.rs`).  Nodes are boxes with a `link` field through which every list runs, so
that an error in one list shows in another.  `StageNode`, `LockHome`, `SpliceLink`,
`SpliceHead` are the batched way home, `TakeDrained` the owner's end of it; `Drop` is the drop
of the pool, which has to find every box.  `span` and `mapped` count the pages of the stacks.
`MallocFrame` keeps nothing and has no action; alignment is left out.

### DutyKeeper and Timers

DutyKeeper is `duty.rs` without its timers.  Each duty has `last`, `period`, `waiters` and
`deadline`; the keeper (`KeepOldPlan` to `KeeperWakes`) runs what is due, plans and sleeps
until `planned`; a user who makes a duty due earlier stores, fences, compares with the plan
and unparks (`SetDeadline`, `NewWaiter`, `Touch`, `UnparkKeeper`); idle workers poll duties at
half their time (`ServeDuties`), and one of them keeps the due times while it is parked
(`TakeRole`, `Promise`, `LeaveRole`), in which case the keeper only checks that the promise is
renewed.  The clock is an action; a worker that is busy, parked or gone is one that is
slow.  `set_wait_period`, background QoS and statistics are left out.

Timers is `sleep` on top of one such duty: `EnterSleep` and `Replan` are the first poll,
`PollAgain`, `StoreWaker`, `Recheck` a later one, `LockQueue`, `Pop`, `TakeWaker`, `SetAlarm`,
`CallWakers` the firing, run by the keeper or by an idle worker.

### PostQueue

The designs of `post.rs`: a slot per thread with a count (`BumpMark`), or those plus a pending
list (`SwapQueued`, `LoadPending`, `LinkPending`) whose first entry asks for a poll (`Ask`).
`ServeNow`, `WithLock` and the duty's poll compete for the server's lock; `TakeSlots`,
`ClearQueued`, `Collect`, `ServeBatch` are a serve.  Memory is sequentially consistent but for one
plain store, the clearing of the deadline before a poll, which waits in a store buffer
(`FlushClear`).  That a delegator's drop waits for a running poll is DutyKeeper's `DropDuty`.

### ScopedJoin

Both engines of `scoped/`: `Fork` pushes the second branch, `PopOwn` takes it back,
`RunOne` is the helping of a thread that waits, `StoreResult` and `SetLatch` the end of a stolen
branch, cut where the waiter may go on and its frame die.  In the async engine `Register`
leaves a waker in the latch, a driver polls (`PollDriven`), a leaf pends and wakes, and the call
may be dropped at any poll (`DropCall`).  The pop and putting back of another task is one step;
panics and the threads' own start and end are left out.

### OsBase

`OsSuspendedThread`: `BeginWait`, `PublishParker`, `RunWaitF`, `CancelWait`, `CheckReady`,
`EmptySlot` are the waits and a swap's first half, `TakeParker`, `SetReady`, `Signal` a notify, which
holds the slot's lock throughout.  `OsDelegator`: a call that the consumer keeps is `Execute`,
`PublishParker`, `ReleaseMutex`, `TellLoop`; the delegator's thread is `LoopWaits`, `LoopProgress`,
`MoveParker` (out of the caller's frame), `SetReady`, `Signal`; the drop is `SetFinished` to
`JoinLoop`.  A call that finishes at once, and `with_lock`, change nothing that is modelled.
`FindSlot` to `PublishIndex` assign an index, in `OsTls` and in `UltTls`.  Waits on a condition
variable may return by themselves.

### PoolLife

`init` and the drop of its guard, `run_async`, the loops of `common/scheduler.rs`, and the
external queue's service.  The caller becomes a task, so it drops the guard on any worker:
`StopService`, `JoinService`, `Finish`, `ParkMain`, `WriteDest`; worker 0's loop leaves, joins
the other threads (`JoinThreads`) and jumps to it (`EnterDest`).  Queues are sets; the caller's
own yields and panics are left out.

## 3. The runs

| Run | Instance | Shows |
|---|---|---|
| JoinSafety | 3 stackful descriptors (one is the first task), 1 async; 2 duties and 2 workers in DutyKeeper | all safety properties of the protocol; no due time is forgotten and no poll outlives its duty |
| JoinAsync | 1 stackful, 2 async descriptors; 3 workers in PoolLife | the inductive invariant, also where async tasks await each other and descriptors are recycled while a wake is owed; TaskSpec is implemented; joins return, waiting polls are repeated; a pool ends, alone, on the thread that began it |
| Park | 2 workers, 1 spin round, 3 pushes; 2 workers, 1 outside thread, 3 tasks in RunQueues | no lost wakeup, exact counters, idle workers stop, queued work is taken; items are in one place, a lowered flag hides none, each one runs |
| Search | 2 workers, 1 thread outside, 1 push | exact `searching`, the cap, the pool never sleeps on work, work is taken in the end |
| Locks | DualMutex: one waiter of each kind, 3 nodes; McsMutex: 2 workers, 3 tasks, 4 nodes, 4 calls | no node is touched after its free; FifoLock is implemented; a token is in one place, reachable waiters are parked; every waiter gets in |
| Delegators | 2 callers, 3 calls, ring of 2; 3 users, 3 uses; Pool: 2 workers, 3 blocks | both delegators implement Delegation, every call returns, nodes and frames are not used after their time; no block or page is lost or in two places |
| Services | see the cfg | Timers, PostQueue, SpinSync, ScopedJoin, StacklessCall, BlockOnWake, WaitSlot: one invariant each (`BranchesInv` is that of both `parallel_call`s, `WaitersInv` that of WaitSlot and OsBase) |
| MutexStray | 1 stackful, 1 async, 1 stray wake | violation: finding 1 |
| McsSpinOut | 2 workers, 2 tasks, 3 nodes, 2 calls | violation: finding 2 |
| TimerLost | 2 sleepers, 1 idle worker | violation: finding 3 |
| PostLost | 2 producers, the duty's thread | violation: finding 4 |
| NestedLost | 1 ULT, 2 sources, nesting allowed for the descriptor's word | violation: finding 5 |

The mutants in `PROJECT.json` are one per property of a passing run: the definition they
replace, with a dropped reset, a store too early, a wake forgotten or a fence left out.  Each
property was seen to fail under its mutant.

### Bounds

*JoinProtocol.*  A word relates a task, its joiner and the task's owner, so three stackful
descriptors have a task that joins while being joined, and two async ones have a stale waiter
whose descriptor is recycled.  Descriptors of one kind are exchangeable, except the first
task's (symmetry, in the run without liveness only).  `wakes` is a set: a descriptor does not
finish a second life while its first still owes the *same* task a wake (guard of
`FinishAndSettle`); both wakes would be the same call with the same effect.  Deadlock is
checked in JoinAsync, since the first task never ends.

*StacklessCall.*  `MaxCalls` 2 on two workers: a call in the first branch of a call or in a second
one, each of them kept, stolen, dropped, or reclaimed from the queue of another worker after
a park.  A task has a leaf that pends once (`leafs`), so each future is parked and resumed.

*ParkIdle, SearchIdle.*  `MaxPush`: one push can race with each of a worker's steps, a second
one with the wake of the first, a third with the next parking.  `SpinRounds`: 1 in Park, 0 under
SearchIdle (a spin is one more empty round).  Pushes by threads outside the pool are in the
SearchIdle run, whose actions include all of ParkIdle's.  `epoch` is a natural number bounded by
the pushes; its wrap at 2^32 (a worker delayed for exactly that many wakes) is out of reach.

*RunQueues.*  Three items: one that runs and yields, one that is pushed or deferred while another
worker looks, one from outside.  In a StealPathQueue the newest is taken first, but what
outside threads push is bounded here, so nobody is overtaken for ever.

*DualMutex.*  Each waiter locks without end, so nodes are reused in every order; three
waiters, one of each kind, make a line in which each link can be late while its neighbours
move.  As many nodes as waiters are enough, since a waiter has one at a time.  `Stray` is 0 where
the properties are to hold and 1 where a stray poll is the question.

*McsMutex.*  `MaxCalls` bounds the lock and wait calls of all tasks (the second lock of a wait is
not counted); four calls are a holder with two waiters in line and a wait, or a wait, its
notifier and two competitors.  Three tasks on two workers leave one in a queue, so that a callback
runs above a task on one worker and above the loop on the other.

*Delegators.*  A ring of two slots is full with one waiter, and `MaxCalls` 3 makes it wrap.  Three
users of the combining delegator make a chain whose middle is late.  *Pool.*  `Thresholds` and
`Cap` of 1 and 2 fill a batch, a list and the excess with three blocks.

*DutyKeeper.*  `MaxOps` 1 user operation, and (`DutyCase`) one duty with one worker and the user,
one duty with two workers, or two duties with one worker.  The clock shows times up to `Horizon` 2,
at which a period has doubled and is put back; with two workers it stops at 1 (`Crowded`), when the
role of keeping the due times has passed from one to the other.

*Services.*  Timers: two sleepers, polled twice, due at times up to 2.  PostQueue: two producers,
two posts each.  SpinSync: two getters, two putters with two items, or three parties, one async,
for two rounds (a fast party meets the slow ones of the round before).  ScopedJoin: two threads,
three calls.  BlockOnWake: two tasks on one descriptor, two polled futures, two sources.
WaitSlot: two workers, two tasks, one async task, one thread, two slots.
OsBase: three threads with two waits or calls, so that two notifiers race for a waiter that
cancels; two anchors, and more indices than three threads can waste.  The violation runs that
extend MCServices shrink the parts they are not about.

Where a behaviour ends because its bounds are used up or its program may stop, deadlock is
not checked.

### Fairness

*JoinAsync.*  Weak fairness of `RuntimeStep(p)`, that is of what a worker does by itself once it
has a task (dispatch it, run a suspend callback, finish an exit, deliver a wake); workers are
threads that keep running.  No fairness for the program's own choices (`UserStep`), except what
the conclusion's hypothesis says has begun.  One condition per descriptor is enough: a runtime
step of a task stays enabled until it is taken, and the wakes one exit owes are finitely many.
For PoolLife: weak fairness of the caller's start and end, of each worker's loop and of the
service's yields; strong fairness of the tasks' own steps (a yield takes the worker away in
between) and of a queued task being taken, which is what `ItemsRun` shows of the queues.

*Park.*  Weak fairness for each worker's search and sleep steps, each producer's announcement,
shutdown and the store buffers; none for `TaskEnds` (a task may run for ever) nor for
`WaitEnds` (a wait need not return by itself).  For RunQueues: weak fairness of each worker's
looks, and of the flag that follows an insertion.  *Search* adds that running tasks end, without which
a task can stay behind a busy worker, see the observations.

*Locks.*  DualMutex: weak fairness of each waiter's own steps, the release of the lock included; none
for `StartLock`, spurious returns and other wakes.  McsMutex: weak fairness of each worker's
`Progress`, what the runtime does once a call has begun and what an idle worker does; and, of
the program, that a task that is run again and again begins to release what it holds, or exits
(strong, since a yield takes the worker away in between).

*Delegators.*  Weak fairness of each caller's and of the consumer's steps; strong fairness of the
poll in which the resource completes a deferred request: a resource that is polled again and
again completes it in the end.

The other runs check safety only.

### Findings

1. `MutexStray`: the future of `StacklessResumable::wait_with` is documented as
   "completing once notified" (`traits/component/stackless.rs:79`), but is Ready at its
   second poll whatever caused it.  A task that awaits the lock and is polled because
   of a waker it left elsewhere holds the lock together with the previous holder.
2. `McsSpinOut`: `McsCondvar::wait` drops the guard inside the callback of its
   suspension (`stackful/sync/mcs_mutex.rs:117`), on the stack of whatever runs next.  If
   the successor in the lock's line has been slow to link itself, the drop calls
   `yield_now` there (lines 61-62).  Above the scheduler loop with an empty queue there is
   nothing to switch to, since the root's continuation has just been taken, and
   `take_root_cont` panics (`common/worker.rs:402-405`); with a task in the
   queue, the token of the root itself goes to the deferred queue, where a thief may take it.
3. `TimerLost`: `fire_timers` sets the timer duty's deadline for the sleepers that remain and
   relies on its caller to plan again (`duty.rs:726`).  The keeper does; an idle worker only
   recomputes `half_due`.  With a replan in between that read the cleared deadline, the
   keeper sleeps on without a plan.
4. `PostLost`: the clearing of the deadline before the poll is a plain store
   (`duty.rs:471`) and the poll of an empty list reads without a fence (`post.rs:313`, `:347`).
   If the store takes effect after the reads, it erases the request of a post that came in
   between, and every later post finds the list non-empty and does not ask.
5. `NestedLost`: `UltPoller` keeps its word in the descriptor.  A `block_on` inside the poll of
   another one leaves it IDLE, so a wake for the outer future is erased or does nothing
   (`stackful/waker.rs:163`), and the outer one parks for ever.  With `ResumablePoller`,
   whose word is in the call, the same nesting is safe (Services).

Observations from the translation, without a run of their own:

- `finish_and_settle` says of a failed claim that the joiner is "genuinely POLLING/NOTIFIED
  right now" (`common/desc.rs:338`); it may also be IDLE, when its descriptor was left in the word
  by a joiner that moved its handle on and completed.  No wake is lost by it.
- SearchIdle's description (`common/idle.rs:528`) has the last searcher to find work wake a sleeper, "so
  that while work is around someone keeps looking"; a worker that finds work in the search it makes
  after it stopped counting itself (line 626) wakes nobody, until a running task ends.
- `McsDelegator` frees the node before the head, never the last holder's
  (`stackful/sync/mcs_delegator.rs:127`): one box for each time the lock becomes free.
- `PollerUltQueue::run_service` drains, then checks for the stop (`common/external_queue.rs:213`);
  the comment above promises one more drain than that gives.
- When the worker that promised to keep the due times is late, `until + TIMED_SLACK` is in the past
  and the keeper goes round without sleeping until the duty itself is due (`duty.rs:541`).
- A touch, and an idle worker's productive poll, put a backed-off period back without a
  replan (`duty.rs:227`, `:378`).
- `fire_timers` calls wakers after it has released the queue (`duty.rs:795`), so a `Sleep` that was
  dropped may still be woken.
- An async task that waits at a `DualBarrier` passes early when it is polled for another reason: finding
  1 in another place.
- `mark_polling` clears EVER_SHARED, which `common/waker.rs:49` and
  `traits/component/stackless.rs:43` call sticky.
- A stackless `parallel_call` dropped during its first branch never gives back the second one's
  descriptor: `BuiltAsyncTask` has no Drop, and no handle exists yet (`phase` "dropped").
- Threads that race to assign a thread-local index waste the losers' ones, which count against
  `OS_TLS_MAX_SLOTS` (`os.rs:188`): the assertion may fail with fewer systems than that.
- `scheduler_loop`'s captured references are never dropped, since `exit_to_cont` diverges (`stackful/init.rs`);
  `run` and `run_async` leave tasks that nobody waits for in worker 0's queue.

## 4. The proofs

### JoinLife_proofs (JoinProtocol and PoolLife)

Of JoinProtocol, `JoinLife_proofs` proves, for any sets of descriptors that satisfy
`DescAssumption` (the first task is stackful, the kinds are disjoint, the null
pointer is no descriptor), that `IInv` is an invariant of `Spec`, and from it TypeOK,
FreeIsQuiet, FinishedIsOver, JoinerInWord, JoinedIsFinished, NoLostWake and the action
property ResultMovedOnce.

The argument.  `FreeIsQuiet`, `FinishedIsOver` and `JoinerInWord` are the
properties wanted, and are not inductive by themselves:

- an exit acts on what it read of the word some steps ago, so `ExitState` says that
  what was read still holds: a sync joiner and DETACHED are never replaced, because
  only the owner of the handle may change the word and that owner is blocked,
  respectively gone;
- reclaiming needs the handle: `HandleState` says a task in use lacks a holder
  exactly if its word is DETACHED, so dropper and exit never both reclaim;
- a returning joiner relies on what woke it: `WaitState` says that a joiner that is
  running again has a finished target, and ties the wake state to the control;
- `PendState` carries NoLostWake through a poll: each Pending handle still has its
  registration, an owed wake, or has left its mark as NOTIFIED.

The lemmas `WordsDiffer`, `WordsDecode`, `WordsTyped` and `SyncWord` are about the
encoding of the word (the cases are distinct, and what each decodes to); `InUse` and
`HeldStays` about descriptors in use.  There is one lemma `<Action>Keeps` per action,
one step under it per conjunct the action can disturb; `InitIInv` and `NextIInv`
collect them.

That JoinProtocol implements TaskSpec (`Refinement`) follows from `IInv` and `MainLives` (the first
task neither exits nor is a branch): each action maps to a step of TaskSpec or leaves its variables alone.

Of PoolLife, `LifeInv` for any workers and tasks.  `OnePlace` is UnitsOnce without numbers, with the caller's
places (a joiner's word, a callback, `dest_cont`) beside the queues; `MainState` says how far the
caller is for each state of the flags, `ThreadState` where the threads can be.

### DutyKeeper_proofs

`DutiesInv` for any duties, workers and periods.  What has to be kept is not the plan but what
the keeper still knows while it makes one: `PlanState` says that a duty it has accounted for
is due no earlier than its account, or its user is at `replan`, or the keeper has been unparked.  A
duty is *calm* in a step that does not make it due earlier, or makes it so by a period that
was put back (which the keeper's plan allows for); a calm step keeps every plan (`CalmStep`),
and the actions differ only in why they are calm.  The times saturate at NEVER.  The lemma
that a set of times has a least one is by well-founded induction.

### Idle_proofs (ParkIdle and SearchIdle)

`ParkInv` and `WorkHasSeeker` for any number of workers, `SearchInv` and `NotAllAsleep` for either
cap.  Both rest on `Sound` (types, at most one invisible push per thread, who has a ticket) and
on what a worker has seen in the round that may be its last: `Passed(w, v)` says that w looked
at v's queue since its snapshot of `epoch` and `epoch` has not moved, and then that queue is empty
or its push is still going to bump `epoch` (`PassedEmpty`).  ParkIdle counts: a worker that leaves
the seekers has seen every queue empty.  SearchIdle cannot count, since a push wakes nobody if it
sees a searcher; instead `LeftCovered` says that whatever is queued and no longer announced
will be looked at by somebody awake, or a worker is about to be woken.  `Ranked` orders the
searchers by the count each one found, which bounds them by the cap.

### RunQueues_proofs

`QueueInv` for any workers and tasks and either design.  Counting does not carry through the steps, so
`QueueIInv` gives every task, and the service, its one place instead (`Placed`: fresh, run by a
worker, in a main queue, in a locked list, drained and not yet forwarded, ran, gone), and says that
no sequence names anything twice.  `LookState` says what a worker knows while it looks (it runs
nothing, and between the lock and the flag it stands before a locked list), `PendState` that only
the worker that runs the service holds drained items: there is one service, so a drain never
finds items left from the drain before.  `FlagState` is the second half of QueueInv and inductive
as it is: the flag of a list is lowered only under the lock and when the list is empty, and every
insertion leaves its pusher about to raise it.  Places become the numbers of QueueInv at the end,
by the cardinality of sets with one element or none.

### DualMutex_proofs

`LiveInv`, `CompletesOnceNotified` and the refinement of FifoLock, for any tasks and any memory
in which addresses are used again.  The line is in no variable of the code; `DualIInv(s)` says
what the nodes' words mean for a sequence s (who is linked behind whom, whose slot is empty, who
is claimed), every action leaves such a sequence, and there is only one (`OrderIsKnown`), which is
the line of the refinement mapping.  The theorems assume `Stray = 0`, that an async task is
woken by nothing but what it waits for: with other wakes the code breaks them (run MutexStray).

### McsMutex_proofs (McsMutex over StackfulSched)

`ParkedInv` for any workers, tasks and nodes: no token of a suspended task is lost, doubled or
handed to two workers, whatever suspends above what.  The theorem `TokensSafe` assumes that
"cv" is not in `SpinOut`, that the drop in a wait's callback finds its successor linked within 64
loads: with it the code breaks (finding 2, run McsSpinOut), since that callback yields with the context
of its host.

`ParkedInv` counts places; the invariant `McsIInv` names them.  `Placed(d, h, u)` is
the one place of the token of `d` (a thread, `root_cont`, a queue, a callback's hands, a node's slot,
the list of waiters) and the numbers follow at the end.  That no step doubles a place
needs the rest: `FrameState` says what a stack can hold, the loop or the task's own frame at
the bottom and callbacks of locks and waits above it; `OwnState` that a node in use belongs to one
frame, which is a guard's; `LockState` and `NextState` that a waiting node has one predecessor at
most, about to be linked or linked, and `SlotState` that a slot holds the token of the task that waits
with that node.  Hence the successor that an unlock sees is parked, and in no queue yet.
`CvState` is the same of the waiters' list: whoever is in it has published its token,
but for the one whose callback still holds the list's lock.

A callback is pushed in front of the frames of its host, so the index of a frame changes while it
waits.  The invariant numbers frames from the bottom (`Spots`, `Fr`), and lemmas on `Advance`,
`Return` and `SwitchTo` (`Retopped`, `Popped`, `Suspended`, `Abandoned`) say what each does to these
numbers; the proofs of the actions use nothing else of sequences.

### Services_proofs

Three services that share nothing but the library's lemmas.

*Timers*: `SleepersWoken` for any sleepers and due times.  `SleeperState` says where a sleeper's
timer is (in the heap, on its way to being fired, fired) and where the waker of its last poll
went; `AlarmState` that the alarm is no later than any timer in the heap except while the duty itself
has the queue.  A sleeper that found its timer unfired and stores its waker looks again, and
`SleeperState` covers the gap between the two looks.

*BlockOnWake*: `OneContinuation` for any nesting of `block_on` and any wakers, and `WakersInv`
for nestings in which no level polls with the descriptor's own word.  That hypothesis is
needed: the run NestedLost loses a wake without it.  `PlaceState` puts the continuation of a
stackful task in one place (run, saved in the cell of the innermost call, in a waker's hand,
queued); `WordsTell` says that the word of every call that waits, not only of the innermost,
was notified or is armed: each of its sources has yet to fire or is about to mark the word.

*SpinSync*: `SyncInv` for any getters, putters and parties.  `InQueue`, `HandsHold`, `Slots`, `Steps`
and `Spins` say that a waiter is in one queue once or in one hand, and that only the task that
holds the spin lock can be in a queue without its token published, so whoever takes it under that lock
can resume it.  `HolderState` counts a waiter that was taken out of the mutex's queue as its owner,
before it runs; `ItemState` bounds the items by the getters and putters that will look or announce;
`RoundState` says that the parties are in one round of the barrier, or have arrived at the next.

### Delegators_proofs

*CombiningDelegator*: `FrameInv` and the refinement of Delegation, for any tasks.  The nodes are frames
of the callers' stacks, chained by what each caller swapped out; `Chain` says that whoever has
not settled yet lines up, one behind the other, behind the holder or the tail it goes on from,
`Sleep` that a caller sleeps until its request is answered, and `Answers` that the requests
executed at once, deferred and about to be told are disjoint.

*Delegator*: `ConsumerInv` and the refinement of Delegation, for any callers, calls, and size of the
ring.  `Lined` says what the tickets from the holder's node to the tail stand for: each a caller of
its own, its node filled before it is linked, asleep.  `Role` says that one thread has the lock and
the consumer is parked if a caller has it; `Ends` that a drop is the last to line up; `QueueState`
that the tickets in use are fewer than the slots of the ring, from which `NodesApart` follows, and
that the boxes from the holder's node to the tail are not freed.  `Serving`, `Handed` and
`Postponed` (the request that is executed, the caller to be woken, the deferred requests) are
disjoint, so no request runs or is answered twice.

Both refinements map a caller to the stage of its call (`Stage`, `CallStage`).  A step moves one
call by a step of Delegation, or none (`StageMoves`, `StagesStay`).

### What is only model-checked

- Liveness, which is out of the prover's reach: `PoolEnds`, `WorkIsTakenInTheEnd` and the like.
- What is defined by recursion over data (the lists of Pool, `PostsFound`'s walk along a list).
- The properties of WaitSlot, PostQueue, ScopedJoin, StacklessCall and OsBase: not proved yet.
- McsMutex with a callback that spins for long: the code is wrong there, see finding 2.

An assignment to two entries of a function is written with a constructor in the modules
that are proved about, as the two indices may be equal.

## 5. What is not modelled, and why

- std's threads, locks and parking, futexes and memory, and the assembly of `context.rs` are below this
  level: they are used through what they promise, a wait that may return by itself and a switch
  that saves a context.  The work-stealing deque is another crate.
- Traits, macros and the forwarding layers (`*/system.rs`, `lookup.rs`, `observe.rs`) choose types
  and pass calls on; where a default method does something, it is in the module of its callee.
- `bench/` measures the library and others; it has no state of the library.
- Handles and wakers used by threads outside the pool (OS threads wait in DualMutex, WaitSlot and OsBase
  only); the fallback poller that spins; the reference counts of slots shared by wakers.
- Panics between the fork and the join of a `parallel_call`, and the abort when a pool's guard is
  dropped in an unwinding: a task's panic is its result, these are not actions.
- `RandomSteal`: the models' last search before parking looks at every queue, and
  `common/idle.rs` demands of a policy that parks a steal that does.
- A lock future of DualMutex that is dropped while it waits.
- `yield_now`'s fair re-queue of an async task is not in JoinProtocol and StacklessCall, where the
  order of a queue is open, respectively its newest end is all that matters.

## 6. What is worth proving next

The modules were written to be proved about: named assumptions, one action per operation, invariants
as conjunctions of named parts, recursion as functions.  In the order of weight:

1. that McsMutex implements FifoLock, as DualMutex does;
2. the slots of WaitSlot and OsBase, StacklessCall, ScopedJoin.
