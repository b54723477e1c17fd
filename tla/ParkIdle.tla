------------------------------ MODULE ParkIdle ------------------------------
(***************************************************************************)
(* The idle loop of a worker pool (resumable/common/worker_core.rs) under  *)
(* the ParkIdle policy (resumable/common/idle.rs): an idle worker searches *)
(* the queues for a while, registers as a sleeper, searches once more and  *)
(* blocks its thread until epoch changes; whoever publishes a task bumps   *)
(* epoch and wakes one sleeper if any is registered.                       *)
(*                                                                         *)
(* Memory is weak: a push, and the increment of sleepers, stay invisible   *)
(* to other threads until they are committed, at the latest by the         *)
(* thread's next SeqCst fence.                                             *)
(***************************************************************************)
EXTENDS Integers, FiniteSets

CONSTANTS
  Worker,     \* the workers of the pool
  Ext,        \* threads outside it that push to the external queue
  SpinRounds, \* SPIN_ROUNDS + YIELD_ROUNDS
  MaxPush,    \* bound: how many tasks are pushed in all
  None        \* no ticket, no victim

ASSUME IdleAssumption ==
  /\ IsFiniteSet(Worker) /\ IsFiniteSet(Ext)
  /\ Worker \cap Ext = {}
  /\ SpinRounds \in Nat /\ MaxPush \in Nat
  /\ None \notin Nat \cup Worker \cup Ext

Thread == Worker \cup Ext

(* Where a thread is: a worker in its idle loop, or in a task; a thread    *)
(* outside the pool is always in its own code.                             *)
Control == {"loop",      \* top of idle_loop
            "search",    \* in next_task, some victims left
            "take",      \* in next_task, about to take from a victim
            "nowork",    \* entering no_work_found with nothing to retry
            "fence",     \* registered, before the fence
            "snapshot",  \* before the load of epoch
            "check",     \* entering ParkWait::wait
            "syscall",   \* entering the kernel's wait
            "waiting",   \* blocked
            "leave",     \* back from the wait, still registered
            "found",     \* entering work_found
            "running",   \* in the program's own code
            "pushed",    \* entering new_work
            "fenced",    \* before the load of sleepers
            "bump",      \* in wake_one, before epoch += 1
            "wake",      \* in wake_one, before the wake of one waiter
            "exited"}    \* left the idle loop

VARIABLES
  queue,     \* queue[t]: tasks in t's queue
  hidden,    \* hidden[t]: how many of them no other thread can see yet
  sleepers,  \* the counter, as far as it is committed
  unseen,    \* workers whose increment of sleepers is not committed
  epoch,     \* the wait address
  finished,  \* the pool's flag
  stopping,  \* what finish() still has to do: "no", "bump", "wake", "done"
  pc,        \* control of each thread
  left,      \* left[w]: the victims w's round has not tried
  aim,       \* aim[w]: the victim w is taking from; None if it lost the race
  retry,     \* workers that saw work they could not take in this round
  rounds,    \* ep.rounds
  ticket,    \* ep.ticket
  pushes     \* tasks pushed so far

vars == <<queue, hidden, sleepers, unseen, epoch, finished, stopping,
          pc, left, aim, retry, rounds, ticket, pushes>>

mem == <<queue, hidden, unseen, pushes>>           \* task queues
wait == <<sleepers, epoch, finished, stopping>>    \* the policy's own words
search == <<left, aim, retry>>                     \* a search round
episode == <<rounds, ticket>>                      \* ParkEpisode

Go(t, from, to) == pc[t] = from /\ pc' = [pc EXCEPT ![t] = to]

Visible(v) == queue[v] - hidden[v]

Init ==
  /\ queue = [t \in Thread |-> 0]
  /\ hidden = [t \in Thread |-> 0]
  /\ sleepers = 0 /\ unseen = {}
  /\ epoch = 0 /\ finished = FALSE /\ stopping = "no"
  /\ \E main \in Thread :
       pc = [t \in Thread |-> IF t \in Worker \ {main} THEN "loop" ELSE "running"]
  /\ left = [w \in Worker |-> {}]
  /\ aim = [w \in Worker |-> None]
  /\ retry = {}
  /\ rounds = [w \in Worker |-> 0]
  /\ ticket = [w \in Worker |-> None]
  /\ pushes = 0

-----------------------------------------------------------------------------
(* Memory.                                                                 *)

(* A push, or an increment of sleepers, reaches the other threads.         *)
CommitPush(t) ==
  /\ hidden[t] > 0
  /\ hidden' = [hidden EXCEPT ![t] = @ - 1]
  /\ UNCHANGED <<queue, unseen, pushes, wait, pc, search, episode>>

CommitRegister(w) ==
  /\ w \in unseen
  /\ unseen' = unseen \ {w}
  /\ sleepers' = sleepers + 1
  /\ UNCHANGED <<queue, hidden, pushes, epoch, finished, stopping, pc, search, episode>>

(* fence(SeqCst) by t.                                                     *)
Fence(t) ==
  /\ hidden' = [hidden EXCEPT ![t] = 0]
  /\ unseen' = unseen \ {t}
  /\ sleepers' = sleepers + (IF t \in unseen THEN 1 ELSE 0)

-----------------------------------------------------------------------------
(* The search: next_task at Site::Loop under StandardDispatch and a sweep. *)

(* idle_loop: leave once finished, else try_pop on the own queue, else     *)
(* start a sweep over everybody else.  A pop of the last task beats the    *)
(* thieves that are after it.                                              *)
StartRound(w) ==
  /\ pc[w] = "loop"
  /\ IF finished
     THEN /\ pc' = [pc EXCEPT ![w] = "exited"]
          /\ UNCHANGED <<mem, search>>
     ELSE IF queue[w] > 0
     THEN /\ pc' = [pc EXCEPT ![w] = "found"]
          /\ queue' = [queue EXCEPT ![w] = @ - 1]
          /\ hidden' = [hidden EXCEPT ![w] = IF @ = queue[w] THEN @ - 1 ELSE @]
          /\ aim' = [x \in Worker |-> IF aim[x] = w /\ queue[w] = 1 THEN None ELSE aim[x]]
          /\ UNCHANGED <<unseen, pushes, left, retry>>
     ELSE /\ pc' = [pc EXCEPT ![w] = "search"]
          /\ left' = [left EXCEPT ![w] = Thread \ {w}]
          /\ retry' = retry \ {w}
          /\ UNCHANGED <<mem, aim>>
  /\ UNCHANGED <<wait, episode>>

(* One victim of the sweep, or the external queue: empty, or worth a try.  *)
Look(w, v) ==
  /\ pc[w] = "search" /\ v \in left[w]
  /\ v \in Ext => left[w] \subseteq Ext
  /\ left' = [left EXCEPT ![w] = @ \ {v}]
  /\ IF Visible(v) > 0
     THEN Go(w, "search", "take") /\ aim' = [aim EXCEPT ![w] = v]
     ELSE UNCHANGED <<pc, aim>>
  /\ UNCHANGED <<mem, wait, retry, episode>>

(* Take the task, and make the other thieves of this victim lose; or have  *)
(* lost to one of them (Steal::Retry; the external queue's lock has no     *)
(* such outcome).                                                          *)
Take(w) ==
  LET v == aim[w] IN
  /\ pc[w] = "take"
  /\ IF v # None /\ Visible(v) > 0
     THEN /\ queue' = [queue EXCEPT ![v] = @ - 1]
          /\ pc' = [pc EXCEPT ![w] = "found"]
          /\ aim' = [x \in Worker |-> IF x = w \/ (v \in Worker /\ aim[x] = v)
                                      THEN None ELSE aim[x]]
          /\ UNCHANGED retry
     ELSE /\ pc' = [pc EXCEPT ![w] = "search"]
          /\ aim' = [aim EXCEPT ![w] = None]
          /\ retry' = IF v = None THEN retry \cup {w} ELSE retry
          /\ UNCHANGED queue
  /\ UNCHANGED <<hidden, unseen, pushes, wait, left, episode>>

(* The round found nothing: with Retry, no_work_found only spins.          *)
EndRound(w) ==
  /\ left[w] = {}
  /\ Go(w, "search", IF w \in retry THEN "loop" ELSE "nowork")
  /\ UNCHANGED <<mem, wait, search, episode>>

-----------------------------------------------------------------------------
(* The consumer's half of ParkIdle.                                        *)

(* no_work_found without a ticket, rounds left: spin or yield.             *)
Spin(w) ==
  /\ ticket[w] = None /\ rounds[w] < SpinRounds
  /\ Go(w, "nowork", "loop")
  /\ rounds' = [rounds EXCEPT ![w] = @ + 1]
  /\ UNCHANGED <<mem, wait, search, ticket>>

(* ... and then sleepers += 1; fence; ticket = epoch.                      *)
Register(w) ==
  /\ ticket[w] = None /\ rounds[w] >= SpinRounds
  /\ Go(w, "nowork", "fence")
  /\ rounds' = [rounds EXCEPT ![w] = @ + 1]
  /\ unseen' = unseen \cup {w}
  /\ UNCHANGED <<queue, hidden, pushes, wait, search, ticket>>

RegisterFence(w) ==
  /\ Go(w, "fence", "snapshot")
  /\ Fence(w)
  /\ UNCHANGED <<queue, pushes, epoch, finished, stopping, search, episode>>

Snapshot(w) ==
  /\ Go(w, "snapshot", "loop")
  /\ ticket' = [ticket EXCEPT ![w] = epoch]
  /\ UNCHANGED <<mem, wait, search, rounds>>

(* no_work_found with a ticket: ParkWait::wait.                            *)
Park(w) ==
  /\ ticket[w] # None
  /\ Go(w, "nowork", "check")
  /\ UNCHANGED <<mem, wait, search, episode>>

CheckWait(w) ==
  /\ Go(w, "check", IF epoch = ticket[w] /\ ~finished THEN "syscall" ELSE "leave")
  /\ UNCHANGED <<mem, wait, search, episode>>

(* Mutant: the worker blocks though epoch moved since it looked.           *)
KernelWaitAnyway(w) ==
  /\ Go(w, "syscall", "waiting")
  /\ UNCHANGED <<mem, wait, search, episode>>

(* The kernel compares epoch with the ticket and queues the waiter in one. *)
KernelWait(w) ==
  /\ Go(w, "syscall", IF epoch = ticket[w] THEN "waiting" ELSE "leave")
  /\ UNCHANGED <<mem, wait, search, episode>>

(* A spurious return, or the time-out of the worker that keeps the duties. *)
WaitEnds(w) ==
  /\ Go(w, "waiting", "leave")
  /\ UNCHANGED <<mem, wait, search, episode>>

(* Mutant: the counter stays up for one that found work.                   *)
WorkFoundRegistered(w) ==
  /\ Go(w, "found", "running")
  /\ ticket' = [ticket EXCEPT ![w] = None]
  /\ rounds' = [rounds EXCEPT ![w] = 0]
  /\ UNCHANGED <<mem, wait, search>>

Unregister(w) ==
  /\ sleepers' = IF ticket[w] # None THEN sleepers - 1 ELSE sleepers
  /\ ticket' = [ticket EXCEPT ![w] = None]
  /\ rounds' = [rounds EXCEPT ![w] = 0]

Leave(w) ==
  /\ Go(w, "leave", "loop")
  /\ Unregister(w)
  /\ UNCHANGED <<mem, epoch, finished, stopping, search>>

(* work_found, then the task runs.                                         *)
WorkFound(w) ==
  /\ Go(w, "found", "running")
  /\ Unregister(w)
  /\ UNCHANGED <<mem, epoch, finished, stopping, search>>

-----------------------------------------------------------------------------
(* The producer's half.                                                    *)

(* push or defer to the own queue, or a push to the external queue.        *)
Push(t) ==
  /\ pushes < MaxPush
  /\ Go(t, "running", "pushed")
  /\ queue' = [queue EXCEPT ![t] = @ + 1]
  /\ hidden' = [hidden EXCEPT ![t] = @ + 1]
  /\ pushes' = pushes + 1
  /\ UNCHANGED <<unseen, wait, search, episode>>

(* Mutant: new_work without its fence.                                     *)
PushNoFence(t) ==
  /\ Go(t, "pushed", "fenced")
  /\ UNCHANGED <<mem, wait, search, episode>>

(* new_work: fence; if sleepers # 0, epoch += 1 and wake one waiter.       *)
PushFence(t) ==
  /\ Go(t, "pushed", "fenced")
  /\ Fence(t)
  /\ UNCHANGED <<queue, pushes, epoch, finished, stopping, search, episode>>

ReadSleepers(t) ==
  /\ Go(t, "fenced", IF sleepers # 0 THEN "bump" ELSE "running")
  /\ UNCHANGED <<mem, wait, search, episode>>

Bump(t) ==
  /\ Go(t, "bump", "wake")
  /\ epoch' = epoch + 1
  /\ UNCHANGED <<mem, sleepers, finished, stopping, search, episode>>

Waiting == {w \in Worker : pc[w] = "waiting"}

WakeOne(t) ==
  /\ pc[t] = "wake"
  /\ IF Waiting = {}
     THEN pc' = [pc EXCEPT ![t] = "running"]
     ELSE \E w \in Waiting :
            pc' = [u \in Thread |-> IF u = w THEN "leave" ELSE IF u = t THEN "running" ELSE pc[u]]
  /\ UNCHANGED <<mem, wait, search, episode>>

(* A task ends or suspends: its worker is back in the idle loop.           *)
TaskEnds(w) ==
  /\ w \in Worker
  /\ Go(w, "running", "loop")
  /\ UNCHANGED <<mem, wait, search, episode>>

-----------------------------------------------------------------------------
(* PoolCore::finish: set finished, then shutdown.                          *)

SetFinished ==
  /\ stopping = "no"
  /\ finished' = TRUE /\ stopping' = "bump"
  /\ UNCHANGED <<mem, sleepers, epoch, pc, search, episode>>

(* Mutant: finish() wakes the parked workers without moving epoch.         *)
ShutdownNoBump ==
  /\ stopping = "bump"
  /\ stopping' = "wake"
  /\ UNCHANGED <<mem, sleepers, epoch, finished, pc, search, episode>>

ShutdownBump ==
  /\ stopping = "bump"
  /\ epoch' = epoch + 1 /\ stopping' = "wake"
  /\ UNCHANGED <<mem, sleepers, finished, pc, search, episode>>

WakeAll ==
  /\ stopping = "wake"
  /\ stopping' = "done"
  /\ pc' = [t \in Thread |-> IF pc[t] = "waiting" THEN "leave" ELSE pc[t]]
  /\ UNCHANGED <<mem, sleepers, epoch, finished, search, episode>>

-----------------------------------------------------------------------------
SearchStep(w) ==
  \/ StartRound(w) \/ (\E v \in Thread : Look(w, v)) \/ Take(w) \/ EndRound(w)

SleepStep(w) ==
  \/ Spin(w) \/ Register(w) \/ RegisterFence(w) \/ Snapshot(w)
  \/ Park(w) \/ CheckWait(w) \/ KernelWait(w) \/ Leave(w) \/ WorkFound(w)

AnnounceStep(t) == PushFence(t) \/ ReadSleepers(t) \/ Bump(t) \/ WakeOne(t)

ShutdownStep == ShutdownBump \/ WakeAll

Commit == (\E t \in Thread : CommitPush(t)) \/ (\E w \in Worker : CommitRegister(w))

Next ==
  \/ \E w \in Worker : SearchStep(w) \/ SleepStep(w) \/ WaitEnds(w) \/ TaskEnds(w)
  \/ \E t \in Thread : Push(t) \/ AnnounceStep(t)
  \/ SetFinished \/ ShutdownStep
  \/ Commit

Spec == Init /\ [][Next]_vars

(* Threads keep running: a worker searches and goes to sleep, a producer   *)
(* announces what it pushed, finish() runs to its end and memory becomes   *)
(* visible.  How long a task runs, and whether a wait returns by itself,   *)
(* is open.                                                                *)
FairSpec ==
  /\ Spec
  /\ \A w \in Worker : WF_vars(SearchStep(w)) /\ WF_vars(SleepStep(w))
  /\ \A t \in Thread : WF_vars(AnnounceStep(t))
  /\ WF_vars(ShutdownStep) /\ WF_vars(Commit)

-----------------------------------------------------------------------------
(* Properties.                                                             *)

TypeOK ==
  /\ queue \in [Thread -> Nat] /\ hidden \in [Thread -> Nat]
  /\ \A t \in Thread : hidden[t] <= queue[t]
  /\ sleepers \in Nat /\ unseen \subseteq Worker
  /\ epoch \in Nat /\ finished \in BOOLEAN
  /\ stopping \in {"no", "bump", "wake", "done"}
  /\ pc \in [Thread -> Control]
  /\ left \in [Worker -> SUBSET Thread]
  /\ aim \in [Worker -> Thread \cup {None}]
  /\ retry \subseteq Worker
  /\ rounds \in [Worker -> Nat]
  /\ ticket \in [Worker -> Nat \cup {None}]
  /\ pushes \in Nat

(* A worker in its idle loop that will search, or search again, before it  *)
(* can block; a thread that has pushed and is still in new_work.           *)
Seekers ==
  {w \in Worker : pc[w] \in {"loop", "search", "take", "nowork", "fence",
                             "snapshot", "check", "syscall", "leave"}}
Announcing == {t \in Thread : pc[t] \in {"pushed", "fenced", "bump", "wake"}}

(* The queued tasks, numbered within their queues.                         *)
Tasks == UNION {{t} \X (1 .. queue[t]) : t \in Thread}
Queued == Cardinality(Tasks)

(* No worker sleeps on work: while a worker is blocked and the pool runs,  *)
(* every queued task has a seeker, or a push still being announced, of its *)
(* own.  (A lost wakeup leaves a task to workers that are busy for good.)  *)
WorkHasSeeker ==
  Waiting # {} /\ ~finished =>
    Queued <= Cardinality(Seekers) + Cardinality(Announcing)

(* The workers that are between their registration and their               *)
(* unregistration, whatever each one saw in between.                       *)
Registered ==
  {w \in Worker : ticket[w] # None \/ (pc[w] \in {"fence", "snapshot"} /\ w \notin unseen)}

(* sleepers counts them; a worker that leaves the idle loop for good may   *)
(* leave its registration behind.                                          *)
SleepersExact == sleepers = Cardinality(Registered)

(* The registrations and the counter agree, and the words keep their types.*)
ParkInv == TypeOK /\ SleepersExact

(* finish() lets every idle worker go, parked or about to park, though it  *)
(* wakes only those that are parked.                                       *)
IdleStops ==
  \A w \in Worker :
    (finished /\ w \in Seekers \cup Waiting) ~> pc[w] \in {"exited", "running"}

(* A queued task is taken, unless every worker is busy with another one.   *)
WorkIsTaken ==
  \A t \in Thread :
    queue[t] > 0 ~> \/ queue[t] = 0 \/ finished
                    \/ Seekers \cup Waiting = {}
=============================================================================
