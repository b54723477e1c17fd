---------------------------- MODULE Idle_proofs ----------------------------
(***************************************************************************)
(* Proofs about ParkIdle and SearchIdle, for any number of workers.        *)
(* ParkIdle: the sleepers are counted exactly and no worker sleeps on      *)
(* work, for any number of pushes and spinning rounds.  SearchIdle:        *)
(* searching counts the searchers exactly, their cap holds, and the        *)
(* workers never all fall asleep on a task, for either cap.                *)
(*                                                                         *)
(* What the words of the policy say (Sound), and what a registered worker  *)
(* has seen in its last round (Passed), do not depend on who announces     *)
(* work: both policies use the same lemmas.                                *)
(***************************************************************************)
EXTENDS SearchIdle, FiniteSetTheorems, TLAPS

-----------------------------------------------------------------------------
(* Parking.                                                                *)

WordTypes ==
  /\ queue \in [Thread -> Nat] /\ hidden \in [Thread -> Nat]
  /\ sleepers \in Nat /\ unseen \subseteq Worker
  /\ epoch \in Nat /\ finished \in BOOLEAN
  /\ stopping \in {"no", "bump", "wake", "done"}
  /\ left \in [Worker -> SUBSET Thread]
  /\ aim \in [Worker -> Thread \cup {None}]
  /\ retry \subseteq Worker
  /\ rounds \in [Worker -> Nat]
  /\ ticket \in [Worker -> Nat \cup {None}]
  /\ pushes \in Nat

(* Only the last push of a thread can be invisible, until its fence.       *)
MemoryState ==
  \A t \in Thread : /\ hidden[t] <= queue[t]
                    /\ hidden[t] = 0 \/ (hidden[t] = 1 /\ pc[t] = "pushed")

(* A worker is registered, with a ticket, from the snapshot to the end of  *)
(* its episode; it goes to sleep after a round without a Retry.            *)
EpisodeState ==
  \A w \in Worker :
    /\ w \in unseen => pc[w] = "fence"
    /\ pc[w] \in {"fence", "snapshot"} => ticket[w] = None
    /\ pc[w] \in {"check", "syscall", "waiting"} => ticket[w] # None
    /\ ticket[w] # None => ticket[w] <= epoch
    /\ pc[w] \in {"nowork", "check", "syscall"} => left[w] = {} /\ w \notin retry

Sound == WordTypes /\ MemoryState /\ EpisodeState /\ SleepersExact

(* In the round that may be w's last one before it blocks, and while epoch *)
(* has not moved, w has seen that v's queue holds nothing.                 *)
Passed(w, v) ==
  /\ pc[w] \in {"search", "take", "nowork", "check", "syscall"}
  /\ ticket[w] = epoch
  /\ w \notin retry /\ v \notin left[w]
  /\ pc[w] = "take" => aim[w] \notin {v, None}

Passing == \A w \in Worker, v \in Thread : Passed(w, v)' => Passed(w, v) \/ queue'[v] = hidden'[v]

(* What w has passed holds no more than a push that is going to move epoch.*)
PassedEmpty ==
  \A w \in Worker, v \in Thread :
    Passed(w, v) => \/ queue[v] = 0
                    \/ queue[v] = 1 /\ pc[v] \in {"pushed", "fenced", "bump"}

ParkIInv ==
  /\ pc \in [Thread -> Control] /\ IsFiniteSet(Tasks)
  /\ Sound /\ PassedEmpty /\ WorkHasSeeker

(* The workers are finitely many, so are the registered ones.              *)
LEMMA RegisteredFinite == IsFiniteSet(Registered) /\ Cardinality(Registered) \in Nat
<1>1. IsFiniteSet(Registered)
  BY IdleAssumption, FS_Subset DEF Registered
<1>2. QED
  BY <1>1, FS_CardinalityType

(* The end of an episode: the counter goes down with the registration.     *)
LEMMA UnregisterCounts ==
  ASSUME Sound, NEW w \in Worker, Unregister(w), pc[w] \notin {"fence", "snapshot"},
         unseen' = unseen, pc'[w] \notin {"fence", "snapshot"},
         \A x \in Worker \ {w} : pc'[x] = pc[x]
  PROVE  sleepers' \in Nat /\ SleepersExact'
<1>1. Registered' = Registered \ {w}
  BY DEF Sound, WordTypes, Unregister, Registered
<1>2. w \in Registered <=> ticket[w] # None
  BY DEF Registered
<1>3. /\ Cardinality(Registered \ {w}) =
           IF w \in Registered THEN Cardinality(Registered) - 1 ELSE Cardinality(Registered)
      /\ Cardinality(Registered \ {w}) \in Nat
  BY RegisteredFinite, FS_RemoveElement, FS_CardinalityType
<1>4. sleepers' = Cardinality(Registered \ {w})
  BY <1>2, <1>3 DEF Unregister, Sound, SleepersExact
<1>5. QED
  BY <1>1, <1>3, <1>4 DEF SleepersExact

(* A registration is committed, by a fence or by itself.                   *)
LEMMA CommitCounts ==
  ASSUME Sound, NEW w \in unseen, unseen' = unseen \ {w}, ticket' = ticket,
         sleepers' = sleepers + 1, pc'[w] \in {"fence", "snapshot"},
         \A x \in Worker \ {w} : pc'[x] = pc[x]
  PROVE  sleepers' \in Nat /\ SleepersExact'
<1>1. w \in Worker /\ w \notin Registered
  BY DEF Sound, WordTypes, EpisodeState, Registered
<1>2. Registered' = Registered \cup {w}
  BY <1>1 DEF Registered
<1>3. Cardinality(Registered \cup {w}) = Cardinality(Registered) + 1
  BY <1>1, RegisteredFinite, FS_AddElement
<1>4. QED
  BY <1>2, <1>3 DEF Sound, WordTypes, SleepersExact

(* A push becomes visible: no word of the policy changes.                  *)
LEMMA CommitPushSound ==
  ASSUME Sound, NEW C, pc \in [Thread -> C], NEW t \in Thread, CommitPush(t)
  PROVE  Sound' /\ Passing
<1>1. WordTypes'
  BY IdleAssumption
  DEF Sound, WordTypes, MemoryState, EpisodeState, CommitPush, mem, wait,
      search, episode
<1>2. MemoryState'
  BY DEF Sound, WordTypes, MemoryState, Thread, CommitPush, mem, wait, search, episode
<1>3. EpisodeState'
  BY IdleAssumption
  DEF Sound, WordTypes, EpisodeState, Thread, CommitPush, mem, wait, search,
      episode
<1>4. SleepersExact'
  <2>1. Registered' = Registered /\ sleepers' = sleepers
    BY IdleAssumption
    DEF Sound, WordTypes, EpisodeState, Registered, Thread, CommitPush, mem,
        wait, search, episode
  <2>2. QED
    BY <2>1 DEF Sound, SleepersExact
<1>5. Passing
  BY IdleAssumption
  DEF Sound, WordTypes, EpisodeState, MemoryState, Passing, Passed, Thread,
      CommitPush, mem, wait, search, episode
<1>6. QED
  BY <1>1, <1>2, <1>3, <1>4, <1>5 DEF Sound

(* An increment of sleepers is committed: the counter goes up with the set *)
(* of those registered.                                                    *)
LEMMA CommitRegisterSound ==
  ASSUME Sound, NEW C, pc \in [Thread -> C], NEW w \in Worker, CommitRegister(w)
  PROVE  Sound' /\ Passing
<1>1. WordTypes'
  BY IdleAssumption
  DEF Sound, WordTypes, MemoryState, EpisodeState, CommitRegister, mem, wait,
      search, episode
<1>2. MemoryState'
  BY DEF Sound, WordTypes, MemoryState, Thread, CommitRegister, mem, wait, search, episode
<1>3. EpisodeState'
  BY IdleAssumption
  DEF Sound, WordTypes, EpisodeState, Thread, CommitRegister, mem, wait, search,
      episode
<1>4. SleepersExact'
  <2>1. pc[w] = "fence" /\ pc' = pc /\ ticket' = ticket
    BY DEF Sound, EpisodeState, CommitRegister, episode
  <2>2. QED
    BY <2>1, CommitCounts DEF CommitRegister
<1>5. Passing
  BY IdleAssumption
  DEF Sound, WordTypes, EpisodeState, MemoryState, Passing, Passed, Thread,
      CommitRegister, mem, wait, search, episode
<1>6. QED
  BY <1>1, <1>2, <1>3, <1>4, <1>5 DEF Sound

(* idle_loop and try_pop: a new round has passed nobody, and a pop leaves  *)
(* no task hidden that is not there.                                       *)
LEMMA StartRoundSound ==
  ASSUME Sound, NEW C, pc \in [Thread -> C], NEW w \in Worker, StartRound(w)
  PROVE  Sound' /\ Passing
<1>1. WordTypes'
  BY IdleAssumption
  DEF Sound, WordTypes, MemoryState, EpisodeState, StartRound, mem, wait,
      search, episode
<1>2. MemoryState'
  BY DEF Sound, WordTypes, MemoryState, Thread, StartRound, mem, wait, search, episode
<1>3. EpisodeState'
  BY IdleAssumption
  DEF Sound, WordTypes, EpisodeState, Thread, StartRound, mem, wait, search,
      episode
<1>4. SleepersExact'
  <2>1. Registered' = Registered /\ sleepers' = sleepers
    BY IdleAssumption
    DEF Sound, WordTypes, EpisodeState, Registered, Thread, StartRound, mem,
        wait, search, episode
  <2>2. QED
    BY <2>1 DEF Sound, SleepersExact
<1>5. Passing
  BY IdleAssumption
  DEF Sound, WordTypes, EpisodeState, MemoryState, Passing, Passed, Thread,
      StartRound, mem, wait, search, episode
<1>6. QED
  BY <1>1, <1>2, <1>3, <1>4, <1>5 DEF Sound

(* next_task at one victim: it is passed only if nothing of it was         *)
(* visible.                                                                *)
LEMMA LookSound ==
  ASSUME Sound, NEW C, pc \in [Thread -> C], NEW w \in Worker, NEW v \in Thread, Look(w, v)
  PROVE  Sound' /\ Passing
<1>1. WordTypes'
  BY IdleAssumption
  DEF Sound, WordTypes, MemoryState, EpisodeState, Look, Go, mem, wait, search,
      episode
<1>2. MemoryState'
  BY DEF Sound, WordTypes, MemoryState, Thread, Look, Go, mem, wait, search, episode
<1>3. EpisodeState'
  BY IdleAssumption
  DEF Sound, WordTypes, EpisodeState, Thread, Look, Go, mem, wait, search,
      episode
<1>4. SleepersExact'
  <2>1. Registered' = Registered /\ sleepers' = sleepers
    BY IdleAssumption
    DEF Sound, WordTypes, EpisodeState, Registered, Thread, Look, Go, mem, wait,
        search, episode
  <2>2. QED
    BY <2>1 DEF Sound, SleepersExact
<1>5. Passing
  <2>1. pc[w] = "search" /\ UNCHANGED <<queue, hidden, ticket, epoch, retry>>
    BY DEF Look, mem, wait, episode
  <2>2. CASE Visible(v) > 0
    <3>1. pc' = [pc EXCEPT ![w] = "take"] /\ aim' = [aim EXCEPT ![w] = v]
          /\ left' = [left EXCEPT ![w] = left[w] \ {v}]
      BY <2>2 DEF Look, Go
    <3>2. QED
      BY <2>1, <3>1 DEF Sound, WordTypes, Passing, Passed, Thread
  <2>3. CASE ~ (Visible(v) > 0)
    <3>1. pc' = pc /\ aim' = aim /\ left' = [left EXCEPT ![w] = left[w] \ {v}]
      BY <2>3 DEF Look
    <3>2. queue'[v] = hidden'[v]
      BY <2>1, <2>3 DEF Sound, WordTypes, MemoryState, Visible
    <3>3. QED
      BY <2>1, <3>1, <3>2 DEF Sound, WordTypes, Passing, Passed, Thread
  <2>4. QED
    BY <2>2, <2>3
<1>6. QED
  BY <1>1, <1>2, <1>3, <1>4, <1>5 DEF Sound

(* next_task takes a task: the victim still has at least the tasks nobody  *)
(* sees.                                                                   *)
LEMMA TakeSound ==
  ASSUME Sound, NEW C, pc \in [Thread -> C], NEW w \in Worker, Take(w)
  PROVE  Sound' /\ Passing
<1>1. WordTypes'
  BY IdleAssumption
  DEF Sound, WordTypes, MemoryState, EpisodeState, Take, Visible, mem, wait,
      search, episode
<1>2. MemoryState'
  BY DEF Sound, WordTypes, MemoryState, Thread, Take, Visible, mem, wait, search, episode
<1>3. EpisodeState'
  BY IdleAssumption
  DEF Sound, WordTypes, EpisodeState, Thread, Take, Visible, mem, wait, search,
      episode
<1>4. SleepersExact'
  <2>1. Registered' = Registered /\ sleepers' = sleepers
    BY IdleAssumption
    DEF Sound, WordTypes, EpisodeState, Registered, Thread, Take, Visible, mem,
        wait, search, episode
  <2>2. QED
    BY <2>1 DEF Sound, SleepersExact
<1>5. Passing
  BY IdleAssumption
  DEF Sound, WordTypes, EpisodeState, MemoryState, Passing, Passed, Thread,
      Take, Visible, mem, wait, search, episode
<1>6. QED
  BY <1>1, <1>2, <1>3, <1>4, <1>5 DEF Sound

(* no_work_found registers: until the fence, neither the counter nor the   *)
(* set sees it.                                                            *)
LEMMA RegisterSound ==
  ASSUME Sound, NEW C, pc \in [Thread -> C], NEW w \in Worker, Register(w)
  PROVE  Sound' /\ Passing
<1>1. WordTypes'
  BY IdleAssumption
  DEF Sound, WordTypes, MemoryState, EpisodeState, Register, Go, mem, wait,
      search, episode
<1>2. MemoryState'
  BY DEF Sound, WordTypes, MemoryState, Thread, Register, Go, mem, wait, search, episode
<1>3. EpisodeState'
  BY IdleAssumption
  DEF Sound, WordTypes, EpisodeState, Thread, Register, Go, mem, wait, search,
      episode
<1>4. SleepersExact'
  <2>1. Registered' = Registered /\ sleepers' = sleepers
    BY IdleAssumption
    DEF Sound, WordTypes, EpisodeState, Registered, Thread, Register, Go, mem,
        wait, search, episode
  <2>2. QED
    BY <2>1 DEF Sound, SleepersExact
<1>5. Passing
  BY IdleAssumption
  DEF Sound, WordTypes, EpisodeState, MemoryState, Passing, Passed, Thread,
      Register, Go, mem, wait, search, episode
<1>6. QED
  BY <1>1, <1>2, <1>3, <1>4, <1>5 DEF Sound

(* The fence of no_work_found commits the worker's own registration.       *)
LEMMA RegisterFenceSound ==
  ASSUME Sound, NEW C, pc \in [Thread -> C], NEW w \in Worker, RegisterFence(w)
  PROVE  Sound' /\ Passing
<1>1. WordTypes'
  <2>1. hidden' = [hidden EXCEPT ![w] = 0] /\ unseen' = unseen \ {w}
    BY DEF RegisterFence, Fence
  <2>2. hidden' \in [Thread -> Nat] /\ unseen' \subseteq Worker
    BY <2>1 DEF Sound, WordTypes
  <2>3. sleepers' \in Nat
    <3>1. sleepers' = sleepers + (IF w \in unseen THEN 1 ELSE 0) /\ sleepers \in Nat
      BY DEF Sound, WordTypes, RegisterFence, Fence
    <3>2. QED
      BY <3>1
  <2>4. QED
    BY <2>2, <2>3 DEF Sound, WordTypes, RegisterFence, search, episode
<1>2. MemoryState'
  BY DEF Sound, WordTypes, MemoryState, Thread, RegisterFence, Go, Fence, mem,
      wait, search, episode
<1>3. EpisodeState'
  BY IdleAssumption
  DEF Sound, WordTypes, EpisodeState, Thread, RegisterFence, Go, Fence, mem,
      wait, search, episode
<1>4. SleepersExact'
  <2>1. pc[w] = "fence" /\ pc' = [pc EXCEPT ![w] = "snapshot"] /\ ticket' = ticket
    BY DEF RegisterFence, Go, episode
  <2>2. CASE w \in unseen
    BY <2>1, <2>2, CommitCounts DEF Sound, WordTypes, RegisterFence, Fence
  <2>3. CASE w \notin unseen
    <3>1. unseen' = unseen /\ sleepers' = sleepers
      BY <2>3 DEF Sound, WordTypes, RegisterFence, Fence
    <3>2. Registered' = Registered
      BY <2>1, <3>1 DEF Registered
    <3>3. QED
      BY <3>1, <3>2 DEF Sound, SleepersExact
  <2>4. QED
    BY <2>2, <2>3
<1>5. Passing
  BY IdleAssumption
  DEF Sound, WordTypes, EpisodeState, MemoryState, Passing, Passed, Thread,
      RegisterFence, Go, Fence, mem, wait, search, episode
<1>6. QED
  BY <1>1, <1>2, <1>3, <1>4, <1>5 DEF Sound

(* no_work_found takes its ticket: the worker stays registered.            *)
LEMMA SnapshotSound ==
  ASSUME Sound, NEW C, pc \in [Thread -> C], NEW w \in Worker, Snapshot(w)
  PROVE  Sound' /\ Passing
<1>1. WordTypes'
  BY IdleAssumption
  DEF Sound, WordTypes, MemoryState, EpisodeState, Snapshot, Go, mem, wait,
      search, episode
<1>2. MemoryState'
  BY DEF Sound, WordTypes, MemoryState, Thread, Snapshot, Go, mem, wait, search, episode
<1>3. EpisodeState'
  BY IdleAssumption
  DEF Sound, WordTypes, EpisodeState, Thread, Snapshot, Go, mem, wait, search,
      episode
<1>4. SleepersExact'
  <2>1. Registered' = Registered /\ sleepers' = sleepers
    BY IdleAssumption
    DEF Sound, WordTypes, EpisodeState, Registered, Thread, Snapshot, Go, mem,
        wait, search, episode
  <2>2. QED
    BY <2>1 DEF Sound, SleepersExact
<1>5. Passing
  BY IdleAssumption
  DEF Sound, WordTypes, EpisodeState, MemoryState, Passing, Passed, Thread,
      Snapshot, Go, mem, wait, search, episode
<1>6. QED
  BY <1>1, <1>2, <1>3, <1>4, <1>5 DEF Sound

(* no_work_found with a ticket: only the control moves.                    *)
LEMMA ParkSound ==
  ASSUME Sound, NEW C, pc \in [Thread -> C], NEW w \in Worker, Park(w)
  PROVE  Sound' /\ Passing
<1>1. WordTypes'
  BY IdleAssumption
  DEF Sound, WordTypes, MemoryState, EpisodeState, Park, Go, mem, wait, search,
      episode
<1>2. MemoryState'
  BY DEF Sound, WordTypes, MemoryState, Thread, Park, Go, mem, wait, search, episode
<1>3. EpisodeState'
  BY IdleAssumption
  DEF Sound, WordTypes, EpisodeState, Thread, Park, Go, mem, wait, search,
      episode
<1>4. SleepersExact'
  <2>1. Registered' = Registered /\ sleepers' = sleepers
    BY IdleAssumption
    DEF Sound, WordTypes, EpisodeState, Registered, Thread, Park, Go, mem, wait,
        search, episode
  <2>2. QED
    BY <2>1 DEF Sound, SleepersExact
<1>5. Passing
  BY IdleAssumption
  DEF Sound, WordTypes, EpisodeState, MemoryState, Passing, Passed, Thread,
      Park, Go, mem, wait, search, episode
<1>6. QED
  BY <1>1, <1>2, <1>3, <1>4, <1>5 DEF Sound

(* ParkWait::wait compares the ticket: only the control moves.             *)
LEMMA CheckWaitSound ==
  ASSUME Sound, NEW C, pc \in [Thread -> C], NEW w \in Worker, CheckWait(w)
  PROVE  Sound' /\ Passing
<1>1. WordTypes'
  BY IdleAssumption
  DEF Sound, WordTypes, MemoryState, EpisodeState, CheckWait, Go, mem, wait,
      search, episode
<1>2. MemoryState'
  BY DEF Sound, WordTypes, MemoryState, Thread, CheckWait, Go, mem, wait, search, episode
<1>3. EpisodeState'
  BY IdleAssumption
  DEF Sound, WordTypes, EpisodeState, Thread, CheckWait, Go, mem, wait, search,
      episode
<1>4. SleepersExact'
  <2>1. Registered' = Registered /\ sleepers' = sleepers
    BY IdleAssumption
    DEF Sound, WordTypes, EpisodeState, Registered, Thread, CheckWait, Go, mem,
        wait, search, episode
  <2>2. QED
    BY <2>1 DEF Sound, SleepersExact
<1>5. Passing
  BY IdleAssumption
  DEF Sound, WordTypes, EpisodeState, MemoryState, Passing, Passed, Thread,
      CheckWait, Go, mem, wait, search, episode
<1>6. QED
  BY <1>1, <1>2, <1>3, <1>4, <1>5 DEF Sound

(* The kernel compares the ticket: only the control moves.                 *)
LEMMA KernelWaitSound ==
  ASSUME Sound, NEW C, pc \in [Thread -> C], NEW w \in Worker, KernelWait(w)
  PROVE  Sound' /\ Passing
<1>1. WordTypes'
  BY IdleAssumption
  DEF Sound, WordTypes, MemoryState, EpisodeState, KernelWait, Go, mem, wait,
      search, episode
<1>2. MemoryState'
  BY DEF Sound, WordTypes, MemoryState, Thread, KernelWait, Go, mem, wait, search, episode
<1>3. EpisodeState'
  BY IdleAssumption
  DEF Sound, WordTypes, EpisodeState, Thread, KernelWait, Go, mem, wait, search,
      episode
<1>4. SleepersExact'
  <2>1. Registered' = Registered /\ sleepers' = sleepers
    BY IdleAssumption
    DEF Sound, WordTypes, EpisodeState, Registered, Thread, KernelWait, Go, mem,
        wait, search, episode
  <2>2. QED
    BY <2>1 DEF Sound, SleepersExact
<1>5. Passing
  BY IdleAssumption
  DEF Sound, WordTypes, EpisodeState, MemoryState, Passing, Passed, Thread,
      KernelWait, Go, mem, wait, search, episode
<1>6. QED
  BY <1>1, <1>2, <1>3, <1>4, <1>5 DEF Sound

(* A wait ends: the worker stays registered until it leaves.               *)
LEMMA WaitEndsSound ==
  ASSUME Sound, NEW C, pc \in [Thread -> C], NEW w \in Worker, WaitEnds(w)
  PROVE  Sound' /\ Passing
<1>1. WordTypes'
  BY IdleAssumption
  DEF Sound, WordTypes, MemoryState, EpisodeState, WaitEnds, Go, mem, wait,
      search, episode
<1>2. MemoryState'
  BY DEF Sound, WordTypes, MemoryState, Thread, WaitEnds, Go, mem, wait, search, episode
<1>3. EpisodeState'
  BY IdleAssumption
  DEF Sound, WordTypes, EpisodeState, Thread, WaitEnds, Go, mem, wait, search,
      episode
<1>4. SleepersExact'
  <2>1. Registered' = Registered /\ sleepers' = sleepers
    BY IdleAssumption
    DEF Sound, WordTypes, EpisodeState, Registered, Thread, WaitEnds, Go, mem,
        wait, search, episode
  <2>2. QED
    BY <2>1 DEF Sound, SleepersExact
<1>5. Passing
  BY IdleAssumption
  DEF Sound, WordTypes, EpisodeState, MemoryState, Passing, Passed, Thread,
      WaitEnds, Go, mem, wait, search, episode
<1>6. QED
  BY <1>1, <1>2, <1>3, <1>4, <1>5 DEF Sound

(* After a wait the worker unregisters: counter and set go down together.  *)
LEMMA LeaveSound ==
  ASSUME Sound, NEW C, pc \in [Thread -> C], NEW w \in Worker, Leave(w)
  PROVE  Sound' /\ Passing
<1>1. WordTypes'
  <2>1. sleepers' \in Nat
    BY UnregisterCounts DEF Leave, Go, mem
  <2>2. QED
    BY <2>1 DEF Sound, WordTypes, Leave, Unregister, mem, search
<1>2. MemoryState'
  BY DEF Sound, WordTypes, MemoryState, Thread, Leave, Go, Unregister, mem,
      wait, search, episode
<1>3. EpisodeState'
  BY IdleAssumption
  DEF Sound, WordTypes, EpisodeState, Thread, Leave, Go, Unregister, mem, wait,
      search, episode
<1>4. SleepersExact'
  BY UnregisterCounts DEF Leave, Go, mem
<1>5. Passing
  BY IdleAssumption
  DEF Sound, WordTypes, EpisodeState, MemoryState, Passing, Passed, Thread,
      Leave, Go, Unregister, mem, wait, search, episode
<1>6. QED
  BY <1>1, <1>2, <1>3, <1>4, <1>5 DEF Sound

(* A push is hidden until it is committed.                                 *)
LEMMA PushSound ==
  ASSUME Sound, NEW C, pc \in [Thread -> C], NEW t \in Thread, Push(t)
  PROVE  Sound' /\ Passing
<1>1. WordTypes'
  BY IdleAssumption
  DEF Sound, WordTypes, MemoryState, EpisodeState, Push, Go, mem, wait, search,
      episode
<1>2. MemoryState'
  BY DEF Sound, WordTypes, MemoryState, Thread, Push, Go, mem, wait, search, episode
<1>3. EpisodeState'
  BY IdleAssumption
  DEF Sound, WordTypes, EpisodeState, Thread, Push, Go, mem, wait, search,
      episode
<1>4. SleepersExact'
  <2>1. Registered' = Registered /\ sleepers' = sleepers
    BY IdleAssumption
    DEF Sound, WordTypes, EpisodeState, Registered, Thread, Push, Go, mem, wait,
        search, episode
  <2>2. QED
    BY <2>1 DEF Sound, SleepersExact
<1>5. Passing
  BY IdleAssumption
  DEF Sound, WordTypes, EpisodeState, MemoryState, Passing, Passed, Thread,
      Push, Go, mem, wait, search, episode
<1>6. QED
  BY <1>1, <1>2, <1>3, <1>4, <1>5 DEF Sound

(* The fence of new_work commits the pushes, and no registration: the      *)
(* thread is not registering.                                              *)
LEMMA PushFenceSound ==
  ASSUME Sound, NEW C, pc \in [Thread -> C], NEW t \in Thread, PushFence(t)
  PROVE  Sound' /\ Passing
<1>1. WordTypes'
  BY IdleAssumption
  DEF Sound, WordTypes, MemoryState, EpisodeState, PushFence, Go, Fence, mem,
      wait, search, episode
<1>2. MemoryState'
  BY DEF Sound, WordTypes, MemoryState, Thread, PushFence, Go, Fence, mem, wait,
      search, episode
<1>3. EpisodeState'
  BY IdleAssumption
  DEF Sound, WordTypes, EpisodeState, Thread, PushFence, Go, Fence, mem, wait,
      search, episode
<1>4. SleepersExact'
  <2>1. Registered' = Registered /\ sleepers' = sleepers
    BY IdleAssumption
    DEF Sound, WordTypes, EpisodeState, Registered, Thread, PushFence, Go,
        Fence, mem, wait, search, episode
  <2>2. QED
    BY <2>1 DEF Sound, SleepersExact
<1>5. Passing
  BY IdleAssumption
  DEF Sound, WordTypes, EpisodeState, MemoryState, Passing, Passed, Thread,
      PushFence, Go, Fence, mem, wait, search, episode
<1>6. QED
  BY <1>1, <1>2, <1>3, <1>4, <1>5 DEF Sound

(* wake_one moves epoch: tickets never run ahead of it.                    *)
LEMMA BumpSound ==
  ASSUME Sound, NEW C, pc \in [Thread -> C], NEW t \in Thread, Bump(t)
  PROVE  Sound' /\ Passing
<1>1. WordTypes'
  BY IdleAssumption
  DEF Sound, WordTypes, MemoryState, EpisodeState, Bump, Go, mem, wait, search,
      episode
<1>2. MemoryState'
  BY DEF Sound, WordTypes, MemoryState, Thread, Bump, Go, mem, wait, search, episode
<1>3. EpisodeState'
  BY IdleAssumption
  DEF Sound, WordTypes, EpisodeState, Thread, Bump, Go, mem, wait, search,
      episode
<1>4. SleepersExact'
  <2>1. Registered' = Registered /\ sleepers' = sleepers
    BY IdleAssumption
    DEF Sound, WordTypes, EpisodeState, Registered, Thread, Bump, Go, mem, wait,
        search, episode
  <2>2. QED
    BY <2>1 DEF Sound, SleepersExact
<1>5. Passing
  BY IdleAssumption
  DEF Sound, WordTypes, EpisodeState, MemoryState, Passing, Passed, Thread,
      Bump, Go, mem, wait, search, episode
<1>6. QED
  BY <1>1, <1>2, <1>3, <1>4, <1>5 DEF Sound

(* wake_one lets one waiter go: it stays registered.                       *)
LEMMA WakeOneSound ==
  ASSUME Sound, NEW C, pc \in [Thread -> C], NEW t \in Thread, WakeOne(t)
  PROVE  Sound' /\ Passing
<1>1. WordTypes'
  BY IdleAssumption
  DEF Sound, WordTypes, MemoryState, EpisodeState, WakeOne, Waiting, mem, wait,
      search, episode
<1>2. MemoryState'
  BY DEF Sound, WordTypes, MemoryState, Thread, WakeOne, Waiting, mem, wait, search, episode
<1>3. EpisodeState'
  BY IdleAssumption
  DEF Sound, WordTypes, EpisodeState, Thread, WakeOne, Waiting, mem, wait,
      search, episode
<1>4. SleepersExact'
  <2>1. Registered' = Registered /\ sleepers' = sleepers
    BY IdleAssumption
    DEF Sound, WordTypes, EpisodeState, Registered, Thread, WakeOne, Waiting,
        mem, wait, search, episode
  <2>2. QED
    BY <2>1 DEF Sound, SleepersExact
<1>5. Passing
  BY IdleAssumption
  DEF Sound, WordTypes, EpisodeState, MemoryState, Passing, Passed, Thread,
      WakeOne, Waiting, mem, wait, search, episode
<1>6. QED
  BY <1>1, <1>2, <1>3, <1>4, <1>5 DEF Sound

(* A task ends: its worker has neither ticket nor round.                   *)
LEMMA TaskEndsSound ==
  ASSUME Sound, NEW C, pc \in [Thread -> C], NEW w \in Worker, TaskEnds(w)
  PROVE  Sound' /\ Passing
<1>1. WordTypes'
  BY IdleAssumption
  DEF Sound, WordTypes, MemoryState, EpisodeState, TaskEnds, Go, mem, wait,
      search, episode
<1>2. MemoryState'
  BY DEF Sound, WordTypes, MemoryState, Thread, TaskEnds, Go, mem, wait, search, episode
<1>3. EpisodeState'
  BY IdleAssumption
  DEF Sound, WordTypes, EpisodeState, Thread, TaskEnds, Go, mem, wait, search,
      episode
<1>4. SleepersExact'
  <2>1. Registered' = Registered /\ sleepers' = sleepers
    BY IdleAssumption
    DEF Sound, WordTypes, EpisodeState, Registered, Thread, TaskEnds, Go, mem,
        wait, search, episode
  <2>2. QED
    BY <2>1 DEF Sound, SleepersExact
<1>5. Passing
  BY IdleAssumption
  DEF Sound, WordTypes, EpisodeState, MemoryState, Passing, Passed, Thread,
      TaskEnds, Go, mem, wait, search, episode
<1>6. QED
  BY <1>1, <1>2, <1>3, <1>4, <1>5 DEF Sound

(* finish() sets the flag.                                                 *)
LEMMA SetFinishedSound ==
  ASSUME Sound, NEW C, pc \in [Thread -> C], SetFinished
  PROVE  Sound' /\ Passing
<1>1. WordTypes'
  BY IdleAssumption
  DEF Sound, WordTypes, MemoryState, EpisodeState, SetFinished, mem, wait,
      search, episode
<1>2. MemoryState'
  BY DEF Sound, WordTypes, MemoryState, Thread, SetFinished, mem, wait, search, episode
<1>3. EpisodeState'
  BY IdleAssumption
  DEF Sound, WordTypes, EpisodeState, Thread, SetFinished, mem, wait, search,
      episode
<1>4. SleepersExact'
  <2>1. Registered' = Registered /\ sleepers' = sleepers
    BY IdleAssumption
    DEF Sound, WordTypes, EpisodeState, Registered, Thread, SetFinished, mem,
        wait, search, episode
  <2>2. QED
    BY <2>1 DEF Sound, SleepersExact
<1>5. Passing
  BY IdleAssumption
  DEF Sound, WordTypes, EpisodeState, MemoryState, Passing, Passed, Thread,
      SetFinished, mem, wait, search, episode
<1>6. QED
  BY <1>1, <1>2, <1>3, <1>4, <1>5 DEF Sound

(* shutdown moves epoch: tickets never run ahead of it.                    *)
LEMMA ShutdownBumpSound ==
  ASSUME Sound, NEW C, pc \in [Thread -> C], ShutdownBump
  PROVE  Sound' /\ Passing
<1>1. WordTypes'
  BY IdleAssumption
  DEF Sound, WordTypes, MemoryState, EpisodeState, ShutdownBump, mem, wait,
      search, episode
<1>2. MemoryState'
  BY DEF Sound, WordTypes, MemoryState, Thread, ShutdownBump, mem, wait, search, episode
<1>3. EpisodeState'
  BY IdleAssumption
  DEF Sound, WordTypes, EpisodeState, Thread, ShutdownBump, mem, wait, search,
      episode
<1>4. SleepersExact'
  <2>1. Registered' = Registered /\ sleepers' = sleepers
    BY IdleAssumption
    DEF Sound, WordTypes, EpisodeState, Registered, Thread, ShutdownBump, mem,
        wait, search, episode
  <2>2. QED
    BY <2>1 DEF Sound, SleepersExact
<1>5. Passing
  BY IdleAssumption
  DEF Sound, WordTypes, EpisodeState, MemoryState, Passing, Passed, Thread,
      ShutdownBump, mem, wait, search, episode
<1>6. QED
  BY <1>1, <1>2, <1>3, <1>4, <1>5 DEF Sound

(* shutdown lets every waiter go: they stay registered.                    *)
LEMMA WakeAllSound ==
  ASSUME Sound, NEW C, pc \in [Thread -> C], WakeAll
  PROVE  Sound' /\ Passing
<1>1. WordTypes'
  BY IdleAssumption
  DEF Sound, WordTypes, MemoryState, EpisodeState, WakeAll, mem, wait, search,
      episode
<1>2. MemoryState'
  BY DEF Sound, WordTypes, MemoryState, Thread, WakeAll, mem, wait, search, episode
<1>3. EpisodeState'
  BY IdleAssumption
  DEF Sound, WordTypes, EpisodeState, Thread, WakeAll, mem, wait, search,
      episode
<1>4. SleepersExact'
  <2>1. Registered' = Registered /\ sleepers' = sleepers
    BY IdleAssumption
    DEF Sound, WordTypes, EpisodeState, Registered, Thread, WakeAll, mem, wait,
        search, episode
  <2>2. QED
    BY <2>1 DEF Sound, SleepersExact
<1>5. Passing
  BY IdleAssumption
  DEF Sound, WordTypes, EpisodeState, MemoryState, Passing, Passed, Thread,
      WakeAll, mem, wait, search, episode
<1>6. QED
  BY <1>1, <1>2, <1>3, <1>4, <1>5 DEF Sound

(* An empty round ends: only the control moves.                            *)
LEMMA EndRoundSound ==
  ASSUME Sound, NEW C, pc \in [Thread -> C], NEW w \in Worker, EndRound(w)
  PROVE  Sound' /\ Passing
<1>1. WordTypes'
  BY IdleAssumption
  DEF Sound, WordTypes, MemoryState, EpisodeState, EndRound, Go, mem, wait,
      search, episode
<1>2. MemoryState'
  BY DEF Sound, WordTypes, MemoryState, Thread, EndRound, Go, mem, wait, search, episode
<1>3. EpisodeState'
  BY IdleAssumption
  DEF Sound, WordTypes, EpisodeState, Thread, EndRound, Go, mem, wait, search,
      episode
<1>4. SleepersExact'
  <2>1. Registered' = Registered /\ sleepers' = sleepers
    BY IdleAssumption
    DEF Sound, WordTypes, EpisodeState, Registered, Thread, EndRound, Go, mem,
        wait, search, episode
  <2>2. QED
    BY <2>1 DEF Sound, SleepersExact
<1>5. Passing
  BY IdleAssumption
  DEF Sound, WordTypes, EpisodeState, MemoryState, Passing, Passed, Thread,
      EndRound, Go, mem, wait, search, episode
<1>6. QED
  BY <1>1, <1>2, <1>3, <1>4, <1>5 DEF Sound

(* no_work_found spins: only the count of rounds moves.                    *)
LEMMA SpinSound ==
  ASSUME Sound, NEW C, pc \in [Thread -> C], NEW w \in Worker, Spin(w)
  PROVE  Sound' /\ Passing
<1>1. WordTypes'
  BY IdleAssumption
  DEF Sound, WordTypes, MemoryState, EpisodeState, Spin, Go, mem, wait, search,
      episode
<1>2. MemoryState'
  BY DEF Sound, WordTypes, MemoryState, Thread, Spin, Go, mem, wait, search, episode
<1>3. EpisodeState'
  BY IdleAssumption
  DEF Sound, WordTypes, EpisodeState, Thread, Spin, Go, mem, wait, search,
      episode
<1>4. SleepersExact'
  <2>1. Registered' = Registered /\ sleepers' = sleepers
    BY IdleAssumption
    DEF Sound, WordTypes, EpisodeState, Registered, Thread, Spin, Go, mem, wait,
        search, episode
  <2>2. QED
    BY <2>1 DEF Sound, SleepersExact
<1>5. Passing
  BY IdleAssumption
  DEF Sound, WordTypes, EpisodeState, MemoryState, Passing, Passed, Thread,
      Spin, Go, mem, wait, search, episode
<1>6. QED
  BY <1>1, <1>2, <1>3, <1>4, <1>5 DEF Sound

(* work_found unregisters: counter and set go down together.               *)
LEMMA WorkFoundSound ==
  ASSUME Sound, NEW C, pc \in [Thread -> C], NEW w \in Worker, WorkFound(w)
  PROVE  Sound' /\ Passing
<1>1. WordTypes'
  <2>1. sleepers' \in Nat
    BY UnregisterCounts DEF WorkFound, Go, mem
  <2>2. QED
    BY <2>1 DEF Sound, WordTypes, WorkFound, Unregister, mem, search
<1>2. MemoryState'
  BY DEF Sound, WordTypes, MemoryState, Thread, WorkFound, Go, Unregister, mem,
      wait, search, episode
<1>3. EpisodeState'
  BY IdleAssumption
  DEF Sound, WordTypes, EpisodeState, Thread, WorkFound, Go, Unregister, mem,
      wait, search, episode
<1>4. SleepersExact'
  BY UnregisterCounts DEF WorkFound, Go, mem
<1>5. Passing
  BY IdleAssumption
  DEF Sound, WordTypes, EpisodeState, MemoryState, Passing, Passed, Thread,
      WorkFound, Go, Unregister, mem, wait, search, episode
<1>6. QED
  BY <1>1, <1>2, <1>3, <1>4, <1>5 DEF Sound

(* new_work reads sleepers: only the control moves.                        *)
LEMMA ReadSleepersSound ==
  ASSUME Sound, NEW C, pc \in [Thread -> C], NEW t \in Thread, ReadSleepers(t)
  PROVE  Sound' /\ Passing
<1>1. WordTypes'
  BY IdleAssumption
  DEF Sound, WordTypes, MemoryState, EpisodeState, ReadSleepers, Go, mem, wait,
      search, episode
<1>2. MemoryState'
  BY DEF Sound, WordTypes, MemoryState, Thread, ReadSleepers, Go, mem, wait, search, episode
<1>3. EpisodeState'
  BY IdleAssumption
  DEF Sound, WordTypes, EpisodeState, Thread, ReadSleepers, Go, mem, wait,
      search, episode
<1>4. SleepersExact'
  <2>1. Registered' = Registered /\ sleepers' = sleepers
    BY IdleAssumption
    DEF Sound, WordTypes, EpisodeState, Registered, Thread, ReadSleepers, Go,
        mem, wait, search, episode
  <2>2. QED
    BY <2>1 DEF Sound, SleepersExact
<1>5. Passing
  BY IdleAssumption
  DEF Sound, WordTypes, EpisodeState, MemoryState, Passing, Passed, Thread,
      ReadSleepers, Go, mem, wait, search, episode
<1>6. QED
  BY <1>1, <1>2, <1>3, <1>4, <1>5 DEF Sound

(* What holds no more than a push that is going to move epoch.             *)
Held(v) == queue[v] = 0 \/ (queue[v] = 1 /\ pc[v] \in {"pushed", "fenced", "bump"})

(* A step that passes nobody new keeps what is passed empty, if what it    *)
(* passes on stays held.                                                   *)
LEMMA PassedKeeps ==
  ASSUME Sound', Passing, PassedEmpty,
         \A w \in Worker, v \in Thread : Passed(w, v) /\ Passed(w, v)' /\ Held(v) => Held(v)'
  PROVE  PassedEmpty'
<1>1. ASSUME NEW w \in Worker, NEW v \in Thread, Passed(w, v)' PROVE Held(v)'
  <2>1. CASE queue'[v] = hidden'[v]
    BY <2>1 DEF Sound, MemoryState, Held
  <2>2. CASE Passed(w, v)
    BY <1>1, <2>2 DEF PassedEmpty, Held
  <2>3. QED
    BY <1>1, <2>1, <2>2 DEF Passing
<1>2. QED
  BY <1>1 DEF PassedEmpty, Held

(* The tasks of the queues.                                                *)
LEMMA TaskPushed ==
  ASSUME queue \in [Thread -> Nat], NEW t \in Thread, queue' = [queue EXCEPT ![t] = queue[t] + 1]
  PROVE  Tasks' = Tasks \cup {<<t, queue[t] + 1>>} /\ <<t, queue[t] + 1>> \notin Tasks
<1>1. queue'[t] = queue[t] + 1 /\ \A u \in Thread \ {t} : queue'[u] = queue[u]
  OBVIOUS
<1>2. 1 .. (queue[t] + 1) = (1 .. queue[t]) \cup {queue[t] + 1} /\ queue[t] + 1 \notin 1 .. queue[t]
  OBVIOUS
<1>3. ASSUME NEW x \in Tasks' PROVE x \in Tasks \cup {<<t, queue[t] + 1>>}
  <2>1. PICK u \in Thread, i \in Nat : i \in 1 .. queue'[u] /\ x = <<u, i>>
    BY <1>3 DEF Tasks
  <2>2. QED
    BY <1>1, <1>2, <2>1 DEF Tasks
<1>4. ASSUME NEW x \in Tasks \cup {<<t, queue[t] + 1>>} PROVE x \in Tasks'
  <2>1. CASE x = <<t, queue[t] + 1>>
    BY <1>1, <1>2, <2>1 DEF Tasks
  <2>2. CASE x \in Tasks
    <3>1. PICK u \in Thread, i \in Nat : i \in 1 .. queue[u] /\ x = <<u, i>>
      BY <2>2 DEF Tasks
    <3>2. i \in 1 .. queue'[u]
      BY <1>1, <1>2, <3>1
    <3>3. QED
      BY <3>1, <3>2 DEF Tasks
  <2>3. QED
    BY <1>4, <2>1, <2>2
<1>5. <<t, queue[t] + 1>> \notin Tasks
  BY <1>2 DEF Tasks
<1>6. QED
  BY <1>3, <1>4, <1>5

(* Taking from t's queue removes the last of its numbers.                  *)
LEMMA TaskTaken ==
  ASSUME queue \in [Thread -> Nat], NEW t \in Thread, queue[t] > 0,
         queue' = [queue EXCEPT ![t] = queue[t] - 1]
  PROVE  Tasks' = Tasks \ {<<t, queue[t]>>} /\ <<t, queue[t]>> \in Tasks
<1>1. queue'[t] = queue[t] - 1 /\ \A u \in Thread \ {t} : queue'[u] = queue[u]
  OBVIOUS
<1>2. /\ 1 .. (queue[t] - 1) = (1 .. queue[t]) \ {queue[t]}
      /\ queue[t] \in 1 .. queue[t]
  OBVIOUS
<1>3. ASSUME NEW x \in Tasks' PROVE x \in Tasks /\ x # <<t, queue[t]>>
  <2>1. PICK u \in Thread, i \in Nat : i \in 1 .. queue'[u] /\ x = <<u, i>>
    BY <1>3 DEF Tasks
  <2>2. i \in 1 .. queue[u] /\ (u = t => i # queue[t])
    BY <1>1, <1>2, <2>1
  <2>3. QED
    BY <2>1, <2>2 DEF Tasks
<1>4. ASSUME NEW x \in Tasks, x # <<t, queue[t]>> PROVE x \in Tasks'
  <2>1. PICK u \in Thread, i \in Nat : i \in 1 .. queue[u] /\ x = <<u, i>>
    BY <1>4 DEF Tasks
  <2>2. i \in 1 .. queue'[u]
    BY <1>1, <1>2, <1>4, <2>1
  <2>3. QED
    BY <2>1, <2>2 DEF Tasks
<1>5. <<t, queue[t]>> \in Tasks
  BY <1>2 DEF Tasks
<1>6. QED
  BY <1>3, <1>4, <1>5

(* All three are sets of threads, and finite.                              *)
LEMMA Counts ==
  /\ IsFiniteSet(Seekers) /\ IsFiniteSet(Announcing) /\ IsFiniteSet(Waiting)
  /\ Cardinality(Seekers) \in Nat /\ Cardinality(Announcing) \in Nat
<1>1. IsFiniteSet(Thread)
  BY IdleAssumption, FS_Union DEF Thread
<1>2. Seekers \subseteq Worker /\ Waiting \subseteq Worker /\ Announcing \subseteq Thread
  BY DEF Seekers, Waiting, Announcing
<1>3. IsFiniteSet(Seekers) /\ IsFiniteSet(Announcing) /\ IsFiniteSet(Waiting)
  BY <1>1, <1>2, IdleAssumption, FS_Subset
<1>4. QED
  BY <1>3, FS_CardinalityType

(* And so they are after a step.                                           *)
LEMMA CountsNext == IsFiniteSet(Seekers') /\ IsFiniteSet(Announcing')
<1>1. IsFiniteSet(Thread)
  BY IdleAssumption, FS_Union DEF Thread
<1>2. Seekers' \subseteq Worker /\ Announcing' \subseteq Thread
  BY DEF Seekers, Announcing
<1>3. QED
  BY <1>1, <1>2, IdleAssumption, FS_Subset

(* The balance of tasks, seekers and announcements: who leaves takes a     *)
(* task along, who brings one announces it, and a wake-up makes a seeker.  *)
LEMMA BalanceStays ==
  ASSUME WorkHasSeeker, IsFiniteSet(Tasks), Tasks' = Tasks,
         Waiting' # {} /\ ~ finished' => Waiting # {} /\ ~ finished,
         IsFiniteSet(Seekers'), IsFiniteSet(Announcing'),
         Seekers \subseteq Seekers', Announcing \subseteq Announcing'
  PROVE  IsFiniteSet(Tasks') /\ WorkHasSeeker'
<1>1. /\ Cardinality(Seekers) <= Cardinality(Seekers')
      /\ Cardinality(Announcing) <= Cardinality(Announcing')
  BY FS_Subset
<1>2. /\ Cardinality(Tasks) \in Nat /\ Cardinality(Seekers) \in Nat /\ Cardinality(Seekers') \in Nat
      /\ Cardinality(Announcing) \in Nat /\ Cardinality(Announcing') \in Nat
  BY Counts, FS_CardinalityType
<1>3. QED
  BY <1>1, <1>2 DEF WorkHasSeeker, Queued

(* A seeker that takes a task keeps the balance.                           *)
LEMMA BalanceTaken ==
  ASSUME WorkHasSeeker, IsFiniteSet(Tasks),
         NEW x \in Tasks, Tasks' = Tasks \ {x},
         Waiting' # {} /\ ~ finished' => Waiting # {} /\ ~ finished,
         NEW w \in Seekers, Seekers' = Seekers \ {w}, Announcing' = Announcing
  PROVE  IsFiniteSet(Tasks') /\ WorkHasSeeker'
<1>1. /\ Cardinality(Seekers') = Cardinality(Seekers) - 1
      /\ Cardinality(Tasks') = Cardinality(Tasks) - 1
      /\ IsFiniteSet(Tasks')
  BY Counts, FS_RemoveElement
<1>2. Cardinality(Tasks) \in Nat /\ Cardinality(Seekers) \in Nat /\ Cardinality(Announcing) \in Nat
  BY Counts, FS_CardinalityType
<1>3. QED
  BY <1>1, <1>2 DEF WorkHasSeeker, Queued

(* A thread that brings a task announces it.                               *)
LEMMA BalancePushed ==
  ASSUME WorkHasSeeker, IsFiniteSet(Tasks),
         NEW x, x \notin Tasks, Tasks' = Tasks \cup {x},
         Waiting' # {} /\ ~ finished' => Waiting # {} /\ ~ finished,
         NEW t, t \notin Announcing, Announcing' = Announcing \cup {t}, Seekers' = Seekers
  PROVE  IsFiniteSet(Tasks') /\ WorkHasSeeker'
<1>1. /\ Cardinality(Announcing') = Cardinality(Announcing) + 1
      /\ Cardinality(Tasks') = Cardinality(Tasks) + 1
      /\ IsFiniteSet(Tasks')
  BY Counts, FS_AddElement
<1>2. Cardinality(Tasks) \in Nat /\ Cardinality(Seekers) \in Nat /\ Cardinality(Announcing) \in Nat
  BY Counts, FS_CardinalityType
<1>3. QED
  BY <1>1, <1>2 DEF WorkHasSeeker, Queued

(* A thread that announces no more has woken a new seeker.                 *)
LEMMA BalanceWoken ==
  ASSUME WorkHasSeeker, IsFiniteSet(Tasks), Tasks' = Tasks,
         Waiting' # {} /\ ~ finished' => Waiting # {} /\ ~ finished,
         NEW t \in Announcing, Announcing' = Announcing \ {t},
         NEW w, w \notin Seekers, Seekers' = Seekers \cup {w}
  PROVE  IsFiniteSet(Tasks') /\ WorkHasSeeker'
<1>1. /\ Cardinality(Announcing') = Cardinality(Announcing) - 1
      /\ Cardinality(Seekers') = Cardinality(Seekers) + 1
  BY Counts, FS_AddElement, FS_RemoveElement
<1>2. Cardinality(Tasks) \in Nat /\ Cardinality(Seekers) \in Nat /\ Cardinality(Announcing) \in Nat
  BY Counts, FS_CardinalityType
<1>3. QED
  BY <1>1, <1>2 DEF WorkHasSeeker, Queued

(* Nobody waits without a registration, so nobody is missed at sleepers = 0.*)
LEMMA NobodyRegistered ==
  ASSUME Sound, sleepers = 0
  PROVE  Waiting = {} /\ \A w \in Worker : ticket[w] = None
<1>1. Registered = {}
  BY RegisteredFinite, FS_EmptySet DEF Sound, SleepersExact
<1>2. \A w \in Worker : ticket[w] = None
  BY <1>1 DEF Registered
<1>3. QED
  BY <1>2 DEF Sound, EpisodeState, Waiting

(* A worker that blocks has seen every queue: what it leaves behind is     *)
(* being announced.                                                        *)
LEMMA BlockedHasSeen ==
  ASSUME Sound, PassedEmpty, NEW w \in Worker, pc[w] = "syscall", epoch = ticket[w]
  PROVE  Queued <= Cardinality(Announcing)
<1>1. \A v \in Thread : Held(v)
  BY DEF Sound, EpisodeState, PassedEmpty, Passed, Held
<1> DEFINE A == {v \in Thread : queue[v] # 0}
           f == [v \in A |-> <<v, 1>>]
<1>2. A \subseteq Announcing
  BY <1>1 DEF Held, Announcing
<1>3. IsFiniteSet(A) /\ Cardinality(A) <= Cardinality(Announcing)
  BY <1>2, Counts, FS_Subset
<1>4. f \in Surjection(A, Tasks)
  <2>1. \A v \in A : queue[v] = 1
    BY <1>1 DEF Held
  <2>2. \A v \in A : <<v, 1>> \in Tasks
    BY <2>1 DEF Tasks
  <2>3. \A x \in Tasks : \E v \in A : x = <<v, 1>>
    <3>1. ASSUME NEW x \in Tasks PROVE \E v \in A : x = <<v, 1>>
      <4>1. PICK u \in Thread, i \in Nat : i \in 1 .. queue[u] /\ x = <<u, i>>
        BY DEF Tasks
      <4>2. queue[u] # 0
        BY <4>1
      <4>3. queue[u] = 1 /\ i = 1
        BY <2>1, <4>1, <4>2
      <4>4. QED
        BY <4>1, <4>2, <4>3
    <3>2. QED
      BY <3>1
  <2>4. QED
    BY <2>2, <2>3 DEF Surjection
<1>5. IsFiniteSet(Tasks) /\ Cardinality(Tasks) <= Cardinality(A)
  BY <1>3, <1>4, FS_Surjection
<1>6. QED
  BY <1>3, <1>5, Counts, FS_CardinalityType DEF Queued

(* A push becomes visible: nobody stops seeking.                           *)
LEMMA CommitPushKeeps ==
  ASSUME ParkIInv, NEW t \in Thread, CommitPush(t)
  PROVE  ParkIInv'
<1>1. Sound' /\ Passing
  BY CommitPushSound DEF ParkIInv
<1>2. pc' \in [Thread -> Control]
  BY DEF ParkIInv, Control, CommitPush, mem, wait, search, episode
<1>3. PassedEmpty'
  <2>1. \A v \in Thread : Held(v) => Held(v)'
    BY IdleAssumption
    DEF ParkIInv, Sound, WordTypes, Held, Thread, CommitPush, mem, wait, search,
        episode
  <2>2. QED
    BY <1>1, <2>1, PassedKeeps DEF ParkIInv
<1>4. IsFiniteSet(Tasks') /\ WorkHasSeeker'
  <2>1. Tasks' = Tasks /\ Seekers \subseteq Seekers' /\ Announcing \subseteq Announcing'
    BY IdleAssumption
    DEF ParkIInv, Tasks, Seekers, Announcing, Thread, CommitPush, mem, wait,
        search, episode
  <2>2. Waiting' # {} /\ ~ finished' => Waiting # {} /\ ~ finished
    BY IdleAssumption DEF ParkIInv, Waiting, Thread, CommitPush, mem, wait, search, episode
  <2>3. IsFiniteSet(Seekers') /\ IsFiniteSet(Announcing')
    BY CountsNext
  <2>4. QED
    BY <2>1, <2>2, <2>3, BalanceStays DEF ParkIInv
<1>5. QED
  BY <1>1, <1>2, <1>3, <1>4 DEF ParkIInv

(* A registration is committed: nobody stops seeking.                      *)
LEMMA CommitRegisterKeeps ==
  ASSUME ParkIInv, NEW w \in Worker, CommitRegister(w)
  PROVE  ParkIInv'
<1>1. Sound' /\ Passing
  BY CommitRegisterSound DEF ParkIInv
<1>2. pc' \in [Thread -> Control]
  BY DEF ParkIInv, Control, CommitRegister, mem, wait, search, episode
<1>3. PassedEmpty'
  <2>1. \A v \in Thread : Held(v) => Held(v)'
    BY IdleAssumption
    DEF ParkIInv, Sound, WordTypes, Held, Thread, CommitRegister, mem, wait,
        search, episode
  <2>2. QED
    BY <1>1, <2>1, PassedKeeps DEF ParkIInv
<1>4. IsFiniteSet(Tasks') /\ WorkHasSeeker'
  <2>1. Tasks' = Tasks /\ Seekers \subseteq Seekers' /\ Announcing \subseteq Announcing'
    BY IdleAssumption
    DEF ParkIInv, Tasks, Seekers, Announcing, Thread, CommitRegister, mem, wait,
        search, episode
  <2>2. Waiting' # {} /\ ~ finished' => Waiting # {} /\ ~ finished
    BY IdleAssumption
    DEF ParkIInv, Waiting, Thread, CommitRegister, mem, wait, search, episode
  <2>3. IsFiniteSet(Seekers') /\ IsFiniteSet(Announcing')
    BY CountsNext
  <2>4. QED
    BY <2>1, <2>2, <2>3, BalanceStays DEF ParkIInv
<1>5. QED
  BY <1>1, <1>2, <1>3, <1>4 DEF ParkIInv

(* A worker that finds a task in its own queue seeks no more, and the task *)
(* is gone too.                                                            *)
LEMMA StartRoundKeeps ==
  ASSUME ParkIInv, NEW w \in Worker, StartRound(w)
  PROVE  ParkIInv'
<1>1. Sound' /\ Passing
  BY StartRoundSound DEF ParkIInv
<1>2. pc' \in [Thread -> Control]
  BY DEF ParkIInv, Control, StartRound, mem, wait, search, episode
<1>3. PassedEmpty'
  <2>1. \A v \in Thread : Held(v) => Held(v)'
    BY IdleAssumption
    DEF ParkIInv, Sound, WordTypes, Held, Thread, StartRound, mem, wait, search,
        episode
  <2>2. QED
    BY <1>1, <2>1, PassedKeeps DEF ParkIInv
<1>4. IsFiniteSet(Tasks') /\ WorkHasSeeker'
  <2>1. CASE finished
    BY <2>1 DEF StartRound, wait, mem, WorkHasSeeker, Tasks, ParkIInv
  <2>2. CASE ~ finished /\ queue[w] > 0
    <3>1. pc[w] = "loop" /\ w \in Thread /\ queue \in [Thread -> Nat]
          /\ pc' = [pc EXCEPT ![w] = "found"] /\ queue' = [queue EXCEPT ![w] = queue[w] - 1]
          /\ finished' = finished
      BY <2>2 DEF ParkIInv, Sound, WordTypes, Thread, StartRound, wait
    <3>2. <<w, queue[w]>> \in Tasks /\ Tasks' = Tasks \ {<<w, queue[w]>>}
      BY <2>2, <3>1, TaskTaken
    <3>3. w \in Seekers /\ Seekers' = Seekers \ {w} /\ Announcing' = Announcing /\ Waiting' = Waiting
      BY <3>1 DEF ParkIInv, Seekers, Announcing, Waiting, Thread
    <3>4. QED
      BY <3>1, <3>2, <3>3, BalanceTaken DEF ParkIInv
  <2>3. CASE ~ finished /\ ~ (queue[w] > 0)
    <3>1. pc[w] = "loop" /\ w \in Thread /\ pc' = [pc EXCEPT ![w] = "search"] /\ queue' = queue
          /\ finished' = finished
      BY <2>3 DEF Thread, StartRound, wait, mem
    <3>2. Tasks' = Tasks /\ Seekers' = Seekers /\ Announcing' = Announcing /\ Waiting' = Waiting
      BY <3>1 DEF ParkIInv, Tasks, Seekers, Announcing, Waiting, Thread
    <3>3. QED
      BY <3>1, <3>2, CountsNext, BalanceStays DEF ParkIInv
  <2>4. QED
    BY <2>1, <2>2, <2>3
<1>5. QED
  BY <1>1, <1>2, <1>3, <1>4 DEF ParkIInv

(* Whatever a worker sees of a victim, it goes on seeking.                 *)
LEMMA LookKeeps ==
  ASSUME ParkIInv, NEW w \in Worker, NEW v \in Thread, Look(w, v)
  PROVE  ParkIInv'
<1>1. Sound' /\ Passing
  BY LookSound DEF ParkIInv
<1>2. pc' \in [Thread -> Control]
  BY DEF ParkIInv, Control, Look, Go, mem, wait, search, episode
<1>3. PassedEmpty'
  <2>1. \A y \in Thread : Held(y) => Held(y)'
    BY IdleAssumption
    DEF ParkIInv, Sound, WordTypes, Held, Thread, Look, Go, mem, wait, search,
        episode
  <2>2. QED
    BY <1>1, <2>1, PassedKeeps DEF ParkIInv
<1>4. IsFiniteSet(Tasks') /\ WorkHasSeeker'
  <2>1. Tasks' = Tasks /\ Seekers \subseteq Seekers' /\ Announcing \subseteq Announcing'
    BY IdleAssumption
    DEF ParkIInv, Tasks, Seekers, Announcing, Thread, Look, Go, mem, wait,
        search, episode
  <2>2. Waiting' # {} /\ ~ finished' => Waiting # {} /\ ~ finished
    BY IdleAssumption DEF ParkIInv, Waiting, Thread, Look, Go, mem, wait, search, episode
  <2>3. IsFiniteSet(Seekers') /\ IsFiniteSet(Announcing')
    BY CountsNext
  <2>4. QED
    BY <2>1, <2>2, <2>3, BalanceStays DEF ParkIInv
<1>5. QED
  BY <1>1, <1>2, <1>3, <1>4 DEF ParkIInv

(* A worker that takes a task seeks no more, and the task is gone too.     *)
LEMMA TakeKeeps ==
  ASSUME ParkIInv, NEW w \in Worker, Take(w)
  PROVE  ParkIInv'
<1>1. Sound' /\ Passing
  BY TakeSound DEF ParkIInv
<1>2. pc' \in [Thread -> Control]
  BY DEF ParkIInv, Control, Take, Visible, mem, wait, search, episode
<1>3. PassedEmpty'
  <2>1. \A v \in Thread : Held(v) => Held(v)'
    BY IdleAssumption
    DEF ParkIInv, Sound, WordTypes, Held, Thread, Take, Visible, mem, wait,
        search, episode
  <2>2. QED
    BY <1>1, <2>1, PassedKeeps DEF ParkIInv
<1>4. IsFiniteSet(Tasks') /\ WorkHasSeeker'
  <2>1. CASE aim[w] # None /\ Visible(aim[w]) > 0
    <3> DEFINE v == aim[w]
    <3>1. v \in Thread /\ w \in Thread /\ queue \in [Thread -> Nat] /\ queue[v] > 0
      BY <2>1 DEF ParkIInv, Sound, WordTypes, Thread, Visible
    <3>2. pc[w] = "take" /\ pc' = [pc EXCEPT ![w] = "found"] /\ queue' = [queue EXCEPT ![v] = queue[v] - 1]
          /\ finished' = finished
      BY <2>1 DEF Take, wait
    <3>3. <<v, queue[v]>> \in Tasks /\ Tasks' = Tasks \ {<<v, queue[v]>>}
      BY <3>1, <3>2, TaskTaken
    <3>4. w \in Seekers /\ Seekers' = Seekers \ {w} /\ Announcing' = Announcing /\ Waiting' = Waiting
      BY <3>1, <3>2 DEF ParkIInv, Seekers, Announcing, Waiting, Thread
    <3>5. QED
      BY <3>2, <3>3, <3>4, BalanceTaken DEF ParkIInv
  <2>2. CASE ~ (aim[w] # None /\ Visible(aim[w]) > 0)
    <3>1. pc[w] = "take" /\ w \in Thread /\ pc' = [pc EXCEPT ![w] = "search"] /\ queue' = queue
          /\ finished' = finished
      BY <2>2 DEF Thread, Take, wait
    <3>2. Tasks' = Tasks /\ Seekers' = Seekers /\ Announcing' = Announcing /\ Waiting' = Waiting
      BY <3>1 DEF ParkIInv, Tasks, Seekers, Announcing, Waiting, Thread
    <3>3. QED
      BY <3>1, <3>2, CountsNext, BalanceStays DEF ParkIInv
  <2>3. QED
    BY <2>1, <2>2
<1>5. QED
  BY <1>1, <1>2, <1>3, <1>4 DEF ParkIInv

(* After an empty round the worker goes on seeking, to park or to spin.    *)
LEMMA EndRoundKeeps ==
  ASSUME ParkIInv, NEW w \in Worker, EndRound(w)
  PROVE  ParkIInv'
<1>1. Sound' /\ Passing
  BY EndRoundSound DEF ParkIInv
<1>2. pc' \in [Thread -> Control]
  BY DEF ParkIInv, Control, EndRound, Go, mem, wait, search, episode
<1>3. PassedEmpty'
  <2>1. \A v \in Thread : Held(v) => Held(v)'
    BY IdleAssumption
    DEF ParkIInv, Sound, WordTypes, Held, Thread, EndRound, Go, mem, wait,
        search, episode
  <2>2. QED
    BY <1>1, <2>1, PassedKeeps DEF ParkIInv
<1>4. IsFiniteSet(Tasks') /\ WorkHasSeeker'
  <2>1. Tasks' = Tasks /\ Seekers \subseteq Seekers' /\ Announcing \subseteq Announcing'
    BY IdleAssumption
    DEF ParkIInv, Tasks, Seekers, Announcing, Thread, EndRound, Go, mem, wait,
        search, episode
  <2>2. Waiting' # {} /\ ~ finished' => Waiting # {} /\ ~ finished
    BY IdleAssumption
    DEF ParkIInv, Waiting, Thread, EndRound, Go, mem, wait, search, episode
  <2>3. IsFiniteSet(Seekers') /\ IsFiniteSet(Announcing')
    BY CountsNext
  <2>4. QED
    BY <2>1, <2>2, <2>3, BalanceStays DEF ParkIInv
<1>5. QED
  BY <1>1, <1>2, <1>3, <1>4 DEF ParkIInv

(* Spinning, a worker goes on seeking.                                     *)
LEMMA SpinKeeps ==
  ASSUME ParkIInv, NEW w \in Worker, Spin(w)
  PROVE  ParkIInv'
<1>1. Sound' /\ Passing
  BY SpinSound DEF ParkIInv
<1>2. pc' \in [Thread -> Control]
  BY DEF ParkIInv, Control, Spin, Go, mem, wait, search, episode
<1>3. PassedEmpty'
  <2>1. \A v \in Thread : Held(v) => Held(v)'
    BY IdleAssumption
    DEF ParkIInv, Sound, WordTypes, Held, Thread, Spin, Go, mem, wait, search,
        episode
  <2>2. QED
    BY <1>1, <2>1, PassedKeeps DEF ParkIInv
<1>4. IsFiniteSet(Tasks') /\ WorkHasSeeker'
  <2>1. Tasks' = Tasks /\ Seekers \subseteq Seekers' /\ Announcing \subseteq Announcing'
    BY IdleAssumption
    DEF ParkIInv, Tasks, Seekers, Announcing, Thread, Spin, Go, mem, wait,
        search, episode
  <2>2. Waiting' # {} /\ ~ finished' => Waiting # {} /\ ~ finished
    BY IdleAssumption DEF ParkIInv, Waiting, Thread, Spin, Go, mem, wait, search, episode
  <2>3. IsFiniteSet(Seekers') /\ IsFiniteSet(Announcing')
    BY CountsNext
  <2>4. QED
    BY <2>1, <2>2, <2>3, BalanceStays DEF ParkIInv
<1>5. QED
  BY <1>1, <1>2, <1>3, <1>4 DEF ParkIInv

(* A worker that registers will look at every queue again.                 *)
LEMMA RegisterKeeps ==
  ASSUME ParkIInv, NEW w \in Worker, Register(w)
  PROVE  ParkIInv'
<1>1. Sound' /\ Passing
  BY RegisterSound DEF ParkIInv
<1>2. pc' \in [Thread -> Control]
  BY DEF ParkIInv, Control, Register, Go, mem, wait, search, episode
<1>3. PassedEmpty'
  <2>1. \A v \in Thread : Held(v) => Held(v)'
    BY IdleAssumption
    DEF ParkIInv, Sound, WordTypes, Held, Thread, Register, Go, mem, wait,
        search, episode
  <2>2. QED
    BY <1>1, <2>1, PassedKeeps DEF ParkIInv
<1>4. IsFiniteSet(Tasks') /\ WorkHasSeeker'
  <2>1. Tasks' = Tasks /\ Seekers \subseteq Seekers' /\ Announcing \subseteq Announcing'
    BY IdleAssumption
    DEF ParkIInv, Tasks, Seekers, Announcing, Thread, Register, Go, mem, wait,
        search, episode
  <2>2. Waiting' # {} /\ ~ finished' => Waiting # {} /\ ~ finished
    BY IdleAssumption
    DEF ParkIInv, Waiting, Thread, Register, Go, mem, wait, search, episode
  <2>3. IsFiniteSet(Seekers') /\ IsFiniteSet(Announcing')
    BY CountsNext
  <2>4. QED
    BY <2>1, <2>2, <2>3, BalanceStays DEF ParkIInv
<1>5. QED
  BY <1>1, <1>2, <1>3, <1>4 DEF ParkIInv

(* A worker that has registered will look at every queue again.            *)
LEMMA RegisterFenceKeeps ==
  ASSUME ParkIInv, NEW w \in Worker, RegisterFence(w)
  PROVE  ParkIInv'
<1>1. Sound' /\ Passing
  BY RegisterFenceSound DEF ParkIInv
<1>2. pc' \in [Thread -> Control]
  BY DEF ParkIInv, Control, RegisterFence, Go, Fence, mem, wait, search, episode
<1>3. PassedEmpty'
  <2>1. \A v \in Thread : Held(v) => Held(v)'
    BY IdleAssumption
    DEF ParkIInv, Sound, WordTypes, Held, Thread, RegisterFence, Go, Fence, mem,
        wait, search, episode
  <2>2. QED
    BY <1>1, <2>1, PassedKeeps DEF ParkIInv
<1>4. IsFiniteSet(Tasks') /\ WorkHasSeeker'
  <2>1. Tasks' = Tasks /\ Seekers \subseteq Seekers' /\ Announcing \subseteq Announcing'
    BY IdleAssumption
    DEF ParkIInv, Tasks, Seekers, Announcing, Thread, RegisterFence, Go, Fence,
        mem, wait, search, episode
  <2>2. Waiting' # {} /\ ~ finished' => Waiting # {} /\ ~ finished
    BY IdleAssumption
    DEF ParkIInv, Waiting, Thread, RegisterFence, Go, Fence, mem, wait, search,
        episode
  <2>3. IsFiniteSet(Seekers') /\ IsFiniteSet(Announcing')
    BY CountsNext
  <2>4. QED
    BY <2>1, <2>2, <2>3, BalanceStays DEF ParkIInv
<1>5. QED
  BY <1>1, <1>2, <1>3, <1>4 DEF ParkIInv

(* With its ticket a worker starts another round.                          *)
LEMMA SnapshotKeeps ==
  ASSUME ParkIInv, NEW w \in Worker, Snapshot(w)
  PROVE  ParkIInv'
<1>1. Sound' /\ Passing
  BY SnapshotSound DEF ParkIInv
<1>2. pc' \in [Thread -> Control]
  BY DEF ParkIInv, Control, Snapshot, Go, mem, wait, search, episode
<1>3. PassedEmpty'
  <2>1. \A v \in Thread : Held(v) => Held(v)'
    BY IdleAssumption
    DEF ParkIInv, Sound, WordTypes, Held, Thread, Snapshot, Go, mem, wait,
        search, episode
  <2>2. QED
    BY <1>1, <2>1, PassedKeeps DEF ParkIInv
<1>4. IsFiniteSet(Tasks') /\ WorkHasSeeker'
  <2>1. Tasks' = Tasks /\ Seekers \subseteq Seekers' /\ Announcing \subseteq Announcing'
    BY IdleAssumption
    DEF ParkIInv, Tasks, Seekers, Announcing, Thread, Snapshot, Go, mem, wait,
        search, episode
  <2>2. Waiting' # {} /\ ~ finished' => Waiting # {} /\ ~ finished
    BY IdleAssumption
    DEF ParkIInv, Waiting, Thread, Snapshot, Go, mem, wait, search, episode
  <2>3. IsFiniteSet(Seekers') /\ IsFiniteSet(Announcing')
    BY CountsNext
  <2>4. QED
    BY <2>1, <2>2, <2>3, BalanceStays DEF ParkIInv
<1>5. QED
  BY <1>1, <1>2, <1>3, <1>4 DEF ParkIInv

(* A worker at the entry of the wait still counts as a seeker: the wait    *)
(* may send it back.                                                       *)
LEMMA ParkKeeps ==
  ASSUME ParkIInv, NEW w \in Worker, Park(w)
  PROVE  ParkIInv'
<1>1. Sound' /\ Passing
  BY ParkSound DEF ParkIInv
<1>2. pc' \in [Thread -> Control]
  BY DEF ParkIInv, Control, Park, Go, mem, wait, search, episode
<1>3. PassedEmpty'
  <2>1. \A v \in Thread : Held(v) => Held(v)'
    BY IdleAssumption
    DEF ParkIInv, Sound, WordTypes, Held, Thread, Park, Go, mem, wait, search,
        episode
  <2>2. QED
    BY <1>1, <2>1, PassedKeeps DEF ParkIInv
<1>4. IsFiniteSet(Tasks') /\ WorkHasSeeker'
  <2>1. Tasks' = Tasks /\ Seekers \subseteq Seekers' /\ Announcing \subseteq Announcing'
    BY IdleAssumption
    DEF ParkIInv, Tasks, Seekers, Announcing, Thread, Park, Go, mem, wait,
        search, episode
  <2>2. Waiting' # {} /\ ~ finished' => Waiting # {} /\ ~ finished
    BY IdleAssumption DEF ParkIInv, Waiting, Thread, Park, Go, mem, wait, search, episode
  <2>3. IsFiniteSet(Seekers') /\ IsFiniteSet(Announcing')
    BY CountsNext
  <2>4. QED
    BY <2>1, <2>2, <2>3, BalanceStays DEF ParkIInv
<1>5. QED
  BY <1>1, <1>2, <1>3, <1>4 DEF ParkIInv

(* A worker about to enter the kernel still counts as a seeker: the kernel *)
(* may send it back.                                                       *)
LEMMA CheckWaitKeeps ==
  ASSUME ParkIInv, NEW w \in Worker, CheckWait(w)
  PROVE  ParkIInv'
<1>1. Sound' /\ Passing
  BY CheckWaitSound DEF ParkIInv
<1>2. pc' \in [Thread -> Control]
  BY DEF ParkIInv, Control, CheckWait, Go, mem, wait, search, episode
<1>3. PassedEmpty'
  <2>1. \A v \in Thread : Held(v) => Held(v)'
    BY IdleAssumption
    DEF ParkIInv, Sound, WordTypes, Held, Thread, CheckWait, Go, mem, wait,
        search, episode
  <2>2. QED
    BY <1>1, <2>1, PassedKeeps DEF ParkIInv
<1>4. IsFiniteSet(Tasks') /\ WorkHasSeeker'
  <2>1. Tasks' = Tasks /\ Seekers \subseteq Seekers' /\ Announcing \subseteq Announcing'
    BY IdleAssumption
    DEF ParkIInv, Tasks, Seekers, Announcing, Thread, CheckWait, Go, mem, wait,
        search, episode
  <2>2. Waiting' # {} /\ ~ finished' => Waiting # {} /\ ~ finished
    BY IdleAssumption
    DEF ParkIInv, Waiting, Thread, CheckWait, Go, mem, wait, search, episode
  <2>3. IsFiniteSet(Seekers') /\ IsFiniteSet(Announcing')
    BY CountsNext
  <2>4. QED
    BY <2>1, <2>2, <2>3, BalanceStays DEF ParkIInv
<1>5. QED
  BY <1>1, <1>2, <1>3, <1>4 DEF ParkIInv

(* A worker that blocks has looked at every queue since its ticket: each   *)
(* task that is left came later, from a thread that still announces it.    *)
LEMMA KernelWaitKeeps ==
  ASSUME ParkIInv, NEW w \in Worker, KernelWait(w)
  PROVE  ParkIInv'
<1>1. Sound' /\ Passing
  BY KernelWaitSound DEF ParkIInv
<1>2. pc' \in [Thread -> Control]
  BY DEF ParkIInv, Control, KernelWait, Go, mem, wait, search, episode
<1>3. PassedEmpty'
  <2>1. \A v \in Thread : Held(v) => Held(v)'
    BY IdleAssumption
    DEF ParkIInv, Sound, WordTypes, Held, Thread, KernelWait, Go, mem, wait,
        search, episode
  <2>2. QED
    BY <1>1, <2>1, PassedKeeps DEF ParkIInv
<1>4. IsFiniteSet(Tasks') /\ WorkHasSeeker'
  <2>0. pc[w] = "syscall" /\ w \in Thread /\ queue' = queue /\ finished' = finished
    BY DEF Thread, KernelWait, Go, mem, wait
  <2>1. CASE epoch = ticket[w]
    <3>1. pc' = [pc EXCEPT ![w] = "waiting"]
      BY <2>1 DEF KernelWait, Go
    <3>2. Tasks' = Tasks /\ Announcing' = Announcing
      BY <2>0, <3>1 DEF ParkIInv, Tasks, Announcing
    <3>3. Queued <= Cardinality(Announcing)
      BY <2>0, <2>1, BlockedHasSeen DEF ParkIInv
    <3>4. Cardinality(Announcing) \in Nat /\ Cardinality(Seekers') \in Nat /\ Cardinality(Tasks) \in Nat
      BY Counts, CountsNext, FS_CardinalityType DEF ParkIInv
    <3>5. QED
      BY <3>2, <3>3, <3>4 DEF ParkIInv, WorkHasSeeker, Queued
  <2>2. CASE epoch # ticket[w]
    <3>1. pc' = [pc EXCEPT ![w] = "leave"]
      BY <2>2 DEF KernelWait, Go
    <3>2. Tasks' = Tasks /\ Seekers' = Seekers /\ Announcing' = Announcing /\ Waiting' = Waiting
      BY <2>0, <3>1 DEF ParkIInv, Tasks, Seekers, Announcing, Waiting, Thread
    <3>3. QED
      BY <2>0, <3>2, CountsNext, BalanceStays DEF ParkIInv
  <2>3. QED
    BY <2>1, <2>2
<1>5. QED
  BY <1>1, <1>2, <1>3, <1>4 DEF ParkIInv

(* A worker that wakes up seeks again.                                     *)
LEMMA WaitEndsKeeps ==
  ASSUME ParkIInv, NEW w \in Worker, WaitEnds(w)
  PROVE  ParkIInv'
<1>1. Sound' /\ Passing
  BY WaitEndsSound DEF ParkIInv
<1>2. pc' \in [Thread -> Control]
  BY DEF ParkIInv, Control, WaitEnds, Go, mem, wait, search, episode
<1>3. PassedEmpty'
  <2>1. \A v \in Thread : Held(v) => Held(v)'
    BY IdleAssumption
    DEF ParkIInv, Sound, WordTypes, Held, Thread, WaitEnds, Go, mem, wait,
        search, episode
  <2>2. QED
    BY <1>1, <2>1, PassedKeeps DEF ParkIInv
<1>4. IsFiniteSet(Tasks') /\ WorkHasSeeker'
  <2>1. Tasks' = Tasks /\ Seekers \subseteq Seekers' /\ Announcing \subseteq Announcing'
    BY IdleAssumption
    DEF ParkIInv, Tasks, Seekers, Announcing, Thread, WaitEnds, Go, mem, wait,
        search, episode
  <2>2. Waiting' # {} /\ ~ finished' => Waiting # {} /\ ~ finished
    BY IdleAssumption
    DEF ParkIInv, Waiting, Thread, WaitEnds, Go, mem, wait, search, episode
  <2>3. IsFiniteSet(Seekers') /\ IsFiniteSet(Announcing')
    BY CountsNext
  <2>4. QED
    BY <2>1, <2>2, <2>3, BalanceStays DEF ParkIInv
<1>5. QED
  BY <1>1, <1>2, <1>3, <1>4 DEF ParkIInv

(* A worker back from its wait seeks again.                                *)
LEMMA LeaveKeeps ==
  ASSUME ParkIInv, NEW w \in Worker, Leave(w)
  PROVE  ParkIInv'
<1>1. Sound' /\ Passing
  BY LeaveSound DEF ParkIInv
<1>2. pc' \in [Thread -> Control]
  BY DEF ParkIInv, Control, Leave, Go, Unregister, mem, wait, search, episode
<1>3. PassedEmpty'
  <2>1. \A v \in Thread : Held(v) => Held(v)'
    BY IdleAssumption
    DEF ParkIInv, Sound, WordTypes, Held, Thread, Leave, Go, Unregister, mem,
        wait, search, episode
  <2>2. QED
    BY <1>1, <2>1, PassedKeeps DEF ParkIInv
<1>4. IsFiniteSet(Tasks') /\ WorkHasSeeker'
  <2>1. Tasks' = Tasks /\ Seekers \subseteq Seekers' /\ Announcing \subseteq Announcing'
    BY IdleAssumption
    DEF ParkIInv, Tasks, Seekers, Announcing, Thread, Leave, Go, Unregister,
        mem, wait, search, episode
  <2>2. Waiting' # {} /\ ~ finished' => Waiting # {} /\ ~ finished
    BY IdleAssumption
    DEF ParkIInv, Waiting, Thread, Leave, Go, Unregister, mem, wait, search,
        episode
  <2>3. IsFiniteSet(Seekers') /\ IsFiniteSet(Announcing')
    BY CountsNext
  <2>4. QED
    BY <2>1, <2>2, <2>3, BalanceStays DEF ParkIInv
<1>5. QED
  BY <1>1, <1>2, <1>3, <1>4 DEF ParkIInv

(* A worker with a task was no seeker any more.                            *)
LEMMA WorkFoundKeeps ==
  ASSUME ParkIInv, NEW w \in Worker, WorkFound(w)
  PROVE  ParkIInv'
<1>1. Sound' /\ Passing
  BY WorkFoundSound DEF ParkIInv
<1>2. pc' \in [Thread -> Control]
  BY DEF ParkIInv, Control, WorkFound, Go, Unregister, mem, wait, search, episode
<1>3. PassedEmpty'
  <2>1. \A v \in Thread : Held(v) => Held(v)'
    BY IdleAssumption
    DEF ParkIInv, Sound, WordTypes, Held, Thread, WorkFound, Go, Unregister,
        mem, wait, search, episode
  <2>2. QED
    BY <1>1, <2>1, PassedKeeps DEF ParkIInv
<1>4. IsFiniteSet(Tasks') /\ WorkHasSeeker'
  <2>1. Tasks' = Tasks /\ Seekers \subseteq Seekers' /\ Announcing \subseteq Announcing'
    BY IdleAssumption
    DEF ParkIInv, Tasks, Seekers, Announcing, Thread, WorkFound, Go, Unregister,
        mem, wait, search, episode
  <2>2. Waiting' # {} /\ ~ finished' => Waiting # {} /\ ~ finished
    BY IdleAssumption
    DEF ParkIInv, Waiting, Thread, WorkFound, Go, Unregister, mem, wait, search,
        episode
  <2>3. IsFiniteSet(Seekers') /\ IsFiniteSet(Announcing')
    BY CountsNext
  <2>4. QED
    BY <2>1, <2>2, <2>3, BalanceStays DEF ParkIInv
<1>5. QED
  BY <1>1, <1>2, <1>3, <1>4 DEF ParkIInv

(* A new task is announced by its own thread.                              *)
LEMMA PushKeeps ==
  ASSUME ParkIInv, NEW t \in Thread, Push(t)
  PROVE  ParkIInv'
<1>1. Sound' /\ Passing
  BY PushSound DEF ParkIInv
<1>2. pc' \in [Thread -> Control]
  BY DEF ParkIInv, Control, Push, Go, mem, wait, search, episode
<1>3. PassedEmpty'
  <2>1. \A v \in Thread : Held(v) => Held(v)'
    BY IdleAssumption
    DEF ParkIInv, Sound, WordTypes, Held, Thread, Push, Go, mem, wait, search,
        episode
  <2>2. QED
    BY <1>1, <2>1, PassedKeeps DEF ParkIInv
<1>4. IsFiniteSet(Tasks') /\ WorkHasSeeker'
  <2>1. pc[t] = "running" /\ pc' = [pc EXCEPT ![t] = "pushed"] /\ finished' = finished
        /\ queue' = [queue EXCEPT ![t] = queue[t] + 1] /\ queue \in [Thread -> Nat]
    BY DEF ParkIInv, Sound, WordTypes, Push, Go, wait
  <2>2. <<t, queue[t] + 1>> \notin Tasks /\ Tasks' = Tasks \cup {<<t, queue[t] + 1>>}
    BY <2>1, TaskPushed
  <2>3. t \notin Announcing /\ Announcing' = Announcing \cup {t}
        /\ Seekers' = Seekers /\ Waiting' = Waiting
    BY <2>1 DEF ParkIInv, Seekers, Announcing, Waiting, Thread
  <2>4. QED
    BY <2>1, <2>2, <2>3, BalancePushed DEF ParkIInv
<1>5. QED
  BY <1>1, <1>2, <1>3, <1>4 DEF ParkIInv

(* A thread that has fenced still announces its task.                      *)
LEMMA PushFenceKeeps ==
  ASSUME ParkIInv, NEW t \in Thread, PushFence(t)
  PROVE  ParkIInv'
<1>1. Sound' /\ Passing
  BY PushFenceSound DEF ParkIInv
<1>2. pc' \in [Thread -> Control]
  BY DEF ParkIInv, Control, PushFence, Go, Fence, mem, wait, search, episode
<1>3. PassedEmpty'
  <2>1. \A v \in Thread : Held(v) => Held(v)'
    BY IdleAssumption
    DEF ParkIInv, Sound, WordTypes, Held, Thread, PushFence, Go, Fence, mem,
        wait, search, episode
  <2>2. QED
    BY <1>1, <2>1, PassedKeeps DEF ParkIInv
<1>4. IsFiniteSet(Tasks') /\ WorkHasSeeker'
  <2>1. Tasks' = Tasks /\ Seekers \subseteq Seekers' /\ Announcing \subseteq Announcing'
    BY IdleAssumption
    DEF ParkIInv, Tasks, Seekers, Announcing, Thread, PushFence, Go, Fence, mem,
        wait, search, episode
  <2>2. Waiting' # {} /\ ~ finished' => Waiting # {} /\ ~ finished
    BY IdleAssumption
    DEF ParkIInv, Waiting, Thread, PushFence, Go, Fence, mem, wait, search,
        episode
  <2>3. IsFiniteSet(Seekers') /\ IsFiniteSet(Announcing')
    BY CountsNext
  <2>4. QED
    BY <2>1, <2>2, <2>3, BalanceStays DEF ParkIInv
<1>5. QED
  BY <1>1, <1>2, <1>3, <1>4 DEF ParkIInv

(* A thread that sees no sleeper announces no more; but then nobody is     *)
(* blocked.                                                                *)
LEMMA ReadSleepersKeeps ==
  ASSUME ParkIInv, NEW t \in Thread, ReadSleepers(t)
  PROVE  ParkIInv'
<1>1. Sound' /\ Passing
  BY ReadSleepersSound DEF ParkIInv
<1>2. pc' \in [Thread -> Control]
  BY DEF ParkIInv, Control, ReadSleepers, Go, mem, wait, search, episode
<1>3. PassedEmpty'
  <2>1. CASE sleepers = 0
    <3>1. \A w \in Worker, v \in Thread : ~ Passed(w, v)
      BY <2>1, NobodyRegistered, IdleAssumption DEF ParkIInv, Sound, WordTypes, Passed
    <3>2. QED
      BY <1>1, <3>1, PassedKeeps DEF ParkIInv
  <2>2. CASE sleepers # 0
    <3>1. pc' = [pc EXCEPT ![t] = "bump"] /\ pc[t] = "fenced" /\ queue' = queue
      BY <2>2 DEF ReadSleepers, Go, mem
    <3>2. \A v \in Thread : Held(v) => Held(v)'
      BY <3>1 DEF ParkIInv, Held
    <3>3. QED
      BY <1>1, <3>2, PassedKeeps DEF ParkIInv
  <2>3. QED
    BY <2>1, <2>2
<1>4. IsFiniteSet(Tasks') /\ WorkHasSeeker'
  <2>0. pc[t] = "fenced" /\ queue' = queue /\ finished' = finished
    BY DEF ReadSleepers, Go, mem, wait
  <2>1. CASE sleepers = 0
    <3>1. Waiting = {}
      BY <2>1, NobodyRegistered DEF ParkIInv
    <3>2. Waiting' = {} /\ Tasks' = Tasks
      <4>1. pc' = [pc EXCEPT ![t] = "running"]
        BY <2>1 DEF ReadSleepers, Go
      <4>2. QED
        BY <2>0, <3>1, <4>1 DEF ParkIInv, Waiting, Thread, Tasks
    <3>3. QED
      BY <3>2 DEF ParkIInv, WorkHasSeeker
  <2>2. CASE sleepers # 0
    <3>1. pc' = [pc EXCEPT ![t] = "bump"]
      BY <2>2 DEF ReadSleepers, Go
    <3>2. Tasks' = Tasks /\ Seekers' = Seekers /\ Announcing' = Announcing /\ Waiting' = Waiting
      BY <2>0, <3>1 DEF ParkIInv, Tasks, Seekers, Announcing, Waiting, Thread
    <3>3. QED
      BY <2>0, <3>2, CountsNext, BalanceStays DEF ParkIInv
  <2>3. QED
    BY <2>1, <2>2
<1>5. QED
  BY <1>1, <1>2, <1>3, <1>4 DEF ParkIInv

(* A thread that has moved epoch still announces its task.                 *)
LEMMA BumpKeeps ==
  ASSUME ParkIInv, NEW t \in Thread, Bump(t)
  PROVE  ParkIInv'
<1>1. Sound' /\ Passing
  BY BumpSound DEF ParkIInv
<1>2. pc' \in [Thread -> Control]
  BY DEF ParkIInv, Control, Bump, Go, mem, wait, search, episode
<1>3. PassedEmpty'
  <2>1. \A w \in Worker, v \in Thread : ~ Passed(w, v)'
    BY IdleAssumption DEF ParkIInv, Sound, WordTypes, EpisodeState, Passed, Bump, episode
  <2>2. QED
    BY <1>1, <2>1, PassedKeeps DEF ParkIInv
<1>4. IsFiniteSet(Tasks') /\ WorkHasSeeker'
  <2>1. Tasks' = Tasks /\ Seekers \subseteq Seekers' /\ Announcing \subseteq Announcing'
    BY IdleAssumption
    DEF ParkIInv, Tasks, Seekers, Announcing, Thread, Bump, Go, mem, wait,
        search, episode
  <2>2. Waiting' # {} /\ ~ finished' => Waiting # {} /\ ~ finished
    BY IdleAssumption DEF ParkIInv, Waiting, Thread, Bump, Go, mem, wait, search, episode
  <2>3. IsFiniteSet(Seekers') /\ IsFiniteSet(Announcing')
    BY CountsNext
  <2>4. QED
    BY <2>1, <2>2, <2>3, BalanceStays DEF ParkIInv
<1>5. QED
  BY <1>1, <1>2, <1>3, <1>4 DEF ParkIInv

(* The thread announces no more, and the worker it wakes seeks instead.    *)
LEMMA WakeOneKeeps ==
  ASSUME ParkIInv, NEW t \in Thread, WakeOne(t)
  PROVE  ParkIInv'
<1>1. Sound' /\ Passing
  BY WakeOneSound DEF ParkIInv
<1>2. pc' \in [Thread -> Control]
  BY DEF ParkIInv, Control, WakeOne, Waiting, mem, wait, search, episode
<1>3. PassedEmpty'
  <2>1. \A v \in Thread : Held(v) => Held(v)'
    BY IdleAssumption
    DEF ParkIInv, Sound, WordTypes, Held, Thread, WakeOne, Waiting, mem, wait,
        search, episode
  <2>2. QED
    BY <1>1, <2>1, PassedKeeps DEF ParkIInv
<1>4. IsFiniteSet(Tasks') /\ WorkHasSeeker'
  <2>0. pc[t] = "wake" /\ queue' = queue /\ finished' = finished
    BY DEF WakeOne, mem, wait
  <2>1. CASE Waiting = {}
    <3>1. pc' = [pc EXCEPT ![t] = "running"]
      BY <2>1 DEF WakeOne
    <3>2. Waiting' = {} /\ Tasks' = Tasks
      BY <2>0, <2>1, <3>1 DEF ParkIInv, Waiting, Thread, Tasks
    <3>3. QED
      BY <3>2 DEF ParkIInv, WorkHasSeeker
  <2>2. CASE Waiting # {}
    <3>1. PICK w \in Waiting :
            pc' = [u \in Thread |-> IF u = w THEN "leave" ELSE IF u = t THEN "running" ELSE pc[u]]
      BY <2>2 DEF WakeOne
    <3>2. w \in Worker /\ w \in Thread /\ w # t /\ pc[w] = "waiting"
      BY <2>0 DEF Waiting, Thread
    <3>3. t \in Announcing /\ w \notin Seekers
      BY <2>0, <3>2 DEF Announcing, Seekers
    <3>4. Announcing' = Announcing \ {t} /\ Seekers' = Seekers \cup {w} /\ Tasks' = Tasks
      BY <2>0, <3>1, <3>2 DEF ParkIInv, Announcing, Seekers, Tasks, Thread
    <3>5. QED
      BY <2>0, <2>2, <3>3, <3>4, BalanceWoken DEF ParkIInv
  <2>3. QED
    BY <2>1, <2>2
<1>5. QED
  BY <1>1, <1>2, <1>3, <1>4 DEF ParkIInv

(* A worker whose task ended seeks again.                                  *)
LEMMA TaskEndsKeeps ==
  ASSUME ParkIInv, NEW w \in Worker, TaskEnds(w)
  PROVE  ParkIInv'
<1>1. Sound' /\ Passing
  BY TaskEndsSound DEF ParkIInv
<1>2. pc' \in [Thread -> Control]
  BY DEF ParkIInv, Control, TaskEnds, Go, mem, wait, search, episode
<1>3. PassedEmpty'
  <2>1. \A v \in Thread : Held(v) => Held(v)'
    BY IdleAssumption
    DEF ParkIInv, Sound, WordTypes, Held, Thread, TaskEnds, Go, mem, wait,
        search, episode
  <2>2. QED
    BY <1>1, <2>1, PassedKeeps DEF ParkIInv
<1>4. IsFiniteSet(Tasks') /\ WorkHasSeeker'
  <2>1. Tasks' = Tasks /\ Seekers \subseteq Seekers' /\ Announcing \subseteq Announcing'
    BY IdleAssumption
    DEF ParkIInv, Tasks, Seekers, Announcing, Thread, TaskEnds, Go, mem, wait,
        search, episode
  <2>2. Waiting' # {} /\ ~ finished' => Waiting # {} /\ ~ finished
    BY IdleAssumption
    DEF ParkIInv, Waiting, Thread, TaskEnds, Go, mem, wait, search, episode
  <2>3. IsFiniteSet(Seekers') /\ IsFiniteSet(Announcing')
    BY CountsNext
  <2>4. QED
    BY <2>1, <2>2, <2>3, BalanceStays DEF ParkIInv
<1>5. QED
  BY <1>1, <1>2, <1>3, <1>4 DEF ParkIInv

(* Once finished, nothing is asked.                                        *)
LEMMA SetFinishedKeeps ==
  ASSUME ParkIInv, SetFinished
  PROVE  ParkIInv'
<1>1. Sound' /\ Passing
  BY SetFinishedSound DEF ParkIInv
<1>2. pc' \in [Thread -> Control]
  BY DEF ParkIInv, Control, SetFinished, mem, wait, search, episode
<1>3. PassedEmpty'
  <2>1. \A v \in Thread : Held(v) => Held(v)'
    BY IdleAssumption
    DEF ParkIInv, Sound, WordTypes, Held, Thread, SetFinished, mem, wait,
        search, episode
  <2>2. QED
    BY <1>1, <2>1, PassedKeeps DEF ParkIInv
<1>4. IsFiniteSet(Tasks') /\ WorkHasSeeker'
  <2>1. Tasks' = Tasks /\ Seekers \subseteq Seekers' /\ Announcing \subseteq Announcing'
    BY IdleAssumption
    DEF ParkIInv, Tasks, Seekers, Announcing, Thread, SetFinished, mem, wait,
        search, episode
  <2>2. Waiting' # {} /\ ~ finished' => Waiting # {} /\ ~ finished
    BY IdleAssumption DEF ParkIInv, Waiting, Thread, SetFinished, mem, wait, search, episode
  <2>3. IsFiniteSet(Seekers') /\ IsFiniteSet(Announcing')
    BY CountsNext
  <2>4. QED
    BY <2>1, <2>2, <2>3, BalanceStays DEF ParkIInv
<1>5. QED
  BY <1>1, <1>2, <1>3, <1>4 DEF ParkIInv

(* shutdown runs when the pool is finished.                                *)
LEMMA ShutdownBumpKeeps ==
  ASSUME ParkIInv, ShutdownBump
  PROVE  ParkIInv'
<1>1. Sound' /\ Passing
  BY ShutdownBumpSound DEF ParkIInv
<1>2. pc' \in [Thread -> Control]
  BY DEF ParkIInv, Control, ShutdownBump, mem, wait, search, episode
<1>3. PassedEmpty'
  <2>1. \A v \in Thread : Held(v) => Held(v)'
    BY IdleAssumption
    DEF ParkIInv, Sound, WordTypes, Held, Thread, ShutdownBump, mem, wait,
        search, episode
  <2>2. QED
    BY <1>1, <2>1, PassedKeeps DEF ParkIInv
<1>4. IsFiniteSet(Tasks') /\ WorkHasSeeker'
  <2>1. Tasks' = Tasks /\ Seekers \subseteq Seekers' /\ Announcing \subseteq Announcing'
    BY IdleAssumption
    DEF ParkIInv, Tasks, Seekers, Announcing, Thread, ShutdownBump, mem, wait,
        search, episode
  <2>2. Waiting' # {} /\ ~ finished' => Waiting # {} /\ ~ finished
    BY IdleAssumption
    DEF ParkIInv, Waiting, Thread, ShutdownBump, mem, wait, search, episode
  <2>3. IsFiniteSet(Seekers') /\ IsFiniteSet(Announcing')
    BY CountsNext
  <2>4. QED
    BY <2>1, <2>2, <2>3, BalanceStays DEF ParkIInv
<1>5. QED
  BY <1>1, <1>2, <1>3, <1>4 DEF ParkIInv

(* shutdown runs when the pool is finished.                                *)
LEMMA WakeAllKeeps ==
  ASSUME ParkIInv, WakeAll
  PROVE  ParkIInv'
<1>1. Sound' /\ Passing
  BY WakeAllSound DEF ParkIInv
<1>2. pc' \in [Thread -> Control]
  BY DEF ParkIInv, Control, WakeAll, mem, wait, search, episode
<1>3. PassedEmpty'
  <2>1. \A v \in Thread : Held(v) => Held(v)'
    BY IdleAssumption
    DEF ParkIInv, Sound, WordTypes, Held, Thread, WakeAll, mem, wait, search,
        episode
  <2>2. QED
    BY <1>1, <2>1, PassedKeeps DEF ParkIInv
<1>4. IsFiniteSet(Tasks') /\ WorkHasSeeker'
  <2>1. Tasks' = Tasks /\ Seekers \subseteq Seekers' /\ Announcing \subseteq Announcing'
    BY IdleAssumption
    DEF ParkIInv, Tasks, Seekers, Announcing, Thread, WakeAll, mem, wait,
        search, episode
  <2>2. Waiting' # {} /\ ~ finished' => Waiting # {} /\ ~ finished
    BY IdleAssumption DEF ParkIInv, Waiting, Thread, WakeAll, mem, wait, search, episode
  <2>3. IsFiniteSet(Seekers') /\ IsFiniteSet(Announcing')
    BY CountsNext
  <2>4. QED
    BY <2>1, <2>2, <2>3, BalanceStays DEF ParkIInv
<1>5. QED
  BY <1>1, <1>2, <1>3, <1>4 DEF ParkIInv

(* A step that changes nothing.                                            *)
LEMMA StutterKeeps ==
  ASSUME ParkIInv, UNCHANGED vars
  PROVE  ParkIInv'
<1>1. WordTypes' /\ MemoryState' /\ EpisodeState'
  BY DEF ParkIInv, Sound, WordTypes, MemoryState, EpisodeState, vars
<1>2. SleepersExact'
  BY DEF ParkIInv, Sound, SleepersExact, Registered, vars
<1>3. PassedEmpty'
  BY DEF ParkIInv, PassedEmpty, Passed, vars
<1>4. IsFiniteSet(Tasks') /\ WorkHasSeeker' /\ pc' = pc
  BY DEF ParkIInv, Tasks, WorkHasSeeker, Queued, Seekers, Announcing, Waiting, vars
<1>5. QED
  BY <1>1, <1>2, <1>3, <1>4 DEF ParkIInv, Sound

(* At the start no task is queued and nobody is registered.                *)
LEMMA InitIInv == Init => ParkIInv
<1> SUFFICES ASSUME Init PROVE ParkIInv
  OBVIOUS
<1>1. pc \in [Thread -> Control]
  BY DEF Init, Control
<1>2. WordTypes
  BY IdleAssumption DEF Init, WordTypes
<1>3. MemoryState
  BY DEF Init, MemoryState
<1>4. EpisodeState
  BY DEF Init, EpisodeState, Thread
<1>5. SleepersExact
  <2>1. Registered = {}
    BY DEF Init, Registered, Thread
  <2>2. QED
    BY <2>1, FS_EmptySet DEF Init, SleepersExact
<1>6. PassedEmpty
  BY DEF Init, PassedEmpty
<1>7. Tasks = {}
  <2>1. \A t \in Thread : 1 .. queue[t] = {}
    BY DEF Init
  <2>2. QED
    BY <2>1 DEF Tasks
<1>8. WorkHasSeeker
  <2>1. Waiting = {}
    BY DEF Init, Waiting, Thread
  <2>2. QED
    BY <2>1 DEF WorkHasSeeker
<1>9. QED
  BY <1>1, <1>2, <1>3, <1>4, <1>5, <1>6, <1>7, <1>8, FS_EmptySet DEF ParkIInv, Sound

(* Every step keeps the invariant.                                         *)
LEMMA NextIInv == ParkIInv /\ [Next]_vars => ParkIInv'
<1> SUFFICES ASSUME ParkIInv, [Next]_vars PROVE ParkIInv'
  OBVIOUS
<1>1. CASE UNCHANGED vars
  BY <1>1, StutterKeeps
<1>2. ASSUME NEW w \in Worker, SearchStep(w) PROVE ParkIInv'
  BY <1>2, StartRoundKeeps, LookKeeps, TakeKeeps, EndRoundKeeps DEF SearchStep
<1>3. ASSUME NEW w \in Worker, SleepStep(w) PROVE ParkIInv'
  BY <1>3, SpinKeeps, RegisterKeeps, RegisterFenceKeeps, SnapshotKeeps,
     ParkKeeps, CheckWaitKeeps, KernelWaitKeeps, LeaveKeeps, WorkFoundKeeps
  DEF SleepStep
<1>4. ASSUME NEW w \in Worker, WaitEnds(w) \/ TaskEnds(w) PROVE ParkIInv'
  BY <1>4, WaitEndsKeeps, TaskEndsKeeps
<1>5. ASSUME NEW t \in Thread, Push(t) \/ AnnounceStep(t) PROVE ParkIInv'
  BY <1>5, PushKeeps, PushFenceKeeps, ReadSleepersKeeps, BumpKeeps, WakeOneKeeps
  DEF AnnounceStep
<1>6. CASE SetFinished \/ ShutdownStep \/ Commit
  BY <1>6, SetFinishedKeeps, ShutdownBumpKeeps, WakeAllKeeps, CommitPushKeeps,
     CommitRegisterKeeps
  DEF ShutdownStep, Commit
<1>7. QED
  BY <1>1, <1>2, <1>3, <1>4, <1>5, <1>6 DEF Next

(* The invariant is inductive.                                             *)
LEMMA IInvHolds == Spec => []ParkIInv
<1>1. Init => ParkIInv
  BY InitIInv
<1>2. ParkIInv /\ [Next]_vars => ParkIInv'
  BY NextIInv
<1>3. QED
  BY <1>1, <1>2, PTL DEF Spec

(* The counter of sleepers is exact: sleepers is the number of workers     *)
(* whose registration (no_work_found's fetch_add) is committed and not     *)
(* taken back, in every interleaving of the registrations, the searches    *)
(* and the memory's commits; and every word keeps its type.                *)
THEOREM SleepersCounted == Spec => []ParkInv
<1>1. ParkIInv => ParkInv
  <2>1. ParkIInv => TypeOK
    BY DEF ParkIInv, Sound, WordTypes, MemoryState, TypeOK
  <2>2. QED
    BY <2>1 DEF ParkIInv, Sound, ParkInv
<1>2. QED
  BY <1>1, IInvHolds, PTL

(* No worker sleeps on work: while a worker is blocked in ParkWait::wait   *)
(* and the pool runs, every queued task has a seeker or an announcing push *)
(* of its own.  This is what the fences of new_work and no_work_found, the *)
(* re-search after the ticket and the kernel's comparison are for.         *)
THEOREM NoLostWakeup == Spec => []WorkHasSeeker
<1>1. ParkIInv => WorkHasSeeker
  BY DEF ParkIInv
<1>2. QED
  BY <1>1, IInvHolds, PTL

-----------------------------------------------------------------------------
(* Searching.                                                              *)

Trying == {w \in Worker : pc[w] \in {"tried", "over"}}
Counted == searchers \cup Trying

PolicyTypes ==
  /\ pc \in [Thread -> SearchControl]
  /\ searching \in Nat /\ before \in [Worker -> Nat]
  /\ searchers \subseteq Worker /\ parking \subseteq Worker
  /\ searchers \cap parking = {}

(* Who searches has no ticket, and who has one is about to park; who tries *)
(* to search does neither.                                                 *)
SearchState ==
  \A w \in Worker :
    /\ pc[w] \in {"try", "tried", "over"} => w \notin searchers \cup parking /\ left[w] = {}
    /\ pc[w] \in {"fence", "snapshot", "check", "syscall", "waiting", "leave"} => w \in parking
    /\ ticket[w] # None => w \in parking
    /\ pc[w] = "exited" => finished

(* Of the workers that are counted, the one that was counted last found    *)
(* the others counted; and who was accepted found less than the cap.       *)
Ranked ==
  /\ \A S \in SUBSET Counted : S # {} => \E w \in S : Cardinality(S) <= before[w] + 1
  /\ \A w \in searchers : before[w] < Cap(0, 0)

(* A worker that is awake and will look at v's queue before it blocks.     *)
Covers(u, v) == pc[u] # "waiting" /\ ~ Passed(u, v)

(* v has a task, and is not about to tell anybody.                         *)
Left(v) == queue[v] > 0 /\ pc[v] \notin {"pushed", "fenced", "quiet", "bump"}

(* Somebody will look at what is left, or is going to be woken.            *)
LeftCovered ==
  ~ finished =>
    \A v \in Thread :
      Left(v) => \/ \E u \in Worker : Covers(u, v)
                 \/ Waiting = Worker /\ \E t \in Thread : pc[t] = "wake"

SearchIInv == Sound /\ PolicyTypes /\ SearchState /\ SearchingExact /\ Ranked /\ LeftCovered

(* No cap is larger than that of an idle pool.                             *)
LEMMA CapLargest ==
  ASSUME NEW parked \in Nat, NEW n \in Nat
  PROVE  Cap(parked, n) <= Cap(0, 0) /\ Cap(0, 0) \in Nat /\ Cap(parked, n) \in Nat /\ 1 <= Cap(0, 0)
<1>1. Cardinality(Worker) \in Nat
  BY IdleAssumption, FS_CardinalityType
<1>2. \A a \in Nat : a \div 2 \in Nat
  OBVIOUS
<1>3. \A a, b \in Nat : a <= b => a \div 2 <= b \div 2
  OBVIOUS
<1>4. QED
  BY <1>1, <1>2, <1>3, PolicyAssumption DEF Cap

(* The counted workers are as many as searching says.                      *)
LEMMA CountedFinite ==
  ASSUME SearchIInv
  PROVE  /\ IsFiniteSet(searchers) /\ IsFiniteSet(Trying) /\ IsFiniteSet(Counted)
         /\ Cardinality(searchers) \in Nat /\ Cardinality(Trying) \in Nat
         /\ Cardinality(Counted) = searching
<1>1. IsFiniteSet(searchers) /\ IsFiniteSet(Trying)
  BY IdleAssumption, FS_Subset DEF SearchIInv, PolicyTypes, Trying
<1>2. Cardinality(searchers) \in Nat /\ Cardinality(Trying) \in Nat
  BY <1>1, FS_CardinalityType
<1>3. searchers \cap Trying = {}
  BY DEF SearchIInv, SearchState, Trying
<1>4. IsFiniteSet(Counted) /\ Cardinality(Counted) = Cardinality(searchers) + Cardinality(Trying)
  <2>1. Cardinality(searchers \cap Trying) = 0
    BY <1>3, FS_EmptySet
  <2>2. IsFiniteSet(Counted) /\ Cardinality(Counted)
          = Cardinality(searchers) + Cardinality(Trying) - Cardinality(searchers \cap Trying)
    BY <1>1, FS_Union DEF Counted
  <2>3. QED
    BY <1>2, <2>1, <2>2
<1>5. QED
  BY <1>1, <1>2, <1>4 DEF SearchIInv, SearchingExact, Trying

(* While somebody is counted, searching can be decremented.                *)
LEMMA SomeoneCounted ==
  ASSUME SearchIInv, NEW w \in Counted
  PROVE  searching - 1 \in Nat
<1>1. Cardinality(Counted) # 0
  BY CountedFinite, FS_EmptySet
<1>2. QED
  BY <1>1, CountedFinite DEF SearchIInv, PolicyTypes

(* While searching is not 0, somebody searches or tries to.                *)
LEMMA NobodyCounted ==
  ASSUME SearchIInv, searching # 0
  PROVE  \E u \in Worker : u \in Counted
<1>1. Counted # {}
  BY CountedFinite, FS_EmptySet
<1>2. Counted \subseteq Worker
  BY DEF SearchIInv, PolicyTypes, Counted, Trying
<1>3. QED
  BY <1>1, <1>2

(* An empty round ends: only the control moves.                            *)
LEMMA RoundEndsSound ==
  ASSUME SearchIInv, NEW w \in Worker, RoundEnds(w)
  PROVE  Sound' /\ Passing
<1>1. WordTypes'
  BY IdleAssumption
  DEF SearchIInv, PolicyTypes, Sound, WordTypes, RoundEnds, Go, mem, wait,
      search, episode, policy
<1>2. MemoryState'
  BY DEF SearchIInv, PolicyTypes, Sound, WordTypes, MemoryState, Thread,
      RoundEnds, Go, mem, wait, search, episode, policy
<1>3. EpisodeState'
  BY IdleAssumption
  DEF SearchIInv, PolicyTypes, Sound, WordTypes, EpisodeState, SearchState,
      Thread, RoundEnds, Go, mem, wait, search, episode, policy
<1>4. SleepersExact'
  <2>1. Registered' = Registered /\ sleepers' = sleepers
    BY IdleAssumption
    DEF SearchIInv, PolicyTypes, Sound, WordTypes, EpisodeState, Registered,
        Thread, RoundEnds, Go, mem, wait, search, episode, policy
  <2>2. QED
    BY <2>1 DEF SearchIInv, Sound, SleepersExact
<1>5. Passing
  BY IdleAssumption
  DEF SearchIInv, PolicyTypes, Sound, WordTypes, EpisodeState, MemoryState,
      SearchState, Passing, Passed, Thread, RoundEnds, Go, mem, wait, search,
      episode, policy
<1>6. QED
  BY <1>1, <1>2, <1>3, <1>4, <1>5 DEF Sound

(* try_search counts the worker: none of ParkIdle's words moves.           *)
LEMMA TrySearchSound ==
  ASSUME SearchIInv, NEW w \in Worker, TrySearch(w)
  PROVE  Sound' /\ Passing
<1>1. WordTypes'
  BY IdleAssumption
  DEF SearchIInv, PolicyTypes, Sound, WordTypes, TrySearch, Go, mem, wait,
      search, episode, policy
<1>2. MemoryState'
  BY DEF SearchIInv, PolicyTypes, Sound, WordTypes, MemoryState, Thread,
      TrySearch, Go, mem, wait, search, episode, policy
<1>3. EpisodeState'
  BY IdleAssumption
  DEF SearchIInv, PolicyTypes, Sound, WordTypes, EpisodeState, SearchState,
      Thread, TrySearch, Go, mem, wait, search, episode, policy
<1>4. SleepersExact'
  <2>1. Registered' = Registered /\ sleepers' = sleepers
    BY IdleAssumption
    DEF SearchIInv, PolicyTypes, Sound, WordTypes, EpisodeState, Registered,
        Thread, TrySearch, Go, mem, wait, search, episode, policy
  <2>2. QED
    BY <2>1 DEF SearchIInv, Sound, SleepersExact
<1>5. Passing
  BY IdleAssumption
  DEF SearchIInv, PolicyTypes, Sound, WordTypes, EpisodeState, MemoryState,
      SearchState, Passing, Passed, Thread, TrySearch, Go, mem, wait, search,
      episode, policy
<1>6. QED
  BY <1>1, <1>2, <1>3, <1>4, <1>5 DEF Sound

(* try_search accepts: only the count of rounds moves.                     *)
LEMMA AcceptSound ==
  ASSUME SearchIInv, NEW w \in Worker, Accept(w)
  PROVE  Sound' /\ Passing
<1>1. WordTypes'
  BY IdleAssumption
  DEF SearchIInv, PolicyTypes, Sound, WordTypes, Accept, Go, mem, wait, search,
      episode, policy
<1>2. MemoryState'
  BY DEF SearchIInv, PolicyTypes, Sound, WordTypes, MemoryState, Thread, Accept,
      Go, mem, wait, search, episode, policy
<1>3. EpisodeState'
  BY IdleAssumption
  DEF SearchIInv, PolicyTypes, Sound, WordTypes, EpisodeState, SearchState,
      Thread, Accept, Go, mem, wait, search, episode, policy
<1>4. SleepersExact'
  <2>1. Registered' = Registered /\ sleepers' = sleepers
    BY IdleAssumption
    DEF SearchIInv, PolicyTypes, Sound, WordTypes, EpisodeState, Registered,
        Thread, Accept, Go, mem, wait, search, episode, policy
  <2>2. QED
    BY <2>1 DEF SearchIInv, Sound, SleepersExact
<1>5. Passing
  BY IdleAssumption
  DEF SearchIInv, PolicyTypes, Sound, WordTypes, EpisodeState, MemoryState,
      SearchState, Passing, Passed, Thread, Accept, Go, mem, wait, search,
      episode, policy
<1>6. QED
  BY <1>1, <1>2, <1>3, <1>4, <1>5 DEF Sound

(* try_search refuses: only the control moves.                             *)
LEMMA RefuseSound ==
  ASSUME SearchIInv, NEW w \in Worker, Refuse(w)
  PROVE  Sound' /\ Passing
<1>1. WordTypes'
  BY IdleAssumption
  DEF SearchIInv, PolicyTypes, Sound, WordTypes, Refuse, Go, mem, wait, search,
      episode, policy
<1>2. MemoryState'
  BY DEF SearchIInv, PolicyTypes, Sound, WordTypes, MemoryState, Thread, Refuse,
      Go, mem, wait, search, episode, policy
<1>3. EpisodeState'
  BY IdleAssumption
  DEF SearchIInv, PolicyTypes, Sound, WordTypes, EpisodeState, SearchState,
      Thread, Refuse, Go, mem, wait, search, episode, policy
<1>4. SleepersExact'
  <2>1. Registered' = Registered /\ sleepers' = sleepers
    BY IdleAssumption
    DEF SearchIInv, PolicyTypes, Sound, WordTypes, EpisodeState, Registered,
        Thread, Refuse, Go, mem, wait, search, episode, policy
  <2>2. QED
    BY <2>1 DEF SearchIInv, Sound, SleepersExact
<1>5. Passing
  BY IdleAssumption
  DEF SearchIInv, PolicyTypes, Sound, WordTypes, EpisodeState, MemoryState,
      SearchState, Passing, Passed, Thread, Refuse, Go, mem, wait, search,
      episode, policy
<1>6. QED
  BY <1>1, <1>2, <1>3, <1>4, <1>5 DEF Sound

(* The uncounted worker goes to park: only its count of rounds moves.      *)
LEMMA OverCapSound ==
  ASSUME SearchIInv, NEW w \in Worker, OverCap(w)
  PROVE  Sound' /\ Passing
<1>1. WordTypes'
  BY IdleAssumption
  DEF SearchIInv, PolicyTypes, Sound, WordTypes, OverCap, Go, StartParking, mem,
      wait, search, episode, policy
<1>2. MemoryState'
  BY DEF SearchIInv, PolicyTypes, Sound, WordTypes, MemoryState, Thread,
      OverCap, Go, StartParking, mem, wait, search, episode, policy
<1>3. EpisodeState'
  BY IdleAssumption
  DEF SearchIInv, PolicyTypes, Sound, WordTypes, EpisodeState, SearchState,
      Thread, OverCap, Go, StartParking, mem, wait, search, episode, policy
<1>4. SleepersExact'
  <2>1. Registered' = Registered /\ sleepers' = sleepers
    BY IdleAssumption
    DEF SearchIInv, PolicyTypes, Sound, WordTypes, EpisodeState, Registered,
        Thread, OverCap, Go, StartParking, mem, wait, search, episode, policy
  <2>2. QED
    BY <2>1 DEF SearchIInv, Sound, SleepersExact
<1>5. Passing
  BY IdleAssumption
  DEF SearchIInv, PolicyTypes, Sound, WordTypes, EpisodeState, MemoryState,
      SearchState, Passing, Passed, Thread, OverCap, Go, StartParking, mem,
      wait, search, episode, policy
<1>6. QED
  BY <1>1, <1>2, <1>3, <1>4, <1>5 DEF Sound

(* A searcher spins: only the control moves.                               *)
LEMMA KeepSearchingSound ==
  ASSUME SearchIInv, NEW w \in Worker, KeepSearching(w)
  PROVE  Sound' /\ Passing
<1>1. WordTypes'
  BY IdleAssumption
  DEF SearchIInv, PolicyTypes, Sound, WordTypes, KeepSearching, Go, mem, wait,
      search, episode, policy
<1>2. MemoryState'
  BY DEF SearchIInv, PolicyTypes, Sound, WordTypes, MemoryState, Thread,
      KeepSearching, Go, mem, wait, search, episode, policy
<1>3. EpisodeState'
  BY IdleAssumption
  DEF SearchIInv, PolicyTypes, Sound, WordTypes, EpisodeState, SearchState,
      Thread, KeepSearching, Go, mem, wait, search, episode, policy
<1>4. SleepersExact'
  <2>1. Registered' = Registered /\ sleepers' = sleepers
    BY IdleAssumption
    DEF SearchIInv, PolicyTypes, Sound, WordTypes, EpisodeState, Registered,
        Thread, KeepSearching, Go, mem, wait, search, episode, policy
  <2>2. QED
    BY <2>1 DEF SearchIInv, Sound, SleepersExact
<1>5. Passing
  BY IdleAssumption
  DEF SearchIInv, PolicyTypes, Sound, WordTypes, EpisodeState, MemoryState,
      SearchState, Passing, Passed, Thread, KeepSearching, Go, mem, wait,
      search, episode, policy
<1>6. QED
  BY <1>1, <1>2, <1>3, <1>4, <1>5 DEF Sound

(* A searcher gives up: only its count of rounds moves.                    *)
LEMMA StopSearchingSound ==
  ASSUME SearchIInv, NEW w \in Worker, StopSearching(w)
  PROVE  Sound' /\ Passing
<1>1. WordTypes'
  BY IdleAssumption
  DEF SearchIInv, PolicyTypes, Sound, WordTypes, StopSearching, StartParking,
      mem, wait, search, episode, policy
<1>2. MemoryState'
  BY DEF SearchIInv, PolicyTypes, Sound, WordTypes, MemoryState, Thread,
      StopSearching, StartParking, mem, wait, search, episode, policy
<1>3. EpisodeState'
  BY IdleAssumption
  DEF SearchIInv, PolicyTypes, Sound, WordTypes, EpisodeState, SearchState,
      Thread, StopSearching, StartParking, mem, wait, search, episode, policy
<1>4. SleepersExact'
  <2>1. Registered' = Registered /\ sleepers' = sleepers
    BY IdleAssumption
    DEF SearchIInv, PolicyTypes, Sound, WordTypes, EpisodeState, Registered,
        Thread, StopSearching, StartParking, mem, wait, search, episode, policy
  <2>2. QED
    BY <2>1 DEF SearchIInv, Sound, SleepersExact
<1>5. Passing
  BY IdleAssumption
  DEF SearchIInv, PolicyTypes, Sound, WordTypes, EpisodeState, MemoryState,
      SearchState, Passing, Passed, Thread, StopSearching, StartParking, mem,
      wait, search, episode, policy
<1>6. QED
  BY <1>1, <1>2, <1>3, <1>4, <1>5 DEF Sound

(* work_found unregisters: counter and set go down together.               *)
LEMMA FoundSound ==
  ASSUME SearchIInv, NEW w \in Worker, Found(w)
  PROVE  Sound' /\ Passing
<1>1. WordTypes'
  <2>1. sleepers' \in Nat
    <3>1. pc'[w] \in {"last", "running"} /\ pc[w] = "found" /\ unseen' = unseen
          /\ \A x \in Worker \ {w} : pc'[x] = pc[x]
      BY DEF SearchIInv, PolicyTypes, Thread, Found, Go, mem
    <3>2. QED
      BY <3>1, UnregisterCounts DEF SearchIInv, Found
  <2>2. QED
    BY <2>1 DEF SearchIInv, Sound, WordTypes, Found, Unregister, mem, search
<1>2. MemoryState'
  BY DEF SearchIInv, PolicyTypes, Sound, WordTypes, MemoryState, Thread, Found,
      Go, Unregister, mem, wait, search, episode, policy
<1>3. EpisodeState'
  BY IdleAssumption
  DEF SearchIInv, PolicyTypes, Sound, WordTypes, EpisodeState, SearchState,
      Thread, Found, Go, Unregister, mem, wait, search, episode, policy
<1>4. SleepersExact'
  <2>1. pc'[w] \in {"last", "running"} /\ pc[w] = "found" /\ unseen' = unseen
        /\ \A x \in Worker \ {w} : pc'[x] = pc[x]
    BY DEF SearchIInv, PolicyTypes, Thread, Found, Go, mem
  <2>2. QED
    BY <2>1, UnregisterCounts DEF SearchIInv, Found
<1>5. Passing
  BY IdleAssumption
  DEF SearchIInv, PolicyTypes, Sound, WordTypes, EpisodeState, MemoryState,
      SearchState, Passing, Passed, Thread, Found, Go, Unregister, mem, wait,
      search, episode, policy
<1>6. QED
  BY <1>1, <1>2, <1>3, <1>4, <1>5 DEF Sound

(* The last searcher's fence commits its pushes.                           *)
LEMMA LastFenceSound ==
  ASSUME SearchIInv, NEW w \in Worker, LastFence(w)
  PROVE  Sound' /\ Passing
<1>1. WordTypes'
  <2>1. hidden' = [hidden EXCEPT ![w] = 0] /\ unseen' = unseen \ {w} /\ w \notin unseen
    BY DEF SearchIInv, Sound, EpisodeState, LastFence, Fence, Go
  <2>2. hidden' \in [Thread -> Nat] /\ unseen' \subseteq Worker
    BY <2>1 DEF SearchIInv, Sound, WordTypes
  <2>3. sleepers' \in Nat
    <3>1. sleepers' = sleepers + (IF w \in unseen THEN 1 ELSE 0) /\ sleepers \in Nat
      BY DEF SearchIInv, Sound, WordTypes, LastFence, Fence
    <3>2. QED
      BY <3>1
  <2>4. QED
    BY <2>2, <2>3 DEF SearchIInv, Sound, WordTypes, LastFence, search, episode
<1>2. MemoryState'
  BY DEF SearchIInv, PolicyTypes, Sound, WordTypes, MemoryState, Thread,
      LastFence, Go, Fence, mem, wait, search, episode, policy
<1>3. EpisodeState'
  BY IdleAssumption
  DEF SearchIInv, PolicyTypes, Sound, WordTypes, EpisodeState, SearchState,
      Thread, LastFence, Go, Fence, mem, wait, search, episode, policy
<1>4. SleepersExact'
  <2>1. Registered' = Registered /\ sleepers' = sleepers
    BY IdleAssumption
    DEF SearchIInv, PolicyTypes, Sound, WordTypes, EpisodeState, Registered,
        Thread, LastFence, Go, Fence, mem, wait, search, episode, policy
  <2>2. QED
    BY <2>1 DEF SearchIInv, Sound, SleepersExact
<1>5. Passing
  BY IdleAssumption
  DEF SearchIInv, PolicyTypes, Sound, WordTypes, EpisodeState, MemoryState,
      SearchState, Passing, Passed, Thread, LastFence, Go, Fence, mem, wait,
      search, episode, policy
<1>6. QED
  BY <1>1, <1>2, <1>3, <1>4, <1>5 DEF Sound

(* The last searcher reads sleepers: only the control moves.               *)
LEMMA LastReadSound ==
  ASSUME SearchIInv, NEW w \in Worker, LastRead(w)
  PROVE  Sound' /\ Passing
<1>1. WordTypes'
  BY IdleAssumption
  DEF SearchIInv, PolicyTypes, Sound, WordTypes, LastRead, Go, mem, wait,
      search, episode, policy
<1>2. MemoryState'
  BY DEF SearchIInv, PolicyTypes, Sound, WordTypes, MemoryState, Thread,
      LastRead, Go, mem, wait, search, episode, policy
<1>3. EpisodeState'
  BY IdleAssumption
  DEF SearchIInv, PolicyTypes, Sound, WordTypes, EpisodeState, SearchState,
      Thread, LastRead, Go, mem, wait, search, episode, policy
<1>4. SleepersExact'
  <2>1. Registered' = Registered /\ sleepers' = sleepers
    BY IdleAssumption
    DEF SearchIInv, PolicyTypes, Sound, WordTypes, EpisodeState, Registered,
        Thread, LastRead, Go, mem, wait, search, episode, policy
  <2>2. QED
    BY <2>1 DEF SearchIInv, Sound, SleepersExact
<1>5. Passing
  BY IdleAssumption
  DEF SearchIInv, PolicyTypes, Sound, WordTypes, EpisodeState, MemoryState,
      SearchState, Passing, Passed, Thread, LastRead, Go, mem, wait, search,
      episode, policy
<1>6. QED
  BY <1>1, <1>2, <1>3, <1>4, <1>5 DEF Sound

(* new_work reads searching: only the control moves.                       *)
LEMMA ReadSearchingSound ==
  ASSUME SearchIInv, NEW t \in Thread, ReadSearching(t)
  PROVE  Sound' /\ Passing
<1>1. WordTypes'
  BY IdleAssumption
  DEF SearchIInv, PolicyTypes, Sound, WordTypes, ReadSearching, Go, mem, wait,
      search, episode, policy
<1>2. MemoryState'
  BY DEF SearchIInv, PolicyTypes, Sound, WordTypes, MemoryState, Thread,
      ReadSearching, Go, mem, wait, search, episode, policy
<1>3. EpisodeState'
  BY IdleAssumption
  DEF SearchIInv, PolicyTypes, Sound, WordTypes, EpisodeState, SearchState,
      Thread, ReadSearching, Go, mem, wait, search, episode, policy
<1>4. SleepersExact'
  <2>1. Registered' = Registered /\ sleepers' = sleepers
    BY IdleAssumption
    DEF SearchIInv, PolicyTypes, Sound, WordTypes, EpisodeState, Registered,
        Thread, ReadSearching, Go, mem, wait, search, episode, policy
  <2>2. QED
    BY <2>1 DEF SearchIInv, Sound, SleepersExact
<1>5. Passing
  BY IdleAssumption
  DEF SearchIInv, PolicyTypes, Sound, WordTypes, EpisodeState, MemoryState,
      SearchState, Passing, Passed, Thread, ReadSearching, Go, mem, wait,
      search, episode, policy
<1>6. QED
  BY <1>1, <1>2, <1>3, <1>4, <1>5 DEF Sound

(* new_work reads sleepers: only the control moves.                        *)
LEMMA ReadParkedSound ==
  ASSUME SearchIInv, NEW t \in Thread, ReadParked(t)
  PROVE  Sound' /\ Passing
<1>1. WordTypes'
  BY IdleAssumption
  DEF SearchIInv, PolicyTypes, Sound, WordTypes, ReadParked, Go, mem, wait,
      search, episode, policy
<1>2. MemoryState'
  BY DEF SearchIInv, PolicyTypes, Sound, WordTypes, MemoryState, Thread,
      ReadParked, Go, mem, wait, search, episode, policy
<1>3. EpisodeState'
  BY IdleAssumption
  DEF SearchIInv, PolicyTypes, Sound, WordTypes, EpisodeState, SearchState,
      Thread, ReadParked, Go, mem, wait, search, episode, policy
<1>4. SleepersExact'
  <2>1. Registered' = Registered /\ sleepers' = sleepers
    BY IdleAssumption
    DEF SearchIInv, PolicyTypes, Sound, WordTypes, EpisodeState, Registered,
        Thread, ReadParked, Go, mem, wait, search, episode, policy
  <2>2. QED
    BY <2>1 DEF SearchIInv, Sound, SleepersExact
<1>5. Passing
  BY IdleAssumption
  DEF SearchIInv, PolicyTypes, Sound, WordTypes, EpisodeState, MemoryState,
      SearchState, Passing, Passed, Thread, ReadParked, Go, mem, wait, search,
      episode, policy
<1>6. QED
  BY <1>1, <1>2, <1>3, <1>4, <1>5 DEF Sound

(* Who will look at what is left does so after a step that does not block  *)
(* it.                                                                     *)
LEMMA CoversKeeps ==
  ASSUME Sound', Passing, NEW u \in Worker, NEW v \in Thread,
         Covers(u, v), pc'[u] # "waiting", Left(v)'
  PROVE  Covers(u, v)'
<1>1. queue'[v] # hidden'[v]
  BY DEF Sound, MemoryState, Left
<1>2. QED
  BY <1>1 DEF Passing, Covers

(* A step that leaves no new queue behind, and lets nobody block or wake,  *)
(* keeps every queue covered.                                              *)
LEMMA CoveredStays ==
  ASSUME SearchIInv, Sound', Passing, finished => finished',
         \A v \in Thread : Left(v)' => Left(v),
         \A u \in Worker : pc'[u] = "waiting" <=> pc[u] = "waiting",
         \A u \in Thread : pc[u] = "wake" => pc'[u] = "wake"
  PROVE  LeftCovered'
<1> SUFFICES ASSUME ~ finished', NEW v \in Thread, Left(v)'
             PROVE  \/ \E u \in Worker : Covers(u, v)'
                    \/ Waiting' = Worker /\ \E t \in Thread : pc'[t] = "wake"
  BY DEF LeftCovered
<1>1. \/ \E u \in Worker : Covers(u, v)
      \/ Waiting = Worker /\ \E t \in Thread : pc[t] = "wake"
  BY DEF SearchIInv, LeftCovered
<1>2. CASE \E u \in Worker : Covers(u, v)
  <2>1. PICK u \in Worker : Covers(u, v)
    BY <1>2
  <2>2. pc'[u] # "waiting"
    BY <2>1 DEF Covers
  <2>3. QED
    BY <2>1, <2>2, CoversKeeps
<1>3. CASE Waiting = Worker /\ \E t \in Thread : pc[t] = "wake"
  <2>1. Waiting' = Waiting
    BY DEF Waiting
  <2>2. QED
    BY <1>3, <2>1
<1>4. QED
  BY <1>1, <1>2, <1>3

(* Of fewer counted workers one still found the others.                    *)
LEMMA FewerCounted ==
  ASSUME SearchIInv, Counted' \subseteq Counted, searchers' \subseteq searchers, before' = before
  PROVE  Ranked'
<1>1. \A S \in SUBSET Counted' : S \in SUBSET Counted
  OBVIOUS
<1>2. QED
  BY <1>1 DEF SearchIInv, Ranked

(* RoundEnds decides between try_search, another round and the wait.       *)
LEMMA RoundEndsSafe ==
  ASSUME SearchIInv, NEW w \in Worker, RoundEnds(w)
  PROVE  SearchIInv'
<1>1. Sound' /\ Passing
  BY RoundEndsSound
<1>2. PolicyTypes'
  BY DEF SearchIInv, PolicyTypes, SearchControl, Control, Thread, RoundEnds, Go,
      mem, wait, search, episode, policy
<1>3. SearchState'
  BY IdleAssumption
  DEF SearchIInv, PolicyTypes, SearchState, Sound, WordTypes, EpisodeState,
      Thread, RoundEnds, Go, mem, wait, search, episode, policy
<1>4. SearchingExact' /\ Ranked'
  <2>1. Trying' = Trying
    BY DEF SearchIInv, PolicyTypes, Trying, Thread, RoundEnds, Go
  <2>2. UNCHANGED <<searching, searchers, before>>
    BY DEF RoundEnds, Go, policy
  <2>3. QED
    BY <2>1, <2>2 DEF SearchIInv, SearchingExact, Ranked, Counted, Trying
<1>5. LeftCovered'
  <2>1. /\ finished => finished'
        /\ \A v \in Thread : Left(v)' => Left(v)
        /\ \A u \in Worker : pc'[u] = "waiting" <=> pc[u] = "waiting"
        /\ \A u \in Thread : pc[u] = "wake" => pc'[u] = "wake"
    BY IdleAssumption
    DEF SearchIInv, PolicyTypes, Sound, WordTypes, Left, Thread, RoundEnds, Go,
        mem, wait, search, episode, policy
  <2>2. QED
    BY <1>1, <2>1, CoveredStays
<1>6. QED
  BY <1>1, <1>2, <1>3, <1>4, <1>5 DEF SearchIInv

(* The worker is counted before it compares: of the workers counted it is  *)
(* the last, and found the others counted.                                 *)
LEMMA TrySearchSafe ==
  ASSUME SearchIInv, NEW w \in Worker, TrySearch(w)
  PROVE  SearchIInv'
<1>1. Sound' /\ Passing
  BY TrySearchSound
<1>2. PolicyTypes'
  BY DEF SearchIInv, PolicyTypes, SearchControl, Control, Thread, TrySearch, Go,
      mem, wait, search, episode, policy
<1>3. SearchState'
  BY IdleAssumption
  DEF SearchIInv, PolicyTypes, SearchState, Sound, WordTypes, EpisodeState,
      Thread, TrySearch, Go, mem, wait, search, episode, policy
<1>4. SearchingExact' /\ Ranked'
  <2>0. /\ pc[w] = "try" /\ pc' = [pc EXCEPT ![w] = "tried"] /\ w \in Thread
        /\ before' = [before EXCEPT ![w] = searching] /\ searching' = searching + 1
        /\ searchers' = searchers /\ w \notin searchers
    BY DEF SearchIInv, SearchState, Thread, TrySearch, Go
  <2>1. Trying' = Trying \cup {w} /\ w \notin Trying
    BY <2>0 DEF SearchIInv, PolicyTypes, Trying, Thread
  <2>2. SearchingExact'
    <3>1. Cardinality(Trying') = Cardinality(Trying) + 1
      BY <2>1, CountedFinite, FS_AddElement
    <3>2. searching = Cardinality(searchers) + Cardinality(Trying)
      BY DEF SearchIInv, SearchingExact, Trying
    <3>3. searching' = Cardinality(searchers') + Cardinality(Trying')
      BY <2>0, <3>1, <3>2, CountedFinite
    <3>4. QED
      BY <3>3 DEF SearchingExact, Trying
  <2>3. ASSUME NEW S \in SUBSET Counted', S # {}
        PROVE  \E x \in S : Cardinality(S) <= before'[x] + 1
    <3>1. Counted' = Counted \cup {w} /\ w \notin Counted
      BY <2>0, <2>1 DEF Counted
    <3>2. CASE w \in S
      <4>1. IsFiniteSet(S) /\ Cardinality(S) <= searching + 1
        <5>1. IsFiniteSet(Counted \cup {w}) /\ Cardinality(Counted \cup {w}) = searching + 1
          BY <3>1, CountedFinite, FS_AddElement
        <5>2. QED
          BY <2>3, <3>1, <5>1, FS_Subset
      <4>2. before'[w] = searching
        BY <2>0 DEF SearchIInv, PolicyTypes
      <4>3. QED
        BY <3>2, <4>1, <4>2
    <3>3. CASE w \notin S
      <4>1. S \in SUBSET Counted
        BY <2>3, <3>1, <3>3
      <4>2. PICK x \in S : Cardinality(S) <= before[x] + 1
        BY <2>3, <4>1 DEF SearchIInv, Ranked
      <4>3. before'[x] = before[x]
        BY <2>0, <3>3, <4>1, <4>2 DEF SearchIInv, PolicyTypes, Counted, Trying
      <4>4. QED
        BY <4>2, <4>3
    <3>4. QED
      BY <3>2, <3>3
  <2>4. \A x \in searchers' : before'[x] < Cap(0, 0)
    <3>1. \A x \in searchers : before'[x] = before[x]
      BY <2>0 DEF SearchIInv, PolicyTypes
    <3>2. QED
      BY <2>0, <3>1 DEF SearchIInv, Ranked
  <2>5. QED
    BY <2>2, <2>3, <2>4 DEF Ranked, Cap
<1>5. LeftCovered'
  <2>1. /\ finished => finished'
        /\ \A v \in Thread : Left(v)' => Left(v)
        /\ \A u \in Worker : pc'[u] = "waiting" <=> pc[u] = "waiting"
        /\ \A u \in Thread : pc[u] = "wake" => pc'[u] = "wake"
    BY IdleAssumption
    DEF SearchIInv, PolicyTypes, Sound, WordTypes, Left, Thread, TrySearch, Go,
        mem, wait, search, episode, policy
  <2>2. QED
    BY <1>1, <2>1, CoveredStays
<1>6. QED
  BY <1>1, <1>2, <1>3, <1>4, <1>5 DEF SearchIInv

(* A worker is accepted that found less than the cap: the set of those     *)
(* counted stays the same.                                                 *)
LEMMA AcceptSafe ==
  ASSUME SearchIInv, NEW w \in Worker, Accept(w)
  PROVE  SearchIInv'
<1>1. Sound' /\ Passing
  BY AcceptSound
<1>2. PolicyTypes'
  <2>1. w \notin parking
    BY DEF SearchIInv, SearchState, Accept, Go
  <2>2. QED
    BY <2>1 DEF SearchIInv, PolicyTypes, SearchControl, Control, Thread, Accept, Go
<1>3. SearchState'
  BY IdleAssumption
  DEF SearchIInv, PolicyTypes, SearchState, Sound, WordTypes, EpisodeState,
      Thread, Accept, Go, mem, wait, search, episode, policy
<1>4. SearchingExact' /\ Ranked'
  <2>0. /\ pc[w] = "tried" /\ pc' = [pc EXCEPT ![w] = "loop"] /\ w \in Thread
        /\ before' = before /\ searching' = searching /\ sleepers \in Nat /\ before[w] \in Nat
        /\ searchers' = searchers \cup {w} /\ w \notin searchers /\ before[w] < Cap(sleepers, before[w])
    BY DEF SearchIInv, PolicyTypes, Sound, WordTypes, SearchState, Thread, Accept, Go
  <2>1. Trying' = Trying \ {w} /\ w \in Trying
    BY <2>0 DEF SearchIInv, PolicyTypes, Trying, Thread
  <2>2. SearchingExact'
    <3>1. /\ Cardinality(Trying') = Cardinality(Trying) - 1
          /\ Cardinality(searchers') = Cardinality(searchers) + 1
      BY <2>0, <2>1, CountedFinite, FS_AddElement, FS_RemoveElement
    <3>2. searching = Cardinality(searchers) + Cardinality(Trying)
      BY DEF SearchIInv, SearchingExact, Trying
    <3>3. searching' = Cardinality(searchers') + Cardinality(Trying')
      BY <2>0, <3>1, <3>2, CountedFinite
    <3>4. QED
      BY <3>3 DEF SearchingExact, Trying
  <2>3. Counted' = Counted
    BY <2>0, <2>1 DEF Counted
  <2>4. \A x \in searchers' : before'[x] < Cap(0, 0)
    <3>1. /\ Cap(sleepers, before[w]) <= Cap(0, 0)
          /\ Cap(sleepers, before[w]) \in Nat /\ Cap(0, 0) \in Nat
      BY <2>0, CapLargest
    <3>2. \A a, b, c \in Nat : a < b /\ b <= c => a < c
      OBVIOUS
    <3>3. before[w] < Cap(0, 0)
      BY <2>0, <3>1, <3>2
    <3>4. QED
      BY <2>0, <3>3 DEF SearchIInv, Ranked
  <2>5. QED
    BY <2>0, <2>2, <2>3, <2>4 DEF SearchIInv, Ranked, Cap
<1>5. LeftCovered'
  <2>1. /\ finished => finished'
        /\ \A v \in Thread : Left(v)' => Left(v)
        /\ \A u \in Worker : pc'[u] = "waiting" <=> pc[u] = "waiting"
        /\ \A u \in Thread : pc[u] = "wake" => pc'[u] = "wake"
    BY IdleAssumption
    DEF SearchIInv, PolicyTypes, Sound, WordTypes, Left, Thread, Accept, Go,
        mem, wait, search, episode, policy
  <2>2. QED
    BY <1>1, <2>1, CoveredStays
<1>6. QED
  BY <1>1, <1>2, <1>3, <1>4, <1>5 DEF SearchIInv

(* A refused worker stays counted for one more step.                       *)
LEMMA RefuseSafe ==
  ASSUME SearchIInv, NEW w \in Worker, Refuse(w)
  PROVE  SearchIInv'
<1>1. Sound' /\ Passing
  BY RefuseSound
<1>2. PolicyTypes'
  BY DEF SearchIInv, PolicyTypes, SearchControl, Control, Thread, Refuse, Go,
      mem, wait, search, episode, policy
<1>3. SearchState'
  BY IdleAssumption
  DEF SearchIInv, PolicyTypes, SearchState, Sound, WordTypes, EpisodeState,
      Thread, Refuse, Go, mem, wait, search, episode, policy
<1>4. SearchingExact' /\ Ranked'
  <2>1. Trying' = Trying
    BY DEF SearchIInv, PolicyTypes, Trying, Thread, Refuse, Go
  <2>2. UNCHANGED <<searching, searchers, before>>
    BY DEF Refuse, Go, policy
  <2>3. QED
    BY <2>1, <2>2 DEF SearchIInv, SearchingExact, Ranked, Counted, Trying
<1>5. LeftCovered'
  <2>1. /\ finished => finished'
        /\ \A v \in Thread : Left(v)' => Left(v)
        /\ \A u \in Worker : pc'[u] = "waiting" <=> pc[u] = "waiting"
        /\ \A u \in Thread : pc[u] = "wake" => pc'[u] = "wake"
    BY IdleAssumption
    DEF SearchIInv, PolicyTypes, Sound, WordTypes, Left, Thread, Refuse, Go,
        mem, wait, search, episode, policy
  <2>2. QED
    BY <1>1, <2>1, CoveredStays
<1>6. QED
  BY <1>1, <1>2, <1>3, <1>4, <1>5 DEF SearchIInv

(* The refused worker uncounts itself: any smaller set of those counted is *)
(* ranked as before.                                                       *)
LEMMA OverCapSafe ==
  ASSUME SearchIInv, NEW w \in Worker, OverCap(w)
  PROVE  SearchIInv'
<1>1. Sound' /\ Passing
  BY OverCapSound
<1>2. PolicyTypes'
  <2>1. w \in Counted /\ w \notin searchers
    BY DEF SearchIInv, SearchState, Counted, Trying, OverCap, Go
  <2>2. searching - 1 \in Nat
    BY <2>1, SomeoneCounted
  <2>3. QED
    BY <2>1, <2>2
    DEF SearchIInv, PolicyTypes, SearchControl, Control, Thread, OverCap, Go,
        StartParking
<1>3. SearchState'
  BY IdleAssumption
  DEF SearchIInv, PolicyTypes, SearchState, Sound, WordTypes, EpisodeState,
      Thread, OverCap, Go, StartParking, mem, wait, search, episode, policy
<1>4. SearchingExact' /\ Ranked'
  <2>0. /\ pc[w] = "over" /\ w \in Thread /\ pc' \in {[pc EXCEPT ![w] = "loop"], [pc EXCEPT ![w] = "nowork"]}
        /\ before' = before /\ searching' = searching - 1 /\ searchers' = searchers
    BY DEF Thread, OverCap, Go
  <2>1. Trying' = Trying \ {w} /\ w \in Trying
    BY <2>0 DEF SearchIInv, PolicyTypes, Trying, Thread
  <2>2. SearchingExact'
    <3>1. Cardinality(Trying') = Cardinality(Trying) - 1
      BY <2>0, <2>1, CountedFinite, FS_RemoveElement
    <3>2. searching = Cardinality(searchers) + Cardinality(Trying)
      BY DEF SearchIInv, SearchingExact, Trying
    <3>3. searching' = Cardinality(searchers') + Cardinality(Trying')
      BY <2>0, <3>1, <3>2, CountedFinite
    <3>4. QED
      BY <3>3 DEF SearchingExact, Trying
  <2>3. QED
    BY <2>0, <2>1, <2>2, FewerCounted DEF Counted
<1>5. LeftCovered'
  <2>1. /\ finished => finished'
        /\ \A v \in Thread : Left(v)' => Left(v)
        /\ \A u \in Worker : pc'[u] = "waiting" <=> pc[u] = "waiting"
        /\ \A u \in Thread : pc[u] = "wake" => pc'[u] = "wake"
    BY IdleAssumption
    DEF SearchIInv, PolicyTypes, Sound, WordTypes, Left, Thread, OverCap, Go,
        StartParking, mem, wait, search, episode, policy
  <2>2. QED
    BY <1>1, <2>1, CoveredStays
<1>6. QED
  BY <1>1, <1>2, <1>3, <1>4, <1>5 DEF SearchIInv

(* A searcher goes on: nothing is counted.                                 *)
LEMMA KeepSearchingSafe ==
  ASSUME SearchIInv, NEW w \in Worker, KeepSearching(w)
  PROVE  SearchIInv'
<1>1. Sound' /\ Passing
  BY KeepSearchingSound
<1>2. PolicyTypes'
  BY DEF SearchIInv, PolicyTypes, SearchControl, Control, Thread, KeepSearching,
      Go, mem, wait, search, episode, policy
<1>3. SearchState'
  BY IdleAssumption
  DEF SearchIInv, PolicyTypes, SearchState, Sound, WordTypes, EpisodeState,
      Thread, KeepSearching, Go, mem, wait, search, episode, policy
<1>4. SearchingExact' /\ Ranked'
  <2>1. Trying' = Trying
    BY DEF SearchIInv, PolicyTypes, Trying, Thread, KeepSearching, Go
  <2>2. UNCHANGED <<searching, searchers, before>>
    BY DEF KeepSearching, Go, policy
  <2>3. QED
    BY <2>1, <2>2 DEF SearchIInv, SearchingExact, Ranked, Counted, Trying
<1>5. LeftCovered'
  <2>1. /\ finished => finished'
        /\ \A v \in Thread : Left(v)' => Left(v)
        /\ \A u \in Worker : pc'[u] = "waiting" <=> pc[u] = "waiting"
        /\ \A u \in Thread : pc[u] = "wake" => pc'[u] = "wake"
    BY IdleAssumption
    DEF SearchIInv, PolicyTypes, Sound, WordTypes, Left, Thread, KeepSearching,
        Go, mem, wait, search, episode, policy
  <2>2. QED
    BY <1>1, <2>1, CoveredStays
<1>6. QED
  BY <1>1, <1>2, <1>3, <1>4, <1>5 DEF SearchIInv

(* A searcher uncounts itself, and will look at every queue again before   *)
(* it parks.                                                               *)
LEMMA StopSearchingSafe ==
  ASSUME SearchIInv, NEW w \in Worker, StopSearching(w)
  PROVE  SearchIInv'
<1>1. Sound' /\ Passing
  BY StopSearchingSound
<1>2. PolicyTypes'
  <2>1. searching - 1 \in Nat
    BY SomeoneCounted DEF Counted, StopSearching
  <2>2. QED
    BY <2>1
    DEF SearchIInv, PolicyTypes, SearchControl, Control, Thread, StopSearching,
        StartParking
<1>3. SearchState'
  BY IdleAssumption
  DEF SearchIInv, PolicyTypes, SearchState, Sound, WordTypes, EpisodeState,
      Thread, StopSearching, StartParking, mem, wait, search, episode, policy
<1>4. SearchingExact' /\ Ranked'
  <2>0. /\ pc' = pc /\ before' = before /\ searching' = searching - 1
        /\ searchers' = searchers \ {w} /\ w \in searchers
    BY DEF StopSearching
  <2>1. Trying' = Trying
    BY <2>0 DEF Trying
  <2>2. SearchingExact'
    <3>1. Cardinality(searchers') = Cardinality(searchers) - 1
      BY <2>0, CountedFinite, FS_RemoveElement
    <3>2. searching = Cardinality(searchers) + Cardinality(Trying)
      BY DEF SearchIInv, SearchingExact, Trying
    <3>3. searching' = Cardinality(searchers') + Cardinality(Trying')
      BY <2>0, <2>1, <3>1, <3>2, CountedFinite
    <3>4. QED
      BY <3>3 DEF SearchingExact, Trying
  <2>3. QED
    BY <2>0, <2>1, <2>2, FewerCounted DEF Counted
<1>5. LeftCovered'
  <2>1. /\ finished => finished'
        /\ \A v \in Thread : Left(v)' => Left(v)
        /\ \A u \in Worker : pc'[u] = "waiting" <=> pc[u] = "waiting"
        /\ \A u \in Thread : pc[u] = "wake" => pc'[u] = "wake"
    BY IdleAssumption
    DEF SearchIInv, PolicyTypes, Sound, WordTypes, Left, Thread, StopSearching,
        StartParking, mem, wait, search, episode, policy
  <2>2. QED
    BY <1>1, <2>1, CoveredStays
<1>6. QED
  BY <1>1, <1>2, <1>3, <1>4, <1>5 DEF SearchIInv

(* A searcher that found work uncounts itself; the last one has still to   *)
(* tell.                                                                   *)
LEMMA FoundSafe ==
  ASSUME SearchIInv, NEW w \in Worker, Found(w)
  PROVE  SearchIInv'
<1>1. Sound' /\ Passing
  BY FoundSound
<1>2. PolicyTypes'
  <2>1. w \in searchers => searching - 1 \in Nat
    BY SomeoneCounted DEF Counted
  <2>2. searching' \in Nat
    BY <2>1 DEF SearchIInv, PolicyTypes, Found
  <2>3. QED
    BY <2>2 DEF SearchIInv, PolicyTypes, SearchControl, Control, Thread, Found, Go
<1>3. SearchState'
  BY IdleAssumption
  DEF SearchIInv, PolicyTypes, SearchState, Sound, WordTypes, EpisodeState,
      Thread, Found, Go, Unregister, mem, wait, search, episode, policy
<1>4. SearchingExact' /\ Ranked'
  <2>0. /\ pc[w] = "found" /\ w \in Thread /\ before' = before /\ searchers' = searchers \ {w}
        /\ pc' \in {[pc EXCEPT ![w] = "last"], [pc EXCEPT ![w] = "running"]}
        /\ searching' = IF w \in searchers THEN searching - 1 ELSE searching
    BY DEF Thread, Found, Go
  <2>1. Trying' = Trying
    BY <2>0 DEF SearchIInv, PolicyTypes, Trying, Thread
  <2>2. SearchingExact'
    <3>1. Cardinality(searchers') = IF w \in searchers THEN Cardinality(searchers) - 1 ELSE Cardinality(searchers)
      BY <2>0, CountedFinite, FS_RemoveElement
    <3>2. searching = Cardinality(searchers) + Cardinality(Trying)
      BY DEF SearchIInv, SearchingExact, Trying
    <3>3. searching' = Cardinality(searchers') + Cardinality(Trying')
      BY <2>0, <2>1, <3>1, <3>2, CountedFinite
    <3>4. QED
      BY <3>3 DEF SearchingExact, Trying
  <2>3. QED
    BY <2>0, <2>1, <2>2, FewerCounted DEF Counted
<1>5. LeftCovered'
  <2>1. /\ finished => finished'
        /\ \A v \in Thread : Left(v)' => Left(v)
        /\ \A u \in Worker : pc'[u] = "waiting" <=> pc[u] = "waiting"
        /\ \A u \in Thread : pc[u] = "wake" => pc'[u] = "wake"
    BY IdleAssumption
    DEF SearchIInv, PolicyTypes, Sound, WordTypes, Left, Thread, Found, Go,
        Unregister, mem, wait, search, episode, policy
  <2>2. QED
    BY <1>1, <2>1, CoveredStays
<1>6. QED
  BY <1>1, <1>2, <1>3, <1>4, <1>5 DEF SearchIInv

(* The last searcher's fence: nothing is counted.                          *)
LEMMA LastFenceSafe ==
  ASSUME SearchIInv, NEW w \in Worker, LastFence(w)
  PROVE  SearchIInv'
<1>1. Sound' /\ Passing
  BY LastFenceSound
<1>2. PolicyTypes'
  BY DEF SearchIInv, PolicyTypes, SearchControl, Control, Thread, LastFence, Go,
      Fence, mem, wait, search, episode, policy
<1>3. SearchState'
  BY IdleAssumption
  DEF SearchIInv, PolicyTypes, SearchState, Sound, WordTypes, EpisodeState,
      Thread, LastFence, Go, Fence, mem, wait, search, episode, policy
<1>4. SearchingExact' /\ Ranked'
  <2>1. Trying' = Trying
    BY DEF SearchIInv, PolicyTypes, Trying, Thread, LastFence, Go, Fence
  <2>2. UNCHANGED <<searching, searchers, before>>
    BY DEF LastFence, Go, Fence, policy
  <2>3. QED
    BY <2>1, <2>2 DEF SearchIInv, SearchingExact, Ranked, Counted, Trying
<1>5. LeftCovered'
  <2>1. /\ finished => finished'
        /\ \A v \in Thread : Left(v)' => Left(v)
        /\ \A u \in Worker : pc'[u] = "waiting" <=> pc[u] = "waiting"
        /\ \A u \in Thread : pc[u] = "wake" => pc'[u] = "wake"
    BY IdleAssumption
    DEF SearchIInv, PolicyTypes, Sound, WordTypes, Left, Thread, LastFence, Go,
        Fence, mem, wait, search, episode, policy
  <2>2. QED
    BY <1>1, <2>1, CoveredStays
<1>6. QED
  BY <1>1, <1>2, <1>3, <1>4, <1>5 DEF SearchIInv

(* The last searcher reads sleepers: if there are none, somebody is awake  *)
(* and will look.                                                          *)
LEMMA LastReadSafe ==
  ASSUME SearchIInv, NEW w \in Worker, LastRead(w)
  PROVE  SearchIInv'
<1>1. Sound' /\ Passing
  BY LastReadSound
<1>2. PolicyTypes'
  BY DEF SearchIInv, PolicyTypes, SearchControl, Control, Thread, LastRead, Go,
      mem, wait, search, episode, policy
<1>3. SearchState'
  BY IdleAssumption
  DEF SearchIInv, PolicyTypes, SearchState, Sound, WordTypes, EpisodeState,
      Thread, LastRead, Go, mem, wait, search, episode, policy
<1>4. SearchingExact' /\ Ranked'
  <2>1. Trying' = Trying
    BY DEF SearchIInv, PolicyTypes, Trying, Thread, LastRead, Go
  <2>2. UNCHANGED <<searching, searchers, before>>
    BY DEF LastRead, Go, policy
  <2>3. QED
    BY <2>1, <2>2 DEF SearchIInv, SearchingExact, Ranked, Counted, Trying
<1>5. LeftCovered'
  <2>1. /\ finished => finished'
        /\ \A v \in Thread : Left(v)' => Left(v)
        /\ \A u \in Worker : pc'[u] = "waiting" <=> pc[u] = "waiting"
        /\ \A u \in Thread : pc[u] = "wake" => pc'[u] = "wake"
    BY IdleAssumption
    DEF SearchIInv, PolicyTypes, Sound, WordTypes, Left, Thread, LastRead, Go,
        mem, wait, search, episode, policy
  <2>2. QED
    BY <1>1, <2>1, CoveredStays
<1>6. QED
  BY <1>1, <1>2, <1>3, <1>4, <1>5 DEF SearchIInv

(* A producer that sees a searcher leaves its task to it: who searches is  *)
(* awake and will look at every queue.                                     *)
LEMMA ReadSearchingSafe ==
  ASSUME SearchIInv, NEW t \in Thread, ReadSearching(t)
  PROVE  SearchIInv'
<1>1. Sound' /\ Passing
  BY ReadSearchingSound
<1>2. PolicyTypes'
  BY DEF SearchIInv, PolicyTypes, SearchControl, Control, Thread, ReadSearching,
      Go, mem, wait, search, episode, policy
<1>3. SearchState'
  BY IdleAssumption
  DEF SearchIInv, PolicyTypes, SearchState, Sound, WordTypes, EpisodeState,
      Thread, ReadSearching, Go, mem, wait, search, episode, policy
<1>4. SearchingExact' /\ Ranked'
  <2>1. Trying' = Trying
    BY DEF SearchIInv, PolicyTypes, Trying, Thread, ReadSearching, Go
  <2>2. UNCHANGED <<searching, searchers, before>>
    BY DEF ReadSearching, Go, policy
  <2>3. QED
    BY <2>1, <2>2 DEF SearchIInv, SearchingExact, Ranked, Counted, Trying
<1>5. LeftCovered'
  <2>1. CASE searching = 0
    <3>1. pc' = [pc EXCEPT ![t] = "quiet"] /\ pc[t] = "fenced" /\ queue' = queue /\ finished' = finished
      BY <2>1 DEF ReadSearching, Go, mem, wait
    <3>2. /\ \A v \in Thread : Left(v)' => Left(v)
          /\ \A u \in Worker : pc'[u] = "waiting" <=> pc[u] = "waiting"
          /\ \A u \in Thread : pc[u] = "wake" => pc'[u] = "wake"
      BY <3>1 DEF SearchIInv, PolicyTypes, Left, Thread
    <3>3. QED
      BY <1>1, <3>1, <3>2, CoveredStays
  <2>2. CASE searching # 0
    <3>1. PICK u \in Worker : u \in Counted
      BY <2>2, NobodyCounted
    <3>2. ticket[u] = None /\ pc[u] # "waiting"
      BY <3>1 DEF SearchIInv, PolicyTypes, SearchState, Counted, Trying
    <3>3. pc'[u] # "waiting" /\ ticket'[u] = None
      BY <3>2 DEF SearchIInv, PolicyTypes, Thread, ReadSearching, Go, episode
    <3>4. \A v \in Thread : Covers(u, v)'
      BY <1>1, <3>3, IdleAssumption DEF Sound, WordTypes, Covers, Passed
    <3>5. QED
      BY <3>4 DEF LeftCovered
  <2>3. QED
    BY <2>1, <2>2
<1>6. QED
  BY <1>1, <1>2, <1>3, <1>4, <1>5 DEF SearchIInv

(* A producer that sees no sleeper leaves its task to those awake: nobody  *)
(* waits without a registration.                                           *)
LEMMA ReadParkedSafe ==
  ASSUME SearchIInv, NEW t \in Thread, ReadParked(t)
  PROVE  SearchIInv'
<1>1. Sound' /\ Passing
  BY ReadParkedSound
<1>2. PolicyTypes'
  BY DEF SearchIInv, PolicyTypes, SearchControl, Control, Thread, ReadParked,
      Go, mem, wait, search, episode, policy
<1>3. SearchState'
  BY IdleAssumption
  DEF SearchIInv, PolicyTypes, SearchState, Sound, WordTypes, EpisodeState,
      Thread, ReadParked, Go, mem, wait, search, episode, policy
<1>4. SearchingExact' /\ Ranked'
  <2>1. Trying' = Trying
    BY DEF SearchIInv, PolicyTypes, Trying, Thread, ReadParked, Go
  <2>2. UNCHANGED <<searching, searchers, before>>
    BY DEF ReadParked, Go, policy
  <2>3. QED
    BY <2>1, <2>2 DEF SearchIInv, SearchingExact, Ranked, Counted, Trying
<1>5. LeftCovered'
  <2>1. CASE sleepers # 0
    <3>1. pc' = [pc EXCEPT ![t] = "bump"] /\ pc[t] = "quiet" /\ queue' = queue /\ finished' = finished
      BY <2>1 DEF ReadParked, Go, mem, wait
    <3>2. /\ \A v \in Thread : Left(v)' => Left(v)
          /\ \A u \in Worker : pc'[u] = "waiting" <=> pc[u] = "waiting"
          /\ \A u \in Thread : pc[u] = "wake" => pc'[u] = "wake"
      BY <3>1 DEF SearchIInv, PolicyTypes, Left, Thread
    <3>3. QED
      BY <1>1, <3>1, <3>2, CoveredStays
  <2>2. CASE sleepers = 0
    <3>1. \A u \in Worker : pc[u] # "waiting" /\ ticket[u] = None
      BY <2>2, NobodyRegistered DEF SearchIInv, Waiting
    <3>2. \A u \in Worker : pc'[u] # "waiting" /\ ticket'[u] = None
      BY <3>1 DEF SearchIInv, PolicyTypes, Thread, ReadParked, Go, episode
    <3>3. \A u \in Worker, v \in Thread : Covers(u, v)'
      BY <1>1, <3>2, IdleAssumption DEF Sound, WordTypes, Covers, Passed
    <3>4. QED
      BY <3>3, PolicyAssumption DEF LeftCovered
  <2>3. QED
    BY <2>1, <2>2
<1>6. QED
  BY <1>1, <1>2, <1>3, <1>4, <1>5 DEF SearchIInv

(* A push becomes visible: who will look at a queue still will.            *)
LEMMA CommitPushSafe ==
  ASSUME SearchIInv, NEW t \in Thread, CommitPush(t), UNCHANGED policy
  PROVE  SearchIInv'
<1>1. Sound' /\ Passing
  BY CommitPushSound DEF SearchIInv, PolicyTypes
<1>2. PolicyTypes'
  BY DEF SearchIInv, PolicyTypes, SearchControl, Control, Thread, CommitPush,
      mem, wait, search, episode, policy
<1>3. SearchState'
  BY IdleAssumption
  DEF SearchIInv, PolicyTypes, SearchState, Sound, WordTypes, EpisodeState,
      Thread, CommitPush, mem, wait, search, episode, policy
<1>4. SearchingExact' /\ Ranked'
  <2>1. Trying' = Trying
    BY DEF SearchIInv, PolicyTypes, Trying, Thread, CommitPush
  <2>2. UNCHANGED <<searching, searchers, before>>
    BY DEF CommitPush, policy
  <2>3. QED
    BY <2>1, <2>2 DEF SearchIInv, SearchingExact, Ranked, Counted, Trying
<1>5. LeftCovered'
  <2>1. /\ finished => finished'
        /\ \A v \in Thread : Left(v)' => Left(v)
        /\ \A u \in Worker : pc'[u] = "waiting" <=> pc[u] = "waiting"
        /\ \A u \in Thread : pc[u] = "wake" => pc'[u] = "wake"
    BY IdleAssumption
    DEF SearchIInv, PolicyTypes, Sound, WordTypes, Left, Thread, CommitPush,
        mem, wait, search, episode, policy
  <2>2. QED
    BY <1>1, <2>1, CoveredStays
<1>6. QED
  BY <1>1, <1>2, <1>3, <1>4, <1>5 DEF SearchIInv

(* A registration is committed: who will look at a queue still will.       *)
LEMMA CommitRegisterSafe ==
  ASSUME SearchIInv, NEW w \in Worker, CommitRegister(w), UNCHANGED policy
  PROVE  SearchIInv'
<1>1. Sound' /\ Passing
  BY CommitRegisterSound DEF SearchIInv, PolicyTypes
<1>2. PolicyTypes'
  BY DEF SearchIInv, PolicyTypes, SearchControl, Control, Thread,
      CommitRegister, mem, wait, search, episode, policy
<1>3. SearchState'
  BY IdleAssumption
  DEF SearchIInv, PolicyTypes, SearchState, Sound, WordTypes, EpisodeState,
      Thread, CommitRegister, mem, wait, search, episode, policy
<1>4. SearchingExact' /\ Ranked'
  <2>1. Trying' = Trying
    BY DEF SearchIInv, PolicyTypes, Trying, Thread, CommitRegister
  <2>2. UNCHANGED <<searching, searchers, before>>
    BY DEF CommitRegister, policy
  <2>3. QED
    BY <2>1, <2>2 DEF SearchIInv, SearchingExact, Ranked, Counted, Trying
<1>5. LeftCovered'
  <2>1. /\ finished => finished'
        /\ \A v \in Thread : Left(v)' => Left(v)
        /\ \A u \in Worker : pc'[u] = "waiting" <=> pc[u] = "waiting"
        /\ \A u \in Thread : pc[u] = "wake" => pc'[u] = "wake"
    BY IdleAssumption
    DEF SearchIInv, PolicyTypes, Sound, WordTypes, Left, Thread, CommitRegister,
        mem, wait, search, episode, policy
  <2>2. QED
    BY <1>1, <2>1, CoveredStays
<1>6. QED
  BY <1>1, <1>2, <1>3, <1>4, <1>5 DEF SearchIInv

(* A new round has passed no queue.                                        *)
LEMMA StartRoundSafe ==
  ASSUME SearchIInv, NEW w \in Worker, StartRound(w), UNCHANGED policy
  PROVE  SearchIInv'
<1>1. Sound' /\ Passing
  BY StartRoundSound DEF SearchIInv, PolicyTypes
<1>2. PolicyTypes'
  BY DEF SearchIInv, PolicyTypes, SearchControl, Control, Thread, StartRound,
      mem, wait, search, episode, policy
<1>3. SearchState'
  BY IdleAssumption
  DEF SearchIInv, PolicyTypes, SearchState, Sound, WordTypes, EpisodeState,
      Thread, StartRound, mem, wait, search, episode, policy
<1>4. SearchingExact' /\ Ranked'
  <2>1. Trying' = Trying
    BY DEF SearchIInv, PolicyTypes, Trying, Thread, StartRound
  <2>2. UNCHANGED <<searching, searchers, before>>
    BY DEF StartRound, policy
  <2>3. QED
    BY <2>1, <2>2 DEF SearchIInv, SearchingExact, Ranked, Counted, Trying
<1>5. LeftCovered'
  <2>1. /\ finished => finished'
        /\ \A v \in Thread : Left(v)' => Left(v)
        /\ \A u \in Worker : pc'[u] = "waiting" <=> pc[u] = "waiting"
        /\ \A u \in Thread : pc[u] = "wake" => pc'[u] = "wake"
    BY IdleAssumption
    DEF SearchIInv, PolicyTypes, Sound, WordTypes, Left, Thread, StartRound,
        mem, wait, search, episode, policy
  <2>2. QED
    BY <1>1, <2>1, CoveredStays
<1>6. QED
  BY <1>1, <1>2, <1>3, <1>4, <1>5 DEF SearchIInv

(* A queue is passed only while nothing of it is visible.                  *)
LEMMA LookSafe ==
  ASSUME SearchIInv, NEW w \in Worker, NEW v \in Thread, Look(w, v), UNCHANGED policy
  PROVE  SearchIInv'
<1>1. Sound' /\ Passing
  BY LookSound DEF SearchIInv, PolicyTypes
<1>2. PolicyTypes'
  BY DEF SearchIInv, PolicyTypes, SearchControl, Control, Thread, Look, Go, mem,
      wait, search, episode, policy
<1>3. SearchState'
  BY IdleAssumption
  DEF SearchIInv, PolicyTypes, SearchState, Sound, WordTypes, EpisodeState,
      Thread, Look, Go, mem, wait, search, episode, policy
<1>4. SearchingExact' /\ Ranked'
  <2>1. Trying' = Trying
    BY DEF SearchIInv, PolicyTypes, Trying, Thread, Look, Go
  <2>2. UNCHANGED <<searching, searchers, before>>
    BY DEF Look, Go, policy
  <2>3. QED
    BY <2>1, <2>2 DEF SearchIInv, SearchingExact, Ranked, Counted, Trying
<1>5. LeftCovered'
  <2>1. /\ finished => finished'
        /\ \A y \in Thread : Left(y)' => Left(y)
        /\ \A u \in Worker : pc'[u] = "waiting" <=> pc[u] = "waiting"
        /\ \A u \in Thread : pc[u] = "wake" => pc'[u] = "wake"
    BY IdleAssumption
    DEF SearchIInv, PolicyTypes, Sound, WordTypes, Left, Thread, Look, Go, mem,
        wait, search, episode, policy
  <2>2. QED
    BY <1>1, <2>1, CoveredStays
<1>6. QED
  BY <1>1, <1>2, <1>3, <1>4, <1>5 DEF SearchIInv

(* A task less in a queue.                                                 *)
LEMMA TakeSafe ==
  ASSUME SearchIInv, NEW w \in Worker, Take(w), UNCHANGED policy
  PROVE  SearchIInv'
<1>1. Sound' /\ Passing
  BY TakeSound DEF SearchIInv, PolicyTypes
<1>2. PolicyTypes'
  BY DEF SearchIInv, PolicyTypes, SearchControl, Control, Thread, Take, Visible,
      mem, wait, search, episode, policy
<1>3. SearchState'
  BY IdleAssumption
  DEF SearchIInv, PolicyTypes, SearchState, Sound, WordTypes, EpisodeState,
      Thread, Take, Visible, mem, wait, search, episode, policy
<1>4. SearchingExact' /\ Ranked'
  <2>1. Trying' = Trying
    BY DEF SearchIInv, PolicyTypes, Trying, Thread, Take, Visible
  <2>2. UNCHANGED <<searching, searchers, before>>
    BY DEF Take, Visible, policy
  <2>3. QED
    BY <2>1, <2>2 DEF SearchIInv, SearchingExact, Ranked, Counted, Trying
<1>5. LeftCovered'
  <2>1. /\ finished => finished'
        /\ \A v \in Thread : Left(v)' => Left(v)
        /\ \A u \in Worker : pc'[u] = "waiting" <=> pc[u] = "waiting"
        /\ \A u \in Thread : pc[u] = "wake" => pc'[u] = "wake"
    BY IdleAssumption
    DEF SearchIInv, PolicyTypes, Sound, WordTypes, Left, Thread, Take, Visible,
        mem, wait, search, episode, policy
  <2>2. QED
    BY <1>1, <2>1, CoveredStays
<1>6. QED
  BY <1>1, <1>2, <1>3, <1>4, <1>5 DEF SearchIInv

(* A worker that registers starts over: it has passed no queue.            *)
LEMMA RegisterSafe ==
  ASSUME SearchIInv, NEW w \in Worker, Register(w), w \in parking, UNCHANGED policy
  PROVE  SearchIInv'
<1>1. Sound' /\ Passing
  BY RegisterSound DEF SearchIInv, PolicyTypes
<1>2. PolicyTypes'
  BY DEF SearchIInv, PolicyTypes, SearchControl, Control, Thread, Register, Go,
      mem, wait, search, episode, policy
<1>3. SearchState'
  BY IdleAssumption
  DEF SearchIInv, PolicyTypes, SearchState, Sound, WordTypes, EpisodeState,
      Thread, Register, Go, mem, wait, search, episode, policy
<1>4. SearchingExact' /\ Ranked'
  <2>1. Trying' = Trying
    BY DEF SearchIInv, PolicyTypes, Trying, Thread, Register, Go
  <2>2. UNCHANGED <<searching, searchers, before>>
    BY DEF Register, Go, policy
  <2>3. QED
    BY <2>1, <2>2 DEF SearchIInv, SearchingExact, Ranked, Counted, Trying
<1>5. LeftCovered'
  <2>1. /\ finished => finished'
        /\ \A v \in Thread : Left(v)' => Left(v)
        /\ \A u \in Worker : pc'[u] = "waiting" <=> pc[u] = "waiting"
        /\ \A u \in Thread : pc[u] = "wake" => pc'[u] = "wake"
    BY IdleAssumption
    DEF SearchIInv, PolicyTypes, Sound, WordTypes, Left, Thread, Register, Go,
        mem, wait, search, episode, policy
  <2>2. QED
    BY <1>1, <2>1, CoveredStays
<1>6. QED
  BY <1>1, <1>2, <1>3, <1>4, <1>5 DEF SearchIInv

(* The fence of no_work_found: nothing is passed.                          *)
LEMMA RegisterFenceSafe ==
  ASSUME SearchIInv, NEW w \in Worker, RegisterFence(w), UNCHANGED policy
  PROVE  SearchIInv'
<1>1. Sound' /\ Passing
  BY RegisterFenceSound DEF SearchIInv, PolicyTypes
<1>2. PolicyTypes'
  BY DEF SearchIInv, PolicyTypes, SearchControl, Control, Thread, RegisterFence,
      Go, Fence, mem, wait, search, episode, policy
<1>3. SearchState'
  BY IdleAssumption
  DEF SearchIInv, PolicyTypes, SearchState, Sound, WordTypes, EpisodeState,
      Thread, RegisterFence, Go, Fence, mem, wait, search, episode, policy
<1>4. SearchingExact' /\ Ranked'
  <2>1. Trying' = Trying
    BY DEF SearchIInv, PolicyTypes, Trying, Thread, RegisterFence, Go, Fence
  <2>2. UNCHANGED <<searching, searchers, before>>
    BY DEF RegisterFence, Go, Fence, policy
  <2>3. QED
    BY <2>1, <2>2 DEF SearchIInv, SearchingExact, Ranked, Counted, Trying
<1>5. LeftCovered'
  <2>1. /\ finished => finished'
        /\ \A v \in Thread : Left(v)' => Left(v)
        /\ \A u \in Worker : pc'[u] = "waiting" <=> pc[u] = "waiting"
        /\ \A u \in Thread : pc[u] = "wake" => pc'[u] = "wake"
    BY IdleAssumption
    DEF SearchIInv, PolicyTypes, Sound, WordTypes, Left, Thread, RegisterFence,
        Go, Fence, mem, wait, search, episode, policy
  <2>2. QED
    BY <1>1, <2>1, CoveredStays
<1>6. QED
  BY <1>1, <1>2, <1>3, <1>4, <1>5 DEF SearchIInv

(* With its ticket the worker starts a round.                              *)
LEMMA SnapshotSafe ==
  ASSUME SearchIInv, NEW w \in Worker, Snapshot(w), UNCHANGED policy
  PROVE  SearchIInv'
<1>1. Sound' /\ Passing
  BY SnapshotSound DEF SearchIInv, PolicyTypes
<1>2. PolicyTypes'
  BY DEF SearchIInv, PolicyTypes, SearchControl, Control, Thread, Snapshot, Go,
      mem, wait, search, episode, policy
<1>3. SearchState'
  BY IdleAssumption
  DEF SearchIInv, PolicyTypes, SearchState, Sound, WordTypes, EpisodeState,
      Thread, Snapshot, Go, mem, wait, search, episode, policy
<1>4. SearchingExact' /\ Ranked'
  <2>1. Trying' = Trying
    BY DEF SearchIInv, PolicyTypes, Trying, Thread, Snapshot, Go
  <2>2. UNCHANGED <<searching, searchers, before>>
    BY DEF Snapshot, Go, policy
  <2>3. QED
    BY <2>1, <2>2 DEF SearchIInv, SearchingExact, Ranked, Counted, Trying
<1>5. LeftCovered'
  <2>1. /\ finished => finished'
        /\ \A v \in Thread : Left(v)' => Left(v)
        /\ \A u \in Worker : pc'[u] = "waiting" <=> pc[u] = "waiting"
        /\ \A u \in Thread : pc[u] = "wake" => pc'[u] = "wake"
    BY IdleAssumption
    DEF SearchIInv, PolicyTypes, Sound, WordTypes, Left, Thread, Snapshot, Go,
        mem, wait, search, episode, policy
  <2>2. QED
    BY <1>1, <2>1, CoveredStays
<1>6. QED
  BY <1>1, <1>2, <1>3, <1>4, <1>5 DEF SearchIInv

(* The worker enters the wait with what it has passed.                     *)
LEMMA ParkSafe ==
  ASSUME SearchIInv, NEW w \in Worker, Park(w), w \in parking, UNCHANGED policy
  PROVE  SearchIInv'
<1>1. Sound' /\ Passing
  BY ParkSound DEF SearchIInv, PolicyTypes
<1>2. PolicyTypes'
  BY DEF SearchIInv, PolicyTypes, SearchControl, Control, Thread, Park, Go, mem,
      wait, search, episode, policy
<1>3. SearchState'
  BY IdleAssumption
  DEF SearchIInv, PolicyTypes, SearchState, Sound, WordTypes, EpisodeState,
      Thread, Park, Go, mem, wait, search, episode, policy
<1>4. SearchingExact' /\ Ranked'
  <2>1. Trying' = Trying
    BY DEF SearchIInv, PolicyTypes, Trying, Thread, Park, Go
  <2>2. UNCHANGED <<searching, searchers, before>>
    BY DEF Park, Go, policy
  <2>3. QED
    BY <2>1, <2>2 DEF SearchIInv, SearchingExact, Ranked, Counted, Trying
<1>5. LeftCovered'
  <2>1. /\ finished => finished'
        /\ \A v \in Thread : Left(v)' => Left(v)
        /\ \A u \in Worker : pc'[u] = "waiting" <=> pc[u] = "waiting"
        /\ \A u \in Thread : pc[u] = "wake" => pc'[u] = "wake"
    BY IdleAssumption
    DEF SearchIInv, PolicyTypes, Sound, WordTypes, Left, Thread, Park, Go, mem,
        wait, search, episode, policy
  <2>2. QED
    BY <1>1, <2>1, CoveredStays
<1>6. QED
  BY <1>1, <1>2, <1>3, <1>4, <1>5 DEF SearchIInv

(* The wait sends the worker back, or on to the kernel.                    *)
LEMMA CheckWaitSafe ==
  ASSUME SearchIInv, NEW w \in Worker, CheckWait(w), UNCHANGED policy
  PROVE  SearchIInv'
<1>1. Sound' /\ Passing
  BY CheckWaitSound DEF SearchIInv, PolicyTypes
<1>2. PolicyTypes'
  BY DEF SearchIInv, PolicyTypes, SearchControl, Control, Thread, CheckWait, Go,
      mem, wait, search, episode, policy
<1>3. SearchState'
  BY IdleAssumption
  DEF SearchIInv, PolicyTypes, SearchState, Sound, WordTypes, EpisodeState,
      Thread, CheckWait, Go, mem, wait, search, episode, policy
<1>4. SearchingExact' /\ Ranked'
  <2>1. Trying' = Trying
    BY DEF SearchIInv, PolicyTypes, Trying, Thread, CheckWait, Go
  <2>2. UNCHANGED <<searching, searchers, before>>
    BY DEF CheckWait, Go, policy
  <2>3. QED
    BY <2>1, <2>2 DEF SearchIInv, SearchingExact, Ranked, Counted, Trying
<1>5. LeftCovered'
  <2>1. /\ finished => finished'
        /\ \A v \in Thread : Left(v)' => Left(v)
        /\ \A u \in Worker : pc'[u] = "waiting" <=> pc[u] = "waiting"
        /\ \A u \in Thread : pc[u] = "wake" => pc'[u] = "wake"
    BY IdleAssumption
    DEF SearchIInv, PolicyTypes, Sound, WordTypes, Left, Thread, CheckWait, Go,
        mem, wait, search, episode, policy
  <2>2. QED
    BY <1>1, <2>1, CoveredStays
<1>6. QED
  BY <1>1, <1>2, <1>3, <1>4, <1>5 DEF SearchIInv

(* The last worker that blocks has passed every queue since its ticket, so *)
(* what is left is being told.                                             *)
LEMMA KernelWaitSafe ==
  ASSUME SearchIInv, NEW w \in Worker, KernelWait(w), UNCHANGED policy
  PROVE  SearchIInv'
<1>1. Sound' /\ Passing
  BY KernelWaitSound DEF SearchIInv, PolicyTypes
<1>2. PolicyTypes'
  BY DEF SearchIInv, PolicyTypes, SearchControl, Control, Thread, KernelWait,
      Go, mem, wait, search, episode, policy
<1>3. SearchState'
  BY IdleAssumption
  DEF SearchIInv, PolicyTypes, SearchState, Sound, WordTypes, EpisodeState,
      Thread, KernelWait, Go, mem, wait, search, episode, policy
<1>4. SearchingExact' /\ Ranked'
  <2>1. Trying' = Trying
    BY DEF SearchIInv, PolicyTypes, Trying, Thread, KernelWait, Go
  <2>2. UNCHANGED <<searching, searchers, before>>
    BY DEF KernelWait, Go, policy
  <2>3. QED
    BY <2>1, <2>2 DEF SearchIInv, SearchingExact, Ranked, Counted, Trying
<1>5. LeftCovered'
  <2>0. pc[w] = "syscall" /\ w \in Thread /\ queue' = queue /\ finished' = finished
    BY DEF Thread, KernelWait, Go, mem, wait
  <2>1. CASE epoch = ticket[w]
    <3>1. pc' = [pc EXCEPT ![w] = "waiting"]
      BY <2>1 DEF KernelWait, Go
    <3>2. \A v \in Thread : Passed(w, v)
      BY <2>0, <2>1 DEF SearchIInv, Sound, EpisodeState, Passed
    <3>3. w \notin Waiting
      BY <2>0 DEF Waiting
    <3>4. ASSUME ~ finished, NEW v \in Thread, Left(v)'
          PROVE  \E u \in Worker : Covers(u, v)'
      <4>1. Left(v)
        BY <2>0, <3>1, <3>4 DEF SearchIInv, PolicyTypes, Left
      <4>2. PICK u \in Worker : Covers(u, v)
        BY <3>3, <3>4, <4>1 DEF SearchIInv, LeftCovered
      <4>3. u # w
        BY <3>2, <4>2 DEF Covers
      <4>4. pc'[u] # "waiting"
        BY <3>1, <4>2, <4>3 DEF SearchIInv, PolicyTypes, Covers, Thread
      <4>5. QED
        BY <1>1, <3>4, <4>2, <4>4, CoversKeeps
    <3>5. QED
      BY <2>0, <3>4 DEF LeftCovered
  <2>2. CASE epoch # ticket[w]
    <3>1. pc' = [pc EXCEPT ![w] = "leave"]
      BY <2>2 DEF KernelWait, Go
    <3>2. /\ \A v \in Thread : Left(v)' => Left(v)
          /\ \A u \in Worker : pc'[u] = "waiting" <=> pc[u] = "waiting"
          /\ \A u \in Thread : pc[u] = "wake" => pc'[u] = "wake"
      BY <2>0, <3>1 DEF SearchIInv, PolicyTypes, Left, Thread
    <3>3. QED
      BY <1>1, <2>0, <3>2, CoveredStays
  <2>3. QED
    BY <2>1, <2>2
<1>6. QED
  BY <1>1, <1>2, <1>3, <1>4, <1>5 DEF SearchIInv

(* A worker that wakes up will look at every queue.                        *)
LEMMA WaitEndsSafe ==
  ASSUME SearchIInv, NEW w \in Worker, WaitEnds(w), UNCHANGED policy
  PROVE  SearchIInv'
<1>1. Sound' /\ Passing
  BY WaitEndsSound DEF SearchIInv, PolicyTypes
<1>2. PolicyTypes'
  BY DEF SearchIInv, PolicyTypes, SearchControl, Control, Thread, WaitEnds, Go,
      mem, wait, search, episode, policy
<1>3. SearchState'
  BY IdleAssumption
  DEF SearchIInv, PolicyTypes, SearchState, Sound, WordTypes, EpisodeState,
      Thread, WaitEnds, Go, mem, wait, search, episode, policy
<1>4. SearchingExact' /\ Ranked'
  <2>1. Trying' = Trying
    BY DEF SearchIInv, PolicyTypes, Trying, Thread, WaitEnds, Go
  <2>2. UNCHANGED <<searching, searchers, before>>
    BY DEF WaitEnds, Go, policy
  <2>3. QED
    BY <2>1, <2>2 DEF SearchIInv, SearchingExact, Ranked, Counted, Trying
<1>5. LeftCovered'
  <2>1. pc'[w] = "leave"
    BY DEF SearchIInv, PolicyTypes, Thread, WaitEnds, Go
  <2>2. \A v \in Thread : Covers(w, v)'
    BY <2>1 DEF Covers, Passed
  <2>3. QED
    BY <2>2 DEF LeftCovered
<1>6. QED
  BY <1>1, <1>2, <1>3, <1>4, <1>5 DEF SearchIInv

(* A worker back from its wait will look at every queue.                   *)
LEMMA LeaveSafe ==
  ASSUME SearchIInv, NEW w \in Worker, Leave(w), parking' = parking \ {w}, UNCHANGED <<searching, searchers, before>>
  PROVE  SearchIInv'
<1>1. Sound' /\ Passing
  BY LeaveSound DEF SearchIInv, PolicyTypes
<1>2. PolicyTypes'
  BY DEF SearchIInv, PolicyTypes, SearchControl, Control, Thread, Leave, Go,
      Unregister, mem, wait, search, episode, policy
<1>3. SearchState'
  BY IdleAssumption
  DEF SearchIInv, PolicyTypes, SearchState, Sound, WordTypes, EpisodeState,
      Thread, Leave, Go, Unregister, mem, wait, search, episode, policy
<1>4. SearchingExact' /\ Ranked'
  <2>1. Trying' = Trying
    BY DEF SearchIInv, PolicyTypes, Trying, Thread, Leave, Go, Unregister
  <2>2. UNCHANGED <<searching, searchers, before>>
    BY DEF Leave, Go, Unregister, policy
  <2>3. QED
    BY <2>1, <2>2 DEF SearchIInv, SearchingExact, Ranked, Counted, Trying
<1>5. LeftCovered'
  <2>1. /\ finished => finished'
        /\ \A v \in Thread : Left(v)' => Left(v)
        /\ \A u \in Worker : pc'[u] = "waiting" <=> pc[u] = "waiting"
        /\ \A u \in Thread : pc[u] = "wake" => pc'[u] = "wake"
    BY IdleAssumption
    DEF SearchIInv, PolicyTypes, Sound, WordTypes, Left, Thread, Leave, Go,
        Unregister, mem, wait, search, episode, policy
  <2>2. QED
    BY <1>1, <2>1, CoveredStays
<1>6. QED
  BY <1>1, <1>2, <1>3, <1>4, <1>5 DEF SearchIInv

(* A new task is being told.                                               *)
LEMMA PushSafe ==
  ASSUME SearchIInv, NEW t \in Thread, Push(t), UNCHANGED policy
  PROVE  SearchIInv'
<1>1. Sound' /\ Passing
  BY PushSound DEF SearchIInv, PolicyTypes
<1>2. PolicyTypes'
  BY DEF SearchIInv, PolicyTypes, SearchControl, Control, Thread, Push, Go, mem,
      wait, search, episode, policy
<1>3. SearchState'
  BY IdleAssumption
  DEF SearchIInv, PolicyTypes, SearchState, Sound, WordTypes, EpisodeState,
      Thread, Push, Go, mem, wait, search, episode, policy
<1>4. SearchingExact' /\ Ranked'
  <2>1. Trying' = Trying
    BY DEF SearchIInv, PolicyTypes, Trying, Thread, Push, Go
  <2>2. UNCHANGED <<searching, searchers, before>>
    BY DEF Push, Go, policy
  <2>3. QED
    BY <2>1, <2>2 DEF SearchIInv, SearchingExact, Ranked, Counted, Trying
<1>5. LeftCovered'
  <2>1. /\ finished => finished'
        /\ \A v \in Thread : Left(v)' => Left(v)
        /\ \A u \in Worker : pc'[u] = "waiting" <=> pc[u] = "waiting"
        /\ \A u \in Thread : pc[u] = "wake" => pc'[u] = "wake"
    BY IdleAssumption
    DEF SearchIInv, PolicyTypes, Sound, WordTypes, Left, Thread, Push, Go, mem,
        wait, search, episode, policy
  <2>2. QED
    BY <1>1, <2>1, CoveredStays
<1>6. QED
  BY <1>1, <1>2, <1>3, <1>4, <1>5 DEF SearchIInv

(* After the fence the task is still being told.                           *)
LEMMA PushFenceSafe ==
  ASSUME SearchIInv, NEW t \in Thread, PushFence(t), UNCHANGED policy
  PROVE  SearchIInv'
<1>1. Sound' /\ Passing
  BY PushFenceSound DEF SearchIInv, PolicyTypes
<1>2. PolicyTypes'
  BY DEF SearchIInv, PolicyTypes, SearchControl, Control, Thread, PushFence, Go,
      Fence, mem, wait, search, episode, policy
<1>3. SearchState'
  BY IdleAssumption
  DEF SearchIInv, PolicyTypes, SearchState, Sound, WordTypes, EpisodeState,
      Thread, PushFence, Go, Fence, mem, wait, search, episode, policy
<1>4. SearchingExact' /\ Ranked'
  <2>1. Trying' = Trying
    BY DEF SearchIInv, PolicyTypes, Trying, Thread, PushFence, Go, Fence
  <2>2. UNCHANGED <<searching, searchers, before>>
    BY DEF PushFence, Go, Fence, policy
  <2>3. QED
    BY <2>1, <2>2 DEF SearchIInv, SearchingExact, Ranked, Counted, Trying
<1>5. LeftCovered'
  <2>1. /\ finished => finished'
        /\ \A v \in Thread : Left(v)' => Left(v)
        /\ \A u \in Worker : pc'[u] = "waiting" <=> pc[u] = "waiting"
        /\ \A u \in Thread : pc[u] = "wake" => pc'[u] = "wake"
    BY IdleAssumption
    DEF SearchIInv, PolicyTypes, Sound, WordTypes, Left, Thread, PushFence, Go,
        Fence, mem, wait, search, episode, policy
  <2>2. QED
    BY <1>1, <2>1, CoveredStays
<1>6. QED
  BY <1>1, <1>2, <1>3, <1>4, <1>5 DEF SearchIInv

(* epoch moves: who blocks from now on would see it.                       *)
LEMMA BumpSafe ==
  ASSUME SearchIInv, NEW t \in Thread, Bump(t), UNCHANGED policy
  PROVE  SearchIInv'
<1>1. Sound' /\ Passing
  BY BumpSound DEF SearchIInv, PolicyTypes
<1>2. PolicyTypes'
  BY DEF SearchIInv, PolicyTypes, SearchControl, Control, Thread, Bump, Go, mem,
      wait, search, episode, policy
<1>3. SearchState'
  BY IdleAssumption
  DEF SearchIInv, PolicyTypes, SearchState, Sound, WordTypes, EpisodeState,
      Thread, Bump, Go, mem, wait, search, episode, policy
<1>4. SearchingExact' /\ Ranked'
  <2>1. Trying' = Trying
    BY DEF SearchIInv, PolicyTypes, Trying, Thread, Bump, Go
  <2>2. UNCHANGED <<searching, searchers, before>>
    BY DEF Bump, Go, policy
  <2>3. QED
    BY <2>1, <2>2 DEF SearchIInv, SearchingExact, Ranked, Counted, Trying
<1>5. LeftCovered'
  <2>0. /\ pc[t] = "bump" /\ pc' = [pc EXCEPT ![t] = "wake"] /\ epoch' = epoch + 1
        /\ ticket' = ticket
    BY DEF Bump, Go, episode
  <2>1. CASE Waiting = Worker
    <3>1. Waiting' = Worker /\ pc'[t] = "wake"
      BY <2>0, <2>1 DEF SearchIInv, PolicyTypes, Waiting, Thread
    <3>2. QED
      BY <3>1 DEF LeftCovered
  <2>2. CASE Waiting # Worker
    <3>1. PICK u \in Worker : pc[u] # "waiting"
      BY <2>2 DEF Waiting
    <3>2. pc'[u] # "waiting"
      BY <2>0, <3>1 DEF SearchIInv, PolicyTypes, Thread
    <3>3. ticket'[u] # epoch'
      BY <2>0, IdleAssumption DEF SearchIInv, Sound, WordTypes, EpisodeState
    <3>4. \A v \in Thread : Covers(u, v)'
      BY <3>2, <3>3 DEF Covers, Passed
    <3>5. QED
      BY <3>4 DEF LeftCovered
  <2>3. QED
    BY <2>1, <2>2
<1>6. QED
  BY <1>1, <1>2, <1>3, <1>4, <1>5 DEF SearchIInv

(* The worker that is woken will look at every queue.                      *)
LEMMA WakeOneSafe ==
  ASSUME SearchIInv, NEW t \in Thread, WakeOne(t), UNCHANGED policy
  PROVE  SearchIInv'
<1>1. Sound' /\ Passing
  BY WakeOneSound DEF SearchIInv, PolicyTypes
<1>2. PolicyTypes'
  BY DEF SearchIInv, PolicyTypes, SearchControl, Control, Thread, WakeOne,
      Waiting, mem, wait, search, episode, policy
<1>3. SearchState'
  BY IdleAssumption
  DEF SearchIInv, PolicyTypes, SearchState, Sound, WordTypes, EpisodeState,
      Thread, WakeOne, Waiting, mem, wait, search, episode, policy
<1>4. SearchingExact' /\ Ranked'
  <2>1. Trying' = Trying
    BY DEF SearchIInv, PolicyTypes, Trying, Thread, WakeOne, Waiting
  <2>2. UNCHANGED <<searching, searchers, before>>
    BY DEF WakeOne, Waiting, policy
  <2>3. QED
    BY <2>1, <2>2 DEF SearchIInv, SearchingExact, Ranked, Counted, Trying
<1>5. LeftCovered'
  <2>0. pc[t] = "wake" /\ queue' = queue /\ finished' = finished
    BY DEF WakeOne, mem, wait
  <2>1. CASE Waiting = {}
    <3>1. pc' = [pc EXCEPT ![t] = "running"]
      BY <2>1 DEF WakeOne
    <3>2. ASSUME ~ finished, NEW v \in Thread, Left(v)'
          PROVE  \E u \in Worker : Covers(u, v)'
      <4>1. Left(v)
        BY <2>0, <3>1, <3>2 DEF SearchIInv, PolicyTypes, Left
      <4>2. PICK u \in Worker : Covers(u, v)
        BY <2>1, <3>2, <4>1, PolicyAssumption DEF SearchIInv, LeftCovered
      <4>3. pc'[u] # "waiting"
        BY <3>1, <4>2 DEF SearchIInv, PolicyTypes, Covers, Thread
      <4>4. QED
        BY <1>1, <3>2, <4>2, <4>3, CoversKeeps
    <3>3. QED
      BY <2>0, <3>2 DEF LeftCovered
  <2>2. CASE Waiting # {}
    <3>1. PICK w \in Waiting :
            pc' = [u \in Thread |-> IF u = w THEN "leave" ELSE IF u = t THEN "running" ELSE pc[u]]
      BY <2>2 DEF WakeOne
    <3>2. w \in Worker /\ pc'[w] = "leave"
      BY <3>1 DEF SearchIInv, PolicyTypes, Waiting, Thread
    <3>3. \A v \in Thread : Covers(w, v)'
      BY <3>2 DEF Covers, Passed
    <3>4. QED
      BY <3>2, <3>3 DEF LeftCovered
  <2>3. QED
    BY <2>1, <2>2
<1>6. QED
  BY <1>1, <1>2, <1>3, <1>4, <1>5 DEF SearchIInv

(* A worker whose task ended will look at every queue.                     *)
LEMMA TaskEndsSafe ==
  ASSUME SearchIInv, NEW w \in Worker, TaskEnds(w), UNCHANGED policy
  PROVE  SearchIInv'
<1>1. Sound' /\ Passing
  BY TaskEndsSound DEF SearchIInv, PolicyTypes
<1>2. PolicyTypes'
  BY DEF SearchIInv, PolicyTypes, SearchControl, Control, Thread, TaskEnds, Go,
      mem, wait, search, episode, policy
<1>3. SearchState'
  BY IdleAssumption
  DEF SearchIInv, PolicyTypes, SearchState, Sound, WordTypes, EpisodeState,
      Thread, TaskEnds, Go, mem, wait, search, episode, policy
<1>4. SearchingExact' /\ Ranked'
  <2>1. Trying' = Trying
    BY DEF SearchIInv, PolicyTypes, Trying, Thread, TaskEnds, Go
  <2>2. UNCHANGED <<searching, searchers, before>>
    BY DEF TaskEnds, Go, policy
  <2>3. QED
    BY <2>1, <2>2 DEF SearchIInv, SearchingExact, Ranked, Counted, Trying
<1>5. LeftCovered'
  <2>1. /\ finished => finished'
        /\ \A v \in Thread : Left(v)' => Left(v)
        /\ \A u \in Worker : pc'[u] = "waiting" <=> pc[u] = "waiting"
        /\ \A u \in Thread : pc[u] = "wake" => pc'[u] = "wake"
    BY IdleAssumption
    DEF SearchIInv, PolicyTypes, Sound, WordTypes, Left, Thread, TaskEnds, Go,
        mem, wait, search, episode, policy
  <2>2. QED
    BY <1>1, <2>1, CoveredStays
<1>6. QED
  BY <1>1, <1>2, <1>3, <1>4, <1>5 DEF SearchIInv

(* Once finished, nothing is asked.                                        *)
LEMMA SetFinishedSafe ==
  ASSUME SearchIInv, SetFinished, UNCHANGED policy
  PROVE  SearchIInv'
<1>1. Sound' /\ Passing
  BY SetFinishedSound DEF SearchIInv, PolicyTypes
<1>2. PolicyTypes'
  BY DEF SearchIInv, PolicyTypes, SearchControl, Control, Thread, SetFinished,
      mem, wait, search, episode, policy
<1>3. SearchState'
  BY IdleAssumption
  DEF SearchIInv, PolicyTypes, SearchState, Sound, WordTypes, EpisodeState,
      Thread, SetFinished, mem, wait, search, episode, policy
<1>4. SearchingExact' /\ Ranked'
  <2>1. Trying' = Trying
    BY DEF SearchIInv, PolicyTypes, Trying, Thread, SetFinished
  <2>2. UNCHANGED <<searching, searchers, before>>
    BY DEF SetFinished, policy
  <2>3. QED
    BY <2>1, <2>2 DEF SearchIInv, SearchingExact, Ranked, Counted, Trying
<1>5. LeftCovered'
  <2>1. /\ finished => finished'
        /\ \A v \in Thread : Left(v)' => Left(v)
        /\ \A u \in Worker : pc'[u] = "waiting" <=> pc[u] = "waiting"
        /\ \A u \in Thread : pc[u] = "wake" => pc'[u] = "wake"
    BY IdleAssumption
    DEF SearchIInv, PolicyTypes, Sound, WordTypes, Left, Thread, SetFinished,
        mem, wait, search, episode, policy
  <2>2. QED
    BY <1>1, <2>1, CoveredStays
<1>6. QED
  BY <1>1, <1>2, <1>3, <1>4, <1>5 DEF SearchIInv

(* shutdown runs when the pool is finished.                                *)
LEMMA ShutdownBumpSafe ==
  ASSUME SearchIInv, ShutdownBump, UNCHANGED policy
  PROVE  SearchIInv'
<1>1. Sound' /\ Passing
  BY ShutdownBumpSound DEF SearchIInv, PolicyTypes
<1>2. PolicyTypes'
  BY DEF SearchIInv, PolicyTypes, SearchControl, Control, Thread, ShutdownBump,
      mem, wait, search, episode, policy
<1>3. SearchState'
  BY IdleAssumption
  DEF SearchIInv, PolicyTypes, SearchState, Sound, WordTypes, EpisodeState,
      Thread, ShutdownBump, mem, wait, search, episode, policy
<1>4. SearchingExact' /\ Ranked'
  <2>1. Trying' = Trying
    BY DEF SearchIInv, PolicyTypes, Trying, Thread, ShutdownBump
  <2>2. UNCHANGED <<searching, searchers, before>>
    BY DEF ShutdownBump, policy
  <2>3. QED
    BY <2>1, <2>2 DEF SearchIInv, SearchingExact, Ranked, Counted, Trying
<1>5. LeftCovered'
  <2>1. /\ finished => finished'
        /\ \A v \in Thread : Left(v)' => Left(v)
        /\ \A u \in Worker : pc'[u] = "waiting" <=> pc[u] = "waiting"
        /\ \A u \in Thread : pc[u] = "wake" => pc'[u] = "wake"
    BY IdleAssumption
    DEF SearchIInv, PolicyTypes, Sound, WordTypes, Left, Thread, ShutdownBump,
        mem, wait, search, episode, policy
  <2>2. QED
    BY <1>1, <2>1, CoveredStays
<1>6. QED
  BY <1>1, <1>2, <1>3, <1>4, <1>5 DEF SearchIInv

(* shutdown runs when the pool is finished.                                *)
LEMMA WakeAllSafe ==
  ASSUME SearchIInv, WakeAll, UNCHANGED policy
  PROVE  SearchIInv'
<1>1. Sound' /\ Passing
  BY WakeAllSound DEF SearchIInv, PolicyTypes
<1>2. PolicyTypes'
  BY DEF SearchIInv, PolicyTypes, SearchControl, Control, Thread, WakeAll, mem,
      wait, search, episode, policy
<1>3. SearchState'
  BY IdleAssumption
  DEF SearchIInv, PolicyTypes, SearchState, Sound, WordTypes, EpisodeState,
      Thread, WakeAll, mem, wait, search, episode, policy
<1>4. SearchingExact' /\ Ranked'
  <2>1. Trying' = Trying
    BY DEF SearchIInv, PolicyTypes, Trying, Thread, WakeAll
  <2>2. UNCHANGED <<searching, searchers, before>>
    BY DEF WakeAll, policy
  <2>3. QED
    BY <2>1, <2>2 DEF SearchIInv, SearchingExact, Ranked, Counted, Trying
<1>5. LeftCovered'
  <2>0. /\ queue' = queue /\ finished' = finished
        /\ pc' = [u \in Thread |-> IF pc[u] = "waiting" THEN "leave" ELSE pc[u]]
    BY DEF WakeAll, mem
  <2>1. \A u \in Worker : pc'[u] # "waiting" /\ (pc[u] = "waiting" => pc'[u] = "leave")
    BY <2>0 DEF Thread
  <2>2. ASSUME ~ finished, NEW v \in Thread, Left(v)'
        PROVE  \E u \in Worker : Covers(u, v)'
    <3>1. Left(v)
      BY <2>0, <2>2 DEF Left
    <3>2. CASE Waiting = Worker
      <4>1. PICK u \in Worker : pc'[u] = "leave"
        BY <2>1, <3>2, PolicyAssumption DEF Waiting
      <4>2. QED
        BY <4>1 DEF Covers, Passed
    <3>3. CASE Waiting # Worker
      <4>1. PICK u \in Worker : Covers(u, v)
        BY <2>2, <3>1, <3>3 DEF SearchIInv, LeftCovered
      <4>2. QED
        BY <1>1, <2>1, <2>2, <4>1, CoversKeeps
    <3>4. QED
      BY <3>2, <3>3
  <2>3. QED
    BY <2>0, <2>2 DEF LeftCovered
<1>6. QED
  BY <1>1, <1>2, <1>3, <1>4, <1>5 DEF SearchIInv

(* A step that changes nothing.                                            *)
LEMMA SearchStutters ==
  ASSUME SearchIInv, UNCHANGED svars
  PROVE  SearchIInv'
<1>1. WordTypes' /\ MemoryState' /\ EpisodeState'
  BY DEF SearchIInv, Sound, WordTypes, MemoryState, EpisodeState, svars, vars
<1>2. SleepersExact'
  BY DEF SearchIInv, Sound, SleepersExact, Registered, svars, vars
<1>3. PolicyTypes' /\ SearchState'
  BY DEF SearchIInv, PolicyTypes, SearchState, svars, vars, policy
<1>4. SearchingExact' /\ Ranked'
  BY DEF SearchIInv, SearchingExact, Ranked, Counted, Trying, svars, vars, policy
<1>5. LeftCovered'
  BY DEF SearchIInv, LeftCovered, Left, Covers, Passed, Waiting, svars, vars
<1>6. QED
  BY <1>1, <1>2, <1>3, <1>4, <1>5 DEF SearchIInv, Sound

(* At the start nobody searches and no task is queued.                     *)
LEMMA SearchInitIInv == SearchInit => SearchIInv
<1> SUFFICES ASSUME SearchInit PROVE SearchIInv
  OBVIOUS
<1>0. Init
  BY DEF SearchInit
<1>1. Sound
  BY <1>0, InitIInv DEF ParkIInv
<1>2. \A w \in Worker : pc[w] \in {"loop", "running"} /\ w \in Thread
  BY <1>0 DEF Init, Thread
<1>3. PolicyTypes
  BY <1>0 DEF SearchInit, Init, PolicyTypes, SearchControl, Control
<1>4. SearchState
  BY <1>0, <1>2 DEF SearchInit, Init, SearchState
<1>5. Trying = {} /\ searchers = {} /\ Counted = {}
  BY <1>2 DEF SearchInit, Trying, Counted
<1>6. SearchingExact
  <2>1. Cardinality(searchers) = 0 /\ Cardinality(Trying) = 0
    BY <1>5, FS_EmptySet
  <2>2. QED
    BY <2>1 DEF SearchInit, SearchingExact, Trying
<1>7. Ranked
  BY <1>5 DEF Ranked
<1>8. LeftCovered
  BY <1>0 DEF Init, LeftCovered, Left
<1>9. QED
  BY <1>1, <1>3, <1>4, <1>6, <1>7, <1>8 DEF SearchIInv

(* Every step keeps the invariant.                                         *)
LEMMA SearchNextIInv == SearchIInv /\ [SearchNext]_svars => SearchIInv'
<1> SUFFICES ASSUME SearchIInv, [SearchNext]_svars PROVE SearchIInv'
  OBVIOUS
<1>1. CASE UNCHANGED svars
  BY <1>1, SearchStutters
<1>2. ASSUME NEW w \in Worker, StartRound(w) \/ (\E v \in Thread : Look(w, v)) \/ Take(w), UNCHANGED policy
      PROVE  SearchIInv'
  BY <1>2, StartRoundSafe, LookSafe, TakeSafe
<1>3. ASSUME NEW w \in Worker, ParkStep(w) PROVE SearchIInv'
  BY <1>3, RegisterSafe, ParkSafe, RegisterFenceSafe, SnapshotSafe,
     CheckWaitSafe, KernelWaitSafe, LeaveSafe
  DEF ParkStep
<1>4. ASSUME NEW w \in Worker, WorkerStep(w) PROVE SearchIInv'
  BY <1>2, <1>3, <1>4, RoundEndsSafe, TrySearchSafe, AcceptSafe, RefuseSafe,
     OverCapSafe, KeepSearchingSafe, StopSearchingSafe, FoundSafe,
     LastFenceSafe, LastReadSafe
  DEF WorkerStep
<1>5. ASSUME NEW w \in Worker, WaitEnds(w) \/ TaskEnds(w), UNCHANGED policy PROVE SearchIInv'
  BY <1>5, WaitEndsSafe, TaskEndsSafe
<1>6. ASSUME NEW t \in Thread, (Push(t) /\ UNCHANGED policy) \/ TellStep(t) PROVE SearchIInv'
  BY <1>6, PushSafe, PushFenceSafe, BumpSafe, WakeOneSafe, ReadSearchingSafe,
     ReadParkedSafe
  DEF TellStep
<1>7. CASE (SetFinished \/ ShutdownStep \/ Commit) /\ UNCHANGED policy
  BY <1>7, SetFinishedSafe, ShutdownBumpSafe, WakeAllSafe, CommitPushSafe,
     CommitRegisterSafe
  DEF ShutdownStep, Commit
<1>8. QED
  BY <1>1, <1>4, <1>5, <1>6, <1>7 DEF SearchNext

(* The invariant is inductive.                                             *)
LEMMA SearchIInvHolds == SearchSpec => []SearchIInv
<1>1. SearchInit => SearchIInv
  BY SearchInitIInv
<1>2. SearchIInv /\ [SearchNext]_svars => SearchIInv'
  BY SearchNextIInv
<1>3. QED
  BY <1>1, <1>2, PTL DEF SearchSpec

(* The searchers are a set of counted workers, so one of them found all    *)
(* the others counted, and still less than the cap.                        *)
LEMMA CapIsHeld ==
  ASSUME SearchIInv
  PROVE  CapHeld
<1>1. CASE searchers = {}
  BY <1>1, CapLargest, FS_EmptySet DEF CapHeld
<1>2. CASE searchers # {}
  <2>1. PICK w \in searchers : Cardinality(searchers) <= before[w] + 1
    BY <1>2 DEF SearchIInv, Ranked, Counted
  <2>2. before[w] \in Nat /\ before[w] < Cap(0, 0)
    BY <2>1 DEF SearchIInv, PolicyTypes, Ranked
  <2>3. Cardinality(searchers) \in Nat /\ Cap(0, 0) \in Nat
    BY CapLargest, CountedFinite
  <2>4. QED
    BY <2>1, <2>2, <2>3 DEF CapHeld
<1>3. QED
  BY <1>1, <1>2

(* searching is exactly the number of searchers and of workers about to be *)
(* refused, and at most SearchCap::cap of them search, though try_search   *)
(* counts first and compares later; no counter goes below zero.            *)
THEOREM SearchersCounted == SearchSpec => []SearchInv
<1>1. ASSUME SearchIInv PROVE SearchInv
  <2>1. SearchTypeOK
    BY <1>1 DEF SearchIInv, Sound, WordTypes, MemoryState, PolicyTypes, SearchTypeOK
  <2>2. QED
    BY <1>1, <2>1, CapIsHeld DEF SearchIInv, SearchInv
<1>2. QED
  BY <1>1, SearchIInvHolds, PTL

(* The pool never falls asleep on work: although a producer wakes nobody   *)
(* while searching is not 0, and the last searcher wakes a sleeper only    *)
(* when it finds work, no state has every worker blocked, nobody about to  *)
(* wake one, and a task in a queue.                                        *)
THEOREM NeverAllAsleep == SearchSpec => []NotAllAsleep
<1>1. ASSUME SearchIInv PROVE NotAllAsleep
  <2> SUFFICES ASSUME Queued > 0, ~ finished, Telling = {}, Waiting = Worker PROVE FALSE
    BY DEF NotAllAsleep
  <2>1. Tasks # {}
    BY FS_EmptySet DEF Queued
  <2>2. PICK v \in Thread : queue[v] > 0
    <3>1. PICK v \in Thread : 1 .. queue[v] # {}
      BY <2>1 DEF Tasks
    <3>2. queue[v] \in Nat
      BY <1>1 DEF SearchIInv, Sound, WordTypes
    <3>3. QED
      BY <3>1, <3>2
  <2>3. Left(v)
    BY <2>2 DEF Left, Telling
  <2>4. QED
    BY <1>1, <2>3 DEF SearchIInv, LeftCovered, Covers, Waiting, Telling
<1>2. QED
  BY <1>1, SearchIInvHolds, PTL

=============================================================================
