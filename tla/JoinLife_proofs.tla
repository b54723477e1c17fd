-------------------------- MODULE JoinLife_proofs --------------------------
(***************************************************************************)
(* Proofs about JoinProtocol and PoolLife, the modules MCJoinLife checks   *)
(* together: what becomes of a task and its handle, and what becomes of a  *)
(* pool.  Of JoinProtocol the inductive invariant IInv, one lemma per      *)
(* action with one step per conjunct, and the theorems that follow; of     *)
(* PoolLife that from init or run_async to the return to their caller every*)
(* task is in one place and every thread is joined, for any set of workers *)
(* and tasks.                                                              *)
(***************************************************************************)
EXTENDS JoinProtocol, PoolLife, FiniteSetTheorems, TLAPS

-----------------------------------------------------------------------------
(* JoinProtocol.                                                           *)

(* The six forms of the join_state word never coincide.                    *)
LEMMA WordsDiffer ==
  /\ RUNNING # FINISHED /\ RUNNING # DETACHED /\ FINISHED # DETACHED
  /\ \A j : /\ SyncJoiner(j) \notin {RUNNING, FINISHED, DETACHED}
            /\ AsyncWaker(j) \notin {RUNNING, FINISHED, DETACHED}
            /\ AsyncJoiner(j) \notin {RUNNING, FINISHED, DETACHED}
  /\ \A j, k : /\ SyncJoiner(j) \notin {AsyncWaker(k), AsyncJoiner(k)}
               /\ AsyncWaker(j) # AsyncJoiner(k)
BY DEF RUNNING, FINISHED, DETACHED, SyncJoiner, AsyncWaker, AsyncJoiner

(* A tagged word decodes to the pointer it was made from.                  *)
LEMMA WordsDecode ==
  ASSUME NEW j
  PROVE  /\ SyncJoiner(j).by = j /\ AsyncWaker(j).by = j /\ AsyncJoiner(j).by = j
         /\ SyncJoiner(j).tag = "SyncJoiner"
         /\ AsyncWaker(j).tag # "SyncJoiner"
         /\ AsyncJoiner(j).tag # "SyncJoiner"
         /\ RUNNING.tag # "SyncJoiner" /\ FINISHED.tag # "SyncJoiner"
         /\ DETACHED.tag # "SyncJoiner"
BY DEF RUNNING, FINISHED, DETACHED, SyncJoiner, AsyncWaker, AsyncJoiner

(* The words the protocol stores.                                          *)
LEMMA WordsTyped ==
  /\ FINISHED \in JoinState /\ DETACHED \in JoinState /\ RUNNING \in JoinState
  /\ \A j \in Ult : SyncJoiner(j) \in JoinState /\ AsyncWaker(j) \in JoinState
  /\ \A j \in Async : AsyncJoiner(j) \in JoinState
BY DEF JoinState

(* A word that names a sync joiner is the one that joiner published.       *)
LEMMA SyncWord ==
  ASSUME NEW w \in JoinState, w.tag = "SyncJoiner"
  PROVE  \E j \in Ult : w = SyncJoiner(j)
BY WordsDecode DEF JoinState

(* A descriptor is in the pool or in use, and in use while anything runs   *)
(* on it, owns its handle or waits for it; what still runs is not FINISHED.*)
LEMMA InUse ==
  ASSUME IInv, NEW d \in Desc
  PROVE  /\ pool[d] \in {0, 1}
         /\ pc[d] # "done" => pool[d] = 0 /\ join[d] # FINISHED
         /\ held[d] # None => pool[d] = 0
         /\ \A p \in Desc : tgt[p] = d => pool[d] = 0
<1>1. pool[d] \in {0, 1}
  BY DEF IInv, TypeOK, FreeIsQuiet
<1>2. QED
  BY <1>1 DEF IInv, FreeIsQuiet, FinishedIsOver

(* While the owner of its handle is not blocked on it, an exiting task has *)
(* neither handed over to a joiner nor found itself abandoned.             *)
LEMMA HeldStays ==
  ASSUME IInv, NEW p \in Desc, NEW c \in Desc, held[c] = p, pc[p] # "blocked"
  PROVE  pc[c] \notin {"commit", "release"}
<1>1. pool[c] = 0
  BY InUse, DescAssumption DEF Desc
<1>2. ASSUME pc[c] = "commit" PROVE FALSE
  <2>1. PICK j \in Ult : join[c] = SyncJoiner(j)
    BY <1>2, SyncWord DEF IInv, TypeOK, ExitState
  <2>2. pc[j] = "blocked" /\ tgt[j] = c
    BY <1>1, <2>1 DEF IInv, JoinerInWord, Desc
  <2>3. QED
    BY <2>2, DescAssumption DEF IInv, WaitState, Desc
<1>3. pc[c] # "release"
  BY <1>1, DescAssumption DEF IInv, ExitState, HandleState, Desc
<1>4. QED
  BY <1>2, <1>3

(* The steps of the program's own code.  A new descriptor comes from the   *)
(* pool, so nothing refers to it yet.                                      *)
LEMMA SpawnKeeps ==
  ASSUME IInv, NEW p \in Desc, NEW c \in Desc, NEW hs \in SUBSET Handles(p),
      Spawn(p, c, hs)
  PROVE  IInv'
<1>1. TypeOK'
  BY WordsTyped DEF IInv, TypeOK, Spawn, Allocate, WakerState, Control
<1>2. FreeIsQuiet'
  BY DescAssumption DEF IInv, TypeOK, FreeIsQuiet, Spawn, Allocate, Handles,
      InUserCode
<1>3. FinishedIsOver'
  BY DescAssumption, WordsDiffer DEF IInv, TypeOK, FinishedIsOver, Spawn,
      Allocate, InUserCode
<1>4. JoinerInWord'
  BY WordsDiffer DEF IInv, TypeOK, JoinerInWord, FreeIsQuiet, Spawn,
      Allocate, InUserCode
<1>5. ExitState'
  BY DEF IInv, TypeOK, ExitState, Spawn, Allocate
<1>6. HandleState'
  BY DescAssumption, WordsDiffer DEF IInv, TypeOK, HandleState, Spawn,
      Allocate, Handles
<1>7. WaitState'
  BY DescAssumption DEF IInv, TypeOK, WaitState, FreeIsQuiet, ExitState,
      Spawn, Allocate, Handles, InUserCode
<1>8. PendState'
  BY DescAssumption DEF IInv, TypeOK, PendState, FreeIsQuiet, Spawn,
      Allocate, Handles, Desc
<1>9. QED
  BY <1>1, <1>2, <1>3, <1>4, <1>5, <1>6, <1>7, <1>8 DEF IInv

(* The same for a spawned async task,                                      *)
LEMMA SpawnAsyncKeeps ==
  ASSUME IInv, NEW p \in Desc, NEW c \in Desc, NEW hs \in SUBSET Handles(p),
      SpawnAsync(p, c, hs)
  PROVE  IInv'
<1>1. TypeOK'
  BY WordsTyped DEF IInv, TypeOK, SpawnAsync, Allocate, WakerState, Control
<1>2. FreeIsQuiet'
  BY DescAssumption DEF IInv, TypeOK, FreeIsQuiet, SpawnAsync, Allocate,
      Handles, Desc
<1>3. FinishedIsOver'
  BY DescAssumption, WordsDiffer DEF IInv, TypeOK, FinishedIsOver,
      SpawnAsync, Allocate
<1>4. JoinerInWord'
  BY WordsDiffer DEF IInv, TypeOK, JoinerInWord, FreeIsQuiet, SpawnAsync,
      Allocate
<1>5. ExitState'
  BY DEF IInv, TypeOK, ExitState, SpawnAsync, Allocate, InUserCode
<1>6. HandleState'
  BY DescAssumption, WordsDiffer DEF IInv, TypeOK, HandleState, SpawnAsync,
      Allocate, Handles, Desc
<1>7. WaitState'
  BY DEF IInv, TypeOK, WaitState, FreeIsQuiet, ExitState, SpawnAsync,
      Allocate, Handles, InUserCode
<1>8. PendState'
  BY DescAssumption DEF IInv, TypeOK, PendState, FreeIsQuiet, SpawnAsync,
      Allocate, Handles, Desc
<1>9. QED
  BY <1>1, <1>2, <1>3, <1>4, <1>5, <1>6, <1>7, <1>8 DEF IInv

(* and for a branch of parallel_call.                                      *)
LEMMA ForkKeeps ==
  ASSUME IInv, NEW p \in Desc, NEW c \in Desc, NEW hs \in SUBSET Handles(p),
      Fork(p, c, hs)
  PROVE  IInv'
<1>1. TypeOK'
  BY WordsTyped DEF IInv, TypeOK, Fork, Allocate, WakerState, Control
<1>2. FreeIsQuiet'
  BY DescAssumption DEF IInv, TypeOK, FreeIsQuiet, Fork, Allocate, Handles
<1>3. FinishedIsOver'
  BY DescAssumption, WordsDiffer DEF IInv, TypeOK, FinishedIsOver, Fork,
      Allocate
<1>4. JoinerInWord'
  BY WordsDiffer DEF IInv, TypeOK, JoinerInWord, FreeIsQuiet, Fork, Allocate
<1>5. ExitState'
  BY DEF IInv, TypeOK, ExitState, Fork, Allocate, InUserCode
<1>6. HandleState'
  BY DescAssumption, WordsDiffer DEF IInv, TypeOK, HandleState, Fork,
      Allocate, Handles
<1>7. WaitState'
  BY DEF IInv, TypeOK, WaitState, FreeIsQuiet, ExitState, Fork, Allocate,
      Handles, InUserCode
<1>8. PendState'
  BY DescAssumption DEF IInv, TypeOK, PendState, FreeIsQuiet, Fork,
      Allocate, Handles, Desc
<1>9. QED
  BY <1>1, <1>2, <1>3, <1>4, <1>5, <1>6, <1>7, <1>8 DEF IInv

(* A fresh branch has never run: nothing waits for it and no poll saw it.  *)
LEMMA TakeBackKeeps ==
  ASSUME IInv, NEW p \in Desc, NEW c \in Desc, TakeBack(p, c)
  PROVE  IInv'
<1>1. TypeOK'
  BY DEF IInv, TypeOK, TakeBack, Control
<1>2. FreeIsQuiet'
  BY DescAssumption, InUse DEF IInv, TypeOK, FreeIsQuiet, WaitState,
      TakeBack, InUserCode
<1>3. FinishedIsOver'
  BY DescAssumption DEF IInv, TypeOK, FinishedIsOver, TakeBack, Desc
<1>4. JoinerInWord'
  BY DEF IInv, TypeOK, JoinerInWord, TakeBack
<1>5. ExitState'
  BY DescAssumption DEF IInv, TypeOK, ExitState, WaitState, TakeBack, Desc
<1>6. HandleState'
  BY DescAssumption DEF IInv, TypeOK, HandleState, TakeBack
<1>7. WaitState'
  BY DEF IInv, TypeOK, WaitState, TakeBack, InUserCode
<1>8. PendState'
  <2> SUFFICES ASSUME NEW q \in Desc, NEW e \in pend[q],
                      pc'[q] \in {"running", "parking", "parked"}
               PROVE  /\ held'[e] = q
                      /\ \/ q \in Ult /\ pc'[q] = "running"
                         \/ join[e] \in {AsyncWaker(q), AsyncJoiner(q)}
                         \/ <<e, q>> \in wakes
                         \/ wstate[q] = "NOTIFIED"
    BY DEF PendState, TakeBack
  <2>1. p \in Ult /\ tgt[p] = None
    BY DEF IInv, HandleState, TakeBack, InUserCode
  <2>2. q # c /\ pc'[q] = pc[q]
    BY DEF IInv, TypeOK, TakeBack
  <2>3. held[e] = q /\ e \in Desc
    BY <2>2 DEF IInv, TypeOK, PendState
  <2>4. e # c
    <3>1. pend[p] \subseteq {None}
      BY <2>1 DEF IInv, WaitState
    <3>2. QED
      BY <2>3, <3>1, DescAssumption DEF TakeBack, Desc
  <2>5. held'[e] = q
    BY <2>2, <2>3, <2>4 DEF IInv, TypeOK, TakeBack
  <2>6. QED
    BY <2>2, <2>5 DEF IInv, PendState
<1>9. QED
  BY <1>1, <1>2, <1>3, <1>4, <1>5, <1>6, <1>7, <1>8 DEF IInv

(* A ready task was made so by a wake or an exit that left its word as it  *)
(* needs it; mark_polling starts a new poll with nothing pending.          *)
LEMMA DispatchKeeps ==
  ASSUME IInv, NEW p \in Desc, Dispatch(p)
  PROVE  IInv'
<1>1. TypeOK'
  BY DEF IInv, TypeOK, Dispatch, WakerState, Control
<1>2. FreeIsQuiet'
  BY DEF IInv, TypeOK, FreeIsQuiet, Dispatch
<1>3. FinishedIsOver'
  BY DEF IInv, TypeOK, FinishedIsOver, Dispatch
<1>4. JoinerInWord'
  BY DEF IInv, TypeOK, JoinerInWord, Dispatch
<1>5. ExitState'
  BY DEF IInv, TypeOK, ExitState, Dispatch
<1>6. HandleState'
  BY DEF IInv, TypeOK, HandleState, Dispatch
<1>7. WaitState'
  BY DescAssumption DEF IInv, TypeOK, WaitState, Dispatch
<1>8. PendState'
  <2> SUFFICES ASSUME NEW q \in Desc, NEW e \in pend'[q]
               PROVE  pc'[q] \in {"running", "parking", "parked"} =>
                 /\ held[e] = q
                 /\ \/ q \in Ult /\ pc'[q] = "running"
                    \/ join[e] \in {AsyncWaker(q), AsyncJoiner(q)}
                    \/ <<e, q>> \in wakes
                    \/ wstate'[q] = "NOTIFIED"
    BY DEF PendState, Dispatch
  <2>1. CASE q = p
    <3>1. p \in Ult /\ e \in pend[p] /\ e \in Desc
      BY <2>1 DEF IInv, TypeOK, Dispatch, Desc
    <3>2. tgt[p] = e /\ held[e] = p /\ pc'[p] = "running"
      BY <3>1, DescAssumption DEF IInv, TypeOK, WaitState, Dispatch, Desc
    <3>3. QED
      BY <2>1, <3>1, <3>2
  <2>2. CASE q # p
    BY <2>2 DEF IInv, TypeOK, PendState, Dispatch
  <2>3. QED
    BY <2>1, <2>2
<1>9. QED
  BY <1>1, <1>2, <1>3, <1>4, <1>5, <1>6, <1>7, <1>8 DEF IInv

(* yield_now: a polled task that yields has a wake of its own in its state.*)
LEMMA YieldKeeps ==
  ASSUME IInv, NEW p \in Desc, Yield(p)
  PROVE  IInv'
<1>1. TypeOK'
  BY DEF IInv, TypeOK, Yield, WakerState, Control
<1>2. FreeIsQuiet'
  BY DEF IInv, TypeOK, FreeIsQuiet, Yield, InUserCode
<1>3. FinishedIsOver'
  BY DEF IInv, TypeOK, FinishedIsOver, Yield, InUserCode
<1>4. JoinerInWord'
  BY DEF IInv, TypeOK, JoinerInWord, Yield, InUserCode
<1>5. ExitState'
  BY DEF IInv, TypeOK, ExitState, Yield
<1>6. HandleState'
  BY DEF IInv, TypeOK, HandleState, Yield
<1>7. WaitState'
  BY DEF IInv, TypeOK, WaitState, Yield, InUserCode, Desc
<1>8. PendState'
  BY DEF IInv, TypeOK, PendState, Yield, InUserCode
<1>9. QED
  BY <1>1, <1>2, <1>3, <1>4, <1>5, <1>6, <1>7, <1>8 DEF IInv

(* The four ways to take a result: FinishedIsOver says that the exit path  *)
(* is over, WaitState that nobody else is waiting.                         *)
LEMMA JoinFinishedKeeps ==
  ASSUME IInv, NEW p \in Desc, NEW c \in Desc, JoinFinished(p, c)
  PROVE  IInv'
<1>1. TypeOK'
  BY InUse DEF IInv, TypeOK, WaitState, JoinFinished, TakeResult
<1>2. FreeIsQuiet'
  BY DescAssumption, InUse DEF IInv, TypeOK, FreeIsQuiet, WaitState,
      JoinFinished, TakeResult, InUserCode, Desc
<1>3. FinishedIsOver'
  BY DEF IInv, TypeOK, FinishedIsOver, JoinFinished, TakeResult
<1>4. JoinerInWord'
  BY DEF IInv, TypeOK, JoinerInWord, JoinFinished, TakeResult
<1>5. ExitState'
  BY DescAssumption DEF IInv, TypeOK, ExitState, JoinFinished, TakeResult,
      Desc
<1>6. HandleState'
  BY DEF IInv, TypeOK, HandleState, JoinFinished, TakeResult
<1>7. WaitState'
  BY DEF IInv, TypeOK, WaitState, JoinFinished, TakeResult, InUserCode
<1>8. PendState'
  BY DEF IInv, TypeOK, PendState, JoinFinished, TakeResult
<1>9. QED
  BY <1>1, <1>2, <1>3, <1>4, <1>5, <1>6, <1>7, <1>8 DEF IInv

(* A joiner leaves its code with nothing pending.                          *)
LEMMA JoinSuspendKeeps ==
  ASSUME IInv, NEW p \in Desc, NEW c \in Desc, JoinSuspend(p, c)
  PROVE  IInv'
<1>1. TypeOK'
  BY DEF IInv, TypeOK, JoinSuspend, Control
<1>2. FreeIsQuiet'
  BY DescAssumption DEF IInv, TypeOK, FreeIsQuiet, JoinSuspend, InUserCode
<1>3. FinishedIsOver'
  BY DEF IInv, TypeOK, FinishedIsOver, JoinSuspend, InUserCode
<1>4. JoinerInWord'
  BY DEF IInv, TypeOK, JoinerInWord, JoinSuspend, InUserCode
<1>5. ExitState'
  BY DEF IInv, TypeOK, ExitState, JoinSuspend
<1>6. HandleState'
  BY DEF IInv, TypeOK, HandleState, JoinSuspend
<1>7. WaitState'
  BY DescAssumption DEF IInv, TypeOK, WaitState, JoinSuspend, InUserCode,
      Desc
<1>8. PendState'
  BY DEF IInv, TypeOK, PendState, JoinSuspend
<1>9. QED
  BY <1>1, <1>2, <1>3, <1>4, <1>5, <1>6, <1>7, <1>8 DEF IInv

(* The joiner publishes its token: the old word cannot be FINISHED, nor a  *)
(* handed-over joiner, since the joiner owns the handle.                   *)
LEMMA TryRegisterJoinerKeeps ==
  ASSUME IInv, NEW p \in Desc, TryRegisterJoiner(p)
  PROVE  IInv'
<1>a. PICK c \in Desc : c = tgt[p]
  BY DescAssumption DEF IInv, TypeOK, WaitState, TryRegisterJoiner
<1>b. p \in Ult /\ pc[p] = "joining" /\ held[c] = p /\ pool[c] = 0
  BY <1>a, InUse, DescAssumption DEF IInv, TypeOK, WaitState, TryRegisterJoiner, Desc
<1>1. TypeOK'
  <2>1. join' \in [Desc -> JoinState]
    BY <1>a, <1>b, WordsTyped DEF IInv, TypeOK, TryRegisterJoiner
  <2>2. pc' \in [Desc -> Control]
    BY DEF IInv, TypeOK, TryRegisterJoiner, Control
  <2>3. QED
    BY <2>1, <2>2 DEF IInv, TypeOK, TryRegisterJoiner
<1>2. FreeIsQuiet'
  BY DEF IInv, TypeOK, FreeIsQuiet, TryRegisterJoiner
<1>3. FinishedIsOver'
  BY WordsDiffer DEF IInv, TypeOK, FinishedIsOver, TryRegisterJoiner
<1>4. JoinerInWord'
  BY WordsDecode, WordsTyped DEF IInv, TypeOK, JoinerInWord, WaitState,
      TryRegisterJoiner, Desc
<1>5. ExitState'
  BY DescAssumption, WordsDecode, InUse DEF IInv, TypeOK, ExitState,
      HandleState, WaitState, TryRegisterJoiner
<1>6. HandleState'
  BY DescAssumption, WordsDiffer DEF IInv, TypeOK, HandleState, WaitState,
      TryRegisterJoiner
<1>7. WaitState'
  BY DescAssumption DEF IInv, TypeOK, WaitState, TryRegisterJoiner
<1>8. PendState'
  <2> SUFFICES ASSUME NEW q \in Desc, NEW e \in pend[q]
               PROVE  pc'[q] \in {"running", "parking", "parked"} =>
                 /\ held[e] = q
                 /\ \/ q \in Ult /\ pc'[q] = "running"
                    \/ join'[e] \in {AsyncWaker(q), AsyncJoiner(q)}
                    \/ <<e, q>> \in wakes
                    \/ wstate[q] = "NOTIFIED"
    BY DEF PendState, TryRegisterJoiner
  <2>1. CASE q = p
    <3>1. pc'[p] \in {"running", "blocked"} /\ e = c
      BY <1>a, <1>b, <2>1 DEF IInv, TypeOK, WaitState, TryRegisterJoiner
    <3>2. QED
      BY <1>b, <2>1, <3>1
  <2>2. CASE q # p
    <3>1. pc'[q] = pc[q]
      BY <2>2 DEF IInv, TypeOK, TryRegisterJoiner
    <3>2. held[e] = q => join'[e] = join[e]
      BY <1>a, <1>b, <2>2 DEF IInv, TypeOK, TryRegisterJoiner
    <3>3. QED
      BY <3>1, <3>2 DEF IInv, PendState
  <2>3. QED
    BY <2>1, <2>2
<1>9. QED
  BY <1>1, <1>2, <1>3, <1>4, <1>5, <1>6, <1>7, <1>8 DEF IInv

(* join() back from its suspension, by a hand-over or a cancelled one.     *)
LEMMA JoinReturnKeeps ==
  ASSUME IInv, NEW p \in Desc, JoinReturn(p)
  PROVE  IInv'
<1>1. TypeOK'
  BY InUse DEF IInv, TypeOK, WaitState, JoinReturn, TakeResult
<1>2. FreeIsQuiet'
  BY InUse DEF IInv, TypeOK, FreeIsQuiet, ExitState, WaitState, JoinReturn,
      TakeResult
<1>3. FinishedIsOver'
  BY DEF IInv, TypeOK, FinishedIsOver, JoinReturn, TakeResult
<1>4. JoinerInWord'
  BY DEF IInv, TypeOK, JoinerInWord, JoinReturn, TakeResult
<1>5. ExitState'
  BY DescAssumption DEF IInv, TypeOK, ExitState, WaitState, JoinReturn,
      TakeResult, Desc
<1>6. HandleState'
  BY DEF IInv, TypeOK, HandleState, JoinReturn, TakeResult
<1>7. WaitState'
  BY DEF IInv, TypeOK, WaitState, JoinReturn, TakeResult
<1>8. PendState'
  BY DEF IInv, TypeOK, WaitState, PendState, JoinReturn, TakeResult
<1>9. QED
  BY <1>1, <1>2, <1>3, <1>4, <1>5, <1>6, <1>7, <1>8 DEF IInv

(* A poll registers the polled task over whatever the word held.           *)
LEMMA PollHandleKeeps ==
  ASSUME IInv, NEW p \in Desc, NEW c \in Desc, PollHandle(p, c)
  PROVE  IInv'
<1>a. pc[p] = "running" /\ pool[c] = 0
  BY InUse, DescAssumption DEF IInv, TypeOK, PollHandle, InUserCode, Desc
<1>b. pc[c] \notin {"commit", "release"}
  BY <1>a, HeldStays, DescAssumption DEF PollHandle, Desc
<1>1. TypeOK'
  <2>1. CASE join[c] = FINISHED
    <3>1. pool[c] + 1 \in Nat /\ pend[p] \ {c} \in SUBSET Desc
      BY <1>a DEF IInv, TypeOK
    <3>2. c \notin fresh
      BY <1>a, <2>1 DEF IInv, FinishedIsOver, WaitState
    <3>3. QED
      BY <1>a, <2>1, <3>1, <3>2 DEF IInv, TypeOK, PollHandle, TakeResult, WakerState
  <2>2. CASE join[c] # FINISHED
    <3>1. join' \in [Desc -> JoinState]
      BY <2>2, WordsTyped DEF IInv, TypeOK, PollHandle
    <3>2. pend' \in [Desc -> SUBSET Desc]
      BY <2>2 DEF IInv, TypeOK, PollHandle
    <3>3. QED
      BY <2>2, <3>1, <3>2 DEF IInv, TypeOK, PollHandle
  <2>3. QED
    BY <2>1, <2>2
<1>2. FreeIsQuiet'
  <2>1. CASE join[c] = FINISHED
    <3>1. pc[c] = "done" /\ pool' = [pool EXCEPT ![c] = 1] /\ held' = [held EXCEPT ![c] = None]
      BY <1>a, <2>1 DEF IInv, TypeOK, FinishedIsOver, PollHandle, TakeResult
    <3>2. \A q \in Desc : tgt[q] # c
      BY <1>a, <2>1, DescAssumption DEF IInv, TypeOK, WaitState, PollHandle, InUserCode, Desc
    <3>3. QED
      BY <2>1, <3>1, <3>2 DEF IInv, TypeOK, FreeIsQuiet, PollHandle
  <2>2. CASE join[c] # FINISHED
    BY <1>a, <2>2 DEF IInv, TypeOK, FreeIsQuiet, PollHandle
  <2>3. QED
    BY <2>1, <2>2
<1>3. FinishedIsOver'
  BY WordsDiffer DEF IInv, TypeOK, FinishedIsOver, PollHandle, TakeResult
<1>4. JoinerInWord'
  BY WordsDiffer DEF IInv, TypeOK, JoinerInWord, WaitState, PollHandle,
      TakeResult, InUserCode
<1>5. ExitState'
  <2>1. CASE join[c] = FINISHED
    BY <1>a, <1>b, <2>1, InUse, DescAssumption
    DEF IInv, TypeOK, ExitState, PollHandle, TakeResult, Desc
  <2>2. CASE join[c] # FINISHED
    <3>1. join' = [join EXCEPT ![c] = join'[c]] /\ join'[c] # FINISHED
      BY <1>a, <1>b, <2>2, WordsDiffer DEF IInv, TypeOK, PollHandle
    <3>2. \A e \in Desc : pc[e] # "running" => pc'[e] = pc[e] /\ result'[e] = result[e]
      BY <1>a, <1>b, <2>2 DEF IInv, TypeOK, PollHandle
    <3>3. QED
      BY <1>a, <1>b, <2>2, <3>1, <3>2, InUse, DescAssumption
      DEF IInv, TypeOK, ExitState, PollHandle, Desc
  <2>3. QED
    BY <2>1, <2>2
<1>6. HandleState'
  BY DescAssumption, WordsDiffer DEF IInv, TypeOK, HandleState, PollHandle,
      TakeResult
<1>7. WaitState'
  BY DEF IInv, TypeOK, WaitState, PollHandle, TakeResult, InUserCode
<1>8. PendState'
  BY DEF IInv, TypeOK, PendState, PollHandle, TakeResult
<1>9. QED
  BY <1>1, <1>2, <1>3, <1>4, <1>5, <1>6, <1>7, <1>8 DEF IInv

(* A poll that returns Pending has its registrations in place.             *)
LEMMA ReturnPendingKeeps ==
  ASSUME IInv, NEW p \in Desc, ReturnPending(p)
  PROVE  IInv'
<1>1. TypeOK'
  BY DEF IInv, TypeOK, ReturnPending, Control
<1>2. FreeIsQuiet'
  BY DEF IInv, TypeOK, FreeIsQuiet, ReturnPending, InUserCode
<1>3. FinishedIsOver'
  BY DEF IInv, TypeOK, FinishedIsOver, ReturnPending, InUserCode
<1>4. JoinerInWord'
  BY DEF IInv, TypeOK, JoinerInWord, ReturnPending, InUserCode
<1>5. ExitState'
  BY DEF IInv, TypeOK, ExitState, ReturnPending
<1>6. HandleState'
  BY DEF IInv, TypeOK, HandleState, ReturnPending
<1>7. WaitState'
  BY DEF IInv, TypeOK, WaitState, ReturnPending, InUserCode
<1>8. PendState'
  BY DescAssumption DEF IInv, TypeOK, PendState, ReturnPending, InUserCode
<1>9. QED
  BY <1>1, <1>2, <1>3, <1>4, <1>5, <1>6, <1>7, <1>8 DEF IInv

(* block_on starts from an idle wake state.                                *)
LEMMA BlockOnKeeps ==
  ASSUME IInv, NEW p \in Desc, NEW c \in Desc, BlockOn(p, c)
  PROVE  IInv'
<1>1. TypeOK'
  BY DEF IInv, TypeOK, BlockOn, WakerState
<1>2. FreeIsQuiet'
  BY DescAssumption DEF IInv, TypeOK, FreeIsQuiet, BlockOn
<1>3. FinishedIsOver'
  BY DEF IInv, TypeOK, FinishedIsOver, BlockOn
<1>4. JoinerInWord'
  BY DEF IInv, TypeOK, JoinerInWord, BlockOn, InUserCode
<1>5. ExitState'
  BY DEF IInv, TypeOK, ExitState, BlockOn, InUserCode
<1>6. HandleState'
  BY DEF IInv, TypeOK, HandleState, BlockOn
<1>7. WaitState'
  BY DescAssumption DEF IInv, TypeOK, WaitState, BlockOn, InUserCode, Desc
<1>8. PendState'
  BY DEF IInv, TypeOK, PendState, BlockOn, InUserCode
<1>9. QED
  BY <1>1, <1>2, <1>3, <1>4, <1>5, <1>6, <1>7, <1>8 DEF IInv

(* The same for the stackful poller, which waits for one handle only.      *)
LEMMA BlockOnPollKeeps ==
  ASSUME IInv, NEW p \in Desc, BlockOnPoll(p)
  PROVE  IInv'
<1>a. PICK c \in Desc : c = tgt[p]
  BY DEF IInv, TypeOK, BlockOnPoll
<1>b. p \in Ult /\ pc[p] = "running" /\ held[c] = p /\ pool[c] = 0
  BY <1>a, InUse, DescAssumption DEF IInv, TypeOK, WaitState, BlockOnPoll, Desc
<1>c. pc[c] \notin {"commit", "release"}
  BY <1>a, <1>b, HeldStays
<1>1. TypeOK'
  <2>1. CASE join[c] = FINISHED
    <3>1. pool[c] + 1 \in Nat /\ pend[p] \ {c} \in SUBSET Desc
      BY <1>a, <1>b DEF IInv, TypeOK
    <3>2. c \notin fresh
      BY <1>a, <1>b, <2>1 DEF IInv, FinishedIsOver, WaitState
    <3>3. QED
      BY <1>a, <1>b, <2>1, <3>1, <3>2 DEF IInv, TypeOK, BlockOnPoll, TakeResult, WakerState
  <2>2. CASE join[c] # FINISHED
    <3>1. join' \in [Desc -> JoinState]
      BY <1>a, <1>b, <2>2, WordsTyped DEF IInv, TypeOK, BlockOnPoll
    <3>2. pc' \in [Desc -> Control] /\ pend' \in [Desc -> SUBSET Desc]
      BY <1>a, <2>2 DEF IInv, TypeOK, BlockOnPoll, Control
    <3>3. QED
      BY <1>a, <2>2, <3>1, <3>2 DEF IInv, TypeOK, BlockOnPoll
  <2>3. QED
    BY <2>1, <2>2
<1>2. FreeIsQuiet'
  <2>1. CASE join[c] = FINISHED
    <3>1. pc'[c] = "done" /\ held'[c] = None /\ pool'[c] = 1
      BY <1>a, <1>b, <2>1 DEF IInv, TypeOK, FinishedIsOver, BlockOnPoll, TakeResult
    <3>2. \A q \in Desc : tgt'[q] # c
      BY <1>a, <1>b, <2>1, DescAssumption
      DEF IInv, TypeOK, WaitState, BlockOnPoll, Desc
    <3>3. QED
      BY <1>a, <2>1, <3>1, <3>2, DescAssumption
      DEF IInv, TypeOK, FreeIsQuiet, BlockOnPoll, TakeResult, Desc
  <2>2. CASE join[c] # FINISHED
    BY <1>a, <1>b, <2>2 DEF IInv, TypeOK, FreeIsQuiet, BlockOnPoll
  <2>3. QED
    BY <2>1, <2>2
<1>3. FinishedIsOver'
  BY WordsDiffer DEF IInv, TypeOK, FinishedIsOver, BlockOnPoll, TakeResult
<1>4. JoinerInWord'
  BY WordsDiffer DEF IInv, TypeOK, JoinerInWord, WaitState, BlockOnPoll,
      TakeResult
<1>5. ExitState'
  <2>1. CASE join[c] = FINISHED
    BY <1>a, <1>b, <1>c, <2>1, InUse, DescAssumption
    DEF IInv, TypeOK, ExitState, BlockOnPoll, TakeResult, Desc
  <2>2. CASE join[c] # FINISHED
    <3>1. join' = [join EXCEPT ![c] = join'[c]] /\ join'[c] # FINISHED
      BY <1>a, <1>b, <1>c, <2>2, WordsDiffer DEF IInv, TypeOK, BlockOnPoll
    <3>2. \A e \in Desc : pc[e] # "running" => pc'[e] = pc[e] /\ result'[e] = result[e]
      BY <1>a, <1>b, <1>c, <2>2 DEF IInv, TypeOK, BlockOnPoll
    <3>3. QED
      BY <1>a, <1>b, <1>c, <2>2, <3>1, <3>2, InUse, DescAssumption
      DEF IInv, TypeOK, ExitState, BlockOnPoll, Desc
  <2>3. QED
    BY <2>1, <2>2
<1>6. HandleState'
  BY DescAssumption, WordsDiffer DEF IInv, TypeOK, HandleState, WaitState,
      BlockOnPoll, TakeResult
<1>7. WaitState'
  BY DescAssumption DEF IInv, TypeOK, WaitState, BlockOnPoll, TakeResult
<1>8. PendState'
  <2> SUFFICES ASSUME NEW q \in Desc, NEW e \in pend'[q],
                      pc'[q] \in {"running", "parking", "parked"}
               PROVE  /\ held'[e] = q
                      /\ \/ q \in Ult /\ pc'[q] = "running"
                         \/ join'[e] \in {AsyncWaker(q), AsyncJoiner(q)}
                         \/ <<e, q>> \in wakes
                         \/ wstate'[q] = "NOTIFIED"
    BY DEF PendState, BlockOnPoll
  <2>1. CASE q = p
    <3>1. join[c] # FINISHED
      BY <1>a, <1>b, <2>1 DEF IInv, TypeOK, WaitState, BlockOnPoll, TakeResult
    <3>2. e = c /\ held'[e] = p /\ join'[e] = AsyncWaker(p)
      BY <1>a, <1>b, <2>1, <3>1 DEF IInv, TypeOK, BlockOnPoll
    <3>3. QED
      BY <2>1, <3>2
  <2>2. CASE q # p
    <3>1. pc'[q] = pc[q] /\ e \in pend[q] /\ wstate'[q] = wstate[q]
      BY <1>a, <2>2 DEF IInv, TypeOK, BlockOnPoll, TakeResult
    <3>2. held[e] = q /\ e # c
      BY <1>b, <2>2, <3>1 DEF IInv, PendState
    <3>3. held'[e] = q /\ join'[e] = join[e]
      BY <1>a, <3>2 DEF IInv, TypeOK, BlockOnPoll, TakeResult
    <3>4. QED
      BY <3>1, <3>3 DEF IInv, PendState, BlockOnPoll
  <2>3. QED
    BY <2>1, <2>2
<1>9. QED
  BY <1>1, <1>2, <1>3, <1>4, <1>5, <1>6, <1>7, <1>8 DEF IInv

(* decide_park parks only if no wake came since mark_polling.              *)
LEMMA ParkKeeps ==
  ASSUME IInv, NEW p \in Desc, Park(p)
  PROVE  IInv'
<1>1. TypeOK'
  BY DEF IInv, TypeOK, Park, WakerState, Control
<1>2. FreeIsQuiet'
  BY DEF IInv, TypeOK, FreeIsQuiet, Park
<1>3. FinishedIsOver'
  BY DEF IInv, TypeOK, FinishedIsOver, Park
<1>4. JoinerInWord'
  BY DEF IInv, TypeOK, JoinerInWord, Park
<1>5. ExitState'
  BY DEF IInv, TypeOK, ExitState, Park
<1>6. HandleState'
  BY DEF IInv, TypeOK, HandleState, Park
<1>7. WaitState'
  BY DEF IInv, TypeOK, WaitState, Park
<1>8. PendState'
  BY DEF IInv, TypeOK, PendState, Park, Desc
<1>9. QED
  BY <1>1, <1>2, <1>3, <1>4, <1>5, <1>6, <1>7, <1>8 DEF IInv

(* Dropping a handle leaves DETACHED or a reclaimed task behind.           *)
LEMMA DropHandleKeeps ==
  ASSUME IInv, NEW p \in Desc, NEW c \in Desc, DropHandle(p, c)
  PROVE  IInv'
<1>a. pc[p] = "running" /\ tgt[p] = None /\ pool[c] = 0
  BY InUse, DescAssumption DEF IInv, TypeOK, DropHandle, InUserCode, Desc
<1>b. pc[c] \notin {"commit", "release"}
  BY <1>a, HeldStays, DescAssumption DEF DropHandle, Desc
<1>1. TypeOK'
  BY WordsTyped DEF IInv, TypeOK, DropHandle, TakeResult
<1>2. FreeIsQuiet'
  <2>1. CASE join[c] = FINISHED
    <3>1. pc[c] = "done" /\ pool' = [pool EXCEPT ![c] = 1] /\ held' = [held EXCEPT ![c] = None]
      BY <1>a, <2>1 DEF IInv, TypeOK, FinishedIsOver, DropHandle, TakeResult
    <3>2. \A q \in Desc : tgt[q] # c
      BY <1>a, <2>1, DescAssumption DEF IInv, TypeOK, WaitState, DropHandle, InUserCode, Desc
    <3>3. QED
      BY <2>1, <3>1, <3>2 DEF IInv, TypeOK, FreeIsQuiet, DropHandle
  <2>2. CASE join[c] # FINISHED
    BY <1>a, <2>2 DEF IInv, TypeOK, FreeIsQuiet, DropHandle
  <2>3. QED
    BY <2>1, <2>2
<1>3. FinishedIsOver'
  BY WordsDiffer DEF IInv, TypeOK, FinishedIsOver, DropHandle, TakeResult
<1>4. JoinerInWord'
  BY WordsDiffer DEF IInv, TypeOK, JoinerInWord, WaitState, DropHandle,
      TakeResult, InUserCode
<1>5. ExitState'
  <2>1. CASE join[c] = FINISHED
    BY <1>a, <1>b, <2>1, InUse, DescAssumption
    DEF IInv, TypeOK, ExitState, DropHandle, TakeResult, Desc
  <2>2. CASE join[c] # FINISHED
    <3>1. join' = [join EXCEPT ![c] = join'[c]] /\ join'[c] # FINISHED
      BY <1>a, <1>b, <2>2, WordsDiffer DEF IInv, TypeOK, DropHandle
    <3>2. \A e \in Desc : pc[e] # "running" => pc'[e] = pc[e] /\ result'[e] = result[e]
      BY <1>a, <1>b, <2>2 DEF IInv, TypeOK, DropHandle
    <3>3. QED
      BY <1>a, <1>b, <2>2, <3>1, <3>2, InUse, DescAssumption
      DEF IInv, TypeOK, ExitState, DropHandle, Desc
  <2>3. QED
    BY <2>1, <2>2
<1>6. HandleState'
  BY DEF IInv, TypeOK, HandleState, DropHandle, TakeResult
<1>7. WaitState'
  BY DEF IInv, TypeOK, WaitState, DropHandle, TakeResult, InUserCode
<1>8. PendState'
  BY DEF IInv, TypeOK, PendState, DropHandle, TakeResult
<1>9. QED
  BY <1>1, <1>2, <1>3, <1>4, <1>5, <1>6, <1>7, <1>8 DEF IInv

(* The exit of a task whose joiner is parked.                              *)
LEMMA ExitToJoinerKeeps ==
  ASSUME IInv, NEW d \in Desc, ExitToJoiner(d)
  PROVE  IInv'
<1>1. TypeOK'
  BY DEF IInv, TypeOK, ExitToJoiner, Control
<1>2. FreeIsQuiet'
  BY DEF IInv, TypeOK, FreeIsQuiet, ExitToJoiner, MayExit, InUserCode
<1>3. FinishedIsOver'
  BY DEF IInv, TypeOK, FinishedIsOver, ExitToJoiner, MayExit, InUserCode
<1>4. JoinerInWord'
  BY DEF IInv, TypeOK, JoinerInWord, ExitToJoiner, MayExit, InUserCode
<1>5. ExitState'
  BY InUse DEF IInv, TypeOK, ExitState, ExitToJoiner, MayExit, Handles,
      InUserCode
<1>6. HandleState'
  BY DEF IInv, TypeOK, HandleState, ExitToJoiner
<1>7. WaitState'
  BY DEF IInv, TypeOK, WaitState, ExitToJoiner, MayExit, InUserCode
<1>8. PendState'
  BY DEF IInv, TypeOK, PendState, ExitToJoiner
<1>9. QED
  BY <1>1, <1>2, <1>3, <1>4, <1>5, <1>6, <1>7, <1>8 DEF IInv

(* The hand-over: the joiner in the word is blocked on d and stays so until*)
(* this very step resumes it.                                              *)
LEMMA CommitFinishedKeeps ==
  ASSUME IInv, NEW d \in Desc, CommitFinished(d)
  PROVE  IInv'
<1>a. PICK j \in Ult : join[d] = SyncJoiner(j)
  BY SyncWord DEF IInv, TypeOK, ExitState, CommitFinished
<1>b. /\ j \in Desc /\ j # d /\ pool[d] = 0 /\ pc[d] = "commit"
      /\ pc[j] = "blocked" /\ tgt[j] = d /\ wstate[j] = "IDLE"
  BY <1>a, InUse DEF IInv, JoinerInWord, WaitState, CommitFinished, Desc
<1>c. /\ join' = [join EXCEPT ![d] = FINISHED]
      /\ pc' = [x \in Desc |-> CASE x = d -> "done"
                                  [] x = j -> "running"
                                  [] OTHER -> pc[x]]
      /\ UNCHANGED <<pool, wstate, held, tgt, pend, result, branch, fresh, wakes>>
  BY <1>a, WordsDecode DEF CommitFinished
<1>1. TypeOK'
  BY <1>b, <1>c, WordsTyped DEF IInv, TypeOK, Control
<1>2. FreeIsQuiet'
  BY <1>b, <1>c, InUse, WordsDiffer, DescAssumption
  DEF IInv, TypeOK, FreeIsQuiet, Desc
<1>3. FinishedIsOver'
  BY <1>a, <1>b, <1>c, InUse, WordsDiffer, DescAssumption
  DEF IInv, TypeOK, FinishedIsOver, ExitState, HandleState, Desc
<1>4. JoinerInWord'
  <2> SUFFICES ASSUME NEW q \in Desc, NEW e \in Desc, pool[e] = 0
               PROVE  join'[e] = SyncJoiner(q) <=> pc'[q] = "blocked" /\ tgt[q] = e
    BY <1>c DEF JoinerInWord
  <2>1. CASE e = d
    <3>1. join'[e] # SyncJoiner(q)
      BY <1>c, <2>1, WordsDiffer DEF IInv, TypeOK
    <3>2. q # j => ~ (pc[q] = "blocked" /\ tgt[q] = d)
      BY <1>a, <1>b, WordsDecode DEF IInv, JoinerInWord
    <3>3. QED
      BY <1>b, <1>c, <2>1, <3>1, <3>2 DEF IInv, TypeOK
  <2>2. CASE e # d
    BY <1>b, <1>c, <2>2 DEF IInv, TypeOK, JoinerInWord
  <2>3. QED
    BY <2>1, <2>2
<1>5. ExitState'
  BY <1>b, <1>c, InUse, WordsDiffer, DescAssumption
  DEF IInv, TypeOK, ExitState, WaitState, Desc
<1>6. HandleState'
  BY <1>a, <1>b, <1>c, InUse, WordsDiffer, DescAssumption
  DEF IInv, TypeOK, HandleState, Desc
<1>7. WaitState'
  BY <1>b, <1>c, InUse, WordsDiffer, DescAssumption
  DEF IInv, TypeOK, WaitState, Desc
<1>8. PendState'
  <2> SUFFICES ASSUME NEW q \in Desc, NEW e \in pend[q]
               PROVE  pc'[q] \in {"running", "parking", "parked"} =>
                 /\ held[e] = q
                 /\ \/ q \in Ult /\ pc'[q] = "running"
                    \/ join'[e] \in {AsyncWaker(q), AsyncJoiner(q)}
                    \/ <<e, q>> \in wakes
                    \/ wstate[q] = "NOTIFIED"
    BY <1>c DEF PendState
  <2>1. CASE q \in {d, j}
    BY <1>b, <1>c, <2>1, DescAssumption DEF IInv, TypeOK, PendState, WaitState
  <2>2. CASE q \notin {d, j}
    <3>1. pc'[q] = pc[q] /\ (e # d => join'[e] = join[e])
      BY <1>c, <2>2 DEF IInv, TypeOK
    <3>2. e = d => join[e] \notin {AsyncWaker(q), AsyncJoiner(q)}
      BY <1>a, WordsDiffer
    <3>3. QED
      BY <3>1, <3>2 DEF IInv, PendState
  <2>3. QED
    BY <2>1, <2>2
<1>9. QED
  BY <1>1, <1>2, <1>3, <1>4, <1>5, <1>6, <1>7, <1>8 DEF IInv

(* The exit without a sync joiner, up to the swap.                         *)
LEMMA ExitAloneKeeps ==
  ASSUME IInv, NEW d \in Desc, ExitAlone(d)
  PROVE  IInv'
<1>1. TypeOK'
  BY DEF IInv, TypeOK, ExitAlone, Control
<1>2. FreeIsQuiet'
  BY DEF IInv, TypeOK, FreeIsQuiet, ExitAlone, MayExit, InUserCode
<1>3. FinishedIsOver'
  BY DEF IInv, TypeOK, FinishedIsOver, ExitAlone, MayExit, InUserCode
<1>4. JoinerInWord'
  BY DEF IInv, TypeOK, JoinerInWord, ExitAlone, MayExit, InUserCode
<1>5. ExitState'
  BY InUse DEF IInv, TypeOK, ExitState, ExitAlone, MayExit, Handles,
      InUserCode
<1>6. HandleState'
  BY DEF IInv, TypeOK, HandleState, ExitAlone
<1>7. WaitState'
  BY DEF IInv, TypeOK, WaitState, ExitAlone, MayExit, InUserCode
<1>8. PendState'
  BY DEF IInv, TypeOK, PendState, ExitAlone
<1>9. QED
  BY <1>1, <1>2, <1>3, <1>4, <1>5, <1>6, <1>7, <1>8 DEF IInv

(* DETACHED is stable: the handle is gone.                                 *)
LEMMA ExitAbandonedKeeps ==
  ASSUME IInv, NEW d \in Desc, ExitAbandoned(d)
  PROVE  IInv'
<1>1. TypeOK'
  BY DEF IInv, TypeOK, ExitAbandoned, Control
<1>2. FreeIsQuiet'
  BY DEF IInv, TypeOK, FreeIsQuiet, ExitAbandoned
<1>3. FinishedIsOver'
  BY DEF IInv, TypeOK, FinishedIsOver, ExitAbandoned
<1>4. JoinerInWord'
  BY DEF IInv, TypeOK, JoinerInWord, ExitAbandoned
<1>5. ExitState'
  BY DEF IInv, TypeOK, ExitState, ExitAbandoned
<1>6. HandleState'
  BY DEF IInv, TypeOK, HandleState, ExitAbandoned
<1>7. WaitState'
  BY DEF IInv, TypeOK, WaitState, ExitAbandoned
<1>8. PendState'
  BY DEF IInv, TypeOK, PendState, ExitAbandoned
<1>9. QED
  BY <1>1, <1>2, <1>3, <1>4, <1>5, <1>6, <1>7, <1>8 DEF IInv

(* The abandoned task is freed after the switch.                           *)
LEMMA FreeTaskKeeps ==
  ASSUME IInv, NEW d \in Desc, FreeTask(d)
  PROVE  IInv'
<1>1. TypeOK'
  BY DEF IInv, TypeOK, FreeTask, Control
<1>2. FreeIsQuiet'
  BY DescAssumption, InUse DEF IInv, TypeOK, FreeIsQuiet, ExitState,
      HandleState, WaitState, FreeTask
<1>3. FinishedIsOver'
  BY DEF IInv, TypeOK, FinishedIsOver, FreeTask
<1>4. JoinerInWord'
  BY DEF IInv, TypeOK, JoinerInWord, FreeTask
<1>5. ExitState'
  BY DEF IInv, TypeOK, ExitState, FreeTask
<1>6. HandleState'
  BY DEF IInv, TypeOK, HandleState, FreeTask
<1>7. WaitState'
  BY DEF IInv, TypeOK, WaitState, FreeTask
<1>8. PendState'
  BY DEF IInv, TypeOK, PendState, FreeTask
<1>9. QED
  BY <1>1, <1>2, <1>3, <1>4, <1>5, <1>6, <1>7, <1>8 DEF IInv

(* The result is in place before FINISHED can be.                          *)
LEMMA ExitWriteResultKeeps ==
  ASSUME IInv, NEW d \in Desc, ExitWriteResult(d)
  PROVE  IInv'
<1>1. TypeOK'
  BY DEF IInv, TypeOK, ExitWriteResult, Control
<1>2. FreeIsQuiet'
  BY DEF IInv, TypeOK, FreeIsQuiet, ExitWriteResult
<1>3. FinishedIsOver'
  BY DEF IInv, TypeOK, FinishedIsOver, ExitWriteResult
<1>4. JoinerInWord'
  BY DEF IInv, TypeOK, JoinerInWord, ExitWriteResult
<1>5. ExitState'
  BY DEF IInv, TypeOK, ExitState, ExitWriteResult
<1>6. HandleState'
  BY DEF IInv, TypeOK, HandleState, ExitWriteResult
<1>7. WaitState'
  BY DEF IInv, TypeOK, WaitState, ExitWriteResult
<1>8. PendState'
  BY DEF IInv, TypeOK, PendState, ExitWriteResult
<1>9. QED
  BY <1>1, <1>2, <1>3, <1>4, <1>5, <1>6, <1>7, <1>8 DEF IInv

(* A polled task that returned Ready goes straight to the swap.            *)
LEMMA PollReadyKeeps ==
  ASSUME IInv, NEW d \in Desc, PollReady(d)
  PROVE  IInv'
<1>1. TypeOK'
  BY DEF IInv, TypeOK, PollReady, WakerState, Control
<1>2. FreeIsQuiet'
  BY DEF IInv, TypeOK, FreeIsQuiet, PollReady, MayExit, InUserCode
<1>3. FinishedIsOver'
  BY DEF IInv, TypeOK, FinishedIsOver, PollReady, MayExit, InUserCode
<1>4. JoinerInWord'
  BY DEF IInv, TypeOK, JoinerInWord, PollReady, MayExit, InUserCode
<1>5. ExitState'
  BY InUse DEF IInv, TypeOK, ExitState, PollReady, MayExit, Handles,
      InUserCode
<1>6. HandleState'
  BY DEF IInv, TypeOK, HandleState, PollReady
<1>7. WaitState'
  BY DEF IInv, TypeOK, WaitState, PollReady, MayExit, InUserCode
<1>8. PendState'
  BY DEF IInv, TypeOK, PendState, PollReady
<1>9. QED
  BY <1>1, <1>2, <1>3, <1>4, <1>5, <1>6, <1>7, <1>8 DEF IInv

(* The swap takes over the old word: joiner, waiter, nobody or DETACHED.   *)
LEMMA FinishAndSettleKeeps ==
  ASSUME IInv, NEW d \in Desc, FinishAndSettle(d)
  PROVE  IInv'
<1>1. TypeOK'
  BY WordsTyped DEF IInv, TypeOK, FinishAndSettle, Control
<1>2. FreeIsQuiet'
  BY DescAssumption, InUse DEF IInv, TypeOK, FreeIsQuiet, JoinerInWord,
      HandleState, WaitState, FinishAndSettle, Desc
<1>3. FinishedIsOver'
  BY InUse DEF IInv, TypeOK, FinishedIsOver, JoinerInWord, ExitState,
      HandleState, FinishAndSettle
<1>4. JoinerInWord'
  BY WordsDiffer, InUse DEF IInv, TypeOK, JoinerInWord, FinishAndSettle
<1>5. ExitState'
  BY DEF IInv, TypeOK, ExitState, FinishAndSettle
<1>6. HandleState'
  BY WordsDiffer DEF IInv, TypeOK, HandleState, FinishAndSettle
<1>7. WaitState'
  BY InUse DEF IInv, TypeOK, JoinerInWord, WaitState, FinishAndSettle
<1>8. PendState'
  BY DEF IInv, TypeOK, PendState, FinishAndSettle
<1>9. QED
  BY <1>1, <1>2, <1>3, <1>4, <1>5, <1>6, <1>7, <1>8 DEF IInv

(* A wake taken from a word reaches a waiter that may have moved on: it    *)
(* never turns a wake state back.                                          *)
LEMMA WakeKeeps ==
  ASSUME IInv, NEW d \in Desc, NEW j \in Desc, Wake(d, j)
  PROVE  IInv'
<1>1. TypeOK'
  BY DEF IInv, TypeOK, Wake, WakerState, Control
<1>2. FreeIsQuiet'
  BY DEF IInv, TypeOK, FreeIsQuiet, WaitState, Wake
<1>3. FinishedIsOver'
  BY DEF IInv, TypeOK, FinishedIsOver, WaitState, Wake
<1>4. JoinerInWord'
  BY DEF IInv, TypeOK, JoinerInWord, WaitState, Wake
<1>5. ExitState'
  BY DEF IInv, TypeOK, ExitState, Wake
<1>6. HandleState'
  BY DEF IInv, TypeOK, HandleState, Wake
<1>7. WaitState'
  BY DEF IInv, TypeOK, WaitState, Wake
<1>8. PendState'
  <2> SUFFICES ASSUME NEW q \in Desc, NEW e \in pend[q]
               PROVE  pc'[q] \in {"running", "parking", "parked"} =>
                 /\ held[e] = q
                 /\ \/ q \in Ult /\ pc'[q] = "running"
                    \/ join[e] \in {AsyncWaker(q), AsyncJoiner(q)}
                    \/ <<e, q>> \in wakes'
                    \/ wstate'[q] = "NOTIFIED"
    BY DEF PendState, Wake
  <2>1. CASE q = j
    <3>1. CASE wstate[j] = "POLLING"
      BY <2>1, <3>1 DEF IInv, TypeOK, PendState, Wake
    <3>2. CASE wstate[j] = "PARKED"
      BY <2>1, <3>2 DEF IInv, TypeOK, Wake
    <3>3. CASE wstate[j] = "NOTIFIED"
      BY <2>1, <3>3 DEF IInv, PendState, Wake
    <3>4. CASE wstate[j] = "IDLE"
      BY <2>1, <3>4 DEF IInv, PendState, WaitState, Wake, Desc
    <3>5. QED
      BY <3>1, <3>2, <3>3, <3>4 DEF IInv, TypeOK, WakerState
  <2>2. CASE q # j
    <3>1. pc'[q] = pc[q] /\ wstate'[q] = wstate[q]
      BY <2>2 DEF IInv, TypeOK, Wake
    <3>2. <<e, q>> \in wakes => <<e, q>> \in wakes'
      BY <2>2 DEF Wake
    <3>3. QED
      BY <3>1, <3>2 DEF IInv, PendState
  <2>3. QED
    BY <2>1, <2>2
<1>9. QED
  BY <1>1, <1>2, <1>3, <1>4, <1>5, <1>6, <1>7, <1>8 DEF IInv

(* The initial state satisfies the inductive invariant.                    *)
LEMMA InitIInv == Init => IInv
<1> SUFFICES ASSUME Init PROVE IInv
  OBVIOUS
<1>1. TypeOK
  BY DescAssumption, WordsTyped DEF Init, TypeOK, Control, WakerState, Desc
<1>2. FreeIsQuiet /\ FinishedIsOver /\ JoinerInWord
  BY DescAssumption, WordsDiffer
  DEF Init, FreeIsQuiet, FinishedIsOver, JoinerInWord, Desc
<1>3. ExitState /\ HandleState /\ WaitState /\ PendState
  BY DescAssumption, WordsDiffer
  DEF Init, ExitState, HandleState, WaitState, PendState, Desc
<1>4. QED
  BY <1>1, <1>2, <1>3 DEF IInv

(* Every step of the protocol preserves it.                                *)
LEMMA NextIInv == IInv /\ [Next]_vars => IInv'
<1> SUFFICES ASSUME IInv, [Next]_vars PROVE IInv'
  OBVIOUS
<1>1. ASSUME NEW p \in Desc, UserStep(p) PROVE IInv'
  <2>1. ASSUME NEW c \in Desc, NEW hs \in SUBSET Handles(p),
               Spawn(p, c, hs) \/ SpawnAsync(p, c, hs) \/ Fork(p, c, hs)
        PROVE  IInv'
    BY <2>1, SpawnKeeps, SpawnAsyncKeeps, ForkKeeps
  <2>2. ASSUME NEW c \in Desc,
               \/ TakeBack(p, c) \/ JoinFinished(p, c) \/ JoinSuspend(p, c)
               \/ PollHandle(p, c) \/ BlockOn(p, c) \/ DropHandle(p, c)
        PROVE  IInv'
    BY <2>2, TakeBackKeeps, JoinFinishedKeeps, JoinSuspendKeeps,
       PollHandleKeeps, BlockOnKeeps, DropHandleKeeps
  <2>3. CASE Yield(p) \/ ReturnPending(p)
    BY <2>3, YieldKeeps, ReturnPendingKeeps
  <2>4. CASE ExitToJoiner(p) \/ ExitAlone(p) \/ PollReady(p)
    BY <2>4, ExitToJoinerKeeps, ExitAloneKeeps, PollReadyKeeps
  <2>5. QED
    BY <1>1, <2>1, <2>2, <2>3, <2>4 DEF UserStep
<1>2. ASSUME NEW p \in Desc, RuntimeStep(p) PROVE IInv'
  <2>1. CASE Dispatch(p) \/ TryRegisterJoiner(p) \/ JoinReturn(p)
    BY <2>1, DispatchKeeps, TryRegisterJoinerKeeps, JoinReturnKeeps
  <2>2. CASE BlockOnPoll(p) \/ Park(p)
    BY <2>2, BlockOnPollKeeps, ParkKeeps
  <2>3. CASE CommitFinished(p) \/ ExitAbandoned(p) \/ FreeTask(p)
    BY <2>3, CommitFinishedKeeps, ExitAbandonedKeeps, FreeTaskKeeps
  <2>4. CASE ExitWriteResult(p) \/ FinishAndSettle(p)
    BY <2>4, ExitWriteResultKeeps, FinishAndSettleKeeps
  <2>5. ASSUME NEW j \in Desc, Wake(p, j) PROVE IInv'
    BY <2>5, WakeKeeps
  <2>6. QED
    BY <1>2, <2>1, <2>2, <2>3, <2>4, <2>5 DEF RuntimeStep
<1>3. CASE UNCHANGED vars
  BY <1>3
  DEF vars, IInv, TypeOK, FreeIsQuiet, FinishedIsOver, JoinerInWord,
      ExitState, HandleState, WaitState, PendState
<1>4. QED
  BY <1>1, <1>2, <1>3 DEF Next

(* IInv holds in every state the protocol reaches, for every set of        *)
(* descriptors.                                                            *)
THEOREM Invariant == Spec => []IInv
<1>1. QED
  BY InitIInv, NextIInv, PTL DEF Spec

(* The words, tokens and counters keep to their types: a join_state word   *)
(* always decodes to one of the six cases of JoinState.                    *)
THEOREM TypeCorrect == Spec => []TypeOK
<1>1. IInv => TypeOK
  BY DEF IInv
<1>2. QED
  BY <1>1, Invariant, PTL

(* A task's stack is reclaimed once per life, and only when its exit path  *)
(* has left it and no joiner or owner can reach it.                        *)
THEOREM ReclaimSafe == Spec => []FreeIsQuiet
<1>1. IInv => FreeIsQuiet
  BY DEF IInv
<1>2. QED
  BY <1>1, Invariant, PTL

(* FINISHED means that the exit path is over, the result is in its slot    *)
(* and somebody owns the handle that will reclaim the task.                *)
THEOREM FinishedSafe == Spec => []FinishedIsOver
<1>1. IInv => FinishedIsOver
  BY DEF IInv
<1>2. QED
  BY <1>1, Invariant, PTL

(* The token of a task blocked in join() is in the word of the task it     *)
(* joins and nowhere else, so it is resumed by one exit, once.             *)
THEOREM JoinerTokenUnique == Spec => []JoinerInWord
<1>1. IInv => JoinerInWord
  BY DEF IInv
<1>2. QED
  BY <1>1, Invariant, PTL

(* The debug_assert of join(): whatever resumed the joiner, the task it    *)
(* joins is finished.                                                      *)
THEOREM JoinSafe == Spec => []JoinedIsFinished
<1>1. IInv => JoinedIsFinished
  BY DEF IInv, WaitState, JoinedIsFinished
<1>2. QED
  BY <1>1, Invariant, PTL

(* A parked task still has, for every handle it waits for, a registration  *)
(* in a live word or a wake on its way.                                    *)
THEOREM WakeupsKept == Spec => []NoLostWake
<1>1. IInv => NoLostWake
  BY DEF IInv, WaitState, PendState, NoLostWake
<1>2. QED
  BY <1>1, Invariant, PTL

(* A result leaves its slot once, and only after it was written, and a     *)
(* descriptor goes back to the pool with its slot empty, whoever reclaims. *)
THEOREM ResultsMovedOnce == Spec => ResultMovedOnce
<1> DEFINE A == \A d \in Desc :
                  /\ result[d] # result'[d] /\ result'[d] = "moved" =>
                       result[d] = "written" \/ pc[d] = "exiting"
                  /\ pool'[d] > pool[d] => result'[d] = "moved" \/ d \in fresh
<1>1. ASSUME IInv, NEW p \in Desc, UserStep(p) PROVE A
  <2>1. ASSUME NEW c \in Desc, NEW hs \in SUBSET Handles(p),
               Spawn(p, c, hs) \/ SpawnAsync(p, c, hs) \/ Fork(p, c, hs)
        PROVE  A
    <3>1. Allocate(p, c, hs)
      BY <2>1 DEF Spawn, SpawnAsync, Fork
    <3>2. QED
      BY <1>1, <3>1 DEF IInv, TypeOK, Allocate
  <2>2. ASSUME NEW c \in Desc, held[c] = p, join[c] = FINISHED, TakeResult(p, c)
        PROVE  A
    <3>1. result[c] = "written"
      BY <1>1, <2>2, InUse, DescAssumption DEF IInv, FinishedIsOver, Desc
    <3>2. QED
      BY <1>1, <2>2, <3>1 DEF IInv, TypeOK, TakeResult
  <2>3. ASSUME NEW c \in Desc, TakeBack(p, c) PROVE A
    BY <1>1, <2>3 DEF IInv, TypeOK, TakeBack
  <2>4. ASSUME NEW c \in Desc, JoinFinished(p, c) \/ PollHandle(p, c) \/ DropHandle(p, c)
        PROVE  A
    <3>1. \/ held[c] = p /\ join[c] = FINISHED /\ TakeResult(p, c)
          \/ UNCHANGED <<pool, result>>
      BY <2>4 DEF JoinFinished, PollHandle, DropHandle
    <3>2. QED
      BY <1>1, <2>2, <3>1 DEF IInv, TypeOK
  <2>5. ASSUME NEW c \in Desc, JoinSuspend(p, c) \/ BlockOn(p, c) PROVE A
    BY <1>1, <2>5 DEF IInv, TypeOK, JoinSuspend, BlockOn
  <2>6. CASE Yield(p) \/ ReturnPending(p) \/ ExitToJoiner(p) \/ ExitAlone(p) \/ PollReady(p)
    BY <1>1, <2>6
    DEF IInv, TypeOK, Yield, ReturnPending, ExitToJoiner, ExitAlone, PollReady
  <2>7. QED
    BY <1>1, <2>1, <2>3, <2>4, <2>5, <2>6 DEF UserStep
<1>2. ASSUME IInv, NEW p \in Desc, RuntimeStep(p) PROVE A
  <2>1. CASE JoinReturn(p) \/ BlockOnPoll(p)
    <3>1. PICK c \in Desc : c = tgt[p]
      BY <1>2, <2>1 DEF IInv, TypeOK, JoinReturn, BlockOnPoll
    <3>2. held[c] = p /\ pool[c] = 0
      BY <1>2, <2>1, <3>1, InUse DEF IInv, WaitState, JoinReturn, BlockOnPoll
    <3>3. \/ join[c] = FINISHED /\ TakeResult(p, c)
          \/ UNCHANGED <<pool, result>>
      BY <1>2, <2>1, <3>1 DEF IInv, WaitState, JoinReturn, BlockOnPoll
    <3>4. join[c] = FINISHED => result[c] = "written"
      BY <1>2, <3>2 DEF IInv, FinishedIsOver
    <3>5. QED
      BY <1>2, <3>3, <3>4 DEF IInv, TypeOK, TakeResult
  <2>2. CASE FreeTask(p) \/ FinishAndSettle(p)
    BY <1>2, <2>2 DEF IInv, TypeOK, ExitState, FreeTask, FinishAndSettle
  <2>3. CASE ExitAbandoned(p) \/ ExitWriteResult(p)
    BY <1>2, <2>3 DEF IInv, TypeOK, ExitAbandoned, ExitWriteResult
  <2>4. CASE Dispatch(p) \/ TryRegisterJoiner(p) \/ Park(p) \/ CommitFinished(p)
    BY <1>2, <2>4 DEF IInv, TypeOK, Dispatch, TryRegisterJoiner, Park, CommitFinished
  <2>5. ASSUME NEW j \in Desc, Wake(p, j) PROVE A
    BY <1>2, <2>5 DEF IInv, TypeOK, Wake
  <2>6. QED
    BY <1>2, <2>1, <2>2, <2>3, <2>4, <2>5 DEF RuntimeStep
<1>3. IInv /\ [Next]_vars => [A]_vars
  BY <1>1, <1>2 DEF Next
<1>4. QED
  BY <1>3, Invariant, PTL DEF Spec, ResultMovedOnce

-----------------------------------------------------------------------------
(* The protocol implements TaskSpec.                                       *)

(* The program's first task neither exits nor is a branch of another.      *)
MainLives ==
  /\ pc[Main] \notin {"exiting", "commit", "settle", "release", "done"}
  /\ Main \notin branch

(* It holds throughout: Main is never in the pool, so no spawn makes it    *)
(* another task's child.                                                   *)
LEMMA MainLivesInv == Spec => []MainLives
<1>1. Init => MainLives
  BY DescAssumption DEF Init, MainLives, Desc
<1>2. IInv /\ MainLives /\ [Next]_vars => MainLives'
  <2> SUFFICES ASSUME IInv, MainLives, [Next]_vars PROVE MainLives'
    OBVIOUS
  <2>0. /\ Main \in Desc /\ pool[Main] = 0
        /\ pc \in [Desc -> Control]
    BY InUse, DescAssumption DEF MainLives, Desc, IInv, TypeOK
  <2>1. ASSUME NEW p \in Desc, UserStep(p) PROVE MainLives'
    <3>1. ASSUME NEW c \in Desc, NEW hs \in SUBSET Handles(p),
                 Spawn(p, c, hs) \/ SpawnAsync(p, c, hs) \/ Fork(p, c, hs)
          PROVE  MainLives'
      <4>1. c # Main
        BY <2>0, <3>1 DEF Spawn, SpawnAsync, Fork, Allocate
      <4>2. QED
        BY <2>0, <3>1, <4>1 DEF MainLives, Spawn, SpawnAsync, Fork
    <3>2. ASSUME NEW c \in Desc,
                 \/ TakeBack(p, c) \/ JoinFinished(p, c) \/ JoinSuspend(p, c)
                 \/ PollHandle(p, c) \/ BlockOn(p, c) \/ DropHandle(p, c)
          PROVE  MainLives'
      BY <2>0, <3>2
      DEF MainLives, TakeBack, JoinFinished, JoinSuspend, PollHandle, BlockOn,
          DropHandle, TakeResult
    <3>3. CASE Yield(p) \/ ReturnPending(p)
      BY <2>0, <3>3 DEF MainLives, Yield, ReturnPending
    <3>4. CASE ExitToJoiner(p) \/ ExitAlone(p) \/ PollReady(p)
      BY <2>0, <3>4 DEF MainLives, ExitToJoiner, ExitAlone, PollReady, MayExit
    <3>5. QED
      BY <2>1, <3>1, <3>2, <3>3, <3>4 DEF UserStep
  <2>2. ASSUME NEW p \in Desc, RuntimeStep(p) PROVE MainLives'
    <3>1. CASE Dispatch(p) \/ TryRegisterJoiner(p) \/ JoinReturn(p)
      BY <2>0, <3>1 DEF MainLives, Dispatch, TryRegisterJoiner, JoinReturn, TakeResult
    <3>2. CASE BlockOnPoll(p) \/ Park(p)
      BY <2>0, <3>2 DEF MainLives, BlockOnPoll, Park, TakeResult
    <3>3. CASE CommitFinished(p) \/ ExitAbandoned(p) \/ FreeTask(p)
      BY <2>0, <3>3 DEF MainLives, CommitFinished, ExitAbandoned, FreeTask
    <3>4. CASE ExitWriteResult(p) \/ FinishAndSettle(p)
      BY <2>0, <3>4 DEF MainLives, ExitWriteResult, FinishAndSettle
    <3>5. ASSUME NEW j \in Desc, Wake(p, j) PROVE MainLives'
      BY <2>0, <3>5 DEF MainLives, Wake
    <3>6. QED
      BY <2>2, <3>1, <3>2, <3>3, <3>4, <3>5 DEF RuntimeStep
  <2>3. CASE UNCHANGED vars
    BY <2>3 DEF vars, MainLives
  <2>4. QED
    BY <2>1, <2>2, <2>3 DEF Next
<1>3. QED
  BY <1>1, <1>2, Invariant, PTL DEF Spec

(* A step that acts on the pool entry and the word of one descriptor.      *)
LEMMA PhaseStep ==
  ASSUME IInv, NEW c \in Desc, NEW ph,
         \A d \in Desc \ {c} : pool'[d] = pool[d] /\ join'[d] = join[d],
         ph = IF pool'[c] > 0 THEN "free"
              ELSE IF join'[c] = FINISHED THEN "finished" ELSE "live"
  PROVE  Phase' = [Phase EXCEPT ![c] = ph]
BY DEF Phase

(* The three kinds of spawn start a task,                                  *)
LEMMA StartStep ==
  ASSUME IInv, NEW p \in Desc, NEW c \in Desc, NEW hs \in SUBSET Handles(p),
         Allocate(p, c, hs)
  PROVE  Task!Start(p, c)
<1>1. Task!Busy(p) /\ Phase[c] = "free"
  BY InUse DEF Allocate, InUserCode, Task!Busy, Phase
<1>2. pool'[c] = 0 /\ join'[c] # FINISHED
  BY InUse, WordsDiffer DEF Allocate, IInv, TypeOK
<1>3. \A d \in Desc \ {c} : pool'[d] = pool[d] /\ join'[d] = join[d]
  BY DEF Allocate
<1>4. Phase' = [Phase EXCEPT ![c] = "live"]
  BY <1>2, <1>3, PhaseStep
<1>5. hs \in SUBSET Task!Owned(p)
  BY DEF Handles, Task!Owned
<1>6. QED
  BY <1>1, <1>4, <1>5 DEF Task!Start, Allocate

(* parallel_call calls back a branch that never ran,                       *)
LEMMA InlineStep ==
  ASSUME IInv, NEW p \in Desc, NEW c \in Desc, TakeBack(p, c)
  PROVE  Task!Inline(p, c)
<1>1. /\ Task!Busy(p) /\ held[c] = p
      /\ Phase[c] = "live" /\ tgt[c] = None
  BY InUse DEF TakeBack, InUserCode, Task!Busy, Phase, IInv, WaitState
<1>2. Phase' = [Phase EXCEPT ![c] = "free"]
  BY PhaseStep DEF TakeBack, IInv, TypeOK
<1>3. QED
  BY <1>1, <1>2 DEF Task!Inline, TakeBack

(* join, poll, block_on and drop of a FINISHED task collect it,            *)
LEMMA CollectStep ==
  ASSUME IInv, NEW p \in Desc, NEW c \in Desc,
         pc[p] = "running", held[c] = p, join[c] = FINISHED,
         tgt[p] \in {None, c}, tgt' = [tgt EXCEPT ![p] = None],
         TakeResult(p, c), UNCHANGED join
  PROVE  Task!Collect(p, c)
<1>1. pool[c] = 0
  BY InUse, DescAssumption DEF Desc
<1>2. Phase[p] = "live" /\ Phase[c] = "finished"
  BY <1>1, InUse DEF Phase
<1>3. Phase' = [Phase EXCEPT ![c] = "free"]
  BY PhaseStep DEF TakeResult, IInv, TypeOK
<1>4. QED
  BY <1>2, <1>3 DEF Task!Collect, TakeResult

(* registering a waiter leaves a task as it was,                           *)
LEMMA SamePhase ==
  ASSUME UNCHANGED pool,
         \A d \in Desc : join'[d] = FINISHED <=> join[d] = FINISHED
  PROVE  UNCHANGED Phase
BY DEF Phase

(* and the three ends of an exit (commit_finished, free of an abandoned    *)
(* task, finish_and_settle) are its end.                                   *)
LEMMA FinishStep ==
  ASSUME IInv, NEW d \in Desc \ {Main},
         pc[d] \in {"commit", "settle", "release"},
         \A e \in Desc \ {d} : pool'[e] = pool[e] /\ join'[e] = join[e],
         pool'[d] = (IF join[d] = DETACHED THEN 1 ELSE 0),
         join[d] # DETACHED => join'[d] = FINISHED,
         UNCHANGED <<held, tgt>>
  PROVE  Task!Finish(d)
<1>1. Task!Busy(d) /\ Task!Owned(d) = {}
  BY InUse DEF IInv, ExitState, Task!Busy, Task!Owned, Phase
<1>2. held[d] = None <=> join[d] = DETACHED
  BY InUse DEF IInv, HandleState
<1>3. Phase' = [Phase EXCEPT ![d] = IF held[d] = None THEN "free" ELSE "finished"]
  BY <1>2, PhaseStep
<1>4. QED
  BY <1>1, <1>3 DEF Task!Finish

(* Every step of the program's code is a step of TaskSpec or invisible,    *)
LEMMA UserImplements ==
  ASSUME IInv, MainLives, NEW p \in Desc, UserStep(p)
  PROVE  [Task!Next]_Task!vars
<1>1. ASSUME NEW c \in Desc, NEW hs \in SUBSET Handles(p),
             Spawn(p, c, hs) \/ SpawnAsync(p, c, hs) \/ Fork(p, c, hs)
      PROVE  Task!Next
  BY <1>1, StartStep DEF Spawn, SpawnAsync, Fork, Task!Next
<1>2. ASSUME NEW c \in Desc, TakeBack(p, c) PROVE Task!Next
  BY <1>2, InlineStep DEF Task!Next
<1>3. ASSUME NEW c \in Desc, InUserCode(p), held[c] = p, join[c] = FINISHED,
             TakeResult(p, c), UNCHANGED <<join, tgt>>
      PROVE  Task!Next
  <2>1. tgt' = [tgt EXCEPT ![p] = None]
    BY <1>3 DEF InUserCode, IInv, TypeOK
  <2>2. Task!Collect(p, c)
    BY <1>3, <2>1, CollectStep DEF InUserCode
  <2>3. QED
    BY <2>2 DEF Task!Next
<1>4. ASSUME NEW c \in Desc, JoinFinished(p, c) PROVE Task!Next
  BY <1>3, <1>4 DEF JoinFinished
<1>5. ASSUME NEW c \in Desc, JoinSuspend(p, c) \/ BlockOn(p, c) PROVE Task!Next
  <2>1. Task!Wait(p, c)
    BY <1>5, InUse DEF JoinSuspend, BlockOn, InUserCode, Task!Wait, Task!Busy, Phase
  <2>2. QED
    BY <2>1 DEF Task!Next
<1>6. ASSUME NEW c \in Desc, PollHandle(p, c) PROVE [Task!Next]_Task!vars
  <2>1. CASE join[c] = FINISHED
    BY <1>3, <1>6, <2>1 DEF PollHandle
  <2>2. CASE join[c] # FINISHED
    <3>1. UNCHANGED Phase
      BY <1>6, <2>2, SamePhase, WordsDiffer DEF PollHandle, IInv, TypeOK
    <3>2. QED
      BY <1>6, <2>2, <3>1 DEF PollHandle, Task!vars
  <2>3. QED
    BY <2>1, <2>2
<1>7. ASSUME NEW c \in Desc, DropHandle(p, c) PROVE Task!Next
  <2>1. CASE join[c] = FINISHED
    BY <1>3, <1>7, <2>1 DEF DropHandle
  <2>2. CASE join[c] # FINISHED
    <3>1. UNCHANGED Phase
      BY <1>7, <2>2, SamePhase, WordsDiffer DEF DropHandle, IInv, TypeOK
    <3>2. pool[c] = 0
      BY <1>7, InUse, DescAssumption DEF DropHandle, Desc
    <3>3. Task!Abandon(p, c)
      BY <1>7, <2>2, <3>1, <3>2, InUse
      DEF DropHandle, InUserCode, Task!Abandon, Task!Busy, Phase
    <3>4. QED
      BY <3>3 DEF Task!Next
  <2>3. QED
    BY <2>1, <2>2
<1>8. ASSUME \/ Yield(p) \/ ReturnPending(p)
             \/ ExitToJoiner(p) \/ ExitAlone(p) \/ PollReady(p)
      PROVE  UNCHANGED Task!vars
  BY <1>8, SamePhase
  DEF Yield, ReturnPending, ExitToJoiner, ExitAlone, PollReady, Task!vars
<1>9. QED
  BY <1>1, <1>2, <1>4, <1>5, <1>6, <1>7, <1>8 DEF UserStep

(* and so is every step of the runtime.                                    *)
LEMMA RuntimeImplements ==
  ASSUME IInv, MainLives, NEW p \in Desc, RuntimeStep(p)
  PROVE  [Task!Next]_Task!vars
<1>1. ASSUME \/ Dispatch(p) \/ Park(p) \/ ExitAbandoned(p) \/ ExitWriteResult(p)
             \/ \E j \in Desc : Wake(p, j)
      PROVE  UNCHANGED Task!vars
  BY <1>1, SamePhase
  DEF Dispatch, Park, ExitAbandoned, ExitWriteResult, Wake, Task!vars
<1>2. ASSUME TryRegisterJoiner(p) PROVE UNCHANGED Task!vars
  <2>1. UNCHANGED Phase
    BY <1>2, SamePhase, WordsDiffer DEF TryRegisterJoiner, IInv, TypeOK
  <2>2. QED
    BY <1>2, <2>1 DEF TryRegisterJoiner, Task!vars
<1>3. ASSUME JoinReturn(p) \/ BlockOnPoll(p)
      PROVE  [Task!Next]_Task!vars
  <2>1. PICK c \in Desc : c = tgt[p] /\ held[c] = p /\ pc[p] = "running"
    BY <1>3 DEF IInv, TypeOK, WaitState, JoinReturn, BlockOnPoll
  <2>2. CASE /\ join[c] = FINISHED
             /\ TakeResult(p, c) /\ tgt' = [tgt EXCEPT ![p] = None] /\ UNCHANGED join
    BY <2>1, <2>2, CollectStep DEF Task!Next
  <2>3. CASE /\ join[c] # FINISHED
             /\ join' = [join EXCEPT ![c] = AsyncWaker(p)]
             /\ UNCHANGED <<pool, held, tgt>>
    <3>1. UNCHANGED Phase
      BY <2>3, SamePhase, WordsDiffer DEF IInv, TypeOK
    <3>2. QED
      BY <2>3, <3>1 DEF Task!vars
  <2>4. QED
    BY <1>3, <2>1, <2>2, <2>3 DEF JoinReturn, BlockOnPoll, IInv, WaitState
<1>4. ASSUME CommitFinished(p) \/ FreeTask(p) \/ FinishAndSettle(p)
      PROVE  Task!Next
  <2>1. pc[p] \in {"commit", "settle", "release"} /\ p # Main
    BY <1>4 DEF MainLives, CommitFinished, FreeTask, FinishAndSettle
  <2>2. pool[p] = 0 /\ (pc[p] = "commit" => join[p] # DETACHED)
                    /\ (pc[p] = "release" => join[p] = DETACHED)
    BY <2>1, InUse, WordsDecode DEF IInv, ExitState
  <2>3. \A e \in Desc \ {p} : pool'[e] = pool[e] /\ join'[e] = join[e]
    BY <1>4 DEF CommitFinished, FreeTask, FinishAndSettle, IInv, TypeOK
  <2>4. /\ pool'[p] = IF join[p] = DETACHED THEN 1 ELSE 0
        /\ join[p] # DETACHED => join'[p] = FINISHED
        /\ UNCHANGED <<held, tgt>>
    BY <1>4, <2>2 DEF CommitFinished, FreeTask, FinishAndSettle, IInv, TypeOK
  <2>5. Task!Finish(p)
    BY <2>1, <2>3, <2>4, FinishStep
  <2>6. QED
    BY <2>5 DEF Task!Next
<1>5. QED
  BY <1>1, <1>2, <1>3, <1>4 DEF RuntimeStep

(* Spawn, join, poll, drop and exit of a dual system implement TaskSpec:   *)
(* every task ends once, owning nothing and waiting for nobody, and is     *)
(* collected once, after its end, by the one task that owns it then.       *)
THEOREM Refinement == Spec => ImplementsTaskSpec
<1>1. Init => Task!Init
  BY DescAssumption, WordsDiffer DEF Init, Task!Init, Phase
<1>2. IInv /\ MainLives /\ [Next]_vars => [Task!Next]_Task!vars
  <2>1. ASSUME IInv, MainLives, Next PROVE [Task!Next]_Task!vars
    BY <2>1, UserImplements, RuntimeImplements DEF Next
  <2>2. ASSUME UNCHANGED vars PROVE UNCHANGED Task!vars
    BY <2>2 DEF vars, Task!vars, Phase
  <2>3. QED
    BY <2>1, <2>2
<1>3. QED
  BY <1>1, <1>2, Invariant, MainLivesInv, PTL DEF Spec, Task!Spec, ImplementsTaskSpec

-----------------------------------------------------------------------------
(* PoolLife.                                                               *)

(* The words and their values.                                             *)
LifeTypeOK ==
  /\ entry \in {"init", "run_async"} /\ served \in BOOLEAN
  /\ mainPc \in {"starting", "unserved", "user", "join", "finish", "suspend", "parked",
                 "back", "returned"}
  /\ at \in [Member -> {"unborn", "born", "loop", "look", "callback", "joining", "joined",
                        "out"}]
  /\ runs \in [Member -> Unit \cup {Loop0}]
  /\ queued \subseteq Unit /\ over \subseteq Unit
  /\ stopSet \in BOOLEAN /\ joinedBy \in BOOLEAN /\ finish \in BOOLEAN
  /\ destCont \in BOOLEAN /\ tlsSet \subseteq Member

(* The caller is in no queue and on no worker: it waits for the service, or*)
(* is in dest_cont or about to be put there.                               *)
Aside == joinedBy \/ destCont \/ \E m \in Member : at[m] = "callback"

OnePlace ==
  /\ \A m, n \in Member : runs[m] = runs[n] /\ runs[m] # Loop0 => m = n
  /\ \A m \in Member : runs[m] \notin queued \cup over
  /\ queued \cap over = {}
  /\ Aside => Caller \notin queued \cup over /\ \A m \in Member : runs[m] # Caller

(* How far the caller is, and what that says of the others.                *)
MainState ==
  /\ finish <=> mainPc \in {"suspend", "parked", "back", "returned"}
  /\ mainPc = "starting" => queued = {} /\ over = {}
  /\ mainPc \in {"join", "finish", "suspend"} => entry = "init"
  /\ joinedBy => mainPc = "finish"
  /\ destCont => mainPc = "parked" /\ entry = "init"
  /\ mainPc = "unserved" => entry = "init" /\ Service \notin queued \cup over
                            /\ \A m \in Member : runs[m] # Service
  /\ mainPc = "suspend" => \E m \in Member : Running(m, Caller)
  /\ mainPc = "parked" => \/ entry = "init" /\ (destCont \/ \E m \in Member : at[m] = "callback")
                          \/ entry = "run_async" /\ Caller \in over
  /\ mainPc \in {"back", "returned"} => \A m \in Member : at[m] = "out"
  /\ mainPc = "back" => entry = "init" /\ runs[Zero] = Caller

(* Where each worker's thread is.                                          *)
ThreadState ==
  \A m \in Member :
    /\ at[m] = "unborn" <=> mainPc = "starting"
    /\ runs[m] # Loop0 => at[m] \in {"loop", "callback"} \/ (m = Zero /\ mainPc = "back")
    /\ at[m] = "callback" => /\ mainPc = "parked" /\ entry = "init" /\ ~ destCont
                             /\ \A n \in Member : at[n] = "callback" => n = m
    /\ at[m] \in {"joining", "joined"} => m = Zero /\ finish
    /\ at[m] = "joined" => mainPc = "parked" /\ \A n \in Others : at[n] = "out"
    /\ at[m] = "out" /\ m = Zero => mainPc \in {"back", "returned"}
    /\ at[m] = "out" /\ m # Zero => m \notin tlsSet
    /\ at[m] \in {"loop", "look", "callback"} => m \in tlsSet
    /\ m = Zero /\ entry = "init" /\ mainPc \notin {"starting", "returned"} => m \in tlsSet
    /\ mainPc = "returned" => m \notin tlsSet
    /\ at[m] \in {"unborn", "born"} => m \notin tlsSet

LifeIInv == LifeTypeOK /\ OnePlace /\ MainState /\ ThreadState

(* init and run_async make the workers; worker 0 is the caller.            *)
LEMMA StartKeeps ==
  ASSUME LifeIInv, Start
  PROVE  LifeIInv'
<1> USE PoolLifeAssumption
<1>1. LifeTypeOK'
  BY DEF Start, flags, LifeIInv, LifeTypeOK, Unit
<1>2. OnePlace'
  BY DEF Start, LifeIInv, OnePlace, MainState, ThreadState, Aside
<1>3. MainState'
  BY DEF Start, flags, LifeIInv, MainState, ThreadState
<1>4. ThreadState'
  BY DEF Start, LifeIInv, ThreadState
<1>5. QED
  BY <1>1, <1>2, <1>3, <1>4 DEF LifeIInv

(* A thread enters its loop.                                               *)
LEMMA EnterLoopKeeps ==
  ASSUME LifeIInv, NEW m \in Member, EnterLoop(m)
  PROVE  LifeIInv'
<1> USE PoolLifeAssumption
<1>1. LifeTypeOK'
  BY DEF EnterLoop, flags, LifeIInv, LifeTypeOK
<1>2. OnePlace'
  BY DEF EnterLoop, LifeIInv, OnePlace, Aside
<1>3. MainState'
  BY DEF EnterLoop, flags, LifeIInv, MainState, Running
<1>4. ThreadState'
  BY DEF EnterLoop, flags, LifeIInv, LifeTypeOK, MainState, ThreadState
<1>5. QED
  BY <1>1, <1>2, <1>3, <1>4 DEF LifeIInv

(* The loop has not seen finished.                                         *)
LEMMA CheckFinishedKeeps ==
  ASSUME LifeIInv, NEW m \in Member, CheckFinished(m)
  PROVE  LifeIInv'
<1> USE PoolLifeAssumption
<1>1. LifeTypeOK'
  BY DEF CheckFinished, flags, LifeIInv, LifeTypeOK
<1>2. OnePlace'
  BY DEF CheckFinished, LifeIInv, OnePlace, Aside
<1>3. MainState'
  BY DEF CheckFinished, flags, LifeIInv, MainState
<1>4. ThreadState'
  BY DEF CheckFinished, flags, InLoop, LifeIInv, ThreadState
<1>5. QED
  BY <1>1, <1>2, <1>3, <1>4 DEF LifeIInv

(* The loop takes a task out of a queue: the task moves.                   *)
LEMMA TakeUnitKeeps ==
  ASSUME LifeIInv, NEW m \in Member, NEW u \in Unit, TakeUnit(m, u)
  PROVE  LifeIInv'
<1> USE PoolLifeAssumption
<1>1. LifeTypeOK'
  BY DEF TakeUnit, flags, LifeIInv, LifeTypeOK
<1>2. OnePlace'
  BY DEF TakeUnit, LifeIInv, OnePlace, Aside
<1>3. MainState'
  BY DEF TakeUnit, flags, LifeIInv, MainState, Running
<1>4. ThreadState'
  BY DEF TakeUnit, flags, LifeIInv, LifeTypeOK, ThreadState
<1>5. QED
  BY <1>1, <1>2, <1>3, <1>4 DEF LifeIInv

(* The loop finds no task.                                                 *)
LEMMA FindNothingKeeps ==
  ASSUME LifeIInv, NEW m \in Member, FindNothing(m)
  PROVE  LifeIInv'
<1> USE PoolLifeAssumption
<1>1. LifeTypeOK'
  BY DEF FindNothing, flags, LifeIInv, LifeTypeOK
<1>2. OnePlace'
  BY DEF FindNothing, LifeIInv, OnePlace, Aside
<1>3. MainState'
  BY DEF FindNothing, flags, LifeIInv, MainState, Running
<1>4. ThreadState'
  BY DEF FindNothing, flags, LifeIInv, ThreadState
<1>5. QED
  BY <1>1, <1>2, <1>3, <1>4 DEF LifeIInv

(* The loop has seen finished: a thread ends, or worker 0 goes to join it. *)
LEMMA LeaveLoopKeeps ==
  ASSUME LifeIInv, NEW m \in Member, LeaveLoop(m)
  PROVE  LifeIInv'
<1> USE PoolLifeAssumption
<1>1. LifeTypeOK'
  BY DEF LeaveLoop, flags, LifeIInv, LifeTypeOK
<1>2. OnePlace'
  BY DEF LeaveLoop, LifeIInv, OnePlace, Aside
<1>3. MainState'
  BY DEF LeaveLoop, flags, InLoop, LifeIInv, MainState, Running
<1>4. ThreadState'
  BY DEF LeaveLoop, flags, InLoop, LifeIInv, LifeTypeOK, ThreadState
<1>5. QED
  BY <1>1, <1>2, <1>3, <1>4 DEF LifeIInv

(* The caller starts the service and waits in a queue.                     *)
LEMMA StartServiceKeeps ==
  ASSUME LifeIInv, NEW m \in Member, StartService(m)
  PROVE  LifeIInv'
<1> USE PoolLifeAssumption
<1>1. LifeTypeOK'
  BY DEF StartService, flags, SpawnUnit, LifeIInv, LifeTypeOK, Unit
<1>2. OnePlace'
  BY DEF StartService, Running, SpawnUnit, LifeIInv, LifeTypeOK, OnePlace,
      MainState, Aside
<1>3. MainState'
  BY DEF StartService, flags, LifeIInv, MainState
<1>4. ThreadState'
  BY DEF StartService, Running, SpawnUnit, LifeIInv, LifeTypeOK, MainState,
      ThreadState
<1>5. QED
  BY <1>1, <1>2, <1>3, <1>4 DEF LifeIInv

(* The caller starts a task that is nowhere yet.                           *)
LEMMA SpawnChoreKeeps ==
  ASSUME LifeIInv, NEW m \in Member, SpawnChore(m)
  PROVE  LifeIInv'
<1> USE PoolLifeAssumption
<1>1. LifeTypeOK'
  BY DEF SpawnChore, flags, SpawnUnit, LifeIInv, LifeTypeOK, Unit
<1>2. OnePlace'
  BY DEF SpawnChore, Running, SpawnUnit, Known, LifeIInv, LifeTypeOK, OnePlace,
      Aside
<1>3. MainState'
  BY DEF SpawnChore, flags, LifeIInv, MainState
<1>4. ThreadState'
  BY DEF SpawnChore, flags, Running, SpawnUnit, LifeIInv, LifeTypeOK,
      ThreadState
<1>5. QED
  BY <1>1, <1>2, <1>3, <1>4 DEF LifeIInv

(* A task goes back to a queue.                                            *)
LEMMA ChoreYieldsKeeps ==
  ASSUME LifeIInv, NEW m \in Member, ChoreYields(m)
  PROVE  LifeIInv'
<1> USE PoolLifeAssumption
<1>1. LifeTypeOK'
  BY DEF ChoreYields, flags, SwitchFrom, LifeIInv, LifeTypeOK
<1>2. OnePlace'
  BY DEF ChoreYields, SwitchFrom, LifeIInv, LifeTypeOK, Unit, OnePlace, Aside
<1>3. MainState'
  BY DEF ChoreYields, flags, SwitchFrom, LifeIInv, LifeTypeOK, MainState,
      ThreadState, Running
<1>4. ThreadState'
  BY DEF ChoreYields, flags, SwitchFrom, LifeIInv, LifeTypeOK, ThreadState
<1>5. QED
  BY <1>1, <1>2, <1>3, <1>4 DEF LifeIInv

(* A task ends.                                                            *)
LEMMA ChoreEndsKeeps ==
  ASSUME LifeIInv, NEW m \in Member, ChoreEnds(m)
  PROVE  LifeIInv'
<1> USE PoolLifeAssumption
<1>1. LifeTypeOK'
  BY DEF ChoreEnds, flags, SwitchFrom, LifeIInv, LifeTypeOK
<1>2. OnePlace'
  BY DEF ChoreEnds, SwitchFrom, LifeIInv, LifeTypeOK, Unit, OnePlace, Aside
<1>3. MainState'
  BY DEF ChoreEnds, flags, SwitchFrom, LifeIInv, LifeTypeOK, MainState,
      ThreadState, Running
<1>4. ThreadState'
  BY DEF ChoreEnds, flags, SwitchFrom, LifeIInv, LifeTypeOK, ThreadState
<1>5. QED
  BY <1>1, <1>2, <1>3, <1>4 DEF LifeIInv

(* The service goes back to a queue.                                       *)
LEMMA ServiceYieldsKeeps ==
  ASSUME LifeIInv, NEW m \in Member, ServiceYields(m)
  PROVE  LifeIInv'
<1> USE PoolLifeAssumption
<1>1. LifeTypeOK'
  BY DEF ServiceYields, flags, Running, SwitchFrom, LifeIInv, LifeTypeOK
<1>2. OnePlace'
  BY DEF ServiceYields, Running, SwitchFrom, LifeIInv, LifeTypeOK, Unit,
      OnePlace, Aside
<1>3. MainState'
  BY DEF ServiceYields, flags, Running, SwitchFrom, LifeIInv, LifeTypeOK,
      MainState, ThreadState
<1>4. ThreadState'
  BY DEF ServiceYields, flags, Running, SwitchFrom, LifeIInv, LifeTypeOK,
      ThreadState
<1>5. QED
  BY <1>1, <1>2, <1>3, <1>4 DEF LifeIInv

(* The service ends; a caller that waits for it is resumed.                *)
LEMMA ServiceEndsKeeps ==
  ASSUME LifeIInv, NEW m \in Member, ServiceEnds(m)
  PROVE  LifeIInv'
<1> USE PoolLifeAssumption
<1>1. LifeTypeOK'
  <2>1. CASE joinedBy
    BY <2>1 DEF ServiceEnds, flags, LifeIInv, LifeTypeOK, Unit
  <2>2. CASE ~ joinedBy
    BY <2>2 DEF ServiceEnds, flags, Running, SwitchFrom, LifeIInv, LifeTypeOK
  <2>3. QED
    BY <2>1, <2>2
<1>2. OnePlace'
  BY DEF ServiceEnds, Running, SwitchFrom, LifeIInv, LifeTypeOK, Unit, OnePlace,
      MainState, ThreadState, Aside
<1>3. MainState'
  BY DEF ServiceEnds, flags, Running, SwitchFrom, LifeIInv, LifeTypeOK,
      MainState, ThreadState
<1>4. ThreadState'
  BY DEF ServiceEnds, flags, Running, SwitchFrom, LifeIInv, LifeTypeOK,
      ThreadState
<1>5. QED
  BY <1>1, <1>2, <1>3, <1>4 DEF LifeIInv

(* The guard tells the service to stop.                                    *)
LEMMA StopServiceKeeps ==
  ASSUME LifeIInv, NEW m \in Member, StopService(m)
  PROVE  LifeIInv'
<1> USE PoolLifeAssumption
<1>1. LifeTypeOK'
  BY DEF StopService, LifeIInv, LifeTypeOK
<1>2. OnePlace'
  BY DEF StopService, LifeIInv, OnePlace, Aside
<1>3. MainState'
  BY DEF StopService, LifeIInv, MainState
<1>4. ThreadState'
  BY DEF StopService, LifeIInv, ThreadState
<1>5. QED
  BY <1>1, <1>2, <1>3, <1>4 DEF LifeIInv

(* The guard waits for the service, aside from the queues.                 *)
LEMMA JoinServiceKeeps ==
  ASSUME LifeIInv, NEW m \in Member, JoinService(m)
  PROVE  LifeIInv'
<1> USE PoolLifeAssumption
<1>1. LifeTypeOK'
  <2>1. CASE served /\ Service \notin over
    BY DEF JoinService, flags, SwitchFrom, LifeIInv, LifeTypeOK
  <2>2. CASE ~ (served /\ Service \notin over)
    BY <2>2 DEF JoinService, flags, LifeIInv, LifeTypeOK
  <2>3. QED
    BY <2>1, <2>2
<1>2. OnePlace'
  BY DEF JoinService, Running, SwitchFrom, LifeIInv, LifeTypeOK, Unit, OnePlace,
      Aside
<1>3. MainState'
  BY DEF JoinService, flags, LifeIInv, MainState
<1>4. ThreadState'
  BY DEF JoinService, Running, SwitchFrom, LifeIInv, LifeTypeOK, MainState,
      ThreadState
<1>5. QED
  BY <1>1, <1>2, <1>3, <1>4 DEF LifeIInv

(* The guard stops the loops.                                              *)
LEMMA FinishKeeps ==
  ASSUME LifeIInv, NEW m \in Member, Finish(m)
  PROVE  LifeIInv'
<1> USE PoolLifeAssumption
<1>1. LifeTypeOK'
  BY DEF Finish, LifeIInv, LifeTypeOK
<1>2. OnePlace'
  BY DEF Finish, LifeIInv, OnePlace, Aside
<1>3. MainState'
  BY DEF Finish, Running, LifeIInv, OnePlace, MainState, Aside
<1>4. ThreadState'
  BY DEF Finish, LifeIInv, ThreadState
<1>5. QED
  BY <1>1, <1>2, <1>3, <1>4 DEF LifeIInv

(* The caller leaves its worker: its callback is not run yet.              *)
LEMMA ParkMainKeeps ==
  ASSUME LifeIInv, NEW m \in Member, ParkMain(m)
  PROVE  LifeIInv'
<1> USE PoolLifeAssumption
<1>0. /\ at' = [at EXCEPT ![m] = "callback"] /\ at'[m] = "callback" /\ at[m] = "loop"
      /\ \A n \in Member : n # m => at'[n] = at[n] /\ runs'[n] = runs[n]
      /\ \A n \in Member : at[n] # "callback"
      /\ mainPc' = "parked" /\ finish /\ entry = "init" /\ ~ destCont /\ ~ joinedBy
  BY DEF ParkMain, Running, SwitchFrom, LifeIInv, LifeTypeOK, MainState,
      ThreadState
<1>1. LifeTypeOK'
  BY DEF ParkMain, flags, SwitchFrom, LifeIInv, LifeTypeOK
<1>2. OnePlace'
  BY DEF ParkMain, Running, SwitchFrom, LifeIInv, LifeTypeOK, Unit, OnePlace
<1>3. MainState'
  BY <1>0 DEF ParkMain, flags, MainState
<1>4. ThreadState'
  BY <1>0 DEF ParkMain, flags, LifeIInv, ThreadState
<1>5. QED
  BY <1>1, <1>2, <1>3, <1>4 DEF LifeIInv

(* The callback puts the caller in dest_cont.                              *)
LEMMA WriteDestKeeps ==
  ASSUME LifeIInv, NEW m \in Member, WriteDest(m)
  PROVE  LifeIInv'
<1> USE PoolLifeAssumption
<1>1. LifeTypeOK'
  BY DEF WriteDest, flags, LifeIInv, LifeTypeOK
<1>2. OnePlace'
  BY DEF WriteDest, LifeIInv, OnePlace, Aside
<1>3. MainState'
  BY DEF WriteDest, flags, LifeIInv, MainState, ThreadState
<1>4. ThreadState'
  BY DEF WriteDest, flags, LifeIInv, LifeTypeOK, ThreadState
<1>5. QED
  BY <1>1, <1>2, <1>3, <1>4 DEF LifeIInv

(* The root future of run_async ends.                                      *)
LEMMA RootEndsKeeps ==
  ASSUME LifeIInv, NEW m \in Member, RootEnds(m)
  PROVE  LifeIInv'
<1> USE PoolLifeAssumption
<1>1. LifeTypeOK'
  BY DEF RootEnds, Running, LifeIInv, LifeTypeOK
<1>2. OnePlace'
  BY DEF RootEnds, Running, LifeIInv, LifeTypeOK, Unit, OnePlace, Aside
<1>3. MainState'
  BY DEF RootEnds, LifeIInv, MainState
<1>4. ThreadState'
  BY DEF RootEnds, LifeIInv, ThreadState
<1>5. QED
  BY <1>1, <1>2, <1>3, <1>4 DEF LifeIInv

(* The other threads are out.                                              *)
LEMMA JoinThreadsKeeps ==
  ASSUME LifeIInv, JoinThreads
  PROVE  LifeIInv'
<1> USE PoolLifeAssumption
<1>1. LifeTypeOK'
  BY DEF JoinThreads, flags, LifeIInv, LifeTypeOK
<1>2. OnePlace'
  BY DEF JoinThreads, LifeIInv, OnePlace, Aside
<1>3. MainState'
  BY DEF JoinThreads, flags, LifeIInv, MainState, Running
<1>4. ThreadState'
  BY DEF JoinThreads, flags, Others, LifeIInv, MainState, ThreadState, Running
<1>5. QED
  BY <1>1, <1>2, <1>3, <1>4 DEF LifeIInv

(* Worker 0 takes the caller out of dest_cont.                             *)
LEMMA EnterDestKeeps ==
  ASSUME LifeIInv, EnterDest
  PROVE  LifeIInv'
<1> USE PoolLifeAssumption
<1>1. LifeTypeOK'
  BY DEF EnterDest, flags, LifeIInv, LifeTypeOK, Unit
<1>2. OnePlace'
  BY DEF EnterDest, LifeIInv, OnePlace, MainState, ThreadState, Aside
<1>3. MainState'
  BY DEF EnterDest, flags, LifeIInv, LifeTypeOK, MainState, ThreadState, Others
<1>4. ThreadState'
  BY DEF EnterDest, LifeIInv, LifeTypeOK, ThreadState
<1>5. QED
  BY <1>1, <1>2, <1>3, <1>4 DEF LifeIInv

(* The caller returns from init or run_async.                              *)
LEMMA ReturnToCallerKeeps ==
  ASSUME LifeIInv, ReturnToCaller
  PROVE  LifeIInv'
<1> USE PoolLifeAssumption
<1>1. LifeTypeOK'
  BY DEF ReturnToCaller, flags, LifeIInv, LifeTypeOK, Unit
<1>2. OnePlace'
  BY DEF ReturnToCaller, LifeIInv, LifeTypeOK, Unit, OnePlace, MainState, Aside
<1>3. MainState'
  BY DEF ReturnToCaller, flags, LifeIInv, LifeTypeOK, MainState, ThreadState,
      Others
<1>4. ThreadState'
  BY DEF ReturnToCaller, LifeIInv, LifeTypeOK, MainState, ThreadState, Others
<1>5. QED
  BY <1>1, <1>2, <1>3, <1>4 DEF LifeIInv

(* A step that changes nothing.                                            *)
LEMMA LifeStutters == LifeIInv /\ UNCHANGED lifevars => LifeIInv'
BY DEF lifevars, LifeIInv, LifeTypeOK, OnePlace, MainState, ThreadState,
    Running, Aside

(* Before init or run_async starts no task is anywhere.                    *)
LEMMA LifeInitIInv == LifeInit => LifeIInv
BY PoolLifeAssumption
DEF LifeInit, LifeIInv, LifeTypeOK, OnePlace, MainState, ThreadState

(* Every step keeps the invariant.                                         *)
LEMMA LifeNextIInv == LifeIInv /\ [LifeNext]_lifevars => LifeIInv'
<1> SUFFICES ASSUME LifeIInv, [LifeNext]_lifevars PROVE LifeIInv'
  OBVIOUS
<1>1. CASE UNCHANGED lifevars
  BY <1>1, LifeStutters
<1>2. CASE Start \/ EndStep
  BY <1>2, StartKeeps, JoinThreadsKeeps, EnterDestKeeps, ReturnToCallerKeeps
  DEF EndStep
<1>3. ASSUME NEW m \in Member, LoopStep(m) PROVE LifeIInv'
  BY <1>3, EnterLoopKeeps, CheckFinishedKeeps, FindNothingKeeps, LeaveLoopKeeps,
     WriteDestKeeps
  DEF LoopStep
<1>4. ASSUME NEW m \in Member, UnitStep(m) PROVE LifeIInv'
  BY <1>4, StartServiceKeeps, StopServiceKeeps, JoinServiceKeeps, FinishKeeps,
     ParkMainKeeps, RootEndsKeeps, ChoreEndsKeeps, ServiceEndsKeeps
  DEF UnitStep, MainStep
<1>5. ASSUME NEW m \in Member, SpawnChore(m) \/ ChoreYields(m) \/ ServiceYields(m) PROVE LifeIInv'
  BY <1>5, SpawnChoreKeeps, ChoreYieldsKeeps, ServiceYieldsKeeps
<1>6. ASSUME NEW m \in Member, NEW u \in Unit, TakeUnit(m, u) PROVE LifeIInv'
  BY <1>6, TakeUnitKeeps
<1>7. QED
  BY <1>1, <1>2, <1>3, <1>4, <1>5, <1>6 DEF LifeNext

(* A set that has at most one element counts at most one.                  *)
LEMMA AtMostOne ==
  ASSUME NEW S, \A x, y \in S : x = y
  PROVE  Cardinality(S) \in {0, 1} /\ (S = {} <=> Cardinality(S) = 0)
<1>1. CASE S = {}
  BY <1>1, FS_EmptySet
<1>2. CASE S # {}
  <2>1. PICK x : x \in S
    BY <1>2
  <2>2. S = {x}
    BY <2>1
  <2>3. Cardinality({x}) = 1
    BY FS_Singleton
  <2>4. QED
    BY <2>2, <2>3
<1>3. QED
  BY <1>1, <1>2

(* What one place for every task says in numbers.                          *)
LEMMA PlacesCounted == LifeIInv => UnitsOnce
<1> SUFFICES ASSUME LifeIInv PROVE UnitsOnce
  OBVIOUS
<1> DEFINE aside == IF joinedBy \/ destCont \/ \E m \in Member : at[m] = "callback"
                    THEN {Caller} ELSE {}
<1>1. SUFFICES ASSUME NEW u \in Unit
               PROVE  Cardinality({m \in Member : runs[m] = u}) + Cardinality({u} \cap queued)
                        + Cardinality({u} \cap over) + Cardinality({u} \cap aside) <= 1
  BY DEF UnitsOnce
<1> DEFINE R == {m \in Member : runs[m] = u}
           Q == {u} \cap queued
           O == {u} \cap over
           A == {u} \cap aside
<1>2. \A m, n \in R : m = n
  BY PoolLifeAssumption DEF LifeIInv, OnePlace, Unit
<1>3. /\ R # {} => Q = {} /\ O = {} /\ A = {}
      /\ Q # {} => O = {} /\ A = {}
      /\ O # {} => A = {}
  <2>1. A # {} => u = Caller /\ Aside
    BY DEF Aside
  <2>2. /\ \A m \in Member : runs[m] \notin queued \cup over
        /\ queued \cap over = {}
        /\ Aside => Caller \notin queued \cup over /\ \A m \in Member : runs[m] # Caller
    BY DEF LifeIInv, OnePlace
  <2> HIDE DEF aside
  <2>3. (R # {} => u \notin queued \cup over) /\ (Q # {} => u \in queued) /\ (O # {} => u \in over)
    BY <2>2
  <2>4. (R # {} => ~ (u = Caller /\ Aside)) /\ (u = Caller /\ Aside => u \notin queued \cup over)
    BY <2>2
  <2>5. ~ (u \in queued /\ u \in over)
    BY <2>2
  <2> HIDE DEF R, Q, O, A
  <2>6. QED
    BY <2>1, <2>3, <2>4, <2>5
<1>4. /\ Cardinality(R) \in {0, 1} /\ (R = {} <=> Cardinality(R) = 0)
      /\ Cardinality(Q) \in {0, 1} /\ (Q = {} <=> Cardinality(Q) = 0)
      /\ Cardinality(O) \in {0, 1} /\ (O = {} <=> Cardinality(O) = 0)
      /\ Cardinality(A) \in {0, 1} /\ (A = {} <=> Cardinality(A) = 0)
  <2> HIDE DEF aside
  <2>1. \A x, y \in Q : x = y
    OBVIOUS
  <2>2. \A x, y \in O : x = y
    OBVIOUS
  <2>3. \A x, y \in A : x = y
    OBVIOUS
  <2> HIDE DEF R, Q, O, A
  <2>4. QED
    BY <1>2, <2>1, <2>2, <2>3, AtMostOne
<1>5. Cardinality(R) + Cardinality(Q) + Cardinality(O) + Cardinality(A) <= 1
  <2> HIDE DEF R, Q, O, A
  <2>1. QED
    BY <1>3, <1>4
<1>6. QED
  BY <1>5

(* Where the tasks, the caller and the threads are agrees in every state.  *)
THEOREM PoolLifeInvariant == LifeSpec => []LifeIInv
BY LifeInitIInv, LifeNextIInv, PTL DEF LifeSpec

(* A task is in one place (the queues, a worker, dest_cont or its joiner), *)
(* no thread runs a task without its thread-local worker, worker 0 finds   *)
(* dest_cont full when it joins the threads (EnterDest), and the caller    *)
(* returns when no other thread runs (the drop of the guard, run_async).   *)
THEOREM PoolLifeSafe == LifeSpec => []LifeInv
<1>1. ASSUME LifeIInv PROVE LifeInv
  <2>1. TlsCovers
    BY <1>1 DEF LifeIInv, MainState, ThreadState, TlsCovers
  <2>2. DestFound
    BY <1>1, PoolLifeAssumption
    DEF LifeIInv, MainState, ThreadState, DestFound, Others
  <2>3. AloneAtLast
    BY <1>1
    DEF LifeIInv, LifeTypeOK, MainState, ThreadState, AloneAtLast, Others
  <2>4. QED
    BY <1>1, <2>1, <2>2, <2>3, PlacesCounted DEF LifeInv
<1>2. QED
  BY <1>1, PoolLifeInvariant, PTL
=============================================================================
