------------------------------ MODULE Delegator -----------------------------
(***************************************************************************)
(* The delegator of resumable/stackful/sync/delegator.rs with its two      *)
(* queues, mcs_delegator.rs and ring_delegator.rs.  Callers line up with   *)
(* nodes; a node holds a caller's request or a caller that wants the lock. *)
(* A caller that finds the queue free executes its request itself; the     *)
(* others are served by a consumer task, which parks in consumer_sth while *)
(* somebody else holds the lock.                                           *)
(*                                                                         *)
(* Nodes are numbered in the order in which they are claimed: the ring's   *)
(* index, or one box of the list after the other.  A suspension's callback *)
(* is an actor of its own, cb[t], since the suspended caller may go on     *)
(* before it has ended.  The resource defers requests as it likes and      *)
(* completes deferred ones when polled, oldest first.                      *)
(***************************************************************************)
EXTENDS Naturals, FiniteSets, Sequences

CONSTANTS
  Caller,      \* tasks that make calls
  MaxCalls,    \* bound: calls of all callers
  RingSize,    \* N of the ring
  None

ASSUME DelegatorAssumption ==
  /\ MaxCalls \in Nat
  /\ RingSize \in Nat \ {0}
  /\ None \notin Caller \cup {"publish", "link"}

VARIABLES
  backend,     \* "mcs" or "ring"
  last,        \* the last claimed node (the list's tail; tail - 1 of the ring)
  isFree,      \* nobody holds the lock (tail is null; the FREE bit)
  head,        \* the holder's node
  linked,      \* places whose next (list) or ready (ring) is set
  node,        \* node[p]: what the node in place p holds
  heap,        \* nodes whose box is allocated
  isExecuted,  \* is_executed
  conParked,   \* consumer_sth holds the consumer's token
  conPc,       \* where the consumer task is
  finished,    \* set by drop
  deferred,    \* deferred calls, oldest first
  awake,       \* the caller progress handed back to the consumer, or None
  pc,          \* where each caller is
  kind,        \* what its call is: "call", "lock" or "drop"
  mine,        \* the node it claimed
  cb,          \* the callback of its suspension: None, "publish" or "link"
  sth,         \* callers whose token is in their call's slot
  answer,      \* how often each caller's request was executed in this call
  calls

queue == <<backend, last, isFree, head, linked, node, heap>>
consumer == <<isExecuted, conParked, conPc, finished, deferred, awake>>
callers == <<pc, kind, mine, cb, sth, answer, calls>>
dvars == <<queue, consumer, callers>>

NoNode == [req |-> None, sth |-> None]

(* The memory a node is in: its box, or its slot of the ring.              *)
Place(n) == IF backend = "ring" THEN n % RingSize ELSE n
Places == 0..(MaxCalls + RingSize)

(* start: the consumer's position is the first node.                       *)
DInit ==
  /\ backend \in {"mcs", "ring"}
  /\ last = 0 /\ isFree = FALSE /\ head = 0
  /\ linked = {}
  /\ node = [p \in Places |-> NoNode]
  /\ heap = {0}
  /\ isExecuted = TRUE
  /\ conParked = FALSE /\ conPc = "unborn" /\ finished = FALSE
  /\ deferred = <<>> /\ awake = None
  /\ pc = [t \in Caller |-> "out"]
  /\ kind = [t \in Caller |-> "call"]
  /\ mine = [t \in Caller |-> 0]
  /\ cb = [t \in Caller |-> None]
  /\ sth = {}
  /\ answer = [t \in Caller |-> 0]
  /\ calls = 0

Become(t, at) == pc' = [pc EXCEPT ![t] = at]
IsActive == deferred # <<>>

-----------------------------------------------------------------------------
(* The queues.                                                             *)

(* The ring is full: the claim would share a slot with the holder.         *)
Full == backend = "ring" /\ ~ isFree /\ last + 1 - head >= RingSize

(* start_lock: claim the next node; its claimer holds the lock if it was   *)
(* free.                                                                   *)
StartLock ==
  /\ ~ Full
  /\ last' = last + 1
  /\ isFree' = FALSE
  /\ head' = IF isFree THEN last + 1 ELSE head
  /\ heap' = IF backend = "mcs" THEN heap \cup {last + 1} ELSE heap

(* set_next: the list's predecessor points to the node, or the node's slot *)
(* is ready.                                                               *)
LinkPlace(n) == IF backend = "mcs" THEN n - 1 ELSE Place(n)
SetNext(n) == linked' = linked \cup {LinkPlace(n)}

(* try_unlock: free the lock if the holder's node is the last.             *)
CanUnlock == last = head

(* try_follow_head: the holder's position moves to the next node if that   *)
(* is linked; the old one is freed or reset.                               *)
CanFollow == LinkPlace(head + 1) \in linked
FollowHead ==
  /\ head' = head + 1
  /\ IF backend = "mcs"
     THEN heap' = heap \ {head} /\ UNCHANGED <<linked, node>>
     ELSE /\ linked' = linked \ {LinkPlace(head + 1)}
          /\ node' = [node EXCEPT ![Place(head)] = NoNode]
          /\ UNCHANGED heap
  /\ UNCHANGED <<backend, last, isFree>>

Successor == node[Place(head + 1)]

-----------------------------------------------------------------------------
(* Calls.                                                                  *)

(* The tasks that may make a call; the owner drops the delegator when no   *)
(* call is in progress.                                                    *)
Idle == \A t \in Caller : pc[t] = "out"
MayCall(k) ==
  /\ ~ \E t \in Caller : kind[t] = "drop"
  /\ calls < MaxCalls
  /\ k = "drop" => Idle

(* ensure_consumer_started.                                                *)
StartConsumer == conPc' = IF conPc = "unborn" THEN "loop" ELSE conPc

(* call, with_lock or drop, up to start_lock.                              *)
Claim(t, k) ==
  /\ pc[t] = "out" /\ MayCall(k)
  /\ k = "drop" => conPc # "unborn"
  /\ calls' = calls + 1
  /\ StartConsumer
  /\ StartLock
  /\ kind' = [kind EXCEPT ![t] = k]
  /\ mine' = [mine EXCEPT ![t] = last + 1]
  /\ answer' = [answer EXCEPT ![t] = 0]
  /\ \/ /\ isFree
        /\ Become(t, IF k = "call" THEN "exec" ELSE "in")
        /\ UNCHANGED cb
     \/ /\ ~ isFree
        /\ Become(t, "asleep")
        /\ cb' = [cb EXCEPT ![t] = "publish"]
  /\ UNCHANGED <<backend, linked, node, isExecuted, conParked, finished, deferred, awake, sth>>

(* The node is filled and the task parked: in its call's slot, or in the   *)
(* node of a lock waiter.                                                  *)
Publish(t) ==
  /\ cb[t] = "publish"
  /\ cb' = [cb EXCEPT ![t] = "link"]
  /\ node' = [node EXCEPT ![Place(mine[t])] =
                IF kind[t] = "call" THEN [req |-> t, sth |-> None]
                                    ELSE [req |-> None, sth |-> t]]
  /\ sth' = IF kind[t] = "call" THEN sth \cup {t} ELSE sth
  /\ UNCHANGED <<backend, last, isFree, head, linked, heap, consumer,
                 pc, kind, mine, answer, calls>>

Link(t) ==
  /\ cb[t] = "link"
  /\ cb' = [cb EXCEPT ![t] = None]
  /\ SetNext(mine[t])
  /\ UNCHANGED <<backend, last, isFree, head, node, heap, consumer,
                 pc, kind, mine, sth, answer, calls>>

(* Mutant: a caller whose request was deferred goes on.                    *)
ExecuteOwnNoWait(t) ==
  /\ pc[t] = "exec"
  /\ answer' = [answer EXCEPT ![t] = @ + 1]
  /\ Become(t, "unlock")
  /\ \/ UNCHANGED deferred
     \/ deferred' = Append(deferred, t)
  /\ UNCHANGED <<queue, isExecuted, finished, conParked, conPc, awake, kind, mine, cb, sth, calls>>

(* execute, called by the caller itself.                                   *)
ExecuteOwn(t) ==
  /\ pc[t] = "exec"
  /\ answer' = [answer EXCEPT ![t] = @ + 1]
  /\ \/ Become(t, "unlock") /\ UNCHANGED deferred
     \/ Become(t, "unlock_and_wait") /\ deferred' = Append(deferred, t)
  /\ UNCHANGED <<queue, isExecuted, conParked, conPc, finished, awake, kind, mine, cb, sth, calls>>

(* The body of with_lock, or of drop, is over.                             *)
LeaveLock(t) ==
  /\ pc[t] = "in"
  /\ Become(t, "unlock")
  /\ finished' = (finished \/ kind[t] = "drop")
  /\ UNCHANGED <<queue, isExecuted, conParked, conPc, deferred, awake, kind, mine, cb, sth, answer, calls>>

(* unlock returns: to the end of the call, or into the rest of drop.       *)
AfterUnlock(t) == IF kind[t] = "drop" THEN "stop" ELSE "out"

Unlock(t) ==
  /\ pc[t] = "unlock"
  /\ isExecuted' = TRUE
  /\ IF ~ IsActive /\ CanUnlock
     THEN isFree' = TRUE /\ Become(t, AfterUnlock(t))
     ELSE UNCHANGED isFree /\ Become(t, "follow")
  /\ UNCHANGED <<backend, last, head, linked, node, heap, conParked, conPc, finished, deferred, awake,
                 kind, mine, cb, sth, answer, calls>>

WakeConsumer ==
  /\ conParked
  /\ conParked' = FALSE
  /\ conPc' = "loop"

(* One caller leaves the lock, and another one has it.                     *)
Switch(t, to, u) ==
  pc' = [v \in Caller |-> IF v = u THEN "in" ELSE IF v = t THEN to ELSE pc[v]]

(* The rest of unlock: a successor that wants the lock is woken with it,   *)
(* any other is left to the consumer.                                      *)
Follow(t) ==
  /\ pc[t] = "follow"
  /\ \/ /\ CanFollow /\ Successor.sth # None
        /\ FollowHead
        /\ isExecuted' = FALSE
        /\ Switch(t, AfterUnlock(t), Successor.sth)
        /\ UNCHANGED <<conParked, conPc>>
     \/ /\ CanFollow /\ Successor.sth = None
        /\ FollowHead
        /\ isExecuted' = FALSE
        /\ WakeConsumer
        /\ Become(t, AfterUnlock(t))
     \/ /\ ~ CanFollow
        /\ WakeConsumer
        /\ Become(t, AfterUnlock(t))
        /\ UNCHANGED <<queue, isExecuted>>
  /\ UNCHANGED <<finished, deferred, awake, kind, mine, cb, sth, answer, calls>>

(* unlock_and_wait: the caller's deferred call keeps the resource active;  *)
(* the caller parks and switches to a lock waiter or to the consumer.      *)
UnlockAndWait(t) ==
  /\ pc[t] = "unlock_and_wait"
  /\ sth' = sth \cup {t}
  /\ \/ /\ CanFollow /\ Successor.sth # None
        /\ FollowHead
        /\ isExecuted' = FALSE
        /\ Switch(t, "asleep", Successor.sth)
        /\ UNCHANGED <<conParked, conPc>>
     \/ /\ CanFollow /\ Successor.sth = None
        /\ FollowHead
        /\ isExecuted' = FALSE
        /\ WakeConsumer
        /\ Become(t, "asleep")
     \/ /\ ~ CanFollow
        /\ WakeConsumer
        /\ Become(t, "asleep")
        /\ isExecuted' = TRUE
        /\ UNCHANGED queue
  /\ UNCHANGED <<finished, deferred, awake, kind, mine, cb, answer, calls>>

(* A caller that was woken returns with its response.                      *)
Return(t) ==
  /\ pc[t] = "woken"
  /\ Become(t, "out")
  /\ UNCHANGED <<queue, consumer, kind, mine, cb, sth, answer, calls>>

(* The rest of drop: the consumer is woken to see finished, and joined.    *)
Stop(t) ==
  /\ pc[t] = "stop"
  /\ \/ ~ IsActive /\ conPc = "parked" /\ WakeConsumer /\ UNCHANGED pc
     \/ conPc = "done" /\ Become(t, "gone") /\ UNCHANGED <<conParked, conPc>>
  /\ UNCHANGED <<queue, isExecuted, finished, deferred, awake, kind, mine, cb, sth, answer, calls>>

-----------------------------------------------------------------------------
(* consume, in a loop until finished is set.                               *)

Con(from, to) == conPc = from /\ conPc' = to

(* A caller whose response is in its slot is taken out of it and queued.   *)
Notify(t) == sth' = sth \ {t} /\ Become(t, "woken")

ConsumerExit ==
  /\ finished /\ Con("loop", "done")
  /\ UNCHANGED <<queue, isExecuted, conParked, finished, deferred, awake, callers>>

ConsumerFollow ==
  /\ ~ finished
  /\ Con("loop", IF isExecuted /\ ~ CanFollow THEN "progress" ELSE "head")
  /\ IF isExecuted /\ CanFollow THEN FollowHead ELSE UNCHANGED queue
  /\ UNCHANGED <<isExecuted, conParked, finished, deferred, awake, callers>>

(* A delegated call is begun, and ends at once or is deferred.             *)
ConsumerBegin ==
  /\ node[Place(head)].req # None
  /\ Con("head", "exec")
  /\ answer' = [answer EXCEPT ![node[Place(head)].req] = @ + 1]
  /\ UNCHANGED <<queue, isExecuted, conParked, finished, deferred, awake,
                 pc, kind, mine, cb, sth, calls>>

(* Mutant: is_executed is not set.                                         *)
ConsumerExecuteUnset ==
  LET t == node[Place(head)].req IN
  /\ Con("exec", "loop")
  /\ \/ Notify(t) /\ UNCHANGED deferred
     \/ deferred' = Append(deferred, t) /\ UNCHANGED <<pc, sth>>
  /\ UNCHANGED <<queue, isExecuted, conParked, finished, awake, kind, mine, cb, answer, calls>>

ConsumerExecute ==
  LET t == node[Place(head)].req IN
  /\ Con("exec", "loop")
  /\ isExecuted' = TRUE
  /\ \/ Notify(t) /\ UNCHANGED deferred
     \/ deferred' = Append(deferred, t) /\ UNCHANGED <<pc, sth>>
  /\ UNCHANGED <<queue, conParked, finished, awake, kind, mine, cb, answer, calls>>

(* The next in line wants the lock: the consumer parks and switches to it. *)
ConsumerSwap ==
  LET t == node[Place(head)].sth IN
  /\ node[Place(head)].req = None /\ t # None
  /\ Con("head", "parked")
  /\ conParked' = TRUE
  /\ Become(t, "in")
  /\ UNCHANGED <<queue, isExecuted, finished, deferred, awake, kind, mine, cb, sth, answer, calls>>

(* progress: nothing yet, or the oldest deferred call is completed.        *)
ConsumerIdle ==
  /\ Con("progress", IF IsActive THEN "loop" ELSE "park")
  /\ UNCHANGED <<queue, isExecuted, conParked, finished, deferred, awake, callers>>

ConsumerProgress ==
  /\ IsActive /\ conPc = "progress"
  /\ awake' = Head(deferred)
  /\ deferred' = Tail(deferred)
  /\ conPc' = "notify"
  /\ UNCHANGED <<queue, isExecuted, conParked, finished, callers>>

ConsumerNotify ==
  /\ Con("notify", IF IsActive THEN "loop" ELSE "park")
  /\ Notify(awake)
  /\ awake' = None
  /\ UNCHANGED <<queue, isExecuted, conParked, finished, deferred, kind, mine, cb, answer, calls>>

(* wait_with_cond: the consumer's token is published, and then the lock is *)
(* released, or the token taken back.                                      *)
ConsumerPark ==
  /\ Con("park", "release")
  /\ conParked' = TRUE
  /\ UNCHANGED <<queue, isExecuted, finished, deferred, awake, callers>>

(* Mutant: the suspension is not cancelled.                                *)
ConsumerReleaseNow ==
  /\ Con("release", "parked")
  /\ isFree' = CanUnlock
  /\ UNCHANGED <<backend, last, head, linked, node, heap, conParked,
                 isExecuted, finished, deferred, awake, callers>>

ConsumerRelease ==
  /\ IF CanUnlock
     THEN isFree' = TRUE /\ Con("release", "parked") /\ UNCHANGED conParked
     ELSE conParked' = FALSE /\ Con("release", "loop") /\ UNCHANGED isFree
  /\ UNCHANGED <<backend, last, head, linked, node, heap,
                 isExecuted, finished, deferred, awake, callers>>

Consume ==
  \/ ConsumerExit \/ ConsumerFollow \/ ConsumerBegin \/ ConsumerExecute \/ ConsumerSwap
  \/ ConsumerIdle \/ ConsumerNotify \/ ConsumerPark \/ ConsumerRelease

-----------------------------------------------------------------------------
(* What a caller does without being told to by the program.                *)
Proceed(t) ==
  \/ Publish(t) \/ Link(t) \/ ExecuteOwn(t) \/ LeaveLock(t) \/ Unlock(t) \/ Follow(t)
  \/ UnlockAndWait(t) \/ Return(t) \/ Stop(t)

DNext ==
  \/ \E t \in Caller : Proceed(t) \/ \E k \in {"call", "lock", "drop"} : Claim(t, k)
  \/ Consume \/ ConsumerProgress

DSpec == DInit /\ [][DNext]_dvars

(* Tasks keep running, bodies and requests end, and a resource that is     *)
(* polled again and again completes what it has deferred.                  *)
DFair ==
  /\ \A t \in Caller : WF_dvars(Proceed(t))
  /\ WF_dvars(Consume)
  /\ SF_dvars(ConsumerProgress)

-----------------------------------------------------------------------------
(* Properties.                                                             *)

Live == head..last

DTypeOK ==
  /\ backend \in {"mcs", "ring"}
  /\ last \in 0..MaxCalls /\ head \in 0..last /\ isFree \in BOOLEAN
  /\ linked \subseteq Places /\ heap \subseteq 0..last
  /\ node \in [Places -> [req : Caller \cup {None}, sth : Caller \cup {None}]]
  /\ isExecuted \in BOOLEAN /\ conParked \in BOOLEAN /\ finished \in BOOLEAN
  /\ conPc \in {"unborn", "loop", "head", "exec", "progress", "notify", "park", "release", "parked", "done"}
  /\ \A i \in DOMAIN deferred : deferred[i] \in Caller
  /\ awake \in Caller \cup {None}
  /\ pc \in [Caller -> {"out", "asleep", "exec", "in", "unlock", "unlock_and_wait", "follow",
                        "woken", "stop", "gone"}]
  /\ kind \in [Caller -> {"call", "lock", "drop"}]
  /\ mine \in [Caller -> 0..last]
  /\ cb \in [Caller -> {None, "publish", "link"}]
  /\ sth \subseteq Caller
  /\ answer \in [Caller -> 0..MaxCalls]
  /\ calls \in 0..MaxCalls

(* The delegator implements Delegation: whoever executes requests or runs a*)
(* with_lock body does it alone, each request is executed once, and its    *)
(* caller returns after it was answered.                                   *)
Stage(t) ==
  IF pc[t] \in {"out", "stop", "gone"} THEN "out"
  ELSE IF pc[t] = "exec" THEN "running"
  ELSE IF pc[t] = "in" THEN "in"
  ELSE IF pc[t] \in {"unlock", "follow", "woken"} \/ awake = t THEN "answered"
  ELSE IF \E i \in DOMAIN deferred : deferred[i] = t THEN "deferred"
  ELSE IF pc[t] # "asleep" THEN "lost"
  ELSE IF conPc = "exec" /\ node[Place(head)].req = t THEN "running"
  ELSE IF kind[t] = "call" THEN "asked"
  ELSE "wants"

ServiceOf == INSTANCE Delegation WITH call <- [t \in Caller |-> Stage(t)]
ImplementsDelegation == ServiceOf!Spec

(* A call's request is executed once, whoever does it.                     *)
ExecutedOnce ==
  \A t \in Caller :
    /\ answer[t] <= 1
    /\ pc[t] = "woken" => answer[t] = 1

(* Whoever is about to wake the consumer finds it parked, and nobody but   *)
(* the consumer acts as the consumer.                                      *)
ConsumerWaits ==
  /\ \A t \in Caller : pc[t] \in {"exec", "in", "unlock", "follow", "unlock_and_wait"} => conParked
  /\ isFree /\ ~ finished => conParked

(* No two claims that are in use share a place, and what the next holder is*)
(* going to read is there.                                                 *)
NodesApart ==
  /\ ~ isFree => \A i, j \in Live : Place(i) = Place(j) => i = j
  /\ backend = "mcs" /\ ~ isFree => Live \subseteq heap
  /\ CanFollow /\ ~ isFree => head < last /\ Successor # NoNode

(* The list and the ring keep the nodes in use apart, one thread at a time *)
(* has the consumer's role, and no request is executed twice.              *)
ConsumerInv == DTypeOK /\ ExecutedOnce /\ ConsumerWaits /\ NodesApart

(* Every call returns.                                                     *)
CallsReturn == \A t \in Caller : pc[t] \notin {"out", "gone"} ~> pc[t] \in {"out", "gone"}
=============================================================================
