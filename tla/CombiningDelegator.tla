------------------------- MODULE CombiningDelegator -------------------------
(***************************************************************************)
(* resumable/stackful/sync/combining_delegator.rs: a delegator without a   *)
(* consumer task.  Callers queue with nodes in their own frames; whoever   *)
(* holds the lock executes the requests behind him, and hands the lock to  *)
(* a with_lock caller when he comes to one.                                *)
(*                                                                         *)
(* A node is named after its caller.  The callback of a suspension is an   *)
(* actor of its own, after[t].  The resource defers requests as it likes   *)
(* and completes them, oldest first, when it is polled.                    *)
(***************************************************************************)
EXTENDS Naturals, Sequences

CONSTANTS
  User,        \* tasks that make calls
  Uses,        \* bound: calls of all of them
  Nil

ASSUME CombiningAssumption == Uses \in Nat /\ Nil \notin User \cup {"publish", "link", "hand"}

VARIABLES
  tail,        \* the last node, or Nil
  next,        \* next[t]: the node linked behind t's; the LOCK bit is its owner's wish
  prev,        \* what t's swap of the tail returned
  at,          \* where each task is
  wish,        \* "call" or "lock"
  after,       \* the callback of t's suspension: Nil, "publish", "link" or "hand"
  slots,       \* tasks whose token is in their slot
  cur,         \* drain: the node the holder has come to
  curWake,     \* drain: cur's caller is to be woken
  succ,        \* drain: the successor it has loaded
  own,         \* drain: the holder's own call is deferred
  pending,     \* calls the resource has deferred
  served,      \* how often t's request was executed in this call
  uses

cvars == <<tail, next, prev, at, wish, after, slots, cur, curWake, succ, own, pending, served, uses>>
frame == <<prev, wish, uses>>

CInit ==
  /\ tail = Nil
  /\ next = [t \in User |-> Nil] /\ prev = [t \in User |-> Nil]
  /\ at = [t \in User |-> "out"] /\ wish = [t \in User |-> "call"]
  /\ after = [t \in User |-> Nil] /\ slots = {}
  /\ cur = [t \in User |-> t] /\ succ = [t \in User |-> Nil]
  /\ curWake = [t \in User |-> FALSE] /\ own = [t \in User |-> FALSE]
  /\ pending = <<>>
  /\ served = [t \in User |-> 0]
  /\ uses = 0

Go(t, to) == at' = [at EXCEPT ![t] = to]
At(t, from, to) == at[t] = from /\ Go(t, to)

-----------------------------------------------------------------------------

(* call and with_lock up to the swap of the tail in enqueue.               *)
Swap(t, w) ==
  /\ at[t] = "out" /\ uses < Uses
  /\ uses' = uses + 1
  /\ wish' = [wish EXCEPT ![t] = w]
  /\ next' = [next EXCEPT ![t] = Nil]
  /\ served' = [served EXCEPT ![t] = 0]
  /\ tail' = t
  /\ prev' = [prev EXCEPT ![t] = tail]
  /\ IF tail = Nil
     THEN Go(t, IF w = "call" THEN "exec" ELSE "in") /\ UNCHANGED after
     ELSE Go(t, "asleep") /\ after' = [after EXCEPT ![t] = "publish"]
  /\ UNCHANGED <<slots, cur, curWake, succ, own, pending>>

(* wait_with: the token is in the slot before the callback runs.           *)
Settle(t) ==
  /\ after[t] = "publish"
  /\ slots' = slots \cup {t}
  /\ after' = [after EXCEPT ![t] = IF own[t] THEN "hand" ELSE "link"]
  /\ UNCHANGED <<tail, next, at, cur, curWake, succ, own, pending, served, frame>>

LinkBehind(t) ==
  /\ after[t] = "link"
  /\ next' = [next EXCEPT ![prev[t]] = t]
  /\ after' = [after EXCEPT ![t] = Nil]
  /\ UNCHANGED <<tail, at, slots, cur, curWake, succ, own, pending, served, frame>>

(* The holder begins to drain from his own node.                           *)
BeginDrain(t, deferred) ==
  /\ Go(t, "drain")
  /\ cur' = [cur EXCEPT ![t] = t]
  /\ curWake' = [curWake EXCEPT ![t] = FALSE]
  /\ own' = [own EXCEPT ![t] = deferred]

(* A caller that found the queue empty executes its request itself.        *)
RunOwn(t) ==
  /\ at[t] = "exec"
  /\ served' = [served EXCEPT ![t] = @ + 1]
  /\ \/ BeginDrain(t, FALSE) /\ UNCHANGED pending
     \/ BeginDrain(t, TRUE) /\ pending' = Append(pending, t)
  /\ UNCHANGED <<tail, next, after, slots, succ, frame>>

(* The body of with_lock is over.                                          *)
EndBody(t) ==
  /\ at[t] = "in"
  /\ BeginDrain(t, FALSE)
  /\ UNCHANGED <<tail, next, after, slots, succ, pending, served, frame>>

(* progress hands a completed call back.                                   *)
(* Mutant: the caller of cur is woken at once.                             *)
PollEager(t) ==
  /\ at[t] = "drain" /\ pending # <<>>
  /\ pending' = Tail(pending)
  /\ LET r == Head(pending) IN
       \/ own[t] /\ r = t /\ own' = [own EXCEPT ![t] = FALSE] /\ UNCHANGED <<at, slots, curWake>>
       \/ ~ (own[t] /\ r = t) /\ Go(r, "woken") /\ slots' = slots \ {r} /\ UNCHANGED <<own, curWake>>
  /\ UNCHANGED <<tail, next, after, cur, succ, served, frame>>

Poll(t) ==
  /\ at[t] = "drain" /\ pending # <<>>
  /\ pending' = Tail(pending)
  /\ LET r == Head(pending) IN
       \/ /\ own[t] /\ r = t
          /\ own' = [own EXCEPT ![t] = FALSE]
          /\ UNCHANGED <<at, slots, curWake>>
       \/ /\ cur[t] # t /\ r = cur[t]
          /\ curWake' = [curWake EXCEPT ![t] = TRUE]
          /\ UNCHANGED <<at, slots, own>>
       \/ /\ ~ (own[t] /\ r = t) /\ ~ (cur[t] # t /\ r = cur[t])
          /\ Go(r, "woken")
          /\ slots' = slots \ {r}
          /\ UNCHANGED <<own, curWake>>
  /\ UNCHANGED <<tail, next, after, cur, succ, served, frame>>

(* Mutant: the queue is released while other callers' calls are deferred.  *)
LoadNextEager(t) ==
  /\ \/ next[cur[t]] # Nil /\ At(t, "drain", "step")
     \/ next[cur[t]] = Nil /\ ~ own[t] /\ At(t, "drain", "release")
  /\ succ' = [succ EXCEPT ![t] = next[cur[t]]]
  /\ UNCHANGED <<tail, next, after, slots, cur, curWake, own, pending, served, frame>>

(* The load of cur's next; without one the queue is released once nothing  *)
(* is deferred.                                                            *)
LoadNext(t) ==
  /\ \/ next[cur[t]] # Nil /\ At(t, "drain", "step")
     \/ next[cur[t]] = Nil /\ ~ own[t] /\ pending = <<>> /\ At(t, "drain", "release")
  /\ succ' = [succ EXCEPT ![t] = next[cur[t]]]
  /\ UNCHANGED <<tail, next, after, slots, cur, curWake, own, pending, served, frame>>

(* The tail is swung back, unless somebody is linking himself.             *)
Release(t) ==
  /\ IF tail = cur[t]
     THEN tail' = Nil /\ At(t, "release", "wake")
     ELSE UNCHANGED tail /\ At(t, "release", "spin")
  /\ UNCHANGED <<next, after, slots, cur, curWake, succ, own, pending, served, frame>>

(* The holder wakes cur's caller, if that has its answer, and goes on.     *)
WakeCur(t, to) ==
  IF curWake[t]
  THEN /\ at' = [u \in User |-> IF u = cur[t] THEN "woken" ELSE IF u = t THEN to ELSE at[u]]
       /\ slots' = slots \ {cur[t]}
  ELSE Go(t, to) /\ UNCHANGED slots

WakeLast(t) ==
  /\ at[t] = "wake"
  /\ WakeCur(t, "out")
  /\ UNCHANGED <<tail, next, after, cur, curWake, succ, own, pending, served, frame>>

Spin(t) ==
  /\ next[cur[t]] # Nil
  /\ At(t, "spin", "step")
  /\ succ' = [succ EXCEPT ![t] = next[cur[t]]]
  /\ UNCHANGED <<tail, next, after, slots, cur, curWake, own, pending, served, frame>>

(* Mutant: the LOCK bit is ignored.                                        *)
AdvanceUnmarked(t) ==
  LET n == succ[t] IN
  /\ at[t] = "step"
  /\ WakeCur(t, "run")
  /\ curWake' = [curWake EXCEPT ![t] = FALSE]
  /\ served' = [served EXCEPT ![n] = @ + 1]
  /\ UNCHANGED <<tail, next, after, cur, succ, own, pending, frame>>

(* cur's caller may return now; its successor's request is begun, or the   *)
(* lock is his.                                                            *)
Advance(t) ==
  LET n == succ[t]
      to == IF wish[n] = "lock" THEN "hand" ELSE "run"
  IN
  /\ at[t] = "step"
  /\ WakeCur(t, to)
  /\ curWake' = [curWake EXCEPT ![t] = FALSE]
  /\ served' = IF to = "run" THEN [served EXCEPT ![n] = @ + 1] ELSE served
  /\ UNCHANGED <<tail, next, after, cur, succ, own, pending, frame>>

Run(t) ==
  /\ At(t, "run", "drain")
  /\ cur' = [cur EXCEPT ![t] = succ[t]]
  /\ \/ curWake' = [curWake EXCEPT ![t] = TRUE] /\ UNCHANGED pending
     \/ pending' = Append(pending, succ[t]) /\ UNCHANGED curWake
  /\ UNCHANGED <<tail, next, after, slots, succ, own, served, frame>>

(* hold: the lock is handed to the successor, by a callback of our own     *)
(* suspension if our call is still deferred.                               *)
Hand(t) ==
  /\ at[t] = "hand"
  /\ IF own[t]
     THEN Go(t, "asleep") /\ after' = [after EXCEPT ![t] = "publish"] /\ UNCHANGED slots
     ELSE /\ at' = [u \in User |-> IF u = succ[t] THEN "in" ELSE IF u = t THEN "out" ELSE at[u]]
          /\ slots' = slots \ {succ[t]}
          /\ UNCHANGED after
  /\ UNCHANGED <<tail, next, cur, curWake, succ, own, pending, served, frame>>

HandAsleep(t) ==
  /\ after[t] = "hand"
  /\ after' = [after EXCEPT ![t] = Nil]
  /\ own' = [own EXCEPT ![t] = FALSE]
  /\ Go(succ[t], "in")
  /\ slots' = slots \ {succ[t]}
  /\ UNCHANGED <<tail, next, cur, curWake, succ, pending, served, frame>>

ReturnUser(t) ==
  /\ At(t, "woken", "out")
  /\ UNCHANGED <<tail, next, after, slots, cur, curWake, succ, own, pending, served, frame>>

-----------------------------------------------------------------------------
Work(t) ==
  \/ Settle(t) \/ LinkBehind(t) \/ RunOwn(t) \/ EndBody(t) \/ LoadNext(t) \/ Release(t)
  \/ WakeLast(t) \/ Spin(t) \/ Advance(t) \/ Run(t) \/ Hand(t) \/ HandAsleep(t) \/ ReturnUser(t)

CNext == \E t \in User : Work(t) \/ Poll(t) \/ \E w \in {"call", "lock"} : Swap(t, w)
CSpec == CInit /\ [][CNext]_cvars

(* Tasks keep running, and a resource that is polled again and again       *)
(* completes what it has deferred.                                         *)
CFair ==
  \A t \in User : WF_cvars(Work(t)) /\ SF_cvars(Poll(t))

-----------------------------------------------------------------------------
(* Properties.                                                             *)

CTypeOK ==
  /\ tail \in User \cup {Nil}
  /\ next \in [User -> User \cup {Nil}] /\ prev \in [User -> User \cup {Nil}]
  /\ at \in [User -> {"out", "asleep", "exec", "in", "drain", "release", "spin", "wake", "step",
                      "run", "hand", "woken"}]
  /\ wish \in [User -> {"call", "lock"}]
  /\ after \in [User -> {Nil, "publish", "link", "hand"}]
  /\ slots \subseteq User
  /\ cur \in [User -> User] /\ succ \in [User -> User \cup {Nil}]
  /\ curWake \in [User -> BOOLEAN] /\ own \in [User -> BOOLEAN]
  /\ pending \in Seq(User)
  /\ served \in [User -> 0..Uses]
  /\ uses \in 0..Uses

(* "the holder never touches a frame that has returned": until its successor*)
(* is known, the caller whose node the holder stands on is asleep; so is the*)
(* one in whose frame a linking task is going to write, or it is the holder.*)
NodeInFrame ==
  \A t \in User :
    /\ at[t] \in {"drain", "release", "spin"} => cur[t] = t \/ at[cur[t]] = "asleep"
    /\ after[t] \in {"publish", "link"} /\ ~ own[t] =>
         \/ at[prev[t]] \in {"asleep", "exec", "in", "drain", "release", "spin"}
         \/ \E h \in User : at[h] \in {"run", "drain", "release", "spin"} /\ prev[t] \in {cur[h], succ[h]}

(* A call that is deferred is its holder's own or sleeps in its slot, so    *)
(* that whoever completes it finds a task to wake; so is a linked waiter.   *)
WakeableInSlot ==
  /\ \A i \in DOMAIN pending : LET t == pending[i] IN t \in slots \/ own[t]
  /\ \A t \in User : LET n == next[IF at[t] \in {"exec", "in"} THEN t ELSE cur[t]] IN
       at[t] \in {"exec", "in", "drain", "release", "spin"} /\ n # Nil => n \in slots

(* Frames, slots and types of the combining delegator.                     *)
FrameInv == CTypeOK /\ NodeInFrame /\ WakeableInSlot

(* CombiningDelegator implements Delegation: requests and with_lock bodies  *)
(* run one at a time, each request once, and callers return after the answer.*)
IsPending(t) == \E i \in DOMAIN pending : pending[i] = t
CallStage(t) ==
  IF at[t] \in {"out", "in"} THEN at[t]
  ELSE IF at[t] = "exec" THEN "running"
  ELSE IF wish[t] = "lock" THEN IF at[t] = "asleep" THEN "wants" ELSE "answered"
  ELSE IF IsPending(t) THEN "deferred"
  ELSE IF served[t] = 0 THEN "asked"
  ELSE IF \E h \in User : at[h] = "run" /\ succ[h] = t THEN "running"
  ELSE IF served[t] = 1 THEN "answered" ELSE "lost"

Combined == INSTANCE Delegation WITH Caller <- User, call <- [t \in User |-> CallStage(t)]
CombiningImplements == Combined!Spec

(* Every call returns.                                                     *)
UsesReturn == \A t \in User : at[t] # "out" ~> at[t] = "out"
=============================================================================
