-------------------------- MODULE Delegators_proofs --------------------------
(***************************************************************************)
(* Proofs about the two delegators, each against Delegation.               *)
(*                                                                         *)
(* The combining delegator: FrameIInv is inductive: the waiters of the     *)
(* queue hang behind the holder's front by their prev, and a caller whose  *)
(* request was begun is in the care of one task.  It gives FrameInv, and   *)
(* with it every step of the delegator is one of Delegation on the stages  *)
(* of the calls, or leaves them alone.                                     *)
(*                                                                         *)
(* The delegator with a consumer: DelegatorIInv is inductive: callers that *)
(* are asleep and unserved are in line behind the holder's node, each with *)
(* a node of its own that is filled before it is linked, and one task has  *)
(* the lock, a caller or the consumer, who is parked if it is a caller.    *)
(* It gives ConsumerInv and the refinement of Delegation.                  *)
(***************************************************************************)
EXTENDS Delegator, CombiningDelegator, SequenceTheorems, TLAPS

-----------------------------------------------------------------------------
(* The combining delegator.                                                *)

(* The inductive invariant.                                                *)

(* Where a task is in the code.                                            *)
Spot == {"out", "asleep", "exec", "in", "drain", "release", "spin", "wake", "step",
         "run", "hand", "woken"}
USE DEF Spot

(* Where the holder walks along the queue, on the node cur.                *)
Walking == {"drain", "release", "spin"}

(* Holders that hand the lock over from the callback of their suspension.  *)
Handing == {t \in User : (own[t] /\ after[t] = "publish") \/ after[t] = "hand"}

(* Who has the queue: nobody, or one task, until its tail is swung back or *)
(* the successor has the lock.                                             *)
Holding ==
  {t \in User : at[t] \in {"exec", "in", "step", "run", "hand"} \cup Walking} \cup Handing

(* The node a holder has come to; in a step it is already the successor.   *)
Front(h) ==
  IF at[h] \in {"exec", "in"} THEN h
  ELSE IF at[h] \in Walking THEN cur[h]
  ELSE succ[h]
Fronts == {Front(h) : h \in Holding}

(* Callers whose request nobody has begun.                                 *)
Waiters == {t \in User : at[t] = "asleep" /\ served[t] = 0}

(* The waiters behind the front, and the nodes of the queue.               *)
Behind == Waiters \ Fronts
Line == Behind \cup Fronts

(* Callers whose call the resource has deferred.                           *)
Deferred == {t \in User : IsPending(t)}

(* Holders that are going to wake the caller they stand on, and these      *)
(* callers.                                                                *)
Telling == {h \in User : curWake[h] /\ at[h] \in {"wake", "step"} \cup Walking}
Told == {cur[h] : h \in Telling}

(* The caller whose request is being executed by the holder.               *)
Beginning == {succ[h] : h \in {g \in User : at[g] = "run"}}

(* Nothing is in a sequence twice.                                         *)
NoTwice(s) == \A i, j \in DOMAIN s : s[i] = s[j] => i = j

(* Types; a request is executed at most once, in a use that was counted.   *)
Types ==
  /\ CTypeOK
  /\ \A t \in User : served[t] \in {0, 1}
  /\ \A t \in User : at[t] # "out" => uses > 0

(* There is a holder exactly if the queue has a tail.                      *)
OneHolds ==
  /\ \A g, h \in Holding : g = h
  /\ tail = Nil <=> Holding = {}

(* Who swapped the tail after whom: each waiter behind the front has a     *)
(* predecessor of its own in the queue, the tail is nobody's, and a link   *)
(* leads to the waiter whose swap returned the node.                       *)
Chain ==
  /\ tail # Nil => tail \in Line /\ \A t \in Behind : prev[t] # tail
  /\ \A t \in Behind : prev[t] \in Line
  /\ \A t, u \in Behind : prev[t] = prev[u] => t = u
  /\ \A t \in Line : next[t] # Nil => next[t] \in Behind /\ prev[next[t]] = t
       /\ after[next[t]] = Nil

(* Who sleeps in its slot, and what the callbacks of the sleepers are      *)
(* about: behind the front of the queue, or a handing over by a holder     *)
(* whose own call is deferred.                                             *)
Sleep ==
  /\ slots = {t \in User : at[t] = "asleep" /\ after[t] # "publish"}
  /\ \A t \in User :
       /\ after[t] # Nil => at[t] = "asleep"
       /\ after[t] = "link" => t \in Behind
       /\ after[t] = "hand" => own[t]
       /\ after[t] = "publish" => t \in Behind \/ own[t]
       /\ own[t] => t \in Holding /\ wish[t] = "call" /\ served[t] = 1 /\ t \in Deferred

(* What a task knows at each place.                                        *)
Holder ==
  \A h \in User :
    /\ at[h] = "run" => ~ curWake[h]
    /\ at[h] = "exec" => wish[h] = "call" /\ served[h] = 0
    /\ at[h] = "in" => wish[h] = "lock"
    /\ at[h] \in Walking => cur[h] = h \/ curWake[h] \/ cur[h] \in Deferred
    /\ at[h] \in Walking \cup {"wake", "step"} /\ curWake[h] => cur[h] # h
    /\ at[h] = "step" \/ at[h] = "hand" \/ h \in Handing => succ[h] \in Waiters
         /\ after[succ[h]] = Nil
    /\ at[h] = "hand" \/ h \in Handing => wish[succ[h]] = "lock"
    /\ at[h] \in {"wake", "step", "run", "hand", "woken"} \cup Walking /\ wish[h] = "call"
         => served[h] = 1
    /\ at[h] = "woken" => wish[h] = "call"
    /\ at[h] \in {"release", "wake"} => ~ own[h]

(* A caller whose request was begun sleeps in the care of one task at      *)
(* most: it is deferred, or it is to be woken by the holder that stands on *)
(* it, or its request is being executed.                                   *)
Answers ==
  /\ \A t \in Deferred : (at[t] = "asleep" /\ t \notin Handing => after[t] = Nil)
       /\ (at[t] = "asleep" \/ own[t])
  /\ Told \cup Beginning \subseteq User
  /\ \A t \in Told \cup Beginning : at[t] = "asleep" /\ after[t] = Nil /\ ~ own[t]
  /\ \A t \in Told \cup Beginning \cup Deferred : served[t] = 1 /\ wish[t] = "call"
  /\ \A g, h \in Telling : cur[g] = cur[h] => g = h
  /\ Deferred \cap Told = {} /\ Deferred \cap Beginning = {} /\ Told \cap Beginning = {}
  /\ \A t \in User : wish[t] = "lock" => served[t] = 0

(* The inductive invariant.                                                *)
FrameIInv == Types /\ NoTwice(pending) /\ OneHolds /\ Chain /\ Sleep /\ Holder /\ Answers

-----------------------------------------------------------------------------
(* What the steps do to the deferred calls and to the queue.               *)

(* A call is deferred.                                                     *)
LEMMA Defers ==
  ASSUME pending \in Seq(User), NoTwice(pending), NEW r \in User, r \notin Deferred,
         pending' = Append(pending, r)
  PROVE  pending' \in Seq(User) /\ NoTwice(pending)' /\ Deferred' = Deferred \cup {r}
<1>1. /\ pending' \in Seq(User) /\ Len(pending') = Len(pending) + 1
      /\ \A i \in 1 .. Len(pending) : pending'[i] = pending[i]
      /\ pending'[Len(pending) + 1] = r
  BY AppendProperties
<1>2. Len(pending) \in Nat /\ DOMAIN pending = 1 .. Len(pending)
      /\ DOMAIN pending' = 1 .. (Len(pending) + 1)
  BY <1>1, LenProperties
<1>3. \A i \in 1 .. Len(pending) : pending[i] \in User /\ pending[i] # r
  BY <1>2, ElementOfSeq DEF Deferred, IsPending
<1>4. Deferred' = Deferred \cup {r}
  BY <1>1, <1>2 DEF Deferred, IsPending
<1>5. NoTwice(pending)'
  BY <1>1, <1>2, <1>3 DEF NoTwice
<1> QED BY <1>1, <1>4, <1>5

(* The resource completes the call it deferred first.                      *)
LEMMA Completes ==
  ASSUME pending \in Seq(User), NoTwice(pending), pending # <<>>, pending' = Tail(pending)
  PROVE  /\ pending' \in Seq(User) /\ NoTwice(pending)'
         /\ Head(pending) \in Deferred /\ Deferred' = Deferred \ {Head(pending)}
<1>1. /\ Len(pending) \in Nat \ {0} /\ Head(pending) = pending[1]
           /\ DOMAIN pending = 1 .. Len(pending)
      /\ pending' \in Seq(User) /\ Len(pending') = Len(pending) - 1
      /\ \A i \in 1 .. Len(pending') : pending'[i] = pending[i + 1]
  BY HeadTailProperties, EmptySeq, LenProperties
<1>2. DOMAIN pending' = 1 .. (Len(pending) - 1)
  BY <1>1, LenProperties
<1>3. Head(pending) \in Deferred
  BY <1>1, ElementOfSeq DEF Deferred, IsPending
<1>4. NoTwice(pending)'
  BY <1>1, <1>2 DEF NoTwice
<1>5. ASSUME NEW x \in User PROVE x \in Deferred' <=> x \in Deferred /\ x # Head(pending)
  <2>1. ASSUME NEW i \in DOMAIN pending', pending'[i] = x PROVE IsPending(x)
                 /\ x # pending[1]
    BY <2>1, <1>1, <1>2 DEF IsPending, NoTwice
  <2>2. ASSUME NEW i \in DOMAIN pending, pending[i] = x, x # pending[1] PROVE IsPending(x)'
    <3>1. i - 1 \in DOMAIN pending' /\ pending'[i - 1] = x
      BY <2>2, <1>1, <1>2
    <3> QED BY <3>1 DEF IsPending
  <2> QED BY <2>1, <2>2, <1>1 DEF Deferred, IsPending
<1>6. Deferred' = Deferred \ {Head(pending)}
  BY <1>5 DEF Deferred
<1> QED BY <1>1, <1>3, <1>4, <1>6

(* Without pending calls nobody is deferred.                               *)
LEMMA NoneDeferred == pending = <<>> => Deferred = {}
BY EmptySeq, LenProperties DEF Deferred, IsPending

(* The holder is alone, and its front is the only one.                     *)
LEMMA Held ==
  ASSUME FrameIInv, NEW t \in Holding
  PROVE  Holding = {t} /\ Fronts = {Front(t)} /\ tail # Nil
BY DEF FrameIInv, OneHolds, Fronts

(* A step that moves no node keeps the chain.                              *)
LEMMA ChainKept ==
  ASSUME Chain, UNCHANGED <<tail, prev, next>>, Behind' = Behind, Fronts' = Fronts,
         \A u \in User : u \in Behind /\ after[u] = Nil => after'[u] = Nil
  PROVE  Chain'
<1>1. Line' = Line
  BY DEF Line
<1>2. Behind \subseteq User
  BY DEF Behind, Waiters
<1> QED BY <1>1, <1>2 DEF Chain

-----------------------------------------------------------------------------
(* Each action preserves the invariant.                                    *)

(* wait_with: the token of a new sleeper is in its slot.                   *)
LEMMA SettleKeeps ==
  ASSUME FrameIInv, NEW t \in User, Settle(t)
  PROVE  FrameIInv'
<1>0. Types /\ NoTwice(pending) /\ OneHolds /\ Chain /\ Sleep /\ Holder /\ Answers
  BY DEF FrameIInv
<1>1. /\ after[t] = "publish" /\ slots' = slots \cup {t}
      /\ after' = [after EXCEPT ![t] = IF own[t] THEN "hand" ELSE "link"]
      /\ UNCHANGED <<tail, next, at, cur, curWake, succ, own, pending, served, prev,
                     wish, uses>>
  BY DEF Settle, frame
<1>2. CTypeOK
  BY <1>0 DEF Types
<1>3. after \in [User -> {Nil, "publish", "link", "hand"}] /\ own \in [User -> BOOLEAN]
      /\ Nil \notin {"publish", "link", "hand"}
  BY <1>2, CombiningAssumption DEF CTypeOK
<1>4. Types'
  BY <1>0, <1>1, <1>3 DEF Types, CTypeOK
<1>5. Handing' = Handing /\ \A u \in User : after'[u] = Nil <=> after[u] = Nil
  BY <1>1, <1>3 DEF Handing
<1>6. /\ Holding' = Holding /\ Fronts' = Fronts /\ Waiters' = Waiters
           /\ Deferred' = Deferred
      /\ Telling' = Telling /\ Told' = Told /\ Beginning' = Beginning
  BY <1>1, <1>5
  DEF Holding, Fronts, Front, Waiters, Deferred, IsPending, Telling, Told,
      Beginning
<1>7. Behind' = Behind
  BY <1>6 DEF Behind
<1>8. OneHolds' /\ Chain'
  BY <1>0, <1>1, <1>5, <1>6, <1>7, ChainKept DEF OneHolds
<1>9. Sleep'
  BY <1>0, <1>1, <1>3, <1>6, <1>7 DEF Sleep
<1>10. Holder'
  BY <1>0, <1>1, <1>5, <1>6 DEF Holder, Waiters
<1>11. Answers'
  BY <1>0, <1>1, <1>5, <1>6 DEF Answers, Deferred
<1> QED BY <1>0, <1>1, <1>4, <1>8, <1>9, <1>10, <1>11 DEF FrameIInv

(* enqueue: the node is linked behind the one the swap returned.           *)
LEMMA LinkBehindKeeps ==
  ASSUME FrameIInv, NEW t \in User, LinkBehind(t)
  PROVE  FrameIInv'
<1>0. Types /\ NoTwice(pending) /\ OneHolds /\ Chain /\ Sleep /\ Holder /\ Answers
  BY DEF FrameIInv
<1>1. /\ after[t] = "link" /\ next' = [next EXCEPT ![prev[t]] = t]
      /\ after' = [after EXCEPT ![t] = Nil]
      /\ UNCHANGED <<tail, at, slots, cur, curWake, succ, own, pending, served, prev,
                     wish, uses>>
  BY DEF LinkBehind, frame
<1>2. CTypeOK
  BY <1>0 DEF Types
<1>3. /\ after \in [User -> {Nil, "publish", "link", "hand"}]
           /\ next \in [User -> User \cup {Nil}]
      /\ Nil \notin User \cup {"publish", "link", "hand"}
  BY <1>2, CombiningAssumption DEF CTypeOK
<1>4. Types'
  BY <1>0, <1>1, <1>3 DEF Types, CTypeOK
<1>5. Handing' = Handing /\ \A u \in User : u # t => after'[u] = after[u]
  BY <1>1, <1>3 DEF Handing
<1>6. /\ Holding' = Holding /\ Fronts' = Fronts /\ Waiters' = Waiters
           /\ Deferred' = Deferred
      /\ Telling' = Telling /\ Told' = Told /\ Beginning' = Beginning
  BY <1>1, <1>5
  DEF Holding, Fronts, Front, Waiters, Deferred, IsPending, Telling, Told,
      Beginning
<1>7. Behind' = Behind /\ Line' = Line /\ t \in Behind /\ prev[t] \in Line
        /\ after'[t] = Nil
  BY <1>0, <1>1, <1>3, <1>6 DEF Behind, Line, Sleep, Chain
<1>8. \A u \in Line : next'[u] # Nil => next'[u] \in Behind /\ prev[next'[u]] = u
        /\ after'[next'[u]] = Nil
  <2> SUFFICES ASSUME NEW u \in Line, next'[u] # Nil
               PROVE  next'[u] \in Behind /\ prev[next'[u]] = u /\ after'[next'[u]] = Nil
    OBVIOUS
  <2>1. CASE u = prev[t]
    <3>1. u \in User \/ next'[u] = next[u]
      BY <1>1, <1>3
    <3> QED BY <2>1, <3>1, <1>0, <1>1, <1>3, <1>7 DEF Chain
  <2>2. CASE u # prev[t]
    <3>1. next'[u] = next[u]
      BY <2>2, <1>1, <1>3
    <3>2. next[u] \in User
      BY <3>1, <1>0 DEF Chain, Behind, Waiters
    <3> QED BY <2>2, <3>1, <3>2, <1>0, <1>5, <1>7 DEF Chain
  <2> QED BY <2>1, <2>2
<1>9. Chain' /\ OneHolds'
  BY <1>0, <1>1, <1>6, <1>7, <1>8 DEF Chain, OneHolds
<1>10. Sleep'
  BY <1>0, <1>1, <1>3, <1>5, <1>6, <1>7 DEF Sleep
<1>11. Holder'
  BY <1>0, <1>1, <1>3, <1>5, <1>6, <1>7 DEF Holder, Waiters
<1>12. Answers'
  BY <1>0, <1>1, <1>5, <1>6, <1>7 DEF Answers, Deferred
<1> QED BY <1>0, <1>1, <1>4, <1>9, <1>10, <1>11, <1>12 DEF FrameIInv

(* A caller that was woken returns.                                        *)
LEMMA ReturnUserKeeps ==
  ASSUME FrameIInv, NEW t \in User, ReturnUser(t)
  PROVE  FrameIInv'
<1>0. Types /\ NoTwice(pending) /\ OneHolds /\ Chain /\ Sleep /\ Holder /\ Answers
  BY DEF FrameIInv
<1>1. /\ at[t] = "woken" /\ at' = [at EXCEPT ![t] = "out"]
      /\ UNCHANGED <<tail, next, after, slots, cur, curWake, succ, own, pending,
                     served, prev, wish, uses>>
  BY DEF ReturnUser, At, Go, frame
<1>2. CTypeOK
  BY <1>0 DEF Types
<1>3. at \in [User -> Spot]
  BY <1>2 DEF CTypeOK
<1>4. Types'
  BY <1>0, <1>1, <1>3 DEF Types, CTypeOK
<1>5. Handing' = Handing /\ t \notin Handing /\ \A u \in User : u # t => at'[u] = at[u]
  BY <1>0, <1>1, <1>3, CombiningAssumption DEF Handing, Sleep
<1>6. /\ Holding' = Holding /\ Fronts' = Fronts /\ Waiters' = Waiters
           /\ Deferred' = Deferred
      /\ Telling' = Telling /\ Told' = Told /\ Beginning' = Beginning
  BY <1>1, <1>3, <1>5
  DEF Holding, Walking, Fronts, Front, Waiters, Deferred, IsPending, Telling,
      Told, Beginning
<1>7. Behind' = Behind
  BY <1>6 DEF Behind
<1>8. OneHolds' /\ Chain'
  BY <1>0, <1>1, <1>6, <1>7, ChainKept DEF OneHolds
<1>9. Sleep'
  BY <1>0, <1>1, <1>3, <1>5, <1>6, <1>7 DEF Sleep
<1>10. Holder'
  BY <1>0, <1>1, <1>3, <1>5, <1>6 DEF Holder, Walking
<1>11. Answers'
  BY <1>0, <1>1, <1>3, <1>5, <1>6 DEF Answers, Deferred
<1> QED BY <1>0, <1>1, <1>4, <1>8, <1>9, <1>10, <1>11 DEF FrameIInv

(* The body of with_lock is over.                                          *)
LEMMA EndBodyKeeps ==
  ASSUME FrameIInv, NEW t \in User, EndBody(t)
  PROVE  FrameIInv'
<1>0. Types /\ NoTwice(pending) /\ OneHolds /\ Chain /\ Sleep /\ Holder /\ Answers
  BY DEF FrameIInv
<1>1. /\ at[t] = "in" /\ at' = [at EXCEPT ![t] = "drain"] /\ cur' = [cur EXCEPT ![t] = t]
      /\ curWake' = [curWake EXCEPT ![t] = FALSE] /\ own' = [own EXCEPT ![t] = FALSE]
      /\ UNCHANGED <<tail, next, after, slots, succ, pending, served, prev, wish, uses>>
  BY DEF EndBody, BeginDrain, Go, frame
<1>2. CTypeOK
  BY <1>0 DEF Types
<1>3. /\ at \in [User -> Spot]
      /\ cur \in [User -> User] /\ curWake \in [User -> BOOLEAN]
           /\ own \in [User -> BOOLEAN]
  BY <1>2 DEF CTypeOK
<1>4. Types'
  BY <1>0, <1>1, <1>3 DEF Types, CTypeOK
<1>5. t \in Holding /\ wish[t] = "lock" /\ after[t] = Nil /\ ~ own[t]
  BY <1>0, <1>1 DEF Holding, Holder, Sleep
<1>6. Holding = {t} /\ Fronts = {t}
  BY <1>1, <1>5, Held DEF Front
<1>7. /\ own' = own
      /\ \A u \in User : u # t => at'[u] = at[u] /\ cur'[u] = cur[u]
           /\ curWake'[u] = curWake[u]
      /\ at'[t] = "drain" /\ cur'[t] = t /\ curWake'[t] = FALSE
  BY <1>1, <1>3, <1>5
<1>8. Handing' = Handing
  BY <1>1, <1>7 DEF Handing
<1>9. Holding' = {t}
  BY <1>1, <1>6, <1>7, <1>8 DEF Holding, Walking
<1>10. Fronts' = {t}
  BY <1>7, <1>9 DEF Fronts, Front, Walking
<1>11. /\ Waiters' = Waiters /\ Deferred' = Deferred
       /\ Telling' = Telling /\ Told' = Told /\ Beginning' = Beginning
  BY <1>1, <1>7 DEF Waiters, Deferred, IsPending, Telling, Told, Beginning, Walking
<1>12. Behind' = Behind
  BY <1>6, <1>10, <1>11 DEF Behind
<1>13. OneHolds' /\ Chain'
  BY <1>0, <1>1, <1>6, <1>9, <1>10, <1>12, ChainKept DEF OneHolds
<1>14. Sleep'
  BY <1>0, <1>1, <1>6, <1>7, <1>9, <1>11, <1>12 DEF Sleep
<1>15. Holder'
  BY <1>0, <1>1, <1>3, <1>5, <1>7, <1>8, <1>11 DEF Holder, Walking
<1>16. Answers'
  BY <1>0, <1>1, <1>5, <1>7, <1>8, <1>11 DEF Answers, Deferred, Telling
<1> QED BY <1>0, <1>1, <1>4, <1>13, <1>14, <1>15, <1>16 DEF FrameIInv

(* A caller that found the queue empty executes its request.               *)
LEMMA RunOwnKeeps ==
  ASSUME FrameIInv, NEW t \in User, RunOwn(t)
  PROVE  FrameIInv'
<1>0. Types /\ NoTwice(pending) /\ OneHolds /\ Chain /\ Sleep /\ Holder /\ Answers
  BY DEF FrameIInv
<1>1. PICK defers \in BOOLEAN :
      /\ at[t] = "exec" /\ at' = [at EXCEPT ![t] = "drain"] /\ cur' = [cur EXCEPT ![t] = t]
      /\ curWake' = [curWake EXCEPT ![t] = FALSE] /\ own' = [own EXCEPT ![t] = defers]
      /\ served' = [served EXCEPT ![t] = @ + 1]
      /\ pending' = IF defers THEN Append(pending, t) ELSE pending
      /\ UNCHANGED <<tail, next, after, slots, succ, prev, wish, uses>>
  BY DEF RunOwn, BeginDrain, Go, frame
<1>2. CTypeOK
  BY <1>0 DEF Types
<1>3. /\ at \in [User -> Spot]
      /\ cur \in [User -> User] /\ curWake \in [User -> BOOLEAN]
           /\ own \in [User -> BOOLEAN]
      /\ served \in [User -> 0..Uses] /\ Uses \in Nat /\ uses \in 0..Uses
           /\ pending \in Seq(User)
  BY <1>2, CombiningAssumption DEF CTypeOK
<1>4. t \in Holding /\ wish[t] = "call" /\ served[t] = 0 /\ after[t] = Nil /\ ~ own[t]
        /\ uses > 0
  BY <1>0, <1>1 DEF Holding, Holder, Sleep, Types
<1>5. t \notin Deferred
  BY <1>0, <1>4 DEF Answers
<1>6. /\ pending' \in Seq(User) /\ NoTwice(pending)'
      /\ Deferred' = IF defers THEN Deferred \cup {t} ELSE Deferred
  <2>1. CASE defers
    BY <1>0, <1>1, <1>3, <1>5, <2>1, Defers
  <2>2. CASE ~ defers
    BY <1>0, <1>1, <1>3, <2>2 DEF Deferred, IsPending, NoTwice
  <2> QED BY <2>1, <2>2
<1>7. /\ \A u \in User : u # t => at'[u] = at[u] /\ cur'[u] = cur[u]
           /\ curWake'[u] = curWake[u]
                                  /\ own'[u] = own[u] /\ served'[u] = served[u]
      /\ at'[t] = "drain" /\ cur'[t] = t /\ curWake'[t] = FALSE /\ own'[t] = defers
           /\ served'[t] = 1
  BY <1>1, <1>3, <1>4
<1>8. Types'
  <2>1. served' \in [User -> 0..Uses] /\ \A u \in User : served'[u] \in {0, 1}
    BY <1>0, <1>1, <1>3, <1>4, <1>7 DEF Types
  <2>2. CTypeOK'
    BY <1>1, <1>2, <1>6, <2>1 DEF CTypeOK
  <2> QED BY <1>0, <1>1, <1>3, <1>4, <2>1, <2>2 DEF Types
<1>9. Holding = {t} /\ Fronts = {t}
  BY <1>1, <1>4, Held DEF Front
<1>10. Handing' = Handing
  BY <1>0, <1>1, <1>7, CombiningAssumption, <1>4 DEF Handing
<1>11. Holding' = {t}
  BY <1>1, <1>9, <1>7, <1>10 DEF Holding, Walking
<1>12. Fronts' = {t}
  BY <1>7, <1>11 DEF Fronts, Front, Walking
<1>13. /\ Waiters' = Waiters /\ Telling' = Telling /\ Told' = Told /\ Beginning' = Beginning
  BY <1>1, <1>7 DEF Waiters, Telling, Told, Beginning, Walking
<1>14. Behind' = Behind
  BY <1>9, <1>12, <1>13 DEF Behind
<1>15. OneHolds' /\ Chain'
  BY <1>0, <1>1, <1>9, <1>11, <1>12, <1>14, ChainKept DEF OneHolds
<1>16. Sleep'
  BY <1>0, <1>1, <1>4, <1>6, <1>7, <1>9, <1>11, <1>13, <1>14 DEF Sleep
<1>17. Holder'
  BY <1>0, <1>1, <1>3, <1>6, <1>7, <1>10, <1>13 DEF Holder, Walking
<1>18. t \notin Told \cup Beginning \cup Telling
  BY <1>0, <1>1 DEF Answers, Telling, Walking
<1>19. Answers'
  BY <1>0, <1>1, <1>4, <1>6, <1>7, <1>10, <1>13, <1>18 DEF Answers, Deferred, Telling
<1> QED BY <1>0, <1>1, <1>6, <1>8, <1>15, <1>16, <1>17, <1>19 DEF FrameIInv

(* progress: the first of the deferred calls is completed, the holder's    *)
(* own, the one it stands on, or another one.                              *)
LEMMA PollKeeps ==
  ASSUME FrameIInv, NEW t \in User, Poll(t)
  PROVE  FrameIInv'
<1>0. Types /\ NoTwice(pending) /\ OneHolds /\ Chain /\ Sleep /\ Holder /\ Answers
  BY DEF FrameIInv
<1> DEFINE r == Head(pending)
<1>1. /\ at[t] = "drain" /\ pending # <<>> /\ pending' = Tail(pending)
      /\ UNCHANGED <<tail, next, after, cur, succ, served, prev, wish, uses>>
  BY DEF Poll, frame
<1>2. CTypeOK
  BY <1>0 DEF Types
<1>3. /\ at \in [User -> Spot]
      /\ cur \in [User -> User] /\ curWake \in [User -> BOOLEAN]
           /\ own \in [User -> BOOLEAN]
      /\ pending \in Seq(User)
  BY <1>2 DEF CTypeOK
<1>4. /\ pending' \in Seq(User) /\ NoTwice(pending)'
      /\ r \in Deferred /\ Deferred' = Deferred \ {r}
  BY <1>0, <1>1, <1>3, Completes
<1>5. \/ own[t] /\ r = t /\ own' = [own EXCEPT ![t] = FALSE]
           /\ UNCHANGED <<at, slots, curWake>>
      \/ cur[t] # t /\ r = cur[t] /\ curWake' = [curWake EXCEPT ![t] = TRUE]
           /\ UNCHANGED <<at, slots, own>>
      \/ /\ ~ (own[t] /\ r = t) /\ ~ (cur[t] # t /\ r = cur[t])
         /\ at' = [at EXCEPT ![r] = "woken"] /\ slots' = slots \ {r}
              /\ UNCHANGED <<own, curWake>>
  BY DEF Poll, Go
<1> HIDE DEF r
<1>6. /\ r \in User /\ served[r] = 1 /\ wish[r] = "call" /\ r \notin Told
           /\ r \notin Beginning
      /\ r \notin Waiters
  BY <1>0, <1>4 DEF Answers, Deferred, Waiters
<1>7. t \in Holding /\ t \notin Handing /\ t \in Holding /\ after[t] = Nil
  BY <1>0, <1>1, CombiningAssumption DEF Holding, Walking, Handing, Sleep
<1>8. Holding = {t} /\ Fronts = {cur[t]}
  BY <1>1, <1>7, Held DEF Front, Walking
<1>9. CASE own[t] /\ r = t /\ own' = [own EXCEPT ![t] = FALSE]
             /\ UNCHANGED <<at, slots, curWake>>
  <2>1. Types'
    BY <1>0, <1>1, <1>3, <1>4, <1>9 DEF Types, CTypeOK
  <2>2. own'[t] = FALSE /\ \A u \in User : u # t => own'[u] = own[u]
    BY <1>3, <1>9
  <2>3. Handing' = Handing
    BY <1>0, <1>1, <1>7, <2>2, CombiningAssumption DEF Handing
  <2>4. /\ Holding' = Holding /\ Fronts' = Fronts /\ Waiters' = Waiters
        /\ Telling' = Telling /\ Told' = Told /\ Beginning' = Beginning
    BY <1>1, <1>9, <2>3
    DEF Holding, Walking, Fronts, Front, Waiters, Telling, Told, Beginning
  <2>5. Behind' = Behind
    BY <2>4 DEF Behind
  <2>6. OneHolds' /\ Chain'
    BY <1>0, <1>1, <2>4, <2>5, ChainKept DEF OneHolds
  <2>7. Sleep'
    BY <1>0, <1>1, <1>4, <1>7, <1>9, <2>2, <2>4, <2>5, CombiningAssumption DEF Sleep
  <2>8. Holder'
    <3>1. \A h \in User : h # t => at[h] \notin Walking
      BY <1>8 DEF Holding, Walking
    <3> QED BY <1>0, <1>1, <1>4, <1>7, <1>9, <2>2, <2>3, <2>4, <3>1 DEF Holder
  <2>9. Answers'
    BY <1>0, <1>1, <1>4, <1>9, <2>2, <2>3, <2>4 DEF Answers, Deferred
  <2> QED BY <1>4, <2>1, <2>6, <2>7, <2>8, <2>9 DEF FrameIInv
<1>10. CASE cur[t] # t /\ r = cur[t] /\ curWake' = [curWake EXCEPT ![t] = TRUE]
              /\ UNCHANGED <<at, slots, own>>
  <2>1. Types'
    BY <1>0, <1>1, <1>3, <1>4, <1>10 DEF Types, CTypeOK
  <2>2. curWake'[t] = TRUE /\ \A u \in User : u # t => curWake'[u] = curWake[u]
    BY <1>3, <1>10
  <2>3. Handing' = Handing
    BY <1>1, <1>10 DEF Handing
  <2>4. /\ Holding' = Holding /\ Fronts' = Fronts /\ Waiters' = Waiters
             /\ Beginning' = Beginning
    BY <1>1, <1>10, <2>3 DEF Holding, Walking, Fronts, Front, Waiters, Beginning
  <2>5. Behind' = Behind
    BY <2>4 DEF Behind
  <2>6. Telling' = Telling \cup {t} /\ Told' = Told \cup {r}
    <3>1. Telling' = Telling \cup {t}
      BY <1>1, <1>10, <2>2 DEF Telling, Walking
    <3> QED BY <3>1, <1>1, <1>10 DEF Told
  <2>7. OneHolds' /\ Chain'
    BY <1>0, <1>1, <2>4, <2>5, ChainKept DEF OneHolds
  <2>8. r # t /\ r \notin Handing /\ at[r] = "asleep" /\ after[r] = Nil /\ ~ own[r]
    <3>1. r \notin Holding
      BY <1>8, <1>10
    <3>2. ~ own[r] /\ r \notin Handing
      BY <3>1, <1>0, <1>6 DEF Sleep, Holding
    <3> QED BY <1>0, <1>4, <1>10, <3>2 DEF Answers
  <2>9. Sleep'
    BY <1>0, <1>1, <1>4, <1>10, <2>4, <2>5, <2>8 DEF Sleep
  <2>10. Holder'
    <3>1. \A h \in User : h # t => at[h] \notin Walking
      BY <1>8 DEF Holding, Walking
    <3> QED BY <1>0, <1>1, <1>10, <2>2, <2>3, <2>4, <2>6, <3>1 DEF Holder
  <2>11. Answers'
    <3>1. \A u \in Telling : cur[u] \in Told
      BY DEF Told
    <3> QED BY <1>0, <1>1, <1>4, <1>6, <1>10, <2>3, <2>4, <2>6, <2>8, <3>1 DEF Answers
  <2> QED BY <1>4, <2>1, <2>7, <2>9, <2>10, <2>11 DEF FrameIInv
<1>11. CASE /\ ~ (own[t] /\ r = t) /\ ~ (cur[t] # t /\ r = cur[t])
            /\ at' = [at EXCEPT ![r] = "woken"] /\ slots' = slots \ {r}
                 /\ UNCHANGED <<own, curWake>>
  <2>1. r # t /\ r # cur[t] /\ r \notin Holding /\ r \notin Handing /\ ~ own[r]
    <3>1. r # t
      BY <1>0, <1>1, <1>4, <1>11 DEF Answers
    <3>2. r \notin Holding
      BY <3>1, <1>8
    <3>3. ~ own[r] /\ r \notin Handing
      BY <3>2, <1>0, <1>6 DEF Sleep, Holding
    <3> QED BY <1>11, <3>1, <3>2, <3>3
  <2>2. at[r] = "asleep" /\ after[r] = Nil
    BY <1>0, <1>4, <2>1 DEF Answers
  <2>3. at'[r] = "woken" /\ \A u \in User : u # r => at'[u] = at[u]
    BY <1>3, <1>6, <1>11
  <2>4. Types'
    BY <1>0, <1>1, <1>3, <1>4, <1>6, <1>11, <2>2, <2>3 DEF Types, CTypeOK
  <2>5. Handing' = Handing
    BY <1>1, <1>11 DEF Handing
  <2>6. Holding' = Holding /\ Waiters' = Waiters /\ Telling' = Telling /\ Told' = Told
          /\ Beginning' = Beginning
    BY <1>1, <1>6, <1>11, <2>1, <2>2, <2>3, <2>5
    DEF Holding, Walking, Waiters, Telling, Told, Beginning
  <2>7. Fronts' = Fronts
    BY <1>1, <1>8, <2>1, <2>3, <2>6 DEF Fronts, Front
  <2>8. Behind' = Behind
    BY <2>6, <2>7 DEF Behind
  <2>9. OneHolds' /\ Chain'
    BY <1>0, <1>1, <2>6, <2>7, <2>8, ChainKept DEF OneHolds
  <2>10. Sleep'
    BY <1>0, <1>1, <1>4, <1>11, <2>1, <2>2, <2>3, <2>6, <2>8 DEF Sleep
  <2>11. Holder'
    <3>1. \A h \in User : h # t => at[h] \notin Walking
      BY <1>8 DEF Holding, Walking
    <3> QED BY <1>0, <1>1, <1>4, <1>6, <1>11, <2>1, <2>3, <2>5, <2>6, <3>1
            DEF Holder, Walking
  <2>12. Answers'
    BY <1>0, <1>1, <1>4, <1>6, <1>11, <2>1, <2>3, <2>5, <2>6 DEF Answers, Deferred
  <2> QED BY <1>4, <2>4, <2>9, <2>10, <2>11, <2>12 DEF FrameIInv
<1> QED BY <1>5, <1>9, <1>10, <1>11

(* The holder goes on to the node linked behind the one it stands on.      *)
LEMMA Advances ==
  ASSUME FrameIInv, NEW t \in User, at[t] \in {"drain", "spin"}, next[cur[t]] # Nil,
         at' = [at EXCEPT ![t] = "step"], succ' = [succ EXCEPT ![t] = next[cur[t]]],
         UNCHANGED <<tail, next, after, slots, cur, curWake, own, pending, served,
                     prev, wish, uses>>
  PROVE  FrameIInv'
<1> DEFINE n == next[cur[t]]
<1>0. Types /\ NoTwice(pending) /\ OneHolds /\ Chain /\ Sleep /\ Holder /\ Answers
  BY DEF FrameIInv
<1>1. CTypeOK
  BY <1>0 DEF Types
<1>2. /\ at \in [User -> Spot]
      /\ cur \in [User -> User] /\ next \in [User -> User \cup {Nil}]
           /\ succ \in [User -> User \cup {Nil}]
  BY <1>1 DEF CTypeOK
<1>3. t \in Holding /\ after[t] = Nil
  BY <1>0 DEF Holding, Walking, Sleep
<1>4. Holding = {t} /\ Fronts = {cur[t]} /\ tail # Nil
  BY <1>3, Held DEF Front, Walking
<1>5. n \in Behind /\ prev[n] = cur[t] /\ after[n] = Nil /\ n # Nil
  BY <1>0, <1>4 DEF Chain, Line
<1>6. n \in User /\ at[n] = "asleep" /\ served[n] = 0 /\ n # cur[t] /\ n # t
        /\ n \in Waiters
  BY <1>4, <1>5 DEF Behind, Waiters
<1> HIDE DEF n
<1>7. at'[t] = "step" /\ succ'[t] = n /\ \A u \in User : u # t => at'[u] = at[u]
        /\ succ'[u] = succ[u]
  BY <1>2 DEF n
<1>8. Types'
  <2>1. at' \in [User -> Spot]
    BY <1>2
  <2>2. succ' \in [User -> User \cup {Nil}]
    BY <1>2, <1>6 DEF n
  <2> QED BY <1>0, <1>7, <2>1, <2>2 DEF Types, CTypeOK
<1>9. Handing' = Handing
  BY DEF Handing
<1>10. Holding' = {t}
  BY <1>4, <1>7, <1>9 DEF Holding
<1>11. Fronts' = {n}
  BY <1>7, <1>10 DEF Fronts, Front, Walking
<1>12. /\ Waiters' = Waiters /\ Deferred' = Deferred /\ Telling' = Telling /\ Told' = Told
       /\ Beginning' = Beginning
  BY <1>7 DEF Waiters, Deferred, IsPending, Telling, Told, Beginning, Walking
<1>13. cur[t] \notin Waiters
  BY <1>0 DEF Holder, Answers, Waiters, Walking, Told, Telling
<1>14. Behind' = Behind \ {n}
  BY <1>4, <1>11, <1>12, <1>13 DEF Behind
<1>15. Line' = Behind
  BY <1>5, <1>11, <1>14 DEF Line
<1>16. Chain'
  <2>1. Line = Behind \cup {cur[t]}
    BY <1>4 DEF Line
  <2>2. tail \in Behind /\ \A u \in Behind : prev[u] # tail
    BY <1>0, <1>4, <1>5, <2>1 DEF Chain
  <2>3. \A u \in Behind \ {n} : prev[u] \in Behind
    BY <1>0, <1>5, <2>1 DEF Chain
  <2>4. ASSUME NEW u \in Behind, next[u] # Nil
        PROVE  next[u] \in Behind \ {n} /\ prev[next[u]] = u /\ after[next[u]] = Nil
    <3>1. u # cur[t]
      BY <1>4 DEF Behind
    <3> QED BY <1>0, <1>5, <2>1, <2>4, <3>1 DEF Chain
  <2> QED BY <1>0, <1>14, <1>15, <2>2, <2>3, <2>4 DEF Chain
<1>17. OneHolds'
  BY <1>4, <1>10 DEF OneHolds
<1>18. Sleep'
  BY <1>0, <1>4, <1>5, <1>7, <1>10, <1>12, <1>14, CombiningAssumption DEF Sleep
<1>19. Holder'
  BY <1>0, <1>3, <1>5, <1>6, <1>7, <1>9, <1>12, CombiningAssumption
  DEF Holder, Walking, Handing
<1>20. Answers'
  BY <1>0, <1>6, <1>7, <1>9, <1>12 DEF Answers, Deferred
<1> QED BY <1>0, <1>8, <1>16, <1>17, <1>18, <1>19, <1>20 DEF FrameIInv

(* The one that was linking itself has done so.                            *)
LEMMA SpinKeeps ==
  ASSUME FrameIInv, NEW t \in User, Spin(t)
  PROVE  FrameIInv'
BY Advances DEF Spin, At, Go, frame

(* The holder finds nobody linked behind it: it goes on to release the     *)
(* queue, or to wait for the one that is linking itself.                   *)
LEMMA Turns ==
  ASSUME FrameIInv, NEW t \in User, NEW to,
         \/ at[t] = "drain" /\ to = "release" /\ ~ own[t]
         \/ at[t] = "release" /\ to = "spin",
         at' = [at EXCEPT ![t] = to], succ' \in [User -> User \cup {Nil}],
         \A u \in User : u # t => succ'[u] = succ[u],
         UNCHANGED <<tail, next, after, slots, cur, curWake, own, pending, served,
                     prev, wish, uses>>
  PROVE  FrameIInv'
<1>0. Types /\ NoTwice(pending) /\ OneHolds /\ Chain /\ Sleep /\ Holder /\ Answers
  BY DEF FrameIInv
<1>1. CTypeOK
  BY <1>0 DEF Types
<1>2. at \in [User -> Spot]
  BY <1>1 DEF CTypeOK
<1>3. t \in Holding /\ after[t] = Nil
  BY <1>0 DEF Holding, Walking, Sleep
<1>4. Holding = {t} /\ Fronts = {cur[t]} /\ tail # Nil
  BY <1>3, Held DEF Front, Walking
<1>5. /\ at'[t] = to /\ \A u \in User : u # t => at'[u] = at[u] /\ succ'[u] = succ[u]
      /\ to \in Walking /\ at[t] \in Walking
  BY <1>2 DEF Walking
<1>6. Types'
  BY <1>0, <1>2, <1>5 DEF Types, CTypeOK, Walking
<1>7. Handing' = Handing
  BY DEF Handing
<1>8. Holding' = {t}
  BY <1>4, <1>5, <1>7 DEF Holding
<1>9. Fronts' = {cur[t]}
  BY <1>5, <1>8 DEF Fronts, Front, Walking
<1>10. /\ Waiters' = Waiters /\ Deferred' = Deferred /\ Telling' = Telling /\ Told' = Told
       /\ Beginning' = Beginning
  BY <1>5 DEF Waiters, Deferred, IsPending, Telling, Told, Beginning, Walking
<1>11. Behind' = Behind
  BY <1>4, <1>9, <1>10 DEF Behind
<1>12. OneHolds' /\ Chain'
  BY <1>0, <1>4, <1>8, <1>9, <1>11, ChainKept DEF OneHolds
<1>13. Sleep'
  BY <1>0, <1>3, <1>4, <1>5, <1>8, <1>10, <1>11 DEF Sleep
<1>14. Holder'
  BY <1>0, <1>3, <1>5, <1>7, <1>10, CombiningAssumption DEF Holder, Walking, Handing
<1>15. Answers'
  BY <1>0, <1>5, <1>7, <1>10 DEF Answers, Deferred, Walking
<1> QED BY <1>0, <1>6, <1>12, <1>13, <1>14, <1>15 DEF FrameIInv

(* The load of the next node.                                              *)
LEMMA LoadNextKeeps ==
  ASSUME FrameIInv, NEW t \in User, LoadNext(t)
  PROVE  FrameIInv'
<1>1. succ \in [User -> User \cup {Nil}] /\ next \in [User -> User \cup {Nil}]
        /\ cur \in [User -> User]
  BY DEF FrameIInv, Types, CTypeOK
<1>2. /\ succ' = [succ EXCEPT ![t] = next[cur[t]]]
      /\ UNCHANGED <<tail, next, after, slots, cur, curWake, own, pending, served,
                     prev, wish, uses>>
  BY DEF LoadNext, frame
<1>3. CASE next[cur[t]] # Nil /\ At(t, "drain", "step")
  BY <1>2, <1>3, Advances DEF At, Go
<1>4. CASE next[cur[t]] = Nil /\ ~ own[t] /\ At(t, "drain", "release")
  BY <1>1, <1>2, <1>4, Turns DEF At, Go
<1> QED BY <1>3, <1>4 DEF LoadNext

(* The tail is swung back, unless somebody is linking himself.             *)
LEMMA ReleaseKeeps ==
  ASSUME FrameIInv, NEW t \in User, Release(t)
  PROVE  FrameIInv'
<1>0. Types /\ NoTwice(pending) /\ OneHolds /\ Chain /\ Sleep /\ Holder /\ Answers
  BY DEF FrameIInv
<1>1. CTypeOK /\ UNCHANGED <<next, after, slots, cur, curWake, succ, own, pending,
                             served, prev, wish, uses>>
  BY <1>0 DEF Types, Release, frame
<1>2. /\ at \in [User -> Spot]
      /\ succ \in [User -> User \cup {Nil}]
  BY <1>1 DEF CTypeOK
<1>3. CASE tail # cur[t]
  BY <1>1, <1>2, <1>3, Turns DEF Release, At, Go, frame
<1>4. CASE tail = cur[t]
  <2>1. at[t] = "release" /\ at' = [at EXCEPT ![t] = "wake"] /\ tail' = Nil
    BY <1>4 DEF Release, At, Go
  <2>2. t \in Holding /\ after[t] = Nil /\ ~ own[t]
    BY <1>0, <2>1 DEF Holding, Walking, Sleep, Holder
  <2>3. Holding = {t} /\ Fronts = {cur[t]} /\ tail # Nil
    BY <2>1, <2>2, Held DEF Front, Walking
  <2>4. at'[t] = "wake" /\ \A u \in User : u # t => at'[u] = at[u]
    BY <1>2, <2>1
  <2>5. Types'
    <3>1. at' \in [User -> Spot]
      BY <1>2, <2>1
    <3> QED BY <1>0, <1>1, <2>1, <2>4, <3>1 DEF Types, CTypeOK
  <2>6. Handing' = Handing /\ t \notin Handing
    BY <1>1, <2>2, CombiningAssumption DEF Handing
  <2>7. Holding' = {}
    BY <2>3, <2>4, <2>6 DEF Holding, Walking
  <2>8. Fronts' = {}
    BY <2>7 DEF Fronts
  <2>9. /\ Waiters' = Waiters /\ Deferred' = Deferred /\ Telling' = Telling /\ Told' = Told
        /\ Beginning' = Beginning
    BY <1>1, <2>1, <2>4 DEF Waiters, Deferred, IsPending, Telling, Told, Beginning, Walking
  <2>10. cur[t] \notin Waiters
    BY <1>0, <2>1 DEF Holder, Answers, Waiters, Walking, Told, Telling
  <2>11. Behind' = Behind /\ Line' = Behind /\ Line = Behind \cup {cur[t]}
           /\ cur[t] \notin Behind
    BY <2>3, <2>8, <2>9, <2>10 DEF Behind, Line
  <2>12. Chain'
    BY <1>0, <1>1, <1>4, <2>1, <2>3, <2>11 DEF Chain
  <2>13. OneHolds'
    BY <2>1, <2>7 DEF OneHolds
  <2>14. Sleep'
    BY <1>0, <1>1, <2>1, <2>2, <2>3, <2>4, <2>7, <2>9, <2>11 DEF Sleep
  <2>15. Holder'
    BY <1>0, <1>1, <2>1, <2>2, <2>4, <2>6, <2>9 DEF Holder, Walking
  <2>16. Answers'
    BY <1>0, <1>1, <2>1, <2>4, <2>6, <2>9 DEF Answers, Deferred
  <2> QED BY <1>0, <1>1, <2>5, <2>12, <2>13, <2>14, <2>15, <2>16 DEF FrameIInv
<1> QED BY <1>3, <1>4

(* Whom the holder wakes before it goes on: the caller it stands on, if    *)
(* that has its answer, who sleeps in nobody else's care.                  *)
Woken(t) == IF curWake[t] THEN {cur[t]} ELSE {}

(* The wake-up before the holder goes on.                                  *)
LEMMA WakesCur ==
  ASSUME FrameIInv, NEW t \in User,
           NEW to \in {"out", "run", "hand"}, at[t] \in {"wake", "step"},
         WakeCur(t, to)
  PROVE  /\ at' \in [User -> Spot]
         /\ Woken(t) \subseteq User /\ slots' = slots \ Woken(t) /\ t \notin Woken(t)
         /\ at'[t] = to
         /\ \A u \in User : u # t => at'[u] = IF u \in Woken(t) THEN "woken" ELSE at[u]
         /\ \A g \in Telling : cur[g] \in Woken(t) <=> g = t
         /\ Woken(t) \cap (Deferred \cup Beginning \cup Holding \cup Waiters) = {}
         /\ \A u \in Woken(t) :
              at[u] = "asleep" /\ after[u] = Nil /\ ~ own[u] /\ served[u] = 1
                /\ wish[u] = "call"
<1>0. Types /\ Sleep /\ Holder /\ Answers
  BY DEF FrameIInv
<1>1. /\ at \in [User -> Spot]
      /\ cur \in [User -> User] /\ curWake \in [User -> BOOLEAN]
  BY <1>0 DEF Types, CTypeOK
<1>2. /\ at' \in [User -> Spot]
      /\ Woken(t) \subseteq User /\ slots' = slots \ Woken(t) /\ t \notin Woken(t)
      /\ at'[t] = to /\ \A u \in User : u # t
           => at'[u] = IF u \in Woken(t) THEN "woken" ELSE at[u]
  <2>1. CASE curWake[t]
    <3>1. cur[t] # t
      BY <1>0, <2>1 DEF Holder
    <3> QED BY <1>1, <2>1, <3>1 DEF WakeCur, Woken
  <2>2. CASE ~ curWake[t]
    BY <1>1, <2>2 DEF WakeCur, Go, Woken
  <2> QED BY <2>1, <2>2
<1>3. Woken(t) \subseteq Told /\ \A g \in Telling : cur[g] \in Woken(t) <=> g = t
  BY <1>0 DEF Told, Telling, Answers, Woken
<1>4. /\ Woken(t) \cap (Deferred \cup Beginning) = {}
      /\ \A u \in Woken(t) :
           at[u] = "asleep" /\ after[u] = Nil /\ ~ own[u] /\ served[u] = 1
             /\ wish[u] = "call"
  BY <1>0, <1>3 DEF Answers
<1>5. Woken(t) \cap (Holding \cup Waiters) = {}
  BY <1>4, CombiningAssumption DEF Holding, Handing, Waiters, Walking
<1> QED BY <1>2, <1>3, <1>4, <1>5

(* The last caller is woken after the release.                             *)
LEMMA WakeLastKeeps ==
  ASSUME FrameIInv, NEW t \in User, WakeLast(t)
  PROVE  FrameIInv'
<1> DEFINE woken == Woken(t)
<1>0. Types /\ NoTwice(pending) /\ OneHolds /\ Chain /\ Sleep /\ Holder /\ Answers
  BY DEF FrameIInv
<1>1. /\ CTypeOK /\ at[t] = "wake" /\ WakeCur(t, "out")
      /\ UNCHANGED <<tail, next, after, cur, curWake, succ, own, pending, served, prev,
                     wish, uses>>
  BY <1>0 DEF Types, WakeLast, frame
<1>2. /\ at' \in [User -> Spot]
      /\ woken \subseteq User /\ slots' = slots \ woken /\ t \notin woken
      /\ at'[t] = "out" /\ \A u \in User : u # t
           => at'[u] = IF u \in woken THEN "woken" ELSE at[u]
  BY <1>1, WakesCur
<1>3. /\ \A g \in Telling : cur[g] \in woken <=> g = t
      /\ woken \cap (Deferred \cup Beginning \cup Holding \cup Waiters) = {}
      /\ \A u \in woken : at[u] = "asleep" /\ after[u] = Nil /\ ~ own[u] /\ served[u] = 1
           /\ wish[u] = "call"
  BY <1>1, WakesCur
<1> HIDE DEF woken
<1>4. ~ own[t] /\ after[t] = Nil
  BY <1>0, <1>1 DEF Holder, Sleep
<1>5. Types'
  BY <1>0, <1>1, <1>2 DEF Types, CTypeOK
<1>6. Handing' = Handing /\ t \notin Handing
  BY <1>1, <1>4, CombiningAssumption DEF Handing
<1>7. Holding' = Holding /\ t \notin Holding
  BY <1>1, <1>2, <1>3, <1>6 DEF Holding, Walking
<1>8. Fronts' = Fronts
  <2>1. \A h \in Holding : Front(h)' = Front(h)
    BY <1>1, <1>2, <1>3, <1>7 DEF Front, Holding, Handing
  <2> QED BY <1>7, <2>1 DEF Fronts
<1>9. Waiters' = Waiters /\ Deferred' = Deferred
  BY <1>1, <1>2, <1>3 DEF Waiters, Deferred, IsPending
<1>10. Telling' = Telling \ {t} /\ Beginning' = Beginning
  BY <1>1, <1>2, <1>3 DEF Telling, Beginning, Walking
<1>11. Told' = Told \ woken
  BY <1>1, <1>3, <1>10 DEF Told
<1>12. Behind' = Behind
  BY <1>8, <1>9 DEF Behind
<1>13. OneHolds' /\ Chain'
  BY <1>0, <1>1, <1>7, <1>8, <1>12, ChainKept DEF OneHolds
<1>14. Sleep'
  BY <1>0, <1>1, <1>2, <1>3, <1>4, <1>7, <1>9, <1>12 DEF Sleep
<1>15. Holder'
  BY <1>0, <1>1, <1>2, <1>3, <1>6, <1>9 DEF Holder, Walking
<1>16. Answers'
  BY <1>0, <1>1, <1>2, <1>3, <1>4, <1>6, <1>9, <1>10, <1>11 DEF Answers, Deferred
<1> QED BY <1>0, <1>1, <1>5, <1>13, <1>14, <1>15, <1>16 DEF FrameIInv

(* The holder leaves the node it stands on.                                *)
LEMMA AdvanceKeeps ==
  ASSUME FrameIInv, NEW t \in User, Advance(t)
  PROVE  FrameIInv'
<1> DEFINE woken == Woken(t)
           n == succ[t]
           to == IF wish[n] = "lock" THEN "hand" ELSE "run"
<1>0. Types /\ NoTwice(pending) /\ OneHolds /\ Chain /\ Sleep /\ Holder /\ Answers
  BY DEF FrameIInv
<1>1. /\ at[t] = "step" /\ WakeCur(t, to)
      /\ curWake' = [curWake EXCEPT ![t] = FALSE]
      /\ served' = IF to = "run" THEN [served EXCEPT ![n] = @ + 1] ELSE served
      /\ UNCHANGED <<tail, next, after, cur, succ, own, pending, prev, wish, uses>>
  BY DEF Advance, frame
<1>2. /\ CTypeOK /\ curWake \in [User -> BOOLEAN] /\ served \in [User -> 0..Uses]
           /\ uses \in 0..Uses
      /\ Uses \in Nat /\ wish \in [User -> {"call", "lock"}]
  BY <1>0, CombiningAssumption DEF Types, CTypeOK
<1>3. to \in {"out", "run", "hand"}
  OBVIOUS
<1>4. /\ at' \in [User -> Spot]
      /\ woken \subseteq User /\ slots' = slots \ woken /\ t \notin woken
      /\ at'[t] = to /\ \A u \in User : u # t
           => at'[u] = IF u \in woken THEN "woken" ELSE at[u]
  BY <1>1, <1>3, WakesCur
<1>5. /\ \A g \in Telling : cur[g] \in woken <=> g = t
      /\ woken \cap (Deferred \cup Beginning \cup Holding \cup Waiters) = {}
      /\ \A u \in woken : at[u] = "asleep" /\ after[u] = Nil /\ ~ own[u] /\ served[u] = 1
           /\ wish[u] = "call"
  BY <1>1, <1>3, WakesCur
<1>6. /\ n \in Waiters /\ n \in User /\ after[n] = Nil /\ at[n] = "asleep"
           /\ served[n] = 0 /\ n # t
      /\ n \notin woken
  BY <1>0, <1>1, <1>5 DEF Holder, Waiters
<1>7. t \in Holding /\ after[t] = Nil /\ t \notin Handing
  BY <1>0, <1>1, CombiningAssumption DEF Holding, Handing, Sleep
<1>8. Holding = {t} /\ Fronts = {n} /\ tail # Nil
  BY <1>1, <1>7, Held DEF Front, Walking
<1>9. /\ to = "hand" <=> wish[n] = "lock"
      /\ to = "run" <=> wish[n] = "call"
      /\ to \in {"run", "hand"}
  BY <1>2, <1>6
<1>10. UNCHANGED <<n, wish>>
  BY <1>1
<1> HIDE DEF woken, n, to
<1>11. /\ served' \in [User -> 0..Uses] /\ served'[n] = (IF to = "run" THEN 1 ELSE 0)
       /\ \A u \in User : u # n => served'[u] = served[u]
  <2>1. Uses > 0
    BY <1>0, <1>1, <1>2 DEF Types
  <2> QED BY <1>1, <1>2, <1>6, <1>9, <2>1
<1>12. curWake'[t] = FALSE /\ \A u \in User : u # t => curWake'[u] = curWake[u]
  BY <1>1, <1>2
<1>13. Types'
  <2>1. \A u \in User : served'[u] \in {0, 1}
    BY <1>0, <1>11, <1>9 DEF Types
  <2>2. CTypeOK'
    BY <1>1, <1>2, <1>4, <1>11 DEF CTypeOK
  <2> QED BY <1>0, <1>1, <1>4, <2>1, <2>2 DEF Types
<1>14. Handing' = Handing
  BY <1>1 DEF Handing
<1>15. Holding' = {t}
  BY <1>4, <1>5, <1>8, <1>9, <1>14 DEF Holding, Walking
<1>16. Fronts' = {n}
  BY <1>1, <1>4, <1>9, <1>15 DEF Fronts, Front, Walking, n
<1>17. Waiters' = (IF to = "run" THEN Waiters \ {n} ELSE Waiters) /\ Deferred' = Deferred
  BY <1>1, <1>4, <1>5, <1>6, <1>9, <1>11 DEF Waiters, Deferred, IsPending
<1>18. Telling' = Telling \ {t}
  BY <1>4, <1>5, <1>9, <1>12 DEF Telling, Walking
<1>19. Told' = Told \ woken
  BY <1>1, <1>5, <1>18 DEF Told
<1>20. Beginning = {} /\ Beginning' = IF to = "run" THEN {n} ELSE {}
  <2>1. \A h \in User : at[h] # "run"
    BY <1>1, <1>8 DEF Holding
  <2>2. \A h \in User : at'[h] = "run" <=> h = t /\ to = "run"
    BY <1>4, <2>1
  <2> QED BY <1>1, <2>1, <2>2 DEF Beginning, n
<1>21. Behind' = Behind
  BY <1>8, <1>16, <1>17 DEF Behind
<1>22. OneHolds' /\ Chain'
  BY <1>0, <1>1, <1>8, <1>15, <1>16, <1>21, ChainKept DEF OneHolds
<1>23. n \notin Deferred /\ n \notin Told /\ ~ own[n]
  BY <1>0, <1>6 DEF Answers, Sleep
<1>24. Sleep'
  BY <1>0, <1>1, <1>4, <1>5, <1>7, <1>8, <1>9, <1>11, <1>15, <1>17, <1>21, <1>23 DEF Sleep
<1>25. Holder'
  <2> SUFFICES ASSUME NEW h \in User
               PROVE
    /\ at'[h] = "run" => ~ curWake'[h]
    /\ at'[h] = "exec" => wish[h] = "call" /\ served'[h] = 0
    /\ at'[h] = "in" => wish[h] = "lock"
    /\ at'[h] \in Walking => cur[h] = h \/ curWake'[h] \/ cur[h] \in Deferred
    /\ at'[h] \in Walking \cup {"wake", "step"} /\ curWake'[h] => cur[h] # h
    /\ at'[h] = "step" \/ at'[h] = "hand" \/ h \in Handing =>
         succ[h] \in Waiters' /\ after[succ[h]] = Nil
    /\ at'[h] = "hand" \/ h \in Handing => wish[succ[h]] = "lock"
    /\ at'[h] \in {"wake", "step", "run", "hand", "woken"} \cup Walking
         /\ wish[h] = "call" => served'[h] = 1
    /\ at'[h] = "woken" => wish[h] = "call"
    /\ at'[h] \in {"release", "wake"} => ~ own[h]
    BY <1>1, <1>14, <1>17 DEF Holder
  <2>1. CASE h = t
    BY <2>1, <1>0, <1>1, <1>4, <1>6, <1>7, <1>9, <1>11, <1>12, <1>17 DEF Holder, Walking, n
  <2>2. CASE h # t
    <3>1. h \notin Holding
      BY <2>2, <1>8
    <3>2. at[h] \notin {"exec", "in", "step", "run", "hand"} \cup Walking
            /\ h \notin Handing
      BY <3>1 DEF Holding
    <3> QED BY <2>2, <3>2, <1>0, <1>4, <1>5, <1>6, <1>11, <1>12 DEF Holder, Walking
  <2> QED BY <2>1, <2>2
<1>26. Answers'
  BY <1>0, <1>1, <1>4, <1>5, <1>6, <1>7, <1>9, <1>11, <1>14, <1>17, <1>18,
     <1>19, <1>20, <1>23
  DEF Answers, Deferred
<1> QED BY <1>0, <1>1, <1>13, <1>22, <1>24, <1>25, <1>26 DEF FrameIInv

(* The successor's request is executed.                                    *)
LEMMA RunKeeps ==
  ASSUME FrameIInv, NEW t \in User, Run(t)
  PROVE  FrameIInv'
<1> DEFINE n == succ[t]
<1>0. Types /\ NoTwice(pending) /\ OneHolds /\ Chain /\ Sleep /\ Holder /\ Answers
  BY DEF FrameIInv
<1>1. PICK done \in BOOLEAN :
      /\ at[t] = "run" /\ at' = [at EXCEPT ![t] = "drain"] /\ cur' = [cur EXCEPT ![t] = n]
      /\ curWake' = IF done THEN [curWake EXCEPT ![t] = TRUE] ELSE curWake
      /\ pending' = IF done THEN pending ELSE Append(pending, n)
      /\ UNCHANGED <<tail, next, after, slots, succ, own, served, prev, wish, uses>>
  BY DEF Run, At, Go, frame
<1>2. /\ CTypeOK
      /\ at \in [User -> Spot]
      /\ cur \in [User -> User] /\ curWake \in [User -> BOOLEAN] /\ pending \in Seq(User)
  BY <1>0 DEF Types, CTypeOK
<1>3. n \in Beginning
  BY <1>1 DEF Beginning
<1>4. /\ n \in User /\ at[n] = "asleep" /\ after[n] = Nil /\ ~ own[n] /\ served[n] = 1
           /\ wish[n] = "call"
      /\ n \notin Deferred /\ n \notin Told /\ n # t /\ n \notin Waiters
  BY <1>0, <1>1, <1>3 DEF Answers, Waiters
<1>5. t \in Holding /\ after[t] = Nil /\ t \notin Handing
  BY <1>0, <1>1, CombiningAssumption DEF Holding, Handing, Sleep
<1>6. Holding = {t} /\ Fronts = {n}
  BY <1>1, <1>5, Held DEF Front, Walking
<1>7. /\ pending' \in Seq(User) /\ NoTwice(pending)'
      /\ Deferred' = IF done THEN Deferred ELSE Deferred \cup {n}
  <2>1. CASE ~ done
    BY <1>0, <1>1, <1>2, <1>4, <2>1, Defers
  <2>2. CASE done
    BY <1>0, <1>1, <1>2, <2>2 DEF Deferred, IsPending, NoTwice
  <2> QED BY <2>1, <2>2
<1>8. UNCHANGED n
  BY <1>1
<1> HIDE DEF n
<1>9. /\ at'[t] = "drain" /\ cur'[t] = n /\ (curWake'[t] <=> done)
      /\ \A u \in User : u # t => at'[u] = at[u] /\ cur'[u] = cur[u]
           /\ curWake'[u] = curWake[u]
  BY <1>0, <1>1, <1>2 DEF Holder
<1>10. Types'
  BY <1>0, <1>1, <1>2, <1>4, <1>7 DEF Types, CTypeOK
<1>11. Handing' = Handing
  BY <1>1 DEF Handing
<1>12. Holding' = {t}
  BY <1>1, <1>6, <1>9, <1>11 DEF Holding, Walking
<1>13. Fronts' = {n}
  BY <1>9, <1>12 DEF Fronts, Front, Walking
<1>14. Waiters' = Waiters
  BY <1>1, <1>9 DEF Waiters
<1>15. Beginning = {n} /\ Beginning' = {}
  <2>1. \A h \in User : h # t => at[h] # "run"
    BY <1>6 DEF Holding
  <2> QED BY <1>1, <1>9, <2>1 DEF Beginning, n
<1>16. Telling' = (IF curWake'[t] THEN Telling \cup {t} ELSE Telling) /\ t \notin Telling
  BY <1>1, <1>9 DEF Telling, Walking
<1>17. Told' = IF curWake'[t] THEN Told \cup {n} ELSE Told
  BY <1>9, <1>16 DEF Told, Telling
<1>18. Behind' = Behind
  BY <1>6, <1>13, <1>14 DEF Behind
<1>19. OneHolds' /\ Chain'
  BY <1>0, <1>1, <1>6, <1>12, <1>13, <1>18, ChainKept DEF OneHolds
<1>20. Sleep'
  BY <1>0, <1>1, <1>5, <1>6, <1>7, <1>9, <1>12, <1>18 DEF Sleep
<1>21. Holder'
  BY <1>0, <1>1, <1>4, <1>5, <1>7, <1>9, <1>11, <1>14 DEF Holder, Walking
<1>22. Answers'
  BY <1>0, <1>1, <1>4, <1>7, <1>9, <1>11, <1>15, <1>16, <1>17 DEF Answers, Deferred, Told
<1> QED BY <1>0, <1>1, <1>7, <1>10, <1>19, <1>20, <1>21, <1>22 DEF FrameIInv

(* The successor gets the lock, and its holder leaves or sleeps on.        *)
LEMMA Hands ==
  ASSUME FrameIInv, NEW t \in User, succ[t] # t,
         (at[t] = "hand" /\ ~ own[t]) \/ after[t] = "hand",
         at'[succ[t]] = "in", at' \in [User -> Spot],
         \A u \in User : u # succ[t] => at'[u] =
           IF u = t /\ at[t] = "hand" THEN "out" ELSE at[u],
         slots' = slots \ {succ[t]},
         after' = [after EXCEPT ![t] = Nil], own' = [own EXCEPT ![t] = FALSE],
         UNCHANGED <<tail, next, cur, curWake, succ, pending, served, prev, wish, uses>>
  PROVE  FrameIInv'
<1> DEFINE n == succ[t]
<1>0. Types /\ NoTwice(pending) /\ OneHolds /\ Chain /\ Sleep /\ Holder /\ Answers
  BY DEF FrameIInv
<1>1. /\ CTypeOK /\ own \in [User -> BOOLEAN]
           /\ after \in [User -> {Nil, "publish", "link", "hand"}]
      /\ Nil \notin {"publish", "link", "hand"}
  BY <1>0, CombiningAssumption DEF Types, CTypeOK
<1>2. t \in Holding /\ (after[t] = "hand" => at[t] = "asleep" /\ t \in Handing)
      /\ (at[t] = "hand" => after[t] = Nil)
  BY <1>0, <1>1 DEF Holding, Handing, Sleep
<1>3. /\ n \in User /\ n \in Waiters /\ at[n] = "asleep" /\ served[n] = 0 /\ after[n] = Nil
      /\ wish[n] = "lock" /\ ~ own[n]
  BY <1>0, <1>2 DEF Holder, Waiters, Sleep
<1>4. Holding = {t} /\ Fronts = {n} /\ tail # Nil
  BY <1>2, Held DEF Front, Walking
<1>5. n \notin Deferred \cup Told \cup Beginning
  BY <1>0, <1>3 DEF Answers
<1>6. UNCHANGED n
  OBVIOUS
<1> HIDE DEF n
<1>7. /\ at'[n] = "in" /\ \A u \in User \ {n, t} : at'[u] = at[u]
      /\ n # t /\ at'[t] = (IF at[t] = "hand" THEN "out" ELSE "asleep")
      /\ after'[t] = Nil /\ own'[t] = FALSE
      /\ \A u \in User : u # t => after'[u] = after[u] /\ own'[u] = own[u]
      /\ at[t] = "hand" \/ at[t] = "asleep"
  BY <1>1, <1>2 DEF n
<1>8. Types'
  <2>1. own' \in [User -> BOOLEAN]
    BY <1>1
  <2>2. after' \in [User -> {Nil, "publish", "link", "hand"}]
    BY <1>1
  <2>3. slots' \subseteq User
    BY <1>1 DEF CTypeOK
  <2>4. CTypeOK'
    BY <1>1, <2>1, <2>2, <2>3 DEF CTypeOK
  <2> QED BY <1>0, <1>3, <1>7, <2>4 DEF Types
<1>9. Handing' = {}
  <2>1. \A u \in User : u # t => u \notin Handing
    BY <1>4 DEF Holding
  <2> QED BY <1>1, <1>7, <2>1 DEF Handing
<1>10. Holding' = {n}
  <2>1. \A u \in User : u # t
          => at[u] \notin {"exec", "in", "step", "run", "hand"} \cup Walking
    BY <1>4 DEF Holding
  <2> QED BY <1>3, <1>7, <1>9, <2>1 DEF Holding, Walking
<1>11. Fronts' = {n}
  BY <1>7, <1>10 DEF Fronts, Front
<1>12. t \notin Waiters /\ (at[t] = "asleep" => served[t] = 1)
  BY <1>0, <1>2, <1>7 DEF Waiters, Sleep, Handing, Behind, Holder
<1>13. Waiters' = Waiters \ {n} /\ Deferred' = Deferred
  BY <1>3, <1>7, <1>12 DEF Waiters, Deferred, IsPending
<1>14. Telling' = Telling /\ Told' = Told
  BY <1>3, <1>7 DEF Telling, Told, Walking
<1>15. Beginning' = Beginning
  BY <1>3, <1>7 DEF Beginning
<1>16. Behind' = Behind
  BY <1>4, <1>11, <1>13 DEF Behind
<1>17. OneHolds' /\ Chain'
  BY <1>0, <1>4, <1>7, <1>10, <1>11, <1>16, ChainKept DEF OneHolds
<1>18. Sleep'
  BY <1>0, <1>1, <1>2, <1>3, <1>4, <1>5, <1>7, <1>10, <1>13, <1>16 DEF Sleep
<1>19. Holder'
  BY <1>0, <1>1, <1>3, <1>4, <1>5, <1>7, <1>9, <1>13 DEF Holder, Walking, Holding
<1>20. Answers'
  <2>1. \A u \in User : u # t => u \notin Handing
    BY <1>4 DEF Holding
  <2>2. \A u \in Deferred : (at'[u] = "asleep" => after'[u] = Nil) /\ (at'[u] = "asleep"
          \/ own'[u])
    <3> SUFFICES ASSUME NEW u \in Deferred
                 PROVE  (at'[u] = "asleep" => after'[u] = Nil) /\ (at'[u] = "asleep"
                          \/ own'[u])
      OBVIOUS
    <3>1. u \in User /\ u # n
      BY <1>5 DEF Deferred
    <3>2. CASE u = t
      BY <3>2, <1>0, <1>2, <1>7 DEF Answers
    <3>3. CASE u # t
      BY <3>1, <3>3, <2>1, <1>0, <1>7 DEF Answers
    <3> QED BY <3>2, <3>3
  <2>3. \A u \in Told \cup Beginning :
          u \in User /\ at'[u] = "asleep" /\ after'[u] = Nil /\ ~ own'[u]
    BY <1>0, <1>5, <1>7 DEF Answers
  <2> QED BY <1>0, <1>9, <1>13, <1>14, <1>15, <2>2, <2>3 DEF Answers
<1> QED BY <1>0, <1>8, <1>17, <1>18, <1>19, <1>20 DEF FrameIInv

(* hold: the lock is handed over, at once or by a callback.                *)
LEMMA HandKeeps ==
  ASSUME FrameIInv, NEW t \in User, Hand(t)
  PROVE  FrameIInv'
<1> DEFINE n == succ[t]
<1>0. Types /\ NoTwice(pending) /\ OneHolds /\ Chain /\ Sleep /\ Holder /\ Answers
  BY DEF FrameIInv
<1>1. /\ at[t] = "hand"
      /\ UNCHANGED <<tail, next, cur, curWake, succ, own, pending, served, prev, wish,
                     uses>>
  BY DEF Hand, frame
<1>2. /\ CTypeOK /\ own \in [User -> BOOLEAN]
           /\ after \in [User -> {Nil, "publish", "link", "hand"}]
      /\ Nil \notin {"publish", "link", "hand"}
      /\ at \in [User -> Spot]
  BY <1>0, CombiningAssumption DEF Types, CTypeOK
<1>3. /\ t \in Holding /\ after[t] = Nil /\ n \in User /\ n \in Waiters /\ n # t
           /\ after[n] = Nil
      /\ wish[n] = "lock"
  BY <1>0, <1>1 DEF Holding, Sleep, Holder, Waiters
<1>4. CASE ~ own[t]
  <2>1. /\ at' = [u \in User |-> IF u = n THEN "in" ELSE IF u = t THEN "out" ELSE at[u]]
        /\ slots' = slots \ {n} /\ after' = after
    BY <1>1, <1>4 DEF Hand
  <2>2. after' = [after EXCEPT ![t] = Nil] /\ own' = [own EXCEPT ![t] = FALSE]
    <3>1. own[t] = FALSE
      BY <1>2, <1>4
    <3> QED BY <1>1, <1>2, <1>3, <2>1, <3>1
  <2>3. /\ at'[n] = "in"
        /\ \A u \in User : u # n => at'[u] =
             IF u = t /\ at[t] = "hand" THEN "out" ELSE at[u]
        /\ at' \in [User -> Spot]
    BY <1>1, <1>2, <1>3, <2>1
  <2> QED BY <1>1, <1>3, <1>4, <2>1, <2>2, <2>3, Hands
<1>5. CASE own[t]
  <2>1. at' = [at EXCEPT ![t] = "asleep"] /\ after' = [after EXCEPT ![t] = "publish"]
          /\ slots' = slots
    BY <1>1, <1>5 DEF Hand, Go
  <2>2. /\ at'[t] = "asleep" /\ after'[t] = "publish"
        /\ \A u \in User : u # t => at'[u] = at[u] /\ after'[u] = after[u]
    BY <1>2, <2>1
  <2>3. Types'
    <3>1. /\ at' \in [User -> Spot]
          /\ after' \in [User -> {Nil, "publish", "link", "hand"}]
      BY <1>2, <2>1
    <3> QED BY <1>0, <1>1, <2>1, <2>2, <3>1 DEF Types, CTypeOK
  <2>4. Holding = {t} /\ Fronts = {n} /\ tail # Nil
    BY <1>1, <1>3, Held DEF Front, Walking
  <2>5. Handing' = {t}
    <3>1. \A u \in User : u # t => u \notin Handing
      BY <2>4 DEF Holding
    <3> QED BY <1>1, <1>5, <2>2, <3>1 DEF Handing
  <2>6. Holding' = {t}
    <3>1. \A u \in User : u # t
            => at[u] \notin {"exec", "in", "step", "run", "hand"} \cup Walking
      BY <2>4 DEF Holding
    <3> QED BY <2>2, <2>5, <3>1 DEF Holding, Walking
  <2>7. Fronts' = {n}
    BY <1>1, <2>2, <2>6 DEF Fronts, Front, Walking
  <2>8. served[t] = 1 /\ wish[t] = "call" /\ t \in Deferred
    BY <1>0, <1>5 DEF Sleep
  <2>9. /\ Waiters' = Waiters /\ Deferred' = Deferred /\ Telling' = Telling /\ Told' = Told
        /\ Beginning' = Beginning
    BY <1>1, <2>2, <2>8 DEF Waiters, Deferred, IsPending, Telling, Told, Beginning, Walking
  <2>10. Behind' = Behind
    BY <2>4, <2>7, <2>9 DEF Behind
  <2>11. OneHolds' /\ Chain'
    <3>1. \A u \in User : u \in Behind /\ after[u] = Nil => after'[u] = Nil
      BY <1>1, <2>2 DEF Behind, Waiters
    <3> QED BY <1>0, <1>1, <2>4, <2>6, <2>7, <2>10, <3>1, ChainKept DEF OneHolds
  <2>12. Sleep'
    BY <1>0, <1>1, <1>2, <1>3, <1>5, <2>1, <2>2, <2>4, <2>6, <2>9, <2>10 DEF Sleep
  <2>13. Holder'
    BY <1>0, <1>1, <1>3, <1>5, <2>2, <2>4, <2>5, <2>8, <2>9 DEF Holder, Walking, Holding
  <2>14. Answers'
    BY <1>0, <1>1, <1>5, <2>2, <2>5, <2>8, <2>9, <2>4 DEF Answers, Deferred, Holding
  <2> QED BY <1>0, <1>1, <2>3, <2>11, <2>12, <2>13, <2>14 DEF FrameIInv
<1> QED BY <1>4, <1>5

(* The callback hands the lock over.                                       *)
LEMMA HandAsleepKeeps ==
  ASSUME FrameIInv, NEW t \in User, HandAsleep(t)
  PROVE  FrameIInv'
<1>1. /\ after[t] = "hand" /\ after' = [after EXCEPT ![t] = Nil]
           /\ own' = [own EXCEPT ![t] = FALSE]
      /\ at' = [at EXCEPT ![succ[t]] = "in"] /\ slots' = slots \ {succ[t]}
      /\ UNCHANGED <<tail, next, cur, curWake, succ, pending, served, prev, wish, uses>>
  BY DEF HandAsleep, Go, frame
<1>2. at \in [User -> Spot] /\ Sleep /\ Holder
  BY DEF FrameIInv, Types, CTypeOK
<1>3. at[t] = "asleep" /\ t \in Handing /\ served[t] = 1
  BY <1>1, <1>2, CombiningAssumption DEF Sleep, Handing
<1>4. succ[t] \in User /\ succ[t] # t
  BY <1>2, <1>3 DEF Holder, Waiters
<1>5. /\ at'[succ[t]] = "in"
      /\ \A u \in User : u # succ[t] => at'[u] =
           IF u = t /\ at[t] = "hand" THEN "out" ELSE at[u]
      /\ at' \in [User -> Spot]
  BY <1>1, <1>2, <1>3, <1>4
<1> QED BY <1>1, <1>4, <1>5, Hands

(* call and with_lock: the tail is swapped, with nobody or somebody        *)
(* before.                                                                 *)
LEMMA SwapKeeps ==
  ASSUME FrameIInv, NEW t \in User, NEW w \in {"call", "lock"}, Swap(t, w)
  PROVE  FrameIInv'
<1>0. Types /\ NoTwice(pending) /\ OneHolds /\ Chain /\ Sleep /\ Holder /\ Answers
  BY DEF FrameIInv
<1>1. /\ at[t] = "out" /\ uses < Uses /\ uses' = uses + 1 /\ wish' = [wish EXCEPT ![t] = w]
      /\ next' = [next EXCEPT ![t] = Nil] /\ served' = [served EXCEPT ![t] = 0] /\ tail' = t
      /\ prev' = [prev EXCEPT ![t] = tail]
      /\ UNCHANGED <<slots, cur, curWake, succ, own, pending>>
  BY DEF Swap
<1>2. \/ tail = Nil /\ at' = [at EXCEPT ![t] = IF w = "call" THEN "exec" ELSE "in"]
           /\ after' = after
      \/ tail # Nil /\ at' = [at EXCEPT ![t] = "asleep"]
           /\ after' = [after EXCEPT ![t] = "publish"]
  BY DEF Swap, Go
<1>3. /\ CTypeOK /\ wish \in [User -> {"call", "lock"}]
           /\ next \in [User -> User \cup {Nil}]
      /\ prev \in [User -> User \cup {Nil}] /\ served \in [User -> 0..Uses]
      /\ after \in [User -> {Nil, "publish", "link", "hand"}] /\ tail \in User \cup {Nil}
      /\ uses \in 0..Uses /\ Uses \in Nat
           /\ Nil \notin User \cup {"publish", "link", "hand"}
      /\ at \in [User -> Spot]
  BY <1>0, CombiningAssumption DEF Types, CTypeOK
<1>4. t \notin Handing /\ t \notin Holding /\ ~ own[t] /\ after[t] = Nil
  BY <1>0, <1>1, <1>3 DEF Handing, Holding, Walking, Sleep
<1>5. t \notin Waiters \cup Deferred \cup Told \cup Beginning \cup Telling
  BY <1>0, <1>1, <1>4 DEF Waiters, Answers, Telling, Walking
<1>6. /\ wish'[t] = w /\ next'[t] = Nil /\ prev'[t] = tail /\ served'[t] = 0
      /\ \A u \in User : u # t => /\ wish'[u] = wish[u] /\ next'[u] = next[u]
           /\ prev'[u] = prev[u]
                                  /\ served'[u] = served[u] /\ at'[u] = at[u]
                                       /\ after'[u] = after[u]
      /\ at'[t] \in {"exec", "in", "asleep"} /\ after'[t] \in {Nil, "publish"}
  BY <1>1, <1>2, <1>3, <1>4
<1>7. Types'
  <2>1. /\ at' \in [User -> Spot]
        /\ after' \in [User -> {Nil, "publish", "link", "hand"}]
    BY <1>2, <1>3
  <2>2. served' \in [User -> 0..Uses] /\ uses' \in 0..Uses /\ uses' > 0
    BY <1>1, <1>3
  <2>3. /\ wish' \in [User -> {"call", "lock"}] /\ next' \in [User -> User \cup {Nil}]
        /\ prev' \in [User -> User \cup {Nil}] /\ tail' \in User \cup {Nil}
    BY <1>1, <1>3
  <2>4. CTypeOK'
    BY <1>1, <1>3, <2>1, <2>2, <2>3 DEF CTypeOK
  <2> QED BY <1>0, <1>6, <2>2, <2>4 DEF Types
<1>8. Handing' = Handing
  BY <1>1, <1>4, <1>6 DEF Handing
<1>9. /\ Deferred' = Deferred /\ Telling' = Telling /\ Told' = Told
  BY <1>1, <1>5, <1>6 DEF Deferred, IsPending, Telling, Told, Walking
<1>10. Beginning' = Beginning
  BY <1>1, <1>6 DEF Beginning
<1>11. NoTwice(pending)'
  BY <1>0, <1>1 DEF NoTwice
<1>12. CASE tail = Nil
  <2>1. at'[t] = (IF w = "call" THEN "exec" ELSE "in") /\ after' = after
    BY <1>2, <1>3, <1>12
  <2>2. Holding = {} /\ Fronts = {}
    BY <1>0, <1>12 DEF OneHolds, Fronts
  <2>3. Holding' = {t}
    BY <1>6, <1>8, <2>1, <2>2 DEF Holding, Walking
  <2>4. Fronts' = {t}
    BY <2>1, <2>3 DEF Fronts, Front
  <2>5. Waiters' = Waiters
    BY <1>5, <1>6, <2>1 DEF Waiters
  <2>6. Behind' = Behind /\ Behind \subseteq User /\ Line = Behind
          /\ Line' = Behind \cup {t} /\ t \notin Behind
    BY <1>5, <2>2, <2>4, <2>5 DEF Behind, Line, Waiters
  <2>7. Chain'
    <3>1. \A u \in Behind : prev'[u] = prev[u] /\ prev[u] \in Behind /\ next'[u] = next[u]
      BY <1>0, <1>6, <2>6 DEF Chain
    <3> QED BY <1>0, <1>1, <1>6, <2>1, <2>6, <3>1 DEF Chain
  <2>8. OneHolds'
    BY <1>1, <1>3, <2>3 DEF OneHolds
  <2>9. Sleep'
    BY <1>0, <1>1, <1>3, <1>4, <1>6, <1>9, <2>1, <2>2, <2>3, <2>6 DEF Sleep
  <2>10. Holder'
    BY <1>0, <1>1, <1>4, <1>6, <1>8, <1>9, <2>1, <2>5 DEF Holder, Walking, Waiters
  <2>11. Answers'
    BY <1>0, <1>1, <1>4, <1>5, <1>6, <1>8, <1>9, <1>10, <2>1 DEF Answers, Deferred
  <2> QED BY <1>1, <1>7, <1>11, <2>7, <2>8, <2>9, <2>10, <2>11 DEF FrameIInv
<1>13. CASE tail # Nil
  <2>1. at'[t] = "asleep" /\ after'[t] = "publish"
    BY <1>2, <1>3, <1>13
  <2>2. Holding' = Holding
    BY <1>4, <1>6, <1>8, <2>1 DEF Holding, Walking
  <2>3. Fronts' = Fronts
    <3>1. \A h \in Holding : Front(h)' = Front(h)
      BY <1>1, <1>4, <1>6 DEF Front, Holding, Handing
    <3> QED BY <2>2, <3>1 DEF Fronts
  <2>4. Waiters' = Waiters \cup {t}
    BY <1>6, <2>1 DEF Waiters
  <2>5. t \notin Fronts
    <3>1. \A h \in Holding : Front(h) # t
      <4> SUFFICES ASSUME NEW h \in Holding, Front(h) = t PROVE FALSE
        OBVIOUS
      <4>1. h \in User /\ h # t
        BY <1>4 DEF Holding, Handing
      <4>2. CASE at[h] \in {"exec", "in"}
        BY <4>1, <4>2 DEF Front
      <4>3. CASE at[h] \in Walking
        <5>1. cur[h] = t
          BY <4>3 DEF Front, Walking
        <5>2. t \in Told \cup Deferred
          BY <5>1, <4>1, <4>3, <1>0 DEF Holder, Told, Telling
        <5> QED BY <5>2, <1>5
      <4>4. CASE at[h] \notin {"exec", "in"} \cup Walking
        <5>1. succ[h] = t
          BY <4>4 DEF Front
        <5>2. t \in Waiters \cup Beginning
          BY <5>1, <4>1, <4>4, <1>0 DEF Holder, Beginning, Holding, Handing
        <5> QED BY <5>2, <1>5
      <4> QED BY <4>2, <4>3, <4>4
    <3> QED BY <3>1 DEF Fronts
  <2>6. /\ Behind' = Behind \cup {t} /\ Behind \subseteq User /\ t \notin Behind
             /\ t \notin Line
        /\ Line' = Line \cup {t}
    BY <1>5, <2>3, <2>4, <2>5 DEF Behind, Line, Waiters
  <2>7. Line \subseteq User
    <3>1. Fronts \subseteq User
      <4> SUFFICES ASSUME NEW h \in Holding PROVE Front(h) \in User
        BY DEF Fronts
      <4>1. h \in User /\ cur[h] \in User
        BY <1>3 DEF Holding, Handing, CTypeOK
      <4>2. at[h] \notin {"exec", "in"} \cup Walking => succ[h] \in User
        BY <4>1, <1>0 DEF Holder, Beginning, Holding, Handing, Waiters, Answers
      <4> QED BY <4>1, <4>2 DEF Front
    <3> QED BY <2>6, <3>1 DEF Line
  <2>8. Chain'
    <3>1. \A u \in Behind : prev'[u] = prev[u] /\ prev[u] \in Line /\ prev[u] # tail
      BY <1>0, <1>6, <1>13, <2>6 DEF Chain
    <3>2. \A u \in Line : next'[u] = next[u] /\ (next[u] # Nil =>
             next[u] \in Behind /\ prev[next[u]] = u /\ after[next[u]] = Nil)
      BY <1>0, <1>6, <2>6, <2>7 DEF Chain
    <3>3. tail \in Line
      BY <1>0, <1>13 DEF Chain
    <3>4. \A u \in Behind : after'[u] = after[u] /\ prev'[u] # t
      BY <1>6, <2>6, <3>1
    <3>5. tail' \in Line' /\ \A u \in Behind' : prev'[u] # tail'
      BY <1>1, <1>6, <2>6, <3>3, <3>4
    <3>6. \A u \in Behind' : prev'[u] \in Line'
      BY <1>6, <2>6, <3>1, <3>3
    <3>7. \A u, v \in Behind' : prev'[u] = prev'[v] => u = v
      BY <1>0, <1>6, <2>6, <3>1 DEF Chain
    <3>8. \A u \in Line' : next'[u] # Nil =>
             next'[u] \in Behind' /\ prev'[next'[u]] = u /\ after'[next'[u]] = Nil
      BY <1>6, <2>6, <3>1, <3>2, <3>4
    <3> QED BY <3>5, <3>6, <3>7, <3>8 DEF Chain
  <2>9. OneHolds'
    BY <1>0, <1>1, <1>3, <1>13, <2>2 DEF OneHolds
  <2>10. Sleep'
    BY <1>0, <1>1, <1>3, <1>4, <1>6, <1>9, <2>1, <2>2, <2>6 DEF Sleep
  <2>11. Holder'
    <3>1. \A h \in User : h # t /\ succ[h] = t => ~ (at[h] = "hand" \/ h \in Handing)
      BY <1>0, <1>5 DEF Holder
    <3> QED BY <1>0, <1>1, <1>4, <1>5, <1>6, <1>8, <1>9, <2>1, <2>4, <3>1
            DEF Holder, Walking, Waiters
  <2>12. Answers'
    BY <1>0, <1>1, <1>4, <1>5, <1>6, <1>8, <1>9, <1>10, <2>1 DEF Answers, Deferred
  <2> QED BY <1>1, <1>7, <1>11, <2>8, <2>9, <2>10, <2>11, <2>12 DEF FrameIInv
<1> QED BY <1>12, <1>13

-----------------------------------------------------------------------------
(* The invariant holds, and what it gives.                                 *)

(* The queue is empty at the beginning.                                    *)
LEMMA CombiningStarts == CInit => FrameIInv
<1> SUFFICES ASSUME CInit PROVE FrameIInv
  OBVIOUS
<1>1. /\ tail = Nil /\ pending = <<>> /\ slots = {} /\ uses = 0
      /\ \A t \in User : /\ at[t] = "out" /\ after[t] = Nil /\ wish[t] = "call"
           /\ own[t] = FALSE
                         /\ served[t] = 0 /\ curWake[t] = FALSE /\ next[t] = Nil
  BY DEF CInit
<1>2. Types
  <2>1. 0 \in 0..Uses
    BY CombiningAssumption
  <2>2. pending \in Seq(User)
    BY <1>1, EmptySeq
  <2>3. CTypeOK
    BY <2>1, <2>2 DEF CInit, CTypeOK
  <2> QED BY <1>1, <2>3 DEF Types
<1>3. NoTwice(pending) /\ Deferred = {}
  BY <1>1, NoneDeferred, EmptySeq, LenProperties DEF NoTwice
<1>4. Handing = {} /\ Telling = {}
  BY <1>1, CombiningAssumption DEF Handing, Telling
<1>5. Holding = {} /\ Fronts = {}
  BY <1>1, <1>4 DEF Holding, Fronts, Walking
<1>6. Waiters = {} /\ Told = {} /\ Beginning = {}
  BY <1>1, <1>4 DEF Waiters, Told, Beginning
<1>7. Behind = {} /\ Line = {}
  BY <1>5, <1>6 DEF Behind, Line
<1>8. OneHolds /\ Chain
  BY <1>1, <1>5, <1>7 DEF OneHolds, Chain
<1>9. Sleep
  BY <1>1, CombiningAssumption DEF Sleep
<1>10. Holder
  BY <1>1, <1>4 DEF Holder, Walking
<1>11. Answers
  BY <1>1, <1>3, <1>4, <1>6 DEF Answers
<1> QED BY <1>2, <1>3, <1>8, <1>9, <1>10, <1>11 DEF FrameIInv

(* Every step keeps the invariant.                                         *)
LEMMA CombiningSteps == FrameIInv /\ [CNext]_cvars => FrameIInv'
<1> SUFFICES ASSUME FrameIInv, [CNext]_cvars PROVE FrameIInv'
  OBVIOUS
<1>1. ASSUME NEW t \in User, Work(t) PROVE FrameIInv'
  BY <1>1, SettleKeeps, LinkBehindKeeps, RunOwnKeeps, EndBodyKeeps,
     LoadNextKeeps, ReleaseKeeps, WakeLastKeeps, SpinKeeps, AdvanceKeeps,
     RunKeeps, HandKeeps, HandAsleepKeeps, ReturnUserKeeps
  DEF Work
<1>2. CASE UNCHANGED cvars
  <2>1. Handing' = Handing /\ Holding' = Holding
    BY <1>2 DEF cvars, Handing, Holding
  <2>2. Fronts' = Fronts /\ Waiters' = Waiters
    BY <1>2, <2>1 DEF cvars, Fronts, Front, Waiters
  <2>3. Behind' = Behind /\ Line' = Line
    BY <2>2 DEF Behind, Line
  <2>4. Deferred' = Deferred /\ Telling' = Telling /\ Told' = Told /\ Beginning' = Beginning
    BY <1>2 DEF cvars, Deferred, IsPending, Telling, Told, Beginning
  <2>5. Types' /\ NoTwice(pending)'
    BY <1>2 DEF cvars, FrameIInv, Types, CTypeOK, NoTwice
  <2>6. OneHolds' /\ Chain' /\ Sleep'
    BY <1>2, <2>1, <2>2, <2>3, <2>4 DEF cvars, FrameIInv, OneHolds, Chain, Sleep
  <2>7. Holder' /\ Answers'
    BY <1>2, <2>1, <2>2, <2>4 DEF cvars, FrameIInv, Holder, Answers
  <2> QED BY <2>5, <2>6, <2>7 DEF FrameIInv
<1> QED BY <1>1, <1>2, PollKeeps, SwapKeeps DEF CNext

(* What the run checks follows from the inductive invariant.               *)
LEMMA FrameIInvGives == FrameIInv => FrameInv
<1> SUFFICES ASSUME FrameIInv PROVE FrameInv
  OBVIOUS
<1>0. Types /\ OneHolds /\ Chain /\ Sleep /\ Holder /\ Answers /\ CTypeOK
  BY DEF FrameIInv, Types
<1>1. \A h \in User : at[h] \in Walking => cur[h] = h \/ at[cur[h]] = "asleep"
  <2> SUFFICES ASSUME NEW h \in User, at[h] \in Walking, cur[h] # h
               PROVE  at[cur[h]] = "asleep"
    OBVIOUS
  <2>1. curWake[h] => cur[h] \in Told
    BY DEF Told, Telling
  <2>2. h \in Holding
    BY DEF Holding
  <2>3. Holding = {h}
    BY <2>2, Held
  <2>4. ~ own[cur[h]] \/ cur[h] \notin User
    BY <1>0, <2>3 DEF Sleep
  <2> QED BY <1>0, <2>1, <2>4 DEF Holder, Answers, Deferred
<1>2. ASSUME NEW t \in User, after[t] \in {"publish", "link"}, ~ own[t]
      PROVE  \/ at[prev[t]] \in {"asleep", "exec", "in", "drain", "release", "spin"}
             \/ \E h \in User : at[h] \in {"run", "drain", "release", "spin"}
                  /\ prev[t] \in {cur[h], succ[h]}
  <2>1. t \in Behind
    BY <1>0, <1>2 DEF Sleep
  <2>2. prev[t] \in Behind \cup Fronts
    BY <1>0, <2>1 DEF Chain, Line
  <2>3. CASE prev[t] \in Behind
    BY <2>3 DEF Behind, Waiters
  <2>4. ASSUME NEW h \in Holding, prev[t] = Front(h)
        PROVE  \/ at[prev[t]] \in {"asleep", "exec", "in", "drain", "release", "spin"}
               \/ \E g \in User : at[g] \in {"run", "drain", "release", "spin"}
                    /\ prev[t] \in {cur[g], succ[g]}
    <3>1. h \in User
      BY DEF Holding, Handing
    <3>2. CASE at[h] \in {"exec", "in"}
      BY <2>4, <3>2 DEF Front
    <3>3. CASE at[h] \in Walking
      BY <2>4, <3>1, <3>3 DEF Front, Walking
    <3>4. CASE at[h] = "run"
      BY <2>4, <3>1, <3>4 DEF Front, Walking
    <3>5. CASE at[h] \notin {"exec", "in", "run"} \cup Walking
      <4>1. prev[t] = succ[h] /\ (at[h] = "step" \/ at[h] = "hand" \/ h \in Handing)
        BY <2>4, <3>5 DEF Front, Holding
      <4> QED BY <4>1, <3>1, <1>0 DEF Holder, Waiters
    <3> QED BY <3>2, <3>3, <3>4, <3>5
  <2> QED BY <2>2, <2>3, <2>4 DEF Fronts
<1>3. NodeInFrame
  BY <1>1, <1>2 DEF NodeInFrame, Walking
<1>4. \A i \in DOMAIN pending : LET t == pending[i] IN t \in slots \/ own[t]
  <2> SUFFICES ASSUME NEW i \in DOMAIN pending PROVE pending[i] \in slots \/ own[pending[i]]
    OBVIOUS
  <2>1. pending[i] \in Deferred
    BY <1>0, LenProperties, ElementOfSeq DEF CTypeOK, Deferred, IsPending
  <2>2. \A u \in Deferred : u \in slots \/ own[u]
    BY <1>0, CombiningAssumption DEF Answers, Sleep, Handing, Deferred
  <2> QED BY <2>1, <2>2
<1>5. ASSUME NEW t \in User, at[t] \in {"exec", "in", "drain", "release", "spin"},
             NEW n, n = next[IF at[t] \in {"exec", "in"} THEN t ELSE cur[t]], n # Nil
      PROVE  n \in slots
  <2>1. t \in Holding
    BY <1>5 DEF Holding, Walking
  <2>2. Fronts = {Front(t)}
    BY <2>1, Held
  <2>3. n = next[Front(t)]
    BY <1>5 DEF Front, Walking
  <2>4. n \in Behind /\ after[n] = Nil
    BY <1>0, <1>5, <2>2, <2>3 DEF Chain, Line
  <2> QED BY <1>0, <2>4, CombiningAssumption DEF Sleep, Behind, Waiters
<1>6. WakeableInSlot
  BY <1>4, <1>5 DEF WakeableInSlot
<1> QED BY <1>0, <1>3, <1>6 DEF FrameInv

(* No frame is touched after its caller has returned, and whoever          *)
(* completes a deferred call or finds a linked waiter finds it asleep in   *)
(* its slot: "the holder never touches a frame that has returned", for any *)
(* users and any number of calls.                                          *)
THEOREM FramesSafe == CSpec => []FrameInv
BY CombiningStarts, CombiningSteps, FrameIInvGives, PTL DEF CSpec

-----------------------------------------------------------------------------
(* How far each call is.                                                   *)

-----------------------------------------------------------------------------
(* The refinement of Delegation.                                           *)

(* How far a call is, by the sets above.                                   *)
StageOf(t) ==
  /\ at[t] \in {"out", "in"} => CallStage(t) = at[t]
  /\ at[t] = "exec" \/ t \in Beginning => CallStage(t) = "running"
  /\ at[t] = "asleep" /\ served[t] = 0
       => CallStage(t) = IF wish[t] = "lock" THEN "wants" ELSE "asked"
  /\ t \in Deferred => CallStage(t) = "deferred"
  /\ at[t] \notin {"out", "in", "exec", "asleep"} /\ t \notin Deferred
       => CallStage(t) = "answered"
  /\ at[t] = "asleep" /\ served[t] = 1 /\ t \notin Deferred \cup Beginning
       => CallStage(t) = "answered"
  /\ CallStage(t) \in {"running", "in"} => at[t] \in {"exec", "in"} \/ t \in Beginning
StagesKnown == FrameIInv => \A t \in User : StageOf(t)

(* The stages of the refinement mapping, of the state and (below) of the   *)
(* next one.                                                               *)
LEMMA StagesAreKnown == StagesKnown
<1> SUFFICES ASSUME FrameIInv, NEW t \in User PROVE StageOf(t)
  BY DEF StagesKnown
<1>0. /\ Types /\ OneHolds /\ Sleep /\ Holder /\ Answers
      /\ at[t] \in Spot
      /\ wish[t] \in {"call", "lock"}
  BY DEF FrameIInv, Types, CTypeOK
<1>1. /\ IsPending(t) <=> t \in Deferred
      /\ (\E h \in User : at[h] = "run" /\ succ[h] = t) <=> t \in Beginning
  BY DEF Deferred, Beginning
<1>2. at[t] \in {"out", "in"} => CallStage(t) = at[t]
  BY DEF CallStage
<1>3. t \in Beginning => at[t] = "asleep" /\ served[t] = 1 /\ wish[t] = "call"
        /\ t \notin Deferred
  BY <1>0 DEF Answers
<1>4. at[t] = "exec" \/ t \in Beginning => CallStage(t) = "running"
  BY <1>1, <1>3 DEF CallStage
<1>5. at[t] = "asleep" /\ served[t] = 0 => t \notin Deferred /\ t \notin Beginning
  BY <1>0 DEF Answers
<1>6. at[t] = "asleep" /\ served[t] = 0
        => CallStage(t) = IF wish[t] = "lock" THEN "wants" ELSE "asked"
  BY <1>0, <1>1, <1>5 DEF CallStage
<1>7. t \in Deferred => /\ wish[t] = "call" /\ at[t] \notin {"out", "in", "exec"}
  <2>1. at[t] = "out" => ~ own[t]
    BY <1>0, CombiningAssumption DEF Sleep, Holding, Handing, Walking
  <2>2. own[t] => at[t] \notin {"in", "exec"}
    BY <1>0 DEF Sleep, Holder
  <2> QED BY <1>0, <2>1, <2>2 DEF Answers
<1>8. t \in Deferred => CallStage(t) = "deferred"
  BY <1>1, <1>7 DEF CallStage
<1>9. at[t] \notin {"out", "in", "exec", "asleep"} /\ t \notin Deferred
        => CallStage(t) = "answered"
  <2> SUFFICES ASSUME at[t] \notin {"out", "in", "exec", "asleep"}, t \notin Deferred
               PROVE  CallStage(t) = "answered"
    OBVIOUS
  <2>1. t \notin Beginning
    BY <1>3
  <2>2. wish[t] = "call" => served[t] = 1
    BY <1>0 DEF Holder, Walking
  <2> QED BY <1>0, <1>1, <2>1, <2>2 DEF CallStage
<1>10. at[t] = "asleep" /\ served[t] = 1 /\ t \notin Deferred \cup Beginning
         => CallStage(t) = "answered"
  <2> SUFFICES ASSUME at[t] = "asleep", served[t] = 1, t \notin Deferred, t \notin Beginning
               PROVE  CallStage(t) = "answered"
    OBVIOUS
  <2>1. wish[t] = "call"
    BY <1>0 DEF Answers
  <2> QED BY <1>0, <1>1, <2>1 DEF CallStage
<1>11. CallStage(t) \in {"running", "in"} => at[t] \in {"exec", "in"} \/ t \in Beginning
  BY <1>0, <1>1 DEF CallStage
<1> QED BY <1>2, <1>4, <1>6, <1>8, <1>9, <1>10, <1>11 DEF StageOf

(* The same of the next state.                                             *)
LEMMA StagesAreKnownNext == StagesKnown'
BY StagesAreKnown, PTL

(* A call of which nothing changes stays where it is.                      *)
Same(u) ==
  /\ at'[u] = at[u] /\ wish'[u] = wish[u] /\ served'[u] = served[u]
  /\ u \in Deferred' <=> u \in Deferred
  /\ u \in Beginning' <=> u \in Beginning

(* Its stage is the same.                                                  *)
LEMMA SameStage ==
  ASSUME NEW u \in User, Same(u)
  PROVE  CallStage(u)' = CallStage(u)
<1>1. /\ IsPending(u) <=> u \in Deferred
      /\ (\E h \in User : at[h] = "run" /\ succ[h] = u) <=> u \in Beginning
  BY DEF Deferred, Beginning
<1>2. /\ IsPending(u)' <=> u \in Deferred'
      /\ (\E h \in User : at'[h] = "run" /\ succ'[h] = u) <=> u \in Beginning'
  BY DEF Deferred, Beginning
<1> QED BY <1>1, <1>2 DEF Same, CallStage

(* One call moves.                                                         *)
Moves(t, a, b) == CallStage(t) = a /\ CallStage(t)' = b
  /\ \A u \in User \ {t} : CallStage(u)' = CallStage(u)

(* The refinement mapping, and what a step of the delegator does to the    *)
(* calls.                                                                  *)
Call == [t \in User |-> CallStage(t)]

(* One call moves.                                                         *)
LEMMA MovesCall ==
  ASSUME NEW t \in User, NEW a, NEW b, Moves(t, a, b)
  PROVE  Combined!Move(t, a, b)
BY DEF Moves, Combined!Move

(* No call moves.                                                          *)
LEMMA StaysCall ==
  ASSUME \A u \in User : CallStage(u)' = CallStage(u)
  PROVE  Call' = Call
BY DEF Call

(* Nobody executes a request or a body unless a holder is at exec, in or   *)
(* run.                                                                    *)
LEMMA NobodyInside ==
  ASSUME FrameIInv, \A h \in User : at[h] \notin {"exec", "in", "run"}
  PROVE  Combined!Unused
<1>1. Beginning = {}
  BY DEF Beginning
<1>2. \A t \in User : CallStage(t) \notin {"running", "in"}
  BY <1>1, StagesAreKnown DEF StagesKnown, StageOf
<1> QED BY <1>2 DEF Combined!Unused

(* What a step of the delegator does to the calls.                         *)
CallStep == Combined!Next \/ Call' = Call

(* Steps that touch no request and wake nobody.                            *)
LEMMA QuietSteps ==
  ASSUME FrameIInv, FrameIInv', NEW t \in User,
         UNCHANGED <<pending, served, wish>>,
         \A u \in User : u # t => at'[u] = at[u],
         Beginning' = Beginning,
         \/ at'[t] = at[t]
         \/ {at[t], at'[t]} \subseteq {"drain", "release", "spin", "wake", "step"}
  PROVE  CallStep
<1>1. Deferred' = Deferred
  BY DEF Deferred, IsPending
<1>2. \A u \in User : u # t => CallStage(u)' = CallStage(u)
  BY <1>1, SameStage DEF Same
<1>3. CallStage(t)' = CallStage(t)
  <2>1. CASE at'[t] = at[t]
    BY <1>1, <2>1, SameStage DEF Same
  <2>2. CASE {at[t], at'[t]} \subseteq {"drain", "release", "spin", "wake", "step"}
    BY <1>1, <2>2, StagesAreKnown, StagesAreKnownNext DEF StagesKnown, StageOf
  <2> QED BY <2>1, <2>2
<1> QED BY <1>2, <1>3, StaysCall DEF CallStep

(* The actions that do nothing else.                                       *)
LEMMA QuietActions ==
  ASSUME FrameIInv, FrameIInv', NEW t \in User,
         Settle(t) \/ LinkBehind(t) \/ LoadNext(t) \/ Release(t) \/ Spin(t)
  PROVE  CallStep
<1>1. /\ UNCHANGED <<pending, served, wish>>
      /\ \/ at' = at /\ succ' = succ
         \/ at[t] = "drain" /\ at' = [at EXCEPT ![t] = "step"]
              /\ succ' = [succ EXCEPT ![t] = next[cur[t]]]
         \/ at[t] = "drain" /\ at' = [at EXCEPT ![t] = "release"]
              /\ succ' = [succ EXCEPT ![t] = next[cur[t]]]
         \/ at[t] = "release" /\ at' = [at EXCEPT ![t] = "wake"] /\ succ' = succ
         \/ at[t] = "release" /\ at' = [at EXCEPT ![t] = "spin"] /\ succ' = succ
         \/ at[t] = "spin" /\ at' = [at EXCEPT ![t] = "step"]
              /\ succ' = [succ EXCEPT ![t] = next[cur[t]]]
  BY DEF Settle, LinkBehind, LoadNext, Release, Spin, At, Go, frame
<1>2. at \in [User -> Spot] /\ succ \in [User -> User \cup {Nil}]
  BY DEF FrameIInv, Types, CTypeOK
<1>3. /\ \A u \in User : u # t => at'[u] = at[u] /\ succ'[u] = succ[u]
      /\ \/ at'[t] = at[t] /\ succ' = succ
         \/ {at[t], at'[t]} \subseteq {"drain", "release", "spin", "wake", "step"}
  BY <1>1, <1>2
<1>4. Beginning' = Beginning
  BY <1>3 DEF Beginning
<1> QED BY <1>1, <1>3, <1>4, QuietSteps

(* A new call: it goes ahead or is asked.                                  *)
LEMMA SwapSteps ==
  ASSUME FrameIInv, FrameIInv', NEW t \in User, NEW w \in {"call", "lock"}, Swap(t, w)
  PROVE  CallStep
<1>1. /\ at[t] = "out" /\ wish' = [wish EXCEPT ![t] = w]
           /\ served' = [served EXCEPT ![t] = 0]
      /\ UNCHANGED <<succ, pending>>
      /\ \/ tail = Nil /\ at' = [at EXCEPT ![t] = IF w = "call" THEN "exec" ELSE "in"]
         \/ tail # Nil /\ at' = [at EXCEPT ![t] = "asleep"]
  BY DEF Swap, Go
<1>2. /\ at \in [User -> Spot]
      /\ wish \in [User -> {"call", "lock"}] /\ served \in [User -> 0..Uses]
  BY DEF FrameIInv, Types, CTypeOK
<1>3. /\ \A u \in User : u # t => at'[u] = at[u] /\ wish'[u] = wish[u]
           /\ served'[u] = served[u]
      /\ wish'[t] = w /\ served'[t] = 0 /\ at'[t] \in {"exec", "in", "asleep"}
  BY <1>1, <1>2
<1>4. Deferred' = Deferred /\ Beginning' = Beginning
  BY <1>1, <1>3 DEF Deferred, IsPending, Beginning
<1>5. \A u \in User : u # t => CallStage(u)' = CallStage(u)
  BY <1>3, <1>4, SameStage DEF Same
<1>6. CallStage(t) = "out"
  BY <1>1, StagesAreKnown DEF StagesKnown, StageOf
<1>7. CASE tail = Nil
  <2>1. at'[t] = IF w = "call" THEN "exec" ELSE "in"
    BY <1>1, <1>2, <1>7
  <2>2. CallStage(t)' = IF w = "call" THEN "running" ELSE "in"
    BY <2>1, StagesAreKnownNext DEF StagesKnown, StageOf
  <2>3. Holding = {}
    BY <1>7 DEF FrameIInv, OneHolds
  <2>4. Combined!Unused
    BY <2>3, NobodyInside DEF Holding
  <2>5. Combined!AskAndBegin(t)
    <3>1. Combined!Move(t, "out", "running") \/ Combined!Move(t, "out", "in")
      BY <1>5, <1>6, <2>2, MovesCall DEF Moves
    <3> QED BY <2>4, <3>1 DEF Combined!AskAndBegin
  <2> QED BY <2>5 DEF CallStep, Combined!Next
<1>8. CASE tail # Nil
  <2>1. at'[t] = "asleep"
    BY <1>1, <1>2, <1>8
  <2>2. CallStage(t)' = IF w = "lock" THEN "wants" ELSE "asked"
    BY <1>3, <2>1, StagesAreKnownNext DEF StagesKnown, StageOf
  <2>3. Combined!Ask(t)
    <3>1. Combined!Move(t, "out", "asked") \/ Combined!Move(t, "out", "wants")
      BY <1>5, <1>6, <2>2, MovesCall DEF Moves
    <3> QED BY <3>1 DEF Combined!Ask
  <2> QED BY <2>3 DEF CallStep, Combined!Next
<1> QED BY <1>7, <1>8

(* An own request is answered or deferred.                                 *)
LEMMA RunOwnSteps ==
  ASSUME FrameIInv, FrameIInv', NEW t \in User, RunOwn(t)
  PROVE  CallStep
<1>1. PICK defers \in BOOLEAN :
      /\ at[t] = "exec" /\ at' = [at EXCEPT ![t] = "drain"]
      /\ served' = [served EXCEPT ![t] = @ + 1]
      /\ pending' = IF defers THEN Append(pending, t) ELSE pending
      /\ UNCHANGED <<succ, wish>>
  BY DEF RunOwn, BeginDrain, Go, frame
<1>2. /\ at \in [User -> Spot]
      /\ served \in [User -> 0..Uses] /\ pending \in Seq(User) /\ NoTwice(pending)
  BY DEF FrameIInv, Types, CTypeOK
<1>3. at'[t] = "drain" /\ \A u \in User : u # t => at'[u] = at[u] /\ served'[u] = served[u]
  BY <1>1, <1>2
<1>4. t \notin Deferred
  BY <1>1 DEF FrameIInv, Answers, Holder
<1>5. Deferred' = IF defers THEN Deferred \cup {t} ELSE Deferred
  <2>1. CASE defers
    BY <1>1, <1>2, <1>4, <2>1, Defers
  <2>2. CASE ~ defers
    BY <1>1, <2>2 DEF Deferred, IsPending
  <2> QED BY <2>1, <2>2
<1>6. Beginning' = Beginning
  BY <1>1, <1>3 DEF Beginning
<1>7. \A u \in User : u # t => CallStage(u)' = CallStage(u)
  BY <1>1, <1>3, <1>5, <1>6, SameStage DEF Same
<1>8. CallStage(t) = "running"
  BY <1>1, StagesAreKnown DEF StagesKnown, StageOf
<1>9. CallStage(t)' = IF defers THEN "deferred" ELSE "answered"
  BY <1>3, <1>4, <1>5, StagesAreKnownNext DEF StagesKnown, StageOf
<1>10. Combined!Move(t, "running", "answered") \/ Combined!Move(t, "running", "deferred")
  BY <1>7, <1>8, <1>9, MovesCall DEF Moves
<1> QED BY <1>10 DEF CallStep, Combined!Next, Combined!Answer, Combined!Defer

(* The body of with_lock is over: its call is answered.                    *)
LEMMA EndBodySteps ==
  ASSUME FrameIInv, FrameIInv', NEW t \in User, EndBody(t)
  PROVE  CallStep
<1>1. /\ at[t] = "in" /\ at' = [at EXCEPT ![t] = "drain"]
           /\ UNCHANGED <<succ, wish, served, pending>>
  BY DEF EndBody, BeginDrain, Go, frame
<1>2. /\ at \in [User -> Spot]
  BY DEF FrameIInv, Types, CTypeOK
<1>3. at'[t] = "drain" /\ \A u \in User : u # t => at'[u] = at[u]
  BY <1>1, <1>2
<1>4. Deferred' = Deferred /\ Beginning' = Beginning /\ t \notin Deferred
  <2>1. t \notin Deferred
    BY <1>1 DEF FrameIInv, Answers, Holder
  <2> QED BY <1>1, <1>3, <2>1 DEF Deferred, IsPending, Beginning
<1>5. \A u \in User : u # t => CallStage(u)' = CallStage(u)
  BY <1>1, <1>3, <1>4, SameStage DEF Same
<1>6. CallStage(t) = "in" /\ CallStage(t)' = "answered"
  BY <1>1, <1>3, <1>4, StagesAreKnown, StagesAreKnownNext DEF StagesKnown, StageOf
<1>7. Combined!Move(t, "in", "answered")
  BY <1>5, <1>6, MovesCall DEF Moves
<1> QED BY <1>7 DEF CallStep, Combined!Next, Combined!Answer

(* A deferred call is answered.                                            *)
LEMMA PollSteps ==
  ASSUME FrameIInv, FrameIInv', NEW t \in User, Poll(t)
  PROVE  CallStep
<1>0. PICK r \in User : r = Head(pending)
  BY Completes DEF Poll, FrameIInv, Types, CTypeOK, Deferred
<1>1. /\ at[t] = "drain" /\ pending # <<>> /\ pending' = Tail(pending)
           /\ UNCHANGED <<succ, wish, served>>
      /\ at' = at \/ at' = [at EXCEPT ![r] = "woken"]
  BY <1>0 DEF Poll, Go, frame
<1>2. /\ at \in [User -> Spot]
      /\ pending \in Seq(User) /\ NoTwice(pending) /\ Answers
  BY DEF FrameIInv, Types, CTypeOK
<1>3. r \in Deferred /\ Deferred' = Deferred \ {r}
  BY <1>0, <1>1, <1>2, Completes
<1>4. r \in User /\ r \notin Beginning /\ (at[r] = "asleep" \/ own[r])
  BY <1>2, <1>3 DEF Answers, Deferred
<1>5. \A u \in User : u # r => at'[u] = at[u]
  BY <1>1, <1>2, <1>4
<1>6. Beginning' = Beginning
  <2>1. at[r] # "run"
    <3>1. t \in Holding
      BY <1>1 DEF Holding, Walking
    <3> QED BY <1>1, <1>4, <3>1, Held DEF Holding
  <2>2. at'[r] # "run"
    BY <1>1, <1>2, <1>4, <2>1
  <2> QED BY <1>1, <1>5, <2>1, <2>2 DEF Beginning
<1>7. \A u \in User : u # r => CallStage(u)' = CallStage(u)
  BY <1>1, <1>3, <1>5, <1>6, SameStage DEF Same
<1>8. CallStage(r) = "deferred"
  BY <1>3, <1>4, StagesAreKnown DEF StagesKnown, StageOf
<1>9. served'[r] = 1 /\ wish'[r] = "call"
  BY <1>1, <1>2, <1>3 DEF Answers
<1>10. CallStage(r)' = "answered"
  <2>1. r \notin Deferred' \cup Beginning'
    BY <1>3, <1>4, <1>6
  <2>2. at'[r] \notin {"out", "in", "exec"}
    <3>1. CASE own[r]
      <4>1. r \in Holding /\ t \in Holding
        BY <1>1, <1>4, <3>1 DEF FrameIInv, Sleep, Holding, Walking
      <4>2. r = t
        BY <4>1, Held
      <4> QED BY <1>1, <1>2, <4>2
    <3>2. CASE at[r] = "asleep"
      BY <1>1, <1>2, <1>4, <3>2
    <3> QED BY <1>4, <3>1, <3>2
  <2> QED BY <1>4, <1>9, <2>1, <2>2, StagesAreKnownNext DEF StagesKnown, StageOf
<1>11. Combined!Move(r, "deferred", "answered")
  BY <1>4, <1>7, <1>8, <1>10, MovesCall DEF Moves
<1> QED BY <1>4, <1>11 DEF CallStep, Combined!Next, Combined!Complete

(* A caller that was answered returns.                                     *)
LEMMA ReturnUserSteps ==
  ASSUME FrameIInv, FrameIInv', NEW t \in User, ReturnUser(t)
  PROVE  CallStep
<1>1. at[t] = "woken" /\ at' = [at EXCEPT ![t] = "out"]
        /\ UNCHANGED <<succ, wish, served, pending>>
  BY DEF ReturnUser, At, Go, frame
<1>2. at \in [User -> Spot]
  BY DEF FrameIInv, Types, CTypeOK
<1>3. at'[t] = "out" /\ \A u \in User : u # t => at'[u] = at[u]
  BY <1>1, <1>2
<1>4. Deferred' = Deferred /\ Beginning' = Beginning
  BY <1>1, <1>3 DEF Deferred, IsPending, Beginning
<1>5. t \notin Deferred
  BY <1>1, CombiningAssumption DEF FrameIInv, Answers, Sleep, Holding, Handing, Walking
<1>6. \A u \in User : u # t => CallStage(u)' = CallStage(u)
  BY <1>1, <1>3, <1>4, SameStage DEF Same
<1>7. CallStage(t) = "answered" /\ CallStage(t)' = "out"
  BY <1>1, <1>3, <1>5, StagesAreKnown, StagesAreKnownNext DEF StagesKnown, StageOf
<1>8. Combined!Move(t, "answered", "out")
  BY <1>6, <1>7, MovesCall DEF Moves
<1> QED BY <1>8 DEF CallStep, Combined!Next, Combined!Return

(* A caller that is woken has its answer before and after.                 *)
LEMMA WokenAnswered ==
  ASSUME FrameIInv, FrameIInv', NEW u \in User, at[u] = "asleep", served[u] = 1,
         u \notin Deferred \cup Beginning, at'[u] = "woken", u \notin Deferred'
  PROVE  CallStage(u) = "answered" /\ CallStage(u)' = "answered"
BY StagesAreKnown, StagesAreKnownNext DEF StagesKnown, StageOf

(* The holder returns, and who it wakes was answered before.               *)
LEMMA WakeLastSteps ==
  ASSUME FrameIInv, FrameIInv', NEW t \in User, WakeLast(t)
  PROVE  CallStep
<1> DEFINE woken == Woken(t)
<1>1. at[t] = "wake" /\ WakeCur(t, "out") /\ UNCHANGED <<succ, wish, served, pending>>
  BY DEF WakeLast, frame
<1>2. /\ woken \subseteq User /\ t \notin woken
      /\ at'[t] = "out" /\ \A u \in User : u # t
           => at'[u] = IF u \in woken THEN "woken" ELSE at[u]
      /\ woken \cap (Deferred \cup Beginning) = {}
      /\ \A u \in woken : at[u] = "asleep" /\ served[u] = 1
  BY <1>1, WakesCur
<1> HIDE DEF woken
<1>3. Deferred' = Deferred /\ Beginning' = Beginning
  BY <1>1, <1>2 DEF Deferred, IsPending, Beginning
<1>4. ASSUME NEW u \in User, u # t PROVE CallStage(u)' = CallStage(u)
  <2>1. CASE u \in woken
    BY <1>2, <1>3, <1>4, <2>1, WokenAnswered
  <2>2. CASE u \notin woken
    BY <1>1, <1>2, <1>3, <1>4, <2>2, SameStage DEF Same
  <2> QED BY <2>1, <2>2
<1>5. t \notin Deferred
  BY <1>1 DEF FrameIInv, Answers, Holder
<1>6. CallStage(t) = "answered" /\ CallStage(t)' = "out"
  BY <1>1, <1>2, <1>5, StagesAreKnown, StagesAreKnownNext DEF StagesKnown, StageOf
<1>7. Combined!Move(t, "answered", "out")
  BY <1>4, <1>6, MovesCall DEF Moves
<1> QED BY <1>7 DEF CallStep, Combined!Next, Combined!Return

(* The successor's request is begun, or its lock is still wanted.          *)
LEMMA AdvanceSteps ==
  ASSUME FrameIInv, FrameIInv', NEW t \in User, Advance(t)
  PROVE  CallStep
<1> DEFINE woken == Woken(t)
<1>0. PICK n \in User : n = succ[t]
  BY DEF Advance, FrameIInv, Holder, Waiters
<1> DEFINE to == IF wish[n] = "lock" THEN "hand" ELSE "run"
<1>14. to \in {"out", "run", "hand"}
  OBVIOUS
<1>1. /\ at[t] = "step" /\ WakeCur(t, to) /\ UNCHANGED <<succ, wish, pending>>
      /\ served' = IF to = "run" THEN [served EXCEPT ![n] = @ + 1] ELSE served
  BY <1>0 DEF Advance, frame
<1>2. /\ woken \subseteq User /\ t \notin woken
      /\ at'[t] = to /\ \A u \in User : u # t
           => at'[u] = IF u \in woken THEN "woken" ELSE at[u]
      /\ woken \cap (Deferred \cup Beginning \cup Waiters) = {}
      /\ \A u \in woken : at[u] = "asleep" /\ served[u] = 1
  BY <1>14, <1>1, WakesCur
<1>3. /\ n \in Waiters /\ at[n] = "asleep" /\ served[n] = 0
      /\ served \in [User -> 0..Uses] /\ wish \in [User -> {"call", "lock"}]
  BY <1>0, <1>1 DEF FrameIInv, Holder, Waiters, Types, CTypeOK
<1>4. t \in Holding
  BY <1>1 DEF Holding
<1>5. Holding = {t}
  BY <1>4, Held
<1>6. \A h \in User : h # t => at[h] \notin {"exec", "in", "run"}
  BY <1>5 DEF Holding
<1>7. Deferred' = Deferred /\ n \notin woken /\ n # t
  BY <1>1, <1>2, <1>3 DEF Deferred, IsPending
<1>8. to \in {"run", "hand"} /\ (to = "run" => wish[n] = "call")
  BY <1>1, <1>3
<1>9. Beginning = {} /\ Beginning' = IF to = "run" THEN {n} ELSE {}
  <2>1. \A h \in User : at[h] # "run"
    BY <1>1, <1>6
  <2>2. \A h \in User : at'[h] = "run" <=> h = t /\ to = "run"
    BY <1>2, <2>1
  <2> QED BY <1>0, <1>1, <2>1, <2>2 DEF Beginning
<1> HIDE DEF woken, to
<1>10. ASSUME NEW u \in User, u # t, u # n PROVE CallStage(u)' = CallStage(u)
  <2>1. CASE u \in woken
    BY <1>2, <1>7, <1>10, <2>1, WokenAnswered
  <2>2. CASE u \notin woken
    <3>1. served'[u] = served[u]
      BY <1>1, <1>3, <1>10
    <3>2. u \notin Beginning /\ u \notin Beginning'
      BY <1>9, <1>10
    <3> QED BY <1>1, <1>2, <1>7, <1>10, <2>2, <3>1, <3>2, SameStage DEF Same
  <2> QED BY <2>1, <2>2
<1>11. CallStage(t)' = CallStage(t)
  <2>1. t \notin Beginning
    BY <1>9
  <2> QED BY <1>1, <1>2, <1>7, <1>8, StagesAreKnown, StagesAreKnownNext
          DEF StagesKnown, StageOf
<1>12. CASE to = "run"
  <2>1. CallStage(n) = "asked" /\ CallStage(n)' = "running"
    BY <1>3, <1>8, <1>9, <1>12, StagesAreKnown, StagesAreKnownNext DEF StagesKnown, StageOf
  <2>2. Combined!Move(n, "asked", "running")
    BY <1>3, <1>10, <1>11, <2>1, MovesCall DEF Moves
  <2>3. Combined!Unused
    BY <1>1, <1>6, NobodyInside
  <2> QED BY <1>3, <2>2, <2>3 DEF CallStep, Combined!Next, Combined!Begin
<1>13. CASE to = "hand"
  <2>1. CallStage(n)' = CallStage(n)
    <3>1. n \notin Beginning /\ n \notin Beginning' /\ served' = served
      BY <1>1, <1>9, <1>13
    <3> QED BY <1>1, <1>2, <1>3, <1>7, <3>1, SameStage DEF Same
  <2> QED BY <1>10, <1>11, <2>1, StaysCall DEF CallStep
<1> QED BY <1>8, <1>12, <1>13

(* The successor's request is answered or deferred.                        *)
LEMMA RunSteps ==
  ASSUME FrameIInv, FrameIInv', NEW t \in User, Run(t)
  PROVE  CallStep
<1>1. PICK n \in User : n = succ[t] /\ n \in Beginning
  BY DEF Run, At, FrameIInv, Answers, Beginning
<1>2. PICK done \in BOOLEAN :
      /\ at[t] = "run" /\ at' = [at EXCEPT ![t] = "drain"]
      /\ pending' = IF done THEN pending ELSE Append(pending, n)
      /\ UNCHANGED <<succ, wish, served>>
  BY <1>1 DEF Run, At, Go, frame
<1>3. /\ at \in [User -> Spot]
      /\ pending \in Seq(User) /\ NoTwice(pending) /\ Answers
  BY DEF FrameIInv, Types, CTypeOK
<1>4. at[n] = "asleep" /\ served[n] = 1 /\ n \notin Deferred /\ n # t
  BY <1>1, <1>2, <1>3 DEF Answers
<1>5. Deferred' = IF done THEN Deferred ELSE Deferred \cup {n}
  <2>1. CASE ~ done
    BY <1>2, <1>3, <1>4, <2>1, Defers
  <2>2. CASE done
    BY <1>2, <2>2 DEF Deferred, IsPending
  <2> QED BY <2>1, <2>2
<1>6. at'[t] = "drain" /\ \A u \in User : u # t => at'[u] = at[u]
  BY <1>2, <1>3
<1>7. Holding = {t}
  BY <1>2, Held DEF Holding
<1>8. Beginning = {n} /\ Beginning' = {}
  <2>1. \A h \in User : h # t => at[h] # "run"
    BY <1>7 DEF Holding
  <2> QED BY <1>1, <1>2, <1>6, <2>1 DEF Beginning
<1>9. ASSUME NEW u \in User, u # t, u # n PROVE CallStage(u)' = CallStage(u)
  BY <1>2, <1>5, <1>6, <1>8, <1>9, SameStage DEF Same
<1>10. CallStage(t)' = CallStage(t)
  <2>1. t \in Deferred' <=> t \in Deferred
    BY <1>4, <1>5
  <2> QED BY <1>2, <1>6, <2>1, StagesAreKnown, StagesAreKnownNext DEF StagesKnown, StageOf
<1>11. CallStage(n) = "running"
  BY <1>1, StagesAreKnown DEF StagesKnown, StageOf
<1>12. CallStage(n)' = IF done THEN "answered" ELSE "deferred"
  <2>1. at'[n] = "asleep" /\ served'[n] = 1 /\ n \notin Beginning'
    BY <1>2, <1>4, <1>6, <1>8
  <2> QED BY <1>4, <1>5, <2>1, StagesAreKnownNext DEF StagesKnown, StageOf
<1>13. Combined!Move(n, "running", "answered") \/ Combined!Move(n, "running", "deferred")
  BY <1>9, <1>10, <1>11, <1>12, MovesCall DEF Moves
<1> QED BY <1>13 DEF CallStep, Combined!Next, Combined!Answer, Combined!Defer

(* The lock is handed over by a holder that returns, or that sleeps until  *)
(* its own call is completed.                                              *)
LEMMA HandSteps ==
  ASSUME FrameIInv, FrameIInv', NEW t \in User, Hand(t)
  PROVE  CallStep
<1>1. PICK n \in User : n = succ[t] /\ n \in Waiters /\ wish[n] = "lock"
  BY DEF Hand, FrameIInv, Holder, Waiters
<1>2. /\ at[t] = "hand" /\ UNCHANGED <<succ, wish, served, pending, own>>
      /\ IF own[t] THEN at' = [at EXCEPT ![t] = "asleep"]
         ELSE at' = [u \in User |-> IF u = n THEN "in" ELSE IF u = t THEN "out" ELSE at[u]]
  BY <1>1 DEF Hand, Go, frame
<1>3. at \in [User -> Spot]
  BY DEF FrameIInv, Types, CTypeOK
<1>4. at[n] = "asleep" /\ served[n] = 0 /\ n # t
  BY <1>1, <1>2 DEF Waiters
<1>5. Deferred' = Deferred
  BY <1>2 DEF Deferred, IsPending
<1>6. CASE own[t]
  <2>1. \A u \in User : u # t => at'[u] = at[u]
    BY <1>2, <1>3, <1>6
  <2>2. Beginning' = Beginning /\ at'[t] = "asleep"
    BY <1>2, <1>3, <1>6, <2>1 DEF Beginning
  <2>3. t \in Deferred
    BY <1>6 DEF FrameIInv, Sleep
  <2>4. CallStage(t)' = CallStage(t)
    BY <1>5, <2>3, StagesAreKnown, StagesAreKnownNext DEF StagesKnown, StageOf
  <2>5. \A u \in User : CallStage(u)' = CallStage(u)
    BY <1>2, <1>5, <2>1, <2>2, <2>4, SameStage DEF Same
  <2> QED BY <2>5, StaysCall DEF CallStep
<1>7. CASE ~ own[t]
  <2>1. at'[n] = "in" /\ at'[t] = "out" /\ \A u \in User \ {n, t} : at'[u] = at[u]
    BY <1>2, <1>4, <1>7
  <2>2. Beginning' = Beginning
    BY <1>2, <1>4, <2>1 DEF Beginning
  <2>3. t \notin Deferred
    BY <1>2, <1>7 DEF FrameIInv, Answers
  <2>4. \A u \in User \ {n, t} : CallStage(u)' = CallStage(u)
    BY <1>2, <1>5, <2>1, <2>2, SameStage DEF Same
  <2>5. CallStage(t) = "answered" /\ CallStage(t)' = "out"
    BY <1>2, <2>1, <2>3, StagesAreKnown, StagesAreKnownNext DEF StagesKnown, StageOf
  <2>6. CallStage(n) = "wants" /\ CallStage(n)' = "in"
    BY <1>1, <1>4, <2>1, StagesAreKnown, StagesAreKnownNext DEF StagesKnown, StageOf
  <2>7. Combined!Unused
    <3>1. Holding = {t}
      BY <1>2, Held DEF Holding
    <3>2. \A h \in User : at[h] \notin {"exec", "in", "run"}
      BY <1>2, <3>1 DEF Holding
    <3> QED BY <3>2, NobodyInside
  <2>8. Call' = [v \in User |-> IF v = n THEN "in" ELSE IF v = t THEN "out" ELSE Call[v]]
    BY <2>4, <2>5, <2>6 DEF Call
  <2>9. Combined!HandOver(t, n)
    BY <2>5, <2>6, <2>7, <2>8 DEF Combined!HandOver, Call
  <2> QED BY <2>9 DEF CallStep, Combined!Next
<1> QED BY <1>6, <1>7

(* The callback gives the lock to the one that wants it.                   *)
LEMMA HandAsleepSteps ==
  ASSUME FrameIInv, FrameIInv', NEW t \in User, HandAsleep(t)
  PROVE  CallStep
<1>1. after[t] = "hand" /\ UNCHANGED <<succ, wish, served, pending>>
  BY DEF HandAsleep, frame
<1>2. at[t] = "asleep" /\ t \in Handing /\ t \in Holding
  BY <1>1, CombiningAssumption DEF FrameIInv, Sleep, Handing, Holding
<1>3. PICK n \in User : n = succ[t] /\ n \in Waiters /\ wish[n] = "lock"
  BY <1>2 DEF FrameIInv, Holder, Waiters
<1>4. at' = [at EXCEPT ![n] = "in"]
  BY <1>3 DEF HandAsleep, Go
<1>5. at \in [User -> Spot]
  BY DEF FrameIInv, Types, CTypeOK
<1>6. at[n] = "asleep" /\ served[n] = 0 /\ at'[n] = "in" /\ \A u \in User : u # n
        => at'[u] = at[u]
  BY <1>3, <1>4, <1>5 DEF Waiters
<1>7. Deferred' = Deferred /\ Beginning' = Beginning
  BY <1>1, <1>6 DEF Deferred, IsPending, Beginning
<1>8. \A u \in User \ {n} : CallStage(u)' = CallStage(u)
  BY <1>1, <1>6, <1>7, SameStage DEF Same
<1>9. CallStage(n) = "wants" /\ CallStage(n)' = "in"
  BY <1>3, <1>6, StagesAreKnown, StagesAreKnownNext DEF StagesKnown, StageOf
<1>10. Combined!Move(n, "wants", "in")
  BY <1>8, <1>9, MovesCall DEF Moves
<1>11. Combined!Unused
  <2>1. \A h \in User : at[h] \notin {"exec", "in", "run"}
    BY <1>2, Held DEF Holding
  <2> QED BY <2>1, NobodyInside
<1> QED BY <1>10, <1>11 DEF CallStep, Combined!Next, Combined!Begin

(* Every step of the delegator is one of Delegation, or leaves the calls   *)
(* where they are.                                                         *)
LEMMA CombiningCalls == FrameIInv /\ FrameIInv' /\ [CNext]_cvars => [Combined!Next]_Call
<1> SUFFICES ASSUME FrameIInv, FrameIInv', [CNext]_cvars PROVE CallStep
  BY DEF CallStep
<1>1. ASSUME NEW t \in User, Work(t) PROVE CallStep
  BY <1>1, QuietActions, RunOwnSteps, EndBodySteps, WakeLastSteps, AdvanceSteps,
     RunSteps, HandSteps, HandAsleepSteps, ReturnUserSteps
  DEF Work
<1>2. CASE UNCHANGED cvars
  BY <1>2 DEF cvars, CallStep, Call, CallStage, IsPending
<1> QED BY <1>1, <1>2, PollSteps, SwapSteps DEF CNext

(* CombiningDelegator implements Delegation: each request is executed      *)
(* once, by one task at a time that has the resource to itself, is         *)
(* answered once, and its caller returns after that; a with_lock body has  *)
(* the resource to itself.                                                 *)
THEOREM CombiningRefinement == CSpec => CombiningImplements
<1>1. CInit => Combined!Init
  BY DEF CInit, Combined!Init, CallStage
<1>2. FrameIInv /\ FrameIInv' /\ [CNext]_cvars
        => [Combined!Next]_[t \in User |-> CallStage(t)]
  BY CombiningCalls DEF Call
<1> QED BY <1>1, <1>2, CombiningStarts, CombiningSteps, PTL
       DEF CSpec, CombiningImplements, Combined!Spec

-----------------------------------------------------------------------------
(* The delegator with a consumer.                                          *)

(* Where a caller is.                                                      *)
CallPlace == {"out", "asleep", "exec", "in", "unlock", "unlock_and_wait", "follow",
              "woken", "stop", "gone"}

(* Where the consumer task is.                                             *)
ConPlace == {"unborn", "loop", "head", "exec", "progress", "notify", "park", "release",
             "parked", "done"}
USE DEF CallPlace, ConPlace

(* Where a caller holds the lock.                                          *)
Acting == {"exec", "in", "unlock", "follow", "unlock_and_wait"}

(* The callers that hold the lock.                                         *)
Actors == {t \in Caller : pc[t] \in Acting}

(* Callers whose call the resource has deferred.                           *)
Postponed == {t \in Caller : \E i \in DOMAIN deferred : deferred[i] = t}

(* The consumer has still to look at the holder's node.                    *)
Todo == conPc = "head" \/ (conPc = "loop" /\ ~ isExecuted)

(* Callers in line.                                                        *)
Queued == {t \in Caller : pc[t] = "asleep" /\ answer[t] = 0}

(* What a linked caller has put into its node.                             *)
Content(t) ==
  IF kind[t] = "call" THEN [req |-> t, sth |-> None] ELSE [req |-> None, sth |-> t]

(* The caller whose request the consumer executes.                         *)
Serving == {t \in Caller : conPc = "exec" /\ node[Place(head)].req = t}

(* The caller the consumer is going to wake.                               *)
Handed == {t \in Caller : awake = t}

(* What a node holds.                                                      *)
NodeRec == [req : Caller \cup {None}, sth : Caller \cup {None}]

(* The queue: types, room in the ring, boxes of the list.                  *)
QueueState ==
  /\ backend \in {"mcs", "ring"}
  /\ last \in Nat /\ head \in Nat /\ head <= last /\ last = calls /\ last <= MaxCalls
  /\ isFree \in BOOLEAN /\ linked \subseteq Places /\ heap \subseteq 0..last
  /\ node \in [Places -> NodeRec]
  /\ isFree => last = head
  /\ backend = "ring" => last - head < RingSize
  /\ backend = "mcs" /\ ~ isFree => head..last \subseteq heap

(* The consumer.                                                           *)
ConsumerState ==
  /\ isExecuted \in BOOLEAN /\ conParked \in BOOLEAN /\ finished \in BOOLEAN
  /\ conPc \in ConPlace
  /\ deferred \in Seq(Caller) /\ NoTwice(deferred)
  /\ awake \in Caller \cup {None}
  /\ awake # None <=> conPc = "notify"
  /\ conParked <=> conPc \in {"release", "parked"}

(* The callers.                                                            *)
CallerState ==
  /\ pc \in [Caller -> CallPlace]
  /\ kind \in [Caller -> {"call", "lock", "drop"}]
  /\ mine \in [Caller -> Nat] /\ \A t \in Caller : mine[t] <= last
  /\ cb \in [Caller -> {None, "publish", "link"}]
  /\ sth \subseteq Caller
  /\ answer \in [Caller -> {0, 1}]
  /\ \A t \in Caller : pc[t] # "out" \/ answer[t] = 1 => calls > 0

(* The line behind the holder: each node has one caller, a linked node is  *)
(* filled, and what is not yet linked has its callback ahead.              *)
Lined ==
  /\ \A t, u \in Queued : mine[t] = mine[u] => t = u
  /\ \A t \in Queued : mine[t] >= head /\ (mine[t] = head => Todo /\ cb[t] = None)
  /\ \A t \in Queued : cb[t] # "publish" => node[Place(mine[t])] = Content(t)
  /\ \A p \in linked :
       \/ \E t \in Queued : mine[t] > head /\ cb[t] = None /\ p = LinkPlace(mine[t])
       \/ backend = "mcs" /\ p < head
  /\ \A t \in Caller : cb[t] # None => t \in Queued
  /\ Todo => \E t \in Queued : mine[t] = head

(* Who holds the lock: one caller, or the consumer, or nobody.             *)
Role ==
  /\ \A t, u \in Actors : t = u
  /\ Actors # {} => conPc = "parked" /\ ~ isFree
  /\ isFree => conPc = "parked" \/ finished
  /\ conPc \notin {"loop", "parked", "done"} => ~ isFree
  /\ conPc \notin {"loop", "head", "exec", "parked", "done"} => isExecuted
  /\ \A t \in Caller : pc[t] \in {"follow", "stop"} => isExecuted

(* A drop is the last call.                                                *)
Ends ==
  /\ finished => \E t \in Caller : kind[t] = "drop"
       /\ pc[t] \in {"unlock", "follow", "stop", "gone"}
  /\ \A t \in Caller : kind[t] = "drop" => pc[t] # "out" /\ \A u \in Caller : u # t
       => pc[u] = "out"
  /\ \A t \in Caller : pc[t] \in {"stop", "gone"} => kind[t] = "drop"
  /\ \A t \in Caller : kind[t] = "drop" /\ pc[t] \in {"unlock", "follow", "stop", "gone"}
       => finished

(* A request that was begun is executed, or deferred, or its caller is     *)
(* going to be woken, one at a time.                                       *)
AnsweredOf(t) ==
  /\ pc[t] = "exec" => answer[t] = 0
  /\ pc[t] \in {"exec", "woken", "unlock_and_wait"} => kind[t] = "call"
  /\ pc[t] \in {"woken", "unlock_and_wait"} => answer[t] = 1
  /\ pc[t] = "unlock_and_wait" => t \in Postponed
  /\ pc[t] = "in" => kind[t] # "call"
  /\ pc[t] = "asleep" /\ kind[t] # "call" => answer[t] = 0
  /\ t \in Serving \cup Handed => pc[t] = "asleep" /\ t \notin Postponed
  /\ t \in Postponed => pc[t] \in {"asleep", "unlock_and_wait"}
  /\ t \in Serving \cup Handed \cup Postponed => answer[t] = 1 /\ kind[t] = "call"

(* The consumer executes somebody's request, and the calls of all callers  *)
(* are as described.                                                       *)
Answered ==
  /\ conPc = "exec" => Serving # {}
  /\ \A t \in Caller : AnsweredOf(t)

(* The inductive invariant of the delegator.                               *)
DelegatorIInv ==
  QueueState /\ ConsumerState /\ CallerState /\ Lined /\ Role /\ Ends /\ Answered

-----------------------------------------------------------------------------
(* The queues.                                                             *)

(* Two numbers less than the size of the ring apart that have the same     *)
(* slot are the same.                                                      *)
LEMMA PlacesDiffer ==
  ASSUME NEW i \in Nat, NEW j \in Nat, i <= j, j - i < RingSize, i % RingSize = j % RingSize
  PROVE  i = j
<1>1. RingSize \in Nat /\ RingSize > 0
  BY DelegatorAssumption
<1>2. DEFINE p == i \div RingSize
             q == j \div RingSize
<1>3. p \in Int /\ q \in Int /\ i = RingSize * p + (i % RingSize)
        /\ j = RingSize * q + (j % RingSize)
  BY <1>1
<1>4. j - i = RingSize * (q - p)
  BY <1>1, <1>3
<1> DEFINE k == q - p
<1>5. k \in Int /\ j - i = RingSize * k
  BY <1>3, <1>4
<1> HIDE DEF k
<1>6. k <= 0
  <2> SUFFICES ASSUME k >= 1 PROVE FALSE
    BY <1>5
  <2>1. RingSize * k >= RingSize
    BY <1>1, <1>5
  <2> QED BY <1>1, <1>5, <2>1
<1>7. RingSize * k <= 0
  BY <1>1, <1>5, <1>6
<1> QED BY <1>5, <1>7

(* The nodes in use are in different places: the ring has room for them.   *)
LEMMA Apart ==
  ASSUME QueueState, NEW i \in Nat,
           NEW j \in Nat, head <= i, i <= last, head <= j, j <= last,
         Place(i) = Place(j)
  PROVE  i = j
<1>1. backend = "mcs" \/ (backend = "ring" /\ last - head < RingSize /\ last \in Nat
        /\ head \in Nat)
  BY DEF QueueState
<1>2. CASE backend = "mcs"
  BY <1>2 DEF Place
<1>3. CASE backend = "ring" /\ last - head < RingSize /\ last \in Nat /\ head \in Nat
  <2>1. i % RingSize = j % RingSize
    BY <1>3 DEF Place
  <2>2. RingSize \in Nat
    BY DelegatorAssumption
  <2>3. j - i < RingSize /\ i - j < RingSize
    BY <1>3, <2>2
  <2>4. i <= j \/ j <= i
    OBVIOUS
  <2> QED BY <2>1, <2>3, <2>4, PlacesDiffer
<1> QED BY <1>1, <1>2, <1>3

(* A node is in a place.                                                   *)
LEMMA PlaceTyped ==
  ASSUME backend \in {"mcs", "ring"}, NEW n \in Nat, n <= MaxCalls
  PROVE  Place(n) \in Places
<1>1. RingSize \in Nat /\ RingSize > 0 /\ MaxCalls \in Nat
  BY DelegatorAssumption
<1>2. n % RingSize \in 0..(RingSize - 1)
  BY <1>1
<1>3. n \in Places /\ n % RingSize \in Places
  BY <1>1, <1>2 DEF Places
<1> QED BY <1>3 DEF Place

(* A link is in a place.                                                   *)
LEMMA LinkTyped ==
  ASSUME backend \in {"mcs", "ring"}, NEW n \in Nat, 0 < n, n <= MaxCalls
  PROVE  LinkPlace(n) \in Places
<1>1. RingSize \in Nat /\ RingSize > 0 /\ MaxCalls \in Nat
  BY DelegatorAssumption
<1>2. n - 1 \in Places
  BY <1>1 DEF Places
<1> QED BY <1>2, PlaceTyped DEF LinkPlace

(* Who finds the next node linked finds it claimed and filled, its caller  *)
(* asleep.                                                                 *)
LEMMA NextIsThere ==
  ASSUME QueueState, CallerState, Lined, CanFollow
  PROVE  \E t \in Queued : /\ mine[t] = head + 1 /\ cb[t] = None /\ head + 1 <= last
                           /\ Successor = Content(t)
<1>1. /\ last \in Nat /\ head \in Nat /\ head <= last /\ backend \in {"mcs", "ring"}
      /\ backend = "ring" => last - head < RingSize
  BY DEF QueueState
<1>2. backend = "mcs" => ~ (LinkPlace(head + 1) < head)
  BY <1>1 DEF LinkPlace
<1>3. PICK t \in Queued : mine[t] > head /\ cb[t] = None
        /\ LinkPlace(head + 1) = LinkPlace(mine[t])
  BY <1>1, <1>2 DEF Lined, CanFollow
<1>4. mine[t] \in Nat /\ mine[t] <= last
  BY DEF CallerState, Queued
<1>5. head + 1 <= last
  BY <1>1, <1>3, <1>4
<1>6. mine[t] = head + 1
  <2>1. CASE backend = "mcs"
    BY <2>1, <1>1, <1>3, <1>4 DEF LinkPlace
  <2>2. CASE backend = "ring"
    <3>1. Place(head + 1) = Place(mine[t])
      BY <2>2, <1>3 DEF LinkPlace
    <3> QED BY <3>1, <1>1, <1>3, <1>4, <1>5, Apart
  <2> QED BY <1>1, <2>1, <2>2
<1>7. cb[t] # "publish"
  BY <1>3, DelegatorAssumption
<1>8. node[Place(mine[t])] = Content(t)
  BY <1>7 DEF Lined
<1> QED BY <1>3, <1>5, <1>6, <1>8 DEF Successor

(* try_follow_head moves the holder's position within the line, and frees  *)
(* or resets the old node.                                                 *)
LEMMA FollowKeepsQueue ==
  ASSUME QueueState, ~ isFree, head + 1 <= last, FollowHead, UNCHANGED calls
  PROVE  QueueState'
<1>1. /\ last \in Nat /\ head \in Nat /\ head <= last /\ backend \in {"mcs", "ring"}
      /\ last = calls /\ last <= MaxCalls /\ linked \subseteq Places
           /\ heap \subseteq 0..last
      /\ node \in [Places -> NodeRec] /\ (backend = "ring" => last - head < RingSize)
      /\ (backend = "mcs" => head..last \subseteq heap)
  BY DEF QueueState
<1>2. head' = head + 1 /\ UNCHANGED <<backend, last, isFree>>
  BY DEF FollowHead
<1>3. linked' \subseteq Places /\ heap' \subseteq 0..last
  BY <1>1 DEF FollowHead
<1>4. node' \in [Places -> NodeRec]
  <2>1. NoNode \in NodeRec
    BY DEF NoNode, NodeRec
  <2> QED BY <1>1, <2>1 DEF FollowHead
<1>5. backend = "mcs" => (head + 1)..last \subseteq heap'
  <2> SUFFICES ASSUME backend = "mcs", NEW n \in (head + 1)..last PROVE n \in heap'
    OBVIOUS
  <2>1. n \in head..last /\ n # head
    BY <1>1
  <2> QED BY <1>1, <2>1 DEF FollowHead
<1>6. backend = "ring" => last - (head + 1) < RingSize
  <2>1. RingSize \in Nat
    BY DelegatorAssumption
  <2> QED BY <1>1, <2>1
<1>7. head' \in Nat /\ head' <= last
  BY <1>1, <1>2
<1> QED BY <1>1, <1>2, <1>3, <1>4, <1>5, <1>6, <1>7 DEF QueueState

(* A step that moves nobody in the line keeps it.                          *)
LEMMA LinedSame ==
  ASSUME Lined, Queued' = Queued, Todo' = Todo,
         UNCHANGED <<backend, head, linked, node, mine, cb, kind>>
  PROVE  Lined'
<1>1. \A t : Content(t)' = Content(t)
  BY DEF Content
<1>2. \A n : Place(n)' = Place(n) /\ LinkPlace(n)' = LinkPlace(n)
  BY DEF Place, LinkPlace
<1> QED BY <1>1, <1>2 DEF Lined

(* The caller of the holder's node leaves the line when the consumer looks *)
(* at it.                                                                  *)
LEMMA FirstLeaves ==
  ASSUME Lined, Todo, ~ Todo', NEW s \in Queued, mine[s] = head, Queued' = Queued \ {s},
         UNCHANGED <<backend, head, linked, node, mine, cb, kind>>, head \in Nat
  PROVE  Lined'
<1>1. \A t : Content(t)' = Content(t)
  BY DEF Content
<1>2. \A n : Place(n)' = Place(n) /\ LinkPlace(n)' = LinkPlace(n)
  BY DEF Place, LinkPlace
<1>3. \A t, u \in Queued : mine[t] = mine[u] => t = u
  BY DEF Lined
<1>4. \A t \in Queued : mine[t] >= head /\ (mine[t] = head => Todo /\ cb[t] = None)
  BY DEF Lined
<1>5. \A t \in Queued' : mine'[t] >= head' /\ mine'[t] # head'
  BY <1>3, <1>4
<1>6. \A t \in Queued' : cb'[t] # "publish" => node'[Place(mine[t])] = Content(t)'
  BY <1>1, <1>2 DEF Lined
<1>7. \A p \in linked' :
        \/ \E t \in Queued' : mine'[t] > head' /\ cb'[t] = None /\ p = LinkPlace(mine[t])
        \/ backend' = "mcs" /\ p < head'
  BY DEF Lined
<1>8. \A t \in Caller : cb'[t] # None => t \in Queued'
  BY <1>4 DEF Lined
<1> QED BY <1>2, <1>3, <1>5, <1>6, <1>7, <1>8 DEF Lined

(* try_follow_head: the next in line becomes the first, or leaves the line *)
(* with the lock.                                                          *)
LEMMA LineMoves ==
  ASSUME QueueState, CallerState, Lined, ~ Todo, FollowHead, head + 1 <= last,
         NEW s \in Queued, mine[s] = head + 1, cb[s] = None, UNCHANGED <<mine, cb, kind>>,
         (Todo' /\ Queued' = Queued) \/ (~ Todo' /\ Queued' = Queued \ {s})
  PROVE  Lined'
<1>1. /\ last \in Nat /\ head \in Nat /\ backend \in {"mcs", "ring"}
      /\ head' = head + 1 /\ UNCHANGED <<backend, last>>
      /\ \A t \in Queued : mine[t] \in Nat /\ mine[t] <= last
      /\ linked \subseteq Places
  BY DEF QueueState, FollowHead, CallerState, Queued
<1>2. \A t : Content(t)' = Content(t)
  BY DEF Content
<1>3. \A n : Place(n)' = Place(n) /\ LinkPlace(n)' = LinkPlace(n)
  BY <1>1 DEF Place, LinkPlace
<1>4. \A t, u \in Queued : mine[t] = mine[u] => t = u
  BY DEF Lined
<1>5. \A t \in Queued : mine[t] >= head + 1 /\ (mine[t] = head + 1 => t = s)
  BY <1>1, <1>4 DEF Lined
<1>6. Queued' \subseteq Queued /\ (Todo' => s \in Queued') /\ (~ Todo' => s \notin Queued')
  OBVIOUS
<1>7. \A t \in Queued' : mine'[t] >= head' /\ (mine'[t] = head' => Todo' /\ cb'[t] = None)
  BY <1>1, <1>5, <1>6
<1>8. \A t \in Queued' : cb'[t] # "publish" => node'[Place(mine[t])] = Content(t)'
  <2> SUFFICES ASSUME NEW t \in Queued, cb[t] # "publish"
               PROVE  node'[Place(mine[t])] = Content(t)
    BY <1>2, <1>6
  <2>1. node[Place(mine[t])] = Content(t)
    BY DEF Lined
  <2>2. mine[t] # head /\ head <= mine[t]
    BY <1>1, <1>5
  <2>3. Place(mine[t]) # Place(head)
    BY <2>2, <1>1, Apart
  <2>4. node' = node \/ node' = [node EXCEPT ![Place(head)] = NoNode]
    BY DEF FollowHead
  <2>5. node \in [Places -> NodeRec] /\ mine[t] <= MaxCalls
    BY <1>1, DelegatorAssumption DEF QueueState
  <2>6. Place(mine[t]) \in Places
    BY <2>5, <1>1, PlaceTyped
  <2> QED BY <2>1, <2>3, <2>4, <2>5, <2>6
<1>9. \A p \in linked' :
        \/ \E t \in Queued' : mine'[t] > head' /\ cb'[t] = None /\ p = LinkPlace(mine[t])
        \/ backend' = "mcs" /\ p < head'
  <2> SUFFICES ASSUME NEW p \in linked', ~ (backend = "mcs" /\ p < head + 1)
               PROVE  \E t \in Queued' : mine'[t] > head' /\ cb'[t] = None
                        /\ p = LinkPlace(mine[t])
    BY <1>1
  <2>1. p \in linked /\ (backend = "ring" => p # LinkPlace(head + 1))
    BY <1>1 DEF FollowHead
  <2>2. p \in Nat
    BY <2>1, <1>1, DelegatorAssumption DEF Places
  <2>3. PICK t \in Queued : mine[t] > head /\ cb[t] = None /\ p = LinkPlace(mine[t])
    BY <2>1, <2>2, <1>1 DEF Lined
  <2>4. mine[t] # head + 1
    <3>1. CASE backend = "mcs"
      BY <3>1, <2>2, <2>3, <1>1 DEF LinkPlace
    <3>2. CASE backend = "ring"
      BY <3>2, <2>1, <2>3
    <3> QED BY <1>1, <3>1, <3>2
  <2>5. t # s /\ t \in Queued'
    BY <2>4
  <2>6. mine[t] > head + 1
    BY <2>3, <2>4, <1>1
  <2> QED BY <2>3, <2>5, <2>6, <1>1
<1>10. \A t \in Caller : cb'[t] # None => t \in Queued'
  BY <1>6 DEF Lined
<1>11. Todo' => \E t \in Queued' : mine'[t] = head'
  BY <1>1, <1>6
<1> QED BY <1>3, <1>4, <1>6, <1>7, <1>8, <1>9, <1>10, <1>11 DEF Lined

(* A request is deferred.                                                  *)
LEMMA IsPostponed ==
  ASSUME NEW t \in Caller, t \notin Postponed, deferred \in Seq(Caller), NoTwice(deferred),
         deferred' = Append(deferred, t)
  PROVE  deferred' \in Seq(Caller) /\ NoTwice(deferred)' /\ Postponed' = Postponed \cup {t}
<1>1. /\ deferred' \in Seq(Caller) /\ Len(deferred') = Len(deferred) + 1
      /\ \A i \in 1 .. Len(deferred) : deferred'[i] = deferred[i]
      /\ deferred'[Len(deferred) + 1] = t
  BY AppendProperties
<1>2. Len(deferred) \in Nat /\ DOMAIN deferred = 1 .. Len(deferred)
      /\ DOMAIN deferred' = 1 .. (Len(deferred) + 1)
  BY <1>1, LenProperties
<1>3. \A i \in 1 .. Len(deferred) : deferred[i] \in Caller /\ deferred[i] # t
  BY <1>2, ElementOfSeq DEF Postponed
<1>4. Postponed' = Postponed \cup {t}
  BY <1>1, <1>2 DEF Postponed
<1>5. NoTwice(deferred)'
  BY <1>1, <1>2, <1>3 DEF NoTwice
<1> QED BY <1>1, <1>4, <1>5

(* The resource completes the request it deferred first.                   *)
LEMMA FirstCompletes ==
  ASSUME deferred \in Seq(Caller),
           NoTwice(deferred), deferred # <<>>, deferred' = Tail(deferred)
  PROVE  /\ deferred' \in Seq(Caller) /\ NoTwice(deferred)'
         /\ Head(deferred) \in Postponed /\ Postponed' = Postponed \ {Head(deferred)}
<1>1. /\ Len(deferred) \in Nat \ {0} /\ Head(deferred) = deferred[1]
      /\ DOMAIN deferred = 1 .. Len(deferred)
      /\ deferred' \in Seq(Caller) /\ Len(deferred') = Len(deferred) - 1
      /\ \A i \in 1 .. Len(deferred') : deferred'[i] = deferred[i + 1]
  BY HeadTailProperties, EmptySeq, LenProperties
<1>2. DOMAIN deferred' = 1 .. (Len(deferred) - 1)
  BY <1>1, LenProperties
<1>3. Head(deferred) \in Postponed
  BY <1>1, ElementOfSeq DEF Postponed
<1>4. NoTwice(deferred)'
  BY <1>1, <1>2 DEF NoTwice
<1>5. ASSUME NEW x \in Caller PROVE x \in Postponed' <=> x \in Postponed
               /\ x # Head(deferred)
  <2>1. ASSUME NEW i \in DOMAIN deferred', deferred'[i] = x PROVE x \in Postponed
                 /\ x # deferred[1]
    BY <2>1, <1>1, <1>2 DEF Postponed, NoTwice
  <2>2. ASSUME NEW i \in DOMAIN deferred, deferred[i] = x, x # deferred[1]
         PROVE  x \in Postponed'
    <3>1. i - 1 \in DOMAIN deferred' /\ deferred'[i - 1] = x
      BY <2>2, <1>1, <1>2
    <3> QED BY <3>1 DEF Postponed
  <2> QED BY <2>1, <2>2, <1>1 DEF Postponed
<1>6. Postponed' = Postponed \ {Head(deferred)}
  BY <1>5 DEF Postponed
<1> QED BY <1>1, <1>3, <1>4, <1>6

-----------------------------------------------------------------------------
(* The steps of the callers.                                               *)

(* The callback fills the node and puts the caller to sleep.               *)
LEMMA PublishKeeps ==
  ASSUME DelegatorIInv, NEW t \in Caller, Publish(t)
  PROVE  DelegatorIInv'
<1>0. QueueState /\ ConsumerState /\ CallerState /\ Lined /\ Role /\ Ends /\ Answered
  BY DEF DelegatorIInv
<1>1. /\ cb[t] = "publish" /\ cb' = [cb EXCEPT ![t] = "link"]
      /\ node' = [node EXCEPT ![Place(mine[t])] = Content(t)]
      /\ sth' = IF kind[t] = "call" THEN sth \cup {t} ELSE sth
      /\ UNCHANGED <<backend, last, isFree, head, linked, heap, isExecuted, conParked,
                     conPc, finished,
                     deferred, awake, pc, kind, mine, answer, calls>>
  BY DEF Publish, consumer, Content
<1>2. /\ last \in Nat /\ head \in Nat /\ head <= last /\ last <= MaxCalls
      /\ backend \in {"mcs", "ring"} /\ node \in [Places -> NodeRec]
      /\ cb \in [Caller -> {None, "publish", "link"}] /\ mine \in [Caller -> Nat]
           /\ mine[t] <= last
      /\ kind \in [Caller -> {"call", "lock", "drop"}]
      /\ MaxCalls \in Nat
  BY <1>0, DelegatorAssumption DEF QueueState, CallerState
<1>3. cb[t] # None /\ t \in Queued
  BY <1>0, <1>1, DelegatorAssumption DEF Lined
<1>4. mine[t] > head /\ mine[t] \in Nat
  BY <1>0, <1>2, <1>3 DEF Lined
<1>5. /\ Place(mine[t]) \in Places /\ Place(head) # Place(mine[t]) /\ Place(head) \in Places
      /\ \A u \in Queued : u # t => Place(mine[u]) # Place(mine[t])
           /\ Place(mine[u]) \in Places
  <2>1. \A u \in Queued : mine[u] \in Nat /\ mine[u] <= last /\ head <= mine[u]
          /\ mine[u] <= MaxCalls
    <3> SUFFICES ASSUME NEW u \in Queued
                 PROVE  mine[u] \in Nat /\ mine[u] <= last /\ head <= mine[u]
                          /\ mine[u] <= MaxCalls
      OBVIOUS
    <3>1. mine[u] \in Nat /\ mine[u] <= last
      BY <1>0 DEF CallerState, Queued
    <3>2. mine[u] >= head
      BY <1>0 DEF Lined
    <3> QED BY <1>2, <3>1, <3>2
  <2>2. \A u \in Queued : u # t => mine[u] # mine[t]
    BY <1>0, <1>3 DEF Lined
  <2>3. mine[t] <= MaxCalls /\ head <= MaxCalls /\ mine[t] # head
    BY <1>2, <1>4
  <2> QED BY <1>0, <1>2, <1>3, <1>4, <2>1, <2>2, <2>3, Apart, PlaceTyped
<1>6. /\ cb'[t] = "link" /\ \A u \in Caller : u # t => cb'[u] = cb[u]
      /\ cb' \in [Caller -> {None, "publish", "link"}]
  BY <1>1, <1>2
<1>7. /\ node'[Place(mine[t])] = Content(t) /\ node'[Place(head)] = node[Place(head)]
      /\ \A u \in Queued : u # t => node'[Place(mine[u])] = node[Place(mine[u])]
      /\ node' \in [Places -> NodeRec]
  <2>1. Content(t) \in NodeRec
    BY DEF Content, NodeRec
  <2> QED BY <1>1, <1>2, <1>5, <2>1
<1>8. /\ Queued' = Queued /\ Todo' = Todo /\ Actors' = Actors /\ Postponed' = Postponed
           /\ Handed' = Handed
      /\ (\A n : Place(n)' = Place(n) /\ LinkPlace(n)' = LinkPlace(n))
      /\ (\A u : Content(u)' = Content(u))
  BY <1>1 DEF Queued, Todo, Actors, Postponed, Handed, Place, LinkPlace, Content
<1>9. Serving' = Serving
  BY <1>1, <1>7, <1>8 DEF Serving
<1>10. QueueState'
  BY <1>0, <1>1, <1>7 DEF QueueState
<1>11. ConsumerState'
  BY <1>0, <1>1 DEF ConsumerState, NoTwice
<1>12. CallerState'
  <2>1. sth' \subseteq Caller
    BY <1>0, <1>1 DEF CallerState
  <2> QED BY <1>0, <1>1, <1>6, <2>1 DEF CallerState
<1>13. Lined'
  <2>1. \A u \in Queued : cb'[u] # "publish" => node'[Place(mine[u])] = Content(u)
    BY <1>0, <1>6, <1>7 DEF Lined, Queued
  <2>2. \A u \in Queued : cb[u] = None => cb'[u] = None
    BY <1>3, <1>6 DEF Queued
  <2>3. \A u \in Caller : cb'[u] # None => u \in Queued
    BY <1>0, <1>3, <1>6 DEF Lined
  <2>4. \A p \in linked :
       \/ \E u \in Queued : mine[u] > head /\ cb'[u] = None /\ p = LinkPlace(mine[u])
       \/ backend = "mcs" /\ p < head
    BY <1>0, <2>2 DEF Lined
  <2> QED BY <1>0, <1>1, <1>8, <2>1, <2>2, <2>3, <2>4 DEF Lined
<1>14. Role' /\ Ends'
  BY <1>0, <1>1, <1>8 DEF Role, Ends
<1>15. Answered'
  BY <1>0, <1>1, <1>8, <1>9 DEF Answered, AnsweredOf
<1> QED BY <1>10, <1>11, <1>12, <1>13, <1>14, <1>15 DEF DelegatorIInv

(* The callback links the node.                                            *)
LEMMA LinkKeeps ==
  ASSUME DelegatorIInv, NEW t \in Caller, Link(t)
  PROVE  DelegatorIInv'
<1>0. QueueState /\ ConsumerState /\ CallerState /\ Lined /\ Role /\ Ends /\ Answered
  BY DEF DelegatorIInv
<1>1. /\ cb[t] = "link" /\ cb' = [cb EXCEPT ![t] = None]
      /\ linked' = linked \cup {LinkPlace(mine[t])}
      /\ UNCHANGED <<backend, last, isFree, head, node, heap, isExecuted, conParked, conPc,
                     finished,
                     deferred, awake, pc, kind, mine, sth, answer, calls>>
  BY DEF Link, SetNext, consumer
<1>2. /\ last \in Nat /\ head \in Nat /\ head <= last /\ last <= MaxCalls
      /\ backend \in {"mcs", "ring"}
      /\ cb \in [Caller -> {None, "publish", "link"}] /\ mine \in [Caller -> Nat]
           /\ mine[t] <= last
      /\ MaxCalls \in Nat
  BY <1>0, DelegatorAssumption DEF QueueState, CallerState
<1>3. cb[t] # None /\ t \in Queued
  BY <1>0, <1>1, DelegatorAssumption DEF Lined
<1>4. mine[t] > head /\ mine[t] \in Nat
  BY <1>0, <1>2, <1>3 DEF Lined
<1>5. LinkPlace(mine[t]) \in Places
  BY <1>2, <1>4, LinkTyped
<1>6. /\ cb'[t] = None /\ \A u \in Caller : u # t => cb'[u] = cb[u]
      /\ cb' \in [Caller -> {None, "publish", "link"}]
  BY <1>1, <1>2
<1>7. /\ Queued' = Queued /\ Todo' = Todo /\ Actors' = Actors /\ Postponed' = Postponed
      /\ Handed' = Handed /\ Serving' = Serving
      /\ (\A n : Place(n)' = Place(n) /\ LinkPlace(n)' = LinkPlace(n))
      /\ (\A u : Content(u)' = Content(u))
  BY <1>1 DEF Queued, Todo, Actors, Postponed, Handed, Serving, Place, LinkPlace, Content
<1>8. QueueState'
  BY <1>0, <1>1, <1>5 DEF QueueState
<1>9. ConsumerState'
  BY <1>0, <1>1 DEF ConsumerState, NoTwice
<1>10. CallerState'
  BY <1>0, <1>1, <1>6 DEF CallerState
<1>11. Lined'
  <2>1. \A u \in Queued : cb'[u] # "publish" => node[Place(mine[u])] = Content(u)
    BY <1>0, <1>1, <1>6 DEF Lined, Queued
  <2>2. \A u \in Queued : cb[u] = None => cb'[u] = None
    BY <1>6 DEF Queued
  <2>3. \A u \in Caller : cb'[u] # None => u \in Queued
    BY <1>0, <1>3, <1>6 DEF Lined
  <2>4. \A p \in linked' :
       \/ \E u \in Queued : mine[u] > head /\ cb'[u] = None /\ p = LinkPlace(mine[u])
       \/ backend = "mcs" /\ p < head
    BY <1>0, <1>1, <1>3, <1>4, <1>6, <2>2 DEF Lined
  <2>5. \A u \in Queued : mine[u] = head => cb'[u] = None
    BY <1>0, <2>2 DEF Lined
  <2> QED BY <1>0, <1>1, <1>7, <2>1, <2>3, <2>4, <2>5 DEF Lined
<1>12. Role' /\ Ends'
  BY <1>0, <1>1, <1>7 DEF Role, Ends
<1>13. Answered'
  BY <1>0, <1>1, <1>7 DEF Answered, AnsweredOf
<1> QED BY <1>8, <1>9, <1>10, <1>11, <1>12, <1>13 DEF DelegatorIInv

(* A caller that was woken returns.                                        *)
LEMMA ReturnKeeps ==
  ASSUME DelegatorIInv, NEW t \in Caller, Return(t)
  PROVE  DelegatorIInv'
<1>0. QueueState /\ ConsumerState /\ CallerState /\ Lined /\ Role /\ Ends /\ Answered
  BY DEF DelegatorIInv
<1>1. /\ pc[t] = "woken" /\ pc' = [pc EXCEPT ![t] = "out"]
      /\ UNCHANGED <<backend, last, isFree, head, linked, node, heap, isExecuted,
                     conParked, conPc,
                     finished, deferred, awake, kind, mine, cb, sth, answer, calls>>
  BY DEF Return, Become, queue, consumer
<1>2. /\ pc \in [Caller -> CallPlace] /\ kind[t] = "call"
  BY <1>0, <1>1 DEF CallerState, Answered, AnsweredOf
<1>3. /\ pc'[t] = "out" /\ \A u \in Caller : u # t => pc'[u] = pc[u]
      /\ pc' \in [Caller -> CallPlace]
  BY <1>1, <1>2
<1>4. Queued' = Queued /\ Actors' = Actors
  BY <1>1, <1>3 DEF Queued, Actors, Acting
<1>5. /\ Todo' = Todo /\ Postponed' = Postponed /\ Handed' = Handed /\ Serving' = Serving
  BY <1>1 DEF Todo, Postponed, Handed, Serving, Place
<1>6. QueueState'
  BY <1>0, <1>1 DEF QueueState
<1>7. ConsumerState'
  BY <1>0, <1>1 DEF ConsumerState, NoTwice
<1>8. CallerState'
  BY <1>0, <1>1, <1>3 DEF CallerState
<1>9. Lined'
  BY <1>0, <1>1, <1>4, <1>5, LinedSame
<1>10. Role'
  BY <1>0, <1>1, <1>3, <1>4 DEF Role
<1>11. Ends'
  BY <1>0, <1>1, <1>2, <1>3 DEF Ends
<1>12. Answered'
  <2>1. AnsweredOf(t)'
    BY <1>0, <1>1, <1>3, <1>5 DEF Answered, AnsweredOf
  <2>2. \A u \in Caller : u # t => AnsweredOf(u)'
    BY <1>0, <1>1, <1>3, <1>5 DEF Answered, AnsweredOf
  <2> QED BY <1>0, <1>1, <1>5, <2>1, <2>2 DEF Answered
<1> QED BY <1>6, <1>7, <1>8, <1>9, <1>10, <1>11, <1>12 DEF DelegatorIInv

(* What is known of a call that is left alone.                             *)
LEMMA SameAnswered ==
  ASSUME NEW u \in Caller,
           AnsweredOf(u), pc'[u] = pc[u], kind'[u] = kind[u], answer'[u] = answer[u],
         u \in Serving' <=> u \in Serving, u \in Handed' <=> u \in Handed,
         u \in Postponed' <=> u \in Postponed
  PROVE  AnsweredOf(u)'
BY DEF AnsweredOf

(* execute: the holder executes its own request.                           *)
LEMMA ExecuteOwnKeeps ==
  ASSUME DelegatorIInv, NEW t \in Caller, ExecuteOwn(t)
  PROVE  DelegatorIInv'
<1>0. QueueState /\ ConsumerState /\ CallerState /\ Lined /\ Role /\ Ends /\ Answered
  BY DEF DelegatorIInv
<1>1. /\ pc[t] = "exec" /\ answer' = [answer EXCEPT ![t] = @ + 1]
      /\ UNCHANGED <<backend, last, isFree, head, linked, node, heap, isExecuted,
                     conParked, conPc,
                     finished, awake, kind, mine, cb, sth, calls>>
  BY DEF ExecuteOwn, queue
<1>2. PICK to \in {"unlock", "unlock_and_wait"} :
        /\ pc' = [pc EXCEPT ![t] = to]
        /\ deferred' = IF to = "unlock" THEN deferred ELSE Append(deferred, t)
  BY DEF ExecuteOwn, Become
<1>3. /\ pc \in [Caller -> CallPlace] /\ answer \in [Caller -> {0, 1}]
      /\ kind[t] = "call" /\ answer[t] = 0 /\ t \in Actors
      /\ t \notin Serving /\ t \notin Handed /\ t \notin Postponed
  BY <1>0, <1>1 DEF CallerState, Answered, AnsweredOf, Actors, Acting
<1>4. /\ pc'[t] = to /\ answer'[t] = 1
      /\ \A u \in Caller : u # t => pc'[u] = pc[u] /\ answer'[u] = answer[u]
      /\ pc' \in [Caller -> CallPlace] /\ answer' \in [Caller -> {0, 1}]
  <2>1. /\ pc'[t] = to /\ \A u \in Caller : u # t => pc'[u] = pc[u]
        /\ pc' \in [Caller -> CallPlace]
    BY <1>2, <1>3
  <2>2. \A u \in Caller : u # t => answer'[u] = answer[u]
    BY <1>1, <1>3
  <2>3. answer'[t] = 1
    <3>1. answer[t] = 0 /\ answer'[t] = answer[t] + 1
      BY <1>1, <1>3
    <3> QED BY <3>1
  <2>4. answer' \in [Caller -> {0, 1}]
    BY <2>2, <2>3, <1>1, <1>3
  <2> QED BY <2>1, <2>2, <2>3, <2>4
<1>5. Queued' = Queued /\ Actors' = Actors
  <2>1. t \notin Queued /\ t \notin Queued' /\ t \in Actors'
    BY <1>1, <1>3, <1>4 DEF Queued, Actors, Acting
  <2>2. \A u \in Caller : u # t => (u \in Queued' <=> u \in Queued) /\ (u \in Actors'
          <=> u \in Actors)
    BY <1>4 DEF Queued, Actors
  <2>3. Queued' \subseteq Caller /\ Actors' \subseteq Caller /\ Queued \subseteq Caller
          /\ Actors \subseteq Caller
    BY DEF Queued, Actors
  <2>4. \A u : (u \in Queued' <=> u \in Queued) /\ (u \in Actors' <=> u \in Actors)
    BY <1>3, <2>1, <2>2, <2>3
  <2> QED BY <2>4
<1>6. /\ Todo' = Todo /\ Handed' = Handed /\ Serving' = Serving
  BY <1>1 DEF Todo, Handed, Serving, Place
<1>7. /\ deferred' \in Seq(Caller) /\ NoTwice(deferred)'
      /\ Postponed' = IF to = "unlock" THEN Postponed ELSE Postponed \cup {t}
  <2>1. CASE to = "unlock"
    <3>1. deferred' = deferred
      BY <2>1, <1>2
    <3> QED BY <3>1, <2>1, <1>0 DEF ConsumerState, NoTwice, Postponed
  <2>2. CASE to # "unlock"
    <3>1. deferred' = Append(deferred, t)
      BY <2>2, <1>2
    <3> QED BY <3>1, <2>2, <1>0, <1>3, IsPostponed DEF ConsumerState
  <2> QED BY <2>1, <2>2
<1>8. QueueState'
  BY <1>0, <1>1 DEF QueueState
<1>9. ConsumerState'
  BY <1>0, <1>1, <1>7 DEF ConsumerState
<1>10. CallerState'
  BY <1>0, <1>1, <1>4 DEF CallerState
<1>11. Lined'
  BY <1>0, <1>1, <1>5, <1>6, LinedSame
<1>12. Role'
  BY <1>0, <1>1, <1>4, <1>5 DEF Role
<1>13. Ends'
  BY <1>0, <1>1, <1>3, <1>4 DEF Ends
<1>14. Answered'
  <2>1. AnsweredOf(t)'
    BY <1>1, <1>3, <1>4, <1>6, <1>7 DEF AnsweredOf
  <2>2. ASSUME NEW u \in Caller, u # t PROVE AnsweredOf(u)'
    <3>1. u \in Postponed' <=> u \in Postponed
      BY <1>7, <2>2
    <3> QED BY <3>1, <2>2, <1>0, <1>1, <1>4, <1>6, SameAnswered DEF Answered
  <2> QED BY <1>0, <1>1, <1>6, <2>1, <2>2 DEF Answered
<1> QED BY <1>8, <1>9, <1>10, <1>11, <1>12, <1>13, <1>14 DEF DelegatorIInv

(* The body of with_lock or drop is over.                                  *)
LEMMA LeaveLockKeeps ==
  ASSUME DelegatorIInv, NEW t \in Caller, LeaveLock(t)
  PROVE  DelegatorIInv'
<1>0. QueueState /\ ConsumerState /\ CallerState /\ Lined /\ Role /\ Ends /\ Answered
  BY DEF DelegatorIInv
<1>1. /\ pc[t] = "in" /\ pc' = [pc EXCEPT ![t] = "unlock"]
      /\ finished' = (finished \/ kind[t] = "drop")
      /\ UNCHANGED <<backend, last, isFree, head, linked, node, heap, isExecuted,
                     conParked, conPc,
                     deferred, awake, kind, mine, cb, sth, answer, calls>>
  BY DEF LeaveLock, Become, queue
<1>2. /\ pc \in [Caller -> CallPlace] /\ t \in Actors
      /\ t \notin Serving /\ t \notin Handed /\ t \notin Postponed
  BY <1>0, <1>1 DEF CallerState, Answered, AnsweredOf, Actors, Acting
<1>3. /\ pc'[t] = "unlock" /\ \A u \in Caller : u # t => pc'[u] = pc[u]
      /\ pc' \in [Caller -> CallPlace]
  BY <1>1, <1>2
<1>4. Queued' = Queued /\ Actors' = Actors
  BY <1>1, <1>2, <1>3 DEF Queued, Actors, Acting
<1>5. /\ Todo' = Todo /\ Postponed' = Postponed /\ Handed' = Handed /\ Serving' = Serving
  BY <1>1 DEF Todo, Postponed, Handed, Serving, Place
<1>6. finished' \in BOOLEAN /\ (finished => finished') /\ (finished' => finished
        \/ kind[t] = "drop")
  BY <1>0, <1>1 DEF ConsumerState
<1>7. QueueState'
  BY <1>0, <1>1 DEF QueueState
<1>8. ConsumerState'
  BY <1>0, <1>1, <1>6 DEF ConsumerState, NoTwice
<1>9. CallerState'
  BY <1>0, <1>1, <1>3 DEF CallerState
<1>10. Lined'
  BY <1>0, <1>1, <1>4, <1>5, LinedSame
<1>11. Role'
  BY <1>0, <1>1, <1>2, <1>3, <1>4, <1>6 DEF Role
<1>12. Ends'
  BY <1>0, <1>1, <1>3, <1>6 DEF Ends
<1>13. Answered'
  <2>1. AnsweredOf(t)'
    BY <1>0, <1>1, <1>2, <1>3, <1>5 DEF AnsweredOf, Answered
  <2>2. \A u \in Caller : u # t => AnsweredOf(u)'
    BY <1>0, <1>1, <1>3, <1>5, SameAnswered DEF Answered
  <2> QED BY <1>0, <1>1, <1>5, <2>1, <2>2 DEF Answered
<1> QED BY <1>7, <1>8, <1>9, <1>10, <1>11, <1>12, <1>13 DEF DelegatorIInv

(* unlock: the lock is free if the holder is the last in line.             *)
LEMMA UnlockKeeps ==
  ASSUME DelegatorIInv, NEW t \in Caller, Unlock(t)
  PROVE  DelegatorIInv'
<1>0. QueueState /\ ConsumerState /\ CallerState /\ Lined /\ Role /\ Ends /\ Answered
  BY DEF DelegatorIInv
<1>1. /\ pc[t] = "unlock" /\ isExecuted' = TRUE
      /\ UNCHANGED <<backend, last, head, linked, node, heap, conParked, conPc, finished,
                     deferred,
                     awake, kind, mine, cb, sth, answer, calls>>
  BY DEF Unlock
<1>2. PICK to \in {"out", "stop", "follow"} :
        /\ pc' = [pc EXCEPT ![t] = to] /\ isFree' \in BOOLEAN
        /\ to = "follow" => isFree' = isFree
        /\ to # "follow" => isFree' = TRUE /\ last = head /\ to = AfterUnlock(t)
  BY <1>0 DEF Unlock, Become, CanUnlock, AfterUnlock, QueueState
<1>3. /\ pc \in [Caller -> CallPlace] /\ t \in Actors
      /\ t \notin Serving /\ t \notin Handed /\ t \notin Postponed
  BY <1>0, <1>1 DEF CallerState, Answered, AnsweredOf, Actors, Acting
<1>4. conPc = "parked" /\ ~ isFree /\ \A u \in Actors : u = t
  BY <1>0, <1>3 DEF Role
<1>5. /\ pc'[t] = to /\ \A u \in Caller : u # t => pc'[u] = pc[u]
      /\ pc' \in [Caller -> CallPlace]
  BY <1>2, <1>3
<1>6. Queued' = Queued
  BY <1>1, <1>2, <1>5 DEF Queued
<1>7. \A u \in Actors' : u = t /\ to = "follow"
  BY <1>2, <1>4, <1>5 DEF Actors, Acting
<1>8. ~ Todo /\ ~ Todo' /\ Todo' = Todo
  BY <1>1, <1>4 DEF Todo
<1>9. Postponed' = Postponed /\ Handed' = Handed /\ Serving' = Serving
  BY <1>1 DEF Postponed, Handed, Serving, Place
<1>10. QueueState'
  <2>1. CASE to = "follow"
    BY <2>1, <1>0, <1>1, <1>2 DEF QueueState
  <2>2. CASE to # "follow"
    BY <2>2, <1>0, <1>1, <1>2 DEF QueueState
  <2> QED BY <2>1, <2>2
<1>11. ConsumerState'
  BY <1>0, <1>1 DEF ConsumerState, NoTwice
<1>12. CallerState'
  <2>1. \A u \in Caller : pc'[u] # "out" => pc[u] # "out"
    BY <1>1, <1>5
  <2> QED BY <1>0, <1>1, <1>5, <2>1 DEF CallerState
<1>13. Lined'
  BY <1>0, <1>1, <1>6, <1>8, LinedSame
<1>14. Role'
  <2>1. Actors' # {} => ~ isFree'
    BY <1>2, <1>4, <1>7
  <2> QED BY <1>1, <1>4, <1>7, <2>1 DEF Role
<1>15. Ends'
  <2>1. to = "stop" => kind[t] = "drop"
    BY <1>2 DEF AfterUnlock
  <2>2. to = "out" => kind[t] # "drop"
    BY <1>2 DEF AfterUnlock
  <2> QED BY <1>0, <1>1, <1>2, <1>5, <2>1, <2>2 DEF Ends
<1>16. Answered'
  <2>1. AnsweredOf(t)'
    BY <1>0, <1>1, <1>2, <1>3, <1>5, <1>9 DEF AnsweredOf, Answered
  <2>2. \A u \in Caller : u # t => AnsweredOf(u)'
    BY <1>0, <1>1, <1>5, <1>9, SameAnswered DEF Answered
  <2> QED BY <1>0, <1>1, <1>9, <2>1, <2>2 DEF Answered
<1> QED BY <1>10, <1>11, <1>12, <1>13, <1>14, <1>15, <1>16 DEF DelegatorIInv

(* A holder that is not the last in the line leaves the lock.              *)
Leaving(t, to) ==
  /\ pc[t] \in {"follow", "unlock_and_wait"}
  /\ to = IF pc[t] = "follow" THEN AfterUnlock(t) ELSE "asleep"
  /\ sth' \subseteq Caller
  /\ UNCHANGED <<finished, deferred, awake, kind, mine, cb, answer, calls>>

(* What is known of a holder that leaves.                                  *)
LEMMA Leaves ==
  ASSUME DelegatorIInv, NEW t \in Caller, NEW to, Leaving(t, to)
  PROVE  /\ t \in Actors /\ conPc = "parked" /\ ~ isFree /\ ~ Todo
              /\ (\A u \in Actors : u = t)
         /\ t \notin Serving /\ t \notin Handed /\ t \notin Queued
         /\ to \in {"out", "stop", "asleep"} /\ to \in CallPlace
         /\ to = "asleep" => answer[t] = 1 /\ kind[t] = "call" /\ t \in Postponed
         /\ to # "asleep" => t \notin Postponed /\ isExecuted = TRUE
         /\ to = "stop" => kind[t] = "drop" /\ finished
         /\ to = "out" => kind[t] # "drop"
<1>0. QueueState /\ ConsumerState /\ CallerState /\ Lined /\ Role /\ Ends /\ Answered
  BY DEF DelegatorIInv
<1>1. t \in Actors /\ t \notin Queued
  BY DEF Leaving, Actors, Acting, Queued
<1>2. conPc = "parked" /\ ~ isFree /\ ~ Todo /\ (\A u \in Actors : u = t)
  BY <1>0, <1>1 DEF Role, Todo
<1>3. /\ t \notin Serving /\ t \notin Handed
      /\ pc[t] = "unlock_and_wait" => answer[t] = 1 /\ kind[t] = "call" /\ t \in Postponed
      /\ pc[t] = "follow" => t \notin Postponed
  BY <1>0 DEF Answered, AnsweredOf, Leaving
<1>4. pc[t] = "follow" => isExecuted = TRUE
  BY <1>0 DEF Role, ConsumerState
<1>5. pc[t] = "follow" /\ kind[t] = "drop" => finished
  BY <1>0 DEF Ends
<1> QED BY <1>1, <1>2, <1>3, <1>4, <1>5 DEF Leaving, AfterUnlock

(* A holder that finds no linked successor leaves its role to the          *)
(* consumer.                                                               *)
LEMMA NoneFollows ==
  ASSUME DelegatorIInv, NEW t \in Caller, NEW to,
           Leaving(t, to), ~ CanFollow, UNCHANGED queue,
         WakeConsumer, Become(t, to), isExecuted' = TRUE
  PROVE  DelegatorIInv'
<1>0. QueueState /\ ConsumerState /\ CallerState /\ Lined /\ Role /\ Ends /\ Answered
  BY DEF DelegatorIInv
<1>1. /\ pc' = [pc EXCEPT ![t] = to] /\ conParked' = FALSE /\ conPc' = "loop"
           /\ sth' \subseteq Caller
      /\ UNCHANGED <<backend, last, isFree, head, linked, node, heap>>
      /\ UNCHANGED <<finished, deferred, awake, kind, mine, cb, answer, calls>>
  BY DEF Leaving, Become, WakeConsumer, queue
<1>2. /\ t \in Actors /\ conPc = "parked" /\ ~ isFree /\ ~ Todo /\ (\A u \in Actors : u = t)
      /\ t \notin Serving /\ t \notin Handed /\ t \notin Queued
      /\ to \in {"out", "stop", "asleep"} /\ to \in CallPlace
      /\ to = "asleep" => answer[t] = 1 /\ kind[t] = "call" /\ t \in Postponed
      /\ to # "asleep" => t \notin Postponed /\ isExecuted = TRUE
      /\ to = "stop" => kind[t] = "drop" /\ finished
      /\ to = "out" => kind[t] # "drop"
  BY Leaves
<1>3. /\ pc \in [Caller -> CallPlace] /\ answer \in [Caller -> {0, 1}]
      /\ kind \in [Caller -> {"call", "lock", "drop"}]
  BY <1>0 DEF CallerState
<1>4. /\ pc'[t] = to /\ \A u \in Caller : u # t => pc'[u] = pc[u]
      /\ pc' \in [Caller -> CallPlace]
  BY <1>1, <1>2, <1>3
<1>5. Queued' = Queued
  BY <1>1, <1>2, <1>4 DEF Queued
<1>6. Actors' = {}
  BY <1>2, <1>4 DEF Actors, Acting
<1>7. ~ Todo' /\ Todo' = Todo
  BY <1>1, <1>2 DEF Todo
<1>8. Postponed' = Postponed /\ Handed' = Handed /\ Serving' = Serving
  BY <1>1, <1>2 DEF Postponed, Handed, Serving, Place
<1>9. QueueState'
  BY <1>0, <1>1 DEF QueueState
<1>10. ConsumerState'
  BY <1>0, <1>1, <1>2 DEF ConsumerState, NoTwice
<1>11. CallerState'
  <2>1. \A u \in Caller : pc'[u] # "out" => pc[u] # "out"
    BY <1>2, <1>4 DEF Actors, Acting
  <2> QED BY <1>0, <1>1, <1>4, <2>1 DEF CallerState
<1>12. Lined'
  BY <1>0, <1>1, <1>5, <1>7, LinedSame
<1>13. Role'
  BY <1>1, <1>2, <1>6 DEF Role
<1>14. Ends'
  <2>1. pc[t] # "out" /\ (to = "asleep" => kind[t] = "call")
    BY <1>2 DEF Actors, Acting
  <2>2. \A u \in Caller : kind[u] = "drop" => u = t
    BY <1>0, <2>1 DEF Ends
  <2>3. \A u \in Caller : kind[u] = "drop" => pc'[u] # "out" /\ \A v \in Caller : v # u
          => pc'[v] = "out"
    BY <1>0, <1>2, <1>4, <2>2 DEF Ends
  <2>4. \A u \in Caller : pc'[u] \in {"stop", "gone"} => kind[u] = "drop"
    BY <1>0, <1>2, <1>4 DEF Ends
  <2>5. \A u \in Caller : kind[u] = "drop"
          /\ pc'[u] \in {"unlock", "follow", "stop", "gone"} => finished
    BY <1>0, <1>2, <1>4, <2>2 DEF Ends
  <2>6. finished => \E u \in Caller : kind[u] = "drop"
          /\ pc'[u] \in {"unlock", "follow", "stop", "gone"}
    BY <1>0, <1>2, <1>4, <2>2, Leaves DEF Ends
  <2> QED BY <1>1, <2>3, <2>4, <2>5, <2>6 DEF Ends
<1>15. Answered'
  <2>1. AnsweredOf(t)'
    BY <1>0, <1>1, <1>2, <1>4, <1>8 DEF AnsweredOf, Answered
  <2>2. \A u \in Caller : u # t => AnsweredOf(u)'
    BY <1>0, <1>1, <1>4, <1>8, SameAnswered DEF Answered
  <2> QED BY <1>1, <2>1, <2>2 DEF Answered
<1> QED BY <1>9, <1>10, <1>11, <1>12, <1>13, <1>14, <1>15 DEF DelegatorIInv

(* A holder whose successor is a request leaves it to the consumer.        *)
LEMMA RequestFollows ==
  ASSUME DelegatorIInv, NEW t \in Caller, NEW to,
           Leaving(t, to), CanFollow, Successor.sth = None,
         FollowHead, WakeConsumer, Become(t, to), isExecuted' = FALSE
  PROVE  DelegatorIInv'
<1>0. QueueState /\ ConsumerState /\ CallerState /\ Lined /\ Role /\ Ends /\ Answered
  BY DEF DelegatorIInv
<1>1. /\ pc' = [pc EXCEPT ![t] = to] /\ conParked' = FALSE /\ conPc' = "loop"
           /\ sth' \subseteq Caller
      /\ head' = head + 1 /\ UNCHANGED <<backend, last, isFree>>
      /\ UNCHANGED <<finished, deferred, awake, kind, mine, cb, answer, calls>>
  BY DEF Leaving, Become, WakeConsumer, FollowHead
<1>2. /\ t \in Actors /\ conPc = "parked" /\ ~ isFree /\ ~ Todo /\ (\A u \in Actors : u = t)
      /\ t \notin Serving /\ t \notin Handed /\ t \notin Queued
      /\ to \in {"out", "stop", "asleep"} /\ to \in CallPlace
      /\ to = "asleep" => answer[t] = 1 /\ kind[t] = "call" /\ t \in Postponed
      /\ to # "asleep" => t \notin Postponed /\ isExecuted = TRUE
      /\ to = "stop" => kind[t] = "drop" /\ finished
      /\ to = "out" => kind[t] # "drop"
  BY Leaves
<1>3. PICK s \in Queued : mine[s] = head + 1 /\ cb[s] = None /\ head + 1 <= last
  BY <1>0, NextIsThere
<1>4. /\ pc \in [Caller -> CallPlace] /\ answer \in [Caller -> {0, 1}]
      /\ kind \in [Caller -> {"call", "lock", "drop"}]
      /\ s \in Caller /\ s # t /\ pc[s] = "asleep" /\ pc[t] # "out"
  BY <1>0, <1>2, <1>3 DEF CallerState, Queued, Actors, Acting
<1>5. /\ pc'[t] = to /\ \A u \in Caller : u # t => pc'[u] = pc[u]
      /\ pc' \in [Caller -> CallPlace]
  BY <1>1, <1>2, <1>4
<1>6. Queued' = Queued
  BY <1>1, <1>2, <1>5 DEF Queued
<1>7. Actors' = {}
  BY <1>2, <1>5 DEF Actors, Acting
<1>8. Todo'
  BY <1>1 DEF Todo
<1>9. Postponed' = Postponed /\ Handed' = Handed /\ Serving' = Serving
  BY <1>1, <1>2 DEF Postponed, Handed, Serving
<1>10. \A u \in Caller : kind[u] # "drop"
  BY <1>0, <1>4 DEF Ends
<1>11. QueueState'
  BY <1>0, <1>1, <1>2, <1>3, FollowKeepsQueue
<1>12. ConsumerState'
  BY <1>0, <1>1, <1>2 DEF ConsumerState, NoTwice
<1>13. CallerState'
  <2>1. \A u \in Caller : pc'[u] # "out" => pc[u] # "out"
    BY <1>4, <1>5
  <2> QED BY <1>0, <1>1, <1>5, <2>1 DEF CallerState
<1>14. Lined'
  BY <1>0, <1>1, <1>2, <1>3, <1>6, <1>8, LineMoves
<1>15. Role'
  <2>1. \A u \in Caller : pc'[u] \notin {"follow", "stop"}
    <3> SUFFICES ASSUME NEW u \in Caller, pc'[u] \in {"follow", "stop"} PROVE FALSE
      OBVIOUS
    <3>1. pc'[u] # "stop"
      BY <1>0, <1>2, <1>5, <1>10 DEF Ends
    <3>2. u \in Actors'
      BY <3>1 DEF Actors, Acting
    <3> QED BY <3>2, <1>7
  <2> QED BY <1>1, <1>2, <1>7, <2>1 DEF Role
<1>16. Ends'
  <2>1. ~ finished
    BY <1>0, <1>10 DEF Ends
  <2>2. \A u \in Caller : pc'[u] \notin {"stop", "gone"}
    BY <1>0, <1>2, <1>5, <1>10 DEF Ends
  <2> QED BY <1>1, <1>10, <2>1, <2>2 DEF Ends
<1>17. Answered'
  <2>1. AnsweredOf(t)'
    BY <1>0, <1>1, <1>2, <1>5, <1>9 DEF AnsweredOf, Answered
  <2>2. \A u \in Caller : u # t => AnsweredOf(u)'
    BY <1>0, <1>1, <1>5, <1>9, SameAnswered DEF Answered
  <2> QED BY <1>1, <2>1, <2>2 DEF Answered
<1> QED BY <1>11, <1>12, <1>13, <1>14, <1>15, <1>16, <1>17 DEF DelegatorIInv

(* A holder whose successor wants the lock hands it over.                  *)
LEMMA LockFollows ==
  ASSUME DelegatorIInv, NEW t \in Caller, NEW to,
           Leaving(t, to), CanFollow, Successor.sth # None,
         FollowHead, Switch(t, to, Successor.sth), UNCHANGED <<conParked, conPc>>,
                                                               isExecuted' = FALSE
  PROVE  DelegatorIInv'
<1>0. QueueState /\ ConsumerState /\ CallerState /\ Lined /\ Role /\ Ends /\ Answered
  BY DEF DelegatorIInv
<1>1. /\ sth' \subseteq Caller /\ head' = head + 1 /\ UNCHANGED <<backend, last, isFree>>
      /\ UNCHANGED <<conParked, conPc, finished, deferred, awake, kind, mine, cb, answer,
                     calls>>
  BY DEF Leaving, FollowHead
<1>2. /\ t \in Actors /\ conPc = "parked" /\ ~ isFree /\ ~ Todo /\ (\A u \in Actors : u = t)
      /\ t \notin Serving /\ t \notin Handed /\ t \notin Queued
      /\ to \in {"out", "stop", "asleep"} /\ to \in CallPlace
      /\ to = "asleep" => answer[t] = 1 /\ kind[t] = "call" /\ t \in Postponed
      /\ to # "asleep" => t \notin Postponed /\ isExecuted = TRUE
      /\ to = "stop" => kind[t] = "drop" /\ finished
      /\ to = "out" => kind[t] # "drop"
  BY Leaves
<1>3. PICK s \in Queued : /\ mine[s] = head + 1 /\ cb[s] = None /\ head + 1 <= last
                          /\ Successor = Content(s)
  BY <1>0, NextIsThere
<1>4. Successor.sth = s /\ kind[s] # "call"
  BY <1>3 DEF Content
<1>5. /\ pc \in [Caller -> CallPlace] /\ answer \in [Caller -> {0, 1}]
      /\ kind \in [Caller -> {"call", "lock", "drop"}]
      /\ s \in Caller /\ s # t /\ pc[s] = "asleep" /\ answer[s] = 0 /\ pc[t] # "out"
  BY <1>0, <1>2, <1>3 DEF CallerState, Queued, Actors, Acting
<1>6. /\ pc'[t] = to /\ pc'[s] = "in" /\ \A u \in Caller : u # t /\ u # s => pc'[u] = pc[u]
      /\ pc' \in [Caller -> CallPlace]
  BY <1>2, <1>4, <1>5 DEF Switch
<1>7. Queued' = Queued \ {s}
  <2>1. t \notin Queued' /\ s \notin Queued'
    BY <1>1, <1>2, <1>6 DEF Queued
  <2>2. \A u \in Caller : u # t /\ u # s => (u \in Queued' <=> u \in Queued)
    BY <1>1, <1>6 DEF Queued
  <2>3. Queued \subseteq Caller /\ Queued' \subseteq Caller
    BY DEF Queued
  <2>4. \A u : u \in Queued' <=> u \in Queued \ {s}
    BY <1>2, <2>1, <2>2, <2>3
  <2> QED BY <2>4
<1>8. \A u \in Actors' : u = s
  BY <1>2, <1>6 DEF Actors, Acting
<1>9. ~ Todo'
  BY <1>1, <1>2 DEF Todo
<1>10. Postponed' = Postponed /\ Handed' = Handed /\ Serving' = Serving
  BY <1>1, <1>2 DEF Postponed, Handed, Serving
<1>11. \A u \in Caller : kind[u] # "drop"
  BY <1>0, <1>5 DEF Ends
<1>12. QueueState'
  BY <1>0, <1>1, <1>2, <1>3, FollowKeepsQueue
<1>13. ConsumerState'
  <2>1. isExecuted' \in BOOLEAN
    OBVIOUS
  <2>2. NoTwice(deferred)'
    BY <1>0, <1>1 DEF ConsumerState, NoTwice
  <2>3. (conParked <=> conPc \in {"release", "parked"})'
    BY <1>0, <1>1 DEF ConsumerState
  <2> QED BY <1>0, <1>1, <2>1, <2>2, <2>3 DEF ConsumerState
<1>14. CallerState'
  <2>1. \A u \in Caller : pc'[u] # "out" => pc[u] # "out"
    BY <1>5, <1>6
  <2> QED BY <1>0, <1>1, <1>6, <2>1 DEF CallerState
<1>15. Lined'
  BY <1>0, <1>1, <1>2, <1>3, <1>7, <1>9, LineMoves
<1>16. Role'
  <2>1. \A u \in Caller : pc'[u] \notin {"follow", "stop"}
    <3> SUFFICES ASSUME NEW u \in Caller, pc'[u] \in {"follow", "stop"} PROVE FALSE
      OBVIOUS
    <3>1. pc'[u] # "stop"
      BY <1>0, <1>2, <1>6, <1>11 DEF Ends
    <3>2. u \in Actors'
      BY <3>1 DEF Actors, Acting
    <3> QED BY <3>1, <3>2, <1>6, <1>8
  <2> QED BY <1>0, <1>1, <1>2, <1>8, <2>1 DEF Role
<1>17. Ends'
  <2>1. ~ finished
    BY <1>0, <1>11 DEF Ends
  <2>2. \A u \in Caller : pc'[u] \notin {"stop", "gone"}
    BY <1>0, <1>2, <1>6, <1>11 DEF Ends
  <2> QED BY <1>1, <1>11, <2>1, <2>2 DEF Ends
<1>18. Answered'
  <2>1. AnsweredOf(t)'
    BY <1>0, <1>1, <1>2, <1>6, <1>10 DEF AnsweredOf, Answered
  <2>2. AnsweredOf(s)'
    <3>1. s \notin Serving /\ s \notin Handed /\ s \notin Postponed
      BY <1>0, <1>4, <1>5 DEF Answered, AnsweredOf
    <3> QED BY <3>1, <1>1, <1>4, <1>6, <1>10 DEF AnsweredOf
  <2>3. \A u \in Caller : u # t /\ u # s => AnsweredOf(u)'
    BY <1>0, <1>1, <1>6, <1>10, SameAnswered DEF Answered
  <2> QED BY <1>1, <1>2, <2>1, <2>2, <2>3 DEF Answered
<1> QED BY <1>12, <1>13, <1>14, <1>15, <1>16, <1>17, <1>18 DEF DelegatorIInv

(* The rest of unlock.                                                     *)
LEMMA FollowKeeps ==
  ASSUME DelegatorIInv, NEW t \in Caller, Follow(t)
  PROVE  DelegatorIInv'
<1>1. Leaving(t, AfterUnlock(t))
  BY DEF DelegatorIInv, CallerState, Follow, Leaving
<1>2. CASE /\ CanFollow /\ Successor.sth # None /\ FollowHead /\ isExecuted' = FALSE
           /\ Switch(t, AfterUnlock(t), Successor.sth) /\ UNCHANGED <<conParked, conPc>>
  BY <1>1, <1>2, LockFollows
<1>3. CASE /\ CanFollow /\ Successor.sth = None /\ FollowHead /\ isExecuted' = FALSE
           /\ WakeConsumer /\ Become(t, AfterUnlock(t))
  BY <1>1, <1>3, RequestFollows
<1>4. CASE /\ ~ CanFollow /\ WakeConsumer /\ Become(t, AfterUnlock(t))
                /\ UNCHANGED <<queue, isExecuted>>
  <2>1. isExecuted' = TRUE
    BY <1>4 DEF Follow, DelegatorIInv, Role, ConsumerState
  <2>2. UNCHANGED queue
    BY <1>4
  <2> QED BY <1>1, <1>4, <2>1, <2>2, NoneFollows
<1> QED BY <1>2, <1>3, <1>4 DEF Follow

(* unlock_and_wait: the caller parks and the lock goes on.                 *)
LEMMA UnlockAndWaitKeeps ==
  ASSUME DelegatorIInv, NEW t \in Caller, UnlockAndWait(t)
  PROVE  DelegatorIInv'
<1>1. Leaving(t, "asleep")
  <2>1. sth' \subseteq Caller
    BY DEF DelegatorIInv, CallerState, UnlockAndWait
  <2> QED BY <2>1 DEF UnlockAndWait, Leaving
<1>2. CASE /\ CanFollow /\ Successor.sth # None /\ FollowHead /\ isExecuted' = FALSE
           /\ Switch(t, "asleep", Successor.sth) /\ UNCHANGED <<conParked, conPc>>
  BY <1>1, <1>2, LockFollows
<1>3. CASE /\ CanFollow /\ Successor.sth = None /\ FollowHead /\ isExecuted' = FALSE
           /\ WakeConsumer /\ Become(t, "asleep")
  BY <1>1, <1>3, RequestFollows
<1>4. CASE ~ CanFollow /\ WakeConsumer /\ Become(t, "asleep") /\ isExecuted' = TRUE
             /\ UNCHANGED queue
  BY <1>1, <1>4, NoneFollows
<1> QED BY <1>2, <1>3, <1>4 DEF UnlockAndWait

(* The rest of drop.                                                       *)
LEMMA StopKeeps ==
  ASSUME DelegatorIInv, NEW t \in Caller, Stop(t)
  PROVE  DelegatorIInv'
<1>0. QueueState /\ ConsumerState /\ CallerState /\ Lined /\ Role /\ Ends /\ Answered
  BY DEF DelegatorIInv
<1>1. /\ pc[t] = "stop"
      /\ UNCHANGED <<backend, last, isFree, head, linked, node, heap, isExecuted,
                     finished, deferred, awake, kind, mine, cb, sth, answer, calls>>
  BY DEF Stop, queue
<1>2. PICK to \in {"stop", "gone"} :
        /\ pc'[t] = to /\ (\A u \in Caller : u # t => pc'[u] = pc[u])
        /\ pc' \in [Caller -> CallPlace]
        /\ \/ to = "stop" /\ conPc = "parked" /\ conPc' = "loop" /\ conParked' = FALSE
           \/ to = "gone" /\ conPc' = conPc /\ conParked' = conParked
  <2>1. pc \in [Caller -> CallPlace]
    BY <1>0 DEF CallerState
  <2>2. CASE WakeConsumer /\ conPc = "parked" /\ UNCHANGED pc
    <3>1. pc'[t] = "stop" /\ (\A u \in Caller : u # t => pc'[u] = pc[u])
            /\ pc' \in [Caller -> CallPlace]
      BY <2>1, <2>2, <1>1
    <3>2. conPc = "parked" /\ conPc' = "loop" /\ conParked' = FALSE
      BY <2>2 DEF WakeConsumer
    <3> QED BY <3>1, <3>2
  <2>3. CASE Become(t, "gone") /\ UNCHANGED <<conParked, conPc>>
    <3>1. pc'[t] = "gone" /\ (\A u \in Caller : u # t => pc'[u] = pc[u])
            /\ pc' \in [Caller -> CallPlace]
      BY <2>1, <2>3 DEF Become
    <3>2. conPc' = conPc /\ conParked' = conParked
      BY <2>3
    <3> QED BY <3>1, <3>2
  <2> QED BY <2>2, <2>3 DEF Stop
<1>3. /\ pc \in [Caller -> CallPlace] /\ kind[t] = "drop" /\ finished /\ isExecuted
      /\ isExecuted = TRUE
      /\ \A u \in Caller : u # t => pc[u] = "out"
      /\ t \notin Serving /\ t \notin Handed /\ t \notin Postponed
  BY <1>0, <1>1 DEF CallerState, Answered, AnsweredOf, Ends, Role, ConsumerState
<1>4. /\ pc'[t] = to /\ \A u \in Caller : u # t => pc'[u] = pc[u]
      /\ pc' \in [Caller -> CallPlace]
  BY <1>2
<1>5. Queued' = Queued /\ Actors = {} /\ Actors' = {}
  BY <1>1, <1>2, <1>3, <1>4 DEF Queued, Actors, Acting
<1>6. Todo' = Todo
  BY <1>1, <1>2, <1>3 DEF Todo
<1>7. Postponed' = Postponed /\ Handed' = Handed /\ Serving' = Serving
  BY <1>1, <1>2 DEF Postponed, Handed, Serving, Place
<1>8. QueueState'
  BY <1>0, <1>1 DEF QueueState
<1>9. ConsumerState'
  <2>1. /\ conParked' \in BOOLEAN /\ conPc' \in ConPlace /\ (awake' # None
             <=> conPc' = "notify")
        /\ (conParked' <=> conPc' \in {"release", "parked"})
    <3>1. CASE to = "stop"
      BY <3>1, <1>0, <1>1, <1>2 DEF ConsumerState
    <3>2. CASE to = "gone"
      BY <3>2, <1>0, <1>1, <1>2 DEF ConsumerState
    <3> QED BY <3>1, <3>2
  <2>2. NoTwice(deferred)'
    BY <1>0, <1>1 DEF ConsumerState, NoTwice
  <2> QED BY <1>0, <1>1, <2>1, <2>2 DEF ConsumerState
<1>10. CallerState'
  <2>1. \A u \in Caller : pc'[u] # "out" => pc[u] # "out"
    BY <1>1, <1>4
  <2> QED BY <1>0, <1>1, <1>4, <2>1 DEF CallerState
<1>11. Lined'
  BY <1>0, <1>1, <1>5, <1>6, LinedSame
<1>12. Role'
  BY <1>0, <1>1, <1>2, <1>3, <1>5 DEF Role
<1>13. Ends'
  BY <1>0, <1>1, <1>2, <1>3, <1>4 DEF Ends
<1>14. Answered'
  <2>1. AnsweredOf(t)'
    BY <1>0, <1>1, <1>2, <1>3, <1>4, <1>7 DEF AnsweredOf, Answered
  <2>2. \A u \in Caller : u # t => AnsweredOf(u)'
    BY <1>0, <1>1, <1>4, <1>7, SameAnswered DEF Answered
  <2> QED BY <1>0, <1>2, <1>7, <2>1, <2>2 DEF Answered
<1> QED BY <1>8, <1>9, <1>10, <1>11, <1>12, <1>13, <1>14 DEF DelegatorIInv

(* start_lock: a node is claimed, at the end of the line or as the         *)
(* holder's.                                                               *)
LEMMA ClaimKeeps ==
  ASSUME DelegatorIInv, NEW t \in Caller, NEW k \in {"call", "lock", "drop"}, Claim(t, k)
  PROVE  DelegatorIInv'
<1>0. QueueState /\ ConsumerState /\ CallerState /\ Lined /\ Role /\ Ends /\ Answered
  BY DEF DelegatorIInv
<1>1. /\ pc[t] = "out" /\ MayCall(k) /\ calls' = calls + 1
      /\ conPc' = IF conPc = "unborn" THEN "loop" ELSE conPc
      /\ ~ Full /\ last' = last + 1 /\ isFree' = FALSE
      /\ head' = IF isFree THEN last + 1 ELSE head
      /\ heap' = IF backend = "mcs" THEN heap \cup {last + 1} ELSE heap
      /\ kind' = [kind EXCEPT ![t] = k] /\ mine' = [mine EXCEPT ![t] = last + 1]
      /\ answer' = [answer EXCEPT ![t] = 0]
      /\ UNCHANGED <<backend, linked, node, isExecuted, conParked, finished, deferred,
                     awake, sth>>
  BY DEF Claim, StartConsumer, StartLock
<1>2. PICK to \in {"exec", "in", "asleep"} :
        /\ pc' = [pc EXCEPT ![t] = to]
        /\ to = "asleep" => ~ isFree /\ cb' = [cb EXCEPT ![t] = "publish"]
        /\ to # "asleep" => isFree /\ cb' = cb /\ to = IF k = "call" THEN "exec" ELSE "in"
  BY DEF Claim, Become
<1>3. /\ pc \in [Caller -> CallPlace] /\ kind \in [Caller -> {"call", "lock", "drop"}]
      /\ mine \in [Caller -> Nat] /\ (\A u \in Caller : mine[u] <= last)
      /\ cb \in [Caller -> {None, "publish", "link"}] /\ answer \in [Caller -> {0, 1}]
  BY <1>0 DEF CallerState
<1>4. /\ last \in Nat /\ head \in Nat /\ head <= last /\ last = calls /\ calls < MaxCalls
           /\ MaxCalls \in Nat
      /\ isFree \in BOOLEAN /\ (isFree => last = head) /\ backend \in {"mcs", "ring"}
      /\ linked \subseteq Places
  BY <1>0, <1>1, DelegatorAssumption DEF QueueState, MayCall
<1>5. /\ t \notin Queued /\ t \notin Actors
      /\ t \notin Serving /\ t \notin Handed /\ t \notin Postponed
  BY <1>0, <1>1 DEF Answered, AnsweredOf, Queued, Actors, Acting
<1>6. /\ \A u \in Caller : kind[u] # "drop"
      /\ k = "drop" => \A u \in Caller : pc[u] = "out"
      /\ ~ finished
      /\ \A u \in Caller : pc[u] \notin {"stop", "gone"}
  BY <1>0, <1>1 DEF MayCall, Idle, Ends
<1>7. pc'[t] = to /\ pc' \in [Caller -> CallPlace]
  BY <1>2, <1>3
<1>8. kind'[t] = k /\ mine'[t] = last + 1 /\ answer'[t] = 0
  BY <1>1, <1>3
<1>9. /\ kind' \in [Caller -> {"call", "lock", "drop"}] /\ mine' \in [Caller -> Nat]
      /\ answer' \in [Caller -> {0, 1}]
  BY <1>1, <1>3, <1>4
<1>10. cb' \in [Caller -> {None, "publish", "link"}]
  BY <1>2, <1>3
<1>11. \A u \in Caller : u # t => /\ pc'[u] = pc[u] /\ kind'[u] = kind[u]
         /\ mine'[u] = mine[u]
                                  /\ answer'[u] = answer[u]
  BY <1>1, <1>2, <1>3
<1>12. /\ cb'[t] = IF to = "asleep" THEN "publish" ELSE cb[t]
       /\ \A u \in Caller : u # t => cb'[u] = cb[u]
  BY <1>2, <1>3
<1>13. Todo' = Todo /\ (isFree => conPc = "parked" /\ ~ Todo /\ ~ Todo')
  BY <1>0, <1>1, <1>6 DEF Todo, Role
<1>14. Postponed' = Postponed /\ Handed' = Handed
  BY <1>1 DEF Postponed, Handed
<1>15. Serving' = Serving
  <2>1. conPc = "exec" => head' = head
    BY <1>0, <1>1 DEF Role
  <2>2. conPc' = "exec" <=> conPc = "exec"
    BY <1>1
  <2> QED BY <1>1, <2>1, <2>2 DEF Serving, Place
<1>16. Actors' = IF to = "asleep" THEN Actors ELSE Actors \cup {t}
  <2>1. t \in Actors' <=> to # "asleep"
    BY <1>2, <1>7 DEF Actors, Acting
  <2>2. \A u \in Caller : u # t => (u \in Actors' <=> u \in Actors)
    BY <1>11 DEF Actors
  <2>3. Actors \subseteq Caller /\ Actors' \subseteq Caller
    BY DEF Actors
  <2>4. \A u : u \in Actors' <=> u \in (IF to = "asleep" THEN Actors ELSE Actors \cup {t})
    BY <1>5, <2>1, <2>2, <2>3
  <2> QED BY <2>4
<1>17. Queued' = IF to = "asleep" THEN Queued \cup {t} ELSE Queued
  <2>1. t \in Queued' <=> to = "asleep"
    BY <1>2, <1>7, <1>8 DEF Queued
  <2>2. \A u \in Caller : u # t => (u \in Queued' <=> u \in Queued)
    BY <1>11 DEF Queued
  <2>3. Queued \subseteq Caller /\ Queued' \subseteq Caller
    BY DEF Queued
  <2>4. \A u : u \in Queued' <=> u \in (IF to = "asleep" THEN Queued \cup {t} ELSE Queued)
    BY <1>5, <2>1, <2>2, <2>3
  <2> QED BY <2>4
<1>18. QueueState'
  <2>1. /\ last' \in Nat /\ head' \in Nat /\ head' <= last' /\ last' = calls'
             /\ last' <= MaxCalls
        /\ isFree' \in BOOLEAN /\ ~ isFree'
    <3>0. isFree' \in BOOLEAN /\ ~ isFree'
      BY <1>1
    <3>1. last' \in Nat /\ last' = calls' /\ last' <= MaxCalls
      BY <1>1, <1>4
    <3>2. head' = last + 1 \/ head' = head
      BY <1>1
    <3>3. head' \in Nat /\ head' <= last'
      BY <3>2, <1>1, <1>4
    <3> QED BY <3>0, <3>1, <3>3
  <2>2. heap' \subseteq 0..last'
    <3>1. heap \subseteq 0..last
      BY <1>0 DEF QueueState
    <3> QED BY <3>1, <1>1, <1>4
  <2>3. backend = "ring" => last' - head' < RingSize
    <3>1. RingSize \in Nat /\ RingSize > 0
      BY DelegatorAssumption
    <3>2. CASE isFree
      <4>1. head' = last + 1 /\ last' = last + 1
        BY <3>2, <1>1
      <4> QED BY <3>1, <4>1, <1>4
    <3>3. CASE ~ isFree
      BY <3>1, <3>3, <1>1, <1>4 DEF Full
    <3> QED BY <3>2, <3>3
  <2>4. backend = "mcs" => head'..last' \subseteq heap'
    <3>1. CASE isFree
      BY <3>1, <1>1, <1>4
    <3>2. CASE ~ isFree
      <4>1. backend = "mcs" => head..last \subseteq heap
        BY <3>2, <1>0 DEF QueueState
      <4> QED BY <4>1, <3>2, <1>1, <1>4
    <3> QED BY <3>1, <3>2
  <2>5. backend' \in {"mcs", "ring"} /\ linked' \subseteq Places
          /\ node' \in [Places -> NodeRec]
    BY <1>0, <1>1 DEF QueueState
  <2> QED BY <1>1, <2>1, <2>2, <2>3, <2>4, <2>5 DEF QueueState
<1>19. ConsumerState'
  <2>1. NoTwice(deferred)'
    BY <1>0, <1>1 DEF ConsumerState, NoTwice
  <2> QED BY <1>0, <1>1, <2>1 DEF ConsumerState
<1>20. CallerState'
  <2>1. \A u \in Caller : mine'[u] <= last'
    BY <1>1, <1>3, <1>4, <1>8, <1>11
  <2>2. calls' > 0 /\ sth' \subseteq Caller
    BY <1>0, <1>1, <1>4 DEF CallerState
  <2> QED BY <1>7, <1>9, <1>10, <2>1, <2>2 DEF CallerState
<1>21. Lined'
  <2>1. \A n : Place(n)' = Place(n) /\ LinkPlace(n)' = LinkPlace(n)
    BY <1>1 DEF Place, LinkPlace
  <2>2. \A u \in Caller : u # t => Content(u)' = Content(u)
    BY <1>11 DEF Content
  <2>3. CASE isFree
    <3>1. Queued = {}
      <4> SUFFICES ASSUME NEW u \in Queued PROVE FALSE
        OBVIOUS
      <4>1. mine[u] \in Nat /\ mine[u] <= last
        BY <1>3 DEF Queued
      <4>2. mine[u] >= head /\ (mine[u] = head => Todo)
        BY <1>0 DEF Lined
      <4> QED BY <2>3, <4>1, <4>2, <1>4, <1>13
    <3>2. Queued' = {} /\ cb' = cb
      BY <3>1, <2>3, <1>2, <1>17
    <3>3. \A p \in linked : backend = "mcs" /\ p < head
      BY <3>1, <1>0 DEF Lined
    <3>4. \A p \in linked : p \in Nat
      BY <1>4, DelegatorAssumption DEF Places
    <3>5. \A p \in linked' : backend' = "mcs" /\ p < head'
      BY <3>3, <3>4, <2>3, <1>1, <1>4
    <3>6. \A u \in Caller : cb'[u] = None
      BY <3>1, <3>2, <1>0 DEF Lined
    <3> QED BY <2>3, <3>2, <3>5, <3>6, <1>13 DEF Lined
  <2>4. CASE ~ isFree
    <3>1. /\ Queued' = Queued \cup {t} /\ head' = head /\ cb'[t] = "publish"
               /\ cb'[t] # None
          /\ Queued \subseteq Caller
      BY <2>4, <1>1, <1>2, <1>12, <1>17, DelegatorAssumption DEF Queued
    <3>2. \A u \in Queued : u # t /\ mine'[u] = mine[u] /\ cb'[u] = cb[u]
            /\ mine[u] <= last /\ mine[u] \in Nat
      BY <3>1, <1>3, <1>5, <1>11, <1>12
    <3>3. \A u, v \in Queued' : mine'[u] = mine'[v] => u = v
      <4>1. \A u, v \in Queued : mine'[u] = mine'[v] => u = v
        BY <3>2, <1>0 DEF Lined
      <4>2. \A u \in Queued : mine'[u] # mine'[t]
        BY <3>2, <1>4, <1>8
      <4> QED BY <3>1, <4>1, <4>2
    <3>4. \A u \in Queued' : mine'[u] >= head' /\ (mine'[u] = head' => Todo'
            /\ cb'[u] = None)
      <4>1. \A u \in Queued : mine'[u] >= head' /\ (mine'[u] = head' => Todo'
              /\ cb'[u] = None)
        BY <3>1, <3>2, <1>0, <1>13 DEF Lined
      <4>2. mine'[t] >= head' /\ mine'[t] # head'
        BY <3>1, <1>4, <1>8
      <4> QED BY <3>1, <4>1, <4>2
    <3>5. \A u \in Queued' : cb'[u] # "publish" => node'[Place(mine'[u])] = Content(u)'
      <4>1. \A u \in Queued : cb'[u] # "publish" => node'[Place(mine'[u])] = Content(u)'
        BY <3>1, <3>2, <2>2, <1>0, <1>1 DEF Lined
      <4> QED BY <3>1, <4>1
    <3>6. \A p \in linked' :
            \/ \E u \in Queued' : mine'[u] > head' /\ cb'[u] = None
                 /\ p = LinkPlace(mine'[u])
            \/ backend' = "mcs" /\ p < head'
      <4> SUFFICES ASSUME NEW p \in linked, ~ (backend = "mcs" /\ p < head)
                   PROVE  \E u \in Queued' : mine'[u] > head' /\ cb'[u] = None
                            /\ p = LinkPlace(mine'[u])
        BY <3>1, <1>1
      <4>1. PICK u \in Queued : mine[u] > head /\ cb[u] = None /\ p = LinkPlace(mine[u])
        BY <1>0 DEF Lined
      <4> QED BY <4>1, <3>1, <3>2
    <3>7. \A u \in Caller : cb'[u] # None => u \in Queued'
      <4>1. \A u \in Caller : u # t /\ cb'[u] # None => u \in Queued
        BY <1>0, <1>12 DEF Lined
      <4> QED BY <3>1, <4>1
    <3>8. Todo' => \E u \in Queued' : mine'[u] = head'
      BY <3>1, <3>2, <1>0, <1>13 DEF Lined
    <3> QED BY <2>1, <3>3, <3>4, <3>5, <3>6, <3>7, <3>8 DEF Lined
  <2> QED BY <1>4, <2>3, <2>4
<1>22. Role'
  <2>1. \A u, v \in Actors' : u = v
    <3>1. to # "asleep" => Actors = {}
      BY <1>0, <1>2 DEF Role
    <3> QED BY <3>1, <1>0, <1>16 DEF Role
  <2>2. Actors' # {} => conPc' = "parked"
    <3>1. CASE to = "asleep"
      BY <3>1, <1>0, <1>1, <1>16 DEF Role
    <3>2. CASE to # "asleep"
      BY <3>2, <1>1, <1>2, <1>13
    <3> QED BY <3>1, <3>2
  <2>3. conPc' \notin {"loop", "head", "exec", "parked", "done"} => isExecuted
    BY <1>0, <1>1 DEF Role
  <2>4. \A u \in Caller : pc'[u] \in {"follow", "stop"} => isExecuted
    BY <1>0, <1>2, <1>7, <1>11 DEF Role
  <2> QED BY <1>1, <2>1, <2>2, <2>3, <2>4 DEF Role
<1>23. Ends'
  <2>1. \A u \in Caller : pc'[u] \notin {"stop", "gone"}
    BY <1>2, <1>6, <1>7, <1>11
  <2>2. ~ finished'
    BY <1>1, <1>6
  <2>3. \A u \in Caller : kind'[u] = "drop" => u = t /\ k = "drop"
    BY <1>6, <1>8, <1>11
  <2>4. k = "drop" => \A u \in Caller : u # t => pc'[u] = "out"
    BY <1>6, <1>11
  <2>5. pc'[t] # "out" /\ pc'[t] \notin {"unlock", "follow", "stop", "gone"}
    BY <1>2, <1>7
  <2> QED BY <2>1, <2>2, <2>3, <2>4, <2>5 DEF Ends
<1>24. Answered'
  <2>1. AnsweredOf(t)'
    BY <1>2, <1>5, <1>7, <1>8, <1>14, <1>15 DEF AnsweredOf
  <2>2. ASSUME NEW u \in Caller, u # t PROVE AnsweredOf(u)'
    BY <2>2, <1>0, <1>11, <1>14, <1>15, SameAnswered DEF Answered
  <2>3. conPc' = "exec" => Serving' # {}
    BY <1>0, <1>1, <1>15 DEF Answered
  <2> QED BY <2>1, <2>2, <2>3 DEF Answered
<1> QED BY <1>18, <1>19, <1>20, <1>21, <1>22, <1>23, <1>24 DEF DelegatorIInv

-----------------------------------------------------------------------------
(* The steps of the consumer.                                              *)

(* Steps of the consumer that move nobody in the line.                     *)
LEMMA ConsumerGoesOn ==
  ASSUME DelegatorIInv, ~ Todo, ~ Todo', conPc \in {"loop", "progress", "park", "release"},
         NEW to \in {"loop", "progress", "park", "release", "parked", "done"}, conPc' = to,
         conParked' \in BOOLEAN, conParked' <=> to \in {"release", "parked"},
         isFree' \in BOOLEAN, isFree => isFree', isFree' => isFree \/ (last = head
           /\ to = "parked"),
         isExecuted \/ to = "done", to \in {"progress", "park", "release"} => ~ isFree,
         UNCHANGED <<backend, last, head, linked, node, heap, isExecuted, finished,
                     deferred, awake,
                     callers>>
  PROVE  DelegatorIInv'
<1>0. QueueState /\ ConsumerState /\ CallerState /\ Lined /\ Role /\ Ends /\ Answered
  BY DEF DelegatorIInv
<1>1. UNCHANGED <<backend, last, head, linked, node, heap, isExecuted, finished, deferred,
                  awake,
                  pc, kind, mine, cb, sth, answer, calls>>
  BY DEF callers
<1>2. Queued' = Queued /\ Actors' = Actors /\ Postponed' = Postponed /\ Handed' = Handed
  BY <1>1 DEF Queued, Actors, Postponed, Handed
<1>3. Serving' = {} /\ Serving = {} /\ Actors = {} /\ Todo' = Todo
  <2>1. Todo' = Todo
    BY DEF Todo
  <2> QED BY <2>1, <1>0 DEF Serving, Role
<1>4. QueueState'
  <2>1. isFree' => last = head
    BY <1>0 DEF QueueState
  <2> QED BY <2>1, <1>0, <1>1 DEF QueueState
<1>5. ConsumerState'
  <2>1. NoTwice(deferred)'
    BY <1>0, <1>1 DEF ConsumerState, NoTwice
  <2>2. conParked' \in BOOLEAN /\ (conParked' <=> conPc' \in {"release", "parked"})
    OBVIOUS
  <2>3. awake' # None <=> conPc' = "notify"
    BY <1>0, <1>1 DEF ConsumerState
  <2> QED BY <1>0, <1>1, <2>1, <2>2, <2>3 DEF ConsumerState
<1>6. CallerState'
  BY <1>0, <1>1 DEF CallerState
<1>7. Lined'
  BY <1>0, <1>1, <1>2, <1>3, LinedSame
<1>8. Role'
  <2>1. isFree' => conPc' = "parked" \/ finished'
    BY <1>0, <1>1 DEF Role
  <2>2. conPc' \notin {"loop", "parked", "done"} => ~ isFree'
    OBVIOUS
  <2>3. \A t \in Caller : pc'[t] \in {"follow", "stop"} => isExecuted'
    BY <1>0, <1>1 DEF Role
  <2> QED BY <1>1, <1>2, <1>3, <2>1, <2>2, <2>3 DEF Role
<1>9. Ends'
  BY <1>0, <1>1 DEF Ends
<1>10. Answered'
  <2>1. \A u \in Caller : AnsweredOf(u)'
    BY <1>0, <1>1, <1>2, <1>3, SameAnswered DEF Answered
  <2> QED BY <2>1 DEF Answered
<1> QED BY <1>4, <1>5, <1>6, <1>7, <1>8, <1>9, <1>10 DEF DelegatorIInv

(* The consumer sees finished: after a drop nobody is in line.             *)
LEMMA ConsumerExitKeeps ==
  ASSUME DelegatorIInv, ConsumerExit
  PROVE  DelegatorIInv'
<1>1. QueueState /\ Lined /\ Ends /\ ConsumerState
  BY DEF DelegatorIInv
<1>2. Queued = {}
  <2>1. PICK t \in Caller : kind[t] = "drop"
          /\ pc[t] \in {"unlock", "follow", "stop", "gone"}
    BY <1>1 DEF ConsumerExit, Ends
  <2>2. \A u \in Caller : u # t => pc[u] = "out"
    BY <1>1, <2>1 DEF Ends
  <2> QED BY <2>1, <2>2 DEF Queued
<1>3. ~ Todo
  BY <1>1, <1>2 DEF Lined
<1>4. /\ conPc = "loop" /\ conPc' = "done" /\ conParked' = FALSE
      /\ isFree' \in BOOLEAN /\ isFree' = isFree
      /\ UNCHANGED <<backend, last, isFree, head, linked, node, heap, isExecuted, finished,
                     deferred,
                     awake, callers>>
  BY <1>1 DEF ConsumerExit, Con, queue, ConsumerState, QueueState
<1>5. ~ Todo'
  BY <1>4 DEF Todo
<1>6. conParked' \in BOOLEAN /\ ~ conParked' /\ (isFree => isFree') /\ (isFree' => isFree)
  <2>1. conParked' \in BOOLEAN /\ ~ conParked'
    BY <1>4
  <2>2. isFree' = isFree
    BY <1>4
  <2> QED BY <2>1, <2>2
<1> HIDE DEF CallPlace, ConPlace
<1> QED BY <1>3, <1>4, <1>5, <1>6, ConsumerGoesOn

(* progress completes nothing.                                             *)
LEMMA ConsumerIdleKeeps ==
  ASSUME DelegatorIInv, ConsumerIdle
  PROVE  DelegatorIInv'
<1>1. QueueState /\ Role /\ ConsumerState
  BY DEF DelegatorIInv
<1>2. PICK to \in {"loop", "park"} :
      /\ conPc = "progress" /\ conPc' = to /\ conParked' = FALSE
      /\ isFree' \in BOOLEAN /\ isFree' = isFree
      /\ UNCHANGED <<backend, last, isFree, head, linked, node, heap, isExecuted, finished,
                     deferred,
                     awake, callers>>
  BY <1>1 DEF ConsumerIdle, Con, queue, ConsumerState, QueueState
<1>3. isExecuted /\ ~ isFree /\ isExecuted'
  BY <1>1, <1>2 DEF Role
<1>4. ~ Todo /\ ~ Todo'
  BY <1>2, <1>3 DEF Todo
<1>5. conParked' \in BOOLEAN /\ ~ conParked' /\ (isFree => isFree') /\ (isFree' => isFree)
  <2>1. conParked' \in BOOLEAN /\ ~ conParked'
    BY <1>2
  <2>2. isFree' = isFree
    BY <1>2
  <2> QED BY <2>1, <2>2
<1>6. conParked' <=> to \in {"release", "parked"}
  BY <1>5
<1> QED BY <1>2, <1>3, <1>4, <1>5, <1>6, ConsumerGoesOn

(* The consumer publishes its token.                                       *)
LEMMA ConsumerParkKeeps ==
  ASSUME DelegatorIInv, ConsumerPark
  PROVE  DelegatorIInv'
<1>1. QueueState /\ Role /\ ConsumerState
  BY DEF DelegatorIInv
<1>2. /\ conPc = "park" /\ conPc' = "release" /\ conParked' = TRUE
      /\ isFree' \in BOOLEAN /\ isFree' = isFree
      /\ UNCHANGED <<backend, last, isFree, head, linked, node, heap, isExecuted, finished,
                     deferred,
                     awake, callers>>
  BY <1>1 DEF ConsumerPark, Con, queue, QueueState
<1>3. isExecuted /\ ~ isFree /\ isExecuted'
  BY <1>1, <1>2 DEF Role
<1>4. ~ Todo /\ ~ Todo'
  BY <1>2, <1>3 DEF Todo
<1> QED BY <1>2, <1>3, <1>4, ConsumerGoesOn

(* The consumer releases the lock, or goes on.                             *)
LEMMA ConsumerReleaseKeeps ==
  ASSUME DelegatorIInv, ConsumerRelease
  PROVE  DelegatorIInv'
<1>1. QueueState /\ Role /\ ConsumerState
  BY DEF DelegatorIInv
<1>2. PICK to \in {"loop", "parked"} :
      /\ conPc = "release" /\ conPc' = to
      /\ conParked' \in BOOLEAN /\ (conParked' <=> to = "parked")
      /\ isFree' \in BOOLEAN /\ (isFree => isFree')
      /\ isFree' => isFree \/ (last = head /\ to = "parked")
      /\ UNCHANGED <<backend, last, head, linked, node, heap, isExecuted, finished,
                     deferred,
                     awake, callers>>
  <2>1. CASE CanUnlock
    <3>1. conParked = TRUE
      BY <2>1, <1>1 DEF ConsumerRelease, Con, ConsumerState
    <3> QED BY <2>1, <3>1 DEF ConsumerRelease, Con, CanUnlock
  <2>2. CASE ~ CanUnlock
    BY <2>2, <1>1 DEF ConsumerRelease, Con, QueueState
  <2> QED BY <2>1, <2>2
<1>3. isExecuted /\ ~ isFree /\ isExecuted'
  BY <1>1, <1>2 DEF Role
<1>4. ~ Todo /\ ~ Todo'
  BY <1>2, <1>3 DEF Todo
<1> QED BY <1>2, <1>3, <1>4, ConsumerGoesOn

(* The consumer looks at the next node, or has nothing to execute.         *)
LEMMA ConsumerFollowKeeps ==
  ASSUME DelegatorIInv, ConsumerFollow
  PROVE  DelegatorIInv'
<1>0. QueueState /\ ConsumerState /\ CallerState /\ Lined /\ Role /\ Ends /\ Answered
  BY DEF DelegatorIInv
<1>1. /\ conPc = "loop" /\ ~ finished /\ ~ isFree
      /\ UNCHANGED <<isExecuted, conParked, finished, deferred, awake, callers>>
  BY <1>0 DEF ConsumerFollow, Con, Role
<1>2. CASE isExecuted /\ ~ CanFollow
  <2>1. conPc' = "progress" /\ conParked' = FALSE /\ isExecuted'
        /\ isFree' \in BOOLEAN
        /\ UNCHANGED <<backend, last, isFree, head, linked, node, heap>>
    BY <1>0, <1>1, <1>2 DEF ConsumerFollow, Con, queue, ConsumerState, QueueState
  <2>2. ~ Todo /\ ~ Todo'
    BY <1>1, <1>2, <2>1 DEF Todo
  <2> QED BY <1>1, <1>2, <2>1, <2>2, ConsumerGoesOn
<1>3. CASE ~ (isExecuted /\ ~ CanFollow)
  <2>1. conPc' = "head" /\ Todo'
    BY <1>3 DEF ConsumerFollow, Con, Todo
  <2>2. UNCHANGED <<isExecuted, conParked, finished, deferred, awake, pc, kind, mine, cb,
                    sth, answer, calls>>
    BY <1>1 DEF callers
  <2>3. Queued' = Queued /\ Actors' = Actors /\ Postponed' = Postponed /\ Handed' = Handed
    BY <2>2 DEF Queued, Actors, Postponed, Handed
  <2>4. Serving' = {} /\ Serving = {} /\ Actors = {}
    BY <1>0, <1>1, <2>1 DEF Serving, Role
  <2>5. QueueState' /\ Lined' /\ UNCHANGED <<isFree, last>>
    <3>1. CASE isExecuted /\ CanFollow
      <4>1. FollowHead
        BY <3>1 DEF ConsumerFollow
      <4>2. PICK s \in Queued : mine[s] = head + 1 /\ cb[s] = None /\ head + 1 <= last
        BY <1>0, <3>1, NextIsThere
      <4>3. ~ Todo
        BY <1>1, <3>1 DEF Todo
      <4> QED BY <4>1, <4>2, <4>3, <1>0, <1>1, <2>1, <2>2, <2>3,
                 FollowKeepsQueue, LineMoves
              DEF FollowHead
    <3>2. CASE ~ isExecuted
      <4>1. UNCHANGED <<backend, last, isFree, head, linked, node, heap>>
        BY <3>2 DEF ConsumerFollow, queue
      <4>2. Todo' = Todo
        BY <1>1, <3>2, <2>1 DEF Todo
      <4>3. QueueState'
        BY <4>1, <1>0, <2>2 DEF QueueState
      <4> QED BY <4>1, <4>2, <4>3, <1>0, <2>2, <2>3, LinedSame
    <3> QED BY <1>3, <3>1, <3>2
  <2>6. ConsumerState'
    <3>1. NoTwice(deferred)'
      BY <1>0, <2>2 DEF ConsumerState, NoTwice
    <3> QED BY <1>0, <1>1, <2>1, <2>2, <3>1 DEF ConsumerState
  <2>7. CallerState'
    BY <1>0, <2>2, <2>5 DEF CallerState
  <2>8. Role'
    BY <1>0, <1>1, <2>1, <2>2, <2>3, <2>4, <2>5 DEF Role
  <2>9. Ends'
    BY <1>0, <2>2 DEF Ends
  <2>10. Answered'
    <3>1. \A u \in Caller : AnsweredOf(u)'
      BY <1>0, <2>2, <2>3, <2>4, SameAnswered DEF Answered
    <3> QED BY <3>1, <2>1 DEF Answered
  <2> QED BY <2>5, <2>6, <2>7, <2>8, <2>9, <2>10 DEF DelegatorIInv
<1> QED BY <1>2, <1>3

(* The consumer finds the holder's node filled, its caller asleep.         *)
LEMMA FirstIsThere ==
  ASSUME Lined, Todo
  PROVE  \E s \in Queued : mine[s] = head /\ cb[s] = None /\ node[Place(head)] = Content(s)
<1>1. PICK s \in Queued : mine[s] = head
  BY DEF Lined
<1>2. cb[s] = None
  BY <1>1 DEF Lined
<1>3. cb[s] # "publish"
  BY <1>2, DelegatorAssumption
<1>4. node[Place(mine[s])] = Content(s)
  BY <1>3 DEF Lined
<1> QED BY <1>1, <1>2, <1>4

(* The consumer begins the request of the first in line.                   *)
LEMMA ConsumerBeginKeeps ==
  ASSUME DelegatorIInv, ConsumerBegin
  PROVE  DelegatorIInv'
<1>0. QueueState /\ ConsumerState /\ CallerState /\ Lined /\ Role /\ Ends /\ Answered
  BY DEF DelegatorIInv
<1>1. /\ node[Place(head)].req # None /\ conPc = "head" /\ conPc' = "exec"
      /\ answer' = [answer EXCEPT ![node[Place(head)].req] = @ + 1]
      /\ UNCHANGED <<backend, last, isFree, head, linked, node, heap, isExecuted,
                     conParked, finished,
                     deferred, awake, pc, kind, mine, cb, sth, calls>>
  BY DEF ConsumerBegin, Con, queue
<1>2. PICK s \in Queued : mine[s] = head /\ cb[s] = None /\ node[Place(head)] = Content(s)
  BY <1>0, <1>1, FirstIsThere DEF Todo
<1>3. /\ s \in Caller /\ pc[s] = "asleep" /\ answer[s] = 0 /\ s # None
      /\ answer \in [Caller -> {0, 1}]
  BY <1>0, DelegatorAssumption DEF Queued, CallerState
<1>4. kind[s] = "call" /\ node[Place(head)].req = s
  BY <1>1, <1>2 DEF Content
<1>5. answer'[s] = 1 /\ (\A u \in Caller : u # s => answer'[u] = answer[u])
        /\ answer' \in [Caller -> {0, 1}]
  <2>1. answer' = [answer EXCEPT ![s] = @ + 1]
    BY <1>1, <1>4
  <2>2. answer'[s] = answer[s] + 1 /\ \A u \in Caller : u # s => answer'[u] = answer[u]
    BY <2>1, <1>3
  <2>3. answer'[s] = 1
    BY <2>2, <1>3
  <2> QED BY <2>1, <2>2, <2>3, <1>3
<1>6. Queued' = Queued \ {s}
  <2>1. \A u \in Caller : u # s => (u \in Queued' <=> u \in Queued)
    BY <1>1, <1>5 DEF Queued
  <2>2. s \notin Queued'
    BY <1>5 DEF Queued
  <2>3. Queued' \subseteq Caller /\ Queued \subseteq Caller
    BY DEF Queued
  <2> QED BY <2>1, <2>2, <2>3
<1>7. /\ Actors' = Actors /\ Postponed' = Postponed /\ Handed' = Handed
      /\ Todo /\ ~ Todo'
  BY <1>1 DEF Actors, Postponed, Handed, Todo
<1>8. Serving' = {s} /\ Serving = {}
  BY <1>1, <1>3, <1>4 DEF Serving, Place
<1>9. s \notin Handed /\ s \notin Postponed
  BY <1>0, <1>3 DEF Answered, AnsweredOf
<1>10. QueueState'
  BY <1>0, <1>1 DEF QueueState
<1>11. ConsumerState'
  <2>1. NoTwice(deferred)'
    BY <1>0, <1>1 DEF ConsumerState, NoTwice
  <2>2. awake = None /\ ~ conParked
    BY <1>0, <1>1 DEF ConsumerState
  <2> QED BY <1>0, <1>1, <2>1, <2>2 DEF ConsumerState
<1>12. CallerState'
  <2>1. calls > 0
    BY <1>0, <1>3 DEF CallerState
  <2> QED BY <1>0, <1>1, <1>5, <2>1 DEF CallerState
<1>13. Lined'
  BY <1>0, <1>1, <1>2, <1>6, <1>7, FirstLeaves DEF QueueState
<1>14. Role'
  BY <1>0, <1>1, <1>7 DEF Role
<1>15. Ends'
  BY <1>0, <1>1 DEF Ends
<1>16. Answered'
  <2>1. AnsweredOf(s)'
    BY <1>1, <1>3, <1>4, <1>5, <1>7, <1>8, <1>9 DEF AnsweredOf
  <2>2. \A u \in Caller : u # s => AnsweredOf(u)'
    BY <1>0, <1>1, <1>5, <1>7, <1>8, SameAnswered DEF Answered
  <2> QED BY <1>8, <2>1, <2>2 DEF Answered
<1> QED BY <1>10, <1>11, <1>12, <1>13, <1>14, <1>15, <1>16 DEF DelegatorIInv

(* The request is answered or deferred.                                    *)
LEMMA ConsumerExecuteKeeps ==
  ASSUME DelegatorIInv, ConsumerExecute
  PROVE  DelegatorIInv'
<1>0. QueueState /\ ConsumerState /\ CallerState /\ Lined /\ Role /\ Ends /\ Answered
  BY DEF DelegatorIInv
<1> DEFINE s == node[Place(head)].req
<1>1. /\ conPc = "exec" /\ conPc' = "loop" /\ isExecuted' = TRUE
      /\ \/ Notify(s) /\ UNCHANGED deferred
         \/ deferred' = Append(deferred, s) /\ UNCHANGED <<pc, sth>>
      /\ UNCHANGED <<backend, last, isFree, head, linked, node, heap, conParked, finished,
                     awake, kind, mine, cb, answer, calls>>
  BY DEF ConsumerExecute, Con, queue
<1>2. PICK t \in Caller : t = s /\ Serving = {t}
  BY <1>0, <1>1 DEF Answered, Serving
<1>3. /\ pc[t] = "asleep" /\ answer[t] = 1 /\ kind[t] = "call" /\ t \notin Postponed
           /\ t \notin Handed
  <2>1. t \in Serving
    BY <1>2
  <2>2. pc[t] = "asleep" /\ answer[t] = 1 /\ kind[t] = "call" /\ t \notin Postponed
    BY <2>1, <1>0 DEF Answered, AnsweredOf
  <2>3. t \notin Handed
    BY <1>0, <1>1, DelegatorAssumption DEF Handed, ConsumerState
  <2> QED BY <2>2, <2>3
<1>4. PICK to \in {"woken", "asleep"} :
        /\ pc'[t] = to /\ (\A u \in Caller : u # t => pc'[u] = pc[u])
        /\ pc' \in [Caller -> CallPlace] /\ sth' \subseteq Caller
        /\ deferred' = IF to = "woken" THEN deferred ELSE Append(deferred, t)
  <2>1. pc \in [Caller -> CallPlace] /\ sth \subseteq Caller
    BY <1>0 DEF CallerState
  <2>2. CASE Notify(s) /\ UNCHANGED deferred
    <3>1. pc' = [pc EXCEPT ![t] = "woken"] /\ sth' = sth \ {t} /\ deferred' = deferred
      BY <2>2, <1>2 DEF Notify, Become
    <3>2. /\ pc'[t] = "woken" /\ (\A u \in Caller : u # t => pc'[u] = pc[u])
          /\ pc' \in [Caller -> CallPlace] /\ sth' \subseteq Caller
      BY <2>1, <3>1
    <3> QED BY <3>1, <3>2
  <2>3. CASE deferred' = Append(deferred, s) /\ UNCHANGED <<pc, sth>>
    <3>1. /\ pc'[t] = "asleep" /\ (\A u \in Caller : u # t => pc'[u] = pc[u])
          /\ pc' \in [Caller -> CallPlace] /\ sth' \subseteq Caller
      BY <2>1, <2>3, <1>3
    <3>2. deferred' = Append(deferred, t)
      BY <2>3, <1>2
    <3> QED BY <3>1, <3>2
  <2> QED BY <1>1, <2>2, <2>3
<1> HIDE DEF s
<1>5. pc \in [Caller -> CallPlace]
  BY <1>0 DEF CallerState
<1>6. /\ pc'[t] = to /\ \A u \in Caller : u # t => pc'[u] = pc[u]
      /\ pc' \in [Caller -> CallPlace]
  BY <1>4
<1>7. Queued' = Queued /\ Actors' = Actors
  <2>1. t \notin Queued /\ t \notin Queued' /\ t \notin Actors /\ t \notin Actors'
    BY <1>1, <1>3, <1>6 DEF Queued, Actors, Acting
  <2>2. \A u \in Caller : u # t => (u \in Queued' <=> u \in Queued) /\ (u \in Actors'
          <=> u \in Actors)
    BY <1>1, <1>6 DEF Queued, Actors
  <2>3. Queued' \subseteq Caller /\ Actors' \subseteq Caller /\ Queued \subseteq Caller
          /\ Actors \subseteq Caller
    BY DEF Queued, Actors
  <2>4. \A u : (u \in Queued' <=> u \in Queued) /\ (u \in Actors' <=> u \in Actors)
    BY <2>1, <2>2, <2>3
  <2> QED BY <2>4
<1>8. Handed' = Handed /\ Serving' = {} /\ ~ Todo' /\ ~ Todo /\ Todo' = Todo
  BY <1>1 DEF Todo, Handed, Serving
<1>9. /\ deferred' \in Seq(Caller) /\ NoTwice(deferred)'
      /\ Postponed' = IF to = "woken" THEN Postponed ELSE Postponed \cup {t}
  <2>1. CASE to = "woken"
    <3>1. deferred' = deferred
      BY <2>1, <1>4
    <3> QED BY <3>1, <2>1, <1>0 DEF ConsumerState, NoTwice, Postponed
  <2>2. CASE to # "woken"
    <3>1. deferred' = Append(deferred, t)
      BY <2>2, <1>4
    <3> QED BY <3>1, <2>2, <1>0, <1>3, IsPostponed DEF ConsumerState
  <2> QED BY <2>1, <2>2
<1>10. QueueState'
  BY <1>0, <1>1 DEF QueueState
<1>11. ConsumerState'
  <2>1. awake = None /\ ~ conParked
    BY <1>0, <1>1 DEF ConsumerState
  <2> QED BY <1>0, <1>1, <1>9, <2>1 DEF ConsumerState
<1>12. CallerState'
  <2>1. \A u \in Caller : pc'[u] # "out" => pc[u] # "out"
    BY <1>3, <1>6
  <2> QED BY <1>0, <1>1, <1>4, <1>6, <2>1 DEF CallerState
<1>13. Lined'
  BY <1>0, <1>1, <1>7, <1>8, LinedSame
<1>14. Role'
  BY <1>0, <1>1, <1>7 DEF Role
<1>15. Ends'
  BY <1>0, <1>1, <1>3, <1>4, <1>6 DEF Ends
<1>16. Answered'
  <2>1. AnsweredOf(t)'
    BY <1>1, <1>3, <1>4, <1>6, <1>8, <1>9 DEF AnsweredOf
  <2>2. ASSUME NEW u \in Caller, u # t PROVE AnsweredOf(u)'
    <3>1. (u \in Postponed' <=> u \in Postponed) /\ (u \in Serving' <=> u \in Serving)
      BY <1>2, <1>8, <1>9, <2>2
    <3> QED BY <3>1, <2>2, <1>0, <1>1, <1>6, <1>8, SameAnswered DEF Answered
  <2> QED BY <1>1, <2>1, <2>2 DEF Answered
<1> QED BY <1>10, <1>11, <1>12, <1>13, <1>14, <1>15, <1>16 DEF DelegatorIInv

(* The consumer gives the lock to the first in line and parks.             *)
LEMMA ConsumerSwapKeeps ==
  ASSUME DelegatorIInv, ConsumerSwap
  PROVE  DelegatorIInv'
<1>0. QueueState /\ ConsumerState /\ CallerState /\ Lined /\ Role /\ Ends /\ Answered
  BY DEF DelegatorIInv
<1>1. /\ node[Place(head)].req = None /\ conPc = "head" /\ conPc' = "parked"
           /\ conParked' = TRUE
      /\ pc' = [pc EXCEPT ![node[Place(head)].sth] = "in"]
      /\ UNCHANGED <<backend, last, isFree, head, linked, node, heap, isExecuted, finished,
                     deferred, awake, kind, mine, cb, sth, answer, calls>>
  BY DEF ConsumerSwap, Con, Become, queue
<1>2. PICK s \in Queued : mine[s] = head /\ cb[s] = None /\ node[Place(head)] = Content(s)
  BY <1>0, <1>1, FirstIsThere DEF Todo
<1>3. /\ s \in Caller /\ pc[s] = "asleep" /\ answer[s] = 0 /\ s # None
           /\ pc \in [Caller -> CallPlace]
  BY <1>0, DelegatorAssumption DEF Queued, CallerState
<1>4. kind[s] # "call" /\ node[Place(head)].sth = s
  BY <1>1, <1>2, <1>3 DEF Content
<1>5. pc'[s] = "in" /\ (\A u \in Caller : u # s => pc'[u] = pc[u])
        /\ pc' \in [Caller -> CallPlace]
  BY <1>1, <1>3, <1>4
<1>6. Queued' = Queued \ {s}
  <2>1. \A u \in Caller : u # s => (u \in Queued' <=> u \in Queued)
    BY <1>1, <1>5 DEF Queued
  <2>2. s \notin Queued'
    BY <1>5 DEF Queued
  <2>3. Queued' \subseteq Caller /\ Queued \subseteq Caller
    BY DEF Queued
  <2> QED BY <2>1, <2>2, <2>3
<1>7. Actors' = {s}
  <2>1. Actors = {}
    BY <1>0, <1>1 DEF Role
  <2>2. \A u \in Caller : u # s => u \notin Actors'
    BY <2>1, <1>5 DEF Actors
  <2>3. s \in Actors' /\ Actors' \subseteq Caller
    BY <1>3, <1>5 DEF Actors, Acting
  <2> QED BY <2>2, <2>3
<1>8. /\ Postponed' = Postponed /\ Handed' = Handed /\ Todo /\ ~ Todo'
      /\ Serving' = {} /\ Serving = {}
  BY <1>1 DEF Postponed, Handed, Todo, Serving
<1>9. s \notin Handed /\ s \notin Postponed /\ ~ isFree
  <2>1. s \notin Handed /\ s \notin Postponed
    BY <1>0, <1>3 DEF Answered, AnsweredOf
  <2>2. ~ isFree
    BY <1>0, <1>1 DEF Role
  <2> QED BY <2>1, <2>2
<1>10. QueueState'
  BY <1>0, <1>1 DEF QueueState
<1>11. ConsumerState'
  <2>1. NoTwice(deferred)'
    BY <1>0, <1>1 DEF ConsumerState, NoTwice
  <2>2. awake = None
    BY <1>0, <1>1 DEF ConsumerState
  <2> QED BY <1>0, <1>1, <2>1, <2>2 DEF ConsumerState
<1>12. CallerState'
  <2>1. \A u \in Caller : pc'[u] # "out" => pc[u] # "out"
    BY <1>3, <1>5
  <2> QED BY <1>0, <1>1, <1>5, <2>1 DEF CallerState
<1>13. Lined'
  BY <1>0, <1>1, <1>2, <1>6, <1>8, FirstLeaves DEF QueueState
<1>14. Role'
  <2>1. \A u \in Caller : pc'[u] \in {"follow", "stop"} => isExecuted
    BY <1>0, <1>3, <1>5 DEF Role
  <2> QED BY <1>1, <1>7, <1>9, <2>1 DEF Role
<1>15. Ends'
  BY <1>0, <1>1, <1>3, <1>5 DEF Ends
<1>16. Answered'
  <2>1. AnsweredOf(s)'
    BY <1>1, <1>3, <1>4, <1>5, <1>8, <1>9 DEF AnsweredOf
  <2>2. \A u \in Caller : u # s => AnsweredOf(u)'
    BY <1>0, <1>1, <1>5, <1>8, SameAnswered DEF Answered
  <2> QED BY <1>1, <2>1, <2>2 DEF Answered
<1> QED BY <1>10, <1>11, <1>12, <1>13, <1>14, <1>15, <1>16 DEF DelegatorIInv

(* progress completes the first of the deferred requests.                  *)
LEMMA ConsumerProgressKeeps ==
  ASSUME DelegatorIInv, ConsumerProgress
  PROVE  DelegatorIInv'
<1>0. QueueState /\ ConsumerState /\ CallerState /\ Lined /\ Role /\ Ends /\ Answered
  BY DEF DelegatorIInv
<1>1. /\ deferred # <<>> /\ conPc = "progress" /\ awake' = Head(deferred)
           /\ deferred' = Tail(deferred)
      /\ conPc' = "notify"
      /\ UNCHANGED <<backend, last, isFree, head, linked, node, heap, isExecuted,
                     conParked, finished,
                     pc, kind, mine, cb, sth, answer, calls>>
  BY DEF ConsumerProgress, IsActive, queue, callers
<1>2. /\ deferred' \in Seq(Caller) /\ NoTwice(deferred)'
      /\ awake' \in Postponed /\ Postponed' = Postponed \ {awake'}
  BY <1>0, <1>1, FirstCompletes DEF ConsumerState
<1>3. awake' \in Caller /\ awake' # None
  BY <1>2, DelegatorAssumption DEF Postponed
<1>4. PICK t \in Caller : t = awake'
  BY <1>3
<1>5. pc[t] \in {"asleep", "unlock_and_wait"} /\ answer[t] = 1 /\ kind[t] = "call"
  BY <1>0, <1>2, <1>4 DEF Answered, AnsweredOf
<1>6. Queued' = Queued /\ Actors' = Actors /\ Actors = {}
  BY <1>0, <1>1 DEF Queued, Actors, Role
<1>7. pc[t] = "asleep"
  <2>1. t \notin Actors
    BY <1>6
  <2> QED BY <2>1, <1>5 DEF Actors, Acting
<1>8. Handed' = {t} /\ Handed = {}
  <2>1. Handed = {}
    BY <1>0, <1>1, DelegatorAssumption DEF Handed, ConsumerState
  <2> QED BY <2>1, <1>4 DEF Handed
<1>9. Serving' = {} /\ Serving = {} /\ Todo' = Todo
  BY <1>1 DEF Serving, Todo
<1>10. QueueState'
  BY <1>0, <1>1 DEF QueueState
<1>11. ConsumerState'
  <2>1. ~ conParked
    BY <1>0, <1>1 DEF ConsumerState
  <2> QED BY <1>0, <1>1, <1>2, <1>3, <2>1 DEF ConsumerState
<1>12. CallerState'
  BY <1>0, <1>1 DEF CallerState
<1>13. Lined'
  BY <1>0, <1>1, <1>6, <1>9, LinedSame
<1>14. Role'
  BY <1>0, <1>1, <1>6 DEF Role
<1>15. Ends'
  BY <1>0, <1>1 DEF Ends
<1>16. Answered'
  <2>1. AnsweredOf(t)'
    BY <1>1, <1>2, <1>4, <1>5, <1>7, <1>8, <1>9 DEF AnsweredOf
  <2>2. ASSUME NEW u \in Caller, u # t PROVE AnsweredOf(u)'
    <3>1. (u \in Postponed' <=> u \in Postponed) /\ (u \in Handed' <=> u \in Handed)
      BY <1>2, <1>4, <1>8, <2>2
    <3> QED BY <3>1, <2>2, <1>0, <1>1, <1>9, SameAnswered DEF Answered
  <2> QED BY <1>1, <2>1, <2>2 DEF Answered
<1> QED BY <1>10, <1>11, <1>12, <1>13, <1>14, <1>15, <1>16 DEF DelegatorIInv

(* The caller of a completed request is woken.                             *)
LEMMA ConsumerNotifyKeeps ==
  ASSUME DelegatorIInv, ConsumerNotify
  PROVE  DelegatorIInv'
<1>0. QueueState /\ ConsumerState /\ CallerState /\ Lined /\ Role /\ Ends /\ Answered
  BY DEF DelegatorIInv
<1>1. PICK to \in {"loop", "park"} :
      /\ conPc = "notify" /\ conPc' = to /\ pc' = [pc EXCEPT ![awake] = "woken"]
      /\ sth' = sth \ {awake} /\ awake' = None
      /\ UNCHANGED <<backend, last, isFree, head, linked, node, heap, isExecuted,
                     conParked, finished,
                     deferred, kind, mine, cb, answer, calls>>
  BY DEF ConsumerNotify, Con, Notify, Become, queue
<1>2. awake \in Caller
  BY <1>0, <1>1 DEF ConsumerState
<1>3. PICK t \in Caller : t = awake
  BY <1>2
<1>4. t \in Handed /\ pc \in [Caller -> CallPlace]
  BY <1>0, <1>3 DEF Handed, CallerState
<1>5. pc[t] = "asleep" /\ answer[t] = 1 /\ kind[t] = "call" /\ t \notin Postponed
  BY <1>0, <1>4 DEF Answered, AnsweredOf
<1>6. pc'[t] = "woken" /\ (\A u \in Caller : u # t => pc'[u] = pc[u])
        /\ pc' \in [Caller -> CallPlace]
  BY <1>1, <1>3, <1>4
<1>7. Queued' = Queued /\ Actors' = Actors /\ Actors = {}
  <2>1. t \notin Queued /\ t \notin Queued' /\ t \notin Actors /\ t \notin Actors'
    BY <1>1, <1>5, <1>6 DEF Queued, Actors, Acting
  <2>2. \A u \in Caller : u # t => (u \in Queued' <=> u \in Queued) /\ (u \in Actors'
          <=> u \in Actors)
    BY <1>1, <1>6 DEF Queued, Actors
  <2>3. Queued' \subseteq Caller /\ Actors' \subseteq Caller /\ Queued \subseteq Caller
          /\ Actors \subseteq Caller
    BY DEF Queued, Actors
  <2>4. \A u : (u \in Queued' <=> u \in Queued) /\ (u \in Actors' <=> u \in Actors)
    BY <2>1, <2>2, <2>3
  <2>5. Actors = {}
    BY <1>0, <1>1 DEF Role
  <2> QED BY <2>4, <2>5
<1>8. Handed = {t} /\ Handed' = {}
  BY <1>1, <1>3, DelegatorAssumption DEF Handed
<1>9. isExecuted /\ ~ isFree
  BY <1>0, <1>1 DEF Role
<1>10. Serving' = {} /\ Serving = {} /\ Postponed' = Postponed /\ ~ Todo /\ ~ Todo'
         /\ Todo' = Todo
  BY <1>1, <1>9 DEF Serving, Postponed, Todo
<1>11. QueueState'
  BY <1>0, <1>1 DEF QueueState
<1>12. ConsumerState'
  <2>1. NoTwice(deferred)'
    BY <1>0, <1>1 DEF ConsumerState, NoTwice
  <2>2. ~ conParked
    BY <1>0, <1>1 DEF ConsumerState
  <2> QED BY <1>0, <1>1, <2>1, <2>2 DEF ConsumerState
<1>13. CallerState'
  <2>1. \A u \in Caller : pc'[u] # "out" => pc[u] # "out"
    BY <1>5, <1>6
  <2>2. sth' \subseteq Caller
    BY <1>0, <1>1 DEF CallerState
  <2> QED BY <1>0, <1>1, <1>6, <2>1, <2>2 DEF CallerState
<1>14. Lined'
  BY <1>0, <1>1, <1>7, <1>10, LinedSame
<1>15. Role'
  <2>1. \A u \in Caller : pc'[u] \in {"follow", "stop"} => isExecuted
    BY <1>9
  <2> QED BY <1>1, <1>7, <1>9, <2>1 DEF Role
<1>16. Ends'
  BY <1>0, <1>1, <1>5, <1>6 DEF Ends
<1>17. Answered'
  <2>1. AnsweredOf(t)'
    BY <1>1, <1>5, <1>6, <1>8, <1>10 DEF AnsweredOf
  <2>2. ASSUME NEW u \in Caller, u # t PROVE AnsweredOf(u)'
    BY <2>2, <1>0, <1>1, <1>6, <1>8, <1>10, SameAnswered DEF Answered
  <2> QED BY <1>1, <2>1, <2>2 DEF Answered
<1> QED BY <1>11, <1>12, <1>13, <1>14, <1>15, <1>16, <1>17 DEF DelegatorIInv

-----------------------------------------------------------------------------
(* The invariant, and what follows from it.                                *)

(* The consumer holds the lock at the beginning, and nobody is in line.    *)
LEMMA DelegatorStarts ==
  ASSUME DInit
  PROVE  DelegatorIInv
<1>1. /\ backend \in {"mcs", "ring"} /\ last = 0 /\ isFree = FALSE /\ head = 0
           /\ linked = {}
      /\ node = [p \in Places |-> NoNode] /\ heap = {0} /\ isExecuted = TRUE
           /\ conParked = FALSE
      /\ conPc = "unborn" /\ finished = FALSE /\ deferred = <<>> /\ awake = None
           /\ sth = {} /\ calls = 0
  BY DEF DInit
<1>2. /\ \A t \in Caller : pc[t] = "out" /\ kind[t] = "call" /\ mine[t] = 0
           /\ cb[t] = None /\ answer[t] = 0
      /\ pc \in [Caller -> CallPlace] /\ kind \in [Caller -> {"call", "lock", "drop"}]
      /\ mine \in [Caller -> Nat] /\ cb \in [Caller -> {None, "publish", "link"}]
      /\ answer \in [Caller -> {0, 1}]
  BY DEF DInit
<1>3. MaxCalls \in Nat /\ RingSize \in Nat /\ RingSize > 0
  BY DelegatorAssumption
<1>4. /\ deferred \in Seq(Caller) /\ \A i \in DOMAIN deferred : FALSE
  BY <1>1
<1>5. Queued = {} /\ Actors = {} /\ Serving = {} /\ Handed = {} /\ Postponed = {} /\ ~ Todo
  <2>1. Queued = {} /\ Actors = {}
    BY <1>2 DEF Queued, Actors, Acting
  <2>2. Serving = {} /\ ~ Todo
    BY <1>1 DEF Serving, Todo
  <2>3. Handed = {}
    BY <1>1, DelegatorAssumption DEF Handed
  <2>4. Postponed = {}
    BY <1>4 DEF Postponed
  <2> QED BY <2>1, <2>2, <2>3, <2>4
<1>6. QueueState
  <2>1. node \in [Places -> NodeRec]
    BY <1>1 DEF NoNode, NodeRec
  <2>2. heap \subseteq 0..0 /\ 0..0 \subseteq heap
    BY <1>1
  <2>3. head <= last /\ last = calls /\ last <= MaxCalls /\ last - head < RingSize
          /\ last \in Nat /\ head \in Nat
    BY <1>1, <1>3
  <2> QED BY <1>1, <2>1, <2>2, <2>3 DEF QueueState
<1>7. ConsumerState
  <2>1. NoTwice(deferred)
    BY <1>4 DEF NoTwice
  <2> QED BY <1>1, <1>4, <2>1 DEF ConsumerState
<1>8. CallerState
  BY <1>1, <1>2 DEF CallerState
<1>9. Lined
  BY <1>1, <1>2, <1>5 DEF Lined
<1>10. Role
  BY <1>1, <1>2, <1>5 DEF Role
<1>11. Ends
  BY <1>1, <1>2 DEF Ends
<1>12. Answered
  <2>1. \A t \in Caller : AnsweredOf(t)
    BY <1>2, <1>5 DEF AnsweredOf
  <2> QED BY <1>1, <2>1 DEF Answered
<1> QED BY <1>6, <1>7, <1>8, <1>9, <1>10, <1>11, <1>12 DEF DelegatorIInv

(* Every step keeps the invariant.                                         *)
LEMMA DelegatorSteps ==
  ASSUME DelegatorIInv, [DNext]_dvars
  PROVE  DelegatorIInv'
<1>1. ASSUME NEW t \in Caller, Proceed(t) PROVE DelegatorIInv'
  BY <1>1, PublishKeeps, LinkKeeps, ExecuteOwnKeeps, LeaveLockKeeps,
     UnlockKeeps, FollowKeeps, UnlockAndWaitKeeps, ReturnKeeps, StopKeeps
  DEF Proceed
<1>2. ASSUME NEW t \in Caller, NEW k \in {"call", "lock", "drop"},
               Claim(t, k) PROVE DelegatorIInv'
  BY <1>2, ClaimKeeps
<1>3. CASE Consume
  BY <1>3, ConsumerExitKeeps, ConsumerFollowKeeps, ConsumerBeginKeeps, ConsumerExecuteKeeps,
     ConsumerSwapKeeps, ConsumerIdleKeeps, ConsumerNotifyKeeps, ConsumerParkKeeps,
     ConsumerReleaseKeeps DEF Consume
<1>4. CASE ConsumerProgress
  BY <1>4, ConsumerProgressKeeps
<1>5. CASE UNCHANGED dvars
  <2>0. QueueState /\ ConsumerState /\ CallerState /\ Lined /\ Role /\ Ends /\ Answered
    BY DEF DelegatorIInv
  <2>1. UNCHANGED <<backend, last, isFree, head, linked, node, heap, isExecuted, conParked,
                    conPc,
                    finished, deferred, awake, pc, kind, mine, cb, sth, answer, calls>>
    BY <1>5 DEF dvars, queue, consumer, callers
  <2>2. Queued' = Queued /\ Actors' = Actors /\ Postponed' = Postponed
    BY <2>1 DEF Queued, Actors, Postponed
  <2>3. Handed' = Handed /\ Serving' = Serving /\ Todo' = Todo
    BY <2>1 DEF Handed, Serving, Todo, Place
  <2>4. QueueState'
    BY <2>0, <2>1 DEF QueueState
  <2>5. ConsumerState'
    BY <2>0, <2>1 DEF ConsumerState, NoTwice
  <2>6. CallerState'
    BY <2>0, <2>1 DEF CallerState
  <2>7. Lined'
    BY <2>0, <2>1, <2>2, <2>3, LinedSame
  <2>8. Role' /\ Ends'
    BY <2>0, <2>1, <2>2 DEF Role, Ends
  <2>9. Answered'
    <3>1. \A u \in Caller : AnsweredOf(u)'
      BY <2>0, <2>1, <2>2, <2>3, SameAnswered DEF Answered
    <3> QED BY <2>0, <2>1, <2>3, <3>1 DEF Answered
  <2> QED BY <2>4, <2>5, <2>6, <2>7, <2>8, <2>9 DEF DelegatorIInv
<1> QED BY <1>1, <1>2, <1>3, <1>4, <1>5 DEF DNext

(* The invariant holds throughout.                                         *)
LEMMA DelegatorInvariant == DSpec => []DelegatorIInv
<1>1. DInit => DelegatorIInv
  BY DelegatorStarts
<1>2. DelegatorIInv /\ [DNext]_dvars => DelegatorIInv'
  BY DelegatorSteps
<1> QED BY <1>1, <1>2, PTL DEF DSpec

(* What the run checks follows from the inductive invariant.               *)
LEMMA DelegatorImplies ==
  ASSUME DelegatorIInv
  PROVE  ConsumerInv
<1>0. QueueState /\ ConsumerState /\ CallerState /\ Lined /\ Role /\ Ends /\ Answered
  BY DEF DelegatorIInv
<1>1. last \in Nat /\ head \in Nat /\ head <= last /\ last = calls /\ last <= MaxCalls
        /\ MaxCalls \in Nat
  BY <1>0, DelegatorAssumption DEF QueueState
<1>2. DTypeOK
  <2>1. last \in 0..MaxCalls /\ head \in 0..last /\ calls \in 0..MaxCalls
    BY <1>1
  <2>2. \A i \in DOMAIN deferred : deferred[i] \in Caller
    BY <1>0, ElementOfSeq, LenProperties DEF ConsumerState
  <2>3. mine \in [Caller -> 0..last]
    BY <1>0, <1>1 DEF CallerState
  <2>4. answer \in [Caller -> 0..MaxCalls]
    <3> SUFFICES ASSUME NEW t \in Caller PROVE answer[t] \in 0..MaxCalls
      BY <1>0 DEF CallerState
    <3>1. answer[t] \in {0, 1}
      BY <1>0 DEF CallerState
    <3>2. answer[t] = 1 => calls > 0
      BY <1>0 DEF CallerState
    <3> QED BY <1>1, <3>1, <3>2
  <2> QED BY <1>0, <2>1, <2>2, <2>3, <2>4
          DEF DTypeOK, QueueState, ConsumerState, CallerState, NodeRec
<1>3. ExecutedOnce
  BY <1>0 DEF ExecutedOnce, CallerState, Answered, AnsweredOf
<1>4. ConsumerWaits
  <2>1. \A t \in Caller : pc[t] \in Acting => t \in Actors
    BY DEF Actors
  <2>2. Actors # {} => conParked
    BY <1>0 DEF Role, ConsumerState
  <2>3. isFree /\ ~ finished => conParked
    BY <1>0 DEF Role, ConsumerState
  <2> QED BY <2>1, <2>2, <2>3 DEF ConsumerWaits, Acting
<1>5. NodesApart
  <2>1. \A i, j \in Live : Place(i) = Place(j) => i = j
    <3> SUFFICES ASSUME NEW i \in Live, NEW j \in Live, Place(i) = Place(j) PROVE i = j
      OBVIOUS
    <3>1. i \in Nat /\ head <= i /\ i <= last /\ j \in Nat /\ head <= j /\ j <= last
      BY <1>1 DEF Live
    <3> QED BY <3>1, <1>0, Apart
  <2>2. backend = "mcs" /\ ~ isFree => Live \subseteq heap
    BY <1>0 DEF QueueState, Live
  <2>3. CanFollow => head < last /\ Successor # NoNode
    <3> SUFFICES ASSUME CanFollow PROVE head < last /\ Successor # NoNode
      OBVIOUS
    <3>1. PICK t \in Queued : head + 1 <= last /\ Successor = Content(t)
      BY <1>0, NextIsThere
    <3>2. t # None
      BY DelegatorAssumption DEF Queued
    <3>3. Content(t) # NoNode
      BY <3>2 DEF Content, NoNode
    <3> QED BY <1>1, <3>1, <3>3
  <2> QED BY <2>1, <2>2, <2>3 DEF NodesApart
<1> QED BY <1>2, <1>3, <1>4, <1>5 DEF ConsumerInv

(* Nodes in use never share a place of the ring or lose their box, the     *)
(* next holder finds its node filled, one thread at a time has the         *)
(* consumer's role, and no request is executed twice: for any callers, any *)
(* number of calls and any size of the ring.                               *)
THEOREM DelegatorSafe == DSpec => []ConsumerInv
BY DelegatorInvariant, DelegatorImplies, PTL

-----------------------------------------------------------------------------
(* The refinement.                                                         *)

(* What the stage of a call is.                                            *)
StageIs(t) ==
  /\ pc[t] \in {"out", "stop", "gone"} => Stage(t) = "out"
  /\ pc[t] = "exec" => Stage(t) = "running"
  /\ pc[t] = "in" => Stage(t) = "in"
  /\ pc[t] \in {"unlock", "follow", "woken"} => Stage(t) = "answered"
  /\ pc[t] \in {"asleep", "unlock_and_wait"} =>
       /\ t \in Handed => Stage(t) = "answered"
       /\ t \in Postponed \ Handed => Stage(t) = "deferred"
  /\ pc[t] = "asleep" /\ t \notin Postponed \cup Handed =>
       /\ t \in Serving => Stage(t) = "running"
       /\ t \notin Serving => Stage(t) = IF kind[t] = "call" THEN "asked" ELSE "wants"

(* The stages of all calls are these.                                      *)
StagesHold == \A t \in Caller : StageIs(t)

(* The stages of the refinement mapping, of the state and (below) of the   *)
(* next one.                                                               *)
LEMMA StagesNow == StagesHold
<1> SUFFICES ASSUME NEW t \in Caller PROVE StageIs(t)
  BY DEF StagesHold
<1>1. t \in Handed <=> awake = t
  BY DEF Handed
<1>2. t \in Postponed <=> \E i \in DOMAIN deferred : deferred[i] = t
  BY DEF Postponed
<1>3. t \in Serving <=> conPc = "exec" /\ node[Place(head)].req = t
  BY DEF Serving
<1> DEFINE h == awake = t
           p == \E i \in DOMAIN deferred : deferred[i] = t
           s == conPc = "exec" /\ node[Place(head)].req = t
<1>4. Stage(t) =
        IF pc[t] \in {"out", "stop", "gone"} THEN "out"
        ELSE IF pc[t] = "exec" THEN "running"
        ELSE IF pc[t] = "in" THEN "in"
        ELSE IF pc[t] \in {"unlock", "follow", "woken"} \/ h THEN "answered"
        ELSE IF p THEN "deferred"
        ELSE IF pc[t] # "asleep" THEN "lost"
        ELSE IF s THEN "running"
        ELSE IF kind[t] = "call" THEN "asked" ELSE "wants"
  BY DEF Stage
<1>5. (t \in Handed <=> h) /\ (t \in Postponed <=> p) /\ (t \in Serving <=> s)
  BY <1>1, <1>2, <1>3
<1> HIDE DEF h, p, s
<1>6. pc[t] \in {"out", "stop", "gone", "exec", "in"} => StageIs(t)
  BY <1>4 DEF StageIs
<1>7. pc[t] \in {"unlock", "follow", "woken"} => StageIs(t)
  BY <1>4 DEF StageIs
<1>8. pc[t] \in {"asleep", "unlock_and_wait"} => StageIs(t)
  BY <1>4, <1>5 DEF StageIs
<1>9. pc[t] \notin {"out", "stop", "gone", "exec", "in", "unlock", "follow", "woken", "asleep",
                    "unlock_and_wait"} => StageIs(t)
  BY DEF StageIs
<1> QED BY <1>6, <1>7, <1>8, <1>9

(* ... and of the next state.                                              *)
LEMMA StagesNext == StagesHold'
BY StagesNow, PTL

(* The stages of all calls, and a step of them.                            *)
Stages == [t \in Caller |-> Stage(t)]

(* What a step of the delegator does to the stages.                        *)
StagesStep == ServiceOf!Next \/ Stages' = Stages

(* A call that is left alone stays at its stage.                           *)
LEMMA StageKept ==
  ASSUME NEW u \in Caller, pc[u] \in CallPlace, pc'[u] = pc[u], kind'[u] = kind[u],
         u \in Serving' <=> u \in Serving, u \in Handed' <=> u \in Handed,
         u \in Postponed' <=> u \in Postponed
  PROVE  Stage(u)' = Stage(u)
<1> DEFINE h == awake = u
           p == \E i \in DOMAIN deferred : deferred[i] = u
           s == conPc = "exec" /\ node[Place(head)].req = u
           h2 == awake' = u
           p2 == \E i \in DOMAIN deferred' : deferred'[i] = u
           s2 == conPc' = "exec" /\ node'[Place(head)'].req = u
<1>1. (h <=> h2) /\ (p <=> p2) /\ (s <=> s2)
  BY DEF Handed, Postponed, Serving
<1>2. Stage(u) =
        IF pc[u] \in {"out", "stop", "gone"} THEN "out"
        ELSE IF pc[u] = "exec" THEN "running"
        ELSE IF pc[u] = "in" THEN "in"
        ELSE IF pc[u] \in {"unlock", "follow", "woken"} \/ h THEN "answered"
        ELSE IF p THEN "deferred"
        ELSE IF pc[u] # "asleep" THEN "lost"
        ELSE IF s THEN "running"
        ELSE IF kind[u] = "call" THEN "asked" ELSE "wants"
  BY DEF Stage
<1>3. Stage(u)' =
        IF pc'[u] \in {"out", "stop", "gone"} THEN "out"
        ELSE IF pc'[u] = "exec" THEN "running"
        ELSE IF pc'[u] = "in" THEN "in"
        ELSE IF pc'[u] \in {"unlock", "follow", "woken"} \/ h2 THEN "answered"
        ELSE IF p2 THEN "deferred"
        ELSE IF pc'[u] # "asleep" THEN "lost"
        ELSE IF s2 THEN "running"
        ELSE IF kind'[u] = "call" THEN "asked" ELSE "wants"
  BY DEF Stage
<1> HIDE DEF h, p, s, h2, p2, s2
<1> QED BY <1>1, <1>2, <1>3

(* One call moves.                                                         *)
LEMMA StageMoves ==
  ASSUME NEW t \in Caller, NEW a, NEW b, Stage(t) = a, Stage(t)' = b,
         \A u \in Caller : u # t => Stage(u)' = Stage(u)
  PROVE  ServiceOf!Move(t, a, b)
BY DEF ServiceOf!Move

(* No call moves.                                                          *)
LEMMA StagesStay ==
  ASSUME \A u \in Caller : Stage(u)' = Stage(u)
  PROVE  StagesStep
BY DEF StagesStep, Stages

(* Nobody has the resource unless a caller is at exec or in, or the        *)
(* consumer executes.                                                      *)
LEMMA NobodyServed ==
  ASSUME CallerState, Serving = {}, \A u \in Caller : pc[u] \notin {"exec", "in"}
  PROVE  ServiceOf!Unused
<1>1. \A t \in Caller : Stage(t) \notin {"running", "in"}
  <2> SUFFICES ASSUME NEW t \in Caller PROVE Stage(t) \notin {"running", "in"}
    OBVIOUS
  <2>1. StageIs(t) /\ pc[t] \in CallPlace
    BY StagesNow DEF StagesHold, CallerState
  <2>2. pc[t] \in {"unlock_and_wait"} => t \in Handed \/ t \in Postponed
          \/ Stage(t) \notin {"running", "in"}
    BY DEF Stage, Handed, Postponed
  <2> QED BY <2>1, <2>2 DEF StageIs
<1> QED BY <1>1 DEF ServiceOf!Unused

(* Steps that leave every call where it is.                                *)
LEMMA QuietKeep ==
  ASSUME CallerState, UNCHANGED <<pc, kind>>, Serving' = Serving, Handed' = Handed,
                                  Postponed' = Postponed
  PROVE  StagesStep
<1>1. \A u \in Caller : Stage(u)' = Stage(u)
  <2> SUFFICES ASSUME NEW u \in Caller PROVE Stage(u)' = Stage(u)
    OBVIOUS
  <2>1. pc[u] \in CallPlace
    BY DEF CallerState
  <2> QED BY <2>1, StageKept
<1> QED BY <1>1, StagesStay

(* The callbacks move no call: the node the consumer looks at is not       *)
(* theirs.                                                                 *)
LEMMA QuietCallerSteps ==
  ASSUME DelegatorIInv, NEW t \in Caller, Publish(t) \/ Link(t)
  PROVE  StagesStep
<1>0. QueueState /\ ConsumerState /\ CallerState /\ Lined /\ Role /\ Ends /\ Answered
  BY DEF DelegatorIInv
<1>1. UNCHANGED <<backend, last, isFree, head, conPc, deferred, awake, pc, kind, mine>>
  BY DEF Publish, Link, consumer
<1>2. Handed' = Handed /\ Postponed' = Postponed
  BY <1>1 DEF Handed, Postponed
<1>3. Serving' = Serving
  <2>1. CASE Link(t)
    <3>1. node' = node
      BY <2>1 DEF Link
    <3> QED BY <1>1, <3>1 DEF Serving, Place
  <2>2. CASE Publish(t)
    <3>1. cb[t] # None /\ cb[t] = "publish"
      BY <2>2, DelegatorAssumption DEF Publish
    <3>2. t \in Queued
      BY <1>0, <3>1 DEF Lined
    <3>3. /\ mine[t] \in Nat /\ mine[t] <= last /\ head <= mine[t] /\ mine[t] # head
          /\ head \in Nat /\ last \in Nat /\ head <= last
      BY <1>0, <3>1, <3>2, DelegatorAssumption DEF Lined, CallerState, QueueState, Queued
    <3>4. Place(head) # Place(mine[t])
      BY <1>0, <3>3, Apart
    <3>5. node' = [node EXCEPT ![Place(mine[t])] = Content(t)]
            /\ node \in [Places -> NodeRec]
      BY <1>0, <2>2 DEF Publish, Content, QueueState
    <3>6. backend \in {"mcs", "ring"} /\ head <= MaxCalls
      BY <1>0, <3>3, DelegatorAssumption DEF QueueState
    <3>7. Place(head) \in Places
      BY <3>3, <3>6, PlaceTyped
    <3>8. node'[Place(head)] = node[Place(head)]
      BY <3>4, <3>5, <3>7
    <3>9. Place(head)' = Place(head)
      BY <1>1 DEF Place
    <3> QED BY <1>1, <3>8, <3>9 DEF Serving
  <2> QED BY <2>1, <2>2
<1> QED BY <1>0, <1>1, <1>2, <1>3, QuietKeep

(* What the consumer does without a request moves no call.                 *)
LEMMA QuietConsumerSteps ==
  ASSUME DelegatorIInv,
         ConsumerExit \/ ConsumerFollow \/ ConsumerIdle \/ ConsumerPark \/ ConsumerRelease
  PROVE  StagesStep
<1>1. /\ UNCHANGED <<deferred, awake, pc, kind>>
      /\ conPc # "exec" /\ conPc' # "exec" /\ CallerState
  BY DEF ConsumerExit, ConsumerFollow, ConsumerIdle, ConsumerPark,
      ConsumerRelease, Con, callers, DelegatorIInv
<1>2. Handed' = Handed /\ Postponed' = Postponed /\ Serving' = Serving
  BY <1>1 DEF Handed, Postponed, Serving
<1> QED BY <1>1, <1>2, QuietKeep

(* A caller asks, or goes ahead at once.                                   *)
LEMMA ClaimSteps ==
  ASSUME DelegatorIInv, NEW t \in Caller, NEW k \in {"call", "lock", "drop"}, Claim(t, k)
  PROVE  StagesStep
<1>0. QueueState /\ ConsumerState /\ CallerState /\ Lined /\ Role /\ Ends /\ Answered
  BY DEF DelegatorIInv
<1>1. /\ pc[t] = "out" /\ MayCall(k)
      /\ conPc' = IF conPc = "unborn" THEN "loop" ELSE conPc
      /\ head' = IF isFree THEN last + 1 ELSE head
      /\ kind' = [kind EXCEPT ![t] = k]
      /\ UNCHANGED <<backend, node, deferred, awake>>
  BY DEF Claim, StartConsumer, StartLock
<1>2. PICK to \in {"exec", "in", "asleep"} :
        /\ pc' = [pc EXCEPT ![t] = to]
        /\ to = "asleep" => ~ isFree
        /\ to # "asleep" => isFree
  BY DEF Claim, Become
<1>3. /\ pc \in [Caller -> CallPlace] /\ kind \in [Caller -> {"call", "lock", "drop"}]
           /\ isFree \in BOOLEAN
  BY <1>0 DEF CallerState, QueueState
<1>4. /\ pc'[t] = to /\ (\A u \in Caller : u # t => pc'[u] = pc[u])
      /\ kind'[t] = k /\ (\A u \in Caller : u # t => kind'[u] = kind[u])
  BY <1>1, <1>2, <1>3
<1>5. Handed' = Handed /\ Postponed' = Postponed /\ t \notin Handed /\ t \notin Postponed
        /\ t \notin Serving
  <2>1. t \notin Handed /\ t \notin Postponed /\ t \notin Serving
    BY <1>0, <1>1 DEF Answered, AnsweredOf
  <2> QED BY <1>1, <2>1 DEF Handed, Postponed
<1>6. isFree => conPc = "parked" /\ Actors = {}
  <2>1. ~ finished
    BY <1>0, <1>1 DEF Ends, MayCall
  <2> QED BY <2>1, <1>0 DEF Role
<1>7. Serving' = Serving
  <2>1. CASE isFree
    BY <2>1, <1>1, <1>6 DEF Serving
  <2>2. CASE ~ isFree
    <3>1. head' = head /\ Place(head)' = Place(head) /\ (conPc' = "exec" <=> conPc = "exec")
      BY <2>2, <1>1 DEF Place
    <3> QED BY <3>1, <1>1 DEF Serving
  <2> QED BY <1>3, <2>1, <2>2
<1>8. \A u \in Caller : u # t => Stage(u)' = Stage(u)
  BY <1>3, <1>4, <1>5, <1>7, StageKept
<1>9. Stage(t) = "out"
  BY <1>1, StagesNow DEF StagesHold, StageIs
<1>10. CASE to = "asleep"
  <2>1. Stage(t)' = "asked" \/ Stage(t)' = "wants"
    BY <1>4, <1>5, <1>7, <1>10, StagesNext DEF StagesHold, StageIs
  <2>2. ServiceOf!Move(t, "out", "asked") \/ ServiceOf!Move(t, "out", "wants")
    BY <1>8, <1>9, <2>1, StageMoves
  <2> QED BY <2>2 DEF StagesStep, ServiceOf!Next, ServiceOf!Ask
<1>11. CASE to # "asleep"
  <2>1. Stage(t)' = "running" \/ Stage(t)' = "in"
    BY <1>4, <1>11, StagesNext DEF StagesHold, StageIs
  <2>2. ServiceOf!Move(t, "out", "running") \/ ServiceOf!Move(t, "out", "in")
    BY <1>8, <1>9, <2>1, StageMoves
  <2>3. ServiceOf!Unused
    <3>1. Serving = {} /\ \A u \in Caller : pc[u] \notin {"exec", "in"}
      BY <1>2, <1>6, <1>11 DEF Serving, Actors, Acting
    <3> QED BY <3>1, <1>0, NobodyServed
  <2> QED BY <2>2, <2>3 DEF StagesStep, ServiceOf!Next, ServiceOf!AskAndBegin
<1> QED BY <1>10, <1>11

(* An own request is answered or deferred.                                 *)
LEMMA ExecuteOwnSteps ==
  ASSUME DelegatorIInv, NEW t \in Caller, ExecuteOwn(t)
  PROVE  StagesStep
<1>0. QueueState /\ ConsumerState /\ CallerState /\ Lined /\ Role /\ Ends /\ Answered
  BY DEF DelegatorIInv
<1>1. pc[t] = "exec" /\ UNCHANGED <<backend, head, node, conPc, awake, kind>>
  BY DEF ExecuteOwn, queue
<1>2. PICK to \in {"unlock", "unlock_and_wait"} :
        /\ pc' = [pc EXCEPT ![t] = to]
        /\ deferred' = IF to = "unlock" THEN deferred ELSE Append(deferred, t)
  BY DEF ExecuteOwn, Become
<1>3. /\ pc \in [Caller -> CallPlace] /\ t \notin Serving /\ t \notin Handed
           /\ t \notin Postponed
  BY <1>0, <1>1 DEF CallerState, Answered, AnsweredOf
<1>4. pc'[t] = to /\ \A u \in Caller : u # t => pc'[u] = pc[u]
  BY <1>2, <1>3
<1>5. Handed' = Handed /\ Serving' = Serving
  BY <1>1 DEF Handed, Serving, Place
<1>6. Postponed' = IF to = "unlock" THEN Postponed ELSE Postponed \cup {t}
  <2>1. CASE to = "unlock"
    <3>1. deferred' = deferred
      BY <2>1, <1>2
    <3> QED BY <3>1, <2>1 DEF Postponed
  <2>2. CASE to # "unlock"
    <3>1. deferred' = Append(deferred, t)
      BY <2>2, <1>2
    <3> QED BY <3>1, <2>2, <1>0, <1>3, IsPostponed DEF ConsumerState
  <2> QED BY <2>1, <2>2
<1>7. ASSUME NEW u \in Caller, u # t PROVE Stage(u)' = Stage(u)
  <2>1. u \in Postponed' <=> u \in Postponed
    BY <1>6, <1>7
  <2>2. pc[u] \in CallPlace
    BY <1>3
  <2> QED BY <1>1, <1>4, <1>5, <1>7, <2>1, <2>2, StageKept
<1>8. Stage(t) = "running"
  BY <1>1, StagesNow DEF StagesHold, StageIs
<1>9. Stage(t)' = "answered" \/ Stage(t)' = "deferred"
  BY <1>3, <1>4, <1>5, <1>6, StagesNext DEF StagesHold, StageIs
<1>10. ServiceOf!Move(t, "running", "answered") \/ ServiceOf!Move(t, "running", "deferred")
  BY <1>7, <1>8, <1>9, StageMoves
<1> QED BY <1>10 DEF StagesStep, ServiceOf!Next, ServiceOf!Answer, ServiceOf!Defer

(* A body is over, a holder returns, a woken caller returns, drop goes on. *)
LEMMA PlainSteps ==
  ASSUME DelegatorIInv, NEW t \in Caller, LeaveLock(t) \/ Unlock(t) \/ Return(t) \/ Stop(t)
  PROVE  StagesStep
<1>0. QueueState /\ ConsumerState /\ CallerState /\ Lined /\ Role /\ Ends /\ Answered
  BY DEF DelegatorIInv
<1>1. /\ UNCHANGED <<backend, head, node, deferred, awake, kind>>
      /\ conPc' = conPc \/ (conPc = "parked" /\ conPc' = "loop")
  BY DEF LeaveLock, Unlock, Return, Stop, queue, consumer, WakeConsumer
<1>2. pc \in [Caller -> CallPlace]
  BY <1>0 DEF CallerState
<1>3. PICK to \in {"unlock", "follow", "out", "stop", "gone"} :
        /\ pc'[t] = to /\ (\A u \in Caller : u # t => pc'[u] = pc[u])
        /\ \/ pc[t] = "in" /\ to = "unlock"
           \/ pc[t] = "unlock" /\ to \in {"follow", "out", "stop"}
           \/ pc[t] = "woken" /\ to = "out"
           \/ pc[t] = "stop" /\ to \in {"stop", "gone"}
  <2>1. CASE Stop(t)
    <3>1. pc[t] = "stop" /\ (pc' = pc \/ pc' = [pc EXCEPT ![t] = "gone"])
      BY <2>1 DEF Stop, Become
    <3>2. pc'[t] \in {"stop", "gone"} /\ \A u \in Caller : u # t => pc'[u] = pc[u]
      <4>1. CASE pc' = pc
        BY <3>1, <4>1
      <4>2. CASE pc' = [pc EXCEPT ![t] = "gone"]
        BY <1>2, <4>2
      <4> QED BY <3>1, <4>1, <4>2
    <3> QED BY <3>1, <3>2
  <2>2. CASE LeaveLock(t) \/ Unlock(t) \/ Return(t)
    BY <2>2, <1>2 DEF LeaveLock, Unlock, Return, Become, AfterUnlock
  <2> QED BY <2>1, <2>2
<1>4. pc'[t] = to /\ \A u \in Caller : u # t => pc'[u] = pc[u]
  BY <1>3
<1>5. Handed' = Handed /\ Postponed' = Postponed /\ Serving' = Serving
  BY <1>1 DEF Handed, Postponed, Serving, Place
<1>6. \A u \in Caller : u # t => Stage(u)' = Stage(u)
  BY <1>1, <1>2, <1>4, <1>5, StageKept
<1>7. StageIs(t) /\ StageIs(t)'
  BY StagesNow, StagesNext DEF StagesHold
<1>8. CASE pc[t] = "in" /\ to = "unlock"
  <2>1. ServiceOf!Move(t, "in", "answered")
    BY <1>4, <1>6, <1>7, <1>8, StageMoves DEF StageIs
  <2> QED BY <2>1 DEF StagesStep, ServiceOf!Next, ServiceOf!Answer
<1>9. CASE (pc[t] = "unlock" /\ to \in {"out", "stop"}) \/ (pc[t] = "woken" /\ to = "out")
  <2>1. ServiceOf!Move(t, "answered", "out")
    BY <1>4, <1>6, <1>7, <1>9, StageMoves DEF StageIs
  <2> QED BY <2>1 DEF StagesStep, ServiceOf!Next, ServiceOf!Return
<1>10. CASE (pc[t] = "unlock" /\ to = "follow") \/ (pc[t] = "stop"
              /\ to \in {"stop", "gone"})
  <2>1. Stage(t)' = Stage(t)
    BY <1>4, <1>7, <1>10 DEF StageIs
  <2> QED BY <1>6, <2>1, StagesStay
<1> QED BY <1>3, <1>8, <1>9, <1>10

(* The holder leaves the lock to a caller that wants it, or to the         *)
(* consumer.                                                               *)
LEMMA LeavingSteps ==
  ASSUME DelegatorIInv, NEW t \in Caller, NEW to, Leaving(t, to),
         conPc' \in {"parked", "loop"},
         \/ Become(t, to)
         \/ CanFollow /\ Successor.sth # None /\ Switch(t, to, Successor.sth)
  PROVE  StagesStep
<1>0. QueueState /\ ConsumerState /\ CallerState /\ Lined /\ Role /\ Ends /\ Answered
  BY DEF DelegatorIInv
<1>1. /\ UNCHANGED <<deferred, awake, kind>> /\ pc[t] \in {"follow", "unlock_and_wait"}
      /\ pc[t] = "follow" => to \in {"out", "stop"}
      /\ pc[t] = "unlock_and_wait" => to = "asleep"
  BY DEF Leaving, AfterUnlock
<1>2. /\ t \in Actors /\ conPc = "parked" /\ (\A u \in Actors : u = t)
      /\ t \notin Handed /\ t \notin Queued
      /\ to = "asleep" => t \in Postponed
      /\ pc \in [Caller -> CallPlace]
  BY <1>0, Leaves DEF CallerState
<1>3. Handed' = Handed /\ Postponed' = Postponed /\ Serving = {} /\ Serving' = {}
  BY <1>1, <1>2 DEF Handed, Postponed, Serving
<1>4. StageIs(t) /\ StageIs(t)'
  BY StagesNow, StagesNext DEF StagesHold
<1>5. Stage(t) = IF to = "asleep" THEN "deferred" ELSE "answered"
  BY <1>1, <1>2, <1>4 DEF StageIs
<1>6. ASSUME pc'[t] = to PROVE Stage(t)' = IF to = "asleep" THEN "deferred" ELSE "out"
  BY <1>1, <1>2, <1>3, <1>4, <1>6 DEF StageIs
<1>7. CASE Become(t, to)
  <2>1. pc'[t] = to /\ \A u \in Caller : u # t => pc'[u] = pc[u]
    BY <1>2, <1>7 DEF Become
  <2>2. \A u \in Caller : u # t => Stage(u)' = Stage(u)
    BY <1>1, <1>2, <1>3, <2>1, StageKept
  <2>3. CASE to = "asleep"
    BY <1>5, <1>6, <2>1, <2>2, <2>3, StagesStay
  <2>4. CASE to # "asleep"
    <3>1. ServiceOf!Move(t, "answered", "out")
      BY <1>5, <1>6, <2>1, <2>2, <2>4, StageMoves
    <3> QED BY <3>1 DEF StagesStep, ServiceOf!Next, ServiceOf!Return
  <2> QED BY <2>3, <2>4
<1>8. CASE CanFollow /\ Successor.sth # None /\ Switch(t, to, Successor.sth)
  <2>1. PICK u \in Queued : Successor = Content(u)
    BY <1>0, <1>8, NextIsThere
  <2>2. Successor.sth = u /\ kind[u] # "call"
    BY <1>8, <2>1 DEF Content
  <2>3. u \in Caller /\ u # t /\ pc[u] = "asleep" /\ answer[u] = 0
    BY <1>2, <2>1 DEF Queued
  <2>4. u \notin Handed /\ u \notin Postponed /\ u \notin Serving
    BY <1>0, <2>3 DEF Answered, AnsweredOf
  <2>5. pc' = [v \in Caller |-> IF v = u THEN "in" ELSE IF v = t THEN to ELSE pc[v]]
    BY <1>8, <2>2 DEF Switch
  <2>6. pc'[u] = "in" /\ pc'[t] = to /\ \A v \in Caller : v # u /\ v # t => pc'[v] = pc[v]
    BY <2>3, <2>5
  <2>7. \A v \in Caller : v # u /\ v # t => Stage(v)' = Stage(v)
    BY <1>1, <1>2, <1>3, <2>6, StageKept
  <2>8. Stage(u) = "wants" /\ Stage(u)' = "in"
    BY <2>2, <2>3, <2>4, <2>6, StagesNow, StagesNext DEF StagesHold, StageIs
  <2>9. ServiceOf!Unused
    <3>1. \A v \in Caller : pc[v] \notin {"exec", "in"}
      BY <1>1, <1>2 DEF Actors, Acting
    <3> QED BY <3>1, <1>0, <1>3, NobodyServed
  <2>10. CASE to = "asleep"
    <3>1. ServiceOf!Move(u, "wants", "in")
      BY <1>5, <1>6, <2>3, <2>6, <2>7, <2>8, <2>10, StageMoves
    <3> QED BY <3>1, <2>3, <2>9 DEF StagesStep, ServiceOf!Next, ServiceOf!Begin
  <2>11. CASE to # "asleep"
    <3>1. Stage(t) = "answered" /\ Stage(t)' = "out"
      BY <1>5, <1>6, <2>6, <2>11
    <3>2. Stages' = [v \in Caller |-> IF v = u THEN "in"
                                      ELSE IF v = t THEN "out" ELSE Stages[v]]
      BY <2>7, <2>8, <3>1 DEF Stages
    <3>3. ServiceOf!HandOver(t, u)
      BY <2>3, <2>8, <2>9, <3>1, <3>2 DEF ServiceOf!HandOver, Stages
    <3> QED BY <3>3, <2>3 DEF StagesStep, ServiceOf!Next
  <2> QED BY <2>10, <2>11
<1> QED BY <1>7, <1>8

(* unlock with a successor.                                                *)
LEMMA FollowSteps ==
  ASSUME DelegatorIInv, NEW t \in Caller, Follow(t)
  PROVE  StagesStep
<1>1. Leaving(t, AfterUnlock(t)) /\ conPc = "parked"
  <2>1. Leaving(t, AfterUnlock(t))
    BY DEF DelegatorIInv, CallerState, Follow, Leaving
  <2> QED BY <2>1, Leaves
<1>2. conPc' \in {"parked", "loop"}
  BY <1>1 DEF Follow, WakeConsumer
<1>3. \/ Become(t, AfterUnlock(t))
      \/ CanFollow /\ Successor.sth # None /\ Switch(t, AfterUnlock(t), Successor.sth)
  BY DEF Follow
<1> QED BY <1>1, <1>2, <1>3, LeavingSteps

(* unlock_and_wait.                                                        *)
LEMMA UnlockAndWaitSteps ==
  ASSUME DelegatorIInv, NEW t \in Caller, UnlockAndWait(t)
  PROVE  StagesStep
<1>1. Leaving(t, "asleep") /\ conPc = "parked"
  <2>1. sth' \subseteq Caller
    BY DEF DelegatorIInv, CallerState, UnlockAndWait
  <2>2. Leaving(t, "asleep")
    BY <2>1 DEF UnlockAndWait, Leaving
  <2> QED BY <2>2, Leaves
<1>2. conPc' \in {"parked", "loop"}
  BY <1>1 DEF UnlockAndWait, WakeConsumer
<1>3. \/ Become(t, "asleep")
      \/ CanFollow /\ Successor.sth # None /\ Switch(t, "asleep", Successor.sth)
  BY DEF UnlockAndWait
<1> QED BY <1>1, <1>2, <1>3, LeavingSteps

(* The consumer begins the request of the first in line.                   *)
LEMMA ConsumerBeginSteps ==
  ASSUME DelegatorIInv, ConsumerBegin
  PROVE  StagesStep
<1>0. QueueState /\ ConsumerState /\ CallerState /\ Lined /\ Role /\ Ends /\ Answered
  BY DEF DelegatorIInv
<1>1. /\ node[Place(head)].req # None /\ conPc = "head" /\ conPc' = "exec"
      /\ UNCHANGED <<backend, head, node, deferred, awake, pc, kind>>
  BY DEF ConsumerBegin, Con, queue
<1>2. PICK s \in Queued : node[Place(head)] = Content(s)
  BY <1>0, <1>1, FirstIsThere DEF Todo
<1>3. /\ s \in Caller /\ pc[s] = "asleep" /\ answer[s] = 0 /\ s # None
           /\ pc \in [Caller -> CallPlace]
  BY <1>0, DelegatorAssumption DEF Queued, CallerState
<1>4. kind[s] = "call" /\ node[Place(head)].req = s
  BY <1>1, <1>2 DEF Content
<1>5. Postponed' = Postponed /\ Handed' = Handed /\ Serving' = {s} /\ Serving = {}
  BY <1>1, <1>3, <1>4 DEF Postponed, Handed, Serving, Place
<1>6. s \notin Handed /\ s \notin Postponed
  BY <1>0, <1>3 DEF Answered, AnsweredOf
<1>7. \A u \in Caller : u # s => Stage(u)' = Stage(u)
  BY <1>1, <1>3, <1>5, StageKept
<1>8. Stage(s) = "asked" /\ Stage(s)' = "running"
  BY <1>1, <1>3, <1>4, <1>5, <1>6, StagesNow, StagesNext DEF StagesHold, StageIs
<1>9. ServiceOf!Move(s, "asked", "running")
  BY <1>3, <1>7, <1>8, StageMoves
<1>10. ServiceOf!Unused
  <2>1. Actors = {}
    BY <1>0, <1>1 DEF Role
  <2>2. \A u \in Caller : pc[u] \notin {"exec", "in"}
    BY <2>1 DEF Actors, Acting
  <2> QED BY <2>2, <1>0, <1>5, NobodyServed
<1> QED BY <1>3, <1>9, <1>10 DEF StagesStep, ServiceOf!Next, ServiceOf!Begin

(* The request is answered or deferred.                                    *)
LEMMA ConsumerExecuteSteps ==
  ASSUME DelegatorIInv, ConsumerExecute
  PROVE  StagesStep
<1>0. QueueState /\ ConsumerState /\ CallerState /\ Lined /\ Role /\ Ends /\ Answered
  BY DEF DelegatorIInv
<1> DEFINE s == node[Place(head)].req
<1>1. /\ conPc = "exec" /\ conPc' = "loop"
      /\ \/ Notify(s) /\ UNCHANGED deferred
         \/ deferred' = Append(deferred, s) /\ UNCHANGED <<pc, sth>>
      /\ UNCHANGED <<awake, kind>>
  BY DEF ConsumerExecute, Con, queue
<1>2. PICK t \in Caller : t = s /\ Serving = {t}
  BY <1>0, <1>1 DEF Answered, Serving
<1>3. pc[t] = "asleep" /\ t \notin Postponed /\ t \notin Handed
        /\ pc \in [Caller -> CallPlace]
  <2>1. t \in Serving
    BY <1>2
  <2>2. pc[t] = "asleep" /\ t \notin Postponed
    BY <2>1, <1>0 DEF Answered, AnsweredOf
  <2>3. t \notin Handed
    BY <1>0, <1>1, DelegatorAssumption DEF Handed, ConsumerState
  <2> QED BY <1>0, <2>2, <2>3 DEF CallerState
<1>4. PICK to \in {"woken", "asleep"} :
        /\ pc'[t] = to /\ (\A u \in Caller : u # t => pc'[u] = pc[u])
        /\ deferred' = IF to = "woken" THEN deferred ELSE Append(deferred, t)
  <2>1. CASE Notify(s) /\ UNCHANGED deferred
    <3>1. pc' = [pc EXCEPT ![t] = "woken"] /\ deferred' = deferred
      BY <2>1, <1>2 DEF Notify, Become
    <3>2. pc'[t] = "woken" /\ \A u \in Caller : u # t => pc'[u] = pc[u]
      BY <3>1, <1>3
    <3> QED BY <3>1, <3>2
  <2>2. CASE deferred' = Append(deferred, s) /\ UNCHANGED <<pc, sth>>
    <3>1. pc'[t] = "asleep" /\ \A u \in Caller : u # t => pc'[u] = pc[u]
      BY <2>2, <1>3
    <3>2. deferred' = Append(deferred, t)
      BY <2>2, <1>2
    <3> QED BY <3>1, <3>2
  <2> QED BY <1>1, <2>1, <2>2
<1> HIDE DEF s
<1>5. pc'[t] = to /\ \A u \in Caller : u # t => pc'[u] = pc[u]
  BY <1>4
<1>6. Handed' = Handed /\ Serving' = {}
  BY <1>1 DEF Handed, Serving
<1>7. Postponed' = IF to = "woken" THEN Postponed ELSE Postponed \cup {t}
  <2>1. CASE to = "woken"
    <3>1. deferred' = deferred
      BY <2>1, <1>4
    <3> QED BY <3>1, <2>1 DEF Postponed
  <2>2. CASE to # "woken"
    <3>1. deferred' = Append(deferred, t)
      BY <2>2, <1>4
    <3> QED BY <3>1, <2>2, <1>0, <1>3, IsPostponed DEF ConsumerState
  <2> QED BY <2>1, <2>2
<1>8. ASSUME NEW u \in Caller, u # t PROVE Stage(u)' = Stage(u)
  <2>1. (u \in Postponed' <=> u \in Postponed) /\ (u \in Serving' <=> u \in Serving)
    BY <1>2, <1>6, <1>7, <1>8
  <2> QED BY <2>1, <1>1, <1>3, <1>5, <1>6, <1>8, StageKept
<1>9. Stage(t) = "running"
  <2>1. t \in Serving
    BY <1>2
  <2> QED BY <2>1, <1>3, StagesNow DEF StagesHold, StageIs
<1>10. Stage(t)' = "answered" \/ Stage(t)' = "deferred"
  <2>1. CASE to = "woken"
    BY <2>1, <1>5, StagesNext DEF StagesHold, StageIs
  <2>2. CASE to = "asleep"
    BY <2>2, <1>3, <1>5, <1>6, <1>7, StagesNext DEF StagesHold, StageIs
  <2> QED BY <2>1, <2>2
<1>11. ServiceOf!Move(t, "running", "answered") \/ ServiceOf!Move(t, "running", "deferred")
  BY <1>8, <1>9, <1>10, StageMoves
<1> QED BY <1>11 DEF StagesStep, ServiceOf!Next, ServiceOf!Answer, ServiceOf!Defer

(* The consumer gives the lock to the first in line.                       *)
LEMMA ConsumerSwapSteps ==
  ASSUME DelegatorIInv, ConsumerSwap
  PROVE  StagesStep
<1>0. QueueState /\ ConsumerState /\ CallerState /\ Lined /\ Role /\ Ends /\ Answered
  BY DEF DelegatorIInv
<1>1. /\ node[Place(head)].req = None /\ conPc = "head" /\ conPc' = "parked"
      /\ pc' = [pc EXCEPT ![node[Place(head)].sth] = "in"]
      /\ UNCHANGED <<deferred, awake, kind>>
  BY DEF ConsumerSwap, Con, Become, queue
<1>2. PICK s \in Queued : node[Place(head)] = Content(s)
  BY <1>0, <1>1, FirstIsThere DEF Todo
<1>3. /\ s \in Caller /\ pc[s] = "asleep" /\ answer[s] = 0 /\ s # None
           /\ pc \in [Caller -> CallPlace]
  BY <1>0, DelegatorAssumption DEF Queued, CallerState
<1>4. kind[s] # "call" /\ node[Place(head)].sth = s
  BY <1>1, <1>2, <1>3 DEF Content
<1>5. pc'[s] = "in" /\ (\A u \in Caller : u # s => pc'[u] = pc[u])
  BY <1>1, <1>3, <1>4
<1>6. Postponed' = Postponed /\ Handed' = Handed /\ Serving' = {} /\ Serving = {}
  BY <1>1 DEF Postponed, Handed, Serving
<1>7. s \notin Handed /\ s \notin Postponed
  BY <1>0, <1>3 DEF Answered, AnsweredOf
<1>8. \A u \in Caller : u # s => Stage(u)' = Stage(u)
  BY <1>1, <1>3, <1>5, <1>6, StageKept
<1>9. Stage(s) = "wants" /\ Stage(s)' = "in"
  BY <1>1, <1>3, <1>4, <1>5, <1>6, <1>7, StagesNow, StagesNext DEF StagesHold, StageIs
<1>10. ServiceOf!Move(s, "wants", "in")
  BY <1>3, <1>8, <1>9, StageMoves
<1>11. ServiceOf!Unused
  <2>1. Actors = {}
    BY <1>0, <1>1 DEF Role
  <2>2. \A u \in Caller : pc[u] \notin {"exec", "in"}
    BY <2>1 DEF Actors, Acting
  <2> QED BY <2>2, <1>0, <1>6, NobodyServed
<1> QED BY <1>3, <1>10, <1>11 DEF StagesStep, ServiceOf!Next, ServiceOf!Begin

(* A deferred call is completed.                                           *)
LEMMA ConsumerProgressSteps ==
  ASSUME DelegatorIInv, ConsumerProgress
  PROVE  StagesStep
<1>0. QueueState /\ ConsumerState /\ CallerState /\ Lined /\ Role /\ Ends /\ Answered
  BY DEF DelegatorIInv
<1>1. /\ deferred # <<>> /\ conPc = "progress" /\ awake' = Head(deferred)
           /\ deferred' = Tail(deferred)
      /\ conPc' = "notify" /\ UNCHANGED <<pc, kind>>
  BY DEF ConsumerProgress, IsActive, queue, callers
<1>2. awake' \in Postponed /\ Postponed' = Postponed \ {awake'}
  BY <1>0, <1>1, FirstCompletes DEF ConsumerState
<1>3. PICK t \in Caller : t = awake'
  BY <1>2 DEF Postponed
<1>4. pc[t] \in {"asleep", "unlock_and_wait"} /\ pc \in [Caller -> CallPlace]
  BY <1>0, <1>2, <1>3 DEF Answered, AnsweredOf, CallerState
<1>5. Handed' = {t} /\ Handed = {} /\ Serving' = {} /\ Serving = {}
  BY <1>0, <1>1, <1>3, DelegatorAssumption DEF Handed, Serving, ConsumerState
<1>6. ASSUME NEW u \in Caller, u # t PROVE Stage(u)' = Stage(u)
  <2>1. (u \in Postponed' <=> u \in Postponed) /\ (u \in Handed' <=> u \in Handed)
    BY <1>2, <1>3, <1>5, <1>6
  <2> QED BY <2>1, <1>1, <1>4, <1>5, StageKept
<1>7. Stage(t) = "deferred"
  BY <1>2, <1>3, <1>4, <1>5, StagesNow DEF StagesHold, StageIs
<1>8. Stage(t)' = "answered"
  BY <1>1, <1>4, <1>5, StagesNext DEF StagesHold, StageIs
<1>9. ServiceOf!Move(t, "deferred", "answered")
  BY <1>6, <1>7, <1>8, StageMoves
<1> QED BY <1>9 DEF StagesStep, ServiceOf!Next, ServiceOf!Complete

(* Its caller is woken.                                                    *)
LEMMA ConsumerNotifySteps ==
  ASSUME DelegatorIInv, ConsumerNotify
  PROVE  StagesStep
<1>0. QueueState /\ ConsumerState /\ CallerState /\ Lined /\ Role /\ Ends /\ Answered
  BY DEF DelegatorIInv
<1>1. /\ conPc = "notify" /\ conPc' # "exec" /\ pc' = [pc EXCEPT ![awake] = "woken"]
      /\ awake' = None /\ UNCHANGED <<deferred, kind>>
  BY DEF ConsumerNotify, Con, Notify, Become, queue
<1>2. PICK t \in Caller : t = awake
  BY <1>0, <1>1 DEF ConsumerState
<1>3. t \in Handed /\ pc \in [Caller -> CallPlace]
  BY <1>0, <1>2 DEF Handed, CallerState
<1>4. pc[t] = "asleep"
  BY <1>0, <1>3 DEF Answered, AnsweredOf
<1>5. pc'[t] = "woken" /\ (\A u \in Caller : u # t => pc'[u] = pc[u])
  BY <1>1, <1>2, <1>3
<1>6. Handed = {t} /\ Handed' = {} /\ Postponed' = Postponed /\ Serving' = {}
        /\ Serving = {}
  BY <1>1, <1>2, DelegatorAssumption DEF Handed, Postponed, Serving
<1>7. \A u \in Caller : u # t => Stage(u)' = Stage(u)
  BY <1>1, <1>3, <1>5, <1>6, StageKept
<1>8. Stage(t) = "answered" /\ Stage(t)' = "answered"
  BY <1>3, <1>4, <1>5, StagesNow, StagesNext DEF StagesHold, StageIs
<1> QED BY <1>7, <1>8, StagesStay

(* Every step of the delegator is one of Delegation, or leaves the calls   *)
(* where they are.                                                         *)
LEMMA DelegatorCalls ==
  ASSUME DelegatorIInv, [DNext]_dvars
  PROVE  StagesStep
<1>1. ASSUME NEW t \in Caller, Proceed(t) PROVE StagesStep
  BY <1>1, QuietCallerSteps, ExecuteOwnSteps, PlainSteps, FollowSteps,
     UnlockAndWaitSteps
  DEF Proceed
<1>2. CASE Consume
  BY <1>2, QuietConsumerSteps, ConsumerBeginSteps, ConsumerExecuteSteps, ConsumerSwapSteps,
     ConsumerNotifySteps DEF Consume
<1>3. CASE UNCHANGED dvars
  <2>1. UNCHANGED <<backend, head, node, conPc, deferred, awake, pc, kind>> /\ CallerState
    BY <1>3 DEF dvars, queue, consumer, callers, DelegatorIInv
  <2>2. Handed' = Handed /\ Postponed' = Postponed /\ Serving' = Serving
    BY <2>1 DEF Handed, Postponed, Serving, Place
  <2> QED BY <2>1, <2>2, QuietKeep
<1> QED BY <1>1, <1>2, <1>3, ClaimSteps, ConsumerProgressSteps DEF DNext

(* The delegator implements Delegation, with either queue: each request is *)
(* executed once, by a caller or by the consumer, alone, is answered once, *)
(* and its caller returns after that; a with_lock body has the resource to *)
(* itself.                                                                 *)
THEOREM DelegatorRefinement == DSpec => ImplementsDelegation
<1>1. DInit => ServiceOf!Init
  BY DEF DInit, ServiceOf!Init, Stage
<1>2. DelegatorIInv /\ [DNext]_dvars => [ServiceOf!Next]_[t \in Caller |-> Stage(t)]
  BY DelegatorCalls DEF StagesStep, Stages
<1> QED BY <1>1, <1>2, DelegatorInvariant, PTL
       DEF DSpec, ImplementsDelegation, ServiceOf!Spec
=============================================================================
