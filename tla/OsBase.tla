------------------------------- MODULE OsBase --------------------------------
(***************************************************************************)
(* The base system of OS threads (src/src/os.rs): OsSuspendedThread, the   *)
(* slot in which a thread parks; OsDelegator, whose calls run under a      *)
(* mutex and whose thread completes the deferred ones; and OsTls, whose    *)
(* slots get their index at the first use, as do the keys of UltTls        *)
(* (stackful/tls.rs). Mutexes and condition variables are those of std; a  *)
(* wait on one may return by itself.                                       *)
(*                                                                         *)
(* A parker is made for each wait and named after its thread: what is left *)
(* to do on an old one when its thread waits again is a signal that nobody *)
(* waits for. A behaviour is about one of these.                           *)
(***************************************************************************)
EXTENDS Integers, FiniteSets

CONSTANTS
  OsThread,   \* threads, each with a slot of its own
  OsConsumer, \* the thread of the delegator
  Anchor,     \* what OsTls slots are anchored to
  MaxIndex,   \* OS_TLS_MAX_SLOTS
  MaxWaits,   \* bound: waits and delegated calls of a behaviour
  Unset       \* no thread, no anchor, no index

ASSUME OsAssumption ==
  /\ MaxIndex \in Nat /\ MaxWaits \in Nat
  /\ OsConsumer \notin OsThread /\ Unset \notin OsThread \cup {OsConsumer} \cup Anchor \cup Nat

VARIABLES
  base,      \* what the behaviour is about: "slots", "delegator", "tls" (OsTls),
             \* "ulttls" (UltTls)
  thr,       \* where a thread is: [pc, how]
  waits,     \* waits so far
  inner,     \* threads whose slot holds their parker
  osReady,      \* threads whose parker is ready
  taken,     \* taken[n]: the parker that n has taken out of a slot, how far
  mutex,     \* who holds the delegator's mutex
  deferred,  \* the callers whose calls the consumer keeps
  loop,      \* consumer_loop: "top", "waits", "notifies", "exited"
  osFinished,
  closer,    \* the delegator's drop: "open", "notify", "join", "dropped"
  indexOf, nextIndex,   \* the anchors' indices, NEXT_OS_TLS_SLOT
  claim,     \* claim[t]: the assign_slot that t is in
  got        \* ghost: the indices that threads have used for an anchor

slotwords == <<inner, osReady, taken>>
delegatorwords == <<mutex, deferred, loop, osFinished, closer>>
tlswords == <<indexOf, nextIndex, claim, got>>
osbasevars == <<base, thr, waits, slotwords, delegatorwords, tlswords>>

Out == [pc |-> "out", how |-> "none"]
NoParker == [of |-> Unset, step |-> "none"]
NoClaim == [at |-> Unset, step |-> "none", index |-> Unset]

OsInit ==
  /\ base \in {"slots", "delegator", "tls", "ulttls"}
  /\ thr = [t \in OsThread |-> Out] /\ waits = 0
  /\ inner = {} /\ osReady = {} /\ taken = [n \in OsThread \cup {OsConsumer} |-> NoParker]
  /\ mutex = Unset /\ deferred = {} /\ loop = "top" /\ osFinished = FALSE /\ closer = "open"
  /\ indexOf = [a \in Anchor |-> Unset] /\ nextIndex = 0
  /\ claim = [t \in OsThread |-> NoClaim] /\ got = [a \in Anchor |-> {}]

IsAt(t, pc) == thr[t].pc = pc
GoesTo(t, pc) == thr' = [thr EXCEPT ![t].pc = pc]

(* notify holds the slot's lock until it has signalled; the delegator's    *)
(* thread has moved the slot's contents out and locks its own copy.        *)
SlotLocked(t) == \E n \in OsThread : taken[n].of = t

-----------------------------------------------------------------------------
(* wait_with, wait_with_cond and swap: the parker is published, f runs,    *)
(* and the thread sleeps until the parker is ready.                        *)
BeginWait(t, how) ==
  /\ base = "slots" /\ thr[t] = Out /\ taken[t] = NoParker /\ waits < MaxWaits
  /\ waits' = waits + 1
  /\ thr' = [thr EXCEPT ![t] = [pc |-> "publish", how |-> how]]
  /\ UNCHANGED <<base, slotwords, delegatorwords, tlswords>>

PublishParker(t) ==
  /\ IsAt(t, "publish") /\ ~ SlotLocked(t)
  /\ inner' = inner \cup {t}
  /\ GoesTo(t, "f")
  /\ UNCHANGED <<base, waits, osReady, taken, delegatorwords, tlswords>>

(* f may do anything; wait_with_cond asks it whether to wait.              *)
RunWaitF(t) ==
  /\ IsAt(t, "f")
  /\ \/ thr[t].how \in {"wait", "cond"} /\ GoesTo(t, "check")
     \/ thr[t].how = "cond" /\ GoesTo(t, "cancel")
  /\ UNCHANGED <<base, waits, slotwords, delegatorwords, tlswords>>

(* A wait that is cancelled takes its own parker back, if it still can.    *)
CancelWait(t) ==
  /\ IsAt(t, "cancel") /\ ~ SlotLocked(t)
  /\ IF t \in inner THEN thr' = [thr EXCEPT ![t] = Out] ELSE GoesTo(t, "check")
  /\ inner' = inner \ {t}
  /\ UNCHANGED <<base, waits, osReady, taken, delegatorwords, tlswords>>

CheckReady(t) ==
  /\ IsAt(t, "check") /\ taken[t] = NoParker
  /\ IF t \notin osReady THEN GoesTo(t, "asleep")
     ELSE IF thr[t].how = "cond" THEN thr' = [thr EXCEPT ![t] = Out]
     ELSE GoesTo(t, "reset")
  /\ osReady' = IF thr'[t] = Out THEN osReady \ {t} ELSE osReady
  /\ UNCHANGED <<base, waits, inner, taken, delegatorwords, tlswords>>

WakesByItself(t) ==
  /\ IsAt(t, "asleep") /\ GoesTo(t, "check")
  /\ UNCHANGED <<base, waits, slotwords, delegatorwords, tlswords>>

EmptySlot(t) ==
  /\ IsAt(t, "reset") /\ ~ SlotLocked(t)
  /\ inner' = inner \ {t} /\ osReady' = osReady \ {t}
  /\ thr' = [thr EXCEPT ![t] = Out]
  /\ UNCHANGED <<base, waits, taken, delegatorwords, tlswords>>

(* notify: whatever parker is in the slot is taken ...                     *)
TakeParker(n, s) ==
  /\ ~ SlotLocked(s)
  /\ taken' = [taken EXCEPT ![n] = IF s \in inner THEN [of |-> s, step |-> "ready"] ELSE @]
  /\ inner' = inner \ {s}
  /\ UNCHANGED <<base, waits, osReady, delegatorwords, tlswords>>

OsNotify(n, s) ==
  /\ base = "slots" /\ thr[n] = Out /\ taken[n] = NoParker /\ TakeParker(n, s)
  /\ UNCHANGED thr

(* (swap runs it as its f)                                                 *)
OsSwapNotify(t, s) ==
  /\ IsAt(t, "f") /\ thr[t].how = "swap" /\ TakeParker(t, s) /\ GoesTo(t, "check")

(* ... made ready ...                                                      *)
SetReady(n) ==
  /\ taken[n].step = "ready"
  /\ osReady' = osReady \cup {taken[n].of}
  /\ taken' = [taken EXCEPT ![n].step = "signal"]
  /\ UNCHANGED <<base, thr, waits, inner, delegatorwords, tlswords>>

(* ... and signalled.                                                      *)
Signal(n) ==
  LET t == taken[n].of IN
  /\ taken[n].step = "signal"
  /\ IF IsAt(t, "asleep") /\ t \in osReady THEN GoesTo(t, "check") ELSE UNCHANGED thr
  /\ taken' = [taken EXCEPT ![n] = NoParker]
  /\ loop' = IF n = OsConsumer THEN "top" ELSE loop
  /\ UNCHANGED <<base, waits, inner, osReady, mutex, deferred, osFinished, closer, tlswords>>

-----------------------------------------------------------------------------
(* OsDelegator::call: the request runs under the mutex. If the consumer    *)
(* keeps it, the caller publishes its parker first, and then lets go of    *)
(* the mutex and tells the delegator's thread.                             *)
Execute(t) ==
  /\ base = "delegator" /\ thr[t] = Out /\ waits < MaxWaits
  /\ mutex = Unset /\ closer = "open"
  /\ mutex' = t /\ deferred' = deferred \cup {t}
  /\ waits' = waits + 1
  /\ thr' = [thr EXCEPT ![t] = [pc |-> "publish", how |-> "call"]]
  /\ UNCHANGED <<base, slotwords, loop, osFinished, closer, tlswords>>

ReleaseMutex(t) ==
  /\ IsAt(t, "f") /\ thr[t].how = "call"
  /\ mutex' = Unset
  /\ GoesTo(t, "tell")
  /\ UNCHANGED <<base, waits, slotwords, deferred, loop, osFinished, closer, tlswords>>

NotifyLoop == loop' = IF loop = "waits" THEN "top" ELSE loop

TellLoop(t) ==
  /\ IsAt(t, "tell") /\ NotifyLoop
  /\ GoesTo(t, "check")
  /\ UNCHANGED <<base, waits, slotwords, mutex, deferred, osFinished, closer, tlswords>>

(* consumer_loop, from lock to unlock: end, wait for something to do, or   *)
(* let the consumer hand back a call that has completed.                   *)
LoopEnds ==
  /\ base = "delegator" /\ loop = "top" /\ mutex = Unset
  /\ osFinished /\ loop' = "exited"
  /\ UNCHANGED <<base, thr, waits, slotwords, mutex, deferred, osFinished, closer, tlswords>>

LoopWaits ==
  /\ base = "delegator" /\ loop = "top" /\ mutex = Unset
  /\ ~ osFinished /\ deferred = {}
  /\ loop' = "waits"
  /\ UNCHANGED <<base, thr, waits, slotwords, mutex, deferred, osFinished, closer, tlswords>>

LoopWakesByItself ==
  /\ loop = "waits" /\ loop' = "top"
  /\ UNCHANGED <<base, thr, waits, slotwords, mutex, deferred, osFinished, closer, tlswords>>

LoopProgress ==
  /\ base = "delegator" /\ loop = "top" /\ mutex = Unset /\ ~ osFinished
  /\ \E t \in deferred :
       /\ deferred' = deferred \ {t}
       /\ taken' = [taken EXCEPT ![OsConsumer] = [of |-> t, step |-> "move"]]
  /\ loop' = "notifies"
  /\ UNCHANGED <<base, thr, waits, inner, osReady, mutex, osFinished, closer, tlswords>>

(* Ready::notify moves the parker out of the caller's frame, which may be  *)
(* gone as soon as the parker is ready.                                    *)
MoveParker ==
  LET n == OsConsumer
      t == taken[n].of IN
  /\ taken[n].step = "move"
  /\ taken' = [taken EXCEPT ![n] = IF t \in inner THEN [@ EXCEPT !.step = "ready"] ELSE NoParker]
  /\ loop' = IF t \in inner THEN loop ELSE "top"
  /\ inner' = inner \ {t}
  /\ UNCHANGED <<base, thr, waits, osReady, mutex, deferred, osFinished, closer, tlswords>>

(* The delegator is dropped, when it has no callers.                       *)
SetFinished ==
  /\ base = "delegator" /\ closer = "open" /\ mutex = Unset /\ \A t \in OsThread : thr[t] = Out
  /\ osFinished' = TRUE /\ closer' = "notify"
  /\ UNCHANGED <<base, thr, waits, slotwords, mutex, deferred, loop, tlswords>>

TellFinished ==
  /\ closer = "notify" /\ NotifyLoop /\ closer' = "join"
  /\ UNCHANGED <<base, thr, waits, slotwords, mutex, deferred, osFinished, tlswords>>

JoinLoop ==
  /\ closer = "join" /\ loop = "exited" /\ closer' = "dropped"
  /\ UNCHANGED <<base, thr, waits, slotwords, mutex, deferred, loop, osFinished, tlswords>>

-----------------------------------------------------------------------------
(* OsTls::slot and UltTls::key: the anchor has its index, or the thread    *)
(* assigns it.                                                             *)
Use(t, a) == got' = [got EXCEPT ![a] = @ \cup {indexOf[a]}]

FindSlot(t, a) ==
  /\ base \in {"tls", "ulttls"} /\ claim[t] = NoClaim
  /\ IF indexOf[a] # Unset
     THEN Use(t, a) /\ UNCHANGED claim
     ELSE claim' = [claim EXCEPT ![t] = [at |-> a, step |-> "load", index |-> Unset]]
          /\ UNCHANGED got
  /\ UNCHANGED <<base, thr, waits, slotwords, delegatorwords, indexOf, nextIndex>>

LoadIndex(t) ==
  LET a == claim[t].at IN
  /\ claim[t].step = "load"
  /\ IF indexOf[a] # Unset
     THEN Use(t, a) /\ claim' = [claim EXCEPT ![t] = NoClaim]
     ELSE claim' = [claim EXCEPT ![t].step = "claim"] /\ UNCHANGED got
  /\ UNCHANGED <<base, thr, waits, slotwords, delegatorwords, indexOf, nextIndex>>

(* (OsTls asserts that the index is below the maximum)                     *)
ClaimIndex(t) ==
  /\ claim[t].step = "claim" /\ (base = "tls" => nextIndex < MaxIndex)
  /\ claim' = [claim EXCEPT ![t].step = "publish", ![t].index = nextIndex]
  /\ nextIndex' = nextIndex + 1
  /\ UNCHANGED <<base, thr, waits, slotwords, delegatorwords, indexOf, got>>

(* The exchange: the loser's index is wasted, and it looks again.          *)
PublishIndex(t) ==
  LET a == claim[t].at IN
  /\ claim[t].step = "publish"
  /\ IF indexOf[a] = Unset
     THEN /\ indexOf' = [indexOf EXCEPT ![a] = claim[t].index]
          /\ got' = [got EXCEPT ![a] = @ \cup {claim[t].index}]
          /\ claim' = [claim EXCEPT ![t] = NoClaim]
     ELSE claim' = [claim EXCEPT ![t].step = "load"] /\ UNCHANGED <<indexOf, got>>
  /\ UNCHANGED <<base, thr, waits, slotwords, delegatorwords, nextIndex>>

-----------------------------------------------------------------------------
OsBaseNext ==
  \/ \E t \in OsThread :
       \/ \E how \in {"wait", "cond", "swap"} : BeginWait(t, how)
       \/ PublishParker(t) \/ RunWaitF(t) \/ CancelWait(t) \/ CheckReady(t) \/ WakesByItself(t)
       \/ EmptySlot(t)
       \/ \E s \in OsThread : OsNotify(t, s) \/ OsSwapNotify(t, s)
       \/ Execute(t) \/ ReleaseMutex(t) \/ TellLoop(t)
       \/ \E a \in Anchor : FindSlot(t, a)
       \/ LoadIndex(t) \/ ClaimIndex(t) \/ PublishIndex(t)
  \/ \E n \in OsThread \cup {OsConsumer} : SetReady(n) \/ Signal(n)
  \/ LoopEnds \/ LoopWaits \/ LoopWakesByItself \/ LoopProgress \/ MoveParker
  \/ SetFinished \/ TellFinished \/ JoinLoop

-----------------------------------------------------------------------------
(* Properties.                                                             *)

Committed(t) == thr[t].pc \in {"f", "cancel", "tell", "check", "asleep"}
Holds(n, t, steps) == taken[n].of = t /\ taken[n].step \in steps

(* No notify is lost, and none is spent on a wait that was cancelled: a    *)
(* thread that waits is in its slot, or told, or about to be told; a parker*)
(* that was taken out is one whose thread waits; and a thread that sleeps  *)
(* though it was told is about to be signalled.                            *)
NoNotifyLost ==
  \A t \in OsThread :
    LET coming == \E n \in OsThread \cup {OsConsumer} : Holds(n, t, {"ready"}) IN
    /\ Committed(t) => (t \in inner \/ t \in osReady \/ coming)
    /\ coming => Committed(t) /\ t \notin osReady
    /\ thr[t] = Out => t \notin osReady
    /\ IsAt(t, "asleep") /\ t \in osReady =>
         \E n \in OsThread \cup {OsConsumer} : Holds(n, t, {"signal"})

(* A call that was kept waits for its answer: its frame is there, with the *)
(* parker in it, until the delegator's thread has moved the parker out.    *)
CallersStay ==
  \A t \in OsThread :
    /\ t \in deferred => (Committed(t) \/ IsAt(t, "publish")) /\ (t \in inner \/ mutex = t)
    /\ Holds(OsConsumer, t, {"move"}) => Committed(t) /\ t \in inner

(* The delegator's thread does not sleep while there is something to do    *)
(* that nobody will tell it of.                                            *)
LoopKnows ==
  loop = "waits" /\ (deferred # {} \/ osFinished) =>
    \/ closer = "notify"
    \/ \E t \in OsThread : thr[t].how = "call" /\ thr[t].pc \in {"publish", "f", "tell"}

(* All threads use the same index for an anchor, and no two anchors share  *)
(* one.                                                                    *)
IndicesAgree ==
  \A a \in Anchor :
    /\ got[a] \subseteq {indexOf[a]} /\ Unset \notin got[a]
    /\ \A b \in Anchor \ {a} : indexOf[a] # Unset => indexOf[a] # indexOf[b]

(* Threads that park in the base system are woken, and their thread-local  *)
(* slots are their own.                                                    *)
OsInv == NoNotifyLost /\ CallersStay /\ LoopKnows /\ IndicesAgree

OsBaseSpec == OsInit /\ [][OsBaseNext]_osbasevars
=============================================================================
