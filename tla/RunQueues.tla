----------------------------- MODULE RunQueues -----------------------------
(***************************************************************************)
(* The queues tasks wait in (src/src/resumable/common/deque.rs,            *)
(* external_queue.rs, dispatch.rs, steal.rs): HybridRunQueue and           *)
(* SpinRunQueue on the workers, StealPathQueue and PollerUltQueue for      *)
(* threads outside the pool, searched in the order of StandardDispatch.    *)
(*                                                                         *)
(* The deferred half of a hybrid queue and the StealPathQueue are locked   *)
(* lists behind a flag that is read without the lock: a pusher unlocks     *)
(* first and sets the flag afterwards, a taker clears it under the lock.   *)
(* A main queue is one sequence whose head is the owner's end; the poller  *)
(* of PollerUltQueue is a task like the others, that drains, forwards,     *)
(* checks for the stop and yields.                                         *)
(***************************************************************************)
EXTENDS Naturals, FiniteSets, SequencesExt

CONSTANTS
  Runner,    \* the workers
  Outside,   \* a thread outside the pool
  Item,      \* tasks
  Service,   \* PollerUltQueue::run_service, as a task
  First      \* the worker that starts

ASSUME QueueAssumption ==
  /\ IsFiniteSet(Runner) /\ IsFiniteSet(Item)
  /\ First \in Runner /\ Outside \notin Runner
  /\ Service \notin Item /\ "nobody" \notin Item \cup {Service}

ExtQ == "external"
Listed == Runner \cup {ExtQ}   \* the locked lists: a worker's deferred list, the external queue

VARIABLES
  design,    \* "hybrid" with StealPathQueue, or "spin" with PollerUltQueue
  mainq,     \* HybridRunQueue::main, or the one list of SpinRunQueue
  list,      \* Deferred::q, StealPathQueue::inner, PollerUltQueue::inner
  nonEmpty,  \* their non_empty flags
  held,      \* who holds a list's lock across steps
  at,        \* what each thread does: [op, plan, q]
  task,      \* the task a worker runs
  pend,      \* run_service: drained items it has still to forward
  fresh,     \* items nobody has pushed yet
  ran,       \* how often an item ran
  stop       \* PollerUltQueue::stop

store   == <<mainq, list, nonEmpty, held>>
service == <<pend, stop>>
qvars   == <<design, store, at, task, service, fresh, ran>>

Nobody == "nobody"
Op(o, plan, q) == [op |-> o, plan |-> plan, q |-> q]
Running == Op("run", <<>>, ExtQ)
Others(w) == SetToSeq(Runner \ {w})

(* TaskSources::local: main first, deferred next.  SpinRunQueue has one.   *)
Local(w) == IF design = "hybrid" THEN <<<<"main", w>>, <<"list", w>>>> ELSE <<<<"main", w>>>>

(* sweep: each other worker once; HybridStealer asks deferred first.       *)
Sweep(w) ==
  LET v == Others(w) IN
  IF design = "hybrid"
  THEN [k \in 1 .. 2 * Len(v) |-> <<IF k % 2 = 1 THEN "list" ELSE "main", v[(k + 1) \div 2]>>]
  ELSE [k \in 1 .. Len(v) |-> <<"main", v[k]>>]

(* try_pop of the external queue; PollerUltQueue's finds nothing.          *)
External == IF design = "hybrid" THEN <<<<"list", ExtQ>>>> ELSE <<>>

(* StandardDispatch::next.                                                 *)
LoopPlan(w) == Local(w) \o Sweep(w) \o External
SwitchPlan(w) == External \o Local(w)

QInit ==
  /\ design \in {"hybrid", "spin"}
  /\ mainq = [w \in Runner |-> IF w = First /\ design = "spin" THEN <<Service>> ELSE <<>>]
  /\ list = [q \in Listed |-> <<>>]
  /\ nonEmpty = [q \in Listed |-> FALSE]
  /\ held = [q \in Listed |-> Nobody]
  /\ \E i \in Item :
       /\ fresh = Item \ {i}
       /\ task = [w \in Runner |-> IF w = First THEN i ELSE Nobody]
  /\ at = [t \in Runner \cup {Outside} |->
             IF t \in Runner \ {First} THEN Op("look", LoopPlan(t), ExtQ) ELSE Running]
  /\ pend = <<>>
  /\ ran = [i \in Item |-> 0]
  /\ stop = FALSE

-----------------------------------------------------------------------------
(* Pushing.                                                                *)

(* Deferred::push and StealPathQueue::push, under the lock.                *)
Insert(t, q, i) ==
  /\ held[q] = Nobody
  /\ list' = [list EXCEPT ![q] = Append(@, i)]
  /\ at' = [at EXCEPT ![t] = Op("flag", <<>>, q)]
  /\ UNCHANGED <<mainq, nonEmpty, held>>

(* ... and the flag, after the lock was released.                          *)
SetFlag(t) ==
  /\ at[t].op = "flag"
  /\ nonEmpty' = [nonEmpty EXCEPT ![at[t].q] = TRUE]
  /\ at' = [at EXCEPT ![t] = Running]
  /\ UNCHANGED <<design, mainq, list, held, task, service, fresh, ran>>

(* WorkerRunQueue::defer: behind the work that is queued here.             *)
DeferTo(w, i) ==
  IF design = "hybrid" THEN Insert(w, w, i)
  ELSE mainq' = [mainq EXCEPT ![w] = Append(@, i)] /\ UNCHANGED <<list, nonEmpty, held>>

PushNew(w, i) ==
  /\ at[w] = Running /\ task[w] \in Item /\ i \in fresh
  /\ fresh' = fresh \ {i}
  /\ mainq' = [mainq EXCEPT ![w] = <<i>> \o @]
  /\ UNCHANGED <<design, list, nonEmpty, held, at, task, service, ran>>

DeferNew(w, i) ==
  /\ at[w] = Running /\ task[w] \in Item /\ i \in fresh
  /\ fresh' = fresh \ {i}
  /\ DeferTo(w, i) /\ (design = "spin" => UNCHANGED at)
  /\ UNCHANGED <<design, task, service, ran>>

(* A thread outside pushes; PollerUltQueue has no flag to set.             *)
PushOutside(i) ==
  /\ at[Outside] = Running /\ i \in fresh
  /\ fresh' = fresh \ {i}
  /\ IF design = "hybrid" THEN Insert(Outside, ExtQ, i)
     ELSE list' = [list EXCEPT ![ExtQ] = Append(@, i)] /\ UNCHANGED <<mainq, nonEmpty, held, at>>
  /\ UNCHANGED <<design, task, service, ran>>

-----------------------------------------------------------------------------
(* Looking for a task.                                                     *)

(* The next source of the plan; after the last one the worker's loop.      *)
After(w) ==
  Op("look", IF Len(at[w].plan) > 1 THEN Tail(at[w].plan) ELSE LoopPlan(w), ExtQ)
Source(w) == Head(at[w].plan)
LooksAt(w, kind) == at[w].op = "look" /\ Source(w)[1] = kind

(* The owner pops the head of its main queue, a thief steals the last.     *)
TakeMain(w) ==
  LET v == Source(w)[2] IN
  /\ LooksAt(w, "main") /\ mainq[v] # <<>>
  /\ task' = [task EXCEPT ![w] = IF v = w THEN Head(mainq[v]) ELSE Last(mainq[v])]
  /\ mainq' = [mainq EXCEPT ![v] = IF v = w THEN Tail(@) ELSE Front(@)]
  /\ at' = [at EXCEPT ![w] = Running]
  /\ UNCHANGED <<design, list, nonEmpty, held, service, fresh, ran>>

SkipMain(w) ==
  /\ LooksAt(w, "main") /\ mainq[Source(w)[2]] = <<>>
  /\ at' = [at EXCEPT ![w] = After(w)]
  /\ UNCHANGED <<design, store, task, service, fresh, ran>>

(* try_take and StealPathQueue::try_pop: the flag is read without the lock.*)
ReadFlag(w) ==
  /\ LooksAt(w, "list")
  /\ at' = [at EXCEPT ![w] = IF nonEmpty[Source(w)[2]] THEN Op("take", @.plan, ExtQ) ELSE After(w)]
  /\ UNCHANGED <<design, store, task, service, fresh, ran>>

(* Under the lock: pop_front of a deferred list, pop of the external queue *)
(* (its last item first); the list may be empty by now.                    *)
PopList(w) ==
  LET q == Source(w)[2] IN
  /\ at[w].op = "take" /\ held[q] = Nobody
  /\ held' = [held EXCEPT ![q] = w]
  /\ at' = [at EXCEPT ![w] = Op("clear", @.plan, ExtQ)]
  /\ IF list[q] = <<>> THEN UNCHANGED <<list, task>>
     ELSE /\ task' = [task EXCEPT ![w] = IF q = ExtQ THEN Last(list[q]) ELSE Head(list[q])]
          /\ list' = [list EXCEPT ![q] = IF q = ExtQ THEN Front(@) ELSE Tail(@)]
  /\ UNCHANGED <<design, mainq, nonEmpty, service, fresh, ran>>

(* Mutant: the flag is cleared although items are left.                    *)
ClearAlways(w) ==
  LET q == Source(w)[2] IN
  /\ at[w].op = "clear"
  /\ nonEmpty' = [nonEmpty EXCEPT ![q] = FALSE]
  /\ held' = [held EXCEPT ![q] = Nobody]
  /\ at' = [at EXCEPT ![w] = IF task[w] = Nobody THEN After(w) ELSE Running]
  /\ UNCHANGED <<design, mainq, list, task, service, fresh, ran>>

(* Still under the lock: an empty list's flag is cleared; unlock.          *)
ClearFlag(w) ==
  LET q == Source(w)[2] IN
  /\ at[w].op = "clear"
  /\ nonEmpty' = [nonEmpty EXCEPT ![q] = @ /\ list[q] # <<>>]
  /\ held' = [held EXCEPT ![q] = Nobody]
  /\ at' = [at EXCEPT ![w] = IF task[w] = Nobody THEN After(w) ELSE Running]
  /\ UNCHANGED <<design, mainq, list, task, service, fresh, ran>>

-----------------------------------------------------------------------------
(* Running.                                                                *)

(* An item ends: the worker switches to the next task.                     *)
EndItem(w) ==
  /\ at[w] = Running /\ task[w] \in Item
  /\ ran' = [ran EXCEPT ![task[w]] = @ + 1]
  /\ task' = [task EXCEPT ![w] = Nobody]
  /\ at' = [at EXCEPT ![w] = Op("look", SwitchPlan(w), ExtQ)]
  /\ UNCHANGED <<design, store, service, fresh>>

(* run_service: take everything ...                                        *)
DrainAll(w) ==
  /\ at[w] = Running /\ task[w] = Service
  /\ pend' = list[ExtQ]
  /\ list' = [list EXCEPT ![ExtQ] = <<>>]
  /\ at' = [at EXCEPT ![w] = Op("forward", <<>>, ExtQ)]
  /\ UNCHANGED <<design, mainq, nonEmpty, held, task, fresh, ran, stop>>

(* Mutant: only the first drained item is forwarded.                       *)
ForwardFirst(w) ==
  /\ at[w].op = "forward" /\ pend # <<>>
  /\ pend' = <<>>
  /\ mainq' = [mainq EXCEPT ![w] = Append(@, Head(pend))]
  /\ UNCHANGED <<design, list, nonEmpty, held, at, task, fresh, ran, stop>>

(* ... defer it to the worker that runs the service ...                    *)
Forward(w) ==
  /\ at[w].op = "forward" /\ pend # <<>>
  /\ pend' = Tail(pend)
  /\ mainq' = [mainq EXCEPT ![w] = Append(@, Head(pend))]
  /\ UNCHANGED <<design, list, nonEmpty, held, at, task, fresh, ran, stop>>

(* ... and return if stop is set, else yield.                              *)
Return(w) ==
  /\ at[w].op = "forward" /\ pend = <<>> /\ stop
  /\ task' = [task EXCEPT ![w] = Nobody]
  /\ at' = [at EXCEPT ![w] = Op("look", SwitchPlan(w), ExtQ)]
  /\ UNCHANGED <<design, store, service, fresh, ran>>

YieldService(w) ==
  /\ at[w].op = "forward" /\ pend = <<>> /\ ~stop
  /\ mainq' = [mainq EXCEPT ![w] = Append(@, Service)]
  /\ task' = [task EXCEPT ![w] = Nobody]
  /\ at' = [at EXCEPT ![w] = Op("look", SwitchPlan(w), ExtQ)]
  /\ UNCHANGED <<design, list, nonEmpty, held, service, fresh, ran>>

(* stop_service, by the task that runs init's closure.                     *)
StopService ==
  /\ design = "spin" /\ ~stop
  /\ stop' = TRUE
  /\ UNCHANGED <<design, store, at, task, pend, fresh, ran>>

-----------------------------------------------------------------------------
LookStep(w) ==
  \/ TakeMain(w) \/ SkipMain(w) \/ ReadFlag(w) \/ PopList(w) \/ ClearFlag(w)
  \/ EndItem(w) \/ DrainAll(w) \/ Forward(w) \/ Return(w) \/ YieldService(w)

QNext ==
  \/ \E w \in Runner : LookStep(w)
  \/ \E w \in Runner, i \in Item : PushNew(w, i) \/ DeferNew(w, i)
  \/ \E i \in Item : PushOutside(i)
  \/ \E t \in Runner \cup {Outside} : SetFlag(t)
  \/ StopService

QSpec == QInit /\ [][QNext]_qvars

-----------------------------------------------------------------------------
(* Properties.                                                             *)

(* Where an item is, with multiplicity.                                    *)
Times(i) ==
  LET among(s, n) == n <= Len(s) /\ s[n] = i IN
  ran[i] + Cardinality({w \in Runner : task[w] = i})
    + Cardinality({p \in Runner \X (1..Cardinality(Item) + 1) : among(mainq[p[1]], p[2])})
    + Cardinality({p \in Listed \X (1..Cardinality(Item)) : among(list[p[1]], p[2])})
    + Cardinality({n \in 1..Len(pend) : pend[n] = i})

(* A pushed item is in exactly one place and runs once; a list with items  *)
(* whose flag is down has a pusher that is about to raise it.              *)
QueueInv ==
  /\ \A i \in Item : Times(i) = IF i \in fresh THEN 0 ELSE 1
  /\ \A q \in Listed : list[q] # <<>> /\ ~ nonEmpty[q] /\ (design = "hybrid") =>
       \E t \in Runner \cup {Outside} : at[t].op = "flag" /\ at[t].q = q

(* A task that waits in a queue is run in the end; one that waits for the  *)
(* poller, unless that is being stopped.                                   *)
Waits(i) == i \notin fresh /\ ran[i] = 0 /\ \A w \in Runner : task[w] # i
ItemsRun == \A i \in Item : Waits(i) ~> ran[i] = 1 \/ stop
=============================================================================
