---------------------------- MODULE StackfulSched ---------------------------
(***************************************************************************)
(* How stackful tasks share workers: resumable/stackful/worker.rs over the *)
(* queues of resumable/common/deque.rs.  A worker's thread executes on the *)
(* stack of one descriptor at a time, a task's or the worker's own root,   *)
(* where the scheduler loop lives.  To suspend, a task picks the next      *)
(* descriptor and switches to it; what remains to be done with the token of*)
(* the suspended task is a callback that runs on the stack switched to,    *)
(* above whatever that stack was doing.                                    *)
(*                                                                         *)
(* A stack is a sequence of frames, the running one first.  The modules of *)
(* the objects tasks wait for extend this one with the frames' steps.      *)
(***************************************************************************)
EXTENDS Naturals, FiniteSets, SequencesExt

CONSTANTS
  Worker,     \* workers; a worker's root descriptor goes by the same name
  Ult,        \* stackful tasks
  None

Desc == Worker \cup Ult

ASSUME SchedAssumption ==
  /\ Worker # {} /\ IsFiniteSet(Ult) /\ Worker \cap Ult = {}
  /\ None \notin Desc

VARIABLES
  thread,     \* thread[w]: whose stack the worker executes on (cur_task)
  frames,     \* frames[d]: the stack of d
  saved,      \* descriptors whose saved context is not null
  main,       \* main[w]: the deque, its owner's end last
  deferred,   \* deferred[w]: the queue beside it
  rootCont    \* rootCont[w]: root_cont

sched == <<thread, frames, saved, main, deferred, rootCont>>
queues == <<main, deferred, rootCont>>

(* A frame: the code it runs, on whose behalf, up to where, and, of a      *)
(* callback, the worker its switch was made with.  The other fields belong *)
(* to the code.                                                            *)
Loop(w) == [op |-> "loop", who |-> w, step |-> "loop", wk |-> w, node |-> None, prev |-> None]
Task(t) == [op |-> "task", who |-> t, step |-> "out", wk |-> None, node |-> None, prev |-> None]

(* The tasks were spawned by a worker and wait in its queue.               *)
SchedInit ==
  /\ thread = [w \in Worker |-> w]
  /\ frames = [d \in Desc |-> IF d \in Worker THEN <<Loop(d)>> ELSE <<Task(d)>>]
  /\ saved = Ult
  /\ LET first == CHOOSE w \in Worker : TRUE
     IN main = [w \in Worker |-> IF w = first THEN SetToSeq(Ult) ELSE <<>>]
  /\ deferred = [w \in Worker |-> <<>>]
  /\ rootCont = [w \in Worker |-> None]

-----------------------------------------------------------------------------
(* The frame a worker executes, and its stack with that frame changed.     *)
Top(w) == Head(frames[thread[w]])
WithTop(w, f) == [frames EXCEPT ![thread[w]] = <<f>> \o Tail(@)]

Advance(w, step) ==
  /\ frames' = WithTop(w, [Top(w) EXCEPT !.step = step])
  /\ UNCHANGED thread

(* A callback is over; the stack goes on with what it was doing.           *)
Return(w) ==
  /\ frames' = [frames EXCEPT ![thread[w]] = Tail(@)]
  /\ UNCHANGED thread

(* try_pop: the deque first, then the deferred tasks; else the root        *)
(* continuation, and None where take_root_cont panics.                     *)
NextOrRoot(w) ==
  IF main[w] # <<>> THEN Last(main[w])
  ELSE IF deferred[w] # <<>> THEN Head(deferred[w]) ELSE rootCont[w]
MainLeft(w) == [main EXCEPT ![w] = IF @ = <<>> THEN @ ELSE Front(@)]
DeferredLeft(w) == [deferred EXCEPT ![w] = IF main[w] # <<>> \/ @ = <<>> THEN @ ELSE Tail(@)]

RootLeft(w) ==
  [rootCont EXCEPT ![w] = IF main[w] = <<>> /\ deferred[w] = <<>> THEN None ELSE @]

(* Switch to d: save the context of the current stack, fs being the stacks *)
(* as the switch leaves them, and run the callback cb, if any, on that of d*)
SwitchTo(w, d, fs, cb) ==
  /\ thread' = [thread EXCEPT ![w] = d]
  /\ saved' = (saved \ {d}) \cup {thread[w]}
  /\ frames' = [fs EXCEPT ![d] = cb \o @]

(* suspend_to_sched: the frame is left at f, the callback cb publishes the *)
(* token.                                                                  *)
SuspendToSched(w, f, cb) ==
  /\ NextOrRoot(w) # None
  /\ SwitchTo(w, NextOrRoot(w), WithTop(w, f), <<cb>>)
  /\ main' = MainLeft(w) /\ deferred' = DeferredLeft(w) /\ rootCont' = RootLeft(w)

(* yield_now: the callback defers the token and is over.                   *)
YieldNow(w) ==
  /\ NextOrRoot(w) # None
  /\ SwitchTo(w, NextOrRoot(w), frames, <<>>)
  /\ main' = MainLeft(w) /\ rootCont' = RootLeft(w)
  /\ deferred' = [DeferredLeft(w) EXCEPT ![w] = Append(@, thread[w])]

(* exit_to_sched: the stack is abandoned.                                  *)
ExitToSched(w) ==
  /\ NextOrRoot(w) # None
  /\ thread' = [thread EXCEPT ![w] = NextOrRoot(w)]
  /\ saved' = saved \ {NextOrRoot(w)}
  /\ frames' = [frames EXCEPT ![thread[w]] = <<>>]
  /\ main' = MainLeft(w) /\ deferred' = DeferredLeft(w) /\ rootCont' = RootLeft(w)

Push(w, d) == main' = [main EXCEPT ![w] = Append(@, d)]

-----------------------------------------------------------------------------
(* The scheduler loop.                                                     *)

(* run_on: the root switches to the task it took; the callback keeps the   *)
(* root's token in root_cont.                                              *)
RunOn(w, d) ==
  /\ SwitchTo(w, d, frames, <<>>)
  /\ rootCont' = [rootCont EXCEPT ![w] = w]

Idle(w) == Top(w).op = "loop"

RunLocal(w) ==
  /\ Idle(w)
  /\ main[w] # <<>> \/ deferred[w] # <<>>
  /\ RunOn(w, NextOrRoot(w))
  /\ main' = MainLeft(w) /\ deferred' = DeferredLeft(w)

(* try_steal: the victim's deferred tasks first, then the far end of its   *)
(* deque.                                                                  *)
RunStolen(w, v) ==
  /\ Idle(w) /\ main[w] = <<>> /\ deferred[w] = <<>>
  /\ \/ /\ deferred[v] # <<>>
        /\ RunOn(w, Head(deferred[v]))
        /\ deferred' = [deferred EXCEPT ![v] = Tail(@)]
        /\ UNCHANGED main
     \/ /\ deferred[v] = <<>> /\ main[v] # <<>>
        /\ RunOn(w, Head(main[v]))
        /\ main' = [main EXCEPT ![v] = Tail(@)]
        /\ UNCHANGED deferred

-----------------------------------------------------------------------------
(* Where the token of d is: with the thread that executes d, in a queue, in*)
(* root_cont, or in the hands of a callback that has not published it yet. *)
PlacesOf(d) ==
  LET At(q) == {i \in DOMAIN q : q[i] = d}
      Unpublished(e) == {i \in DOMAIN frames[e] :
                           frames[e][i].who = d /\ frames[e][i].step = "publish"}
  IN {<<"thread", w>> : w \in {w \in Worker : thread[w] = d}}
       \cup {<<"root", w>> : w \in {w \in Worker : rootCont[w] = d}}
       \cup (UNION {{<<"main", w, i>> : i \in At(main[w])} : w \in Worker})
       \cup (UNION {{<<"deferred", w, i>> : i \in At(deferred[w])} : w \in Worker})
       \cup (UNION {{<<"callback", e, i>> : i \in Unpublished(e)} : e \in Desc})
=============================================================================
