----------------------------- MODULE Delegation -----------------------------
(***************************************************************************)
(* What a delegator promises: every request is executed once, by somebody  *)
(* who has the resource to himself, and answered once, at once or later    *)
(* when the resource completes it; a with_lock body has the resource to    *)
(* itself too.                                                             *)
(***************************************************************************)
CONSTANT Caller

VARIABLE call   \* how far each caller's call is

Unused == \A t \in Caller : call[t] \notin {"running", "in"}

Init == call = [t \in Caller |-> "out"]

Move(t, from, to) == call[t] = from /\ call' = [call EXCEPT ![t] = to]

Ask(t) == Move(t, "out", "asked") \/ Move(t, "out", "wants")
(* A caller that finds the resource free goes ahead at once.               *)
AskAndBegin(t) == Unused /\ (Move(t, "out", "running") \/ Move(t, "out", "in"))
Begin(t) == Unused /\ (Move(t, "asked", "running") \/ Move(t, "wants", "in"))
Answer(t) == Move(t, "running", "answered") \/ Move(t, "in", "answered")
Defer(t) == Move(t, "running", "deferred")
Complete(t) == Move(t, "deferred", "answered")
Return(t) == Move(t, "answered", "out")
(* A caller that leaves starts the next one that wants the lock.           *)
HandOver(t, u) ==
  /\ Unused /\ call[t] = "answered" /\ call[u] = "wants"
  /\ call' = [v \in Caller |-> IF v = u THEN "in" ELSE IF v = t THEN "out" ELSE call[v]]

Next ==
  \E t \in Caller :
    \/ Ask(t) \/ AskAndBegin(t) \/ Begin(t) \/ Answer(t)
    \/ Defer(t) \/ Complete(t) \/ Return(t)
    \/ \E u \in Caller : HandOver(t, u)

Spec == Init /\ [][Next]_call
=============================================================================
