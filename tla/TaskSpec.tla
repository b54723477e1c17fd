------------------------------ MODULE TaskSpec ------------------------------
(***************************************************************************)
(* What the join protocol promises to the program, without a join_state    *)
(* word: a started task runs to its end once, its one owner may wait for   *)
(* it, and whoever owns it when it has ended, or nobody if it was          *)
(* abandoned, disposes of it before its descriptor is used again.          *)
(***************************************************************************)
CONSTANTS Desc, Main, None

VARIABLES
  phase,    \* phase[d]: "free", "live" or "finished"
  owner,    \* owner[d]: the task that may collect d, or None
  waits     \* waits[p]: the task p waits for, or None

vars == <<phase, owner, waits>>

Owned(p) == {c \in Desc : owner[c] = p}
Busy(p) == phase[p] = "live" /\ waits[p] = None

Init ==
  /\ phase = [d \in Desc |-> IF d = Main THEN "live" ELSE "free"]
  /\ owner = [d \in Desc |-> None]
  /\ waits = [d \in Desc |-> None]

(* p starts c and gives it some of the tasks it owns.                      *)
Start(p, c) ==
  /\ Busy(p) /\ phase[c] = "free"
  /\ phase' = [phase EXCEPT ![c] = "live"]
  /\ \E cs \in SUBSET Owned(p) :
       owner' = [d \in Desc |-> IF d = c THEN p ELSE IF d \in cs THEN c ELSE owner[d]]
  /\ UNCHANGED waits

(* p runs c's body itself: c never runs, and what c owned is p's.          *)
Inline(p, c) ==
  /\ Busy(p) /\ owner[c] = p /\ phase[c] = "live" /\ waits[c] = None
  /\ phase' = [phase EXCEPT ![c] = "free"]
  /\ owner' = [d \in Desc |-> IF d = c THEN None ELSE IF owner[d] = c THEN p ELSE owner[d]]
  /\ UNCHANGED waits

Wait(p, c) ==
  /\ Busy(p) /\ owner[c] = p
  /\ waits' = [waits EXCEPT ![p] = c]
  /\ UNCHANGED <<phase, owner>>

(* A task ends: it waits for nobody and owns nothing.                      *)
Finish(c) ==
  /\ c # Main /\ Busy(c) /\ Owned(c) = {}
  /\ phase' = [phase EXCEPT ![c] = IF owner[c] = None THEN "free" ELSE "finished"]
  /\ UNCHANGED <<owner, waits>>

(* The owner of a finished task takes or drops its result.                 *)
Collect(p, c) ==
  /\ phase[p] = "live" /\ owner[c] = p /\ phase[c] = "finished"
  /\ waits[p] \in {None, c}
  /\ phase' = [phase EXCEPT ![c] = "free"]
  /\ owner' = [owner EXCEPT ![c] = None]
  /\ waits' = [waits EXCEPT ![p] = None]

Abandon(p, c) ==
  /\ Busy(p) /\ owner[c] = p /\ phase[c] = "live"
  /\ owner' = [owner EXCEPT ![c] = None]
  /\ UNCHANGED <<phase, waits>>

Next ==
  \/ \E p, c \in Desc :
       Start(p, c) \/ Inline(p, c) \/ Wait(p, c) \/ Collect(p, c) \/ Abandon(p, c)
  \/ \E c \in Desc : Finish(c)

Spec == Init /\ [][Next]_vars
=============================================================================
