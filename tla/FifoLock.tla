------------------------------ MODULE FifoLock ------------------------------
(***************************************************************************)
(* What a queue lock promises: one task inside at a time, and tasks enter  *)
(* in the order in which they arrived.                                     *)
(***************************************************************************)
EXTENDS Sequences

CONSTANT Task

VARIABLES
  line,     \* the tasks that have arrived and not left, first come first
  inside    \* those of them that are in the critical section

Init == line = <<>> /\ inside = {}

Arrive(t) ==
  /\ line' = Append(line, t)
  /\ inside' = inside

ArriveAndEnter(t) ==
  /\ line = <<>>
  /\ line' = <<t>> /\ inside' = {t}

Enter(t) ==
  /\ line # <<>> /\ Head(line) = t
  /\ t \notin inside
  /\ inside' = inside \cup {t}
  /\ line' = line

Leave(t) ==
  /\ line # <<>> /\ Head(line) = t
  /\ t \in inside
  /\ inside' = inside \ {t}
  /\ line' = Tail(line)

Next == \E t \in Task : Arrive(t) \/ ArriveAndEnter(t) \/ Enter(t) \/ Leave(t)

Spec == Init /\ [][Next]_<<line, inside>>
=============================================================================
