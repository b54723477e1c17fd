--------------------------- MODULE MCJoinProtocol ---------------------------
(***************************************************************************)
(* The join protocol on a handful of descriptors, and the duties, for      *)
(* model checking: a behaviour is about one of them, chosen at the start;  *)
(* nobody touches the other.                                               *)
(***************************************************************************)
EXTENDS JoinProtocol, DutyKeeper, TLC

CONSTANTS FirstIdler, FirstDuty

VARIABLE part   \* what the behaviour is about

(* Duties: one duty with one worker and the user's operations, one duty    *)
(* with more workers, or all duties with one worker.                       *)
Others == Idler \ {FirstIdler}
Crowded == \A w \in Idler : idler[w].pc # "busy"
DutyCase ==
  /\ ops = MaxOps => onDemand = {}
  /\ idler[FirstIdler] = Idling
  /\ \/ reg \subseteq {FirstDuty} /\ (ops = MaxOps \/ \A w \in Others : idler[w] = Busy)
     \/ reg = Duty /\ ops = MaxOps /\ \A w \in Others : idler[w] = Busy

JoinDutyInit ==
  /\ part \in {"join", "duty"} /\ Init /\ DutyInit
  /\ IF part = "duty" THEN DutyCase
     ELSE reg = {} /\ ops = 0 /\ \A w \in Idler : idler[w] = Busy

JoinPart == part = "join" /\ Next /\ UNCHANGED <<dutyvars, part>>

(* With more workers than one the clock stops earlier.                     *)
DutyPart ==
  /\ part = "duty" /\ DutyNext /\ UNCHANGED <<vars, part>>
  /\ Crowded => clock' < Horizon

JoinDutySpec == JoinDutyInit /\ [][JoinPart \/ DutyPart]_<<vars, dutyvars, part>>

(* Descriptors of one kind are interchangeable, except for the first task. *)
Symmetry == Permutations(Ult \ {Main}) \cup Permutations(Async)
=============================================================================
