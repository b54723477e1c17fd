----------------------------- MODULE MCJoinLife ------------------------------
(***************************************************************************)
(* The join protocol, and a pool's start and end, for model checking with  *)
(* fairness: a behaviour is about one of them, chosen at the start; nobody *)
(* touches the other.                                                      *)
(***************************************************************************)
EXTENDS JoinProtocol, PoolLife

VARIABLE part   \* what the behaviour is about

joinlifevars == <<vars, lifevars, part>>

JoinLifeInit ==
  /\ part \in {"join", "life"} /\ Init /\ LifeInit
  /\ part = "join" => entry = "init" /\ ~ served

JoinOnly(A) == part = "join" /\ A /\ UNCHANGED <<lifevars, part>>
LifeOnly(A) == part = "life" /\ A /\ UNCHANGED <<vars, part>>

(* A pool that has ended stays so.                                         *)
Ended == mainPc = "returned" /\ UNCHANGED lifevars

(* The fairness of FairSpec for the tasks. In a pool the threads go on,    *)
(* tasks end, and a queued task is taken in the end.                       *)
JoinFair == \A p \in Desc : WF_joinlifevars(JoinOnly(RuntimeStep(p)))

LifeFair ==
  /\ WF_joinlifevars(LifeOnly(Start \/ EndStep))
  /\ \A m \in Member :
       /\ WF_joinlifevars(LifeOnly(LoopStep(m)))
       /\ SF_joinlifevars(LifeOnly(UnitStep(m)))
       /\ WF_joinlifevars(LifeOnly(ServiceYields(m)))
  /\ \A u \in Unit : SF_joinlifevars(LifeOnly(\E m \in Member : TakeUnit(m, u)))

JoinLifeSpec ==
  /\ JoinLifeInit
  /\ [][JoinOnly(Next) \/ LifeOnly(LifeNext \/ Ended)]_joinlifevars
  /\ JoinFair /\ LifeFair
=============================================================================
