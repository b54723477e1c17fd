------------------------------- MODULE MCPark -------------------------------
(***************************************************************************)
(* What an idle worker depends on, for model checking: the parking of      *)
(* ParkIdle and the queues of RunQueues.  A behaviour is about one of them,*)
(* chosen at the start; nobody touches the other one.                      *)
(***************************************************************************)
EXTENDS ParkIdle, RunQueues

VARIABLE part   \* what the behaviour is about

idlevars == <<vars, qvars, part>>

IdleInit ==
  /\ part \in {"park", "queues"}
  /\ Init /\ QInit
  /\ part # "queues" =>
       design = "hybrid" /\ task[First] = CHOOSE i \in Item : TRUE

ParkPart   == part = "park" /\ Next /\ UNCHANGED <<qvars, part>>
QueuesPart == part = "queues" /\ QNext /\ UNCHANGED <<vars, part>>

IdleNext == ParkPart \/ QueuesPart

(* The fairness of ParkIdle, and of the queues: a worker looks for tasks   *)
(* and runs them, and a push that began is finished.                       *)
IdleSpec ==
  /\ IdleInit /\ [][IdleNext]_idlevars
  /\ \A w \in Worker :
       /\ WF_idlevars(part = "park" /\ SearchStep(w) /\ UNCHANGED <<qvars, part>>)
       /\ WF_idlevars(part = "park" /\ SleepStep(w) /\ UNCHANGED <<qvars, part>>)
  /\ \A t \in Thread : WF_idlevars(part = "park" /\ AnnounceStep(t) /\ UNCHANGED <<qvars, part>>)
  /\ WF_idlevars(part = "park" /\ ShutdownStep /\ UNCHANGED <<qvars, part>>)
  /\ WF_idlevars(part = "park" /\ Commit /\ UNCHANGED <<qvars, part>>)
  /\ \A w \in Runner :
       WF_idlevars(part = "queues" /\ (LookStep(w) \/ SetFlag(w)) /\ UNCHANGED <<vars, part>>)
  /\ WF_idlevars(part = "queues" /\ SetFlag(Outside) /\ UNCHANGED <<vars, part>>)
=============================================================================
