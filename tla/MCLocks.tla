------------------------------ MODULE MCLocks ------------------------------
(***************************************************************************)
(* The two queue locks for model checking: a behaviour is about one of     *)
(* them, chosen at the start; nobody touches the other one.                *)
(***************************************************************************)
EXTENDS DualMutex, McsMutex

VARIABLE part   \* what the behaviour is about

lockvars == <<dualVars, vars, part>>

LocksInit == part \in {"dual", "mcs"} /\ DualInit /\ Init

DualPart == part = "dual" /\ DualNext /\ UNCHANGED <<vars, part>>
McsPart  == part = "mcs" /\ Next /\ UNCHANGED <<dualVars, part>>

LocksNext == DualPart \/ McsPart

(* The fairness of DualMutex and of McsMutex, each for its own part.       *)
LocksSpec ==
  /\ LocksInit /\ [][LocksNext]_lockvars
  /\ \A t \in Waiter : WF_lockvars(part = "dual" /\ DualStep(t) /\ UNCHANGED <<vars, part>>)
  /\ \A w \in Worker : WF_lockvars(part = "mcs" /\ Progress(w) /\ UNCHANGED <<dualVars, part>>)
  /\ \A t \in Ult :
       SF_lockvars(/\ part = "mcs" /\ UNCHANGED <<dualVars, part>>
                   /\ \E w \in Worker : thread[w] = t /\ (StartDrop(w) \/ Exit(w)))

(* Every task that asks for either lock gets it.                           *)
LocksGranted == DualLockGranted /\ LockGranted
=============================================================================
