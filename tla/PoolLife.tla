------------------------------- MODULE PoolLife ------------------------------
(***************************************************************************)
(* How a pool starts and ends: init and the Drop of its guard in           *)
(* stackful/init.rs, run_async in stackless/scheduler.rs, the loops of     *)
(* common/scheduler.rs and the service task of an external queue that has  *)
(* one (PollerUltQueue).                                                   *)
(*                                                                         *)
(* init makes the caller a task: the scheduler loop of worker 0 runs on a  *)
(* new stack of the caller's thread and pushes the caller, who goes on on  *)
(* whichever worker takes it. To drop the guard it ends the service, tells *)
(* the loops to stop and suspends; worker 0's loop waits for the other     *)
(* threads and jumps to it. run_async keeps the caller on worker 0's loop; *)
(* its root future stops the loops.                                        *)
(***************************************************************************)
EXTENDS Naturals, FiniteSets

CONSTANTS
  Member,     \* workers
  Zero,       \* worker 0, on the caller's thread
  Chore,      \* tasks the program spawns and does not wait for
  Caller,     \* the caller's continuation, or the root future
  Service,    \* the external queue's task
  Loop0       \* nobody: a worker is in its loop

ASSUME PoolLifeAssumption ==
  /\ IsFiniteSet(Member) /\ Zero \in Member
  /\ Caller # Service /\ Caller # Loop0 /\ Service # Loop0
  /\ {Caller, Service, Loop0} \cap Chore = {}

Unit == Chore \cup {Caller, Service}

VARIABLES
  entry,      \* "init" or "run_async"
  served,     \* the external queue needs a service
  mainPc,     \* where the caller is
  at,         \* at[m]: where a worker's thread is
  runs,       \* runs[m]: the task that a worker runs, or Loop0
  queued,     \* tasks in the run queues
  over,       \* tasks that have ended
  stopSet,    \* the service has been told to stop
  joinedBy,   \* the caller waits for the service's end
  finish,     \* the pool's flag
  destCont,   \* dest_cont holds the caller
  tlsSet      \* workers whose thread has its TLS pointer set

lifevars == <<entry, served, mainPc, at, runs, queued, over, stopSet, joinedBy, finish,
              destCont, tlsSet>>
flags == <<entry, served, stopSet, finish>>

Others == Member \ {Zero}

(* run_async pushes the root before any loop runs.                         *)
LifeInit ==
  /\ entry \in {"init", "run_async"} /\ served \in BOOLEAN
  /\ entry = "run_async" => ~ served
  /\ mainPc = "starting"
  /\ at = [m \in Member |-> "unborn"]
  /\ runs = [m \in Member |-> Loop0]
  /\ queued = {} /\ over = {}
  /\ stopSet = FALSE /\ joinedBy = FALSE /\ finish = FALSE /\ destCont = FALSE
  /\ tlsSet = {}

-----------------------------------------------------------------------------
(* The threads of the other workers are started, and worker 0's loop: the  *)
(* caller is pushed by the loop that init forks, the root before it.       *)
Start ==
  /\ mainPc = "starting"
  /\ mainPc' = IF entry = "init" /\ served THEN "unserved" ELSE "user"
  /\ at' = [m \in Member |-> IF m = Zero THEN "loop" ELSE "born"]
  /\ queued' = {Caller} /\ tlsSet' = {Zero}
  /\ UNCHANGED <<flags, runs, over, joinedBy, destCont>>

(* worker_loop on a new thread.                                            *)
EnterLoop(m) ==
  /\ at[m] = "born"
  /\ at' = [at EXCEPT ![m] = "loop"] /\ tlsSet' = tlsSet \cup {m}
  /\ UNCHANGED <<flags, mainPc, runs, queued, over, joinedBy, destCont>>

(* The loop looks at finished and then for a task; it leaves when finished.*)
InLoop(m) == at[m] = "loop" /\ runs[m] = Loop0

CheckFinished(m) ==
  /\ InLoop(m) /\ ~ finish
  /\ at' = [at EXCEPT ![m] = "look"]
  /\ UNCHANGED <<flags, mainPc, runs, queued, over, joinedBy, destCont, tlsSet>>

TakeUnit(m, u) ==
  /\ at[m] = "look" /\ u \in queued
  /\ at' = [at EXCEPT ![m] = "loop"]
  /\ runs' = [runs EXCEPT ![m] = u] /\ queued' = queued \ {u}
  /\ UNCHANGED <<flags, mainPc, over, joinedBy, destCont, tlsSet>>

FindNothing(m) ==
  /\ at[m] = "look"
  /\ at' = [at EXCEPT ![m] = "loop"]
  /\ UNCHANGED <<flags, mainPc, runs, queued, over, joinedBy, destCont, tlsSet>>

LeaveLoop(m) ==
  /\ InLoop(m) /\ finish
  /\ at' = [at EXCEPT ![m] = IF m = Zero THEN "joining" ELSE "out"]
  /\ tlsSet' = IF m = Zero /\ entry = "init" THEN tlsSet ELSE tlsSet \ {m}
  /\ UNCHANGED <<flags, mainPc, runs, queued, over, joinedBy, destCont>>

-----------------------------------------------------------------------------
(* A task that suspends or ends: the worker goes on with another one, or   *)
(* with its loop. An async task always returns to the loop.                *)
SwitchFrom(m, after) ==
  \/ runs' = [runs EXCEPT ![m] = Loop0] /\ queued' = after
  \/ /\ entry = "init"
     /\ \E u \in queued : runs' = [runs EXCEPT ![m] = u] /\ queued' = after \ {u}

Running(m, u) == at[m] = "loop" /\ runs[m] = u

(* The caller starts a task: the new one runs at once, the caller waits in *)
(* the queue; an async task is pushed.                                     *)
Known == queued \cup over \cup {runs[m] : m \in Member}
SpawnUnit(m, u) ==
  IF entry = "init"
  THEN runs' = [runs EXCEPT ![m] = u] /\ queued' = queued \cup {Caller}
  ELSE runs' = runs /\ queued' = queued \cup {u}

StartService(m) ==
  /\ Running(m, Caller) /\ mainPc = "unserved"
  /\ SpawnUnit(m, Service) /\ mainPc' = "user"
  /\ UNCHANGED <<flags, at, over, joinedBy, destCont, tlsSet>>

SpawnChore(m) ==
  /\ Running(m, Caller) /\ mainPc = "user"
  /\ \E u \in Chore \ Known : SpawnUnit(m, u)
  /\ UNCHANGED <<flags, mainPc, at, over, joinedBy, destCont, tlsSet>>

ChoreYields(m) ==
  /\ runs[m] \in Chore /\ at[m] = "loop"
  /\ SwitchFrom(m, queued \cup {runs[m]})
  /\ UNCHANGED <<flags, mainPc, at, over, joinedBy, destCont, tlsSet>>

ChoreEnds(m) ==
  /\ runs[m] \in Chore /\ at[m] = "loop"
  /\ over' = over \cup {runs[m]}
  /\ SwitchFrom(m, queued)
  /\ UNCHANGED <<flags, mainPc, at, joinedBy, destCont, tlsSet>>

(* run_service drains the queue and yields until it is told to stop; its   *)
(* exit resumes the caller if that waits for it.                           *)
ServiceYields(m) ==
  /\ Running(m, Service) /\ ~ stopSet
  /\ SwitchFrom(m, queued \cup {Service})
  /\ UNCHANGED <<flags, mainPc, at, over, joinedBy, destCont, tlsSet>>

ServiceEnds(m) ==
  /\ Running(m, Service) /\ stopSet
  /\ over' = over \cup {Service} /\ joinedBy' = FALSE
  /\ IF joinedBy THEN runs' = [runs EXCEPT ![m] = Caller] /\ UNCHANGED queued
     ELSE SwitchFrom(m, queued)
  /\ UNCHANGED <<flags, mainPc, at, destCont, tlsSet>>

-----------------------------------------------------------------------------
(* Mutant: the service is not told to stop.                                *)
ForgetStop(m) ==
  /\ Running(m, Caller) /\ mainPc = "user" /\ entry = "init"
  /\ mainPc' = "join"
  /\ UNCHANGED <<flags, at, runs, queued, over, joinedBy, destCont, tlsSet>>

(* The guard is dropped: stop_service, join, finish, suspend.              *)
StopService(m) ==
  /\ Running(m, Caller) /\ mainPc = "user" /\ entry = "init"
  /\ stopSet' = served /\ mainPc' = "join"
  /\ UNCHANGED <<entry, served, finish, at, runs, queued, over, joinedBy, destCont, tlsSet>>

JoinService(m) ==
  /\ Running(m, Caller) /\ mainPc = "join"
  /\ mainPc' = "finish"
  /\ IF served /\ Service \notin over
     THEN joinedBy' = TRUE /\ SwitchFrom(m, queued)
     ELSE UNCHANGED <<joinedBy, runs, queued>>
  /\ UNCHANGED <<flags, at, over, destCont, tlsSet>>

Finish(m) ==
  /\ Running(m, Caller) /\ mainPc = "finish"
  /\ finish' = TRUE /\ mainPc' = "suspend"
  /\ UNCHANGED <<entry, served, stopSet, at, runs, queued, over, joinedBy, destCont, tlsSet>>

(* suspend_to_sched: its callback writes dest_cont after the switch.        *)
ParkMain(m) ==
  /\ Running(m, Caller) /\ mainPc = "suspend"
  /\ mainPc' = "parked" /\ at' = [at EXCEPT ![m] = "callback"]
  /\ SwitchFrom(m, queued)
  /\ UNCHANGED <<flags, over, joinedBy, destCont, tlsSet>>

WriteDest(m) ==
  /\ at[m] = "callback"
  /\ destCont' = TRUE /\ at' = [at EXCEPT ![m] = "loop"]
  /\ UNCHANGED <<flags, mainPc, runs, queued, over, joinedBy, tlsSet>>

(* The root future of run_async ends, and stops the loops.                 *)
RootEnds(m) ==
  /\ Running(m, Caller) /\ mainPc = "user" /\ entry = "run_async"
  /\ finish' = TRUE /\ over' = over \cup {Caller} /\ mainPc' = "parked"
  /\ runs' = [runs EXCEPT ![m] = Loop0]
  /\ UNCHANGED <<entry, served, stopSet, at, queued, joinedBy, destCont, tlsSet>>

(* Mutant: worker 0 does not wait for the other threads.                   *)
JoinNobody ==
  /\ at[Zero] = "joining"
  /\ at' = [at EXCEPT ![Zero] = "joined"]
  /\ UNCHANGED <<flags, mainPc, runs, queued, over, joinedBy, destCont, tlsSet>>

(* Worker 0 joins the threads; then it takes dest_cont and jumps there.    *)
JoinThreads ==
  /\ at[Zero] = "joining" /\ \A m \in Others : at[m] = "out"
  /\ at' = [at EXCEPT ![Zero] = "joined"]
  /\ UNCHANGED <<flags, mainPc, runs, queued, over, joinedBy, destCont, tlsSet>>

EnterDest ==
  /\ at[Zero] = "joined" /\ entry = "init" /\ destCont
  /\ destCont' = FALSE /\ mainPc' = "back"
  /\ runs' = [runs EXCEPT ![Zero] = Caller] /\ at' = [at EXCEPT ![Zero] = "out"]
  /\ UNCHANGED <<flags, queued, over, joinedBy, tlsSet>>

ReturnToCaller ==
  /\ \/ entry = "init" /\ mainPc = "back"
     \/ entry = "run_async" /\ at[Zero] = "joined" /\ mainPc = "parked"
  /\ mainPc' = "returned" /\ tlsSet' = tlsSet \ {Zero}
  /\ at' = [at EXCEPT ![Zero] = "out"] /\ runs' = [runs EXCEPT ![Zero] = Loop0]
  /\ over' = over \cup {Caller}
  /\ UNCHANGED <<flags, queued, joinedBy, destCont>>

-----------------------------------------------------------------------------
MainStep(m) == StopService(m) \/ JoinService(m) \/ Finish(m) \/ ParkMain(m) \/ RootEnds(m)
UnitStep(m) == StartService(m) \/ MainStep(m) \/ ChoreEnds(m) \/ ServiceEnds(m)
EndStep     == JoinThreads \/ EnterDest \/ ReturnToCaller
LoopStep(m) ==
  EnterLoop(m) \/ CheckFinished(m) \/ FindNothing(m) \/ LeaveLoop(m) \/ WriteDest(m)

LifeNext ==
  \/ Start \/ EndStep
  \/ \E m \in Member :
       \/ LoopStep(m) \/ UnitStep(m) \/ SpawnChore(m) \/ ChoreYields(m) \/ ServiceYields(m)
       \/ \E u \in Unit : TakeUnit(m, u)

(* A task is in one place; whoever executes tasks has its TLS set; the loop*)
(* finds dest_cont filled when it has joined the threads, and the caller   *)
(* comes back on worker 0 when nobody else runs any more.                  *)
UnitsOnce ==
  LET aside == IF joinedBy \/ destCont \/ \E m \in Member : at[m] = "callback"
               THEN {Caller} ELSE {}
  IN \A u \in Unit :
       Cardinality({m \in Member : runs[m] = u}) + Cardinality({u} \cap queued)
         + Cardinality({u} \cap over) + Cardinality({u} \cap aside) <= 1
TlsCovers == \A m \in Member : runs[m] # Loop0 => m \in tlsSet
DestFound == at[Zero] = "joined" /\ entry = "init" => destCont
AloneAtLast ==
  mainPc \in {"back", "returned"} =>
    /\ \A m \in Others : at[m] = "out" /\ runs[m] = Loop0
    /\ tlsSet \subseteq {Zero} /\ (mainPc = "returned" => tlsSet = {})
LifeInv == UnitsOnce /\ TlsCovers /\ DestFound /\ AloneAtLast

(* The drop of the guard returns, and run_async.                           *)
PoolEnds == (mainPc # "starting") ~> (mainPc = "returned")

LifeSpec == LifeInit /\ [][LifeNext]_lifevars
=============================================================================
