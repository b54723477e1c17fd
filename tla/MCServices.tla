----------------------------- MODULE MCServices -----------------------------
(***************************************************************************)
(* Timers, post delegators, the primitives with spin-locked queues, the    *)
(* parallel_call of the scoped and of the stackless engines, the wakers,   *)
(* the wait slot and the base system of OS threads, for model checking: a  *)
(* behaviour is about one of them, chosen at the start; nobody touches the *)
(* others.                                                                 *)
(***************************************************************************)
EXTENDS Timers, PostQueue, SpinSync, ScopedJoin, BlockOnWake, WaitSlot, StacklessCall,
  OsBase

VARIABLE part   \* what the behaviour is about

servicevars ==
  <<timervars, postvars, syncvars, scopedvars, blockonvars, slotvars, callvars, osbasevars,
                 part>>

ServicesInit ==
  /\ part \in {"timers", "post", "sync", "scoped", "blockon", "slot", "call", "os"}
  /\ TimersInit /\ PostInit /\ SyncInit /\ ScopedInit /\ BlockOnInit
  /\ SlotInit /\ CallInit /\ OsInit
  /\ part # "timers" => \A s \in Sleeper : sleeper[s].at = LastTime
  /\ part # "post" => design = "slot"
  /\ part # "sync" => used = "condvar"
  /\ part # "scoped" => engine = "sync"
  /\ part # "blockon" => poller = "desc"
  /\ part # "slot" => flavor = "dual"
  /\ part # "call" => lane[CHOOSE w \in Lane : TRUE] # <<>>
  /\ part # "os" => base = "slots"

TimersPart ==
  /\ part = "timers" /\ TimersNext
  /\ UNCHANGED <<postvars, syncvars, scopedvars, blockonvars, slotvars, callvars, osbasevars,
                 part>>
PostPart ==
  /\ part = "post" /\ PostNext
  /\ UNCHANGED <<timervars, syncvars, scopedvars, blockonvars, slotvars, callvars, osbasevars,
                 part>>
SyncPart ==
  /\ part = "sync" /\ SyncNext
  /\ UNCHANGED <<timervars, postvars, scopedvars, blockonvars, slotvars, callvars, osbasevars,
                 part>>
ScopedPart ==
  /\ part = "scoped" /\ ScopedNext
  /\ UNCHANGED <<timervars, postvars, syncvars, blockonvars, slotvars, callvars, osbasevars,
                 part>>
BlockOnPart ==
  /\ part = "blockon" /\ BlockOnNext
  /\ UNCHANGED <<timervars, postvars, syncvars, scopedvars, slotvars, callvars, osbasevars,
                 part>>

SlotPart ==
  /\ part = "slot" /\ SlotNext
  /\ UNCHANGED <<timervars, postvars, syncvars, scopedvars, blockonvars, callvars, osbasevars,
                 part>>

CallPart ==
  /\ part = "call" /\ CallNext
  /\ UNCHANGED <<timervars, postvars, syncvars, scopedvars, blockonvars, slotvars,
                 osbasevars, part>>

OsPart ==
  /\ part = "os" /\ OsBaseNext
  /\ UNCHANGED <<timervars, postvars, syncvars, scopedvars, blockonvars, slotvars, callvars,
                 part>>

ServicesNext ==
  \/ TimersPart \/ PostPart \/ SyncPart \/ ScopedPart \/ BlockOnPart
  \/ SlotPart \/ CallPart \/ OsPart

(* Both kinds of parallel_call treat their branches right: the frames of   *)
(* the scoped one outlive the branch, the tasks of the other are not lost. *)
BranchesInv == ScopedInv /\ CallInv

(* Whoever waits in a slot, of the schedulers or of the base system, is    *)
(* woken by who takes it out, and by nobody else.                          *)
WaitersInv == SlotInv /\ OsInv

ServicesSpec == ServicesInit /\ [][ServicesNext]_servicevars
=============================================================================
