----------------------------- MODULE SearchIdle -----------------------------
(***************************************************************************)
(* The standard idle policy, SearchIdle of resumable/common/idle.rs: a few *)
(* idle workers, at most SearchCap::cap, count as searchers and keep       *)
(* looking; the others park with ParkIdle's protocol.  A producer wakes a  *)
(* sleeper only while nobody searches, and the last searcher that finds    *)
(* work wakes one in its place.                                            *)
(*                                                                         *)
(* The search rounds, the memory and the parking are ParkIdle's; a thread  *)
(* inside SearchIdle's own code has a control value of this module.  How   *)
(* long a searcher spins (its clock and moving average) is left open.      *)
(***************************************************************************)
EXTENDS ParkIdle

CONSTANT
  Policy      \* the SearchCap: "Go" or "Half"

ASSUME PolicyAssumption == Policy \in {"Go", "Half"} /\ Worker # {}

SearchControl == Control \cup
           {"try",       \* entering try_search
            "tried",     \* counted in searching, before the cap
            "over",      \* over the cap, about to uncount itself
            "quiet",     \* in new_work, saw no searcher
            "last",      \* in work_found, was the last searcher
            "lastread"}  \* in work_found, before the load of sleepers

VARIABLES
  searching,  \* the counter
  searchers,  \* workers with ep.search_since = Some
  parking,    \* workers with ep.parking
  before      \* before[w]: what w's last fetch_add on searching returned

policy == <<searching, searchers, parking, before>>
svars == <<vars, policy>>

(* GoCap: half the busy workers; HalfCap: half of all workers; at least 1. *)
Cap(parked, n) ==
  LET workers == Cardinality(Worker)
      share == IF Policy = "Half" THEN workers \div 2
               ELSE IF parked + n < workers THEN (workers - (parked + n)) \div 2 ELSE 0
  IN IF share = 0 THEN 1 ELSE share

SearchInit ==
  /\ Init
  /\ searching = 0 /\ searchers = {} /\ parking = {}
  /\ before = [w \in Worker |-> 0]

-----------------------------------------------------------------------------
(* no_work_found.                                                          *)

(* A worker that is neither searching nor about to park tries to search,   *)
(* whether its round was empty or saw a Retry.                             *)
RoundEnds(w) ==
  /\ left[w] = {}
  /\ Go(w, "search", IF w \notin searchers \cup parking THEN "try"
                     ELSE IF w \in retry THEN "loop" ELSE "nowork")
  /\ UNCHANGED <<mem, wait, search, episode, policy>>

(* Mutant: compare first and count later.                                  *)
TrySearchUncounted(w) ==
  /\ Go(w, "try", "tried")
  /\ before' = [before EXCEPT ![w] = Cardinality(searchers)]
  /\ searching' = searching + 1
  /\ UNCHANGED <<mem, wait, search, episode, searchers, parking>>

(* try_search: count first, then compare with the cap.                     *)
TrySearch(w) ==
  /\ Go(w, "try", "tried")
  /\ before' = [before EXCEPT ![w] = searching]
  /\ searching' = searching + 1
  /\ UNCHANGED <<mem, wait, search, episode, searchers, parking>>

Accept(w) ==
  /\ before[w] < Cap(sleepers, before[w])
  /\ Go(w, "tried", "loop")
  /\ searchers' = searchers \cup {w}
  /\ rounds' = [rounds EXCEPT ![w] = 0]
  /\ UNCHANGED <<mem, wait, search, ticket, searching, parking, before>>

Refuse(w) ==
  /\ before[w] >= Cap(sleepers, before[w])
  /\ Go(w, "tried", "over")
  /\ UNCHANGED <<mem, wait, search, episode, policy>>

StartParking(w) ==
  /\ parking' = parking \cup {w}
  /\ rounds' = [rounds EXCEPT ![w] = SpinRounds]

(* Over the cap: uncount; after an empty round, go and park.               *)
OverCap(w) ==
  /\ searching' = searching - 1
  /\ IF w \in retry
     THEN Go(w, "over", "loop") /\ UNCHANGED <<parking, rounds>>
     ELSE Go(w, "over", "nowork") /\ StartParking(w)
  /\ UNCHANGED <<mem, wait, search, ticket, searchers, before>>

(* A searcher's empty round: spin on, or stop_searching and start_parking. *)
KeepSearching(w) ==
  /\ w \in searchers
  /\ Go(w, "nowork", "loop")
  /\ UNCHANGED <<mem, wait, search, episode, policy>>

(* Mutant: a searcher that gives up stays counted.                         *)
StopSearchingCounted(w) ==
  /\ pc[w] = "nowork" /\ w \in searchers
  /\ searchers' = searchers \ {w}
  /\ StartParking(w)
  /\ UNCHANGED <<mem, wait, search, searching, ticket, pc, before>>

StopSearching(w) ==
  /\ pc[w] = "nowork" /\ w \in searchers
  /\ searchers' = searchers \ {w}
  /\ searching' = searching - 1
  /\ StartParking(w)
  /\ UNCHANGED <<mem, wait, search, ticket, pc, before>>

(* ParkIdle's protocol; back from the wait, the next round starts over.    *)
ParkStep(w) ==
  \/ /\ w \in parking
     /\ Register(w) \/ Park(w)
     /\ UNCHANGED policy
  \/ /\ RegisterFence(w) \/ Snapshot(w) \/ CheckWait(w) \/ KernelWait(w)
     /\ UNCHANGED policy
  \/ /\ Leave(w)
     /\ parking' = parking \ {w}
     /\ UNCHANGED <<searching, searchers, before>>

-----------------------------------------------------------------------------
(* work_found: stop searching, unregister, and if this was the last        *)
(* searcher, fence and wake a sleeper.                                     *)
Found(w) ==
  /\ Go(w, "found", IF w \in searchers /\ searching = 1 THEN "last" ELSE "running")
  /\ searching' = IF w \in searchers THEN searching - 1 ELSE searching
  /\ searchers' = searchers \ {w}
  /\ parking' = parking \ {w}
  /\ Unregister(w)
  /\ UNCHANGED <<mem, epoch, finished, stopping, search, before>>

LastFence(w) ==
  /\ Go(w, "last", "lastread")
  /\ Fence(w)
  /\ UNCHANGED <<queue, pushes, epoch, finished, stopping, search, episode, policy>>

LastRead(w) ==
  /\ Go(w, "lastread", IF sleepers # 0 THEN "bump" ELSE "running")
  /\ UNCHANGED <<mem, wait, search, episode, policy>>

(* new_work after its fence: no wake while somebody searches.              *)
ReadSearching(t) ==
  /\ Go(t, "fenced", IF searching = 0 THEN "quiet" ELSE "running")
  /\ UNCHANGED <<mem, wait, search, episode, policy>>

ReadParked(t) ==
  /\ Go(t, "quiet", IF sleepers # 0 THEN "bump" ELSE "running")
  /\ UNCHANGED <<mem, wait, search, episode, policy>>

-----------------------------------------------------------------------------
WorkerStep(w) ==
  \/ /\ StartRound(w) \/ (\E v \in Thread : Look(w, v)) \/ Take(w)
     /\ UNCHANGED policy
  \/ RoundEnds(w) \/ TrySearch(w) \/ Accept(w) \/ Refuse(w) \/ OverCap(w)
  \/ KeepSearching(w) \/ StopSearching(w) \/ ParkStep(w)
  \/ Found(w) \/ LastFence(w) \/ LastRead(w)

TellStep(t) ==
  \/ (PushFence(t) \/ Bump(t) \/ WakeOne(t)) /\ UNCHANGED policy
  \/ ReadSearching(t) \/ ReadParked(t)

SearchNext ==
  \/ \E w \in Worker : WorkerStep(w)
  \/ \E w \in Worker : (WaitEnds(w) \/ TaskEnds(w)) /\ UNCHANGED policy
  \/ \E t \in Thread : Push(t) /\ UNCHANGED policy
  \/ \E t \in Thread : TellStep(t)
  \/ (SetFinished \/ ShutdownStep \/ Commit) /\ UNCHANGED policy

SearchSpec == SearchInit /\ [][SearchNext]_svars

(* Threads keep running, memory becomes visible, and here tasks end.       *)
SearchFairSpec ==
  /\ SearchSpec
  /\ \A w \in Worker : WF_svars(WorkerStep(w)) /\ WF_svars(TaskEnds(w) /\ UNCHANGED policy)
  /\ \A t \in Thread : WF_svars(TellStep(t))
  /\ WF_svars(ShutdownStep /\ UNCHANGED policy) /\ WF_svars(Commit /\ UNCHANGED policy)

-----------------------------------------------------------------------------
(* Properties.                                                             *)

(* The words and episodes keep their types; no counter goes below zero.    *)
SearchTypeOK ==
  /\ queue \in [Thread -> Nat] /\ hidden \in [Thread -> Nat]
  /\ \A t \in Thread : hidden[t] <= queue[t]
  /\ sleepers \in Nat /\ searching \in Nat
  /\ pc \in [Thread -> SearchControl]
  /\ searchers \subseteq Worker /\ parking \subseteq Worker
  /\ searchers \cap parking = {}
  /\ before \in [Worker -> Nat]

(* searching counts the searchers and those about to be refused: when it   *)
(* is 0 nobody searches, and producers may not rely on one.                *)
SearchingExact ==
  searching = Cardinality(searchers)
            + Cardinality({w \in Worker : pc[w] \in {"tried", "over"}})

(* At most SearchCap::cap workers search at once (the cap of an idle pool: *)
(* Go's shrinks afterwards).                                               *)
CapHeld == Cardinality(searchers) <= Cap(0, 0)

(* The counters tell the truth in every state, with types, count and cap.  *)
SearchInv == SearchTypeOK /\ SearchingExact /\ CapHeld

Telling == {t \in Thread : pc[t] \in {"pushed", "fenced", "quiet", "bump", "wake",
                                      "last", "lastread"}}

(* The pool never falls asleep on work: no state in which every worker is  *)
(* blocked, nobody is about to wake one, and a task is queued.             *)
NotAllAsleep ==
  Queued > 0 /\ ~finished /\ Telling = {} => Waiting # Worker

(* Queued tasks are all taken in the end, whatever producers saw of the    *)
(* searchers and sleepers, if the tasks that run end.                      *)
WorkIsTakenInTheEnd == Queued > 0 ~> Queued = 0 \/ finished
=============================================================================
