----------------------------- MODULE BlockOnWake -----------------------------
(***************************************************************************)
(* The pollers of block_on and of async tasks and the wakers they hand out *)
(* (common/waker.rs, stackful/waker.rs, stackless/waker.rs), on one        *)
(* descriptor that a task gives back and another one gets. A wake word     *)
(* says whether the task polls, was notified while it polled, or is parked;*)
(* it is in the descriptor (UltPoller and async tasks) or in a slot of the *)
(* block_on call (ResumablePoller). Wakers may be cloned, fire spuriously, *)
(* and outlive the poll, the call and the task.                            *)
(*                                                                         *)
(* A future waits for the first of several sources; when one has fired the *)
(* wakers that the others hold are stale.                                  *)
(***************************************************************************)
EXTENDS Integers, FiniteSets, SequencesExt

CONSTANTS
  Source,       \* what a future may wait for
  MaxSessions,  \* bound: polled futures of a behaviour
  MaxLives,     \* bound: tasks that use the descriptor
  Nesting       \* pollers for which a future's poll may call block_on

ASSUME BlockOnAssumption ==
  MaxSessions \in Nat /\ MaxLives \in Nat /\ Nesting \subseteq {"desc", "slot"}

VARIABLES
  poller,    \* "desc": the word is in the descriptor; "slot": each call has one
  taskKind,  \* who has the descriptor: "ult", "async", or "none" while it is pooled
  lives,     \* tasks so far
  opened,    \* futures so far
  open,      \* the futures that the task is polling, the innermost last
  at,        \* where the task is
  wstate,    \* the wake words
  holds,     \* who has a waker: <<future, source>>
  firing,    \* wakes on their way
  won,       \* wakes that claimed the parked task and have not pushed it yet
  fired,     \* sources that have fired
  tokens,    \* the task's continuations in the run queues
  elsewhere  \* a join, a mutex... holds its continuation

blockonvars == <<poller, taskKind, lives, opened, open, at, wstate, holds, firing, won, fired,
                 tokens, elsewhere>>

Session == 1 .. MaxSessions
Waker   == Session \X Source
Now     == Last(open)

(* The wake words: the slot of each call, and after them the descriptor's. *)
DescWord == MaxSessions + 1
WakeCell == 1 .. DescWord
Cell(n)  == IF poller = "slot" THEN n ELSE DescWord

BlockOnInit ==
  /\ poller \in {"desc", "slot"}
  /\ taskKind = "none" /\ lives = 0 /\ opened = 0 /\ open = <<>> /\ at = "out"
  /\ wstate = [c \in WakeCell |-> "idle"]
  /\ holds = {} /\ firing = {} /\ won = {} /\ fired = {} /\ tokens = 0 /\ elsewhere = FALSE

MarkPolling(c) == wstate' = [wstate EXCEPT ![c] = "polling"]
MarkIdle(c)    == wstate' = [wstate EXCEPT ![c] = "idle"]

Suspended == at \in {"suspended", "blocked"}

---------------------------------------------------------------------------
(* A task gets the descriptor, with its word reset. An async task is       *)
(* queued at once.                                                         *)
SpawnUlt ==
  /\ taskKind = "none" /\ lives < MaxLives
  /\ lives' = lives + 1 /\ taskKind' = "ult" /\ MarkIdle(DescWord)
  /\ UNCHANGED <<poller, opened, open, at, holds, firing, won, fired, tokens, elsewhere>>

SpawnPolled ==
  /\ taskKind = "none" /\ lives < MaxLives /\ poller = "desc" /\ opened < MaxSessions
  /\ lives' = lives + 1 /\ taskKind' = "async" /\ MarkIdle(DescWord)
  /\ opened' = opened + 1 /\ open' = <<opened + 1>>
  /\ at' = "suspended" /\ tokens' = tokens + 1
  /\ UNCHANGED <<poller, holds, firing, won, fired, elsewhere>>

(* block_on: Poller::new marks the word as polling.                        *)
BlockOn ==
  /\ taskKind = "ult" /\ opened < MaxSessions
  /\ at = "out" \/ (at = "pending" /\ poller \in Nesting /\ Len(open) = 1)
  /\ opened' = opened + 1 /\ open' = Append(open, opened + 1)
  /\ MarkPolling(Cell(opened + 1))
  /\ at' = "poll"
  /\ UNCHANGED <<poller, taskKind, lives, holds, firing, won, fired, tokens, elsewhere>>

(* The poll leaves a clone of the waker with each source, ...              *)
RegisterWakers ==
  /\ at = "poll" /\ at' = "check"
  /\ holds' = holds \cup {<<Now, s>> : s \in Source}
  /\ UNCHANGED <<poller, taskKind, lives, opened, open, wstate, firing, won, fired, tokens,
                 elsewhere>>

(* ... and is pending if none has fired.                                   *)
FindPending ==
  /\ at = "check" /\ \A s \in Source : <<Now, s>> \notin fired
  /\ at' = "pending"
  /\ UNCHANGED <<poller, taskKind, lives, opened, open, wstate, holds, firing, won, fired,
                 tokens, elsewhere>>

(* The future is ready: the poller is dropped and the word idle. An async  *)
(* task is over.                                                           *)
FindReady ==
  /\ at = "check" /\ \E s \in Source : <<Now, s>> \in fired
  /\ MarkIdle(Cell(Now))
  /\ open' = Front(open)
  /\ at' = IF Len(open) > 1 THEN "pending" ELSE "out"
  /\ taskKind' = IF taskKind = "async" THEN "none" ELSE taskKind
  /\ UNCHANGED <<poller, lives, opened, holds, firing, won, fired, tokens, elsewhere>>

(* Poller::wait: the context is saved, and the rest runs on another stack. *)
SaveContext ==
  /\ taskKind = "ult" /\ at = "pending" /\ at' = "saved"
  /\ UNCHANGED <<poller, taskKind, lives, opened, open, wstate, holds, firing, won, fired,
                 tokens, elsewhere>>

(* Mutant: a notification that came during the poll is overwritten.        *)
DecideParkBlind ==
  /\ at = "saved"
  /\ wstate' = [wstate EXCEPT ![Cell(Now)] = "parked"] /\ at' = "suspended"
  /\ UNCHANGED <<poller, taskKind, lives, opened, open, holds, firing, won, fired, tokens,
                 elsewhere>>

(* decide_park: the task parks, unless it was notified: then it polls on.  *)
DecidePark ==
  /\ at = "saved"
  /\ IF wstate[Cell(Now)] = "notified"
     THEN wstate' = [wstate EXCEPT ![Cell(Now)] = "polling"] /\ at' = "poll"
     ELSE wstate' = [wstate EXCEPT ![Cell(Now)] = "parked"] /\ at' = "suspended"
  /\ UNCHANGED <<poller, taskKind, lives, opened, open, holds, firing, won, fired, tokens,
                 elsewhere>>

(* park_after_poll: the async task parks, or goes back to the queue.       *)
ParkAfterPoll ==
  /\ taskKind = "async" /\ at = "pending" /\ at' = "suspended"
  /\ IF wstate[DescWord] = "notified"
     THEN wstate' = [wstate EXCEPT ![DescWord] = "polling"] /\ tokens' = tokens + 1
     ELSE wstate' = [wstate EXCEPT ![DescWord] = "parked"] /\ UNCHANGED tokens
  /\ UNCHANGED <<poller, taskKind, lives, opened, open, holds, firing, won, fired, elsewhere>>

(* A worker takes the continuation. run_async_poll marks the word again.   *)
Continue ==
  /\ Suspended /\ tokens > 0 /\ tokens' = tokens - 1
  /\ at' = IF at = "blocked" THEN "out" ELSE "poll"
  /\ IF taskKind = "async" THEN MarkPolling(DescWord) ELSE UNCHANGED wstate
  /\ UNCHANGED <<poller, taskKind, lives, opened, open, holds, firing, won, fired, elsewhere>>

(* Outside block_on the ULT waits for something else, which resumes it.    *)
WaitElsewhere ==
  /\ taskKind = "ult" /\ at = "out" /\ at' = "blocked" /\ elsewhere' = TRUE
  /\ UNCHANGED <<poller, taskKind, lives, opened, open, wstate, holds, firing, won, fired, tokens>>

ResumeElsewhere ==
  /\ elsewhere /\ elsewhere' = FALSE /\ tokens' = tokens + 1
  /\ UNCHANGED <<poller, taskKind, lives, opened, open, at, wstate, holds, firing, won, fired>>

ExitUlt ==
  /\ taskKind = "ult" /\ at = "out" /\ taskKind' = "none"
  /\ UNCHANGED <<poller, lives, opened, open, at, wstate, holds, firing, won, fired, tokens,
                 elsewhere>>

---------------------------------------------------------------------------
(* A source fires, and wakes through the waker it has; or it wakes although*)
(* it has not fired.                                                       *)
FireSource(n, s) ==
  /\ n <= opened /\ <<n, s>> \notin fired
  /\ fired' = fired \cup {<<n, s>>}
  /\ firing' = IF <<n, s>> \in holds THEN firing \cup {<<n, s>>} ELSE firing
  /\ holds' = holds \ {<<n, s>>}
  /\ UNCHANGED <<poller, taskKind, lives, opened, open, at, wstate, won, tokens, elsewhere>>

WakeSpuriously(n, s) ==
  /\ <<n, s>> \in holds /\ <<n, s>> \notin firing \cup won
  /\ holds' = holds \ {<<n, s>>} /\ firing' = firing \cup {<<n, s>>}
  /\ UNCHANGED <<poller, taskKind, lives, opened, open, at, wstate, won, fired, tokens, elsewhere>>

(* try_wake_state: a poll is told to repeat, a parked task is claimed;     *)
(* otherwise the wake is stale or not the first.                           *)
TryWakeState(n, s) ==
  LET c == Cell(n) IN
  /\ <<n, s>> \in firing /\ firing' = firing \ {<<n, s>>}
  /\ wstate' = [wstate EXCEPT ![c] = CASE wstate[c] = "polling" -> "notified"
                                   [] wstate[c] = "parked"  -> "polling"
                                   [] OTHER               -> wstate[c]]
  /\ won' = IF wstate[c] = "parked" THEN won \cup {<<n, s>>} ELSE won
  /\ UNCHANGED <<poller, taskKind, lives, opened, open, at, holds, fired, tokens, elsewhere>>

(* push_continuation: to the waker's worker, or to the external queue.     *)
PushContinuation(n, s) ==
  /\ <<n, s>> \in won /\ won' = won \ {<<n, s>>} /\ tokens' = tokens + 1
  /\ UNCHANGED <<poller, taskKind, lives, opened, open, at, wstate, holds, firing, fired,
                 elsewhere>>

WakerStep(n, s) ==
  FireSource(n, s) \/ WakeSpuriously(n, s) \/ TryWakeState(n, s) \/ PushContinuation(n, s)

BlockOnNext ==
  \/ SpawnUlt \/ SpawnPolled \/ BlockOn \/ RegisterWakers \/ FindPending \/ FindReady
  \/ SaveContext \/ DecidePark \/ ParkAfterPoll \/ Continue
  \/ WaitElsewhere \/ ResumeElsewhere \/ ExitUlt
  \/ \E n \in Session, s \in Source : WakerStep(n, s)

---------------------------------------------------------------------------
(* The descriptor's continuation is in one place: with the thread that runs*)
(* it, in a wake word, with the one wake that claimed it, with something   *)
(* else that the task waits for, or in a queue. A stale waker of an earlier*)
(* task never makes a second one.                                          *)
OneContinuation ==
  LET n(b) == IF b THEN 1 ELSE 0 IN
  n(taskKind # "none") =
    n(taskKind # "none" /\ ~ Suspended) + n(elsewhere) + Cardinality(won) + tokens
      + Cardinality({c \in WakeCell : wstate[c] = "parked"})

(* A parked task whose source has fired has a wake on its way.             *)
WakeKept ==
  /\ Suspended /\ open # <<>> /\ wstate[Cell(Now)] = "parked"
  /\ \E s \in Source : <<Now, s>> \in fired
  => \E s \in Source : <<Now, s>> \in firing

(* Wakers that outlive the poll, the call or the task at worst cause a     *)
(* poll too many, and none that matters is lost (common/waker.rs).         *)
WakersInv == OneContinuation /\ WakeKept

BlockOnSpec == BlockOnInit /\ [][BlockOnNext]_blockonvars
=============================================================================
