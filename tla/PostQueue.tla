----------------------------- MODULE PostQueue -----------------------------
(***************************************************************************)
(* Post delegators (src/src/post.rs).  A thread posts by raising the count *)
(* in its own slot.  SlotPostDelegator's server looks at every slot, on a  *)
(* period; QueuePostDelegator's looks at the slots that were listed since  *)
(* the last serve, and the one that lists the first asks the duty for a    *)
(* poll.  Anybody may serve, whoever gets the server's lock.               *)
(*                                                                         *)
(* Memory is sequentially consistent but for one plain store: the duty     *)
(* clears the deadline before it polls, and that store may stay in the     *)
(* polling thread's store buffer until its next atomic read-modify-write.  *)
(***************************************************************************)
EXTENDS Integers, FiniteSets

CONSTANTS
  Producer,    \* threads that post
  MaxPosts,    \* bound: posts of a producer
  Poll,        \* the thread that polls the duty
  NoSlot       \* null

Server == Producer \cup {Poll}

VARIABLES
  design,      \* which delegator: "slot" or "queue"
  producers,   \* threads that have a slot
  mark,        \* Hot::mark
  queued,      \* Hot::queued
  nextPending, \* Hot::next_pending
  pending,     \* QueuePostDelegator::pending
  post,        \* where a producer is in post()
  busy,        \* Server::busy: who has the lock
  serve,       \* the threads in serve_now, with_lock: [pc, at, left]
  seen,        \* Cold::seen
  batch,       \* Server::batch: the counts it covers, 0 for no entry
  served,      \* what the consumer has been told of each producer
  asked,       \* the duty has a deadline
  buffered,    \* the store that clears it is still in the polling thread's buffer
  dutyPoll      \* the duty's poll: "off", "serving", "served"

hot      == <<mark, queued, nextPending>>
posting  == <<producers, post, pending>>
serving  == <<busy, serve, seen, batch>>
polls    == <<asked, buffered, dutyPoll>>
postvars == <<design, hot, posting, serving, served, polls>>

Away == [pc |-> "off", at |-> NoSlot, left |-> {}]

PostInit ==
  /\ design \in {"slot", "queue"}
  /\ producers = {}
  /\ mark = [p \in Producer |-> 0] /\ seen = [p \in Producer |-> 0]
  /\ queued = [p \in Producer |-> FALSE]
  /\ nextPending = [p \in Producer |-> NoSlot] /\ pending = NoSlot
  /\ post = [p \in Producer |-> "idle"]
  /\ busy = NoSlot
  /\ serve = [t \in Server |-> Away]
  /\ batch = [p \in Producer |-> 0] /\ served = [p \in Producer |-> 0]
  /\ asked = FALSE /\ buffered = FALSE /\ dutyPoll = "off"

AtPost(p, pc) == post[p] = pc
GoPost(p, pc) == post' = [post EXCEPT ![p] = pc]
AtServe(t, pc) == serve[t].pc = pc
GoServe(t, pc) == serve' = [serve EXCEPT ![t].pc = pc]

-----------------------------------------------------------------------------
(* post().  The first one registers the thread's slot; the count goes up.  *)
BumpMark(p) ==
  /\ AtPost(p, "idle") /\ AtServe(p, "off") /\ mark[p] < MaxPosts
  /\ producers' = producers \cup {p}
  /\ mark' = [mark EXCEPT ![p] = @ + 1]
  /\ GoPost(p, IF design = "slot" THEN "idle" ELSE "swap")
  /\ UNCHANGED <<design, queued, nextPending, pending, serving, served, polls>>

SwapQueued(p) ==
  /\ AtPost(p, "swap")
  /\ queued' = [queued EXCEPT ![p] = TRUE]
  /\ GoPost(p, IF queued[p] THEN "idle" ELSE "load")
  /\ UNCHANGED <<design, producers, mark, nextPending, pending, serving, served, polls>>

LoadPending(p) ==
  /\ AtPost(p, "load")
  /\ nextPending' = [nextPending EXCEPT ![p] = pending]
  /\ GoPost(p, "link")
  /\ UNCHANGED <<design, producers, mark, queued, pending, serving, served, polls>>

(* Mutant: a slot that was overtaken is not linked.                        *)
LinkOnce(p) ==
  /\ AtPost(p, "link")
  /\ pending' = IF pending = nextPending[p] THEN p ELSE pending
  /\ GoPost(p, IF nextPending[p] = NoSlot THEN "ask" ELSE "idle")
  /\ UNCHANGED <<design, producers, hot, serving, served, polls>>

LinkPending(p) ==
  /\ AtPost(p, "link")
  /\ IF pending = nextPending[p]
     THEN /\ pending' = p
          /\ GoPost(p, IF nextPending[p] = NoSlot THEN "ask" ELSE "idle")
          /\ UNCHANGED nextPending
     ELSE /\ nextPending' = [nextPending EXCEPT ![p] = pending]
          /\ UNCHANGED <<pending, post>>
  /\ UNCHANGED <<design, producers, mark, queued, serving, served, polls>>

(* The first of the list asks for a poll.                                  *)
Ask(p) ==
  /\ AtPost(p, "ask")
  /\ asked' = TRUE
  /\ GoPost(p, "idle")
  /\ UNCHANGED <<design, producers, hot, pending, serving, served, buffered, dutyPoll>>

-----------------------------------------------------------------------------
(* serve_now(): on a producer's own call ...                               *)
ServeNow(p) ==
  /\ AtPost(p, "idle") /\ AtServe(p, "off")
  /\ design = "queue" => pending # NoSlot
  /\ GoServe(p, "lock")
  /\ UNCHANGED <<design, posting, hot, busy, seen, batch, served, polls>>

(* ... or by the duty: run() has cleared the deadline, perhaps not yet for *)
(* the others to see.  The slots' duty is due every so often.              *)
PollDuty ==
  /\ dutyPoll = "off" /\ (asked \/ design = "slot")
  /\ dutyPoll' = IF design = "queue" /\ pending = NoSlot THEN "served" ELSE "serving"
  /\ serve' = [serve EXCEPT ![Poll].pc = IF dutyPoll' = "serving" THEN "lock" ELSE "off"]
  /\ buffered' = asked
  /\ UNCHANGED <<design, posting, hot, busy, seen, batch, served, asked>>

FlushClear ==
  /\ buffered
  /\ asked' = FALSE /\ buffered' = FALSE
  /\ UNCHANGED <<design, posting, hot, serving, served, dutyPoll>>

(* try_lock: who does not get it leaves the posts to the other.            *)
Flushed(t) == t = Poll => ~ buffered

TryLock(t) ==
  /\ AtServe(t, "lock") /\ (busy = NoSlot => Flushed(t))
  /\ IF busy = NoSlot THEN busy' = t /\ GoServe(t, "take") ELSE GoServe(t, "end") /\ UNCHANGED busy
  /\ UNCHANGED <<design, posting, hot, seen, batch, served, polls>>

(* The list is taken whole; or all slots are visited.                      *)
TakeSlots(t) ==
  /\ AtServe(t, "take")
  /\ batch' = [p \in Producer |-> 0]
  /\ IF design = "queue"
     THEN /\ pending' = NoSlot
          /\ serve' = [serve EXCEPT ![t].pc = "visit", ![t].at = pending]
     ELSE /\ serve' = [serve EXCEPT ![t].pc = "visit", ![t].left = producers]
          /\ UNCHANGED pending
  /\ UNCHANGED <<design, producers, hot, post, busy, seen, served, polls>>

(* A listed slot: its link is read and queued cleared; from here on its    *)
(* thread may list it again.                                               *)
ClearQueued(t) ==
  LET p == serve[t].at IN
  /\ AtServe(t, "visit") /\ p # NoSlot
  /\ queued' = [queued EXCEPT ![p] = FALSE]
  /\ serve' = [serve EXCEPT ![t].at = nextPending[p], ![t].left = {p}, ![t].pc = "collect"]
  /\ UNCHANGED <<design, posting, mark, nextPending, busy, seen, batch, served, polls>>

Collect(t, p) ==
  /\ serve[t].pc \in {"collect", "visit"} /\ p \in serve[t].left
  /\ seen' = [seen EXCEPT ![p] = mark[p]]
  /\ batch' = IF mark[p] # seen[p] THEN [batch EXCEPT ![p] = mark[p]] ELSE batch
  /\ serve' = [serve EXCEPT ![t].pc = "visit", ![t].left = @ \ {p}]
  /\ UNCHANGED <<design, posting, hot, busy, served, polls>>

(* The consumer is told what the batch covers, and the lock is released.   *)
ServeBatch(t) ==
  /\ AtServe(t, "visit") /\ serve[t].at = NoSlot /\ serve[t].left = {}
  /\ served' = [p \in Producer |-> IF batch[p] = 0 THEN served[p] ELSE batch[p]]
  /\ busy' = NoSlot
  /\ GoServe(t, "end")
  /\ UNCHANGED <<design, posting, hot, seen, batch, polls>>

ServeEnds(t) ==
  /\ AtServe(t, "end")
  /\ GoServe(t, "off")
  /\ dutyPoll' = IF t = Poll THEN "served" ELSE dutyPoll
  /\ UNCHANGED <<design, posting, hot, busy, seen, batch, served, asked, buffered>>

(* The poll asks again if slots were listed meanwhile, or if somebody else *)
(* was serving.  A deadline of its own comes after its clearing.           *)
PollEnds ==
  /\ dutyPoll = "served"
  /\ dutyPoll' = "ended"
  /\ IF design = "queue" /\ pending # NoSlot
     THEN asked' = TRUE /\ buffered' = FALSE
     ELSE UNCHANGED <<asked, buffered>>
  /\ UNCHANGED <<design, posting, hot, serving, served>>

(* The registry's lock is released, with all that was stored.              *)
RunEnds ==
  /\ dutyPoll = "ended" /\ ~ buffered
  /\ dutyPoll' = "off"
  /\ UNCHANGED <<design, posting, hot, serving, served, asked, buffered>>

(* with_lock: the consumer is used outside a serve.                        *)
WithLock(p) ==
  /\ AtPost(p, "idle") /\ AtServe(p, "off") /\ busy = NoSlot
  /\ busy' = p
  /\ GoServe(p, "with lock")
  /\ UNCHANGED <<design, posting, hot, seen, batch, served, polls>>

LeaveLock(p) ==
  /\ AtServe(p, "with lock")
  /\ busy' = NoSlot
  /\ GoServe(p, "off")
  /\ UNCHANGED <<design, posting, hot, seen, batch, served, polls>>

PostNext ==
  \/ PollDuty \/ FlushClear \/ PollEnds \/ RunEnds
  \/ \E p \in Producer :
       \/ BumpMark(p) \/ SwapQueued(p) \/ LoadPending(p) \/ LinkPending(p) \/ Ask(p)
       \/ ServeNow(p) \/ WithLock(p) \/ LeaveLock(p)
  \/ \E t \in Server :
       \/ TryLock(t) \/ TakeSlots(t) \/ ClearQueued(t) \/ ServeBatch(t) \/ ServeEnds(t)
       \/ \E p \in Producer : Collect(t, p)

-----------------------------------------------------------------------------
(* No post slips through: one that the consumer has not been told of is in *)
(* a batch or in the way of the server, or it is listed, or is being listed*)
(* by its thread; a link always leads back to the list's end.              *)
From(p) ==   \* the slots linked from p on
  LET reach[n \in 0 .. Cardinality(Producer)] ==
        IF n = 0 THEN {p} ELSE reach[n - 1] \cup {nextPending[q] : q \in reach[n - 1] \ {NoSlot}}
  IN reach[Cardinality(Producer)]

InHand(p) ==
  \E t \in Server :
    busy = t /\ (p \in serve[t].left \/ p \in From(serve[t].at) \/ batch[p] = mark[p])

PostsFound ==
  \A p \in Producer : served[p] # mark[p] =>
    \/ design = "slot" /\ p \in producers
    \/ p \in From(pending) \/ InHand(p) \/ post[p] \in {"swap", "load", "link"}

(* ... and a poll is under way or asked for.                               *)
PollComes ==
  pending # NoSlot =>
    \/ asked \/ dutyPoll \in {"serving", "served"} \/ \E p \in Producer : post[p] = "ask"
=============================================================================
