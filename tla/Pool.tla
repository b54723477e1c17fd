-------------------------------- MODULE Pool --------------------------------
(***************************************************************************)
(* The pools of task descriptors and of type-erased blocks                 *)
(* (src/src/resumable/common/pool.rs, stack.rs): SimplePool keeps a list of*)
(* its own on every worker; ReturnPool, and BlockPool under ThresholdPool, *)
(* send a node back to the worker that allocated it, in batches.           *)
(*                                                                         *)
(* A node is the box that the pool prepends to the payload; `link` is its  *)
(* next pointer, which a list of nodes runs through, so that a mistake in  *)
(* one list is visible in another.  Boxes are recycled by the allocator:   *)
(* a node that was freed may be allocated again.  A descriptor's stack is  *)
(* a number of pages, one of which is the guard.                           *)
(***************************************************************************)
EXTENDS Integers, FiniteSets, Sequences, SequencesExt, FiniteSetsExt

CONSTANTS
  Holder,      \* the workers of the pool
  Block,       \* addresses of nodes
  Thresholds,  \* the lengths at which a batch for another worker is flushed
  Cap,         \* SimplePool keeps so many nodes per worker
  Pages,       \* pages of a pooled stack; an oversized request takes one more
  NoBox          \* the null pointer

ASSUME PoolAssumption ==
  /\ Thresholds \subseteq Nat \ {0}
  /\ Cap \in Nat /\ Pages \in Nat
  /\ NoBox \notin Block \cup Holder

VARIABLES
  pool,        \* "simple", "return" or "block"
  threshold,   \* its batch length, a parameter of its type
  boxes,       \* nodes that are allocated
  given,       \* those that alloc returned and dealloc has not got back
  link,        \* PoolNode::next
  home,        \* PoolNode::alloc_wk
  oversized,   \* one-off allocations
  span,        \* pages in the StackMem of a node's payload, guard included
  mapped,      \* pages the kernel holds mapped (external)
  conLocal,    \* LocalHalf::con_local
  conRemote,   \* RemoteHalf::con_remote
  remoteLock,  \* RemoteHalf::lock: who holds it
  proLists,    \* pro_arrays: [first, last, num] by current and home worker
  lists,       \* SimplePool::lists
  step,        \* where each worker is in node_take or node_give
  hand,        \* the node a worker took out, or is giving back
  open         \* the pool has not been dropped

headers  == <<link, home, oversized>>
stacks   == <<span, mapped>>
nodevars == <<headers, stacks>>
halves   == <<conLocal, conRemote>>
listvars == <<halves, proLists, lists>>
poolkind == <<pool, threshold>>
poolvars == <<pool, threshold, boxes, given, nodevars, listvars, remoteLock, step, hand, open>>

EmptyPro == [first |-> NoBox, last |-> NoBox, num |-> 0]

PoolInit ==
  /\ pool \in {"simple", "return", "block"}
  /\ threshold \in IF pool = "simple" THEN {0} ELSE Thresholds
  /\ boxes = {} /\ given = {} /\ oversized = {}
  /\ link = [b \in Block |-> NoBox] /\ home = [b \in Block |-> NoBox]
  /\ span = [b \in Block |-> 0] /\ mapped = 0
  /\ conLocal = [w \in Holder |-> NoBox] /\ conRemote = [w \in Holder |-> NoBox]
  /\ remoteLock = [w \in Holder |-> NoBox]
  /\ proLists = [w \in Holder |-> [h \in Holder |-> EmptyPro]]
  /\ lists = [w \in Holder |-> <<>>]
  /\ step = [w \in Holder |-> "out"] /\ hand = [w \in Holder |-> NoBox]
  /\ open = TRUE

(* A chain of nodes: those reached from a pointer through `link`.          *)
Chain(p) ==
  LET reach[n \in 0..Cardinality(Block)] ==
        IF n = 0 THEN {p} \ {NoBox}
        ELSE reach[n - 1] \cup ({link[b] : b \in reach[n - 1]} \ {NoBox})
  IN reach[Cardinality(Block)]

(* alloc_stack: the usable pages of a stack have a guard page below them;  *)
(* a block of BlockPool is one plain allocation.                           *)
StackSpan(n) == IF pool = "block" THEN 0 ELSE 1 + n

(* wrap_fresh: a new box around a payload with memory of its own.          *)
WrapFresh(w, b, big) ==
  /\ b \notin boxes
  /\ boxes' = boxes \cup {b}
  /\ given' = given \cup {b}
  /\ link' = [link EXCEPT ![b] = NoBox]
  /\ home' = [home EXCEPT ![b] = w]
  /\ oversized' = IF big THEN oversized \cup {b} ELSE oversized \ {b}
  /\ LET n == StackSpan(IF big THEN Pages + 1 ELSE Pages) IN
       /\ span' = [span EXCEPT ![b] = n]
       /\ mapped' = mapped + n

(* Dropping a box drops its payload, whose StackMem unmaps the guard page  *)
(* and as many usable pages as it remembers.                               *)
Free(B) ==
  /\ boxes' = boxes \ B
  /\ mapped' = mapped - FoldSet(LAMBDA b, n : span[b] + n, 0, B)
  /\ span' = [b \in Block |-> IF b \in B THEN 0 ELSE span[b]]
  /\ link' = [b \in Block |-> IF b \in B THEN NoBox ELSE link[b]]
  /\ home' = [b \in Block |-> IF b \in B THEN NoBox ELSE home[b]]
  /\ oversized' = oversized \ B

-----------------------------------------------------------------------------
(* alloc.                                                                  *)

(* A request beyond the slot size bypasses the lists.                      *)
AllocOversized(w, b) ==
  /\ open /\ step[w] = "out"
  /\ WrapFresh(w, b, TRUE)
  /\ UNCHANGED <<poolkind, listvars, remoteLock, step, hand, open>>

SpinLock(h, w) == remoteLock[h] = NoBox /\ remoteLock' = [remoteLock EXCEPT ![h] = w]
SpinUnlock(h)  == remoteLock' = [remoteLock EXCEPT ![h] = NoBox]

(* node_take: the local list first.                                        *)
TakeLocal(w) ==
  /\ open /\ pool # "simple" /\ step[w] = "out" /\ conLocal[w] # NoBox
  /\ given' = given \cup {conLocal[w]}
  /\ conLocal' = [conLocal EXCEPT ![w] = link[conLocal[w]]]
  /\ UNCHANGED <<poolkind, boxes, nodevars, conRemote, proLists, lists, remoteLock, step, hand, open>>

(* It is empty: the mailbox is emptied under its lock.                     *)
LockOwn(w) ==
  /\ open /\ pool # "simple" /\ step[w] = "out" /\ conLocal[w] = NoBox
  /\ SpinLock(w, w)
  /\ step' = [step EXCEPT ![w] = "drain"]
  /\ UNCHANGED <<poolkind, boxes, given, nodevars, listvars, hand, open>>

(* All of it becomes the local list, whose first node is taken; nothing was*)
(* there: a fresh node, with w as its home.                                *)
TakeDrained(w) ==
  /\ step[w] = "drain" /\ conRemote[w] # NoBox
  /\ given' = given \cup {conRemote[w]}
  /\ conLocal' = [conLocal EXCEPT ![w] = link[conRemote[w]]]
  /\ conRemote' = [conRemote EXCEPT ![w] = NoBox]
  /\ SpinUnlock(w)
  /\ step' = [step EXCEPT ![w] = "out"]
  /\ UNCHANGED <<poolkind, boxes, nodevars, proLists, lists, hand, open>>

TakeFresh(w, b) ==
  /\ step[w] = "drain" /\ conRemote[w] = NoBox
  /\ SpinUnlock(w)
  /\ step' = [step EXCEPT ![w] = "out"]
  /\ WrapFresh(w, b, FALSE)
  /\ UNCHANGED <<poolkind, listvars, hand, open>>

(* SimplePool: pop the worker's own list, or allocate.                     *)
PopList(w) ==
  /\ open /\ pool = "simple" /\ step[w] = "out" /\ lists[w] # <<>>
  /\ given' = given \cup {Last(lists[w])}
  /\ lists' = [lists EXCEPT ![w] = Front(lists[w])]
  /\ UNCHANGED <<poolkind, boxes, nodevars, halves, proLists, remoteLock, step, hand, open>>

AllocSimple(w, b) ==
  /\ open /\ pool = "simple" /\ step[w] = "out" /\ lists[w] = <<>>
  /\ WrapFresh(w, b, FALSE)
  /\ UNCHANGED <<poolkind, listvars, remoteLock, step, hand, open>>

-----------------------------------------------------------------------------
(* dealloc, by whichever worker has the finished task.                     *)

Giving(w, b) == open /\ step[w] = "out" /\ b \in given

FreeOversized(w, b) ==
  /\ Giving(w, b) /\ b \in oversized
  /\ given' = given \ {b}
  /\ Free({b})
  /\ UNCHANGED <<poolkind, listvars, remoteLock, step, hand, open>>

PushList(w, b) ==
  /\ Giving(w, b) /\ b \notin oversized /\ pool = "simple" /\ Len(lists[w]) < Cap
  /\ given' = given \ {b}
  /\ lists' = [lists EXCEPT ![w] = Append(@, b)]
  /\ UNCHANGED <<poolkind, boxes, nodevars, halves, proLists, remoteLock, step, hand, open>>

FreeExcess(w, b) ==
  /\ Giving(w, b) /\ b \notin oversized /\ pool = "simple" /\ Len(lists[w]) >= Cap
  /\ given' = given \ {b}
  /\ Free({b})
  /\ UNCHANGED <<poolkind, listvars, remoteLock, step, hand, open>>

(* node_give at home.                                                      *)
GiveHome(w, b) ==
  /\ Giving(w, b) /\ b \notin oversized /\ pool # "simple" /\ home[b] = w
  /\ given' = given \ {b}
  /\ link' = [link EXCEPT ![b] = conLocal[w]]
  /\ conLocal' = [conLocal EXCEPT ![w] = b]
  /\ UNCHANGED <<poolkind, boxes, home, oversized, stacks, conRemote, proLists, lists,
                 remoteLock, step, hand, open>>

GivingAway(w, b) ==
  Giving(w, b) /\ b \notin oversized /\ pool # "simple" /\ home[b] # w

StageNode(w, b) ==
  LET pro == proLists[w][home[b]] IN
  /\ GivingAway(w, b) /\ pro.num < threshold
  /\ given' = given \ {b}
  /\ link' = [link EXCEPT ![b] = pro.first]
  /\ proLists' = [proLists EXCEPT ![w][home[b]] =
       [first |-> b, last |-> IF pro.num = 0 THEN b ELSE pro.last, num |-> pro.num + 1]]
  /\ UNCHANGED <<poolkind, boxes, home, oversized, stacks, conLocal, conRemote, lists,
                 remoteLock, step, hand, open>>

(* Mutant: the mailbox's lock is not waited for.                           *)
LockHomeAnyway(w, b) ==
  /\ GivingAway(w, b) /\ proLists[w][home[b]].num >= threshold
  /\ remoteLock' = [remoteLock EXCEPT ![home[b]] = w]
  /\ given' = given \ {b}
  /\ hand' = [hand EXCEPT ![w] = b]
  /\ step' = [step EXCEPT ![w] = "splice"]
  /\ UNCHANGED <<poolkind, boxes, nodevars, listvars, open>>

(* The batch is full: it goes to the home worker's mailbox, under its lock.*)
LockHome(w, b) ==
  /\ GivingAway(w, b) /\ proLists[w][home[b]].num >= threshold
  /\ SpinLock(home[b], w)
  /\ given' = given \ {b}
  /\ hand' = [hand EXCEPT ![w] = b]
  /\ step' = [step EXCEPT ![w] = "splice"]
  /\ UNCHANGED <<poolkind, boxes, nodevars, listvars, open>>

SpliceLink(w) ==
  LET h == home[hand[w]] IN
  /\ step[w] = "splice"
  /\ link' = [link EXCEPT ![proLists[w][h].last] = conRemote[h]]
  /\ step' = [step EXCEPT ![w] = "head"]
  /\ UNCHANGED <<poolkind, boxes, given, home, oversized, stacks, listvars, remoteLock, hand, open>>

(* Unlocked again, the node in hand starts the next batch.                 *)
SpliceHead(w) ==
  LET h == home[hand[w]] IN
  /\ step[w] = "head"
  /\ conRemote' = [conRemote EXCEPT ![h] = proLists[w][h].first]
  /\ SpinUnlock(h)
  /\ link' = [link EXCEPT ![hand[w]] = NoBox]
  /\ proLists' = [proLists EXCEPT ![w][h] = [first |-> hand[w], last |-> hand[w], num |-> 1]]
  /\ step' = [step EXCEPT ![w] = "out"] /\ hand' = [hand EXCEPT ![w] = NoBox]
  /\ UNCHANGED <<poolkind, boxes, given, home, oversized, stacks, conLocal, lists, open>>

(* free_desc outside every pool: a join handle used by a thread that is no *)
(* worker frees the descriptor itself.                                     *)
FreeOutside(b) ==
  /\ b \in given /\ pool # "block"
  /\ given' = given \ {b}
  /\ Free({b})
  /\ UNCHANGED <<poolkind, listvars, remoteLock, step, hand, open>>

(* The pool is dropped with its scheduler, when no worker runs any more.   *)
Listed ==
  UNION {Chain(conLocal[w]) \cup Chain(conRemote[w]) \cup ToSet(lists[w])
           \cup UNION {Chain(proLists[w][h].first) : h \in Holder} : w \in Holder}

Drop ==
  /\ open /\ \A w \in Holder : step[w] = "out"
  /\ open' = FALSE
  /\ Free(Listed)
  /\ UNCHANGED <<poolkind, given, listvars, remoteLock, step, hand>>

-----------------------------------------------------------------------------
PoolNext ==
  \/ \E w \in Holder :
       \/ TakeLocal(w) \/ LockOwn(w) \/ TakeDrained(w)
       \/ PopList(w) \/ SpliceLink(w) \/ SpliceHead(w)
       \/ \E b \in Block :
            \/ AllocOversized(w, b) \/ TakeFresh(w, b) \/ AllocSimple(w, b)
            \/ FreeOversized(w, b) \/ PushList(w, b) \/ FreeExcess(w, b)
            \/ GiveHome(w, b) \/ StageNode(w, b) \/ LockHome(w, b)
  \/ \E b \in Block : FreeOutside(b)
  \/ Drop

-----------------------------------------------------------------------------
(* Properties.                                                             *)

(* The intrusive lists, with the worker that their nodes belong to.        *)
NodeList ==
  {<<"local", w, w>> : w \in Holder} \cup {<<"remote", w, w>> : w \in Holder}
    \cup {"batch"} \X Holder \X Holder
Content(p) ==
  CASE p[1] = "local"  -> Chain(conLocal[p[2]])
    [] p[1] = "remote" -> Chain(conRemote[p[2]])
    [] p[1] = "batch"  -> Chain(proLists[p[2]][p[3]].first)

(* In the middle of a splice the batch ends in the mailbox's list.         *)
Spliced(p) ==
  p[1] = "batch" /\ step[p[2]] = "head" /\ home[hand[p[2]]] = p[3]

InHand == {hand[w] : w \in Holder} \ {NoBox}
Total(S, f(_)) == FoldSet(LAMBDA x, n : f(x) + n, 0, S)

(* Every list holds nodes of its home worker that nobody uses, no node is  *)
(* in two lists, a batch is as long as it says and ends where it says, and *)
(* SimplePool keeps at most Cap nodes per worker.                          *)
ListsApart ==
  open =>
    LET full == [p \in NodeList |-> Content(p)]
        apart == {p \in NodeList : ~ Spliced(p)}
        simple == UNION {ToSet(lists[w]) : w \in Holder}
        listed == UNION {full[p] : p \in apart} \cup InHand \cup simple
    IN
    /\ \A p \in NodeList : \A b \in full[p] : home[b] = p[3]
    /\ listed \subseteq boxes \ given
    /\ Cardinality(listed) = Total(apart, LAMBDA p : Cardinality(full[p]))
                               + Total(Holder, LAMBDA w : Len(lists[w])) + Cardinality(InHand)
    /\ \A w, h \in Holder : LET pro == proLists[w][h] IN
         ~ Spliced(<<"batch", w, h>>) =>
           /\ Cardinality(full[<<"batch", w, h>>]) = pro.num /\ pro.num <= threshold
           /\ pro.num > 0 => pro.last \in full[<<"batch", w, h>>] /\ link[pro.last] = NoBox
    /\ \A w \in Holder : Len(lists[w]) <= Cap

(* No node is lost, and no page: what is allocated is in use, listed, or in*)
(* a worker's hand, and after the pool was dropped only what is in use is. *)
NothingLost ==
  /\ boxes = given \cup (IF open THEN Listed \cup InHand ELSE {})
  /\ mapped = Total(boxes, LAMBDA b : StackSpan(IF b \in oversized THEN Pages + 1 ELSE Pages))

(* Allocation and release, on the same worker or on another one, keep the  *)
(* lists apart and lose nothing.                                           *)
PoolInv == ListsApart /\ NothingLost
=============================================================================
