------------------------- MODULE DualMutex_proofs --------------------------
(***************************************************************************)
(* Proofs about DualMutex: the nodes in use are live, a lock is handed on  *)
(* once, and the mutex is a FifoLock, for any tasks and any memory.  The   *)
(* line is in no variable: it is what the nodes' words say of one sequence *)
(* of tasks, and every step leaves such a sequence.                        *)
(***************************************************************************)
EXTENDS DualMutex, Sequences, FiniteSetTheorems, WellFoundedInduction, TLAPS

(* The tasks in line, first come first; each exactly once.                 *)
LineIs(s) ==
  /\ s \in Seq(Waiter)
  /\ \A i \in 1 .. Len(s) : s[i] \in Line
  /\ \A t \in Line : \E i \in 1 .. Len(s) : s[i] = t
  /\ \A i, j \in 1 .. Len(s) : s[i] = s[j] => i = j

(* The nodes are chained in the order of the line, but for the links that  *)
(* are still to be made by those who come behind.                          *)
Unlinked(t) == dualPc[t] \in {"register", "link"}

ChainIs(s) ==
  /\ dualTail = IF s = <<>> THEN NoNode ELSE node[s[Len(s)]]
  /\ s # <<>> => dualNext[node[s[Len(s)]]] = NoNode
  /\ \A i \in 1 .. Len(s) - 1 :
       /\ Unlinked(s[i + 1]) => prev[s[i + 1]] = node[s[i]] /\ dualNext[node[s[i]]] = NoNode
       /\ ~ Unlinked(s[i + 1]) => dualNext[node[s[i]]] = node[s[i + 1]]

(* A task that waits behind another: nobody has taken its registration.    *)
Queues(t) ==
  /\ dualPc[t] \in {"register", "link", "blocked", "pending", "parked", "check", "park"}
  /\ dualPc[t] # "register" => dualSlot[node[t]] = t /\ t \notin done
  /\ t \in Async => wstate[t] # "NOTIFIED"

(* A task whose registration an unlock has taken and not yet woken.        *)
Claimed(t) ==
  /\ dualPc[t] \in {"blocked", "pending", "parked", "check", "park"}
  /\ t \notin done
  /\ t \in Async => wstate[t] # "NOTIFIED"

(* The lock belongs to the first in line: it is inside, or its slot has    *)
(* been emptied and it has been woken, or is about to be, by one task.     *)
FrontIs(s) ==
  /\ \A i \in 2 .. Len(s) : Queues(s[i])
  /\ s # <<>> => /\ ~ Unlinked(s[1])
                 /\ dualSlot[node[s[1]]] = NoNode
  /\ \A t \in Waiter :
       dualPc[t] = "wake" => /\ s # <<>> /\ hand[t] = s[1] /\ Claimed(s[1])
                             /\ \A u \in Waiter : dualPc[u] = "wake" => u = t

(* Every task in the lock has a node of its own, which is not free; and    *)
(* the successor that an unlock has seen is there.                         *)
NodeState ==
  \A t \in Waiter :
    /\ node[t] \notin freed
    /\ dualPc[t] \in {"out", "away"} => node[t] = NoNode
    /\ dualPc[t] \notin {"out", "away", "ready"} => node[t] # NoNode
    /\ dualPc[t] = "notify" => dualNext[node[t]] # NoNode
    /\ \A u \in Waiter : node[t] = node[u] /\ node[t] # NoNode => t = u

(* How each kind of task waits.                                            *)
KindState ==
  /\ \A t \in Waiter :
       /\ dualPc[t] = "blocked" => t \in UltTask
       /\ dualPc[t] \in {"pending", "parked", "away"} => t \in Async
       /\ dualPc[t] \in {"check", "park"} => t \in Os
       /\ dualPc[t] = "ready" => t \notin Os
       /\ dualPc[t] = "unpark" => hand[t] \in Os
  /\ \A t \in Async :
       /\ wstate[t] = "PARKED" <=> dualPc[t] \in {"parked", "away"}
       /\ wstate[t] = "NOTIFIED" => dualPc[t] = "pending"

InLine(s) == LineIs(s) /\ ChainIs(s) /\ FrontIs(s)

(* In a line the first is behind nobody, and every other behind the one    *)
(* that stands before it.                                                  *)
LEMMA BeforeInLine ==
  ASSUME NodeState, NEW s, InLine(s), NEW i \in 1 .. Len(s)
  PROVE  Before(s[i]) = IF i = 1 THEN {} ELSE {s[i - 1]}
<1>1. /\ s \in Seq(Waiter) /\ Len(s) \in Nat
      /\ \A j \in 1 .. Len(s) : s[j] \in Line /\ s[j] \in Waiter
  BY DEF InLine, LineIs, Line
<1>2. \A t \in Line : \E j \in 1 .. Len(s) : s[j] = t
  BY DEF InLine, LineIs
<1>3. \A t, u \in Line : node[t] # NoNode /\ (node[t] = node[u] => t = u)
  BY DEF NodeState, Line
<1>4. \A j \in 1 .. Len(s) : \A k \in 1 .. Len(s) :
        dualNext[node[s[j]]] = node[s[k]] => k = j + 1 /\ ~ Unlinked(s[k])
  <2>1. SUFFICES ASSUME NEW j \in 1 .. Len(s), NEW k \in 1 .. Len(s),
                        dualNext[node[s[j]]] = node[s[k]]
                 PROVE  k = j + 1 /\ ~ Unlinked(s[k])
    OBVIOUS
  <2>2. j # Len(s)
    BY <1>1, <1>3, <2>1 DEF InLine, ChainIs
  <2>3. j \in 1 .. Len(s) - 1 /\ j + 1 \in 1 .. Len(s)
    BY <1>1, <2>2
  <2>4. ~ Unlinked(s[j + 1]) /\ dualNext[node[s[j]]] = node[s[j + 1]]
    BY <1>1, <1>3, <2>1, <2>3 DEF InLine, ChainIs
  <2>5. s[k] = s[j + 1]
    BY <1>1, <1>3, <2>1, <2>3, <2>4
  <2>6. QED
    BY <2>3, <2>4, <2>5 DEF InLine, LineIs
<1>5. CASE i = 1
  <2>1. ~ Unlinked(s[1])
    BY <1>1 DEF InLine, FrontIs
  <2>2. ASSUME NEW u \in Line PROVE dualNext[node[u]] # node[s[1]]
    <3>1. PICK j \in 1 .. Len(s) : s[j] = u
      BY <1>2
    <3>2. QED
      BY <1>1, <1>4, <1>5, <3>1
  <2>3. QED
    BY <1>5, <2>1, <2>2 DEF Before, Unlinked
<1>6. CASE i # 1
  <2>1. i - 1 \in 1 .. Len(s) - 1 /\ i - 1 \in 1 .. Len(s) /\ (i - 1) + 1 = i
    BY <1>1, <1>6
  <2>2. CASE Unlinked(s[i])
    <3>1. prev[s[i]] = node[s[i - 1]]
      BY <2>1, <2>2 DEF InLine, ChainIs
    <3>2. \A u \in Line : node[u] = prev[s[i]] <=> u = s[i - 1]
      BY <1>1, <1>3, <2>1, <3>1
    <3>3. QED
      BY <1>1, <1>6, <2>1, <2>2, <3>2 DEF Before, Unlinked
  <2>3. CASE ~ Unlinked(s[i])
    <3>1. dualNext[node[s[i - 1]]] = node[s[i]]
      BY <2>1, <2>3 DEF InLine, ChainIs
    <3>2. ASSUME NEW u \in Line, dualNext[node[u]] = node[s[i]] PROVE u = s[i - 1]
      <4>1. PICK j \in 1 .. Len(s) : s[j] = u
        BY <1>2
      <4>2. i = j + 1
        BY <1>4, <3>2, <4>1
      <4>3. QED
        BY <4>1, <4>2
    <3>3. QED
      BY <1>1, <1>6, <2>1, <2>3, <3>1, <3>2 DEF Before, Unlinked
  <2>4. QED
    BY <2>2, <2>3
<1>7. QED
  BY <1>5, <1>6

(* The order of the numbers as a relation.                                 *)
LEMMA LessNat == \A x, y \in Nat : <<x, y>> \in OpToRel(<, Nat) <=> x < y
BY DEF OpToRel

(* The places are those of the line: there is such a function, and no two. *)
LEMMA PlaceInLine ==
  ASSUME NodeState, NEW s, InLine(s)
  PROVE  \A i \in 1 .. Len(s) : Place[s[i]] = i
<1>1. Len(s) \in Nat /\ \A j \in 1 .. Len(s) : s[j] \in Line
  BY DEF InLine, LineIs
<1> DEFINE Is(f) == f = [t \in Line |-> IF Before(t) = {} THEN 1
                                         ELSE 1 + f[CHOOSE u \in Before(t) : TRUE]]
           at == [t \in Line |-> CHOOSE i \in 1 .. Len(s) : s[i] = t]
<1>2. \A i \in 1 .. Len(s) : at[s[i]] = i
  BY <1>1 DEF InLine, LineIs
<1>0. at = [t \in Line |-> at[t]]
  OBVIOUS
<1> HIDE DEF at
<1>3. Is(at)
  <2>1. ASSUME NEW t \in Line
        PROVE  at[t] = IF Before(t) = {} THEN 1 ELSE 1 + at[CHOOSE u \in Before(t) : TRUE]
    <3>1. PICK i \in 1 .. Len(s) : s[i] = t
      BY DEF InLine, LineIs
    <3>2. at[t] = i
      BY <1>2, <3>1
    <3>3. CASE i = 1
      BY <3>1, <3>2, <3>3, BeforeInLine
    <3>4. CASE i # 1
      <4>1. i - 1 \in 1 .. Len(s)
        BY <1>1, <3>4
      <4>2. Before(t) = {s[i - 1]}
        BY <3>1, <3>4, BeforeInLine
      <4>3. (CHOOSE u \in Before(t) : TRUE) = s[i - 1]
        BY <4>2
      <4>4. at[s[i - 1]] = i - 1
        BY <1>2, <4>1
      <4>5. at[CHOOSE u \in Before(t) : TRUE] = i - 1
        BY <4>3, <4>4, Zenon
      <4>6. QED
        BY <1>1, <3>2, <4>2, <4>5
    <3>5. QED
      BY <3>3, <3>4
  <2>2. QED
    BY <1>0, <2>1
<1>4. Is(Place)
  <2>1. Place = CHOOSE f : Is(f)
    BY DEF Place
  <2> HIDE DEF Is
  <2>2. QED
    BY <1>3, <2>1
<1> SUFFICES ASSUME \E i \in 1 .. Len(s) : Place[s[i]] # i PROVE FALSE
  OBVIOUS
<1>5. PICK i \in 1 .. Len(s) : /\ Place[s[i]] # i
                               /\ \A j \in 1 .. Len(s) : j < i => Place[s[j]] = j
  <2> DEFINE B == {k \in 1 .. Len(s) : Place[s[k]] # k}
  <2>1. B \subseteq Nat /\ B # {}
    BY <1>1
  <2>2. PICK k \in B : \A j \in B : ~ (<<j, k>> \in OpToRel(<, Nat))
    BY <2>1, NatLessThanWellFounded, WFMin
  <2>3. \A j \in B : ~ (j < k)
    BY <2>1, <2>2, LessNat, Zenon
  <2>4. QED
    BY <2>2, <2>3
<1>6. Place[s[i]] = IF Before(s[i]) = {} THEN 1 ELSE 1 + Place[CHOOSE u \in Before(s[i]) : TRUE]
  BY <1>1, <1>4
<1>7. CASE i = 1
  BY <1>5, <1>6, <1>7, BeforeInLine
<1>8. CASE i # 1
  <2>1. i - 1 \in 1 .. Len(s) /\ i - 1 < i
    BY <1>1, <1>8
  <2>2. Before(s[i]) = {s[i - 1]}
    BY <1>8, BeforeInLine
  <2>3. (CHOOSE u \in Before(s[i]) : TRUE) = s[i - 1]
    BY <2>2
  <2>4. Place[s[i - 1]] = i - 1
    BY <1>5, <2>1
  <2>5. Place[CHOOSE u \in Before(s[i]) : TRUE] = i - 1
    BY <2>3, <2>4, Zenon
  <2>6. QED
    BY <1>1, <1>5, <1>6, <2>2, <2>5
<1>9. QED
  BY <1>7, <1>8

(* The line that the chain of nodes gives is the line.                     *)
LEMMA OrderIsLine ==
  ASSUME NodeState, NEW s, InLine(s)
  PROVE  Order = s
<1>1. /\ Len(s) \in Nat /\ DOMAIN s = 1 .. Len(s) /\ s = [i \in 1 .. Len(s) |-> s[i]]
      /\ \A j \in 1 .. Len(s) : s[j] \in Line
      /\ \A t \in Line : \E j \in 1 .. Len(s) : s[j] = t
      /\ \A i, j \in 1 .. Len(s) : s[i] = s[j] => i = j
  BY DEF InLine, LineIs
<1>2. IsFiniteSet(Line) /\ Cardinality(Line) = Len(s)
  <2>1. s \in Bijection(1 .. Len(s), Line)
    BY <1>1, Zenon DEF Bijection, Injection, Surjection, IsInjective
  <2>2. QED
    BY <1>1, <2>1, FS_CountingElements, FS_NatBijection DEF ExistsBijection
<1>3. \A i \in 1 .. Len(s) : InPlace(i) = {s[i]}
  BY <1>1, PlaceInLine DEF InPlace
<1>4. Order = [i \in 1 .. Len(s) |-> s[i]]
  BY <1>2, <1>3 DEF Order
<1>5. QED
  BY <1>1, <1>4

(* Everything the proofs know of a state in which s is the line.           *)
DualIInv(s) == DualTypeOK /\ NodeState /\ KindState /\ InLine(s)

(* Only the first in line can be inside, or be handed the lock.            *)
LEMMA InsideIsFirst ==
  ASSUME NEW s, DualIInv(s), NEW t \in Waiter, node[t] # NoNode, dualPc[t] \in Holding \cup {"ready"}
  PROVE  /\ s \in Seq(Waiter) /\ s # <<>> /\ t = s[1]
         /\ Len(s) \in Nat /\ 1 \in 1 .. Len(s)
<1>1. t \in Line
  BY DEF Line, Holding
<1>2. PICK i \in 1 .. Len(s) : s[i] = t
  BY <1>1 DEF DualIInv, InLine, LineIs
<1>3. i = 1
  BY <1>2 DEF DualIInv, InLine, LineIs, FrontIs, Queues, Holding
<1>4. QED
  BY <1>2, <1>3 DEF DualIInv, InLine, LineIs

(* A line that is neither empty nor of one task has a second.              *)
LEMMA HasSecond ==
  \A n \in Nat : n # 0 /\ n # 1 => n >= 2 /\ 1 \in 1 .. n - 1 /\ 1 + 1 \in 1 .. n
OBVIOUS

(* What an unlock is about: the first in line, and its node.               *)
LEMMA HolderIsFirst ==
  ASSUME NEW s, DualIInv(s), NEW t \in Waiter, dualPc[t] \in Holding
  PROVE  /\ s \in Seq(Waiter) /\ s # <<>> /\ t = s[1]
         /\ Len(s) \in Nat /\ 1 \in 1 .. Len(s) /\ node[t] # NoNode
BY InsideIsFirst DEF DualIInv, NodeState, Holding

(* t, the first in line, enters.                                           *)
Enters(s, t) == s # <<>> /\ s[1] = t /\ t \notin Inside /\ Inside' = Inside \cup {t}

(* lock: the caller's fresh node goes to the end of the line, behind the   *)
(* old tail; the first of an empty line is inside at once.                 *)
LEMMA StartLockKeeps ==
  ASSUME NEW s, DualIInv(s), NEW t \in Waiter, StartLock(t)
  PROVE  DualIInv(Append(s, t))' /\ Inside' = IF s = <<>> THEN {t} ELSE Inside
<1>1. PICK n \in freed :
        /\ freed' = freed \ {n}
        /\ dualNext' = [dualNext EXCEPT ![n] = NoNode]
        /\ dualSlot' = [dualSlot EXCEPT ![n] = NoNode]
        /\ node' = [node EXCEPT ![t] = n] /\ prev' = [prev EXCEPT ![t] = dualTail]
        /\ dualTail' = n
        /\ dualPc[t] = "out"
        /\ dualPc' = [dualPc EXCEPT ![t] = IF dualTail = NoNode THEN "in" ELSE "register"]
        /\ UNCHANGED <<hand, wstate, done, token, strays>>
  BY DEF StartLock, Go
<1>2. /\ node[t] = NoNode /\ t \notin Line /\ n \in WaitNode /\ n # NoNode
      /\ \A u \in Waiter : node[u] # n
  BY <1>1, MutexAssumption DEF DualIInv, DualTypeOK, NodeState, Line
<1> DEFINE r == Append(s, t)
<1>3. /\ Len(s) \in Nat /\ Len(r) = Len(s) + 1 /\ r \in Seq(Waiter) /\ r # <<>>
      /\ r[Len(s) + 1] = t /\ \A i \in 1 .. Len(s) : r[i] = s[i]
      /\ 1 .. Len(r) = (1 .. Len(s)) \cup {Len(s) + 1}
      /\ s \in Seq(Waiter) /\ (s = <<>> <=> Len(s) = 0)
  BY DEF DualIInv, InLine, LineIs
<1>4. \A i \in 1 .. Len(s) : s[i] \in Line /\ s[i] \in Waiter /\ s[i] # t
                             /\ node[s[i]] \in WaitNode /\ node[s[i]] # n
  BY <1>2 DEF DualIInv, DualTypeOK, InLine, LineIs, Line
<1>5. dualTail = NoNode <=> s = <<>>
  BY <1>3, <1>4, MutexAssumption DEF DualIInv, InLine, ChainIs
<1>6. DualTypeOK'
  BY <1>1, <1>2 DEF DualIInv, DualTypeOK, Control
<1>7. NodeState'
  BY <1>1, <1>2 DEF DualIInv, DualTypeOK, NodeState
<1>8. KindState'
  <2>1. dualPc'[t] \in {"in", "register"} /\ \A u \in Waiter \ {t} : dualPc'[u] = dualPc[u]
    BY <1>1 DEF DualIInv, DualTypeOK
  <2>2. QED
    BY <1>1, <2>1 DEF DualIInv, KindState, Waiter
<1>9. Line' = Line \cup {t}
  BY <1>1, <1>2 DEF DualIInv, DualTypeOK, Line
<1> HIDE DEF r
<1>10. LineIs(r)'
  <2>1. \A i \in 1 .. Len(r) : r[i] \in Line'
    BY <1>3, <1>4, <1>9
  <2>2. ASSUME NEW u \in Line' PROVE \E i \in 1 .. Len(r) : r[i] = u
    BY <1>3, <1>9 DEF DualIInv, InLine, LineIs
  <2>3. \A i, j \in 1 .. Len(r) : r[i] = r[j] => i = j
    BY <1>3, <1>4 DEF DualIInv, InLine, LineIs
  <2>4. QED
    BY <1>3, <2>1, <2>2, <2>3 DEF LineIs
<1>11. ChainIs(r)'
  <2>1. /\ node'[t] = n /\ dualNext'[n] = NoNode
        /\ \A i \in 1 .. Len(s) :
             /\ node'[s[i]] = node[s[i]] /\ prev'[s[i]] = prev[s[i]]
             /\ dualNext'[node[s[i]]] = dualNext[node[s[i]]]
             /\ Unlinked(s[i])' <=> Unlinked(s[i])
    BY <1>1, <1>2, <1>4 DEF DualIInv, DualTypeOK, Unlinked
  <2>2. ASSUME NEW i \in 1 .. Len(r) - 1
        PROVE  /\ Unlinked(r[i + 1])' => prev'[r[i + 1]] = node'[r[i]] /\ dualNext'[node'[r[i]]] = NoNode
               /\ ~ Unlinked(r[i + 1])' => dualNext'[node'[r[i]]] = node'[r[i + 1]]
    <3>1. i \in 1 .. Len(s) /\ r[i] = s[i]
      BY <1>3
    <3>2. CASE i = Len(s)
      <4>1. s # <<>> /\ r[i + 1] = t
        BY <1>3, <3>1, <3>2
      <4>2. Unlinked(r[i + 1])' /\ prev'[t] = dualTail
        BY <1>1, <1>5, <4>1 DEF DualIInv, DualTypeOK, Unlinked
      <4>3. dualTail = node[s[i]] /\ dualNext[node[s[i]]] = NoNode
        BY <3>2, <4>1 DEF DualIInv, InLine, ChainIs
      <4>4. node'[r[i]] = node[s[i]] /\ dualNext'[node[s[i]]] = NoNode
        <5>1. node'[s[i]] = node[s[i]] /\ dualNext'[node[s[i]]] = dualNext[node[s[i]]]
          BY <2>1, <3>1, Zenon
        <5>2. QED
          BY <3>1, <4>3, <5>1
      <4>5. QED
        BY <4>1, <4>2, <4>3, <4>4
    <3>3. CASE i # Len(s)
      <4>1. i \in 1 .. Len(s) - 1 /\ i + 1 \in 1 .. Len(s) /\ r[i + 1] = s[i + 1]
        BY <1>3, <3>1, <3>3
      <4>2. /\ Unlinked(s[i + 1]) => prev[s[i + 1]] = node[s[i]] /\ dualNext[node[s[i]]] = NoNode
            /\ ~ Unlinked(s[i + 1]) => dualNext[node[s[i]]] = node[s[i + 1]]
        BY <4>1 DEF DualIInv, InLine, ChainIs
      <4>3. /\ Unlinked(s[i + 1])' => prev'[s[i + 1]] = node'[s[i]] /\ dualNext'[node'[s[i]]] = NoNode
            /\ ~ Unlinked(s[i + 1])' => dualNext'[node'[s[i]]] = node'[s[i + 1]]
        <5>1. /\ node'[s[i]] = node[s[i]] /\ prev'[s[i + 1]] = prev[s[i + 1]]
              /\ dualNext'[node[s[i]]] = dualNext[node[s[i]]] /\ node'[s[i + 1]] = node[s[i + 1]]
              /\ Unlinked(s[i + 1])' <=> Unlinked(s[i + 1])
          BY <2>1, <3>1, <4>1, Zenon
        <5>2. QED
          BY <4>2, <5>1
      <4>4. r[i] = s[i] /\ r[i + 1] = s[i + 1]
        BY <3>1, <4>1
      <4>5. QED
        BY <4>3, <4>4, Zenon DEF Unlinked
    <3>4. QED
      BY <3>2, <3>3
  <2>3. dualTail' = node'[r[Len(r)]] /\ dualNext'[node'[r[Len(r)]]] = NoNode
    BY <1>1, <1>3, <2>1
  <2>4. QED
    BY <1>3, <2>2, <2>3 DEF ChainIs
<1>12. FrontIs(r)'
  <2>1. ASSUME NEW i \in 2 .. Len(r) PROVE Queues(r[i])'
    <3>1. CASE i = Len(s) + 1
      <4>1. r[i] = t /\ s # <<>>
        BY <1>3, <3>1
      <4>2. dualPc'[t] = "register" /\ (t \in Async => wstate'[t] # "NOTIFIED")
        BY <1>1, <1>5, <4>1 DEF DualIInv, DualTypeOK, KindState
      <4>3. QED
        BY <4>1, <4>2 DEF Queues
    <3>2. CASE i # Len(s) + 1
      <4>1. i \in 2 .. Len(s) /\ i \in 1 .. Len(s) /\ r[i] = s[i]
        BY <1>3, <3>2
      <4>2. Queues(s[i])
        BY <4>1 DEF DualIInv, InLine, FrontIs
      <4>3. QED
        BY <1>1, <1>4, <4>1, <4>2 DEF DualIInv, DualTypeOK, Queues
    <3>3. QED
      BY <3>1, <3>2
  <2>2. ~ Unlinked(r[1])' /\ dualSlot'[node'[r[1]]] = NoNode
    <3>1. CASE s = <<>>
      <4>1. r[1] = t /\ dualPc'[t] = "in" /\ node'[t] = n /\ dualSlot'[n] = NoNode
        BY <1>1, <1>2, <1>3, <1>5, <3>1 DEF DualIInv, DualTypeOK
      <4>2. QED
        BY <4>1 DEF Unlinked
    <3>2. CASE s # <<>>
      <4>1. 1 \in 1 .. Len(s) /\ r[1] = s[1]
        BY <1>3, <3>2
      <4>2. QED
        BY <1>1, <1>2, <1>4, <3>2, <4>1 DEF DualIInv, DualTypeOK, InLine, FrontIs, Unlinked
    <3>3. QED
      BY <3>1, <3>2
  <2>3. ASSUME NEW u \in Waiter, dualPc'[u] = "wake"
        PROVE  hand'[u] = r[1] /\ Claimed(r[1])' /\ \A v \in Waiter : dualPc'[v] = "wake" => v = u
    <3>1. \A v \in Waiter : dualPc'[v] = "wake" => dualPc[v] = "wake"
      BY <1>1 DEF DualIInv, DualTypeOK
    <3>2. /\ s # <<>> /\ hand[u] = s[1] /\ Claimed(s[1])
          /\ \A v \in Waiter : dualPc[v] = "wake" => v = u
      BY <2>3, <3>1 DEF DualIInv, InLine, FrontIs
    <3>3. 1 \in 1 .. Len(s) /\ r[1] = s[1]
      BY <1>3, <3>2
    <3>4. Claimed(s[1])'
      BY <1>1, <1>4, <3>2, <3>3 DEF DualIInv, DualTypeOK, Claimed
    <3>5. QED
      BY <1>1, <3>1, <3>2, <3>3, <3>4
  <2>4. QED
    BY <1>3, <2>1, <2>2, <2>3 DEF FrontIs
<1>13. Inside' = IF s = <<>> THEN {t} ELSE Inside
  <2>1. CASE s = <<>>
    <3>1. Inside = {}
      BY <2>1, HolderIsFirst DEF Inside
    <3>2. dualPc'[t] = "in"
      BY <1>1, <1>5, <2>1 DEF DualIInv, DualTypeOK
    <3>3. QED
      BY <1>1, <2>1, <3>1, <3>2 DEF DualIInv, DualTypeOK, Inside, Holding
  <2>2. CASE s # <<>>
    BY <1>1, <1>5, <2>2 DEF DualIInv, DualTypeOK, Inside, Holding
  <2>3. QED
    BY <2>1, <2>2
<1>14. QED
  BY <1>6, <1>7, <1>8, <1>10, <1>11, <1>12, <1>13 DEF DualIInv, InLine, r

(* A waiter publishes itself in its own node's slot: it still queues, and  *)
(* the line stands.                                                        *)
LEMMA RegisterKeeps ==
  ASSUME NEW s, DualIInv(s), NEW t \in Waiter, Register(t)
  PROVE  DualIInv(s)' /\ Inside' = Inside
<1>1. DualTypeOK'
  BY MutexAssumption
  DEF DualIInv, DualTypeOK, NodeState, KindState, Control, Waiter, Register, Go
<1>2. NodeState'
  BY MutexAssumption
  DEF DualIInv, DualTypeOK, NodeState, KindState, Control, Waiter, Register, Go
<1>3. KindState'
  BY MutexAssumption
  DEF DualIInv, DualTypeOK, NodeState, KindState, Control, Waiter, Register, Go
<1>4. Line' = Line
  BY MutexAssumption
  DEF DualIInv, DualTypeOK, NodeState, KindState, Control, Waiter, Register, Go,
      Line
<1>5. LineIs(s)'
  BY <1>4 DEF DualIInv, InLine, LineIs
<1>6. ChainIs(s)'
  BY MutexAssumption
  DEF DualIInv, DualTypeOK, NodeState, KindState, Control, Waiter, Register, Go,
      InLine, LineIs, ChainIs, Unlinked, Line
<1>7. FrontIs(s)'
  BY MutexAssumption
  DEF DualIInv, DualTypeOK, NodeState, KindState, Control, Waiter, Register, Go,
      InLine, LineIs, FrontIs, Queues, Claimed, Unlinked, Line
<1>8. Inside' = Inside
  BY MutexAssumption
  DEF DualIInv, DualTypeOK, NodeState, KindState, Control, Waiter, Register, Go,
      Inside, Holding
<1>9. QED
  BY <1>1, <1>2, <1>3, <1>5, <1>6, <1>7, <1>8 DEF DualIInv, InLine

(* A waiter links its predecessor to its node: the chain gets the link the *)
(* invariant left open, and the line stands.                               *)
LEMMA DualLinkKeeps ==
  ASSUME NEW s, DualIInv(s), NEW t \in Waiter, DualLink(t)
  PROVE  DualIInv(s)' /\ Inside' = Inside
<1>1. DualTypeOK'
  BY MutexAssumption
  DEF DualIInv, DualTypeOK, NodeState, KindState, Control, Waiter, DualLink, Go
<1>2. NodeState'
  BY MutexAssumption
  DEF DualIInv, DualTypeOK, NodeState, KindState, Control, Waiter, DualLink, Go
<1>3. KindState'
  BY MutexAssumption
  DEF DualIInv, DualTypeOK, NodeState, KindState, Control, Waiter, DualLink, Go
<1>4. Line' = Line
  BY MutexAssumption
  DEF DualIInv, DualTypeOK, NodeState, KindState, Control, Waiter, DualLink, Go,
      Line
<1>5. LineIs(s)'
  BY <1>4 DEF DualIInv, InLine, LineIs
<1>6. ChainIs(s)'
  <2>1. PICK i \in 1 .. Len(s) : s[i] = t
    BY DEF DualIInv, NodeState, InLine, LineIs, Line, DualLink, Go
  <2>2. i # 1 /\ Len(s) \in Nat /\ \A j \in 1 .. Len(s) : s[j] \in Waiter /\ node[s[j]] \in WaitNode
    BY <2>1 DEF DualIInv, InLine, LineIs, Line, FrontIs, Unlinked, DualLink, DualTypeOK, Go
  <2>3. i - 1 \in 1 .. Len(s) - 1 /\ i - 1 \in 1 .. Len(s) /\ (i - 1) + 1 = i
    BY <2>2
  <2>4. dualPc[t] = "link" /\ prev[t] = node[s[i - 1]]
    BY <2>1, <2>3 DEF DualIInv, InLine, ChainIs, Unlinked, DualLink, Go
  <2>5. \A j, k \in 1 .. Len(s) : node[s[j]] = node[s[k]] => j = k
    BY <2>2 DEF DualIInv, NodeState, InLine, LineIs, Line
  <2>6. /\ dualNext'[node[s[i - 1]]] = node[s[i]]
        /\ \A j \in 1 .. Len(s) : j # i - 1 => dualNext'[node[s[j]]] = dualNext[node[s[j]]]
    BY <2>1, <2>2, <2>3, <2>4, <2>5 DEF DualIInv, DualTypeOK, DualLink
  <2>7. /\ ~ Unlinked(s[i])'
        /\ \A j \in 1 .. Len(s) : j # i => (Unlinked(s[j])' <=> Unlinked(s[j])) /\ prev'[s[j]] = prev[s[j]]
    BY <2>1, <2>2 DEF DualIInv, DualTypeOK, InLine, LineIs, Unlinked, DualLink, Go
  <2>8. dualTail' = dualTail /\ node' = node
    BY DEF DualLink
  <2>9. ASSUME s # <<>> PROVE dualNext'[node[s[Len(s)]]] = NoNode
    BY <2>2, <2>3, <2>6, <2>9 DEF DualIInv, InLine, ChainIs
  <2>10. ASSUME NEW j \in 1 .. Len(s) - 1
         PROVE  /\ Unlinked(s[j + 1])' => prev'[s[j + 1]] = node[s[j]] /\ dualNext'[node[s[j]]] = NoNode
                /\ ~ Unlinked(s[j + 1])' => dualNext'[node[s[j]]] = node[s[j + 1]]
    <3>1. j \in 1 .. Len(s) /\ j + 1 \in 1 .. Len(s)
      BY <2>2
    <3>2. CASE j = i - 1
      BY <2>2, <2>6, <2>7, <3>2
    <3>3. CASE j # i - 1
      <4>1. j + 1 # i
        BY <2>2, <3>3
      <4>2. QED
        BY <2>6, <2>7, <3>1, <3>3, <4>1 DEF DualIInv, InLine, ChainIs
    <3>4. QED
      BY <3>2, <3>3
  <2>11. QED
    BY <2>8, <2>9, <2>10 DEF DualIInv, InLine, ChainIs
<1>7. FrontIs(s)'
  BY MutexAssumption
  DEF DualIInv, DualTypeOK, NodeState, KindState, Control, Waiter, DualLink, Go,
      InLine, LineIs, FrontIs, Queues, Claimed, Unlinked, Line
<1>8. Inside' = Inside
  BY MutexAssumption
  DEF DualIInv, DualTypeOK, NodeState, KindState, Control, Waiter, DualLink, Go,
      Inside, Holding
<1>9. QED
  BY <1>1, <1>2, <1>3, <1>5, <1>6, <1>7, <1>8 DEF DualIInv, InLine

(* An async waiter's poll ends: nobody has woken it while it queues, so it *)
(* parks.                                                                  *)
LEMMA ParkKeeps ==
  ASSUME NEW s, DualIInv(s), NEW t \in Async, Park(t)
  PROVE  DualIInv(s)' /\ Inside' = Inside
<1>1. DualTypeOK'
  BY MutexAssumption
  DEF DualIInv, DualTypeOK, NodeState, KindState, Control, Waiter, Park, Go
<1>2. NodeState'
  BY MutexAssumption
  DEF DualIInv, DualTypeOK, NodeState, KindState, Control, Waiter, Park, Go
<1>3. KindState'
  BY MutexAssumption
  DEF DualIInv, DualTypeOK, NodeState, KindState, Control, Waiter, Park, Go
<1>4. Line' = Line
  BY MutexAssumption
  DEF DualIInv, DualTypeOK, NodeState, KindState, Control, Waiter, Park, Go,
      Line
<1>5. LineIs(s)'
  BY <1>4 DEF DualIInv, InLine, LineIs
<1>6. ChainIs(s)'
  BY MutexAssumption
  DEF DualIInv, DualTypeOK, NodeState, KindState, Control, Waiter, Park, Go,
      InLine, LineIs, ChainIs, Unlinked, Line
<1>7. FrontIs(s)'
  BY MutexAssumption
  DEF DualIInv, DualTypeOK, NodeState, KindState, Control, Waiter, Park, Go,
      InLine, LineIs, FrontIs, Queues, Claimed, Unlinked, Line
<1>8. Inside' = Inside
  BY MutexAssumption
  DEF DualIInv, DualTypeOK, NodeState, KindState, Control, Waiter, Park, Go,
      Inside, Holding
<1>9. QED
  BY <1>1, <1>2, <1>3, <1>5, <1>6, <1>7, <1>8 DEF DualIInv, InLine

(* A worker runs a ready task: the first in line enters, or the task was   *)
(* away from the lock.                                                     *)
LEMMA ResumeKeeps ==
  ASSUME NEW s, DualIInv(s), NEW t \in Waiter, Resume(t)
  PROVE  DualIInv(s)' /\ (Inside' = Inside \/ Enters(s, t))
<1>1. DualTypeOK'
  BY MutexAssumption
  DEF DualIInv, DualTypeOK, NodeState, KindState, Control, Waiter, Resume, Go
<1>2. NodeState'
  BY MutexAssumption
  DEF DualIInv, DualTypeOK, NodeState, KindState, Control, Waiter, Resume, Go
<1>3. KindState'
  BY MutexAssumption
  DEF DualIInv, DualTypeOK, NodeState, KindState, Control, Waiter, Resume, Go
<1>4. Line' = Line
  BY MutexAssumption
  DEF DualIInv, DualTypeOK, NodeState, KindState, Control, Waiter, Resume, Go,
      Line
<1>5. LineIs(s)'
  BY <1>4 DEF DualIInv, InLine, LineIs
<1>6. ChainIs(s)'
  BY MutexAssumption
  DEF DualIInv, DualTypeOK, NodeState, KindState, Control, Waiter, Resume, Go,
      InLine, LineIs, ChainIs, Unlinked, Line
<1>7. FrontIs(s)'
  BY MutexAssumption
  DEF DualIInv, DualTypeOK, NodeState, KindState, Control, Waiter, Resume, Go,
      InLine, LineIs, FrontIs, Queues, Claimed, Unlinked, Line
<1>8. Inside' = Inside \/ Enters(s, t)
  <2>1. CASE dualPc'[t] = "in"
    <3>1. /\ node[t] # NoNode /\ s # <<>> /\ t = s[1]
      BY <2>1, InsideIsFirst DEF DualIInv, DualTypeOK, NodeState, KindState, Resume, Go
    <3>2. QED
      BY <2>1, <3>1 DEF DualIInv, DualTypeOK, Inside, Holding, Enters, Resume, Go
  <2>2. CASE dualPc'[t] # "in"
    BY <2>2 DEF DualIInv, DualTypeOK, Inside, Holding, Resume, Go
  <2>3. QED
    BY <2>1, <2>2
<1>9. QED
  BY <1>1, <1>2, <1>3, <1>5, <1>6, <1>7, <1>8 DEF DualIInv, InLine

(* A thread looks at its done: it is set only for the first in line, once  *)
(* its registration was taken.                                             *)
LEMMA CheckDoneKeeps ==
  ASSUME NEW s, DualIInv(s), NEW t \in Waiter, CheckDone(t)
  PROVE  DualIInv(s)' /\ (Inside' = Inside \/ Enters(s, t))
<1>1. DualTypeOK'
  BY MutexAssumption
  DEF DualIInv, DualTypeOK, NodeState, KindState, Control, Waiter, CheckDone, Go
<1>2. NodeState'
  BY MutexAssumption
  DEF DualIInv, DualTypeOK, NodeState, KindState, Control, Waiter, CheckDone, Go
<1>3. KindState'
  BY MutexAssumption
  DEF DualIInv, DualTypeOK, NodeState, KindState, Control, Waiter, CheckDone, Go
<1>4. Line' = Line
  BY MutexAssumption
  DEF DualIInv, DualTypeOK, NodeState, KindState, Control, Waiter, CheckDone,
      Go, Line
<1>5. LineIs(s)'
  BY <1>4 DEF DualIInv, InLine, LineIs
<1>6. ChainIs(s)'
  BY MutexAssumption
  DEF DualIInv, DualTypeOK, NodeState, KindState, Control, Waiter, CheckDone,
      Go, InLine, LineIs, ChainIs, Unlinked, Line
<1>7. FrontIs(s)'
  BY MutexAssumption
  DEF DualIInv, DualTypeOK, NodeState, KindState, Control, Waiter, CheckDone,
      Go, InLine, LineIs, FrontIs, Queues, Claimed, Unlinked, Line
<1>8. Inside' = Inside \/ Enters(s, t)
  <2>1. CASE dualPc'[t] = "in"
    <3>1. /\ node[t] # NoNode /\ s # <<>> /\ t = s[1]
      <4>1. t \in done /\ dualPc[t] = "check" /\ node[t] # NoNode
        BY <2>1 DEF DualIInv, DualTypeOK, NodeState, CheckDone, Go
      <4>2. PICK i \in 1 .. Len(s) : s[i] = t
        BY <4>1 DEF DualIInv, InLine, LineIs, Line
      <4>3. i = 1
        BY <4>1, <4>2 DEF DualIInv, InLine, LineIs, FrontIs, Queues
      <4>4. QED
        BY <4>1, <4>2, <4>3 DEF DualIInv, InLine, LineIs
    <3>2. QED
      BY <2>1, <3>1 DEF DualIInv, DualTypeOK, Inside, Holding, Enters, CheckDone, Go
  <2>2. CASE dualPc'[t] # "in"
    BY <2>2 DEF DualIInv, DualTypeOK, Inside, Holding, CheckDone, Go
  <2>3. QED
    BY <2>1, <2>2
<1>9. QED
  BY <1>1, <1>2, <1>3, <1>5, <1>6, <1>7, <1>8 DEF DualIInv, InLine

(* A thread's park consumes its token and it looks again: the token says   *)
(* nothing of the line.                                                    *)
LEMMA UnparkedKeeps ==
  ASSUME NEW s, DualIInv(s), NEW t \in Waiter, Unparked(t)
  PROVE  DualIInv(s)' /\ Inside' = Inside
<1>1. DualTypeOK'
  BY MutexAssumption
  DEF DualIInv, DualTypeOK, NodeState, KindState, Control, Waiter, Unparked, Go
<1>2. NodeState'
  BY MutexAssumption
  DEF DualIInv, DualTypeOK, NodeState, KindState, Control, Waiter, Unparked, Go
<1>3. KindState'
  BY MutexAssumption
  DEF DualIInv, DualTypeOK, NodeState, KindState, Control, Waiter, Unparked, Go
<1>4. Line' = Line
  BY MutexAssumption
  DEF DualIInv, DualTypeOK, NodeState, KindState, Control, Waiter, Unparked, Go,
      Line
<1>5. LineIs(s)'
  BY <1>4 DEF DualIInv, InLine, LineIs
<1>6. ChainIs(s)'
  BY MutexAssumption
  DEF DualIInv, DualTypeOK, NodeState, KindState, Control, Waiter, Unparked, Go,
      InLine, LineIs, ChainIs, Unlinked, Line
<1>7. FrontIs(s)'
  BY MutexAssumption
  DEF DualIInv, DualTypeOK, NodeState, KindState, Control, Waiter, Unparked, Go,
      InLine, LineIs, FrontIs, Queues, Claimed, Unlinked, Line
<1>8. Inside' = Inside
  BY MutexAssumption
  DEF DualIInv, DualTypeOK, NodeState, KindState, Control, Waiter, Unparked, Go,
      Inside, Holding
<1>9. QED
  BY <1>1, <1>2, <1>3, <1>5, <1>6, <1>7, <1>8 DEF DualIInv, InLine

(* A thread's park returns for no reason and it looks again: the line      *)
(* stands.                                                                 *)
LEMMA SpuriousReturnKeeps ==
  ASSUME NEW s, DualIInv(s), NEW t \in Os, SpuriousReturn(t)
  PROVE  DualIInv(s)' /\ Inside' = Inside
<1>1. DualTypeOK'
  BY MutexAssumption
  DEF DualIInv, DualTypeOK, NodeState, KindState, Control, Waiter,
      SpuriousReturn, Go
<1>2. NodeState'
  BY MutexAssumption
  DEF DualIInv, DualTypeOK, NodeState, KindState, Control, Waiter,
      SpuriousReturn, Go
<1>3. KindState'
  BY MutexAssumption
  DEF DualIInv, DualTypeOK, NodeState, KindState, Control, Waiter,
      SpuriousReturn, Go
<1>4. Line' = Line
  BY MutexAssumption
  DEF DualIInv, DualTypeOK, NodeState, KindState, Control, Waiter,
      SpuriousReturn, Go, Line
<1>5. LineIs(s)'
  BY <1>4 DEF DualIInv, InLine, LineIs
<1>6. ChainIs(s)'
  BY MutexAssumption
  DEF DualIInv, DualTypeOK, NodeState, KindState, Control, Waiter,
      SpuriousReturn, Go, InLine, LineIs, ChainIs, Unlinked, Line
<1>7. FrontIs(s)'
  BY MutexAssumption
  DEF DualIInv, DualTypeOK, NodeState, KindState, Control, Waiter,
      SpuriousReturn, Go, InLine, LineIs, FrontIs, Queues, Claimed, Unlinked,
      Line
<1>8. Inside' = Inside
  BY MutexAssumption
  DEF DualIInv, DualTypeOK, NodeState, KindState, Control, Waiter,
      SpuriousReturn, Go, Inside, Holding
<1>9. QED
  BY <1>1, <1>2, <1>3, <1>5, <1>6, <1>7, <1>8 DEF DualIInv, InLine

(* An unlock sees its successor's link: the node behind the first is that  *)
(* of the second.                                                          *)
LEMMA SeeSuccessorKeeps ==
  ASSUME NEW s, DualIInv(s), NEW t \in Waiter, SeeSuccessor(t)
  PROVE  DualIInv(s)' /\ Inside' = Inside
<1>1. DualTypeOK'
  BY MutexAssumption
  DEF DualIInv, DualTypeOK, NodeState, KindState, Control, Waiter, SeeSuccessor,
      Go
<1>2. NodeState'
  BY MutexAssumption
  DEF DualIInv, DualTypeOK, NodeState, KindState, Control, Waiter, SeeSuccessor,
      Go
<1>3. KindState'
  BY MutexAssumption
  DEF DualIInv, DualTypeOK, NodeState, KindState, Control, Waiter, SeeSuccessor,
      Go
<1>4. Line' = Line
  BY MutexAssumption
  DEF DualIInv, DualTypeOK, NodeState, KindState, Control, Waiter, SeeSuccessor,
      Go, Line
<1>5. LineIs(s)'
  BY <1>4 DEF DualIInv, InLine, LineIs
<1>6. ChainIs(s)'
  BY MutexAssumption
  DEF DualIInv, DualTypeOK, NodeState, KindState, Control, Waiter, SeeSuccessor,
      Go, InLine, LineIs, ChainIs, Unlinked, Line
<1>7. FrontIs(s)'
  BY MutexAssumption
  DEF DualIInv, DualTypeOK, NodeState, KindState, Control, Waiter, SeeSuccessor,
      Go, InLine, LineIs, FrontIs, Queues, Claimed, Unlinked, Line
<1>8. Inside' = Inside
  BY MutexAssumption
  DEF DualIInv, DualTypeOK, NodeState, KindState, Control, Waiter, SeeSuccessor,
      Go, Inside, Holding
<1>9. QED
  BY <1>1, <1>2, <1>3, <1>5, <1>6, <1>7, <1>8 DEF DualIInv, InLine

(* An unlock wakes the one it took out of the slot: that task is the first *)
(* in line and is claimed, of whichever kind it is.                        *)
LEMMA WakeRawKeeps ==
  ASSUME NEW s, DualIInv(s), NEW t \in Waiter, WakeRaw(t)
  PROVE  DualIInv(s)' /\ Inside' = Inside
<1> DEFINE w == hand[t]
<1> DEFINE Handed(a, b) ==
      [u \in Waiter |-> IF u = b THEN "ready" ELSE IF u = a THEN "drop" ELSE dualPc[u]]
<1>1. /\ dualPc[t] = "wake" /\ s # <<>> /\ w = s[1] /\ Claimed(w)
      /\ \A u \in Waiter : dualPc[u] = "wake" => u = t
  BY DEF DualIInv, InLine, FrontIs, WakeRaw
<1>2. w \in Line /\ w \in Waiter /\ w # t /\ node[t] # NoNode /\ node[w] # NoNode
  BY <1>1 DEF DualIInv, NodeState, InLine, LineIs, Line, Claimed
<1>3. \/ /\ w \in UltTask /\ w \notin Async /\ dualPc' = Handed(t, w)
         /\ hand' = [hand EXCEPT ![t] = NoNode] /\ wstate' = wstate /\ done' = done
      \/ /\ w \in Async /\ w \notin Os /\ dualPc[w] = "pending"
         /\ dualPc' = [dualPc EXCEPT ![t] = "drop"] /\ wstate' = [wstate EXCEPT ![w] = "NOTIFIED"]
         /\ hand' = [hand EXCEPT ![t] = NoNode] /\ done' = done
      \/ /\ w \in Async /\ w \notin Os /\ dualPc[w] = "parked"
         /\ dualPc' = Handed(t, w)
         /\ wstate' = [wstate EXCEPT ![w] = "POLLING"]
         /\ hand' = [hand EXCEPT ![t] = NoNode] /\ done' = done
      \/ /\ w \in Os /\ w \notin Async /\ dualPc' = [dualPc EXCEPT ![t] = "unpark"] /\ done' = done \cup {w}
         /\ wstate' = wstate /\ hand' = hand
  <2>1. CASE w \in UltTask
    BY <2>1, MutexAssumption DEF WakeRaw
  <2>2. CASE w \in Async
    <3>1. dualPc[w] \in {"pending", "parked"}
      BY <1>1, <1>2, <2>2, MutexAssumption DEF Claimed, DualIInv, KindState
    <3>2. /\ TryWake(w, [dualPc EXCEPT ![t] = "drop"])
          /\ hand' = [hand EXCEPT ![t] = NoNode] /\ done' = done /\ w \notin Os
      BY <2>2, MutexAssumption DEF WakeRaw
    <3>3. wstate[w] = IF dualPc[w] = "parked" THEN "PARKED" ELSE "POLLING"
      BY <1>1, <2>2, <3>1 DEF Claimed, DualIInv, KindState, DualTypeOK
    <3>4. CASE dualPc[w] = "pending"
      BY <2>2, <3>2, <3>3, <3>4 DEF TryWake
    <3>5. CASE dualPc[w] = "parked"
      <4>1. /\ wstate' = [wstate EXCEPT ![w] = "POLLING"]
            /\ dualPc' = [u \in Waiter |-> IF u = w THEN "ready"
                                           ELSE [dualPc EXCEPT ![t] = "drop"][u]]
        BY <3>2, <3>3, <3>5 DEF TryWake
      <4>2. \A u \in Waiter :
              (IF u = w THEN "ready" ELSE [dualPc EXCEPT ![t] = "drop"][u]) = Handed(t, w)[u]
        BY DEF DualIInv, DualTypeOK
      <4>3. dualPc' = [u \in Waiter |-> Handed(t, w)[u]]
        BY <4>1, <4>2
      <4>4. dualPc' = Handed(t, w)
        BY <4>3
      <4>5. QED
        BY <2>2, <3>2, <3>5, <4>1, <4>4
    <3>6. QED
      BY <3>1, <3>4, <3>5
  <2>3. CASE w \in Os
    BY <2>3, MutexAssumption DEF WakeRaw
  <2>4. QED
    BY <1>2, <2>1, <2>2, <2>3 DEF Waiter
<1>4. UNCHANGED <<dualTail, dualNext, dualSlot, freed, node, prev, token, strays>>
  BY DEF WakeRaw
<1> HIDE DEF w
<1>5. DualTypeOK'
  BY <1>2, <1>3, <1>4 DEF DualIInv, DualTypeOK, Control
<1>6. NodeState'
  BY <1>1, <1>2, <1>3, <1>4 DEF DualIInv, DualTypeOK, NodeState
<1>7. KindState'
  <2>1. \A u \in Waiter : u # t /\ u # w => dualPc'[u] = dualPc[u] /\ hand'[u] = hand[u]
    BY <1>3 DEF DualIInv, DualTypeOK
  <2>2. \A u \in Async : u # w => wstate'[u] = wstate[u]
    BY <1>3 DEF DualIInv, DualTypeOK
  <2>3. dualPc'[t] \in {"drop", "unpark"} /\ (dualPc'[t] = "unpark" => hand'[t] \in Os) /\ hand'[w] = hand[w]
    BY <1>2, <1>3 DEF DualIInv, DualTypeOK, w
  <2>4. \/ dualPc'[w] = "ready" /\ w \notin Os /\ (w \in Async => wstate'[w] = "POLLING")
        \/ dualPc'[w] = "pending" /\ w \in Async /\ wstate'[w] = "NOTIFIED"
        \/ dualPc'[w] = dualPc[w] /\ w \notin Async
    BY <1>2, <1>3, MutexAssumption DEF DualIInv, DualTypeOK
  <2>5. dualPc[w] # "unpark" /\ \A u \in Async : u = t => wstate[u] = "POLLING"
    BY <1>1, <1>2 DEF Claimed, DualIInv, DualTypeOK, KindState
  <2>6. ASSUME NEW u \in Waiter
        PROVE  /\ dualPc'[u] = "blocked" => u \in UltTask
               /\ dualPc'[u] \in {"pending", "parked", "away"} => u \in Async
               /\ dualPc'[u] \in {"check", "park"} => u \in Os
               /\ dualPc'[u] = "ready" => u \notin Os
               /\ dualPc'[u] = "unpark" => hand'[u] \in Os
    BY <2>1, <2>3, <2>4, <2>5 DEF DualIInv, KindState
  <2>7. ASSUME NEW u \in Async
        PROVE  /\ wstate'[u] = "PARKED" <=> dualPc'[u] \in {"parked", "away"}
               /\ wstate'[u] = "NOTIFIED" => dualPc'[u] = "pending"
    BY <1>2, <2>1, <2>2, <2>3, <2>4, <2>5 DEF DualIInv, KindState, Waiter
  <2>8. QED
    BY <2>6, <2>7 DEF KindState
<1>8. Line' = Line
  BY <1>1, <1>2, <1>3, <1>4 DEF DualIInv, DualTypeOK, Line, Claimed
<1>9. LineIs(s)'
  BY <1>8 DEF DualIInv, InLine, LineIs
<1>10. ChainIs(s)'
  <2>1. \A u \in Waiter : Unlinked(u)' <=> Unlinked(u)
    BY <1>1, <1>2, <1>3 DEF DualIInv, DualTypeOK, Unlinked, Claimed
  <2>2. \A i \in 1 .. Len(s) - 1 : s[i + 1] \in Waiter
    BY DEF DualIInv, InLine, LineIs
  <2>3. QED
    BY <1>4, <2>1, <2>2 DEF DualIInv, InLine, ChainIs
<1>11. FrontIs(s)'
  <2>1. \A u \in Waiter : dualPc'[u] # "wake"
    BY <1>1, <1>2, <1>3 DEF DualIInv, DualTypeOK, Claimed
  <2>2. ASSUME NEW i \in 2 .. Len(s) PROVE Queues(s[i])'
    <3>1. s[i] \in Waiter /\ s[i] # t /\ s[i] # w
      BY <1>1, <1>2 DEF DualIInv, InLine, LineIs, Line
    <3>2. /\ dualPc'[s[i]] = dualPc[s[i]]
          /\ s[i] \in done' => s[i] \in done
          /\ s[i] \in Async => wstate'[s[i]] = wstate[s[i]]
      BY <1>3, <3>1 DEF DualIInv, DualTypeOK
    <3>3. QED
      BY <1>4, <3>2 DEF DualIInv, InLine, FrontIs, Queues
  <2>3. dualPc'[w] \in {"blocked", "pending", "parked", "check", "park", "ready"}
    BY <1>1, <1>2, <1>3 DEF DualIInv, DualTypeOK, Claimed
  <2>4. s # <<>> /\ s[1] = w /\ dualSlot'[node'[s[1]]] = NoNode
    BY <1>1, <1>4 DEF DualIInv, InLine, FrontIs
  <2>5. ~ Unlinked(s[1])'
    BY <2>3, <2>4 DEF Unlinked
  <2>6. QED
    BY <2>1, <2>2, <2>4, <2>5 DEF FrontIs
<1>12. Inside' = Inside
  BY <1>1, <1>2, <1>3 DEF DualIInv, DualTypeOK, Inside, Holding, Claimed
<1>13. QED
  BY <1>5, <1>6, <1>7, <1>9, <1>10, <1>11, <1>12 DEF DualIInv, InLine

(* An unlock unparks the thread: only a token is set.                      *)
LEMMA UnparkKeeps ==
  ASSUME NEW s, DualIInv(s), NEW t \in Waiter, Unpark(t)
  PROVE  DualIInv(s)' /\ Inside' = Inside
<1>1. DualTypeOK'
  BY MutexAssumption
  DEF DualIInv, DualTypeOK, NodeState, KindState, Control, Waiter, Unpark, Go
<1>2. NodeState'
  BY MutexAssumption
  DEF DualIInv, DualTypeOK, NodeState, KindState, Control, Waiter, Unpark, Go
<1>3. KindState'
  BY MutexAssumption
  DEF DualIInv, DualTypeOK, NodeState, KindState, Control, Waiter, Unpark, Go
<1>4. Line' = Line
  BY MutexAssumption
  DEF DualIInv, DualTypeOK, NodeState, KindState, Control, Waiter, Unpark, Go,
      Line
<1>5. LineIs(s)'
  BY <1>4 DEF DualIInv, InLine, LineIs
<1>6. ChainIs(s)'
  BY MutexAssumption
  DEF DualIInv, DualTypeOK, NodeState, KindState, Control, Waiter, Unpark, Go,
      InLine, LineIs, ChainIs, Unlinked, Line
<1>7. FrontIs(s)'
  BY MutexAssumption
  DEF DualIInv, DualTypeOK, NodeState, KindState, Control, Waiter, Unpark, Go,
      InLine, LineIs, FrontIs, Queues, Claimed, Unlinked, Line
<1>8. Inside' = Inside
  BY MutexAssumption
  DEF DualIInv, DualTypeOK, NodeState, KindState, Control, Waiter, Unpark, Go,
      Inside, Holding
<1>9. QED
  BY <1>1, <1>2, <1>3, <1>5, <1>6, <1>7, <1>8 DEF DualIInv, InLine

(* The guard's node is freed: its task left the line before, and nobody's  *)
(* predecessor or successor is that node.                                  *)
LEMMA FreeNodeKeeps ==
  ASSUME NEW s, DualIInv(s), NEW t \in Waiter, FreeNode(t)
  PROVE  DualIInv(s)' /\ Inside' = Inside
<1>1. DualTypeOK'
  BY MutexAssumption
  DEF DualIInv, DualTypeOK, NodeState, KindState, Control, Waiter, FreeNode, Go
<1>2. NodeState'
  BY MutexAssumption
  DEF DualIInv, DualTypeOK, NodeState, KindState, Control, Waiter, FreeNode, Go
<1>3. KindState'
  BY MutexAssumption
  DEF DualIInv, DualTypeOK, NodeState, KindState, Control, Waiter, FreeNode, Go
<1>4. Line' = Line
  BY MutexAssumption
  DEF DualIInv, DualTypeOK, NodeState, KindState, Control, Waiter, FreeNode, Go,
      Line
<1>5. LineIs(s)'
  BY <1>4 DEF DualIInv, InLine, LineIs
<1>6. ChainIs(s)'
  BY MutexAssumption
  DEF DualIInv, DualTypeOK, NodeState, KindState, Control, Waiter, FreeNode, Go,
      InLine, LineIs, ChainIs, Unlinked, Line
<1>7. FrontIs(s)'
  BY MutexAssumption
  DEF DualIInv, DualTypeOK, NodeState, KindState, Control, Waiter, FreeNode, Go,
      InLine, LineIs, FrontIs, Queues, Claimed, Unlinked, Line
<1>8. Inside' = Inside
  BY MutexAssumption
  DEF DualIInv, DualTypeOK, NodeState, KindState, Control, Waiter, FreeNode, Go,
      Inside, Holding
<1>9. QED
  BY <1>1, <1>2, <1>3, <1>5, <1>6, <1>7, <1>8 DEF DualIInv, InLine

(* An async task awaits something else: it is not in the lock.             *)
LEMMA RestKeeps ==
  ASSUME NEW s, DualIInv(s), NEW t \in Async, Rest(t)
  PROVE  DualIInv(s)' /\ Inside' = Inside
<1>1. DualTypeOK'
  BY MutexAssumption
  DEF DualIInv, DualTypeOK, NodeState, KindState, Control, Waiter, Rest, Go
<1>2. NodeState'
  BY MutexAssumption
  DEF DualIInv, DualTypeOK, NodeState, KindState, Control, Waiter, Rest, Go
<1>3. KindState'
  BY MutexAssumption
  DEF DualIInv, DualTypeOK, NodeState, KindState, Control, Waiter, Rest, Go
<1>4. Line' = Line
  BY MutexAssumption
  DEF DualIInv, DualTypeOK, NodeState, KindState, Control, Waiter, Rest, Go,
      Line
<1>5. LineIs(s)'
  BY <1>4 DEF DualIInv, InLine, LineIs
<1>6. ChainIs(s)'
  BY MutexAssumption
  DEF DualIInv, DualTypeOK, NodeState, KindState, Control, Waiter, Rest, Go,
      InLine, LineIs, ChainIs, Unlinked, Line
<1>7. FrontIs(s)'
  BY MutexAssumption
  DEF DualIInv, DualTypeOK, NodeState, KindState, Control, Waiter, Rest, Go,
      InLine, LineIs, FrontIs, Queues, Claimed, Unlinked, Line
<1>8. Inside' = Inside
  BY MutexAssumption
  DEF DualIInv, DualTypeOK, NodeState, KindState, Control, Waiter, Rest, Go,
      Inside, Holding
<1>9. QED
  BY <1>1, <1>2, <1>3, <1>5, <1>6, <1>7, <1>8 DEF DualIInv, InLine

(* A wake from elsewhere: without strays it finds the task away from the   *)
(* lock.                                                                   *)
LEMMA OtherWakeKeeps ==
  ASSUME NEW s, DualIInv(s), NEW t \in Async, Stray = 0, OtherWake(t)
  PROVE  DualIInv(s)' /\ Inside' = Inside
<1>0. /\ dualPc[t] = "away" /\ t \notin Line /\ t \in Waiter
      /\ dualPc' = [dualPc EXCEPT ![t] = "ready"] /\ wstate' = [wstate EXCEPT ![t] = "POLLING"]
  BY MutexAssumption
  DEF DualIInv, DualTypeOK, NodeState, KindState, Waiter, Line, OtherWake,
      TryWake
<1>1. DualTypeOK'
  BY MutexAssumption
  DEF DualIInv, DualTypeOK, NodeState, KindState, Control, Waiter, OtherWake,
      Go, TryWake
<1>2. NodeState'
  BY MutexAssumption
  DEF DualIInv, DualTypeOK, NodeState, KindState, Control, Waiter, OtherWake,
      Go, TryWake
<1>3. KindState'
  BY MutexAssumption
  DEF DualIInv, DualTypeOK, NodeState, KindState, Control, Waiter, OtherWake,
      Go, TryWake
<1>4. Line' = Line
  BY MutexAssumption
  DEF DualIInv, DualTypeOK, NodeState, KindState, Control, Waiter, OtherWake,
      Go, TryWake, Line
<1>5. LineIs(s)'
  BY <1>4 DEF DualIInv, InLine, LineIs
<1>6. ChainIs(s)'
  <2>1. \A u \in Line : dualPc'[u] = dualPc[u]
    BY <1>0 DEF DualIInv, DualTypeOK
  <2>2. \A i \in 1 .. Len(s) - 1 : s[i + 1] \in Line
    BY DEF DualIInv, InLine, LineIs
  <2>3. \A i \in 1 .. Len(s) - 1 : Unlinked(s[i + 1])' <=> Unlinked(s[i + 1])
    BY <2>1, <2>2 DEF Unlinked
  <2>4. QED
    BY <2>3 DEF DualIInv, InLine, ChainIs, OtherWake
<1>7. FrontIs(s)'
  BY MutexAssumption
  DEF DualIInv, DualTypeOK, NodeState, KindState, Control, Waiter, OtherWake,
      Go, TryWake, InLine, LineIs, FrontIs, Queues, Claimed, Unlinked, Line
<1>8. Inside' = Inside
  BY MutexAssumption
  DEF DualIInv, DualTypeOK, NodeState, KindState, Control, Waiter, OtherWake,
      Go, TryWake, Inside, Holding
<1>9. QED
  BY <1>1, <1>2, <1>3, <1>5, <1>6, <1>7, <1>8 DEF DualIInv, InLine

(* Drop of the guard: the last in line empties the lock, any other goes on *)
(* to hand it over.                                                        *)
LEMMA UnlockKeeps ==
  ASSUME NEW s, DualIInv(s), NEW t \in Waiter, Unlock(t)
  PROVE  \/ DualIInv(s)' /\ Inside' = Inside
         \/ s = <<t>> /\ DualIInv(<<>>)' /\ t \in Inside /\ Inside' = Inside \ {t}
<1>1. dualPc[t] = "in" /\ t \in Line /\ t \in Inside /\ node[t] # NoNode
  BY DEF DualIInv, NodeState, Line, Inside, Holding, Unlock, Go
<1>2. s # <<>> /\ t = s[1] /\ Len(s) \in Nat /\ 1 \in 1 .. Len(s)
  BY <1>1, HolderIsFirst DEF Holding
<1>3. UNCHANGED <<dualNext, dualSlot, freed, node, prev, hand, wstate, done, token, strays>>
  BY DEF Unlock
<1>4. \A u \in Waiter : dualPc[u] # "wake"
  BY <1>1, <1>2 DEF DualIInv, InLine, FrontIs, Claimed
<1>5. CASE dualTail = node[t]
  <2>1. dualTail' = NoNode /\ dualPc' = [dualPc EXCEPT ![t] = "drop"]
    BY <1>5 DEF Unlock, Go
  <2>2. Len(s) = 1
    <3>1. Len(s) \in 1 .. Len(s) /\ s[Len(s)] \in Waiter /\ node[s[Len(s)]] = node[t]
      BY <1>2, <1>5 DEF DualIInv, InLine, LineIs, ChainIs
    <3>2. s[Len(s)] = s[1]
      BY <1>1, <1>2, <3>1 DEF DualIInv, NodeState
    <3>3. QED
      BY <1>2, <3>1, <3>2 DEF DualIInv, InLine, LineIs
  <2>3. s = <<t>>
    BY <1>2, <2>2 DEF DualIInv, InLine, LineIs
  <2>4. Line = {t}
    BY <1>2, <2>2 DEF DualIInv, InLine, LineIs
  <2>5. Line' = {}
    BY <1>1, <1>3, <2>1, <2>4 DEF DualIInv, DualTypeOK, Line
  <2>6. DualTypeOK' /\ NodeState' /\ KindState'
    <3>1. DualTypeOK'
      BY <1>3, <2>1 DEF DualIInv, DualTypeOK, Control
    <3>2. NodeState'
      BY <1>1, <1>3, <2>1 DEF DualIInv, DualTypeOK, NodeState
    <3>3. KindState'
      BY <1>1, <1>3, <2>1 DEF DualIInv, DualTypeOK, KindState, Waiter
    <3>4. QED
      BY <3>1, <3>2, <3>3
  <2>7. LineIs(<<>>)' /\ ChainIs(<<>>)'
    BY <2>1, <2>5 DEF LineIs, ChainIs
  <2>8. FrontIs(<<>>)'
    BY <1>4, <2>1 DEF DualIInv, DualTypeOK, FrontIs
  <2>9. Inside' = Inside \ {t}
    BY <2>1 DEF DualIInv, DualTypeOK, Inside, Holding
  <2>10. QED
    BY <1>1, <2>3, <2>6, <2>7, <2>8, <2>9 DEF DualIInv, InLine
<1>6. CASE dualTail # node[t]
  <2>1. dualTail' = dualTail /\ dualPc' = [dualPc EXCEPT ![t] = "spin"]
    BY <1>6 DEF Unlock, Go
  <2>2. DualTypeOK'
    BY <1>3, <2>1 DEF DualIInv, DualTypeOK, Control
  <2>3. NodeState'
    BY <1>1, <1>3, <2>1 DEF DualIInv, DualTypeOK, NodeState
  <2>4. KindState'
    BY <1>1, <1>3, <2>1 DEF DualIInv, DualTypeOK, KindState, Waiter
  <2>5. Line' = Line
    BY <1>1, <1>3, <2>1 DEF DualIInv, DualTypeOK, Line
  <2>6. LineIs(s)'
    BY <2>5 DEF DualIInv, InLine, LineIs
  <2>7. \A u \in Waiter : Unlinked(u)' <=> Unlinked(u)
    BY <1>1, <2>1 DEF DualIInv, DualTypeOK, Unlinked
  <2>8. ChainIs(s)'
    <3>1. \A i \in 1 .. Len(s) - 1 : s[i + 1] \in Waiter
      BY DEF DualIInv, InLine, LineIs
    <3>2. QED
      BY <1>3, <2>1, <2>7, <3>1 DEF DualIInv, InLine, ChainIs
  <2>9. FrontIs(s)'
    <3>1. \A i \in 2 .. Len(s) : s[i] # t /\ s[i] \in Waiter
      BY <1>2 DEF DualIInv, InLine, LineIs
    <3>2. QED
      BY <1>2, <1>3, <1>4, <2>1, <2>7, <3>1
      DEF DualIInv, DualTypeOK, InLine, FrontIs, Queues
  <2>10. Inside' = Inside
    BY <1>1, <2>1 DEF DualIInv, DualTypeOK, Inside, Holding
  <2>11. QED
    BY <2>2, <2>3, <2>4, <2>6, <2>8, <2>9, <2>10 DEF DualIInv, InLine
<1>7. QED
  BY <1>5, <1>6

(* An unlock empties its successor's slot: the line loses its first, and   *)
(* the second is claimed and now the first.                                *)
LEMMA TakeSlotKeeps ==
  ASSUME NEW s, DualIInv(s), NEW t \in Waiter, TakeSlot(t)
  PROVE  /\ DualIInv(Tail(s))'
         /\ s # <<>> /\ s[1] = t /\ t \in Inside /\ Inside' = Inside \ {t}
<1>1. dualPc[t] = "notify" /\ t \in Line /\ t \in Inside /\ node[t] # NoNode
  BY DEF DualIInv, NodeState, Line, Inside, Holding, TakeSlot
<1>2. s \in Seq(Waiter) /\ s # <<>> /\ t = s[1] /\ Len(s) \in Nat /\ 1 \in 1 .. Len(s)
  BY <1>1, HolderIsFirst DEF Holding
<1>3. \A u \in Waiter : dualPc[u] # "wake"
  BY <1>1, <1>2 DEF DualIInv, InLine, FrontIs, Claimed
<1>4. Len(s) # 1
  BY <1>1, <1>2 DEF DualIInv, NodeState, InLine, ChainIs
<1> DEFINE r == Tail(s)
           w == s[2]
<1>5. Len(s) \in Nat /\ Len(s) >= 2
  <2>1. Len(s) \in Nat /\ Len(s) # 0
    BY <1>2
  <2>2. QED
    BY <1>4, <2>1, HasSecond
<1>6. /\ Len(r) = Len(s) - 1 /\ Len(r) \in Nat /\ r # <<>> /\ r \in Seq(Waiter)
      /\ \A i \in 1 .. Len(r) : r[i] = s[i + 1] /\ i + 1 \in 2 .. Len(s) /\ i + 1 \in 1 .. Len(s)
      /\ 1 \in 1 .. Len(r) /\ r[1] = w
  <2>1. s \in Seq(Waiter)
    BY DEF DualIInv, InLine, LineIs
  <2>2. r \in Seq(Waiter) /\ Len(r) = Len(s) - 1
    BY <1>2, <2>1
  <2>3. \A i \in 1 .. Len(r) : r[i] = s[i + 1]
    BY <1>2, <2>1, <2>2
  <2>4. 1 \in 1 .. Len(r) /\ r # <<>> /\ r[1] = s[1 + 1]
    <3>1. 1 \in 1 .. Len(r)
      BY <1>5, <2>2
    <3>2. r[1] = s[1 + 1]
      BY <2>3, <3>1
    <3>3. r # <<>>
      <4>1. Len(r) # 0 /\ Len(<<>>) = 0
        BY <1>5, <2>2
      <4>2. QED
        BY <4>1, Zenon
    <3>4. QED
      BY <3>1, <3>2, <3>3
  <2>5. \A i \in 1 .. Len(r) : i + 1 \in 2 .. Len(s) /\ i + 1 \in 1 .. Len(s)
    BY <1>5, <2>2
  <2>6. QED
    BY <1>5, <2>2, <2>3, <2>4, <2>5
<1>7. /\ w \in Line /\ w \in Waiter /\ w # t /\ Queues(w) /\ node[w] \in WaitNode
      /\ dualNext[node[t]] = node[w] /\ ~ Unlinked(w)
  <2>1. 2 \in 1 .. Len(s) /\ 2 \in 2 .. Len(s) /\ 1 \in 1 .. Len(s) - 1 /\ 1 + 1 = 2
    BY <1>5
  <2>2. w \in Line /\ w \in Waiter /\ w # t /\ Queues(w)
    BY <1>2, <2>1 DEF DualIInv, InLine, LineIs, FrontIs
  <2>3. dualNext[node[t]] = node[w] /\ ~ Unlinked(w)
    <3>1. dualNext[node[s[1]]] # NoNode
      BY <1>1, <1>2 DEF DualIInv, NodeState
    <3>2. /\ Unlinked(s[1 + 1]) => dualNext[node[s[1]]] = NoNode
          /\ ~ Unlinked(s[1 + 1]) => dualNext[node[s[1]]] = node[s[1 + 1]]
      BY <2>1 DEF DualIInv, InLine, ChainIs
    <3>3. QED
      BY <1>2, <2>1, <3>1, <3>2
  <2>4. QED
    BY <2>2, <2>3 DEF DualIInv, DualTypeOK, Line
<1>8. dualSlot[node[w]] = w /\ w # NoNode
  BY <1>7, MutexAssumption DEF Queues, Unlinked
<1>9. /\ dualPc' = [dualPc EXCEPT ![t] = "wake"] /\ hand' = [hand EXCEPT ![t] = w]
      /\ dualSlot' = [dualSlot EXCEPT ![node[w]] = NoNode]
      /\ UNCHANGED <<dualTail, dualNext, freed, node, prev, wstate, done, token, strays>>
  BY <1>7, <1>8 DEF TakeSlot
<1> HIDE DEF r, w
<1>10. DualTypeOK'
  BY <1>7, <1>9 DEF DualIInv, DualTypeOK, Control
<1>11. NodeState'
  BY <1>1, <1>9 DEF DualIInv, DualTypeOK, NodeState
<1>12. KindState'
  BY <1>1, <1>9 DEF DualIInv, DualTypeOK, KindState, Waiter
<1>13. Line' = Line \ {t}
  BY <1>1, <1>9 DEF DualIInv, DualTypeOK, Line
<1>14. LineIs(r)'
  <2>1. \A i \in 1 .. Len(r) : r[i] \in Line /\ r[i] # t
    <3>1. SUFFICES ASSUME NEW i \in 1 .. Len(r) PROVE s[i + 1] \in Line /\ s[i + 1] # s[1]
      BY <1>2, <1>6
    <3>2. i + 1 \in 1 .. Len(s) /\ i + 1 # 1
      BY <1>6
    <3>3. QED
      BY <1>2, <3>2 DEF DualIInv, InLine, LineIs
  <2>2. ASSUME NEW u \in Line, u # t PROVE \E i \in 1 .. Len(r) : r[i] = u
    <3>1. PICK j \in 1 .. Len(s) : s[j] = u
      BY DEF DualIInv, InLine, LineIs
    <3>2. j # 1
      BY <1>2, <2>2, <3>1
    <3>3. j - 1 \in 1 .. Len(r) /\ (j - 1) + 1 = j
      BY <1>2, <1>6, <3>2
    <3>4. QED
      BY <1>6, <3>1, <3>3
  <2>3. ASSUME NEW i \in 1 .. Len(r), NEW j \in 1 .. Len(r), r[i] = r[j] PROVE i = j
    <3>1. s[i + 1] = s[j + 1] /\ i + 1 \in 1 .. Len(s) /\ j + 1 \in 1 .. Len(s)
      BY <1>6, <2>3
    <3>2. i + 1 = j + 1
      BY <3>1 DEF DualIInv, InLine, LineIs
    <3>3. QED
      BY <3>2
  <2>4. QED
    BY <1>6, <1>13, <2>1, <2>2, <2>3 DEF LineIs
<1>15. ChainIs(r)'
  <2>1. \A u \in Waiter : Unlinked(u)' <=> Unlinked(u)
    BY <1>1, <1>9 DEF DualIInv, DualTypeOK, Unlinked
  <2>2. r[Len(r)] = s[Len(s)]
    BY <1>6
  <2>3. ASSUME NEW i \in 1 .. Len(r) - 1
        PROVE  /\ Unlinked(r[i + 1])' => prev'[r[i + 1]] = node'[r[i]] /\ dualNext'[node'[r[i]]] = NoNode
               /\ ~ Unlinked(r[i + 1])' => dualNext'[node'[r[i]]] = node'[r[i + 1]]
    <3>1. /\ i + 1 \in 1 .. Len(s) - 1 /\ r[i] = s[i + 1] /\ r[i + 1] = s[(i + 1) + 1]
          /\ r[i + 1] \in Waiter
      BY <1>6
    <3>2. QED
      BY <1>9, <2>1, <3>1 DEF DualIInv, InLine, ChainIs
  <2>4. QED
    BY <1>2, <1>6, <1>9, <2>2, <2>3 DEF DualIInv, InLine, ChainIs
<1>16. FrontIs(r)'
  <2>1. ASSUME NEW i \in 2 .. Len(r) PROVE Queues(r[i])'
    <3>1. i \in 1 .. Len(r) /\ i + 1 \in 2 .. Len(s) /\ i + 1 \in 1 .. Len(s) /\ i + 1 # 1 /\ i + 1 # 2
          /\ 2 \in 1 .. Len(s)
      BY <1>2, <1>6
    <3>2. r[i] = s[i + 1] /\ r[i] \in Line /\ r[i] \in Waiter /\ r[i] # t /\ r[i] # w
      BY <1>2, <1>6, <3>1 DEF DualIInv, InLine, LineIs, Line, w
    <3>3. Queues(r[i])
      BY <3>1, <3>2 DEF DualIInv, InLine, FrontIs
    <3>4. node[r[i]] # node[w]
      BY <1>7, <3>2 DEF DualIInv, NodeState, Line
    <3>5. QED
      BY <1>9, <3>2, <3>3, <3>4 DEF DualIInv, DualTypeOK, Line, Queues
  <2>2. ~ Unlinked(r[1])' /\ dualSlot'[node'[r[1]]] = NoNode
    BY <1>6, <1>7, <1>9 DEF DualIInv, DualTypeOK, Unlinked
  <2>3. Claimed(w)'
    BY <1>7, <1>9 DEF DualIInv, DualTypeOK, Queues, Unlinked, Claimed
  <2>4. ASSUME NEW u \in Waiter, dualPc'[u] = "wake" PROVE u = t
    BY <1>3, <1>9, <2>4 DEF DualIInv, DualTypeOK
  <2>5. hand'[t] = w
    BY <1>9 DEF DualIInv, DualTypeOK
  <2>6. QED
    BY <1>6, <2>1, <2>2, <2>3, <2>4, <2>5 DEF FrontIs
<1>17. Inside' = Inside \ {t}
  BY <1>9 DEF DualIInv, DualTypeOK, Inside, Holding
<1>18. QED
  BY <1>1, <1>2, <1>10, <1>11, <1>12, <1>14, <1>15, <1>16, <1>17 DEF DualIInv, InLine, r


(* A step that changes nothing.                                            *)
LEMMA DualStutters ==
  ASSUME NEW s, DualIInv(s), UNCHANGED dualVars
  PROVE  DualIInv(s)' /\ Inside' = Inside
<1>1. DualTypeOK' /\ NodeState' /\ KindState'
  BY DEF DualIInv, DualTypeOK, NodeState, KindState, dualVars
<1>2. InLine(s)'
  BY DEF DualIInv, InLine, LineIs, ChainIs, FrontIs, Line, Unlinked, Queues,
      Claimed, dualVars
<1>3. QED
  BY <1>1, <1>2 DEF DualIInv, Inside, dualVars

(* At the start the line is empty.                                         *)
LEMMA DualInitIInv == DualInit => DualIInv(<<>>) /\ Inside = {}
<1> SUFFICES ASSUME DualInit PROVE DualIInv(<<>>) /\ Inside = {}
  OBVIOUS
<1>1. DualTypeOK
  BY MutexAssumption DEF DualInit, DualTypeOK, Control
<1>2. NodeState /\ KindState
  BY MutexAssumption DEF DualInit, NodeState, KindState, Waiter
<1>3. Line = {} /\ Inside = {}
  BY DEF DualInit, Line, Inside, Holding
<1>4. InLine(<<>>)
  BY <1>3 DEF DualInit, InLine, LineIs, ChainIs, FrontIs
<1>5. QED
  BY <1>1, <1>2, <1>3, <1>4 DEF DualIInv

(* What a step does to the line and to who is inside.                      *)
StepOf(s, r, t) ==
  \/ r = s /\ (Inside' = Inside \/ Enters(s, t))
  \/ r = Append(s, t) /\ Inside' = IF s = <<>> THEN {t} ELSE Inside
  \/ s # <<>> /\ s[1] = t /\ r = Tail(s) /\ t \in Inside /\ Inside' = Inside \ {t}

(* Every step keeps the invariant, and the line it leaves is the old one,  *)
(* or that with one more at its end, or that without its first.            *)
LEMMA DualNextIInv ==
  ASSUME Stray = 0, NEW s, DualIInv(s), [DualNext]_dualVars
  PROVE  \E r : DualIInv(r)' /\ ((UNCHANGED Inside /\ r = s) \/ \E t \in Waiter : StepOf(s, r, t))
<1>1. CASE UNCHANGED dualVars
  BY <1>1, DualStutters
<1>2. ASSUME NEW t \in Waiter, StartLock(t) PROVE DualIInv(Append(s, t))' /\ StepOf(s, Append(s, t), t)
  BY <1>2, StartLockKeeps DEF StepOf
<1>3. ASSUME NEW t \in Waiter, Unlock(t) PROVE \E r : DualIInv(r)' /\ StepOf(s, r, t)
  <2>1. CASE DualIInv(s)' /\ Inside' = Inside
    BY <2>1 DEF StepOf
  <2>2. CASE s = <<t>> /\ DualIInv(<<>>)' /\ t \in Inside /\ Inside' = Inside \ {t}
    <3>1. s # <<>> /\ s[1] = t /\ Tail(s) = <<>>
      BY <2>2
    <3>2. QED
      BY <2>2, <3>1 DEF StepOf
  <2>3. QED
    BY <1>3, <2>1, <2>2, UnlockKeeps
<1>4. ASSUME NEW t \in Waiter, TakeSlot(t) PROVE DualIInv(Tail(s))' /\ StepOf(s, Tail(s), t)
  BY <1>4, TakeSlotKeeps DEF StepOf
<1>5. ASSUME NEW t \in Waiter, Resume(t) \/ CheckDone(t) PROVE DualIInv(s)' /\ StepOf(s, s, t)
  BY <1>5, ResumeKeeps, CheckDoneKeeps DEF StepOf
<1>6. ASSUME NEW t \in Waiter,
             \/ Register(t) \/ DualLink(t) \/ Unparked(t) \/ SeeSuccessor(t) \/ WakeRaw(t)
             \/ Unpark(t) \/ FreeNode(t) \/ (t \in Async /\ Park(t))
      PROVE  DualIInv(s)' /\ Inside' = Inside
  BY <1>6, RegisterKeeps, DualLinkKeeps, UnparkedKeeps, SeeSuccessorKeeps, WakeRawKeeps,
     UnparkKeeps, FreeNodeKeeps, ParkKeeps
<1>7. ASSUME NEW t \in Waiter, DualStep(t) PROVE \E r : DualIInv(r)' /\ StepOf(s, r, t)
  BY <1>3, <1>4, <1>5, <1>6, <1>7 DEF DualStep, StepOf
<1>8. ASSUME NEW t \in Os, SpuriousReturn(t) PROVE DualIInv(s)' /\ Inside' = Inside
  BY <1>8, SpuriousReturnKeeps
<1>9. ASSUME NEW t \in Async, Rest(t) \/ OtherWake(t) PROVE DualIInv(s)' /\ Inside' = Inside
  BY <1>9, RestKeeps, OtherWakeKeeps
<1>10. QED
  BY <1>1, <1>2, <1>7, <1>8, <1>9 DEF DualNext

(* In every state there is a line.                                         *)
HasLine == \E s : DualIInv(s)

(* Without wakes from elsewhere the inductive invariant holds in every     *)
(* state.                                                                  *)
LEMMA HasLineHolds ==
  ASSUME Stray = 0
  PROVE  DualSpec => []HasLine
<1>1. DualInit => HasLine
  BY DualInitIInv DEF HasLine
<1>2. HasLine /\ [DualNext]_dualVars => HasLine'
  <2> SUFFICES ASSUME HasLine, [DualNext]_dualVars PROVE HasLine'
    OBVIOUS
  <2>1. PICK s : DualIInv(s)
    BY DEF HasLine
  <2>2. QED
    BY <2>1, DualNextIInv DEF HasLine
<1>3. QED
  BY <1>1, <1>2, PTL DEF DualSpec

(* No node is used after start_lock's caller or the guard's Drop freed it: *)
(* the tail, the predecessor to be linked to and the successor to be       *)
(* notified are nodes of tasks in line. (Stray = 0: no wake reaches an     *)
(* async waiter but the lock's; the code does not exclude the others.)     *)
THEOREM NodesStayLive ==
  ASSUME Stray = 0
  PROVE  DualSpec => []LiveInv
<1>1. ASSUME HasLine PROVE LiveInv
  <2>1. PICK s : DualIInv(s)
    BY <1>1 DEF HasLine
  <2>2. dualTail \notin freed
    <3>1. CASE s = <<>>
      BY <2>1, <3>1, MutexAssumption DEF DualIInv, DualTypeOK, InLine, ChainIs
    <3>2. CASE s # <<>>
      <4>1. s[Len(s)] \in Waiter /\ dualTail = node[s[Len(s)]]
        BY <2>1, <3>2 DEF DualIInv, InLine, LineIs, ChainIs
      <4>2. QED
        BY <2>1, <4>1 DEF DualIInv, NodeState
    <3>3. QED
      BY <3>1, <3>2
  <2>3. ASSUME NEW t \in Waiter, Unlinked(t) PROVE prev[t] \notin freed
    <3>1. PICK i \in 1 .. Len(s) : s[i] = t
      BY <2>1, <2>3 DEF DualIInv, NodeState, InLine, LineIs, Line, Unlinked
    <3>2. i # 1 /\ Len(s) \in Nat
      BY <2>1, <2>3, <3>1 DEF DualIInv, InLine, LineIs, FrontIs
    <3>3. i - 1 \in 1 .. Len(s) - 1 /\ i - 1 \in 1 .. Len(s) /\ (i - 1) + 1 = i
      BY <3>2
    <3>4. prev[t] = node[s[i - 1]] /\ s[i - 1] \in Waiter
      BY <2>1, <2>3, <3>1, <3>3 DEF DualIInv, InLine, LineIs, ChainIs
    <3>5. QED
      BY <2>1, <3>4 DEF DualIInv, NodeState
  <2>4. ASSUME NEW t \in Waiter, dualPc[t] = "notify" PROVE dualNext[node[t]] \notin freed
    <3>1. s \in Seq(Waiter) /\ s # <<>> /\ t = s[1] /\ Len(s) \in Nat
      BY <2>1, <2>4, HolderIsFirst DEF Holding
    <3>2. dualNext[node[t]] # NoNode
      BY <2>1, <2>4 DEF DualIInv, NodeState
    <3>3. Len(s) # 1
      BY <2>1, <3>1, <3>2 DEF DualIInv, InLine, ChainIs
    <3>4. 1 \in 1 .. Len(s) - 1 /\ 1 + 1 \in 1 .. Len(s)
      <4>1. Len(s) \in Nat /\ Len(s) # 0
        BY <3>1
      <4>2. QED
        BY <3>3, <4>1, HasSecond
    <3>5. dualNext[node[t]] = node[s[1 + 1]] /\ s[1 + 1] \in Waiter
      BY <2>1, <3>1, <3>2, <3>4 DEF DualIInv, InLine, LineIs, ChainIs
    <3>6. QED
      BY <2>1, <3>5 DEF DualIInv, NodeState
  <2>5. \A t \in Waiter : node[t] \notin freed
    BY <2>1 DEF DualIInv, NodeState
  <2>6. QED
    BY <2>1, <2>2, <2>3, <2>4, <2>5 DEF DualIInv, LiveInv, NodesLive, Unlinked
<1>2. QED
  BY <1>1, HasLineHolds, PTL

(* wait_with returns, and lock hands out its guard, only after the unlock  *)
(* that passed the lock on has emptied the waiter's slot; the task inside  *)
(* is the first in line, whose slot is empty. (Stray = 0: a wake from      *)
(* elsewhere refutes it.)                                                  *)
THEOREM GuardOnce ==
  ASSUME Stray = 0
  PROVE  DualSpec => []CompletesOnceNotified
<1>1. ASSUME HasLine PROVE CompletesOnceNotified
  <2>1. PICK s : DualIInv(s)
    BY <1>1 DEF HasLine
  <2>2. ASSUME NEW t \in Waiter, dualPc[t] = "in" PROVE dualSlot[node[t]] = NoNode
    <3>1. s # <<>> /\ t = s[1]
      BY <2>1, <2>2, HolderIsFirst DEF Holding
    <3>2. QED
      BY <2>1, <3>1 DEF DualIInv, InLine, FrontIs
  <2>3. QED
    BY <2>2 DEF CompletesOnceNotified
<1>2. QED
  BY <1>1, HasLineHolds, PTL

(* The line of the abstract lock is the line, in this state and the next.  *)
OrderKnown == \A s : DualIInv(s) => Order = s

(* OrderIsLine, as a fact that holds in every state.                       *)
LEMMA OrderIsKnown == OrderKnown
BY OrderIsLine DEF OrderKnown, DualIInv

(* The same of the next state.                                             *)
LEMMA OrderIsKnownNext == OrderKnown'
BY OrderIsKnown, PTL

(* The mutex is a FifoLock: tasks enter one at a time, in the order in     *)
(* which start_lock put them behind the tail, and an unlock lets in the    *)
(* next. Every step is one of FifoLock's or leaves the line and who is     *)
(* inside. (Stray = 0, as above.)                                          *)
THEOREM FifoRefinement ==
  ASSUME Stray = 0
  PROVE  DualSpec => ImplementsFifoLock
<1>1. DualInit => LockOf!Init
  <2> SUFFICES ASSUME DualInit PROVE LockOf!Init
    OBVIOUS
  <2>1. Order = <<>> /\ Inside = {}
    BY DualInitIInv, OrderIsKnown DEF OrderKnown
  <2>2. QED
    BY <2>1 DEF LockOf!Init
<1>2. HasLine /\ [DualNext]_dualVars => [LockOf!Next]_<<Order, Inside>>
  <2> SUFFICES ASSUME HasLine, [DualNext]_dualVars PROVE [LockOf!Next]_<<Order, Inside>>
    OBVIOUS
  <2>1. PICK s : DualIInv(s)
    BY DEF HasLine
  <2>2. PICK r : DualIInv(r)' /\ ((UNCHANGED Inside /\ r = s) \/ \E t \in Waiter : StepOf(s, r, t))
    BY <2>1, DualNextIInv
  <2>3. Order = s /\ Order' = r
    BY <2>1, <2>2, OrderIsKnown, OrderIsKnownNext DEF OrderKnown
  <2>4. CASE UNCHANGED Inside /\ r = s
    BY <2>3, <2>4
  <2>5. ASSUME NEW t \in Waiter, StepOf(s, r, t) PROVE LockOf!Next \/ UNCHANGED <<Order, Inside>>
    <3>0. s \in Seq(Waiter)
      BY <2>1 DEF DualIInv, InLine, LineIs
    <3>1. CASE r = s /\ Inside' = Inside
      BY <2>3, <3>1
    <3>2. CASE r = s /\ Enters(s, t)
      <4>1. LockOf!Enter(t)
        BY <2>3, <3>0, <3>2 DEF Enters, LockOf!Enter
      <4>2. QED
        BY <4>1 DEF LockOf!Next
    <3>3. CASE r = Append(s, t) /\ s = <<>> /\ Inside' = {t}
      <4>1. LockOf!ArriveAndEnter(t)
        BY <2>3, <3>3 DEF LockOf!ArriveAndEnter
      <4>2. QED
        BY <4>1 DEF LockOf!Next
    <3>4. CASE r = Append(s, t) /\ s # <<>> /\ Inside' = Inside
      <4>1. LockOf!Arrive(t)
        BY <2>3, <3>4 DEF LockOf!Arrive
      <4>2. QED
        BY <4>1 DEF LockOf!Next
    <3>5. CASE s # <<>> /\ s[1] = t /\ r = Tail(s) /\ t \in Inside /\ Inside' = Inside \ {t}
      <4>1. LockOf!Leave(t)
        BY <2>3, <3>0, <3>5 DEF LockOf!Leave
      <4>2. QED
        BY <4>1 DEF LockOf!Next
    <3>6. QED
      BY <2>5, <3>1, <3>2, <3>3, <3>4, <3>5 DEF StepOf
  <2>6. QED
    BY <2>2, <2>4, <2>5
<1>3. QED
  BY <1>1, <1>2, HasLineHolds, PTL DEF DualSpec, ImplementsFifoLock, LockOf!Spec

=============================================================================
