-------------------------- MODULE McsMutex_proofs --------------------------
(***************************************************************************)
(* Proofs about McsMutex over StackfulSched: no task is lost, resumed twice*)
(* or run by two workers, for any workers, tasks and nodes.                *)
(*                                                                         *)
(* The invariant gives each token its one place (Placed) and says what the *)
(* frames of the stacks, the nodes and the list of waiters have to do with *)
(* each other.  Frames are named by their number from the bottom of their  *)
(* stack, which pushing and popping leaves alone.                          *)
(***************************************************************************)
EXTENDS McsMutex, FiniteSetTheorems, SequenceTheorems, TLAPS

(* How many frames the stack of d has.                                     *)
Depth(d) == Len(frames[d])

(* The places of the frames of all stacks.  A frame is at another index of *)
(* its sequence when others are pushed above it; its number, counted from  *)
(* the bottom, which is 1, stays.                                          *)
Spots == UNION {{d} \X (1 .. Depth(d)) : d \in Desc}

(* The frame at p.                                                         *)
Fr(p) == frames[p[1]][Depth(p[1]) + 1 - p[2]]

(* Types.                                                                  *)
MTypeOK ==
  /\ thread \in [Worker -> Desc]
  /\ frames \in [Desc -> Seq(Frame)]
  /\ saved \subseteq Desc
  /\ main \in [Worker -> Seq(Desc)]
  /\ deferred \in [Worker -> Seq(Desc)]
  /\ rootCont \in [Worker -> Worker \cup {None}]
  /\ tail \in Node \cup {None}
  /\ next \in [Node -> Node \cup {None}]
  /\ slot \in [Node -> Ult \cup {None}]
  /\ free \subseteq Node
  /\ waiters \in Seq(Ult) /\ cvSlot \subseteq Ult
  /\ cvLock \in BOOLEAN
  /\ calls \in 0..MaxCalls

(* What the bottom frame of a stack can be: the scheduler loop, or the     *)
(* task itself and how far it is.                                          *)
BaseOf(d, f) ==
  IF d \in Worker THEN f = Loop(d)
  ELSE /\ f.op = "task" /\ f.who = d /\ d \in Ult
       /\ f.step \in {"out", "relock", "waited", "in", "drop", "spin"}
       /\ f.step \in {"waited", "in", "drop", "spin"} => f.node # None
       /\ f.step \in {"out", "relock"} => f.node = None

(* ... and what is above it: the callback of a switch, of a lock or of a   *)
(* wait.                                                                   *)
CallbackOf(f) ==
  /\ f.who \in Ult /\ f.node # None
  /\ \/ f.op = "lock" /\ f.step \in {"publish", "link"} /\ f.prev # None
     \/ f.op = "cv" /\ f.step \in {"publish", "unlock", "drop", "spin"}

(* Stacks have such frames.                                                *)
FrameState ==
  \A p \in Spots : IF p[2] = 1 THEN BaseOf(p[1], Fr(p)) ELSE CallbackOf(Fr(p))

(* Nodes in use.                                                           *)
Live == Node \ free

(* A frame with a guard: of the task itself, or moved into the callback of *)
(* a wait.                                                                 *)
Owns(f) == f.op = "cv" \/ (f.op = "task" /\ f.node # None)

(* A node in use belongs to one frame.                                     *)
OwnState ==
  /\ \A p \in Spots : Owns(Fr(p)) => Fr(p).node \in Live
  /\ \A p, q \in Spots : Owns(Fr(p)) /\ Owns(Fr(q)) /\ Fr(p).node = Fr(q).node => p = q

(* The task t waits with the node n.                                       *)
Waited(t, n) ==
  /\ t \in Ult /\ n \in Live /\ <<t, 1>> \in Spots
  /\ Fr(<<t, 1>>).step = "waited" /\ Fr(<<t, 1>>).node = n

(* The callback of a lock is about to fill the slot of its node, or has    *)
(* filled it, and to link the node behind prev: the end of that queue      *)
(* until then.                                                             *)
LinkOf(f) ==
  /\ Waited(f.who, f.node)
  /\ f.prev \in Live /\ tail # f.prev /\ next[f.prev] = None
  /\ slot[f.node] = IF f.step = "link" THEN f.who ELSE None
  /\ \A n \in Live : next[n] # f.node

(* ... and no other callback has the same node or the same predecessor.    *)
LockState ==
  /\ \A p \in Spots : Fr(p).op = "lock" => LinkOf(Fr(p))
  /\ \A p, q \in Spots : Fr(p).op = "lock" /\ Fr(q).op = "lock"
        /\ (Fr(p).node = Fr(q).node \/ Fr(p).prev = Fr(q).prev) => p = q

(* A linked node is parked, behind one predecessor, which is not the tail. *)
NextState ==
  /\ \A n \in Live : next[n] # None => tail # n /\ slot[next[n]] # None
  /\ \A m, n \in Live : next[m] # None /\ next[m] = next[n] => m = n
  /\ tail # None => tail \in Live

(* A token in a slot is that of the task that waits with the node.         *)
SlotState == \A n \in Node : slot[n] # None => Waited(slot[n], n)

(* x is in the sequence s.                                                 *)
In(s, x) == \E n \in 1 .. Len(s) : s[n] = x

(* Nothing is in the sequence s twice.                                     *)
NoTwice(s) == \A m, n \in 1 .. Len(s) : s[m] = s[n] => m = n

(* A callback of a wait that holds the lock of the list.                   *)
Enters(f) == f.op = "cv" /\ f.step \in {"publish", "unlock"}

(* Who is in the list has its token in its slot, but for the one whose     *)
(* callback holds the lock of the list and has not published it.           *)
CvState ==
  /\ \A p \in Spots : Enters(Fr(p)) =>
       /\ cvLock
       /\ \A x : In(waiters, x) <=>
                x \in cvSlot \/ (Fr(p).step = "publish" /\ x = Fr(p).who)
  /\ \A p, q \in Spots : Enters(Fr(p)) /\ Enters(Fr(q)) => p = q
  /\ ~ cvLock => \A x : In(waiters, x) <=> x \in cvSlot
  /\ NoTwice(waiters)

(* No token is twice in a queue.                                           *)
NothingTwice == \A w \in Worker : NoTwice(main[w]) /\ NoTwice(deferred[w])

(* The kinds of places a token can be in.                                  *)
Homes == {"thread", "root", "main", "deferred", "callback", "slot", "cv", "gone"}

(* The callback at p has the token of d and is to publish it.              *)
Publishes(p, d) == p \in Spots /\ Fr(p).step = "publish" /\ Fr(p).who = d

(* The token of d is in the place h of u and in no other.                  *)
Placed(d, h, u) ==
  /\ \A w \in Worker : thread[w] = d <=> h = "thread" /\ u = w
  /\ \A w \in Worker : rootCont[w] = d <=> h = "root" /\ u = w
  /\ \A w \in Worker : In(main[w], d) <=> h = "main" /\ u = w
  /\ \A w \in Worker : In(deferred[w], d) <=> h = "deferred" /\ u = w
  /\ \A p \in Spots : Publishes(p, d) <=> h = "callback" /\ u = p
  /\ \A n \in Node : slot[n] = d <=> h = "slot" /\ u = n
  /\ d \in cvSlot <=> h = "cv"
  /\ frames[d] = <<>> <=> h = "gone"
  /\ d \in saved <=> h \notin {"thread", "gone"}
  /\ h \in {"thread", "root", "main", "deferred", "cv", "gone"} => u \in Worker
  /\ d \in Worker => h \in {"thread", "root"} /\ u = d
  /\ h = "callback" => u \in Spots
  /\ h = "slot" => u \in Node

(* Every token has one place.                                              *)
EachPlaced == \A d \in Desc : \E h \in Homes, u \in Worker \cup Node \cup Spots : Placed(d, h, u)

(* What holds of stacks, nodes and the list.                               *)
Shape == FrameState /\ OwnState /\ LockState /\ NextState /\ SlotState /\ CvState

(* The inductive invariant.                                                *)
McsIInv == MTypeOK /\ Shape /\ NothingTwice /\ EachPlaced

-----------------------------------------------------------------------------
(* Sequences.                                                              *)

(* The empty sequence.                                                     *)
LEMMA InEmpty == NoTwice(<<>>) /\ \A x : ~ In(<<>>, x)
<1>1. Len(<<>>) = 0
  BY EmptySeq
<1>2. QED
  BY <1>1 DEF NoTwice, In

(* The members of a sequence, its ends among them.                         *)
LEMMA InTyped ==
  ASSUME NEW S, NEW s \in Seq(S)
  PROVE  /\ \A x : In(s, x) => x \in S
         /\ s # <<>> => In(s, Head(s)) /\ In(s, Last(s))
<1>1. Len(s) \in Nat /\ \A n \in 1 .. Len(s) : s[n] \in S
  BY LenProperties, ElementOfSeq
<1>2. \A x : In(s, x) => x \in S
  BY <1>1 DEF In
<1>3. ASSUME s # <<>> PROVE In(s, Head(s)) /\ In(s, Last(s))
  <2>1. 1 \in 1 .. Len(s) /\ Len(s) \in 1 .. Len(s)
    BY <1>1, <1>3, EmptySeq
  <2>2. Head(s) = s[1] /\ Last(s) = s[Len(s)]
    BY DEF Last
  <2>3. QED
    BY <2>1, <2>2 DEF In
<1>4. QED
  BY <1>2, <1>3

(* A new last member.                                                      *)
LEMMA InAppend ==
  ASSUME NEW S, NEW s \in Seq(S), NEW x \in S
  PROVE  /\ Append(s, x) \in Seq(S)
         /\ \A y : In(Append(s, x), y) <=> In(s, y) \/ y = x
         /\ NoTwice(s) /\ ~ In(s, x) => NoTwice(Append(s, x))
<1> DEFINE a == Append(s, x)
           k == Len(s)
<1>1. /\ a \in Seq(S) /\ Len(a) = k + 1 /\ a[k + 1] = x /\ k \in Nat
      /\ \A n \in 1 .. k : a[n] = s[n]
  BY AppendProperties, LenProperties
<1> HIDE DEF a
<1>2. \A n \in 1 .. k + 1 : n \in 1 .. k \/ n = k + 1
  BY <1>1
<1>3. 1 .. k \subseteq 1 .. k + 1 /\ k + 1 \in 1 .. k + 1
  BY <1>1
<1>4. \A y : In(a, y) <=> In(s, y) \/ y = x
  BY <1>1, <1>2, <1>3 DEF In
<1>5. NoTwice(s) /\ ~ In(s, x) => NoTwice(a)
  BY <1>1, <1>2, <1>3 DEF In, NoTwice
<1>6. QED
  BY <1>1, <1>4, <1>5 DEF a

(* A new first member.                                                     *)
LEMMA InFirst ==
  ASSUME NEW S, NEW s \in Seq(S), NEW x \in S
  PROVE  /\ <<x>> \o s \in Seq(S)
         /\ \A y : In(<<x>> \o s, y) <=> In(s, y) \/ y = x
         /\ NoTwice(s) /\ ~ In(s, x) => NoTwice(<<x>> \o s)
<1> DEFINE a == <<x>> \o s
           k == Len(s)
<1>1. <<x>> \in Seq(S) /\ Len(<<x>>) = 1 /\ <<x>>[1] = x
  OBVIOUS
<1>2. /\ a \in Seq(S) /\ Len(a) = 1 + k /\ k \in Nat
      /\ \A n \in 1 .. 1 + k : a[n] = IF n <= 1 THEN <<x>>[n] ELSE s[n - 1]
  BY <1>1, ConcatProperties, LenProperties
<1> HIDE DEF a
<1>3. a[1] = x /\ \A n \in 1 .. k : a[n + 1] = s[n]
  <2>1. 1 \in 1 .. 1 + k /\ \A n \in 1 .. k :
            n + 1 \in 1 .. 1 + k /\ ~ (n + 1 <= 1) /\ (n + 1) - 1 = n
    BY <1>2
  <2>2. QED
    BY <1>1, <1>2, <2>1
<1>4. /\ \A n \in 1 .. Len(a) : n = 1 \/ (n - 1 \in 1 .. k /\ n = (n - 1) + 1 /\ a[n] = s[n - 1])
      /\ \A n \in 1 .. k : n + 1 \in 1 .. Len(a)
      /\ 1 \in 1 .. Len(a)
  <2>1. /\ \A n \in 1 .. 1 + k : n = 1 \/ (n - 1 \in 1 .. k /\ n = (n - 1) + 1)
        /\ \A n \in 1 .. k : n + 1 \in 1 .. 1 + k
        /\ 1 \in 1 .. 1 + k
    BY <1>2
  <2>2. QED
    BY <1>2, <1>3, <2>1
<1>5. \A y : In(a, y) <=> In(s, y) \/ y = x
  <2>1. ASSUME NEW y, In(a, y) PROVE In(s, y) \/ y = x
    <3>1. PICK n \in 1 .. Len(a) : a[n] = y
      BY <2>1 DEF In
    <3>2. CASE n = 1
      BY <1>3, <3>1, <3>2
    <3>3. CASE n # 1
      <4>1. n - 1 \in 1 .. k /\ s[n - 1] = y
        BY <1>4, <3>1, <3>3
      <4>2. QED
        BY <4>1 DEF In
    <3>4. QED
      BY <3>2, <3>3
  <2>2. ASSUME NEW y, In(s, y) \/ y = x PROVE In(a, y)
    BY <1>3, <1>4, <2>2 DEF In
  <2>3. QED
    BY <2>1, <2>2
<1>6. ASSUME NoTwice(s), ~ In(s, x) PROVE NoTwice(a)
  <2> SUFFICES ASSUME NEW m \in 1 .. Len(a), NEW n \in 1 .. Len(a), a[m] = a[n]
               PROVE  m = n
    BY DEF NoTwice
  <2>1. CASE m = 1 \/ n = 1
    BY <1>3, <1>4, <1>6, <2>1 DEF In
  <2>2. CASE m # 1 /\ n # 1
    BY <1>4, <1>6, <2>2 DEF NoTwice
  <2>3. QED
    BY <2>1, <2>2
<1>7. QED
  BY <1>2, <1>5, <1>6 DEF a

(* The first member leaves.                                                *)
LEMMA InTail ==
  ASSUME NEW S, NEW s \in Seq(S), s # <<>>, NoTwice(s)
  PROVE  /\ Tail(s) \in Seq(S) /\ NoTwice(Tail(s)) /\ Head(s) \in S
         /\ \A y : In(Tail(s), y) <=> In(s, y) /\ y # Head(s)
<1> DEFINE a == Tail(s)
           k == Len(s)
           h == Head(s)
<1>1. /\ a \in Seq(S) /\ Len(a) = k - 1 /\ k \in Nat \ {0} /\ h \in S
      /\ \A n \in 1 .. Len(a) : a[n] = s[n + 1]
  BY HeadTailProperties, EmptySeq
<1>2. h = s[1]
  OBVIOUS
<1> HIDE DEF a, h
<1>3. /\ \A n \in 1 .. k : n = 1 \/ (n - 1 \in 1 .. k - 1 /\ n = (n - 1) + 1)
      /\ \A n \in 1 .. k - 1 : n + 1 \in 1 .. k /\ n + 1 # 1
      /\ 1 \in 1 .. k
      /\ \A m, n \in 1 .. k - 1 : m + 1 = n + 1 => m = n
  BY <1>1
<1>4. NoTwice(a)
  BY <1>1, <1>3 DEF NoTwice
<1>5. ASSUME NEW y PROVE In(a, y) <=> In(s, y) /\ y # h
  <2>1. ASSUME In(a, y) PROVE In(s, y) /\ y # h
    BY <1>1, <1>2, <1>3, <2>1 DEF NoTwice, In
  <2>2. ASSUME In(s, y), y # h PROVE In(a, y)
    <3>1. PICK n \in 1 .. k : s[n] = y
      BY <2>2 DEF In
    <3>2. n - 1 \in 1 .. Len(a) /\ a[n - 1] = y
      BY <1>1, <1>2, <1>3, <2>2, <3>1
    <3>3. QED
      BY <3>2 DEF In
  <2>3. QED
    BY <2>1, <2>2
<1>6. QED
  BY <1>1, <1>4, <1>5 DEF a, h

(* The last member leaves.                                                 *)
LEMMA InFront ==
  ASSUME NEW S, NEW s \in Seq(S), s # <<>>, NoTwice(s)
  PROVE  /\ Front(s) \in Seq(S) /\ NoTwice(Front(s)) /\ Last(s) \in S
         /\ \A y : In(Front(s), y) <=> In(s, y) /\ y # Last(s)
<1> DEFINE a == Front(s)
           k == Len(s)
           h == Last(s)
<1>1. k \in Nat \ {0} /\ \A n \in 1 .. k : s[n] \in S
  BY EmptySeq, LenProperties, ElementOfSeq
<1>2. a \in Seq(S) /\ Len(a) = k - 1 /\ \A n \in 1 .. k - 1 : a[n] = s[n]
  <2>1. \A n \in 1 .. k - 1 : s[n] \in S
    BY <1>1
  <2>2. /\ SubSeq(s, 1, k - 1) \in Seq(S)
        /\ Len(SubSeq(s, 1, k - 1)) = IF 1 <= k - 1 THEN (k - 1) - 1 + 1 ELSE 0
        /\ \A n \in 1 .. (k - 1) - 1 + 1 : SubSeq(s, 1, k - 1)[n] = s[1 + n - 1]
    BY <1>1, <2>1, SubSeqProperties
  <2>3. Len(SubSeq(s, 1, k - 1)) = k - 1
    <3>1. \A j \in Nat \ {0} : (IF 1 <= j - 1 THEN (j - 1) - 1 + 1 ELSE 0) = j - 1
      OBVIOUS
    <3>2. QED
      BY <1>1, <2>2, <3>1
  <2>4. \A n \in 1 .. k - 1 : 1 + n - 1 = n /\ n \in 1 .. (k - 1) - 1 + 1
    BY <1>1
  <2>5. QED
    BY <2>2, <2>3, <2>4 DEF Front
<1>3. h = s[k]
  BY DEF Last
<1> HIDE DEF a, h
<1>4. /\ \A n \in 1 .. k : n = k \/ n \in 1 .. k - 1
      /\ \A n \in 1 .. k - 1 : n \in 1 .. k /\ n # k
      /\ k \in 1 .. k
  BY <1>1
<1>5. NoTwice(a)
  BY <1>2, <1>4 DEF NoTwice
<1>6. \A y : In(a, y) <=> In(s, y) /\ y # h
  BY <1>2, <1>3, <1>4 DEF NoTwice, In
<1>7. QED
  BY <1>1, <1>2, <1>3, <1>4, <1>5, <1>6 DEF a, h

(* Two sequences become one.                                               *)
LEMMA InBoth ==
  ASSUME NEW S, NEW s \in Seq(S), NEW t \in Seq(S)
  PROVE  /\ s \o t \in Seq(S)
         /\ \A y : In(s \o t, y) <=> In(s, y) \/ In(t, y)
         /\ NoTwice(s) /\ NoTwice(t) /\ (\A y : ~ (In(s, y) /\ In(t, y))) => NoTwice(s \o t)
<1> DEFINE a == s \o t
           k == Len(s)
           l == Len(t)
<1>1. /\ a \in Seq(S) /\ Len(a) = k + l /\ k \in Nat /\ l \in Nat
      /\ \A n \in 1 .. k + l : a[n] = IF n <= k THEN s[n] ELSE t[n - k]
  BY ConcatProperties, LenProperties
<1> HIDE DEF a
<1>2. /\ \A n \in 1 .. k + l : n \in 1 .. k \/ (n - k \in 1 .. l /\ n = (n - k) + k)
      /\ \A n \in 1 .. k : n \in 1 .. k + l /\ n <= k
      /\ \A n \in 1 .. l : n + k \in 1 .. k + l /\ ~ (n + k <= k) /\ (n + k) - k = n
  BY <1>1
<1>3. (\A n \in 1 .. k : a[n] = s[n]) /\ (\A n \in 1 .. l : a[n + k] = t[n])
  BY <1>1, <1>2
<1>0. \A n \in 1 .. k + l : n \notin 1 .. k => n - k \in 1 .. l /\ a[n] = t[n - k]
  BY <1>1, <1>2
<1>4. ASSUME NEW y PROVE In(a, y) <=> In(s, y) \/ In(t, y)
  <2>1. ASSUME In(a, y) PROVE In(s, y) \/ In(t, y)
    <3>1. PICK n \in 1 .. k + l : a[n] = y
      BY <1>1, <2>1 DEF In
    <3>2. CASE n \in 1 .. k
      BY <1>3, <3>1, <3>2 DEF In
    <3>3. CASE n \notin 1 .. k
      BY <1>0, <3>1, <3>3 DEF In
    <3>4. QED
      BY <3>2, <3>3
  <2>2. ASSUME In(s, y) PROVE In(a, y)
    BY <1>1, <1>2, <1>3, <2>2 DEF In
  <2>3. ASSUME In(t, y) PROVE In(a, y)
    BY <1>1, <1>2, <1>3, <2>3 DEF In
  <2>4. QED
    BY <2>1, <2>2, <2>3
<1>5. ASSUME NoTwice(s), NoTwice(t), \A y : ~ (In(s, y) /\ In(t, y)) PROVE NoTwice(a)
  <2> SUFFICES ASSUME NEW m \in 1 .. k + l, NEW n \in 1 .. k + l, a[m] = a[n]
               PROVE  m = n
    BY <1>1 DEF NoTwice
  <2>1. CASE m \in 1 .. k /\ n \in 1 .. k
    BY <1>3, <1>5, <2>1 DEF NoTwice
  <2>2. CASE m \notin 1 .. k /\ n \notin 1 .. k
    <3>1. m - k \in 1 .. l /\ n - k \in 1 .. l /\ t[m - k] = t[n - k]
      BY <1>2, <1>3, <2>2
    <3>2. m - k = n - k
      BY <1>5, <3>1 DEF NoTwice
    <3>3. QED
      BY <1>2, <2>2, <3>2
  <2>3. CASE m \in 1 .. k /\ n \notin 1 .. k
    <3>1. In(s, a[m]) /\ In(t, a[n])
      BY <1>0, <1>3, <2>3 DEF In
    <3>2. QED
      BY <1>5, <3>1
  <2>4. CASE m \notin 1 .. k /\ n \in 1 .. k
    <3>1. In(t, a[m]) /\ In(s, a[n])
      BY <1>0, <1>3, <2>4 DEF In
    <3>2. QED
      BY <1>5, <3>1
  <2>5. QED
    BY <2>1, <2>2, <2>3, <2>4
<1>6. QED
  BY <1>1, <1>4, <1>5 DEF a

(* The first member becomes another.                                       *)
LEMMA HeadChanges ==
  ASSUME NEW S, NEW s \in Seq(S), s # <<>>, NEW g \in S
  PROVE  /\ <<g>> \o Tail(s) \in Seq(S) /\ Len(<<g>> \o Tail(s)) = Len(s)
         /\ (<<g>> \o Tail(s))[1] = g
         /\ \A i \in 1 .. Len(s) : i # 1 => (<<g>> \o Tail(s))[i] = s[i]
<1> DEFINE k == Len(s)
           r == Tail(s)
           a == <<g>> \o r
<1>1. /\ r \in Seq(S) /\ Len(r) = k - 1 /\ k \in Nat \ {0}
      /\ \A n \in 1 .. Len(r) : r[n] = s[n + 1]
  BY HeadTailProperties, EmptySeq
<1>2. <<g>> \in Seq(S) /\ Len(<<g>>) = 1 /\ <<g>>[1] = g
  OBVIOUS
<1> HIDE DEF r
<1>3. /\ a \in Seq(S) /\ Len(a) = 1 + Len(r)
      /\ \A n \in 1 .. 1 + Len(r) : a[n] = IF n <= 1 THEN <<g>>[n] ELSE r[n - 1]
  BY <1>1, <1>2, ConcatProperties
<1> HIDE DEF a
<1>4. Len(a) = k /\ 1 \in 1 .. k /\ 1 + Len(r) = k
  BY <1>1, <1>3
<1>5. \A n \in 1 .. k : n # 1 => ~ (n <= 1) /\ n - 1 \in 1 .. Len(r) /\ (n - 1) + 1 = n
  BY <1>1
<1>6. a[1] = g /\ \A n \in 1 .. k : n # 1 => a[n] = s[n]
  BY <1>1, <1>2, <1>3, <1>4, <1>5
<1>7. QED
  BY <1>3, <1>4, <1>6 DEF a, r

(* A member is put before the first; the others keep their number from the *)
(* end.                                                                    *)
LEMMA HeadPushed ==
  ASSUME NEW S, NEW s \in Seq(S), NEW c \in S
  PROVE  /\ <<c>> \o s \in Seq(S) /\ Len(<<c>> \o s) = Len(s) + 1 /\ (<<c>> \o s)[1] = c
         /\ \A i \in 1 .. Len(s) : (<<c>> \o s)[i + 1] = s[i]
<1> DEFINE k == Len(s)
           a == <<c>> \o s
<1>1. k \in Nat
  BY LenProperties
<1>2. <<c>> \in Seq(S) /\ Len(<<c>>) = 1 /\ <<c>>[1] = c
  OBVIOUS
<1>3. /\ a \in Seq(S) /\ Len(a) = 1 + k
      /\ \A n \in 1 .. 1 + k : a[n] = IF n <= 1 THEN <<c>>[n] ELSE s[n - 1]
  BY <1>2, ConcatProperties
<1> HIDE DEF a
<1>4. 1 + k = k + 1 /\ 1 \in 1 .. 1 + k
      /\ \A n \in 1 .. k : n + 1 \in 1 .. 1 + k /\ ~ (n + 1 <= 1) /\ (n + 1) - 1 = n
  BY <1>1
<1>5. a[1] = c /\ \A n \in 1 .. k : a[n + 1] = s[n]
  BY <1>2, <1>3, <1>4
<1>6. QED
  BY <1>3, <1>4, <1>5 DEF a

-----------------------------------------------------------------------------
(* Stacks.                                                                 *)

(* The places of frames are pairs of a stack and a number.                 *)
LEMMA SpotsAre ==
  /\ \A d, j : <<d, j>> \in Spots <=> d \in Desc /\ j \in 1 .. Depth(d)
  /\ \A p \in Spots : p = <<p[1], p[2]>> /\ p[1] \in Desc /\ p[2] \in 1 .. Depth(p[1])
BY DEF Spots

(* A stack has a frame unless it was abandoned.                            *)
LEMMA DepthTyped ==
  ASSUME MTypeOK, NEW d \in Desc
  PROVE  Depth(d) \in Nat /\ (frames[d] = <<>> <=> Depth(d) = 0)
           /\ (frames[d] # <<>> <=> <<d, 1>> \in Spots)
<1>1. frames[d] \in Seq(Frame)
  BY DEF MTypeOK
<1>2. Depth(d) \in Nat /\ (frames[d] = <<>> <=> Depth(d) = 0)
  BY <1>1, LenProperties, EmptySeq DEF Depth
<1>3. Depth(d) # 0 <=> 1 \in 1 .. Depth(d)
  BY <1>2
<1>4. QED
  BY <1>2, <1>3, SpotsAre

(* The frames are frames.                                                  *)
LEMMA FrTyped ==
  ASSUME MTypeOK, NEW p \in Spots
  PROVE  Fr(p) \in Frame
<1>1. p[1] \in Desc /\ p[2] \in 1 .. Depth(p[1])
  BY SpotsAre
<1>2. frames[p[1]] \in Seq(Frame) /\ Depth(p[1]) \in Nat
  BY <1>1, DepthTyped DEF MTypeOK
<1>3. Depth(p[1]) + 1 - p[2] \in 1 .. Depth(p[1])
  BY <1>1, <1>2
<1>4. QED
  BY <1>2, <1>3, ElementOfSeq DEF Fr, Depth

(* The place of the frame that w executes.                                 *)
TopOf(w) == <<thread[w], Depth(thread[w])>>

(* ... which is the highest of its stack.                                  *)
LEMMA TopIs ==
  ASSUME MTypeOK, NEW w \in Worker, frames[thread[w]] # <<>>
  PROVE  /\ TopOf(w) \in Spots /\ Fr(TopOf(w)) = Top(w) /\ TopOf(w)[1] = thread[w]
         /\ \A j : <<thread[w], j>> \in Spots => j <= TopOf(w)[2]
<1> DEFINE d == thread[w]
<1>1. d \in Desc
  BY DEF MTypeOK
<1>2. Depth(d) \in Nat /\ Depth(d) # 0
  BY <1>1, DepthTyped
<1>3. Depth(d) \in 1 .. Depth(d) /\ Depth(d) + 1 - Depth(d) = 1
  BY <1>2
<1>4. <<d, Depth(d)>> \in Spots
  BY <1>1, <1>3, SpotsAre
<1>5. Fr(<<d, Depth(d)>>) = Head(frames[d])
  BY <1>3 DEF Fr
<1>6. \A j : <<d, j>> \in Spots => j <= Depth(d)
  BY <1>2, SpotsAre
<1>7. QED
  BY <1>4, <1>5, <1>6 DEF TopOf, Top

(* Advance, WithTop: the running frame becomes another.                    *)
LEMMA Retopped ==
  ASSUME MTypeOK, NEW w \in Worker, frames[thread[w]] # <<>>, NEW g \in Frame,
         frames' = WithTop(w, g),
         NEW p, p = TopOf(w)
  PROVE  /\ frames' \in [Desc -> Seq(Frame)] /\ Spots' = Spots
         /\ \A q \in Spots : Fr(q)' = IF q = p THEN g ELSE Fr(q)
         /\ \A d \in Desc : frames'[d] = <<>> <=> frames[d] = <<>>
<1> PICK d \in Desc : d = thread[w]
  BY DEF MTypeOK
<1> DEFINE s == frames[d]
           k == Len(s)
           a == <<g>> \o Tail(s)
<1>1. s \in Seq(Frame) /\ s # <<>> /\ k \in Nat /\ k # 0
  BY LenProperties, EmptySeq DEF MTypeOK
<1>2. /\ a \in Seq(Frame) /\ Len(a) = k /\ a[1] = g
      /\ \A i \in 1 .. k : i # 1 => a[i] = s[i]
  BY <1>1, HeadChanges
<1>3. frames' = [frames EXCEPT ![d] = a]
  BY DEF WithTop, MTypeOK
<1> HIDE DEF a
<1>4. frames' \in [Desc -> Seq(Frame)] /\ frames'[d] = a
      /\ \A e \in Desc : e # d => frames'[e] = frames[e]
  BY <1>2, <1>3 DEF MTypeOK
<1>5. \A e \in Desc : Depth(e)' = Depth(e)
  BY <1>2, <1>4 DEF Depth
<1>6. Spots' = Spots
  BY <1>5 DEF Spots
<1>7. ASSUME NEW q \in Spots PROVE Fr(q)' = IF q = p THEN g ELSE Fr(q)
  <2>1. q = <<q[1], q[2]>> /\ q[1] \in Desc /\ q[2] \in 1 .. Depth(q[1])
    BY SpotsAre
  <2>2. Fr(q)' = frames'[q[1]][Depth(q[1]) + 1 - q[2]]
    BY <1>5, <2>1 DEF Fr
  <2>3. CASE q[1] # d
    <3>1. q # p
      BY <2>3 DEF TopOf
    <3>2. QED
      BY <1>4, <2>1, <2>2, <2>3, <3>1 DEF Fr
  <2>4. CASE q[1] = d
    <3> DEFINE j == q[2]
    <3>1. Depth(d) = k /\ j \in 1 .. k
      BY <2>1, <2>4 DEF Depth
    <3>2. q = p <=> j = k
      BY <2>1, <2>4, <3>1 DEF TopOf
    <3> HIDE DEF j, k
    <3>3. k + 1 - j \in 1 .. k /\ (k + 1 - j = 1 <=> j = k)
      BY <1>1, <3>1
    <3>4. Fr(q)' = a[k + 1 - j] /\ Fr(q) = s[k + 1 - j]
      BY <1>4, <2>2, <2>4, <3>1 DEF Fr, j
    <3>5. QED
      BY <1>2, <3>2, <3>3, <3>4
  <2>5. QED
    BY <2>3, <2>4
<1>8. \A e \in Desc : frames'[e] = <<>> <=> frames[e] = <<>>
  BY <1>1, <1>2, <1>4, EmptySeq
<1>9. QED
  BY <1>4, <1>6, <1>7, <1>8

(* Return: the running frame, a callback, is over.                         *)
LEMMA Popped ==
  ASSUME MTypeOK, NEW w \in Worker, frames[thread[w]] # <<>>,
         Return(w), NEW p, p = TopOf(w), p[2] # 1
  PROVE  /\ frames' \in [Desc -> Seq(Frame)] /\ Spots' = Spots \ {p}
         /\ \A q \in Spots : q # p => Fr(q)' = Fr(q)
         /\ \A d \in Desc : frames'[d] = <<>> <=> frames[d] = <<>>
<1> PICK d \in Desc : d = thread[w]
  BY DEF MTypeOK
<1> DEFINE s == frames[d]
           k == Len(s)
           a == Tail(s)
<1>1. s \in Seq(Frame) /\ s # <<>> /\ k \in Nat /\ k # 0
  BY LenProperties, EmptySeq DEF MTypeOK
<1>2. /\ a \in Seq(Frame) /\ Len(a) = k - 1
      /\ \A i \in 1 .. k - 1 : a[i] = s[i + 1]
  BY <1>1, HeadTailProperties
<1>3. p = <<d, k>> /\ k # 1
  BY DEF TopOf, Depth
<1>4. frames' = [frames EXCEPT ![d] = a]
  BY DEF MTypeOK, Return
<1> HIDE DEF a
<1>5. frames' \in [Desc -> Seq(Frame)] /\ frames'[d] = a
      /\ \A e \in Desc : e # d => frames'[e] = frames[e]
  BY <1>2, <1>4 DEF MTypeOK
<1>6. Depth(d)' = k - 1 /\ Depth(d) = k /\ \A e \in Desc : e # d => Depth(e)' = Depth(e)
  BY <1>2, <1>5 DEF Depth
<1>7. ASSUME NEW e, NEW j PROVE <<e, j>> \in Spots' <=> <<e, j>> \in Spots /\ <<e, j>> # p
  <2>1. <<e, j>> \in Spots' <=> e \in Desc /\ j \in 1 .. Depth(e)'
    BY DEF Spots
  <2>2. <<e, j>> \in Spots <=> e \in Desc /\ j \in 1 .. Depth(e)
    BY SpotsAre
  <2> HIDE DEF k
  <2>3. j \in 1 .. k - 1 <=> j \in 1 .. k /\ j # k
    BY <1>1
  <2>4. QED
    BY <1>3, <1>6, <2>1, <2>2, <2>3
<1>8. \A q \in Spots' : q = <<q[1], q[2]>>
  BY DEF Spots
<1>9. Spots' = Spots \ {p}
  <2>1. \A q \in Spots' : q \in Spots /\ q # p
    BY <1>7, <1>8
  <2>2. \A q \in Spots : q # p => q \in Spots'
    BY <1>7, SpotsAre
  <2>3. QED
    BY <2>1, <2>2
<1>10. ASSUME NEW q \in Spots, q # p PROVE Fr(q)' = Fr(q)
  <2>1. q = <<q[1], q[2]>> /\ q[1] \in Desc /\ q[2] \in 1 .. Depth(q[1])
    BY SpotsAre
  <2>2. Fr(q)' = frames'[q[1]][Depth(q[1])' + 1 - q[2]]
    BY DEF Fr
  <2>3. CASE q[1] # d
    BY <1>5, <1>6, <2>1, <2>2, <2>3 DEF Fr
  <2>4. CASE q[1] = d
    <3> DEFINE j == q[2]
    <3>1. j \in 1 .. k /\ j # k
      BY <1>3, <1>6, <1>10, <2>1, <2>4
    <3> HIDE DEF j, k
    <3>2. k - 1 + 1 - j \in 1 .. k - 1 /\ (k - 1 + 1 - j) + 1 = k + 1 - j
      BY <1>1, <3>1
    <3>3. Fr(q)' = a[k - 1 + 1 - j] /\ Fr(q) = s[k + 1 - j]
      BY <1>5, <1>6, <2>2, <2>4 DEF Fr, j
    <3>4. QED
      BY <1>2, <3>2, <3>3
  <2>5. QED
    BY <2>3, <2>4
<1>11. \A e \in Desc : frames'[e] = <<>> <=> frames[e] = <<>>
  <2> HIDE DEF k
  <2>1. Len(a) # 0
    BY <1>1, <1>2, <1>3
  <2>2. QED
    BY <1>1, <1>2, <1>5, <2>1, EmptySeq
<1>12. QED
  BY <1>5, <1>9, <1>10, <1>11

(* SwitchTo: the running frame is left at f, and the callback c comes on   *)
(* top of the stack of x.                                                  *)
LEMMA Suspended ==
  ASSUME MTypeOK, NEW w \in Worker, frames[thread[w]] # <<>>, NEW f \in Frame, NEW c \in Frame,
         NEW x \in Desc, x # thread[w], frames[x] # <<>>, SwitchTo(w, x, WithTop(w, f), <<c>>),
         NEW p, p = TopOf(w)
  PROVE  /\ frames' \in [Desc -> Seq(Frame)]
         /\ \A d \in Desc : frames'[d] = <<>> <=> frames[d] = <<>>
         /\ \E n : /\ n \notin Spots /\ n[2] # 1 /\ Spots' = Spots \cup {n} /\ Fr(n)' = c
                   /\ \A q \in Spots : Fr(q)' = IF q = p THEN f ELSE Fr(q)
<1> PICK d \in Desc : d = thread[w]
  BY DEF MTypeOK
<1> PICK l \in Nat : l = Len(frames[x])
  BY LenProperties DEF MTypeOK
<1> DEFINE s == frames[d]
           k == Len(s)
           a == <<f>> \o Tail(s)
           t == frames[x]
           b == <<c>> \o t
           fs == WithTop(w, f)
           n == <<x, l + 1>>
<1>1. s \in Seq(Frame) /\ s # <<>> /\ k \in Nat /\ k # 0 /\ t \in Seq(Frame) /\ l \in Nat /\ l # 0
  BY LenProperties, EmptySeq DEF MTypeOK
<1>2. /\ a \in Seq(Frame) /\ Len(a) = k /\ a[1] = f
      /\ \A i \in 1 .. k : i # 1 => a[i] = s[i]
  BY <1>1, HeadChanges
<1>3. /\ b \in Seq(Frame) /\ Len(b) = l + 1 /\ b[1] = c
      /\ \A i \in 1 .. l : b[i + 1] = t[i]
  BY <1>1, HeadPushed
<1>4. fs = [frames EXCEPT ![d] = a]
  BY DEF WithTop, MTypeOK
<1> HIDE DEF a
<1>5. fs \in [Desc -> Seq(Frame)] /\ fs[d] = a /\ \A e \in Desc : e # d => fs[e] = frames[e]
  <2> HIDE DEF fs
  <2>1. QED
    BY <1>2, <1>4 DEF MTypeOK
<1>6. frames' = [fs EXCEPT ![x] = <<c>> \o fs[x]] /\ fs[x] = t
  <2>1. frames' = [fs EXCEPT ![x] = <<c>> \o @]
    BY DEF SwitchTo
  <2> HIDE DEF fs
  <2>2. fs[x] = frames[x]
    BY <1>5
  <2>3. QED
    BY <1>5, <2>1, <2>2
<1> HIDE DEF fs
<1>7. frames' = [fs EXCEPT ![x] = b]
  BY <1>6
<1> HIDE DEF b
<1>8. /\ frames' \in [Desc -> Seq(Frame)] /\ frames'[d] = a /\ frames'[x] = b /\ d # x
      /\ \A e \in Desc : e # d /\ e # x => frames'[e] = frames[e]
  BY <1>3, <1>5, <1>7
<1>9. /\ Depth(x)' = l + 1 /\ Depth(x) = l /\ Depth(d)' = k /\ Depth(d) = k
      /\ \A e \in Desc : e # x => Depth(e)' = Depth(e)
  BY <1>2, <1>3, <1>8 DEF Depth
<1>10. ASSUME NEW e, NEW j PROVE <<e, j>> \in Spots' <=> <<e, j>> \in Spots \/ <<e, j>> = n
  <2>1. <<e, j>> \in Spots' <=> e \in Desc /\ j \in 1 .. Depth(e)'
    BY DEF Spots
  <2>2. <<e, j>> \in Spots <=> e \in Desc /\ j \in 1 .. Depth(e)
    BY SpotsAre
  <2> HIDE DEF k
  <2>3. j \in 1 .. l + 1 <=> j \in 1 .. l \/ j = l + 1
    BY <1>1
  <2>4. QED
    BY <1>9, <2>1, <2>2, <2>3
<1>11. \A q \in Spots' : q = <<q[1], q[2]>>
  BY DEF Spots
<1>12. Spots' = Spots \cup {n}
  <2>1. \A q \in Spots' : q \in Spots \/ q = n
    BY <1>10, <1>11
  <2>2. \A q \in Spots : q \in Spots'
    BY <1>10, SpotsAre
  <2>3. n \in Spots'
    BY <1>10
  <2>4. QED
    BY <2>1, <2>2, <2>3
<1>13. n \notin Spots /\ n[2] # 1
  <2>1. l + 1 \notin 1 .. l /\ l + 1 # 1
    BY <1>1
  <2>2. QED
    BY <1>9, <2>1, SpotsAre
<1>14. Fr(n)' = c
  <2>1. Fr(n)' = frames'[x][Depth(x)' + 1 - (l + 1)]
    BY DEF Fr
  <2>2. l + 1 + 1 - (l + 1) = 1
    BY <1>1
  <2>3. QED
    BY <1>3, <1>8, <1>9, <2>1, <2>2
<1>15. ASSUME NEW q \in Spots PROVE Fr(q)' = IF q = p THEN f ELSE Fr(q)
  <2>1. q = <<q[1], q[2]>> /\ q[1] \in Desc /\ q[2] \in 1 .. Depth(q[1])
    BY SpotsAre
  <2>2. Fr(q)' = frames'[q[1]][Depth(q[1])' + 1 - q[2]]
    BY DEF Fr
  <2>3. CASE q[1] # d /\ q[1] # x
    <3>1. q # p
      BY <2>3 DEF TopOf
    <3>2. QED
      BY <1>8, <1>9, <2>1, <2>2, <2>3, <3>1 DEF Fr
  <2>4. CASE q[1] = d
    <3> DEFINE j == q[2]
    <3>1. j \in 1 .. k
      BY <1>9, <2>1, <2>4
    <3>2. q = p <=> j = k
      BY <1>9, <2>1, <2>4 DEF TopOf
    <3> HIDE DEF j, k
    <3>3. k + 1 - j \in 1 .. k /\ (k + 1 - j = 1 <=> j = k)
      BY <1>1, <3>1
    <3>4. Fr(q)' = a[k + 1 - j] /\ Fr(q) = s[k + 1 - j]
      BY <1>8, <1>9, <2>2, <2>4 DEF Fr, j
    <3>5. QED
      BY <1>2, <3>2, <3>3, <3>4
  <2>5. CASE q[1] = x
    <3> DEFINE j == q[2]
    <3>1. j \in 1 .. l /\ q # p
      BY <1>8, <1>9, <2>1, <2>5 DEF TopOf
    <3> HIDE DEF j
    <3>2. l + 1 - j \in 1 .. l /\ l + 1 + 1 - j = (l + 1 - j) + 1
      BY <1>1, <3>1
    <3>3. Fr(q)' = b[l + 1 + 1 - j] /\ Fr(q) = t[l + 1 - j]
      BY <1>8, <1>9, <2>2, <2>5 DEF Fr, j
    <3>4. QED
      BY <1>3, <3>1, <3>2, <3>3
  <2>6. QED
    BY <2>3, <2>4, <2>5
<1>16. \A e \in Desc : frames'[e] = <<>> <=> frames[e] = <<>>
  <2>1. Len(b) # 0
    <3>1. QED
      BY <1>1, <1>3
  <2>2. b # <<>> /\ a # <<>>
    BY <1>1, <1>2, <1>3, <2>1, EmptySeq
  <2>3. QED
    BY <1>1, <1>8, <2>2
<1> HIDE DEF n
<1>17. QED
  BY <1>8, <1>12, <1>13, <1>14, <1>15, <1>16

(* ... or no callback does.                                                *)
LEMMA Switched ==
  ASSUME MTypeOK, NEW w \in Worker, NEW x \in Desc, SwitchTo(w, x, frames, <<>>)
  PROVE  frames' = frames
<1>1. frames[x] \in Seq(Frame)
  BY DEF MTypeOK
<1>2. <<>> \o frames[x] = frames[x]
  BY <1>1
<1>3. frames' = [frames EXCEPT ![x] = <<>> \o frames[x]]
  BY DEF SwitchTo, MTypeOK
<1> DEFINE y == <<>> \o frames[x]
<1>4. frames' = [frames EXCEPT ![x] = y] /\ y = frames[x]
  BY <1>2, <1>3
<1> HIDE DEF y
<1>5. \A e \in Desc : frames'[e] = frames[e]
  BY <1>4 DEF MTypeOK
<1>6. frames' \in [Desc -> Seq(Frame)]
  BY <1>1, <1>4 DEF MTypeOK
<1>7. QED
  BY <1>5, <1>6 DEF MTypeOK

(* ExitToSched: the stack of the worker is gone.                           *)
LEMMA Abandoned ==
  ASSUME MTypeOK, NEW w \in Worker, frames[thread[w]] # <<>>,
         ExitToSched(w), NEW p, p = TopOf(w), p[2] = 1
  PROVE  /\ frames' \in [Desc -> Seq(Frame)] /\ Spots' = Spots \ {p}
         /\ \A q \in Spots : q # p => Fr(q)' = Fr(q)
         /\ \A d \in Desc : frames'[d] = <<>> <=> frames[d] = <<>> \/ d = thread[w]
<1> PICK d \in Desc : d = thread[w]
  BY DEF MTypeOK
<1>1. p = <<d, 1>> /\ Depth(d) = 1
  BY DEF TopOf
<1>2. <<>> \in Seq(Frame) /\ Len(<<>>) = 0
  BY EmptySeq
<1>3. frames' \in [Desc -> Seq(Frame)] /\ frames'[d] = <<>>
      /\ \A e \in Desc : e # d => frames'[e] = frames[e]
  <2>1. frames' = [frames EXCEPT ![d] = <<>>]
    BY DEF ExitToSched
  <2>2. QED
    BY <1>2, <2>1 DEF MTypeOK
<1>4. Depth(d)' = 0 /\ \A e \in Desc : e # d => Depth(e)' = Depth(e)
  BY <1>2, <1>3 DEF Depth
<1>5. ASSUME NEW e, NEW j PROVE <<e, j>> \in Spots' <=> <<e, j>> \in Spots /\ <<e, j>> # p
  <2>1. <<e, j>> \in Spots' <=> e \in Desc /\ j \in 1 .. Depth(e)'
    BY DEF Spots
  <2>2. <<e, j>> \in Spots <=> e \in Desc /\ j \in 1 .. Depth(e)
    BY SpotsAre
  <2>3. j \notin 1 .. 0 /\ (j \in 1 .. 1 <=> j = 1)
    OBVIOUS
  <2>4. QED
    BY <1>1, <1>4, <2>1, <2>2, <2>3
<1>6. \A q \in Spots' : q = <<q[1], q[2]>>
  BY DEF Spots
<1>7. Spots' = Spots \ {p}
  <2>1. \A q \in Spots' : q \in Spots /\ q # p
    BY <1>5, <1>6
  <2>2. \A q \in Spots : q # p => q \in Spots'
    BY <1>5, SpotsAre
  <2>3. QED
    BY <2>1, <2>2
<1>8. ASSUME NEW q \in Spots, q # p PROVE Fr(q)' = Fr(q)
  <2>1. q = <<q[1], q[2]>> /\ q[1] \in Desc /\ q[2] \in 1 .. Depth(q[1])
    BY SpotsAre
  <2>2. q[1] # d
    <3>1. q[2] \in 1 .. 1 => q[2] = 1
      OBVIOUS
    <3>2. QED
      BY <1>1, <1>8, <2>1, <3>1
  <2>3. QED
    BY <1>3, <1>4, <2>1, <2>2 DEF Fr
<1>9. QED
  BY <1>3, <1>7, <1>8

-----------------------------------------------------------------------------
(* Frames, and who executes them.                                          *)

(* Workers, tasks, nodes and nobody are different.                         *)
LEMMA Kinds ==
  /\ \A w \in Worker : w \in Desc /\ w \notin Ult /\ w # None
  /\ \A t \in Ult : t \in Desc /\ t \notin Worker /\ t # None
  /\ \A d \in Desc : (d \in Worker \/ d \in Ult) /\ d # None
  /\ \A n \in Node : n # None
BY SchedAssumption, McsAssumption DEF Desc

(* How far a frame can be.                                                 *)
Steps == {"loop", "out", "waited", "in", "drop", "spin", "relock", "publish", "link", "unlock"}

(* A frame at another step is a frame.                                     *)
LEMMA Stepped ==
  ASSUME NEW f \in Frame, NEW s \in Steps
  PROVE  LET g == [f EXCEPT !.step = s]
         IN  /\ g \in Frame /\ g.op = f.op /\ g.who = f.who /\ g.step = s
             /\ g.node = f.node /\ g.prev = f.prev
BY DEF Frame, Steps

(* The fields of a frame.                                                  *)
LEMMA FrameFields ==
  ASSUME NEW f \in Frame
  PROVE  /\ f.op \in {"loop", "task", "lock", "cv"} /\ f.who \in Desc /\ f.step \in Steps
         /\ f.node \in Node \cup {None} /\ f.prev \in Node \cup {None}
BY DEF Frame, Steps

(* What a worker executes.                                                 *)
LEMMA OnTop ==
  ASSUME McsIInv, NEW w \in Worker, NEW p, p = TopOf(w)
  PROVE  /\ frames[thread[w]] # <<>> /\ thread[w] \in Desc
         /\ p \in Spots /\ Fr(p) = Top(w) /\ Top(w) \in Frame /\ p = <<thread[w], p[2]>>
         /\ Top(w).op \in {"task", "loop"} => p[2] = 1 /\ p = <<thread[w], 1>>
         /\ Top(w).op = "task" => thread[w] \in Ult /\ BaseOf(thread[w], Top(w))
         /\ Top(w).op = "loop" => thread[w] = w
         /\ Top(w).op \in {"lock", "cv"} => p[2] # 1 /\ CallbackOf(Top(w))
<1>1. MTypeOK /\ FrameState /\ EachPlaced
  BY DEF McsIInv, Shape
<1>2. thread[w] \in Desc
  BY <1>1 DEF MTypeOK
<1>3. PICK h \in Homes, u \in Worker \cup Node \cup Spots : Placed(thread[w], h, u)
  BY <1>1, <1>2 DEF EachPlaced
<1>4. h = "thread" /\ u = w /\ frames[thread[w]] # <<>>
  BY <1>3 DEF Placed
<1>5. p \in Spots /\ Fr(p) = Top(w) /\ p[1] = thread[w] /\ p = <<thread[w], p[2]>>
  BY <1>1, <1>4, TopIs, SpotsAre
<1>6. Top(w) \in Frame
  BY <1>1, <1>5, FrTyped
<1>7. IF p[2] = 1 THEN BaseOf(thread[w], Top(w)) ELSE CallbackOf(Top(w))
  BY <1>1, <1>5 DEF FrameState
<1>8. BaseOf(thread[w], Top(w)) => Top(w).op = IF thread[w] \in Worker THEN "loop" ELSE "task"
  BY DEF BaseOf, Loop
<1>9. CallbackOf(Top(w)) => Top(w).op \in {"lock", "cv"}
  BY DEF CallbackOf
<1>10. thread[w] \in Worker => thread[w] = w
  BY <1>3, <1>4 DEF Placed
<1>11. QED
  BY <1>2, <1>4, <1>5, <1>6, <1>7, <1>8, <1>9, <1>10, Kinds

-----------------------------------------------------------------------------
(* Tokens.                                                                 *)

(* What a step leaves alone of a token.                                    *)
SamePlace(y) ==
  /\ \A w \in Worker : thread'[w] = y <=> thread[w] = y
  /\ \A w \in Worker : rootCont'[w] = y <=> rootCont[w] = y
  /\ \A w \in Worker : In(main'[w], y) <=> In(main[w], y)
  /\ \A w \in Worker : In(deferred'[w], y) <=> In(deferred[w], y)
  /\ \A p : Publishes(p, y)' <=> Publishes(p, y)
  /\ \A n \in Node : slot'[n] = y <=> slot[n] = y
  /\ y \in cvSlot' <=> y \in cvSlot
  /\ frames'[y] = <<>> <=> frames[y] = <<>>
  /\ y \in saved' <=> y \in saved

(* ... which then stays where it was.                                      *)
LEMMA StaysPlaced ==
  ASSUME NEW y, NEW h \in Homes, NEW u, Placed(y, h, u), SamePlace(y)
  PROVE  Placed(y, h, u)'
<1>1. \A p \in Spots' : Publishes(p, y)' <=> h = "callback" /\ u = p
  BY DEF Placed, SamePlace, Publishes
<1>2. h = "callback" => u \in Spots'
  <2>1. h = "callback" => Publishes(u, y)
    BY DEF Placed
  <2>2. h = "callback" => Publishes(u, y)'
    BY <2>1 DEF SamePlace
  <2>3. QED
    BY <2>2 DEF Publishes
<1>3. QED
  BY <1>1, <1>2 DEF Placed, SamePlace

(* A step that moves the tokens of X.                                      *)
LEMMA OthersStay ==
  ASSUME EachPlaced, NEW X, \A y \in Desc : y \notin X => SamePlace(y),
         \A x \in Desc : x \in X => \E h \in Homes : \E u : Placed(x, h, u)'
  PROVE  EachPlaced'
<1> SUFFICES ASSUME NEW y \in Desc
             PROVE  \E h \in Homes, u \in Worker \cup Node \cup Spots' : Placed(y, h, u)'
  BY DEF EachPlaced
<1>1. \E h \in Homes : \E u : Placed(y, h, u)'
  <2>1. CASE y \in X
    BY <2>1
  <2>2. CASE y \notin X
    BY <2>2, StaysPlaced DEF EachPlaced
  <2>3. QED
    BY <2>1, <2>2
<1>2. PICK h \in Homes : \E u : Placed(y, h, u)'
  BY <1>1
<1>3. PICK u : Placed(y, h, u)'
  BY <1>2
<1>4. u \in Worker \cup Node \cup Spots'
  BY <1>3 DEF Placed, Homes
<1>5. QED
  BY <1>3, <1>4

(* ... one token.                                                          *)
LEMMA OneMoves ==
  ASSUME EachPlaced, NEW x \in Desc, NEW h \in Homes, NEW u, Placed(x, h, u)',
         \A y \in Desc : y # x => SamePlace(y)
  PROVE  EachPlaced'
<1>1. \A y \in Desc : y \notin {x} => SamePlace(y)
  OBVIOUS
<1>2. \A y \in Desc : y \in {x} => \E hh \in Homes : \E uu : Placed(y, hh, uu)'
  OBVIOUS
<1>3. QED
  BY <1>1, <1>2, OthersStay

(* ... two tokens.                                                         *)
LEMMA TwoMove ==
  ASSUME EachPlaced, NEW x \in Desc, NEW h \in Homes, NEW u, Placed(x, h, u)',
         NEW z \in Desc, NEW k \in Homes, NEW v, Placed(z, k, v)',
         \A y \in Desc : y # x /\ y # z => SamePlace(y)
  PROVE  EachPlaced'
<1>1. \A y \in Desc : y \notin {x, z} => SamePlace(y)
  OBVIOUS
<1>2. \A y \in Desc : y \in {x, z} => \E hh \in Homes : \E uu : Placed(y, hh, uu)'
  <2>1. \E hh \in Homes : \E uu : Placed(x, hh, uu)'
    OBVIOUS
  <2>2. \E hh \in Homes : \E uu : Placed(z, hh, uu)'
    OBVIOUS
  <2> SUFFICES ASSUME NEW y \in Desc, y \in {x, z}
               PROVE  \E hh \in Homes : \E uu : Placed(y, hh, uu)'
    OBVIOUS
  <2>3. CASE y = x
    BY <2>1, <2>3
  <2>4. CASE y = z
    BY <2>2, <2>4
  <2>5. QED
    BY <2>3, <2>4
<1>3. QED
  BY <1>1, <1>2, OthersStay

(* ... or none.                                                            *)
LEMMA NoneMoves ==
  ASSUME EachPlaced, \A y \in Desc : SamePlace(y)
  PROVE  EachPlaced'
<1> SUFFICES ASSUME NEW y \in Desc
             PROVE  \E h \in Homes, u \in Worker \cup Node \cup Spots' : Placed(y, h, u)'
  BY DEF EachPlaced
<1>1. PICK h \in Homes, u \in Worker \cup Node \cup Spots : Placed(y, h, u)
  BY DEF EachPlaced
<1>2. Placed(y, h, u)'
  BY <1>1, StaysPlaced
<1>3. u \in Worker \cup Node \cup Spots'
  BY <1>2 DEF Placed, Homes
<1>4. QED
  BY <1>2, <1>3

(* Whoever executes has its token nowhere else.                            *)
LEMMA RunnerPlace ==
  ASSUME EachPlaced, NEW w \in Worker, thread[w] \in Desc, NEW t, t = thread[w]
  PROVE  /\ frames[t] # <<>> /\ t \notin saved /\ t \notin cvSlot
         /\ \A v \in Worker : /\ thread[v] = t <=> v = w
                            /\ rootCont[v] # t /\ ~ In(main[v], t) /\ ~ In(deferred[v], t)
         /\ \A p : ~ Publishes(p, t)
         /\ \A n \in Node : slot[n] # t
<1>1. PICK h \in Homes, u \in Worker \cup Node \cup Spots : Placed(t, h, u)
  BY DEF EachPlaced
<1>2. h = "thread"
  BY <1>1 DEF Placed
<1>3. \A p : ~ Publishes(p, t)
  BY <1>1, <1>2 DEF Placed, Publishes
<1>4. QED
  BY <1>1, <1>2, <1>3 DEF Placed

(* NextOrRoot: what is taken exists, and where it was it is no more.       *)
LEMMA NextTaken ==
  ASSUME McsIInv, NEW w \in Worker, NEW x, x = NextOrRoot(w), x # None
  PROVE  /\ x \in Desc /\ frames[x] # <<>> /\ x \in saved /\ (x \in Worker => x = w)
         /\ \A v \in Worker : thread[v] # x
         /\ \A p : ~ Publishes(p, x)
         /\ \A n \in Node : slot[n] # x
         /\ x \notin cvSlot
         /\ MainLeft(w) \in [Worker -> Seq(Desc)]
         /\ DeferredLeft(w) \in [Worker -> Seq(Desc)]
         /\ RootLeft(w) \in [Worker -> Worker \cup {None}]
         /\ \A v \in Worker : NoTwice(MainLeft(w)[v]) /\ NoTwice(DeferredLeft(w)[v])
         /\ \A v \in Worker, y \in Desc :
              /\ In(MainLeft(w)[v], y) <=> In(main[v], y) /\ y # x
              /\ In(DeferredLeft(w)[v], y) <=> In(deferred[v], y) /\ y # x
              /\ RootLeft(w)[v] = y <=> rootCont[v] = y /\ y # x
<1> DEFINE M == MainLeft(w)
           D == DeferredLeft(w)
           R == RootLeft(w)
<1>1. /\ main \in [Worker -> Seq(Desc)] /\ deferred \in [Worker -> Seq(Desc)]
      /\ rootCont \in [Worker -> Worker \cup {None}]
      /\ \A v \in Worker : NoTwice(main[v]) /\ NoTwice(deferred[v])
      /\ EachPlaced
  BY DEF McsIInv, MTypeOK, NothingTwice
<1>2. /\ M \in [Worker -> Seq(Desc)]
      /\ \A v \in Worker : v # w => M[v] = main[v]
      /\ M[w] = IF main[w] = <<>> THEN main[w] ELSE Front(main[w])
  <2>1. main[w] # <<>> => Front(main[w]) \in Seq(Desc)
    BY <1>1, InFront
  <2>2. QED
    BY <1>1, <2>1 DEF MainLeft
<1>3. /\ D \in [Worker -> Seq(Desc)]
      /\ \A v \in Worker : v # w => D[v] = deferred[v]
      /\ D[w] = IF main[w] # <<>> \/ deferred[w] = <<>> THEN deferred[w] ELSE Tail(deferred[w])
  <2>1. deferred[w] # <<>> => Tail(deferred[w]) \in Seq(Desc)
    BY <1>1, InTail
  <2>2. QED
    BY <1>1, <2>1 DEF DeferredLeft
<1>4. /\ R \in [Worker -> Worker \cup {None}]
      /\ \A v \in Worker : v # w => R[v] = rootCont[v]
      /\ R[w] = IF main[w] = <<>> /\ deferred[w] = <<>> THEN None ELSE rootCont[w]
  BY <1>1 DEF RootLeft
<1> HIDE DEF M, D, R
<1>5. /\ x \in Desc
      /\ \A v \in Worker : NoTwice(M[v]) /\ NoTwice(D[v])
      /\ \/ /\ In(main[w], x)
            /\ \A y : In(M[w], y) <=> In(main[w], y) /\ y # x
            /\ D[w] = deferred[w] /\ R[w] = rootCont[w]
         \/ /\ In(deferred[w], x)
            /\ \A y : In(D[w], y) <=> In(deferred[w], y) /\ y # x
            /\ M[w] = main[w] /\ R[w] = rootCont[w]
         \/ /\ rootCont[w] = x /\ R[w] = None
            /\ M[w] = main[w] /\ D[w] = deferred[w]
  <2>1. CASE main[w] # <<>>
    <3>1. x = Last(main[w])
      BY <2>1 DEF NextOrRoot
    <3>2. main[w] \in Seq(Desc) /\ NoTwice(main[w])
      BY <1>1
    <3>3. x \in Desc /\ In(main[w], x)
      BY <2>1, <3>1, <3>2, InTyped
    <3>4. NoTwice(Front(main[w])) /\ \A y : In(Front(main[w]), y) <=> In(main[w], y) /\ y # x
      BY <2>1, <3>1, <3>2, InFront
    <3>5. M[w] = Front(main[w]) /\ D[w] = deferred[w] /\ R[w] = rootCont[w]
      BY <1>2, <1>3, <1>4, <2>1
    <3>6. \A v \in Worker : NoTwice(M[v]) /\ NoTwice(D[v])
      BY <1>1, <1>2, <1>3, <3>4, <3>5
    <3>7. QED
      BY <3>3, <3>4, <3>5, <3>6
  <2>2. CASE main[w] = <<>> /\ deferred[w] # <<>>
    <3>1. x = Head(deferred[w])
      BY <2>2 DEF NextOrRoot
    <3>2. deferred[w] \in Seq(Desc) /\ NoTwice(deferred[w])
      BY <1>1
    <3>3. x \in Desc /\ In(deferred[w], x)
      BY <2>2, <3>1, <3>2, InTyped
    <3>4. NoTwice(Tail(deferred[w]))
          /\ \A y : In(Tail(deferred[w]), y) <=> In(deferred[w], y) /\ y # x
      BY <2>2, <3>1, <3>2, InTail
    <3>5. M[w] = main[w] /\ D[w] = Tail(deferred[w]) /\ R[w] = rootCont[w]
      BY <1>2, <1>3, <1>4, <2>2
    <3>6. \A v \in Worker : NoTwice(M[v]) /\ NoTwice(D[v])
      BY <1>1, <1>2, <1>3, <3>4, <3>5
    <3>7. QED
      BY <3>3, <3>4, <3>5, <3>6
  <2>3. CASE main[w] = <<>> /\ deferred[w] = <<>>
    <3>1. x = rootCont[w]
      BY <2>3 DEF NextOrRoot
    <3>2. x \in Desc
      BY <1>1, <3>1 DEF Desc
    <3>3. QED
      BY <1>1, <1>2, <1>3, <1>4, <2>3, <3>1, <3>2
  <2>4. QED
    BY <2>1, <2>2, <2>3
<1>6. PICK h \in Homes, u \in Worker \cup Node \cup Spots : Placed(x, h, u)
  BY <1>1, <1>5 DEF EachPlaced
<1>7. h \in {"main", "deferred", "root"} /\ u = w
  BY <1>5, <1>6 DEF Placed
<1>8. /\ frames[x] # <<>> /\ x \in saved /\ (x \in Worker => x = w)
      /\ \A v \in Worker : thread[v] # x
      /\ \A p : ~ Publishes(p, x)
      /\ \A n \in Node : slot[n] # x
      /\ x \notin cvSlot
      /\ \A v \in Worker : v # w => ~ In(main[v], x) /\ ~ In(deferred[v], x) /\ rootCont[v] # x
      /\ In(main[w], x) <=> h = "main"
      /\ In(deferred[w], x) <=> h = "deferred"
      /\ rootCont[w] = x <=> h = "root"
  BY <1>6, <1>7 DEF Placed, Publishes
<1>9. ASSUME NEW v \in Worker, NEW y \in Desc
      PROVE  /\ In(M[v], y) <=> In(main[v], y) /\ y # x
             /\ In(D[v], y) <=> In(deferred[v], y) /\ y # x
             /\ R[v] = y <=> rootCont[v] = y /\ y # x
  <2>1. CASE v # w
    BY <1>2, <1>3, <1>4, <1>8, <2>1
  <2>2. CASE v = w
    BY <1>5, <1>7, <1>8, <2>2, Kinds
  <2>3. QED
    BY <2>1, <2>2
<1>10. QED
  BY <1>2, <1>3, <1>4, <1>5, <1>8, <1>9 DEF M, D, R

-----------------------------------------------------------------------------
(* Switches of StackfulSched.                                              *)

(* The stacks stay.                                                        *)
LEMMA FramesSame ==
  ASSUME frames' = frames
  PROVE  Spots' = Spots /\ \A p \in Spots : Fr(p)' = Fr(p)
BY DEF Spots, Fr, Depth

(* ... and so does what holds of them and the nodes, ...                   *)
LEMMA ShapeCv ==
  ASSUME Shape, Spots' = Spots, \A p \in Spots : Fr(p)' = Fr(p), free' = free, tail' = tail,
         next' = next,
         slot' = slot, CvState'
  PROVE  Shape'
<1>1. FrameState'
  BY DEF Shape, FrameState
<1>2. OwnState'
  BY DEF Shape, OwnState, Live
<1>3. \A t \in Ult, n \in Node : Waited(t, n) => Waited(t, n)'
  BY DEF Waited, Live
<1>4. LockState'
  BY <1>3 DEF Shape, LockState, LinkOf, Live, Waited
<1>5. NextState'
  BY DEF Shape, NextState, Live
<1>6. SlotState'
  BY <1>3 DEF Shape, SlotState, Waited
<1>7. QED
  BY <1>1, <1>2, <1>4, <1>5, <1>6 DEF Shape

(* ... and of the list if that stays too.                                  *)
LEMMA ShapeStays ==
  ASSUME Shape, Spots' = Spots, \A p \in Spots : Fr(p)' = Fr(p), free' = free, tail' = tail,
         next' = next,
         slot' = slot, waiters' = waiters, cvSlot' = cvSlot, cvLock' = cvLock
  PROVE  Shape'
<1>1. CvState'
  BY DEF Shape, CvState
<1>2. QED
  BY <1>1, ShapeCv

(* The switch: x is taken and executed, and the context of t = thread[w]   *)
(* is saved.                                                               *)
LEMMA SwitchPlaces ==
  ASSUME McsIInv, NEW w \in Worker, NEW x \in Desc, \A v \in Worker : thread[v] # x, x \in saved,
         thread' \in [Worker -> Desc], thread'[w] = x,
         \A v \in Worker : v # w => thread'[v] = thread[v],
         \A y : y \in saved' <=> y = thread[w] \/ (y \in saved /\ y # x),
         NEW t, t = thread[w]
  PROVE  /\ thread' \in [Worker -> Desc] /\ saved' \subseteq Desc
         /\ t # x /\ x \notin saved' /\ t \in saved'
         /\ \A v \in Worker : (thread'[v] = x <=> v = w) /\ thread'[v] # t
         /\ \A y \in Desc : y # x /\ y # t =>
              (y \in saved' <=> y \in saved) /\ \A v \in Worker : thread'[v] = y <=> thread[v] = y
<1>1. /\ thread \in [Worker -> Desc] /\ saved \subseteq Desc /\ t \in Desc /\ EachPlaced
  BY DEF McsIInv, MTypeOK
<1>2. \A v \in Worker : v # w => thread[v] # t
  BY <1>1, RunnerPlace
<1>3. QED
  BY <1>1, <1>2

(* The frame at p goes on as f, and c, at n, is above another stack.       *)
Called(p, f, c, n) ==
  /\ n \notin Spots /\ n[2] # 1 /\ Fr(n)' = c
  /\ \A q : q \in Spots' <=> q \in Spots \/ q = n
  /\ \A q \in Spots : Fr(q)' = IF q = p THEN f ELSE Fr(q)

(* SuspendToSched: a task suspends, its token in the hands of the          *)
(* callback.                                                               *)
LEMMA Suspends ==
  ASSUME McsIInv, NEW w \in Worker, Top(w).op = "task", NEW f \in Frame, NEW c \in Frame,
         f.step # "publish", c.step = "publish", c.who = thread[w], SuspendToSched(w, f, c),
         \A n \in Node : slot'[n] = slot[n], cvSlot' = cvSlot, NEW p, p = TopOf(w)
  PROVE  /\ thread' \in [Worker -> Desc] /\ frames' \in [Desc -> Seq(Frame)]
         /\ saved' \subseteq Desc
         /\ main' \in [Worker -> Seq(Desc)] /\ deferred' \in [Worker -> Seq(Desc)]
         /\ rootCont' \in [Worker -> Worker \cup {None}]
         /\ NothingTwice' /\ EachPlaced'
         /\ \E n : Called(p, f, c, n)
<1> PICK t : t = thread[w]
  OBVIOUS
<1> PICK x : x = NextOrRoot(w)
  OBVIOUS
<1>1. x # None /\ SwitchTo(w, x, WithTop(w, f), <<c>>)
      /\ main' = MainLeft(w) /\ deferred' = DeferredLeft(w) /\ rootCont' = RootLeft(w)
  BY DEF SuspendToSched
<1>2. /\ MTypeOK /\ EachPlaced
      /\ frames[t] # <<>> /\ t \in Desc /\ t \in Ult /\ p \in Spots /\ Fr(p) = Top(w)
      /\ BaseOf(t, Top(w))
  BY OnTop DEF McsIInv
<1>3. Fr(p).step # "publish"
  BY <1>2, Kinds DEF BaseOf
<1>4. /\ x \in Desc /\ frames[x] # <<>> /\ x \in saved /\ (x \in Worker => x = w)
      /\ \A v \in Worker : thread[v] # x
      /\ \A q : ~ Publishes(q, x)
      /\ \A n \in Node : slot[n] # x
      /\ x \notin cvSlot
      /\ main' \in [Worker -> Seq(Desc)] /\ deferred' \in [Worker -> Seq(Desc)]
      /\ rootCont' \in [Worker -> Worker \cup {None}]
      /\ \A v \in Worker : NoTwice(main'[v]) /\ NoTwice(deferred'[v])
      /\ \A v \in Worker, y \in Desc :
              /\ In(main'[v], y) <=> In(main[v], y) /\ y # x
              /\ In(deferred'[v], y) <=> In(deferred[v], y) /\ y # x
              /\ rootCont'[v] = y <=> rootCont[v] = y /\ y # x
  BY <1>1, NextTaken
<1>5. /\ thread' \in [Worker -> Desc] /\ saved' \subseteq Desc
      /\ t # x /\ x \notin saved' /\ t \in saved'
      /\ \A v \in Worker : (thread'[v] = x <=> v = w) /\ thread'[v] # t
      /\ \A y \in Desc : y # x /\ y # t =>
              (y \in saved' <=> y \in saved) /\ \A v \in Worker : thread'[v] = y <=> thread[v] = y
  <2>1. thread' \in [Worker -> Desc] /\ thread'[w] = x
        /\ \A v \in Worker : v # w => thread'[v] = thread[v]
    BY <1>1, <1>2, <1>4 DEF SwitchTo, MTypeOK
  <2>2. \A y : y \in saved' <=> y = thread[w] \/ (y \in saved /\ y # x)
    BY <1>1 DEF SwitchTo
  <2>3. x \in Desc /\ x \in saved /\ \A v \in Worker : thread[v] # x
    BY <1>4
  <2>4. QED
    BY <2>1, <2>2, <2>3, SwitchPlaces
<1>6. /\ frames' \in [Desc -> Seq(Frame)]
      /\ \A d \in Desc : frames'[d] = <<>> <=> frames[d] = <<>>
      /\ \E n : /\ n \notin Spots /\ n[2] # 1 /\ Spots' = Spots \cup {n} /\ Fr(n)' = c
                /\ \A q \in Spots : Fr(q)' = IF q = p THEN f ELSE Fr(q)
  <2>1. MTypeOK /\ frames[thread[w]] # <<>> /\ x \in Desc /\ x # thread[w] /\ frames[x] # <<>>
        /\ SwitchTo(w, x, WithTop(w, f), <<c>>)
    BY <1>1, <1>2, <1>4
  <2>2. QED
    BY <2>1, Suspended
<1>7. PICK n : /\ n \notin Spots /\ n[2] # 1 /\ Spots' = Spots \cup {n} /\ Fr(n)' = c
               /\ \A q \in Spots : Fr(q)' = IF q = p THEN f ELSE Fr(q)
  BY <1>6
<1>8. \A q, y : Publishes(q, y)' <=> Publishes(q, y) \/ (q = n /\ y = t)
  BY <1>3, <1>7 DEF Publishes
<1>9. \A y \in Desc : y # x /\ y # t => SamePlace(y)
  BY <1>4, <1>5, <1>6, <1>8 DEF SamePlace
<1>10. Placed(x, "thread", w)'
  <2>1. \A q : ~ Publishes(q, x)'
    BY <1>4, <1>5, <1>8
  <2>2. frames'[x] # <<>> /\ (\A m \in Node : slot'[m] # x) /\ x \notin cvSlot'
    BY <1>4, <1>6
  <2>3. QED
    BY <1>4, <1>5, <2>1, <2>2 DEF Placed
<1>11. Placed(t, "callback", n)'
  <2>1. /\ frames[t] # <<>> /\ t \notin cvSlot
        /\ \A v \in Worker : rootCont[v] # t /\ ~ In(main[v], t) /\ ~ In(deferred[v], t)
        /\ \A q : ~ Publishes(q, t)
        /\ \A m \in Node : slot[m] # t
    BY <1>2, RunnerPlace
  <2>2. t \notin Worker /\ n \in Spots'
    BY <1>2, <1>7, Kinds
  <2>3. \A v \in Worker :
            thread'[v] # t /\ rootCont'[v] # t /\ ~ In(main'[v], t) /\ ~ In(deferred'[v], t)
    BY <1>2, <1>4, <1>5, <2>1
  <2>4. \A q : Publishes(q, t)' <=> q = n
    BY <1>8, <2>1
  <2>5. frames'[t] # <<>> /\ t \notin cvSlot' /\ \A m \in Node : slot'[m] # t
    BY <1>2, <1>6, <2>1
  <2>6. QED
    BY <1>5, <2>2, <2>3, <2>4, <2>5 DEF Placed
<1>12. EachPlaced'
  BY <1>2, <1>4, <1>9, <1>10, <1>11, TwoMove DEF Homes
<1>13. NothingTwice'
  BY <1>4 DEF NothingTwice
<1>14. Called(p, f, c, n)
  BY <1>7 DEF Called
<1>15. QED
  BY <1>4, <1>5, <1>6, <1>12, <1>13, <1>14

(* YieldNow: the token of the task that executes is deferred.              *)
LEMMA Yields ==
  ASSUME McsIInv, NEW w \in Worker, Top(w).op = "task", YieldNow(w), mcs' = mcs
  PROVE  McsIInv'
<1> PICK t : t = thread[w]
  OBVIOUS
<1> PICK x : x = NextOrRoot(w)
  OBVIOUS
<1> DEFINE D == DeferredLeft(w)
<1>1. x # None /\ SwitchTo(w, x, frames, <<>>)
      /\ main' = MainLeft(w) /\ deferred' = [D EXCEPT ![w] = Append(@, t)]
      /\ rootCont' = RootLeft(w)
  BY DEF YieldNow
<1>2. /\ MTypeOK /\ EachPlaced /\ Shape
      /\ frames[t] # <<>> /\ t \in Desc /\ t \in Ult
  BY OnTop DEF McsIInv
<1>4. /\ x \in Desc /\ frames[x] # <<>> /\ x \in saved /\ (x \in Worker => x = w)
      /\ \A v \in Worker : thread[v] # x
      /\ \A q : ~ Publishes(q, x)
      /\ \A n \in Node : slot[n] # x
      /\ x \notin cvSlot
      /\ main' \in [Worker -> Seq(Desc)] /\ D \in [Worker -> Seq(Desc)]
      /\ rootCont' \in [Worker -> Worker \cup {None}]
      /\ \A v \in Worker : NoTwice(main'[v]) /\ NoTwice(D[v])
      /\ \A v \in Worker, y \in Desc :
              /\ In(main'[v], y) <=> In(main[v], y) /\ y # x
              /\ In(D[v], y) <=> In(deferred[v], y) /\ y # x
              /\ rootCont'[v] = y <=> rootCont[v] = y /\ y # x
  BY <1>1, NextTaken
<1> HIDE DEF D
<1>5. /\ thread' \in [Worker -> Desc] /\ saved' \subseteq Desc
      /\ t # x /\ x \notin saved' /\ t \in saved'
      /\ \A v \in Worker : (thread'[v] = x <=> v = w) /\ thread'[v] # t
      /\ \A y \in Desc : y # x /\ y # t =>
              (y \in saved' <=> y \in saved) /\ \A v \in Worker : thread'[v] = y <=> thread[v] = y
  <2>1. thread' \in [Worker -> Desc] /\ thread'[w] = x
        /\ \A v \in Worker : v # w => thread'[v] = thread[v]
    BY <1>1, <1>2, <1>4 DEF SwitchTo, MTypeOK
  <2>2. \A y : y \in saved' <=> y = thread[w] \/ (y \in saved /\ y # x)
    BY <1>1 DEF SwitchTo
  <2>3. x \in Desc /\ x \in saved /\ \A v \in Worker : thread[v] # x
    BY <1>4
  <2>4. QED
    BY <2>1, <2>2, <2>3, SwitchPlaces
<1>6. frames' = frames
  BY <1>1, <1>2, <1>4, Switched
<1>7. Spots' = Spots /\ \A q \in Spots : Fr(q)' = Fr(q)
  BY <1>6, FramesSame
<1>8. \A q, y : Publishes(q, y)' <=> Publishes(q, y)
  BY <1>7 DEF Publishes
<1>10. /\ frames[t] # <<>> /\ t \notin cvSlot
       /\ \A v \in Worker : rootCont[v] # t /\ ~ In(main[v], t) /\ ~ In(deferred[v], t)
       /\ \A q : ~ Publishes(q, t)
       /\ \A m \in Node : slot[m] # t
  BY <1>2, RunnerPlace
<1>11. \A v \in Worker : ~ In(D[v], t)
  BY <1>2, <1>4, <1>10
<1>12. /\ deferred' \in [Worker -> Seq(Desc)]
       /\ \A v \in Worker : NoTwice(deferred'[v])
       /\ \A v \in Worker, y \in Desc : In(deferred'[v], y) <=>
              (In(deferred[v], y) /\ y # x) \/ (v = w /\ y = t)
  <2>1. /\ Append(D[w], t) \in Seq(Desc) /\ NoTwice(Append(D[w], t))
        /\ \A y : In(Append(D[w], t), y) <=> In(D[w], y) \/ y = t
    BY <1>2, <1>4, <1>11, InAppend
  <2>2. /\ deferred' \in [Worker -> Seq(Desc)] /\ deferred'[w] = Append(D[w], t)
        /\ \A v \in Worker : v # w => deferred'[v] = D[v]
    BY <1>1, <1>4, <2>1
  <2>3. ASSUME NEW v \in Worker, NEW y \in Desc
        PROVE  In(deferred'[v], y) <=> (In(deferred[v], y) /\ y # x) \/ (v = w /\ y = t)
    <3>1. In(D[v], y) <=> In(deferred[v], y) /\ y # x
      BY <1>4
    <3>2. QED
      BY <2>1, <2>2, <3>1
  <2>4. \A v \in Worker : NoTwice(deferred'[v])
    BY <1>4, <2>1, <2>2
  <2>5. QED
    BY <2>2, <2>3, <2>4
<1>13. slot' = slot /\ cvSlot' = cvSlot
  BY DEF mcs
<1>14. \A y \in Desc : y # x /\ y # t => SamePlace(y)
  BY <1>4, <1>5, <1>6, <1>8, <1>12, <1>13 DEF SamePlace
<1>15. Placed(x, "thread", w)'
  BY <1>4, <1>5, <1>6, <1>7, <1>8, <1>12, <1>13 DEF Placed
<1>16. Placed(t, "deferred", w)'
  <2>1. t \notin Worker
    BY <1>2, Kinds
  <2>2. \A v \in Worker : thread'[v] # t /\ rootCont'[v] # t /\ ~ In(main'[v], t)
    BY <1>2, <1>4, <1>5, <1>10
  <2>3. \A v \in Worker : In(deferred'[v], t) <=> v = w
    BY <1>2, <1>10, <1>12
  <2>4. QED
    BY <1>5, <1>6, <1>8, <1>10, <1>13, <2>1, <2>2, <2>3 DEF Placed
<1>17. EachPlaced'
  BY <1>2, <1>4, <1>14, <1>15, <1>16, TwoMove DEF Homes
<1>18. NothingTwice'
  BY <1>4, <1>12 DEF NothingTwice
<1>19. Shape'
  BY <1>2, <1>7, ShapeStays DEF mcs
<1>20. MTypeOK'
  BY <1>2, <1>4, <1>5, <1>6, <1>12 DEF MTypeOK, mcs
<1>21. QED
  BY <1>17, <1>18, <1>19, <1>20 DEF McsIInv

(* A task without a node leaves.                                           *)
LEMMA ShapeExits ==
  ASSUME Shape, NEW p \in Spots, Spots' = Spots \ {p}, \A q \in Spots : q # p => Fr(q)' = Fr(q),
         Fr(p).step = "out", free' = free, tail' = tail, next' = next,
         slot' = slot, waiters' = waiters, cvSlot' = cvSlot, cvLock' = cvLock
  PROVE  Shape'
<1>1. FrameState'
  BY DEF Shape, FrameState
<1>2. OwnState'
  BY DEF Shape, OwnState, Live
<1>3. \A t \in Ult, n \in Node : Waited(t, n) => Waited(t, n)'
  BY DEF Waited, Live
<1>4. LockState'
  BY <1>3 DEF Shape, LockState, LinkOf, Live, Waited
<1>5. NextState'
  BY DEF Shape, NextState, Live
<1>6. SlotState'
  BY <1>3 DEF Shape, SlotState, Waited
<1>7. CvState'
  BY DEF Shape, CvState
<1>8. QED
  BY <1>1, <1>2, <1>4, <1>5, <1>6, <1>7 DEF Shape

(* Exit.                                                                   *)
LEMMA Exits ==
  ASSUME McsIInv, NEW w \in Worker, Exit(w)
  PROVE  McsIInv'
<1> PICK t : t = thread[w]
  OBVIOUS
<1> PICK x : x = NextOrRoot(w)
  OBVIOUS
<1> PICK p : p = TopOf(w)
  OBVIOUS
<1>1. /\ Top(w).op = "task" /\ Top(w).step = "out" /\ ExitToSched(w) /\ mcs' = mcs
      /\ x # None /\ main' = MainLeft(w) /\ deferred' = DeferredLeft(w) /\ rootCont' = RootLeft(w)
  BY DEF Exit, AtTask, ExitToSched
<1>2. /\ MTypeOK /\ EachPlaced /\ Shape
      /\ frames[t] # <<>> /\ t \in Desc /\ t \in Ult
      /\ p \in Spots /\ p[2] = 1 /\ Fr(p).step = "out"
  BY <1>1, OnTop DEF McsIInv
<1>4. /\ x \in Desc /\ frames[x] # <<>> /\ x \in saved /\ (x \in Worker => x = w)
      /\ \A v \in Worker : thread[v] # x
      /\ \A q : ~ Publishes(q, x)
      /\ \A n \in Node : slot[n] # x
      /\ x \notin cvSlot
      /\ main' \in [Worker -> Seq(Desc)] /\ deferred' \in [Worker -> Seq(Desc)]
      /\ rootCont' \in [Worker -> Worker \cup {None}]
      /\ \A v \in Worker : NoTwice(main'[v]) /\ NoTwice(deferred'[v])
      /\ \A v \in Worker, y \in Desc :
              /\ In(main'[v], y) <=> In(main[v], y) /\ y # x
              /\ In(deferred'[v], y) <=> In(deferred[v], y) /\ y # x
              /\ rootCont'[v] = y <=> rootCont[v] = y /\ y # x
  BY <1>1, NextTaken
<1>5. /\ frames[t] # <<>> /\ t \notin saved /\ t \notin cvSlot
      /\ \A v \in Worker : /\ thread[v] = t <=> v = w
                         /\ rootCont[v] # t /\ ~ In(main[v], t) /\ ~ In(deferred[v], t)
      /\ \A q : ~ Publishes(q, t)
      /\ \A n \in Node : slot[n] # t
  BY <1>2, RunnerPlace
<1>6. /\ thread' \in [Worker -> Desc] /\ thread'[w] = x
      /\ \A v \in Worker : v # w => thread'[v] = thread[v]
  BY <1>1, <1>2, <1>4 DEF ExitToSched, MTypeOK
<1>7. \A y : y \in saved' <=> y \in saved /\ y # x
  BY <1>1 DEF ExitToSched
<1>8. /\ frames' \in [Desc -> Seq(Frame)] /\ Spots' = Spots \ {p}
      /\ \A q \in Spots : q # p => Fr(q)' = Fr(q)
      /\ \A d \in Desc : frames'[d] = <<>> <=> frames[d] = <<>> \/ d = thread[w]
  BY <1>1, <1>2, Abandoned
<1>9. \A q, y : Publishes(q, y)' <=> Publishes(q, y)
  BY <1>2, <1>8 DEF Publishes
<1>10. slot' = slot /\ cvSlot' = cvSlot
  BY <1>1 DEF mcs
<1>11. t # x /\ \A v \in Worker : (thread'[v] = x <=> v = w) /\ thread'[v] # t
  <2>1. (\A v \in Worker : thread[v] # x) /\ \A v \in Worker : thread[v] = t <=> v = w
    BY <1>4, <1>5
  <2>2. QED
    BY <1>6, <2>1
<1>12. \A y \in Desc : y # x /\ y # t => SamePlace(y)
  BY <1>4, <1>6, <1>7, <1>8, <1>9, <1>10 DEF SamePlace
<1>13. Placed(x, "thread", w)'
  BY <1>4, <1>5, <1>7, <1>8, <1>9, <1>10, <1>11 DEF Placed
<1>14. Placed(t, "gone", w)'
  <2>1. t \notin Worker
    BY <1>2, Kinds
  <2>2. \A v \in Worker : rootCont'[v] # t /\ ~ In(main'[v], t) /\ ~ In(deferred'[v], t)
    BY <1>2, <1>4, <1>5
  <2>3. frames'[t] = <<>> /\ t \notin saved'
    BY <1>2, <1>5, <1>7, <1>8
  <2>4. QED
    BY <1>5, <1>9, <1>10, <1>11, <2>1, <2>2, <2>3 DEF Placed
<1>15. EachPlaced'
  BY <1>2, <1>4, <1>12, <1>13, <1>14, TwoMove DEF Homes
<1>16. NothingTwice'
  BY <1>4 DEF NothingTwice
<1>17. Shape'
  BY <1>1, <1>2, <1>8, ShapeExits DEF mcs
<1>18. MTypeOK'
  <2>1. saved' \subseteq Desc
    BY <1>2, <1>7 DEF MTypeOK
  <2>2. QED
    BY <1>1, <1>2, <1>4, <1>6, <1>8, <2>1 DEF MTypeOK, mcs
<1>19. QED
  BY <1>15, <1>16, <1>17, <1>18 DEF McsIInv

(* A task in a queue is nowhere else.                                      *)
LEMMA QueuedPlace ==
  ASSUME EachPlaced, NEW v \in Worker, NEW x \in Desc, In(main[v], x) \/ In(deferred[v], x)
  PROVE  /\ x \in Ult /\ frames[x] # <<>> /\ x \in saved /\ x \notin cvSlot
         /\ \A u \in Worker : thread[u] # x /\ rootCont[u] # x
         /\ \A u \in Worker : In(main[u], x) <=> u = v /\ In(main[v], x)
         /\ \A u \in Worker : In(deferred[u], x) <=> u = v /\ In(deferred[v], x)
         /\ ~ (In(main[v], x) /\ In(deferred[v], x))
         /\ \A p : ~ Publishes(p, x)
         /\ \A n \in Node : slot[n] # x
<1>1. PICK h \in Homes, u \in Worker \cup Node \cup Spots : Placed(x, h, u)
  BY DEF EachPlaced
<1>2. h \in {"main", "deferred"} /\ u = v
  BY <1>1 DEF Placed
<1>3. \A p : ~ Publishes(p, x)
  BY <1>1, <1>2 DEF Placed, Publishes
<1>4. QED
  BY <1>1, <1>2, <1>3, Kinds DEF Placed

(* RunOn: the scheduler loop switches to a task that it took from a queue, *)
(* and the root goes to root_cont.                                         *)
LEMMA RunsOn ==
  ASSUME McsIInv, NEW w \in Worker, Idle(w), NEW x \in Ult, RunOn(w, x), mcs' = mcs,
         NEW v \in Worker, In(main[v], x) \/ In(deferred[v], x),
         main' \in [Worker -> Seq(Desc)], deferred' \in [Worker -> Seq(Desc)],
         \A u \in Worker : NoTwice(main'[u]) /\ NoTwice(deferred'[u]),
         \A u \in Worker, y \in Desc :
              /\ In(main'[u], y) <=> In(main[u], y) /\ y # x
              /\ In(deferred'[u], y) <=> In(deferred[u], y) /\ y # x
  PROVE  McsIInv'
<1>1. /\ MTypeOK /\ EachPlaced /\ Shape /\ thread[w] = w /\ w \in Desc /\ x \in Desc
  BY OnTop, Kinds DEF McsIInv, Idle
<1>2. /\ frames[x] # <<>> /\ x \in saved /\ x \notin cvSlot
      /\ \A u \in Worker : thread[u] # x /\ rootCont[u] # x
      /\ \A q : ~ Publishes(q, x)
      /\ \A n \in Node : slot[n] # x
  BY <1>1, QueuedPlace
<1>3. /\ frames[w] # <<>> /\ w \notin saved /\ w \notin cvSlot
      /\ \A u \in Worker : rootCont[u] # w /\ ~ In(main[u], w) /\ ~ In(deferred[u], w)
      /\ \A q : ~ Publishes(q, w)
      /\ \A n \in Node : slot[n] # w
  <2> PICK t : t = thread[w]
    OBVIOUS
  <2>1. /\ frames[t] # <<>> /\ t \notin saved /\ t \notin cvSlot
        /\ \A u \in Worker : rootCont[u] # t /\ ~ In(main[u], t) /\ ~ In(deferred[u], t)
        /\ \A q : ~ Publishes(q, t)
        /\ \A n \in Node : slot[n] # t
    <3>1. EachPlaced /\ thread[w] \in Desc
      BY <1>1
    <3>2. QED
      BY <3>1, RunnerPlace
  <2>2. t = w
    BY <1>1
  <2>3. QED
    BY <2>1, <2>2
<1>4. SwitchTo(w, x, frames, <<>>) /\ rootCont' = [rootCont EXCEPT ![w] = w]
  BY DEF RunOn
<1>5. /\ thread' \in [Worker -> Desc] /\ saved' \subseteq Desc
      /\ w # x /\ x \notin saved' /\ w \in saved'
      /\ \A u \in Worker : (thread'[u] = x <=> u = w) /\ thread'[u] # w
      /\ \A y \in Desc : y # x /\ y # w =>
              (y \in saved' <=> y \in saved) /\ \A u \in Worker : thread'[u] = y <=> thread[u] = y
  <2>1. thread' \in [Worker -> Desc] /\ thread'[w] = x
        /\ \A u \in Worker : u # w => thread'[u] = thread[u]
    BY <1>1, <1>4 DEF SwitchTo, MTypeOK
  <2>2. \A y : y \in saved' <=> y = thread[w] \/ (y \in saved /\ y # x)
    BY <1>4 DEF SwitchTo
  <2>3. x \in Desc /\ x \in saved /\ \A u \in Worker : thread[u] # x
    BY <1>1, <1>2
  <2> PICK t : t = thread[w]
    OBVIOUS
  <2>4. /\ thread' \in [Worker -> Desc] /\ saved' \subseteq Desc
        /\ t # x /\ x \notin saved' /\ t \in saved'
        /\ \A u \in Worker : (thread'[u] = x <=> u = w) /\ thread'[u] # t
        /\ \A y \in Desc : y # x /\ y # t =>
                (y \in saved' <=> y \in saved)
                /\ \A u \in Worker : thread'[u] = y <=> thread[u] = y
    BY <2>1, <2>2, <2>3, SwitchPlaces
  <2>5. t = w
    BY <1>1
  <2>6. QED
    BY <2>4, <2>5
<1>6. frames' = frames
  BY <1>1, <1>4, Switched
<1>7. Spots' = Spots /\ \A q \in Spots : Fr(q)' = Fr(q)
  BY <1>6, FramesSame
<1>8. \A q, y : Publishes(q, y)' <=> Publishes(q, y)
  BY <1>7 DEF Publishes
<1>9. slot' = slot /\ cvSlot' = cvSlot
  BY DEF mcs
<1>10. /\ rootCont' \in [Worker -> Worker \cup {None}] /\ rootCont'[w] = w
       /\ \A u \in Worker : u # w => rootCont'[u] = rootCont[u]
  BY <1>1, <1>4 DEF MTypeOK
<1>11. rootCont[w] \notin Desc
  <2>1. rootCont[w] \in Worker \cup {None}
    BY <1>1 DEF MTypeOK
  <2>2. CASE rootCont[w] \in Worker
    <3>1. PICK z \in Desc : z = rootCont[w]
      BY <2>2, Kinds
    <3>2. PICK h \in Homes, u \in Worker \cup Node \cup Spots : Placed(z, h, u)
      BY <1>1 DEF EachPlaced
    <3>3. z = w
      BY <2>2, <3>1, <3>2 DEF Placed
    <3>4. QED
      BY <1>3, <3>1, <3>3
  <2>3. QED
    BY <2>1, <2>2, Kinds
<1>12. \A u \in Worker, y \in Desc : y # w => (rootCont'[u] = y <=> rootCont[u] = y)
  BY <1>10, <1>11
<1>13. \A u \in Worker : rootCont'[u] = w <=> u = w
  BY <1>3, <1>10
<1>14. \A y \in Desc : y # x /\ y # w => SamePlace(y)
  BY <1>5, <1>6, <1>8, <1>9, <1>12 DEF SamePlace
<1>15. Placed(x, "thread", w)'
  <2>1. \A u \in Worker : rootCont'[u] # x /\ ~ In(main'[u], x) /\ ~ In(deferred'[u], x)
    BY <1>1, <1>2, <1>5, <1>12
  <2>2. x \notin Worker
    BY Kinds
  <2>3. QED
    BY <1>2, <1>5, <1>6, <1>8, <1>9, <2>1, <2>2 DEF Placed
<1>16. Placed(w, "root", w)'
  <2>1. \A u \in Worker : ~ In(main'[u], w) /\ ~ In(deferred'[u], w)
    BY <1>1, <1>3
  <2>2. QED
    BY <1>3, <1>5, <1>6, <1>8, <1>9, <1>13, <2>1 DEF Placed
<1>17. EachPlaced'
  BY <1>1, <1>14, <1>15, <1>16, TwoMove DEF Homes
<1>18. NothingTwice'
  BY DEF NothingTwice
<1>19. Shape'
  BY <1>1, <1>7, ShapeStays DEF mcs
<1>20. MTypeOK'
  BY <1>1, <1>5, <1>6, <1>10 DEF MTypeOK, mcs
<1>21. QED
  BY <1>17, <1>18, <1>19, <1>20 DEF McsIInv

(* RunLocal.                                                               *)
LEMMA RunLocals ==
  ASSUME McsIInv, NEW w \in Worker, RunLocal(w), mcs' = mcs
  PROVE  McsIInv'
<1> PICK x : x = NextOrRoot(w)
  OBVIOUS
<1>1. /\ Idle(w) /\ RunOn(w, x) /\ main' = MainLeft(w) /\ deferred' = DeferredLeft(w)
      /\ main[w] # <<>> \/ deferred[w] # <<>>
  BY DEF RunLocal
<1>2. /\ main[w] \in Seq(Desc) /\ deferred[w] \in Seq(Desc) /\ EachPlaced
  BY DEF McsIInv, MTypeOK
<1>3. x \in Desc /\ (In(main[w], x) \/ In(deferred[w], x))
  <2>1. CASE main[w] # <<>>
    <3>1. x = Last(main[w])
      BY <2>1 DEF NextOrRoot
    <3>2. QED
      BY <1>2, <2>1, <3>1, InTyped
  <2>2. CASE main[w] = <<>>
    <3>1. x = Head(deferred[w]) /\ deferred[w] # <<>>
      BY <1>1, <2>2 DEF NextOrRoot
    <3>2. QED
      BY <1>2, <3>1, InTyped
  <2>3. QED
    BY <2>1, <2>2
<1>4. x \in Ult /\ x # None
  BY <1>2, <1>3, QueuedPlace, Kinds
<1>5. /\ main' \in [Worker -> Seq(Desc)] /\ deferred' \in [Worker -> Seq(Desc)]
      /\ \A v \in Worker : NoTwice(main'[v]) /\ NoTwice(deferred'[v])
      /\ \A v \in Worker, y \in Desc :
              /\ In(main'[v], y) <=> In(main[v], y) /\ y # x
              /\ In(deferred'[v], y) <=> In(deferred[v], y) /\ y # x
  BY <1>1, <1>4, NextTaken
<1>6. QED
  BY <1>1, <1>3, <1>4, <1>5, RunsOn

(* RunStolen.                                                              *)
LEMMA RunStolens ==
  ASSUME McsIInv, NEW w \in Worker, NEW v \in Worker, RunStolen(w, v), mcs' = mcs
  PROVE  McsIInv'
<1>1. /\ MTypeOK /\ EachPlaced
      /\ main[v] \in Seq(Desc) /\ deferred[v] \in Seq(Desc) /\ NoTwice(main[v])
      /\ NoTwice(deferred[v])
      /\ \A u \in Worker : NoTwice(main[u]) /\ NoTwice(deferred[u])
  BY DEF McsIInv, MTypeOK, NothingTwice
<1>2. ASSUME deferred[v] # <<>>, RunOn(w, Head(deferred[v])),
             deferred' = [deferred EXCEPT ![v] = Tail(@)],
             main' = main, Idle(w)
      PROVE  McsIInv'
  <2> PICK x : x = Head(deferred[v])
    OBVIOUS
  <2>1. /\ x \in Desc /\ In(deferred[v], x) /\ Tail(deferred[v]) \in Seq(Desc)
        /\ NoTwice(Tail(deferred[v]))
        /\ \A y : In(Tail(deferred[v]), y) <=> In(deferred[v], y) /\ y # x
    BY <1>1, <1>2, InTail, InTyped
  <2>2. /\ x \in Ult /\ \A u \in Worker : ~ In(main[u], x) /\ (In(deferred[u], x) => u = v)
    BY <1>1, <2>1, QueuedPlace
  <2>3. /\ deferred' \in [Worker -> Seq(Desc)] /\ deferred'[v] = Tail(deferred[v])
        /\ \A u \in Worker : u # v => deferred'[u] = deferred[u]
    BY <1>1, <1>2, <2>1 DEF MTypeOK
  <2>4. /\ \A u \in Worker : NoTwice(main'[u]) /\ NoTwice(deferred'[u])
        /\ main' \in [Worker -> Seq(Desc)]
    BY <1>1, <1>2, <2>1, <2>3 DEF MTypeOK
  <2>5. ASSUME NEW u \in Worker, NEW y \in Desc
        PROVE  /\ In(main'[u], y) <=> In(main[u], y) /\ y # x
               /\ In(deferred'[u], y) <=> In(deferred[u], y) /\ y # x
    BY <1>2, <2>1, <2>2, <2>3
  <2>6. RunOn(w, x)
    BY <1>2
  <2>7. QED
    BY <1>2, <2>1, <2>2, <2>3, <2>4, <2>5, <2>6, RunsOn
<1>3. ASSUME main[v] # <<>>, RunOn(w, Head(main[v])), main' = [main EXCEPT ![v] = Tail(@)],
             deferred' = deferred, Idle(w)
      PROVE  McsIInv'
  <2> PICK x : x = Head(main[v])
    OBVIOUS
  <2>1. /\ x \in Desc /\ In(main[v], x) /\ Tail(main[v]) \in Seq(Desc) /\ NoTwice(Tail(main[v]))
        /\ \A y : In(Tail(main[v]), y) <=> In(main[v], y) /\ y # x
    BY <1>1, <1>3, InTail, InTyped
  <2>2. /\ x \in Ult /\ \A u \in Worker : ~ In(deferred[u], x) /\ (In(main[u], x) => u = v)
    BY <1>1, <2>1, QueuedPlace
  <2>3. /\ main' \in [Worker -> Seq(Desc)] /\ main'[v] = Tail(main[v])
        /\ \A u \in Worker : u # v => main'[u] = main[u]
    BY <1>1, <1>3, <2>1 DEF MTypeOK
  <2>4. /\ \A u \in Worker : NoTwice(main'[u]) /\ NoTwice(deferred'[u])
        /\ deferred' \in [Worker -> Seq(Desc)]
    BY <1>1, <1>3, <2>1, <2>3 DEF MTypeOK
  <2>5. ASSUME NEW u \in Worker, NEW y \in Desc
        PROVE  /\ In(main'[u], y) <=> In(main[u], y) /\ y # x
               /\ In(deferred'[u], y) <=> In(deferred[u], y) /\ y # x
    BY <1>3, <2>1, <2>2, <2>3
  <2>6. RunOn(w, x)
    BY <1>3
  <2>7. QED
    BY <1>3, <2>1, <2>2, <2>3, <2>4, <2>5, <2>6, RunsOn
<1>4. QED
  BY <1>2, <1>3 DEF RunStolen

-----------------------------------------------------------------------------
(* Frames that go on.                                                      *)

(* The running frame goes on.                                              *)
LEMMA Advances ==
  ASSUME McsIInv, NEW w \in Worker, NEW s \in Steps, Advance(w, s), NEW p, p = TopOf(w),
         NEW f, f = Top(w)
  PROVE  \E g \in Frame :
           /\ g.op = f.op /\ g.who = f.who /\ g.step = s /\ g.node = f.node /\ g.prev = f.prev
           /\ frames' \in [Desc -> Seq(Frame)] /\ Spots' = Spots
           /\ \A q \in Spots : Fr(q)' = IF q = p THEN g ELSE Fr(q)
           /\ \A d \in Desc : frames'[d] = <<>> <=> frames[d] = <<>>
           /\ thread' = thread
<1>1. MTypeOK /\ frames[thread[w]] # <<>> /\ f \in Frame
  BY OnTop DEF McsIInv
<1> PICK g : g = [f EXCEPT !.step = s]
  OBVIOUS
<1>2. g \in Frame /\ g.op = f.op /\ g.who = f.who /\ g.step = s /\ g.node = f.node
      /\ g.prev = f.prev
  BY <1>1, Stepped
<1>3. frames' = WithTop(w, g) /\ thread' = thread
  BY DEF Advance
<1>4. /\ frames' \in [Desc -> Seq(Frame)] /\ Spots' = Spots
      /\ \A q \in Spots : Fr(q)' = IF q = p THEN g ELSE Fr(q)
      /\ \A d \in Desc : frames'[d] = <<>> <=> frames[d] = <<>>
  BY <1>1, <1>2, <1>3, Retopped
<1>5. QED
  BY <1>2, <1>3, <1>4

(* A frame goes on, and nothing but itself depends on how far it is.       *)
LEMMA ShapeAdvances ==
  ASSUME Shape, NEW p \in Spots, Spots' = Spots, NEW g, NEW f, f = Fr(p),
         \A q \in Spots : Fr(q)' = IF q = p THEN g ELSE Fr(q),
         g.op = f.op, g.op \in {"task", "cv"}, g.node = f.node,
         IF p[2] = 1 THEN BaseOf(p[1], g) ELSE CallbackOf(g),
         ~ Enters(f), ~ Enters(g),
         \A t, n : p = <<t, 1>> /\ Waited(t, n) =>
             (\A m \in Node : slot[m] # t)
               /\ (\A q \in Spots : Fr(q).op = "lock" => Fr(q).who # t),
         free' = free, tail' = tail, next' = next,
         slot' = slot, waiters' = waiters, cvSlot' = cvSlot, cvLock' = cvLock
  PROVE  Shape'
<1>1. FrameState'
  BY DEF Shape, FrameState
<1>2. OwnState'
  BY DEF Shape, OwnState, Live, Owns
<1>3. \A t, n : p # <<t, 1>> /\ Waited(t, n) => Waited(t, n)'
  BY DEF Waited, Live
<1>4. LockState'
  <2>1. ASSUME NEW q \in Spots, Fr(q).op = "lock" PROVE LinkOf(Fr(q))'
    <3>1. q # p /\ Fr(q)' = Fr(q) /\ LinkOf(Fr(q))
      BY <2>1 DEF Shape, LockState
    <3>2. PICK k : k = Fr(q)
      OBVIOUS
    <3>3. LinkOf(k) /\ Waited(k.who, k.node) /\ k.op = "lock"
      BY <2>1, <3>1, <3>2 DEF LinkOf
    <3>4. p # <<k.who, 1>>
      BY <2>1, <3>2, <3>3
    <3>5. Waited(k.who, k.node)'
      BY <1>3, <3>3, <3>4
    <3>6. LinkOf(k)'
      BY <3>3, <3>5 DEF LinkOf, Live
    <3>7. QED
      BY <3>1, <3>2, <3>6
  <2>2. \A q \in Spots : Fr(q)'.op = "lock" => q # p /\ Fr(q)' = Fr(q)
    OBVIOUS
  <2>3. QED
    BY <2>1, <2>2 DEF Shape, LockState
<1>5. NextState'
  BY DEF Shape, NextState, Live
<1>6. SlotState'
  <2>1. ASSUME NEW n \in Node, slot[n] # None PROVE Waited(slot[n], n)'
    <3>1. PICK t : t = slot[n]
      OBVIOUS
    <3>2. Waited(t, n)
      BY <2>1, <3>1 DEF Shape, SlotState
    <3>3. p # <<t, 1>>
      BY <3>1, <3>2
    <3>4. Waited(t, n)' /\ t = slot'[n]
      BY <1>3, <3>1, <3>2, <3>3
    <3>5. QED
      BY <3>1, <3>4
  <2>2. QED
    BY <2>1 DEF SlotState
<1>7. CvState'
  BY DEF Shape, CvState
<1>8. QED
  BY <1>1, <1>2, <1>4, <1>5, <1>6, <1>7 DEF Shape

(* A task that executes is not about to be linked, nor is it parked.       *)
LEMMA RunnerUnlinked ==
  ASSUME McsIInv, NEW w \in Worker, NEW t, t = thread[w]
  PROVE  /\ \A m \in Node : slot[m] # t
         /\ \A q \in Spots : Fr(q).op = "lock" => Fr(q).who # t
<1>1. EachPlaced /\ Shape /\ thread[w] \in Desc
  BY DEF McsIInv, MTypeOK
<1>2. (\A m \in Node : slot[m] # t) /\ \A q : ~ Publishes(q, t)
  BY <1>1, RunnerPlace
<1>3. ASSUME NEW q \in Spots, Fr(q).op = "lock", Fr(q).who = t PROVE FALSE
  <2>1. LinkOf(Fr(q)) /\ Fr(q).step # "publish"
    BY <1>1, <1>2, <1>3 DEF Shape, LockState, Publishes
  <2>2. CallbackOf(Fr(q))
    BY <1>1, <1>3 DEF Shape, FrameState, BaseOf, Loop
  <2>3. Fr(q).step = "link" /\ Fr(q).node \in Node
    BY <1>3, <2>1, <2>2 DEF CallbackOf, LinkOf, Waited, Live
  <2>4. QED
    BY <1>2, <1>3, <2>1, <2>3 DEF LinkOf
<1>4. QED
  BY <1>2, <1>3

(* Nobody's token moves.                                                   *)
LEMMA TokensRest ==
  ASSUME EachPlaced, NothingTwice, thread' = thread, saved' = saved, main' = main,
         deferred' = deferred,
         rootCont' = rootCont, cvSlot' = cvSlot, \A n \in Node : slot'[n] = slot[n],
         \A d \in Desc : frames'[d] = <<>> <=> frames[d] = <<>>,
         \A q, y : Publishes(q, y)' <=> Publishes(q, y)
  PROVE  EachPlaced' /\ NothingTwice'
<1>1. \A y \in Desc : SamePlace(y)
  BY DEF SamePlace
<1>2. QED
  BY <1>1, NoneMoves DEF NothingTwice

(* A frame with a guard, or that was granted one, goes on by itself.       *)
LEMMA Proceeds ==
  ASSUME McsIInv, NEW w \in Worker, NEW s \in {"in", "drop", "spin"}, Advance(w, s),
         \/ Top(w).op = "task" /\ Top(w).node # None
         \/ Top(w).op = "cv" /\ Top(w).step = "drop" /\ s = "spin",
         UNCHANGED <<saved, main, deferred, rootCont, mcs>>
  PROVE  McsIInv'
<1> PICK p : p = TopOf(w)
  OBVIOUS
<1> PICK f : f = Top(w)
  OBVIOUS
<1> PICK t : t = thread[w]
  OBVIOUS
<1>1. /\ MTypeOK /\ Shape /\ EachPlaced /\ NothingTwice
      /\ p \in Spots /\ Fr(p) = f /\ f \in Frame
      /\ f.op = "task" => p = <<t, 1>> /\ p[2] = 1 /\ t \in Ult /\ BaseOf(t, f)
      /\ f.op = "cv" => p[2] # 1 /\ CallbackOf(f)
  BY OnTop DEF McsIInv
<1>2. s \in Steps
  BY DEF Steps
<1>3. PICK g \in Frame :
           /\ g.op = f.op /\ g.who = f.who /\ g.step = s /\ g.node = f.node /\ g.prev = f.prev
           /\ frames' \in [Desc -> Seq(Frame)] /\ Spots' = Spots
           /\ \A q \in Spots : Fr(q)' = IF q = p THEN g ELSE Fr(q)
           /\ \A d \in Desc : frames'[d] = <<>> <=> frames[d] = <<>>
           /\ thread' = thread
  BY <1>2, Advances
<1>4. /\ free' = free /\ tail' = tail /\ next' = next /\ slot' = slot
      /\ waiters' = waiters /\ cvSlot' = cvSlot /\ cvLock' = cvLock /\ calls' = calls
  BY DEF mcs
<1>5. f.step # "publish" /\ ~ Enters(f) /\ ~ Enters(g) /\ g.step # "publish"
  BY <1>1, <1>3, Kinds DEF BaseOf, Enters
<1>6. IF p[2] = 1 THEN BaseOf(p[1], g) ELSE CallbackOf(g)
  <2>1. CASE f.op = "task" /\ f.node # None
    <3>1. p[2] = 1 /\ p[1] = t /\ t \in Ult /\ t \notin Worker /\ f.who = t
      BY <1>1, <2>1, Kinds DEF BaseOf
    <3>2. BaseOf(t, g)
      BY <1>3, <2>1, <3>1 DEF BaseOf
    <3>3. QED
      BY <3>1, <3>2
  <2>2. CASE f.op = "cv" /\ s = "spin"
    <3>1. p[2] # 1 /\ CallbackOf(f)
      BY <1>1, <2>2
    <3>2. CallbackOf(g)
      BY <1>3, <2>2, <3>1 DEF CallbackOf
    <3>3. QED
      BY <3>1, <3>2
  <2>3. QED
    BY <2>1, <2>2
<1>7. \A z, n : p = <<z, 1>> /\ Waited(z, n) =>
             (\A m \in Node : slot[m] # z)
               /\ (\A q \in Spots : Fr(q).op = "lock" => Fr(q).who # z)
  <2>1. (\A m \in Node : slot[m] # t) /\ (\A q \in Spots : Fr(q).op = "lock" => Fr(q).who # t)
    BY RunnerUnlinked
  <2>2. \A z : p = <<z, 1>> => z = t
    BY <1>1
  <2>3. QED
    BY <2>1, <2>2
<1>8. g.op \in {"task", "cv"}
  BY <1>3
<1>9. Shape'
  BY <1>1, <1>3, <1>4, <1>5, <1>6, <1>7, <1>8, ShapeAdvances
<1>10. \A q, y : Publishes(q, y)' <=> Publishes(q, y)
  BY <1>1, <1>3, <1>5 DEF Publishes
<1>11. EachPlaced' /\ NothingTwice'
  BY <1>1, <1>3, <1>4, <1>10, TokensRest
<1>12. MTypeOK'
  BY <1>1, <1>3, <1>4 DEF MTypeOK
<1>13. QED
  BY <1>9, <1>11, <1>12 DEF McsIInv

-----------------------------------------------------------------------------
(* The drop of a guard.                                                    *)

(* Dropped: the task is outside, or the callback is over.                  *)
LEMMA DroppedFrames ==
  ASSUME McsIInv, NEW w \in Worker, Top(w).op \in {"task", "cv"}, Dropped(w), NEW p, p = TopOf(w)
  PROVE  /\ frames' \in [Desc -> Seq(Frame)] /\ thread' = thread
         /\ \A d \in Desc : frames'[d] = <<>> <=> frames[d] = <<>>
         /\ \A q \in Spots' : q \in Spots
         /\ \A q \in Spots : q # p => q \in Spots' /\ Fr(q)' = Fr(q)
         /\ p \in Spots' => /\ p[2] = 1 /\ BaseOf(p[1], Fr(p)') /\ Fr(p)'.op = "task"
                           /\ Fr(p)'.step = "out" /\ Fr(p)'.node = None
<1> PICK f : f = Top(w)
  OBVIOUS
<1> PICK t : t = thread[w]
  OBVIOUS
<1>1. /\ MTypeOK /\ frames[thread[w]] # <<>> /\ p \in Spots /\ Fr(p) = f /\ f \in Frame
      /\ f.op = "task" => p = <<t, 1>> /\ p[2] = 1 /\ t \in Ult /\ BaseOf(t, f)
      /\ f.op = "cv" => p[2] # 1
  BY OnTop DEF McsIInv
<1>2. CASE f.op = "task"
  <2> PICK g : g = [f EXCEPT !.step = "out", !.node = None]
    OBVIOUS
  <2>1. g \in Frame /\ g.op = f.op /\ g.who = f.who /\ g.step = "out" /\ g.node = None
    <3>1. "out" \in Steps /\ None \in Node \cup {None} /\ f \in Frame
      BY <1>1 DEF Steps
    <3>2. QED
      BY <3>1 DEF Frame
  <2>2. frames' = WithTop(w, g) /\ thread' = thread
    BY <1>2 DEF Dropped
  <2>3. /\ frames' \in [Desc -> Seq(Frame)] /\ Spots' = Spots
        /\ \A q \in Spots : Fr(q)' = IF q = p THEN g ELSE Fr(q)
        /\ \A d \in Desc : frames'[d] = <<>> <=> frames[d] = <<>>
    BY <1>1, <2>1, <2>2, Retopped
  <2>4. p[1] = t /\ p[2] = 1 /\ BaseOf(t, g)
    BY <1>1, <1>2, <2>1, Kinds DEF BaseOf
  <2>5. QED
    BY <1>1, <1>2, <2>1, <2>2, <2>3, <2>4
<1>3. CASE f.op = "cv"
  <2>1. Return(w) /\ thread' = thread
    BY <1>3 DEF Dropped, Return
  <2>2. /\ frames' \in [Desc -> Seq(Frame)] /\ Spots' = Spots \ {p}
        /\ \A q \in Spots : q # p => Fr(q)' = Fr(q)
        /\ \A d \in Desc : frames'[d] = <<>> <=> frames[d] = <<>>
    BY <1>1, <1>3, <2>1, Popped
  <2>3. QED
    BY <2>1, <2>2
<1>4. QED
  BY <1>2, <1>3

(* What a drop may do to the words, n being the node freed: there is no    *)
(* tail, or the successor of n has its token taken.                        *)
LEMMA ShapeDrops ==
  ASSUME Shape, next \in [Node -> Node \cup {None}], NEW p \in Spots, NEW f, f = Fr(p), NEW n,
         n = f.node,
         Owns(f), f.step \in {"drop", "spin"},
         \A q \in Spots' : q \in Spots,
         \A q \in Spots : q # p => q \in Spots' /\ Fr(q)' = Fr(q),
         p \in Spots' => /\ p[2] = 1 /\ BaseOf(p[1], Fr(p)') /\ Fr(p)'.op = "task"
                        /\ Fr(p)'.step = "out" /\ Fr(p)'.node = None,
         free' = free \cup {n}, next' = next, waiters' = waiters, cvSlot' = cvSlot,
         cvLock' = cvLock,
         \/ tail = n /\ tail' = None /\ \A k \in Node : slot'[k] = slot[k]
         \/ /\ tail' = tail /\ next[n] # None
            /\ slot'[next[n]] = None /\ \A k \in Node : k # next[n] => slot'[k] = slot[k]
  PROVE  Shape'
<1>1. FrameState'
  <2>1. ASSUME NEW q \in Spots'
        PROVE  IF q[2] = 1 THEN BaseOf(q[1], Fr(q)') ELSE CallbackOf(Fr(q)')
    BY DEF Shape, FrameState
  <2>2. QED
    BY <2>1 DEF FrameState
<1>2. n \in Live /\ Live' = Live \ {n} /\ \A q \in Spots : q # p /\ Owns(Fr(q)) => Fr(q).node # n
  BY DEF Shape, OwnState, Live
<1>3. \A q \in Spots' : Owns(Fr(q)') => q # p /\ Fr(q)' = Fr(q)
  BY DEF Owns
<1>4. OwnState'
  <2>1. ASSUME NEW q \in Spots', Owns(Fr(q)') PROVE Fr(q)'.node \in Live'
    BY <1>2, <1>3, <2>1 DEF Shape, OwnState
  <2>2. ASSUME NEW q \in Spots', NEW r \in Spots', Owns(Fr(q)'), Owns(Fr(r)'),
               Fr(q)'.node = Fr(r)'.node
        PROVE  q = r
    BY <1>3, <2>2 DEF Shape, OwnState
  <2>3. QED
    BY <2>1, <2>2 DEF OwnState
<1>5. ASSUME NEW t, NEW m, Waited(t, m) PROVE Waited(t, m)' /\ m # n
  <2>1. /\ <<t, 1>> \in Spots /\ <<t, 1>> # p /\ Owns(Fr(<<t, 1>>)) /\ m \in Live
        /\ Fr(<<t, 1>>).node = m
    <3>1. <<t, 1>> \in Spots /\ Fr(<<t, 1>>).step = "waited" /\ Fr(<<t, 1>>).node = m
            /\ t \in Ult /\ m \in Live
      BY <1>5 DEF Waited
    <3>2. BaseOf(t, Fr(<<t, 1>>))
      BY <3>1 DEF Shape, FrameState
    <3>3. m # None /\ t \notin Worker
      BY <3>1, Kinds DEF Live
    <3>4. Owns(Fr(<<t, 1>>))
      BY <3>1, <3>2, <3>3 DEF BaseOf, Owns
    <3>5. QED
      BY <3>1, <3>4
  <2>2. m # n
    BY <1>2, <2>1
  <2>3. QED
    BY <1>2, <1>5, <2>1, <2>2 DEF Waited
<1>6. /\ \A k \in Live : next[k] # None => tail # k /\ slot[next[k]] # None
      /\ \A k, m \in Live : next[k] # None /\ next[k] = next[m] => m = k
      /\ tail # None => tail \in Live
      /\ n # None
  BY <1>2, Kinds DEF Shape, NextState, Live
<1>7. LockState'
  <2>1. ASSUME NEW q \in Spots', Fr(q)'.op = "lock"
        PROVE  q \in Spots /\ q # p /\ Fr(q)' = Fr(q) /\ LinkOf(Fr(q))'
    <3>1. q \in Spots /\ q # p /\ Fr(q)' = Fr(q)
      BY <2>1
    <3>2. PICK k : k = Fr(q)
      OBVIOUS
    <3>3. LinkOf(k) /\ Waited(k.who, k.node) /\ k.op = "lock" /\ k.prev \in Live
            /\ next[k.prev] = None
      BY <2>1, <3>1, <3>2 DEF Shape, LockState, LinkOf
    <3>4. Waited(k.who, k.node)'
      BY <1>5, <3>3
    <3>5. k.prev # n /\ k.prev # None
      BY <1>6, <3>3, Kinds DEF LinkOf, Live
    <3>6. slot'[k.node] = slot[k.node]
      BY <1>2, <3>3 DEF LinkOf, Waited, Live
    <3>7. tail' # k.prev /\ next'[k.prev] = None /\ \A m \in Live' : next'[m] # k.node
      BY <1>2, <3>3, <3>5 DEF LinkOf
    <3>8. LinkOf(k)'
      BY <1>2, <3>3, <3>4, <3>5, <3>6, <3>7 DEF LinkOf
    <3>9. QED
      BY <3>1, <3>2, <3>8
  <2>2. QED
    BY <2>1 DEF Shape, LockState
<1>8. NextState'
  <2>1. ASSUME NEW k \in Live', next'[k] # None PROVE tail' # k /\ slot'[next'[k]] # None
    <3>1. k \in Live /\ k # n /\ next[k] # None /\ tail # k /\ slot[next[k]] # None /\ k # None
      BY <1>2, <1>6, <2>1, Kinds DEF Live
    <3>0. next[k] \in Node
      BY <3>1 DEF Live
    <3>2. CASE tail = n /\ tail' = None /\ \A m \in Node : slot'[m] = slot[m]
      BY <3>0, <3>1, <3>2
    <3>3. CASE /\ tail' = tail /\ next[n] # None
               /\ slot'[next[n]] = None /\ \A m \in Node : m # next[n] => slot'[m] = slot[m]
      <4>1. next[k] # next[n]
        BY <1>2, <1>6, <3>1, <3>3
      <4>2. QED
        BY <3>0, <3>1, <3>3, <4>1
    <3>4. QED
      BY <3>2, <3>3
  <2>2. tail' # None => tail' \in Live'
    BY <1>2, <1>6
  <2>3. \A k, m \in Live' : next'[k] # None /\ next'[k] = next'[m] => m = k
    BY <1>2, <1>6
  <2>4. QED
    BY <2>1, <2>2, <2>3 DEF NextState
<1>9. SlotState'
  <2>1. ASSUME NEW k \in Node, slot'[k] # None PROVE Waited(slot[k], k)' /\ slot'[k] = slot[k]
    <3>1. slot'[k] = slot[k]
      BY <2>1
    <3>2. PICK t : t = slot[k]
      OBVIOUS
    <3>3. Waited(t, k)
      BY <2>1, <3>1, <3>2 DEF Shape, SlotState
    <3>4. Waited(t, k)'
      BY <1>5, <3>3
    <3>5. QED
      BY <3>1, <3>2, <3>4
  <2>2. QED
    BY <2>1 DEF SlotState
<1>10. CvState'
  <2>1. \A q \in Spots' : Enters(Fr(q)') => q \in Spots /\ q # p /\ Fr(q)' = Fr(q)
    BY DEF Enters
  <2>2. QED
    BY <2>1 DEF Shape, CvState
<1>11. QED
  BY <1>1, <1>4, <1>7, <1>8, <1>9, <1>10 DEF Shape

(* What a worker does a drop with.                                         *)
LEMMA Dropping ==
  ASSUME McsIInv, NEW w \in Worker, Top(w).step \in {"drop", "spin"},
         NEW p, p = TopOf(w), NEW f, f = Top(w)
  PROVE  /\ p \in Spots /\ Fr(p) = f /\ f.op \in {"task", "cv"} /\ Owns(f) /\ f.node \in Live
         /\ f.op = "task" => f.node # None
<1>1. /\ Shape /\ p \in Spots /\ Fr(p) = f /\ f \in Frame
      /\ f.op = "task" => thread[w] \in Ult /\ BaseOf(thread[w], f)
      /\ f.op = "loop" => p[2] = 1 /\ p = <<thread[w], 1>> /\ thread[w] = w
      /\ f.op \in {"lock", "cv"} => CallbackOf(f)
  BY OnTop DEF McsIInv
<1>2. f.op \in {"loop", "task", "lock", "cv"}
  BY <1>1, FrameFields
<1>3. f.op # "loop"
  <2> SUFFICES ASSUME f.op = "loop" PROVE FALSE
    OBVIOUS
  <2>1. p[2] = 1 /\ p[1] = w
    BY <1>1
  <2>2. BaseOf(w, f)
    BY <1>1, <2>1 DEF Shape, FrameState
  <2>3. f = Loop(w)
    BY <2>2 DEF BaseOf
  <2>4. QED
    BY <2>3 DEF Loop
<1>4. f.op # "lock"
  BY <1>1 DEF CallbackOf
<1>5. f.op = "task" => f.node # None
  BY <1>1, Kinds DEF BaseOf
<1>6. Owns(f)
  BY <1>2, <1>3, <1>4, <1>5 DEF Owns
<1>7. QED
  BY <1>1, <1>2, <1>3, <1>4, <1>5, <1>6 DEF Shape, OwnState

(* ReleaseTail.                                                            *)
LEMMA ReleaseTails ==
  ASSUME McsIInv, NEW w \in Worker, ReleaseTail(w)
  PROVE  McsIInv'
<1> PICK p : p = TopOf(w)
  OBVIOUS
<1> PICK f : f = Top(w)
  OBVIOUS
<1> PICK n : n = f.node
  OBVIOUS
<1>1. /\ p \in Spots /\ Fr(p) = f /\ f.op \in {"task", "cv"} /\ Owns(f) /\ n \in Live
      /\ n \in Node
      /\ f.op = "task" => f.node # None
      /\ f.step = "drop"
  BY Dropping DEF ReleaseTail, Live
<1>2. MTypeOK /\ Shape /\ EachPlaced /\ NothingTwice
  BY DEF McsIInv
<1>3. /\ saved' = saved /\ main' = main /\ deferred' = deferred /\ rootCont' = rootCont
      /\ next' = next /\ slot' = slot /\ waiters' = waiters /\ cvSlot' = cvSlot
      /\ cvLock' = cvLock
      /\ calls' = calls
  BY DEF ReleaseTail, queues
<1>4. CASE tail # n /\ Advance(w, "spin") /\ UNCHANGED <<tail, free>>
  <2>1. UNCHANGED <<saved, main, deferred, rootCont, mcs>>
    BY <1>3, <1>4 DEF mcs
  <2>2. QED
    BY <1>1, <1>4, <2>1, Proceeds
<1>5. CASE tail = n /\ tail' = None /\ Dropped(w)
  <2>1. /\ frames' \in [Desc -> Seq(Frame)] /\ thread' = thread
        /\ \A d \in Desc : frames'[d] = <<>> <=> frames[d] = <<>>
        /\ \A q \in Spots' : q \in Spots
        /\ \A q \in Spots : q # p => q \in Spots' /\ Fr(q)' = Fr(q)
        /\ p \in Spots' => /\ p[2] = 1 /\ BaseOf(p[1], Fr(p)') /\ Fr(p)'.op = "task"
                          /\ Fr(p)'.step = "out" /\ Fr(p)'.node = None
    BY <1>1, <1>5, DroppedFrames
  <2>2. free' = free \cup {n}
    BY <1>5 DEF Dropped
  <2>3. Shape'
    <3>1. next \in [Node -> Node \cup {None}] /\ \A k \in Node : slot'[k] = slot[k]
      BY <1>2, <1>3 DEF MTypeOK
    <3>2. f.step \in {"drop", "spin"} /\ f = Fr(p)
      BY <1>1
    <3>3. QED
      BY <1>1, <1>2, <1>3, <1>5, <2>1, <2>2, <3>1, <3>2, ShapeDrops
  <2>4. \A q, y : Publishes(q, y)' <=> Publishes(q, y)
    BY <1>1, <2>1 DEF Publishes
  <2>5. EachPlaced' /\ NothingTwice'
    <3>1. \A k \in Node : slot'[k] = slot[k]
      BY <1>3
    <3>2. QED
      BY <1>2, <1>3, <2>1, <2>4, <3>1, TokensRest
  <2>6. MTypeOK'
    BY <1>1, <1>2, <1>3, <1>5, <2>1, <2>2 DEF MTypeOK
  <2>7. QED
    BY <2>3, <2>5, <2>6 DEF McsIInv
<1>6. QED
  BY <1>4, <1>5 DEF ReleaseTail

(* Push: a token goes to the end of a deque.                               *)
LEMMA Pushes ==
  ASSUME MTypeOK, NothingTwice, NEW w \in Worker, NEW x \in Desc, ~ In(main[w], x), Push(w, x)
  PROVE  /\ main' \in [Worker -> Seq(Desc)]
         /\ \A v \in Worker : NoTwice(main'[v])
         /\ \A v \in Worker, y \in Desc : In(main'[v], y) <=> In(main[v], y) \/ (v = w /\ y = x)
<1>1. main \in [Worker -> Seq(Desc)] /\ \A v \in Worker : NoTwice(main[v])
  BY DEF MTypeOK, NothingTwice
<1>2. /\ Append(main[w], x) \in Seq(Desc) /\ NoTwice(Append(main[w], x))
      /\ \A y : In(Append(main[w], x), y) <=> In(main[w], y) \/ y = x
  BY <1>1, InAppend
<1>3. /\ main' \in [Worker -> Seq(Desc)] /\ main'[w] = Append(main[w], x)
      /\ \A v \in Worker : v # w => main'[v] = main[v]
  BY <1>1, <1>2 DEF Push
<1>4. ASSUME NEW v \in Worker, NEW y \in Desc
      PROVE  In(main'[v], y) <=> In(main[v], y) \/ (v = w /\ y = x)
  BY <1>2, <1>3
<1>5. \A v \in Worker : NoTwice(main'[v])
  BY <1>1, <1>2, <1>3
<1>6. QED
  BY <1>3, <1>4, <1>5

(* A token in a slot is nowhere else, ...                                  *)
LEMMA SlotPlace ==
  ASSUME EachPlaced, NEW m \in Node, NEW x \in Desc, slot[m] = x
  PROVE  /\ x \notin Worker /\ frames[x] # <<>> /\ x \in saved /\ x \notin cvSlot
         /\ \A u \in Worker :
                thread[u] # x /\ rootCont[u] # x /\ ~ In(main[u], x) /\ ~ In(deferred[u], x)
         /\ \A p : ~ Publishes(p, x)
         /\ \A n \in Node : slot[n] = x <=> n = m
<1>1. PICK h \in Homes, u \in Worker \cup Node \cup Spots : Placed(x, h, u)
  BY DEF EachPlaced
<1>2. h = "slot" /\ u = m
  BY <1>1 DEF Placed
<1>3. \A p : ~ Publishes(p, x)
  BY <1>1, <1>2 DEF Placed, Publishes
<1>4. QED
  BY <1>1, <1>2, <1>3 DEF Placed

(* ... nor is one in the list of the condition variable, ...               *)
LEMMA CvPlace ==
  ASSUME EachPlaced, NEW x \in Desc, x \in cvSlot
  PROVE  /\ x \notin Worker /\ frames[x] # <<>> /\ x \in saved
         /\ \A u \in Worker :
                thread[u] # x /\ rootCont[u] # x /\ ~ In(main[u], x) /\ ~ In(deferred[u], x)
         /\ \A p : ~ Publishes(p, x)
         /\ \A n \in Node : slot[n] # x
<1>1. PICK h \in Homes, u \in Worker \cup Node \cup Spots : Placed(x, h, u)
  BY DEF EachPlaced
<1>2. h = "cv"
  BY <1>1 DEF Placed
<1>3. \A p : ~ Publishes(p, x)
  BY <1>1, <1>2 DEF Placed, Publishes
<1>4. QED
  BY <1>1, <1>2, <1>3 DEF Placed

(* ... or in the hands of a callback.                                      *)
LEMMA CallbackPlace ==
  ASSUME EachPlaced, NEW p, NEW x \in Desc, Publishes(p, x)
  PROVE  /\ x \notin Worker /\ frames[x] # <<>> /\ x \in saved /\ x \notin cvSlot
         /\ \A u \in Worker :
                thread[u] # x /\ rootCont[u] # x /\ ~ In(main[u], x) /\ ~ In(deferred[u], x)
         /\ \A q : Publishes(q, x) <=> q = p
         /\ \A n \in Node : slot[n] # x
<1>1. PICK h \in Homes, u \in Worker \cup Node \cup Spots : Placed(x, h, u)
  BY DEF EachPlaced
<1>2. h = "callback" /\ u = p
  BY <1>1 DEF Placed, Publishes
<1>3. \A q : Publishes(q, x) <=> q = p
  BY <1>1, <1>2 DEF Placed, Publishes
<1>4. QED
  BY <1>1, <1>2, <1>3 DEF Placed

(* HandOver.                                                               *)
LEMMA HandOvers ==
  ASSUME McsIInv, NEW w \in Worker, HandOver(w)
  PROVE  McsIInv'
<1> PICK p : p = TopOf(w)
  OBVIOUS
<1> PICK f : f = Top(w)
  OBVIOUS
<1> PICK n : n = f.node
  OBVIOUS
<1> PICK m : m = next[n]
  OBVIOUS
<1> PICK x : x = slot[m]
  OBVIOUS
<1>1. /\ p \in Spots /\ Fr(p) = f /\ f.op \in {"task", "cv"} /\ Owns(f) /\ n \in Live
      /\ n \in Node
      /\ f.step = "spin"
  BY Dropping DEF HandOver, Live
<1>2. MTypeOK /\ Shape /\ EachPlaced /\ NothingTwice
  BY DEF McsIInv
<1>3. /\ saved' = saved /\ deferred' = deferred /\ rootCont' = rootCont
      /\ next' = next /\ tail' = tail /\ waiters' = waiters /\ cvSlot' = cvSlot
      /\ cvLock' = cvLock
      /\ calls' = calls /\ Dropped(w) /\ Push(w, x) /\ m # None /\ x # None
      /\ slot' = [slot EXCEPT ![m] = None]
  BY DEF HandOver
<1>4. m \in Node /\ x \in Ult /\ x \in Desc
  <2>1. m \in Node
    BY <1>1, <1>2, <1>3 DEF MTypeOK
  <2>2. QED
    BY <1>2, <1>3, <2>1, Kinds DEF MTypeOK
<1>5. /\ x \notin Worker /\ frames[x] # <<>> /\ x \in saved /\ x \notin cvSlot
      /\ \A u \in Worker :
             thread[u] # x /\ rootCont[u] # x /\ ~ In(main[u], x) /\ ~ In(deferred[u], x)
      /\ \A q : ~ Publishes(q, x)
      /\ \A k \in Node : slot[k] = x <=> k = m
  BY <1>2, <1>4, SlotPlace
<1>6. /\ main' \in [Worker -> Seq(Desc)]
      /\ \A v \in Worker : NoTwice(main'[v])
      /\ \A v \in Worker, y \in Desc : In(main'[v], y) <=> In(main[v], y) \/ (v = w /\ y = x)
  BY <1>2, <1>3, <1>4, <1>5, Pushes
<1>7. /\ slot' \in [Node -> Ult \cup {None}] /\ slot'[m] = None
      /\ \A k \in Node : k # m => slot'[k] = slot[k]
  BY <1>2, <1>3, <1>4 DEF MTypeOK
<1>8. /\ frames' \in [Desc -> Seq(Frame)] /\ thread' = thread
      /\ \A d \in Desc : frames'[d] = <<>> <=> frames[d] = <<>>
      /\ \A q \in Spots' : q \in Spots
      /\ \A q \in Spots : q # p => q \in Spots' /\ Fr(q)' = Fr(q)
      /\ p \in Spots' => /\ p[2] = 1 /\ BaseOf(p[1], Fr(p)') /\ Fr(p)'.op = "task"
                        /\ Fr(p)'.step = "out" /\ Fr(p)'.node = None
  BY <1>1, <1>3, DroppedFrames
<1>9. free' = free \cup {n}
  BY <1>3 DEF Dropped
<1>10. Shape'
  <2>1. next \in [Node -> Node \cup {None}] /\ f.step \in {"drop", "spin"} /\ f = Fr(p)
    BY <1>1, <1>2 DEF MTypeOK
  <2>2. /\ tail' = tail /\ next[n] # None
        /\ slot'[next[n]] = None /\ \A k \in Node : k # next[n] => slot'[k] = slot[k]
    BY <1>3, <1>7
  <2>3. QED
    BY <1>1, <1>2, <1>3, <1>8, <1>9, <2>1, <2>2, ShapeDrops
<1>11. \A q, y : Publishes(q, y)' <=> Publishes(q, y)
  BY <1>1, <1>8 DEF Publishes
<1>12. ASSUME NEW y \in Desc, y # x PROVE SamePlace(y)
  <2>1. \A k \in Node : slot'[k] = y <=> slot[k] = y
    BY <1>5, <1>7, <1>12, Kinds
  <2>2. \A v \in Worker : In(main'[v], y) <=> In(main[v], y)
    BY <1>6, <1>12
  <2>3. QED
    BY <1>3, <1>8, <1>11, <2>1, <2>2 DEF SamePlace
<1>13. Placed(x, "main", w)'
  <2>1. \A k \in Node : slot'[k] # x
    BY <1>4, <1>5, <1>7, Kinds
  <2>2. \A v \in Worker : In(main'[v], x) <=> v = w
    BY <1>4, <1>5, <1>6
  <2>3. QED
    BY <1>3, <1>4, <1>5, <1>8, <1>11, <2>1, <2>2 DEF Placed
<1>14. EachPlaced'
  BY <1>2, <1>4, <1>12, <1>13, OneMoves DEF Homes
<1>15. NothingTwice'
  BY <1>2, <1>3, <1>6 DEF NothingTwice
<1>16. MTypeOK'
  BY <1>1, <1>2, <1>3, <1>6, <1>7, <1>8, <1>9 DEF MTypeOK
<1>17. QED
  BY <1>10, <1>14, <1>15, <1>16 DEF McsIInv

-----------------------------------------------------------------------------
(* The callbacks of lock and wait.                                         *)

(* What a callback executes with.                                          *)
LEMMA Publishing ==
  ASSUME McsIInv, NEW w \in Worker, Top(w).op \in {"lock", "cv"}, NEW p, p = TopOf(w), NEW f,
         f = Top(w)
  PROVE  /\ p \in Spots /\ Fr(p) = f /\ f \in Frame /\ p[2] # 1 /\ CallbackOf(f)
         /\ f.who \in Ult /\ f.who \in Desc /\ f.node \in Node
         /\ f.step = "publish" => Publishes(p, f.who)
<1>1. p \in Spots /\ Fr(p) = f /\ f \in Frame /\ p[2] # 1 /\ CallbackOf(f)
  BY OnTop
<1>2. f.who \in Ult /\ f.who \in Desc /\ f.node \in Node
  BY <1>1, FrameFields, Kinds DEF CallbackOf
<1>3. QED
  BY <1>1, <1>2 DEF Publishes

(* Publish.                                                                *)
LEMMA PublishSlot ==
  ASSUME McsIInv, NEW w \in Worker, Publish(w)
  PROVE  McsIInv'
<1> PICK p : p = TopOf(w)
  OBVIOUS
<1> PICK f : f = Top(w)
  OBVIOUS
<1> PICK x : x = f.who
  OBVIOUS
<1> PICK n : n = f.node
  OBVIOUS
<1>1. /\ p \in Spots /\ Fr(p) = f /\ f \in Frame /\ p[2] # 1 /\ CallbackOf(f)
      /\ x \in Ult /\ x \in Desc /\ n \in Node /\ Publishes(p, x)
      /\ f.op = "lock" /\ f.step = "publish"
  BY Publishing DEF Publish
<1>2. MTypeOK /\ Shape /\ EachPlaced /\ NothingTwice
  BY DEF McsIInv
<1>3. /\ saved' = saved /\ main' = main /\ deferred' = deferred /\ rootCont' = rootCont
      /\ next' = next /\ tail' = tail /\ free' = free
      /\ waiters' = waiters /\ cvSlot' = cvSlot /\ cvLock' = cvLock
      /\ calls' = calls /\ slot' = [slot EXCEPT ![n] = x] /\ Advance(w, "link")
  BY DEF Publish, queues
<1>4. "link" \in Steps
  BY DEF Steps
<1>5. PICK g \in Frame :
           /\ g.op = f.op /\ g.who = f.who /\ g.step = "link" /\ g.node = f.node
           /\ g.prev = f.prev
           /\ frames' \in [Desc -> Seq(Frame)] /\ Spots' = Spots
           /\ \A q \in Spots : Fr(q)' = IF q = p THEN g ELSE Fr(q)
           /\ \A d \in Desc : frames'[d] = <<>> <=> frames[d] = <<>>
           /\ thread' = thread
  BY <1>3, <1>4, Advances
<1>6. /\ x \notin Worker /\ frames[x] # <<>> /\ x \in saved /\ x \notin cvSlot
      /\ \A u \in Worker :
             thread[u] # x /\ rootCont[u] # x /\ ~ In(main[u], x) /\ ~ In(deferred[u], x)
      /\ \A q : Publishes(q, x) <=> q = p
      /\ \A k \in Node : slot[k] # x
  BY <1>1, <1>2, CallbackPlace
<1>7. /\ slot' \in [Node -> Ult \cup {None}] /\ slot'[n] = x
      /\ \A k \in Node : k # n => slot'[k] = slot[k]
  BY <1>1, <1>2, <1>3 DEF MTypeOK
<1>8. /\ LinkOf(f) /\ Waited(x, n) /\ slot[n] = None
      /\ \A q \in Spots : q # p /\ Fr(q).op = "lock" => LinkOf(Fr(q)) /\ Fr(q).node # n
  BY <1>1, <1>2 DEF Shape, LockState, LinkOf
<1>9. x # None
  BY <1>1, Kinds
<1>10. \A t, k : Waited(t, k) => Waited(t, k)'
  <2>1. \A t : p # <<t, 1>>
    BY <1>1
  <2>2. QED
    BY <1>1, <1>3, <1>5, <2>1 DEF Waited, Live
<1>11. Live' = Live
  BY <1>3 DEF Live
<1>12. FrameState'
  <2>1. CallbackOf(g)
    BY <1>1, <1>5 DEF CallbackOf
  <2>2. QED
    BY <1>1, <1>2, <1>5, <2>1 DEF Shape, FrameState
<1>13. OwnState'
  BY <1>1, <1>2, <1>5, <1>11 DEF Shape, OwnState, Owns
<1>14. LockState'
  <2>1. LinkOf(g)'
    BY <1>3, <1>5, <1>7, <1>8, <1>10, <1>11 DEF LinkOf
  <2>2. ASSUME NEW q \in Spots, q # p, Fr(q).op = "lock" PROVE LinkOf(Fr(q))'
    <3>1. PICK k : k = Fr(q)
      OBVIOUS
    <3>2. LinkOf(k) /\ k.node # n /\ Waited(k.who, k.node) /\ k.node \in Node
      BY <1>8, <2>2, <3>1 DEF LinkOf, Waited, Live
    <3>3. LinkOf(k)'
      BY <1>3, <1>7, <1>10, <1>11, <3>2 DEF LinkOf
    <3>4. Fr(q)' = k
      BY <1>5, <2>2, <3>1
    <3>5. QED
      BY <3>3, <3>4
  <2>3. ASSUME NEW q \in Spots, Fr(q)'.op = "lock" PROVE LinkOf(Fr(q))'
    BY <1>5, <2>1, <2>2, <2>3
  <2>4. QED
    BY <1>1, <1>2, <1>5, <2>3 DEF Shape, LockState
<1>15. NextState'
  BY <1>2, <1>3, <1>7, <1>9, <1>11 DEF Shape, NextState, MTypeOK, Live
<1>16. SlotState'
  <2>1. ASSUME NEW k \in Node, slot'[k] # None PROVE Waited(slot[k], k)'
    <3>1. PICK t : t = slot'[k]
      OBVIOUS
    <3>2. Waited(t, k)
      BY <1>2, <1>7, <1>8, <2>1, <3>1 DEF Shape, SlotState
    <3>3. Waited(t, k)'
      BY <1>10, <3>2
    <3>4. QED
      BY <3>1, <3>3
  <2>2. QED
    BY <2>1 DEF SlotState
<1>17. CvState'
  <2>1. ~ Enters(f) /\ ~ Enters(g)
    BY <1>1, <1>5 DEF Enters
  <2>2. QED
    BY <1>1, <1>2, <1>3, <1>5, <2>1 DEF Shape, CvState
<1>18. \A q, y : Publishes(q, y)' <=> Publishes(q, y) /\ q # p
  BY <1>1, <1>5 DEF Publishes
<1>19. ASSUME NEW y \in Desc, y # x PROVE SamePlace(y)
  <2>1. \A k \in Node : slot'[k] = y <=> slot[k] = y
    BY <1>1, <1>7, <1>8, <1>19, Kinds
  <2>2. ~ Publishes(p, y)
    BY <1>1, <1>19 DEF Publishes
  <2>3. QED
    BY <1>3, <1>5, <1>18, <2>1, <2>2 DEF SamePlace
<1>20. Placed(x, "slot", n)'
  <2>1. \A k \in Node : slot'[k] = x <=> k = n
    BY <1>6, <1>7
  <2>2. \A q : ~ Publishes(q, x)'
    BY <1>6, <1>18
  <2>3. QED
    BY <1>1, <1>3, <1>5, <1>6, <2>1, <2>2 DEF Placed
<1>21. EachPlaced'
  BY <1>1, <1>2, <1>19, <1>20, OneMoves DEF Homes
<1>22. NothingTwice'
  BY <1>2, <1>3 DEF NothingTwice
<1>23. MTypeOK'
  BY <1>1, <1>2, <1>3, <1>5, <1>7 DEF MTypeOK
<1>24. QED
  BY <1>12, <1>13, <1>14, <1>15, <1>16, <1>17, <1>21, <1>22, <1>23 DEF McsIInv, Shape

(* Link.                                                                   *)
LEMMA Links ==
  ASSUME McsIInv, NEW w \in Worker, Link(w)
  PROVE  McsIInv'
<1> PICK p : p = TopOf(w)
  OBVIOUS
<1> PICK f : f = Top(w)
  OBVIOUS
<1> PICK n : n = f.node
  OBVIOUS
<1> PICK m : m = f.prev
  OBVIOUS
<1>0. f.op \in {"lock", "cv"} /\ f.op # "cv"
  <2>1. /\ f.op = "task" => BaseOf(thread[w], f) /\ thread[w] \in Ult
        /\ f.op = "loop" => p[2] = 1 /\ p[1] = w /\ p \in Spots /\ Fr(p) = f
        /\ f.op \in {"lock", "cv"} => CallbackOf(f)
        /\ f \in Frame
        /\ FrameState /\ f.step = "link"
    BY OnTop DEF McsIInv, Shape, Link
  <2>2. f.op # "task"
    BY <2>1, Kinds DEF BaseOf
  <2>3. f.op # "loop"
    BY <2>1 DEF FrameState, BaseOf, Loop
  <2>4. f.op # "cv"
    BY <2>1 DEF CallbackOf
  <2>5. QED
    BY <2>1, <2>2, <2>3, <2>4, FrameFields
<1>1. /\ p \in Spots /\ Fr(p) = f /\ f \in Frame /\ p[2] # 1 /\ CallbackOf(f)
      /\ n \in Node /\ f.op = "lock" /\ f.step = "link"
  BY <1>0, Publishing, FrameFields DEF Link
<1>2. MTypeOK /\ Shape /\ EachPlaced /\ NothingTwice
  BY DEF McsIInv
<1>3. /\ saved' = saved /\ main' = main /\ deferred' = deferred /\ rootCont' = rootCont
      /\ slot' = slot /\ tail' = tail /\ free' = free
      /\ waiters' = waiters /\ cvSlot' = cvSlot /\ cvLock' = cvLock
      /\ calls' = calls /\ next' = [next EXCEPT ![m] = n] /\ Return(w) /\ thread' = thread
  BY DEF Link, queues, Return
<1>4. /\ frames' \in [Desc -> Seq(Frame)] /\ Spots' = Spots \ {p}
      /\ \A q \in Spots : q # p => Fr(q)' = Fr(q)
      /\ \A d \in Desc : frames'[d] = <<>> <=> frames[d] = <<>>
  <2>1. frames[thread[w]] # <<>>
    BY OnTop
  <2>2. QED
    BY <1>1, <1>2, <1>3, <2>1, Popped
<1>5. /\ LinkOf(f) /\ f.who # None
      /\ \A q \in Spots : q # p /\ Fr(q).op = "lock" =>
             LinkOf(Fr(q)) /\ Fr(q).node # n /\ Fr(q).prev # m
  BY <1>1, <1>2, Kinds DEF Shape, LockState, CallbackOf
<1>6. m \in Live /\ tail # m /\ slot[n] # None /\ \A k \in Live : next[k] # n
  BY <1>1, <1>5 DEF LinkOf
<1>7. /\ next' \in [Node -> Node \cup {None}] /\ next'[m] = n
      /\ \A k \in Node : k # m => next'[k] = next[k]
  BY <1>1, <1>2, <1>3, <1>6 DEF MTypeOK, Live
<1>8. \A t, k : Waited(t, k) => Waited(t, k)'
  <2>1. \A t : p # <<t, 1>>
    BY <1>1
  <2>2. QED
    BY <1>1, <1>3, <1>4, <2>1 DEF Waited, Live
<1>9. Live' = Live
  BY <1>3 DEF Live
<1>10. FrameState'
  BY <1>1, <1>2, <1>4 DEF Shape, FrameState
<1>11. OwnState'
  BY <1>1, <1>2, <1>4, <1>9 DEF Shape, OwnState, Owns
<1>12. LockState'
  <2>1. ASSUME NEW q \in Spots, q # p, Fr(q).op = "lock" PROVE LinkOf(Fr(q))'
    <3>1. PICK k : k = Fr(q)
      OBVIOUS
    <3>2. /\ LinkOf(k) /\ k.node # n /\ k.prev # m /\ Waited(k.who, k.node) /\ k.prev \in Live
      BY <1>5, <2>1, <3>1 DEF LinkOf
    <3>3. next'[k.prev] = None /\ \A j \in Live : next'[j] # k.node
      BY <1>6, <1>7, <3>2 DEF LinkOf, Live
    <3>4. LinkOf(k)'
      BY <1>3, <1>8, <1>9, <3>2, <3>3 DEF LinkOf
    <3>5. Fr(q)' = k
      BY <1>4, <2>1, <3>1
    <3>6. QED
      BY <3>4, <3>5
  <2>2. QED
    BY <1>1, <1>2, <1>4, <2>1 DEF Shape, LockState
<1>13. NextState'
  <2>1. \A k \in Live : next'[k] # None => tail # k /\ slot[next'[k]] # None
    BY <1>2, <1>6, <1>7 DEF Shape, NextState, Live
  <2>2. \A j, k \in Live : next'[j] # None /\ next'[j] = next'[k] => j = k
    BY <1>2, <1>6, <1>7 DEF Shape, NextState, Live
  <2>3. QED
    BY <1>2, <1>3, <1>9, <2>1, <2>2 DEF Shape, NextState
<1>14. SlotState'
  BY <1>2, <1>3, <1>8 DEF Shape, SlotState
<1>15. CvState'
  <2>1. ~ Enters(f)
    BY <1>1 DEF Enters
  <2>2. QED
    BY <1>1, <1>2, <1>3, <1>4, <2>1 DEF Shape, CvState
<1>16. \A q, y : Publishes(q, y)' <=> Publishes(q, y)
  BY <1>1, <1>4 DEF Publishes
<1>17. EachPlaced' /\ NothingTwice'
  <2>1. \A k \in Node : slot'[k] = slot[k]
    BY <1>3
  <2>2. QED
    BY <1>2, <1>3, <1>4, <1>16, <2>1, TokensRest
<1>18. MTypeOK'
  BY <1>1, <1>2, <1>3, <1>4, <1>7 DEF MTypeOK
<1>19. QED
  BY <1>10, <1>11, <1>12, <1>13, <1>14, <1>15, <1>17, <1>18 DEF McsIInv, Shape

(* A callback of a wait goes on.                                           *)
LEMMA ShapeEnters ==
  ASSUME Shape, NEW p \in Spots, p[2] # 1, Spots' = Spots, NEW g, NEW f, f = Fr(p),
         \A q \in Spots : Fr(q)' = IF q = p THEN g ELSE Fr(q),
         f.op = "cv", g.op = "cv", g.node = f.node, CallbackOf(g),
         free' = free, tail' = tail, next' = next, slot' = slot, CvState'
  PROVE  Shape'
<1>1. FrameState'
  BY DEF Shape, FrameState
<1>2. OwnState'
  BY DEF Shape, OwnState, Live, Owns
<1>3. \A t, n : Waited(t, n) => Waited(t, n)'
  BY DEF Waited, Live
<1>4. LockState'
  <2>1. ASSUME NEW q \in Spots, Fr(q).op = "lock" PROVE LinkOf(Fr(q))'
    <3>1. PICK k : k = Fr(q)
      OBVIOUS
    <3>2. LinkOf(k) /\ Waited(k.who, k.node) /\ Fr(q)' = k
      BY <2>1, <3>1 DEF Shape, LockState, LinkOf
    <3>3. LinkOf(k)'
      BY <1>3, <3>2 DEF LinkOf, Live
    <3>4. QED
      BY <3>2, <3>3
  <2>2. \A q \in Spots : Fr(q)'.op = "lock" => q # p /\ Fr(q)' = Fr(q)
    OBVIOUS
  <2>3. QED
    BY <2>1, <2>2 DEF Shape, LockState
<1>5. NextState'
  BY DEF Shape, NextState, Live
<1>6. SlotState'
  BY <1>3 DEF Shape, SlotState
<1>7. QED
  BY <1>1, <1>2, <1>4, <1>5, <1>6 DEF Shape

(* PublishWaiter.                                                          *)
LEMMA PublishWaiters ==
  ASSUME McsIInv, NEW w \in Worker, PublishWaiter(w)
  PROVE  McsIInv'
<1> PICK p : p = TopOf(w)
  OBVIOUS
<1> PICK f : f = Top(w)
  OBVIOUS
<1> PICK x : x = f.who
  OBVIOUS
<1>1. /\ p \in Spots /\ Fr(p) = f /\ f \in Frame /\ p[2] # 1 /\ CallbackOf(f)
      /\ x \in Ult /\ x \in Desc /\ Publishes(p, x)
      /\ f.op = "cv" /\ f.step = "publish"
  BY Publishing DEF PublishWaiter
<1>2. MTypeOK /\ Shape /\ EachPlaced /\ NothingTwice
  BY DEF McsIInv
<1>3. /\ saved' = saved /\ main' = main /\ deferred' = deferred /\ rootCont' = rootCont
      /\ next' = next /\ tail' = tail /\ free' = free /\ slot' = slot
      /\ waiters' = waiters /\ cvLock' = cvLock
      /\ calls' = calls /\ cvSlot' = cvSlot \cup {x} /\ Advance(w, "unlock")
  BY DEF PublishWaiter, queues
<1>4. "unlock" \in Steps
  BY DEF Steps
<1>5. PICK g \in Frame :
           /\ g.op = f.op /\ g.who = f.who /\ g.step = "unlock" /\ g.node = f.node
           /\ g.prev = f.prev
           /\ frames' \in [Desc -> Seq(Frame)] /\ Spots' = Spots
           /\ \A q \in Spots : Fr(q)' = IF q = p THEN g ELSE Fr(q)
           /\ \A d \in Desc : frames'[d] = <<>> <=> frames[d] = <<>>
           /\ thread' = thread
  BY <1>3, <1>4, Advances
<1>6. /\ x \notin Worker /\ frames[x] # <<>> /\ x \in saved /\ x \notin cvSlot
      /\ \A u \in Worker :
             thread[u] # x /\ rootCont[u] # x /\ ~ In(main[u], x) /\ ~ In(deferred[u], x)
      /\ \A q : Publishes(q, x) <=> q = p
      /\ \A k \in Node : slot[k] # x
  BY <1>1, <1>2, CallbackPlace
<1>7. CvState'
  <2>1. Enters(f) /\ Enters(g) /\ f.step = "publish" /\ g.step # "publish"
    BY <1>1, <1>5 DEF Enters
  <2>2. /\ cvLock /\ NoTwice(waiters)
        /\ \A y : In(waiters, y) <=> y \in cvSlot \/ y = x
        /\ \A q \in Spots : Enters(Fr(q)) => q = p
    BY <1>1, <1>2, <2>1 DEF Shape, CvState
  <2>3. \A q \in Spots' : Enters(Fr(q)') => q = p
    BY <1>5, <2>2
  <2>4. Fr(p)' = g
    BY <1>1, <1>5
  <2>5. \A y : In(waiters', y) <=> y \in cvSlot'
    BY <1>3, <2>2
  <2>6. \A q \in Spots' : Enters(Fr(q)') =>
          cvLock' /\ \A y : In(waiters', y) <=>
              y \in cvSlot' \/ (Fr(q)'.step = "publish" /\ y = Fr(q)'.who)
    BY <1>3, <2>1, <2>2, <2>3, <2>4, <2>5
  <2>7. QED
    BY <1>3, <2>2, <2>3, <2>6 DEF CvState
<1>8. Shape'
  <2>1. CallbackOf(g)
    BY <1>1, <1>5 DEF CallbackOf
  <2>2. QED
    BY <1>1, <1>2, <1>3, <1>5, <1>7, <2>1, ShapeEnters
<1>9. \A q, y : Publishes(q, y)' <=> Publishes(q, y) /\ q # p
  BY <1>1, <1>5 DEF Publishes
<1>10. ASSUME NEW y \in Desc, y # x PROVE SamePlace(y)
  <2>1. ~ Publishes(p, y)
    BY <1>1, <1>10 DEF Publishes
  <2>2. QED
    BY <1>3, <1>5, <1>9, <1>10, <2>1 DEF SamePlace
<1>11. w \in Worker /\ Placed(x, "cv", w)'
  <2>1. \A q : ~ Publishes(q, x)'
    BY <1>6, <1>9
  <2>2. QED
    BY <1>1, <1>3, <1>5, <1>6, <2>1 DEF Placed
<1>12. EachPlaced'
  BY <1>1, <1>2, <1>10, <1>11, OneMoves DEF Homes
<1>13. NothingTwice'
  BY <1>2, <1>3 DEF NothingTwice
<1>14. MTypeOK'
  BY <1>1, <1>2, <1>3, <1>5 DEF MTypeOK
<1>15. QED
  BY <1>8, <1>12, <1>13, <1>14 DEF McsIInv

(* UnlockList.                                                             *)
LEMMA UnlockLists ==
  ASSUME McsIInv, NEW w \in Worker, UnlockList(w)
  PROVE  McsIInv'
<1> PICK p : p = TopOf(w)
  OBVIOUS
<1> PICK f : f = Top(w)
  OBVIOUS
<1>0. f.op = "cv" /\ f.step = "unlock"
  <2>1. /\ f.op = "task" => BaseOf(thread[w], f) /\ thread[w] \in Ult
        /\ f.op = "loop" => p[2] = 1 /\ p[1] = w /\ p \in Spots /\ Fr(p) = f
        /\ f.op \in {"lock", "cv"} => CallbackOf(f)
        /\ f \in Frame
        /\ FrameState /\ f.step = "unlock"
    BY OnTop DEF McsIInv, Shape, UnlockList
  <2>2. f.op # "task"
    BY <2>1, Kinds DEF BaseOf
  <2>3. f.op # "loop"
    BY <2>1 DEF FrameState, BaseOf, Loop
  <2>4. f.op # "lock"
    BY <2>1 DEF CallbackOf
  <2>5. QED
    BY <2>1, <2>2, <2>3, <2>4, FrameFields
<1>1. p \in Spots /\ Fr(p) = f /\ f \in Frame /\ p[2] # 1 /\ CallbackOf(f)
  BY <1>0, Publishing
<1>2. MTypeOK /\ Shape /\ EachPlaced /\ NothingTwice
  BY DEF McsIInv
<1>3. /\ saved' = saved /\ main' = main /\ deferred' = deferred /\ rootCont' = rootCont
      /\ next' = next /\ tail' = tail /\ free' = free /\ slot' = slot
      /\ waiters' = waiters /\ cvLock' = FALSE
      /\ calls' = calls /\ cvSlot' = cvSlot /\ Advance(w, "drop")
  BY DEF UnlockList, queues
<1>4. "drop" \in Steps
  BY DEF Steps
<1>5. PICK g \in Frame :
           /\ g.op = f.op /\ g.who = f.who /\ g.step = "drop" /\ g.node = f.node
           /\ g.prev = f.prev
           /\ frames' \in [Desc -> Seq(Frame)] /\ Spots' = Spots
           /\ \A q \in Spots : Fr(q)' = IF q = p THEN g ELSE Fr(q)
           /\ \A d \in Desc : frames'[d] = <<>> <=> frames[d] = <<>>
           /\ thread' = thread
  BY <1>3, <1>4, Advances
<1>6. CvState'
  <2>1. Enters(f) /\ ~ Enters(g) /\ f.step # "publish"
    BY <1>0, <1>5 DEF Enters
  <2>2. /\ NoTwice(waiters)
        /\ \A y : In(waiters, y) <=> y \in cvSlot
        /\ \A q \in Spots : Enters(Fr(q)) => q = p
    BY <1>1, <1>2, <2>1 DEF Shape, CvState
  <2>3. \A q \in Spots' : ~ Enters(Fr(q)')
    BY <1>5, <2>1, <2>2
  <2>4. QED
    BY <1>3, <2>2, <2>3 DEF CvState
<1>7. Shape'
  <2>1. CallbackOf(g)
    BY <1>0, <1>1, <1>5 DEF CallbackOf
  <2>2. QED
    BY <1>0, <1>1, <1>2, <1>3, <1>5, <1>6, <2>1, ShapeEnters
<1>8. \A q, y : Publishes(q, y)' <=> Publishes(q, y)
  BY <1>0, <1>1, <1>5 DEF Publishes
<1>9. EachPlaced' /\ NothingTwice'
  <2>1. \A k \in Node : slot'[k] = slot[k]
    BY <1>3
  <2>2. QED
    BY <1>2, <1>3, <1>5, <1>8, <2>1, TokensRest
<1>10. MTypeOK'
  BY <1>1, <1>2, <1>3, <1>5 DEF MTypeOK
<1>11. QED
  BY <1>7, <1>9, <1>10 DEF McsIInv

-----------------------------------------------------------------------------
(* notify_one, notify_all.                                                 *)

(* NotifyOne.                                                              *)
LEMMA NotifyOnes ==
  ASSUME McsIInv, NEW w \in Worker, NotifyOne(w)
  PROVE  McsIInv'
<1> PICK x : x = Head(waiters)
  OBVIOUS
<1>1. MTypeOK /\ Shape /\ EachPlaced /\ NothingTwice
  BY DEF McsIInv
<1>2. /\ thread' = thread /\ frames' = frames /\ saved' = saved /\ deferred' = deferred
      /\ rootCont' = rootCont
      /\ next' = next /\ tail' = tail /\ free' = free /\ slot' = slot /\ ~ cvLock
      /\ cvLock' = cvLock
      /\ calls' = calls /\ cvSlot' = cvSlot \ {x} /\ x \in cvSlot /\ waiters # <<>>
      /\ waiters' = Tail(waiters) /\ Push(w, x)
  BY DEF NotifyOne
<1>3. x \in Ult /\ x \in Desc
  BY <1>1, <1>2, Kinds DEF MTypeOK
<1>4. /\ NoTwice(waiters) /\ waiters \in Seq(Ult)
      /\ \A y : In(waiters, y) <=> y \in cvSlot
      /\ \A q \in Spots : ~ Enters(Fr(q))
  BY <1>1, <1>2 DEF Shape, CvState, MTypeOK
<1>5. /\ waiters' \in Seq(Ult) /\ NoTwice(waiters')
      /\ \A y : In(waiters', y) <=> In(waiters, y) /\ y # x
  BY <1>2, <1>4, InTail
<1>6. /\ x \notin Worker /\ frames[x] # <<>> /\ x \in saved
      /\ \A u \in Worker :
             thread[u] # x /\ rootCont[u] # x /\ ~ In(main[u], x) /\ ~ In(deferred[u], x)
      /\ \A p : ~ Publishes(p, x)
      /\ \A n \in Node : slot[n] # x
  BY <1>1, <1>2, <1>3, CvPlace
<1>7. /\ main' \in [Worker -> Seq(Desc)]
      /\ \A v \in Worker : NoTwice(main'[v])
      /\ \A v \in Worker, y \in Desc : In(main'[v], y) <=> In(main[v], y) \/ (v = w /\ y = x)
  BY <1>1, <1>2, <1>3, <1>6, Pushes
<1>8. Spots' = Spots /\ \A q \in Spots : Fr(q)' = Fr(q)
  BY <1>2, FramesSame
<1>9. CvState'
  BY <1>2, <1>4, <1>5, <1>8 DEF CvState
<1>10. Shape'
  BY <1>1, <1>2, <1>8, <1>9, ShapeCv
<1>11. \A q, y : Publishes(q, y)' <=> Publishes(q, y)
  BY <1>8 DEF Publishes
<1>12. \A y \in Desc : y # x => SamePlace(y)
  BY <1>2, <1>7, <1>11 DEF SamePlace
<1>13. Placed(x, "main", w)'
  <2>1. \A v \in Worker : In(main'[v], x) <=> v = w
    BY <1>3, <1>6, <1>7
  <2>2. QED
    BY <1>2, <1>3, <1>6, <1>11, <2>1 DEF Placed
<1>14. EachPlaced'
  BY <1>1, <1>3, <1>12, <1>13, OneMoves DEF Homes
<1>15. NothingTwice'
  BY <1>1, <1>2, <1>7 DEF NothingTwice
<1>16. MTypeOK'
  BY <1>1, <1>2, <1>5, <1>7 DEF MTypeOK
<1>17. QED
  BY <1>10, <1>14, <1>15, <1>16 DEF McsIInv

(* NotifyAll.                                                              *)
LEMMA NotifyAlls ==
  ASSUME McsIInv, NEW w \in Worker, NotifyAll(w)
  PROVE  McsIInv'
<1> PICK X : X = cvSlot
  OBVIOUS
<1>1. MTypeOK /\ Shape /\ EachPlaced /\ NothingTwice
  BY DEF McsIInv
<1>2. /\ thread' = thread /\ frames' = frames /\ saved' = saved /\ deferred' = deferred
      /\ rootCont' = rootCont
      /\ next' = next /\ tail' = tail /\ free' = free /\ slot' = slot /\ ~ cvLock
      /\ cvLock' = cvLock
      /\ calls' = calls /\ cvSlot' = {}
      /\ waiters' = <<>> /\ main' = [main EXCEPT ![w] = @ \o waiters]
  BY DEF NotifyAll
<1>3. X \subseteq Ult /\ \A x \in X : x \in Desc /\ x \in cvSlot
  BY <1>1, Kinds DEF MTypeOK
<1>4. /\ NoTwice(waiters) /\ waiters \in Seq(Desc)
      /\ \A y : In(waiters, y) <=> y \in X
      /\ \A q \in Spots : ~ Enters(Fr(q))
  <2>1. waiters \in Seq(Ult) /\ Ult \subseteq Desc
    BY <1>1, Kinds DEF MTypeOK
  <2>2. waiters \in Seq(Desc)
    BY <2>1
  <2>3. QED
    BY <1>1, <1>2, <2>2 DEF Shape, CvState
<1>5. \A x \in X :
      /\ x \notin Worker /\ frames[x] # <<>> /\ x \in saved
      /\ \A u \in Worker :
             thread[u] # x /\ rootCont[u] # x /\ ~ In(main[u], x) /\ ~ In(deferred[u], x)
      /\ \A p : ~ Publishes(p, x)
      /\ \A n \in Node : slot[n] # x
  BY <1>1, <1>3, CvPlace
<1>6. main[w] \in Seq(Desc) /\ NoTwice(main[w]) /\ main \in [Worker -> Seq(Desc)]
  BY <1>1 DEF MTypeOK, NothingTwice
<1>7. /\ main[w] \o waiters \in Seq(Desc) /\ NoTwice(main[w] \o waiters)
      /\ \A y : In(main[w] \o waiters, y) <=> In(main[w], y) \/ y \in X
  <2>1. \A y : ~ (In(main[w], y) /\ In(waiters, y))
    BY <1>4, <1>5
  <2>2. QED
    BY <1>4, <1>6, <2>1, InBoth
<1>8. /\ main' \in [Worker -> Seq(Desc)] /\ main'[w] = main[w] \o waiters
      /\ \A v \in Worker : v # w => main'[v] = main[v]
  <2> PICK z \in Seq(Desc) : z = main[w] \o waiters
    BY <1>7
  <2>1. main' = [main EXCEPT ![w] = z]
    BY <1>2, <1>6
  <2>2. QED
    BY <1>6, <2>1
<1>9. \A v \in Worker, y \in Desc : In(main'[v], y) <=> In(main[v], y) \/ (v = w /\ y \in X)
  <2> SUFFICES ASSUME NEW v \in Worker, NEW y \in Desc
               PROVE  In(main'[v], y) <=> In(main[v], y) \/ (v = w /\ y \in X)
    OBVIOUS
  <2>1. CASE v = w
    BY <1>7, <1>8, <2>1
  <2>2. CASE v # w
    BY <1>8, <2>2
  <2>3. QED
    BY <2>1, <2>2
<1>10. Spots' = Spots /\ \A q \in Spots : Fr(q)' = Fr(q)
  BY <1>2, FramesSame
<1>11. Shape'
  <2>1. CvState'
    BY <1>2, <1>4, <1>10, InEmpty DEF CvState
  <2>2. QED
    BY <1>1, <1>2, <1>10, <2>1, ShapeCv
<1>12. \A q, y : Publishes(q, y)' <=> Publishes(q, y)
  BY <1>10 DEF Publishes
<1>13. \A y \in Desc : y \notin X => SamePlace(y)
  BY <1>2, <1>9, <1>12 DEF SamePlace
<1>14. \A x \in Desc : x \in X => \E h \in Homes : \E u : Placed(x, h, u)'
  <2> SUFFICES ASSUME NEW x \in Desc, x \in X PROVE Placed(x, "main", w)'
    BY DEF Homes
  <2>1. \A v \in Worker : In(main'[v], x) <=> v = w
    BY <1>5, <1>9
  <2>2. QED
    BY <1>2, <1>5, <1>12, <2>1 DEF Placed
<1>15. EachPlaced'
  BY <1>1, <1>13, <1>14, OthersStay
<1>16. NothingTwice'
  <2>1. \A v \in Worker : NoTwice(main'[v])
    BY <1>1, <1>7, <1>8 DEF NothingTwice
  <2>2. QED
    BY <1>1, <1>2, <2>1 DEF NothingTwice
<1>17. MTypeOK'
  BY <1>1, <1>2, <1>8 DEF MTypeOK
<1>18. QED
  BY <1>11, <1>15, <1>16, <1>17 DEF McsIInv

-----------------------------------------------------------------------------
(* lock and wait.                                                          *)

(* NewNode: the memory was free, no slot or link of it is set, and nobody  *)
(* is linked to it.                                                        *)
LEMMA NewNodes ==
  ASSUME MTypeOK, Shape, NEW n \in Node, NewNode(n)
  PROVE  /\ n \notin Live /\ Live' = Live \cup {n} /\ free' \subseteq Node
         /\ next' \in [Node -> Node \cup {None}] /\ next'[n] = None
         /\ \A k \in Node : k # n => next'[k] = next[k]
         /\ slot' \in [Node -> Ult \cup {None}] /\ \A k \in Node : slot'[k] = slot[k]
         /\ slot[n] = None /\ \A k \in Live : next[k] # n
<1>1. n \in free /\ free' = free \ {n}
  BY DEF NewNode
<1>2. n \notin Live /\ Live' = Live \cup {n} /\ free' \subseteq Node
  BY <1>1 DEF Live, MTypeOK
<1>3. slot[n] = None
  BY <1>2 DEF Shape, SlotState, Waited
<1>4. n # None /\ \A k \in Live : next[k] # n
  BY <1>3, Kinds DEF Shape, NextState
<1>5. /\ next' \in [Node -> Node \cup {None}] /\ next'[n] = None
      /\ \A k \in Node : k # n => next'[k] = next[k]
  BY DEF NewNode, MTypeOK
<1>6. /\ slot' \in [Node -> Ult \cup {None}] /\ slot'[n] = None
      /\ \A k \in Node : k # n => slot'[k] = slot[k]
  BY DEF NewNode, MTypeOK
<1>7. QED
  BY <1>2, <1>3, <1>4, <1>5, <1>6

(* Lock: a task takes node n; if it suspends, the callback is above        *)
(* another stack.                                                          *)
LEMMA ShapeLocks ==
  ASSUME MTypeOK, Shape, NEW t \in Ult, NEW p \in Spots, p = <<t, 1>>,
         Fr(p).op = "task", Fr(p).step \in {"out", "relock"}, Fr(p).node = None,
         NEW n \in Node, NewNode(n), tail' = n,
         NEW g, BaseOf(t, g), g.op = "task", g.node = n, g.step \in {"in", "waited"},
         \A q \in Spots : q \in Spots' /\ Fr(q)' = IF q = p THEN g ELSE Fr(q),
         \A z \in Spots' : z \notin Spots =>
            /\ z[2] # 1 /\ CallbackOf(Fr(z)') /\ Fr(z)'.op = "lock" /\ Fr(z)'.step = "publish"
            /\ Fr(z)'.who = t /\ Fr(z)'.node = n /\ Fr(z)'.prev = tail /\ tail # None
            /\ g.step = "waited",
         \A y, z \in Spots' : y \notin Spots /\ z \notin Spots => y = z,
         waiters' = waiters, cvSlot' = cvSlot, cvLock' = cvLock
  PROVE  Shape'
<1>1. /\ n \notin Live /\ Live' = Live \cup {n}
      /\ next' \in [Node -> Node \cup {None}] /\ next'[n] = None
      /\ \A k \in Node : k # n => next'[k] = next[k]
      /\ slot' \in [Node -> Ult \cup {None}] /\ \A k \in Node : slot'[k] = slot[k]
      /\ slot[n] = None /\ \A k \in Live : next[k] # n
      /\ n # None
  BY NewNodes, Kinds
<1>2. Live \subseteq Node
  BY DEF Live
<1>3. FrameState'
  <2>1. ASSUME NEW q \in Spots'
        PROVE  IF q[2] = 1 THEN BaseOf(q[1], Fr(q)') ELSE CallbackOf(Fr(q)')
    <3>1. CASE q \notin Spots
      BY <3>1
    <3>2. CASE q \in Spots /\ q # p
      BY <3>2 DEF Shape, FrameState
    <3>3. CASE q = p
      BY <3>3
    <3>4. QED
      BY <3>1, <3>2, <3>3
  <2>2. QED
    BY <2>1 DEF FrameState
<1>4. \A q \in Spots' : Owns(Fr(q)') =>
          q = p \/ (q \in Spots /\ q # p /\ Fr(q)' = Fr(q) /\ Owns(Fr(q)))
  BY DEF Owns
<1>5. OwnState'
  <2>1. \A q \in Spots : Owns(Fr(q)) => Fr(q).node \in Live /\ Fr(q).node # n
    BY <1>1 DEF Shape, OwnState
  <2>2. Fr(p)' = g
    OBVIOUS
  <2>3. ASSUME NEW q \in Spots', Owns(Fr(q)') PROVE Fr(q)'.node \in Live'
    BY <1>1, <1>4, <2>1, <2>2, <2>3
  <2>4. ASSUME NEW q \in Spots', NEW r \in Spots', Owns(Fr(q)'), Owns(Fr(r)'),
               Fr(q)'.node = Fr(r)'.node
        PROVE  q = r
    BY <1>4, <2>1, <2>2, <2>4 DEF Shape, OwnState
  <2>5. QED
    BY <2>3, <2>4 DEF OwnState
<1>6. ASSUME NEW u, NEW m, Waited(u, m) PROVE Waited(u, m)'
  <2>1. p # <<u, 1>> /\ <<u, 1>> \in Spots
    BY <1>6 DEF Waited
  <2>2. QED
    BY <1>1, <1>6, <2>1 DEF Waited
<1>7. ASSUME NEW q \in Spots, Fr(q).op = "lock"
      PROVE  Fr(q)' = Fr(q) /\ LinkOf(Fr(q))' /\ Fr(q).node # n /\ Fr(q).prev # tail
  <2>1. PICK k : k = Fr(q)
    OBVIOUS
  <2>2. LinkOf(k) /\ Waited(k.who, k.node) /\ k.node \in Live /\ k.prev \in Live /\ k.node # None
    BY <1>2, <1>7, <2>1, Kinds DEF Shape, LockState, LinkOf, Waited
  <2>3. q # p /\ Fr(q)' = k
    BY <1>7, <2>1
  <2>4. /\ next'[k.prev] = None /\ tail' # k.prev /\ slot'[k.node] = slot[k.node]
        /\ \A j \in Live' : next'[j] # k.node
    BY <1>1, <1>2, <2>2 DEF LinkOf
  <2>5. LinkOf(k)'
    BY <1>1, <1>6, <2>2, <2>4 DEF LinkOf
  <2>6. k.node # n /\ k.prev # tail
    BY <1>1, <2>2 DEF LinkOf
  <2>7. QED
    BY <2>1, <2>3, <2>5, <2>6
<1>8. ASSUME NEW q \in Spots', q \notin Spots PROVE LinkOf(Fr(q))'
  <2>1. tail \in Live /\ next[tail] = None /\ tail # n
    BY <1>1, <1>8 DEF Shape, NextState
  <2>2. PICK k : k = Fr(q)'
    OBVIOUS
  <2>3. k.who = t /\ k.node = n /\ k.prev = tail /\ k.step = "publish" /\ g.step = "waited"
    BY <1>8, <2>2
  <2>4. Waited(t, n)'
    <3>1. p \in Spots' /\ Fr(p)' = g
      OBVIOUS
    <3>2. QED
      BY <1>1, <2>3, <3>1 DEF Waited
  <2>5. next'[k.prev] = None /\ \A j \in Live' : next'[j] # n
    BY <1>1, <1>2, <2>1, <2>3
  <2>6. LinkOf(k)'
    BY <1>1, <2>1, <2>3, <2>4, <2>5 DEF LinkOf
  <2>7. QED
    BY <2>2, <2>6
<1>9. LockState'
  <2>1. \A q \in Spots' : Fr(q)'.op = "lock" => LinkOf(Fr(q))'
    <3> SUFFICES ASSUME NEW q \in Spots', Fr(q)'.op = "lock" PROVE LinkOf(Fr(q))'
      OBVIOUS
    <3>1. CASE q \in Spots
      <4>1. Fr(q).op = "lock"
        BY <3>1
      <4>2. QED
        BY <1>7, <3>1, <4>1
    <3>2. CASE q \notin Spots
      BY <1>8, <3>2
    <3>3. QED
      BY <3>1, <3>2
  <2>2. ASSUME NEW q \in Spots', NEW r \in Spots', Fr(q)'.op = "lock", Fr(r)'.op = "lock",
               Fr(q)'.node = Fr(r)'.node \/ Fr(q)'.prev = Fr(r)'.prev
        PROVE  q = r
    <3>1. \A k \in Spots : Fr(k)'.op = "lock" =>
              Fr(k).op = "lock" /\ Fr(k)' = Fr(k) /\ Fr(k).node # n /\ Fr(k).prev # tail
      <4> SUFFICES ASSUME NEW k \in Spots, Fr(k)'.op = "lock"
                   PROVE  Fr(k).op = "lock" /\ Fr(k)' = Fr(k) /\ Fr(k).node # n
                            /\ Fr(k).prev # tail
        OBVIOUS
      <4>1. Fr(k).op = "lock"
        OBVIOUS
      <4>2. QED
        BY <1>7, <4>1
    <3>2. CASE q \in Spots /\ r \in Spots
      BY <2>2, <3>1, <3>2 DEF Shape, LockState
    <3>3. CASE q \notin Spots /\ r \notin Spots
      BY <3>3
    <3>4. CASE q \in Spots /\ r \notin Spots
      BY <2>2, <3>1, <3>4
    <3>5. CASE q \notin Spots /\ r \in Spots
      BY <2>2, <3>1, <3>5
    <3>6. QED
      BY <3>2, <3>3, <3>4, <3>5
  <2>3. QED
    BY <2>1, <2>2 DEF LockState
<1>10. NextState'
  <2>1. /\ \A k \in Live : next[k] # None => next[k] \in Node /\ slot[next[k]] # None
        /\ \A k, m \in Live : next[k] # None /\ next[k] = next[m] => m = k
    BY <1>2 DEF Shape, NextState, MTypeOK
  <2>2. \A k \in Live' : next'[k] # None => k \in Live /\ k # n /\ next'[k] = next[k]
    BY <1>1, <1>2
  <2>3. \A k \in Live' : next'[k] # None => tail' # k /\ slot'[next'[k]] # None
    BY <1>1, <2>1, <2>2
  <2>4. \A k, m \in Live' : next'[k] # None /\ next'[k] = next'[m] => k = m
    BY <2>1, <2>2
  <2>5. QED
    BY <1>1, <2>3, <2>4 DEF NextState
<1>11. SlotState'
  <2>1. ASSUME NEW k \in Node, slot'[k] # None PROVE Waited(slot[k], k)'
    <3>1. PICK u : u = slot'[k]
      OBVIOUS
    <3>2. Waited(u, k)
      BY <1>1, <2>1, <3>1 DEF Shape, SlotState
    <3>3. Waited(u, k)'
      BY <1>6, <3>2
    <3>4. QED
      BY <3>1, <3>3
  <2>2. QED
    BY <2>1 DEF SlotState
<1>12. CvState'
  <2>1. \A q \in Spots' : Enters(Fr(q)') => q \in Spots /\ Fr(q)' = Fr(q)
    BY DEF Enters
  <2>2. QED
    BY <2>1 DEF Shape, CvState
<1>13. QED
  BY <1>3, <1>5, <1>9, <1>10, <1>11, <1>12 DEF Shape

(* Lock, which goes on or suspends.                                        *)
LEMMA Locks ==
  ASSUME McsIInv, NEW w \in Worker, Lock(w)
  PROVE  McsIInv'
<1> PICK p : p = TopOf(w)
  OBVIOUS
<1> PICK f : f = Top(w)
  OBVIOUS
<1> PICK t : t = thread[w]
  OBVIOUS
<1>1. /\ f.op = "task" /\ f.step \in {"out", "relock"} /\ calls' \in 0 .. MaxCalls
      /\ waiters' = waiters /\ cvSlot' = cvSlot /\ cvLock' = cvLock
  <2>1. /\ f.op = "task" /\ f.step \in {"out", "relock"}
        /\ waiters' = waiters /\ cvSlot' = cvSlot /\ cvLock' = cvLock
        /\ calls' = calls \/ (calls < MaxCalls /\ calls' = calls + 1)
    BY DEF Lock, AtTask
  <2>2. calls \in 0 .. MaxCalls /\ MaxCalls \in Nat
    BY McsAssumption DEF McsIInv, MTypeOK
  <2>3. QED
    BY <2>1, <2>2
<1>2. /\ MTypeOK /\ Shape /\ EachPlaced /\ NothingTwice
      /\ p \in Spots /\ Fr(p) = f /\ f \in Frame /\ p = <<t, 1>> /\ t \in Ult /\ BaseOf(t, f)
      /\ frames[thread[w]] # <<>>
  BY <1>1, OnTop DEF McsIInv
<1>3. t \notin Worker /\ t \in Desc /\ f.node = None /\ f.who = t
  BY <1>1, <1>2, Kinds DEF BaseOf
<1>0. PICK n \in Node :
       /\ NewNode(n)
       /\ tail' = n
       /\ \/ /\ tail = None
             /\ frames' = WithTop(w, [f EXCEPT !.step = "in", !.node = n])
             /\ UNCHANGED <<thread, saved, queues>>
          \/ /\ tail # None
             /\ SuspendToSched(w, [f EXCEPT !.step = "waited", !.node = n],
                  [op |-> "lock", who |-> t, step |-> "publish", wk |-> w, node |-> n,
                   prev |-> tail])
  BY DEF Lock
<1>4. /\ free' \subseteq Node /\ next' \in [Node -> Node \cup {None}]
      /\ slot' \in [Node -> Ult \cup {None}] /\ \A k \in Node : slot'[k] = slot[k]
      /\ n # None
  BY <1>0, <1>2, NewNodes, Kinds
<1>5. /\ Fr(p).op = "task" /\ Fr(p).step \in {"out", "relock"} /\ Fr(p).node = None
      /\ NewNode(n) /\ tail' = n
  BY <1>0, <1>1, <1>2, <1>3
<1>6. CASE /\ tail = None
           /\ frames' = WithTop(w, [f EXCEPT !.step = "in", !.node = n])
           /\ UNCHANGED <<thread, saved, queues>>
  <2>0. PICK g : g = [f EXCEPT !.step = "in", !.node = n]
    OBVIOUS
  <2>1. g \in Frame /\ g.op = "task" /\ g.who = t /\ g.step = "in" /\ g.node = n
    BY <1>1, <1>2, <1>3, <2>0 DEF Frame
  <2>2. frames' = WithTop(w, g)
    BY <1>6, <2>0
  <2>3. /\ frames' \in [Desc -> Seq(Frame)] /\ Spots' = Spots
        /\ \A q \in Spots : Fr(q)' = IF q = p THEN g ELSE Fr(q)
        /\ \A d \in Desc : frames'[d] = <<>> <=> frames[d] = <<>>
    BY <1>2, <2>1, <2>2, Retopped
  <2>4. Shape'
    <3>1. BaseOf(t, g) /\ g.step \in {"in", "waited"}
      BY <1>2, <1>3, <1>4, <2>1 DEF BaseOf
    <3>2. \A q \in Spots : q \in Spots' /\ Fr(q)' = IF q = p THEN g ELSE Fr(q)
      BY <2>3
    <3>3. \A q \in Spots' : q \notin Spots =>
            /\ q[2] # 1 /\ CallbackOf(Fr(q)') /\ Fr(q)'.op = "lock" /\ Fr(q)'.step = "publish"
            /\ Fr(q)'.who = t /\ Fr(q)'.node = n /\ Fr(q)'.prev = tail /\ tail # None
            /\ g.step = "waited"
      BY <2>3
    <3>4. \A y, q \in Spots' : y \notin Spots /\ q \notin Spots => y = q
      BY <2>3
    <3>5. /\ MTypeOK /\ Shape /\ t \in Ult /\ p \in Spots /\ p = <<t, 1>>
          /\ g.op = "task" /\ g.node = n /\ waiters' = waiters /\ cvSlot' = cvSlot
          /\ cvLock' = cvLock
      BY <1>1, <1>2, <2>1
    <3>6. QED
      BY <1>5, <3>1, <3>2, <3>3, <3>4, <3>5, ShapeLocks
  <2>5. /\ thread' = thread /\ saved' = saved /\ main' = main /\ deferred' = deferred
        /\ rootCont' = rootCont
    BY <1>6 DEF queues
  <2>6. \A q, y : Publishes(q, y)' <=> Publishes(q, y)
    BY <1>1, <1>2, <2>1, <2>3 DEF Publishes
  <2>7. EachPlaced' /\ NothingTwice'
    BY <1>1, <1>2, <1>4, <2>3, <2>5, <2>6, TokensRest
  <2>8. MTypeOK'
    BY <1>1, <1>2, <1>4, <1>5, <2>3, <2>5 DEF MTypeOK
  <2>9. QED
    BY <2>4, <2>7, <2>8 DEF McsIInv
<1>7. CASE /\ tail # None
           /\ SuspendToSched(w, [f EXCEPT !.step = "waited", !.node = n],
                [op |-> "lock", who |-> t, step |-> "publish", wk |-> w, node |-> n,
                 prev |-> tail])
  <2>9. PICK g : g = [f EXCEPT !.step = "waited", !.node = n]
    OBVIOUS
  <2>0. PICK c : c = [op |-> "lock", who |-> t, step |-> "publish", wk |-> w, node |-> n,
                      prev |-> tail]
    OBVIOUS
  <2>1. g \in Frame /\ g.op = "task" /\ g.who = t /\ g.step = "waited" /\ g.node = n
    BY <1>1, <1>2, <1>3, <2>9 DEF Frame
  <2>2. /\ c \in Frame /\ c.op = "lock" /\ c.who = t /\ c.step = "publish" /\ c.node = n
        /\ c.prev = tail
        /\ CallbackOf(c)
    <3>1. tail \in Node \cup {None}
      BY <1>2 DEF MTypeOK
    <3>2. /\ c \in Frame /\ c.op = "lock" /\ c.who = t /\ c.step = "publish" /\ c.node = n
          /\ c.prev = tail
      BY <1>3, <2>0, <3>1 DEF Frame
    <3>3. QED
      BY <1>2, <1>4, <1>7, <3>2 DEF CallbackOf
  <2>3. SuspendToSched(w, g, c) /\ g.step # "publish" /\ c.who = thread[w] /\ Top(w).op = "task"
    BY <1>1, <1>7, <2>0, <2>1, <2>2, <2>9
  <2>4. /\ thread' \in [Worker -> Desc] /\ frames' \in [Desc -> Seq(Frame)]
        /\ saved' \subseteq Desc
        /\ main' \in [Worker -> Seq(Desc)] /\ deferred' \in [Worker -> Seq(Desc)]
        /\ rootCont' \in [Worker -> Worker \cup {None}]
        /\ NothingTwice' /\ EachPlaced'
        /\ \E z : Called(p, g, c, z)
    <3>1. g \in Frame /\ c \in Frame /\ c.step = "publish"
      BY <2>1, <2>2
    <3>2. (\A k \in Node : slot'[k] = slot[k]) /\ cvSlot' = cvSlot
      BY <1>1, <1>4
    <3>3. QED
      BY <2>3, <3>1, <3>2, Suspends
  <2>5. PICK z : /\ z \notin Spots /\ z[2] # 1 /\ Fr(z)' = c
                 /\ (\A q : q \in Spots' <=> q \in Spots \/ q = z)
                 /\ \A q \in Spots : Fr(q)' = IF q = p THEN g ELSE Fr(q)
    BY <2>4 DEF Called
  <2>6. Shape'
    <3>1. BaseOf(t, g) /\ g.step \in {"in", "waited"}
      BY <1>2, <1>3, <1>4, <2>1 DEF BaseOf
    <3>2. /\ \A q \in Spots : q \in Spots' /\ Fr(q)' = IF q = p THEN g ELSE Fr(q)
          /\ \A q \in Spots' : q \notin Spots => q = z
      BY <2>5
    <3>3. \A q \in Spots' : q \notin Spots =>
            /\ q[2] # 1 /\ CallbackOf(Fr(q)') /\ Fr(q)'.op = "lock" /\ Fr(q)'.step = "publish"
            /\ Fr(q)'.who = t /\ Fr(q)'.node = n /\ Fr(q)'.prev = tail /\ tail # None
            /\ g.step = "waited"
      BY <1>7, <2>1, <2>2, <2>5, <3>2
    <3>4. \A y, q \in Spots' : y \notin Spots /\ q \notin Spots => y = q
      BY <3>2
    <3>5. /\ MTypeOK /\ Shape /\ t \in Ult /\ p \in Spots /\ p = <<t, 1>>
          /\ g.op = "task" /\ g.node = n /\ waiters' = waiters /\ cvSlot' = cvSlot
          /\ cvLock' = cvLock
      BY <1>1, <1>2, <2>1
    <3>6. \A q \in Spots : q \in Spots' /\ Fr(q)' = IF q = p THEN g ELSE Fr(q)
      BY <3>2
    <3>7. QED
      BY <1>5, <3>1, <3>3, <3>4, <3>5, <3>6, ShapeLocks
  <2>7. MTypeOK'
    BY <1>1, <1>2, <1>4, <1>5, <2>4 DEF MTypeOK
  <2>8. QED
    BY <2>4, <2>6, <2>7 DEF McsIInv
<1>8. QED
  BY <1>0, <1>6, <1>7

(* Wait: the guard of the task becomes its callback's, with the lock of    *)
(* the list.                                                               *)
LEMMA ShapeWaits ==
  ASSUME Shape, waiters \in Seq(Ult), NEW t \in Ult, NEW p \in Spots, p = <<t, 1>>,
         NEW f, f = Fr(p), f.op = "task", f.step = "in", f.node # None,
         NEW g, BaseOf(t, g), g.op = "task", g.node = None, g.step = "relock",
         NEW c, c.op = "cv", c.step = "publish", c.who = t, c.node = f.node, CallbackOf(c),
         NEW z, Called(p, g, c, z), t \notin cvSlot, ~ cvLock, cvLock' = TRUE,
         waiters' = Append(waiters, t),
         free' = free, tail' = tail, next' = next, slot' = slot, cvSlot' = cvSlot
  PROVE  Shape'
<1>1. /\ z \notin Spots /\ z[2] # 1 /\ Fr(z)' = c /\ Fr(p)' = g /\ p # z
      /\ \A q : q \in Spots' <=> q \in Spots \/ q = z
      /\ \A q \in Spots : q # p => Fr(q)' = Fr(q)
  BY DEF Called
<1>2. FrameState'
  <2>1. ASSUME NEW q \in Spots'
        PROVE  IF q[2] = 1 THEN BaseOf(q[1], Fr(q)') ELSE CallbackOf(Fr(q)')
    <3>1. CASE q = z
      BY <1>1, <3>1
    <3>2. CASE q = p
      BY <1>1, <3>2
    <3>3. CASE q # z /\ q # p
      BY <1>1, <2>1, <3>3 DEF Shape, FrameState
    <3>4. QED
      BY <3>1, <3>2, <3>3
  <2>2. QED
    BY <2>1 DEF FrameState
<1>3. OwnState'
  <2>1. Owns(f) /\ ~ Owns(g) /\ Owns(c)
    BY DEF Owns
  <2>2. /\ f.node \in Live /\ \A q \in Spots : Owns(Fr(q)) => Fr(q).node \in Live
        /\ \A q \in Spots : Owns(Fr(q)) /\ Fr(q).node = f.node => q = p
        /\ \A q, r \in Spots : Owns(Fr(q)) /\ Owns(Fr(r)) /\ Fr(q).node = Fr(r).node => q = r
    BY <2>1 DEF Shape, OwnState
  <2>3. \A q \in Spots' : Owns(Fr(q)') =>
          (q = z /\ Fr(q)' = c) \/ (q \in Spots /\ q # p /\ Fr(q)' = Fr(q) /\ Owns(Fr(q)))
    BY <1>1, <2>1
  <2>4. Live' = Live
    BY DEF Live
  <2>5. ASSUME NEW q \in Spots', Owns(Fr(q)') PROVE Fr(q)'.node \in Live'
    BY <2>2, <2>3, <2>4, <2>5
  <2>6. ASSUME NEW q \in Spots', NEW r \in Spots', Owns(Fr(q)'), Owns(Fr(r)'),
               Fr(q)'.node = Fr(r)'.node
        PROVE  q = r
    BY <2>2, <2>3, <2>6
  <2>7. QED
    BY <2>5, <2>6 DEF OwnState
<1>4. \A u, m : Waited(u, m) => Waited(u, m)'
  <2> SUFFICES ASSUME NEW u, NEW m, Waited(u, m) PROVE Waited(u, m)'
    OBVIOUS
  <2>1. <<u, 1>> # p /\ <<u, 1>> \in Spots
    BY DEF Waited
  <2>2. QED
    BY <1>1, <2>1 DEF Waited, Live
<1>5. \A q \in Spots' : Fr(q)'.op = "lock" =>
          q \in Spots /\ q # p /\ Fr(q)' = Fr(q) /\ Fr(q).op = "lock"
  BY <1>1
<1>6. LockState'
  <2>1. ASSUME NEW q \in Spots', Fr(q)'.op = "lock" PROVE LinkOf(Fr(q))'
    <3>1. PICK k : k = Fr(q)
      OBVIOUS
    <3>2. LinkOf(k) /\ Waited(k.who, k.node) /\ Fr(q)' = k
      BY <1>5, <2>1, <3>1 DEF Shape, LockState, LinkOf
    <3>3. LinkOf(k)'
      BY <1>4, <3>2 DEF LinkOf, Live
    <3>4. QED
      BY <3>2, <3>3
  <2>2. \A q, r \in Spots' : Fr(q)'.op = "lock" /\ Fr(r)'.op = "lock"
          /\ (Fr(q)'.node = Fr(r)'.node \/ Fr(q)'.prev = Fr(r)'.prev) => q = r
    BY <1>5 DEF Shape, LockState
  <2>3. QED
    BY <2>1, <2>2 DEF LockState
<1>7. NextState'
  BY DEF Shape, NextState, Live
<1>8. SlotState'
  <2>1. ASSUME NEW k \in Node, slot'[k] # None PROVE Waited(slot[k], k)'
    <3>1. PICK u : u = slot'[k]
      OBVIOUS
    <3>2. Waited(u, k)
      BY <2>1, <3>1 DEF Shape, SlotState
    <3>3. Waited(u, k)'
      BY <1>4, <3>2
    <3>4. QED
      BY <3>1, <3>3
  <2>2. QED
    BY <2>1 DEF SlotState
<1>9. CvState'
  <2>1. /\ NoTwice(waiters) /\ ~ In(waiters, t)
        /\ \A y : In(waiters, y) <=> y \in cvSlot
        /\ \A q \in Spots : ~ Enters(Fr(q))
    BY DEF Shape, CvState
  <2>2. /\ NoTwice(waiters')
        /\ \A y : In(waiters', y) <=> y \in cvSlot' \/ y = t
    BY <2>1, InAppend
  <2>3. ~ Enters(g)
    BY DEF Enters
  <2>4. \A q \in Spots' : Enters(Fr(q)') => q = z
    BY <1>1, <2>1, <2>3
  <2>5. \A q \in Spots' : Enters(Fr(q)') =>
          cvLock' /\ \A y : In(waiters', y) <=>
              y \in cvSlot' \/ (Fr(q)'.step = "publish" /\ y = Fr(q)'.who)
    BY <1>1, <2>2, <2>4
  <2>6. QED
    BY <2>2, <2>4, <2>5 DEF CvState
<1>10. QED
  BY <1>2, <1>3, <1>6, <1>7, <1>8, <1>9 DEF Shape

(* Wait.                                                                   *)
LEMMA WaitsFor ==
  ASSUME McsIInv, NEW w \in Worker, Wait(w)
  PROVE  McsIInv'
<1> PICK p : p = TopOf(w)
  OBVIOUS
<1> PICK f : f = Top(w)
  OBVIOUS
<1> PICK t : t = thread[w]
  OBVIOUS
<1>1. /\ f.op = "task" /\ f.step = "in" /\ calls' \in 0 .. MaxCalls /\ ~ cvLock /\ cvLock' = TRUE
      /\ waiters' = Append(waiters, t)
      /\ tail' = tail /\ next' = next /\ slot' = slot /\ free' = free /\ cvSlot' = cvSlot
      /\ SuspendToSched(w, [f EXCEPT !.step = "relock", !.node = None],
           [op |-> "cv", who |-> t, step |-> "publish", wk |-> w, node |-> f.node, prev |-> None])
  <2>1. /\ f.op = "task" /\ f.step = "in" /\ ~ cvLock /\ cvLock' = TRUE
        /\ waiters' = Append(waiters, t)
        /\ tail' = tail /\ next' = next /\ slot' = slot /\ free' = free /\ cvSlot' = cvSlot
        /\ SuspendToSched(w, [f EXCEPT !.step = "relock", !.node = None],
             [op |-> "cv", who |-> t, step |-> "publish", wk |-> w, node |-> f.node,
              prev |-> None])
        /\ calls < MaxCalls /\ calls' = calls + 1
    BY DEF Wait, AtTask
  <2>2. calls \in 0 .. MaxCalls /\ MaxCalls \in Nat
    BY McsAssumption DEF McsIInv, MTypeOK
  <2>3. calls' \in 0 .. MaxCalls
    BY <2>1, <2>2
  <2>4. QED
    BY <2>1, <2>3
<1>2. /\ MTypeOK /\ Shape /\ EachPlaced /\ NothingTwice
      /\ p \in Spots /\ Fr(p) = f /\ f \in Frame /\ p = <<t, 1>> /\ t \in Ult /\ BaseOf(t, f)
  BY <1>1, OnTop DEF McsIInv
<1>3. t \notin Worker /\ t \in Desc /\ f.node \in Node /\ f.node # None /\ f.who = t
  BY <1>1, <1>2, Kinds, FrameFields DEF BaseOf
<1>4. PICK g : g = [f EXCEPT !.step = "relock", !.node = None]
  OBVIOUS
<1>5. PICK c : c = [op |-> "cv", who |-> t, step |-> "publish", wk |-> w, node |-> f.node,
                    prev |-> None]
  OBVIOUS
<1>6. g \in Frame /\ g.op = "task" /\ g.who = t /\ g.step = "relock" /\ g.node = None
  BY <1>1, <1>2, <1>3, <1>4 DEF Frame
<1>7. c \in Frame /\ c.op = "cv" /\ c.who = t /\ c.step = "publish" /\ c.node = f.node
  BY <1>3, <1>5 DEF Frame
<1>8. BaseOf(t, g) /\ CallbackOf(c)
  BY <1>2, <1>3, <1>6, <1>7 DEF BaseOf, CallbackOf
<1>9. SuspendToSched(w, g, c) /\ g.step # "publish" /\ c.who = thread[w] /\ Top(w).op = "task"
  BY <1>1, <1>4, <1>5, <1>6, <1>7
<1>10. /\ thread' \in [Worker -> Desc] /\ frames' \in [Desc -> Seq(Frame)]
       /\ saved' \subseteq Desc
       /\ main' \in [Worker -> Seq(Desc)] /\ deferred' \in [Worker -> Seq(Desc)]
       /\ rootCont' \in [Worker -> Worker \cup {None}]
       /\ NothingTwice' /\ EachPlaced'
       /\ \E z : Called(p, g, c, z)
  <2>1. g \in Frame /\ c \in Frame /\ c.step = "publish"
    BY <1>6, <1>7
  <2>2. (\A k \in Node : slot'[k] = slot[k]) /\ cvSlot' = cvSlot
    BY <1>1
  <2>3. QED
    BY <1>9, <2>1, <2>2, Suspends
<1>11. PICK z : Called(p, g, c, z)
  BY <1>10
<1>12. t \notin cvSlot
  BY <1>2, <1>3, RunnerPlace
<1>13. waiters \in Seq(Ult) /\ Append(waiters, t) \in Seq(Ult)
  BY <1>2 DEF MTypeOK
<1>14. Shape'
  <2>1. f = Fr(p)
    BY <1>2
  <2>2. QED
    BY <1>1, <1>2, <1>3, <1>6, <1>7, <1>8, <1>11, <1>12, <1>13, <2>1, ShapeWaits
<1>15. MTypeOK'
  BY <1>1, <1>2, <1>10, <1>13 DEF MTypeOK
<1>16. QED
  BY <1>10, <1>14, <1>15 DEF McsIInv

-----------------------------------------------------------------------------
(* The invariant holds at first, and every step keeps it.                  *)

(* SetToSeq: the tasks come to the queue in some order, each once.         *)
LEMMA AllOnce ==
  /\ SetToSeq(Ult) \in Seq(Desc) /\ NoTwice(SetToSeq(Ult))
  /\ \A x : In(SetToSeq(Ult), x) <=> x \in Ult
<1> DEFINE k == Cardinality(Ult)
           s == SetToSeq(Ult)
<1>1. k \in Nat /\ ExistsBijection(1 .. k, Ult)
  BY SchedAssumption, FS_CardinalityType
<1>2. PICK f \in Bijection(1 .. k, Ult) : TRUE
  BY <1>1 DEF ExistsBijection
<1>3. f \in [1 .. k -> Ult] /\ IsInjective(f)
  BY DEF Bijection, Injection, IsInjective
<1>4. s \in [1 .. k -> Ult] /\ IsInjective(s)
  BY <1>3 DEF SetToSeq
<1> HIDE DEF s
<1>5. s \in Injection(1 .. k, Ult)
  BY <1>4 DEF Injection
<1>6. IsFiniteSet(1 .. k) /\ Cardinality(1 .. k) = k
  <2> HIDE DEF k
  <2>1. Cardinality(1 .. k) = IF 1 > k THEN 0 ELSE k - 1 + 1
    BY <1>1, FS_Interval
  <2>2. (IF 1 > k THEN 0 ELSE k - 1 + 1) = k
    BY <1>1
  <2>3. QED
    BY <1>1, <2>1, <2>2, FS_Interval
<1>7. s \in Surjection(1 .. k, Ult)
  BY <1>5, <1>6, SchedAssumption, FS_Injection
<1> HIDE DEF k
<1>8. (\A n \in 1 .. k : s[n] \in Ult) /\ \A x \in Ult : \E n \in 1 .. k : s[n] = x
  BY <1>4, <1>7 DEF Surjection
<1>9. s \in Seq(Desc) /\ Len(s) = k
  <2>1. \A n \in 1 .. k : s[n] \in Desc
    BY <1>8, Kinds
  <2>2. s = [n \in 1 .. k |-> s[n]]
    BY <1>4
  <2>3. [n \in 1 .. k |-> s[n]] \in Seq(Desc) /\ Len([n \in 1 .. k |-> s[n]]) = k
    BY <1>1, <2>1
  <2>4. QED
    BY <2>2, <2>3
<1>10. NoTwice(s)
  BY <1>4, <1>9 DEF NoTwice, IsInjective
<1>11. \A x : In(s, x) <=> x \in Ult
  BY <1>8, <1>9 DEF In
<1>12. QED
  BY <1>9, <1>10, <1>11 DEF s

(* The initial states.                                                     *)
LEMMA Starts ==
  ASSUME Init
  PROVE  McsIInv
<1> DEFINE first == CHOOSE w \in Worker : TRUE
           all == SetToSeq(Ult)
<1>1. first \in Worker
  BY SchedAssumption
<1>2. /\ all \in Seq(Desc) /\ NoTwice(all)
      /\ \A x : In(all, x) <=> x \in Ult
  BY AllOnce
<1> HIDE DEF first, all
<1>3. /\ thread = [w \in Worker |-> w] /\ saved = Ult
      /\ frames = [d \in Desc |-> IF d \in Worker THEN <<Loop(d)>> ELSE <<Task(d)>>]
      /\ main = [w \in Worker |-> IF w = first THEN all ELSE <<>>]
      /\ deferred = [w \in Worker |-> <<>>] /\ rootCont = [w \in Worker |-> None]
  BY DEF Init, SchedInit, first, all
<1>4. /\ tail = None /\ next = [n \in Node |-> None] /\ slot = [n \in Node |-> None]
      /\ free = Node /\ waiters = <<>> /\ cvSlot = {} /\ cvLock = FALSE /\ calls = 0
  BY DEF Init
<1>5. /\ \A d \in Worker : Loop(d) \in Frame /\ Loop(d).op = "loop" /\ Loop(d).step = "loop"
      /\ \A d \in Ult : /\ Task(d) \in Frame /\ Task(d).op = "task" /\ Task(d).who = d
                      /\ Task(d).step = "out" /\ Task(d).node = None
  BY Kinds DEF Loop, Task, Frame
<1>6. \A d \in Desc : /\ frames[d] \in Seq(Frame) /\ Len(frames[d]) = 1 /\ frames[d] # <<>>
                     /\ frames[d][1] = IF d \in Worker THEN Loop(d) ELSE Task(d)
  <2> SUFFICES ASSUME NEW d \in Desc
               PROVE  /\ frames[d] \in Seq(Frame) /\ Len(frames[d]) = 1 /\ frames[d] # <<>>
                      /\ frames[d][1] = IF d \in Worker THEN Loop(d) ELSE Task(d)
    OBVIOUS
  <2> PICK f \in Frame : f = IF d \in Worker THEN Loop(d) ELSE Task(d)
    BY <1>5, Kinds
  <2>1. frames[d] = <<f>>
    BY <1>3
  <2>2. QED
    BY <2>1
<1>7. /\ \A w \in Worker : /\ thread[w] = w /\ deferred[w] = <<>> /\ rootCont[w] = None
                         /\ main[w] = IF w = first THEN all ELSE <<>>
      /\ \A n \in Node : next[n] = None /\ slot[n] = None
  BY <1>3, <1>4
<1>8. MTypeOK
  <2>1. thread \in [Worker -> Desc] /\ frames \in [Desc -> Seq(Frame)] /\ saved \subseteq Desc
    <3>1. frames = [d \in Desc |-> frames[d]]
      BY <1>3
    <3>2. QED
      BY <1>3, <1>6, <3>1, Kinds
  <2>2. main \in [Worker -> Seq(Desc)] /\ deferred \in [Worker -> Seq(Desc)]
    <3>1. <<>> \in Seq(Desc)
      OBVIOUS
    <3>2. QED
      BY <1>2, <1>3, <3>1
  <2>3. rootCont \in [Worker -> Worker \cup {None}]
    BY <1>3
  <2>4. waiters \in Seq(Ult) /\ calls \in 0 .. MaxCalls
    BY <1>4, McsAssumption
  <2>5. QED
    BY <1>4, <2>1, <2>2, <2>3, <2>4 DEF MTypeOK
<1>9. \A p \in Spots : p[2] = 1 /\ p[1] \in Desc
        /\ Fr(p) = IF p[1] \in Worker THEN Loop(p[1]) ELSE Task(p[1])
  <2> SUFFICES ASSUME NEW p \in Spots
               PROVE  p[2] = 1 /\ p[1] \in Desc
                        /\ Fr(p) = IF p[1] \in Worker THEN Loop(p[1]) ELSE Task(p[1])
    OBVIOUS
  <2>1. p[1] \in Desc /\ p[2] \in 1 .. Depth(p[1]) /\ Depth(p[1]) = 1
    BY <1>6, SpotsAre DEF Depth
  <2>2. p[2] = 1 /\ Depth(p[1]) + 1 - p[2] = 1
    BY <2>1
  <2>3. QED
    BY <1>6, <2>1, <2>2 DEF Fr
<1>10. \A p \in Spots : Fr(p).op \in {"loop", "task"} /\ Fr(p).step # "publish"
         /\ ~ Owns(Fr(p)) /\ ~ Enters(Fr(p))
                       /\ BaseOf(p[1], Fr(p))
  BY <1>5, <1>9, Kinds DEF BaseOf, Owns, Enters
<1>11. Shape
  <2>1. FrameState /\ OwnState /\ LockState
    BY <1>9, <1>10 DEF FrameState, OwnState, LockState
  <2>2. NextState /\ SlotState
    BY <1>4, <1>7 DEF NextState, SlotState, Live
  <2>3. CvState
    BY <1>4, <1>10, InEmpty DEF CvState
  <2>4. QED
    BY <2>1, <2>2, <2>3 DEF Shape
<1>12. NothingTwice
  BY <1>2, <1>7, InEmpty DEF NothingTwice
<1>13. EachPlaced
  <2> SUFFICES ASSUME NEW d \in Desc
               PROVE  \E h \in Homes, u \in Worker \cup Node \cup Spots : Placed(d, h, u)
    BY DEF EachPlaced
  <2>1. /\ \A p \in Spots : ~ Publishes(p, d)
        /\ d # None /\ frames[d] # <<>> /\ d \notin cvSlot
        /\ \A w \in Worker : ~ In(deferred[w], d) /\ rootCont[w] # d
        /\ \A n \in Node : slot[n] # d
    BY <1>4, <1>6, <1>7, <1>10, InEmpty, Kinds DEF Publishes
  <2>2. CASE d \in Worker
    <3>1. d \notin Ult
      BY <2>2, Kinds
    <3>2. \A w \in Worker : ~ In(main[w], d) /\ (thread[w] = d <=> w = d)
      BY <1>2, <1>7, <3>1, InEmpty
    <3>3. Placed(d, "thread", d)
      BY <1>3, <2>1, <2>2, <3>1, <3>2 DEF Placed
    <3>4. QED
      BY <2>2, <3>3 DEF Homes
  <2>3. CASE d \in Ult
    <3>1. d \notin Worker
      BY <2>3, Kinds
    <3>2. \A w \in Worker : (In(main[w], d) <=> w = first) /\ thread[w] # d
      BY <1>2, <1>7, <2>3, <3>1, InEmpty
    <3>3. Placed(d, "main", first)
      BY <1>1, <1>3, <2>1, <2>3, <3>1, <3>2 DEF Placed
    <3>4. QED
      BY <1>1, <3>3 DEF Homes
  <2>4. QED
    BY <2>2, <2>3, Kinds
<1>14. QED
  BY <1>8, <1>11, <1>12, <1>13 DEF McsIInv

(* Granted, StartDrop.                                                     *)
LEMMA TaskProceeds ==
  ASSUME McsIInv, NEW w \in Worker, Granted(w) \/ StartDrop(w)
  PROVE  McsIInv'
<1>1. Top(w).op = "task" /\ Top(w).step \in {"waited", "in"}
  BY DEF Granted, StartDrop, AtTask
<1>2. Top(w).node # None
  <2>1. thread[w] \in Ult /\ BaseOf(thread[w], Top(w))
    BY <1>1, OnTop
  <2>2. QED
    BY <1>1, <2>1, Kinds DEF BaseOf
<1>3. \E s \in {"in", "drop"} : Advance(w, s)
  BY DEF Granted, StartDrop
<1>4. UNCHANGED <<saved, main, deferred, rootCont, mcs>>
  BY DEF Granted, StartDrop, queues
<1>5. QED
  BY <1>1, <1>2, <1>3, <1>4, Proceeds

(* SpinYields and Yield.  A callback has no context of its own to suspend: *)
(* it is here that the unlock of a wait must not spin for long.            *)
LEMMA TaskYields ==
  ASSUME "cv" \notin SpinOut, McsIInv, NEW w \in Worker, SpinYields(w) \/ Yield(w)
  PROVE  McsIInv'
<1>1. Top(w).op = "task"
  BY McsAssumption DEF SpinYields, Yield, AtTask
<1>2. YieldNow(w) /\ mcs' = mcs
  BY DEF SpinYields, Yield
<1>3. QED
  BY <1>1, <1>2, Yields

(* Run.                                                                    *)
LEMMA IdleRuns ==
  ASSUME McsIInv, NEW w \in Worker, Run(w)
  PROVE  McsIInv'
<1>1. mcs' = mcs
  BY DEF Run
<1>2. CASE RunLocal(w)
  BY <1>1, <1>2, RunLocals
<1>3. CASE \E v \in Worker \ {w} : RunStolen(w, v)
  <2>1. PICK v \in Worker : RunStolen(w, v)
    BY <1>3
  <2>2. QED
    BY <1>1, <2>1, RunStolens
<1>4. QED
  BY <1>2, <1>3 DEF Run

(* Stuttering.                                                             *)
LEMMA NothingHappens ==
  ASSUME McsIInv, UNCHANGED vars
  PROVE  McsIInv'
<1>1. /\ thread' = thread /\ frames' = frames /\ saved' = saved /\ main' = main
      /\ deferred' = deferred /\ rootCont' = rootCont
      /\ tail' = tail /\ next' = next /\ slot' = slot /\ free' = free
      /\ waiters' = waiters /\ cvSlot' = cvSlot /\ cvLock' = cvLock /\ calls' = calls
  BY DEF vars, sched, mcs
<1>2. MTypeOK /\ Shape /\ EachPlaced /\ NothingTwice
  BY DEF McsIInv
<1>3. Spots' = Spots /\ \A p \in Spots : Fr(p)' = Fr(p)
  BY <1>1, FramesSame
<1>4. Shape'
  BY <1>1, <1>2, <1>3, ShapeStays
<1>5. \A q, y : Publishes(q, y)' <=> Publishes(q, y)
  BY <1>3 DEF Publishes
<1>6. EachPlaced' /\ NothingTwice'
  <2>1. \A d \in Desc : frames'[d] = <<>> <=> frames[d] = <<>>
    BY <1>1
  <2>2. \A n \in Node : slot'[n] = slot[n]
    BY <1>1
  <2>3. QED
    BY <1>1, <1>2, <1>5, <2>1, <2>2, TokensRest
<1>7. MTypeOK'
  BY <1>1, <1>2 DEF MTypeOK
<1>8. QED
  BY <1>4, <1>6, <1>7 DEF McsIInv

(* Every step keeps the invariant.                                         *)
LEMMA EachStep ==
  ASSUME "cv" \notin SpinOut, McsIInv, [Next]_vars
  PROVE  McsIInv'
<1>1. CASE UNCHANGED vars
  BY <1>1, NothingHappens
<1>2. CASE Next
  <2>1. PICK w \in Worker : Step(w)
    BY <1>2 DEF Next
  <2>2. ASSUME Progress(w) PROVE McsIInv'
    <3>1. CASE Run(w)
      BY <3>1, IdleRuns
    <3>2. CASE Publish(w)
      BY <3>2, PublishSlot
    <3>3. CASE Link(w)
      BY <3>3, Links
    <3>4. CASE Granted(w)
      BY <3>4, TaskProceeds
    <3>5. CASE ReleaseTail(w)
      BY <3>5, ReleaseTails
    <3>6. CASE HandOver(w)
      BY <3>6, HandOvers
    <3>7. CASE PublishWaiter(w)
      BY <3>7, PublishWaiters
    <3>8. CASE UnlockList(w)
      BY <3>8, UnlockLists
    <3>9. CASE Lock(w)
      BY <3>9, Locks
    <3>10. QED
      BY <2>2, <3>1, <3>2, <3>3, <3>4, <3>5, <3>6, <3>7, <3>8, <3>9 DEF Progress
  <2>3. CASE Lock(w)
    BY <2>3, Locks
  <2>4. CASE StartDrop(w)
    BY <2>4, TaskProceeds
  <2>5. CASE SpinYields(w) \/ Yield(w)
    BY <2>5, TaskYields
  <2>6. CASE Wait(w)
    BY <2>6, WaitsFor
  <2>7. CASE NotifyOne(w)
    BY <2>7, NotifyOnes
  <2>8. CASE NotifyAll(w)
    BY <2>8, NotifyAlls
  <2>9. CASE Exit(w)
    BY <2>9, Exits
  <2>10. QED
    BY <2>1, <2>2, <2>3, <2>4, <2>5, <2>6, <2>7, <2>8, <2>9 DEF Step
<1>3. QED
  BY <1>1, <1>2

-----------------------------------------------------------------------------
(* What the invariant implies.                                             *)

(* What sequences are indexed by.                                          *)
LEMMA Domains ==
  ASSUME NEW S, NEW s \in Seq(S)
  PROVE  DOMAIN s = 1 .. Len(s)
BY LenProperties

(* The places of d that PlacesOf names: in the queues M, ...               *)
QueuePlaces(M, how, d) ==
  UNION {{<<how, w, i>> : i \in {i \in DOMAIN M[w] : M[w][i] = d}} : w \in Worker}

(* ... with callbacks, ...                                                 *)
StackPlaces(d) ==
  UNION {{<<"callback", e, i>> :
            i \in {i \in DOMAIN frames[e] : frames[e][i].who = d /\ frames[e][i].step = "publish"}} :
         e \in Desc}

(* ... with threads, ...                                                   *)
Threads(d) == {<<"thread", w>> : w \in {w \in Worker : thread[w] = d}}

(* ... and in root_cont; ...                                               *)
Roots(d) == {<<"root", w>> : w \in {w \in Worker : rootCont[w] = d}}

(* ... and those that TokenInOnePlace adds: slots ...                      *)
Slots(d) == {<<"slot", n>> : n \in {n \in Node : slot[n] = d}}

(* ... and the list of the condition variable.                             *)
Waiters(d) == {<<"waiter", t>> : t \in cvSlot \cap {d}}

(* S has one member if h is how, or else none.                             *)
OneIf(S, h, how) == IF h = how THEN \E e : S = {e} ELSE S = {}

(* A token that is in one queue, once, is at one index.                    *)
LEMMA OneInQueues ==
  ASSUME NEW M \in [Worker -> Seq(Desc)], \A w \in Worker : NoTwice(M[w]), NEW h, NEW how, NEW d,
         NEW u, h = how => u \in Worker, \A w \in Worker : In(M[w], d) <=> h = how /\ u = w
  PROVE  OneIf(QueuePlaces(M, how, d), h, how)
<1>1. \A w \in Worker : DOMAIN M[w] = 1 .. Len(M[w])
  BY Domains
<1>2. \A x : x \in QueuePlaces(M, how, d) <=>
         \E w \in Worker : \E i \in 1 .. Len(M[w]) : M[w][i] = d /\ x = <<how, w, i>>
  BY <1>1 DEF QueuePlaces
<1>3. CASE h # how
  <2>1. \A x : x \notin QueuePlaces(M, how, d)
    BY <1>2, <1>3 DEF In
  <2>2. QED
    BY <1>3, <2>1 DEF OneIf
<1>4. CASE h = how
  <2>1. u \in Worker /\ In(M[u], d)
    BY <1>4
  <2>2. PICK j \in 1 .. Len(M[u]) : M[u][j] = d
    BY <2>1 DEF In
  <2>3. \A w \in Worker : \A i \in 1 .. Len(M[w]) : M[w][i] = d => w = u /\ i = j
    <3> SUFFICES ASSUME NEW w \in Worker, NEW i \in 1 .. Len(M[w]), M[w][i] = d
                 PROVE  w = u /\ i = j
      OBVIOUS
    <3>3. In(M[w], d)
      BY DEF In
    <3>4. w = u
      BY <1>4, <3>3
    <3>5. QED
      BY <2>1, <2>2, <3>4 DEF NoTwice
  <2>4. \A x : x \in QueuePlaces(M, how, d) <=> x = <<how, u, j>>
    BY <1>2, <2>1, <2>2, <2>3
  <2>5. QueuePlaces(M, how, d) = {<<how, u, j>>}
    BY <2>4
  <2>6. QED
    BY <1>4, <2>5 DEF OneIf
<1>5. QED
  BY <1>3, <1>4 DEF OneIf

(* ... and with one callback, in one frame.                                *)
LEMMA OneOnStacks ==
  ASSUME MTypeOK, NEW d, NEW h, NEW u, h = "callback" => u \in Spots,
         \A p \in Spots : Publishes(p, d) <=> h = "callback" /\ u = p
  PROVE  OneIf(StackPlaces(d), h, "callback")
<1> DEFINE Hit(e, i) == frames[e][i].who = d /\ frames[e][i].step = "publish"
<1>1. \A e \in Desc : DOMAIN frames[e] = 1 .. Depth(e) /\ Depth(e) \in Nat
  BY Domains, DepthTyped DEF MTypeOK, Depth
<1>2. \A x : x \in StackPlaces(d) <=>
         \E e \in Desc : \E i \in 1 .. Depth(e) : Hit(e, i) /\ x = <<"callback", e, i>>
  BY <1>1 DEF StackPlaces
<1>3. \A e \in Desc : \A i \in 1 .. Depth(e) :
         /\ <<e, Depth(e) + 1 - i>> \in Spots
         /\ Hit(e, i) <=> Publishes(<<e, Depth(e) + 1 - i>>, d)
  <2> SUFFICES ASSUME NEW e \in Desc, NEW i \in 1 .. Depth(e)
               PROVE  /\ <<e, Depth(e) + 1 - i>> \in Spots
                      /\ Hit(e, i) <=> Publishes(<<e, Depth(e) + 1 - i>>, d)
    OBVIOUS
  <2>2. /\ Depth(e) + 1 - i \in 1 .. Depth(e)
        /\ Depth(e) + 1 - (Depth(e) + 1 - i) = i
    BY <1>1
  <2>3. <<e, Depth(e) + 1 - i>> \in Spots
    BY <2>2, SpotsAre
  <2>4. Fr(<<e, Depth(e) + 1 - i>>) = frames[e][i]
    BY <2>2 DEF Fr
  <2>5. QED
    BY <2>3, <2>4 DEF Publishes
<1> HIDE DEF Hit
<1>4. CASE h # "callback"
  <2>1. \A x : x \notin StackPlaces(d)
    BY <1>2, <1>3, <1>4
  <2>2. QED
    BY <1>4, <2>1 DEF OneIf
<1>5. CASE h = "callback"
  <2>1. u \in Spots /\ Publishes(u, d) /\ u = <<u[1], u[2]>> /\ u[1] \in Desc
          /\ u[2] \in 1 .. Depth(u[1])
    BY <1>5, SpotsAre
  <2>2. PICK e : e = u[1]
    OBVIOUS
  <2>3. PICK j : j = Depth(e) + 1 - u[2]
    OBVIOUS
  <2>4. e \in Desc /\ j \in 1 .. Depth(e) /\ Depth(e) + 1 - j = u[2]
    BY <1>1, <2>1, <2>2, <2>3
  <2>5. Hit(e, j)
    <3>1. <<e, Depth(e) + 1 - j>> = u
      BY <2>1, <2>2, <2>4
    <3>2. QED
      BY <1>3, <2>1, <2>4, <3>1
  <2>6. \A k \in Desc : \A i \in 1 .. Depth(k) : Hit(k, i) => k = e /\ i = j
    <3> SUFFICES ASSUME NEW k \in Desc, NEW i \in 1 .. Depth(k), Hit(k, i)
                 PROVE  k = e /\ i = j
      OBVIOUS
    <3>3. u = <<k, Depth(k) + 1 - i>>
      BY <1>3, <1>5
    <3>4. k = u[1] /\ u[2] = Depth(k) + 1 - i
      BY <3>3
    <3>5. QED
      BY <1>1, <2>2, <2>3, <3>4
  <2>7. \A x : x \in StackPlaces(d) <=> x = <<"callback", e, j>>
    BY <1>2, <2>4, <2>5, <2>6
  <2>8. StackPlaces(d) = {<<"callback", e, j>>}
    BY <2>7
  <2>9. QED
    BY <1>5, <2>8 DEF OneIf
<1>6. QED
  BY <1>4, <1>5 DEF OneIf

(* A token that has its place is in one of the places that are counted.    *)
LEMMA OnePlace ==
  ASSUME MTypeOK, NothingTwice, NEW d \in Desc, NEW h \in Homes, NEW u, Placed(d, h, u)
  PROVE  Cardinality(PlacesOf(d) \cup Slots(d) \cup Waiters(d))
           = IF frames[d] = <<>> THEN 0 ELSE 1
<1>1. IF h = "thread" THEN Threads(d) = {<<"thread", u>>} ELSE Threads(d) = {}
  BY DEF Placed, Threads
<1>2. IF h = "root" THEN Roots(d) = {<<"root", u>>} ELSE Roots(d) = {}
  BY DEF Placed, Roots
<1>3. OneIf(QueuePlaces(main, "main", d), h, "main")
  <2>1. /\ main \in [Worker -> Seq(Desc)] /\ \A w \in Worker : NoTwice(main[w])
        /\ h = "main" => u \in Worker
        /\ \A w \in Worker : In(main[w], d) <=> h = "main" /\ u = w
    BY DEF MTypeOK, NothingTwice, Placed
  <2>2. QED
    BY <2>1, OneInQueues
<1>4. OneIf(QueuePlaces(deferred, "deferred", d), h, "deferred")
  <2>1. /\ deferred \in [Worker -> Seq(Desc)] /\ \A w \in Worker : NoTwice(deferred[w])
        /\ h = "deferred" => u \in Worker
        /\ \A w \in Worker : In(deferred[w], d) <=> h = "deferred" /\ u = w
    BY DEF MTypeOK, NothingTwice, Placed
  <2>2. QED
    BY <2>1, OneInQueues
<1>5. OneIf(StackPlaces(d), h, "callback")
  <2>1. /\ h = "callback" => u \in Spots
        /\ \A p \in Spots : Publishes(p, d) <=> h = "callback" /\ u = p
    BY DEF Placed
  <2>2. QED
    BY <2>1, OneOnStacks
<1>6. IF h = "slot" THEN Slots(d) = {<<"slot", u>>} ELSE Slots(d) = {}
  BY DEF Placed, Slots
<1>7. IF h = "cv" THEN Waiters(d) = {<<"waiter", d>>} ELSE Waiters(d) = {}
  BY DEF Placed, Waiters
<1>8. PlacesOf(d) = Threads(d) \cup Roots(d) \cup QueuePlaces(main, "main", d)
                      \cup QueuePlaces(deferred, "deferred", d) \cup StackPlaces(d)
  BY DEF PlacesOf, Threads, Roots, QueuePlaces, StackPlaces
<1>9. frames[d] = <<>> <=> h = "gone"
  BY DEF Placed
<1> DEFINE All == PlacesOf(d) \cup Slots(d) \cup Waiters(d)
<1>10. CASE h = "gone"
  <2>1. All = {}
    BY <1>1, <1>2, <1>3, <1>4, <1>5, <1>6, <1>7, <1>8, <1>10 DEF OneIf
  <2>2. QED
    BY <1>9, <1>10, <2>1, FS_EmptySet
<1>11. CASE h # "gone"
  <2>1. \E e : All = {e}
    <3>1. h \in {"thread", "root", "main", "deferred", "callback", "slot", "cv"}
      BY <1>11 DEF Homes
    <3>2. QED
      BY <1>1, <1>2, <1>3, <1>4, <1>5, <1>6, <1>7, <1>8, <3>1 DEF OneIf
  <2>2. QED
    BY <1>9, <1>11, <2>1, FS_Singleton
<1>12. QED
  BY <1>10, <1>11

(* ToSet and In.                                                           *)
LEMMA ListsIn ==
  ASSUME NEW S, NEW s \in Seq(S)
  PROVE  \A x : x \in ToSet(s) <=> In(s, x)
BY Domains DEF ToSet, In

(* The invariant implies what the run Locks checks.                        *)
LEMMA Implies ==
  ASSUME McsIInv
  PROVE  ParkedInv
<1>1. MTypeOK /\ Shape /\ EachPlaced /\ NothingTwice
  BY DEF McsIInv
<1>2. TypeOK
  <2>1. \A d \in Desc : \A i \in DOMAIN frames[d] : frames[d][i] \in Frame
    <3>1. TAKE d \in Desc
    <3>2. frames[d] \in Seq(Frame)
      BY <1>1 DEF MTypeOK
    <3>3. QED
      BY <3>2, Domains, ElementOfSeq
  <2>2. \A w \in Worker : ToSet(main[w]) \cup ToSet(deferred[w]) \subseteq Desc
    <3>1. TAKE w \in Worker
    <3>2. main[w] \in Seq(Desc) /\ deferred[w] \in Seq(Desc)
      BY <1>1 DEF MTypeOK
    <3>3. QED
      BY <3>2, ListsIn, InTyped
  <2>3. ToSet(waiters) \subseteq Ult
    <3>1. waiters \in Seq(Ult)
      BY <1>1 DEF MTypeOK
    <3>2. QED
      BY <3>1, ListsIn, InTyped
  <2>4. QED
    BY <1>1, <2>1, <2>2, <2>3 DEF MTypeOK, TypeOK
<1>3. ReachableIsParked
  <2>1. \A n \in Node \ free : next[n] # None => slot[next[n]] # None
    BY <1>1 DEF Shape, NextState, Live
  <2>2. ~ cvLock => ToSet(waiters) = cvSlot
    <3>1. SUFFICES ASSUME ~ cvLock
                   PROVE  ToSet(waiters) = cvSlot
      OBVIOUS
    <3>2. \A x : In(waiters, x) <=> x \in cvSlot
      BY <1>1, <3>1 DEF Shape, CvState
    <3>3. waiters \in Seq(Ult)
      BY <1>1 DEF MTypeOK
    <3>4. \A x : x \in ToSet(waiters) <=> x \in cvSlot
      BY <3>2, <3>3, ListsIn
    <3>5. QED
      BY <3>4
  <2>3. QED
    BY <2>1, <2>2 DEF ReachableIsParked
<1>4. TokenInOnePlace
  <2>1. SUFFICES ASSUME NEW d \in Desc
                 PROVE  /\ Cardinality(PlacesOf(d) \cup Slots(d) \cup Waiters(d))
                             = IF frames[d] = <<>> THEN 0 ELSE 1
                        /\ d \in saved <=> frames[d] # <<>> /\ \A w \in Worker : thread[w] # d
    BY DEF TokenInOnePlace, Slots, Waiters
  <2>2. PICK h \in Homes, u \in Worker \cup Node \cup Spots : Placed(d, h, u)
    BY <1>1 DEF EachPlaced
  <2>3. d \in saved <=> frames[d] # <<>> /\ \A w \in Worker : thread[w] # d
    BY <2>2 DEF Placed
  <2>4. QED
    BY <1>1, <2>2, <2>3, OnePlace
<1>5. QED
  BY <1>2, <1>3, <1>4 DEF ParkedInv

(* Tasks that lock, wait, are notified, yield and exit are neither lost    *)
(* nor resumed twice, nor run by two workers, and whoever an unlock or a   *)
(* notify can reach is parked: for any workers, tasks and nodes, if the    *)
(* unlock in a wait's callback does not spin for 64 loads, which           *)
(* mcs_mutex.rs does not exclude (run McsSpinOut).                         *)
THEOREM TokensSafe ==
  ASSUME "cv" \notin SpinOut
  PROVE  Spec => []ParkedInv
<1>1. Init => McsIInv
  BY Starts
<1>2. McsIInv /\ [Next]_vars => McsIInv'
  BY EachStep
<1>3. McsIInv => ParkedInv
  BY Implies
<1>4. QED
  BY <1>1, <1>2, <1>3, PTL DEF Spec

=============================================================================
