-------------------------- MODULE RunQueues_proofs --------------------------
(***************************************************************************)
(* Proofs about RunQueues: every task that was pushed is in one place and  *)
(* runs once, for any number of workers and tasks and either design.       *)
(*                                                                         *)
(* The invariant counts nothing: it gives each unit, an item or the        *)
(* service, its one place (Placed).  The counts of QueueInv follow at the  *)
(* end, from the sizes of sets with one element or none.                   *)
(***************************************************************************)
EXTENDS RunQueues, FiniteSetTheorems, SequenceTheorems, TLAPS

(* What can wait in a queue, and where to look for it.                     *)
Unit == Item \cup {Service}

(* Where a worker can look for a task.                                     *)
Sources == ({"main"} \X Runner) \cup ({"list"} \X Listed)

(* What a thread does.                                                     *)
AtRec ==
  [op : {"run", "flag", "look", "take", "clear", "forward"}, plan : Seq(Sources), q : Listed]

(* Types.                                                                  *)
QTypeOK ==
  /\ design \in {"hybrid", "spin"}
  /\ mainq \in [Runner -> Seq(Unit)]
  /\ list \in [Listed -> Seq(Item)]
  /\ nonEmpty \in [Listed -> BOOLEAN]
  /\ at \in [Runner \cup {Outside} -> AtRec]
  /\ task \in [Runner -> Unit \cup {Nobody}]
  /\ pend \in Seq(Item)
  /\ fresh \subseteq Item
  /\ ran \in [Item -> Nat]

(* What a worker that looks for a task, or forwards items, knows.          *)
LookOf(a, k) ==
  /\ a.op \in {"look", "take", "clear"} => a.plan # <<>>
  /\ a.op \in {"look", "take"} => k = Nobody
  /\ a.op \in {"take", "clear"} => Head(a.plan) \in {"list"} \X Listed
  /\ a.op = "clear" => k # Service
  /\ a.op = "forward" => k = Service
LookState == \A w \in Runner : LookOf(at[w], task[w])

(* Only one who forwards has drained items.                                *)
PendState == pend = <<>> \/ \E w \in Runner : at[w].op = "forward"

(* A list with items whose flag is down has a pusher that will raise it.   *)
FlagState ==
  \A q \in Listed : list[q] # <<>> /\ ~ nonEmpty[q] /\ (design = "hybrid") =>
       \E t \in Runner \cup {Outside} : at[t].op = "flag" /\ at[t].q = q

(* x is in the sequence s.                                                 *)
In(s, x) == \E n \in 1 .. Len(s) : s[n] = x

(* Nothing is in the sequence s twice.                                     *)
NoTwice(s) == \A m, n \in 1 .. Len(s) : s[m] = s[n] => m = n

(* ... nor in a queue, nor among the drained items.                        *)
NothingTwice ==
  /\ \A w \in Runner : NoTwice(mainq[w])
  /\ \A q \in Listed : NoTwice(list[q])
  /\ NoTwice(pend)

(* Where a unit is: how, and with whom.                                    *)
Homes == {"fresh", "task", "main", "list", "pend", "ran", "gone"}
Placed(x, h, u) ==
  /\ \A w \in Runner : task[w] = x <=> h = "task" /\ u = w
  /\ \A w \in Runner : In(mainq[w], x) <=> h = "main" /\ u = w
  /\ \A q \in Listed : In(list[q], x) <=> h = "list" /\ u = q
  /\ In(pend, x) <=> h = "pend"
  /\ x \in fresh <=> h = "fresh"
  /\ x \in Item => h # "gone" /\ ran[x] = IF h = "ran" THEN 1 ELSE 0
  /\ x = Service => h \notin {"fresh", "ran", "list", "pend"}
  /\ h \in {"task", "main"} => u \in Runner

(* Each unit is in one place.                                              *)
EachPlaced == \A x \in Unit : \E h \in Homes, u \in Listed : Placed(x, h, u)

(* The inductive invariant.                                                *)
QueueIInv == QTypeOK /\ LookState /\ PendState /\ FlagState /\ NothingTwice /\ EachPlaced

-----------------------------------------------------------------------------
(* Sequences.                                                              *)

(* The empty sequence.                                                     *)
LEMMA InEmpty == NoTwice(<<>>) /\ \A x : ~ In(<<>>, x)
<1>1. Len(<<>>) = 0
  BY EmptySeq
<1>2. QED
  BY <1>1 DEF NoTwice, In

(* The members of a sequence, its ends among them.                         *)
LEMMA InTyped ==
  ASSUME NEW S, NEW s \in Seq(S)
  PROVE  /\ \A x : In(s, x) => x \in S
         /\ s # <<>> => In(s, Head(s)) /\ In(s, Last(s))
<1>1. Len(s) \in Nat /\ \A n \in 1 .. Len(s) : s[n] \in S
  BY LenProperties, ElementOfSeq
<1>2. \A x : In(s, x) => x \in S
  BY <1>1 DEF In
<1>3. ASSUME s # <<>> PROVE In(s, Head(s)) /\ In(s, Last(s))
  <2>1. 1 \in 1 .. Len(s) /\ Len(s) \in 1 .. Len(s)
    BY <1>1, <1>3, EmptySeq
  <2>2. Head(s) = s[1] /\ Last(s) = s[Len(s)]
    BY DEF Last
  <2>3. QED
    BY <2>1, <2>2 DEF In
<1>4. QED
  BY <1>2, <1>3

(* The back of a queue takes a new unit.                                   *)
LEMMA InAppend ==
  ASSUME NEW S, NEW s \in Seq(S), NEW x \in S
  PROVE  /\ Append(s, x) \in Seq(S)
         /\ \A y : In(Append(s, x), y) <=> In(s, y) \/ y = x
         /\ NoTwice(s) /\ ~ In(s, x) => NoTwice(Append(s, x))
<1> DEFINE a == Append(s, x)
           k == Len(s)
<1>1. /\ a \in Seq(S) /\ Len(a) = k + 1 /\ a[k + 1] = x /\ k \in Nat
      /\ \A n \in 1 .. k : a[n] = s[n]
  BY AppendProperties, LenProperties
<1> HIDE DEF a
<1>2. \A n \in 1 .. k + 1 : n \in 1 .. k \/ n = k + 1
  BY <1>1
<1>3. 1 .. k \subseteq 1 .. k + 1 /\ k + 1 \in 1 .. k + 1
  BY <1>1
<1>4. \A y : In(a, y) <=> In(s, y) \/ y = x
  BY <1>1, <1>2, <1>3 DEF In
<1>5. NoTwice(s) /\ ~ In(s, x) => NoTwice(a)
  BY <1>1, <1>2, <1>3 DEF In, NoTwice
<1>6. QED
  BY <1>1, <1>4, <1>5 DEF a

(* ... or the front.                                                       *)
LEMMA InFirst ==
  ASSUME NEW S, NEW s \in Seq(S), NEW x \in S
  PROVE  /\ <<x>> \o s \in Seq(S)
         /\ \A y : In(<<x>> \o s, y) <=> In(s, y) \/ y = x
         /\ NoTwice(s) /\ ~ In(s, x) => NoTwice(<<x>> \o s)
<1> DEFINE a == <<x>> \o s
           k == Len(s)
<1>1. <<x>> \in Seq(S) /\ Len(<<x>>) = 1 /\ <<x>>[1] = x
  OBVIOUS
<1>2. /\ a \in Seq(S) /\ Len(a) = 1 + k /\ k \in Nat
      /\ \A n \in 1 .. 1 + k : a[n] = IF n <= 1 THEN <<x>>[n] ELSE s[n - 1]
  BY <1>1, ConcatProperties, LenProperties
<1> HIDE DEF a
<1>3. a[1] = x /\ \A n \in 1 .. k : a[n + 1] = s[n]
  <2>1. 1 \in 1 .. 1 + k /\ \A n \in 1 .. k : n + 1 \in 1 .. 1 + k /\ ~ (n + 1 <= 1)
          /\ (n + 1) - 1 = n
    BY <1>2
  <2>2. QED
    BY <1>1, <1>2, <2>1
<1>4. /\ \A n \in 1 .. Len(a) : n = 1 \/ (n - 1 \in 1 .. k /\ n = (n - 1) + 1
           /\ a[n] = s[n - 1])
      /\ \A n \in 1 .. k : n + 1 \in 1 .. Len(a)
      /\ 1 \in 1 .. Len(a)
  <2>1. /\ \A n \in 1 .. 1 + k : n = 1 \/ (n - 1 \in 1 .. k /\ n = (n - 1) + 1)
        /\ \A n \in 1 .. k : n + 1 \in 1 .. 1 + k
        /\ 1 \in 1 .. 1 + k
    BY <1>2
  <2>2. QED
    BY <1>2, <1>3, <2>1
<1>5. \A y : In(a, y) <=> In(s, y) \/ y = x
  <2>1. ASSUME NEW y, In(a, y) PROVE In(s, y) \/ y = x
    <3>1. PICK n \in 1 .. Len(a) : a[n] = y
      BY <2>1 DEF In
    <3>2. CASE n = 1
      BY <1>3, <3>1, <3>2
    <3>3. CASE n # 1
      <4>1. n - 1 \in 1 .. k /\ s[n - 1] = y
        BY <1>4, <3>1, <3>3
      <4>2. QED
        BY <4>1 DEF In
    <3>4. QED
      BY <3>2, <3>3
  <2>2. ASSUME NEW y, In(s, y) \/ y = x PROVE In(a, y)
    BY <1>3, <1>4, <2>2 DEF In
  <2>3. QED
    BY <2>1, <2>2
<1>6. ASSUME NoTwice(s), ~ In(s, x) PROVE NoTwice(a)
  <2> SUFFICES ASSUME NEW m \in 1 .. Len(a), NEW n \in 1 .. Len(a), a[m] = a[n]
               PROVE  m = n
    BY DEF NoTwice
  <2>1. CASE m = 1 \/ n = 1
    BY <1>3, <1>4, <1>6, <2>1 DEF In
  <2>2. CASE m # 1 /\ n # 1
    BY <1>4, <1>6, <2>2 DEF NoTwice
  <2>3. QED
    BY <2>1, <2>2
<1>7. QED
  BY <1>2, <1>5, <1>6 DEF a

(* The first unit leaves.                                                  *)
LEMMA InTail ==
  ASSUME NEW S, NEW s \in Seq(S), s # <<>>, NoTwice(s)
  PROVE  /\ Tail(s) \in Seq(S) /\ NoTwice(Tail(s)) /\ Head(s) \in S
         /\ \A y : In(Tail(s), y) <=> In(s, y) /\ y # Head(s)
<1> DEFINE a == Tail(s)
           k == Len(s)
           h == Head(s)
<1>1. /\ a \in Seq(S) /\ Len(a) = k - 1 /\ k \in Nat \ {0} /\ h \in S
      /\ \A n \in 1 .. Len(a) : a[n] = s[n + 1]
  BY HeadTailProperties, EmptySeq
<1>2. h = s[1]
  OBVIOUS
<1> HIDE DEF a, h
<1>3. /\ \A n \in 1 .. k : n = 1 \/ (n - 1 \in 1 .. k - 1 /\ n = (n - 1) + 1)
      /\ \A n \in 1 .. k - 1 : n + 1 \in 1 .. k /\ n + 1 # 1
      /\ 1 \in 1 .. k
      /\ \A m, n \in 1 .. k - 1 : m + 1 = n + 1 => m = n
  BY <1>1
<1>4. NoTwice(a)
  BY <1>1, <1>3 DEF NoTwice
<1>5. ASSUME NEW y PROVE In(a, y) <=> In(s, y) /\ y # h
  <2>1. ASSUME In(a, y) PROVE In(s, y) /\ y # h
    BY <1>1, <1>2, <1>3, <2>1 DEF NoTwice, In
  <2>2. ASSUME In(s, y), y # h PROVE In(a, y)
    <3>1. PICK n \in 1 .. k : s[n] = y
      BY <2>2 DEF In
    <3>2. n - 1 \in 1 .. Len(a) /\ a[n - 1] = y
      BY <1>1, <1>2, <1>3, <2>2, <3>1
    <3>3. QED
      BY <3>2 DEF In
  <2>3. QED
    BY <2>1, <2>2
<1>6. QED
  BY <1>1, <1>4, <1>5 DEF a, h

(* ... or the last.                                                        *)
LEMMA InFront ==
  ASSUME NEW S, NEW s \in Seq(S), s # <<>>, NoTwice(s)
  PROVE  /\ Front(s) \in Seq(S) /\ NoTwice(Front(s)) /\ Last(s) \in S
         /\ \A y : In(Front(s), y) <=> In(s, y) /\ y # Last(s)
<1> DEFINE a == Front(s)
           k == Len(s)
           h == Last(s)
<1>1. k \in Nat \ {0} /\ \A n \in 1 .. k : s[n] \in S
  BY EmptySeq, LenProperties, ElementOfSeq
<1>2. a \in Seq(S) /\ Len(a) = k - 1 /\ \A n \in 1 .. k - 1 : a[n] = s[n]
  <2>1. \A n \in 1 .. k - 1 : s[n] \in S
    BY <1>1
  <2>2. /\ SubSeq(s, 1, k - 1) \in Seq(S)
        /\ Len(SubSeq(s, 1, k - 1)) = IF 1 <= k - 1 THEN (k - 1) - 1 + 1 ELSE 0
        /\ \A n \in 1 .. (k - 1) - 1 + 1 : SubSeq(s, 1, k - 1)[n] = s[1 + n - 1]
    BY <1>1, <2>1, SubSeqProperties
  <2>3. Len(SubSeq(s, 1, k - 1)) = k - 1
    <3>1. \A j \in Nat \ {0} : (IF 1 <= j - 1 THEN (j - 1) - 1 + 1 ELSE 0) = j - 1
      OBVIOUS
    <3>2. QED
      BY <1>1, <2>2, <3>1
  <2>4. \A n \in 1 .. k - 1 : 1 + n - 1 = n /\ n \in 1 .. (k - 1) - 1 + 1
    BY <1>1
  <2>5. QED
    BY <2>2, <2>3, <2>4 DEF Front
<1>3. h = s[k]
  BY DEF Last
<1> HIDE DEF a, h
<1>4. /\ \A n \in 1 .. k : n = k \/ n \in 1 .. k - 1
      /\ \A n \in 1 .. k - 1 : n \in 1 .. k /\ n # k
      /\ k \in 1 .. k
  BY <1>1
<1>5. NoTwice(a)
  BY <1>2, <1>4 DEF NoTwice
<1>6. \A y : In(a, y) <=> In(s, y) /\ y # h
  BY <1>2, <1>3, <1>4 DEF NoTwice, In
<1>7. QED
  BY <1>1, <1>2, <1>3, <1>4, <1>5, <1>6 DEF a, h

-----------------------------------------------------------------------------
(* What the workers do and ask.                                            *)

(* The other workers, in some order.                                       *)
LEMMA OthersTyped ==
  ASSUME NEW w \in Runner
  PROVE  Others(w) \in Seq(Runner)
<1> DEFINE S == Runner \ {w}
           k == Cardinality(S)
<1>1. k \in Nat /\ ExistsBijection(1 .. k, S)
  BY QueueAssumption, FS_RemoveElement, FS_Subset, FS_CardinalityType
<1>2. PICK f \in Bijection(1 .. k, S) : TRUE
  BY <1>1 DEF ExistsBijection
<1>3. f \in [1 .. k -> S] /\ IsInjective(f)
  BY DEF Bijection, Injection, IsInjective
<1>4. SetToSeq(S) \in [1 .. k -> S]
  BY <1>3 DEF SetToSeq
<1> HIDE DEF k
<1>5. SetToSeq(S) \in Seq(Runner)
  <2> DEFINE f2 == SetToSeq(S)
  <2>1. \A n \in 1 .. k : f2[n] \in Runner
    BY <1>4
  <2>2. f2 = [n \in 1 .. k |-> f2[n]]
    BY <1>4
  <2> HIDE DEF f2
  <2>3. [n \in 1 .. k |-> f2[n]] \in Seq(Runner)
    BY <1>1, <2>1
  <2>4. QED
    BY <2>2, <2>3 DEF f2
<1>6. QED
  BY <1>5 DEF Others

(* HybridStealer and SpinStealer ask only queues there are.                *)
LEMMA SweepTyped ==
  ASSUME NEW w \in Runner
  PROVE  Sweep(w) \in Seq(Sources)
<1> DEFINE v == Others(w)
           k == Len(v)
<1>1. k \in Nat /\ \A n \in 1 .. k : v[n] \in Runner
  BY OthersTyped, LenProperties, ElementOfSeq
<1> HIDE DEF v
<1>2. \A n \in 1 .. k : <<"main", v[n]>> \in Sources /\ <<"list", v[n]>> \in Sources
  BY <1>1 DEF Sources, Listed
<1>3. [n \in 1 .. k |-> <<"main", v[n]>>] \in Seq(Sources)
  <2>1. \A n \in 1 .. k : <<"main", v[n]>> \in Sources
    BY <1>2
  <2>2. QED
    BY <1>1, <2>1
<1>4. \A n \in 1 .. 2 * k : (n + 1) \div 2 \in 1 .. k
  BY <1>1
<1>5. \A n \in 1 .. 2 * k : <<IF n % 2 = 1 THEN "list" ELSE "main", v[(n + 1) \div 2]>> \in Sources
  BY <1>2, <1>4
<1>6. [n \in 1 .. 2 * k |-> <<IF n % 2 = 1 THEN "list" ELSE "main", v[(n + 1) \div 2]>>] \in Seq(Sources)
  BY <1>1, <1>5
<1>7. QED
  BY <1>3, <1>6 DEF Sweep, v

(* StandardDispatch::next always has a source to ask.                      *)
LEMMA PlansTyped ==
  ASSUME NEW w \in Runner
  PROVE  /\ LoopPlan(w) \in Seq(Sources) /\ LoopPlan(w) # <<>>
         /\ SwitchPlan(w) \in Seq(Sources) /\ SwitchPlan(w) # <<>>
<1>1. <<"main", w>> \in Sources /\ <<"list", w>> \in Sources /\ <<"list", ExtQ>> \in Sources
  BY DEF Sources, Listed
<1>2. Local(w) \in Seq(Sources) /\ Len(Local(w)) > 0 /\ External \in Seq(Sources)
  BY <1>1 DEF Local, External
<1>3. Sweep(w) \in Seq(Sources)
  BY SweepTyped
<1>4. /\ Local(w) \o Sweep(w) \in Seq(Sources) /\ Len(Local(w) \o Sweep(w)) > 0
  BY <1>2, <1>3, ConcatProperties, LenProperties
<1>5. LoopPlan(w) \in Seq(Sources) /\ Len(LoopPlan(w)) > 0
  BY <1>2, <1>4, ConcatProperties, LenProperties DEF LoopPlan
<1>6. SwitchPlan(w) \in Seq(Sources) /\ Len(SwitchPlan(w)) > 0
  BY <1>2, ConcatProperties, LenProperties DEF SwitchPlan
<1>7. QED
  BY <1>5, <1>6, EmptySeq

(* A thread goes on to do something else.                                  *)
LEMMA AtMoves ==
  ASSUME QTypeOK, NEW t \in Runner \cup {Outside},
           NEW r \in AtRec, at' = [at EXCEPT ![t] = r]
  PROVE  /\ at' \in [Runner \cup {Outside} -> AtRec] /\ at'[t] = r
         /\ \A u \in Runner \cup {Outside} : u # t => at'[u] = at[u]
BY DEF QTypeOK

(* Workers, the outside, items, the service and nobody are different.      *)
LEMMA KindsApart ==
  /\ \A w \in Runner : w \in Runner \cup {Outside} /\ w \in Listed /\ w # Outside
  /\ ExtQ \in Listed /\ Outside \in Runner \cup {Outside}
  /\ \A i \in Item : i \in Unit /\ i # Service /\ i # Nobody
  /\ Service \in Unit /\ Service # Nobody /\ Service \notin Item /\ Nobody \notin Item
  /\ \A x \in Unit : x \in Item \/ x = Service
BY QueueAssumption DEF Listed, Unit, Nobody

(* Threads that run, raise a flag or forward.                              *)
LEMMA RunningTyped ==
  /\ Running \in AtRec /\ Running.op = "run"
  /\ \A q \in Listed : Op("flag", <<>>, q) \in AtRec
  /\ \A q \in Listed : Op("flag", <<>>, q).op = "flag" /\ Op("flag", <<>>, q).q = q
  /\ Op("forward", <<>>, ExtQ) \in AtRec /\ Op("forward", <<>>, ExtQ).op = "forward"
  /\ \A k \in Unit \cup {Nobody} : LookOf(Running, k)
  /\ \A q \in Listed, k \in Unit \cup {Nobody} : LookOf(Op("flag", <<>>, q), k)
<1>1. <<>> \in Seq(Sources) /\ ExtQ \in Listed
  BY EmptySeq, KindsApart
<1>2. QED
  BY <1>1 DEF Running, Op, AtRec, LookOf

(* Workers that look for a task.                                           *)
LEMMA PlanTyped ==
  \A o \in {"look", "take", "clear"}, p \in Seq(Sources) :
     /\ Op(o, p, ExtQ) \in AtRec /\ Op(o, p, ExtQ).op = o /\ Op(o, p, ExtQ).plan = p
BY KindsApart DEF Op, AtRec

(* A worker begins to look.                                                *)
LEMMA LookTyped ==
  ASSUME NEW w \in Runner
  PROVE  /\ Op("look", SwitchPlan(w), ExtQ) \in AtRec
         /\ Op("look", SwitchPlan(w), ExtQ).op = "look"
         /\ LookOf(Op("look", SwitchPlan(w), ExtQ), Nobody)
<1>1. SwitchPlan(w) \in Seq(Sources) /\ SwitchPlan(w) # <<>>
  BY PlansTyped
<1>2. /\ Op("look", SwitchPlan(w), ExtQ) \in AtRec
      /\ Op("look", SwitchPlan(w), ExtQ).op = "look"
      /\ Op("look", SwitchPlan(w), ExtQ).plan = SwitchPlan(w)
  BY <1>1, PlanTyped
<1>3. QED
  BY <1>1, <1>2 DEF LookOf

(* ... and asks the next source.                                           *)
LEMMA AfterTyped ==
  ASSUME QTypeOK, NEW w \in Runner, at[w].plan # <<>>
  PROVE  After(w) \in AtRec /\ After(w).op = "look" /\ LookOf(After(w), Nobody)
<1> DEFINE p == at[w].plan
           n == IF Len(p) > 1 THEN Tail(p) ELSE LoopPlan(w)
<1>1. p \in Seq(Sources)
  BY KindsApart DEF QTypeOK, AtRec
<1>2. n \in Seq(Sources) /\ n # <<>>
  <2>1. CASE Len(p) > 1
    <3> HIDE DEF p
    <3>1. Tail(p) \in Seq(Sources) /\ Len(Tail(p)) = Len(p) - 1
      <4>1. p # <<>>
        BY DEF p
      <4>2. QED
        BY <1>1, <4>1, HeadTailProperties
    <3>5. Len(p) \in Nat
      BY <1>1, LenProperties
    <3>2. Len(Tail(p)) # 0
      BY <2>1, <3>1, <3>5
    <3>3. Tail(p) # <<>>
      BY <3>2, EmptySeq
    <3>4. QED
      BY <2>1, <3>1, <3>3
  <2>2. CASE ~ (Len(p) > 1)
    BY <2>2, PlansTyped
  <2>3. QED
    BY <2>1, <2>2
<1>3. After(w) = Op("look", n, ExtQ)
  BY DEF After
<1> HIDE DEF n
<1>4. Op("look", n, ExtQ) \in AtRec /\ Op("look", n, ExtQ).op = "look"
        /\ Op("look", n, ExtQ).plan = n
  BY <1>2, PlanTyped
<1>5. QED
  BY <1>2, <1>3, <1>4 DEF LookOf

(* The source it asks is a main queue or a locked list.                    *)
LEMMA SourceTyped ==
  ASSUME QTypeOK, NEW w \in Runner, at[w].plan # <<>>
  PROVE  /\ Source(w) \in Sources /\ Source(w)[2] \in Listed
         /\ Source(w)[1] = "main" => Source(w)[2] \in Runner
         /\ Source(w)[1] = "list" => Source(w) \in {"list"} \X Listed
<1>1. at[w].plan \in Seq(Sources)
  BY KindsApart DEF QTypeOK, AtRec
<1>2. Source(w) \in Sources
  BY <1>1, HeadTailProperties DEF Source
<1>3. QED
  BY <1>2 DEF Sources, Listed

(* No flag goes down over an item, and no pusher forgets the flag it is to *)
(* raise.                                                                  *)
LEMMA FlagKept ==
  ASSUME FlagState, design' = design,
         \A q \in Listed : list'[q] # <<>> => list[q] # <<>>,
         \A q \in Listed : nonEmpty[q] => nonEmpty'[q] \/ list'[q] = <<>>,
         \A t \in Runner \cup {Outside} : at[t].op = "flag" => at'[t] = at[t]
  PROVE  FlagState'
<1> SUFFICES ASSUME NEW q \in Listed, list'[q] # <<>>, ~ nonEmpty'[q], design = "hybrid"
             PROVE  \E t \in Runner \cup {Outside} : at'[t].op = "flag" /\ at'[t].q = q
  BY DEF FlagState
<1>1. list[q] # <<>> /\ ~ nonEmpty[q]
  OBVIOUS
<1>2. PICK t \in Runner \cup {Outside} : at[t].op = "flag" /\ at[t].q = q
  BY <1>1 DEF FlagState
<1>3. at'[t] = at[t]
  BY <1>2
<1>4. QED
  BY <1>2, <1>3

(* Who forwards goes on forwarding.                                        *)
LEMMA PendKept ==
  ASSUME PendState, pend' = pend,
         \A w \in Runner : at[w].op = "forward" => at'[w].op = "forward"
  PROVE  PendState'
BY DEF PendState

(* One worker does something else.                                         *)
LEMMA LookKept ==
  ASSUME LookState, NEW w \in Runner, LookOf(at'[w], task'[w]),
         \A u \in Runner : u # w => at'[u] = at[u] /\ task'[u] = task[u]
  PROVE  LookState'
<1> SUFFICES ASSUME NEW u \in Runner PROVE LookOf(at'[u], task'[u])
  BY DEF LookState, LookOf
<1>1. CASE u = w
  BY <1>1
<1>2. CASE u # w
  BY <1>2 DEF LookState
<1>3. QED
  BY <1>1, <1>2

(* What a step leaves alone of a unit.                                     *)
SamePlace(y) ==
  /\ \A w \in Runner : task'[w] = y <=> task[w] = y
  /\ \A w \in Runner : In(mainq'[w], y) <=> In(mainq[w], y)
  /\ \A q \in Listed : In(list'[q], y) <=> In(list[q], y)
  /\ In(pend', y) <=> In(pend, y)
  /\ y \in fresh' <=> y \in fresh
  /\ y \in Item => ran'[y] = ran[y]

(* A step that moves the units of X.                                       *)
LEMMA OthersStay ==
  ASSUME EachPlaced, NEW X, \A y \in Unit : y \notin X => SamePlace(y),
         \A x \in Unit : x \in X => \E h \in Homes, u \in Listed : Placed(x, h, u)'
  PROVE  EachPlaced'
<1> SUFFICES ASSUME NEW y \in Unit PROVE \E h \in Homes, u \in Listed : Placed(y, h, u)'
  BY DEF EachPlaced
<1>1. CASE y \in X
  BY <1>1
<1>2. CASE y \notin X
  <2>1. SamePlace(y)
    BY <1>2
  <2>2. PICK h \in Homes, u \in Listed : Placed(y, h, u)
    BY DEF EachPlaced
  <2>3. Placed(y, h, u)'
    BY <2>1, <2>2 DEF Placed, SamePlace
  <2>4. QED
    BY <2>3
<1>3. QED
  BY <1>1, <1>2

(* ... one unit.                                                           *)
LEMMA OneMoves ==
  ASSUME EachPlaced, NEW x \in Unit, NEW h \in Homes, NEW u \in Listed, Placed(x, h, u)',
         \A y \in Unit : y # x => SamePlace(y)
  PROVE  EachPlaced'
<1>1. \A y \in Unit : y \notin {x} => SamePlace(y)
  OBVIOUS
<1>2. \A y \in Unit : y \in {x} => \E hh \in Homes, uu \in Listed : Placed(y, hh, uu)'
  <2> SUFFICES \E hh \in Homes, uu \in Listed : Placed(x, hh, uu)'
    OBVIOUS
  <2>1. QED
    OBVIOUS
<1>3. QED
  BY <1>1, <1>2, OthersStay

(* ... or none.                                                            *)
LEMMA PlacesKept ==
  ASSUME EachPlaced, NothingTwice, UNCHANGED <<mainq, list, task, pend, fresh, ran>>
  PROVE  EachPlaced' /\ NothingTwice'
<1>1. NothingTwice'
  BY DEF NothingTwice
<1>2. EachPlaced'
  BY DEF EachPlaced, Placed
<1>3. QED
  BY <1>1, <1>2

-----------------------------------------------------------------------------
(* Pushing.                                                                *)

(* A pusher raises the flag, after the lock.                               *)
LEMMA SetFlagKeeps ==
  ASSUME QueueIInv, NEW t \in Runner \cup {Outside}, SetFlag(t)
  PROVE  QueueIInv'
<1>0. QTypeOK /\ LookState /\ PendState /\ FlagState /\ NothingTwice /\ EachPlaced
  BY DEF QueueIInv
<1>1. /\ at[t].op = "flag" /\ at[t].q \in Listed
      /\ nonEmpty' = [nonEmpty EXCEPT ![at[t].q] = TRUE]
      /\ design' = design /\ mainq' = mainq /\ list' = list /\ task' = task
      /\ pend' = pend /\ fresh' = fresh /\ ran' = ran
  BY <1>0 DEF SetFlag, service, QTypeOK, AtRec
<1>2. /\ at' \in [Runner \cup {Outside} -> AtRec] /\ at'[t] = Running
      /\ \A u \in Runner \cup {Outside} : u # t => at'[u] = at[u]
  BY <1>0, AtMoves, RunningTyped DEF SetFlag
<1>3. QTypeOK'
  BY <1>0, <1>1, <1>2 DEF QTypeOK
<1>4. LookState'
  <2> SUFFICES ASSUME NEW u \in Runner PROVE LookOf(at'[u], task'[u])
    BY DEF LookState, LookOf
  <2>1. CASE u = t
    BY <1>0, <1>1, <1>2, <2>1, RunningTyped DEF QTypeOK
  <2>2. CASE u # t
    BY <1>0, <1>1, <1>2, <2>2, KindsApart DEF LookState
  <2>3. QED
    BY <2>1, <2>2
<1>5. PendState'
  <2>1. \A w \in Runner : at[w].op = "forward" => at'[w].op = "forward"
    BY <1>1, <1>2, KindsApart
  <2>2. QED
    BY <1>0, <1>1, <2>1, PendKept
<1>6. FlagState'
  <2> SUFFICES ASSUME NEW q \in Listed, list'[q] # <<>>, ~ nonEmpty'[q], design = "hybrid"
               PROVE  \E u \in Runner \cup {Outside} : at'[u].op = "flag" /\ at'[u].q = q
    BY <1>1 DEF FlagState
  <2>1. q # at[t].q /\ ~ nonEmpty[q]
    BY <1>0, <1>1 DEF QTypeOK
  <2>2. PICK u \in Runner \cup {Outside} : at[u].op = "flag" /\ at[u].q = q
    BY <1>0, <1>1, <2>1 DEF FlagState
  <2>3. QED
    BY <1>2, <2>1, <2>2
<1>7. EachPlaced' /\ NothingTwice'
  BY <1>0, <1>1, PlacesKept
<1>8. QED
  BY <1>3, <1>4, <1>5, <1>6, <1>7 DEF QueueIInv

(* An insertion leaves a list with items to a pusher that is to raise its  *)
(* flag.                                                                   *)
LEMMA InsertFlags ==
  ASSUME QTypeOK, FlagState, design' = design, NEW t \in Runner \cup {Outside},
           NEW q \in Listed,
         NEW i, Insert(t, q, i), at[t] = Running
  PROVE  /\ FlagState'
         /\ at' \in [Runner \cup {Outside} -> AtRec] /\ at'[t] = Op("flag", <<>>, q)
         /\ \A u \in Runner \cup {Outside} : u # t => at'[u] = at[u]
<1>1. /\ at' \in [Runner \cup {Outside} -> AtRec] /\ at'[t] = Op("flag", <<>>, q)
      /\ \A u \in Runner \cup {Outside} : u # t => at'[u] = at[u]
  BY AtMoves, RunningTyped DEF Insert
<1>2. nonEmpty' = nonEmpty /\ \A p \in Listed : p # q => list'[p] = list[p]
  BY DEF Insert, QTypeOK
<1>3. FlagState'
  <2> SUFFICES ASSUME NEW p \in Listed, list'[p] # <<>>, ~ nonEmpty'[p], design = "hybrid"
               PROVE  \E u \in Runner \cup {Outside} : at'[u].op = "flag" /\ at'[u].q = p
    BY DEF FlagState
  <2>1. CASE p = q
    BY <1>1, <2>1, RunningTyped
  <2>2. CASE p # q
    <3>1. PICK u \in Runner \cup {Outside} : at[u].op = "flag" /\ at[u].q = p
      BY <1>2, <2>2 DEF FlagState
    <3>2. u # t
      BY <3>1, RunningTyped
    <3>3. QED
      BY <1>1, <3>1, <3>2
  <2>3. QED
    BY <2>1, <2>2
<1>4. QED
  BY <1>1, <1>3

(* A new item enters a locked list.                                        *)
LEMMA AppendPlaces ==
  ASSUME QTypeOK, NothingTwice, EachPlaced, NEW i \in fresh, fresh' = fresh \ {i},
           NEW q \in Listed,
         list' = [list EXCEPT ![q] = Append(@, i)],
         UNCHANGED <<mainq, task, pend, ran>>
  PROVE  list' \in [Listed -> Seq(Item)] /\ fresh' \subseteq Item /\ NothingTwice'
           /\ EachPlaced'
<1>1. i \in Item /\ i \in Unit /\ list[q] \in Seq(Item)
  BY KindsApart DEF QTypeOK
<1>2. PICK h \in Homes, u \in Listed : Placed(i, h, u)
  BY <1>1 DEF EachPlaced
<1>3. h = "fresh" /\ ~ In(list[q], i)
  BY <1>2 DEF Placed
<1>4. /\ list'[q] \in Seq(Item)
      /\ \A y : In(list'[q], y) <=> In(list[q], y) \/ y = i
      /\ NoTwice(list'[q])
  <2>1. list'[q] = Append(list[q], i)
    BY DEF QTypeOK
  <2>2. NoTwice(list[q])
    BY DEF NothingTwice
  <2>3. QED
    BY <1>1, <1>3, <2>1, <2>2, InAppend
<1>5. \A p \in Listed : p # q => list'[p] = list[p]
  BY DEF QTypeOK
<1>6. list' \in [Listed -> Seq(Item)] /\ fresh' \subseteq Item
  BY <1>4 DEF QTypeOK
<1>7. NothingTwice'
  BY <1>4, <1>5 DEF NothingTwice
<1>8. \A y \in Unit : y # i => SamePlace(y)
  BY <1>4, <1>5 DEF SamePlace
<1>9. "list" \in Homes /\ Placed(i, "list", q)'
  BY <1>1, <1>2, <1>3, <1>4, <1>5, KindsApart DEF Placed, Homes
<1>10. EachPlaced'
  BY <1>1, <1>8, <1>9, OneMoves
<1>11. QED
  BY <1>6, <1>7, <1>10

(* A thread outside the pool pushes.                                       *)
LEMMA PushOutsideKeeps ==
  ASSUME QueueIInv, NEW i \in Item, PushOutside(i)
  PROVE  QueueIInv'
<1>0. QTypeOK /\ LookState /\ PendState /\ FlagState /\ NothingTwice /\ EachPlaced
  BY DEF QueueIInv
<1>1. /\ at[Outside] = Running /\ i \in fresh /\ fresh' = fresh \ {i}
      /\ list' = [list EXCEPT ![ExtQ] = Append(@, i)]
      /\ design' = design /\ mainq' = mainq /\ nonEmpty' = nonEmpty /\ task' = task
      /\ pend' = pend /\ ran' = ran
  BY DEF PushOutside, Insert, service
<1>2. list' \in [Listed -> Seq(Item)] /\ fresh' \subseteq Item /\ NothingTwice'
        /\ EachPlaced'
  BY <1>0, <1>1, KindsApart, AppendPlaces
<1>3. /\ FlagState' /\ at' \in [Runner \cup {Outside} -> AtRec]
      /\ \A u \in Runner : at'[u] = at[u]
  <2>1. CASE design = "hybrid"
    <3>1. Insert(Outside, ExtQ, i)
      BY <2>1 DEF PushOutside
    <3>2. QED
      BY <1>0, <1>1, <3>1, KindsApart, InsertFlags
  <2>2. CASE design # "hybrid"
    <3>1. at' = at
      BY <2>2 DEF PushOutside
    <3>2. QED
      BY <1>0, <1>1, <2>2, <3>1 DEF FlagState, QTypeOK
  <2>3. QED
    BY <2>1, <2>2
<1>4. QTypeOK'
  BY <1>0, <1>1, <1>2, <1>3 DEF QTypeOK
<1>5. LookState' /\ PendState'
  BY <1>0, <1>1, <1>3, PendKept DEF LookState, LookOf
<1>6. QED
  BY <1>2, <1>3, <1>4, <1>5 DEF QueueIInv

(* A unit enters a main queue, at either end.                              *)
LEMMA MainPlaces ==
  ASSUME QTypeOK, NothingTwice, EachPlaced, NEW w \in Runner, NEW x \in Unit, NEW m,
         \A h \in Homes, u \in Listed : Placed(x, h, u) => h # "main",
         m \in {<<x>> \o mainq[w], Append(mainq[w], x)}, mainq' = [mainq EXCEPT ![w] = m],
         \A y \in Unit : y # x => /\ \A v \in Runner : task'[v] = y <=> task[v] = y
                                  /\ In(pend', y) <=> In(pend, y)
                                  /\ y \in fresh' <=> y \in fresh,
         \A v \in Runner : task'[v] # x, ~ In(pend', x), x \notin fresh',
         UNCHANGED <<list, ran>>, NoTwice(pend'),
         x \in Item => ran[x] = 0, \A q \in Listed : ~ In(list[q], x)
  PROVE  mainq' \in [Runner -> Seq(Unit)] /\ NothingTwice' /\ EachPlaced'
<1>1. PICK h \in Homes, u \in Listed : Placed(x, h, u)
  BY DEF EachPlaced
<1>2. \A v \in Runner : ~ In(mainq[v], x)
  BY <1>1 DEF Placed
<1>3. mainq[w] \in Seq(Unit) /\ NoTwice(mainq[w]) /\ ~ In(mainq[w], x)
  BY <1>2 DEF QTypeOK, NothingTwice
<1>4. m \in Seq(Unit) /\ NoTwice(m) /\ \A y : In(m, y) <=> In(mainq[w], y) \/ y = x
  <2>1. CASE m = <<x>> \o mainq[w]
    BY <1>3, <2>1, InFirst
  <2>2. CASE m = Append(mainq[w], x)
    BY <1>3, <2>2, InAppend
  <2>3. QED
    BY <2>1, <2>2
<1>5. mainq'[w] = m /\ \A v \in Runner : v # w => mainq'[v] = mainq[v]
  BY DEF QTypeOK
<1>6. mainq' \in [Runner -> Seq(Unit)]
  BY <1>4 DEF QTypeOK
<1>7. NothingTwice'
  BY <1>4, <1>5 DEF NothingTwice
<1>8. \A y \in Unit : y # x => SamePlace(y)
  <2> SUFFICES ASSUME NEW y \in Unit, y # x PROVE SamePlace(y)
    OBVIOUS
  <2>1. \A v \in Runner : In(mainq'[v], y) <=> In(mainq[v], y)
    BY <1>4, <1>5
  <2>2. QED
    BY <2>1 DEF SamePlace
<1>9. "main" \in Homes /\ w \in Listed /\ Placed(x, "main", w)'
  BY <1>2, <1>4, <1>5, KindsApart DEF Placed, Homes
<1>10. QED
  BY <1>6, <1>7, <1>8, <1>9, OneMoves

(* A task pushes to the front of the main queue.                           *)
LEMMA PushNewKeeps ==
  ASSUME QueueIInv, NEW w \in Runner, NEW i \in Item, PushNew(w, i)
  PROVE  QueueIInv'
<1>0. QTypeOK /\ LookState /\ PendState /\ FlagState /\ NothingTwice /\ EachPlaced
  BY DEF QueueIInv
<1>1. /\ i \in fresh /\ fresh' = fresh \ {i}
      /\ mainq' = [mainq EXCEPT ![w] = <<i>> \o mainq[w]]
      /\ design' = design /\ list' = list /\ nonEmpty' = nonEmpty /\ task' = task
      /\ pend' = pend /\ ran' = ran /\ at' = at
  BY <1>0 DEF PushNew, service, QTypeOK
<1>2. i \in Unit
  BY KindsApart
<1>3. PICK h \in Homes, u \in Listed : Placed(i, h, u)
  BY <1>0, <1>2 DEF EachPlaced
<1>4. /\ \A v \in Runner : task[v] # i
      /\ ~ In(pend, i) /\ ran[i] = 0 /\ \A q \in Listed : ~ In(list[q], i)
      /\ \A hh \in Homes, uu \in Listed : Placed(i, hh, uu) => hh # "main"
  BY <1>1, <1>3 DEF Placed
<1>5. mainq' \in [Runner -> Seq(Unit)] /\ NothingTwice' /\ EachPlaced'
  <2>1. NoTwice(pend')
    BY <1>0, <1>1 DEF NothingTwice
  <2> DEFINE m == <<i>> \o mainq[w]
  <2>2. m \in {<<i>> \o mainq[w], Append(mainq[w], i)} /\ mainq' = [mainq EXCEPT ![w] = m]
    BY <1>1
  <2> HIDE DEF m
  <2>4. /\ \A y \in Unit : y # i => /\ \A v \in Runner : task'[v] = y <=> task[v] = y
                                    /\ In(pend', y) <=> In(pend, y)
                                    /\ y \in fresh' <=> y \in fresh
    BY <1>1
  <2>5. /\ \A v \in Runner : task'[v] # i
       /\ ~ In(pend', i) /\ i \notin fresh'
    BY <1>1, <1>4
  <2>6. UNCHANGED <<list, ran>>
    BY <1>1
  <2>3. QED
    BY <1>0, <1>2, <1>4, <2>1, <2>2, <2>4, <2>5, <2>6, MainPlaces
<1>6. QTypeOK'
  BY <1>0, <1>1, <1>5 DEF QTypeOK
<1>7. LookState' /\ PendState' /\ FlagState'
  BY <1>0, <1>1 DEF LookState, LookOf, PendState, FlagState
<1>8. QED
  BY <1>5, <1>6, <1>7 DEF QueueIInv

(* WorkerRunQueue::defer: to the deferred list, or behind the one list.    *)
LEMMA DeferNewKeeps ==
  ASSUME QueueIInv, NEW w \in Runner, NEW i \in Item, DeferNew(w, i)
  PROVE  QueueIInv'
<1>0. QTypeOK /\ LookState /\ PendState /\ FlagState /\ NothingTwice /\ EachPlaced
  BY DEF QueueIInv
<1>1. /\ at[w] = Running /\ i \in fresh /\ fresh' = fresh \ {i} /\ task[w] \in Item
      /\ design' = design /\ nonEmpty' = nonEmpty /\ task' = task /\ pend' = pend
           /\ ran' = ran
  BY DEF DeferNew, DeferTo, Insert, service
<1>2. i \in Unit
  BY KindsApart
<1>3. CASE design = "hybrid"
  <2>1. Insert(w, w, i)
    BY <1>3 DEF DeferNew, DeferTo
  <2>2. list' = [list EXCEPT ![w] = Append(@, i)] /\ mainq' = mainq
    BY <2>1 DEF Insert
  <2>3. list' \in [Listed -> Seq(Item)] /\ fresh' \subseteq Item /\ NothingTwice'
          /\ EachPlaced'
    BY <1>0, <1>1, <2>2, KindsApart, AppendPlaces
  <2>4. /\ FlagState' /\ at' \in [Runner \cup {Outside} -> AtRec]
             /\ at'[w] = Op("flag", <<>>, w)
        /\ \A u \in Runner \cup {Outside} : u # w => at'[u] = at[u]
    BY <1>0, <1>1, <2>1, KindsApart, InsertFlags
  <2>5. QTypeOK'
    BY <1>0, <1>1, <2>2, <2>3, <2>4 DEF QTypeOK
  <2>6. LookState'
    <3>1. LookOf(at'[w], task'[w])
      BY <1>0, <1>1, <2>4, KindsApart, RunningTyped DEF QTypeOK
    <3>2. QED
      BY <1>0, <1>1, <2>4, <3>1, KindsApart, LookKept
  <2>7. PendState'
    <3>1. \A u \in Runner : at[u].op = "forward" => at'[u].op = "forward"
      BY <1>1, <2>4, KindsApart, RunningTyped
    <3>2. QED
      BY <1>0, <1>1, <3>1, PendKept
  <2>8. QED
    BY <2>3, <2>4, <2>5, <2>6, <2>7 DEF QueueIInv
<1>4. CASE design # "hybrid"
  <2>1. design = "spin"
    BY <1>0, <1>4 DEF QTypeOK
  <2>2. mainq' = [mainq EXCEPT ![w] = Append(mainq[w], i)] /\ list' = list /\ at' = at
    BY <1>0, <1>4, <2>1 DEF DeferNew, DeferTo, QTypeOK
  <2>3. PICK h \in Homes, u \in Listed : Placed(i, h, u)
    BY <1>0, <1>2 DEF EachPlaced
  <2>4. /\ \A v \in Runner : task[v] # i
        /\ ~ In(pend, i) /\ ran[i] = 0 /\ \A q \in Listed : ~ In(list[q], i)
        /\ \A hh \in Homes, uu \in Listed : Placed(i, hh, uu) => hh # "main"
    BY <1>1, <2>3 DEF Placed
  <2>5. mainq' \in [Runner -> Seq(Unit)] /\ NothingTwice' /\ EachPlaced'
    <3>1. NoTwice(pend')
      BY <1>0, <1>1 DEF NothingTwice
    <3> DEFINE m == Append(mainq[w], i)
    <3>2. m \in {<<i>> \o mainq[w], Append(mainq[w], i)} /\ mainq' = [mainq EXCEPT ![w] = m]
      BY <2>2
    <3> HIDE DEF m
    <3>4. /\ \A y \in Unit : y # i => /\ \A v \in Runner : task'[v] = y <=> task[v] = y
                                      /\ In(pend', y) <=> In(pend, y)
                                      /\ y \in fresh' <=> y \in fresh
      BY <1>1
    <3>5. /\ \A v \in Runner : task'[v] # i
         /\ ~ In(pend', i) /\ i \notin fresh'
      BY <1>1, <2>4
    <3>6. UNCHANGED <<list, ran>>
      BY <1>1, <2>2
    <3>3. QED
      BY <1>0, <1>2, <2>4, <3>1, <3>2, <3>4, <3>5, <3>6, MainPlaces
  <2>6. QTypeOK'
    BY <1>0, <1>1, <2>2, <2>5 DEF QTypeOK
  <2>7. LookState' /\ PendState' /\ FlagState'
    BY <1>0, <1>1, <2>2 DEF LookState, LookOf, PendState, FlagState
  <2>8. QED
    BY <2>5, <2>6, <2>7 DEF QueueIInv
<1>5. QED
  BY <1>3, <1>4

-----------------------------------------------------------------------------
(* Looking for a task.                                                     *)

(* What holds of a worker that looks, and of the flags, when it goes on.   *)
LEMMA LookerMoves ==
  ASSUME QTypeOK, LookState, FlagState, PendState, NEW w \in Runner, NEW r \in AtRec,
         at' = [at EXCEPT ![w] = r], r.op # "flag", at[w].op \notin {"flag", "forward"},
         LookOf(r, task'[w]), \A u \in Runner : u # w => task'[u] = task[u],
         design' = design, pend' = pend,
         \A q \in Listed : list'[q] # <<>> => list[q] # <<>>,
         \A q \in Listed : nonEmpty[q] => nonEmpty'[q] \/ list'[q] = <<>>
  PROVE  /\ at' \in [Runner \cup {Outside} -> AtRec]
         /\ LookState' /\ FlagState' /\ PendState'
<1>1. /\ at' \in [Runner \cup {Outside} -> AtRec] /\ at'[w] = r
      /\ \A u \in Runner \cup {Outside} : u # w => at'[u] = at[u]
  BY AtMoves, KindsApart
<1>2. LookState'
  BY <1>1, LookKept, KindsApart
<1>3. FlagState'
  <2>1. \A t \in Runner \cup {Outside} : at[t].op = "flag" => at'[t] = at[t]
    BY <1>1
  <2>2. QED
    BY <2>1, FlagKept
<1>4. PendState'
  <2>1. \A u \in Runner : at[u].op = "forward" => at'[u].op = "forward"
    BY <1>1, KindsApart
  <2>2. QED
    BY <2>1, PendKept
<1>5. QED
  BY <1>1, <1>2, <1>3, <1>4

(* A worker takes a unit from a main queue.                                *)
LEMMA MainTaken ==
  ASSUME QTypeOK, NothingTwice, EachPlaced, NEW w \in Runner, NEW v \in Runner, NEW m,
           NEW x \in Unit,
         task[w] = Nobody, In(mainq[v], x), m \in Seq(Unit), NoTwice(m),
         \A y : In(m, y) <=> In(mainq[v], y) /\ y # x,
         mainq' = [mainq EXCEPT ![v] = m], task' = [task EXCEPT ![w] = x],
         UNCHANGED <<list, pend, fresh, ran>>
  PROVE  /\ mainq' \in [Runner -> Seq(Unit)] /\ task' \in [Runner -> Unit \cup {Nobody}]
         /\ NothingTwice' /\ EachPlaced'
<1>1. /\ mainq'[v] = m /\ \A u \in Runner : u # v => mainq'[u] = mainq[u]
      /\ task'[w] = x /\ \A u \in Runner : u # w => task'[u] = task[u]
  BY DEF QTypeOK
<1>2. mainq' \in [Runner -> Seq(Unit)] /\ task' \in [Runner -> Unit \cup {Nobody}]
  BY DEF QTypeOK
<1>3. NothingTwice'
  BY <1>1 DEF NothingTwice
<1>4. PICK h \in Homes, u \in Listed : Placed(x, h, u)
  BY DEF EachPlaced
<1>5. h = "main" /\ u = v
  BY <1>4 DEF Placed
<1>6. \A y \in Unit : y # x => SamePlace(y)
  <2> SUFFICES ASSUME NEW y \in Unit, y # x PROVE SamePlace(y)
    OBVIOUS
  <2>1. \A z \in Runner : task'[z] = y <=> task[z] = y
    BY <1>1, KindsApart
  <2>2. \A z \in Runner : In(mainq'[z], y) <=> In(mainq[z], y)
    BY <1>1
  <2>3. QED
    BY <2>1, <2>2 DEF SamePlace
<1>7. "task" \in Homes /\ w \in Listed /\ Placed(x, "task", w)'
  <2>1. \A z \in Runner : task[z] # x
    BY <1>4, <1>5 DEF Placed
  <2>2. \A z \in Runner : task'[z] = x <=> z = w
    BY <1>1, <2>1
  <2>3. \A z \in Runner : ~ In(mainq'[z], x)
    BY <1>1, <1>4, <1>5 DEF Placed
  <2>4. QED
    BY <1>4, <1>5, <2>2, <2>3, KindsApart DEF Placed, Homes
<1>8. QED
  BY <1>2, <1>3, <1>6, <1>7, OneMoves

(* A worker takes an item from a locked list.                              *)
LEMMA ListTaken ==
  ASSUME QTypeOK, NothingTwice, EachPlaced, NEW w \in Runner, NEW q \in Listed, NEW m,
           NEW x \in Item,
         task[w] = Nobody, In(list[q], x), m \in Seq(Item), NoTwice(m),
         \A y : In(m, y) <=> In(list[q], y) /\ y # x,
         list' = [list EXCEPT ![q] = m], task' = [task EXCEPT ![w] = x],
         UNCHANGED <<mainq, pend, fresh, ran>>
  PROVE  /\ list' \in [Listed -> Seq(Item)] /\ task' \in [Runner -> Unit \cup {Nobody}]
         /\ NothingTwice' /\ EachPlaced'
<1>1. /\ list'[q] = m /\ \A u \in Listed : u # q => list'[u] = list[u]
      /\ task'[w] = x /\ \A u \in Runner : u # w => task'[u] = task[u]
  BY DEF QTypeOK
<1>2. list' \in [Listed -> Seq(Item)] /\ task' \in [Runner -> Unit \cup {Nobody}]
  BY KindsApart DEF QTypeOK
<1>3. NothingTwice'
  BY <1>1 DEF NothingTwice
<1>4. x \in Unit
  BY KindsApart
<1>5. PICK h \in Homes, u \in Listed : Placed(x, h, u)
  BY <1>4 DEF EachPlaced
<1>6. h = "list" /\ u = q
  BY <1>5 DEF Placed
<1>7. \A y \in Unit : y # x => SamePlace(y)
  <2> SUFFICES ASSUME NEW y \in Unit, y # x PROVE SamePlace(y)
    OBVIOUS
  <2>1. \A z \in Runner : task'[z] = y <=> task[z] = y
    BY <1>1, KindsApart
  <2>2. \A z \in Listed : In(list'[z], y) <=> In(list[z], y)
    BY <1>1
  <2>3. QED
    BY <2>1, <2>2 DEF SamePlace
<1>8. "task" \in Homes /\ w \in Listed /\ Placed(x, "task", w)'
  <2>1. \A z \in Runner : task[z] # x
    BY <1>5, <1>6 DEF Placed
  <2>2. \A z \in Runner : task'[z] = x <=> z = w
    BY <1>1, <2>1
  <2>3. \A z \in Listed : ~ In(list'[z], x)
    BY <1>1, <1>5, <1>6 DEF Placed
  <2>4. QED
    BY <1>5, <1>6, <2>2, <2>3, KindsApart DEF Placed, Homes
<1>9. QED
  BY <1>2, <1>3, <1>4, <1>7, <1>8, OneMoves

(* The owner pops, or a thief steals.                                      *)
LEMMA TakeMainKeeps ==
  ASSUME QueueIInv, NEW w \in Runner, TakeMain(w)
  PROVE  QueueIInv'
<1> DEFINE v == Source(w)[2]
           s == mainq[v]
           x == IF v = w THEN Head(s) ELSE Last(s)
           m == IF v = w THEN Tail(s) ELSE Front(s)
<1>0. QTypeOK /\ LookState /\ PendState /\ FlagState /\ NothingTwice /\ EachPlaced
  BY DEF QueueIInv
<1>1. at[w].op = "look" /\ Source(w)[1] = "main" /\ s # <<>>
  BY DEF TakeMain, LooksAt
<1>2. at[w].plan # <<>> /\ task[w] = Nobody
  BY <1>0, <1>1 DEF LookState, LookOf
<1>3. v \in Runner
  BY <1>0, <1>1, <1>2, SourceTyped
<1>4. s \in Seq(Unit) /\ NoTwice(s)
  BY <1>0, <1>3 DEF QTypeOK, NothingTwice
<1>5. mainq' = [mainq EXCEPT ![v] = m] /\ task' = [task EXCEPT ![w] = x]
  BY <1>0, <1>3 DEF TakeMain, QTypeOK
<1>6. /\ x \in Unit /\ In(s, x) /\ m \in Seq(Unit) /\ NoTwice(m)
      /\ \A y : In(m, y) <=> In(s, y) /\ y # x
  <2>1. CASE v = w
    <3>1. x = Head(s) /\ m = Tail(s)
      BY <2>1
    <3> HIDE DEF x, m, s, v
    <3>2. QED
      BY <1>1, <1>4, <3>1, InTail, InTyped
  <2>2. CASE v # w
    <3>1. x = Last(s) /\ m = Front(s)
      BY <2>2
    <3> HIDE DEF x, m, s, v
    <3>2. QED
      BY <1>1, <1>4, <3>1, InFront, InTyped
  <2>3. QED
    BY <2>1, <2>2
<1>7. /\ design' = design /\ list' = list /\ nonEmpty' = nonEmpty /\ pend' = pend
      /\ fresh' = fresh /\ ran' = ran /\ at' = [at EXCEPT ![w] = Running]
  BY DEF TakeMain, service
<1> HIDE DEF x, m
<1>8. /\ mainq' \in [Runner -> Seq(Unit)] /\ task' \in [Runner -> Unit \cup {Nobody}]
      /\ NothingTwice' /\ EachPlaced'
  <2> HIDE DEF v
  <2>1. QED
    BY <1>0, <1>2, <1>3, <1>5, <1>6, <1>7, MainTaken
<1>9. /\ at' \in [Runner \cup {Outside} -> AtRec] /\ LookState' /\ FlagState' /\ PendState'
  <2>1. Running \in AtRec /\ Running.op # "flag" /\ LookOf(Running, task'[w])
    BY <1>8, RunningTyped
  <2>2. \A u \in Runner : u # w => task'[u] = task[u]
    BY <1>0, <1>5 DEF QTypeOK
  <2>3. at[w].op \notin {"flag", "forward"}
    BY <1>1
  <2> HIDE DEF v
  <2>4. QED
    BY <1>0, <1>7, <2>1, <2>2, <2>3, LookerMoves
<1>10. QTypeOK'
  BY <1>0, <1>7, <1>8, <1>9 DEF QTypeOK
<1>11. QED
  BY <1>8, <1>9, <1>10 DEF QueueIInv

(* The main queue is empty.                                                *)
LEMMA SkipMainKeeps ==
  ASSUME QueueIInv, NEW w \in Runner, SkipMain(w)
  PROVE  QueueIInv'
<1>0. QTypeOK /\ LookState /\ PendState /\ FlagState /\ NothingTwice /\ EachPlaced
  BY DEF QueueIInv
<1>1. at[w].op = "look" /\ at[w].plan # <<>> /\ task[w] = Nobody
  BY <1>0 DEF SkipMain, LooksAt, LookState, LookOf
<1>2. /\ design' = design /\ mainq' = mainq /\ list' = list /\ nonEmpty' = nonEmpty
      /\ task' = task /\ pend' = pend /\ fresh' = fresh /\ ran' = ran
      /\ at' = [at EXCEPT ![w] = After(w)]
  BY DEF SkipMain, store, service
<1>3. After(w) \in AtRec /\ After(w).op = "look" /\ LookOf(After(w), Nobody)
  BY <1>0, <1>1, AfterTyped
<1>4. /\ at' \in [Runner \cup {Outside} -> AtRec] /\ LookState' /\ FlagState' /\ PendState'
  BY <1>0, <1>1, <1>2, <1>3, LookerMoves
<1>5. EachPlaced' /\ NothingTwice'
  BY <1>0, <1>2, PlacesKept
<1>6. QTypeOK'
  BY <1>0, <1>2, <1>4 DEF QTypeOK
<1>7. QED
  BY <1>4, <1>5, <1>6 DEF QueueIInv

(* The flag of a list is read without the lock.                            *)
LEMMA ReadFlagKeeps ==
  ASSUME QueueIInv, NEW w \in Runner, ReadFlag(w)
  PROVE  QueueIInv'
<1> DEFINE r == IF nonEmpty[Source(w)[2]] THEN Op("take", at[w].plan, ExtQ) ELSE After(w)
<1>0. QTypeOK /\ LookState /\ PendState /\ FlagState /\ NothingTwice /\ EachPlaced
  BY DEF QueueIInv
<1>1. /\ at[w].op = "look" /\ at[w].plan # <<>> /\ task[w] = Nobody
      /\ Source(w)[1] = "list"
  BY <1>0 DEF ReadFlag, LooksAt, LookState, LookOf
<1>2. /\ design' = design /\ mainq' = mainq /\ list' = list /\ nonEmpty' = nonEmpty
      /\ task' = task /\ pend' = pend /\ fresh' = fresh /\ ran' = ran
  BY DEF ReadFlag, store, service
<1>3. at' = [at EXCEPT ![w] = r]
  BY <1>0, KindsApart DEF ReadFlag, QTypeOK
<1>4. r \in AtRec /\ r.op # "flag" /\ LookOf(r, Nobody)
  <2>1. CASE nonEmpty[Source(w)[2]]
    <3>1. at[w].plan \in Seq(Sources)
      BY <1>0, KindsApart DEF QTypeOK, AtRec
    <3>2. /\ Op("take", at[w].plan, ExtQ) \in AtRec
          /\ Op("take", at[w].plan, ExtQ).op = "take"
          /\ Op("take", at[w].plan, ExtQ).plan = at[w].plan
      BY <3>1, PlanTyped
    <3>3. Head(at[w].plan) \in {"list"} \X Listed
      BY <1>0, <1>1, SourceTyped DEF Source
    <3>4. r = Op("take", at[w].plan, ExtQ)
      BY <2>1
    <3>5. QED
      BY <1>1, <3>2, <3>3, <3>4 DEF LookOf
  <2>2. CASE ~ nonEmpty[Source(w)[2]]
    BY <1>0, <1>1, <2>2, AfterTyped
  <2>3. QED
    BY <2>1, <2>2
<1> HIDE DEF r
<1>5. /\ at' \in [Runner \cup {Outside} -> AtRec] /\ LookState' /\ FlagState' /\ PendState'
  BY <1>0, <1>1, <1>2, <1>3, <1>4, LookerMoves
<1>6. EachPlaced' /\ NothingTwice'
  BY <1>0, <1>2, PlacesKept
<1>7. QTypeOK'
  BY <1>0, <1>2, <1>5 DEF QTypeOK
<1>8. QED
  BY <1>5, <1>6, <1>7 DEF QueueIInv

(* Under the lock an item is taken, or the list is found empty after all.  *)
LEMMA PopListKeeps ==
  ASSUME QueueIInv, NEW w \in Runner, PopList(w)
  PROVE  QueueIInv'
<1> DEFINE q == Source(w)[2]
           s == list[q]
           x == IF q = ExtQ THEN Last(s) ELSE Head(s)
           m == IF q = ExtQ THEN Front(s) ELSE Tail(s)
           r == Op("clear", at[w].plan, ExtQ)
<1>0. QTypeOK /\ LookState /\ PendState /\ FlagState /\ NothingTwice /\ EachPlaced
  BY DEF QueueIInv
<1>1. /\ at[w].op = "take" /\ at[w].plan # <<>> /\ task[w] = Nobody
      /\ Head(at[w].plan) \in {"list"} \X Listed
  BY <1>0 DEF PopList, LookState, LookOf
<1>2. /\ design' = design /\ mainq' = mainq /\ nonEmpty' = nonEmpty
      /\ pend' = pend /\ fresh' = fresh /\ ran' = ran
  BY DEF PopList, service
<1>3. at' = [at EXCEPT ![w] = r]
  BY <1>0, KindsApart DEF PopList, QTypeOK
<1>4. q \in Listed /\ s \in Seq(Item) /\ NoTwice(s)
  BY <1>0, <1>1, SourceTyped DEF QTypeOK, NothingTwice
<1>5. /\ list' \in [Listed -> Seq(Item)] /\ task' \in [Runner -> Unit \cup {Nobody}]
      /\ NothingTwice' /\ EachPlaced' /\ task'[w] # Service
      /\ \A u \in Runner : u # w => task'[u] = task[u]
      /\ \A u \in Listed : list'[u] # <<>> => list[u] # <<>>
  <2>1. CASE s = <<>>
    <3>1. list' = list /\ task' = task
      BY <2>1 DEF PopList
    <3>2. EachPlaced' /\ NothingTwice'
      BY <1>0, <1>2, <3>1, PlacesKept
    <3>3. task'[w] # Service
      BY <1>1, <3>1, KindsApart
    <3>4. QED
      BY <1>0, <3>1, <3>2, <3>3 DEF QTypeOK
  <2>2. CASE s # <<>>
    <3>1. list' = [list EXCEPT ![q] = m] /\ task' = [task EXCEPT ![w] = x]
      BY <1>0, <1>4, <2>2 DEF PopList, QTypeOK
    <3>2. /\ x \in Item /\ In(s, x) /\ m \in Seq(Item) /\ NoTwice(m)
          /\ \A y : In(m, y) <=> In(s, y) /\ y # x
      <4>1. CASE q # ExtQ
        <5>1. x = Head(s) /\ m = Tail(s)
          BY <4>1
        <5> HIDE DEF x, m, s, q
        <5>2. QED
          BY <1>4, <2>2, <5>1, InTail, InTyped
      <4>2. CASE q = ExtQ
        <5>1. x = Last(s) /\ m = Front(s)
          BY <4>2
        <5> HIDE DEF x, m, s, q
        <5>2. QED
          BY <1>4, <2>2, <5>1, InFront, InTyped
      <4>3. QED
        BY <4>1, <4>2
    <3> HIDE DEF x, m
    <3>3. /\ list' \in [Listed -> Seq(Item)] /\ task' \in [Runner -> Unit \cup {Nobody}]
          /\ NothingTwice' /\ EachPlaced'
      <4> HIDE DEF q
      <4>1. QED
        BY <1>0, <1>1, <1>2, <1>4, <3>1, <3>2, ListTaken
    <3>4. task'[w] = x /\ \A u \in Runner : u # w => task'[u] = task[u]
      BY <1>0, <3>1 DEF QTypeOK
    <3>5. \A u \in Listed : u # q => list'[u] = list[u]
      BY <1>0, <3>1 DEF QTypeOK
    <3>6. x # Service
      BY <3>2, KindsApart
    <3>7. QED
      BY <2>2, <3>3, <3>4, <3>5, <3>6
  <2>3. QED
    BY <2>1, <2>2
<1>6. r \in AtRec /\ r.op = "clear" /\ LookOf(r, task'[w])
  <2>1. at[w].plan \in Seq(Sources)
    BY <1>0, KindsApart DEF QTypeOK, AtRec
  <2>2. r \in AtRec /\ r.op = "clear" /\ r.plan = at[w].plan
    BY <2>1, PlanTyped
  <2> HIDE DEF r
  <2>3. QED
    BY <1>1, <1>5, <2>2 DEF LookOf
<1> HIDE DEF r
<1>7. /\ at' \in [Runner \cup {Outside} -> AtRec] /\ LookState' /\ FlagState' /\ PendState'
  BY <1>0, <1>1, <1>2, <1>3, <1>5, <1>6, LookerMoves
<1>8. QTypeOK'
  BY <1>0, <1>2, <1>5, <1>7 DEF QTypeOK
<1>9. QED
  BY <1>5, <1>7, <1>8 DEF QueueIInv

(* The flag of an empty list is cleared under the same lock.               *)
LEMMA ClearFlagKeeps ==
  ASSUME QueueIInv, NEW w \in Runner, ClearFlag(w)
  PROVE  QueueIInv'
<1> DEFINE q == Source(w)[2]
           r == IF task[w] = Nobody THEN After(w) ELSE Running
<1>0. QTypeOK /\ LookState /\ PendState /\ FlagState /\ NothingTwice /\ EachPlaced
  BY DEF QueueIInv
<1>1. /\ at[w].op = "clear" /\ at[w].plan # <<>>
      /\ Head(at[w].plan) \in {"list"} \X Listed
  BY <1>0 DEF ClearFlag, LookState, LookOf
<1>2. /\ design' = design /\ mainq' = mainq /\ list' = list /\ task' = task
      /\ pend' = pend /\ fresh' = fresh /\ ran' = ran /\ at' = [at EXCEPT ![w] = r]
  BY DEF ClearFlag, service
<1>3. q \in Listed
  BY <1>0, <1>1, SourceTyped
<1>4. /\ nonEmpty' \in [Listed -> BOOLEAN]
      /\ \A u \in Listed : nonEmpty[u] => nonEmpty'[u] \/ list'[u] = <<>>
  <2> DEFINE b == nonEmpty[q] /\ list[q] # <<>>
  <2>1. nonEmpty' = [nonEmpty EXCEPT ![q] = b]
    BY <1>0, <1>3 DEF ClearFlag, QTypeOK
  <2>2. b \in BOOLEAN /\ (nonEmpty[q] => b \/ list[q] = <<>>)
    OBVIOUS
  <2> HIDE DEF b, q
  <2>3. nonEmpty'[q] = b /\ \A u \in Listed : u # q => nonEmpty'[u] = nonEmpty[u]
    BY <1>0, <1>3, <2>1 DEF QTypeOK
  <2>4. nonEmpty' \in [Listed -> BOOLEAN]
    BY <1>0, <2>1, <2>2 DEF QTypeOK
  <2>5. QED
    BY <1>2, <2>2, <2>3, <2>4
<1>5. r \in AtRec /\ r.op # "flag" /\ LookOf(r, task'[w])
  <2>1. CASE task[w] = Nobody
    BY <1>0, <1>1, <1>2, <2>1, AfterTyped
  <2>2. CASE task[w] # Nobody
    BY <1>0, <1>2, <2>2, RunningTyped DEF QTypeOK
  <2>3. QED
    BY <2>1, <2>2
<1> HIDE DEF r
<1>6. /\ at' \in [Runner \cup {Outside} -> AtRec] /\ LookState' /\ FlagState' /\ PendState'
  BY <1>0, <1>1, <1>2, <1>4, <1>5, LookerMoves
<1>7. EachPlaced' /\ NothingTwice'
  BY <1>0, <1>2, PlacesKept
<1>8. QTypeOK'
  BY <1>0, <1>2, <1>4, <1>6 DEF QTypeOK
<1>9. QED
  BY <1>6, <1>7, <1>8 DEF QueueIInv

-----------------------------------------------------------------------------
(* Running.                                                                *)

(* An item has run.                                                        *)
LEMMA EndItemKeeps ==
  ASSUME QueueIInv, NEW w \in Runner, EndItem(w)
  PROVE  QueueIInv'
<1> DEFINE r == Op("look", SwitchPlan(w), ExtQ)
<1>0. QTypeOK /\ LookState /\ PendState /\ FlagState /\ NothingTwice /\ EachPlaced
  BY DEF QueueIInv
<1> PICK x \in Item : x = task[w]
  BY DEF EndItem
<1>1. x \in Item /\ x \in Unit /\ x # Nobody /\ at[w].op = "run"
  BY KindsApart, RunningTyped DEF EndItem
<1>2. /\ design' = design /\ mainq' = mainq /\ list' = list /\ nonEmpty' = nonEmpty
      /\ pend' = pend /\ fresh' = fresh /\ at' = [at EXCEPT ![w] = r]
  BY DEF EndItem, store, service
<1>3. /\ task'[w] = Nobody /\ \A u \in Runner : u # w => task'[u] = task[u]
      /\ task' \in [Runner -> Unit \cup {Nobody}]
  BY <1>0 DEF EndItem, QTypeOK
<1>4. /\ ran'[x] = ran[x] + 1 /\ \A y \in Item : y # x => ran'[y] = ran[y]
      /\ ran' \in [Item -> Nat]
  BY <1>0, <1>1 DEF EndItem, QTypeOK
<1>5. PICK h \in Homes, u \in Listed : Placed(x, h, u)
  BY <1>0, <1>1 DEF EachPlaced
<1>6. h = "task" /\ u = w
  BY <1>5 DEF Placed
<1>7. \A y \in Unit : y # x => SamePlace(y)
  <2> SUFFICES ASSUME NEW y \in Unit, y # x PROVE SamePlace(y)
    OBVIOUS
  <2>1. y # Nobody
    BY KindsApart
  <2>2. \A z \in Runner : task'[z] = y <=> task[z] = y
    BY <1>3, <2>1
  <2>3. QED
    BY <1>2, <1>4, <2>2 DEF SamePlace
<1>8. "ran" \in Homes /\ Placed(x, "ran", w)'
  <2>1. \A z \in Runner : task'[z] # x
    BY <1>1, <1>3, <1>5, <1>6 DEF Placed
  <2>2. ran[x] = 0
    BY <1>1, <1>5, <1>6 DEF Placed
  <2>3. ran'[x] = 1
    BY <1>4, <2>2
  <2>4. QED
    BY <1>1, <1>2, <1>5, <1>6, <2>1, <2>3, KindsApart DEF Placed, Homes
<1>9. EachPlaced' /\ NothingTwice'
  <2>1. w \in Listed
    BY KindsApart
  <2>2. EachPlaced'
    BY <1>0, <1>1, <1>7, <1>8, <2>1, OneMoves
  <2>3. QED
    BY <1>0, <1>2, <2>2 DEF NothingTwice
<1>10. /\ at' \in [Runner \cup {Outside} -> AtRec] /\ LookState' /\ FlagState' /\ PendState'
  <2>1. r \in AtRec /\ r.op # "flag" /\ LookOf(r, task'[w])
    BY <1>3, LookTyped
  <2> HIDE DEF r
  <2>2. QED
    BY <1>0, <1>1, <1>2, <1>3, <2>1, LookerMoves
<1>11. QTypeOK'
  BY <1>0, <1>2, <1>3, <1>4, <1>10 DEF QTypeOK
<1>12. QED
  BY <1>9, <1>10, <1>11 DEF QueueIInv

(* There is one service, so what it drains finds nothing left to forward.  *)
LEMMA ServiceAlone ==
  ASSUME QueueIInv, NEW w \in Runner, task[w] = Service
  PROVE  /\ \A v \in Runner : task[v] = Service => v = w
         /\ at[w].op # "forward" => pend = <<>>
         /\ \A h \in Homes, u \in Listed : Placed(Service, h, u) => h = "task" /\ u = w
<1>1. LookState /\ PendState /\ EachPlaced /\ Service \in Unit
  BY KindsApart DEF QueueIInv
<1>2. PICK h \in Homes, u \in Listed : Placed(Service, h, u)
  BY <1>1 DEF EachPlaced
<1>3. \A hh \in Homes, uu \in Listed : Placed(Service, hh, uu) => hh = "task" /\ uu = w
  BY DEF Placed
<1>4. \A v \in Runner : task[v] = Service => v = w
  BY <1>2 DEF Placed
<1>5. ASSUME at[w].op # "forward" PROVE pend = <<>>
  <2>1. \A v \in Runner : at[v].op = "forward" => task[v] = Service
    BY <1>1 DEF LookState, LookOf
  <2>2. QED
    BY <1>1, <1>4, <1>5, <2>1 DEF PendState
<1>6. QED
  BY <1>3, <1>4, <1>5

(* run_service takes everything.                                           *)
LEMMA DrainAllKeeps ==
  ASSUME QueueIInv, NEW w \in Runner, DrainAll(w)
  PROVE  QueueIInv'
<1> DEFINE s == list[ExtQ]
           X == {y \in Item : In(s, y)}
           r == Op("forward", <<>>, ExtQ)
<1>0. QTypeOK /\ LookState /\ PendState /\ FlagState /\ NothingTwice /\ EachPlaced
  BY DEF QueueIInv
<1>1. at[w].op = "run" /\ task[w] = Service
  BY RunningTyped DEF DrainAll
<1>2. /\ design' = design /\ mainq' = mainq /\ nonEmpty' = nonEmpty /\ task' = task
      /\ fresh' = fresh /\ ran' = ran /\ pend' = s
      /\ at' = [at EXCEPT ![w] = r]
  BY DEF DrainAll
<1>3. /\ list'[ExtQ] = <<>> /\ \A u \in Listed : u # ExtQ => list'[u] = list[u]
      /\ list' \in [Listed -> Seq(Item)]
  <2>1. <<>> \in Seq(Item)
    BY EmptySeq
  <2>2. QED
    BY <1>0, <2>1, KindsApart DEF DrainAll, QTypeOK
<1>4. s \in Seq(Item) /\ NoTwice(s) /\ pend = <<>>
  BY <1>0, <1>1, KindsApart, ServiceAlone DEF QTypeOK, NothingTwice
<1>5. NothingTwice'
  <2>1. \A u \in Listed : NoTwice(list'[u])
    BY <1>0, <1>3, InEmpty DEF NothingTwice
  <2>2. QED
    BY <1>0, <1>2, <1>4, <2>1 DEF NothingTwice
<1>6. \A y : In(s, y) => y \in X
  BY <1>4, InTyped
<1>7. /\ \A y : ~ In(list'[ExtQ], y) /\ ~ In(pend, y)
  BY <1>3, <1>4, InEmpty
<1>8. \A y \in Unit : y \notin X => SamePlace(y)
  <2> SUFFICES ASSUME NEW y \in Unit, y \notin X PROVE SamePlace(y)
    OBVIOUS
  <2> HIDE DEF X
  <2>1. \A u \in Listed : In(list'[u], y) <=> In(list[u], y)
    BY <1>3, <1>6, <1>7
  <2>2. In(pend', y) <=> In(pend, y)
    BY <1>2, <1>6, <1>7
  <2>3. QED
    BY <1>2, <2>1, <2>2 DEF SamePlace
<1>9. \A x \in Unit : x \in X => \E h \in Homes, u \in Listed : Placed(x, h, u)'
  <2> SUFFICES ASSUME NEW x \in Unit, x \in X PROVE \E h \in Homes, u \in Listed : Placed(x, h, u)'
    OBVIOUS
  <2>1. x \in Item /\ In(s, x)
    OBVIOUS
  <2>2. PICK h \in Homes, u \in Listed : Placed(x, h, u)
    BY <1>0 DEF EachPlaced
  <2>3. h = "list" /\ u = ExtQ
    BY <2>1, <2>2, KindsApart DEF Placed
  <2>4. \A z \in Listed : ~ In(list'[z], x)
    BY <1>3, <1>7, <2>2, <2>3 DEF Placed
  <2>5. In(pend', x)
    BY <1>2, <2>1
  <2>6. "pend" \in Homes /\ ExtQ \in Listed
    BY KindsApart DEF Homes
  <2> HIDE DEF X, s
  <2>7. Placed(x, "pend", ExtQ)'
    BY <1>2, <2>1, <2>2, <2>3, <2>4, <2>5, KindsApart DEF Placed
  <2>8. QED
    BY <2>6, <2>7
<1> HIDE DEF X, s
<1>10. EachPlaced'
  BY <1>0, <1>8, <1>9, OthersStay
<1>11. /\ at' \in [Runner \cup {Outside} -> AtRec] /\ at'[w] = r
       /\ \A u \in Runner \cup {Outside} : u # w => at'[u] = at[u]
  BY <1>0, <1>2, AtMoves, RunningTyped, KindsApart
<1>12. r.op = "forward" /\ LookOf(r, Service)
  BY RunningTyped DEF LookOf
<1> HIDE DEF r
<1>13. LookState'
  BY <1>0, <1>1, <1>2, <1>11, <1>12, LookKept, KindsApart
<1>14. PendState'
  BY <1>11, <1>12, KindsApart DEF PendState
<1>15. FlagState'
  <2>1. \A t \in Runner \cup {Outside} : at[t].op = "flag" => at'[t] = at[t]
    BY <1>1, <1>11
  <2>2. \A u \in Listed : list'[u] # <<>> => list[u] # <<>>
    BY <1>3
  <2>3. QED
    BY <1>0, <1>2, <2>1, <2>2, FlagKept
<1>16. QTypeOK'
  BY <1>0, <1>2, <1>3, <1>4, <1>11 DEF QTypeOK
<1>17. QED
  BY <1>5, <1>10, <1>13, <1>14, <1>15, <1>16 DEF QueueIInv

(* ... defers it, one item after the other.                                *)
LEMMA ForwardKeeps ==
  ASSUME QueueIInv, NEW w \in Runner, Forward(w)
  PROVE  QueueIInv'
<1> DEFINE x == Head(pend)
           m == Append(mainq[w], x)
<1>0. QTypeOK /\ LookState /\ PendState /\ FlagState /\ NothingTwice /\ EachPlaced
  BY DEF QueueIInv
<1>1. /\ pend # <<>> /\ pend' = Tail(pend) /\ mainq' = [mainq EXCEPT ![w] = m]
      /\ design' = design /\ list' = list /\ nonEmpty' = nonEmpty
      /\ at' = at /\ task' = task /\ fresh' = fresh /\ ran' = ran /\ at[w].op = "forward"
  BY <1>0 DEF Forward, QTypeOK
<1>2. /\ pend' \in Seq(Item) /\ NoTwice(pend') /\ x \in Item /\ In(pend, x)
      /\ \A y : In(pend', y) <=> In(pend, y) /\ y # x
  <2>1. pend \in Seq(Item) /\ NoTwice(pend)
    BY <1>0 DEF QTypeOK, NothingTwice
  <2>2. QED
    BY <1>1, <2>1, InTail, InTyped
<1>3. x \in Unit
  BY <1>2, KindsApart
<1>4. PICK h \in Homes, u \in Listed : Placed(x, h, u)
  BY <1>0, <1>3 DEF EachPlaced
<1>5. /\ \A v \in Runner : task[v] # x
      /\ x \notin fresh /\ ran[x] = 0 /\ \A q \in Listed : ~ In(list[q], x)
      /\ \A hh \in Homes, uu \in Listed : Placed(x, hh, uu) => hh # "main"
  BY <1>2, <1>4 DEF Placed
<1>6. mainq' \in [Runner -> Seq(Unit)] /\ NothingTwice' /\ EachPlaced'
  <2>1. m \in {<<x>> \o mainq[w], Append(mainq[w], x)}
    OBVIOUS
  <2> HIDE DEF m, x
  <2>2. /\ \A y \in Unit : y # x => /\ \A v \in Runner : task'[v] = y <=> task[v] = y
                                    /\ In(pend', y) <=> In(pend, y)
                                    /\ y \in fresh' <=> y \in fresh
    BY <1>1, <1>2
  <2>3. /\ \A v \in Runner : task'[v] # x
        /\ ~ In(pend', x) /\ x \notin fresh'
    BY <1>1, <1>2, <1>5
  <2>4. QED
    BY <1>0, <1>1, <1>2, <1>3, <1>5, <2>1, <2>2, <2>3, MainPlaces
<1>7. QTypeOK'
  BY <1>0, <1>1, <1>2, <1>6 DEF QTypeOK
<1>8. LookState' /\ PendState' /\ FlagState'
  BY <1>0, <1>1 DEF LookState, LookOf, PendState, FlagState
<1>9. QED
  BY <1>6, <1>7, <1>8 DEF QueueIInv

(* The end of a round of the service: its worker looks for a task.         *)
LEMMA RoundEnds ==
  ASSUME QTypeOK, LookState, FlagState, NEW w \in Runner, pend = <<>>, pend' = pend,
         at[w].op = "forward", at' = [at EXCEPT ![w] = Op("look", SwitchPlan(w), ExtQ)],
         task' = [task EXCEPT ![w] = Nobody],
         design' = design, list' = list, nonEmpty' = nonEmpty
  PROVE  /\ at' \in [Runner \cup {Outside} -> AtRec]
              /\ task' \in [Runner -> Unit \cup {Nobody}]
         /\ task'[w] = Nobody /\ \A u \in Runner : u # w => task'[u] = task[u]
         /\ LookState' /\ FlagState' /\ PendState'
<1> DEFINE r == Op("look", SwitchPlan(w), ExtQ)
<1>1. r \in AtRec /\ LookOf(r, Nobody)
  BY LookTyped
<1> HIDE DEF r
<1>2. at' = [at EXCEPT ![w] = r]
  BY DEF r
<1>3. /\ at' \in [Runner \cup {Outside} -> AtRec] /\ at'[w] = r
      /\ \A u \in Runner \cup {Outside} : u # w => at'[u] = at[u]
  BY <1>1, <1>2, AtMoves, KindsApart
<1>4. /\ task' \in [Runner -> Unit \cup {Nobody}]
      /\ task'[w] = Nobody /\ \A u \in Runner : u # w => task'[u] = task[u]
  BY DEF QTypeOK
<1>5. LookState'
  BY <1>1, <1>3, <1>4, LookKept, KindsApart
<1>6. FlagState'
  <2>1. \A t \in Runner \cup {Outside} : at[t].op = "flag" => at'[t] = at[t]
    BY <1>3
  <2>2. QED
    BY <2>1, FlagKept
<1>7. PendState'
  BY DEF PendState
<1>8. QED
  BY <1>3, <1>4, <1>5, <1>6, <1>7

(* ... and the service is gone.                                            *)
LEMMA ReturnKeeps ==
  ASSUME QueueIInv, NEW w \in Runner, Return(w)
  PROVE  QueueIInv'
<1>0. QTypeOK /\ LookState /\ PendState /\ FlagState /\ NothingTwice /\ EachPlaced
  BY DEF QueueIInv
<1>1. /\ at[w].op = "forward" /\ pend = <<>>
      /\ task' = [task EXCEPT ![w] = Nobody]
      /\ at' = [at EXCEPT ![w] = Op("look", SwitchPlan(w), ExtQ)]
      /\ design' = design /\ mainq' = mainq /\ list' = list /\ nonEmpty' = nonEmpty
      /\ pend' = pend /\ fresh' = fresh /\ ran' = ran
  BY DEF Return, store, service
<1>2. /\ at' \in [Runner \cup {Outside} -> AtRec]
           /\ task' \in [Runner -> Unit \cup {Nobody}]
      /\ task'[w] = Nobody /\ \A u \in Runner : u # w => task'[u] = task[u]
      /\ LookState' /\ FlagState' /\ PendState'
  BY <1>0, <1>1, RoundEnds
<1>3. task[w] = Service /\ Service \in Unit
  BY <1>0, <1>1, KindsApart DEF LookState, LookOf
<1>4. PICK h \in Homes, u \in Listed : Placed(Service, h, u)
  BY <1>0, <1>3 DEF EachPlaced
<1>5. h = "task" /\ u = w
  BY <1>3, <1>4, ServiceAlone
<1>6. \A y \in Unit : y # Service => SamePlace(y)
  <2> SUFFICES ASSUME NEW y \in Unit, y # Service PROVE SamePlace(y)
    OBVIOUS
  <2>1. y # Nobody
    BY KindsApart
  <2>2. \A z \in Runner : task'[z] = y <=> task[z] = y
    BY <1>2, <1>3, <2>1
  <2>3. QED
    BY <1>1, <2>2 DEF SamePlace
<1>7. "gone" \in Homes /\ w \in Listed /\ Placed(Service, "gone", w)'
  <2>1. \A z \in Runner : task'[z] # Service
    BY <1>2, <1>4, <1>5, KindsApart DEF Placed
  <2>2. QED
    BY <1>1, <1>4, <1>5, <2>1, KindsApart DEF Placed, Homes
<1>8. EachPlaced'
  BY <1>0, <1>3, <1>6, <1>7, OneMoves
<1>9. NothingTwice' /\ QTypeOK'
  BY <1>0, <1>1, <1>2 DEF NothingTwice, QTypeOK
<1>10. QED
  BY <1>2, <1>8, <1>9 DEF QueueIInv

(* ... or yields, to be found in the main queue again.                     *)
LEMMA YieldServiceKeeps ==
  ASSUME QueueIInv, NEW w \in Runner, YieldService(w)
  PROVE  QueueIInv'
<1> DEFINE m == Append(mainq[w], Service)
<1>0. QTypeOK /\ LookState /\ PendState /\ FlagState /\ NothingTwice /\ EachPlaced
  BY DEF QueueIInv
<1>1. /\ at[w].op = "forward" /\ pend = <<>> /\ mainq' = [mainq EXCEPT ![w] = m]
      /\ task' = [task EXCEPT ![w] = Nobody]
      /\ at' = [at EXCEPT ![w] = Op("look", SwitchPlan(w), ExtQ)]
      /\ design' = design /\ list' = list /\ nonEmpty' = nonEmpty
      /\ pend' = pend /\ fresh' = fresh /\ ran' = ran
  BY <1>0 DEF YieldService, service, QTypeOK
<1>2. /\ at' \in [Runner \cup {Outside} -> AtRec]
           /\ task' \in [Runner -> Unit \cup {Nobody}]
      /\ task'[w] = Nobody /\ \A u \in Runner : u # w => task'[u] = task[u]
      /\ LookState' /\ FlagState' /\ PendState'
  BY <1>0, <1>1, RoundEnds
<1>3. task[w] = Service /\ Service \in Unit
  BY <1>0, <1>1, KindsApart DEF LookState, LookOf
<1>4. PICK h \in Homes, u \in Listed : Placed(Service, h, u)
  BY <1>0, <1>3 DEF EachPlaced
<1>5. \A hh \in Homes, uu \in Listed : Placed(Service, hh, uu) => hh = "task" /\ uu = w
  BY <1>3, ServiceAlone
<1>6. mainq' \in [Runner -> Seq(Unit)] /\ NothingTwice' /\ EachPlaced'
  <2>1. m \in {<<Service>> \o mainq[w], Append(mainq[w], Service)}
    OBVIOUS
  <2> HIDE DEF m
  <2>2. \A y \in Unit : y # Service => /\ \A v \in Runner : task'[v] = y <=> task[v] = y
                                       /\ In(pend', y) <=> In(pend, y)
                                       /\ y \in fresh' <=> y \in fresh
    BY <1>1, <1>2, <1>3, KindsApart
  <2>3. /\ \A v \in Runner : task'[v] # Service
        /\ ~ In(pend', Service) /\ Service \notin fresh'
        /\ \A q \in Listed : ~ In(list[q], Service)
        /\ \A hh \in Homes, uu \in Listed : Placed(Service, hh, uu) => hh # "main"
    BY <1>1, <1>2, <1>4, <1>5, KindsApart DEF Placed
  <2>4. NoTwice(pend') /\ Service \notin Item
    BY <1>0, <1>1, KindsApart DEF NothingTwice
  <2>5. UNCHANGED <<list, ran>>
    BY <1>1
  <2>6. QED
    BY <1>0, <1>1, <1>3, <2>1, <2>2, <2>3, <2>4, <2>5, MainPlaces
<1>7. QTypeOK'
  BY <1>0, <1>1, <1>2, <1>6 DEF QTypeOK
<1>8. QED
  BY <1>2, <1>6, <1>7 DEF QueueIInv

(* Steps that touch no queue.                                              *)
LEMMA StutterKeeps ==
  ASSUME QueueIInv,
         UNCHANGED <<design, mainq, list, nonEmpty, at, task, pend, fresh, ran>>
  PROVE  QueueIInv'
<1>0. QTypeOK /\ LookState /\ PendState /\ FlagState /\ NothingTwice /\ EachPlaced
  BY DEF QueueIInv
<1>1. QTypeOK'
  BY <1>0 DEF QTypeOK
<1>2. LookState' /\ PendState' /\ FlagState'
  BY <1>0 DEF LookState, LookOf, PendState, FlagState
<1>3. NothingTwice' /\ EachPlaced'
  BY <1>0, PlacesKept
<1>4. QED
  BY <1>1, <1>2, <1>3 DEF QueueIInv

(* Every step keeps the invariant.                                         *)
LEMMA QueueStep ==
  ASSUME QueueIInv, [QNext]_qvars
  PROVE  QueueIInv'
<1>1. CASE \E w \in Runner : LookStep(w)
  BY <1>1, TakeMainKeeps, SkipMainKeeps, ReadFlagKeeps, PopListKeeps,
     ClearFlagKeeps, EndItemKeeps, DrainAllKeeps, ForwardKeeps, ReturnKeeps,
     YieldServiceKeeps
  DEF LookStep
<1>2. CASE \E w \in Runner, i \in Item : PushNew(w, i) \/ DeferNew(w, i)
  BY <1>2, PushNewKeeps, DeferNewKeeps
<1>3. CASE \E i \in Item : PushOutside(i)
  BY <1>3, PushOutsideKeeps
<1>4. CASE \E t \in Runner \cup {Outside} : SetFlag(t)
  BY <1>4, SetFlagKeeps
<1>5. CASE StopService
  BY <1>5, StutterKeeps DEF StopService, store
<1>6. CASE UNCHANGED qvars
  BY <1>6, StutterKeeps DEF qvars, store, service
<1>7. QED
  BY <1>1, <1>2, <1>3, <1>4, <1>5, <1>6 DEF QNext

(* One item runs at first, and the service waits.                          *)
LEMMA QueueStart ==
  ASSUME QInit
  PROVE  QueueIInv
<1>1. PICK i \in Item : /\ fresh = Item \ {i}
                        /\ task = [w \in Runner |-> IF w = First THEN i ELSE Nobody]
  BY DEF QInit
<1>2. /\ i \in Unit /\ <<>> \in Seq(Item) /\ <<>> \in Seq(Unit) /\ <<Service>> \in Seq(Unit)
      /\ First \in Runner /\ First \in Listed
  BY QueueAssumption, EmptySeq, KindsApart
<1>3. /\ Len(<<Service>>) = 1 /\ <<Service>>[1] = Service
  OBVIOUS
<1>4. NoTwice(<<Service>>) /\ \A y : In(<<Service>>, y) <=> y = Service
  <2>1. 1 .. Len(<<Service>>) = {1}
    BY <1>3
  <2>2. QED
    BY <1>3, <2>1 DEF NoTwice, In
<1>5. \A t \in Runner : at[t] = IF t # First THEN Op("look", LoopPlan(t), ExtQ) ELSE Running
  BY KindsApart DEF QInit
<1>6. \A t \in Runner : /\ Op("look", LoopPlan(t), ExtQ) \in AtRec
                        /\ LookOf(Op("look", LoopPlan(t), ExtQ), Nobody)
  <2> SUFFICES ASSUME NEW t \in Runner PROVE /\ Op("look", LoopPlan(t), ExtQ) \in AtRec
                                             /\ LookOf(Op("look", LoopPlan(t), ExtQ), Nobody)
    OBVIOUS
  <2>1. LoopPlan(t) \in Seq(Sources) /\ LoopPlan(t) # <<>>
    BY PlansTyped
  <2>2. /\ Op("look", LoopPlan(t), ExtQ) \in AtRec
        /\ Op("look", LoopPlan(t), ExtQ).op = "look"
        /\ Op("look", LoopPlan(t), ExtQ).plan = LoopPlan(t)
    BY <2>1, PlanTyped
  <2>3. QED
    BY <2>1, <2>2 DEF LookOf
<1>7. /\ mainq \in [Runner -> Seq(Unit)] /\ list \in [Listed -> Seq(Item)]
      /\ nonEmpty \in [Listed -> BOOLEAN] /\ pend = <<>> /\ ran \in [Item -> Nat]
      /\ design \in {"hybrid", "spin"}
      /\ \A w \in Runner : mainq[w] = IF w = First
           /\ design = "spin" THEN <<Service>> ELSE <<>>
      /\ \A q \in Listed : list[q] = <<>>
      /\ \A y \in Item : ran[y] = 0
  BY <1>2 DEF QInit
<1>8. at \in [Runner \cup {Outside} -> AtRec]
  BY <1>6, RunningTyped DEF QInit
<1>9. QTypeOK
  BY <1>1, <1>2, <1>7, <1>8 DEF QTypeOK
<1>10. LookState
  BY <1>1, <1>2, <1>5, <1>6, RunningTyped DEF LookState
<1>11. PendState /\ FlagState
  BY <1>7 DEF PendState, FlagState
<1>12. NothingTwice
  BY <1>4, <1>7, InEmpty DEF NothingTwice
<1>13. EachPlaced
  <2> SUFFICES ASSUME NEW x \in Unit PROVE \E h \in Homes, u \in Listed : Placed(x, h, u)
    BY DEF EachPlaced
  <2> DEFINE h == IF x = Service THEN (IF design = "spin" THEN "main" ELSE "gone")
                  ELSE IF x = i THEN "task" ELSE "fresh"
  <2>1. h \in Homes
    BY DEF Homes
  <2>2. \A w \in Runner : task[w] = x <=> h = "task" /\ First = w
    BY <1>1, KindsApart
  <2>3. \A w \in Runner : In(mainq[w], x) <=> h = "main" /\ First = w
    BY <1>4, <1>7, InEmpty
  <2>4. /\ \A q \in Listed : In(list[q], x) <=> h = "list" /\ First = q
        /\ In(pend, x) <=> h = "pend"
    BY <1>7, InEmpty
  <2>5. x \in fresh <=> h = "fresh"
    BY <1>1, KindsApart
  <2>6. x \in Item => h # "gone" /\ ran[x] = IF h = "ran" THEN 1 ELSE 0
    BY <1>7, KindsApart
  <2>7. x = Service => h \notin {"fresh", "ran", "list", "pend"}
    OBVIOUS
  <2> HIDE DEF h
  <2>8. Placed(x, h, First)
    BY <1>2, <2>2, <2>3, <2>4, <2>5, <2>6, <2>7 DEF Placed
  <2>9. QED
    BY <1>2, <2>1, <2>8
<1>14. QED
  BY <1>9, <1>10, <1>11, <1>12, <1>13 DEF QueueIInv

-----------------------------------------------------------------------------
(* Counting.                                                               *)

(* A sequence that names nothing twice is no longer than its set is large. *)
LEMMA ShortQueue ==
  ASSUME NEW S, IsFiniteSet(S), NEW s \in Seq(S), NoTwice(s)
  PROVE  Len(s) \in 0 .. Cardinality(S)
<1> DEFINE k == Len(s)
           f == [n \in 1 .. k |-> s[n]]
<1>1. k \in Nat /\ \A n \in 1 .. k : s[n] \in S
  BY LenProperties, ElementOfSeq
<1>2. f \in [1 .. k -> S] /\ \A m, n \in 1 .. k : f[m] = f[n] => m = n
  BY <1>1 DEF NoTwice
<1> HIDE DEF f
<1>3. f \in Injection(1 .. k, S)
  BY <1>2 DEF Injection, IsInjective
<1>4. Cardinality(1 .. k) <= Cardinality(S) /\ Cardinality(S) \in Nat
  BY <1>3, FS_Injection, FS_CardinalityType
<1>5. Cardinality(1 .. k) = k
  <2>1. Cardinality(1 .. k) = IF 1 > k THEN 0 ELSE k - 1 + 1
    BY <1>1, FS_Interval
  <2>2. \A j \in Nat : (IF 1 > j THEN 0 ELSE j - 1 + 1) = j
    OBVIOUS
  <2>3. QED
    BY <1>1, <2>1, <2>2
<1> HIDE DEF k
<1>6. k \in 0 .. Cardinality(S)
  BY <1>1, <1>4, <1>5
<1>7. QED
  BY <1>6 DEF k

(* The places of a unit in queues that name nothing twice.                 *)

(* The places of x in the queues q of D, among the first B of each.        *)
SpotsOf(D, q, x, B) ==
  {p \in D \X (1 .. B) : p[2] <= Len(q[p[1]]) /\ q[p[1]][p[2]] = x}

(* There is one place, or none.                                            *)
LEMMA Counted ==
  ASSUME NEW D, NEW q, NEW x, NEW B \in Nat
  PROVE  /\ (\A d \in D : Len(q[d]) \in 0 .. B /\ ~ In(q[d], x))
              => Cardinality(SpotsOf(D, q, x, B)) = 0
         /\ \A u \in D : (/\ \A d \in D : Len(q[d]) \in 0 .. B /\ (In(q[d], x) <=> d = u)
                          /\ NoTwice(q[u])) => Cardinality(SpotsOf(D, q, x, B)) = 1
<1> DEFINE A == SpotsOf(D, q, x, B)
<1>1. \A d \in D, n \in 1 .. B : Len(q[d]) \in 0 .. B => (n <= Len(q[d])
        <=> n \in 1 .. Len(q[d]))
  OBVIOUS
<1>2. \A d \in D, n \in 1 .. B :
        <<d, n>> \in A <=> n <= Len(q[d]) /\ q[d][n] = x
  BY DEF SpotsOf
<1>3. \A p \in A : \E d \in D, n \in 1 .. B : p = <<d, n>>
  BY DEF SpotsOf
<1> HIDE DEF A
<1>4. ASSUME \A d \in D : Len(q[d]) \in 0 .. B /\ ~ In(q[d], x) PROVE Cardinality(A) = 0
  <2>1. A = {}
    BY <1>1, <1>2, <1>3, <1>4 DEF In
  <2>2. QED
    BY <2>1, FS_EmptySet
<1>5. ASSUME NEW u \in D, \A d \in D : Len(q[d]) \in 0 .. B /\ (In(q[d], x)
               <=> d = u), NoTwice(q[u])
      PROVE  Cardinality(A) = 1
  <2>1. PICK n \in 1 .. Len(q[u]) : q[u][n] = x
    BY <1>5 DEF In
  <2>2. n \in 1 .. B /\ <<u, n>> \in A
    <3>1. \A k \in 0 .. B : n \in 1 .. k => n \in 1 .. B /\ n <= k
      OBVIOUS
    <3>2. n \in 1 .. B /\ n <= Len(q[u])
      BY <1>5, <3>1
    <3>3. QED
      BY <1>2, <2>1, <3>2
  <2>3. ASSUME NEW p \in A PROVE p = <<u, n>>
    <3>1. PICK d \in D, m \in 1 .. B : p = <<d, m>>
      BY <1>3, <2>3
    <3>2. m \in 1 .. Len(q[d]) /\ q[d][m] = x
      BY <1>1, <1>2, <1>5, <2>3, <3>1
    <3>3. d = u
      BY <1>5, <3>2 DEF In
    <3>4. m = n
      BY <1>5, <2>1, <3>2, <3>3 DEF NoTwice
    <3>5. QED
      BY <3>1, <3>3, <3>4
  <2>4. A = {<<u, n>>}
    BY <2>2, <2>3
  <2>5. QED
    BY <2>4, FS_Singleton
<1>6. QED
  BY <1>4, <1>5 DEF A

(* ... in one sequence.                                                    *)
LEMMA CountedOne ==
  ASSUME NEW s, NEW x, Len(s) \in Nat, NoTwice(s)
  PROVE  Cardinality({n \in 1 .. Len(s) : s[n] = x}) = IF In(s, x) THEN 1 ELSE 0
<1> DEFINE A == {n \in 1 .. Len(s) : s[n] = x}
<1>1. CASE In(s, x)
  <2>1. PICK n \in 1 .. Len(s) : s[n] = x
    BY <1>1 DEF In
  <2>2. A = {n}
    BY <2>1 DEF NoTwice
  <2>3. QED
    BY <1>1, <2>2, FS_Singleton
<1>2. CASE ~ In(s, x)
  <2>1. A = {}
    BY <1>2 DEF In
  <2>2. QED
    BY <1>2, <2>1, FS_EmptySet
<1>3. QED
  BY <1>1, <1>2

(* How often an item is counted follows from the place it has.             *)
LEMMA TimesOf ==
  ASSUME QueueIInv, NEW i \in Item
  PROVE  Times(i) = IF i \in fresh THEN 0 ELSE 1
<1> DEFINE T == {w \in Runner : task[w] = i}
           C == Cardinality(Item)
           M == {p \in Runner \X (1 .. C + 1) : p[2] <= Len(mainq[p[1]])
             /\ mainq[p[1]][p[2]] = i}
           L == {p \in Listed \X (1 .. C) : p[2] <= Len(list[p[1]]) /\ list[p[1]][p[2]] = i}
           P == {n \in 1 .. Len(pend) : pend[n] = i}
<1>1. QTypeOK /\ NothingTwice /\ EachPlaced /\ i \in Unit
  BY KindsApart DEF QueueIInv
<1>2. Times(i) = ran[i] + Cardinality(T) + Cardinality(M) + Cardinality(L) + Cardinality(P)
  BY DEF Times
<1>3. PICK h \in Homes, u \in Listed : Placed(i, h, u)
  BY <1>1 DEF EachPlaced
<1>4. /\ IsFiniteSet(Item) /\ C \in Nat /\ C + 1 \in Nat
      /\ IsFiniteSet(Unit) /\ Cardinality(Unit) = C + 1
  BY QueueAssumption, FS_CardinalityType, FS_AddElement DEF Unit
<1>5. \A w \in Runner : Len(mainq[w]) \in 0 .. C + 1 /\ NoTwice(mainq[w])
  <2> HIDE DEF C
  <2> SUFFICES ASSUME NEW w \in Runner PROVE Len(mainq[w]) \in 0 .. C + 1
                        /\ NoTwice(mainq[w])
    OBVIOUS
  <2>1. mainq[w] \in Seq(Unit) /\ NoTwice(mainq[w])
    BY <1>1 DEF QTypeOK, NothingTwice
  <2>2. Len(mainq[w]) \in 0 .. Cardinality(Unit)
    BY <1>4, <2>1, ShortQueue
  <2>3. QED
    BY <1>4, <2>1, <2>2
<1>6. \A w \in Listed : Len(list[w]) \in 0 .. C /\ NoTwice(list[w])
  <2> SUFFICES ASSUME NEW w \in Listed PROVE Len(list[w]) \in 0 .. C /\ NoTwice(list[w])
    OBVIOUS
  <2>1. list[w] \in Seq(Item) /\ NoTwice(list[w])
    BY <1>1 DEF QTypeOK, NothingTwice
  <2>2. QED
    BY <1>4, <2>1, ShortQueue
<1>7. Cardinality(T) = IF h = "task" THEN 1 ELSE 0
  <2>1. CASE h = "task"
    <3>1. T = {u}
      BY <1>3, <2>1 DEF Placed
    <3> HIDE DEF T
    <3>2. QED
      BY <2>1, <3>1, FS_Singleton
  <2>2. CASE h # "task"
    <3>1. T = {}
      BY <1>3, <2>2 DEF Placed
    <3> HIDE DEF T
    <3>2. QED
      BY <2>2, <3>1, FS_EmptySet
  <2>3. QED
    BY <2>1, <2>2
<1>8. Cardinality(M) = IF h = "main" THEN 1 ELSE 0
  <2> HIDE DEF C
  <2>0. M = SpotsOf(Runner, mainq, i, C + 1)
    BY DEF SpotsOf
  <2> HIDE DEF M
  <2>1. /\ (\A d \in Runner : Len(mainq[d]) \in 0 .. C + 1 /\ ~ In(mainq[d], i))
             => Cardinality(M) = 0
        /\ \A v \in Runner :
              (/\ \A d \in Runner : Len(mainq[d]) \in 0 .. C + 1 /\ (In(mainq[d], i)
                <=> d = v)
               /\ NoTwice(mainq[v])) => Cardinality(M) = 1
    BY <1>4, <2>0, Counted
  <2> HIDE DEF M
  <2>2. CASE h = "main"
    <3>1. u \in Runner /\ \A w \in Runner : In(mainq[w], i) <=> w = u
      BY <1>3, <2>2 DEF Placed
    <3>2. QED
      BY <1>5, <2>1, <2>2, <3>1
  <2>3. CASE h # "main"
    <3>1. \A w \in Runner : ~ In(mainq[w], i)
      BY <1>3, <2>3 DEF Placed
    <3>2. QED
      BY <1>5, <2>1, <2>3, <3>1
  <2>4. QED
    BY <2>2, <2>3
<1>9. Cardinality(L) = IF h = "list" THEN 1 ELSE 0
  <2> HIDE DEF C
  <2>0. L = SpotsOf(Listed, list, i, C)
    BY DEF SpotsOf
  <2> HIDE DEF L
  <2>1. /\ (\A d \in Listed : Len(list[d]) \in 0 .. C /\ ~ In(list[d], i))
             => Cardinality(L) = 0
        /\ \A v \in Listed :
              (/\ \A d \in Listed : Len(list[d]) \in 0 .. C /\ (In(list[d], i) <=> d = v)
               /\ NoTwice(list[v])) => Cardinality(L) = 1
    BY <1>4, <2>0, Counted
  <2> HIDE DEF L
  <2>2. CASE h = "list"
    <3>1. \A w \in Listed : In(list[w], i) <=> w = u
      BY <1>3, <2>2 DEF Placed
    <3>2. QED
      BY <1>6, <2>1, <2>2, <3>1
  <2>3. CASE h # "list"
    <3>1. \A w \in Listed : ~ In(list[w], i)
      BY <1>3, <2>3 DEF Placed
    <3>2. QED
      BY <1>6, <2>1, <2>3, <3>1
  <2>4. QED
    BY <2>2, <2>3
<1>10. Cardinality(P) = IF h = "pend" THEN 1 ELSE 0
  <2>1. Len(pend) \in Nat /\ NoTwice(pend)
    BY <1>1, LenProperties DEF QTypeOK, NothingTwice
  <2>2. Cardinality(P) = IF In(pend, i) THEN 1 ELSE 0
    BY <2>1, CountedOne
  <2> HIDE DEF P
  <2>3. In(pend, i) <=> h = "pend"
    BY <1>3 DEF Placed
  <2>4. QED
    BY <2>2, <2>3
<1>11. ran[i] = (IF h = "ran" THEN 1 ELSE 0) /\ (i \in fresh <=> h = "fresh") /\ h # "gone"
  BY <1>3 DEF Placed
<1> HIDE DEF T, M, L, P
<1>12. QED
  BY <1>2, <1>7, <1>8, <1>9, <1>10, <1>11 DEF Homes

(* What the run checks follows from the inductive invariant.               *)
LEMMA QueueMeans == QueueIInv => QueueInv
<1> SUFFICES ASSUME QueueIInv PROVE QueueInv
  OBVIOUS
<1>1. \A i \in Item : Times(i) = IF i \in fresh THEN 0 ELSE 1
  BY TimesOf
<1>2. FlagState
  BY DEF QueueIInv
<1>3. QED
  BY <1>1, <1>2 DEF QueueInv, FlagState

(* An item that was pushed is in exactly one place (a queue, the hands of  *)
(* the service, a worker, or it has run, once), and a locked list with     *)
(* items whose flag is down has a pusher that is about to raise it: for    *)
(* any workers and items and either design, whoever pops, steals, drains   *)
(* or reads the flags without the lock meanwhile.                          *)
THEOREM ItemsOnce == QSpec => []QueueInv
<1>1. QInit => QueueIInv
  BY QueueStart
<1>2. QueueIInv /\ [QNext]_qvars => QueueIInv'
  BY QueueStep
<1>3. QED
  BY <1>1, <1>2, QueueMeans, PTL DEF QSpec

=============================================================================
