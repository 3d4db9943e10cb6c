---------------------------- MODULE Fat32Proofs ----------------------------
(***************************************************************************)
(* Proof that the FAT32 driver keeps its types, for every size of the      *)
(* disk, every number of FAT copies and every set of callers' buffers;     *)
(* that it keeps the names in the directory apart; and, from there, that   *)
(* it keeps the clusters of files.                                         *)
(*                                                                         *)
(* A call is a list of steps, so the invariant says which step may come    *)
(* after which (Ordered), what the call's variables hold at each step      *)
(* (CallOK), and what a step read from the directory still is there        *)
(* (TypeInv).  First come the facts about lists of steps and about the     *)
(* recursive functions of module Fat32: the induction they need is done    *)
(* through the least element of a set of numbers.                          *)
(***************************************************************************)
EXTENDS Fat32Properties, WellFoundedInduction, TLAPS

(* A set of numbers has a least one. *)
LEMMA LeastNatural ==
  ASSUME NEW S \in SUBSET Nat, S # {}
  PROVE  \E s \in S : \A t \in S : s <= t
<1> DEFINE R == {ss \in Nat \X Nat : ss[1] < ss[2]}
<1>1. IsWellFoundedOn(R, Nat)
  BY NatLessThanWellFounded DEF OpToRel
<1>2. PICK s \in S : \A t \in S : <<t, s>> \notin R
  BY <1>1, WFMin
<1>3. \A t \in S : ~(t < s)
  BY <1>2
<1> QED BY <1>3

LEMMA MinimumInSet ==
  ASSUME NEW S \in SUBSET Nat, S # {}
  PROVE  Minimum(S) \in S /\ \A t \in S : Minimum(S) <= t
BY LeastNatural DEF Minimum

(* Induction over the numbers, for a set instead of a formula. *)
LEMMA NatBySteps ==
  ASSUME NEW P \in SUBSET Nat, 0 \in P, \A n \in P : n + 1 \in P
  PROVE  P = Nat
<1> SUFFICES ASSUME Nat \ P # {} PROVE FALSE
  OBVIOUS
<1>1. PICK s \in Nat \ P : \A t \in Nat \ P : s <= t
  BY LeastNatural
<1>2. s # 0 /\ s - 1 \in Nat /\ s - 1 \in P
  BY <1>1
<1> QED BY <1>1, <1>2

(* What the recursive function in Walk computes: one more link is one more Follow *)
(* (next_cluster, fat32.c).                                                       *)
LEMMA WalkSteps ==
  ASSUME NEW c, NEW k \in Nat
  PROVE /\ Walk(c, 0) = c
        /\ Walk(c, k + 1) = Follow(Walk(c, k))
<1> DEFINE Chain(w, n) == w = [i \in 0..n |-> IF i = 0 THEN c ELSE Follow(w[i - 1])]
           P == {n \in Nat : \E w : Chain(w, n)}
           W(n) == CHOOSE w : Chain(w, n)
           Q == {i \in Nat : \A m, n \in Nat : i <= m /\ i <= n => W(m)[i] = W(n)[i]}
<1> HIDE DEF Chain, P, W, Q
<1>1. P = Nat
  <2>1. 0 \in P
    <3> DEFINE u == [i \in 0..0 |-> c]
    <3>1. Chain(u, 0)
      BY DEF Chain
    <3> QED BY <3>1 DEF P
  <2>2. ASSUME NEW n \in P PROVE n + 1 \in P
    <3>1. n \in Nat /\ \E w : Chain(w, n)
      BY DEF P
    <3>2. PICK w : Chain(w, n)
      BY <3>1
    <3> DEFINE u == [i \in 0..n+1 |-> IF i = 0 THEN c ELSE Follow(w[i - 1])]
    <3>3. \A i \in 0..n : w[i] = u[i]
      BY <3>1, <3>2 DEF Chain
    <3>4. \A i \in 0..n+1 : u[i] = IF i = 0 THEN c ELSE Follow(u[i - 1])
      <4> TAKE i \in 0..n+1
      <4>1. CASE i = 0
        BY <4>1, <3>1
      <4>2. CASE i # 0
        <5>1. i - 1 \in 0..n
          BY <4>2, <3>1
        <5>2. w[i - 1] = u[i - 1]
          BY <5>1, <3>3
        <5> QED BY <4>2, <5>2
      <4> QED BY <4>1, <4>2
    <3>5. Chain(u, n+1)
      BY <3>4 DEF Chain
    <3> QED BY <3>1, <3>5 DEF P
  <2>3. P \in SUBSET Nat
    BY DEF P
  <2> QED BY <2>1, <2>2, <2>3, NatBySteps
<1>2. \A n \in Nat : Chain(W(n), n)
  BY <1>1 DEF P, W
<1>3. \A n \in Nat : Walk(c, n) = W(n)[n]
  BY DEF Walk, W, Chain
<1>4. Q = Nat
  <2>1. 0 \in Q
    BY <1>2 DEF Q, Chain
  <2>2. ASSUME NEW j \in Q PROVE j + 1 \in Q
    <3>1. j \in Nat /\ \A m, n \in Nat : j + 1 <= m /\ j + 1 <= n => W(m)[j] = W(n)[j]
      BY DEF Q
    <3>2. \A m \in Nat : j + 1 <= m => W(m)[j + 1] = Follow(W(m)[j])
      BY <3>1, <1>2 DEF Chain
    <3> QED BY <3>1, <3>2 DEF Q
  <2>3. Q \in SUBSET Nat
    BY DEF Q
  <2> QED BY <2>1, <2>2, <2>3, NatBySteps
<1>5. Walk(c, 0) = c
  BY <1>2, <1>3 DEF Chain
<1>6. Walk(c, k + 1) = Follow(W(k + 1)[k])
  BY <1>2, <1>3 DEF Chain
<1>7. W(k + 1)[k] = W(k)[k]
  BY <1>4 DEF Q
<1> QED BY <1>3, <1>5, <1>6, <1>7

-----------------------------------------------------------------------------
(* Which step of a call comes after which, and which can be its last. *)
MayFollow(a, b) ==
  \/ a = "create" /\ b = "find"
  \/ a = "find"   /\ b \in {"rename", "free", "choose", "extend", "walk"}
  \/ a = "free"   /\ b \in {"clear", "erase"}
  \/ a = "clear"  /\ b = "find"
  \/ a = "fill"   /\ b \in {"mark", "commit"}
  \/ a = "mark"   /\ b = "commit"
  \/ a = "patch"  /\ b = "grow"
  \/ a = "grow"   /\ b = "resize"
  \/ a = "mark_new" /\ b = "link"
  \/ a = "link"   /\ b = "grow"

MayEnd == {"create", "rename", "clear", "erase", "choose", "commit", "extend", "walk",
           "resize", "off", "overrun"}

Chained(todo) == /\ todo \in Seq(StepNames)
                 /\ \A i \in 1..Len(todo) - 1 : MayFollow(todo[i], todo[i + 1])
Ordered(todo) == Chained(todo) /\ (todo # <<>> => todo[Len(todo)] \in MayEnd)

(* Lists of steps: what is left after the first, and lists put end to end. *)
LEMMA OrderedTail ==
  ASSUME NEW t, Ordered(t), t # <<>>
  PROVE  /\ Head(t) \in StepNames
         /\ Ordered(Tail(t))
         /\ Len(t) = 1 => Head(t) \in MayEnd
         /\ Len(t) # 1 => Tail(t) # <<>> /\ MayFollow(Head(t), Head(Tail(t)))
<1> DEFINE u == Tail(t)
<1>1. t \in Seq(StepNames) /\ Len(t) \in Nat /\ Len(t) > 0
  BY DEF Ordered, Chained
<1>2. u \in Seq(StepNames) /\ Len(u) = Len(t) - 1 /\ \A i \in 1..Len(u) : u[i] = t[i + 1]
  BY <1>1
<1>3. Head(t) = t[1] /\ Head(t) \in StepNames
  BY <1>1
<1>4. ASSUME NEW i \in 1..Len(u) - 1 PROVE MayFollow(u[i], u[i + 1])
  <2>1. i + 1 \in 1..Len(t) - 1
    BY <1>1, <1>2
  <2>2. u[i] = t[i + 1] /\ u[i + 1] = t[(i + 1) + 1]
    BY <1>1, <1>2
  <2>3. MayFollow(t[i + 1], t[(i + 1) + 1])
    BY <2>1 DEF Ordered, Chained
  <2> QED BY <2>2, <2>3
<1>5. u # <<>> => u[Len(u)] \in MayEnd
  BY <1>1, <1>2 DEF Ordered, Chained
<1> HIDE DEF u
<1>6. ASSUME Len(t) # 1 PROVE u # <<>> /\ Head(u) = t[2] /\ MayFollow(t[1], t[2])
  <2>1. u # <<>> /\ Head(u) = u[1] /\ u[1] = t[2]
    BY <1>1, <1>2, <1>6
  <2>2. 1 \in 1..Len(t) - 1 /\ 1 + 1 = 2
    <3>1. PICK n \in Nat : n = Len(t) /\ n > 0
      BY <1>1
    <3>2. n # 1
      BY <3>1, <1>6
    <3>3. 1 \in 1..n - 1
      BY <3>1, <3>2
    <3> QED BY <3>1, <3>3
  <2>3. MayFollow(t[1], t[2])
    <3>1. \A i \in 1..Len(t) - 1 : MayFollow(t[i], t[i + 1])
      BY DEF Ordered, Chained
    <3>2. MayFollow(t[1], t[1 + 1])
      BY <2>2, <3>1
    <3> QED BY <2>2, <3>2
  <2> QED BY <2>1, <2>3
<1> QED BY <1>1, <1>2, <1>3, <1>4, <1>5, <1>6 DEF Ordered, Chained, u

LEMMA OrderedJoin ==
  ASSUME NEW s, Chained(s), s # <<>>, NEW t, Ordered(t), t # <<>>,
         MayFollow(s[Len(s)], Head(t))
  PROVE  Ordered(s \o t) /\ s \o t # <<>> /\ Head(s \o t) = Head(s)
<1> DEFINE u == s \o t
<1>1. /\ t \in Seq(StepNames) /\ Len(t) \in Nat /\ Len(t) > 0 /\ Head(t) = t[1]
      /\ s \in Seq(StepNames) /\ Len(s) \in Nat /\ Len(s) > 0 /\ Head(s) = s[1]
  BY DEF Ordered, Chained
<1>2. /\ u \in Seq(StepNames)
      /\ Len(u) = Len(s) + Len(t)
      /\ \A i \in 1..Len(s) : u[i] = s[i]
      /\ \A i \in 1..Len(t) : u[Len(s) + i] = t[i]
  BY <1>1
<1> HIDE DEF u
<1>3. ASSUME NEW i \in 1..Len(u) - 1 PROVE MayFollow(u[i], u[i + 1])
  <2>1. CASE i < Len(s)
    <3>1. MayFollow(s[i], s[i + 1])
      BY <2>1, <1>1 DEF Chained
    <3> QED BY <2>1, <3>1, <1>1, <1>2
  <2>2. CASE i = Len(s)
    <3>1. u[i] = s[Len(s)] /\ u[i + 1] = t[1]
      BY <2>2, <1>1, <1>2
    <3> QED BY <3>1, <1>1
  <2>3. CASE i > Len(s)
    <3> DEFINE j == i - Len(s)
    <3>1. j \in 1..Len(t) - 1 /\ j + 1 \in 1..Len(t)
      BY <2>3, <1>1, <1>2
    <3>2. i = Len(s) + j /\ i + 1 = Len(s) + (j + 1)
      BY <2>3, <1>1, <1>2
    <3>3. MayFollow(t[j], t[j + 1])
      BY <3>1 DEF Ordered, Chained
    <3> HIDE DEF j
    <3>4. u[i] = t[j] /\ u[i + 1] = t[j + 1]
      BY <3>1, <3>2, <1>2
    <3> QED BY <3>3, <3>4
  <2> QED BY <2>1, <2>2, <2>3, <1>1
<1>4. u[Len(u)] \in MayEnd
  BY <1>1, <1>2 DEF Ordered, Chained
<1>5. u # <<>> /\ Head(u) = s[1]
  <2>1. Len(u) # 0 /\ u[1] = s[1]
    BY <1>1, <1>2
  <2> QED BY <2>1, <1>2
<1> QED BY <1>1, <1>2, <1>3, <1>4, <1>5 DEF Ordered, Chained, u

(* Short lists. *)
LEMMA OrderedOne ==
  /\ Ordered(<<>>)
  /\ \A a \in StepNames \cap MayEnd : Ordered(<<a>>) /\ <<a>> # <<>> /\ Head(<<a>>) = a
BY DEF Ordered, Chained

LEMMA ChainedTwo ==
  ASSUME NEW a \in StepNames, NEW b \in StepNames, MayFollow(a, b)
  PROVE  /\ Chained(<<a, b>>) /\ <<a, b>> # <<>> /\ Head(<<a, b>>) = a
         /\ b \in MayEnd => Ordered(<<a, b>>)
<1> DEFINE t == <<a, b>>
<1>1. t \in Seq(StepNames) /\ Len(t) = 2 /\ t[1] = a /\ t[2] = b /\ t # <<>> /\ Head(t) = a
  OBVIOUS
<1>2. \A i \in 1..Len(t) - 1 : i = 1 /\ i + 1 = 2
  BY <1>1
<1> HIDE DEF t
<1>3. Chained(t)
  BY <1>1, <1>2 DEF Chained
<1> QED BY <1>1, <1>3 DEF Ordered, t

LEMMA OrderedThree ==
  ASSUME NEW a \in StepNames, NEW b \in StepNames, NEW c \in StepNames \cap MayEnd,
         MayFollow(a, b), MayFollow(b, c)
  PROVE  Ordered(<<a, b, c>>) /\ <<a, b, c>> # <<>> /\ Head(<<a, b, c>>) = a
<1> DEFINE t == <<a, b, c>>
<1>1. /\ t \in Seq(StepNames) /\ Len(t) = 3 /\ t[1] = a /\ t[2] = b /\ t[3] = c
      /\ t # <<>> /\ Head(t) = a
  OBVIOUS
<1>2. \A i \in 1..Len(t) - 1 : (i = 1 /\ i + 1 = 2) \/ (i = 2 /\ i + 1 = 3)
  BY <1>1
<1> HIDE DEF t
<1>3. Chained(t)
  BY <1>1, <1>2 DEF Chained
<1> QED BY <1>1, <1>3 DEF Ordered, t

(* What fs_write makes its list of. *)
LEMMA OrderedWriting ==
  ASSUME NEW flags, NEW buf
  PROVE  LET w == Writing(flags, buf)
         IN  /\ Ordered(w) /\ (w # <<>> => Head(w) = "find")
             /\ Ordered(<<"create">> \o w) /\ <<"create">> \o w # <<>>
             /\ Head(<<"create">> \o w) = "create"
<1> DEFINE w == Writing(flags, buf)
<1>1. Ordered(<<"find", "choose">>) /\ <<"find", "choose">> # <<>>
      /\ Head(<<"find", "choose">>) = "find"
  BY ChainedTwo DEF StepNames, MayEnd, MayFollow
<1>2. Ordered(<<"find", "extend">>) /\ <<"find", "extend">> # <<>>
      /\ Head(<<"find", "extend">>) = "find"
  BY ChainedTwo DEF StepNames, MayEnd, MayFollow
<1>3. Ordered(<<"find", "free", "clear">>) /\ <<"find", "free", "clear">> # <<>>
      /\ Head(<<"find", "free", "clear">>) = "find"
  BY OrderedThree DEF StepNames, MayEnd, MayFollow
<1> DEFINE fc == <<"find", "free", "clear">>
           ch == <<"find", "choose">>
<1>4. LET t == fc \o ch IN  Ordered(t) /\ t # <<>> /\ Head(t) = "find"
  <2>1. fc[Len(fc)] = "clear"
    OBVIOUS
  <2> HIDE DEF fc, ch
  <2>2. MayFollow(fc[Len(fc)], Head(ch)) /\ Chained(fc)
    BY <2>1, <1>1, <1>3 DEF MayFollow, Ordered, fc, ch
  <2> QED BY <2>2, <1>1, <1>3, OrderedJoin DEF fc, ch
<1>5. w \in {<<>>, <<"find", "choose">>, <<"find", "extend">>, fc, fc \o ch, fc \o <<>>}
  BY DEF Writing
<1>6. fc \o <<>> = fc
  OBVIOUS
<1> HIDE DEF fc, ch
<1>7. w = <<>> \/ (Ordered(w) /\ w # <<>> /\ Head(w) = "find")
  BY <1>1, <1>2, <1>3, <1>4, <1>5, <1>6 DEF fc, ch
<1>8. CASE w = <<>>
  <2>1. <<"create">> \o <<>> = <<"create">>
    OBVIOUS
  <2> QED BY <1>8, <2>1, OrderedOne DEF StepNames, MayEnd
<1>9. CASE Ordered(w) /\ w # <<>> /\ Head(w) = "find"
  <2> HIDE DEF w
  <2> DEFINE c == <<"create">>
  <2>1. c # <<>> /\ Head(c) = "create" /\ c[Len(c)] = "create"
    OBVIOUS
  <2>2. Chained(c)
    BY OrderedOne DEF StepNames, MayEnd, Ordered
  <2> HIDE DEF c
  <2>3. MayFollow(c[Len(c)], Head(w))
    BY <2>1, <1>9 DEF MayFollow
  <2>4. Ordered(c \o w) /\ c \o w # <<>> /\ Head(c \o w) = Head(c)
    BY <1>9, <2>1, <2>2, <2>3, OrderedJoin
  <2>5. c = <<"create">>
    BY DEF c
  <2> HIDE DEF c
  <2>6. /\ Ordered(<<"create">> \o w) /\ <<"create">> \o w # <<>>
        /\ Head(<<"create">> \o w) = "create"
    BY <2>1, <2>4, <2>5, Zenon
  <2> QED BY <1>9, <2>6 DEF w
<1> QED BY <1>7, <1>8, <1>9

(* grow puts mark_new and link in front of itself. *)
LEMMA OrderedGrow ==
  ASSUME NEW t, Ordered(t), t # <<>>, Head(t) = "grow"
  PROVE  LET u == <<"mark_new", "link">> \o t
         IN  Ordered(u) /\ u # <<>> /\ Head(u) = "mark_new"
<1> DEFINE s == <<"mark_new", "link">>
<1>1. Chained(s) /\ s # <<>> /\ Head(s) = "mark_new"
  BY ChainedTwo DEF StepNames, MayFollow
<1>2. s[Len(s)] = "link"
  OBVIOUS
<1> HIDE DEF s
<1>3. MayFollow(s[Len(s)], Head(t))
  BY <1>2 DEF MayFollow
<1> QED BY <1>1, <1>3, OrderedJoin DEF s

-----------------------------------------------------------------------------
(* Steps on the disk; those that have looked their file up; those that write *)
(* the copies of the FAT one by one.                                         *)
Working == StepNames \ {"off", "overrun"}
OnSlot  == Working \ {"create", "find"}
Copying == {"free", "mark", "mark_new", "link"}
On(o, steps) == o.todo # <<>> /\ Head(o.todo) \in steps

(* A call record that is in order: the fields a step will use hold what it needs. *)
(* Between two copies of the FAT a freed cluster is an index of the FAT.          *)
CallOK(o) ==
  /\ o \in Calls
  /\ Ordered(o.todo)
  /\ o.done <= Len(o.buf)
  /\ On(o, Working) => o.name \in Names /\ o.new \in Names
  /\ On(o, OnSlot) => o.slot \in Slots
  /\ o.copy # 1 => On(o, Copying)
  /\ o.copy # 1 /\ On(o, {"free"}) => o.cluster \in Root..LastCluster
  /\ On(o, {"fill", "mark", "commit"}) => o.cluster \in Clusters

(* choose still has the first cluster find has read; patch is only reached when the *)
(* last cluster has room left.                                                      *)
TypeInv ==
  /\ TypeOK
  /\ CallOK(op)
  /\ At("choose") => op.cluster = dir[op.slot].first
  /\ At("patch") => Offset(dir[op.slot].size) < ClusterSize

(* The buffers of callers, with the empty one, are sequences of numbers. *)
LEMMA Buffered == \A b \in Buffers \cup {<<>>} :
                    b \in Seq(Nat \ {0}) /\ Len(b) \in Nat
                    /\ \A i \in 1..Len(b) : b[i] \in Nat \ {0}
<1> TAKE b \in Buffers \cup {<<>>}
<1>1. CASE b \in Buffers
  BY <1>1, SizesAssumption
<1>2. CASE b = <<>>
  <2>1. <<>> \in Seq(Nat \ {0}) /\ Len(<<>>) = 0 /\ 1..0 = {}
    OBVIOUS
  <2> QED BY <1>2, <2>1
<1> QED BY <1>1, <1>2

LEMMA IdleOK == \A b \in BOOLEAN : CallOK(Idle(b)) /\ Idle(b).todo = <<>>
<1> TAKE b \in BOOLEAN
<1>1. Idle(b) \in Calls
  BY SizesAssumption DEF Idle, Calls, Missing, EOC, Root
<1>2. Idle(b).todo = <<>> /\ Idle(b).done = 0 /\ Idle(b).buf = <<>> /\ Idle(b).copy = 1
  BY DEF Idle
<1>3. Ordered(<<>>)
  BY OrderedOne
<1>4. Ordered(Idle(b).todo) /\ Idle(b).done <= Len(Idle(b).buf)
  BY <1>2, <1>3
<1> DEFINE o == Idle(b)
<1> HIDE DEF o
<1>5. \A steps : ~On(o, steps)
  BY <1>2 DEF On, o
<1>6. CallOK(o)
  BY <1>1, <1>2, <1>4, <1>5 DEF CallOK, o
<1> QED BY <1>2, <1>6 DEF o

(* The call after one of its steps: over, or at a step that may follow. *)
LEMMA AdvanceOK ==
  ASSUME NEW o \in Calls, Ordered(o.todo), o.todo # <<>>, o.done <= Len(o.buf), o.copy = 1,
         o.name \in Names, o.new \in Names,
         Head(o.todo) \notin {"create", "clear"} => o.slot \in Slots,
         Head(o.todo) \in {"fill", "mark"} => o.cluster \in Clusters
  PROVE  /\ CallOK(Advance(o))
         /\ \/ Advance(o) = Idle(TRUE) /\ Head(o.todo) \in MayEnd
            \/ /\ Advance(o) = [o EXCEPT !.todo = Tail(@)]
               /\ Advance(o).todo # <<>>
               /\ MayFollow(Head(o.todo), Head(Advance(o).todo))
<1> DEFINE t == o.todo
           p == [o EXCEPT !.todo = Tail(@)]
<1>1. /\ Head(t) \in StepNames
      /\ Ordered(Tail(t))
      /\ Len(t) = 1 => Head(t) \in MayEnd
      /\ Len(t) # 1 => Tail(t) # <<>> /\ MayFollow(Head(t), Head(Tail(t)))
  BY OrderedTail
<1>2. CASE Len(t) = 1
  <2>1. Advance(o) = Idle(TRUE)
    BY <1>2 DEF Advance
  <2> QED BY <1>1, <1>2, <2>1, IdleOK
<1>3. CASE Len(t) # 1
  <2>1. Advance(o) = p
    BY <1>3 DEF Advance
  <2>2. Tail(t) \in Seq(StepNames)
    BY <1>1 DEF Ordered, Chained
  <2>3. /\ p \in Calls /\ p.todo = Tail(t) /\ p.done = o.done /\ p.buf = o.buf
        /\ p.name = o.name /\ p.new = o.new /\ p.slot = o.slot /\ p.copy = o.copy
        /\ p.cluster = o.cluster
    BY <2>2 DEF Calls
  <2> DEFINE a == Head(t)
             b == Head(Tail(t))
  <2>4. MayFollow(a, b) /\ Tail(t) # <<>>
    BY <1>1, <1>3
  <2> HIDE DEF p, a, b
  <2>5. b \in OnSlot => a \notin {"create", "clear"}
    BY <2>4 DEF MayFollow, OnSlot, Working
  <2>6. b \in {"fill", "mark", "commit"} => a \in {"fill", "mark"}
    BY <2>4 DEF MayFollow
  <2>7. CallOK(p)
    BY <1>1, <2>3, <2>4, <2>5, <2>6 DEF CallOK, On, a, b
  <2> QED BY <2>1, <2>3, <2>4, <2>7 DEF p, a, b
<1> QED BY <1>2, <1>3

(* Links and walks end in a cluster number or in EOC. *)
LEMMA FollowType ==
  ASSUME TypeOK, NEW c
  PROVE  Follow(c) \in 0..EOC
BY SizesAssumption DEF TypeOK, Follow, EOC, Root

LEMMA WalkType ==
  ASSUME TypeOK, NEW c \in 0..EOC, NEW k \in Nat
  PROVE  Walk(c, k) \in 0..EOC
<1>1. CASE k = 0
  BY <1>1, WalkSteps
<1>2. CASE k # 0
  <2>1. k - 1 \in Nat /\ (k - 1) + 1 = k
    BY <1>2
  <2>2. Walk(c, k) = Follow(Walk(c, k - 1))
    BY <2>1, WalkSteps
  <2> QED BY <2>2, FollowType
<1> QED BY <1>1, <1>2

LEMMA HopsType ==
  ASSUME NEW size \in Nat
  PROVE  Hops(size) \in Nat /\ Offset(size) \in Int
<1>1. CASE size = 0
  BY <1>1, SizesAssumption DEF Hops, Offset
<1>2. CASE size # 0
  <2>1. size - 1 \in Nat /\ ClusterSize \in Nat /\ ClusterSize > 0
    BY <1>2, SizesAssumption
  <2>2. (size - 1) \div ClusterSize \in Nat
    BY <2>1
  <2> QED BY <1>2, <2>1, <2>2 DEF Hops, Offset
<1> QED BY <1>1, <1>2

(* The lowest free cluster, the first hole of the directory and the slot of a name *)
(* that was found are what their names say.                                        *)
LEMMA LowestFree ==
  ASSUME FreeClusters # {}
  PROVE  Minimum(FreeClusters) \in FreeClusters /\ Minimum(FreeClusters) \in Root..LastCluster
<1>1. FreeClusters \in SUBSET Nat /\ FreeClusters \subseteq Root..LastCluster
  BY SizesAssumption DEF FreeClusters, Root
<1> QED BY <1>1, MinimumInSet

LEMMA LowestHole ==
  ASSUME Holes # {}
  PROVE  /\ Minimum(Holes) \in Slots /\ Minimum(Holes) \in Holes
         /\ \A s \in Holes : Minimum(Holes) <= s
<1>1. Holes \in SUBSET Nat /\ Holes \subseteq Slots
  BY SizesAssumption DEF Holes, Slots
<1> QED BY <1>1, MinimumInSet

LEMMA FoundSlot ==
  ASSUME NEW n, NEW s \in Found(n), s # Missing
  PROVE  s \in Named(n) /\ s \in Slots
<1>1. Named(n) # {} /\ s = Minimum(Named(n))
  BY DEF Found
<1>2. Named(n) \in SUBSET Nat /\ Named(n) \subseteq Slots
  BY SizesAssumption DEF Named, Slots
<1> QED BY <1>1, <1>2, MinimumInSet

(* A request starts a call that is in order. *)
LEMMA CallsOK ==
  ASSUME NEW steps, Ordered(steps), steps # <<>> => Head(steps) \in {"find", "create"},
         NEW n \in Names, NEW m \in Names, NEW b \in Buffers \cup {<<>>}
  PROVE  /\ CallOK(Call(steps, n, m, b))
         /\ ~On(Call(steps, n, m, b), OnSlot)
<1>1. CASE steps = <<>>
  BY <1>1, IdleOK DEF Call, On
<1>2. CASE steps # <<>>
  <2> DEFINE o == Call(steps, n, m, b)
             i == Idle(FALSE)
  <2>1. o = [i EXCEPT !.todo = steps, !.name = n, !.new = m, !.buf = b]
    BY <1>2 DEF Call
  <2>2. i \in Calls /\ i.done = 0 /\ i.copy = 1
    BY IdleOK DEF CallOK, Idle
  <2>3. steps \in Seq(StepNames) /\ Len(b) \in Nat
    BY Buffered DEF Ordered, Chained
  <2> HIDE DEF o, i
  <2>4. /\ o \in Calls /\ o.todo = steps /\ o.name = n /\ o.new = m /\ o.buf = b
        /\ o.done = 0 /\ o.copy = 1
    BY <2>1, <2>2, <2>3 DEF Calls
  <2>5. Ordered(o.todo) /\ o.done <= Len(o.buf)
    BY <2>3, <2>4
  <2>6. Head(steps) \notin OnSlot /\ Head(steps) \notin {"fill", "mark", "commit"}
    BY <1>2 DEF OnSlot, Working
  <2>7. CallOK(o) /\ ~On(o, OnSlot)
    BY <2>4, <2>5, <2>6 DEF CallOK, On
  <2> QED BY <2>7 DEF o
<1> QED BY <1>1, <1>2

LEMMA TypeRequest ==
  ASSUME TypeInv, Request
  PROVE  CallOK(op') /\ ~On(op', OnSlot) /\ UNCHANGED disk /\ harm' \subseteq harm \cup {"fault"}
<1>1. CASE \E n \in Names : FsCreate(n)
  <2>1. Ordered(<<"create">>) /\ Head(<<"create">>) = "create"
    BY OrderedOne DEF StepNames, MayEnd
  <2> QED BY <1>1, <2>1, CallsOK DEF FsCreate
<1>2. CASE \E n \in Names : FsTruncate(n)
  <2>1. Ordered(<<"find", "free", "clear">>) /\ Head(<<"find", "free", "clear">>) = "find"
    BY OrderedThree DEF StepNames, MayEnd, MayFollow
  <2> QED BY <1>2, <2>1, CallsOK DEF FsTruncate
<1>3. CASE \E n \in Names : FsDelete(n)
  <2>1. Ordered(<<"find", "free", "erase">>) /\ Head(<<"find", "free", "erase">>) = "find"
    BY OrderedThree DEF StepNames, MayEnd, MayFollow
  <2> QED BY <1>3, <2>1, CallsOK DEF FsDelete
<1>4. CASE \E n, m \in Names : FsRename(n, m)
  <2>1. Ordered(<<"find", "rename">>) /\ Head(<<"find", "rename">>) = "find"
    BY ChainedTwo DEF StepNames, MayEnd, MayFollow
  <2> QED BY <1>4, <2>1, CallsOK DEF FsRename
<1>5. CASE \E n \in Names, b \in Buffers, f \in FlagSets : FsWrite(n, b, f)
  <2>1. PICK n \in Names, b \in Buffers, f \in FlagSets : FsWrite(n, b, f)
    BY <1>5
  <2> DEFINE w == Writing(f, b)
  <2>2. PICK s \in Found(n) :
          /\ op' \in {Idle(FALSE), Call(<<"create">> \o w, n, n, b), Call(<<>> \o w, n, n, b)}
          /\ harm' \subseteq harm \cup {"fault"}
    BY <2>1 DEF FsWrite
  <2>3. /\ Ordered(w) /\ (w # <<>> => Head(w) = "find")
        /\ Ordered(<<"create">> \o w) /\ Head(<<"create">> \o w) = "create"
    BY OrderedWriting
  <2>4. <<>> \o w = w
    BY <2>3 DEF Ordered, Chained
  <2> HIDE DEF w
  <2>5. CallOK(Call(w, n, n, b)) /\ ~On(Call(w, n, n, b), OnSlot)
    BY <2>3, CallsOK
  <2>6. CallOK(Call(<<"create">> \o w, n, n, b)) /\ ~On(Call(<<"create">> \o w, n, n, b), OnSlot)
    BY <2>3, CallsOK
  <2>7. CallOK(Idle(FALSE)) /\ ~On(Idle(FALSE), OnSlot)
    BY IdleOK DEF On
  <2>8. UNCHANGED disk
    BY <2>1 DEF FsWrite
  <2> QED BY <2>2, <2>4, <2>5, <2>6, <2>7, <2>8
<1> QED BY <1>1, <1>2, <1>3, <1>4, <1>5 DEF Request

-----------------------------------------------------------------------------
(* The steps of a call.  What a step may assume, and what has to be shown of it. *)
LEMMA TypeHere ==
  ASSUME TypeInv, NEW a \in Working, At(a)
  PROVE  /\ op \in Calls /\ op.todo # <<>> /\ Head(op.todo) = a /\ Ordered(op.todo)
         /\ op.name \in Names /\ op.new \in Names
         /\ op.done \in Nat /\ op.done <= Len(op.buf)
         /\ op.buf \in Buffers \cup {<<>>}
         /\ a \in OnSlot => op.slot \in Slots
         /\ a \notin Copying => op.copy = 1
         /\ a \in {"fill", "mark", "commit"} => op.cluster \in Clusters
BY DEF TypeInv, CallOK, On, At, Calls

Harmless(h) == h \subseteq harm \cup {"fault", "misread", "cut"}

(* Whether a write is reported as done or as failed, the call stays in order. *)
LEMMA EndsOK ==
  ASSUME TypeInv, NEW o, NEW h, h \subseteq {"fault", "misread"}, Ends(o, h), CallOK(o)
  PROVE  CallOK(op') /\ Harmless(harm') /\ (op' = o \/ op' = Idle(FALSE))
<1>1. CutShort' \subseteq {"cut"}
  BY DEF CutShort
<1>2. CallOK(Idle(FALSE))
  BY IdleOK
<1> QED BY <1>1, <1>2, Zenon DEF Ends, Harmless

LEMMA TypeKept ==
  ASSUME TypeInv, Harmless(harm'), CallOK(op'),
         fat' \in [1..FatCount -> [Clusters -> 0..EOC]],
         dir' \in [Slots -> Entries],
         data' \in [Files -> [1..ClusterSize -> Nat]],
         ~On(op', {"choose", "patch"})
  PROVE  TypeInv'
<1>1. ~At("choose")' /\ ~At("patch")'
  BY DEF On, At
<1> QED BY <1>1 DEF TypeInv, TypeOK, Harmless, CallOK

(* A directory write of a step that is followed by none of choose and patch. *)
LEMMA TypeWriteDir ==
  ASSUME TypeInv, NEW a \in {"clear", "erase", "commit", "resize"}, At(a),
         NEW e \in Entries, WriteDir(op.slot, e, Advance(op))
  PROVE  TypeInv'
<1>1. a \in Working /\ a \in OnSlot /\ a \notin Copying
  BY DEF Working, OnSlot, StepNames, Copying
<1> DEFINE o == Advance(op)
<1>2. CallOK(o) /\ (o = Idle(TRUE) \/ (o.todo # <<>> /\ MayFollow(a, Head(o.todo))))
  BY <1>1, TypeHere, AdvanceOK
<1>3. ~On(o, {"choose", "patch"})
  BY <1>2, IdleOK DEF On, MayFollow
<1> HIDE DEF o
<1>4. Ends(o, {}) /\ dir' = [dir EXCEPT ![op.slot] = e] /\ UNCHANGED <<fat, data>>
  BY DEF WriteDir, o
<1>5. CallOK(op') /\ Harmless(harm') /\ (op' = o \/ op' = Idle(FALSE))
  BY <1>2, <1>4, EndsOK
<1>6. ~On(op', {"choose", "patch"})
  BY <1>3, <1>5, IdleOK DEF On
<1>7. dir' \in [Slots -> Entries]
  BY <1>1, <1>4 DEF TypeInv, TypeOK
<1> QED BY <1>4, <1>5, <1>6, <1>7, TypeKept DEF TypeInv, TypeOK

(* A FAT write of a step: the same step again for the next copy, or the next one. *)
LEMMA TypeWriteFat ==
  ASSUME TypeInv, NEW a \in Copying, At(a), NEW c, NEW v \in 0..EOC,
         NEW between, NEW after, WriteFat(c, v, between, after),
         between \in Calls, between.todo = op.todo, between.done = op.done,
         between.buf = op.buf, between.name = op.name, between.new = op.new,
         between.slot = op.slot, between.cluster = op.cluster, between.copy = op.copy,
         after \in Calls,
         CallOK([after EXCEPT !.copy = 1]),
         ~On(after, {"choose", "patch"}),
         a = "free" => op.cluster \in Root..LastCluster
  PROVE  TypeInv'
<1>1. a \in Working /\ a \in OnSlot /\ a \notin {"choose", "patch"}
  BY DEF Working, OnSlot, StepNames, Copying
<1> DEFINE again == [between EXCEPT !.copy = @ + 1]
           next == [after EXCEPT !.copy = 1]
           o == IF op.copy < FatCount THEN again ELSE next
<1>2. /\ op.copy \in 1..FatCount /\ FatCount \in Nat
      /\ op.todo # <<>> /\ Head(op.todo) = a
  BY <1>1, TypeHere, SizesAssumption DEF Calls
<1>3. ASSUME op.copy < FatCount PROVE CallOK(again) /\ ~On(again, {"choose", "patch"})
  <2>0. between.copy + 1 \in 1..FatCount
    BY <1>2, <1>3
  <2>1. /\ again \in Calls /\ again.todo = op.todo /\ again.done = op.done
        /\ again.buf = op.buf /\ again.name = op.name /\ again.new = op.new
        /\ again.slot = op.slot /\ again.cluster = op.cluster
    BY <2>0 DEF Calls
  <2> HIDE DEF again
  <2>2. \A steps : On(again, steps) <=> On(op, steps)
    BY <2>1 DEF On
  <2>3. On(again, Copying) /\ ~On(again, {"choose", "patch"})
    BY <1>1, <1>2, <2>1 DEF On
  <2>4. On(again, {"free"}) => again.cluster \in Root..LastCluster
    BY <1>2, <2>1 DEF On
  <2>5. CallOK(again)
    BY <2>1, <2>2, <2>3, <2>4 DEF CallOK, TypeInv
  <2> QED BY <2>3, <2>5
<1>4. next.todo = after.todo
  BY DEF Calls
<1>5. ~On(next, {"choose", "patch"})
  BY <1>4 DEF On
<1>6. CallOK(o) /\ ~On(o, {"choose", "patch"})
  BY <1>3, <1>5
<1>7. Ends(o, {}) /\ fat' = [fat EXCEPT ![op.copy][c] = v] /\ UNCHANGED <<dir, data>>
  BY DEF WriteFat
<1> HIDE DEF o
<1>8. CallOK(op') /\ Harmless(harm') /\ (op' = o \/ op' = Idle(FALSE))
  BY <1>6, <1>7, EndsOK
<1>9. ~On(op', {"choose", "patch"})
  BY <1>6, <1>8, IdleOK DEF On
<1>10. fat' \in [1..FatCount -> [Clusters -> 0..EOC]]
  BY <1>2, <1>7 DEF TypeInv, TypeOK
<1> QED BY <1>7, <1>8, <1>9, <1>10, TypeKept DEF TypeInv, TypeOK

LEMMA TypeFree == ASSUME TypeInv, FreeCluster PROVE TypeInv'
<1>1. At("free") /\ "free" \in Working /\ "free" \in Copying
  BY DEF FreeCluster, Working, StepNames, Copying
<1> DEFINE succ == IF op.copy = 1 THEN fat[1][op.cluster] ELSE op.next
           between == [op EXCEPT !.next = succ]
           after == [op EXCEPT !.cluster = succ, !.next = 0]
           next == [after EXCEPT !.copy = 1]
<1>2. WriteFat(op.cluster, Free, between, after) /\ op.cluster \in Clusters
  BY SizesAssumption DEF FreeCluster, Clusters, Root
<1>3. op \in Calls /\ succ \in 0..EOC
  <2>1. op \in Calls /\ op.next \in 0..EOC
    BY <1>1, TypeHere DEF Calls
  <2>2. fat[1][op.cluster] \in 0..EOC
    BY <1>2, SizesAssumption DEF TypeInv, TypeOK
  <2> QED BY <2>1, <2>2
<1> HIDE DEF succ
<1>4. between \in Calls /\ after \in Calls /\ next \in Calls
  <2>1. 0 \in 0..EOC /\ 1 \in 1..FatCount
    BY SizesAssumption DEF EOC
  <2>2. between \in Calls
    BY <1>3 DEF Calls
  <2>3. after \in Calls
    BY <1>3, <2>1 DEF Calls
  <2> HIDE DEF after
  <2>4. next \in Calls
    BY <2>1, <2>3 DEF Calls
  <2> QED BY <2>2, <2>3, <2>4
<1>5. /\ next.todo = op.todo /\ next.copy = 1 /\ next.done = op.done /\ next.buf = op.buf
      /\ next.name = op.name /\ next.new = op.new /\ next.slot = op.slot
      /\ after.todo = op.todo
  BY <1>3 DEF Calls
<1>6. Head(op.todo) = "free" /\ op.todo # <<>>
  BY <1>1, TypeHere
<1>7. /\ between.todo = op.todo /\ between.done = op.done
      /\ between.buf = op.buf /\ between.name = op.name /\ between.new = op.new
      /\ between.slot = op.slot /\ between.cluster = op.cluster /\ between.copy = op.copy
  BY <1>3 DEF Calls
<1> HIDE DEF between, after, next
<1>8. CallOK(next)
  BY <1>4, <1>5, <1>6 DEF CallOK, On, TypeInv
<1>9. ~On(after, {"choose", "patch"})
  BY <1>5, <1>6 DEF On
<1>10. Free \in 0..EOC
  BY SizesAssumption DEF Free, EOC
<1>11. op.cluster \in Root..LastCluster
  BY DEF FreeCluster
<1> QED BY <1>1, <1>2, <1>4, <1>7, <1>8, <1>9, <1>10, <1>11, TypeWriteFat DEF next

(* Going on to the next step with the first copy of the FAT. *)
LEMMA AdvanceCopy ==
  ASSUME NEW o \in Calls
  PROVE  /\ [Advance(o) EXCEPT !.copy = 1] = Advance([o EXCEPT !.copy = 1])
         /\ [Advance(o) EXCEPT !.copy = 1].todo = Advance(o).todo
<1> DEFINE p == [o EXCEPT !.copy = 1]
<1>1. p.todo = o.todo
  BY DEF Calls
<1>2. CASE Len(o.todo) = 1
  <2>1. Advance(o) = Idle(TRUE) /\ Advance(p) = Idle(TRUE)
    BY <1>1, <1>2 DEF Advance
  <2>2. [Idle(TRUE) EXCEPT !.copy = 1] = Idle(TRUE) /\ [Idle(TRUE) EXCEPT !.copy = 1].todo = Idle(TRUE).todo
    BY DEF Idle
  <2> QED BY <2>1, <2>2
<1>3. CASE Len(o.todo) # 1
  <2>1. Advance(o) = [o EXCEPT !.todo = Tail(@)] /\ Advance(p) = [p EXCEPT !.todo = Tail(@)]
    BY <1>1, <1>3 DEF Advance
  <2>2. [[o EXCEPT !.todo = Tail(@)] EXCEPT !.copy = 1] = [[o EXCEPT !.copy = 1] EXCEPT !.todo = Tail(@)]
    BY DEF Calls
  <2>3. [[o EXCEPT !.todo = Tail(@)] EXCEPT !.copy = 1].todo = Tail(o.todo)
    BY DEF Calls
  <2>4. [o EXCEPT !.todo = Tail(@)].todo = Tail(o.todo)
    BY DEF Calls
  <2> QED BY <2>1, <2>2, <2>3, <2>4
<1> QED BY <1>2, <1>3

(* mark, mark_new and link: the next step after the last copy. *)
LEMMA TypeMarks ==
  ASSUME TypeInv, NEW a \in {"mark", "mark_new", "link"}, At(a), NEW c, NEW v \in 0..EOC,
         NEW o \in Calls, WriteFat(c, v, op, Advance(o)),
         o.todo = op.todo, o.name = op.name, o.new = op.new, o.slot = op.slot,
         o.buf = op.buf, o.done <= Len(o.buf), a = "mark" => o.cluster = op.cluster
  PROVE  TypeInv'
<1>1. a \in Working /\ a \in OnSlot /\ a \in Copying
  BY DEF Working, OnSlot, StepNames, Copying
<1> DEFINE p == [o EXCEPT !.copy = 1]
           after == Advance(o)
<1>2. /\ op \in Calls /\ op.todo # <<>> /\ Head(op.todo) = a /\ Ordered(op.todo)
      /\ op.name \in Names /\ op.new \in Names /\ op.slot \in Slots
      /\ a = "mark" => op.cluster \in Clusters
  BY <1>1, TypeHere
<1>3. 1 \in 1..FatCount
  BY SizesAssumption
<1>4. /\ p \in Calls /\ p.copy = 1 /\ p.todo = op.todo /\ p.name = op.name /\ p.new = op.new
      /\ p.slot = op.slot /\ p.buf = op.buf /\ p.done = o.done /\ p.cluster = o.cluster
  BY <1>3 DEF Calls
<1> HIDE DEF p
<1>5. /\ CallOK(Advance(p))
      /\ Advance(p) = Idle(TRUE) \/ (Advance(p).todo # <<>> /\ MayFollow(a, Head(Advance(p).todo)))
  BY <1>2, <1>4, AdvanceOK
<1>6. [after EXCEPT !.copy = 1] = Advance(p) /\ Advance(p).todo = after.todo
  BY AdvanceCopy DEF p
<1>7. after \in Calls
  <2>1. CASE Len(o.todo) = 1
    BY <2>1, IdleOK DEF Advance, CallOK
  <2>2. CASE Len(o.todo) # 1
    <3>1. Tail(o.todo) \in Seq(StepNames)
      BY <1>2, OrderedTail DEF Ordered, Chained
    <3> QED BY <2>2, <3>1 DEF Advance, Calls
  <2> QED BY <2>1, <2>2
<1>8. ~On(after, {"choose", "patch"})
  BY <1>5, <1>6, IdleOK DEF On, MayFollow
<1> HIDE DEF after
<1> QED BY <1>1, <1>2, <1>5, <1>6, <1>7, <1>8, TypeWriteFat DEF after

LEMMA TypeMark == ASSUME TypeInv, Mark \/ MarkNew PROVE TypeInv'
<1>1. EOC \in 0..EOC
  BY SizesAssumption DEF EOC
<1>2. CASE Mark
  BY <1>1, <1>2, TypeMarks, TypeHere DEF Mark, Working, StepNames
<1>3. CASE MarkNew
  BY <1>1, <1>3, TypeMarks, TypeHere DEF MarkNew, Working, StepNames
<1> QED BY <1>2, <1>3

LEMMA TypeLink == ASSUME TypeInv, Link PROVE TypeInv'
<1> DEFINE d == Smaller(op.done + ClusterSize, Len(op.buf))
           o == [op EXCEPT !.cluster = op.next, !.next = 0, !.done = d]
<1>1. "link" \in Working /\ At("link")
  BY DEF Working, StepNames, Link
<1>2. /\ op \in Calls /\ op.done \in Nat /\ Len(op.buf) \in Nat
  BY <1>1, TypeHere, Buffered
<1>3. d \in Nat /\ d <= Len(op.buf) /\ 0 \in 0..EOC
  BY <1>2, SizesAssumption DEF Smaller, EOC
<1>4. op.next \in 0..EOC
  BY <1>2 DEF Calls
<1> HIDE DEF d
<1>5. /\ o \in Calls /\ o.todo = op.todo /\ o.name = op.name /\ o.new = op.new
      /\ o.slot = op.slot /\ o.buf = op.buf /\ o.done = d
  BY <1>2, <1>3, <1>4 DEF Calls
<1>6. CASE Len(op.todo) # 1
  <2>1. [Advance(op) EXCEPT !.cluster = op.next, !.next = 0,
                            !.done = Smaller(@ + ClusterSize, Len(op.buf))] = Advance(o)
    <3>1. Advance(op) = [op EXCEPT !.todo = Tail(@)] /\ Advance(o) = [o EXCEPT !.todo = Tail(@)]
      BY <1>5, <1>6 DEF Advance
    <3>2. [op EXCEPT !.todo = Tail(@)].done = op.done
      BY <1>2 DEF Calls
    <3>3. [[op EXCEPT !.todo = Tail(@)] EXCEPT !.cluster = op.next, !.next = 0, !.done = d]
            = [[op EXCEPT !.cluster = op.next, !.next = 0, !.done = d] EXCEPT !.todo = Tail(@)]
      BY <1>2 DEF Calls
    <3> QED BY <3>1, <3>2, <3>3 DEF d
  <2>2. WriteFat(op.cluster, op.next, op, Advance(o))
    BY <2>1 DEF Link
  <2> HIDE DEF o
  <2> QED BY <1>1, <1>3, <1>4, <1>5, <2>2, TypeMarks
<1>7. CASE Len(op.todo) = 1
  BY <1>1, <1>7, TypeHere, OrderedTail DEF MayEnd
<1> QED BY <1>6, <1>7

(* A call that was stopped, and a step that writes one cluster. *)
LEMMA StoppedOK ==
  ASSUME NEW a \in {"off", "overrun"}
  PROVE  LET o == [Idle(FALSE) EXCEPT !.todo = <<a>>]
         IN  CallOK(o) /\ o.todo = <<a>> /\ \A steps : On(o, steps) => a \in steps
<1> DEFINE i == Idle(FALSE)
           o == [i EXCEPT !.todo = <<a>>]
<1>1. /\ i \in Calls /\ i.done = 0 /\ i.buf = <<>> /\ i.copy = 1
  BY IdleOK DEF CallOK, Idle
<1>2. Ordered(<<a>>) /\ <<a>> # <<>> /\ Head(<<a>>) = a
  BY OrderedOne DEF StepNames, MayEnd
<1>3. <<a>> \in Seq(StepNames)
  BY <1>2 DEF Ordered, Chained
<1> HIDE DEF i
<1>4. o \in Calls /\ o.done = 0 /\ o.buf = <<>> /\ o.copy = 1 /\ o.todo = <<a>>
  BY <1>1, <1>3 DEF Calls
<1> HIDE DEF o
<1>5. \A steps : On(o, steps) => a \in steps
  BY <1>2, <1>4 DEF On
<1>6. Ordered(o.todo) /\ o.done <= Len(o.buf)
  BY <1>2, <1>4
<1>7. CallOK(o)
  BY <1>4, <1>5, <1>6 DEF CallOK, Working, OnSlot
<1> QED BY <1>4, <1>5, <1>7 DEF o, i

LEMMA TypeWriteData ==
  ASSUME TypeInv, NEW c, NEW units \in [1..ClusterSize -> Nat], NEW o,
         WriteData(c, units, o), CallOK(o), ~On(o, {"choose", "patch"})
  PROVE  TypeInv'
<1>1. CASE c \in Files
  <2>1. Ends(o, {}) /\ data' = [data EXCEPT ![c] = units] /\ UNCHANGED <<fat, dir>>
    BY <1>1 DEF WriteData
  <2>2. CallOK(op') /\ Harmless(harm') /\ (op' = o \/ op' = Idle(FALSE))
    BY <2>1, EndsOK
  <2>3. ~On(op', {"choose", "patch"})
    BY <2>2, IdleOK DEF On
  <2>4. data' \in [Files -> [1..ClusterSize -> Nat]]
    BY <1>1, <2>1 DEF TypeInv, TypeOK
  <2> QED BY <2>1, <2>2, <2>3, <2>4, TypeKept DEF TypeInv, TypeOK
<1>2. CASE c \notin Files
  <2>1. op' = [Idle(FALSE) EXCEPT !.todo = <<"overrun">>] /\ UNCHANGED <<fat, dir, data, harm>>
    BY <1>2 DEF WriteData
  <2>2. CallOK(op') /\ ~On(op', {"choose", "patch"})
    BY <2>1, StoppedOK
  <2>3. Harmless(harm')
    BY <2>1 DEF Harmless
  <2> QED BY <2>1, <2>2, <2>3, TypeKept DEF TypeInv, TypeOK
<1> QED BY <1>1, <1>2

(* A full cluster of data. *)
LEMMA PaddedType ==
  ASSUME NEW b, \A i \in 1..Len(b) : b[i] \in Nat, Len(b) \in Nat
  PROVE  Padded(b) \in [1..ClusterSize -> Nat]
<1>1. ASSUME NEW i \in 1..ClusterSize PROVE (IF i <= Len(b) THEN b[i] ELSE 0) \in Nat
  <2>1. i <= Len(b) => i \in 1..Len(b)
    BY SizesAssumption
  <2> QED BY <2>1
<1> QED BY <1>1 DEF Padded

LEMMA TypeFill == ASSUME TypeInv, Fill PROVE TypeInv'
<1>1. At("fill") /\ "fill" \in Working /\ "fill" \in OnSlot /\ "fill" \notin Copying
  BY DEF Fill, Working, OnSlot, StepNames, Copying
<1> DEFINE o == Advance(op)
<1>2. CallOK(o) /\ (o = Idle(TRUE) \/ (o.todo # <<>> /\ MayFollow("fill", Head(o.todo))))
  BY <1>1, TypeHere, AdvanceOK
<1>3. ~On(o, {"choose", "patch"})
  BY <1>2, IdleOK DEF On, MayFollow
<1>4. WriteData(op.cluster, Padded(op.buf), o)
  BY DEF Fill
<1>5. Padded(op.buf) \in [1..ClusterSize -> Nat]
  BY <1>1, TypeHere, Buffered, PaddedType
<1> HIDE DEF o
<1> QED BY <1>2, <1>3, <1>4, <1>5, TypeWriteData

LEMMA TypePatch == ASSUME TypeInv, Patch PROVE TypeInv'
<1> DEFINE off == Offset(dir[op.slot].size)
           n == Smaller(ClusterSize - off, Len(op.buf))
           units == [i \in 1..ClusterSize |-> IF i \in off + 1 .. off + n THEN op.buf[i - off]
                                               ELSE data[op.cluster][i]]
           o == [op EXCEPT !.done = n]
<1>1. At("patch") /\ "patch" \in Working /\ "patch" \in OnSlot /\ "patch" \notin Copying
  BY DEF Patch, Working, OnSlot, StepNames, Copying
<1>2. /\ op \in Calls /\ op.todo # <<>> /\ Head(op.todo) = "patch" /\ Ordered(op.todo)
      /\ op.name \in Names /\ op.new \in Names /\ op.slot \in Slots /\ op.copy = 1
      /\ op.buf \in Buffers \cup {<<>>}
  BY <1>1, TypeHere
<1>3. off \in Int /\ off < ClusterSize /\ ClusterSize \in Nat
  <2>1. dir[op.slot].size \in Nat
    BY <1>2 DEF TypeInv, TypeOK, Entries
  <2> QED BY <1>1, <2>1, HopsType, SizesAssumption DEF TypeInv
<1>4. Len(op.buf) \in Nat /\ \A i \in 1..Len(op.buf) : op.buf[i] \in Nat
  BY <1>2, Buffered
<1>5. WriteData(op.cluster, units, [Advance(op) EXCEPT !.done = n])
  BY DEF Patch
<1> HIDE DEF off
<1>6. n \in Nat /\ n <= Len(op.buf)
  BY <1>3, <1>4 DEF Smaller
<1> HIDE DEF n
<1>7. /\ o \in Calls /\ o.todo = op.todo /\ o.name = op.name /\ o.new = op.new
      /\ o.slot = op.slot /\ o.buf = op.buf /\ o.done = n /\ o.copy = 1
  BY <1>2, <1>6 DEF Calls
<1>8. [Advance(op) EXCEPT !.done = n] = Advance(o)
  <2>1. Len(op.todo) # 1
    BY <1>2, OrderedTail DEF MayEnd
  <2>2. [[op EXCEPT !.todo = Tail(@)] EXCEPT !.done = n] = [[op EXCEPT !.done = n] EXCEPT !.todo = Tail(@)]
    BY <1>2 DEF Calls
  <2> QED BY <1>7, <2>1, <2>2 DEF Advance
<1> HIDE DEF o
<1>9. CallOK(Advance(o)) /\ ~On(Advance(o), {"choose", "patch"})
  <2>1. /\ CallOK(Advance(o))
        /\ Advance(o) = Idle(TRUE) \/ (Advance(o).todo # <<>> /\ MayFollow("patch", Head(Advance(o).todo)))
    BY <1>2, <1>6, <1>7, AdvanceOK
  <2> QED BY <2>1, IdleOK DEF On, MayFollow
<1>10. CASE op.cluster \in Files
  <2>1. data[op.cluster] \in [1..ClusterSize -> Nat]
    BY <1>10 DEF TypeInv, TypeOK
  <2>2. ASSUME NEW i \in 1..ClusterSize
        PROVE (IF i \in off + 1 .. off + n THEN op.buf[i - off] ELSE data[op.cluster][i]) \in Nat
    <3>1. i \in off + 1 .. off + n => i - off \in 1..Len(op.buf)
      BY <1>3, <1>4, <1>6
    <3> QED BY <2>1, <3>1, <1>4
  <2>3. units \in [1..ClusterSize -> Nat]
    BY <2>2
  <2> HIDE DEF units
  <2> QED BY <1>5, <1>8, <1>9, <2>3, TypeWriteData
<1>11. CASE op.cluster \notin Files
  <2> DEFINE zeros == [i \in 1..ClusterSize |-> 0]
  <2>1. WriteData(op.cluster, zeros, Advance(o))
    BY <1>5, <1>8, <1>11 DEF WriteData
  <2>2. zeros \in [1..ClusterSize -> Nat]
    OBVIOUS
  <2> HIDE DEF zeros
  <2> QED BY <1>9, <2>1, <2>2, TypeWriteData
<1> QED BY <1>10, <1>11

(* What is left of the buffer. *)
LEMMA RestOf ==
  ASSUME NEW S, NEW s \in Seq(S), NEW d \in Nat, d < Len(s)
  PROVE  LET r == SubSeq(s, d + 1, Len(s))
         IN  Len(r) = Len(s) - d /\ \A i \in 1..Len(r) : r[i] = s[d + i]
<1> DEFINE r == SubSeq(s, d + 1, Len(s))
<1>1. Len(s) \in Nat
  OBVIOUS
<1>2. Len(r) = Len(s) - d
  BY <1>1
<1>3. ASSUME NEW i \in 1..Len(r) PROVE r[i] = s[d + i]
  BY <1>1, <1>2
<1> QED BY <1>2, <1>3

LEMMA TypeGrow == ASSUME TypeInv, Grow PROVE TypeInv'
<1> DEFINE c == Minimum(FreeClusters)
           rest == SubSeq(op.buf, op.done + 1, Len(op.buf))
           more == <<"mark_new", "link">> \o op.todo
           o == [op EXCEPT !.todo = more, !.next = c]
<1>1. At("grow") /\ "grow" \in Working /\ "grow" \in OnSlot /\ "grow" \notin Copying
  BY DEF Grow, Working, OnSlot, StepNames, Copying
<1>2. /\ op \in Calls /\ op.todo # <<>> /\ Head(op.todo) = "grow" /\ Ordered(op.todo)
      /\ op.name \in Names /\ op.new \in Names /\ op.slot \in Slots /\ op.copy = 1
      /\ op.done \in Nat /\ op.done < Len(op.buf) /\ op.buf \in Buffers \cup {<<>>}
  BY <1>1, TypeHere DEF Grow
<1>3. WriteData(c, Padded(rest), o)
  BY DEF Grow
<1>4. c \in 0..EOC
  BY LowestFree, SizesAssumption DEF Grow, Root, EOC
<1>5. Padded(rest) \in [1..ClusterSize -> Nat]
  <2>1. Len(op.buf) \in Nat /\ \A i \in 1..Len(op.buf) : op.buf[i] \in Nat
    BY <1>2, Buffered
  <2>2. op.buf \in Seq(Nat \ {0})
    BY <1>2, Buffered
  <2>3. Len(rest) = Len(op.buf) - op.done /\ \A i \in 1..Len(rest) : rest[i] = op.buf[op.done + i]
    BY <1>2, <2>2, RestOf
  <2> HIDE DEF rest
  <2>4. Len(rest) \in Nat /\ \A i \in 1..Len(rest) : rest[i] \in Nat
    BY <1>2, <2>1, <2>3
  <2> QED BY <2>4, PaddedType
<1>6. Ordered(more) /\ more # <<>> /\ Head(more) = "mark_new"
  BY <1>2, OrderedGrow
<1>7. more \in Seq(StepNames)
  BY <1>6 DEF Ordered, Chained
<1> HIDE DEF more, c, rest
<1>8. /\ o \in Calls /\ o.todo = more /\ o.name = op.name /\ o.new = op.new
      /\ o.slot = op.slot /\ o.buf = op.buf /\ o.done = op.done /\ o.copy = op.copy
  BY <1>2, <1>4, <1>7 DEF Calls
<1> HIDE DEF o
<1>9. /\ o.done <= Len(o.buf) /\ Ordered(o.todo)
  BY <1>2, <1>6, <1>8, Buffered
<1>10. CallOK(o) /\ ~On(o, {"choose", "patch"})
  BY <1>2, <1>6, <1>8, <1>9 DEF CallOK, On
<1> QED BY <1>3, <1>5, <1>10, TypeWriteData

(* A step that writes nothing and leaves a call that is in order. *)
LEMMA TypeQuiet ==
  ASSUME TypeInv, UNCHANGED disk, Harmless(harm'), CallOK(op'), ~On(op', {"choose", "patch"})
  PROVE  TypeInv'
BY TypeKept DEF TypeInv, TypeOK, disk

LEMMA TypeRefuse == ASSUME TypeInv, Refuse PROVE TypeInv'
<1>1. CallOK(op') /\ ~On(op', {"choose", "patch"})
  BY IdleOK DEF Refuse, On
<1> QED BY <1>1, TypeQuiet DEF Refuse, Harmless

LEMMA TypeFind == ASSUME TypeInv, Find PROVE TypeInv'
<1>1. At("find") /\ "find" \in Working /\ "find" \notin OnSlot /\ "find" \notin Copying
  BY DEF Find, Working, OnSlot, StepNames, Copying
<1>2. PICK s \in Found(op.name) :
        /\ op' = IF s = Missing THEN Idle(FALSE)
                 ELSE Advance([op EXCEPT !.slot = s, !.cluster = dir[s].first])
        /\ harm' = harm \cup (IF Misread(op.name, s) THEN {"fault"} ELSE {})
  BY DEF Find
<1>3. Harmless(harm') /\ UNCHANGED disk
  BY <1>2 DEF Find, Harmless
<1>4. CASE s = Missing
  <2>1. CallOK(op') /\ ~On(op', {"choose", "patch"})
    BY <1>2, <1>4, IdleOK DEF On
  <2> QED BY <1>3, <2>1, TypeQuiet
<1>5. CASE s # Missing
  <2> DEFINE o == [op EXCEPT !.slot = s, !.cluster = dir[s].first]
  <2>1. s \in Slots
    BY <1>5, FoundSlot
  <2>2. dir[s].first \in 0..EOC
    BY <2>1, SizesAssumption DEF TypeInv, TypeOK, Entries, Clusters, EOC
  <2>3. /\ op \in Calls /\ op.todo # <<>> /\ Head(op.todo) = "find" /\ Ordered(op.todo)
        /\ op.name \in Names /\ op.new \in Names /\ op.copy = 1
        /\ op.done <= Len(op.buf)
    BY <1>1, TypeHere
  <2>4. /\ o \in Calls /\ o.todo = op.todo /\ o.name = op.name /\ o.new = op.new
        /\ o.slot = s /\ o.buf = op.buf /\ o.done = op.done /\ o.copy = 1
        /\ o.cluster = dir[s].first
    BY <2>1, <2>2, <2>3 DEF Calls
  <2>5. op' = Advance(o)
    BY <1>2, <1>5
  <2> HIDE DEF o
  <2>6. /\ CallOK(Advance(o))
        /\ \/ Advance(o) = Idle(TRUE)
           \/ /\ Advance(o) = [o EXCEPT !.todo = Tail(@)]
              /\ Advance(o).todo # <<>>
              /\ MayFollow("find", Head(Advance(o).todo))
    BY <2>1, <2>3, <2>4, AdvanceOK
  <2>7. ~On(op', {"patch"})
    BY <2>5, <2>6, IdleOK DEF On, MayFollow
  <2>8. On(op', {"choose"}) => op'.cluster = dir'[op'.slot].first
    <3>1. CASE Advance(o) = Idle(TRUE)
      BY <2>5, <3>1, IdleOK DEF On
    <3>2. CASE Advance(o) = [o EXCEPT !.todo = Tail(@)]
      <4>1. op'.cluster = o.cluster /\ op'.slot = o.slot
        BY <2>4, <2>5, <3>2 DEF Calls
      <4> QED BY <1>3, <2>4, <4>1 DEF disk
    <3> QED BY <2>6, <3>1, <3>2
  <2>9. ~At("patch")' /\ (At("choose")' => op'.cluster = dir'[op'.slot].first)
    BY <2>7, <2>8 DEF On, At
  <2> QED BY <1>3, <2>5, <2>6, <2>9 DEF TypeInv, TypeOK, Harmless, disk, CallOK
<1> QED BY <1>4, <1>5

LEMMA TypeCreate == ASSUME TypeInv, CreateEntry PROVE TypeInv'
<1>1. At("create") /\ "create" \in Working /\ "create" \notin OnSlot /\ "create" \notin Copying
  BY DEF CreateEntry, Working, OnSlot, StepNames, Copying
<1> DEFINE o == Advance(op)
           h == IF Misread(op.name, Missing) THEN {"fault", "misread"} ELSE {}
           e == [name |-> op.name, first |-> 0, size |-> 0]
<1>2. /\ dir' = [dir EXCEPT ![Minimum(Holes)] = e]
      /\ UNCHANGED <<fat, data>> /\ Ends(o, h) /\ Holes # {}
  BY DEF CreateEntry
<1>3. CallOK(o) /\ (o = Idle(TRUE) \/ (o.todo # <<>> /\ MayFollow("create", Head(o.todo))))
  BY <1>1, TypeHere, AdvanceOK
<1>4. ~On(o, {"choose", "patch"})
  BY <1>3, IdleOK DEF On, MayFollow
<1>5. h \subseteq {"fault", "misread"}
  OBVIOUS
<1>6. e \in Entries
  BY <1>1, TypeHere, SizesAssumption DEF Entries, Clusters, Root
<1> HIDE DEF o, h, e
<1>7. CallOK(op') /\ Harmless(harm') /\ (op' = o \/ op' = Idle(FALSE))
  BY <1>2, <1>3, <1>5, EndsOK
<1>8. ~On(op', {"choose", "patch"})
  BY <1>4, <1>7, IdleOK DEF On
<1>9. dir' \in [Slots -> Entries]
  BY <1>2, <1>6 DEF TypeInv, TypeOK
<1> QED BY <1>2, <1>7, <1>8, <1>9, TypeKept DEF TypeInv, TypeOK

LEMMA TypeRename == ASSUME TypeInv, RenameEntry PROVE TypeInv'
<1>1. At("rename") /\ "rename" \in Working /\ "rename" \in OnSlot /\ "rename" \notin Copying
  BY DEF RenameEntry, Working, OnSlot, StepNames, Copying
<1> DEFINE o == Advance(op)
           h == IF Misread(op.new, Missing) THEN {"fault", "misread"} ELSE {}
<1>2. /\ dir' = [dir EXCEPT ![op.slot].name = op.new]
      /\ UNCHANGED <<fat, data>> /\ Ends(o, h)
  BY DEF RenameEntry
<1>3. CallOK(o) /\ o = Idle(TRUE)
  <2>1. /\ CallOK(o)
        /\ o = Idle(TRUE) \/ MayFollow("rename", Head(o.todo))
    BY <1>1, TypeHere, AdvanceOK
  <2> QED BY <2>1 DEF MayFollow
<1>4. h \subseteq {"fault", "misread"}
  OBVIOUS
<1> HIDE DEF o, h
<1>5. CallOK(op') /\ Harmless(harm') /\ (op' = o \/ op' = Idle(FALSE))
  BY <1>2, <1>3, <1>4, EndsOK
<1>6. ~On(op', {"choose", "patch"})
  BY <1>3, <1>5, IdleOK DEF On
<1>7. dir' \in [Slots -> Entries]
  <2>1. op.slot \in Slots /\ op.new \in Names
    BY <1>1, TypeHere
  <2>2. [dir[op.slot] EXCEPT !.name = op.new] \in Entries
    BY <2>1 DEF TypeInv, TypeOK, Entries
  <2>3. dir' = [dir EXCEPT ![op.slot] = [dir[op.slot] EXCEPT !.name = op.new]]
    BY <1>2
  <2> QED BY <2>1, <2>2, <2>3 DEF TypeInv, TypeOK
<1> QED BY <1>2, <1>5, <1>6, <1>7, TypeKept DEF TypeInv, TypeOK

LEMMA TypeWrites == ASSUME TypeInv, Clear \/ Erase \/ Commit \/ Resize PROVE TypeInv'
<1>1. {"clear", "erase", "commit", "resize"} \subseteq Working
      /\ {"clear", "erase", "commit", "resize"} \subseteq OnSlot
  BY DEF Working, OnSlot, StepNames
<1>2. CASE Clear
  <2>1. op.slot \in Slots
    BY <1>1, <1>2, TypeHere DEF Clear
  <2>2. dir[op.slot] \in Entries /\ 0 \in Clusters
    BY <2>1, SizesAssumption DEF TypeInv, TypeOK, Clusters, Root
  <2>3. [dir[op.slot] EXCEPT !.first = 0, !.size = 0] \in Entries
    BY <2>2 DEF Entries
  <2> QED BY <1>2, <2>3, TypeWriteDir DEF Clear
<1>3. CASE Erase
  <2>1. [name |-> "deleted", first |-> 0, size |-> 0] \in Entries
    BY SizesAssumption DEF Entries, Clusters, Root
  <2> QED BY <1>3, <2>1, TypeWriteDir DEF Erase
<1>4. CASE Commit
  <2>1. op.slot \in Slots /\ op.cluster \in Clusters /\ Len(op.buf) \in Nat
    BY <1>1, <1>4, TypeHere, Buffered DEF Commit
  <2>2. [dir[op.slot] EXCEPT !.first = op.cluster, !.size = Len(op.buf)] \in Entries
    BY <2>1 DEF TypeInv, TypeOK, Entries
  <2> QED BY <1>4, <2>2, TypeWriteDir DEF Commit
<1>5. CASE Resize
  <2>1. op.slot \in Slots /\ Len(op.buf) \in Nat
    BY <1>1, <1>5, TypeHere, Buffered DEF Resize
  <2>2. dir[op.slot] \in Entries /\ dir[op.slot].size \in Nat
    BY <2>1 DEF TypeInv, TypeOK, Entries
  <2>3. [dir[op.slot] EXCEPT !.size = @ + Len(op.buf)] \in Entries
    BY <2>1, <2>2 DEF Entries
  <2> QED BY <1>5, <2>3, TypeWriteDir DEF Resize
<1> QED BY <1>2, <1>3, <1>4, <1>5

LEMMA TypeSkip == ASSUME TypeInv, FreeDone \/ GrowDone PROVE TypeInv'
<1>1. {"free", "grow"} \subseteq Working /\ {"free", "grow"} \subseteq OnSlot
  BY DEF Working, OnSlot, StepNames
<1>2. PICK a \in {"free", "grow"} : At(a)
  BY DEF FreeDone, GrowDone
<1>3. op' = Advance(op) /\ UNCHANGED <<disk, harm>>
  BY DEF FreeDone, GrowDone
<1>4. op.copy = 1
  BY <1>1, <1>2, TypeHere DEF FreeDone, GrowDone, TypeInv, CallOK, On, At, Copying
<1>5. /\ CallOK(op')
      /\ op' = Idle(TRUE) \/ (op'.todo # <<>> /\ MayFollow(a, Head(op'.todo)))
  BY <1>1, <1>2, <1>3, <1>4, TypeHere, AdvanceOK
<1>6. ~On(op', {"choose", "patch"})
  BY <1>5, IdleOK DEF On, MayFollow
<1> QED BY <1>3, <1>5, <1>6, TypeQuiet DEF Harmless

(* The rest of a list replaced by another one. *)
LEMMA InsteadOK ==
  ASSUME TypeInv, NEW a \in {"choose", "extend", "walk"}, At(a),
         NEW steps, Ordered(steps), steps # <<>>, NEW c \in 0..EOC,
         Head(steps) \in {"fill", "mark", "commit"} => c \in Clusters
  PROVE  LET o == [Instead(steps) EXCEPT !.cluster = c]
         IN  CallOK(o) /\ o.todo = steps /\ o.slot = op.slot /\ o.cluster = c
<1> DEFINE o == [Instead(steps) EXCEPT !.cluster = c]
<1>1. a \in Working /\ a \in OnSlot /\ a \notin Copying
  BY DEF Working, OnSlot, StepNames, Copying
<1>2. /\ op \in Calls /\ op.name \in Names /\ op.new \in Names /\ op.slot \in Slots
      /\ op.copy = 1 /\ op.done <= Len(op.buf)
  BY <1>1, TypeHere
<1>3. steps \in Seq(StepNames)
  BY DEF Ordered, Chained
<1>4. /\ o \in Calls /\ o.todo = steps /\ o.name = op.name /\ o.new = op.new
      /\ o.slot = op.slot /\ o.buf = op.buf /\ o.done = op.done /\ o.copy = 1
      /\ o.cluster = c
  BY <1>2, <1>3 DEF Instead, Calls
<1> HIDE DEF o
<1>5. CallOK(o)
  BY <1>2, <1>4 DEF CallOK, On
<1> QED BY <1>4, <1>5 DEF o

LEMMA InsteadSame ==
  ASSUME TypeInv, NEW steps
  PROVE  [Instead(steps) EXCEPT !.cluster = op.cluster] = Instead(steps)
BY DEF Instead, TypeInv, CallOK, Calls

(* What fs_write_file does: nothing, a new cluster, or the only one again. *)
LEMMA Chosen ==
  ASSUME Choose
  PROVE  \/ op' \in {Idle(FALSE), Idle(TRUE)}
         \/ /\ op.buf # <<>> /\ ~(Len(op.buf) > ClusterSize)
            /\ op.cluster = 0 /\ FreeClusters # {}
            /\ op' = [Instead(<<"fill", "mark", "commit">>) EXCEPT !.cluster = Minimum(FreeClusters)]
         \/ /\ op.buf # <<>> /\ ~(Len(op.buf) > ClusterSize)
            /\ op.cluster >= Root /\ Follow(op.cluster) = EOC
            /\ op' = Instead(<<"fill", "commit">>)
<1> DEFINE fresh == <<"fill", "mark", "commit">>
           over == <<"fill", "commit">>
           low == Minimum(FreeClusters)
           more == [Instead(fresh) EXCEPT !.cluster = low]
           new == op.cluster = 0 /\ dir[op.slot].size = 0 /\ FreeClusters # {}
           old == op.cluster >= Root /\ Follow(op.cluster) = EOC
           inner == CASE new -> more
                      [] old -> Instead(over)
                      [] OTHER -> Idle(FALSE)
<1>1. op' = CASE Len(op.buf) > ClusterSize -> Idle(FALSE)
              [] op.buf = <<>>             -> Idle(TRUE)
              [] OTHER                     -> inner
  BY DEF Choose
<1> HIDE DEF more, low, fresh, over
<1>2. \/ inner = Idle(FALSE)
      \/ op.cluster = 0 /\ FreeClusters # {} /\ inner = more
      \/ old /\ inner = Instead(over)
  <2>1. ~(new /\ old) /\ (new => op.cluster = 0 /\ FreeClusters # {})
    BY DEF Root
  <2> HIDE DEF new, old
  <2> QED BY <2>1
<1> HIDE DEF inner
<1> DEFINE long  == Len(op.buf) > ClusterSize
           empty == op.buf = <<>>
<1>3. op' \in {Idle(FALSE), Idle(TRUE)} \/ (~long /\ ~empty /\ op' = inner)
  <2>1. ~(long /\ empty)
    BY SizesAssumption
  <2>2. op' = CASE long -> Idle(FALSE) [] empty -> Idle(TRUE) [] OTHER -> inner
    BY <1>1
  <2> HIDE DEF long, empty
  <2> QED BY <2>1, <2>2
<1> HIDE DEF old
<1> QED BY <1>2, <1>3 DEF more, low, fresh, over, old

LEMMA TypeChoose == ASSUME TypeInv, Choose PROVE TypeInv'
<1>1. At("choose") /\ "choose" \in Working /\ "choose" \in OnSlot /\ "choose" \notin Copying
  BY DEF Choose, Working, OnSlot, StepNames, Copying
<1> DEFINE fresh == <<"fill", "mark", "commit">>
           over == <<"fill", "commit">>
           low == Minimum(FreeClusters)
<1>2. /\ Ordered(fresh) /\ fresh # <<>> /\ Head(fresh) = "fill"
      /\ Ordered(over) /\ over # <<>> /\ Head(over) = "fill"
  BY OrderedThree, ChainedTwo DEF StepNames, MayEnd, MayFollow
<1> HIDE DEF fresh, over
<1>3. UNCHANGED <<disk, harm>>
  BY DEF Choose
<1>4. \/ op' \in {Idle(FALSE), Idle(TRUE)}
      \/ FreeClusters # {} /\ op' = [Instead(fresh) EXCEPT !.cluster = low]
      \/ op' = Instead(over)
  BY Chosen DEF fresh, over
<1>5. CASE op' \in {Idle(FALSE), Idle(TRUE)}
  <2>1. CallOK(op') /\ ~On(op', {"choose", "patch"})
    BY <1>5, IdleOK DEF On
  <2> QED BY <1>3, <2>1, TypeQuiet DEF Harmless
<1>6. CASE FreeClusters # {} /\ op' = [Instead(fresh) EXCEPT !.cluster = low]
  <2>1. low \in 0..EOC /\ low \in Clusters
    BY <1>6, LowestFree, SizesAssumption DEF Root, EOC, Clusters
  <2> HIDE DEF low
  <2>2. CallOK(op') /\ op'.todo = fresh
    BY <1>1, <1>2, <1>6, <2>1, InsteadOK
  <2>3. ~On(op', {"choose", "patch"})
    BY <1>2, <2>2 DEF On
  <2> QED BY <1>3, <2>2, <2>3, TypeQuiet DEF Harmless
<1>7. CASE op' = Instead(over)
  <2>1. op.cluster \in 0..EOC /\ op.cluster \in Clusters
    <3>1. op.cluster = dir[op.slot].first /\ op.slot \in Slots /\ op \in Calls
      BY <1>1, TypeHere DEF TypeInv
    <3> QED BY <3>1 DEF TypeInv, TypeOK, Entries, Calls
  <2>2. CallOK(op') /\ op'.todo = over
    BY <1>1, <1>2, <1>7, <2>1, InsteadOK, InsteadSame
  <2>3. ~On(op', {"choose", "patch"})
    BY <1>2, <2>2 DEF On
  <2> QED BY <1>3, <2>2, <2>3, TypeQuiet DEF Harmless
<1> QED BY <1>4, <1>5, <1>6, <1>7

LEMMA TypeExtend == ASSUME TypeInv, Extend PROVE TypeInv'
<1>1. At("extend") /\ "extend" \in Working
  BY DEF Extend, Working, StepNames
<1> DEFINE one == <<"find", "choose">>
           more == <<"find", "walk">>
<1>2. /\ Ordered(one) /\ one # <<>> /\ Head(one) = "find"
      /\ Ordered(more) /\ more # <<>> /\ Head(more) = "find"
  BY ChainedTwo DEF StepNames, MayEnd, MayFollow
<1> HIDE DEF one, more
<1>3. UNCHANGED <<disk, harm>> /\ (op' = Instead(one) \/ op' = Instead(more))
  BY DEF Extend, one, more
<1>4. op.cluster \in 0..EOC
  BY DEF TypeInv, CallOK, Calls
<1>5. CallOK(op') /\ (op'.todo = one \/ op'.todo = more)
  BY <1>1, <1>2, <1>3, <1>4, InsteadOK, InsteadSame
<1>6. ~On(op', {"choose", "patch"})
  BY <1>2, <1>5 DEF On
<1> QED BY <1>3, <1>5, <1>6, TypeQuiet DEF Harmless

LEMMA TypeWalk == ASSUME TypeInv, WalkToEnd PROVE TypeInv'
<1>1. At("walk") /\ "walk" \in Working /\ "walk" \in OnSlot
  BY DEF WalkToEnd, Working, OnSlot, StepNames
<1> DEFINE size == dir[op.slot].size
           tail == Walk(op.cluster, Hops(size))
           full == <<"grow", "resize">>
           part == <<"patch">> \o full
<1>2. /\ Ordered(full) /\ full # <<>> /\ Head(full) = "grow"
      /\ Ordered(part) /\ part # <<>> /\ Head(part) = "patch"
      /\ <<>> \o full = full
  <2>1. Ordered(full) /\ full # <<>> /\ Head(full) = "grow"
    BY ChainedTwo DEF StepNames, MayEnd, MayFollow
  <2>2. <<>> \o full = full
    OBVIOUS
  <2> HIDE DEF full
  <2> DEFINE p == <<"patch">>
  <2>3. p # <<>> /\ Head(p) = "patch" /\ p[Len(p)] = "patch" /\ Chained(p)
    BY DEF Chained, StepNames
  <2> HIDE DEF p
  <2>4. MayFollow(p[Len(p)], Head(full))
    BY <2>1, <2>3 DEF MayFollow
  <2>5. Ordered(p \o full) /\ p \o full # <<>> /\ Head(p \o full) = "patch"
    BY <2>1, <2>3, <2>4, OrderedJoin
  <2> QED BY <2>1, <2>2, <2>5 DEF p
<1>3. UNCHANGED <<disk, harm>>
  BY DEF WalkToEnd
<1> HIDE DEF full, part
<1>4. \/ op' = Idle(FALSE)
      \/ Offset(size) < ClusterSize /\ op' = [Instead(part) EXCEPT !.cluster = tail]
      \/ op' = [Instead(full) EXCEPT !.cluster = tail]
  BY <1>2 DEF WalkToEnd, full, part
<1>5. tail \in 0..EOC
  <2>1. size \in Nat /\ op.cluster \in 0..EOC
    BY <1>1, TypeHere DEF TypeInv, TypeOK, Entries, Calls
  <2>2. Hops(size) \in Nat
    BY <2>1, HopsType
  <2> QED BY <2>1, <2>2, WalkType DEF TypeInv
<1> HIDE DEF tail
<1>6. CASE op' = Idle(FALSE)
  <2>1. CallOK(op') /\ ~On(op', {"choose", "patch"})
    BY <1>6, IdleOK DEF On
  <2> QED BY <1>3, <2>1, TypeQuiet DEF Harmless
<1>7. CASE Offset(size) < ClusterSize /\ op' = [Instead(part) EXCEPT !.cluster = tail]
  <2>1. CallOK(op') /\ op'.todo = part /\ op'.slot = op.slot
    BY <1>1, <1>2, <1>5, <1>7, InsteadOK
  <2>2. At("patch")' /\ ~At("choose")'
    BY <1>2, <2>1 DEF At
  <2>3. Offset(dir'[op'.slot].size) < ClusterSize
    BY <1>3, <1>7, <2>1 DEF disk
  <2>4. (At("patch") => Offset(dir[op.slot].size) < ClusterSize)'
    BY <2>3 DEF Offset, Hops
  <2> QED BY <1>3, <2>1, <2>2, <2>4 DEF TypeInv, TypeOK, disk, CallOK
<1>8. CASE op' = [Instead(full) EXCEPT !.cluster = tail]
  <2>1. CallOK(op') /\ op'.todo = full
    BY <1>1, <1>2, <1>5, <1>8, InsteadOK
  <2>2. ~On(op', {"choose", "patch"})
    BY <1>2, <2>1 DEF On
  <2> QED BY <1>3, <2>1, <2>2, TypeQuiet DEF Harmless
<1> QED BY <1>4, <1>6, <1>7, <1>8

LEMMA TypeStops == ASSUME TypeInv, AccessFails \/ PowerOff PROVE TypeInv'
<1>1. op' = Idle(FALSE) \/ op' = [Idle(FALSE) EXCEPT !.todo = <<"off">>]
  BY DEF AccessFails, PowerOff, Off
<1>2. CallOK(op') /\ ~On(op', {"choose", "patch"})
  BY <1>1, IdleOK, StoppedOK DEF On
<1>3. UNCHANGED disk /\ Harmless(harm')
  BY DEF AccessFails, PowerOff, Harmless, CutShort
<1> QED BY <1>2, <1>3, TypeQuiet

(* The invariant holds on the freshly made image, and every step keeps it. *)
LEMMA TypeInit == Init => TypeInv
<1> SUFFICES ASSUME Init PROVE TypeInv
  OBVIOUS
<1>1. CallOK(op) /\ op.todo = <<>>
  BY IdleOK DEF Init
<1>2. fat \in [1..FatCount -> [Clusters -> 0..EOC]]
  BY SizesAssumption DEF Init, EOC, Free
<1>3. dir \in [Slots -> Entries]
  BY SizesAssumption DEF Init, Entries, Clusters, Root
<1>4. data \in [Files -> [1..ClusterSize -> Nat]]
  <2>1. Len(<<>>) = 0 /\ \A i \in 1..Len(<<>>) : <<>>[i] \in Nat
    OBVIOUS
  <2>2. Padded(<<>>) \in [1..ClusterSize -> Nat]
    BY <2>1, PaddedType
  <2> QED BY <2>2 DEF Init
<1> QED BY <1>1, <1>2, <1>3, <1>4 DEF Init, TypeInv, TypeOK, CallOK, At

LEMMA TypeNext == TypeInv /\ [Next]_vars => TypeInv'
<1> SUFFICES ASSUME TypeInv, [Next]_vars PROVE TypeInv'
  OBVIOUS
<1>1. CASE Request
  <2>1. CallOK(op') /\ ~On(op', OnSlot) /\ UNCHANGED disk /\ harm' \subseteq harm \cup {"fault"}
    BY <1>1, TypeRequest
  <2>2. ~On(op', {"choose", "patch"}) /\ Harmless(harm')
    BY <2>1 DEF On, OnSlot, Working, StepNames, Harmless
  <2> QED BY <2>1, <2>2, TypeQuiet
<1>2. CASE Step
  BY <1>2, TypeFind, TypeRefuse, TypeCreate, TypeRename, TypeFree, TypeSkip, TypeWrites, TypeChoose,
     TypeFill, TypeMark, TypeExtend, TypeWalk, TypePatch, TypeGrow, TypeLink
  DEF Step, CreateRefused, RenameRefused, GrowRefused
<1>3. CASE AccessFails \/ PowerOff
  BY <1>3, TypeStops
<1>4. CASE Boot
  BY <1>4, TypeRefuse DEF Boot
<1>5. CASE UNCHANGED vars
  <2>1. UNCHANGED <<fat, dir, data, op, harm>>
    BY <1>5 DEF vars
  <2>2. (At("choose") => op.cluster = dir[op.slot].first)' /\ (At("patch") => Offset(dir[op.slot].size) < ClusterSize)'
    BY <2>1 DEF TypeInv, At, Offset, Hops
  <2> QED BY <2>1, <2>2 DEF TypeInv, TypeOK, CallOK
<1> QED BY <1>1, <1>2, <1>3, <1>4, <1>5 DEF Next

(* Whatever is called and whatever fails, links, entries, buffers and positions    *)
(* stay in range: in particular the position op.done never runs past the buffer of *)
(* the caller (fs_append_file, fat32.c).                                           *)
THEOREM Fat32Types == Spec => []TypeOK
<1>1. TypeInv => TypeOK
  BY DEF TypeInv
<1> QED BY <1>1, TypeInit, TypeNext, PTL DEF Spec

-----------------------------------------------------------------------------
(***************************************************************************)
(* Proof that a name is in the root directory at most once, for every      *)
(* disk and every pattern of failures, until a failed read of the          *)
(* directory is taken for "not found" (find_root_entry, fat32.c).          *)
(*                                                                         *)
(* Uniqueness alone is not inductive.  The scan for a name ends at the     *)
(* first entry never used, so one has to know that no such entry stands    *)
(* before one in use (EndsLast): otherwise a new entry, put into the first *)
(* hole, would uncover an old one behind it.  And the slot a call has      *)
(* looked up must still hold a file when it is renamed or erased           *)
(* (OnLiveSlot).                                                           *)
(***************************************************************************)
(* Entries never used come after all others. *)
EndsLast == \A s, t \in Slots : s < t /\ dir[s].name = "end" => dir[t].name = "end"

(* The slot of the running call holds a file. *)
OnLiveSlot == On(op, OnSlot) => Live(op.slot)

NamesInv == TypeInv /\ EndsLast /\ OnLiveSlot /\ NamesStayUnique

(* History is not taken back. *)
LEMMA HarmGrows == ASSUME Next PROVE harm \subseteq harm'
<1>1. CASE Request
  BY <1>1 DEF Request, FsCreate, FsTruncate, FsDelete, FsRename, FsWrite
<1>2. CASE Step
  BY <1>2 DEF Step, Find, CreateRefused, CreateEntry, RenameRefused, RenameEntry, FreeCluster,
     FreeDone, Clear, Erase, Choose, Fill, Mark, Commit, Extend, WalkToEnd, Patch, Grow,
     GrowRefused, GrowDone, MarkNew, Link, Resize, Refuse, WriteDir, WriteFat, WriteData, Ends
<1>3. CASE AccessFails \/ PowerOff \/ Boot
  BY <1>3 DEF AccessFails, PowerOff, Boot, Refuse
<1> QED BY <1>1, <1>2, <1>3 DEF Next

(* Only find moves a call to another slot. *)
SameSlot(o) == o.todo = <<>> \/ o.slot = op.slot

LEMMA SlotIdle == \A b \in BOOLEAN : SameSlot(Idle(b))
BY IdleOK DEF SameSlot

LEMMA SlotEnds == ASSUME NEW o, NEW h, Ends(o, h), SameSlot(o) PROVE op'.todo = <<>> \/ op'.slot = op.slot
BY SlotIdle DEF Ends, SameSlot

LEMMA SlotAdvance ==
  ASSUME TypeInv, NEW o \in Calls, o.slot = op.slot
  PROVE  Tail(o.todo) \in Seq(StepNames) => SameSlot(Advance(o)) /\ Advance(o) \in Calls
<1>1. CASE Len(o.todo) = 1
  BY <1>1, SlotIdle, IdleOK DEF Advance, CallOK
<1>2. CASE Len(o.todo) # 1
  BY <1>2 DEF Advance, SameSlot, Calls
<1> QED BY <1>1, <1>2

LEMMA SlotWriteFat ==
  ASSUME NEW c, NEW v, NEW between, NEW after, WriteFat(c, v, between, after),
         \A k : SameSlot([between EXCEPT !.copy = k]) /\ SameSlot([after EXCEPT !.copy = k])
  PROVE  op'.todo = <<>> \/ op'.slot = op.slot
<1> DEFINE again == [between EXCEPT !.copy = @ + 1]
           next == [after EXCEPT !.copy = 1]
<1>1. SameSlot(again) /\ SameSlot(next)
  OBVIOUS
<1>2. Ends(again, {}) \/ Ends(next, {})
  BY DEF WriteFat
<1> HIDE DEF again, next
<1> QED BY <1>1, <1>2, SlotEnds

(* No step but find and create changes the slot a call works on. *)
LEMMA SlotKept ==
  ASSUME TypeInv, Step, ~Find, ~CreateEntry
  PROVE  On(op', OnSlot) => On(op, OnSlot) /\ op'.slot = op.slot
<1> SUFFICES \/ op'.todo = <<>>
             \/ On(op, OnSlot) /\ (op'.slot = op.slot \/ op'.todo = <<"overrun">>)
  BY DEF On, OnSlot, Working
<1>1. op \in Calls /\ Ordered(op.todo)
  BY DEF TypeInv, CallOK
<1>2. op.todo # <<>> => Tail(op.todo) \in Seq(StepNames) /\ Head(op.todo) \in StepNames
  BY <1>1, OrderedTail DEF Ordered, Chained
<1>3. SameSlot(op)
  BY DEF SameSlot
<1>4. op.todo # <<>> => SameSlot(Advance(op)) /\ Advance(op) \in Calls
  BY <1>1, <1>2, SlotAdvance
<1>5. \A steps : SameSlot(Instead(steps)) /\ \A c : SameSlot([Instead(steps) EXCEPT !.cluster = c])
  BY <1>1 DEF SameSlot, Instead, Calls
<1>6. CASE CreateRefused \/ RenameRefused \/ GrowRefused
  BY <1>6, IdleOK DEF CreateRefused, RenameRefused, GrowRefused, Refuse
<1>7. CASE RenameEntry \/ Clear \/ Erase \/ Commit \/ Resize
  <2>1. On(op, OnSlot)
    BY <1>7 DEF RenameEntry, Clear, Erase, Commit, Resize, At, On, OnSlot, Working, StepNames
  <2>2. PICK h : Ends(Advance(op), h)
    BY <1>7 DEF RenameEntry, Clear, Erase, Commit, Resize, WriteDir
  <2>3. op'.todo = <<>> \/ op'.slot = op.slot
    BY <1>4, <2>1, <2>2, SlotEnds DEF On
  <2> QED BY <2>1, <2>3
<1>8. CASE FreeDone \/ GrowDone
  <2>1. On(op, OnSlot)
    BY <1>8 DEF FreeDone, GrowDone, At, On, OnSlot, Working, StepNames
  <2>2. op' = Advance(op)
    BY <1>8 DEF FreeDone, GrowDone
  <2> QED BY <1>4, <2>1, <2>2 DEF On, SameSlot
<1>9. CASE Choose \/ Extend \/ WalkToEnd
  <2>1. On(op, OnSlot)
    BY <1>9 DEF Choose, Extend, WalkToEnd, At, On, OnSlot, Working, StepNames
  <2>2. SameSlot(op')
    <3>1. CASE Choose
      BY <1>5, <3>1, SlotIdle DEF Choose
    <3>2. CASE Extend
      BY <1>5, <3>2, SlotIdle DEF Extend
    <3>3. CASE WalkToEnd
      BY <1>5, <3>3, SlotIdle DEF WalkToEnd
    <3> QED BY <1>9, <3>1, <3>2, <3>3
  <2> QED BY <2>1, <2>2 DEF SameSlot
<1>10. CASE Fill \/ Patch \/ Grow
  <2>1. On(op, OnSlot)
    BY <1>10 DEF Fill, Patch, Grow, At, On, OnSlot, Working, StepNames
  <2>2. PICK o, c, units : WriteData(c, units, o) /\ SameSlot(o)
    <3>1. CASE Fill
      BY <1>4, <2>1, <3>1 DEF Fill, On
    <3>2. CASE Patch
      <4> DEFINE n == Smaller(ClusterSize - Offset(dir[op.slot].size), Len(op.buf))
      <4>1. PICK units : WriteData(op.cluster, units, [Advance(op) EXCEPT !.done = n])
        BY <3>2 DEF Patch
      <4>2. SameSlot([Advance(op) EXCEPT !.done = n])
        BY <1>4, <2>1 DEF On, SameSlot, Calls
      <4> QED BY <4>1, <4>2
    <3>3. CASE Grow
      <4> DEFINE o == [op EXCEPT !.todo = <<"mark_new", "link">> \o @, !.next = Minimum(FreeClusters)]
      <4>1. PICK c, units : WriteData(c, units, o)
        BY <3>3 DEF Grow
      <4>2. SameSlot(o)
        BY <1>1 DEF SameSlot, Calls
      <4> QED BY <4>1, <4>2
    <3> QED BY <1>10, <3>1, <3>2, <3>3
  <2>3. CASE c \in Files
    <3>1. Ends(o, {})
      BY <2>2, <2>3 DEF WriteData
    <3> QED BY <2>1, <2>2, <3>1, SlotEnds
  <2>4. CASE c \notin Files
    BY <2>1, <2>2, <2>4, StoppedOK DEF WriteData
  <2> QED BY <2>3, <2>4
<1>11. CASE FreeCluster \/ Mark \/ MarkNew \/ Link
  <2>1. On(op, OnSlot)
    BY <1>11 DEF FreeCluster, Mark, MarkNew, Link, At, On, OnSlot, Working, StepNames
  <2>2. SameSlot(Advance(op)) /\ Advance(op) \in Calls
    BY <1>4, <2>1 DEF On
  <2>3. PICK between, after, c, v :
          /\ WriteFat(c, v, between, after)
          /\ \A k : SameSlot([between EXCEPT !.copy = k]) /\ SameSlot([after EXCEPT !.copy = k])
    <3> DEFINE o == Advance(op)
    <3> HIDE DEF o
    <3>1. \A k : SameSlot([op EXCEPT !.copy = k])
      BY <1>1 DEF SameSlot, Calls
    <3>2. \A k : SameSlot([o EXCEPT !.copy = k])
      BY <2>2 DEF SameSlot, Calls, o
    <3>3. CASE Mark \/ MarkNew
      BY <3>1, <3>2, <3>3 DEF Mark, MarkNew, o
    <3>4. CASE Link
      <4> DEFINE after == [o EXCEPT !.cluster = op.next, !.next = 0,
                                    !.done = Smaller(@ + ClusterSize, Len(op.buf))]
      <4>1. WriteFat(op.cluster, op.next, op, after)
        BY <3>4 DEF Link, o
      <4>2. \A k : SameSlot([after EXCEPT !.copy = k])
        BY <2>2 DEF SameSlot, Calls, o
      <4> QED BY <3>1, <4>1, <4>2
    <3>5. CASE FreeCluster
      <4> DEFINE succ == IF op.copy = 1 THEN fat[1][op.cluster] ELSE op.next
                 between == [op EXCEPT !.next = succ]
                 after == [op EXCEPT !.cluster = succ, !.next = 0]
      <4>1. WriteFat(op.cluster, Free, between, after)
        BY <3>5 DEF FreeCluster
      <4> HIDE DEF succ
      <4>2. \A k : SameSlot([between EXCEPT !.copy = k]) /\ SameSlot([after EXCEPT !.copy = k])
        BY <1>1 DEF SameSlot, Calls
      <4> QED BY <4>1, <4>2
    <3> QED BY <1>11, <3>3, <3>4, <3>5
  <2> QED BY <2>1, <2>3, SlotWriteFat
<1> QED BY <1>6, <1>7, <1>8, <1>9, <1>10, <1>11 DEF Step

(* Only three steps change a name. *)
LEMMA NamesSame ==
  ASSUME TypeInv, dir' \in [Slots -> Entries], \A s \in Slots : dir'[s].name = dir[s].name
  PROVE  /\ \A s \in Slots : Live(s)' <=> Live(s)
         /\ EndsLast => EndsLast'
         /\ UniqueNames => UniqueNames'
<1>1. ASSUME NEW s \in Slots PROVE Live(s)' <=> Live(s)
  <2>1. \A t \in 1..s : t \in Slots
    BY SizesAssumption DEF Slots
  <2> QED BY <2>1 DEF Live
<1>2. \A n : Named(n)' = Named(n)
  BY <1>1 DEF Named
<1> QED BY <1>1, <1>2 DEF EndsLast, UniqueNames

(* A step that is none of the three leaves every name as it is. *)
LEMMA NameKept ==
  ASSUME TypeInv, Step, ~CreateEntry, ~RenameEntry, ~Erase
  PROVE  \A s \in Slots : dir'[s].name = dir[s].name
<1>1. CASE Clear \/ Commit \/ Resize
  <2> DEFINE e == dir[op.slot]
  <2>1. op.slot \in Slots
    BY <1>1, TypeHere DEF Clear, Commit, Resize, OnSlot, Working, StepNames
  <2>2. e \in Entries
    BY <2>1 DEF TypeInv, TypeOK
  <2>3. PICK f, z : dir' = [dir EXCEPT ![op.slot] = [e EXCEPT !.first = f, !.size = z]]
    <3>1. CASE Clear
      BY <3>1 DEF Clear, WriteDir
    <3>2. CASE Commit
      BY <3>2 DEF Commit, WriteDir
    <3>3. CASE Resize
      <4>1. [e EXCEPT !.size = @ + Len(op.buf)] = [e EXCEPT !.first = @, !.size = @ + Len(op.buf)]
        BY <2>2 DEF Entries
      <4> QED BY <3>3, <4>1 DEF Resize, WriteDir
    <3> QED BY <1>1, <3>1, <3>2, <3>3
  <2>4. [e EXCEPT !.first = f, !.size = z].name = e.name
    BY <2>2 DEF Entries
  <2> HIDE DEF e
  <2> QED BY <2>1, <2>3, <2>4 DEF TypeInv, TypeOK, e
<1>2. CASE ~(Clear \/ Commit \/ Resize)
  <2>1. UNCHANGED dir
    BY <1>2 DEF Step, Find, CreateRefused, RenameRefused, FreeCluster, FreeDone, Choose, Fill,
       Mark, Extend, WalkToEnd, Patch, Grow, GrowRefused, GrowDone, MarkNew, Link, Refuse,
       WriteFat, WriteData, disk
  <2> QED BY <2>1
<1> QED BY <1>1, <1>2

-----------------------------------------------------------------------------
(* A step that changes no name keeps the invariant if it keeps the slot. *)
LEMMA NamesKept ==
  ASSUME NamesInv, TypeInv', harm \subseteq harm',
         \A s \in Slots : dir'[s].name = dir[s].name,
         On(op', OnSlot) => On(op, OnSlot) /\ op'.slot = op.slot
  PROVE  NamesInv'
<1>1. dir' \in [Slots -> Entries]
  BY DEF TypeInv, TypeOK
<1>2. /\ \A s \in Slots : Live(s)' <=> Live(s)
      /\ EndsLast'
      /\ UniqueNames => UniqueNames'
  BY <1>1, NamesSame DEF NamesInv
<1>3. OnLiveSlot'
  <2>1. On(op, OnSlot) => op.slot \in Slots
    BY DEF NamesInv, TypeInv, CallOK
  <2>2. ASSUME On(op', OnSlot) PROVE Live(op.slot)' /\ op'.slot = op.slot
    BY <1>2, <2>1, <2>2 DEF NamesInv, OnLiveSlot
  <2> QED BY <2>2 DEF OnLiveSlot, On, Live
<1>4. NamesStayUnique'
  BY <1>2 DEF NamesInv, NamesStayUnique
<1> QED BY <1>2, <1>3, <1>4 DEF NamesInv

(* find changes no name, and the slot it finds holds a file. *)
LEMMA NamesFind == ASSUME NamesInv, Find, TypeInv' PROVE NamesInv'
<1>1. UNCHANGED dir
  BY DEF Find, disk
<1>2. dir' \in [Slots -> Entries] /\ \A s \in Slots : dir'[s].name = dir[s].name
  BY <1>1 DEF TypeInv, TypeOK
<1>3. /\ \A s \in Slots : Live(s)' <=> Live(s)
      /\ EndsLast'
      /\ UniqueNames => UniqueNames'
  BY <1>2, NamesSame DEF NamesInv
<1>4. op' = Idle(FALSE) \/ \E s \in Slots : s \in Named(op.name) /\ (op' = Idle(TRUE) \/ op'.slot = s)
  <2>1. PICK s \in Found(op.name) :
          op' = IF s = Missing THEN Idle(FALSE)
                ELSE Advance([op EXCEPT !.slot = s, !.cluster = dir[s].first])
    BY DEF Find
  <2> DEFINE o == [op EXCEPT !.slot = s, !.cluster = dir[s].first]
  <2>2. CASE s # Missing
    <3>1. s \in Slots /\ s \in Named(op.name)
      BY <2>2, FoundSlot
    <3>2. Advance(o) = Idle(TRUE) \/ Advance(o) = [o EXCEPT !.todo = Tail(@)]
      BY DEF Advance
    <3>3. [o EXCEPT !.todo = Tail(@)].slot = s
      BY DEF NamesInv, TypeInv, CallOK, Calls
    <3> HIDE DEF o
    <3>4. op' = Advance(o)
      BY <2>1, <2>2 DEF o
    <3> QED BY <3>1, <3>2, <3>3, <3>4
  <2> QED BY <2>1, <2>2
<1>5. OnLiveSlot'
  <2>1. CASE op'.todo = <<>>
    BY <2>1 DEF OnLiveSlot, On
  <2>2. CASE \E s \in Slots : s \in Named(op.name) /\ op'.slot = s
    <3>1. op'.slot \in Slots /\ Live(op'.slot)
      BY <2>2 DEF Named
    <3> QED BY <1>1, <3>1 DEF OnLiveSlot, Live
  <2> QED BY <1>4, <2>1, <2>2, IdleOK
<1>6. NamesStayUnique'
  <2>1. harm \subseteq harm'
    BY DEF Find
  <2> QED BY <1>3, <2>1 DEF NamesInv, NamesStayUnique
<1> QED BY <1>3, <1>5, <1>6 DEF NamesInv

(* The entry goes into the first hole, so whatever hid the slots behind it still does. *)
LEMMA NamesCreate == ASSUME NamesInv, CreateEntry, TypeInv' PROVE NamesInv'
<1> DEFINE h == Minimum(Holes)
           n == op.name
<1>1. /\ At("create") /\ Missing \in Found(n) /\ Holes # {}
      /\ dir' = [dir EXCEPT ![h] = [name |-> n, first |-> 0, size |-> 0]]
      /\ Ends(Advance(op), IF Misread(n, Missing) THEN {"fault", "misread"} ELSE {})
  BY DEF CreateEntry
<1>2. /\ h \in Slots /\ h \in Holes
      /\ \A s \in Holes : h <= s
  BY <1>1, LowestHole
<1>3. dir \in [Slots -> Entries] /\ TypeInv
  BY DEF NamesInv, TypeInv, TypeOK
<1>4. n \in Names
  BY <1>1, <1>3, TypeHere DEF Working, StepNames
<1>5. n # "end" /\ n # "deleted"
  BY <1>4, NamesAssumption
<1>6. dir'[h].name = n /\ \A s \in Slots : s # h => dir'[s].name = dir[s].name
  BY <1>1, <1>2, <1>3
<1> HIDE DEF h
<1>7. \A s \in Slots : s < h => dir[s].name # "end"
  BY <1>2, SizesAssumption DEF Holes, Slots
<1>8. EndsLast'
  <2>1. ASSUME NEW s \in Slots, NEW t \in Slots, s < t, dir'[s].name = "end"
        PROVE  dir'[t].name = "end"
    <3>1. s # h /\ dir[s].name = "end"
      BY <1>5, <1>6, <2>1
    <3>2. dir[t].name = "end"
      BY <2>1, <3>1 DEF NamesInv, EndsLast
    <3>3. t # h
      BY <1>7, <2>1, <3>1
    <3> QED BY <1>6, <3>2, <3>3
  <2> QED BY <2>1 DEF EndsLast
<1>9. ASSUME NEW s \in Slots, s # h, Live(s)' PROVE Live(s)
  <2>1. dir[s].name \in Names /\ \A t \in 1..s : dir'[t].name # "end"
    BY <1>6, <1>9 DEF Live
  <2>2. \A t \in 1..s : t \in Slots
    BY SizesAssumption DEF Slots
  <2>3. ASSUME NEW t \in 1..s PROVE dir[t].name # "end"
    <3>1. CASE t # h
      BY <2>1, <2>2, <3>1, <1>6
    <3>2. CASE t = h
      <4>1. s \in Nat /\ h < s
        BY <1>9, <3>2, SizesAssumption DEF Slots
      <4>2. dir[s].name # "end"
        BY <2>1, NamesAssumption
      <4> QED BY <1>2, <3>2, <4>1, <4>2 DEF NamesInv, EndsLast
    <3> QED BY <3>1, <3>2
  <2> QED BY <2>1, <2>3 DEF Live
<1>10. OnLiveSlot'
  <2>1. /\ CallOK(Advance(op))
        /\ Advance(op) = Idle(TRUE) \/ MayFollow("create", Head(Advance(op).todo))
    <3>1. "create" \in Working /\ "create" \notin Copying
      BY DEF Working, StepNames, Copying
    <3> QED BY <1>1, <1>3, <3>1, TypeHere, AdvanceOK
  <2>2. ~On(Advance(op), OnSlot) /\ ~On(Idle(FALSE), OnSlot)
    BY <2>1, IdleOK DEF On, MayFollow, OnSlot
  <2> QED BY <1>1, <2>2 DEF Ends, OnLiveSlot
<1>11. NamesStayUnique'
  <2>1. SUFFICES ASSUME "misread" \notin harm' PROVE UniqueNames'
    BY DEF NamesStayUnique
  <2>2. Named(n) = {}
    BY <1>1, <2>1 DEF Ends, Misread
  <2>3. UniqueNames
    <3>1. harm \subseteq harm'
      BY <1>1 DEF Ends
    <3> QED BY <2>1, <3>1 DEF NamesInv, NamesStayUnique
  <2>4. ASSUME NEW m \in Names, NEW s \in Named(m)', s # h PROVE s \in Named(m)
    BY <1>6, <1>9, <2>4 DEF Named
  <2>5. ASSUME NEW m \in Names, h \in Named(m)' PROVE m = n
    BY <1>6, <2>5 DEF Named
  <2>6. ASSUME NEW m \in Names, NEW s \in Slots, NEW t \in Slots, {s, t} \subseteq Named(m)'
        PROVE  s = t
    <3>1. CASE s # h /\ t # h
      BY <2>3, <2>4, <2>6, <3>1 DEF UniqueNames
    <3>2. CASE s = h \/ t = h
      BY <2>2, <2>4, <2>5, <2>6, <3>2
    <3> QED BY <3>1, <3>2
  <2> QED BY <2>6 DEF UniqueNames
<1> QED BY <1>8, <1>10, <1>11 DEF NamesInv

(* The new name was looked up in the step that writes it. *)
LEMMA NamesRename == ASSUME NamesInv, RenameEntry, TypeInv' PROVE NamesInv'
<1> DEFINE h == op.slot
           n == op.new
<1>1. /\ At("rename") /\ Missing \in Found(n)
      /\ dir' = [dir EXCEPT ![h].name = n]
      /\ Ends(Advance(op), IF Misread(n, Missing) THEN {"fault", "misread"} ELSE {})
  BY DEF RenameEntry
<1>2. TypeInv /\ dir \in [Slots -> Entries]
  BY DEF NamesInv, TypeInv, TypeOK
<1>3. h \in Slots /\ n \in Names /\ n # "end"
  BY <1>1, <1>2, TypeHere, NamesAssumption DEF Working, OnSlot, StepNames
<1>4. Live(h)
  BY <1>1 DEF NamesInv, OnLiveSlot, On, At, OnSlot, Working, StepNames
<1>5. dir'[h].name = n /\ \A s \in Slots : s # h => dir'[s].name = dir[s].name
  BY <1>1, <1>2, <1>3 DEF Entries
<1> HIDE DEF h, n
<1>6. dir[h].name # "end"
  BY <1>4, NamesAssumption DEF Live
<1>7. \A s \in Slots : dir'[s].name = "end" <=> dir[s].name = "end"
  BY <1>3, <1>5, <1>6
<1>8. EndsLast'
  BY <1>7 DEF NamesInv, EndsLast
<1>9. ASSUME NEW s \in Slots PROVE Live(s)' <=> Live(s)
  <2>1. \A t \in 1..s : t \in Slots
    BY SizesAssumption DEF Slots
  <2>2. CASE s = h
    BY <1>3, <1>4, <1>5, <1>7, <2>1, <2>2 DEF Live
  <2>3. CASE s # h
    BY <1>5, <1>7, <2>1, <2>3 DEF Live
  <2> QED BY <2>2, <2>3
<1>10. OnLiveSlot'
  <2>1. Advance(op) = Idle(TRUE)
    <3>1. Advance(op) = Idle(TRUE) \/ MayFollow("rename", Head(Advance(op).todo))
      <4>1. "rename" \in Working /\ "rename" \in OnSlot /\ "rename" \notin Copying
        BY DEF Working, OnSlot, StepNames, Copying
      <4> QED BY <1>1, <1>2, <4>1, TypeHere, AdvanceOK
    <3> QED BY <3>1 DEF MayFollow
  <2> QED BY <1>1, <2>1, IdleOK DEF Ends, OnLiveSlot, On
<1>11. NamesStayUnique'
  <2>1. SUFFICES ASSUME "misread" \notin harm' PROVE UniqueNames'
    BY DEF NamesStayUnique
  <2>2. Named(n) = {}
    BY <1>1, <2>1 DEF Ends, Misread
  <2>3. UniqueNames
    <3>1. harm \subseteq harm'
      BY <1>1 DEF Ends
    <3> QED BY <2>1, <3>1 DEF NamesInv, NamesStayUnique
  <2>4. ASSUME NEW m \in Names, NEW s \in Named(m)', s # h PROVE s \in Named(m)
    BY <1>5, <1>9, <2>4 DEF Named
  <2>5. ASSUME NEW m \in Names, h \in Named(m)' PROVE m = n
    BY <1>5, <2>5 DEF Named
  <2>6. ASSUME NEW m \in Names, NEW s \in Slots, NEW t \in Slots, {s, t} \subseteq Named(m)'
        PROVE  s = t
    <3>1. CASE s # h /\ t # h
      BY <2>3, <2>4, <2>6, <3>1 DEF UniqueNames
    <3>2. CASE s = h \/ t = h
      BY <2>2, <2>4, <2>5, <2>6, <3>2
    <3> QED BY <3>1, <3>2
  <2> QED BY <2>6 DEF UniqueNames
<1> QED BY <1>8, <1>10, <1>11 DEF NamesInv

(* An erased entry hides nothing and shows nothing. *)
LEMMA NamesErase == ASSUME NamesInv, Erase, TypeInv' PROVE NamesInv'
<1> DEFINE h == op.slot
<1>1. /\ At("erase") /\ Ends(Advance(op), {})
      /\ dir' = [dir EXCEPT ![h] = [name |-> "deleted", first |-> 0, size |-> 0]]
  BY DEF Erase, WriteDir
<1>2. TypeInv /\ dir \in [Slots -> Entries]
  BY DEF NamesInv, TypeInv, TypeOK
<1>3. h \in Slots
  BY <1>1, <1>2, TypeHere DEF Working, OnSlot, StepNames
<1>4. Live(h)
  BY <1>1 DEF NamesInv, OnLiveSlot, On, At, OnSlot, Working, StepNames
<1>5. dir'[h].name = "deleted" /\ \A s \in Slots : s # h => dir'[s].name = dir[s].name
  BY <1>1, <1>2, <1>3
<1> HIDE DEF h
<1>6. dir[h].name # "end"
  BY <1>4, NamesAssumption DEF Live
<1>7. \A s \in Slots : dir'[s].name = "end" <=> dir[s].name = "end"
  BY <1>3, <1>5, <1>6
<1>8. EndsLast'
  BY <1>7 DEF NamesInv, EndsLast
<1>9. ASSUME NEW s \in Slots, Live(s)' PROVE s # h /\ Live(s)
  <2>1. \A t \in 1..s : t \in Slots
    BY SizesAssumption DEF Slots
  <2>2. s # h
    BY <1>5, <1>9, NamesAssumption DEF Live
  <2> QED BY <1>5, <1>7, <1>9, <2>1, <2>2 DEF Live
<1>10. OnLiveSlot'
  <2>1. Advance(op) = Idle(TRUE)
    <3>1. Advance(op) = Idle(TRUE) \/ MayFollow("erase", Head(Advance(op).todo))
      <4>1. "erase" \in Working /\ "erase" \in OnSlot /\ "erase" \notin Copying
        BY DEF Working, OnSlot, StepNames, Copying
      <4> QED BY <1>1, <1>2, <4>1, TypeHere, AdvanceOK
    <3> QED BY <3>1 DEF MayFollow
  <2> QED BY <1>1, <2>1, IdleOK DEF Ends, OnLiveSlot, On
<1>11. NamesStayUnique'
  <2>1. harm \subseteq harm'
    BY <1>1 DEF Ends
  <2>2. \A m \in Names : Named(m)' \subseteq Named(m)
    BY <1>5, <1>9 DEF Named
  <2>3. UniqueNames => UniqueNames'
    BY <2>2 DEF UniqueNames
  <2> QED BY <2>1, <2>3 DEF NamesInv, NamesStayUnique
<1> QED BY <1>8, <1>10, <1>11 DEF NamesInv

(* The empty directory has the invariant, and every step keeps it. *)
LEMMA NamesInit == Init => NamesInv
<1> SUFFICES ASSUME Init PROVE NamesInv
  OBVIOUS
<1>1. EndsLast /\ \A s \in Slots : ~Live(s)
  BY NamesAssumption DEF Init, EndsLast, Live
<1>2. OnLiveSlot
  BY IdleOK DEF Init, OnLiveSlot, On
<1> QED BY <1>1, <1>2, TypeInit DEF NamesInv, NamesStayUnique, UniqueNames, Named

LEMMA NamesNext == NamesInv /\ [Next]_vars => NamesInv'
<1> SUFFICES ASSUME NamesInv, [Next]_vars PROVE NamesInv'
  OBVIOUS
<1>1. TypeInv /\ TypeInv'
  BY TypeNext DEF NamesInv
<1>2. CASE Request
  <2>1. ~On(op', OnSlot) /\ UNCHANGED dir
    BY <1>1, <1>2, TypeRequest DEF disk
  <2> QED BY <1>1, <1>2, <2>1, HarmGrows, NamesKept DEF Next
<1>3. CASE Find
  BY <1>1, <1>3, NamesFind
<1>4. CASE CreateEntry
  BY <1>1, <1>4, NamesCreate
<1>5. CASE RenameEntry
  BY <1>1, <1>5, NamesRename
<1>6. CASE Erase
  BY <1>1, <1>6, NamesErase
<1>7. CASE Step /\ ~Find /\ ~CreateEntry /\ ~RenameEntry /\ ~Erase
  BY <1>1, <1>7, SlotKept, NameKept, HarmGrows, NamesKept DEF Next
<1>8. CASE AccessFails \/ PowerOff \/ Boot
  <2>1. UNCHANGED dir
    BY <1>8 DEF AccessFails, PowerOff, Boot, Refuse, disk
  <2>2. ~On(op', OnSlot)
    <3>1. op' = Idle(FALSE) \/ op' = [Idle(FALSE) EXCEPT !.todo = <<"off">>]
      BY <1>8 DEF AccessFails, PowerOff, Boot, Refuse, Off
    <3> QED BY <3>1, IdleOK, StoppedOK DEF On, OnSlot, Working
  <2> QED BY <1>1, <1>8, <2>1, <2>2, HarmGrows, NamesKept DEF Next
<1>9. CASE UNCHANGED vars
  <2>1. UNCHANGED <<dir, op, harm>>
    BY <1>9 DEF vars
  <2> QED BY <1>1, <2>1, NamesKept
<1> QED BY <1>2, <1>3, <1>4, <1>5, <1>6, <1>7, <1>8, <1>9 DEF Next

(* No sequence of creates, renames, deletes and writes, cut short anywhere, puts a *)
(* name into the directory twice, unless a failed read of the directory has hidden *)
(* the first one (fs_create and fs_rename look the name up before they write).     *)
THEOREM NamesUniqueForever == Spec => []NamesStayUnique
<1>1. NamesInv => NamesStayUnique
  BY DEF NamesInv
<1> QED BY <1>1, NamesInit, NamesNext, PTL DEF Spec

-----------------------------------------------------------------------------
(***************************************************************************)
(* Proofs about the clusters of files: no two files share one, every file  *)
(* can be read to its full size at any moment, and no cluster is lost      *)
(* while nothing fails.                                                    *)
(***************************************************************************)
-----------------------------------------------------------------------------
(***************************************************************************)
(* Proof that no two files share a cluster, for every disk and every       *)
(* pattern of failures, until a truncate or a delete is cut between        *)
(* freeing the chain and writing the directory entry.                      *)
(*                                                                         *)
(* Files are not followed along their chains: what is shown is that        *)
(* whatever refers to a cluster, a directory entry or the cluster before   *)
(* it, is alone in doing so (Apart).  That needs two more facts.  A free   *)
(* cluster is referred to by nothing (LinksTaken, EntriesTaken), or an     *)
(* allocation would hand out a cluster in use; the file that is just being *)
(* freed is the exception.  And a call knows what it holds (Owns): the     *)
(* cluster it frees next belongs to its own file only, the one it fills is *)
(* its own and is marked before it is committed, the one it links was      *)
(* nobody's and is marked before it is linked.  The order of the writes in *)
(* fat32.c is what keeps these true between any two of them.               *)
(***************************************************************************)

(* The entries and the clusters that refer to a cluster, and to which. *)
DirRef(s) == s \in Slots /\ Live(s) /\ dir[s].first # 0
FatRef(c) == c \in Files /\ fat[1][c] \in Files

(* Whatever refers to a cluster is alone in doing so. *)
Apart ==
  /\ \A s, t \in Slots : DirRef(s) /\ DirRef(t) /\ dir[s].first = dir[t].first => s = t
  /\ \A c, d \in Files : FatRef(c) /\ FatRef(d) /\ fat[1][c] = fat[1][d] => c = d
  /\ \A s \in Slots, c \in Files : DirRef(s) /\ FatRef(c) => dir[s].first # fat[1][c]

(* The root directory is not free, and links stay among the data clusters. *)
Sane ==
  /\ fat[1][Root] # Free
  /\ \A s \in Slots : dir[s].first \in {0} \cup Files
  /\ \A c \in Files : fat[1][c] \in {Free, EOC} \cup Files

(* Only the file that is being freed refers to a free cluster. *)
Freeing == {"free", "clear", "erase"}
BeingFreed(s) == On(op, Freeing) /\ s = op.slot
LinksTaken   == \A c \in Files : FatRef(c) => fat[1][fat[1][c]] # Free
EntriesTaken == \A s \in Slots : DirRef(s) /\ ~BeingFreed(s) => fat[1][dir[s].first] # Free

(* At most the running call's own entry refers to a cluster; nothing does. *)
OnlyOwn(c) == /\ \A s \in Slots : DirRef(s) /\ dir[s].first = c => s = op.slot
              /\ \A d \in Files : FatRef(d) => fat[1][d] # c
NoOne(c) == /\ \A s \in Slots : DirRef(s) => dir[s].first # c
            /\ \A d \in Files : FatRef(d) => fat[1][d] # c

(* What the running call may rely on. *)
ToFree == IF op.copy = 1 THEN op.cluster ELSE op.next
Freeable == On(op, {"free"}) => ToFree \in {0, EOC} \cup Files /\ OnlyOwn(ToFree)
Writable == On(op, {"fill", "mark", "commit"}) => op.cluster \in Files /\ OnlyOwn(op.cluster)
InUse == \/ On(op, {"commit"})
         \/ On(op, {"fill"}) /\ Tail(op.todo) # <<>> /\ Head(Tail(op.todo)) = "commit"
         \/ On(op, {"mark"}) /\ op.copy # 1
Marked == InUse => fat[1][op.cluster] # Free
Linkable == On(op, {"mark_new", "link"}) =>
              /\ op.next \in Files
              /\ On(op, {"mark_new"}) \/ op.copy = 1 => NoOne(op.next)
              /\ On(op, {"link"}) \/ op.copy # 1 => fat[1][op.next] # Free
Owns == Freeable /\ Writable /\ Marked /\ Linkable

Owners == Apart /\ Sane /\ LinksTaken /\ EntriesTaken /\ Owns

(* All of it holds until a free of a chain is cut short. *)
OwnersInv == NamesInv /\ ("cut" \notin harm => Owners)

(* The steps that rely on something about a cluster. *)
Holding == {"free", "fill", "mark", "commit", "mark_new", "link"}

LEMMA HoldsNothing == ASSUME ~On(op', Holding) PROVE Owns'
<1>1. \A steps \in SUBSET Holding : ~On(op', steps)
  BY DEF On
<1>2. /\ {"free"} \in SUBSET Holding /\ {"fill", "mark", "commit"} \in SUBSET Holding
      /\ {"commit"} \in SUBSET Holding /\ {"fill"} \in SUBSET Holding
      /\ {"mark"} \in SUBSET Holding /\ {"mark_new", "link"} \in SUBSET Holding
  BY DEF Holding
<1> QED BY <1>1, <1>2 DEF Owns, Freeable, Writable, InUse, Marked, Linkable

LEMMA IdleHoldsNothing == ASSUME op'.todo = <<>> PROVE Owns'
BY HoldsNothing DEF On

(* A write that leaves no new reference and no newly freed cluster. *)
Fewer == /\ \A s \in Slots : DirRef(s)' => DirRef(s) /\ dir'[s].first = dir[s].first
         /\ \A c \in Files : FatRef(c)' => FatRef(c) /\ fat'[1][c] = fat[1][c]
NothingFreed == \A c \in Files : fat'[1][c] = Free => fat[1][c] = Free

(* Where there are fewer references there are no new clashes, and no free cluster *)
(* is referred to if none was freed.                                              *)
LEMMA FewerApart ==
  ASSUME Apart, Fewer
  PROVE  /\ Apart'
         /\ \A c : NoOne(c) => NoOne(c)'
         /\ \A c : OnlyOwn(c) /\ op'.slot = op.slot => OnlyOwn(c)'
<1>1. Apart'
  BY DEF Apart, Fewer
<1>2. \A c : NoOne(c) => NoOne(c)'
  BY DEF NoOne, Fewer
<1>3. \A c : OnlyOwn(c) /\ op'.slot = op.slot => OnlyOwn(c)'
  BY DEF OnlyOwn, Fewer
<1> QED BY <1>1, <1>2, <1>3

LEMMA FewerLinks == ASSUME Fewer, NothingFreed, LinksTaken PROVE LinksTaken'
BY DEF Fewer, NothingFreed, LinksTaken, FatRef

LEMMA FewerEntries ==
  ASSUME Fewer, NothingFreed, Sane, EntriesTaken,
         \A s \in Slots : DirRef(s)' /\ BeingFreed(s) => BeingFreed(s)'
  PROVE  EntriesTaken'
<1> SUFFICES ASSUME NEW s \in Slots, DirRef(s)', ~BeingFreed(s)'
             PROVE  fat'[1][dir'[s].first] # Free
  BY DEF EntriesTaken
<1>1. DirRef(s) /\ dir'[s].first = dir[s].first /\ ~BeingFreed(s)
  BY DEF Fewer
<1>2. dir[s].first \in Files /\ fat[1][dir[s].first] # Free
  BY <1>1 DEF EntriesTaken, Sane, DirRef
<1> QED BY <1>1, <1>2 DEF NothingFreed

(* Nothing is written to the directory or to the first copy of the FAT. *)
LEMMA SameTables ==
  ASSUME Owners, fat'[1] = fat[1], dir' = dir
  PROVE  Fewer /\ NothingFreed /\ Apart' /\ Sane' /\ LinksTaken'
<1>1. Fewer
  BY DEF Fewer, DirRef, FatRef, Live
<1>2. NothingFreed
  BY DEF NothingFreed
<1>3. Sane'
  BY DEF Owners, Sane
<1> QED BY <1>1, <1>2, <1>3, FewerApart, FewerLinks DEF Owners

LEMMA OwnersSame ==
  ASSUME Owners, fat'[1] = fat[1], dir' = dir, Owns',
         On(op, Freeing) => On(op', Freeing) /\ op'.slot = op.slot
  PROVE  Owners'
<1>1. Fewer /\ NothingFreed /\ Apart' /\ Sane' /\ LinksTaken'
  BY SameTables
<1>2. EntriesTaken'
  BY <1>1, FewerEntries DEF Owners, BeingFreed
<1> QED BY <1>1, <1>2 DEF Owners

-----------------------------------------------------------------------------
(* The call after a step, with the first copy of the FAT next. *)
NextCall == [Advance(op) EXCEPT !.copy = 1]

LEMMA NextStep ==
  ASSUME TypeInv, NEW a \in Working, At(a)
  PROVE  /\ \/ NextCall = Idle(TRUE) /\ a \in MayEnd
            \/ /\ NextCall.todo = Tail(op.todo) /\ NextCall.todo # <<>>
               /\ MayFollow(a, Head(NextCall.todo))
               /\ NextCall.slot = op.slot /\ NextCall.cluster = op.cluster
               /\ NextCall.next = op.next /\ NextCall.copy = 1
         /\ a \notin Copying => Advance(op) = NextCall
<1>1. /\ op \in Calls /\ op.todo # <<>> /\ Head(op.todo) = a /\ Ordered(op.todo)
      /\ a \notin Copying => op.copy = 1
  BY TypeHere
<1>2. /\ Len(op.todo) = 1 => a \in MayEnd
      /\ Len(op.todo) # 1 => Tail(op.todo) # <<>> /\ MayFollow(a, Head(Tail(op.todo)))
  BY <1>1, OrderedTail
<1>3. CASE Len(op.todo) = 1
  <2>1. Advance(op) = Idle(TRUE)
    BY <1>3 DEF Advance
  <2>2. [Idle(TRUE) EXCEPT !.copy = 1] = Idle(TRUE)
    BY DEF Idle
  <2> QED BY <1>2, <1>3, <2>1, <2>2 DEF NextCall
<1>4. CASE Len(op.todo) # 1
  <2> DEFINE p == [[op EXCEPT !.todo = Tail(@)] EXCEPT !.copy = 1]
  <2>1. NextCall = p /\ Advance(op) = [op EXCEPT !.todo = Tail(@)]
    BY <1>4 DEF NextCall, Advance
  <2>2. /\ p.todo = Tail(op.todo) /\ p.slot = op.slot /\ p.cluster = op.cluster
        /\ p.next = op.next /\ p.copy = 1
    BY <1>1 DEF Calls
  <2>3. op.copy = 1 => p = [op EXCEPT !.todo = Tail(@)]
    BY <1>1 DEF Calls
  <2> HIDE DEF p
  <2> QED BY <1>1, <1>2, <1>4, <2>1, <2>2, <2>3
<1> QED BY <1>3, <1>4

(* What one copy of the FAT after the other means for the first one. *)
LEMMA FatStep ==
  ASSUME TypeInv, NEW c \in Clusters, NEW v, NEW between, NEW after, WriteFat(c, v, between, after)
  PROVE  /\ dir' = dir
         /\ \A d \in Clusters : fat'[1][d] = IF op.copy = 1 /\ d = c THEN v ELSE fat[1][d]
         /\ \/ op'.todo = <<>> /\ ("cut" \notin harm' => \A s \in Slots : ~Dangling(s)')
            \/ op.copy < FatCount /\ op' = [between EXCEPT !.copy = @ + 1]
            \/ op' = [after EXCEPT !.copy = 1]
<1>1. /\ fat' = [fat EXCEPT ![op.copy][c] = v] /\ UNCHANGED <<dir, data>>
      /\ Ends(IF op.copy < FatCount THEN [between EXCEPT !.copy = @ + 1]
                                    ELSE [after EXCEPT !.copy = 1], {})
  BY DEF WriteFat
<1>2. fat \in [1..FatCount -> [Clusters -> 0..EOC]] /\ op.copy \in 1..FatCount /\ 1 \in 1..FatCount
  BY SizesAssumption DEF TypeInv, TypeOK, CallOK, Calls
<1>3. ASSUME NEW d \in Clusters
      PROVE  fat'[1][d] = IF op.copy = 1 /\ d = c THEN v ELSE fat[1][d]
  BY <1>1, <1>2
<1> DEFINE o == IF op.copy < FatCount THEN [between EXCEPT !.copy = @ + 1]
                                      ELSE [after EXCEPT !.copy = 1]
<1>4. o = [after EXCEPT !.copy = 1] \/ (op.copy < FatCount /\ o = [between EXCEPT !.copy = @ + 1])
  OBVIOUS
<1>5. Ends(o, {})
  BY <1>1
<1> HIDE DEF o
<1>6. op' = o \/ (op'.todo = <<>> /\ ("cut" \notin harm' => \A s \in Slots : ~Dangling(s)'))
  BY <1>5, IdleOK DEF Ends, CutShort
<1> QED BY <1>1, <1>3, <1>4, <1>6

(* The root directory is not among the data clusters; zero and the chain end are no *)
(* cluster numbers of files.                                                        *)
LEMMA Sizes == Files \subseteq Clusters /\ Root \notin Files /\ 0 \notin Files /\ EOC \notin Files
               /\ Root \in Clusters /\ Files = (Root..LastCluster) \ {Root} /\ EOC # Free
BY SizesAssumption DEF Files, Clusters, Root, EOC, Free

-----------------------------------------------------------------------------
(* A chain end is written over a cluster that is held. *)
LEMMA MarkTables ==
  ASSUME TypeInv, Owners, NEW c \in Files, dir' = dir, ~On(op, Freeing),
         \A d \in Clusters : fat'[1][d] = IF op.copy = 1 /\ d = c THEN EOC ELSE fat[1][d]
  PROVE  Fewer /\ Apart' /\ Sane' /\ LinksTaken' /\ EntriesTaken'
<1>1. Fewer
  BY Sizes DEF Fewer, DirRef, FatRef, Live
<1>2. NothingFreed
  BY Sizes DEF NothingFreed
<1>3. Sane'
  BY Sizes DEF Owners, Sane
<1> QED BY <1>1, <1>2, <1>3, FewerApart, FewerLinks, FewerEntries DEF Owners, BeingFreed

(* mark goes on to commit, mark_new to link; each leaves the cluster marked. *)
LEMMA OwnersMark == ASSUME TypeInv, Owners, Mark PROVE Owners'
<1>1. /\ At("mark") /\ "mark" \in Working /\ op.todo # <<>> /\ Head(op.todo) = "mark"
      /\ op \in Calls
  BY TypeHere DEF Mark, Working, StepNames, At
<1>2. On(op, {"fill", "mark", "commit"}) /\ ~On(op, Freeing)
  BY <1>1 DEF On, Freeing
<1>3. op.cluster \in Files /\ OnlyOwn(op.cluster)
  BY <1>2 DEF Owners, Owns, Writable
<1>4. /\ dir' = dir
      /\ \A d \in Clusters : fat'[1][d] = IF op.copy = 1 /\ d = op.cluster THEN EOC ELSE fat[1][d]
      /\ \/ op'.todo = <<>>
         \/ op.copy < FatCount /\ op' = [op EXCEPT !.copy = @ + 1]
         \/ op' = NextCall
  BY <1>3, FatStep, Sizes DEF Mark, NextCall
<1>5. Fewer /\ Apart' /\ Sane' /\ LinksTaken' /\ EntriesTaken'
  BY <1>2, <1>3, <1>4, MarkTables
<1>6. fat'[1][op.cluster] # Free
  <2>1. CASE op.copy = 1
    BY <1>3, <1>4, <2>1, Sizes
  <2>2. CASE op.copy # 1
    <3>1. InUse
      BY <1>1, <2>2 DEF InUse, On
    <3> QED BY <1>3, <1>4, <2>2, <3>1, Sizes DEF Owners, Owns, Marked
  <2> QED BY <2>1, <2>2
<1>7. ASSUME op'.slot = op.slot, op'.cluster = op.cluster, op'.todo # <<>>,
             Head(op'.todo) \in {"mark", "commit"}
      PROVE  Owns'
  <2>1. OnlyOwn(op.cluster)'
    BY <1>3, <1>5, <1>7, FewerApart DEF Owners
  <2>2. Writable'
    BY <1>3, <1>7, <2>1 DEF Writable, OnlyOwn
  <2>3. Marked'
    BY <1>6, <1>7 DEF Marked
  <2>4. Freeable' /\ Linkable'
    BY <1>7 DEF Freeable, Linkable, On
  <2> QED BY <2>2, <2>3, <2>4 DEF Owns
<1>8. Owns'
  <2>1. CASE op'.todo = <<>>
    BY <2>1, IdleHoldsNothing
  <2>2. CASE op.copy < FatCount /\ op' = [op EXCEPT !.copy = @ + 1]
    <3>1. op'.slot = op.slot /\ op'.cluster = op.cluster /\ op'.todo = op.todo
      BY <1>1, <2>2 DEF Calls
    <3> QED BY <1>1, <1>7, <3>1
  <2>3. CASE op' = NextCall
    <3>1. CASE NextCall = Idle(TRUE)
      BY <2>3, <3>1, IdleOK, IdleHoldsNothing
    <3>2. CASE NextCall # Idle(TRUE)
      <4>1. op'.todo # <<>> /\ Head(op'.todo) = "commit" /\ op'.slot = op.slot /\ op'.cluster = op.cluster
        BY <1>1, <2>3, <3>2, NextStep DEF MayFollow
      <4> QED BY <1>7, <4>1
    <3> QED BY <3>1, <3>2
  <2> QED BY <1>4, <2>1, <2>2, <2>3
<1> QED BY <1>5, <1>8 DEF Owners

LEMMA OwnersMarkNew == ASSUME TypeInv, Owners, MarkNew PROVE Owners'
<1>1. /\ At("mark_new") /\ "mark_new" \in Working /\ op.todo # <<>> /\ Head(op.todo) = "mark_new"
      /\ op \in Calls
  BY TypeHere DEF MarkNew, Working, StepNames, At
<1>2. On(op, {"mark_new"}) /\ On(op, {"mark_new", "link"}) /\ ~On(op, {"link"}) /\ ~On(op, Freeing)
  BY <1>1 DEF On, Freeing
<1>3. op.next \in Files /\ NoOne(op.next) /\ (op.copy # 1 => fat[1][op.next] # Free)
  BY <1>2 DEF Owners, Owns, Linkable
<1>4. /\ dir' = dir
      /\ \A d \in Clusters : fat'[1][d] = IF op.copy = 1 /\ d = op.next THEN EOC ELSE fat[1][d]
      /\ \/ op'.todo = <<>>
         \/ op.copy < FatCount /\ op' = [op EXCEPT !.copy = @ + 1]
         \/ op' = NextCall
  BY <1>3, FatStep, Sizes DEF MarkNew, NextCall
<1>5. Fewer /\ Apart' /\ Sane' /\ LinksTaken' /\ EntriesTaken'
  BY <1>2, <1>3, <1>4, MarkTables
<1>6. fat'[1][op.next] # Free
  BY <1>3, <1>4, Sizes
<1>7. ASSUME op'.next = op.next, op'.todo # <<>>, Head(op'.todo) \in {"mark_new", "link"}
      PROVE  Owns'
  <2>1. NoOne(op.next)'
    BY <1>3, <1>5, <1>7, FewerApart DEF Owners, NoOne
  <2>2. Linkable'
    BY <1>3, <1>6, <1>7, <2>1 DEF Linkable, NoOne
  <2>3. Freeable' /\ Writable' /\ Marked'
    BY <1>7 DEF Freeable, Writable, Marked, InUse, On
  <2> QED BY <2>2, <2>3 DEF Owns
<1>8. Owns'
  <2>1. CASE op'.todo = <<>>
    BY <2>1, IdleHoldsNothing
  <2>2. CASE op.copy < FatCount /\ op' = [op EXCEPT !.copy = @ + 1]
    <3>1. op'.next = op.next /\ op'.todo = op.todo
      BY <1>1, <2>2 DEF Calls
    <3> QED BY <1>1, <1>7, <3>1
  <2>3. CASE op' = NextCall
    <3>1. CASE NextCall = Idle(TRUE)
      BY <2>3, <3>1, IdleOK, IdleHoldsNothing
    <3>2. CASE NextCall # Idle(TRUE)
      <4>1. op'.todo # <<>> /\ Head(op'.todo) = "link" /\ op'.next = op.next
        BY <1>1, <2>3, <3>2, NextStep DEF MayFollow
      <4> QED BY <1>7, <4>1
    <3> QED BY <3>1, <3>2
  <2> QED BY <1>4, <2>1, <2>2, <2>3
<1> QED BY <1>5, <1>8 DEF Owners

(* The new cluster is referred to by the one the file ended in, and by nothing else. *)
LEMMA OwnersLink == ASSUME TypeInv, Owners, Link PROVE Owners'
<1> DEFINE d == Smaller(op.done + ClusterSize, Len(op.buf))
           after == [Advance(op) EXCEPT !.cluster = op.next, !.next = 0,
                                        !.done = Smaller(@ + ClusterSize, Len(op.buf))]
           n == op.next
<1>1. /\ At("link") /\ "link" \in Working /\ op.todo # <<>> /\ Head(op.todo) = "link"
      /\ op \in Calls /\ Ordered(op.todo)
  BY TypeHere DEF Link, Working, StepNames, At
<1>2. On(op, {"link"}) /\ On(op, {"mark_new", "link"}) /\ ~On(op, {"mark_new"}) /\ ~On(op, Freeing)
  BY <1>1 DEF On, Freeing
<1>3. n \in Files /\ (op.copy = 1 => NoOne(n)) /\ fat[1][n] # Free
  BY <1>2 DEF Owners, Owns, Linkable
<1>4. /\ dir' = dir
      /\ op.cluster \in Clusters =>
           \A c \in Clusters : fat'[1][c] = IF op.copy = 1 /\ c = op.cluster THEN n ELSE fat[1][c]
      /\ op.cluster \notin Clusters => fat' = fat
      /\ \/ op'.todo = <<>>
         \/ op' = [op EXCEPT !.copy = @ + 1]
         \/ op' = [after EXCEPT !.copy = 1]
  <2>1. WriteFat(op.cluster, n, op, after)
    BY DEF Link
  <2> HIDE DEF after
  <2>2. CASE op.cluster \in Clusters
    BY <2>1, <2>2, FatStep
  <2>3. CASE op.cluster \notin Clusters
    <3> DEFINE o == IF op.copy < FatCount THEN [op EXCEPT !.copy = @ + 1]
                                          ELSE [after EXCEPT !.copy = 1]
    <3>1. /\ fat' = [fat EXCEPT ![op.copy][op.cluster] = n] /\ UNCHANGED <<dir, data>>
          /\ Ends(o, {})
      BY <2>1 DEF WriteFat
    <3>2. fat \in [1..FatCount -> [Clusters -> 0..EOC]] /\ op.copy \in 1..FatCount
      BY <1>1 DEF TypeInv, TypeOK, Calls
    <3>3. fat' = fat
      <4>1. [fat[op.copy] EXCEPT ![op.cluster] = n] = fat[op.copy]
        BY <2>3, <3>2
      <4> QED BY <3>1, <3>2, <4>1
    <3>4. o = [op EXCEPT !.copy = @ + 1] \/ o = [after EXCEPT !.copy = 1]
      OBVIOUS
    <3> HIDE DEF o
    <3>5. op' = o \/ op'.todo = <<>>
      BY <3>1, IdleOK DEF Ends
    <3> QED BY <2>3, <3>1, <3>3, <3>4, <3>5
  <2> QED BY <2>2, <2>3
<1> HIDE DEF after
<1>5. \A c \in Files : fat'[1][c] = IF op.copy = 1 /\ c = op.cluster THEN n ELSE fat[1][c]
  BY <1>4, Sizes
<1>6. \A s \in Slots : (DirRef(s)' <=> DirRef(s)) /\ dir'[s].first = dir[s].first
  BY <1>4 DEF DirRef, Live
<1>7. \A c \in Files : FatRef(c)' => \/ FatRef(c) /\ fat'[1][c] = fat[1][c]
                                     \/ op.copy = 1 /\ c = op.cluster /\ fat'[1][c] = n
  BY <1>5 DEF FatRef
<1> HIDE DEF n
<1>8. Apart'
  <2>1. \A s, t \in Slots : DirRef(s)' /\ DirRef(t)' /\ dir'[s].first = dir'[t].first => s = t
    BY <1>6 DEF Owners, Apart
  <2>2. \A c, e \in Files : FatRef(c)' /\ FatRef(e)' /\ fat'[1][c] = fat'[1][e] => c = e
    BY <1>3, <1>7 DEF Owners, Apart, NoOne
  <2>3. \A s \in Slots, c \in Files : DirRef(s)' /\ FatRef(c)' => dir'[s].first # fat'[1][c]
    BY <1>3, <1>6, <1>7 DEF Owners, Apart, NoOne
  <2> QED BY <2>1, <2>2, <2>3 DEF Apart
<1>9. NothingFreed
  BY <1>3, <1>5, Sizes DEF NothingFreed, Free
<1>10. Sane'
  <2>1. fat'[1][Root] # Free
    BY <1>3, <1>4, Sizes DEF Owners, Sane, Free
  <2> QED BY <1>3, <1>4, <1>5, <2>1 DEF Owners, Sane
<1>11. LinksTaken'
  BY <1>3, <1>7, <1>9 DEF Owners, LinksTaken, NothingFreed, FatRef
<1>12. EntriesTaken'
  <2>1. ASSUME NEW s \in Slots, DirRef(s) PROVE dir[s].first \in Files /\ fat[1][dir[s].first] # Free
    BY <1>2, <2>1 DEF Owners, EntriesTaken, BeingFreed, Sane, DirRef
  <2> QED BY <1>6, <1>9, <2>1 DEF EntriesTaken, NothingFreed
<1>13. Owns'
  <2>1. CASE op'.todo = <<>>
    BY <2>1, IdleHoldsNothing
  <2>2. CASE op' = [op EXCEPT !.copy = @ + 1]
    <3>1. op'.next = n /\ op'.todo = op.todo /\ op'.copy # 1
      BY <1>1, <2>2 DEF Calls, n
    <3>2. fat'[1][n] # Free
      BY <1>3, <1>9 DEF NothingFreed
    <3>3. Linkable'
      BY <1>1, <1>3, <3>1, <3>2 DEF Linkable, On
    <3>4. Freeable' /\ Writable' /\ Marked'
      BY <1>1, <3>1 DEF Freeable, Writable, Marked, InUse, On
    <3> QED BY <3>3, <3>4 DEF Owns
  <2>3. CASE op' = [after EXCEPT !.copy = 1]
    <3>1. Len(op.todo) # 1 /\ Tail(op.todo) # <<>> /\ Head(Tail(op.todo)) = "grow"
      BY <1>1, OrderedTail DEF MayEnd, MayFollow
    <3>2. Advance(op) = [op EXCEPT !.todo = Tail(@)]
      BY <3>1 DEF Advance
    <3>3. op'.todo = Tail(op.todo)
      BY <1>1, <2>3, <3>2 DEF after, Calls
    <3>4. ~On(op', Holding)
      BY <3>1, <3>3 DEF On, Holding
    <3> QED BY <3>4, HoldsNothing
  <2> QED BY <1>4, <2>1, <2>2, <2>3
<1> QED BY <1>8, <1>10, <1>11, <1>12, <1>13 DEF Owners

(* The freed cluster is referred to by the file that is being freed only, and now      *)
(* nothing but its directory entry refers to the next one.                             *)
LEMMA OwnersFree == ASSUME TypeInv, Owners, FreeCluster, "cut" \notin harm' PROVE Owners'
<1> DEFINE succ == IF op.copy = 1 THEN fat[1][op.cluster] ELSE op.next
           between == [op EXCEPT !.next = succ]
           after == [op EXCEPT !.cluster = succ, !.next = 0]
           k == op.cluster
<1>1. /\ At("free") /\ "free" \in Working /\ op.todo # <<>> /\ Head(op.todo) = "free"
      /\ op \in Calls /\ k \in Root..LastCluster /\ k \in Clusters
  BY TypeHere, SizesAssumption DEF FreeCluster, Working, StepNames, At, Clusters, Root
<1>2. On(op, {"free"}) /\ On(op, Freeing)
  BY <1>1 DEF On, Freeing
<1>3. ToFree \in {0, EOC} \cup Files /\ OnlyOwn(ToFree)
  BY <1>2 DEF Owners, Owns, Freeable
<1>4. op.copy = 1 => k \in Files /\ OnlyOwn(k)
  BY <1>1, <1>3, SizesAssumption DEF ToFree, EOC, Root, Files
<1>5. /\ dir' = dir
      /\ \A d \in Clusters : fat'[1][d] = IF op.copy = 1 /\ d = k THEN Free ELSE fat[1][d]
      /\ \/ op'.todo = <<>> /\ \A s \in Slots : ~Dangling(s)'
         \/ op.copy < FatCount /\ op' = [between EXCEPT !.copy = @ + 1]
         \/ op' = [after EXCEPT !.copy = 1]
  <2>1. WriteFat(k, Free, between, after)
    BY DEF FreeCluster
  <2> HIDE DEF between, after
  <2> QED BY <1>1, <2>1, FatStep
<1> PICK x : x = succ
  OBVIOUS
<1>6. \/ op'.todo = <<>> /\ \A s \in Slots : ~Dangling(s)'
      \/ op'.todo = op.todo /\ op'.slot = op.slot /\ ToFree' = x
  <2>1. CASE op.copy < FatCount /\ op' = [between EXCEPT !.copy = @ + 1]
    <3> HIDE DEF succ
    <3>1. /\ op'.todo = op.todo /\ op'.slot = op.slot /\ op'.next = succ
          /\ op'.copy = op.copy + 1 /\ op.copy \in Nat /\ op.copy # 0
      BY <1>1, <2>1 DEF Calls
    <3> QED BY <3>1 DEF ToFree
  <2>2. CASE op' = [after EXCEPT !.copy = 1]
    <3> HIDE DEF succ
    <3>1. op'.todo = op.todo /\ op'.slot = op.slot /\ op'.cluster = succ /\ op'.copy = 1
      BY <1>1, <2>2 DEF Calls
    <3> QED BY <3>1 DEF ToFree
  <2> QED BY <1>5, <2>1, <2>2
<1>7. Fewer
  BY <1>5, Sizes DEF Fewer, DirRef, FatRef, Live, Free
<1>8. Apart'
  BY <1>7, FewerApart DEF Owners
<1>9. Sane'
  BY <1>4, <1>5, Sizes DEF Owners, Sane
<1>10. ASSUME NEW c \in Files, FatRef(c)' PROVE fat'[1][fat'[1][c]] # Free
  <2>1. FatRef(c) /\ fat'[1][c] = fat[1][c] /\ fat[1][c] \in Files
    BY <1>7, <1>10 DEF Fewer, FatRef
  <2>2. op.copy = 1 => fat[1][c] # k
    BY <1>4, <2>1 DEF OnlyOwn
  <2>3. fat[1][fat[1][c]] # Free
    BY <2>1 DEF Owners, LinksTaken
  <2> QED BY <1>5, <2>1, <2>2, <2>3, Sizes
<1>11. LinksTaken'
  BY <1>10 DEF LinksTaken
<1>12. ASSUME NEW s \in Slots, DirRef(s), s # op.slot PROVE fat'[1][dir[s].first] # Free
  <2>1. dir[s].first \in Files /\ fat[1][dir[s].first] # Free
    BY <1>12 DEF Owners, EntriesTaken, BeingFreed, Sane, DirRef
  <2>2. op.copy = 1 => dir[s].first # k
    BY <1>4, <1>12 DEF OnlyOwn
  <2> QED BY <1>5, <2>1, <2>2, Sizes
<1>13. EntriesTaken'
  <2>1. CASE op'.todo = <<>>
    <3>1. \A s \in Slots : ~Dangling(s)'
      BY <1>1, <1>6, <2>1
    <3> QED BY <3>1 DEF EntriesTaken, Dangling, DirRef
  <2>2. CASE op'.todo # <<>>
    <3>1. \A s \in Slots : BeingFreed(s)' <=> s = op.slot
      BY <1>2, <1>6, <2>2 DEF BeingFreed, On
    <3> QED BY <1>5, <1>7, <1>12, <3>1 DEF EntriesTaken, Fewer
  <2> QED BY <2>1, <2>2
<1>14. x \in {0, EOC} \cup Files /\ (op'.slot = op.slot => OnlyOwn(x)')
  <2>1. CASE op.copy = 1
    <3>1. x = fat[1][k] /\ x \in {0, EOC} \cup Files
      BY <1>4, <2>1 DEF Owners, Sane, Free
    <3>2. ASSUME NEW s \in Slots, DirRef(s)', dir'[s].first = x PROVE FALSE
      <4>1. DirRef(s) /\ dir[s].first = x
        BY <1>7, <3>2 DEF Fewer
      <4>2. x \in Files
        BY <4>1, <3>1, Sizes DEF DirRef, Owners, Sane
      <4>3. FatRef(k)
        BY <1>4, <2>1, <3>1, <4>2 DEF FatRef
      <4> QED BY <1>4, <2>1, <3>1, <4>1, <4>3 DEF Owners, Apart
    <3>3. ASSUME NEW d \in Files, FatRef(d)', fat'[1][d] = x PROVE FALSE
      <4>1. FatRef(d) /\ fat[1][d] = x /\ x \in Files /\ FatRef(d)'
        BY <1>7, <3>3 DEF Fewer, FatRef
      <4>2. d # k
        BY <1>1, <1>5, <2>1, <4>1, <3>3, Sizes DEF Free
      <4>3. FatRef(k)
        BY <1>4, <2>1, <3>1, <4>1 DEF FatRef
      <4> QED BY <1>4, <2>1, <3>1, <4>1, <4>2, <4>3 DEF Owners, Apart
    <3> QED BY <3>1, <3>2, <3>3 DEF OnlyOwn
  <2>2. CASE op.copy # 1
    <3>1. x = ToFree
      BY <2>2 DEF ToFree
    <3> QED BY <1>3, <1>7, <3>1, FewerApart DEF Owners
  <2> QED BY <2>1, <2>2
<1>15. Owns'
  <2>1. CASE op'.todo = <<>>
    BY <2>1, IdleHoldsNothing
  <2>2. CASE op'.todo # <<>>
    <3>1. op'.todo = op.todo /\ op'.slot = op.slot /\ ToFree' = x
      BY <1>6, <2>2
    <3>2. Freeable'
      BY <1>14, <3>1 DEF Freeable, OnlyOwn
    <3>3. Writable' /\ Marked' /\ Linkable'
      BY <1>1, <3>1 DEF Writable, Marked, InUse, Linkable, On
    <3> QED BY <3>2, <3>3 DEF Owns
  <2> QED BY <2>1, <2>2
<1> QED BY <1>8, <1>9, <1>11, <1>13, <1>15 DEF Owners

-----------------------------------------------------------------------------
(* Steps that write nothing. *)
LEMMA OwnersFind == ASSUME NamesInv, Owners, Find PROVE Owners'
<1>1. /\ At("find") /\ "find" \in Working /\ op.todo # <<>> /\ Head(op.todo) = "find"
      /\ op \in Calls /\ op.copy = 1 /\ Ordered(op.todo)
  BY TypeHere DEF Find, Working, StepNames, At, Copying, NamesInv
<1>2. PICK s \in Found(op.name) :
        op' = IF s = Missing THEN Idle(FALSE)
              ELSE Advance([op EXCEPT !.slot = s, !.cluster = dir[s].first])
  BY DEF Find
<1>3. fat' = fat /\ dir' = dir
  BY DEF Find, disk
<1>4. ~On(op, Freeing)
  BY <1>1 DEF On, Freeing
<1>5. CASE op'.todo = <<>>
  BY <1>3, <1>4, <1>5, IdleHoldsNothing, OwnersSame
<1>6. CASE op'.todo # <<>>
  <2> DEFINE o == [op EXCEPT !.slot = s, !.cluster = dir[s].first]
  <2>1. s # Missing
    BY <1>2, <1>6, IdleOK
  <2>2. s \in Slots /\ Live(s)
    BY <2>1, FoundSlot DEF Named
  <2>3. Len(op.todo) # 1 /\ op' = [o EXCEPT !.todo = Tail(@)]
    <3>1. op' = Advance(o) /\ o.todo = op.todo
      BY <1>1, <1>2, <2>1 DEF Calls
    <3> HIDE DEF o
    <3>2. Advance(o) # Idle(TRUE)
      BY <1>6, <3>1, IdleOK
    <3> QED BY <3>1, <3>2 DEF Advance
  <2>4. /\ op'.todo = Tail(op.todo) /\ op'.cluster = dir[s].first /\ op'.copy = 1
        /\ op'.slot = s
    BY <1>1, <2>3 DEF Calls
  <2>5. MayFollow("find", Head(op'.todo))
    BY <1>1, <2>3, <2>4, OrderedTail
  <2>6. Fewer /\ Apart' /\ Sane' /\ LinksTaken'
    BY <1>3, SameTables
  <2>7. EntriesTaken'
    <3>1. \A t \in Slots : DirRef(t)' => DirRef(t) /\ fat[1][dir[t].first] # Free
      BY <1>4, <2>6 DEF Fewer, Owners, EntriesTaken, BeingFreed
    <3> QED BY <1>3, <3>1 DEF EntriesTaken
  <2>8. dir[s].first \in {0, EOC} \cup Files
    BY <2>2 DEF Owners, Sane
  <2>9. ASSUME NEW t \in Slots, DirRef(t)', dir'[t].first = op'.cluster PROVE t = s
    <3>1. DirRef(t) /\ dir[t].first = dir[s].first
      BY <1>3, <2>4, <2>6, <2>9 DEF Fewer
    <3>2. DirRef(s)
      BY <2>2, <3>1 DEF DirRef
    <3> QED BY <2>2, <3>1, <3>2 DEF Owners, Apart
  <2>10. ASSUME NEW d \in Files, FatRef(d)', fat'[1][d] = op'.cluster PROVE FALSE
    <3>1. FatRef(d) /\ fat[1][d] = dir[s].first
      BY <1>3, <2>4, <2>6, <2>10 DEF Fewer
    <3>2. DirRef(s)
      BY <2>2, <3>1, Sizes DEF DirRef, FatRef
    <3> QED BY <2>2, <3>1, <3>2 DEF Owners, Apart
  <2>11. Freeable'
    <3>1. ToFree' = op'.cluster
      BY <2>4 DEF ToFree
    <3>2. OnlyOwn(op.cluster)'
      BY <2>4, <2>9, <2>10 DEF OnlyOwn
    <3> QED BY <2>4, <2>8, <3>1, <3>2 DEF Freeable, OnlyOwn
  <2>12. Writable' /\ Marked' /\ Linkable'
    BY <2>5 DEF Writable, Marked, InUse, Linkable, On, MayFollow
  <2> QED BY <2>6, <2>7, <2>11, <2>12 DEF Owners, Owns
<1> QED BY <1>5, <1>6

(* A free cluster is referred to by nothing, unless a file is just being freed. *)
LEMMA FreeIsNoOnes ==
  ASSUME Owners, ~On(op, Freeing), FreeClusters # {}
  PROVE  LET low == Minimum(FreeClusters) IN low \in Files /\ NoOne(low)
<1> DEFINE low == Minimum(FreeClusters)
<1>1. low \in Root..LastCluster /\ fat[1][low] = Free
  BY LowestFree DEF FreeClusters
<1> HIDE DEF low
<1>2. low \in Files
  BY <1>1, Sizes DEF Owners, Sane
<1>3. NoOne(low)
  BY <1>1 DEF NoOne, Owners, EntriesTaken, BeingFreed, LinksTaken
<1> QED BY <1>2, <1>3 DEF low

(* choose takes a free cluster, which is nobody's, or the only one of the file. *)
LEMMA OwnersChoose == ASSUME NamesInv, Owners, Choose PROVE Owners'
<1> DEFINE fresh == <<"fill", "mark", "commit">>
           over == <<"fill", "commit">>
           low == Minimum(FreeClusters)
<1>1. /\ At("choose") /\ "choose" \in Working /\ op.todo # <<>> /\ Head(op.todo) = "choose"
      /\ op \in Calls /\ op.slot \in Slots /\ op.cluster = dir[op.slot].first /\ Live(op.slot)
  BY TypeHere DEF Choose, Working, StepNames, At, OnSlot, NamesInv, TypeInv, OnLiveSlot, On
<1>2. fat' = fat /\ dir' = dir /\ ~On(op, Freeing)
  BY <1>1 DEF Choose, disk, On, Freeing
<1>3. Fewer
  BY <1>2, SameTables
<1>4. SUFFICES Owns'
  BY <1>2, OwnersSame
<1>5. CASE op' \in {Idle(FALSE), Idle(TRUE)}
  BY <1>5, IdleOK, IdleHoldsNothing
<1>6. CASE FreeClusters # {} /\ op' = [Instead(fresh) EXCEPT !.cluster = low]
  <2>1. op'.todo = fresh /\ op'.cluster = low
    BY <1>1, <1>6 DEF Instead, Calls
  <2>2. low \in Files /\ NoOne(low)
    BY <1>2, <1>6, FreeIsNoOnes
  <2> HIDE DEF low
  <2>3. OnlyOwn(op.cluster)'
    BY <1>3, <2>1, <2>2 DEF OnlyOwn, NoOne, Fewer
  <2>4. Head(op'.todo) = "fill" /\ Head(Tail(op'.todo)) = "mark"
    BY <2>1
  <2>5. Writable'
    BY <2>1, <2>2, <2>3 DEF Writable, OnlyOwn
  <2>6. Freeable' /\ Marked' /\ Linkable'
    BY <2>4 DEF Freeable, Marked, InUse, Linkable, On
  <2> QED BY <2>5, <2>6 DEF Owns
<1>7. CASE op.cluster >= Root /\ Follow(op.cluster) = EOC /\ op' = Instead(over)
  <2>1. op'.todo = over /\ op'.cluster = op.cluster /\ op'.slot = op.slot
    BY <1>1, <1>7 DEF Instead, Calls
  <2>2. op.cluster \in Files /\ fat[1][op.cluster] # Free
    <3>1. op.cluster \in {0} \cup Files
      BY <1>1 DEF Owners, Sane
    <3>2. op.cluster \in Files
      BY <1>7, <3>1, SizesAssumption DEF Root
    <3> QED BY <1>7, <3>2, Sizes DEF Follow
  <2>3. DirRef(op.slot)
    BY <1>1, <2>2, Sizes DEF DirRef
  <2>4. OnlyOwn(op.cluster)
    BY <1>1, <2>3 DEF OnlyOwn, Owners, Apart
  <2>5. Writable'
    BY <1>3, <2>1, <2>2, <2>4 DEF Writable, OnlyOwn, Fewer
  <2>6. Marked'
    BY <1>2, <2>1, <2>2 DEF Marked
  <2>7. Head(op'.todo) = "fill"
    BY <2>1
  <2>8. Freeable' /\ Linkable'
    BY <2>7 DEF Freeable, Linkable, On
  <2> QED BY <2>5, <2>6, <2>8 DEF Owns
<1> QED BY <1>5, <1>6, <1>7, Chosen

(* The data goes into a cluster the call holds. *)
LEMMA OwnersFill == ASSUME TypeInv, Owners, Fill PROVE Owners'
<1>1. /\ At("fill") /\ "fill" \in Working /\ op.todo # <<>> /\ Head(op.todo) = "fill"
      /\ op \in Calls /\ op.copy = 1 /\ "fill" \notin Copying
  BY TypeHere DEF Fill, Working, StepNames, At, Copying
<1>2. On(op, {"fill", "mark", "commit"}) /\ On(op, {"fill"}) /\ ~On(op, Freeing)
  BY <1>1 DEF On, Freeing
<1>3. op.cluster \in Files /\ OnlyOwn(op.cluster)
  BY <1>2 DEF Owners, Owns, Writable
<1>4. fat' = fat /\ dir' = dir
  BY DEF Fill, WriteData
<1>5. Fewer
  BY <1>4, SameTables
<1>6. SUFFICES Owns'
  BY <1>2, <1>4, OwnersSame
<1>7. Ends(Advance(op), {})
  BY <1>3 DEF Fill, WriteData
<1>8. op'.todo = <<>> \/ op' = NextCall
  BY <1>1, <1>7, NextStep, IdleOK DEF Ends
<1>9. CASE op'.todo = <<>>
  BY <1>9, IdleHoldsNothing
<1>10. CASE op'.todo # <<>>
  <2>1. /\ op'.todo = Tail(op.todo) /\ MayFollow("fill", Head(op'.todo))
        /\ op'.slot = op.slot /\ op'.cluster = op.cluster /\ op'.copy = 1
    BY <1>1, <1>8, <1>10, NextStep, IdleOK
  <2>2. Writable'
    BY <1>3, <1>5, <2>1 DEF Writable, OnlyOwn, Fewer
  <2>3. Marked'
    <3>1. CASE Head(op'.todo) = "commit"
      <4>1. InUse
        BY <1>2, <1>10, <2>1, <3>1 DEF InUse
      <4>2. fat[1][op.cluster] # Free
        BY <4>1 DEF Owners, Owns, Marked
      <4> QED BY <1>4, <2>1, <4>2 DEF Marked
    <3>2. CASE Head(op'.todo) = "mark"
      BY <2>1, <3>2 DEF Marked, InUse, On
    <3> QED BY <2>1, <3>1, <3>2 DEF MayFollow
  <2>4. Freeable' /\ Linkable'
    BY <2>1 DEF Freeable, Linkable, On, MayFollow
  <2> QED BY <2>2, <2>3, <2>4 DEF Owns
<1> QED BY <1>9, <1>10

(* grow takes a free cluster, which is nobody's. *)
LEMMA OwnersGrow == ASSUME TypeInv, Owners, Grow PROVE Owners'
<1> DEFINE low == Minimum(FreeClusters)
           more == <<"mark_new", "link">> \o op.todo
           o == [op EXCEPT !.todo = more, !.next = low]
<1>1. /\ At("grow") /\ "grow" \in Working /\ op.todo # <<>> /\ Head(op.todo) = "grow"
      /\ op \in Calls /\ op.copy = 1 /\ Ordered(op.todo)
  BY TypeHere DEF Grow, Working, StepNames, At, Copying
<1>2. ~On(op, Freeing)
  BY <1>1 DEF On, Freeing
<1>3. low \in Files /\ NoOne(low)
  BY <1>2, FreeIsNoOnes DEF Grow
<1>4. fat' = fat /\ dir' = dir
  BY DEF Grow, WriteData
<1>5. Fewer
  BY <1>4, SameTables
<1>6. SUFFICES Owns'
  BY <1>2, <1>4, OwnersSame
<1>7. PICK units : WriteData(low, units, o)
  BY DEF Grow
<1>8. Head(more) = "mark_new" /\ more # <<>>
  BY <1>1, OrderedGrow
<1>9. o.todo = more /\ o.next = low /\ o.copy = 1
  BY <1>1 DEF Calls
<1> HIDE DEF low, more, o
<1>10. op' = o \/ op'.todo = <<>>
  BY <1>3, <1>7, IdleOK DEF WriteData, Ends
<1>11. CASE op' = o
  <2>1. Linkable'
    BY <1>3, <1>5, <1>8, <1>9, <1>11 DEF Linkable, NoOne, Fewer, On
  <2>2. Freeable' /\ Writable' /\ Marked'
    BY <1>8, <1>9, <1>11 DEF Freeable, Writable, Marked, InUse, On
  <2> QED BY <2>1, <2>2 DEF Owns
<1> QED BY <1>10, <1>11, IdleHoldsNothing

-----------------------------------------------------------------------------
(* Steps that write one entry of the directory.  An entry that is shown for the first  *)
(* time is the one that was written: nothing behind an unused entry was in use.        *)
LEMMA OtherLive ==
  ASSUME NamesInv, NEW h \in Slots, NEW e, dir' = [dir EXCEPT ![h] = e]
  PROVE  /\ dir'[h] = e
         /\ \A s \in Slots : s # h => dir'[s] = dir[s]
         /\ \A s \in Slots : s # h /\ Live(s)' => Live(s)
<1>1. dir \in [Slots -> Entries]
  BY DEF NamesInv, TypeInv, TypeOK
<1>2. dir'[h] = e /\ \A s \in Slots : s # h => dir'[s] = dir[s]
  BY <1>1
<1>3. ASSUME NEW s \in Slots, s # h, Live(s)' PROVE Live(s)
  <2>1. dir[s].name \in Names /\ \A t \in 1..s : dir'[t].name # "end"
    BY <1>2, <1>3 DEF Live
  <2>2. s \in Nat /\ \A t \in 1..s : t \in Slots
    BY SizesAssumption DEF Slots
  <2>3. ASSUME NEW t \in 1..s PROVE dir[t].name # "end"
    <3>1. CASE t # h
      BY <1>2, <2>1, <2>2, <3>1
    <3>2. CASE t = h
      <4>1. h < s
        BY <1>3, <2>2, <3>2
      <4>2. dir[s].name # "end"
        BY <2>1, NamesAssumption
      <4> QED BY <3>2, <4>1, <4>2 DEF NamesInv, EndsLast
    <3> QED BY <3>1, <3>2
  <2> QED BY <2>1, <2>3 DEF Live
<1> QED BY <1>2, <1>3

(* An entry is written that refers to nothing, or still to the same cluster. *)
LEMMA OwnersEntry ==
  ASSUME NamesInv, Owners, NEW h \in Slots, NEW e, dir' = [dir EXCEPT ![h] = e], fat' = fat,
         e.first = 0 \/ (e.first = dir[h].first /\ Live(h)),
         On(op, Freeing) => h = op.slot /\ e.first = 0,
         Owns'
  PROVE  Owners'
<1>1. /\ dir'[h] = e
      /\ \A s \in Slots : s # h => dir'[s] = dir[s]
      /\ \A s \in Slots : s # h /\ Live(s)' => Live(s)
  BY OtherLive
<1>2. ASSUME NEW s \in Slots, DirRef(s)' PROVE DirRef(s) /\ dir'[s].first = dir[s].first
  <2>1. CASE s = h
    BY <1>1, <1>2, <2>1 DEF DirRef
  <2>2. CASE s # h
    BY <1>1, <1>2, <2>2 DEF DirRef
  <2> QED BY <2>1, <2>2
<1>3. Fewer /\ NothingFreed
  BY <1>2 DEF Fewer, NothingFreed, FatRef
<1>4. Sane'
  <2>1. \A s \in Slots : dir'[s].first \in {0} \cup Files
    BY <1>1 DEF Owners, Sane
  <2> QED BY <2>1 DEF Owners, Sane
<1>5. EntriesTaken'
  <2>1. \A s \in Slots : ~(DirRef(s)' /\ BeingFreed(s))
    BY <1>1 DEF DirRef, BeingFreed
  <2> QED BY <1>3, <2>1, FewerEntries DEF Owners
<1> QED BY <1>3, <1>4, <1>5, FewerApart, FewerLinks DEF Owners

(* None of these steps is followed by one that relies on a cluster. *)
LEMMA EntryHoldsNothing ==
  ASSUME TypeInv, NEW a \in {"create", "rename", "clear", "erase", "commit", "resize"}, At(a),
         NEW h, Ends(Advance(op), h)
  PROVE  Owns'
<1>1. a \in Working /\ a \notin Copying
  BY DEF Working, StepNames, Copying
<1>2. op'.todo = <<>> \/ op' = NextCall
  BY <1>1, NextStep, IdleOK DEF Ends
<1>3. op'.todo = <<>> \/ MayFollow(a, Head(op'.todo))
  BY <1>1, <1>2, NextStep, IdleOK
<1>4. ~On(op', Holding)
  BY <1>3 DEF On, Holding, MayFollow
<1> QED BY <1>4, HoldsNothing

LEMMA OwnersCreate == ASSUME NamesInv, Owners, CreateEntry PROVE Owners'
<1> DEFINE h == Minimum(Holes)
           e == [name |-> op.name, first |-> 0, size |-> 0]
<1>1. /\ At("create") /\ Holes # {} /\ dir' = [dir EXCEPT ![h] = e] /\ fat' = fat
      /\ Ends(Advance(op), IF Misread(op.name, Missing) THEN {"fault", "misread"} ELSE {})
  BY DEF CreateEntry
<1>2. h \in Slots /\ e.first = 0
  BY <1>1, LowestHole
<1>3. Owns'
  BY <1>1, EntryHoldsNothing DEF NamesInv
<1>4. ~On(op, Freeing)
  BY <1>1 DEF At, On, Freeing
<1> HIDE DEF h, e
<1> QED BY <1>1, <1>2, <1>3, <1>4, OwnersEntry

LEMMA OwnersRewrite ==
  ASSUME NamesInv, Owners, RenameEntry \/ Clear \/ Erase \/ Resize
  PROVE  Owners'
<1> DEFINE d == dir[op.slot]
<1>1. On(op, OnSlot) /\ op.slot \in Slots /\ Live(op.slot)
  BY TypeHere DEF RenameEntry, Clear, Erase, Resize, At, On, OnSlot, Working, StepNames,
     NamesInv, OnLiveSlot
<1>2. d \in Entries
  BY <1>1 DEF NamesInv, TypeInv, TypeOK
<1>3. Owns' /\ fat' = fat
  <2>1. CASE RenameEntry
    BY <2>1, EntryHoldsNothing DEF RenameEntry, NamesInv
  <2>2. CASE Clear \/ Erase \/ Resize
    BY <2>2, EntryHoldsNothing DEF Clear, Erase, Resize, WriteDir, NamesInv
  <2> QED BY <2>1, <2>2
<1>4. CASE RenameEntry \/ Resize
  <2>1. PICK e : dir' = [dir EXCEPT ![op.slot] = e] /\ e.first = d.first
    <3>1. CASE RenameEntry
      <4>1. dir' = [dir EXCEPT ![op.slot] = [d EXCEPT !.name = op.new]]
        BY <3>1 DEF RenameEntry
      <4>2. [d EXCEPT !.name = op.new].first = d.first
        BY <1>2 DEF Entries
      <4> QED BY <4>1, <4>2
    <3>2. CASE Resize
      <4>1. dir' = [dir EXCEPT ![op.slot] = [d EXCEPT !.size = @ + Len(op.buf)]]
        BY <3>2 DEF Resize, WriteDir
      <4>2. [d EXCEPT !.size = @ + Len(op.buf)].first = d.first
        BY <1>2 DEF Entries
      <4> QED BY <4>1, <4>2
    <3> QED BY <1>4, <3>1, <3>2
  <2>2. ~On(op, Freeing)
    BY <1>4 DEF RenameEntry, Resize, At, On, Freeing
  <2> QED BY <1>1, <1>3, <2>1, <2>2, OwnersEntry
<1>5. CASE Clear \/ Erase
  <2>1. PICK e : dir' = [dir EXCEPT ![op.slot] = e] /\ e.first = 0
    <3>1. CASE Clear
      <4>1. dir' = [dir EXCEPT ![op.slot] = [d EXCEPT !.first = 0, !.size = 0]]
        BY <3>1 DEF Clear, WriteDir
      <4>2. [d EXCEPT !.first = 0, !.size = 0].first = 0
        BY <1>2 DEF Entries
      <4> QED BY <4>1, <4>2
    <3>2. CASE Erase
      <4> DEFINE e == [name |-> "deleted", first |-> 0, size |-> 0]
      <4>1. dir' = [dir EXCEPT ![op.slot] = e] /\ e.first = 0
        BY <3>2 DEF Erase, WriteDir
      <4> QED BY <4>1
    <3> QED BY <1>5, <3>1, <3>2
  <2> QED BY <1>1, <1>3, <2>1, OwnersEntry
<1> QED BY <1>4, <1>5

(* The only step that makes an entry refer to another cluster: one the call holds. *)
LEMMA OwnersCommit == ASSUME NamesInv, Owners, Commit PROVE Owners'
<1> DEFINE d == dir[op.slot]
           e == [d EXCEPT !.first = op.cluster, !.size = Len(op.buf)]
           c == op.cluster
           h == op.slot
<1>1. /\ At("commit") /\ h \in Slots /\ Live(h)
      /\ On(op, {"fill", "mark", "commit"}) /\ On(op, {"commit"}) /\ ~On(op, Freeing)
  BY TypeHere DEF Commit, At, On, OnSlot, Working, StepNames, NamesInv, OnLiveSlot, Freeing
<1>2. d \in Entries
  BY <1>1 DEF NamesInv, TypeInv, TypeOK
<1>3. e.first = c
  BY <1>2 DEF Entries
<1>4. dir' = [dir EXCEPT ![h] = e] /\ fat' = fat /\ Ends(Advance(op), {})
  BY DEF Commit, WriteDir
<1>5. Owns'
  BY <1>1, <1>4, EntryHoldsNothing DEF NamesInv
<1> HIDE DEF e
<1>6. /\ dir'[h] = e
      /\ \A s \in Slots : s # h => dir'[s] = dir[s]
      /\ \A s \in Slots : s # h /\ Live(s)' => Live(s)
  BY <1>1, <1>4, OtherLive
<1>7. c \in Files /\ OnlyOwn(c) /\ fat[1][c] # Free
  BY <1>1 DEF Owners, Owns, Writable, Marked, InUse
<1>8. ASSUME NEW s \in Slots, s # h, DirRef(s)'
      PROVE  DirRef(s) /\ dir'[s].first = dir[s].first /\ dir[s].first # c
  <2>1. DirRef(s) /\ dir'[s].first = dir[s].first
    BY <1>6, <1>8 DEF DirRef
  <2> QED BY <1>7, <1>8, <2>1 DEF OnlyOwn
<1>9. dir'[h].first = c
  BY <1>3, <1>6
<1> HIDE DEF c, h, d
<1>10. \A x \in Files : (FatRef(x)' <=> FatRef(x)) /\ fat'[1][x] = fat[1][x]
  BY <1>4 DEF FatRef
<1>11. Apart'
  <2>1. ASSUME NEW s \in Slots, NEW t \in Slots, DirRef(s)', DirRef(t)', dir'[s].first = dir'[t].first
        PROVE  s = t
    <3>1. CASE s = h \/ t = h
      BY <1>8, <1>9, <2>1, <3>1
    <3>2. CASE s # h /\ t # h
      BY <1>8, <2>1, <3>2 DEF Owners, Apart
    <3> QED BY <3>1, <3>2
  <2>2. ASSUME NEW s \in Slots, NEW x \in Files, DirRef(s)', FatRef(x)' PROVE dir'[s].first # fat'[1][x]
    <3>1. FatRef(x) /\ fat'[1][x] = fat[1][x]
      BY <1>10, <2>2
    <3>2. CASE s = h
      BY <1>7, <1>9, <3>1, <3>2 DEF OnlyOwn
    <3>3. CASE s # h
      BY <1>8, <2>2, <3>1, <3>3 DEF Owners, Apart
    <3> QED BY <3>2, <3>3
  <2>3. \A x, y \in Files : FatRef(x)' /\ FatRef(y)' /\ fat'[1][x] = fat'[1][y] => x = y
    BY <1>10 DEF Owners, Apart
  <2> QED BY <2>1, <2>2, <2>3 DEF Apart
<1>12. Sane'
  <2>1. \A s \in Slots : dir'[s].first \in {0} \cup Files
    BY <1>6, <1>7, <1>9 DEF Owners, Sane
  <2> QED BY <1>4, <2>1 DEF Owners, Sane
<1>13. LinksTaken'
  BY <1>4 DEF Owners, LinksTaken, FatRef
<1>14. EntriesTaken'
  <2>1. ASSUME NEW s \in Slots, DirRef(s)' PROVE fat'[1][dir'[s].first] # Free
    <3>1. CASE s = h
      BY <1>4, <1>7, <1>9, <3>1
    <3>2. CASE s # h
      BY <1>1, <1>4, <1>8, <2>1, <3>2 DEF Owners, EntriesTaken, BeingFreed
    <3> QED BY <3>1, <3>2
  <2> QED BY <2>1 DEF EntriesTaken
<1> QED BY <1>5, <1>11, <1>12, <1>13, <1>14 DEF Owners

-----------------------------------------------------------------------------
(* The remaining steps write no entry and no link, and hold no cluster afterwards. *)
LEMMA OwnersQuiet ==
  ASSUME TypeInv, Owners,
         CreateRefused \/ RenameRefused \/ GrowRefused \/ Extend \/ WalkToEnd \/ Patch \/ GrowDone
  PROVE  Owners'
<1>1. op \in Calls /\ Ordered(op.todo)
  BY DEF TypeInv, CallOK
<1>2. fat' = fat /\ dir' = dir
  BY DEF CreateRefused, RenameRefused, GrowRefused, Refuse, Extend, WalkToEnd, Patch, GrowDone,
     WriteData, disk
<1>3. ~On(op, Freeing)
  BY DEF CreateRefused, RenameRefused, GrowRefused, Extend, WalkToEnd, Patch, GrowDone,
     At, On, Freeing
<1>4. SUFFICES Owns'
  BY <1>2, <1>3, OwnersSame
<1>5. CASE CreateRefused \/ RenameRefused \/ GrowRefused
  BY <1>5, IdleOK, IdleHoldsNothing DEF CreateRefused, RenameRefused, GrowRefused, Refuse
<1>6. CASE Extend
  <2>1. op'.todo = <<"find", "choose">> \/ op'.todo = <<"find", "walk">>
    BY <1>1, <1>6 DEF Extend, Instead, Calls
  <2>2. Head(op'.todo) = "find"
    BY <2>1
  <2> QED BY <2>2, HoldsNothing DEF On, Holding
<1>7. CASE WalkToEnd
  <2> DEFINE full == <<"grow", "resize">>
             tail == Walk(op.cluster, Hops(dir[op.slot].size))
  <2>1. PICK s : /\ s \in {<<"patch">> \o full, <<>> \o full}
                 /\ op' = Idle(FALSE) \/ op' = [Instead(s) EXCEPT !.cluster = tail]
    BY <1>7 DEF WalkToEnd
  <2>2. Head(s) \in {"patch", "grow"}
    BY <2>1
  <2> HIDE DEF full, tail
  <2>3. op' = Idle(FALSE) \/ op'.todo = s
    BY <1>1, <2>1 DEF Instead, Calls
  <2> QED BY <2>2, <2>3, IdleOK, IdleHoldsNothing, HoldsNothing DEF On, Holding
<1>8. CASE Patch
  <2> DEFINE n == Smaller(ClusterSize - Offset(dir[op.slot].size), Len(op.buf))
             o == [Advance(op) EXCEPT !.done = n]
  <2>1. PICK units : At("patch") /\ WriteData(op.cluster, units, o)
    BY <1>8 DEF Patch
  <2>2. op'.todo = o.todo \/ op'.todo = <<>> \/ op'.todo = <<"overrun">>
    BY <2>1, IdleOK, StoppedOK DEF WriteData, Ends
  <2>3. o.todo = Advance(op).todo
    BY DEF Advance, Idle
  <2>4. Advance(op).todo = <<>> \/ MayFollow("patch", Head(Advance(op).todo))
    <3>1. "patch" \in Working /\ "patch" \notin Copying
      BY DEF Working, StepNames, Copying
    <3>2. Advance(op) = NextCall
      BY <2>1, <3>1, NextStep
    <3> QED BY <2>1, <3>1, <3>2, NextStep, IdleOK
  <2> HIDE DEF o
  <2>5. Head(<<"overrun">>) = "overrun"
    OBVIOUS
  <2>6. ~On(op', Holding)
    BY <2>2, <2>3, <2>4, <2>5 DEF On, Holding, MayFollow
  <2> QED BY <2>6, HoldsNothing
<1>9. CASE GrowDone
  <2>1. At("grow") /\ "grow" \in Working /\ "grow" \notin Copying /\ op' = Advance(op)
    BY <1>9 DEF GrowDone, Working, StepNames, Copying
  <2>2. op'.todo = <<>> \/ MayFollow("grow", Head(op'.todo))
    BY <2>1, NextStep, IdleOK
  <2>3. ~On(op', Holding)
    BY <2>2 DEF On, Holding, MayFollow
  <2> QED BY <2>3, HoldsNothing
<1> QED BY <1>5, <1>6, <1>7, <1>8, <1>9

(* At the end of the chain the entry is still to be written. *)
LEMMA OwnersFreeDone == ASSUME TypeInv, Owners, FreeDone PROVE Owners'
<1>1. /\ op.todo # <<>> /\ Head(op.todo) = "free" /\ op \in Calls /\ Ordered(op.todo)
      /\ op' = Advance(op) /\ fat' = fat /\ dir' = dir
  BY DEF FreeDone, At, TypeInv, CallOK, disk
<1>2. /\ Len(op.todo) # 1 /\ Tail(op.todo) # <<>>
      /\ Head(Tail(op.todo)) \in {"clear", "erase"}
  BY <1>1, OrderedTail DEF MayEnd, MayFollow
<1>3. op'.todo = Tail(op.todo) /\ op'.slot = op.slot
  BY <1>1, <1>2 DEF Advance, Calls
<1>4. On(op', Freeing) /\ ~On(op', Holding)
  BY <1>2, <1>3 DEF On, Freeing, Holding
<1> QED BY <1>1, <1>3, <1>4, HoldsNothing, OwnersSame

(* A call that is stopped: the damage is noted if a file was just being freed. *)
LEMMA OwnersStop ==
  ASSUME TypeInv, Owners, AccessFails \/ PowerOff, "cut" \notin harm'
  PROVE  Owners'
<1>1. fat' = fat /\ dir' = dir /\ \A s \in Slots : ~Dangling(s)
  BY DEF AccessFails, PowerOff, CutShort, disk
<1>2. op'.todo = <<>> \/ op'.todo = <<"off">>
  BY IdleOK, StoppedOK DEF AccessFails, PowerOff, Off
<1>3. ~On(op', Holding)
  <2>1. Head(<<"off">>) = "off"
    OBVIOUS
  <2> QED BY <1>2, <2>1 DEF On, Holding
<1>4. Fewer /\ Apart' /\ Sane' /\ LinksTaken'
  BY <1>1, SameTables
<1>5. EntriesTaken'
  BY <1>1, <1>4 DEF Fewer, EntriesTaken, Dangling, DirRef
<1> QED BY <1>3, <1>4, <1>5, HoldsNothing DEF Owners

-----------------------------------------------------------------------------
(* The freshly made image has the invariant, and every step keeps it. *)
LEMMA OwnersInit == Init => OwnersInv
<1> SUFFICES ASSUME Init PROVE OwnersInv
  OBVIOUS
<1>1. NamesInv
  BY NamesInit
<1>2. \A s \in Slots : ~DirRef(s) /\ dir[s].first = 0
  BY DEF Init, DirRef
<1>3. \A c \in Files : fat[1][c] = Free /\ ~FatRef(c)
  <2>1. 1 \in 1..FatCount
    BY SizesAssumption
  <2>2. \A c \in Files : ~(c <= Root)
    BY SizesAssumption DEF Files, Root
  <2> QED BY <2>1, <2>2, Sizes DEF Init, FatRef, Free
<1>4. fat[1][Root] # Free
  <2>1. 1 \in 1..FatCount
    BY SizesAssumption
  <2>2. Root <= Root
    BY DEF Root
  <2> QED BY <2>1, <2>2, Sizes DEF Init
<1>5. Owns
  <2>1. \A steps : ~On(op, steps)
    BY IdleOK DEF Init, On
  <2> QED BY <2>1 DEF Owns, Freeable, Writable, Marked, InUse, Linkable
<1> QED BY <1>1, <1>2, <1>3, <1>4, <1>5
    DEF OwnersInv, Owners, Apart, Sane, LinksTaken, EntriesTaken

LEMMA OwnersNext == OwnersInv /\ [Next]_vars => OwnersInv'
<1> SUFFICES ASSUME OwnersInv, [Next]_vars PROVE OwnersInv'
  OBVIOUS
<1>1. NamesInv /\ NamesInv' /\ TypeInv
  BY NamesNext DEF OwnersInv, NamesInv
<1>2. SUFFICES ASSUME "cut" \notin harm' PROVE Owners'
  BY <1>1 DEF OwnersInv
<1>3. CASE Request
  <2>1. Owners
    BY <1>2, <1>3, HarmGrows DEF Next, OwnersInv
  <2>2. fat' = fat /\ dir' = dir /\ ~On(op', OnSlot) /\ ~On(op, Freeing)
    BY <1>1, <1>3, TypeRequest
       DEF Request, FsCreate, FsTruncate, FsDelete, FsRename, FsWrite, Idling, On, disk
  <2>3. Holding \subseteq OnSlot
    BY DEF Holding, OnSlot, Working, StepNames
  <2>4. Owns'
    BY <2>2, <2>3, HoldsNothing DEF On
  <2> QED BY <2>1, <2>2, <2>4, OwnersSame
<1>4. CASE Step
  <2>1. Owners
    BY <1>2, <1>4, HarmGrows DEF Next, OwnersInv
  <2>2. CASE Find
    BY <1>1, <2>1, <2>2, OwnersFind
  <2>3. CASE CreateEntry
    BY <1>1, <2>1, <2>3, OwnersCreate
  <2>4. CASE RenameEntry \/ Clear \/ Erase \/ Resize
    BY <1>1, <2>1, <2>4, OwnersRewrite
  <2>5. CASE FreeCluster
    BY <1>1, <1>2, <2>1, <2>5, OwnersFree
  <2>6. CASE FreeDone
    BY <1>1, <2>1, <2>6, OwnersFreeDone
  <2>7. CASE Choose
    BY <1>1, <2>1, <2>7, OwnersChoose
  <2>8. CASE Fill
    BY <1>1, <2>1, <2>8, OwnersFill
  <2>9. CASE Mark
    BY <1>1, <2>1, <2>9, OwnersMark
  <2>10. CASE Commit
    BY <1>1, <2>1, <2>10, OwnersCommit
  <2>11. CASE Grow
    BY <1>1, <2>1, <2>11, OwnersGrow
  <2>12. CASE MarkNew
    BY <1>1, <2>1, <2>12, OwnersMarkNew
  <2>13. CASE Link
    BY <1>1, <2>1, <2>13, OwnersLink
  <2>14. CASE CreateRefused \/ RenameRefused \/ GrowRefused \/ Extend \/ WalkToEnd \/ Patch
              \/ GrowDone
    BY <1>1, <2>1, <2>14, OwnersQuiet
  <2> QED BY <1>4, <2>2, <2>3, <2>4, <2>5, <2>6, <2>7, <2>8, <2>9, <2>10, <2>11, <2>12,
             <2>13, <2>14 DEF Step
<1>5. CASE AccessFails \/ PowerOff
  <2>1. Owners
    BY <1>2, <1>5, HarmGrows DEF Next, OwnersInv
  <2> QED BY <1>1, <1>2, <1>5, <2>1, OwnersStop
<1>6. CASE Boot
  <2>1. Owners /\ fat' = fat /\ dir' = dir
    BY <1>2, <1>6 DEF Boot, Refuse, OwnersInv, disk
  <2>2. Owns'
    BY <1>6, IdleOK, IdleHoldsNothing DEF Boot, Refuse
  <2>3. ~On(op, Freeing)
    <3>1. Head(<<"off">>) = "off"
      OBVIOUS
    <3> QED BY <1>6, <3>1 DEF Boot, Off, On, Freeing
  <2> QED BY <2>1, <2>2, <2>3, OwnersSame
<1>7. CASE UNCHANGED vars
  <2>1. Owners /\ UNCHANGED <<fat, dir, op>>
    BY <1>2, <1>7 DEF vars, OwnersInv
  <2>2. Owns'
    BY <2>1 DEF Owners, Owns, Freeable, Writable, Marked, InUse, Linkable, ToFree, OnlyOwn, NoOne,
       DirRef, FatRef, Live, On
  <2> QED BY <2>1, <2>2, OwnersSame
<1> QED BY <1>3, <1>4, <1>5, <1>6, <1>7 DEF Next

(* No two directory entries begin with the same cluster, no two clusters link to the   *)
(* same one, and no file begins in the middle of another, whatever is called, fails or *)
(* is cut short, until a truncate or a delete is cut between freeing the chain and     *)
(* writing the entry (fat32.c:611).                                                    *)
THEOREM OneOwnerForever == Spec => []ClustersHaveOneOwner
<1>1. OwnersInv => ClustersHaveOneOwner
  <2> SUFFICES ASSUME Apart, NEW q \in Referring, NEW r \in Referring, Target(q) = Target(r)
               PROVE  q = r
    BY DEF OwnersInv, Owners, ClustersHaveOneOwner, OneOwner
  <2> DEFINE Entry(x, s) == s \in Slots /\ DirRef(s) /\ x = <<"dir", s>> /\ Target(x) = dir[s].first
             Chain(x, c) == c \in Files /\ FatRef(c) /\ x = <<"fat", c>> /\ Target(x) = fat[1][c]
  <2>1. ASSUME NEW x \in Referring PROVE (\E s : Entry(x, s)) \/ (\E c : Chain(x, c))
    BY <2>1 DEF Referring, Target, DirRef, FatRef
  <2> HIDE DEF Entry, Chain
  <2>2. CASE \E s, t : Entry(q, s) /\ Entry(r, t)
    BY <2>2 DEF Entry, Apart
  <2>3. CASE \E c, d : Chain(q, c) /\ Chain(r, d)
    BY <2>3 DEF Chain, Apart
  <2>4. ~\E s, c : Entry(q, s) /\ Chain(r, c)
    BY DEF Entry, Chain, Apart
  <2>5. ~\E s, c : Entry(r, s) /\ Chain(q, c)
    BY DEF Entry, Chain, Apart
  <2> QED BY <2>1, <2>2, <2>3, <2>4, <2>5
<1> QED BY <1>1, OwnersInit, OwnersNext, PTL DEF Spec

-----------------------------------------------------------------------------
(***************************************************************************)
(* Proof that every file can be read to its full size at any moment, and   *)
(* that no cluster is lost while nothing fails.                            *)
(*                                                                         *)
(* A file is whole when its chain reaches the cluster of its last byte     *)
(* (Whole).  The only writes that change a link of a chain are those that  *)
(* free it; every other one goes to a cluster that had no link, so a       *)
(* chain is kept as far as it is needed (LinksKept).  What is left is to  *)
(* see that a chain is long enough when the size is written: the append    *)
(* knows that it stands on the last cluster of the chain, and how much of  *)
(* the caller's buffer the clusters linked so far hold (Reached, Edge).    *)
(***************************************************************************)

(* c lists the clusters of the n links of table t from cluster f on; all are in use. *)
Links(t, f, n, c) ==
  /\ c \in [0..n -> Files] /\ c[0] = f
  /\ \A k \in 0..n : t[c[k]] # Free
  /\ \A k \in 0..n - 1 : t[c[k]] = c[k + 1]
Linked(f, n, c) == Links(fat[1], f, n, c)

Whole(s) == \E c : Linked(dir[s].first, Hops(dir[s].size), c)
Empty(s) == dir[s].first = 0 /\ dir[s].size = 0
FilesWhole == \A s \in Slots : Live(s) /\ ~Dangling(s) => Empty(s) \/ Whole(s)

(* What the running call knows of its file. *)
Adding == {"grow", "mark_new", "link", "resize"}
First == dir[op.slot].first
Full  == dir[op.slot].size + op.done

(* A call that adds nothing yet has written nothing; the cluster it read is the first. *)
Begun == /\ op.todo # <<>> /\ ~On(op, Adding) => op.done = 0
         /\ On(op, {"choose", "extend", "walk"}) => op.cluster = First

(* The first cluster of a chain is freed first. *)
Freed == /\ On(op, {"free"}) /\ (ToFree # First \/ op.copy # 1)
               => First # 0 /\ fat[1][First] = Free
         /\ On(op, {"clear", "erase"}) => First = 0 \/ fat[1][First] = Free

(* fs_write_file fills one cluster, a free one if the file is empty. *)
Taking == \/ On(op, {"mark"})
          \/ On(op, {"fill"}) /\ Tail(op.todo) # <<>> /\ Head(Tail(op.todo)) = "mark"
OneCluster == On(op, {"fill", "mark", "commit"}) =>
                 /\ op.buf # <<>> /\ ~(Len(op.buf) > ClusterSize)
                 /\ First \in {0, op.cluster}
Taken == Taking => /\ First = 0
                   /\ op.copy = 1 => fat[1][op.cluster] = Free

(* fs_append_file stands on the last cluster of what is linked so far, which is full   *)
(* when there is more to write.                                                        *)
Reached == On(op, Adding \cup {"patch"}) =>
              \E c : Linked(First, Hops(Full), c) /\ c[Hops(Full)] = op.cluster
AtEdge == Full = (Hops(Full) + 1) * ClusterSize
Edge == /\ On(op, {"grow"}) /\ op.done < Len(op.buf) => AtEdge
        /\ On(op, {"mark_new", "link"}) => op.done < Len(op.buf) /\ AtEdge
        /\ On(op, {"resize"}) => op.done = Len(op.buf)

(* It ends the chain, and the new cluster is marked before it is linked. *)
Marking == On(op, {"mark_new"}) /\ op.copy = 1
NextIsNew == On(op, {"link"}) \/ (On(op, {"mark_new"}) /\ op.copy # 1)
Tailed == /\ On(op, {"patch", "grow", "mark_new"}) \/ (On(op, {"link"}) /\ op.copy = 1)
                => fat[1][op.cluster] = EOC
          /\ On(op, {"link"}) /\ op.copy # 1 => fat[1][op.cluster] = op.next
          /\ Marking => fat[1][op.next] = Free
          /\ NextIsNew => fat[1][op.next] = EOC
          /\ On(op, {"mark_new", "link"}) => op.next # op.cluster

Known == Begun /\ Freed /\ OneCluster /\ Taken /\ Reached /\ Edge /\ Tailed

(* All of it holds until a free of a chain is cut short. *)
ChainsInv == OwnersInv /\ ("cut" \notin harm => Known /\ FilesWhole)

(* What a step may rely on while no free has been cut short. *)
Sound == NamesInv /\ Owners /\ Known /\ FilesWhole

-----------------------------------------------------------------------------
(* Sizes.  How many links a size needs, by the clusters it fills. *)
LEMMA OneMore ==
  ASSUME NEW q \in Nat
  PROVE  /\ ClusterSize \in Nat /\ ClusterSize > 0 /\ q * ClusterSize \in Nat
         /\ (q + 1) * ClusterSize = q * ClusterSize + ClusterSize
<1> DEFINE b == ClusterSize
<1>1. b \in Nat /\ b > 0
  BY SizesAssumption
<1> HIDE DEF b
<1>2. q * b \in Nat /\ (q + 1) * b = q * b + b
  BY <1>1
<1> QED BY <1>1, <1>2 DEF b

(* Hops is the number of clusters before the one with the last byte. *)
LEMMA HopsBounds ==
  ASSUME NEW n \in Nat, n # 0
  PROVE  /\ Hops(n) \in Nat
         /\ Hops(n) * ClusterSize < n
         /\ n <= (Hops(n) + 1) * ClusterSize
<1> DEFINE b == ClusterSize
           a == n - 1
           q == a \div b
<1>1. a \in Nat /\ b \in Nat /\ b > 0 /\ Hops(n) = q
  BY SizesAssumption DEF Hops
<1> HIDE DEF a, b
<1>2. q \in Nat /\ q * b <= a /\ a < (q + 1) * b
  BY <1>1
<1> HIDE DEF q
<1> QED BY <1>1, <1>2 DEF a, b

(* And the only such number. *)
LEMMA HopsIs ==
  ASSUME NEW n \in Nat, NEW q \in Nat, q * ClusterSize < n, n <= (q + 1) * ClusterSize
  PROVE  Hops(n) = q
<1>1. Hops(n) \in Nat /\ Hops(n) * ClusterSize < n /\ n <= (Hops(n) + 1) * ClusterSize
  <2>1. q * ClusterSize \in Nat
    BY SizesAssumption
  <2>2. n # 0
    BY <2>1
  <2> QED BY <2>2, HopsBounds
<1> DEFINE b == ClusterSize
           p == Hops(n)
<1>2. b \in Nat /\ b > 0
  BY SizesAssumption
<1> HIDE DEF b, p
<1>3. p * b < (q + 1) * b /\ q * b < (p + 1) * b /\ p \in Nat
  BY <1>1, <1>2 DEF b, p
<1>4. ASSUME NEW x \in Nat, NEW y \in Nat, x * b < (y + 1) * b PROVE x <= y
  <2>1. SUFFICES ASSUME x >= y + 1 PROVE FALSE
    BY <1>2
  <2>2. PICK d \in Nat : x = y + 1 + d
    <3>1. x - (y + 1) \in Nat
      BY <2>1
    <3> QED BY <3>1
  <2>3. x * b = (y + 1) * b + d * b /\ d * b >= 0
    BY <1>2, <2>2
  <2> QED BY <1>2, <1>4, <2>3
<1> QED BY <1>3, <1>4 DEF p

(* Up to a cluster more than what fills its clusters takes one link more. *)
LEMMA HopsNext ==
  ASSUME NEW n \in Nat, n = (Hops(n) + 1) * ClusterSize, NEW m \in Nat, m > 0, m <= ClusterSize
  PROVE  /\ Hops(n + m) = Hops(n) + 1
         /\ m = ClusterSize => n + m = (Hops(n + m) + 1) * ClusterSize
<1> DEFINE q == Hops(n) + 1
<1>1. q \in Nat /\ n = q * ClusterSize
  BY HopsType
<1> HIDE DEF q
<1>2. /\ ClusterSize \in Nat /\ ClusterSize > 0
      /\ (q + 1) * ClusterSize = q * ClusterSize + ClusterSize
  BY <1>1, OneMore
<1>3. n + m \in Nat /\ q * ClusterSize < n + m /\ n + m <= (q + 1) * ClusterSize
  BY <1>1, <1>2
<1>4. Hops(n + m) = q
  BY <1>1, <1>3, HopsIs
<1> QED BY <1>1, <1>2, <1>4 DEF q

(* What fits into the last cluster takes no link more. *)
LEMMA HopsSame ==
  ASSUME NEW n \in Nat, NEW m \in Nat, m <= ClusterSize - Offset(n)
  PROVE  /\ Hops(n + m) = Hops(n)
         /\ m = ClusterSize - Offset(n) => n + m = (Hops(n + m) + 1) * ClusterSize
<1> DEFINE q == Hops(n)
<1>1. q \in Nat
  BY HopsType
<1>1a. /\ ClusterSize \in Nat /\ ClusterSize > 0 /\ q * ClusterSize \in Nat
       /\ (q + 1) * ClusterSize = q * ClusterSize + ClusterSize
  BY <1>1, OneMore
<1>2. Offset(n) = n - q * ClusterSize
  BY DEF Offset
<1>3. n = 0 => q = 0
  BY DEF Hops
<1>4. n # 0 => q * ClusterSize < n
  BY HopsBounds
<1> HIDE DEF q
<1>5. n + m <= (q + 1) * ClusterSize /\ (m = ClusterSize - Offset(n) => n + m = (q + 1) * ClusterSize)
  BY <1>1, <1>1a, <1>2
<1>6. Hops(n + m) = q
  <2>1. CASE n + m = 0
    BY <1>3, <2>1 DEF q
  <2>2. CASE n + m # 0
    <3>1. q * ClusterSize < n + m
      BY <1>1, <1>1a, <1>3, <1>4, <2>2
    <3> QED BY <1>1, <1>5, <3>1, HopsIs
  <2> QED BY <2>1, <2>2
<1> QED BY <1>5, <1>6 DEF q

(* A last cluster without room is full. *)
LEMMA OffsetEdge ==
  ASSUME NEW n \in Nat, ~(Offset(n) < ClusterSize)
  PROVE  n = (Hops(n) + 1) * ClusterSize
<1> DEFINE q == Hops(n)
<1>1. q \in Nat
  BY HopsType
<1>1a. /\ ClusterSize \in Nat /\ ClusterSize > 0 /\ q * ClusterSize \in Nat
       /\ (q + 1) * ClusterSize = q * ClusterSize + ClusterSize
  BY <1>1, OneMore
<1>2. Offset(n) = n - q * ClusterSize
  BY DEF Offset
<1>3. n = 0 => q = 0
  BY DEF Hops
<1>4. n # 0 => n <= (q + 1) * ClusterSize
  BY HopsBounds
<1> HIDE DEF q
<1> QED BY <1>1, <1>1a, <1>2, <1>3, <1>4 DEF q

-----------------------------------------------------------------------------
(* Chains.  A write to a cluster without a link leaves every chain as it is. *)
LEMMA LinksKept ==
  ASSUME NEW t, NEW u, NEW f, NEW n \in Nat, NEW c, Links(t, f, n, c),
         \A x \in Files : u[x] # t[x] => t[x] \notin Files /\ u[x] # Free
  PROVE  Links(u, f, n, c)
<1>1. c \in [0..n -> Files] /\ c[0] = f
  BY DEF Links
<1>2. ASSUME NEW k \in 0..n PROVE u[c[k]] # Free
  <2>1. c[k] \in Files /\ t[c[k]] # Free
    BY <1>1 DEF Links
  <2> QED BY <2>1
<1>3. ASSUME NEW k \in 0..n - 1 PROVE u[c[k]] = c[k + 1]
  <2>1. k \in 0..n /\ k + 1 \in 0..n
    OBVIOUS
  <2>2. c[k] \in Files /\ c[k + 1] \in Files /\ t[c[k]] = c[k + 1]
    BY <1>1, <2>1 DEF Links
  <2> QED BY <2>2
<1> QED BY <1>1, <1>2, <1>3 DEF Links

(* A chain that is linked to one more cluster. *)
LEMMA LinksMore ==
  ASSUME NEW t, NEW f, NEW n \in Nat, NEW c, Links(t, f, n, c),
         NEW x \in Files, t[c[n]] = x, t[x] # Free
  PROVE  \E d : Links(t, f, n + 1, d) /\ d[n + 1] = x
<1> DEFINE d == [k \in 0..n + 1 |-> IF k = n + 1 THEN x ELSE c[k]]
<1>1. c \in [0..n -> Files] /\ c[0] = f /\ \A k \in 0..n + 1 : k # n + 1 => k \in 0..n
  BY DEF Links
<1>2. d \in [0..n + 1 -> Files] /\ d[n + 1] = x /\ \A k \in 0..n : d[k] = c[k]
  BY <1>1
<1> HIDE DEF d
<1>3. d[0] = f
  BY <1>1, <1>2
<1>4. \A k \in 0..n + 1 : t[d[k]] # Free
  BY <1>1, <1>2 DEF Links
<1>5. ASSUME NEW k \in 0..(n + 1) - 1 PROVE t[d[k]] = d[k + 1]
  <2>1. CASE k = n
    BY <1>2, <2>1
  <2>2. CASE k # n
    <3>1. k \in 0..n - 1 /\ k \in 0..n /\ k + 1 \in 0..n
      BY <2>2
    <3> QED BY <1>2, <3>1 DEF Links
  <2> QED BY <2>1, <2>2
<1> QED BY <1>2, <1>3, <1>4, <1>5 DEF Links

(* The chain is what next_cluster follows. *)
LEMMA LinkedWalk ==
  ASSUME NEW f, NEW n \in Nat, NEW c, Linked(f, n, c)
  PROVE  \A k \in 0..n : Walk(f, k) = c[k]
<1> DEFINE P == {k \in Nat : k <= n => Walk(f, k) = c[k]}
<1>1. 0 \in P
  BY WalkSteps DEF Linked, Links
<1>2. ASSUME NEW k \in P PROVE k + 1 \in P
  <2>1. SUFFICES ASSUME k + 1 <= n PROVE Walk(f, k + 1) = c[k + 1]
    OBVIOUS
  <2>2. k \in Nat /\ k \in 0..n /\ k \in 0..n - 1 /\ Walk(f, k) = c[k]
    BY <2>1
  <2>3. c[k] \in Files /\ fat[1][c[k]] = c[k + 1]
    BY <2>2 DEF Linked, Links
  <2>4. Walk(f, k + 1) = Follow(c[k])
    BY <2>2, WalkSteps
  <2> QED BY <2>3, <2>4, Sizes DEF Follow
<1>3. P = Nat
  <2>1. P \in SUBSET Nat
    OBVIOUS
  <2> HIDE DEF P
  <2> QED BY <1>1, <1>2, <2>1, NatBySteps
<1> QED BY <1>3

(* Only the file that is being freed can be dangling. *)
LEMMA NoneDangles ==
  ASSUME Owners
  PROVE  \A s \in Slots : Dangling(s) => BeingFreed(s)
BY DEF Owners, EntriesTaken, Dangling, DirRef

(* Links are only written to clusters without one. *)
Untied == \A x \in Files : fat'[1][x] # fat[1][x] => fat[1][x] \notin Files /\ fat'[1][x] # Free

(* Then files stay whole if entries are left as they are, emptied, or given a size     *)
(* their chain is long enough for.                                                     *)
LEMMA WholeKept ==
  ASSUME TypeInv, FilesWhole, Untied,
         \A s \in Slots : Live(s)' /\ ~Dangling(s)' =>
            \/ Empty(s)' \/ Whole(s)'
            \/ /\ Live(s) /\ ~Dangling(s)
               /\ dir'[s].first = dir[s].first /\ dir'[s].size = dir[s].size
  PROVE  FilesWhole'
<1> SUFFICES ASSUME NEW s \in Slots, Live(s)', ~Dangling(s)' PROVE Empty(s)' \/ Whole(s)'
  BY DEF FilesWhole
<1>1. SUFFICES ASSUME Live(s), ~Dangling(s), dir'[s].first = dir[s].first, dir'[s].size = dir[s].size
               PROVE  Empty(s)' \/ Whole(s)'
  OBVIOUS
<1>2. CASE Empty(s)
  BY <1>1, <1>2 DEF Empty
<1>3. CASE Whole(s)
  <2>1. PICK c : Linked(dir[s].first, Hops(dir[s].size), c)
    BY <1>3 DEF Whole
  <2>2. Hops(dir[s].size) \in Nat
    <3>1. dir[s].size \in Nat
      BY DEF TypeInv, TypeOK, Entries
    <3> QED BY <3>1, HopsType
  <2>3. Links(fat'[1], dir[s].first, Hops(dir[s].size), c)
    BY <2>1, <2>2, LinksKept DEF Linked, Untied
  <2> QED BY <1>1, <2>3 DEF Whole, Linked
<1> QED BY <1>1, <1>2, <1>3 DEF FilesWhole

(* The steps a call can be at that knows something. *)
LEMMA KnowsNothing == ASSUME ~On(op', OnSlot), op'.todo # <<>> => op'.done = 0 PROVE Known'
<1>1. \A steps \in SUBSET OnSlot : ~On(op', steps)
  BY DEF On
<1>2. /\ Adding \in SUBSET OnSlot /\ {"choose", "extend", "walk"} \in SUBSET OnSlot
      /\ {"free"} \in SUBSET OnSlot /\ {"clear", "erase"} \in SUBSET OnSlot
      /\ {"fill", "mark", "commit"} \in SUBSET OnSlot /\ {"mark"} \in SUBSET OnSlot
      /\ {"fill"} \in SUBSET OnSlot /\ Adding \cup {"patch"} \in SUBSET OnSlot
      /\ {"grow"} \in SUBSET OnSlot /\ {"mark_new", "link"} \in SUBSET OnSlot
      /\ {"resize"} \in SUBSET OnSlot /\ {"link"} \in SUBSET OnSlot
      /\ {"mark_new"} \in SUBSET OnSlot /\ {"patch", "grow", "mark_new"} \in SUBSET OnSlot
  BY DEF OnSlot, Working, StepNames, Adding
<1> QED BY <1>1, <1>2 DEF Known, Begun, Freed, OneCluster, Taken, Taking, Reached, Edge, Tailed,
           Marking, NextIsNew

(* A call that is over knows nothing. *)
LEMMA StoppedKnows == ASSUME op'.todo = <<>> PROVE Known'
BY KnowsNothing DEF On

(* The call after a step, field by field. *)
LEMMA NextFields ==
  ASSUME TypeInv, NEW a \in Working, At(a)
  PROVE  /\ \/ NextCall = Idle(TRUE)
            \/ /\ NextCall.todo = Tail(op.todo) /\ NextCall.todo # <<>>
               /\ MayFollow(a, Head(NextCall.todo))
               /\ NextCall.slot = op.slot /\ NextCall.cluster = op.cluster
               /\ NextCall.next = op.next /\ NextCall.copy = 1
               /\ NextCall.done = op.done /\ NextCall.buf = op.buf
         /\ a \notin Copying => Advance(op) = NextCall
<1>1. /\ \/ NextCall = Idle(TRUE) /\ a \in MayEnd
         \/ /\ NextCall.todo = Tail(op.todo) /\ NextCall.todo # <<>>
            /\ MayFollow(a, Head(NextCall.todo))
            /\ NextCall.slot = op.slot /\ NextCall.cluster = op.cluster
            /\ NextCall.next = op.next /\ NextCall.copy = 1
      /\ a \notin Copying => Advance(op) = NextCall
  BY NextStep
<1>2. op \in Calls
  BY DEF TypeInv, CallOK
<1>3. CASE Len(op.todo) = 1
  <2>1. [Idle(TRUE) EXCEPT !.copy = 1] = Idle(TRUE)
    BY DEF Idle
  <2> QED BY <1>1, <1>3, <2>1 DEF NextCall, Advance
<1>4. CASE Len(op.todo) # 1
  <2>1. NextCall = [[op EXCEPT !.todo = Tail(@)] EXCEPT !.copy = 1]
    BY <1>4 DEF NextCall, Advance
  <2>2. NextCall.done = op.done /\ NextCall.buf = op.buf
    BY <1>2, <2>1 DEF Calls
  <2>3. NextCall.todo = Tail(op.todo)
    BY <1>2, <2>1 DEF Calls
  <2> QED BY <1>1, <2>2, <2>3, IdleOK
<1> QED BY <1>3, <1>4

-----------------------------------------------------------------------------
(* Steps that write nothing to the directory or to the first copy of the FAT. *)
LEMMA SameWhole ==
  ASSUME TypeInv, FilesWhole, fat'[1] = fat[1], dir' = dir
  PROVE  FilesWhole'
<1>1. \A s \in Slots : (Live(s)' <=> Live(s)) /\ (Dangling(s)' <=> Dangling(s))
  BY DEF Live, Dangling
<1> QED BY <1>1, WholeKept DEF Untied

(* The first cluster is read from the entry. *)
LEMMA ChainFind == ASSUME Sound, Find PROVE Known' /\ FilesWhole'
<1>1. /\ At("find") /\ "find" \in Working /\ op.todo # <<>> /\ Head(op.todo) = "find"
      /\ op \in Calls /\ op.copy = 1 /\ Ordered(op.todo)
  BY TypeHere DEF Find, Working, StepNames, At, Copying, NamesInv, Sound
<1>2. PICK s \in Found(op.name) :
        op' = IF s = Missing THEN Idle(FALSE)
              ELSE Advance([op EXCEPT !.slot = s, !.cluster = dir[s].first])
  BY DEF Find
<1>3. FilesWhole'
  BY SameWhole DEF Find, disk, Sound, NamesInv
<1>4. CASE op'.todo = <<>>
  BY <1>3, <1>4, StoppedKnows
<1>5. CASE op'.todo # <<>>
  <2> DEFINE o == [op EXCEPT !.slot = s, !.cluster = dir[s].first]
  <2>1. Len(op.todo) # 1 /\ op' = [o EXCEPT !.todo = Tail(@)]
    <3>1. op' = Advance(o) /\ o.todo = op.todo
      BY <1>1, <1>2, <1>5, IdleOK DEF Calls
    <3> HIDE DEF o
    <3>2. Advance(o) # Idle(TRUE)
      BY <1>5, <3>1, IdleOK
    <3> QED BY <3>1, <3>2 DEF Advance
  <2>2. /\ op'.todo = Tail(op.todo) /\ op'.cluster = dir[s].first /\ op'.copy = 1
        /\ op'.slot = s /\ op'.done = op.done
    BY <1>1, <2>1 DEF Calls
  <2>3. MayFollow("find", Head(op'.todo))
    BY <1>1, <2>1, <2>2, OrderedTail
  <2>4. op.done = 0
    BY <1>1 DEF Sound, Known, Begun, On, Adding
  <2>5. First' = dir[s].first /\ ToFree' = First'
    BY <2>2 DEF Find, disk, First, ToFree
  <2>6. Begun' /\ Freed'
    BY <2>2, <2>3, <2>4, <2>5 DEF Begun, Freed, On, MayFollow
  <2>7. OneCluster' /\ Taken' /\ Reached' /\ Edge' /\ Tailed'
    BY <2>3 DEF OneCluster, Taken, Taking, Reached, Edge, Tailed, Marking, NextIsNew, On,
       MayFollow, Adding
  <2> QED BY <1>3, <2>6, <2>7 DEF Known
<1> QED BY <1>4, <1>5

(* The steps that end a call, or go on to one that looks the file up. *)
LEMMA ChainQuiet ==
  ASSUME Sound, CreateRefused \/ RenameRefused \/ GrowRefused \/ Extend
  PROVE  Known' /\ FilesWhole'
<1>1. FilesWhole'
  BY SameWhole DEF CreateRefused, RenameRefused, GrowRefused, Extend, Refuse, disk, Sound, NamesInv
<1>2. CASE CreateRefused \/ RenameRefused \/ GrowRefused
  BY <1>1, <1>2, IdleOK, StoppedKnows DEF CreateRefused, RenameRefused, GrowRefused, Refuse
<1>3. CASE Extend
  <2>1. op \in Calls /\ op.todo # <<>> /\ Head(op.todo) = "extend"
    BY <1>3 DEF Extend, At, Sound, NamesInv, TypeInv, CallOK
  <2>2. op.done = 0
    BY <2>1 DEF Sound, Known, Begun, On, Adding
  <2>3. op'.done = op.done /\ (op'.todo = <<"find", "choose">> \/ op'.todo = <<"find", "walk">>)
    BY <1>3, <2>1 DEF Extend, Instead, Calls
  <2>4. Head(op'.todo) = "find"
    BY <2>3
  <2>5. ~On(op', OnSlot)
    BY <2>4 DEF On, OnSlot, Working
  <2> QED BY <1>1, <2>2, <2>3, <2>5, KnowsNothing
<1> QED BY <1>2, <1>3

-----------------------------------------------------------------------------
(* The first cluster of a chain is the first to be freed: from then on the file is     *)
(* dangling.  What is freed is nobody else's.                                          *)
LEMMA FreesFirst ==
  ASSUME Sound, FreeCluster
  PROVE  /\ op.slot \in Slots /\ Live(op.slot) /\ dir' = dir /\ op.cluster \in Clusters
         /\ op.copy = 1 => op.cluster \in Files /\ OnlyOwn(op.cluster)
         /\ \A d \in Clusters : fat'[1][d] = IF op.copy = 1 /\ d = op.cluster THEN Free ELSE fat[1][d]
         /\ First \in Files /\ fat'[1][First] = Free
<1> DEFINE succ == IF op.copy = 1 THEN fat[1][op.cluster] ELSE op.next
           between == [op EXCEPT !.next = succ]
           after == [op EXCEPT !.cluster = succ, !.next = 0]
           k == op.cluster
<1>0. TypeInv /\ Owners
  BY DEF Sound, NamesInv
<1>1. /\ At("free") /\ "free" \in Working /\ op.todo # <<>> /\ Head(op.todo) = "free"
      /\ k \in Root..LastCluster /\ k \in Clusters /\ op.slot \in Slots
  BY <1>0, TypeHere, SizesAssumption DEF FreeCluster, Working, StepNames, OnSlot, At, Clusters, Root
<1>2. On(op, {"free"})
  BY <1>1 DEF On
<1>3. op.copy = 1 => k \in Files /\ OnlyOwn(k) /\ ToFree = k
  <2>1. ToFree \in {0, EOC} \cup Files /\ OnlyOwn(ToFree)
    BY <1>0, <1>2 DEF Owners, Owns, Freeable
  <2> QED BY <1>1, <2>1, SizesAssumption DEF ToFree, EOC, Root, Files
<1>4. /\ dir' = dir
      /\ \A d \in Clusters : fat'[1][d] = IF op.copy = 1 /\ d = k THEN Free ELSE fat[1][d]
  <2>1. WriteFat(k, Free, between, after)
    BY DEF FreeCluster
  <2> HIDE DEF between, after
  <2> QED BY <1>0, <1>1, <2>1, FatStep
<1>5. First \in {0} \cup Files /\ Live(op.slot)
  BY <1>0, <1>1 DEF Owners, Sane, First, Sound, NamesInv, OnLiveSlot, On, OnSlot, Working, StepNames
<1>6. First # 0 /\ fat'[1][First] = Free
  <2>1. CASE op.copy = 1 /\ k = First
    BY <1>1, <1>3, <1>4, <2>1, Sizes
  <2>2. CASE op.copy = 1 /\ k # First
    <3>1. First # 0 /\ fat[1][First] = Free
      BY <1>2, <1>3, <2>2 DEF Sound, Known, Freed
    <3> QED BY <1>4, <1>5, <3>1, Sizes
  <2>3. CASE op.copy # 1
    <3>1. First # 0 /\ fat[1][First] = Free
      BY <1>2, <2>3 DEF Sound, Known, Freed
    <3> QED BY <1>4, <1>5, <2>3, <3>1, Sizes
  <2> QED BY <2>1, <2>2, <2>3
<1> QED BY <1>1, <1>3, <1>4, <1>5, <1>6

(* No other file has a cluster of the chain that is freed. *)
LEMMA ChainFree == ASSUME Sound, FreeCluster, "cut" \notin harm' PROVE Known' /\ FilesWhole'
<1> DEFINE succ == IF op.copy = 1 THEN fat[1][op.cluster] ELSE op.next
           between == [op EXCEPT !.next = succ]
           after == [op EXCEPT !.cluster = succ, !.next = 0]
           k == op.cluster
<1>0. TypeInv /\ Owners
  BY DEF Sound, NamesInv
<1>1. /\ At("free") /\ "free" \in Working /\ op.todo # <<>> /\ Head(op.todo) = "free"
      /\ op \in Calls /\ k \in Root..LastCluster /\ k \in Clusters /\ op.slot \in Slots
  BY <1>0, TypeHere, SizesAssumption DEF FreeCluster, Working, StepNames, OnSlot, At, Clusters, Root
<1>2. On(op, {"free"}) /\ op.done = 0
  BY <1>1 DEF On, Sound, Known, Begun, Adding
<1>3. op.copy = 1 => k \in Files /\ OnlyOwn(k)
  BY FreesFirst
<1>4. /\ dir' = dir
      /\ \A d \in Clusters : fat'[1][d] = IF op.copy = 1 /\ d = k THEN Free ELSE fat[1][d]
      /\ \/ op'.todo = <<>> /\ \A s \in Slots : ~Dangling(s)'
         \/ op.copy < FatCount /\ op' = [between EXCEPT !.copy = @ + 1]
         \/ op' = [after EXCEPT !.copy = 1]
  <2>1. WriteFat(k, Free, between, after)
    BY DEF FreeCluster
  <2> HIDE DEF between, after
  <2> QED BY <1>0, <1>1, <2>1, FatStep
<1> PICK x : x = succ
  OBVIOUS
<1>5. \/ op'.todo = <<>>
      \/ /\ op'.todo = op.todo /\ op'.slot = op.slot /\ ToFree' = x /\ op'.done = op.done
  <2> HIDE DEF succ
  <2>1. CASE op.copy < FatCount /\ op' = [between EXCEPT !.copy = @ + 1]
    <3>1. /\ op'.todo = op.todo /\ op'.slot = op.slot /\ op'.next = succ /\ op'.done = op.done
          /\ op'.copy = op.copy + 1 /\ op.copy \in Nat /\ op.copy # 0
      BY <1>1, <2>1 DEF Calls
    <3> QED BY <3>1 DEF ToFree
  <2>2. CASE op' = [after EXCEPT !.copy = 1]
    <3>1. /\ op'.todo = op.todo /\ op'.slot = op.slot /\ op'.cluster = succ /\ op'.copy = 1
          /\ op'.done = op.done
      BY <1>1, <2>2 DEF Calls
    <3> QED BY <3>1 DEF ToFree
  <2> QED BY <1>4, <2>1, <2>2
<1>6. First \in Files /\ Live(op.slot) /\ fat'[1][First] = Free
  BY FreesFirst
<1>7. First # 0
  BY <1>6, Sizes
<1>8. Known'
  <2>1. CASE op'.todo = <<>>
    BY <2>1, StoppedKnows
  <2>2. CASE op'.todo # <<>>
    <3>1. op'.todo = op.todo /\ op'.slot = op.slot /\ op'.done = 0
      BY <1>2, <1>5, <2>2
    <3>2. First' = First
      BY <1>4, <3>1 DEF First
    <3>3. Freed'
      BY <1>1, <1>4, <1>6, <1>7, <3>1, <3>2 DEF Freed, On
    <3>4. Begun' /\ OneCluster' /\ Taken' /\ Reached' /\ Edge' /\ Tailed'
      BY <1>1, <3>1 DEF Begun, OneCluster, Taken, Taking, Reached, Edge, Tailed, Marking,
         NextIsNew, On, Adding
    <3> QED BY <3>3, <3>4 DEF Known
  <2> QED BY <2>1, <2>2
<1>9. ASSUME NEW s \in Slots, Live(s)', ~Dangling(s)' PROVE Empty(s)' \/ Whole(s)'
  <2>1. s # op.slot
    BY <1>4, <1>6, <1>7, <1>9 DEF Dangling, First
  <2>2. Live(s) /\ ~Dangling(s)
    <3>1. Live(s)
      BY <1>4, <1>9 DEF Live
    <3>2. ~BeingFreed(s)
      BY <2>1 DEF BeingFreed
    <3> QED BY <1>0, <3>1, <3>2, NoneDangles
  <2>3. CASE Empty(s)
    BY <1>4, <2>3 DEF Empty
  <2>4. CASE Whole(s)
    <3> DEFINE f == dir[s].first
               n == Hops(dir[s].size)
    <3>1. PICK c : Links(fat[1], f, n, c)
      BY <2>4 DEF Whole, Linked
    <3>2. n \in Nat
      <4>1. dir[s].size \in Nat
        BY <1>0 DEF TypeInv, TypeOK, Entries
      <4> QED BY <4>1, HopsType
    <3>3. ASSUME op.copy = 1 PROVE \A i \in 0..n : c[i] # k
      <4> SUFFICES ASSUME NEW i \in 0..n, c[i] = k PROVE FALSE
        OBVIOUS
      <4>1. k \in Files /\ OnlyOwn(k)
        BY <1>3, <3>3
      <4>2. CASE i = 0
        <5>1. f = k /\ DirRef(s)
          BY <2>2, <3>1, <4>1, <4>2, Sizes DEF Links, DirRef
        <5> QED BY <2>1, <4>1, <5>1 DEF OnlyOwn
      <4>3. CASE i # 0
        <5>1. i - 1 \in 0..n - 1 /\ i - 1 \in 0..n /\ (i - 1) + 1 = i
          BY <3>2, <4>3
        <5>2. c[i - 1] \in Files /\ fat[1][c[i - 1]] = k
          BY <3>1, <5>1 DEF Links
        <5> QED BY <4>1, <5>2 DEF OnlyOwn, FatRef
      <4> QED BY <4>2, <4>3
    <3>4. \A i \in 0..n : c[i] \in Files /\ fat'[1][c[i]] = fat[1][c[i]]
      <4>1. \A i \in 0..n : c[i] \in Files
        BY <3>1 DEF Links
      <4> QED BY <1>4, <3>3, <4>1, Sizes
    <3>5. Links(fat'[1], f, n, c)
      BY <3>1, <3>2, <3>4 DEF Links
    <3> QED BY <1>4, <3>5 DEF Whole, Linked
  <2> QED BY <2>2, <2>3, <2>4 DEF Sound, FilesWhole
<1> QED BY <1>8, <1>9 DEF FilesWhole

(* At the end of the chain its first cluster has been freed, if there was one. *)
LEMMA ChainFreeDone == ASSUME Sound, FreeDone PROVE Known' /\ FilesWhole'
<1>0. TypeInv /\ Owners
  BY DEF Sound, NamesInv
<1>1. /\ op.todo # <<>> /\ Head(op.todo) = "free" /\ op \in Calls /\ Ordered(op.todo)
      /\ op' = Advance(op) /\ fat' = fat /\ dir' = dir /\ op.cluster \notin Root..LastCluster
  BY <1>0 DEF FreeDone, At, TypeInv, CallOK, disk
<1>2. /\ Len(op.todo) # 1 /\ Tail(op.todo) # <<>>
      /\ Head(Tail(op.todo)) \in {"clear", "erase"}
  BY <1>1, OrderedTail DEF MayEnd, MayFollow
<1>3. op'.todo = Tail(op.todo) /\ op'.slot = op.slot /\ op'.done = op.done
  BY <1>1, <1>2 DEF Advance, Calls
<1>4. On(op, {"free"}) /\ op.done = 0 /\ op.slot \in Slots /\ op.copy = 1
  <2>1. On(op, {"free"}) /\ op.done = 0
    BY <1>1 DEF On, Sound, Known, Begun, Adding
  <2>2. op.slot \in Slots
    BY <1>0, <1>1 DEF TypeInv, CallOK, On, OnSlot, Working, StepNames
  <2>3. op.copy = 1
    BY <1>0, <1>1, <2>1 DEF TypeInv, CallOK
  <2> QED BY <2>1, <2>2, <2>3
<1>5. First = 0 \/ fat[1][First] = Free
  <2>1. CASE ToFree # First
    BY <1>4, <2>1 DEF Sound, Known, Freed
  <2>2. CASE ToFree = First
    <3>1. First \notin Files
      BY <1>1, <1>4, <2>2, Sizes DEF ToFree
    <3> QED BY <1>0, <1>4, <3>1 DEF Owners, Sane, First
  <2> QED BY <2>1, <2>2
<1>6. First' = First
  BY <1>1, <1>3 DEF First
<1>7. Begun' /\ Freed'
  BY <1>1, <1>2, <1>3, <1>4, <1>5, <1>6 DEF Begun, Freed, On
<1>8. OneCluster' /\ Taken' /\ Reached' /\ Edge' /\ Tailed'
  BY <1>2, <1>3 DEF OneCluster, Taken, Taking, Reached, Edge, Tailed, Marking, NextIsNew, On, Adding
<1>9. FilesWhole'
  BY <1>0, <1>1, SameWhole DEF Sound
<1> QED BY <1>7, <1>8, <1>9 DEF Known

-----------------------------------------------------------------------------
(* Steps that write one entry of the directory. *)
LEMMA WholeEntry ==
  ASSUME Sound, NEW h \in Slots, NEW e, dir' = [dir EXCEPT ![h] = e], fat' = fat,
         On(op, Freeing) => h = op.slot,
         \/ e.first = 0 /\ e.size = 0
         \/ e.name \notin Names
         \/ e.first = dir[h].first /\ e.size = dir[h].size /\ Live(h) /\ ~Dangling(h)
         \/ \E c : Linked(e.first, Hops(e.size), c)
  PROVE  FilesWhole'
<1>0. TypeInv /\ Owners /\ NamesInv /\ FilesWhole
  BY DEF Sound, NamesInv
<1>1. /\ dir'[h] = e
      /\ \A s \in Slots : s # h => dir'[s] = dir[s]
      /\ \A s \in Slots : s # h /\ Live(s)' => Live(s)
  BY <1>0, OtherLive
<1>2. Untied
  BY DEF Untied
<1>3. ASSUME NEW s \in Slots, Live(s)', ~Dangling(s)'
      PROVE  \/ Empty(s)' \/ Whole(s)'
             \/ /\ Live(s) /\ ~Dangling(s)
                /\ dir'[s].first = dir[s].first /\ dir'[s].size = dir[s].size
  <2>1. CASE s # h
    <3>1. Live(s) /\ dir'[s] = dir[s]
      BY <1>1, <1>3, <2>1
    <3>2. ~BeingFreed(s)
      BY <2>1 DEF BeingFreed
    <3> QED BY <1>0, <3>1, <3>2, NoneDangles
  <2>2. CASE s = h
    <3>1. dir'[h].name \in Names
      BY <1>3, <2>2 DEF Live
    <3>2. CASE e.first = 0 /\ e.size = 0
      BY <1>1, <2>2, <3>2 DEF Empty
    <3>3. CASE \E c : Linked(e.first, Hops(e.size), c)
      BY <1>1, <2>2, <3>3 DEF Whole, Linked
    <3>4. CASE e.first = dir[h].first /\ e.size = dir[h].size /\ Live(h) /\ ~Dangling(h)
      BY <1>1, <2>2, <3>4
    <3> QED BY <1>1, <3>1, <3>2, <3>3, <3>4
  <2> QED BY <2>1, <2>2
<1> QED BY <1>0, <1>2, <1>3, WholeKept

(* None of these steps is followed by one that knows anything but where it begins. *)
LEMMA EntryKnows ==
  ASSUME Sound, NEW a \in {"create", "rename", "clear", "erase", "commit", "resize"}, At(a),
         NEW h, Ends(Advance(op), h)
  PROVE  Known'
<1>0. TypeInv
  BY DEF Sound, NamesInv
<1>1. a \in Working /\ a \notin Copying
  BY DEF Working, StepNames, Copying
<1>2. op'.todo = <<>> \/ (op' = NextCall /\ MayFollow(a, Head(op'.todo)) /\ op'.done = op.done)
  BY <1>0, <1>1, NextFields, IdleOK DEF Ends
<1>3. CASE op'.todo = <<>>
  BY <1>3, StoppedKnows
<1>4. CASE op'.todo # <<>>
  <2>1. Head(op'.todo) = "find" /\ a \in {"create", "clear"}
    BY <1>2, <1>4 DEF MayFollow
  <2>2. op.done = 0
    BY <2>1 DEF Sound, Known, Begun, On, Adding, At
  <2>3. ~On(op', OnSlot)
    BY <2>1 DEF On, OnSlot, Working
  <2> QED BY <1>2, <1>4, <2>2, <2>3, KnowsNothing
<1> QED BY <1>3, <1>4

(* The new file is empty. *)
LEMMA ChainCreate == ASSUME Sound, CreateEntry PROVE Known' /\ FilesWhole'
<1> DEFINE h == Minimum(Holes)
           e == [name |-> op.name, first |-> 0, size |-> 0]
<1>1. /\ At("create") /\ Holes # {} /\ dir' = [dir EXCEPT ![h] = e] /\ fat' = fat
      /\ Ends(Advance(op), IF Misread(op.name, Missing) THEN {"fault", "misread"} ELSE {})
  BY DEF CreateEntry
<1>2. h \in Slots /\ e.first = 0 /\ e.size = 0
  BY <1>1, LowestHole
<1>3. Known'
  BY <1>1, EntryKnows
<1>4. ~On(op, Freeing)
  BY <1>1 DEF At, On, Freeing
<1> HIDE DEF h, e
<1>5. FilesWhole'
  BY <1>1, <1>2, <1>4, WholeEntry
<1> QED BY <1>3, <1>5

(* The entry of the file is removed, emptied, renamed, or given its new size: the      *)
(* chain reaches as far as the append has written.                                     *)
LEMMA ChainRewrite ==
  ASSUME Sound, RenameEntry \/ Clear \/ Erase \/ Resize
  PROVE  Known' /\ FilesWhole'
<1> DEFINE d == dir[op.slot]
           h == op.slot
<1>0. TypeInv /\ Owners /\ NamesInv
  BY DEF Sound, NamesInv
<1>1. On(op, OnSlot) /\ op.slot \in Slots /\ Live(op.slot) /\ op \in Calls
  BY <1>0, TypeHere DEF RenameEntry, Clear, Erase, Resize, At, On, OnSlot, Working, StepNames,
     NamesInv, OnLiveSlot
<1>2. d \in Entries /\ d.size \in Nat
  BY <1>0, <1>1 DEF TypeInv, TypeOK, Entries
<1>3. CASE RenameEntry
  <2> DEFINE e == [d EXCEPT !.name = op.new]
  <2>1. At("rename") /\ dir' = [dir EXCEPT ![h] = e] /\ fat' = fat
    BY <1>3 DEF RenameEntry
  <2>2. e.first = d.first /\ e.size = d.size
    BY <1>2 DEF Entries
  <2>3. ~On(op, Freeing)
    BY <2>1 DEF At, On, Freeing
  <2>4. ~Dangling(h)
    BY <1>0, <1>1, <2>3, NoneDangles DEF BeingFreed
  <2>5. Known'
    BY <1>3, EntryKnows DEF RenameEntry
  <2> HIDE DEF e
  <2> QED BY <1>1, <2>1, <2>2, <2>3, <2>4, <2>5, WholeEntry
<1>4. CASE Clear
  <2> DEFINE e == [d EXCEPT !.first = 0, !.size = 0]
  <2>1. dir' = [dir EXCEPT ![h] = e] /\ fat' = fat
    BY <1>4 DEF Clear, WriteDir
  <2>2. e.first = 0 /\ e.size = 0
    BY <1>2 DEF Entries
  <2>3. Known'
    BY <1>4, EntryKnows DEF Clear, WriteDir
  <2> HIDE DEF e
  <2> QED BY <1>1, <2>1, <2>2, <2>3, WholeEntry
<1>5. CASE Erase
  <2> DEFINE e == [name |-> "deleted", first |-> 0, size |-> 0]
  <2>1. dir' = [dir EXCEPT ![h] = e] /\ fat' = fat
    BY <1>5 DEF Erase, WriteDir
  <2>2. e.first = 0 /\ e.size = 0
    OBVIOUS
  <2>3. Known'
    BY <1>5, EntryKnows DEF Erase, WriteDir
  <2> HIDE DEF e
  <2> QED BY <1>1, <2>1, <2>2, <2>3, WholeEntry
<1>6. CASE Resize
  <2> DEFINE e == [d EXCEPT !.size = @ + Len(op.buf)]
  <2>1. At("resize") /\ dir' = [dir EXCEPT ![h] = e] /\ fat' = fat
    BY <1>6 DEF Resize, WriteDir
  <2>2. e.first = d.first /\ e.size = d.size + Len(op.buf)
    BY <1>2 DEF Entries
  <2>3. Known'
    BY <1>6, EntryKnows DEF Resize, WriteDir
  <2>4. On(op, Adding \cup {"patch"}) /\ On(op, {"resize"}) /\ ~On(op, Freeing)
    BY <2>1 DEF At, On, Adding, Freeing
  <2>5. op.done = Len(op.buf) /\ \E c : Linked(First, Hops(Full), c)
    BY <2>4 DEF Sound, Known, Reached, Edge
  <2> HIDE DEF e
  <2>6. \E c : Linked(e.first, Hops(e.size), c)
    BY <2>2, <2>5 DEF First, Full
  <2> QED BY <1>1, <2>1, <2>3, <2>4, <2>6, WholeEntry
<1> QED BY <1>3, <1>4, <1>5, <1>6

(* A file of one cluster. *)
LEMMA OneLink ==
  ASSUME NEW t, NEW x \in Files, t[x] # Free
  PROVE  \E c : Links(t, x, 0, c) /\ c[0] = x
<1> DEFINE c == [k \in 0..0 |-> x]
<1>1. c \in [0..0 -> Files] /\ c[0] = x /\ \A k \in 0..0 : c[k] = x
  OBVIOUS
<1>2. 0..0 - 1 = {}
  OBVIOUS
<1> HIDE DEF c
<1>3. Links(t, x, 0, c)
  BY <1>1, <1>2 DEF Links
<1> QED BY <1>1, <1>3

(* The file is given its only cluster, which is in use by now and large enough. *)
LEMMA ChainCommit == ASSUME Sound, Commit PROVE Known' /\ FilesWhole'
<1> DEFINE d == dir[op.slot]
           e == [d EXCEPT !.first = op.cluster, !.size = Len(op.buf)]
           h == op.slot
<1>0. TypeInv /\ Owners /\ NamesInv
  BY DEF Sound, NamesInv
<1>1. /\ At("commit") /\ h \in Slots /\ Live(h)
      /\ On(op, {"fill", "mark", "commit"}) /\ On(op, {"commit"}) /\ ~On(op, Freeing)
  BY <1>0, TypeHere DEF Commit, At, On, OnSlot, Working, StepNames, NamesInv, OnLiveSlot, Freeing
<1>2. d \in Entries
  BY <1>0, <1>1 DEF TypeInv, TypeOK
<1>3. e.first = op.cluster /\ e.size = Len(op.buf)
  BY <1>2 DEF Entries
<1>4. dir' = [dir EXCEPT ![h] = e] /\ fat' = fat /\ Ends(Advance(op), {})
  BY DEF Commit, WriteDir
<1>5. Known'
  BY <1>1, <1>4, EntryKnows
<1>6. op.cluster \in Files /\ fat[1][op.cluster] # Free
  BY <1>0, <1>1 DEF Owners, Owns, Writable, Marked, InUse
<1>7. Hops(Len(op.buf)) = 0
  <2>1. op.buf # <<>> /\ ~(Len(op.buf) > ClusterSize)
    BY <1>1 DEF Sound, Known, OneCluster
  <2>2. Len(op.buf) \in Nat /\ (op.buf # <<>> => Len(op.buf) # 0)
    <3>1. op.buf \in Seq(Nat \ {0})
      BY <1>0, Buffered DEF TypeInv, CallOK, Calls
    <3> QED BY <3>1
  <2>3. 0 * ClusterSize = 0 /\ (0 + 1) * ClusterSize = ClusterSize
    BY SizesAssumption
  <2> DEFINE n == Len(op.buf)
  <2>4. 0 * ClusterSize < n /\ n <= (0 + 1) * ClusterSize /\ n \in Nat
    BY <2>1, <2>2, <2>3, SizesAssumption
  <2> HIDE DEF n
  <2>5. Hops(n) = 0
    BY <2>4, HopsIs
  <2> QED BY <2>5 DEF n
<1> HIDE DEF e, h, d
<1>8. \E c : Linked(e.first, Hops(e.size), c)
  BY <1>3, <1>6, <1>7, OneLink DEF Linked
<1>9. FilesWhole'
  BY <1>1, <1>4, <1>8, WholeEntry
<1> QED BY <1>5, <1>9

-----------------------------------------------------------------------------
(* fs_write_file: a free cluster or the only one of the file is filled. *)
LEMMA ChainChoose == ASSUME Sound, Choose PROVE Known' /\ FilesWhole'
<1> DEFINE fresh == <<"fill", "mark", "commit">>
           over == <<"fill", "commit">>
           low == Minimum(FreeClusters)
<1>0. TypeInv /\ Owners /\ NamesInv
  BY DEF Sound, NamesInv
<1>1. /\ At("choose") /\ op.todo # <<>> /\ Head(op.todo) = "choose" /\ op \in Calls /\ op.copy = 1
  BY <1>0, TypeHere DEF Choose, Working, StepNames, At, Copying
<1>2. fat' = fat /\ dir' = dir
  BY DEF Choose, disk
<1>3. FilesWhole'
  BY <1>0, <1>2, SameWhole DEF Sound
<1>4. op.cluster = First /\ op.done = 0
  BY <1>1 DEF Sound, Known, Begun, On, Adding
<1>5. CASE op' \in {Idle(FALSE), Idle(TRUE)}
  BY <1>3, <1>5, IdleOK, StoppedKnows
<1>6. ASSUME NEW c, NEW steps \in {fresh, over}, op.buf # <<>>, ~(Len(op.buf) > ClusterSize),
             op' = [Instead(steps) EXCEPT !.cluster = c],
             First \in {0, c}, steps = fresh => First = 0 /\ fat[1][c] = Free
      PROVE  Known'
  <2>1. /\ op'.todo = steps /\ op'.cluster = c /\ op'.slot = op.slot /\ op'.buf = op.buf
        /\ op'.done = op.done /\ op'.copy = 1
    BY <1>1, <1>6 DEF Instead, Calls
  <2>2. Head(steps) = "fill" /\ (Head(Tail(steps)) = "mark" => steps = fresh)
    BY <1>6
  <2> HIDE DEF fresh, over
  <2>3. First' = First
    BY <1>2, <2>1 DEF First
  <2>4. OneCluster'
    BY <1>6, <2>1, <2>3 DEF OneCluster
  <2>5. Taken'
    BY <1>2, <1>6, <2>1, <2>2, <2>3 DEF Taken, Taking, On
  <2>6. Begun' /\ Freed' /\ Reached' /\ Edge' /\ Tailed'
    BY <1>4, <2>1, <2>2 DEF Begun, Freed, Reached, Edge, Tailed, Marking, NextIsNew, On, Adding
  <2> QED BY <2>4, <2>5, <2>6 DEF Known
<1>7. CASE op.buf # <<>> /\ ~(Len(op.buf) > ClusterSize) /\ op.cluster = 0 /\ FreeClusters # {}
           /\ op' = [Instead(fresh) EXCEPT !.cluster = low]
  <2>1. fat[1][low] = Free
    BY <1>7, LowestFree DEF FreeClusters
  <2> HIDE DEF low
  <2> QED BY <1>3, <1>4, <1>6, <1>7, <2>1
<1>8. CASE op.buf # <<>> /\ ~(Len(op.buf) > ClusterSize) /\ op' = Instead(over)
  <2>1. op' = [Instead(over) EXCEPT !.cluster = op.cluster] /\ over # fresh
    BY <1>0, <1>8, InsteadSame
  <2> HIDE DEF fresh, over
  <2> QED BY <1>3, <1>4, <1>6, <1>8, <2>1
<1> QED BY <1>5, <1>7, <1>8, Chosen

(* Data is written; the tables stay. *)
LEMMA ChainFill == ASSUME Sound, Fill PROVE Known' /\ FilesWhole'
<1>0. TypeInv /\ Owners /\ NamesInv
  BY DEF Sound, NamesInv
<1>1. /\ At("fill") /\ "fill" \in Working /\ op.todo # <<>> /\ Head(op.todo) = "fill"
      /\ op \in Calls /\ op.copy = 1 /\ "fill" \notin Copying
  BY <1>0, TypeHere DEF Fill, Working, StepNames, At, Copying
<1>2. On(op, {"fill", "mark", "commit"}) /\ On(op, {"fill"}) /\ op.done = 0
  BY <1>1 DEF On, Sound, Known, Begun, Adding
<1>3. fat' = fat /\ dir' = dir
  BY DEF Fill, WriteData
<1>4. FilesWhole'
  BY <1>0, <1>3, SameWhole DEF Sound
<1>5. Ends(Advance(op), {})
  BY <1>0, <1>2 DEF Fill, WriteData, Owners, Owns, Writable
<1>6. op'.todo = <<>> \/ op' = NextCall
  BY <1>0, <1>1, <1>5, NextFields, IdleOK DEF Ends
<1>7. CASE op'.todo = <<>>
  BY <1>4, <1>7, StoppedKnows
<1>8. CASE op'.todo # <<>>
  <2>1. /\ op'.todo = Tail(op.todo) /\ MayFollow("fill", Head(op'.todo))
        /\ op'.slot = op.slot /\ op'.cluster = op.cluster /\ op'.copy = 1
        /\ op'.done = op.done /\ op'.buf = op.buf
    BY <1>0, <1>1, <1>6, <1>8, NextFields, IdleOK
  <2>2. First' = First
    BY <1>3, <2>1 DEF First
  <2>3. OneCluster'
    BY <1>2, <2>1, <2>2 DEF Sound, Known, OneCluster
  <2>4. Taken'
    <3>1. CASE Head(op'.todo) = "mark"
      <4>1. Taking
        BY <1>2, <1>8, <2>1, <3>1 DEF Taking
      <4> QED BY <1>1, <1>3, <2>1, <2>2, <4>1 DEF Sound, Known, Taken
    <3>2. CASE Head(op'.todo) = "commit"
      BY <3>2 DEF Taken, Taking, On
    <3> QED BY <2>1, <3>1, <3>2 DEF MayFollow
  <2>5. Begun' /\ Freed' /\ Reached' /\ Edge' /\ Tailed'
    BY <1>2, <2>1 DEF Begun, Freed, Reached, Edge, Tailed, Marking, NextIsNew, On, Adding,
       MayFollow
  <2> QED BY <1>4, <2>3, <2>4, <2>5 DEF Known
<1> QED BY <1>7, <1>8

(* An entry of the FAT is written that had no link: every chain stays. *)
LEMMA WriteWhole ==
  ASSUME Sound, NEW x \in Files, NEW v, v # Free, dir' = dir, ~On(op, Freeing),
         \A d \in Clusters : fat'[1][d] = IF op.copy = 1 /\ d = x THEN v ELSE fat[1][d],
         op.copy = 1 => fat[1][x] \notin Files
  PROVE  Untied /\ FilesWhole'
<1>0. TypeInv /\ Owners
  BY DEF Sound, NamesInv
<1>1. Untied
  BY Sizes DEF Untied
<1>2. ASSUME NEW s \in Slots, Live(s)', ~Dangling(s)'
      PROVE  /\ Live(s) /\ ~Dangling(s)
             /\ dir'[s].first = dir[s].first /\ dir'[s].size = dir[s].size
  <2>1. Live(s)
    BY <1>2 DEF Live
  <2>2. ~Dangling(s)
    BY <1>0, NoneDangles DEF BeingFreed
  <2> QED BY <2>1, <2>2
<1> QED BY <1>0, <1>1, <1>2, WholeKept DEF Sound

(* The free cluster that is marked is in nobody's chain. *)
LEMMA ChainMark == ASSUME Sound, Mark PROVE Known' /\ FilesWhole'
<1>0. TypeInv /\ Owners /\ NamesInv
  BY DEF Sound, NamesInv
<1>1. /\ At("mark") /\ "mark" \in Working /\ op.todo # <<>> /\ Head(op.todo) = "mark"
      /\ op \in Calls
  BY <1>0, TypeHere DEF Mark, Working, StepNames, At
<1>2. On(op, {"fill", "mark", "commit"}) /\ On(op, {"mark"}) /\ op.done = 0 /\ ~On(op, Freeing)
  BY <1>1 DEF On, Sound, Known, Begun, Adding, Freeing
<1>3. /\ op.cluster \in Files /\ First = 0
      /\ op.copy = 1 => fat[1][op.cluster] = Free
  BY <1>0, <1>2 DEF Owners, Owns, Writable, Sound, Known, Taken, Taking
<1>4. /\ dir' = dir
      /\ \A d \in Clusters : fat'[1][d] = IF op.copy = 1 /\ d = op.cluster THEN EOC ELSE fat[1][d]
      /\ \/ op'.todo = <<>>
         \/ op.copy < FatCount /\ op' = [op EXCEPT !.copy = @ + 1]
         \/ op' = NextCall
  BY <1>0, <1>3, FatStep, Sizes DEF Mark, NextCall
<1>5. op.copy = 1 => fat[1][op.cluster] \notin Files
  <2>1. Free \notin Files
    BY Sizes DEF Free
  <2> QED BY <1>3, <2>1
<1>6. FilesWhole'
  <2> DEFINE x == op.cluster
  <2>1. /\ x \in Files /\ EOC # Free /\ dir' = dir /\ ~On(op, Freeing)
        /\ op.copy = 1 => fat[1][x] \notin Files
    BY <1>2, <1>3, <1>4, <1>5, Sizes DEF Free
  <2>2. \A d \in Clusters : fat'[1][d] = IF op.copy = 1 /\ d = x THEN EOC ELSE fat[1][d]
    BY <1>4
  <2> HIDE DEF x
  <2> QED BY <2>1, <2>2, WriteWhole
<1>7. CASE op'.todo = <<>>
  BY <1>6, <1>7, StoppedKnows
<1>8. CASE op'.todo # <<>>
  <2>1. /\ op'.slot = op.slot /\ op'.cluster = op.cluster /\ op'.done = 0 /\ op'.buf = op.buf
        /\ \/ Head(op'.todo) = "mark" /\ op'.copy # 1
           \/ Head(op'.todo) = "commit"
    <3>1. CASE op.copy < FatCount /\ op' = [op EXCEPT !.copy = @ + 1]
      <4>1. op'.copy = op.copy + 1 /\ op.copy \in Nat /\ op.copy # 0
        BY <1>1, <3>1 DEF Calls
      <4>2. op'.todo = op.todo /\ op'.slot = op.slot /\ op'.cluster = op.cluster
            /\ op'.done = op.done /\ op'.buf = op.buf
        BY <1>1, <3>1 DEF Calls
      <4> QED BY <1>1, <1>2, <4>1, <4>2
    <3>2. CASE op' = NextCall
      BY <1>0, <1>1, <1>2, <1>8, <3>2, NextFields, IdleOK DEF MayFollow
    <3> QED BY <1>4, <1>8, <3>1, <3>2
  <2>2. First' = First
    BY <1>4, <2>1 DEF First
  <2>3. OneCluster'
    BY <1>2, <2>1, <2>2 DEF Sound, Known, OneCluster
  <2>4. Taken'
    BY <1>3, <2>1, <2>2 DEF Taken, Taking, On
  <2>5. Begun' /\ Freed' /\ Reached' /\ Edge' /\ Tailed'
    BY <2>1 DEF Begun, Freed, Reached, Edge, Tailed, Marking, NextIsNew, On, Adding
  <2> QED BY <1>6, <2>3, <2>4, <2>5 DEF Known
<1> QED BY <1>7, <1>8

-----------------------------------------------------------------------------
(* fs_append_file.  It stands on the last cluster of a file that is whole. *)
LEMMA ChainWalk == ASSUME Sound, WalkToEnd PROVE Known' /\ FilesWhole'
<1> DEFINE size == dir[op.slot].size
           tail == Walk(op.cluster, Hops(size))
           full == <<"grow", "resize">>
           part == <<"patch">> \o full
<1>0. TypeInv /\ Owners /\ NamesInv
  BY DEF Sound, NamesInv
<1>1. /\ At("walk") /\ op.todo # <<>> /\ Head(op.todo) = "walk" /\ op \in Calls /\ op.copy = 1
      /\ op.slot \in Slots
  BY <1>0, TypeHere DEF WalkToEnd, Working, StepNames, OnSlot, At, Copying
<1>2. fat' = fat /\ dir' = dir
  BY DEF WalkToEnd, disk
<1>3. FilesWhole'
  BY <1>0, <1>2, SameWhole DEF Sound
<1>4. op.cluster = First /\ op.done = 0 /\ Live(op.slot) /\ ~Dangling(op.slot)
  <2>1. op.cluster = First /\ op.done = 0
    BY <1>1 DEF Sound, Known, Begun, On, Adding
  <2>2. Live(op.slot) /\ ~On(op, Freeing)
    BY <1>0, <1>1 DEF NamesInv, OnLiveSlot, On, OnSlot, Working, StepNames, Freeing
  <2> QED BY <1>0, <1>1, <2>1, <2>2, NoneDangles DEF BeingFreed
<1>5. \/ op' = Idle(FALSE)
      \/ /\ ~(op.cluster < Root) /\ Follow(tail) = EOC
         /\ \E s \in {part, full} : /\ op' = [Instead(s) EXCEPT !.cluster = tail]
                                    /\ s = full => ~(Offset(size) < ClusterSize)
  <2>1. <<>> \o full = full /\ part # full
    OBVIOUS
  <2> HIDE DEF full, part, tail
  <2> QED BY <2>1 DEF WalkToEnd, tail, part, full
<1>6. CASE op' = Idle(FALSE)
  BY <1>3, <1>6, IdleOK, StoppedKnows
<1>7. ASSUME NEW s \in {part, full}, op' = [Instead(s) EXCEPT !.cluster = tail],
             s = full => ~(Offset(size) < ClusterSize),
             ~(op.cluster < Root), Follow(tail) = EOC
      PROVE  Known'
  <2>1. s # <<>> /\ (Head(s) = "patch" \/ (Head(s) = "grow" /\ s = full))
    BY <1>7
  <2> HIDE DEF full, part, tail
  <2>2. /\ op'.todo = s /\ op'.cluster = tail /\ op'.slot = op.slot /\ op'.buf = op.buf
        /\ op'.done = 0 /\ op'.copy = 1
    BY <1>1, <1>4, <1>7 DEF Instead, Calls
  <2>3. size \in Nat /\ Hops(size) \in Nat
    <3>1. size \in Nat
      BY <1>0, <1>1 DEF TypeInv, TypeOK, Entries
    <3> QED BY <3>1, HopsType
  <2>4. First # 0
    BY <1>4, <1>7 DEF Root
  <2>5. PICK c : Linked(First, Hops(size), c)
    BY <1>1, <1>4, <2>4 DEF Sound, FilesWhole, Empty, Whole, First
  <2>6. tail = c[Hops(size)] /\ tail \in Files
    <3>1. Hops(size) \in 0..Hops(size)
      BY <2>3
    <3>2. c[Hops(size)] \in Files
      BY <2>5, <3>1 DEF Linked, Links
    <3> QED BY <1>4, <2>3, <2>5, <3>1, <3>2, LinkedWalk DEF tail
  <2>7. fat[1][tail] = EOC
    BY <1>7, <2>6, Sizes DEF Follow
  <2>8. First' = First /\ Full' = size
    <3>1. First' = First
      BY <1>2, <2>2 DEF First
    <3>2. Full' = size + 0
      BY <1>2, <2>2 DEF Full
    <3> QED BY <2>3, <3>1, <3>2
  <2>9. Reached'
    BY <1>2, <2>2, <2>5, <2>6, <2>8 DEF Reached, Linked
  <2>10. Edge'
    <3>1. Head(s) = "grow" => size = (Hops(size) + 1) * ClusterSize
      BY <1>7, <2>1, <2>3, OffsetEdge
    <3>2. Head(s) = "grow" => AtEdge'
      BY <2>8, <3>1 DEF AtEdge
    <3> QED BY <2>1, <2>2, <3>2 DEF Edge, On
  <2>11. Tailed'
    BY <1>2, <2>1, <2>2, <2>7 DEF Tailed, Marking, NextIsNew, On
  <2>12. Begun' /\ Freed' /\ OneCluster' /\ Taken'
    BY <2>1, <2>2 DEF Begun, Freed, OneCluster, Taken, Taking, On, Adding
  <2> QED BY <2>9, <2>10, <2>11, <2>12 DEF Known
<1> QED BY <1>3, <1>5, <1>6, <1>7

(* What fits into the last cluster is written there; then that one is full or all is written. *)
LEMMA ChainPatch == ASSUME Sound, Patch PROVE Known' /\ FilesWhole'
<1> DEFINE size == dir[op.slot].size
           room == ClusterSize - Offset(size)
           n == Smaller(room, Len(op.buf))
           o == [Advance(op) EXCEPT !.done = n]
<1>0. TypeInv /\ Owners /\ NamesInv
  BY DEF Sound, NamesInv
<1>1. /\ At("patch") /\ "patch" \in Working /\ op.todo # <<>> /\ Head(op.todo) = "patch"
      /\ op \in Calls /\ op.slot \in Slots /\ "patch" \notin Copying
  BY <1>0, TypeHere DEF Patch, Working, StepNames, OnSlot, At, Copying
<1>2. On(op, Adding \cup {"patch"}) /\ On(op, {"patch", "grow", "mark_new"}) /\ op.done = 0
  BY <1>1 DEF On, Sound, Known, Begun, Adding
<1>3. size \in Nat /\ Full = size /\ Hops(size) \in Nat
  <2>1. size \in Nat
    BY <1>0, <1>1 DEF TypeInv, TypeOK, Entries
  <2>2. Full = size + 0
    BY <1>2 DEF Full
  <2> QED BY <2>1, <2>2, HopsType
<1>4. PICK c : Linked(First, Hops(size), c) /\ c[Hops(size)] = op.cluster
  BY <1>2, <1>3 DEF Sound, Known, Reached
<1>5. op.cluster \in Files /\ fat[1][op.cluster] = EOC
  <2>1. Hops(size) \in 0..Hops(size)
    BY <1>3
  <2> QED BY <1>2, <1>4, <2>1 DEF Linked, Links, Sound, Known, Tailed
<1>6. fat' = fat /\ dir' = dir /\ Ends(o, {})
  BY <1>5 DEF Patch, WriteData
<1>7. FilesWhole'
  BY <1>0, <1>6, SameWhole DEF Sound
<1>8. n \in Nat /\ n <= room /\ (n < Len(op.buf) => n = room)
  <2>1. room \in Nat
    <3>1. Offset(size) < ClusterSize
      BY <1>0, <1>1 DEF TypeInv
    <3>2. Offset(size) \in Int
      BY <1>3, HopsType
    <3> QED BY <3>1, <3>2, SizesAssumption
  <2>2. Len(op.buf) \in Nat
    BY <1>0, Buffered DEF TypeInv, CallOK, Calls
  <2> HIDE DEF room
  <2> QED BY <2>1, <2>2 DEF Smaller
<1>9. /\ Hops(size + n) = Hops(size)
      /\ n < Len(op.buf) => size + n = (Hops(size + n) + 1) * ClusterSize
  <2> HIDE DEF n, size
  <2> QED BY <1>3, <1>8, HopsSame
<1>10. CASE op'.todo = <<>>
  BY <1>7, <1>10, StoppedKnows
<1>11. CASE op'.todo # <<>>
  <2>1. op' = o
    BY <1>6, <1>11, IdleOK DEF Ends
  <2>2. /\ o.todo = Advance(op).todo /\ o.slot = Advance(op).slot
        /\ o.cluster = Advance(op).cluster /\ o.buf = Advance(op).buf
        /\ o.copy = Advance(op).copy /\ o.done = n
    <3> HIDE DEF n
    <3> QED BY <1>1 DEF Advance, Calls, Idle
  <2>3. NextCall # Idle(TRUE) /\ Advance(op) = NextCall
    <3> HIDE DEF n, o
    <3> QED BY <1>0, <1>1, <1>11, <2>1, <2>2, NextFields, IdleOK
  <2> HIDE DEF n, o
  <2>4. /\ op'.todo = Tail(op.todo) /\ MayFollow("patch", Head(op'.todo))
        /\ op'.slot = op.slot /\ op'.cluster = op.cluster /\ op'.buf = op.buf /\ op'.copy = 1
    BY <1>0, <1>1, <2>1, <2>2, <2>3, NextFields
  <2>5. op'.done = n
    BY <2>1, <2>2
  <2>6. First' = First /\ Full' = size + n
    BY <1>6, <2>4, <2>5 DEF First, Full
  <2> HIDE DEF size
  <2>7. Reached'
    BY <1>4, <1>6, <1>9, <2>4, <2>6 DEF Reached, Linked
  <2>8. Edge'
    BY <1>9, <2>4, <2>5, <2>6 DEF Edge, AtEdge, On, MayFollow
  <2>9. Tailed'
    BY <1>5, <1>6, <2>4 DEF Tailed, Marking, NextIsNew, On, MayFollow
  <2>10. Begun' /\ Freed' /\ OneCluster' /\ Taken'
    BY <2>4 DEF Begun, Freed, OneCluster, Taken, Taking, On, Adding, MayFollow
  <2> QED BY <1>7, <2>7, <2>8, <2>9, <2>10 DEF Known
<1> QED BY <1>10, <1>11

(* The next cluster to be added is free, so it is not the one the chain ends in. *)
LEMMA ChainGrow == ASSUME Sound, Grow PROVE Known' /\ FilesWhole'
<1> DEFINE low == Minimum(FreeClusters)
           more == <<"mark_new", "link">> \o op.todo
           o == [op EXCEPT !.todo = more, !.next = low]
<1>0. TypeInv /\ Owners
  BY DEF Sound, NamesInv
<1>1. /\ At("grow") /\ "grow" \in Working /\ op.todo # <<>> /\ Head(op.todo) = "grow"
      /\ op \in Calls /\ op.copy = 1 /\ Ordered(op.todo)
  BY <1>0, TypeHere DEF Grow, Working, StepNames, At, Copying
<1>2. /\ ~On(op, Freeing) /\ On(op, {"grow"}) /\ On(op, Adding \cup {"patch"})
      /\ On(op, {"patch", "grow", "mark_new"})
  BY <1>1 DEF On, Freeing, Adding
<1>3. low \in Files /\ fat[1][low] = Free /\ op.done < Len(op.buf)
  BY <1>0, <1>2, FreeIsNoOnes, LowestFree DEF Grow, FreeClusters
<1>4. fat' = fat /\ dir' = dir
  BY DEF Grow, WriteData
<1>5. FilesWhole'
  BY <1>0, <1>4, SameWhole DEF Sound
<1>6. PICK units : WriteData(low, units, o)
  BY DEF Grow
<1>7. Head(more) = "mark_new" /\ more # <<>>
  BY <1>1, OrderedGrow
<1>8. /\ o.todo = more /\ o.next = low /\ o.copy = 1 /\ o.slot = op.slot
      /\ o.cluster = op.cluster /\ o.done = op.done /\ o.buf = op.buf
  BY <1>1 DEF Calls
<1> HIDE DEF low, more, o
<1>9. op' = o \/ op'.todo = <<>>
  BY <1>3, <1>6, IdleOK DEF WriteData, Ends
<1>10. CASE op' = o
  <2>1. First' = First /\ Full' = Full
    BY <1>4, <1>8, <1>10 DEF First, Full
  <2>2. \E c : Linked(First, Hops(Full), c) /\ c[Hops(Full)] = op.cluster
    BY <1>2 DEF Sound, Known, Reached
  <2>3. Reached'
    BY <1>4, <1>8, <1>10, <2>1, <2>2 DEF Reached, Linked
  <2>4. Edge'
    <3>1. AtEdge
      BY <1>2, <1>3 DEF Sound, Known, Edge
    <3> QED BY <1>3, <1>7, <1>8, <1>10, <2>1, <3>1 DEF Edge, AtEdge, On
  <2>5. Tailed'
    <3>1. fat[1][op.cluster] = EOC
      BY <1>2 DEF Sound, Known, Tailed
    <3>2. low # op.cluster
      BY <1>3, <3>1, Sizes
    <3> QED BY <1>3, <1>4, <1>7, <1>8, <1>10, <3>1, <3>2 DEF Tailed, Marking, NextIsNew, On
  <2>6. Begun' /\ Freed' /\ OneCluster' /\ Taken'
    BY <1>7, <1>8, <1>10 DEF Begun, Freed, OneCluster, Taken, Taking, On, Adding
  <2> QED BY <1>5, <2>3, <2>4, <2>5, <2>6 DEF Known
<1> QED BY <1>5, <1>9, <1>10, StoppedKnows

(* Once all is written the entry gets the size the chain has been made for. *)
LEMMA ChainGrowDone == ASSUME Sound, GrowDone PROVE Known' /\ FilesWhole'
<1>0. TypeInv
  BY DEF Sound, NamesInv
<1>1. /\ At("grow") /\ "grow" \in Working /\ "grow" \notin Copying
      /\ op.todo # <<>> /\ Head(op.todo) = "grow"
      /\ op' = Advance(op) /\ fat' = fat /\ dir' = dir /\ op.done = Len(op.buf)
  BY DEF GrowDone, Working, StepNames, Copying, At, disk
<1>2. FilesWhole'
  BY <1>0, <1>1, SameWhole DEF Sound
<1>3. CASE op'.todo = <<>>
  BY <1>2, <1>3, StoppedKnows
<1>4. CASE op'.todo # <<>>
  <2>1. /\ MayFollow("grow", Head(op'.todo)) /\ op'.slot = op.slot /\ op'.cluster = op.cluster
        /\ op'.done = op.done /\ op'.buf = op.buf
    BY <1>0, <1>1, <1>4, NextFields, IdleOK
  <2>2. First' = First /\ Full' = Full
    BY <1>1, <2>1 DEF First, Full
  <2>3. On(op, Adding \cup {"patch"})
    BY <1>1 DEF On, Adding
  <2>4. \E c : Linked(First, Hops(Full), c) /\ c[Hops(Full)] = op.cluster
    BY <2>3 DEF Sound, Known, Reached
  <2>5. Reached'
    BY <1>1, <2>1, <2>2, <2>4 DEF Reached, Linked
  <2>6. Edge' /\ Tailed'
    BY <1>1, <2>1 DEF Edge, Tailed, Marking, NextIsNew, On, MayFollow
  <2>7. Begun' /\ Freed' /\ OneCluster' /\ Taken'
    BY <2>1 DEF Begun, Freed, OneCluster, Taken, Taking, On, Adding, MayFollow
  <2> QED BY <1>2, <2>5, <2>6, <2>7 DEF Known
<1> QED BY <1>3, <1>4

(* The new cluster ends the chain before it is linked to it. *)
LEMMA ChainMarkNew == ASSUME Sound, MarkNew PROVE Known' /\ FilesWhole'
<1>0. TypeInv /\ Owners
  BY DEF Sound, NamesInv
<1>1. /\ At("mark_new") /\ "mark_new" \in Working /\ op.todo # <<>> /\ Head(op.todo) = "mark_new"
      /\ op \in Calls
  BY <1>0, TypeHere DEF MarkNew, Working, StepNames, At
<1>2. /\ On(op, {"mark_new"}) /\ On(op, {"mark_new", "link"}) /\ ~On(op, Freeing)
      /\ On(op, Adding \cup {"patch"}) /\ On(op, {"patch", "grow", "mark_new"})
  BY <1>1 DEF On, Freeing, Adding
<1>3. /\ op.next \in Files /\ op.next # op.cluster /\ fat[1][op.cluster] = EOC
      /\ IF op.copy = 1 THEN fat[1][op.next] = Free ELSE fat[1][op.next] = EOC
  BY <1>0, <1>2 DEF Owners, Owns, Linkable, Sound, Known, Tailed, Marking, NextIsNew
<1>4. /\ dir' = dir
      /\ \A d \in Clusters : fat'[1][d] = IF op.copy = 1 /\ d = op.next THEN EOC ELSE fat[1][d]
      /\ \/ op'.todo = <<>>
         \/ op.copy < FatCount /\ op' = [op EXCEPT !.copy = @ + 1]
         \/ op' = NextCall
  BY <1>0, <1>3, FatStep, Sizes DEF MarkNew, NextCall
<1>5. Untied /\ FilesWhole'
  <2>1. Free \notin Files /\ EOC \notin Files /\ EOC # Free
    BY Sizes DEF Free
  <2> DEFINE x == op.next
  <2>2. /\ x \in Files /\ EOC # Free /\ dir' = dir /\ ~On(op, Freeing)
        /\ op.copy = 1 => fat[1][x] \notin Files
    BY <1>2, <1>3, <1>4, <2>1
  <2>3. \A d \in Clusters : fat'[1][d] = IF op.copy = 1 /\ d = x THEN EOC ELSE fat[1][d]
    BY <1>4
  <2> HIDE DEF x
  <2> QED BY <2>2, <2>3, WriteWhole
<1>6. CASE op'.todo = <<>>
  BY <1>5, <1>6, StoppedKnows
<1>7. CASE op'.todo # <<>>
  <2>1. /\ op'.slot = op.slot /\ op'.cluster = op.cluster /\ op'.next = op.next
        /\ op'.done = op.done /\ op'.buf = op.buf
        /\ \/ Head(op'.todo) = "mark_new" /\ op'.copy # 1
           \/ Head(op'.todo) = "link" /\ op'.copy = 1
    <3>1. CASE op.copy < FatCount /\ op' = [op EXCEPT !.copy = @ + 1]
      <4>1. op'.copy = op.copy + 1 /\ op.copy \in Nat /\ op.copy # 0
        BY <1>1, <3>1 DEF Calls
      <4>2. op'.todo = op.todo /\ op'.slot = op.slot /\ op'.cluster = op.cluster
            /\ op'.next = op.next /\ op'.done = op.done /\ op'.buf = op.buf
        BY <1>1, <3>1 DEF Calls
      <4> QED BY <1>1, <4>1, <4>2
    <3>2. CASE op' = NextCall
      BY <1>0, <1>1, <1>7, <3>2, NextFields, IdleOK DEF MayFollow
    <3> QED BY <1>4, <1>7, <3>1, <3>2
  <2>2. First' = First /\ Full' = Full
    BY <1>4, <2>1 DEF First, Full
  <2>3. PICK c : Linked(First, Hops(Full), c) /\ c[Hops(Full)] = op.cluster
    BY <1>2 DEF Sound, Known, Reached
  <2>4. Hops(Full) \in Nat
    <3>1. Full \in Nat
      BY <1>0, <1>1 DEF TypeInv, TypeOK, Entries, Full, CallOK, Calls, On, OnSlot, Working, StepNames
    <3> QED BY <3>1, HopsType
  <2>5. Links(fat'[1], First, Hops(Full), c) /\ op.cluster \in Files
    <3>1. Hops(Full) \in 0..Hops(Full)
      BY <2>4
    <3>2. op.cluster \in Files
      BY <2>3, <3>1 DEF Linked, Links
    <3>3. Links(fat'[1], First, Hops(Full), c)
      BY <1>5, <2>3, <2>4, LinksKept DEF Linked, Untied
    <3> QED BY <3>2, <3>3
  <2>6. Reached'
    BY <2>1, <2>2, <2>3, <2>5 DEF Reached, Linked
  <2>7. Edge'
    BY <1>2, <2>1, <2>2 DEF Sound, Known, Edge, AtEdge, On
  <2>8. Tailed'
    <3>1. fat'[1][op.cluster] = EOC /\ fat'[1][op.next] = EOC
      BY <1>3, <1>4, <2>5, Sizes
    <3> QED BY <1>3, <2>1, <3>1 DEF Tailed, Marking, NextIsNew, On
  <2>9. Begun' /\ Freed' /\ OneCluster' /\ Taken'
    BY <2>1 DEF Begun, Freed, OneCluster, Taken, Taking, On, Adding
  <2> QED BY <1>5, <2>6, <2>7, <2>8, <2>9 DEF Known
<1> QED BY <1>6, <1>7

(* The chain is one cluster longer, and holds as much more of the buffer as it takes. *)
LEMMA ChainLink == ASSUME Sound, Link PROVE Known' /\ FilesWhole'
<1> DEFINE n == Smaller(op.done + ClusterSize, Len(op.buf))
           after == [Advance(op) EXCEPT !.cluster = op.next, !.next = 0,
                                        !.done = Smaller(@ + ClusterSize, Len(op.buf))]
<1>0. TypeInv /\ Owners
  BY DEF Sound, NamesInv
<1>1. /\ At("link") /\ "link" \in Working /\ op.todo # <<>> /\ Head(op.todo) = "link"
      /\ op \in Calls
  BY <1>0, TypeHere DEF Link, Working, StepNames, At
<1>2. /\ On(op, {"link"}) /\ On(op, {"mark_new", "link"}) /\ ~On(op, Freeing)
      /\ On(op, Adding \cup {"patch"}) /\ NextIsNew
  BY <1>1 DEF On, Freeing, Adding, NextIsNew
<1>3. /\ op.next \in Files /\ op.next # op.cluster /\ fat[1][op.next] = EOC
      /\ IF op.copy = 1 THEN fat[1][op.cluster] = EOC ELSE fat[1][op.cluster] = op.next
  BY <1>0, <1>2 DEF Owners, Owns, Linkable, Sound, Known, Tailed
<1>4. PICK c : Linked(First, Hops(Full), c) /\ c[Hops(Full)] = op.cluster
  BY <1>2 DEF Sound, Known, Reached
<1>5. Full \in Nat /\ Hops(Full) \in Nat /\ Hops(Full) \in 0..Hops(Full)
  <2>1. Full \in Nat
    BY <1>0, <1>1 DEF TypeInv, TypeOK, Entries, Full, CallOK, Calls, On, OnSlot, Working, StepNames
  <2> QED BY <2>1, HopsType
<1>6. op.cluster \in Files
  BY <1>4, <1>5 DEF Linked, Links
<1>7. /\ dir' = dir
      /\ \A d \in Clusters : fat'[1][d] = IF op.copy = 1 /\ d = op.cluster THEN op.next ELSE fat[1][d]
      /\ \/ op'.todo = <<>>
         \/ op.copy < FatCount /\ op' = [op EXCEPT !.copy = @ + 1]
         \/ op' = [after EXCEPT !.copy = 1]
  <2>1. WriteFat(op.cluster, op.next, op, after)
    BY DEF Link
  <2> HIDE DEF after
  <2> QED BY <1>0, <1>6, <2>1, FatStep, Sizes
<1>8. Untied /\ FilesWhole'
  <2>1. EOC \notin Files /\ op.next # Free
    BY <1>3, Sizes DEF Free
  <2> DEFINE x == op.cluster
             v == op.next
  <2>2. /\ x \in Files /\ v # Free /\ dir' = dir /\ ~On(op, Freeing)
        /\ op.copy = 1 => fat[1][x] \notin Files
    BY <1>2, <1>3, <1>6, <1>7, <2>1
  <2>3. \A d \in Clusters : fat'[1][d] = IF op.copy = 1 /\ d = x THEN v ELSE fat[1][d]
    BY <1>7
  <2> HIDE DEF x, v
  <2> QED BY <2>2, <2>3, WriteWhole
<1>9. fat'[1][op.cluster] = op.next /\ fat'[1][op.next] = EOC
  BY <1>3, <1>6, <1>7, Sizes
<1>10. Links(fat'[1], First, Hops(Full), c)
  BY <1>4, <1>5, <1>8, LinksKept DEF Linked, Untied
<1>11. op.done \in Nat /\ op.done < Len(op.buf) /\ Len(op.buf) \in Nat /\ AtEdge
  <2>1. op.done < Len(op.buf) /\ AtEdge
    BY <1>2 DEF Sound, Known, Edge
  <2>2. Len(op.buf) \in Nat /\ op.done \in Nat
    BY <1>0, Buffered DEF TypeInv, CallOK, Calls
  <2> QED BY <2>1, <2>2
<1>12. CASE op'.todo = <<>>
  BY <1>8, <1>12, StoppedKnows
<1>13. CASE op.copy < FatCount /\ op' = [op EXCEPT !.copy = @ + 1]
  <2>1. op'.copy = op.copy + 1 /\ op.copy \in Nat /\ op.copy # 0
    BY <1>1, <1>13 DEF Calls
  <2>2. op'.todo = op.todo /\ op'.slot = op.slot /\ op'.cluster = op.cluster
        /\ op'.next = op.next /\ op'.done = op.done /\ op'.buf = op.buf
    BY <1>1, <1>13 DEF Calls
  <2>3. op'.copy # 1
    BY <2>1
  <2>4. First' = First /\ Full' = Full
    BY <1>7, <2>2 DEF First, Full
  <2>5. Reached'
    BY <1>4, <1>10, <2>2, <2>4 DEF Reached, Linked
  <2>6. Edge'
    BY <1>1, <1>11, <2>2, <2>4 DEF Edge, AtEdge, On
  <2>7. Tailed'
    BY <1>1, <1>3, <1>9, <2>2, <2>3 DEF Tailed, Marking, NextIsNew, On
  <2>8. Begun' /\ Freed' /\ OneCluster' /\ Taken'
    BY <1>1, <2>2 DEF Begun, Freed, OneCluster, Taken, Taking, On, Adding
  <2> QED BY <1>8, <2>5, <2>6, <2>7, <2>8 DEF Known
<1>14. CASE op'.todo # <<>> /\ op' = [after EXCEPT !.copy = 1]
  <2> DEFINE a == Advance(op)
  <2>0. a \in Calls
    <3>1. Tail(op.todo) \in Seq(StepNames)
      BY <1>1 DEF Calls
    <3>2. [op EXCEPT !.todo = Tail(@)] \in Calls
      BY <1>1, <3>1 DEF Calls
    <3>3. Idle(TRUE) \in Calls
      BY IdleOK DEF CallOK
    <3> QED BY <3>2, <3>3 DEF Advance
  <2> HIDE DEF a
  <2>1. /\ op'.todo = a.todo /\ NextCall.todo = a.todo /\ NextCall.slot = a.slot
        /\ NextCall.done = a.done /\ NextCall.buf = a.buf
    <3>1. NextCall = [a EXCEPT !.copy = 1]
      BY DEF a, NextCall
    <3>2. op' = [[a EXCEPT !.cluster = op.next, !.next = 0,
                           !.done = Smaller(@ + ClusterSize, Len(op.buf))] EXCEPT !.copy = 1]
      BY <1>14 DEF a
    <3> QED BY <2>0, <3>1, <3>2 DEF Calls
  <2>2. NextCall # Idle(TRUE)
    BY <1>14, <2>1, IdleOK
  <2>3. op'.todo = Tail(op.todo) /\ MayFollow("link", Head(op'.todo))
    BY <1>0, <1>1, <2>1, <2>2, NextFields
  <2>4. a.slot = op.slot /\ a.done = op.done /\ a.buf = op.buf
    BY <1>0, <1>1, <2>1, <2>2, NextFields
  <2>5. /\ op'.slot = op.slot /\ op'.cluster = op.next /\ op'.done = n /\ op'.buf = op.buf
        /\ op'.copy = 1
    BY <1>14, <2>0, <2>4 DEF Calls, a
  <2> DEFINE m == n - op.done
  <2>6. m \in Nat /\ m > 0 /\ m <= ClusterSize /\ (n < Len(op.buf) => m = ClusterSize) /\ n = op.done + m
    BY <1>11, SizesAssumption DEF Smaller
  <2> HIDE DEF m, n, after
  <2>7. /\ Hops(Full + m) = Hops(Full) + 1
        /\ n < Len(op.buf) => Full + m = (Hops(Full + m) + 1) * ClusterSize
    BY <1>5, <1>11, <2>6, HopsNext DEF AtEdge
  <2>8. First' = First /\ Full' = Full + m
    <3>1. First' = First
      BY <1>7, <2>5 DEF First
    <3>2. dir[op.slot].size \in Nat
      BY <1>0, <1>1 DEF TypeInv, TypeOK, Entries, CallOK, On, OnSlot, Working, StepNames
    <3>3. Full' = dir[op.slot].size + (op.done + m)
      BY <1>7, <2>5, <2>6 DEF Full
    <3> QED BY <1>11, <2>6, <3>1, <3>2, <3>3 DEF Full
  <2>9. PICK d : Links(fat'[1], First, Hops(Full) + 1, d) /\ d[Hops(Full) + 1] = op.next
    <3>1. fat'[1][c[Hops(Full)]] = op.next /\ fat'[1][op.next] # Free
      BY <1>4, <1>9, Sizes
    <3> QED BY <1>3, <1>5, <1>10, <3>1, LinksMore
  <2>10. Reached'
    BY <2>5, <2>7, <2>8, <2>9 DEF Reached, Linked
  <2>11. Edge'
    BY <2>3, <2>5, <2>7, <2>8 DEF Edge, AtEdge, On, MayFollow
  <2>12. Tailed'
    BY <1>9, <2>3, <2>5 DEF Tailed, Marking, NextIsNew, On, MayFollow
  <2>13. Begun' /\ Freed' /\ OneCluster' /\ Taken'
    BY <2>3, <2>5 DEF Begun, Freed, OneCluster, Taken, Taking, On, Adding, MayFollow
  <2> QED BY <1>8, <2>10, <2>11, <2>12, <2>13 DEF Known
<1> QED BY <1>7, <1>12, <1>13, <1>14

-----------------------------------------------------------------------------
(* A call that begins, or that is stopped, knows nothing yet. *)
LEMMA CallsBegin == ASSUME NEW steps, NEW n, NEW m, NEW b PROVE Call(steps, n, m, b).done = 0
BY DEF Call, Idle

(* A new call has read nothing yet. *)
LEMMA ChainRequest == ASSUME TypeInv, FilesWhole, Request PROVE Known' /\ FilesWhole'
<1>1. ~On(op', OnSlot) /\ UNCHANGED disk
  BY TypeRequest
<1>2. op'.done = 0
  <2>1. CASE \E n \in Names, b \in Buffers, f \in FlagSets : FsWrite(n, b, f)
    <3>1. PICK n \in Names, b \in Buffers, f \in FlagSets : FsWrite(n, b, f)
      BY <2>1
    <3> DEFINE w == Writing(f, b)
    <3>2. op' \in {Idle(FALSE), Call(<<"create">> \o w, n, n, b), Call(<<>> \o w, n, n, b)}
      BY <3>1 DEF FsWrite
    <3> HIDE DEF w
    <3>3. Idle(FALSE).done = 0
      BY DEF Idle
    <3>4. Call(<<"create">> \o w, n, n, b).done = 0
      BY CallsBegin
    <3>5. Call(<<>> \o w, n, n, b).done = 0
      BY CallsBegin
    <3> QED BY <3>2, <3>3, <3>4, <3>5
  <2>2. CASE \/ \E n \in Names : FsCreate(n) \/ FsTruncate(n) \/ FsDelete(n)
             \/ \E n, m \in Names : FsRename(n, m)
    BY <2>2, CallsBegin DEF FsCreate, FsTruncate, FsDelete, FsRename
  <2> QED BY <2>1, <2>2 DEF Request
<1>3. FilesWhole'
  BY <1>1, SameWhole DEF disk
<1> QED BY <1>1, <1>2, <1>3, KnowsNothing

(* Neither does a call that fails, or one the power is cut from. *)
LEMMA ChainStop == ASSUME TypeInv, FilesWhole, AccessFails \/ PowerOff \/ Boot PROVE Known' /\ FilesWhole'
<1>1. fat' = fat /\ dir' = dir
  BY DEF AccessFails, PowerOff, Boot, Refuse, disk
<1>2. op' = Idle(FALSE) \/ op' = [Idle(FALSE) EXCEPT !.todo = <<"off">>]
  BY DEF AccessFails, PowerOff, Boot, Refuse, Off
<1>3. op'.done = 0 /\ (op'.todo = <<>> \/ op'.todo = <<"off">>)
  BY <1>2 DEF Idle
<1>4. ~On(op', OnSlot)
  <2>1. Head(<<"off">>) = "off"
    OBVIOUS
  <2> QED BY <1>3, <2>1 DEF On, OnSlot, Working
<1>5. FilesWhole'
  BY <1>1, SameWhole
<1> QED BY <1>3, <1>4, <1>5, KnowsNothing

-----------------------------------------------------------------------------
(* The freshly made image has the invariant, and every step keeps it. *)
LEMMA ChainsInit == Init => ChainsInv
<1> SUFFICES ASSUME Init PROVE ChainsInv
  OBVIOUS
<1>1. OwnersInv
  BY OwnersInit
<1>2. FilesWhole
  <2>1. \A s \in Slots : ~Live(s)
    <3>1. \A s \in Slots : dir[s].name \notin Names
      BY NamesAssumption DEF Init
    <3> QED BY <3>1 DEF Live
  <2> QED BY <2>1 DEF FilesWhole
<1>3. Known
  <2>1. op.todo = <<>>
    BY IdleOK DEF Init
  <2>2. \A steps : ~On(op, steps)
    BY <2>1 DEF On
  <2> QED BY <2>1, <2>2 DEF Known, Begun, Freed, OneCluster, Taken, Taking, Reached, Edge, Tailed,
             Marking, NextIsNew
<1> QED BY <1>1, <1>2, <1>3 DEF ChainsInv

(* One case for each step; a stutter leaves all of it as it is. *)
LEMMA ChainsNext == ChainsInv /\ [Next]_vars => ChainsInv'
<1> SUFFICES ASSUME ChainsInv, [Next]_vars PROVE ChainsInv'
  OBVIOUS
<1>1. OwnersInv /\ OwnersInv' /\ NamesInv /\ TypeInv
  BY OwnersNext DEF ChainsInv, OwnersInv, NamesInv
<1>2. SUFFICES ASSUME "cut" \notin harm' PROVE Known' /\ FilesWhole'
  BY <1>1 DEF ChainsInv
<1>3. Sound
  <2>1. harm \subseteq harm'
    BY HarmGrows DEF vars
  <2> QED BY <1>1, <1>2, <2>1 DEF Sound, ChainsInv, OwnersInv
<1>4. CASE Request
  BY <1>1, <1>3, <1>4, ChainRequest DEF Sound
<1>5. CASE Step
  <2>1. CASE Find \/ FreeDone \/ Choose \/ Fill
    BY <1>3, <2>1, ChainFind, ChainFreeDone, ChainChoose, ChainFill
  <2>2. CASE CreateRefused \/ RenameRefused \/ GrowRefused \/ Extend
    BY <1>3, <2>2, ChainQuiet
  <2>3. CASE CreateEntry
    BY <1>3, <2>3, ChainCreate
  <2>4. CASE RenameEntry \/ Clear \/ Erase \/ Resize
    BY <1>3, <2>4, ChainRewrite
  <2>5. CASE FreeCluster
    BY <1>2, <1>3, <2>5, ChainFree
  <2>6. CASE Mark \/ Commit
    BY <1>3, <2>6, ChainMark, ChainCommit
  <2>7. CASE WalkToEnd \/ Patch \/ Grow \/ GrowDone \/ MarkNew \/ Link
    BY <1>3, <2>7, ChainWalk, ChainPatch, ChainGrow, ChainGrowDone, ChainMarkNew, ChainLink
  <2> QED BY <1>5, <2>1, <2>2, <2>3, <2>4, <2>5, <2>6, <2>7 DEF Step
<1>6. CASE AccessFails \/ PowerOff \/ Boot
  BY <1>1, <1>3, <1>6, ChainStop DEF Sound
<1>7. CASE UNCHANGED vars
  <2>1. UNCHANGED <<fat, dir, op>>
    BY <1>7 DEF vars
  <2>2. FilesWhole'
    BY <1>1, <1>3, <2>1, SameWhole DEF Sound
  <2>3. Known'
    <3>1. First' = First /\ Full' = Full /\ ToFree' = ToFree
      BY <2>1 DEF First, Full, ToFree
    <3>2. Begun' /\ Freed' /\ OneCluster' /\ Taken' /\ Edge' /\ Tailed'
      BY <1>3, <2>1, <3>1 DEF Sound, Known, Begun, Freed, OneCluster, Taken, Taking, Edge, Tailed, AtEdge,
         Marking, NextIsNew, On
    <3>3. Reached'
      BY <1>3, <2>1, <3>1 DEF Sound, Known, Reached, Linked, On
    <3> QED BY <3>2, <3>3 DEF Known
  <2> QED BY <2>2, <2>3
<1> QED BY <1>4, <1>5, <1>6, <1>7 DEF Next

(* Whatever is called, fails or is cut short, every file but the one just being freed  *)
(* has a chain of allocated clusters that reaches its last byte, until a truncate or   *)
(* a delete is cut between freeing the chain and writing the entry: fs_write_file      *)
(* fills and marks before it commits (fat32.c:515), fs_append_file links before it     *)
(* writes the new size (fat32.c:585).                                                  *)
THEOREM ReadableForever == Spec => []Readable
<1>1. ChainsInv => Readable
  <2> SUFFICES ASSUME TypeInv, FilesWhole, NEW s \in Slots, Live(s), ~Dangling(s), dir[s].size > 0
               PROVE  \A k \in 0..Hops(dir[s].size) :
                         LET c == Walk(dir[s].first, k) IN c \in Files /\ fat[1][c] # Free
    BY DEF ChainsInv, OwnersInv, NamesInv, Readable, ReadableSlot
  <2>1. Hops(dir[s].size) \in Nat /\ dir[s].size # 0
    <3>1. dir[s].size \in Nat
      BY DEF TypeInv, TypeOK, Entries
    <3> QED BY <3>1, HopsType
  <2>2. PICK c : Linked(dir[s].first, Hops(dir[s].size), c)
    BY <2>1 DEF FilesWhole, Empty, Whole
  <2>3. \A k \in 0..Hops(dir[s].size) : c[k] \in Files /\ fat[1][c[k]] # Free
    BY <2>2 DEF Linked, Links
  <2> QED BY <2>1, <2>2, <2>3, LinkedWalk
<1> QED BY <1>1, ChainsInit, ChainsNext, PTL DEF Spec

-----------------------------------------------------------------------------
(***************************************************************************)
(* No cluster is lost.  While nothing fails, a cluster in use is referred  *)
(* to, or it is the one the running call holds: the rest of the chain it   *)
(* frees, the cluster it has marked and will commit, or link.              *)
(***************************************************************************)
Referred(c) == \/ \E s \in Slots : DirRef(s) /\ dir[s].first = c
               \/ \E d \in Files : fat[1][d] = c
Held(c) == \/ On(op, {"free"}) /\ c = ToFree
           \/ (On(op, {"commit"}) \/ (On(op, {"mark"}) /\ op.copy # 1)) /\ c = op.cluster
           \/ NextIsNew /\ c = op.next

NoneLost == \A c \in Files : fat[1][c] # Free => Referred(c) \/ Held(c)
LostInv  == ChainsInv /\ (harm = {} => NoneLost)

(* Only these steps hold a cluster. *)
LEMMA NoneHeld ==
  ASSUME op.todo # <<>> => Head(op.todo) \notin {"free", "commit", "mark", "mark_new", "link"}
  PROVE  \A c : ~Held(c)
BY DEF On, Held, NextIsNew

(* Without a fault a write is reported as done, and the call goes on. *)
LEMMA EndsWell == ASSUME NEW o, NEW h, Ends(o, h), harm' = {} PROVE op' = o
BY DEF Ends

(* The same for a write of the FAT. *)
LEMMA FatWell ==
  ASSUME NEW c, NEW v, NEW between, NEW after, WriteFat(c, v, between, after), harm' = {}
  PROVE  \/ op.copy < FatCount /\ op' = [between EXCEPT !.copy = @ + 1]
         \/ op' = [after EXCEPT !.copy = 1]
<1> DEFINE o == IF op.copy < FatCount THEN [between EXCEPT !.copy = @ + 1]
                                      ELSE [after EXCEPT !.copy = 1]
<1>1. Ends(o, {})
  BY DEF WriteFat
<1>2. op' = o
  <2> HIDE DEF o
  <2> QED BY <1>1, EndsWell
<1> QED BY <1>2

(* Steps that write neither the directory nor the first copy of the FAT. *)
LEMMA SameLost ==
  ASSUME NoneLost, fat'[1] = fat[1], dir' = dir,
         \A c \in Files : fat[1][c] # Free /\ Held(c) => Held(c)'
  PROVE  NoneLost'
<1>1. \A c : Referred(c) <=> Referred(c)'
  BY DEF Referred, DirRef, Live
<1> QED BY <1>1 DEF NoneLost

(* A cluster that had no link is marked or linked: the call holds it, or it is referred to. *)
LEMMA WriteLost ==
  ASSUME NoneLost, NEW x \in Files, NEW v, dir' = dir,
         \A d \in Clusters : fat'[1][d] = IF op.copy = 1 /\ d = x THEN v ELSE fat[1][d],
         op.copy = 1 => fat[1][x] \notin Files,
         op.copy = 1 => fat[1][x] # Free \/ Held(x)' \/ Referred(x)',
         \A c \in Files : Held(c) => Held(c)' \/ Referred(c)'
  PROVE  NoneLost'
<1>1. ASSUME NEW c \in Files, Referred(c) PROVE Referred(c)'
  <2>1. CASE \E s \in Slots : DirRef(s) /\ dir[s].first = c
    BY <2>1 DEF Referred, DirRef, Live
  <2>2. ASSUME NEW d \in Files, fat[1][d] = c PROVE Referred(c)'
    <3>1. fat'[1][d] = c
      BY <1>1, <2>2, Sizes
    <3> QED BY <2>2, <3>1 DEF Referred
  <2> QED BY <1>1, <2>1, <2>2 DEF Referred
<1>2. \A c \in Files : fat'[1][c] = fat[1][c] \/ (c = x /\ op.copy = 1)
  BY Sizes
<1>3. ASSUME NEW c \in Files, fat'[1][c] # Free PROVE Referred(c)' \/ Held(c)'
  BY <1>1, <1>2, <1>3 DEF NoneLost
<1> QED BY <1>3 DEF NoneLost

(* An entry is written: what the old one referred to is free by then, or the new one   *)
(* refers to it, and no entry behind it goes out of sight.                             *)
LEMMA EntryLost ==
  ASSUME TypeInv, NoneLost, NEW h \in Slots, NEW e, dir' = [dir EXCEPT ![h] = e], fat' = fat,
         e.name # "end",
         \/ ~DirRef(h) \/ fat[1][dir[h].first] = Free
         \/ e.first = dir[h].first /\ e.name \in Names,
         \A c \in Files : fat[1][c] # Free /\ Held(c) => Referred(c)'
  PROVE  NoneLost'
<1>1. dir'[h] = e /\ \A s \in Slots : s # h => dir'[s] = dir[s]
  BY DEF TypeInv, TypeOK
<1>2. ASSUME NEW s \in Slots, Live(s), s # h \/ e.name \in Names PROVE Live(s)'
  <2>1. \A t \in 1..s : t \in Slots
    BY SizesAssumption DEF Slots
  <2>2. \A t \in 1..s : dir'[t].name # "end"
    BY <1>1, <1>2, <2>1 DEF Live
  <2>3. dir'[s].name \in Names
    BY <1>1, <1>2 DEF Live
  <2> QED BY <2>2, <2>3 DEF Live
<1>3. ASSUME NEW c \in Files, Referred(c), fat[1][c] # Free PROVE Referred(c)'
  <2>1. CASE \E d \in Files : fat[1][d] = c
    BY <2>1 DEF Referred
  <2>2. ASSUME NEW s \in Slots, DirRef(s), dir[s].first = c PROVE Referred(c)'
    <3>1. s # h \/ (e.first = dir[h].first /\ e.name \in Names)
      BY <1>3, <2>2
    <3>2. DirRef(s)' /\ dir'[s].first = c
      BY <1>1, <1>2, <2>2, <3>1 DEF DirRef
    <3> QED BY <2>2, <3>2 DEF Referred
  <2> QED BY <1>3, <2>1, <2>2 DEF Referred
<1> QED BY <1>3 DEF NoneLost

(* Steps that leave the tables alone, taken while no cluster is held. *)
LEMMA LostQuiet ==
  ASSUME NoneLost,
         Find \/ CreateRefused \/ RenameRefused \/ Choose \/ Fill \/ Extend \/ WalkToEnd \/ Patch
           \/ Grow \/ GrowRefused \/ GrowDone
  PROVE  NoneLost'
<1>1. fat' = fat /\ dir' = dir
  BY DEF Find, CreateRefused, RenameRefused, Choose, Fill, Extend, WalkToEnd, Patch, Grow, GrowRefused,
     GrowDone, Refuse, WriteData, disk
<1>2. Head(op.todo) \in {"find", "create", "rename", "choose", "fill", "extend", "walk", "patch", "grow"}
  BY DEF Find, CreateRefused, RenameRefused, Choose, Fill, Extend, WalkToEnd, Patch, Grow, GrowRefused,
     GrowDone, At
<1> QED BY <1>1, <1>2, NoneHeld, SameLost

(* The chain has been freed to its end. *)
LEMMA LostFreeDone == ASSUME TypeInv, NoneLost, FreeDone PROVE NoneLost'
<1>1. fat' = fat /\ dir' = dir /\ op.todo # <<>> /\ Head(op.todo) = "free" /\ op.cluster \notin Root..LastCluster
  BY DEF FreeDone, At, disk
<1>2. op.copy = 1
  BY <1>1 DEF TypeInv, CallOK, On
<1>3. \A c \in Files : ~Held(c)
  BY <1>1, <1>2, Sizes DEF Held, On, ToFree, NextIsNew
<1> QED BY <1>1, <1>3, SameLost

(* A cluster is freed once the link to the next one is read: that one is held from then on. *)
LEMMA LostFree == ASSUME TypeInv, NoneLost, FreeCluster, harm' = {} PROVE NoneLost'
<1> DEFINE succ == IF op.copy = 1 THEN fat[1][op.cluster] ELSE op.next
           between == [op EXCEPT !.next = succ]
           after == [op EXCEPT !.cluster = succ, !.next = 0]
           k == op.cluster
<1>1. /\ op.todo # <<>> /\ Head(op.todo) = "free" /\ op \in Calls
      /\ k \in Root..LastCluster /\ k \in Clusters
  BY SizesAssumption DEF FreeCluster, At, TypeInv, CallOK, Clusters, Root
<1>2. /\ dir' = dir
      /\ \A d \in Clusters : fat'[1][d] = IF op.copy = 1 /\ d = k THEN Free ELSE fat[1][d]
      /\ \/ op.copy < FatCount /\ op' = [between EXCEPT !.copy = @ + 1]
         \/ op' = [after EXCEPT !.copy = 1]
  <2>1. WriteFat(k, Free, between, after)
    BY DEF FreeCluster
  <2> HIDE DEF between, after
  <2> QED BY <1>1, <2>1, FatStep, FatWell
<1> PICK x : x = succ
  OBVIOUS
<1>3. op'.todo = op.todo /\ ToFree' = x
  <2> HIDE DEF succ
  <2>1. CASE op.copy < FatCount /\ op' = [between EXCEPT !.copy = @ + 1]
    <3>1. op'.todo = op.todo /\ op'.next = succ /\ op'.copy = op.copy + 1 /\ op.copy \in Nat /\ op.copy # 0
      BY <1>1, <2>1 DEF Calls
    <3> QED BY <3>1 DEF ToFree
  <2>2. CASE op' = [after EXCEPT !.copy = 1]
    <3>1. op'.todo = op.todo /\ op'.cluster = succ /\ op'.copy = 1
      BY <1>1, <2>2 DEF Calls
    <3> QED BY <3>1 DEF ToFree
  <2> QED BY <1>2, <2>1, <2>2
<1>4. \A c : c = x => Held(c)'
  BY <1>1, <1>3 DEF Held, On
<1>5. ASSUME NEW c \in Files, fat'[1][c] # Free, c # x PROVE Referred(c)'
  <2>1. c # k \/ op.copy # 1
    BY <1>2, <1>5, Sizes
  <2>2. fat[1][c] # Free
    BY <1>2, <1>5, <2>1, Sizes
  <2>3. ~Held(c)
    BY <1>1, <1>5, <2>1 DEF Held, On, ToFree, NextIsNew
  <2>4. CASE \E s \in Slots : DirRef(s) /\ dir[s].first = c
    BY <1>2, <2>4 DEF Referred, DirRef, Live
  <2>5. ASSUME NEW d \in Files, fat[1][d] = c PROVE Referred(c)'
    <3>1. fat'[1][d] = c
      BY <1>2, <1>5, <2>5, Sizes
    <3> QED BY <2>5, <3>1 DEF Referred
  <2> QED BY <2>2, <2>3, <2>4, <2>5 DEF NoneLost, Referred
<1> QED BY <1>4, <1>5 DEF NoneLost

(* A file is created, renamed, resized, or its entry is cleared after its chain. *)
LEMMA LostRewrite ==
  ASSUME Sound, NoneLost, CreateEntry \/ RenameEntry \/ Clear \/ Erase \/ Resize
  PROVE  NoneLost'
<1>0. TypeInv /\ NamesInv
  BY DEF Sound, NamesInv
<1>1. \A c : ~Held(c)
  BY NoneHeld DEF CreateEntry, RenameEntry, Clear, Erase, Resize, At
<1>2. CASE CreateEntry
  <2> DEFINE h == Minimum(Holes)
             e == [name |-> op.name, first |-> 0, size |-> 0]
  <2>1. At("create") /\ Holes # {} /\ dir' = [dir EXCEPT ![h] = e] /\ fat' = fat
    BY <1>2 DEF CreateEntry
  <2>2. h \in Slots /\ h \in Holes
    BY <2>1, LowestHole
  <2>3. ~DirRef(h)
    BY <2>2, NamesAssumption DEF Holes, DirRef, Live
  <2>4. e.name # "end"
    BY <1>0, <2>1, TypeHere, NamesAssumption DEF Working, StepNames
  <2> HIDE DEF h, e
  <2> QED BY <1>0, <1>1, <2>1, <2>2, <2>3, <2>4, EntryLost
<1>3. CASE RenameEntry \/ Clear \/ Erase \/ Resize
  <2> DEFINE h == op.slot
             d == dir[h]
  <2>1. h \in Slots /\ Live(h) /\ op.new \in Names
    BY <1>0, <1>3, TypeHere DEF RenameEntry, Clear, Erase, Resize, At, On, OnSlot, Working, StepNames,
       NamesInv, OnLiveSlot
  <2>2. d \in Entries /\ d.name \in Names
    BY <1>0, <2>1 DEF TypeInv, TypeOK, Live
  <2>3. CASE RenameEntry
    <3> DEFINE e == [d EXCEPT !.name = op.new]
    <3>1. dir' = [dir EXCEPT ![h] = e] /\ fat' = fat
      BY <2>3 DEF RenameEntry
    <3>2. e.name \in Names /\ e.first = dir[h].first
      BY <2>1, <2>2 DEF Entries
    <3> HIDE DEF e, d, h
    <3> QED BY <1>0, <1>1, <2>1, <3>1, <3>2, EntryLost, NamesAssumption
  <2>4. CASE Resize
    <3> DEFINE e == [d EXCEPT !.size = @ + Len(op.buf)]
    <3>1. dir' = [dir EXCEPT ![h] = e] /\ fat' = fat
      BY <2>4 DEF Resize, WriteDir
    <3>2. e.name \in Names /\ e.first = dir[h].first
      BY <2>2 DEF Entries
    <3> HIDE DEF e, d, h
    <3> QED BY <1>0, <1>1, <2>1, <3>1, <3>2, EntryLost, NamesAssumption
  <2>5. CASE Clear \/ Erase
    <3>1. ~DirRef(h) \/ fat[1][dir[h].first] = Free
      <4>1. On(op, {"clear", "erase"})
        BY <2>5 DEF Clear, Erase, At, On
      <4> QED BY <4>1 DEF Sound, Known, Freed, First, DirRef
    <3>2. PICK e : dir' = [dir EXCEPT ![h] = e] /\ e.name # "end"
      <4>1. CASE Clear
        <5>1. dir' = [dir EXCEPT ![h] = [d EXCEPT !.first = 0, !.size = 0]]
          BY <4>1 DEF Clear, WriteDir
        <5>2. [d EXCEPT !.first = 0, !.size = 0].name = d.name
          BY <2>2 DEF Entries
        <5> HIDE DEF d
        <5> QED BY <2>2, <5>1, <5>2, NamesAssumption
      <4>2. CASE Erase
        <5> DEFINE e == [name |-> "deleted", first |-> 0, size |-> 0]
        <5>1. dir' = [dir EXCEPT ![h] = e] /\ e.name # "end"
          BY <4>2 DEF Erase, WriteDir
        <5> QED BY <5>1
      <4> QED BY <2>5, <4>1, <4>2
    <3>3. fat' = fat
      BY <2>5 DEF Clear, Erase, WriteDir
    <3> HIDE DEF d, h
    <3> QED BY <1>0, <1>1, <2>1, <3>1, <3>2, <3>3, EntryLost
  <2> QED BY <1>3, <2>3, <2>4, <2>5
<1> QED BY <1>2, <1>3

(* The cluster that was held is the file's. *)
LEMMA LostCommit == ASSUME Sound, NoneLost, Commit PROVE NoneLost'
<1> DEFINE h == op.slot
           d == dir[h]
           e == [d EXCEPT !.first = op.cluster, !.size = Len(op.buf)]
<1>0. TypeInv /\ Owners /\ NamesInv
  BY DEF Sound, NamesInv
<1>1. /\ op.todo # <<>> /\ Head(op.todo) = "commit" /\ h \in Slots /\ Live(h)
      /\ On(op, {"fill", "mark", "commit"}) /\ On(op, {"commit"})
  BY <1>0, TypeHere DEF Commit, At, On, OnSlot, Working, StepNames, NamesInv, OnLiveSlot
<1>2. d \in Entries /\ d.name \in Names
  BY <1>0, <1>1 DEF TypeInv, TypeOK, Live
<1>3. e.first = op.cluster /\ e.name = d.name
  BY <1>2 DEF Entries
<1>4. dir' = [dir EXCEPT ![h] = e] /\ fat' = fat
  BY DEF Commit, WriteDir
<1> HIDE DEF e
<1>5. dir'[h] = e /\ \A s \in Slots : s # h => dir'[s] = dir[s]
  BY <1>0, <1>1, <1>4 DEF TypeInv, TypeOK
<1>6. op.cluster \in Files /\ First \in {0, op.cluster}
  BY <1>0, <1>1 DEF Owners, Owns, Writable, Sound, Known, OneCluster
<1> PICK x : x = op.cluster
  OBVIOUS
<1>7. Referred(x)'
  <2> PICK s : s = h
    OBVIOUS
  <2>1. s \in Slots /\ \A t \in 1..s : t \in Slots
    BY <1>1, SizesAssumption DEF Slots
  <2>2. dir'[s].name = dir[s].name /\ dir'[s].first = x
    BY <1>3, <1>5
  <2>3. Live(s)'
    BY <1>1, <1>5, <2>1, <2>2 DEF Live
  <2>4. DirRef(s)'
    BY <1>6, <2>1, <2>2, <2>3, Sizes DEF DirRef
  <2> QED BY <2>1, <2>2, <2>4 DEF Referred
<1>8. \A c \in Files : Held(c) => Referred(c)'
  <2>1. \A c : Held(c) => c = x
    BY <1>1 DEF Held, On, NextIsNew
  <2> QED BY <1>7, <2>1
<1>9. ~DirRef(h) \/ e.first = dir[h].first
  BY <1>3, <1>6 DEF First, DirRef
<1>10. e.name # "end" /\ e.name \in Names
  BY <1>2, <1>3, NamesAssumption
<1> HIDE DEF h, d
<1> QED BY <1>0, <1>1, <1>4, <1>8, <1>9, <1>10, EntryLost

(* The cluster that is marked is held until it is committed, or linked. *)
LEMMA LostMark == ASSUME Sound, NoneLost, Mark \/ MarkNew, harm' = {} PROVE NoneLost'
<1>0. TypeInv /\ Owners
  BY DEF Sound, NamesInv
<1> PICK a \in {"mark", "mark_new"} : /\ At(a)
                                      /\ a = "mark" => Mark
                                      /\ a = "mark_new" => MarkNew
  BY DEF Mark, MarkNew
<1>1. /\ At(a) /\ a \in Working /\ a \notin MayEnd /\ op.todo # <<>> /\ Head(op.todo) = a /\ op \in Calls
      /\ a = "mark" \/ a = "mark_new"
  <2>1. a \in Working /\ a \notin MayEnd
    BY DEF Working, StepNames, MayEnd
  <2>2. op \in Calls /\ op.todo # <<>> /\ Head(op.todo) = a
    BY <1>0, <2>1, TypeHere
  <2> QED BY <2>1, <2>2
<1> PICK x : x = IF a = "mark" THEN op.cluster ELSE op.next
  OBVIOUS
<1>2. /\ x \in Files
      /\ op.copy = 1 => fat[1][x] \notin Files
      /\ \A c : Held(c) => c = x
  <2>1. Free \notin Files
    BY Sizes DEF Free
  <2>2. CASE a = "mark"
    <3>1. On(op, {"fill", "mark", "commit"}) /\ On(op, {"mark"})
      BY <1>1, <2>2 DEF On
    <3>2. x \in Files /\ (op.copy = 1 => fat[1][x] = Free)
      BY <1>0, <2>2, <3>1 DEF Owners, Owns, Writable, Sound, Known, Taken, Taking
    <3>3. \A c : Held(c) => c = x
      BY <1>1, <2>2 DEF Held, On, NextIsNew
    <3> QED BY <2>1, <3>2, <3>3
  <2>3. CASE a = "mark_new"
    <3>1. On(op, {"mark_new", "link"}) /\ On(op, {"mark_new"})
      BY <1>1, <2>3 DEF On
    <3>2. x \in Files /\ (op.copy = 1 => fat[1][x] = Free)
      BY <1>0, <2>3, <3>1 DEF Owners, Owns, Linkable, Sound, Known, Tailed, Marking
    <3>3. \A c : Held(c) => c = x
      BY <1>1, <2>3 DEF Held, On, NextIsNew
    <3> QED BY <2>1, <3>2, <3>3
  <2> QED BY <1>1, <2>2, <2>3
<1>3. /\ dir' = dir
      /\ \A d \in Clusters : fat'[1][d] = IF op.copy = 1 /\ d = x THEN EOC ELSE fat[1][d]
      /\ \/ op.copy < FatCount /\ op' = [op EXCEPT !.copy = @ + 1]
         \/ op' = NextCall
  <2>1. WriteFat(x, EOC, op, Advance(op))
    BY <1>1 DEF Mark, MarkNew
  <2> QED BY <1>0, <1>2, <2>1, FatStep, FatWell, Sizes DEF NextCall
<1>4. Held(x)'
  <2>1. CASE op.copy < FatCount /\ op' = [op EXCEPT !.copy = @ + 1]
    <3>1. /\ op'.copy = op.copy + 1 /\ op.copy \in Nat /\ op.copy # 0
          /\ op'.todo = op.todo /\ op'.cluster = op.cluster /\ op'.next = op.next
      BY <1>1, <2>1 DEF Calls
    <3>2. op'.copy # 1
      BY <3>1
    <3> QED BY <1>1, <3>1, <3>2 DEF Held, On, NextIsNew
  <2>2. CASE op' = NextCall
    <3>1. /\ op'.todo # <<>> /\ MayFollow(a, Head(op'.todo))
          /\ op'.cluster = op.cluster /\ op'.next = op.next
      BY <1>0, <1>1, <2>2, NextStep
    <3> QED BY <1>1, <3>1 DEF Held, On, NextIsNew, MayFollow
  <2> QED BY <1>3, <2>1, <2>2
<1> QED BY <1>2, <1>3, <1>4, WriteLost

(* The new cluster is referred to by the one the chain ended in. *)
LEMMA LostLink == ASSUME Sound, NoneLost, Link PROVE NoneLost'
<1> DEFINE after == [Advance(op) EXCEPT !.cluster = op.next, !.next = 0,
                                        !.done = Smaller(@ + ClusterSize, Len(op.buf))]
<1>0. TypeInv /\ Owners
  BY DEF Sound, NamesInv
<1>1. op.todo # <<>> /\ Head(op.todo) = "link"
  BY DEF Link, At
<1>2. On(op, {"link"}) /\ On(op, {"mark_new", "link"}) /\ On(op, Adding \cup {"patch"})
  BY <1>1 DEF On, Adding
<1>3. IF op.copy = 1 THEN fat[1][op.cluster] = EOC ELSE fat[1][op.cluster] = op.next
  BY <1>2 DEF Sound, Known, Tailed
<1>4. op.cluster \in Files
  <2>1. PICK c : Linked(First, Hops(Full), c) /\ c[Hops(Full)] = op.cluster
    BY <1>2 DEF Sound, Known, Reached
  <2>2. Full \in Nat
    BY <1>0, <1>1 DEF TypeInv, TypeOK, Entries, Full, CallOK, Calls, On, OnSlot, Working, StepNames
  <2>3. Hops(Full) \in 0..Hops(Full)
    BY <2>2, HopsType
  <2> QED BY <2>1, <2>3 DEF Linked, Links
<1> PICK x : x = op.cluster
  OBVIOUS
<1> PICK y : y = op.next
  OBVIOUS
<1>5. /\ dir' = dir
      /\ \A d \in Clusters : fat'[1][d] = IF op.copy = 1 /\ d = x THEN y ELSE fat[1][d]
  <2>1. WriteFat(x, y, op, after)
    BY DEF Link
  <2> HIDE DEF after
  <2> QED BY <1>0, <1>4, <2>1, FatStep, Sizes
<1>6. fat'[1][x] = y
  BY <1>3, <1>4, <1>5, Sizes
<1>7. Referred(y)'
  BY <1>4, <1>6 DEF Referred
<1>8. \A c : Held(c) => c = y
  BY <1>1 DEF Held, On, NextIsNew
<1>9. op.copy = 1 => fat[1][x] \notin Files /\ fat[1][x] # Free
  BY <1>3, Sizes
<1> QED BY <1>4, <1>5, <1>7, <1>8, <1>9, WriteLost

(* On the freshly made image no cluster is in use. *)
LEMMA LostInit == Init => LostInv
<1> SUFFICES ASSUME Init PROVE LostInv
  OBVIOUS
<1>1. ChainsInv
  BY ChainsInit
<1>2. 1 \in 1..FatCount /\ \A c \in Files : c \in Clusters /\ ~(c <= Root)
  BY Sizes, SizesAssumption DEF Files, Root
<1>3. \A c \in Files : fat[1][c] = Free
  BY <1>2 DEF Init
<1> QED BY <1>1, <1>3 DEF LostInv, NoneLost

(* Every step of a machine without faults keeps all clusters accounted for. *)
LEMMA LostNext == LostInv /\ [Next]_vars => LostInv'
<1> SUFFICES ASSUME LostInv, [Next]_vars PROVE LostInv'
  OBVIOUS
<1>1. ChainsInv /\ ChainsInv'
  BY ChainsNext DEF LostInv
<1>2. SUFFICES ASSUME harm' = {} PROVE NoneLost'
  BY <1>1 DEF LostInv
<1>3. Sound /\ NoneLost /\ TypeInv
  <2>1. harm = {}
    BY <1>2, HarmGrows DEF vars
  <2> QED BY <1>1, <2>1 DEF Sound, LostInv, ChainsInv, OwnersInv, NamesInv
<1>4. CASE Request
  <2>1. fat' = fat /\ dir' = dir /\ op.todo = <<>>
    BY <1>3, <1>4, TypeRequest
       DEF Request, FsCreate, FsTruncate, FsDelete, FsRename, FsWrite, Idling, disk
  <2> QED BY <1>3, <2>1, NoneHeld, SameLost
<1>5. CASE Step
  <2>1. CASE \/ Find \/ CreateRefused \/ RenameRefused \/ Choose \/ Fill \/ Extend \/ WalkToEnd
             \/ Patch \/ Grow \/ GrowRefused \/ GrowDone
    BY <1>3, <2>1, LostQuiet
  <2>2. CASE CreateEntry \/ RenameEntry \/ Clear \/ Erase \/ Resize
    BY <1>3, <2>2, LostRewrite
  <2>3. CASE FreeCluster \/ FreeDone
    BY <1>2, <1>3, <2>3, LostFree, LostFreeDone
  <2>4. CASE Mark \/ MarkNew \/ Link \/ Commit
    BY <1>2, <1>3, <2>4, LostMark, LostLink, LostCommit
  <2> QED BY <1>5, <2>1, <2>2, <2>3, <2>4 DEF Step
<1>6. CASE AccessFails \/ PowerOff
  BY <1>2, <1>6 DEF AccessFails, PowerOff
<1>7. CASE Boot
  <2>1. fat' = fat /\ dir' = dir /\ op.todo = <<"off">>
    BY <1>7 DEF Boot, Refuse, Off, disk
  <2>2. Head(op.todo) = "off"
    BY <2>1
  <2> QED BY <1>3, <2>1, <2>2, NoneHeld, SameLost
<1>8. CASE UNCHANGED vars
  <2>1. UNCHANGED <<fat, dir, op>>
    BY <1>8 DEF vars
  <2>2. \A c : Held(c) => Held(c)'
    BY <2>1 DEF Held, On, ToFree, NextIsNew
  <2> QED BY <1>3, <2>1, <2>2, SameLost
<1> QED BY <1>4, <1>5, <1>6, <1>7, <1>8 DEF Next

(* Between two calls, as long as no access has failed and the power has stayed on, every *)
(* cluster that is marked in the FAT belongs to a file: a full disk refuses an append    *)
(* (find_free_cluster, fat32.c:263) without leaving a cluster behind.                    *)
THEOREM NoClusterLost == Spec => []NoLeak
<1>1. LostInv => NoLeak
  <2> SUFFICES ASSUME NoneLost, Idling, NEW c \in Files, fat[1][c] # Free
               PROVE  \E r \in Referring : Target(r) = c
    BY DEF LostInv, NoLeak
  <2>1. Referred(c)
    BY NoneHeld DEF NoneLost, Idling
  <2>2. ASSUME NEW s \in Slots, DirRef(s), dir[s].first = c
        PROVE  \E r \in Referring : Target(r) = c
    <3>1. <<"dir", s>> \in Referring /\ Target(<<"dir", s>>) = c
      BY <2>2 DEF Referring, Target, DirRef
    <3> QED BY <3>1
  <2>3. ASSUME NEW d \in Files, fat[1][d] = c
        PROVE  \E r \in Referring : Target(r) = c
    <3>1. <<"fat", d>> \in Referring /\ Target(<<"fat", d>>) = c
      BY <2>3 DEF Referring, Target
    <3> QED BY <3>1
  <2> QED BY <2>1, <2>2, <2>3 DEF Referred
<1> QED BY <1>1, LostInit, LostNext, PTL DEF Spec
=============================================================================
