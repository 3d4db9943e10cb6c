---------------------------- MODULE DesktopProofs ----------------------------
(***************************************************************************)
(* Proof of what DesktopProperties states, for every heap, every set of      *)
(* applications and every ring of keys that satisfy the assumptions of       *)
(* Windows.tla and Desktop.tla.                                             *)
(*                                                                         *)
(* In this order: walks along pointers; the window list as a sequence        *)
(* (Chain); the heap as a tiling; the operations on both (Kept); the         *)
(* handlers (Sound); the ring as a queue; the theorems, at the end.          *)
(***************************************************************************)
EXTENDS DesktopProperties, FiniteSetTheorems, SequenceTheorems, WellFoundedInduction, TLAPS

\* A set of numbers has a least one.
LEMMA LeastNatural ==
  ASSUME NEW S \in SUBSET Nat, S # {}
  PROVE  Min(S) \in S /\ \A t \in S : Min(S) <= t
<1> DEFINE R == {ss \in Nat \X Nat : ss[1] < ss[2]}
<1>1. IsWellFoundedOn(R, Nat)
  BY NatLessThanWellFounded DEF OpToRel
<1>2. PICK s \in S : \A t \in S : <<t, s>> \notin R
  BY <1>1, WFMin
<1>3. \A t \in S : ~(t < s)
  BY <1>2
<1>4. \A t \in S : s <= t
  BY <1>3
<1> QED BY <1>4 DEF Min

\* Induction over the numbers, for a set instead of a formula.
LEMMA NatBySteps ==
  ASSUME NEW P \in SUBSET Nat, 0 \in P, \A n \in P : n + 1 \in P
  PROVE  P = Nat
<1> SUFFICES ASSUME Nat \ P # {} PROVE FALSE
  OBVIOUS
<1> DEFINE s == Min(Nat \ P)
<1>1. s \in Nat \ P /\ \A t \in Nat \ P : s <= t
  BY LeastNatural
<1>2. s # 0 /\ s - 1 \in Nat /\ s - 1 \in P
  BY <1>1
<1> QED BY <1>1, <1>2

\* The sequence s of different windows is linked by the field, from its first
\* window to its last.
LinkedBy(m, field, s) ==
  /\ s \in Seq(Addresses)
  /\ \A i, j \in 1 .. Len(s) : s[i] = s[j] => i = j
  /\ \A i \in 1 .. Len(s) : m.node[s[i]][field] = IF i = Len(s) THEN NULL ELSE s[i + 1]

\* What the recursive function of Walk computes.
Nowhere == [a \in Pointers |-> <<>>]
Walks(m, field, walk, n) ==
  walk = [k \in 0 .. n |-> IF k = 0 THEN Nowhere ELSE OneMore(m, field, walk[k - 1])]

\* There is a function that computes every walk of at most n windows.
LEMMA WalksExist ==
  ASSUME NEW m, NEW field, NEW n \in Nat
  PROVE  \E walk : Walks(m, field, walk, n)
<1> DEFINE P == {k \in Nat : \E walk : Walks(m, field, walk, k)}
<1> HIDE DEF P
<1>1. 0 \in P
  <2> DEFINE u == [k \in 0 .. 0 |-> Nowhere]
  <2>1. Walks(m, field, u, 0)
    BY DEF Walks
  <2> QED BY <2>1 DEF P
<1>2. ASSUME NEW k \in P PROVE k + 1 \in P
  <2>1. k \in Nat
    BY DEF P
  <2>2. PICK w : Walks(m, field, w, k)
    BY DEF P
  <2> DEFINE u == [j \in 0 .. k + 1 |-> IF j = 0 THEN Nowhere ELSE OneMore(m, field, w[j - 1])]
  <2>3. \A j \in 0 .. k : w[j] = u[j]
    BY <2>1, <2>2 DEF Walks
  <2>4. \A j \in 0 .. k + 1 : u[j] = IF j = 0 THEN Nowhere ELSE OneMore(m, field, u[j - 1])
    <3> TAKE j \in 0 .. k + 1
    <3>1. CASE j = 0
      BY <3>1, <2>1
    <3>2. CASE j # 0
      <4>1. j - 1 \in 0 .. k
        BY <3>2, <2>1
      <4>2. w[j - 1] = u[j - 1]
        BY <4>1, <2>3
      <4> QED BY <3>2, <4>2
    <3> QED BY <3>1, <3>2
  <2>5. Walks(m, field, u, k + 1)
    BY <2>4 DEF Walks
  <2> QED BY <2>1, <2>5 DEF P
<1>3. P = Nat
  BY <1>1, <1>2, NatBySteps DEF P
<1> QED BY <1>3 DEF P

\* Walk is that function for the whole heap.
LEMMA WalkIsWalks ==
  ASSUME NEW m, NEW field
  PROVE  \E walk : /\ Walks(m, field, walk, HeapSize)
                   /\ \A from : Walk(m, from, field) = walk[HeapSize][from]
<1> DEFINE W == CHOOSE walk : Walks(m, field, walk, HeapSize)
<1>1. Walks(m, field, W, HeapSize)
  BY WalksExist, HeapAssumption
<1>2. \A from : Walk(m, from, field) = W[HeapSize][from]
  BY DEF Walk, Walks, Nowhere
<1> QED BY <1>1, <1>2

\* The windows of a list are different places, so there are not more than
\* the walk goes.
LEMMA ListsAreShort ==
  ASSUME NEW s \in Seq(Addresses), \A i, j \in 1 .. Len(s) : s[i] = s[j] => i = j
  PROVE  Len(s) <= HeapSize
<1>1. s \in Injection(1 .. Len(s), Addresses)
  BY DEF Injection, IsInjective
<1>2. IsFiniteSet(Addresses) /\ Cardinality(Addresses) = HeapSize
  BY FS_Interval, HeapAssumption DEF Addresses
<1>3. Cardinality(1 .. Len(s)) = Len(s)
  <2>1. Len(s) \in Nat
    OBVIOUS
  <2> HIDE DEF Addresses
  <2>2. Cardinality(1 .. Len(s)) = IF 1 > Len(s) THEN 0 ELSE Len(s) - 1 + 1
    BY <2>1, FS_Interval
  <2> QED BY <2>1, <2>2
<1> QED BY <1>1, <1>2, <1>3, FS_Injection

\* The end of s that begins at place i.
From(s, i) == [j \in 1 .. Len(s) + 1 - i |-> s[i + j - 1]]

\* Walking along a list gives the list.
LEMMA WalkAlong ==
  ASSUME NEW m, NEW field, NEW s, LinkedBy(m, field, s)
  PROVE  Walk(m, IF s = <<>> THEN NULL ELSE s[1], field) = s
<1>1. PICK walk : /\ Walks(m, field, walk, HeapSize)
                  /\ \A from : Walk(m, from, field) = walk[HeapSize][from]
  BY WalkIsWalks
<1> DEFINE n == Len(s)
           P == {k \in Nat : \A i \in 1 .. n : n + 1 - i <= k /\ k <= HeapSize
                                                => walk[k][s[i]] = From(s, i)}
<1>2. n \in Nat /\ n <= HeapSize /\ HeapSize \in Nat \ {0}
  BY ListsAreShort, HeapAssumption DEF LinkedBy
<1>3. \A k \in 1 .. HeapSize, a \in Addresses :
         walk[k][a] = <<a>> \o walk[k - 1][m.node[a][field]]
  <2> TAKE k \in 1 .. HeapSize, a \in Addresses
  <2>1. walk[k] = OneMore(m, field, walk[k - 1])
    BY <1>1, <1>2 DEF Walks
  <2>2. a \in Pointers /\ a # NULL
    BY DEF Pointers, Addresses, NULL
  <2> QED BY <2>1, <2>2 DEF OneMore
<1>4. \A k \in 0 .. HeapSize : walk[k][NULL] = <<>>
  BY <1>1, <1>2 DEF Walks, OneMore, Pointers, Nowhere
<1> HIDE DEF P
<1>5. 0 \in P
  BY <1>2 DEF P
<1>6. ASSUME NEW k \in P PROVE k + 1 \in P
  <2>1. k \in Nat
    BY DEF P
  <2>2. SUFFICES ASSUME NEW i \in 1 .. n, n + 1 - i <= k + 1, k + 1 <= HeapSize
                 PROVE  walk[k + 1][s[i]] = From(s, i)
    BY <2>1 DEF P
  <2>3. walk[k + 1][s[i]] = <<s[i]>> \o walk[k][m.node[s[i]][field]]
    <3>1. k + 1 \in 1 .. HeapSize /\ s[i] \in Addresses /\ (k + 1) - 1 = k
      BY <2>1, <2>2, <1>2 DEF LinkedBy
    <3> QED BY <3>1, <1>3
  <2>4. CASE i = n
    <3>1. walk[k][m.node[s[i]][field]] = <<>>
      BY <2>1, <2>2, <2>4, <1>2, <1>4 DEF LinkedBy
    <3>2. From(s, i) = <<s[i]>>
      BY <2>4, <1>2 DEF From, LinkedBy
    <3> QED BY <2>3, <3>1, <3>2
  <2>5. CASE i # n
    <3>1. walk[k][m.node[s[i]][field]] = From(s, i + 1)
      BY <2>1, <2>2, <2>5, <1>2 DEF LinkedBy, P
    <3>2. From(s, i) = <<s[i]>> \o From(s, i + 1)
      BY <2>2, <2>5, <1>2 DEF From, LinkedBy
    <3> QED BY <2>3, <3>1, <3>2
  <2> QED BY <2>4, <2>5
<1>7. P = Nat
  BY <1>5, <1>6, NatBySteps DEF P
<1>8. CASE s = <<>>
  BY <1>8, <1>1, <1>2, <1>4
<1>9. CASE s # <<>>
  <2>1. n > 0 /\ Walk(m, s[1], field) = From(s, 1)
    BY <1>9, <1>1, <1>2, <1>7 DEF P, LinkedBy
  <2>2. From(s, 1) = s
    BY <1>2, <2>1 DEF From, LinkedBy
  <2> QED BY <2>1, <2>2, <1>9
<1> QED BY <1>8, <1>9

-----------------------------------------------------------------------------
(***************************************************************************)
(* The list of windows.                                                     *)
(***************************************************************************)
Heaps == UNION {[S -> [size : Nat, used : BOOLEAN]] : S \in SUBSET (0 .. HeapSize - 1)}
Nodes == [Addresses -> [next : Pointers, prev : Pointers, focused : BOOLEAN, minimized : BOOLEAN]]
Managers == [heap : Heaps, node : Nodes, head : Pointers, focused : Pointers]

\* The window manager's list is s, in both directions.
Chain(m, s) ==
  /\ s \in Seq(Addresses)
  /\ \A i, j \in 1 .. Len(s) : s[i] = s[j] => i = j
  /\ m.head = IF s = <<>> THEN NULL ELSE s[1]
  /\ \A i \in 1 .. Len(s) :
       /\ m.node[s[i]].next = IF i = Len(s) THEN NULL ELSE s[i + 1]
       /\ m.node[s[i]].prev = IF i = 1 THEN NULL ELSE s[i - 1]

\* A null pointer points to no window (window_list_head, focused_window).
LEMMA NullIsNoAddress ==
  NULL \in Pointers /\ NULL \notin Addresses /\ Addresses \subseteq Pointers
BY DEF Pointers, NULL, Addresses

\* The windows of a list are different places of the heap.
LEMMA ChainPlaces ==
  ASSUME NEW m, NEW s, Chain(m, s)
  PROVE  /\ Len(s) \in Nat /\ s \in Seq(Addresses)
         /\ \A j \in 1 .. Len(s) : s[j] \in Addresses /\ s[j] # NULL
         /\ \A j, k \in 1 .. Len(s) : s[j] = s[k] => j = k
         /\ s # <<>> => 1 \in 1 .. Len(s)
<1>1. s \in Seq(Addresses) /\ \A j, k \in 1 .. Len(s) : s[j] = s[k] => j = k
  BY DEF Chain
<1>2. \A j \in 1 .. Len(s) : s[j] \in Addresses /\ s[j] # NULL
  BY <1>1, NullIsNoAddress
<1> QED BY <1>1, <1>2

\* Reading the list forwards gives s, reading it backwards s from its end.
LEMMA ChainIsOrder ==
  ASSUME NEW m, NEW s, Chain(m, s)
  PROVE  /\ FrontToBack(m) = s
         /\ s # <<>> => Walk(m, Last(s), "prev") = Reverse(s)
<1>1. LinkedBy(m, "next", s)
  BY DEF Chain, LinkedBy
<1>2. FrontToBack(m) = s
  BY <1>1, WalkAlong DEF FrontToBack, Chain
<1>3. ASSUME s # <<>> PROVE Walk(m, Last(s), "prev") = Reverse(s)
  <2> DEFINE r == Reverse(s)
  <2>1. Len(s) \in Nat \ {0} /\ r \in Seq(Addresses) /\ Len(r) = Len(s)
    BY <1>3 DEF Chain, Reverse
  <2>2. \A i \in 1 .. Len(s) : r[i] = s[Len(s) - i + 1]
    BY DEF Reverse
  <2> HIDE DEF r
  <2>3. LinkedBy(m, "prev", r)
    <3>1. \A i, j \in 1 .. Len(r) : r[i] = r[j] => i = j
      <4> TAKE i \in 1 .. Len(r), j \in 1 .. Len(r)
      <4>1. Len(s) - i + 1 \in 1 .. Len(s) /\ Len(s) - j + 1 \in 1 .. Len(s)
        BY <2>1
      <4>2. r[i] = s[Len(s) - i + 1] /\ r[j] = s[Len(s) - j + 1]
        BY <2>1, <2>2
      <4>3. r[i] = r[j] => Len(s) - i + 1 = Len(s) - j + 1
        BY <4>1, <4>2 DEF Chain
      <4> QED BY <2>1, <4>3
    <3>2. \A i \in 1 .. Len(r) : m.node[r[i]]["prev"] = IF i = Len(r) THEN NULL ELSE r[i + 1]
      <4> TAKE i \in 1 .. Len(r)
      <4> DEFINE k == Len(s) - i + 1
      <4>1. k \in 1 .. Len(s) /\ r[i] = s[k] /\ (k = 1 <=> i = Len(r))
        BY <2>1, <2>2
      <4>2. m.node[s[k]].prev = IF k = 1 THEN NULL ELSE s[k - 1]
        BY <4>1 DEF Chain
      <4>3. i # Len(r) => r[i + 1] = s[k - 1]
        BY <2>1, <2>2
      <4> HIDE DEF k
      <4> QED BY <4>1, <4>2, <4>3
    <3> QED BY <2>1, <3>1, <3>2 DEF LinkedBy
  <2>4. r # <<>> /\ r[1] = Last(s)
    BY <2>1, <2>2 DEF Last
  <2>5. Walk(m, IF r = <<>> THEN NULL ELSE r[1], "prev") = r
    BY <2>3, WalkAlong
  <2> QED BY <2>4, <2>5 DEF r
<1> QED BY <1>2, <1>3

\* Nothing but the pointers of the list differs between m and r.
SameButLinks(m, r) ==
  /\ r \in Managers /\ r.heap = m.heap /\ r.focused = m.focused
  /\ \A x \in Addresses : /\ r.node[x].focused = m.node[x].focused
                          /\ r.node[x].minimized = m.node[x].minimized

\* An assignment through a pointer that may be null.
LEMMA LinkNext ==
  ASSUME NEW m \in Managers, NEW a \in Pointers, NEW to \in Pointers
  PROVE  LET r == Link(m, a, "next", to)
         IN /\ SameButLinks(m, r) /\ r.head = m.head
            /\ \A x \in Addresses : /\ r.node[x].next = IF x = a THEN to ELSE m.node[x].next
                                    /\ r.node[x].prev = m.node[x].prev
<1>1. NULL \notin Addresses
  BY DEF NULL, Addresses
<1>2. CASE a = NULL
  BY <1>1, <1>2 DEF Link, SameButLinks
<1>3. CASE a # NULL
  BY <1>3 DEF Link, Managers, Nodes, SameButLinks, Pointers
<1> QED BY <1>2, <1>3

\* The same for the other pointer.
LEMMA LinkPrev ==
  ASSUME NEW m \in Managers, NEW a \in Pointers, NEW to \in Pointers
  PROVE  LET r == Link(m, a, "prev", to)
         IN /\ SameButLinks(m, r) /\ r.head = m.head
            /\ \A x \in Addresses : /\ r.node[x].next = m.node[x].next
                                    /\ r.node[x].prev = IF x = a THEN to ELSE m.node[x].prev
<1>1. NULL \notin Addresses
  BY DEF NULL, Addresses
<1>2. CASE a = NULL
  BY <1>1, <1>2 DEF Link, SameButLinks
<1>3. CASE a # NULL
  BY <1>3 DEF Link, Managers, Nodes, SameButLinks, Pointers
<1> QED BY <1>2, <1>3

\* A window becomes the first.
LEMMA PutFirstLinks ==
  ASSUME NEW m \in Managers, NEW w \in Addresses
  PROVE  LET r == PutFirst(m, w)
         IN /\ SameButLinks(m, r) /\ r.head = w
            /\ \A x \in Addresses :
                 /\ r.node[x].next = IF x = w THEN m.head ELSE m.node[x].next
                 /\ r.node[x].prev = IF x = w THEN NULL
                                     ELSE IF x = m.head THEN w ELSE m.node[x].prev
<1> DEFINE l == Link(m, m.head, "prev", w)
           r == PutFirst(m, w)
<1>1. m.head \in Pointers /\ w \in Pointers /\ NULL \in Pointers
  BY DEF Managers, Pointers
<1>2. /\ SameButLinks(m, l) /\ l.head = m.head
      /\ \A x \in Addresses : /\ l.node[x].next = m.node[x].next
                              /\ l.node[x].prev = IF x = m.head THEN w ELSE m.node[x].prev
  BY <1>1, LinkPrev
<1>3. r = [l EXCEPT !.node[w].next = m.head, !.node[w].prev = NULL, !.head = w]
  BY DEF PutFirst
<1> HIDE DEF l
<1>4. l \in Managers
  BY <1>2 DEF SameButLinks
<1>5. /\ r \in Managers /\ r.heap = l.heap /\ r.focused = l.focused /\ r.head = w
      /\ \A x \in Addresses :
           /\ r.node[x].next = IF x = w THEN m.head ELSE l.node[x].next
           /\ r.node[x].prev = IF x = w THEN NULL ELSE l.node[x].prev
           /\ r.node[x].focused = l.node[x].focused
           /\ r.node[x].minimized = l.node[x].minimized
  <2> DEFINE p == [l EXCEPT !.node[w].next = m.head]
             q == [p EXCEPT !.node[w].prev = NULL]
  <2>1. /\ p \in Managers /\ p.heap = l.heap /\ p.focused = l.focused
        /\ \A x \in Addresses :
             /\ p.node[x].next = IF x = w THEN m.head ELSE l.node[x].next
             /\ p.node[x].prev = l.node[x].prev
             /\ p.node[x].focused = l.node[x].focused
             /\ p.node[x].minimized = l.node[x].minimized
    BY <1>1, <1>4 DEF Managers, Nodes
  <2>2. r = [q EXCEPT !.head = w]
    BY <1>3, <1>4 DEF Managers, Nodes
  <2> HIDE DEF p
  <2>3. /\ q \in Managers /\ q.heap = p.heap /\ q.focused = p.focused
        /\ \A x \in Addresses :
             /\ q.node[x].next = p.node[x].next
             /\ q.node[x].prev = IF x = w THEN NULL ELSE p.node[x].prev
             /\ q.node[x].focused = p.node[x].focused
             /\ q.node[x].minimized = p.node[x].minimized
    <3>1. p \in Managers
      BY <2>1
    <3> QED BY <1>1, <3>1 DEF Managers, Nodes
  <2> HIDE DEF q
  <2>4. /\ r \in Managers /\ r.heap = q.heap /\ r.focused = q.focused /\ r.head = w
        /\ r.node = q.node
    BY <1>1, <2>2, <2>3 DEF Managers
  <2> QED BY <2>1, <2>3, <2>4
<1> HIDE DEF r
<1>6. SameButLinks(m, r)
  BY <1>2, <1>5 DEF SameButLinks
<1> QED BY <1>2, <1>5, <1>6 DEF r

\* The order without the window at place i, and with that window in front.
LEMMA RemovedPlaces ==
  ASSUME NEW s \in Seq(Addresses), NEW i \in 1 .. Len(s)
  PROVE  /\ RemoveAt(s, i) \in Seq(Addresses)
         /\ Len(RemoveAt(s, i)) = Len(s) - 1
         /\ \A j \in 1 .. Len(s) - 1 : RemoveAt(s, i)[j] = IF j < i THEN s[j] ELSE s[j + 1]
<1> DEFINE a == SubSeq(s, 1, i - 1)
           b == SubSeq(s, i + 1, Len(s))
<1>0. Len(s) \in Nat /\ i \in Nat
  OBVIOUS
<1>1. /\ a \in Seq(Addresses) /\ Len(a) = i - 1
      /\ \A j \in 1 .. i - 1 : a[j] = s[j]
  OBVIOUS
<1>2. /\ b \in Seq(Addresses) /\ Len(b) = Len(s) - i
      /\ \A j \in 1 .. Len(s) - i : b[j] = s[i + j]
  <2>1. i + 1 \in 1 .. Len(s) + 1
    OBVIOUS
  <2> QED BY <2>1
<1>3. RemoveAt(s, i) = a \o b
  BY DEF RemoveAt
<1> HIDE DEF a, b
<1>4. /\ a \o b \in Seq(Addresses)
      /\ Len(a \o b) = Len(a) + Len(b)
      /\ \A j \in 1 .. Len(a) + Len(b) :
           (a \o b)[j] = IF j <= Len(a) THEN a[j] ELSE b[j - Len(a)]
  BY <1>1, <1>2, ConcatProperties
<1> DEFINE t == a \o b
<1> HIDE DEF t
<1>5. ASSUME NEW j \in 1 .. Len(s) - 1
      PROVE  t[j] = IF j < i THEN s[j] ELSE s[j + 1]
  <2>1. CASE j < i
    BY <2>1, <1>0, <1>1, <1>2, <1>4 DEF t
  <2>2. CASE j >= i
    <3>1. j - (i - 1) \in 1 .. Len(s) - i /\ ~(j <= i - 1)
      BY <2>2, <1>0
    <3>2. t[j] = b[j - (i - 1)]
      BY <3>1, <1>0, <1>1, <1>2, <1>4 DEF t
    <3> QED BY <3>1, <3>2, <1>0, <1>2, <2>2
  <2> QED BY <2>1, <2>2, <1>0
<1> QED BY <1>0, <1>1, <1>2, <1>3, <1>4, <1>5 DEF t

Fronted(s, i) == <<s[i]>> \o RemoveAt(s, i)

\* Where each window is once the one at place i is in front.
LEMMA FrontedPlaces ==
  ASSUME NEW s \in Seq(Addresses), NEW i \in 1 .. Len(s)
  PROVE  /\ Fronted(s, i) \in Seq(Addresses)
         /\ Len(Fronted(s, i)) = Len(s)
         /\ Fronted(s, i)[1] = s[i]
         /\ \A j \in 2 .. Len(s) : Fronted(s, i)[j] = IF j <= i THEN s[j - 1] ELSE s[j]
<1> DEFINE t == RemoveAt(s, i)
<1>1. /\ t \in Seq(Addresses) /\ Len(t) = Len(s) - 1
      /\ \A j \in 1 .. Len(s) - 1 : t[j] = IF j < i THEN s[j] ELSE s[j + 1]
  BY RemovedPlaces
<1>2. s[i] \in Addresses /\ Len(s) \in Nat
  OBVIOUS
<1> HIDE DEF t
<1>3. /\ <<s[i]>> \o t \in Seq(Addresses)
      /\ Len(<<s[i]>> \o t) = 1 + Len(t)
      /\ (<<s[i]>> \o t)[1] = s[i]
      /\ \A j \in 2 .. 1 + Len(t) : (<<s[i]>> \o t)[j] = t[j - 1]
  BY <1>1, <1>2
<1>4. \A j \in 2 .. Len(s) : t[j - 1] = IF j <= i THEN s[j - 1] ELSE s[j]
  BY <1>1, <1>2
<1> QED BY <1>1, <1>2, <1>3, <1>4 DEF Fronted, t

\* window_raise puts the window in front and leaves the others in their order.
LEMMA RaiseFronts ==
  ASSUME NEW m \in Managers, NEW s, Chain(m, s), NEW i \in 1 .. Len(s)
  PROVE  LET r == Raise(m, s[i])
         IN /\ SameButLinks(m, r)
            /\ Chain(r, Fronted(s, i))
<1> DEFINE w == s[i]
           n == Len(s)
           r == Raise(m, w)
           t == Fronted(s, i)
<1>0. NULL \in Pointers /\ NULL \notin Addresses /\ Addresses \subseteq Pointers
  BY DEF Pointers, NULL, Addresses
<1>1. /\ n \in Nat /\ i \in 1 .. n /\ 1 \in 1 .. n /\ s \in Seq(Addresses) /\ s # <<>>
      /\ \A j \in 1 .. n : s[j] \in Addresses /\ s[j] \in Pointers /\ s[j] # NULL
      /\ m.head = s[1]
  BY <1>0 DEF Chain
<1>2. \A j, k \in 1 .. n : s[j] = s[k] => j = k
  BY DEF Chain
<1>3. /\ t \in Seq(Addresses) /\ Len(t) = n /\ t[1] = w
      /\ \A j \in 2 .. n : t[j] = IF j <= i THEN s[j - 1] ELSE s[j]
  BY <1>1, FrontedPlaces
<1> HIDE DEF t
<1>4. \A j, k \in 1 .. n : t[j] = t[k] => j = k
  <2> DEFINE from(j) == IF j = 1 THEN i ELSE IF j <= i THEN j - 1 ELSE j
  <2> HIDE DEF n, w
  <2>1. \A j \in 1 .. n : from(j) \in 1 .. n
    BY <1>1
  <2>2. \A j \in 1 .. n : t[j] = s[from(j)]
    BY <1>3, <1>1 DEF w
  <2>3. \A j, k \in 1 .. n : from(j) = from(k) => j = k
    BY <1>1
  <2> HIDE DEF from
  <2> QED BY <1>2, <2>1, <2>2, <2>3
<1>5. CASE i = 1
  <2>1. r = m
    BY <1>1, <1>5 DEF Raise
  <2>2. t = s
    BY <1>1, <1>3, <1>5, SeqEqual
  <2> QED BY <2>1, <2>2 DEF t, SameButLinks
<1>6. CASE i # 1
  <2> DEFINE nx == m.node[w].next
             pv == m.node[w].prev
             m1 == Link(m, nx, "prev", pv)
             m2 == Link(m1, pv, "next", nx)
  <2>1. /\ i \in 2 .. n /\ i - 1 \in 1 .. n
        /\ nx = (IF i = n THEN NULL ELSE s[i + 1]) /\ pv = s[i - 1]
        /\ nx \in Pointers /\ pv \in Pointers
    BY <1>0, <1>1, <1>6 DEF Chain
  <2>2. /\ SameButLinks(m, m1) /\ m1.head = m.head
        /\ \A x \in Addresses : /\ m1.node[x].next = m.node[x].next
                                /\ m1.node[x].prev = IF x = nx THEN pv ELSE m.node[x].prev
    BY <2>1, LinkPrev
  <2>3. /\ SameButLinks(m1, m2) /\ m2.head = m1.head
        /\ \A x \in Addresses : /\ m2.node[x].next = IF x = pv THEN nx ELSE m1.node[x].next
                                /\ m2.node[x].prev = m1.node[x].prev
    <3>1. m1 \in Managers
      BY <2>2 DEF SameButLinks
    <3> HIDE DEF m1, nx, pv
    <3> QED BY <2>1, <3>1, LinkNext
  <2>4. /\ SameButLinks(m2, r) /\ r.head = w
        /\ \A x \in Addresses :
             /\ r.node[x].next = IF x = w THEN m2.head ELSE m2.node[x].next
             /\ r.node[x].prev = IF x = w THEN NULL
                                 ELSE IF x = m2.head THEN w ELSE m2.node[x].prev
    <3>1. w # m.head /\ m.head # NULL /\ w # NULL /\ w \in Addresses
      BY <1>1, <1>2, <1>6
    <3>2. r = PutFirst(m2, w)
      BY <3>1 DEF Raise, Unlink
    <3>3. m2 \in Managers
      BY <2>3 DEF SameButLinks
    <3> HIDE DEF r, m2, w
    <3> QED BY <3>1, <3>2, <3>3, PutFirstLinks
  <2> HIDE DEF m1, m2, nx, pv, r
  <2>6. SameButLinks(m, r)
    BY <2>2, <2>3, <2>4 DEF SameButLinks
  <2>7. \A x \in Addresses :
          /\ r.node[x].next = IF x = w THEN s[1] ELSE IF x = pv THEN nx ELSE m.node[x].next
          /\ r.node[x].prev = IF x = w THEN NULL ELSE IF x = s[1] THEN w
                              ELSE IF x = nx THEN pv ELSE m.node[x].prev
    BY <1>1, <2>2, <2>3, <2>4
  <2>9. ASSUME NEW j \in 1 .. n
        PROVE  /\ r.node[t[j]].next = IF j = n THEN NULL ELSE t[j + 1]
               /\ r.node[t[j]].prev = IF j = 1 THEN NULL ELSE t[j - 1]
    <3>1. CASE j = 1
      <4>1. t[j] = w /\ t[2] = s[1] /\ j # n
        BY <1>1, <1>3, <2>1, <3>1
      <4> QED BY <1>1, <2>7, <3>1, <4>1
    <3>2. CASE j \in 2 .. i
      <4>1. j - 1 \in 1 .. n /\ t[j] = s[j - 1] /\ t[j] \in Addresses /\ t[j] # w
        BY <1>1, <1>2, <1>3, <3>2
      <4>2. t[j] = pv <=> j = i
        BY <1>1, <1>2, <2>1, <3>2, <4>1
      <4>3. j # i => m.node[t[j]].next = s[j] /\ t[j + 1] = s[j]
        <5>1. m.node[s[j - 1]].next = IF j - 1 = n THEN NULL ELSE s[(j - 1) + 1]
          BY <4>1 DEF Chain
        <5>2. (j - 1) + 1 = j /\ j - 1 # n
          BY <1>1, <3>2
        <5>3. j # i => t[j + 1] = s[j]
          BY <1>1, <1>3, <3>2
        <5> QED BY <4>1, <5>1, <5>2, <5>3
      <4>4. j = i /\ i # n => t[j + 1] = s[i + 1]
        BY <1>1, <1>3, <3>2
      <4>5. t[j] = s[1] <=> j = 2
        BY <1>1, <1>2, <3>2, <4>1
      <4>6. t[j] # nx
        BY <1>1, <1>2, <2>1, <3>2, <4>1
      <4>7. j # 2 => m.node[t[j]].prev = s[j - 2] /\ t[j - 1] = s[j - 2]
        BY <1>1, <1>3, <3>2, <4>1 DEF Chain
      <4>8. j = 2 => t[j - 1] = w
        BY <1>3
      <4> QED BY <1>1, <2>1, <2>7, <3>2, <4>1, <4>2, <4>3, <4>4, <4>5, <4>6, <4>7, <4>8
    <3>3. CASE j > i
      <4>1. t[j] = s[j] /\ t[j] \in Addresses /\ t[j] # w /\ t[j] # pv /\ t[j] # s[1]
        BY <1>1, <1>2, <1>3, <2>1, <3>3
      <4>2. m.node[t[j]].next = IF j = n THEN NULL ELSE t[j + 1]
        BY <1>1, <1>3, <3>3, <4>1 DEF Chain
      <4>3. t[j] = nx <=> j = i + 1
        BY <1>1, <1>2, <2>1, <3>3, <4>1
      <4>4. j = i + 1 => t[j - 1] = pv
        BY <1>1, <1>3, <2>1, <3>3
      <4>5. j # i + 1 => m.node[t[j]].prev = t[j - 1]
        BY <1>1, <1>3, <3>3, <4>1 DEF Chain
      <4> QED BY <2>7, <1>1, <3>3, <4>1, <4>2, <4>3, <4>4, <4>5
    <3> QED BY <1>1, <2>1, <3>1, <3>2, <3>3
  <2>10. Chain(r, t)
    <3>1. t # <<>> /\ r.head = t[1]
      <4>1. Len(t) > 0
        BY <1>1, <1>3
      <4> QED BY <4>1, <1>3, <2>4
    <3> QED BY <1>3, <1>4, <2>9, <3>1 DEF Chain
  <2> QED BY <2>6, <2>10 DEF r, t
<1> QED BY <1>1, <1>5, <1>6

\* window_manager_add puts a window that is not in the list in front.
LEMMA AddFronts ==
  ASSUME NEW m \in Managers, NEW s, Chain(m, s), NEW w \in Addresses,
         \A i \in 1 .. Len(s) : s[i] # w
  PROVE  LET r == Add(m, w)
         IN SameButLinks(m, r) /\ Chain(r, <<w>> \o s)
<1> DEFINE r == Add(m, w)
           n == Len(s)
           t == <<w>> \o s
<1>1. /\ n \in Nat /\ s \in Seq(Addresses) /\ w # NULL
      /\ \A j \in 1 .. n : s[j] \in Addresses
  BY ChainPlaces, NullIsNoAddress
<1>2. /\ t \in Seq(Addresses) /\ Len(t) = n + 1 /\ t[1] = w
      /\ \A j \in 2 .. n + 1 : t[j] = s[j - 1]
  BY <1>1
<1>3. /\ SameButLinks(m, r) /\ r.head = w
      /\ \A x \in Addresses :
           /\ r.node[x].next = IF x = w THEN m.head ELSE m.node[x].next
           /\ r.node[x].prev = IF x = w THEN NULL
                               ELSE IF x = m.head THEN w ELSE m.node[x].prev
  BY <1>1, PutFirstLinks DEF Add
<1> HIDE DEF r, t
<1>4. \A j, k \in 1 .. n + 1 : t[j] = t[k] => j = k
  <2>1. \A j \in 2 .. n + 1 : j - 1 \in 1 .. n
    BY <1>1
  <2>2. \A j, k \in 2 .. n + 1 : t[j] = t[k] => j - 1 = k - 1
    <3> TAKE j, k \in 2 .. n + 1
    <3>1. t[j] = s[j - 1] /\ t[k] = s[k - 1] /\ j - 1 \in 1 .. n /\ k - 1 \in 1 .. n
      BY <1>2, <2>1
    <3> QED BY <3>1, ChainPlaces
  <2>3. \A j \in 2 .. n + 1 : t[j] # t[1]
    BY <1>2, <2>1
  <2> QED BY <1>1, <2>2, <2>3
<1>5. ASSUME NEW j \in 1 .. n + 1
      PROVE  /\ r.node[t[j]].next = IF j = n + 1 THEN NULL ELSE t[j + 1]
             /\ r.node[t[j]].prev = IF j = 1 THEN NULL ELSE t[j - 1]
  <2>1. CASE j = 1
    <3>1. m.head = IF n = 0 THEN NULL ELSE t[2]
      BY <1>1, <1>2 DEF Chain
    <3> QED BY <1>1, <1>2, <1>3, <2>1, <3>1
  <2>2. CASE j # 1
    <3> DEFINE k == j - 1
    <3>1. k \in 1 .. n /\ t[j] = s[k] /\ t[j] \in Addresses /\ t[j] # w
      BY <1>1, <1>2, <2>2
    <3>2. /\ m.node[s[k]].next = IF k = n THEN NULL ELSE s[k + 1]
          /\ m.node[s[k]].prev = IF k = 1 THEN NULL ELSE s[k - 1]
      BY <3>1 DEF Chain
    <3>3. m.head = s[1] /\ (s[k] = s[1] <=> k = 1)
      BY <1>1, <3>1 DEF Chain
    <3>4. /\ j # n + 1 => t[j + 1] = s[k + 1]
          /\ k # 1 => t[j - 1] = s[k - 1]
          /\ k = 1 => t[j - 1] = w
          /\ (j = n + 1 <=> k = n)
      <4>1. j \in Nat /\ k \in Nat /\ j = k + 1
        BY <1>1
      <4>2. (j # n + 1 => t[j + 1] = s[(j + 1) - 1]) /\ (j = n + 1 <=> k = n)
        BY <4>1, <1>1, <1>2
      <4>3. k # 1 => t[j - 1] = s[(j - 1) - 1]
        BY <4>1, <1>1, <1>2, <3>1
      <4>4. k = 1 => t[j - 1] = w
        BY <4>1, <1>2
      <4> HIDE DEF k
      <4> QED BY <4>1, <4>2, <4>3, <4>4
    <3> HIDE DEF k
    <3> QED BY <1>3, <2>2, <3>1, <3>2, <3>3, <3>4
  <2> QED BY <2>1, <2>2
<1>6. Chain(r, t)
  <2>1. t # <<>>
    BY <1>1, <1>2
  <2> QED BY <1>2, <1>3, <1>4, <1>5, <2>1 DEF Chain
<1> QED BY <1>3, <1>6 DEF r, t

\* Only focused, minimized and who has the focus differ between m and r.
LEMMA ChainStays ==
  ASSUME NEW m, NEW r, NEW s, Chain(m, s), r.head = m.head,
         \A x \in Addresses : r.node[x].next = m.node[x].next /\ r.node[x].prev = m.node[x].prev
  PROVE  Chain(r, s)
<1>1. \A i \in 1 .. Len(s) : s[i] \in Addresses
  BY DEF Chain
<1> QED BY <1>1 DEF Chain

\* window_set_focus: the window with the focused border, the front one, the rest.
LEMMA SetFocusFronts ==
  ASSUME NEW m \in Managers, NEW s, Chain(m, s), NEW i \in 1 .. Len(s)
  PROVE  LET r == SetFocus(m, s[i])
         IN /\ r \in Managers /\ r.heap = m.heap /\ r.focused = s[i]
            /\ Chain(r, Fronted(s, i))
            /\ \A x \in Addresses :
                 /\ r.node[x].minimized = m.node[x].minimized
                 /\ r.node[x].focused <=> x = s[i] \/ (m.node[x].focused /\ x # m.focused)
<1> DEFINE w == s[i]
           b == IF m.focused = NULL THEN m ELSE [m EXCEPT !.node[m.focused].focused = FALSE]
           f == [b EXCEPT !.focused = w, !.node[w].focused = TRUE]
           r == SetFocus(m, w)
<1>1. w \in Addresses /\ w # NULL /\ w \in Pointers /\ NULL \notin Addresses
  BY ChainPlaces, NullIsNoAddress
<1>2. /\ b \in Managers /\ b.heap = m.heap /\ b.head = m.head
      /\ \A x \in Addresses :
           /\ b.node[x].next = m.node[x].next /\ b.node[x].prev = m.node[x].prev
           /\ b.node[x].minimized = m.node[x].minimized
           /\ b.node[x].focused = IF x = m.focused THEN FALSE ELSE m.node[x].focused
  <2>1. CASE m.focused = NULL
    BY <1>1, <2>1
  <2>2. CASE m.focused # NULL
    <3>1. m.focused \in Addresses
      BY <2>2 DEF Managers, Pointers
    <3> QED BY <2>2, <3>1 DEF Managers, Nodes
  <2> QED BY <2>1, <2>2
<1>3. r = Raise(f, w)
  BY <1>1 DEF SetFocus
<1> HIDE DEF b
<1>4. /\ f \in Managers /\ f.heap = m.heap /\ f.focused = w /\ f.head = m.head
      /\ \A x \in Addresses :
           /\ f.node[x].next = m.node[x].next /\ f.node[x].prev = m.node[x].prev
           /\ f.node[x].minimized = m.node[x].minimized
           /\ f.node[x].focused = IF x = w THEN TRUE
                                  ELSE IF x = m.focused THEN FALSE ELSE m.node[x].focused
  <2>1. b \in Managers
    BY <1>2
  <2>2. /\ f \in Managers /\ f.heap = b.heap /\ f.focused = w /\ f.head = b.head
        /\ \A x \in Addresses :
             /\ f.node[x].next = b.node[x].next /\ f.node[x].prev = b.node[x].prev
             /\ f.node[x].minimized = b.node[x].minimized
             /\ f.node[x].focused = IF x = w THEN TRUE ELSE b.node[x].focused
    <3> DEFINE p == [b EXCEPT !.focused = w]
    <3>1. p \in Managers /\ p.heap = b.heap /\ p.focused = w /\ p.head = b.head /\ p.node = b.node
      BY <1>1, <2>1 DEF Managers
    <3>2. f = [p EXCEPT !.node[w].focused = TRUE]
      BY <2>1 DEF Managers
    <3> HIDE DEF p, f, w
    <3>3. p \in Managers
      BY <3>1
    <3>4. /\ f \in Managers /\ f.heap = p.heap /\ f.focused = p.focused /\ f.head = p.head
          /\ \A x \in Addresses :
               /\ f.node[x].next = p.node[x].next /\ f.node[x].prev = p.node[x].prev
               /\ f.node[x].minimized = p.node[x].minimized
               /\ f.node[x].focused = IF x = w THEN TRUE ELSE p.node[x].focused
      BY <1>1, <3>2, <3>3 DEF Managers, Nodes
    <3> QED BY <3>1, <3>4
  <2> HIDE DEF f
  <2>3. f.heap = m.heap /\ f.focused = w /\ f.head = m.head
    BY <1>2, <2>2
  <2>4. \A x \in Addresses :
          /\ f.node[x].next = m.node[x].next /\ f.node[x].prev = m.node[x].prev
          /\ f.node[x].minimized = m.node[x].minimized
    <3> TAKE x \in Addresses
    <3>1. /\ f.node[x].next = b.node[x].next /\ f.node[x].prev = b.node[x].prev
          /\ f.node[x].minimized = b.node[x].minimized
      BY <2>2
    <3>2. /\ b.node[x].next = m.node[x].next /\ b.node[x].prev = m.node[x].prev
          /\ b.node[x].minimized = m.node[x].minimized
      BY <1>2
    <3> QED BY <3>1, <3>2
  <2>5. ASSUME NEW x \in Addresses
        PROVE  f.node[x].focused = IF x = w THEN TRUE
                                   ELSE IF x = m.focused THEN FALSE ELSE m.node[x].focused
    <3>1. f.node[x].focused = IF x = w THEN TRUE ELSE b.node[x].focused
      BY <2>2
    <3>2. b.node[x].focused = IF x = m.focused THEN FALSE ELSE m.node[x].focused
      BY <1>2
    <3> QED BY <3>1, <3>2
  <2> QED BY <2>2, <2>3, <2>4, <2>5
<1> HIDE DEF f, r
<1>5. Chain(f, s)
  <2>1. f.head = m.head /\ \A x \in Addresses :
           f.node[x].next = m.node[x].next /\ f.node[x].prev = m.node[x].prev
    BY <1>4
  <2> HIDE DEF w
  <2> QED BY <2>1, ChainStays
<1>6. SameButLinks(f, r) /\ Chain(r, Fronted(s, i))
  BY <1>3, <1>4, <1>5, RaiseFronts
<1> QED BY <1>1, <1>4, <1>6 DEF SameButLinks, r

-----------------------------------------------------------------------------
(***************************************************************************)
(* The heap.                                                                *)
(***************************************************************************)
\* The blocks fill the heap and none lies in another.
Tiled(heap) ==
  /\ 0 \in DOMAIN heap
  /\ \A b \in DOMAIN heap :
       /\ End(heap, b) \in DOMAIN heap \cup {HeapSize}
       /\ \A c \in DOMAIN heap : c <= b \/ End(heap, b) <= c

\* No two free blocks lie side by side.
Settled(heap) ==
  \A b \in DOMAIN heap : heap[b].used \/ End(heap, b) = HeapSize \/ heap[End(heap, b)].used

\* What the assumption on the heap gives.
LEMMA HeapSizes ==
  /\ HeapSize \in Nat \ {0} /\ Header \in Nat \ {0} /\ WindowSize \in Nat \ {0}
  /\ Header + WindowSize <= HeapSize
BY HeapAssumption

\* Every header lies in the heap and holds a size and a flag.
LEMMA BlocksTyped ==
  ASSUME NEW heap \in Heaps
  PROVE  /\ heap = [b \in DOMAIN heap |-> heap[b]]
         /\ \A b \in DOMAIN heap :
              /\ b \in 0 .. HeapSize - 1
              /\ heap[b] \in [size : Nat, used : BOOLEAN]
              /\ heap[b].size \in Nat /\ heap[b].used \in BOOLEAN
              /\ End(heap, b) \in Nat /\ b + Header <= End(heap, b)
<1>1. PICK S \in SUBSET (0 .. HeapSize - 1) : heap \in [S -> [size : Nat, used : BOOLEAN]]
  BY DEF Heaps
<1>2. DOMAIN heap = S /\ heap = [b \in S |-> heap[b]]
  BY <1>1
<1>3. ASSUME NEW b \in S
      PROVE  /\ b \in 0 .. HeapSize - 1 /\ heap[b] \in [size : Nat, used : BOOLEAN]
             /\ heap[b].size \in Nat /\ heap[b].used \in BOOLEAN
             /\ End(heap, b) \in Nat /\ b + Header <= End(heap, b)
  BY <1>1, HeapSizes DEF End
<1> QED BY <1>2, <1>3

\* A function with such headers is a heap.
LEMMA HeapsIntro ==
  ASSUME NEW heap, DOMAIN heap \subseteq 0 .. HeapSize - 1,
         heap = [b \in DOMAIN heap |-> heap[b]],
         \A b \in DOMAIN heap : heap[b] \in [size : Nat, used : BOOLEAN]
  PROVE  heap \in Heaps
<1> DEFINE S == DOMAIN heap
<1>1. heap \in [S -> [size : Nat, used : BOOLEAN]]
  OBVIOUS
<1>2. S \in SUBSET (0 .. HeapSize - 1)
  OBVIOUS
<1> HIDE DEF S
<1> QED BY <1>1, <1>2 DEF Heaps

\* A block ends inside the heap, so what kmalloc returns is an address.
LEMMA BlocksInside ==
  ASSUME NEW heap \in Heaps, Tiled(heap), NEW b \in DOMAIN heap
  PROVE  /\ b \in Nat /\ End(heap, b) \in Nat
         /\ End(heap, b) <= HeapSize /\ b < End(heap, b)
         /\ At(b) \in Addresses
<1>1. /\ b \in 0 .. HeapSize - 1 /\ End(heap, b) \in Nat /\ b + Header <= End(heap, b)
      /\ \A c \in DOMAIN heap : c \in 0 .. HeapSize - 1
  BY BlocksTyped
<1>2. End(heap, b) <= HeapSize
  BY <1>1, HeapSizes DEF Tiled
<1> QED BY <1>1, <1>2, HeapSizes DEF At, Addresses

\* kmalloc's walk finds the smallest block that is large enough, the first of them.
LEMMA BestFitFits ==
  ASSUME NEW heap \in Heaps, NEW size, Fits(heap, size) # {}
  PROVE  BestFit(heap, size) \in Fits(heap, size)
<1> DEFINE F == Fits(heap, size)
           S == {heap[b].size : b \in F}
           T == {b \in F : heap[b].size = Min(S)}
<1>1. \A b \in F : b \in Nat /\ heap[b].size \in Nat
  BY BlocksTyped DEF Fits
<1> HIDE DEF F
<1>2. Min(S) \in S /\ \A n \in S : Min(S) <= n
  <2>1. S \in SUBSET Nat /\ S # {}
    BY <1>1 DEF F
  <2> HIDE DEF S
  <2> QED BY <2>1, LeastNatural
<1>3. Min(T) \in T /\ \A b \in T : Min(T) <= b
  <2>1. T \in SUBSET Nat /\ T # {}
    BY <1>1, <1>2
  <2> HIDE DEF T
  <2> QED BY <2>1, LeastNatural
<1>4. Min(T) \in F /\ heap[Min(T)].size = Min(S)
  BY <1>3
<1>5. ASSUME NEW c \in F
      PROVE  \/ heap[Min(T)].size < heap[c].size
             \/ heap[Min(T)].size = heap[c].size /\ Min(T) <= c
  <2>1. Min(S) \in Nat /\ heap[c].size \in Nat /\ Min(S) <= heap[c].size
    BY <1>1, <1>2
  <2>2. heap[c].size = Min(S) => c \in T
    OBVIOUS
  <2> QED BY <1>3, <1>4, <2>1, <2>2
<1> QED BY <1>4, <1>5 DEF BestFit, F

\* kmalloc gives out one more block, one that nobody has.
LEMMA SplitHeap ==
  ASSUME NEW h \in Heaps, Tiled(h), Settled(h), NEW size \in Nat \ {0}, NEW b \in Fits(h, size)
  PROVE  LET r == Split(h, b, size)
         IN /\ r \in Heaps /\ Tiled(r) /\ Settled(r)
            /\ Allocated(r) = Allocated(h) \cup {At(b)}
            /\ At(b) \in Addresses \ Allocated(h)
<1> DEFINE r == Split(h, b, size)
           rest == h[b].size - size
           next == b + Header + size
<1>1. /\ b \in DOMAIN h /\ ~h[b].used /\ b \in Nat /\ h[b].size \in Nat /\ size <= h[b].size
      /\ Header \in Nat \ {0} /\ HeapSize \in Nat /\ rest \in Nat /\ next \in Nat /\ b < next
      /\ End(h, b) = next + rest /\ End(h, b) <= HeapSize /\ At(b) \in Addresses
  <2>1. b \in DOMAIN h /\ ~h[b].used /\ size <= h[b].size
    BY DEF Fits
  <2>2. b \in Nat /\ h[b].size \in Nat /\ Header \in Nat \ {0} /\ HeapSize \in Nat
        /\ End(h, b) <= HeapSize /\ At(b) \in Addresses
    BY <2>1, BlocksTyped, BlocksInside, HeapSizes
  <2> QED BY <2>1, <2>2 DEF End
<1>2. \A c \in DOMAIN h : /\ c \in Nat /\ c < HeapSize /\ h[c].size \in Nat /\ h[c].used \in BOOLEAN
                          /\ c < End(h, c) /\ End(h, c) <= HeapSize /\ End(h, c) \in Nat
  BY BlocksTyped, BlocksInside, <1>1
<1>3. At(b) \notin Allocated(h)
  BY <1>1, <1>2 DEF Allocated, At
<1>4. CASE rest > Header
  <2>1. next \in 0 .. HeapSize - 1 /\ next \notin DOMAIN h /\ next # b /\ next < End(h, b)
    <3>1. next < End(h, b)
      BY <1>1, <1>4
    <3>2. \A c \in DOMAIN h : c <= b \/ End(h, b) <= c
      BY <1>1 DEF Tiled
    <3> HIDE DEF next, rest
    <3>3. next \notin DOMAIN h
      BY <1>1, <1>2, <3>1, <3>2
    <3> QED BY <1>1, <3>1, <3>3
  <2>2. r = [c \in DOMAIN h \cup {next} |->
               CASE c = b    -> Block(size, TRUE)
                 [] c = next -> Block(rest - Header, FALSE)
                 [] OTHER    -> h[c]]
    BY <1>4 DEF Split
  <2> HIDE DEF r
  <2>3. /\ DOMAIN r = DOMAIN h \cup {next}
        /\ r[b] = [size |-> size, used |-> TRUE]
        /\ r[next] = [size |-> rest - Header, used |-> FALSE]
        /\ \A c \in DOMAIN h : c # b => r[c] = h[c]
        /\ r = [c \in DOMAIN r |-> r[c]]
    <3> HIDE DEF next, rest
    <3>0. DOMAIN r = DOMAIN h \cup {next}
      BY <2>2
    <3>1. DOMAIN r = DOMAIN h \cup {next} /\ r = [c \in DOMAIN r |-> r[c]]
      <4> DEFINE value(c) == CASE c = b    -> Block(size, TRUE)
                               [] c = next -> Block(rest - Header, FALSE)
                               [] OTHER    -> h[c]
      <4>1. r = [c \in DOMAIN h \cup {next} |-> value(c)]
        BY <2>2
      <4> HIDE DEF value
      <4> QED BY <4>1
    <3>2. r[b] = [size |-> size, used |-> TRUE] /\ r[next] = [size |-> rest - Header, used |-> FALSE]
      BY <1>1, <2>1, <2>2 DEF Block
    <3>3. \A c \in DOMAIN h : c # b => r[c] = h[c]
      BY <2>1, <2>2
    <3> QED BY <3>1, <3>2, <3>3
  <2>4. rest - Header \in Nat
    BY <1>1, <1>4
  <2>5. /\ End(r, b) = next /\ End(r, next) = End(h, b)
        /\ \A c \in DOMAIN h : c # b => End(r, c) = End(h, c)
    <3>1. End(r, b) = next
      BY <2>3 DEF End
    <3>2. End(r, next) = next + Header + (rest - Header)
      <4> HIDE DEF next, rest
      <4> QED BY <2>3 DEF End
    <3>3. next + Header + (rest - Header) = next + rest
      BY <1>1
    <3>4. \A c \in DOMAIN h : c # b => End(r, c) = End(h, c)
      <4> HIDE DEF next, rest
      <4> QED BY <2>3 DEF End
    <3> QED BY <1>1, <3>1, <3>2, <3>3, <3>4
  <2> HIDE DEF next, rest
  <2>6. r \in Heaps
    <3>1. DOMAIN r \subseteq 0 .. HeapSize - 1
      BY <1>1, <1>2, <2>1, <2>3
    <3>2. \A c \in DOMAIN r : r[c] \in [size : Nat, used : BOOLEAN]
      <4>1. \A c \in DOMAIN h : h[c] \in [size : Nat, used : BOOLEAN]
        BY BlocksTyped
      <4>2. r[b] \in [size : Nat, used : BOOLEAN] /\ r[next] \in [size : Nat, used : BOOLEAN]
        BY <2>3, <2>4
      <4> QED BY <2>3, <4>1, <4>2
    <3> QED BY <2>3, <3>1, <3>2, HeapsIntro
  <2>7. Tiled(r)
    <3>1. \A c \in DOMAIN r : End(r, c) \in DOMAIN r \cup {HeapSize}
      BY <1>1, <2>3, <2>5 DEF Tiled
    <3>2. ASSUME NEW c \in DOMAIN r, NEW d \in DOMAIN r PROVE d <= c \/ End(r, c) <= d
      <4>1. \A x, y \in DOMAIN h : y <= x \/ End(h, x) <= y
        BY DEF Tiled
      <4>2. CASE c = b
        BY <1>1, <1>2, <2>1, <2>3, <2>5, <4>1, <4>2
      <4>3. CASE c = next
        BY <1>1, <1>2, <2>1, <2>3, <2>5, <4>1, <4>3
      <4>4. CASE c # b /\ c # next
        BY <1>1, <1>2, <2>1, <2>3, <2>5, <4>1, <4>4
      <4> QED BY <4>2, <4>3, <4>4
    <3>3. 0 \in DOMAIN r
      BY <2>3 DEF Tiled
    <3> QED BY <3>1, <3>2, <3>3 DEF Tiled
  <2>8. Settled(r)
    <3> SUFFICES ASSUME NEW c \in DOMAIN r, ~r[c].used, End(r, c) # HeapSize
                 PROVE  r[End(r, c)].used
      BY DEF Settled
    <3>1. CASE c = next
      <4>1. End(h, b) \in DOMAIN h /\ h[End(h, b)].used /\ End(h, b) # b
        BY <1>1, <1>2, <2>5, <3>1 DEF Tiled, Settled
      <4> QED BY <2>3, <2>5, <3>1, <4>1
    <3>2. CASE c # next
      <4>1. c \in DOMAIN h /\ c # b /\ ~h[c].used /\ End(h, c) # HeapSize
        BY <2>3, <2>5, <3>2
      <4>2. End(h, c) \in DOMAIN h /\ h[End(h, c)].used
        BY <4>1 DEF Tiled, Settled
      <4> QED BY <2>3, <2>5, <4>1, <4>2
    <3> QED BY <3>1, <3>2
  <2>9. Allocated(r) = Allocated(h) \cup {At(b)}
    <3>1. {c \in DOMAIN r : r[c].used} = {c \in DOMAIN h : h[c].used} \cup {b}
      BY <1>1, <2>1, <2>3
    <3> QED BY <3>1 DEF Allocated
  <2> QED BY <1>1, <1>3, <2>6, <2>7, <2>8, <2>9 DEF r
<1>5. CASE ~(rest > Header)
  <2>1. r = [h EXCEPT ![b].used = TRUE]
    BY <1>5 DEF Split
  <2> HIDE DEF r
  <2>2. /\ DOMAIN r = DOMAIN h /\ r[b].used /\ r = [c \in DOMAIN r |-> r[c]]
        /\ \A c \in DOMAIN h : /\ r[c] \in [size : Nat, used : BOOLEAN]
                               /\ r[c].size = h[c].size /\ (c # b => r[c] = h[c])
    <3>1. h = [c \in DOMAIN h |-> h[c]] /\ \A c \in DOMAIN h : h[c] \in [size : Nat, used : BOOLEAN]
      BY BlocksTyped
    <3> QED BY <1>1, <2>1, <3>1
  <2>3. \A c \in DOMAIN h : End(r, c) = End(h, c)
    BY <2>2 DEF End
  <2>4. r \in Heaps
    <3>1. DOMAIN r \subseteq 0 .. HeapSize - 1
      BY <1>1, <1>2, <2>2
    <3> QED BY <2>2, <3>1, HeapsIntro
  <2>5. Tiled(r)
    BY <2>2, <2>3 DEF Tiled
  <2>6. Settled(r)
    BY <2>2, <2>3 DEF Settled, Tiled
  <2>7. Allocated(r) = Allocated(h) \cup {At(b)}
    <3>1. {c \in DOMAIN r : r[c].used} = {c \in DOMAIN h : h[c].used} \cup {b}
      BY <1>1, <2>2
    <3> QED BY <3>1 DEF Allocated
  <2> QED BY <1>1, <1>3, <2>4, <2>5, <2>6, <2>7 DEF r
<1> QED BY <1>4, <1>5

\* Every block but the first begins where another ends, and only one ends there.
LEMMA BlockBefore ==
  ASSUME NEW g \in Heaps, Tiled(g), NEW d \in DOMAIN g \cup {HeapSize}, d # 0
  PROVE  \E c \in DOMAIN g : End(g, c) = d
<1> DEFINE S == {n \in Nat : \E c \in DOMAIN g : c < d /\ n = d - c}
           s == Min(S)
<1>1. \A c \in DOMAIN g : /\ c \in Nat /\ c < HeapSize /\ End(g, c) \in Nat
                          /\ c < End(g, c) /\ End(g, c) <= HeapSize
  BY BlocksTyped, BlocksInside, HeapSizes
<1>2. d \in Nat /\ 0 < d /\ d <= HeapSize /\ HeapSize \in Nat
  BY <1>1, HeapSizes
<1>3. d - 0 \in S
  <2>1. 0 \in DOMAIN g /\ 0 < d
    BY <1>2 DEF Tiled
  <2> QED BY <1>2, <2>1
<1>4. s \in S /\ \A t \in S : s <= t
  <2> HIDE DEF S
  <2>1. S \subseteq Nat
    BY DEF S
  <2> QED BY <1>3, <2>1, LeastNatural
<1>5. PICK c \in DOMAIN g : c < d /\ s = d - c
  BY <1>4
<1>6. End(g, c) <= d
  BY <1>1, <1>2, <1>5 DEF Tiled
<1>7. ASSUME End(g, c) < d PROVE FALSE
  <2>1. End(g, c) \in DOMAIN g
    BY <1>2, <1>1, <1>7 DEF Tiled
  <2>2. d - End(g, c) \in S
    BY <1>1, <1>2, <1>7, <2>1
  <2> HIDE DEF s, S
  <2> QED BY <1>1, <1>2, <1>4, <1>5, <2>2
<1> QED BY <1>1, <1>2, <1>6, <1>7

\* Two blocks do not end at the same place.
LEMMA OneBlockBefore ==
  ASSUME NEW g \in Heaps, Tiled(g), NEW b \in DOMAIN g, NEW c \in DOMAIN g, End(g, b) = End(g, c)
  PROVE  b = c
<1>1. b \in Nat /\ c \in Nat /\ b < End(g, b) /\ c < End(g, c) /\ End(g, b) \in Nat
  BY BlocksInside
<1> QED BY <1>1 DEF Tiled

\* The walk of kfree leaves the used blocks as they are and joins the free ones
\* between two of them.
LEMMA JoinedHeap ==
  ASSUME NEW g \in Heaps, Tiled(g)
  PROVE  LET r == Joined(g)
         IN r \in Heaps /\ Tiled(r) /\ Settled(r) /\ Allocated(r) = Allocated(g)
<1> DEFINE r == Joined(g)
           L == Leading(g)
           after(b) == Min({c \in L : c > b} \cup {HeapSize})
<1>1. \A c \in DOMAIN g : /\ c \in Nat /\ c < HeapSize /\ End(g, c) \in Nat /\ c + Header <= End(g, c)
                          /\ c < End(g, c) /\ End(g, c) <= HeapSize
  BY BlocksTyped, BlocksInside, HeapSizes
<1>2. L \subseteq DOMAIN g /\ HeapSize \in Nat /\ Header \in Nat
  BY HeapSizes DEF Leading
<1>3. 0 \in L
  BY <1>1 DEF Leading, Tiled
<1>4. ASSUME NEW b \in L
      PROVE  /\ after(b) \in L \cup {HeapSize} /\ after(b) \in Nat /\ b < after(b)
             /\ End(g, b) <= after(b) /\ after(b) <= HeapSize
             /\ \A c \in L : c <= b \/ after(b) <= c
  <2> DEFINE S == {c \in L : c > b} \cup {HeapSize}
  <2>1. S \in SUBSET Nat /\ HeapSize \in S
    BY <1>1, <1>2
  <2> HIDE DEF S
  <2>2. Min(S) \in S /\ \A t \in S : Min(S) <= t
    BY <2>1, LeastNatural
  <2>3. after(b) = Min(S)
    BY DEF S
  <2> HIDE DEF after
  <2>4. after(b) \in L \cup {HeapSize} /\ after(b) \in Nat /\ b < after(b) /\ after(b) <= HeapSize
    BY <1>1, <1>2, <2>1, <2>2, <2>3 DEF S
  <2>5. \A c \in L : c <= b \/ after(b) <= c
    BY <1>1, <1>2, <2>2, <2>3 DEF S
  <2>6. End(g, b) <= after(b)
    BY <1>1, <1>2, <2>4 DEF Tiled
  <2> QED BY <2>4, <2>5, <2>6
<1>5. r = [b \in L |-> IF g[b].used THEN g[b] ELSE Block(after(b) - At(b), FALSE)]
  BY DEF Joined
<1> HIDE DEF r, L, after
<1>6. /\ DOMAIN r = L /\ r = [b \in DOMAIN r |-> r[b]]
      /\ \A b \in L : g[b].used => r[b] = g[b]
      /\ \A b \in L : ~g[b].used => r[b] = [size |-> after(b) - At(b), used |-> FALSE]
  BY <1>5 DEF Block
<1>7. \A b \in L : r[b].used = g[b].used
  <2> TAKE b \in L
  <2>1. g[b].used \in BOOLEAN
    BY <1>2, BlocksTyped
  <2>2. CASE g[b].used
    BY <1>6, <2>2
  <2>3. CASE ~g[b].used
    <3>1. r[b] = [size |-> after(b) - At(b), used |-> FALSE]
      BY <1>6, <2>3
    <3>2. r[b].used = FALSE
      BY <3>1
    <3> QED BY <2>1, <2>3, <3>2
  <2> QED BY <2>2, <2>3
<1>8. \A b \in L : IF g[b].used THEN End(r, b) = End(g, b) ELSE End(r, b) = after(b)
  <2> TAKE b \in L
  <2>1. CASE g[b].used
    BY <1>6, <2>1 DEF End
  <2>2. CASE ~g[b].used
    <3>1. r[b].size = after(b) - (b + Header)
      BY <1>6, <2>2 DEF At
    <3>2. after(b) \in Nat /\ b \in Nat /\ Header \in Nat
      BY <1>1, <1>2, <1>4
    <3> QED BY <2>2, <3>1, <3>2 DEF End
  <2> QED BY <2>1, <2>2
<1>9. \A b \in DOMAIN g : g[b].used => b \in L /\ End(g, b) \in L \cup {HeapSize}
  <2> SUFFICES ASSUME NEW b \in DOMAIN g, g[b].used, End(g, b) # HeapSize, End(g, b) \notin L
               PROVE  FALSE
    BY DEF L, Leading
  <2>1. End(g, b) \in DOMAIN g
    BY DEF Tiled
  <2>2. PICK c \in DOMAIN g : ~g[c].used /\ End(g, c) = End(g, b)
    BY <2>1 DEF L, Leading
  <2> QED BY <2>2, OneBlockBefore
<1>10. r \in Heaps
  <2>1. DOMAIN r \subseteq 0 .. HeapSize - 1
    BY <1>1, <1>2, <1>6
  <2>2. ASSUME NEW b \in L PROVE r[b] \in [size : Nat, used : BOOLEAN]
    <3>1. CASE g[b].used
      BY <1>2, <1>6, <3>1, BlocksTyped
    <3>2. CASE ~g[b].used
      <4>1. after(b) - At(b) \in Nat
        BY <1>1, <1>2, <1>4 DEF At
      <4>2. r[b] = [size |-> after(b) - At(b), used |-> FALSE]
        BY <1>6, <3>2
      <4> QED BY <4>1, <4>2
    <3> QED BY <3>1, <3>2
  <2> QED BY <1>6, <2>1, <2>2, HeapsIntro
<1>11. Tiled(r)
  <2>1. ASSUME NEW b \in L
        PROVE  End(r, b) \in L \cup {HeapSize} /\ \A c \in L : c <= b \/ End(r, b) <= c
    <3>1. CASE g[b].used
      BY <1>2, <1>8, <1>9, <3>1 DEF Tiled
    <3>2. CASE ~g[b].used
      BY <1>4, <1>8, <3>2
    <3> QED BY <3>1, <3>2
  <2> QED BY <1>3, <1>6, <2>1 DEF Tiled
<1>12. Settled(r)
  <2> SUFFICES ASSUME NEW b \in L, ~g[b].used, after(b) \in L, ~g[after(b)].used
               PROVE  FALSE
    <3>1. \A b \in L : ~g[b].used => End(r, b) = after(b) /\ after(b) \in L \cup {HeapSize}
      BY <1>4, <1>8
    <3> QED BY <1>6, <1>7, <3>1 DEF Settled
  <2>1. after(b) \in DOMAIN g /\ b \in DOMAIN g /\ b \in Nat /\ b < after(b) /\ after(b) \in Nat
    BY <1>1, <1>2, <1>4
  <2>2. PICK c \in DOMAIN g : End(g, c) = after(b)
    BY <2>1, BlockBefore
  <2>3. g[c].used /\ c \in L /\ c # b
    BY <2>2 DEF L, Leading
  <2>4. c \in Nat /\ c < after(b)
    BY <1>1, <2>2
  <2>5. c <= b
    BY <1>4, <2>1, <2>3, <2>4
  <2>6. End(g, c) <= b
    BY <2>1, <2>3, <2>4, <2>5 DEF Tiled
  <2> QED BY <2>1, <2>2, <2>6
<1>13. Allocated(r) = Allocated(g)
  <2>1. {b \in DOMAIN r : r[b].used} = {b \in DOMAIN g : g[b].used}
    BY <1>2, <1>6, <1>7, <1>9
  <2> QED BY <2>1 DEF Allocated
<1> QED BY <1>10, <1>11, <1>12, <1>13 DEF r

\* kfree takes back what it is given and nothing else.
LEMMA KfreeHeap ==
  ASSUME NEW h \in Heaps, Tiled(h), NEW ptr \in Allocated(h)
  PROVE  LET r == Kfree(h, ptr)
         IN r \in Heaps /\ Tiled(r) /\ Settled(r) /\ Allocated(r) = Allocated(h) \ {ptr}
<1> DEFINE b == ptr - Header
           g == [h EXCEPT ![b].used = FALSE]
<1>1. b \in DOMAIN h /\ h[b].used /\ b \in Nat /\ ptr = b + Header /\ Header \in Nat
  <2>1. PICK c \in DOMAIN h : h[c].used /\ ptr = c + Header
    BY DEF Allocated, At
  <2>2. c \in Nat /\ Header \in Nat
    BY BlocksTyped, HeapSizes
  <2> QED BY <2>1, <2>2
<1>2. \A c \in DOMAIN h : c \in Nat /\ h[c] \in [size : Nat, used : BOOLEAN]
  BY BlocksTyped
<1> HIDE DEF b
<1>3. /\ DOMAIN g = DOMAIN h /\ g = [c \in DOMAIN g |-> g[c]] /\ ~g[b].used
      /\ \A c \in DOMAIN h : /\ g[c] \in [size : Nat, used : BOOLEAN]
                             /\ g[c].size = h[c].size /\ (c # b => g[c] = h[c])
  <2>1. h = [c \in DOMAIN h |-> h[c]]
    BY BlocksTyped
  <2> QED BY <1>1, <1>2, <2>1
<1> HIDE DEF g
<1>4. \A c \in DOMAIN h : End(g, c) = End(h, c)
  BY <1>3 DEF End
<1>5. g \in Heaps
  <2>1. DOMAIN g \subseteq 0 .. HeapSize - 1
    BY <1>3, BlocksTyped
  <2> QED BY <1>3, <2>1, HeapsIntro
<1>6. Tiled(g)
  BY <1>3, <1>4 DEF Tiled
<1>7. Allocated(g) = Allocated(h) \ {ptr}
  <2>1. {c \in DOMAIN g : g[c].used} = {c \in DOMAIN h : h[c].used} \ {b}
    BY <1>3
  <2>2. \A c \in DOMAIN h : At(c) = ptr <=> c = b
    BY <1>1, <1>2 DEF At
  <2> QED BY <1>1, <2>1, <2>2 DEF Allocated
<1>8. Kfree(h, ptr) = Joined(g)
  BY DEF Kfree, g, b
<1> QED BY <1>5, <1>6, <1>7, <1>8, JoinedHeap

-----------------------------------------------------------------------------
(***************************************************************************)
(* The operations on the windows, with the heap.                            *)
(***************************************************************************)
\* What is in a list is at one of its places.
LEMMA PlacesOf ==
  ASSUME NEW s \in Seq(Addresses)
  PROVE  /\ ToSet(s) = {s[j] : j \in 1 .. Len(s)} /\ ToSet(s) \subseteq Addresses
         /\ \A x \in ToSet(s) : \E j \in 1 .. Len(s) : x = s[j]
BY DEF ToSet

\* Raising a window loses none and adds none.
LEMMA FrontedSet ==
  ASSUME NEW s \in Seq(Addresses), NEW i \in 1 .. Len(s)
  PROVE  ToSet(Fronted(s, i)) = ToSet(s) /\ Fronted(s, i) # <<>>
<1> DEFINE t == Fronted(s, i)
           n == Len(s)
<1>1. /\ t \in Seq(Addresses) /\ Len(t) = n /\ t[1] = s[i]
      /\ \A j \in 2 .. n : t[j] = IF j <= i THEN s[j - 1] ELSE s[j]
  BY FrontedPlaces
<1>2. n \in Nat /\ i \in 1 .. n
  OBVIOUS
<1> HIDE DEF t
<1>3. \A j \in 1 .. n : \E k \in 1 .. n : t[j] = s[k]
  <2> TAKE j \in 1 .. n
  <2>1. CASE j = 1
    BY <1>1, <1>2, <2>1
  <2>2. CASE j # 1
    <3>1. j \in 2 .. n /\ j - 1 \in 1 .. n
      BY <1>2, <2>2
    <3> QED BY <1>1, <3>1
  <2> QED BY <2>1, <2>2
<1>4. \A j \in 1 .. n : \E k \in 1 .. n : s[j] = t[k]
  <2> TAKE j \in 1 .. n
  <2>1. CASE j = i
    BY <1>1, <1>2, <2>1
  <2>2. CASE j < i
    <3>1. j + 1 \in 2 .. n /\ j + 1 <= i /\ (j + 1) - 1 = j
      BY <1>2, <2>2
    <3>2. t[j + 1] = s[j]
      BY <1>1, <3>1
    <3> QED BY <3>1, <3>2
  <2>3. CASE j > i
    BY <1>1, <1>2, <2>3
  <2> QED BY <1>2, <2>1, <2>2, <2>3
<1>5. ToSet(t) = {t[j] : j \in 1 .. n} /\ ToSet(s) = {s[j] : j \in 1 .. n}
  BY <1>1, PlacesOf
<1>6. t # <<>>
  BY <1>1, <1>2
<1> QED BY <1>3, <1>4, <1>5, <1>6 DEF t

\* Without the first of the fronted order, the order is the one without the window.
LEMMA FrontedTail ==
  ASSUME NEW s \in Seq(Addresses), NEW i \in 1 .. Len(s)
  PROVE  RemoveAt(s, i) = Tail(Fronted(s, i))
<1>1. RemoveAt(s, i) \in Seq(Addresses) /\ s[i] \in Addresses
  BY RemovedPlaces
<1> QED BY <1>1 DEF Fronted

\* Between the steps of a handler: the list s holds exactly what is allocated,
\* and no window but the one with the focus has the focused border.
Kept(m, s) ==
  /\ m \in Managers /\ Chain(m, s)
  /\ Tiled(m.heap) /\ Settled(m.heap)
  /\ ToSet(s) = Allocated(m.heap)
  /\ m.focused \in ToSet(s) \cup {NULL}
  /\ \A x \in ToSet(s) : m.node[x].focused => x = m.focused

\* What is kept of the list, in the terms the properties use.
LEMMA KeptPlaces ==
  ASSUME NEW m, NEW s, Kept(m, s)
  PROVE  /\ m \in Managers /\ Chain(m, s) /\ FrontToBack(m) = s /\ Listed(m) = ToSet(s)
         /\ s \in Seq(Addresses) /\ Len(s) \in Nat /\ ToSet(s) \subseteq Addresses
         /\ ToSet(s) = {s[j] : j \in 1 .. Len(s)} /\ NULL \notin ToSet(s)
         /\ \A j, k \in 1 .. Len(s) : s[j] = s[k] => j = k
         /\ s # <<>> => m.head = s[1] /\ 1 \in 1 .. Len(s)
         /\ s = <<>> => m.head = NULL
<1>1. m \in Managers /\ Chain(m, s)
  BY DEF Kept
<1>2. FrontToBack(m) = s
  BY <1>1, ChainIsOrder
<1>3. /\ s \in Seq(Addresses) /\ Len(s) \in Nat
      /\ \A j, k \in 1 .. Len(s) : s[j] = s[k] => j = k
      /\ s # <<>> => 1 \in 1 .. Len(s)
  BY <1>1, ChainPlaces
<1>4. ToSet(s) = {s[j] : j \in 1 .. Len(s)} /\ ToSet(s) \subseteq Addresses
  BY <1>3, PlacesOf
<1> QED BY <1>1, <1>2, <1>3, <1>4, NullIsNoAddress DEF Chain, Listed

\* window_set_focus leaves the heap alone and puts the window in front with the focus.
LEMMA KeptSetFocus ==
  ASSUME NEW m, NEW s, Kept(m, s), NEW i \in 1 .. Len(s)
  PROVE  LET r == SetFocus(m, s[i])
         IN /\ Kept(r, Fronted(s, i)) /\ r.focused = s[i] /\ r.head = s[i]
            /\ r.heap = m.heap
<1> DEFINE r == SetFocus(m, s[i])
           t == Fronted(s, i)
<1>1. /\ m \in Managers /\ Chain(m, s) /\ s \in Seq(Addresses) /\ s[i] \in ToSet(s)
      /\ ToSet(s) \subseteq Addresses
  BY KeptPlaces
<1>2. /\ r \in Managers /\ r.heap = m.heap /\ r.focused = s[i]
      /\ Chain(r, t)
      /\ \A x \in Addresses : r.node[x].focused <=> x = s[i] \/ (m.node[x].focused /\ x # m.focused)
  BY <1>1, SetFocusFronts
<1>3. ToSet(t) = ToSet(s) /\ t # <<>> /\ t[1] = s[i]
  BY <1>1, FrontedSet, FrontedPlaces
<1> HIDE DEF r, t
<1>4. r.head = s[i]
  BY <1>2, <1>3 DEF Chain
<1>5. \A x \in ToSet(s) : m.node[x].focused => x = m.focused
  BY DEF Kept
<1>6. \A x \in ToSet(t) : r.node[x].focused => x = r.focused
  BY <1>1, <1>2, <1>3, <1>5
<1>7. Tiled(r.heap) /\ Settled(r.heap) /\ ToSet(t) = Allocated(r.heap)
  BY <1>2, <1>3 DEF Kept
<1>8. Kept(r, t)
  BY <1>1, <1>2, <1>3, <1>6, <1>7 DEF Kept
<1> QED BY <1>2, <1>4, <1>8 DEF r, t

\* window_toggle_minimize leaves the list, the focus and the heap alone.
LEMMA KeptToggle ==
  ASSUME NEW m, NEW s, Kept(m, s), NEW w \in ToSet(s)
  PROVE  LET r == ToggleMinimize(m, w)
         IN /\ Kept(r, s) /\ r.focused = m.focused /\ r.head = m.head /\ r.heap = m.heap
<1> DEFINE r == ToggleMinimize(m, w)
<1>1. m \in Managers /\ Chain(m, s) /\ w \in Addresses /\ w # NULL /\ ToSet(s) \subseteq Addresses
  BY KeptPlaces
<1>2. /\ r \in Managers /\ r.heap = m.heap /\ r.focused = m.focused /\ r.head = m.head
      /\ \A x \in Addresses : /\ r.node[x].next = m.node[x].next /\ r.node[x].prev = m.node[x].prev
                              /\ r.node[x].focused = m.node[x].focused
  BY <1>1 DEF ToggleMinimize, Managers, Nodes
<1> HIDE DEF r
<1>3. Chain(r, s)
  BY <1>1, <1>2, ChainStays
<1>4. Kept(r, s)
  BY <1>1, <1>2, <1>3 DEF Kept
<1> QED BY <1>2, <1>4 DEF r

\* So does restoring a window that is minimized, and one that is not.
LEMMA KeptRestore ==
  ASSUME NEW m, NEW s, Kept(m, s), NEW w \in ToSet(s)
  PROVE  LET r == Restore(m, w)
         IN /\ Kept(r, s) /\ r.focused = m.focused /\ r.head = m.head /\ r.heap = m.heap
BY KeptToggle DEF Restore

\* window_create: memory that nobody has, and a window in it that no list knows.
LEMMA KeptCreate ==
  ASSUME NEW m, NEW s, Kept(m, s), CanCreate(m)
  PROVE  LET w == NewWindow(m)
             r == Create(m)
         IN /\ w \in Addresses /\ w \notin ToSet(s)
            /\ r \in Managers /\ Chain(r, s) /\ r.focused = m.focused
            /\ Tiled(r.heap) /\ Settled(r.heap) /\ Allocated(r.heap) = ToSet(s) \cup {w}
            /\ r.node[w] = Blank
            /\ \A x \in Addresses \ {w} : r.node[x] = m.node[x]
<1> DEFINE w == NewWindow(m)
           b == BestFit(m.heap, WindowSize)
           h == Split(m.heap, b, WindowSize)
           r == Create(m)
<1>1. m \in Managers /\ Chain(m, s) /\ m.heap \in Heaps /\ ToSet(s) = Allocated(m.heap)
  BY DEF Kept, Managers
<1>2. b \in Fits(m.heap, WindowSize)
  BY <1>1, BestFitFits DEF CanCreate
<1>3. w = At(b) /\ r = [m EXCEPT !.heap = h, !.node[w] = Blank]
  BY DEF Create, NewWindow
<1> HIDE DEF b
<1>4. /\ h \in Heaps /\ Tiled(h) /\ Settled(h)
      /\ Allocated(h) = Allocated(m.heap) \cup {w}
      /\ w \in Addresses \ Allocated(m.heap)
  <2>1. Tiled(m.heap) /\ Settled(m.heap) /\ WindowSize \in Nat \ {0}
    BY HeapSizes DEF Kept
  <2> QED BY <1>1, <1>2, <1>3, <2>1, SplitHeap
<1> HIDE DEF w, h, r
<1>5. Blank \in [next : Pointers, prev : Pointers, focused : BOOLEAN, minimized : BOOLEAN]
  BY NullIsNoAddress DEF Blank
<1>6. /\ r \in Managers /\ r.heap = h /\ r.head = m.head /\ r.focused = m.focused
      /\ r.node[w] = Blank /\ \A x \in Addresses \ {w} : r.node[x] = m.node[x]
  BY <1>1, <1>3, <1>4, <1>5 DEF Managers, Nodes
<1>7. s \in Seq(Addresses) /\ \A j \in 1 .. Len(s) : s[j] \in Addresses /\ s[j] # w
  <2>1. ToSet(s) \subseteq Addresses /\ ToSet(s) = {s[j] : j \in 1 .. Len(s)} /\ w \notin ToSet(s)
    BY <1>1, <1>4, KeptPlaces
  <2> QED BY <2>1, KeptPlaces
<1>8. Chain(r, s)
  <2>1. \A j \in 1 .. Len(s) : r.node[s[j]] = m.node[s[j]]
    BY <1>6, <1>7
  <2> QED BY <1>1, <1>6, <2>1 DEF Chain
<1> QED BY <1>1, <1>4, <1>6, <1>8 DEF w, r

\* The list with one more window in front.
LEMMA ConcatSet ==
  ASSUME NEW s \in Seq(Addresses), NEW w \in Addresses
  PROVE  ToSet(<<w>> \o s) = ToSet(s) \cup {w} /\ <<w>> \o s \in Seq(Addresses)
<1> DEFINE t == <<w>> \o s
           n == Len(s)
<1>1. /\ t \in Seq(Addresses) /\ n \in Nat /\ Len(t) = n + 1 /\ t[1] = w
      /\ \A j \in 2 .. n + 1 : t[j] = s[j - 1]
  OBVIOUS
<1> HIDE DEF t
<1>2. ToSet(t) = {t[j] : j \in 1 .. n + 1} /\ ToSet(s) = {s[j] : j \in 1 .. n}
  BY <1>1, PlacesOf
<1>3. \A j \in 1 .. n : t[j + 1] = s[j] /\ j + 1 \in 1 .. n + 1
  <2> TAKE j \in 1 .. n
  <2>1. j + 1 \in 2 .. n + 1 /\ (j + 1) - 1 = j
    BY <1>1
  <2> QED BY <1>1, <2>1
<1>4. \A j \in 2 .. n + 1 : j - 1 \in 1 .. n
  BY <1>1
<1>5. \A j \in 1 .. n + 1 : j = 1 \/ j \in 2 .. n + 1
  BY <1>1
<1>6. ToSet(t) \subseteq ToSet(s) \cup {w}
  <2> SUFFICES ASSUME NEW j \in 1 .. n + 1 PROVE t[j] \in ToSet(s) \cup {w}
    BY <1>2
  <2>1. CASE j = 1
    BY <1>1, <2>1
  <2>2. CASE j \in 2 .. n + 1
    <3>1. t[j] = s[j - 1] /\ j - 1 \in 1 .. n
      BY <1>1, <1>4, <2>2
    <3> QED BY <1>2, <3>1
  <2> QED BY <1>5, <2>1, <2>2
<1>7. ToSet(s) \cup {w} \subseteq ToSet(t)
  <2>1. w \in ToSet(t)
    BY <1>1, <1>2
  <2> QED BY <1>2, <1>3, <2>1
<1> QED BY <1>1, <1>6, <1>7 DEF t

\* A window that is created and added comes in front of the others.
LEMMA KeptAdd ==
  ASSUME NEW m, NEW s, Kept(m, s), CanCreate(m)
  PROVE  LET w == NewWindow(m)
             r == Add(Create(m), w)
         IN /\ w \in Addresses /\ w \notin ToSet(s)
            /\ Kept(r, <<w>> \o s) /\ r.focused = m.focused /\ r.head = w
<1> DEFINE w == NewWindow(m)
           c == Create(m)
           a == Add(c, w)
           t == <<w>> \o s
<1>1. /\ w \in Addresses /\ w \notin ToSet(s)
      /\ c \in Managers /\ Chain(c, s) /\ c.focused = m.focused
      /\ Tiled(c.heap) /\ Settled(c.heap) /\ Allocated(c.heap) = ToSet(s) \cup {w}
      /\ c.node[w] = Blank
      /\ \A x \in Addresses \ {w} : c.node[x] = m.node[x]
  BY KeptCreate
<1>2. /\ ToSet(s) = {s[j] : j \in 1 .. Len(s)} /\ s \in Seq(Addresses) /\ ToSet(s) \subseteq Addresses
      /\ Len(s) \in Nat
  BY KeptPlaces
<1> HIDE DEF w, c
<1>3. SameButLinks(c, a) /\ Chain(a, t)
  <2>1. \A j \in 1 .. Len(s) : s[j] # w
    BY <1>1, <1>2
  <2> QED BY <1>1, <2>1, AddFronts
<1>4. ToSet(t) = ToSet(s) \cup {w} /\ t \in Seq(Addresses) /\ Len(t) = Len(s) + 1 /\ t[1] = w
  BY <1>1, <1>2, ConcatSet
<1> HIDE DEF a, t
<1>5. a \in Managers /\ a.heap = c.heap /\ a.focused = m.focused
  BY <1>1, <1>3 DEF SameButLinks
<1>6. m.focused \in ToSet(s) \cup {NULL}
  BY DEF Kept
<1>7. \A x \in ToSet(t) : a.node[x].focused => x = a.focused
  <2> TAKE x \in ToSet(t)
  <2>1. x \in Addresses /\ a.node[x].focused = c.node[x].focused
    BY <1>1, <1>2, <1>3, <1>4 DEF SameButLinks
  <2>2. CASE x = w
    BY <1>1, <2>1, <2>2 DEF Blank
  <2>3. CASE x # w
    <3>1. x \in ToSet(s) /\ c.node[x] = m.node[x]
      BY <1>1, <1>4, <2>1, <2>3
    <3>2. m.node[x].focused => x = m.focused
      BY <3>1 DEF Kept
    <3> QED BY <1>5, <2>1, <3>1, <3>2
  <2> QED BY <2>2, <2>3
<1>8. a.head = w
  <2>1. t # <<>>
    BY <1>2, <1>4
  <2> QED BY <1>3, <1>4, <2>1 DEF Chain
<1>9. Kept(a, t)
  BY <1>1, <1>3, <1>4, <1>5, <1>6, <1>7 DEF Kept
<1> QED BY <1>1, <1>5, <1>8, <1>9 DEF w, c, a, t

\* One that is given the focus then has nothing to be raised over.
LEMMA KeptNew ==
  ASSUME NEW m, NEW s, Kept(m, s), CanCreate(m)
  PROVE  LET w == NewWindow(m)
             r == SetFocus(Add(Create(m), w), w)
         IN /\ w \in Addresses /\ w \notin ToSet(s)
            /\ Kept(r, <<w>> \o s) /\ r.focused = w /\ r.head = w
<1> DEFINE w == NewWindow(m)
           a == Add(Create(m), w)
           t == <<w>> \o s
<1>1. /\ w \in Addresses /\ w \notin ToSet(s) /\ Kept(a, t)
      /\ s \in Seq(Addresses) /\ Len(s) \in Nat
  BY KeptAdd, KeptPlaces
<1> HIDE DEF w, a
<1>2. t \in Seq(Addresses) /\ Len(t) = Len(s) + 1 /\ t[1] = w /\ 1 \in 1 .. Len(t)
  BY <1>1
<1> HIDE DEF t
<1>3. LET r == SetFocus(a, t[1]) IN Kept(r, Fronted(t, 1)) /\ r.focused = t[1] /\ r.head = t[1]
  BY <1>1, <1>2, KeptSetFocus
<1>4. Fronted(t, 1) = t
  <2>1. /\ Fronted(t, 1) \in Seq(Addresses) /\ Len(Fronted(t, 1)) = Len(t)
        /\ Fronted(t, 1)[1] = t[1]
        /\ \A j \in 2 .. Len(t) : Fronted(t, 1)[j] = IF j <= 1 THEN t[j - 1] ELSE t[j]
    BY <1>2, FrontedPlaces
  <2>2. \A j \in 1 .. Len(t) : Fronted(t, 1)[j] = t[j]
    BY <1>1, <1>2, <2>1
  <2> QED BY <1>2, <2>1, <2>2, SeqEqual
<1> QED BY <1>1, <1>2, <1>3, <1>4 DEF w, a, t

\* The order without its first window.
LEMMA TailPlaces ==
  ASSUME NEW s \in Seq(Addresses), s # <<>>, \A j, k \in 1 .. Len(s) : s[j] = s[k] => j = k
  PROVE  /\ Tail(s) \in Seq(Addresses) /\ Len(Tail(s)) = Len(s) - 1
         /\ \A j \in 1 .. Len(s) - 1 : Tail(s)[j] = s[j + 1] /\ s[j + 1] # s[1]
         /\ ToSet(Tail(s)) = ToSet(s) \ {s[1]}
<1> DEFINE t == Tail(s)
           n == Len(s)
<1>1. /\ n \in Nat \ {0} /\ t \in Seq(Addresses) /\ Len(t) = n - 1
      /\ \A j \in 1 .. n - 1 : t[j] = s[j + 1]
  OBVIOUS
<1> HIDE DEF t
<1>2. \A j \in 1 .. n - 1 : s[j + 1] # s[1] /\ j + 1 \in 1 .. n
  BY <1>1
<1>3. ToSet(t) = {t[j] : j \in 1 .. n - 1} /\ ToSet(s) = {s[j] : j \in 1 .. n}
  BY <1>1, PlacesOf
<1>4. ToSet(t) \subseteq ToSet(s) \ {s[1]}
  BY <1>1, <1>2, <1>3
<1>5. ToSet(s) \ {s[1]} \subseteq ToSet(t)
  <2> SUFFICES ASSUME NEW j \in 1 .. n, s[j] # s[1] PROVE s[j] \in ToSet(t)
    BY <1>3
  <2>1. j - 1 \in 1 .. n - 1 /\ (j - 1) + 1 = j
    BY <1>1
  <2> QED BY <1>1, <1>3, <2>1
<1> QED BY <1>1, <1>2, <1>4, <1>5 DEF t

\* Closing the window that has the focus, and so is in front: the next one is
\* first and has the focus, and the memory is free.
LEMMA KeptDestroy ==
  ASSUME NEW m, NEW s, Kept(m, s), s # <<>>, m.focused = s[1]
  PROVE  LET r == Destroy(m, s[1])
         IN Kept(r, Tail(s)) /\ r.focused = r.head
<1> DEFINE w == s[1]
           t == Tail(s)
           n == Len(s)
           nx == m.node[w].next
           p == [m EXCEPT !.head = nx]
           l == Link(p, nx, "prev", NULL)
           f == [l EXCEPT !.focused = l.head]
           h == Kfree(m.heap, w)
           r == Destroy(m, w)
<1>1. /\ m \in Managers /\ Chain(m, s) /\ s \in Seq(Addresses) /\ n \in Nat /\ m.head = w
      /\ w \in ToSet(s) /\ w \in Addresses /\ w # NULL /\ 1 \in 1 .. n
      /\ ToSet(s) \subseteq Addresses
      /\ \A j, k \in 1 .. n : s[j] = s[k] => j = k
      /\ \A j \in 1 .. n : s[j] \in Addresses
  <2>1. w \in ToSet(s)
    BY KeptPlaces
  <2> QED BY <2>1, KeptPlaces
<1>2. /\ t \in Seq(Addresses) /\ Len(t) = n - 1 /\ ToSet(t) = ToSet(s) \ {w}
      /\ \A j \in 1 .. n - 1 : t[j] = s[j + 1] /\ s[j + 1] # w
  BY <1>1, TailPlaces
<1>3. nx = (IF n = 1 THEN NULL ELSE s[2]) /\ nx \in Pointers /\ NULL \in Pointers
  <2>1. nx = (IF 1 = n THEN NULL ELSE s[1 + 1])
    BY <1>1 DEF Chain
  <2>2. n # 1 => 2 \in 1 .. n
    <3>1. n \in Nat /\ 1 \in 1 .. n
      BY <1>1
    <3> HIDE DEF n
    <3> QED BY <3>1
  <2>3. n # 1 => s[2] \in Addresses
    BY <1>1, <2>2
  <2> QED BY <2>1, <2>3, NullIsNoAddress
<1>4. /\ h \in Heaps /\ Tiled(h) /\ Settled(h) /\ Allocated(h) = Allocated(m.heap) \ {w}
      /\ ToSet(s) = Allocated(m.heap)
  <2>1. m.heap \in Heaps /\ Tiled(m.heap) /\ w \in Allocated(m.heap) /\ ToSet(s) = Allocated(m.heap)
    BY <1>1 DEF Kept, Managers
  <2> QED BY <2>1, KfreeHeap
<1>5. Removed(m, w) = f
  <2>1. m.head # NULL /\ m.focused = w
    BY <1>1
  <2>2. l.focused = w /\ l \in Managers
    <3>1. p \in Managers /\ p.focused = w
      BY <1>1, <1>3, <2>1 DEF Managers
    <3> HIDE DEF p
    <3>2. SameButLinks(p, l)
      BY <3>1, <1>3, LinkPrev
    <3> QED BY <3>1, <3>2 DEF SameButLinks
  <2>3. Removed(m, w) = [l EXCEPT !.focused = IF @ = w THEN l.head ELSE @]
    BY <1>1, <2>1 DEF Removed
  <2> HIDE DEF l
  <2> QED BY <2>2, <2>3
<1>6. r = [f EXCEPT !.heap = Kfree(@, w), !.node[w] = Blank]
  BY <1>1, <1>5 DEF Destroy
<1>7. /\ p \in Managers /\ p.heap = m.heap /\ p.head = nx /\ p.node = m.node
  BY <1>1, <1>3 DEF Managers
<1> HIDE DEF p
<1>8. /\ l \in Managers /\ l.heap = m.heap /\ l.head = nx
      /\ \A x \in Addresses : /\ l.node[x].next = m.node[x].next
                              /\ l.node[x].prev = IF x = nx THEN NULL ELSE m.node[x].prev
                              /\ l.node[x].focused = m.node[x].focused
  BY <1>3, <1>7, LinkPrev DEF SameButLinks
<1> HIDE DEF l
<1>9. f \in Managers /\ f.heap = m.heap /\ f.head = nx /\ f.focused = nx /\ f.node = l.node
  BY <1>8 DEF Managers
<1> HIDE DEF f, h, r, t, nx, w
<1>10. Blank \in [next : Pointers, prev : Pointers, focused : BOOLEAN, minimized : BOOLEAN]
  BY NullIsNoAddress DEF Blank
<1>11. /\ r \in Managers /\ r.heap = h /\ r.head = nx /\ r.focused = nx
       /\ \A x \in Addresses : x # w => r.node[x] = l.node[x]
  <2>1. r = [f EXCEPT !.heap = h, !.node[w] = Blank]
    BY <1>6, <1>9 DEF Managers, h, w
  <2> QED BY <1>1, <1>4, <1>9, <1>10, <2>1 DEF Managers, Nodes
<1>12. \A j \in 1 .. n - 1 : /\ t[j] = s[j + 1] /\ t[j] \in Addresses /\ t[j] # w /\ j + 1 \in 1 .. n
                             /\ r.node[t[j]].next = m.node[t[j]].next
                             /\ r.node[t[j]].prev = IF t[j] = nx THEN NULL ELSE m.node[t[j]].prev
  <2> TAKE j \in 1 .. n - 1
  <2>1. t[j] = s[j + 1] /\ t[j] # w /\ j + 1 \in 1 .. n
    BY <1>1, <1>2
  <2>2. t[j] \in Addresses
    BY <1>1, <2>1
  <2>3. r.node[t[j]] = l.node[t[j]]
    BY <1>11, <2>1, <2>2
  <2> QED BY <1>8, <2>1, <2>2, <2>3
<1>13. ASSUME NEW j \in 1 .. n - 1
       PROVE  /\ r.node[t[j]].next = IF j = n - 1 THEN NULL ELSE t[j + 1]
              /\ r.node[t[j]].prev = IF j = 1 THEN NULL ELSE t[j - 1]
  <2>1. /\ m.node[s[j + 1]].next = IF j + 1 = n THEN NULL ELSE s[(j + 1) + 1]
        /\ m.node[s[j + 1]].prev = IF j + 1 = 1 THEN NULL ELSE s[(j + 1) - 1]
    BY <1>1, <1>12 DEF Chain
  <2>2. j + 1 = n <=> j = n - 1
    BY <1>1
  <2>3. j # n - 1 => t[j + 1] = s[(j + 1) + 1]
    BY <1>1, <1>2
  <2>4. j # 1 => t[j - 1] = s[(j + 1) - 1]
    <3> SUFFICES ASSUME j # 1 PROVE t[j - 1] = s[(j + 1) - 1]
      OBVIOUS
    <3>1. j - 1 \in 1 .. n - 1 /\ (j - 1) + 1 = (j + 1) - 1
      BY <1>1
    <3> QED BY <1>2, <3>1
  <2>5. j + 1 # 1
    BY <1>1
  <2>6. t[j] = nx <=> j = 1
    <3>1. n # 1 /\ nx = s[2] /\ 2 \in 1 .. n /\ (j + 1 = 2 <=> j = 1)
      BY <1>1, <1>3
    <3> QED BY <1>1, <1>12, <3>1
  <2> QED BY <1>12, <2>1, <2>2, <2>3, <2>4, <2>5, <2>6
<1>14. \A j, k \in 1 .. n - 1 : t[j] = t[k] => j = k
  <2> TAKE j, k \in 1 .. n - 1
  <2>1. t[j] = s[j + 1] /\ t[k] = s[k + 1] /\ j + 1 \in 1 .. n /\ k + 1 \in 1 .. n
    BY <1>12
  <2>2. t[j] = t[k] => j + 1 = k + 1
    BY <1>1, <2>1
  <2> QED BY <1>1, <2>2
<1>15. r.head = IF t = <<>> THEN NULL ELSE t[1]
  <2>1. t = <<>> <=> n = 1
    BY <1>1, <1>2
  <2>2. n # 1 => t[1] = s[2]
    BY <1>1, <1>2
  <2> QED BY <1>3, <1>11, <2>1, <2>2
<1>16. Chain(r, t)
  BY <1>2, <1>13, <1>14, <1>15 DEF Chain
<1>17. r.focused \in ToSet(t) \cup {NULL}
  <2>1. t # <<>> => t[1] \in ToSet(t)
    BY <1>2, PlacesOf
  <2> QED BY <1>11, <1>15, <2>1
<1>18. \A x \in ToSet(t) : r.node[x].focused => x = r.focused
  <2> TAKE x \in ToSet(t)
  <2>1. x \in ToSet(s) /\ x # w /\ x \in Addresses
    BY <1>1, <1>2
  <2>2. m.node[x].focused => x = w
    BY <2>1 DEF Kept, w
  <2>3. r.node[x].focused = m.node[x].focused
    BY <1>8, <1>11, <2>1
  <2> QED BY <2>1, <2>2, <2>3
<1>19. Kept(r, t)
  BY <1>2, <1>4, <1>11, <1>16, <1>17, <1>18 DEF Kept
<1> QED BY <1>11, <1>19 DEF r, t, w

-----------------------------------------------------------------------------
(***************************************************************************)
(* The screen.                                                              *)
(***************************************************************************)
\* Whatever desktop_process or a key does to the windows, the main loop draws
\* again in the same step, and what it leaves alone it need not draw.
LEMMA ScreenStep == ScreenFresh /\ [Next]_vars => ScreenFresh'
<1> SUFFICES ASSUME screen = Shown(wm), [Next]_vars PROVE screen' = Shown(wm')
  BY DEF ScreenFresh
<1>1. CASE ProcessNoClick
  BY <1>1 DEF ProcessNoClick, Redraw
<1>2. CASE TaskbarClick
  BY <1>2 DEF TaskbarClick, Redraw
<1>3. CASE WindowClick
  BY <1>3 DEF WindowClick, CloseClick, MinimizeClick, TitleClick, ContentClick, Redraw
<1>4. CASE IconClick
  BY <1>4 DEF IconClick, Redraw
<1>5. CASE WallpaperClick
  BY <1>5 DEF WallpaperClick, windows
<1>6. CASE Keyboard \/ ReadKey \/ MouseIrq \/ \E c \in Keys : KeyboardIrq(c)
  BY <1>6 DEF Keyboard, ReadKey, MouseIrq, KeyboardIrq, windows
<1>7. CASE HandleKey
  BY <1>7 DEF HandleKey, Redraw
<1>8. CASE UNCHANGED vars
  BY <1>8 DEF vars
<1> QED BY <1>1, <1>2, <1>3, <1>4, <1>5, <1>6, <1>7, <1>8 DEF Next, MainLoop

\* What was last painted is what there is (kernel.c's calls of desktop_redraw).
THEOREM ScreenAlwaysFresh == Spec => []ScreenFresh
<1>1. Init => ScreenFresh
  BY DEF Init, ScreenFresh
<1> QED BY <1>1, ScreenStep, PTL DEF Spec

-----------------------------------------------------------------------------
(***************************************************************************)
(* The inductive invariant.                                                 *)
(***************************************************************************)
FocusFirst(m) == m.focused # NULL => m.focused = m.head

\* The applications hold the windows of the list, each one of its own.
HeldBy(w, s) ==
  /\ w \in [Apps -> Pointers]
  /\ \A a, b \in Apps : w[a] = w[b] => a = b \/ w[a] = NULL
  /\ {w[a] : a \in Apps} \ {NULL} = ToSet(s)

WindowsKept ==
  LET s == FrontToBack(wm)
  IN /\ Kept(wm, s) /\ FocusFirst(wm) /\ HeldBy(win, s)
     /\ drag \in ToSet(s) \cup {NULL}

\* The keys between the tail and the head are keys that were typed; the main
\* loop has read the one at the tail when it moves the tail on.
Places == 0 .. KeyboardSize - 1
Rings == [buffer : [Places -> Keys \cup {NULL}], head : Places, tail : Places]
KeysKept ==
  /\ ring \in Rings
  /\ \A i \in DOMAIN Typed : Typed[i] \in Keys
  /\ {button, prevButton} \subseteq BOOLEAN
  /\ loop \in {"process", "keyboard", "read", "handle"}
  /\ key \in Keys \cup {NULL}
  /\ loop = "read" => HasKey /\ key = ring.buffer[ring.tail]
  /\ loop = "handle" => key \in Keys

Inv == WindowsKept /\ KeysKept

-----------------------------------------------------------------------------
(***************************************************************************)
(* The handlers that change the windows.                                    *)
(***************************************************************************)
\* What holds of the windows between two handlers, the order of the list being s.
Sound(m, w, d, s) ==
  Kept(m, s) /\ FocusFirst(m) /\ HeldBy(w, s) /\ d \in ToSet(s) \cup {NULL}

\* Sound, for the order that the list of the manager has.
LEMMA SoundIsKept ==
  /\ WindowsKept <=> Sound(wm, win, drag, FrontToBack(wm))
  /\ \A s : Sound(wm, win, drag, s) => WindowsKept /\ FrontToBack(wm) = s
BY KeptPlaces DEF WindowsKept, Sound

\* An empty list on an empty heap, and room for a window.
LEMMA NothingOpen ==
  Kept(WmInit, <<>>) /\ CanCreate(WmInit) /\ WmInit.focused = NULL
<1> DEFINE h == HeapInit
           size == HeapSize - Header
<1>1. size \in Nat /\ WindowSize <= size /\ HeapSize \in Nat \ {0} /\ Header \in Nat
  BY HeapSizes
<1>2. /\ DOMAIN h = {0} /\ h[0] = [size |-> size, used |-> FALSE] /\ h = [b \in DOMAIN h |-> h[b]]
  BY DEF HeapInit, Block
<1> HIDE DEF h, size
<1>3. h[0] \in [size : Nat, used : BOOLEAN]
  BY <1>1, <1>2
<1>4. h \in Heaps
  <2>1. DOMAIN h \subseteq 0 .. HeapSize - 1
    BY <1>1, <1>2
  <2>2. \A b \in DOMAIN h : h[b] \in [size : Nat, used : BOOLEAN]
    BY <1>2, <1>3
  <2> QED BY <1>2, <2>1, <2>2, HeapsIntro
<1>5. End(h, 0) = HeapSize
  BY <1>1, <1>2 DEF End, size
<1>6. Tiled(h) /\ Settled(h)
  BY <1>2, <1>5 DEF Tiled, Settled
<1>7. Allocated(h) = {}
  BY <1>2 DEF Allocated
<1>8. Blank \in [next : Pointers, prev : Pointers, focused : BOOLEAN, minimized : BOOLEAN]
  BY NullIsNoAddress DEF Blank
<1>9. /\ WmInit \in Managers /\ WmInit.heap = h /\ WmInit.head = NULL /\ WmInit.focused = NULL
  BY <1>4, <1>8, NullIsNoAddress DEF WmInit, Managers, Nodes, h
<1>10. Chain(WmInit, <<>>)
  BY <1>9 DEF Chain
<1>11. ToSet(<<>>) = {}
  BY DEF ToSet
<1>12. 0 \in Fits(h, WindowSize)
  BY <1>1, <1>2 DEF Fits
<1> QED BY <1>6, <1>7, <1>9, <1>10, <1>11, <1>12 DEF Kept, CanCreate

\* create_about: one window, minimized and without the focus.
LEMMA BootSound ==
  \E w \in Addresses : Sound(Boot.wm, Boot.win, NULL, <<w>>)
<1> DEFINE w == NewWindow(WmInit)
           a == Add(Create(WmInit), w)
<1>1. w \in Addresses /\ Kept(a, <<w>> \o <<>>) /\ a.focused = NULL
  BY NothingOpen, KeptAdd
<1>2. <<w>> \o <<>> = <<w>> /\ ToSet(<<w>>) = {w} /\ w # NULL
  BY <1>1, NullIsNoAddress DEF ToSet
<1>3. Boot.wm = ToggleMinimize(a, w) /\ Boot.win = [b \in Apps |-> IF b = About THEN w ELSE NULL]
  BY DEF Boot
<1> HIDE DEF w, a
<1>4. Kept(Boot.wm, <<w>>) /\ Boot.wm.focused = NULL
  BY <1>1, <1>2, <1>3, KeptToggle
<1>5. HeldBy(Boot.win, <<w>>)
  <2>1. About \in Apps /\ NULL \in Pointers /\ w \in Pointers
    BY <1>1, NullIsNoAddress, DesktopAssumption
  <2> QED BY <1>2, <1>3, <2>1 DEF HeldBy
<1> QED BY <1>1, <1>4, <1>5 DEF Sound, FocusFirst

\* The focus and the front go together to the window at place i.
LEMMA FocusSounds ==
  ASSUME NEW m, NEW w, NEW d, NEW s, Sound(m, w, d, s), NEW i \in 1 .. Len(s)
  PROVE  Sound(SetFocus(m, s[i]), w, d, Fronted(s, i))
<1>1. s \in Seq(Addresses)
  BY KeptPlaces DEF Sound
<1>2. ToSet(Fronted(s, i)) = ToSet(s)
  BY <1>1, FrontedSet
<1> QED BY <1>2, KeptSetFocus DEF Sound, FocusFirst, HeldBy

\* Minimizing and restoring disturb nothing.
LEMMA RestoreSounds ==
  ASSUME NEW m, NEW w, NEW d, NEW s, Sound(m, w, d, s), NEW x \in ToSet(s)
  PROVE  Sound(ToggleMinimize(m, x), w, d, s) /\ Sound(Restore(m, x), w, d, s)
BY KeptToggle, KeptRestore DEF Sound, FocusFirst

\* An application opens its window: it comes to the front, or is new there, or
\* the heap has no room and nothing changes.
LEMMA OpenSounds ==
  ASSUME NEW m, NEW w, NEW d, NEW s, Sound(m, w, d, s), NEW a \in Apps
  PROVE  LET o == Opened(m, w, a)
         IN \/ o.wm = m /\ o.win = w
            \/ \E i \in 1 .. Len(s) : Sound(o.wm, o.win, d, Fronted(s, i))
            \/ \E x \in Addresses \ ToSet(s) : Sound(o.wm, o.win, d, <<x>> \o s)
<1> DEFINE o == Opened(m, w, a)
<1>1. /\ Kept(m, s) /\ ToSet(s) = {s[i] : i \in 1 .. Len(s)} /\ s \in Seq(Addresses)
      /\ HeldBy(w, s)
  BY KeptPlaces DEF Sound
<1>2. CASE w[a] # NULL
  <2>1. w[a] \in ToSet(s)
    BY <1>1, <1>2 DEF HeldBy
  <2>2. PICK i \in 1 .. Len(s) : w[a] = s[i]
    BY <1>1, <2>1
  <2>3. o.wm = SetFocus(Restore(m, w[a]), w[a]) /\ o.win = w
    BY <1>2 DEF Opened
  <2>4. Sound(Restore(m, w[a]), w, d, s)
    BY <2>1, RestoreSounds
  <2> QED BY <2>2, <2>3, <2>4, FocusSounds
<1>3. CASE w[a] = NULL /\ ~CanCreate(m)
  BY <1>3 DEF Opened
<1>4. CASE w[a] = NULL /\ CanCreate(m)
  <2> DEFINE x == NewWindow(m)
             v == [w EXCEPT ![a] = x]
             r == SetFocus(Add(Create(m), x), x)
  <2>1. o.wm = r /\ o.win = v
    BY <1>4 DEF Opened
  <2>2. /\ x \in Addresses /\ x \notin ToSet(s) /\ Kept(r, <<x>> \o s) /\ r.focused = x /\ r.head = x
    BY <1>1, <1>4, KeptNew
  <2> HIDE DEF x, r
  <2>3. ToSet(<<x>> \o s) = ToSet(s) \cup {x}
    BY <1>1, <2>2, ConcatSet
  <2>4. HeldBy(v, <<x>> \o s)
    <3>1. x \in Pointers /\ x # NULL
      BY <2>2, NullIsNoAddress
    <3>2. v \in [Apps -> Pointers] /\ v[a] = x /\ \A b \in Apps \ {a} : v[b] = w[b]
      BY <1>1, <3>1 DEF HeldBy
    <3>3. \A b \in Apps : w[b] # x
      BY <1>1, <2>2, <3>1 DEF HeldBy
    <3> HIDE DEF v
    <3>4. \A b, c \in Apps : v[b] = v[c] => b = c \/ v[b] = NULL
      BY <1>1, <3>2, <3>3 DEF HeldBy
    <3>5. {v[b] : b \in Apps} \ {NULL} = ({w[b] : b \in Apps} \ {NULL}) \cup {x}
      BY <1>4, <3>1, <3>2
    <3> QED BY <1>1, <2>3, <3>2, <3>4, <3>5 DEF HeldBy
  <2>5. Sound(o.wm, o.win, d, <<x>> \o s)
    BY <2>1, <2>2, <2>3, <2>4 DEF Sound, FocusFirst
  <2> QED BY <2>2, <2>5
<1> QED BY <1>2, <1>3, <1>4

\* The close box: the pointers of the applications and of the drag go with the
\* window.
LEMMA CloseSounds ==
  ASSUME NEW m, NEW w, NEW d, NEW s, Sound(m, w, d, s), NEW i \in 1 .. Len(s)
  PROVE  Sound(Destroy(SetFocus(m, s[i]), s[i]),
               [a \in Apps |-> IF w[a] = s[i] THEN NULL ELSE w[a]],
               IF d = s[i] THEN NULL ELSE d, RemoveAt(s, i))
<1> DEFINE x == s[i]
           f == SetFocus(m, x)
           t == Fronted(s, i)
           u == RemoveAt(s, i)
           r == Destroy(f, x)
           v == [a \in Apps |-> IF w[a] = x THEN NULL ELSE w[a]]
<1>1. /\ s \in Seq(Addresses) /\ x \in ToSet(s) /\ x # NULL /\ NULL \in Pointers
      /\ HeldBy(w, s) /\ d \in ToSet(s) \cup {NULL}
  <2>1. x \in ToSet(s)
    BY KeptPlaces DEF Sound
  <2> QED BY <2>1, KeptPlaces, NullIsNoAddress DEF Sound
<1>2. Kept(f, t) /\ f.focused = x
  BY KeptSetFocus DEF Sound
<1>3. t # <<>> /\ t[1] = x /\ ToSet(t) = ToSet(s) /\ u = Tail(t)
  BY <1>1, FrontedSet, FrontedPlaces, FrontedTail
<1> HIDE DEF f, t, u, x
<1>4. Kept(r, u) /\ r.focused = r.head
  BY <1>2, <1>3, KeptDestroy
<1>5. ToSet(u) = ToSet(s) \ {x}
  <2>1. t \in Seq(Addresses) /\ \A j, k \in 1 .. Len(t) : t[j] = t[k] => j = k
    BY <1>2, KeptPlaces
  <2> QED BY <1>3, <2>1, TailPlaces
<1> HIDE DEF r
<1>6. HeldBy(v, u)
  <2>1. w \in [Apps -> Pointers] /\ {w[a] : a \in Apps} \ {NULL} = ToSet(s)
        /\ \A a, b \in Apps : w[a] = w[b] => a = b \/ w[a] = NULL
    BY <1>1 DEF HeldBy
  <2>2. v \in [Apps -> Pointers] /\ \A a \in Apps : v[a] = IF w[a] = x THEN NULL ELSE w[a]
    BY <1>1, <2>1
  <2> HIDE DEF v
  <2>3. \A a, b \in Apps : v[a] = v[b] => a = b \/ v[a] = NULL
    BY <2>1, <2>2
  <2>4. {v[a] : a \in Apps} \ {NULL} = ({w[a] : a \in Apps} \ {NULL}) \ {x}
    BY <1>1, <2>2
  <2> QED BY <1>5, <2>1, <2>2, <2>3, <2>4 DEF HeldBy
<1>7. (IF d = x THEN NULL ELSE d) \in ToSet(u) \cup {NULL}
  BY <1>1, <1>5
<1> QED BY <1>4, <1>6, <1>7 DEF Sound, FocusFirst, r, f, u, x

-----------------------------------------------------------------------------
(***************************************************************************)
(* Each step of the loop keeps the windows sound and does to their order    *)
(* what DeskView allows.                                                    *)
(***************************************************************************)
\* The order of the windows before the step.
LEMMA OrderTyped ==
  ASSUME WindowsKept
  PROVE  /\ Sound(wm, win, drag, FrontToBack(wm)) /\ FrontToBack(wm) \in Seq(Addresses)
         /\ DOMAIN FrontToBack(wm) = 1 .. Len(FrontToBack(wm))
         /\ Listed(wm) = {FrontToBack(wm)[i] : i \in 1 .. Len(FrontToBack(wm))}
BY SoundIsKept, KeptPlaces DEF Sound

\* The order of the windows after the step.
LEMMA SoundNext ==
  ASSUME NEW t, Sound(wm', win', drag', t)
  PROVE  WindowsKept' /\ FrontToBack(wm') = t
<1>1. FrontToBack(wm') = t
  BY KeptPlaces DEF Sound
<1> QED BY <1>1 DEF Sound, WindowsKept

\* A step that puts the window at place i in front.
LEMMA MovesToFront ==
  ASSUME NEW i \in 1 .. Len(FrontToBack(wm)), WindowsKept,
         Sound(wm', win', drag', Fronted(FrontToBack(wm), i))
  PROVE  WindowsKept' /\ View!Rearrange
<1>1. FrontToBack(wm') = Fronted(FrontToBack(wm), i) /\ WindowsKept'
  BY SoundNext
<1>2. i \in DOMAIN FrontToBack(wm)
  BY OrderTyped
<1>3. View!ToFront(i)
  BY <1>1 DEF View!ToFront, Fronted, RemoveAt, View!RemoveAt
<1> QED BY <1>1, <1>2, <1>3 DEF View!Rearrange

\* A step that closes the window at place i.
LEMMA Closes ==
  ASSUME NEW i \in 1 .. Len(FrontToBack(wm)), WindowsKept,
         Sound(wm', win', drag', RemoveAt(FrontToBack(wm), i))
  PROVE  WindowsKept' /\ View!Rearrange
<1>1. FrontToBack(wm') = RemoveAt(FrontToBack(wm), i) /\ WindowsKept'
  BY SoundNext
<1>2. i \in DOMAIN FrontToBack(wm)
  BY OrderTyped
<1>3. View!Close(i)
  BY <1>1 DEF View!Close, RemoveAt, View!RemoveAt
<1> QED BY <1>1, <1>2, <1>3 DEF View!Rearrange

\* A step that opens a window.
LEMMA Opens ==
  ASSUME NEW x \in Addresses \ ToSet(FrontToBack(wm)),
         Sound(wm', win', drag', <<x>> \o FrontToBack(wm))
  PROVE  WindowsKept' /\ View!Rearrange
<1>1. FrontToBack(wm') = <<x>> \o FrontToBack(wm) /\ WindowsKept'
  BY SoundNext
<1>2. x \notin View!ToSet(FrontToBack(wm))
  BY DEF ToSet, View!ToSet
<1>3. View!Add(x)
  BY <1>1, <1>2 DEF View!Add
<1> QED BY <1>1, <1>3 DEF View!Rearrange

\* A step that leaves the order as it is.
LEMMA Stays ==
  ASSUME Sound(wm', win', drag', FrontToBack(wm))
  PROVE  WindowsKept' /\ UNCHANGED FrontToBack(wm)
BY SoundNext

\* An icon, or a command of the terminal, opens an application.
LEMMA OpenStep ==
  ASSUME WindowsKept, NEW a \in Apps, Open(a), UNCHANGED drag
  PROVE  WindowsKept' /\ (View!Rearrange \/ UNCHANGED FrontToBack(wm))
<1> DEFINE s == FrontToBack(wm)
           o == Opened(wm, win, a)
<1>1. Sound(wm, win, drag, s)
  BY OrderTyped
<1>2. wm' = o.wm /\ win' = o.win /\ drag' = drag
  BY DEF Open
<1>3. \/ o.wm = wm /\ o.win = win
      \/ \E i \in 1 .. Len(s) : Sound(o.wm, o.win, drag, Fronted(s, i))
      \/ \E x \in Addresses \ ToSet(s) : Sound(o.wm, o.win, drag, <<x>> \o s)
  BY <1>1, OpenSounds
<1> HIDE DEF o
<1>4. CASE o.wm = wm /\ o.win = win
  BY <1>1, <1>2, <1>4, Stays
<1>5. CASE \E i \in 1 .. Len(s) : Sound(o.wm, o.win, drag, Fronted(s, i))
  BY <1>2, <1>5, MovesToFront
<1>6. CASE \E x \in Addresses \ ToSet(s) : Sound(o.wm, o.win, drag, <<x>> \o s)
  BY <1>2, <1>6, Opens
<1> QED BY <1>3, <1>4, <1>5, <1>6

\* A click on a window that is listed: what it does after the window has come
\* to the front.
LEMMA ClickStep ==
  ASSUME WindowsKept, NEW w \in Listed(wm),
         CloseClick(w) \/ MinimizeClick(w) \/ TitleClick(w) \/ ContentClick(w)
  PROVE  WindowsKept' /\ View!Rearrange
<1> DEFINE s == FrontToBack(wm)
<1>1. Sound(wm, win, drag, s) /\ s \in Seq(Addresses)
  BY OrderTyped
<1>2. PICK i \in 1 .. Len(s) : w = s[i]
  BY OrderTyped
<1> DEFINE f == SetFocus(wm, w)
           t == Fronted(s, i)
<1>3. Sound(f, win, drag, t)
  BY <1>1, <1>2, FocusSounds
<1>4. w \in ToSet(t)
  <2>1. ToSet(t) = ToSet(s)
    BY <1>1, FrontedSet
  <2> QED BY <2>1 DEF Listed
<1> HIDE DEF f, t
<1>5. CASE CloseClick(w)
  <2>1. Sound(wm', win', drag', RemoveAt(s, i))
    BY <1>1, <1>2, <1>5, CloseSounds DEF CloseClick
  <2> QED BY <2>1, Closes
<1>6. CASE MinimizeClick(w)
  <2>1. wm' = ToggleMinimize(f, w) /\ win' = win /\ drag' = drag
    BY <1>6 DEF MinimizeClick, f
  <2>2. Sound(wm', win', drag', t)
    BY <1>3, <1>4, <2>1, RestoreSounds
  <2> QED BY <2>2, MovesToFront DEF t
<1>7. CASE TitleClick(w)
  <2>1. wm' = f /\ win' = win /\ drag' = w
    BY <1>7 DEF TitleClick, f
  <2>2. Sound(wm', win', drag', t)
    BY <1>3, <1>4, <2>1 DEF Sound
  <2> QED BY <2>2, MovesToFront DEF t
<1>8. CASE ContentClick(w)
  <2>1. wm' = f /\ win' = win /\ drag' = drag
    BY <1>8 DEF ContentClick, f
  <2> QED BY <1>3, <2>1, MovesToFront DEF t
<1> QED BY <1>5, <1>6, <1>7, <1>8

\* A click on the taskbar: on the button of a window, or on none.
LEMMA TaskbarStep ==
  ASSUME WindowsKept, TaskbarClick
  PROVE  WindowsKept' /\ (View!Rearrange \/ UNCHANGED FrontToBack(wm))
<1> DEFINE s == FrontToBack(wm)
<1>1. Sound(wm, win, drag, s) /\ s \in Seq(Addresses)
  BY OrderTyped
<1>2. win' = win /\ drag' = drag
  BY DEF TaskbarClick
<1>3. CASE UNCHANGED wm
  BY <1>1, <1>2, <1>3, Stays
<1>4. ASSUME NEW w \in Listed(wm), wm' = SetFocus(Restore(wm, w), w)
      PROVE  WindowsKept' /\ View!Rearrange
  <2>1. PICK i \in 1 .. Len(s) : w = s[i]
    BY OrderTyped
  <2>2. Sound(Restore(wm, w), win, drag, s)
    BY <1>1, RestoreSounds DEF Listed
  <2>3. Sound(wm', win', drag', Fronted(s, i))
    BY <1>2, <1>4, <2>1, <2>2, FocusSounds
  <2> QED BY <2>3, MovesToFront
<1> QED BY <1>3, <1>4 DEF TaskbarClick

\* A step that at most lets go of the window that is dragged.
LEMMA WindowsUnchanged ==
  ASSUME WindowsKept, wm' = wm, win' = win, drag' \in {drag, NULL}
  PROVE  WindowsKept' /\ UNCHANGED FrontToBack(wm)
<1>1. Sound(wm', win', drag', FrontToBack(wm))
  BY OrderTyped DEF Sound
<1> QED BY <1>1, Stays

\* No step of the loop and no interrupt leaves the windows unsound.
LEMMA WindowsStep ==
  ASSUME WindowsKept, [Next]_vars
  PROVE  WindowsKept' /\ (View!Rearrange \/ UNCHANGED FrontToBack(wm))
<1>1. CASE ProcessNoClick
  BY <1>1, WindowsUnchanged DEF ProcessNoClick
<1>2. CASE TaskbarClick
  BY <1>2, TaskbarStep
<1>3. CASE WindowClick
  <2>1. PICK w \in Visible(wm) :
          CloseClick(w) \/ MinimizeClick(w) \/ TitleClick(w) \/ ContentClick(w)
    BY <1>3 DEF WindowClick
  <2>2. w \in Listed(wm)
    BY DEF Visible
  <2> QED BY <2>1, <2>2, ClickStep
<1>4. CASE IconClick
  BY <1>4, OpenStep DEF IconClick
<1>5. CASE HandleKey
  <2>1. Commanded \subseteq Apps
    BY DesktopAssumption
  <2>2. CASE \E a \in Commanded : Open(a)
    BY <1>5, <2>1, <2>2, OpenStep DEF HandleKey
  <2>3. CASE UNCHANGED <<wm, win>>
    BY <1>5, <2>3, WindowsUnchanged DEF HandleKey
  <2> QED BY <1>5, <2>2, <2>3 DEF HandleKey
<1>6. CASE UNCHANGED windows
  BY <1>6, WindowsUnchanged DEF windows
<1>7. WallpaperClick \/ Keyboard \/ ReadKey \/ MouseIrq \/ (\E c \in Keys : KeyboardIrq(c))
        \/ UNCHANGED vars => UNCHANGED windows
  BY DEF WallpaperClick, Keyboard, ReadKey, MouseIrq, KeyboardIrq, vars, windows
<1> QED BY <1>1, <1>2, <1>3, <1>4, <1>5, <1>6, <1>7 DEF Next, MainLoop

-----------------------------------------------------------------------------
(***************************************************************************)
(* The ring of keys.                                                        *)
(***************************************************************************)
\* An index that has run past the end of the ring, or below its beginning, by
\* less than once round.
LEMMA RingIndex ==
  ASSUME NEW K \in Nat \ {0}, NEW x \in Int, - K <= x, x < 2 * K
  PROVE  x % K = IF x < 0 THEN x + K ELSE IF x < K THEN x ELSE x - K
<1>1. CASE 0 <= x /\ x < K
  BY <1>1
<1>2. CASE K <= x
  BY <1>2
<1>3. CASE x < 0
  BY <1>3
<1> QED BY <1>1, <1>2, <1>3

\* How many keys are in the ring r, and where the one is that was typed as number i.
Waiting(r) == (r.head - r.tail) % KeyboardSize
Place(r, i) == (r.tail + i - 1) % KeyboardSize
TypedIn(r) == [i \in 1 .. Waiting(r) |-> r.buffer[Place(r, i)]]

\* What a ring holds.
LEMMA RingTyped ==
  ASSUME NEW r \in Rings
  PROVE  /\ KeyboardSize \in Nat \ {0, 1} /\ r.head \in Nat /\ r.tail \in Nat
         /\ r.head < KeyboardSize /\ r.tail < KeyboardSize
         /\ r.head \in Places /\ r.tail \in Places /\ r.buffer \in [Places -> Keys \cup {NULL}]
         /\ r = [buffer |-> r.buffer, head |-> r.head, tail |-> r.tail]
<1>1. KeyboardSize \in Nat \ {0, 1}
  BY DesktopAssumption
<1>2. r.head \in Places /\ r.tail \in Places /\ r.buffer \in [Places -> Keys \cup {NULL}]
      /\ r = [buffer |-> r.buffer, head |-> r.head, tail |-> r.tail]
  BY DEF Rings
<1> QED BY <1>1, <1>2 DEF Places

\* The two remainders, by where the head is and where the tail.
LEMMA RingPlaces ==
  ASSUME NEW r \in Rings
  PROVE  /\ Waiting(r) = IF r.tail <= r.head THEN r.head - r.tail
                         ELSE r.head - r.tail + KeyboardSize
         /\ Waiting(r) \in Places
         /\ (Waiting(r) = 0 <=> r.head = r.tail)
         /\ \A i \in 1 .. KeyboardSize :
              /\ Place(r, i) = IF r.tail + i - 1 < KeyboardSize THEN r.tail + i - 1
                               ELSE r.tail + i - 1 - KeyboardSize
              /\ Place(r, i) \in Places
<1> DEFINE K == KeyboardSize
           h == r.head
           t == r.tail
<1>1. K \in Nat \ {0} /\ h \in Nat /\ t \in Nat /\ h < K /\ t < K
  BY RingTyped
<1> HIDE DEF K, h, t
<1>2. (h - t) % K = IF t <= h THEN h - t ELSE h - t + K
  <2> DEFINE x == h - t
  <2>1. x \in Int /\ - K <= x /\ x < 2 * K /\ x < K /\ (x < 0 <=> ~(t <= h))
    BY <1>1
  <2> HIDE DEF x
  <2>2. x % K = IF x < 0 THEN x + K ELSE IF x < K THEN x ELSE x - K
    BY <1>1, <2>1, RingIndex
  <2>3. x % K = IF t <= h THEN x ELSE x + K
    BY <2>1, <2>2
  <2> QED BY <2>3 DEF x
<1>3. ASSUME NEW i \in 1 .. K
      PROVE  (t + i - 1) % K = IF t + i - 1 < K THEN t + i - 1 ELSE t + i - 1 - K
  <2> DEFINE x == t + i - 1
  <2>1. x \in Int /\ - K <= x /\ x < 2 * K /\ ~(x < 0)
    BY <1>1
  <2> HIDE DEF x
  <2>2. x % K = IF x < 0 THEN x + K ELSE IF x < K THEN x ELSE x - K
    BY <1>1, <2>1, RingIndex
  <2>3. x % K = IF x < K THEN x ELSE x - K
    BY <2>1, <2>2
  <2> QED BY <1>1, <2>3 DEF x
<1>4. \A i \in 1 .. K : (t + i - 1) % K \in 0 .. K - 1
  BY <1>1, <1>3
<1>5. /\ (h - t) % K \in 0 .. K - 1
      /\ ((h - t) % K = 0 <=> h = t)
  BY <1>1, <1>2
<1> QED BY <1>2, <1>3, <1>4, <1>5 DEF Waiting, Place, Places, K, h, t

\* The index after the last place is the first.
LEMMA NextPlace ==
  ASSUME NEW i \in Places
  PROVE  Next1(i) \in Places /\ Next1(i) = IF i + 1 = KeyboardSize THEN 0 ELSE i + 1
<1>1. KeyboardSize \in Nat \ {0, 1} /\ i \in Nat /\ i < KeyboardSize
  BY DesktopAssumption DEF Places
<1> DEFINE K == KeyboardSize
           x == i + 1
<1>2. x \in Int /\ - K <= x /\ x < 2 * K /\ ~(x < 0) /\ K \in Nat \ {0} /\ x <= K
  BY <1>1
<1>3. x % K = IF x < K THEN x ELSE x - K
  <2> HIDE DEF x, K
  <2>1. x % K = IF x < 0 THEN x + K ELSE IF x < K THEN x ELSE x - K
    BY <1>2, RingIndex
  <2> QED BY <1>2, <2>1
<1> QED BY <1>1, <1>2, <1>3 DEF Next1, Places

\* The keys of a ring, as a sequence.
LEMMA TypedLength ==
  ASSUME NEW r \in Rings, \A i \in DOMAIN TypedIn(r) : TypedIn(r)[i] \in Keys
  PROVE  /\ TypedIn(r) \in Seq(Keys) /\ Len(TypedIn(r)) = Waiting(r)
         /\ \A i \in 1 .. Waiting(r) : TypedIn(r)[i] = r.buffer[Place(r, i)]
         /\ Waiting(r) \in Nat
<1> DEFINE s == TypedIn(r)
           n == Waiting(r)
<1>1. n \in Nat
  BY RingPlaces, RingTyped DEF Places
<1>2. DOMAIN s = 1 .. n /\ s = [i \in 1 .. n |-> s[i]] /\ \A i \in 1 .. n : s[i] = r.buffer[Place(r, i)]
  BY DEF TypedIn
<1> HIDE DEF n, s
<1>3. s \in [1 .. n -> Keys]
  BY <1>2 DEF s
<1>4. s \in Seq(Keys) /\ Len(s) = n
  BY <1>1, <1>2, <1>3, SeqDef
<1> QED BY <1>1, <1>2, <1>4 DEF s, n

KeysIn(r) == \A i \in DOMAIN TypedIn(r) : TypedIn(r)[i] \in Keys

\* The keyboard interrupt puts the key behind the others, unless the one free
\* place that tells a full ring from an empty one is the last.
LEMMA StoredKeys ==
  ASSUME NEW r \in Rings, KeysIn(r), NEW c \in Keys
  PROVE  LET q == Stored(r, c)
         IN /\ q \in Rings /\ KeysIn(q) /\ q.tail = r.tail
            /\ TypedIn(q) = IF Len(TypedIn(r)) < KeyboardSize - 1
                            THEN Append(TypedIn(r), c) ELSE TypedIn(r)
            /\ r.head # r.tail => q.head # q.tail /\ q.buffer[q.tail] = r.buffer[r.tail]
<1> DEFINE q == Stored(r, c)
           n == Waiting(r)
           K == KeyboardSize
<1>1. /\ K \in Nat \ {0, 1} /\ r.head \in Nat /\ r.tail \in Nat /\ r.head < K /\ r.tail < K
      /\ r.head \in Places /\ r.tail \in Places /\ r.buffer \in [Places -> Keys \cup {NULL}]
      /\ r = [buffer |-> r.buffer, head |-> r.head, tail |-> r.tail]
  BY RingTyped
<1>2. /\ n = IF r.tail <= r.head THEN r.head - r.tail ELSE r.head - r.tail + K
      /\ n \in Nat /\ n <= K - 1
      /\ \A i \in 1 .. K : /\ Place(r, i) = IF r.tail + i - 1 < K THEN r.tail + i - 1
                                            ELSE r.tail + i - 1 - K
                           /\ Place(r, i) \in Places
  <2>1. n \in Nat /\ n <= K - 1
    BY <1>1, RingPlaces DEF Places
  <2> QED BY <2>1, RingPlaces
<1>3. /\ TypedIn(r) \in Seq(Keys) /\ Len(TypedIn(r)) = n
      /\ \A i \in 1 .. n : TypedIn(r)[i] = r.buffer[Place(r, i)]
  BY TypedLength DEF KeysIn
<1>4. Next1(r.head) \in Places /\ Next1(r.head) = IF r.head + 1 = K THEN 0 ELSE r.head + 1
  BY <1>1, NextPlace
<1> HIDE DEF n, K
<1>5. Next1(r.head) = r.tail <=> n = K - 1
  BY <1>1, <1>2, <1>4
<1>6. CASE Next1(r.head) = r.tail
  <2>1. q = r
    BY <1>6 DEF Stored
  <2>2. ~(n < K - 1)
    BY <1>2, <1>5, <1>6
  <2> QED BY <1>3, <2>1, <2>2 DEF K
<1>7. CASE Next1(r.head) # r.tail
  <2>1. q = [r EXCEPT !.buffer[r.head] = c, !.head = Next1(r.head)]
    BY <1>7 DEF Stored
  <2>2. /\ q.tail = r.tail /\ q.head = Next1(r.head)
        /\ q.buffer = [r.buffer EXCEPT ![r.head] = c]
        /\ q = [buffer |-> q.buffer, head |-> q.head, tail |-> q.tail]
    BY <1>1, <2>1
  <2>3. q.buffer \in [Places -> Keys \cup {NULL}]
    BY <1>1, <2>2
  <2>4. /\ q.buffer[r.head] = c /\ \A i \in Places \ {r.head} : q.buffer[i] = r.buffer[i]
    BY <1>1, <2>2
  <2>5. q \in Rings
    BY <1>1, <1>4, <2>2, <2>3 DEF Rings
  <2> HIDE DEF q
  <2>6. Waiting(q) = n + 1 /\ n + 1 \in 1 .. K /\ n < K - 1
    <3>1. Waiting(q) = IF q.tail <= q.head THEN q.head - q.tail ELSE q.head - q.tail + K
      BY <2>5, RingPlaces DEF K
    <3>2. n # K - 1
      BY <1>5, <1>7
    <3> QED BY <1>1, <1>2, <1>4, <2>2, <3>1, <3>2
  <2>7. \A i \in 1 .. n : i \in 1 .. K /\ Place(r, i) # r.head
    BY <1>1, <1>2
  <2>8. Place(r, n + 1) = r.head
    BY <1>1, <1>2, <2>6
  <2>9. \A i : Place(q, i) = Place(r, i)
    BY <2>2 DEF Place
  <2>10. DOMAIN TypedIn(q) = 1 .. n + 1 /\ \A i \in 1 .. n + 1 : TypedIn(q)[i] = q.buffer[Place(r, i)]
    BY <2>6, <2>9 DEF TypedIn
  <2>11. \A i \in 1 .. n : TypedIn(q)[i] = TypedIn(r)[i] /\ TypedIn(r)[i] \in Keys
    <3> TAKE i \in 1 .. n
    <3>1. i \in 1 .. n + 1 /\ Place(r, i) \in Places \ {r.head}
      BY <1>2, <2>7
    <3> QED BY <1>3, <2>4, <2>10, <3>1
  <2>12. TypedIn(q)[n + 1] = c
    BY <1>2, <2>4, <2>8, <2>10
  <2>13. KeysIn(q)
    <3>1. \A i \in 1 .. n + 1 : i \in 1 .. n \/ i = n + 1
      BY <1>2
    <3> QED BY <2>10, <2>11, <2>12, <3>1 DEF KeysIn
  <2>14. TypedIn(q) = Append(TypedIn(r), c)
    <3>1. TypedIn(q) \in Seq(Keys) /\ Len(TypedIn(q)) = n + 1
      BY <2>5, <2>6, <2>13, TypedLength DEF KeysIn
    <3> DEFINE a == Append(TypedIn(r), c)
    <3>2. /\ a \in Seq(Keys) /\ Len(a) = n + 1 /\ a[n + 1] = c
          /\ \A i \in 1 .. n : a[i] = TypedIn(r)[i]
      BY <1>3, AppendProperties
    <3> HIDE DEF a
    <3>3. \A i \in 1 .. n + 1 : TypedIn(q)[i] = a[i]
      <4>1. \A i \in 1 .. n + 1 : i \in 1 .. n \/ i = n + 1
        BY <1>2
      <4> QED BY <2>11, <2>12, <3>2, <4>1
    <3>4. TypedIn(q) = a
      BY <3>1, <3>2, <3>3, SeqEqual
    <3> QED BY <3>4 DEF a
  <2>15. r.head # r.tail => q.head # q.tail /\ q.buffer[q.tail] = r.buffer[r.tail]
    BY <1>1, <1>7, <2>2, <2>4
  <2> QED BY <1>3, <2>2, <2>5, <2>6, <2>13, <2>14, <2>15 DEF q, K
<1> QED BY <1>6, <1>7

\* The main loop takes the key that was typed first.
LEMMA TakenKeys ==
  ASSUME NEW r \in Rings, KeysIn(r), r.head # r.tail
  PROVE  LET q == [r EXCEPT !.tail = Next1(@)]
         IN /\ q \in Rings /\ KeysIn(q)
            /\ TypedIn(q) = Tail(TypedIn(r))
            /\ TypedIn(r) # <<>> /\ Head(TypedIn(r)) = r.buffer[r.tail]
            /\ r.buffer[r.tail] \in Keys
<1> DEFINE q == [r EXCEPT !.tail = Next1(@)]
           n == Waiting(r)
           K == KeyboardSize
           s == TypedIn(r)
<1>1. /\ K \in Nat \ {0, 1} /\ r.head \in Nat /\ r.tail \in Nat /\ r.head < K /\ r.tail < K
      /\ r.head \in Places /\ r.tail \in Places /\ r.buffer \in [Places -> Keys \cup {NULL}]
      /\ r = [buffer |-> r.buffer, head |-> r.head, tail |-> r.tail]
  BY RingTyped
<1>2. /\ n = IF r.tail <= r.head THEN r.head - r.tail ELSE r.head - r.tail + K
      /\ n \in Nat \ {0} /\ n <= K - 1
      /\ \A i \in 1 .. K : Place(r, i) = IF r.tail + i - 1 < K THEN r.tail + i - 1
                                         ELSE r.tail + i - 1 - K
  <2>1. n \in Nat \ {0} /\ n <= K - 1
    BY <1>1, RingPlaces DEF Places
  <2> QED BY <2>1, RingPlaces
<1>3. /\ s \in Seq(Keys) /\ Len(s) = n
      /\ \A i \in 1 .. n : s[i] = r.buffer[Place(r, i)]
  BY TypedLength DEF KeysIn
<1>4. Next1(r.tail) \in Places /\ Next1(r.tail) = IF r.tail + 1 = K THEN 0 ELSE r.tail + 1
  BY <1>1, NextPlace
<1>5. /\ q.head = r.head /\ q.tail = Next1(r.tail) /\ q.buffer = r.buffer
      /\ q = [buffer |-> q.buffer, head |-> q.head, tail |-> q.tail]
  BY <1>1
<1>6. q \in Rings
  BY <1>1, <1>4, <1>5 DEF Rings
<1> HIDE DEF q, n, K, s
<1>7. Waiting(q) = n - 1
  <2>1. Waiting(q) = IF q.tail <= q.head THEN q.head - q.tail ELSE q.head - q.tail + K
    BY <1>6, RingPlaces DEF K
  <2> QED BY <1>1, <1>2, <1>4, <1>5, <2>1
<1>8. ASSUME NEW i \in 1 .. n - 1 PROVE Place(q, i) = Place(r, i + 1)
  <2>1. i \in 1 .. K /\ i + 1 \in 1 .. K
    BY <1>1, <1>2
  <2>2. Place(q, i) = IF q.tail + i - 1 < K THEN q.tail + i - 1 ELSE q.tail + i - 1 - K
    BY <1>6, <2>1, RingPlaces DEF K
  <2>3. Place(r, i + 1) = IF r.tail + (i + 1) - 1 < K THEN r.tail + (i + 1) - 1
                          ELSE r.tail + (i + 1) - 1 - K
    BY <1>2, <2>1
  <2>4. r.tail + (i + 1) - 1 < 2 * K /\ 1 <= i /\ i < K
    BY <1>1, <1>2
  <2> QED BY <1>1, <1>4, <1>5, <2>2, <2>3, <2>4
<1>9. Place(r, 1) = r.tail /\ 1 \in 1 .. n
  BY <1>1, <1>2
<1>10. DOMAIN TypedIn(q) = 1 .. n - 1 /\ \A i \in 1 .. n - 1 : TypedIn(q)[i] = s[i + 1] /\ s[i + 1] \in Keys
  <2>1. DOMAIN TypedIn(q) = 1 .. n - 1 /\ \A i \in 1 .. n - 1 : TypedIn(q)[i] = r.buffer[Place(r, i + 1)]
    BY <1>5, <1>7, <1>8 DEF TypedIn
  <2>2. \A i \in 1 .. n - 1 : i + 1 \in 1 .. n
    BY <1>2
  <2> QED BY <1>3, <2>1, <2>2
<1>11. KeysIn(q)
  BY <1>10 DEF KeysIn
<1>12. TypedIn(q) = Tail(s)
  <2>1. TypedIn(q) \in Seq(Keys) /\ Len(TypedIn(q)) = n - 1
    BY <1>6, <1>7, <1>11, TypedLength DEF KeysIn
  <2>2. s # <<>>
    BY <1>2, <1>3
  <2>3. Tail(s) \in Seq(Keys) /\ Len(Tail(s)) = n - 1 /\ \A i \in 1 .. n - 1 : Tail(s)[i] = s[i + 1]
    BY <1>3, <2>2, HeadTailProperties
  <2> QED BY <1>10, <2>1, <2>3, SeqEqual
<1>13. s # <<>> /\ Head(s) = r.buffer[r.tail] /\ r.buffer[r.tail] \in Keys
  <2>1. s[1] = r.buffer[r.tail] /\ s[1] \in Keys /\ Len(s) # 0
    BY <1>2, <1>3, <1>9
  <2> QED BY <1>3, <2>1
<1> QED BY <1>6, <1>11, <1>12, <1>13 DEF q, s

-----------------------------------------------------------------------------
(***************************************************************************)
(* Each step keeps the keys and does to them what DeskView allows.          *)
(***************************************************************************)
Taken == IF loop = "handle" THEN key ELSE NULL

\* The invariant of the keys, before the step and after it, without its modulus.
LEMMA KeysAre ==
  /\ Typed = TypedIn(ring) /\ Typed' = TypedIn(ring')
  /\ KeysKept <=> /\ ring \in Rings /\ KeysIn(ring)
                  /\ {button, prevButton} \subseteq BOOLEAN
                  /\ loop \in {"process", "keyboard", "read", "handle"}
                  /\ key \in Keys \cup {NULL}
                  /\ loop = "read" => ring.head # ring.tail /\ key = ring.buffer[ring.tail]
                  /\ loop = "handle" => key \in Keys
  /\ KeysKept' <=> /\ ring' \in Rings /\ KeysIn(ring')
                   /\ {button', prevButton'} \subseteq BOOLEAN
                   /\ loop' \in {"process", "keyboard", "read", "handle"}
                   /\ key' \in Keys \cup {NULL}
                   /\ loop' = "read" => ring'.head # ring'.tail /\ key' = ring'.buffer[ring'.tail]
                   /\ loop' = "handle" => key' \in Keys
BY DEF KeysKept, KeysIn, Typed, TypedIn, Waiting, Place, HasKey

\* A key comes in behind the others, the first is taken, one is handled, or none is touched.
LEMMA KeysStep ==
  ASSUME KeysKept, [Next]_vars
  PROVE  /\ KeysKept'
         /\ \/ /\ \E c \in Keys : Typed' = IF Len(Typed) < KeyboardSize - 1
                                           THEN Append(Typed, c) ELSE Typed
               /\ UNCHANGED windows /\ Taken' = Taken
            \/ /\ Typed # <<>> /\ Typed' = Tail(Typed) /\ Taken = NULL /\ Taken' = Head(Typed)
               /\ UNCHANGED windows
            \/ Typed' = Typed /\ Taken # NULL /\ Taken' = NULL
            \/ Typed' = Typed /\ Taken' = Taken
<1>1. /\ ring \in Rings /\ KeysIn(ring) /\ button \in BOOLEAN /\ prevButton \in BOOLEAN
      /\ loop \in {"process", "keyboard", "read", "handle"} /\ key \in Keys \cup {NULL}
      /\ loop = "read" => ring.head # ring.tail /\ key = ring.buffer[ring.tail]
      /\ loop = "handle" => key \in Keys
      /\ NULL \notin Keys
  BY KeysAre, DesktopAssumption
<1>2. ASSUME NEW c \in Keys, KeyboardIrq(c)
      PROVE  /\ KeysKept' /\ UNCHANGED windows /\ Taken' = Taken
             /\ Typed' = IF Len(Typed) < KeyboardSize - 1 THEN Append(Typed, c) ELSE Typed
  <2>1. /\ ring' = Stored(ring, c) /\ UNCHANGED windows
        /\ button' = button /\ prevButton' = prevButton /\ loop' = loop /\ key' = key
    BY <1>2 DEF KeyboardIrq
  <2>2. /\ ring' \in Rings /\ KeysIn(ring') /\ ring'.tail = ring.tail
        /\ TypedIn(ring') = IF Len(TypedIn(ring)) < KeyboardSize - 1
                            THEN Append(TypedIn(ring), c) ELSE TypedIn(ring)
        /\ ring.head # ring.tail => /\ ring'.head # ring'.tail
                                    /\ ring'.buffer[ring'.tail] = ring.buffer[ring.tail]
    BY <1>1, <2>1, StoredKeys
  <2>3. KeysKept'
    BY <1>1, <2>1, <2>2, KeysAre
  <2> QED BY <2>1, <2>2, <2>3, KeysAre DEF Taken
<1>3. ASSUME ReadKey
      PROVE  /\ KeysKept' /\ UNCHANGED windows /\ Typed # <<>> /\ Typed' = Tail(Typed)
             /\ Taken = NULL /\ Taken' = Head(Typed)
  <2>1. /\ loop = "read" /\ ring' = [ring EXCEPT !.tail = Next1(@)] /\ loop' = "handle"
        /\ UNCHANGED windows /\ button' = button /\ prevButton' = prevButton /\ key' = key
    BY <1>3 DEF ReadKey
  <2>2. /\ ring' \in Rings /\ KeysIn(ring') /\ TypedIn(ring') = Tail(TypedIn(ring))
        /\ TypedIn(ring) # <<>> /\ Head(TypedIn(ring)) = ring.buffer[ring.tail]
        /\ ring.buffer[ring.tail] \in Keys
    BY <1>1, <2>1, TakenKeys
  <2>3. KeysKept'
    BY <1>1, <2>1, <2>2, KeysAre
  <2> QED BY <1>1, <2>1, <2>2, <2>3, KeysAre DEF Taken
<1>4. ASSUME HandleKey
      PROVE  KeysKept' /\ Typed' = Typed /\ Taken # NULL /\ Taken' = NULL
  <2>1. /\ loop = "handle" /\ loop' = "process" /\ key' = NULL
        /\ ring' = ring /\ button' = button /\ prevButton' = prevButton
    BY <1>4 DEF HandleKey, devices
  <2> QED BY <1>1, <2>1, KeysAre DEF Taken
<1>5. ASSUME ring' = ring, Keyboard \/ Processing \/ MouseIrq \/ UNCHANGED vars
      PROVE  KeysKept' /\ Typed' = Typed /\ Taken' = Taken
  <2>1. CASE Keyboard
    <3>1. /\ loop = "keyboard" /\ button' = button /\ prevButton' = prevButton
          /\ IF HasKey THEN loop' = "read" /\ key' = ring.buffer[ring.tail]
                       ELSE loop' = "process" /\ key' = key
      BY <2>1 DEF Keyboard, devices
    <3>2. ring.buffer[ring.tail] \in Keys \cup {NULL}
      BY <1>1, RingTyped
    <3> QED BY <1>1, <1>5, <3>1, <3>2, KeysAre DEF Taken, HasKey
  <2>2. CASE Processing
    BY <1>1, <1>5, <2>2, KeysAre DEF Processing, devices, Taken
  <2>3. CASE MouseIrq
    BY <1>1, <1>5, <2>3, KeysAre DEF MouseIrq, Taken
  <2>4. CASE UNCHANGED vars
    BY <1>1, <1>5, <2>4, KeysAre DEF vars, Taken
  <2> QED BY <1>5, <2>1, <2>2, <2>3, <2>4
<1>6. ProcessNoClick \/ TaskbarClick \/ WindowClick \/ IconClick \/ WallpaperClick => Processing
  BY DEF ProcessNoClick, TaskbarClick, WindowClick, CloseClick, MinimizeClick, TitleClick,
         ContentClick, IconClick, WallpaperClick, Clicked
<1>7. Keyboard \/ Processing \/ MouseIrq \/ UNCHANGED vars => ring' = ring
  BY DEF Keyboard, Processing, MouseIrq, vars, devices
<1> QED BY <1>2, <1>3, <1>4, <1>5, <1>6, <1>7 DEF Next, MainLoop

-----------------------------------------------------------------------------
\* The boot leaves one window, minimized, and an empty ring.
LEMMA InvInitially == Init => Inv
<1> SUFFICES ASSUME Init PROVE Inv
  OBVIOUS
<1>1. WindowsKept
  <2>1. wm = Boot.wm /\ win = Boot.win /\ drag = NULL
    BY DEF Init
  <2>2. PICK w \in Addresses : Sound(wm, win, drag, <<w>>)
    BY <2>1, BootSound
  <2> QED BY <2>2, SoundIsKept
<1>2. KeysKept
  <2>1. /\ ring = [buffer |-> [i \in Places |-> NULL], head |-> 0, tail |-> 0]
        /\ button = FALSE /\ prevButton = FALSE /\ loop = "process" /\ key = NULL
    BY DEF Init, Places
  <2>2. 0 \in Places
    BY DesktopAssumption DEF Places
  <2>3. ring \in Rings /\ ring.head = ring.tail
    BY <2>1, <2>2 DEF Rings
  <2>4. Waiting(ring) = 0
    BY <2>3, RingPlaces
  <2>5. KeysIn(ring)
    BY <2>4 DEF KeysIn, TypedIn
  <2> QED BY <2>1, <2>3, <2>5, KeysAre
<1> QED BY <1>1, <1>2 DEF Inv

\* The two parts share no variable that one of them changes.
LEMMA InvStep == Inv /\ [Next]_vars => Inv'
BY WindowsStep, KeysStep DEF Inv

\* The inductive invariant holds in every state.
LEMMA InvAlways == Spec => []Inv
<1>1. Init => Inv
  BY InvInitially
<1> QED BY <1>1, InvStep, PTL DEF Spec

\* The ring's indices, the pointers and the fields of every window keep their
\* types whatever is clicked and typed (kb_head and kb_tail of keyboard.c).
THEOREM TypesAlwaysOK == Spec => []TypeOK
<1>1. Inv => TypeOK
  <2> SUFFICES ASSUME Inv PROVE TypeOK
    OBVIOUS
  <2>1. WindowsKept /\ KeysKept
    BY DEF Inv
  <2> DEFINE s == FrontToBack(wm)
  <2>2. /\ wm \in Managers /\ ToSet(s) \subseteq Addresses /\ win \in [Apps -> Pointers]
        /\ drag \in ToSet(s) \cup {NULL}
    BY <2>1, KeptPlaces DEF WindowsKept, HeldBy
  <2>3. /\ {wm.head, wm.focused, drag} \subseteq Pointers
        /\ wm.node \in [Addresses -> [next : Pointers, prev : Pointers,
                                      focused : BOOLEAN, minimized : BOOLEAN]]
    BY <2>2, NullIsNoAddress DEF Managers, Nodes
  <2>4. /\ ring.buffer \in [0 .. KeyboardSize - 1 -> Keys \cup {NULL}]
        /\ {ring.head, ring.tail} \subseteq 0 .. KeyboardSize - 1
        /\ {button, prevButton} \subseteq BOOLEAN
        /\ loop \in {"process", "keyboard", "read", "handle"}
        /\ key \in Keys \cup {NULL}
    BY <2>1 DEF KeysKept, Rings, Places
  <2> QED BY <2>2, <2>3, <2>4 DEF TypeOK
<1> QED BY <1>1, InvAlways, PTL

\* window.c's list reads the same in both directions and holds what allocator.c
\* has given out; no pointer of desktop.c or of an application outlives its
\* window; the focus is in front; the heap has no gap and no two free neighbours.
THEOREM WindowsAlwaysSound == Spec => []WindowsSound
<1>1. Inv => WindowsSound
  <2> SUFFICES ASSUME Inv PROVE WindowsSound
    OBVIOUS
  <2> DEFINE s == FrontToBack(wm)
  <2>1. Kept(wm, s) /\ FocusFirst(wm) /\ HeldBy(win, s) /\ drag \in ToSet(s) \cup {NULL}
    BY DEF Inv, WindowsKept
  <2>2. /\ Chain(wm, s) /\ Listed(wm) = ToSet(s) /\ s \in Seq(Addresses)
        /\ \A j, k \in 1 .. Len(s) : s[j] = s[k] => j = k
    BY <2>1, KeptPlaces
  <2> HIDE DEF s
  <2>3. ListSound
    <3>1. IsInjective(s)
      BY <2>2 DEF IsInjective
    <3>2. s # <<>> => Walk(wm, Last(s), "prev") = Reverse(s)
      BY <2>2, ChainIsOrder
    <3>3. Listed(wm) = Allocated(wm.heap)
      BY <2>1, <2>2 DEF Kept
    <3> QED BY <3>1, <3>2, <3>3 DEF ListSound, s
  <2>4. PointersSound
    BY <2>1, <2>2 DEF PointersSound, Kept, HeldBy
  <2>5. FocusSound
    BY <2>1, <2>2 DEF FocusSound, Kept, FocusFirst
  <2>6. HeapSound
    BY <2>1 DEF HeapSound, Kept, Tiled, Settled
  <2> QED BY <2>3, <2>4, <2>5, <2>6 DEF WindowsSound
<1> QED BY <1>1, InvAlways, PTL

\* Every step of the desktop is one that its user was promised, or one that the
\* user does not see: the order of the windows and the keys that wait.
THEOREM DesktopImplementsDeskView == Spec => ImplementsDeskView
<1>1. Init => View!Init
  <2> SUFFICES ASSUME Init PROVE View!Init
    OBVIOUS
  <2>1. PICK w \in Addresses : Sound(wm, win, drag, <<w>>)
    BY BootSound DEF Init
  <2>2. FrontToBack(wm) = <<w>>
    BY <2>1, SoundIsKept
  <2>3. <<w>> \in [{1} -> Addresses]
    OBVIOUS
  <2>4. loop = "process" /\ ring.head = 0 /\ ring.tail = 0
    BY DEF Init
  <2>5. Waiting(ring) = 0
    <3>1. KeysKept
      BY InvInitially DEF Inv
    <3> QED BY <2>4, <3>1, RingPlaces DEF KeysKept
  <2>6. Typed = <<>>
    BY <2>5 DEF Typed, Waiting
  <2> QED BY <2>2, <2>3, <2>4, <2>6 DEF View!Init
<1>2. Inv /\ [Next]_vars => [View!Next]_<<FrontToBack(wm), Typed, Taken>>
  <2> SUFFICES ASSUME Inv, [Next]_vars
               PROVE  View!Next \/ UNCHANGED <<FrontToBack(wm), Typed, Taken>>
    OBVIOUS
  <2>1. View!Rearrange \/ UNCHANGED FrontToBack(wm)
    BY WindowsStep DEF Inv
  <2>2. UNCHANGED windows => UNCHANGED FrontToBack(wm)
    BY DEF windows
  <2>3. CASE /\ \E c \in Keys : Typed' = IF Len(Typed) < KeyboardSize - 1
                                         THEN Append(Typed, c) ELSE Typed
             /\ UNCHANGED windows /\ Taken' = Taken
    BY <2>2, <2>3 DEF View!Next, View!Type, Taken
  <2>4. CASE /\ Typed # <<>> /\ Typed' = Tail(Typed) /\ Taken = NULL /\ Taken' = Head(Typed)
             /\ UNCHANGED windows
    BY <2>2, <2>4 DEF View!Next, View!Take, Taken
  <2>5. CASE Typed' = Typed /\ Taken # NULL /\ Taken' = NULL
    BY <2>1, <2>5 DEF View!Next, View!Handle, Taken
  <2>6. CASE Typed' = Typed /\ Taken' = Taken
    BY <2>1, <2>6 DEF View!Next, View!Click, Taken
  <2> QED BY <2>3, <2>4, <2>5, <2>6, KeysStep DEF Inv
<1>3. Taken = IF loop = "handle" THEN key ELSE NULL
  BY DEF Taken
<1> QED BY <1>1, <1>2, InvAlways, PTL DEF Spec, ImplementsDeskView, View!Spec, Taken
=============================================================================
