------------------------- MODULE Fat32ContentProofs -------------------------
(***************************************************************************)
(* Proof that the files hold what was written to them: a call that reports *)
(* success has done what it was asked, no call changes another file, and   *)
(* every step of the driver is a step of the store of module FileStore, or *)
(* none at all, until a free of a chain is cut short or a name could not   *)
(* be looked up.                                                           *)
(*                                                                         *)
(* The content of a file is read along its chain, so it is kept by every   *)
(* write that leaves the links, and the data, of its chain alone           *)
(* (SameFile).  That no other file's chain is met by a write is what the   *)
(* proofs of owners are for.  What is new in the invariant is what the     *)
(* running call has written so far: the cluster it will commit holds the   *)
(* buffer, the clusters linked behind the old size hold what has been      *)
(* appended, and the next one holds what comes next (Contents).            *)
(***************************************************************************)
EXTENDS Fat32Proofs, SequenceTheorems

(* Where the bytes of a file are: every byte has a place in one of its clusters, and   *)
(* none lies behind the cluster of the last one.                                       *)
LEMMA OffsetRange ==
  ASSUME NEW n \in Nat, n # 0
  PROVE  Offset(n) \in 1..ClusterSize
<1>1. /\ Hops(n) \in Nat /\ Hops(n) * ClusterSize < n /\ n <= (Hops(n) + 1) * ClusterSize
  BY HopsBounds
<1>2. /\ ClusterSize \in Nat /\ Hops(n) * ClusterSize \in Nat
      /\ (Hops(n) + 1) * ClusterSize = Hops(n) * ClusterSize + ClusterSize
  BY <1>1, OneMore
<1> QED BY <1>1, <1>2 DEF Offset

(* A byte lies no further along the chain than the last one. *)
LEMMA HopsMono ==
  ASSUME NEW n \in Nat, NEW p \in 1..n
  PROVE  Hops(p) \in 0..Hops(n)
<1>1. /\ p \in Nat /\ Hops(p) \in Nat /\ Hops(n) \in Nat
      /\ Hops(p) * ClusterSize < p /\ n <= (Hops(n) + 1) * ClusterSize
  BY HopsBounds
<1> DEFINE b == ClusterSize
           x == Hops(p)
           y == Hops(n)
<1>2. b \in Nat /\ b > 0
  BY SizesAssumption
<1> HIDE DEF b, x, y
<1>3. x \in Nat /\ y \in Nat /\ x * b < (y + 1) * b
  <2>1. x \in Nat /\ y \in Nat /\ x * b < p /\ n <= (y + 1) * b
    BY <1>1 DEF b, x, y
  <2>2. x * b \in Nat /\ (y + 1) * b \in Nat
    BY <1>2, <2>1
  <2> QED BY <2>1, <2>2
<1>4. x <= y
  <2>1. SUFFICES ASSUME x >= y + 1 PROVE FALSE
    BY <1>3
  <2>2. PICK d \in Nat : x = y + 1 + d
    <3>1. x - (y + 1) \in Nat
      BY <1>3, <2>1
    <3> QED BY <1>3, <3>1
  <2>3. x * b = (y + 1) * b + d * b /\ d * b >= 0
    BY <1>2, <1>3, <2>2
  <2>4. (y + 1) * b \in Nat
    BY <1>2, <1>3
  <2> QED BY <1>2, <1>3, <2>3, <2>4
<1> QED BY <1>3, <1>4 DEF x, y

(* In a file of one cluster a byte is where its number says. *)
LEMMA FirstCluster ==
  ASSUME NEW n \in Nat, Hops(n) = 0, NEW i \in 1..n
  PROVE  Hops(i) = 0 /\ Offset(i) = i /\ i \in 1..ClusterSize
<1>1. Hops(i) = 0
  BY HopsMono
<1>2. Offset(i) = i - 0 * ClusterSize /\ Offset(i) \in 1..ClusterSize
  BY <1>1, OffsetRange DEF Offset
<1>3. 0 * ClusterSize = 0
  BY SizesAssumption
<1> QED BY <1>1, <1>2, <1>3

-----------------------------------------------------------------------------
(* What is read, of a file that has a chain and of any other. *)
View(s) == IF Dangling(s) THEN Torn ELSE ContentOf(s)

(* The chain of a file as next_cluster follows it, and what is read along it.  These   *)
(* facts are stated for every state, and used of the state before and after a step.    *)
Walks == \A f, c : \A n \in Nat : Linked(f, n, c) => \A k \in 0..n : Walk(f, k) = c[k]

LEMMA WalksNow == Walks
BY LinkedWalk DEF Walks

LEMMA WalksThen == Walks'
BY WalksNow, PTL

ReadsChain ==
  TypeOK => \A s \in Slots, n \in Nat : \A c :
    Linked(dir[s].first, n, c) /\ Hops(dir[s].size) <= n
      => ContentOf(s) = [i \in 1..dir[s].size |-> data[c[Hops(i)]][Offset(i)]]

LEMMA ReadsChainNow == ReadsChain
<1> SUFFICES ASSUME TypeOK, NEW s \in Slots, NEW n \in Nat, NEW c,
                    Linked(dir[s].first, n, c), Hops(dir[s].size) <= n
             PROVE  ContentOf(s) = [i \in 1..dir[s].size |-> data[c[Hops(i)]][Offset(i)]]
  BY DEF ReadsChain
<1>1. dir[s].size \in Nat
  BY DEF TypeOK, Entries
<1>2. ASSUME NEW i \in 1..dir[s].size
      PROVE  Walk(dir[s].first, Hops(i)) = c[Hops(i)] /\ c[Hops(i)] \in Files
  <2>1. Hops(i) \in 0..n
    <3>1. Hops(i) \in 0..Hops(dir[s].size)
      BY <1>1, HopsMono
    <3>2. Hops(dir[s].size) \in Nat
      BY <1>1, HopsType
    <3> QED BY <3>1, <3>2
  <2> QED BY <2>1, WalksNow DEF Walks, Linked, Links
<1> QED BY <1>2 DEF ContentOf

LEMMA ReadsChainThen == ReadsChain'
BY ReadsChainNow, PTL

(* A file without clusters is empty. *)
ReadsNothing == \A s \in Slots : dir[s].size = 0 => ContentOf(s) = <<>>

LEMMA ReadsNothingNow == ReadsNothing
<1> SUFFICES ASSUME NEW s \in Slots, dir[s].size = 0 PROVE ContentOf(s) = <<>>
  BY DEF ReadsNothing
<1>1. 1..dir[s].size = {}
  OBVIOUS
<1> QED BY <1>1 DEF ContentOf

LEMMA ReadsNothingThen == ReadsNothing'
BY ReadsNothingNow, PTL

(* The content of a file that is not being freed is a sequence of bytes as long as its *)
(* size, so it is neither of the two that stand for no content.                        *)
Contained(s) == Live(s) /\ ~Dangling(s)
Readings == TypeOK /\ FilesWhole =>
              \A s \in Slots : Contained(s) =>
                 /\ View(s) \in Seq(Nat) /\ Len(View(s)) = dir[s].size
                 /\ View(s) = ContentOf(s) /\ View(s) # Torn /\ View(s) # Absent

(* No buffer makes the contents that stand for none. *)
LEMMA NoContents == Torn # Absent /\ Torn \notin Seq(Nat) /\ Absent \notin Seq(Nat)
                    /\ <<>> # Torn /\ <<>> # Absent
<1>1. Torn[1] = -1 /\ Absent[1] = -2 /\ Len(Torn) = 1 /\ Len(Absent) = 1 /\ Len(<<>>) = 0
  BY DEF Torn, Absent
<1>2. ASSUME NEW q \in Seq(Nat), Len(q) = 1 PROVE q[1] \in Nat
  <2>1. 1 \in 1..Len(q)
    BY <1>2
  <2> QED BY <2>1, ElementOfSeq
<1>3. -1 # -2 /\ -1 \notin Nat /\ -2 \notin Nat
  OBVIOUS
<1> QED BY <1>1, <1>2, <1>3

LEMMA ReadingsNow == Readings
<1> SUFFICES ASSUME TypeOK, FilesWhole, NEW s \in Slots, Contained(s)
             PROVE  /\ View(s) \in Seq(Nat) /\ Len(View(s)) = dir[s].size
                    /\ View(s) = ContentOf(s) /\ View(s) # Torn /\ View(s) # Absent
  BY DEF Readings
<1>1. View(s) = ContentOf(s)
  BY DEF Contained, View
<1>2. dir[s].size \in Nat
  BY DEF TypeOK, Entries
<1>3. CASE Empty(s)
  <2>1. ContentOf(s) = <<>> /\ dir[s].size = 0
    BY <1>3, ReadsNothingNow DEF Empty, ReadsNothing
  <2>2. <<>> \in Seq(Nat) /\ Len(<<>>) = 0
    OBVIOUS
  <2> QED BY <1>1, <2>1, <2>2, NoContents
<1>4. CASE Whole(s)
  <2> DEFINE n == Hops(dir[s].size)
  <2>1. n \in Nat
    BY <1>2, HopsType
  <2>2. PICK c : Linked(dir[s].first, n, c)
    BY <1>4 DEF Whole
  <2>3. ContentOf(s) = [i \in 1..dir[s].size |-> data[c[Hops(i)]][Offset(i)]]
    BY <2>1, <2>2, ReadsChainNow DEF ReadsChain
  <2>4. ASSUME NEW i \in 1..dir[s].size PROVE data[c[Hops(i)]][Offset(i)] \in Nat
    <3>1. Hops(i) \in 0..n /\ Offset(i) \in 1..ClusterSize
      BY <1>2, HopsMono, OffsetRange
    <3>2. c[Hops(i)] \in Files
      BY <2>2, <3>1 DEF Linked, Links
    <3> QED BY <3>1, <3>2 DEF TypeOK
  <2>5. ContentOf(s) \in [1..dir[s].size -> Nat]
    BY <2>3, <2>4
  <2>6. ContentOf(s) \in Seq(Nat) /\ Len(ContentOf(s)) = dir[s].size
    BY <1>2, <2>5
  <2> QED BY <1>1, <2>6, NoContents
<1> QED BY <1>3, <1>4 DEF FilesWhole, Contained

LEMMA ReadingsThen == Readings'
BY ReadingsNow, PTL

-----------------------------------------------------------------------------
(* The store, file by file: what a name stands for is what is read of its slot. *)
LooksUp ==
  UniqueNames => \A n \in Names :
    /\ \A s \in Named(n) : Named(n) = {s} /\ n \in Present /\ Store[n] = View(s)
    /\ Named(n) = {} => n \notin Present /\ Store[n] = Absent

LEMMA LooksUpNow == LooksUp
<1> SUFFICES ASSUME UniqueNames, NEW n \in Names
             PROVE  /\ \A s \in Named(n) : Named(n) = {s} /\ n \in Present /\ Store[n] = View(s)
                    /\ Named(n) = {} => n \notin Present /\ Store[n] = Absent
  BY DEF LooksUp
<1>1. ASSUME NEW s \in Named(n) PROVE Named(n) = {s} /\ n \in Present /\ Store[n] = View(s)
  <2>1. s \in Slots /\ Named(n) \subseteq Slots
    BY DEF Named
  <2>2. Named(n) = {s}
    BY <2>1 DEF UniqueNames
  <2>3. n \in Present
    BY DEF Present
  <2>4. Minimum(Named(n)) = s
    <3>1. Named(n) \in SUBSET Nat
      BY <2>1 DEF Slots
    <3>2. Minimum(Named(n)) \in Named(n)
      BY <3>1, MinimumInSet
    <3> QED BY <2>2, <3>2
  <2>5. Content(n) = View(s)
    BY <2>4 DEF Content, View
  <2> QED BY <2>2, <2>3, <2>5 DEF Store
<1>2. ASSUME Named(n) = {} PROVE n \notin Present /\ Store[n] = Absent
  BY <1>2 DEF Present, Store
<1> QED BY <1>1, <1>2

LEMMA LooksUpThen == LooksUp'
BY LooksUpNow, PTL

(* A name is in the directory when the store has a file for it. *)
Stored ==
  UniqueNames /\ TypeOK /\ FilesWhole => \A n \in Names :
    /\ n \in Present <=> Store[n] # Absent
    /\ n \in Present => Content(n) = Store[n]

LEMMA StoredNow == Stored
<1> SUFFICES ASSUME UniqueNames, TypeOK, FilesWhole, NEW n \in Names
             PROVE  /\ n \in Present <=> Store[n] # Absent
                    /\ n \in Present => Content(n) = Store[n]
  BY DEF Stored
<1>1. CASE Named(n) = {}
  BY <1>1, LooksUpNow DEF LooksUp
<1>2. CASE Named(n) # {}
  <2>1. PICK s : s \in Named(n)
    BY <1>2
  <2>2. n \in Present /\ Store[n] = View(s)
    BY <2>1, LooksUpNow DEF LooksUp
  <2>3. s \in Slots /\ Live(s)
    BY <2>1 DEF Named
  <2>4. View(s) # Absent
    BY <2>3, ReadingsNow, NoContents DEF Readings, Contained, View
  <2>5. Content(n) = Store[n]
    BY <2>2 DEF Store
  <2> QED BY <2>2, <2>4, <2>5
<1> QED BY <1>1, <1>2

LEMMA StoredThen == Stored'
BY StoredNow, PTL

(* A slot in which a step changes nothing that is read. *)
Same(s) == /\ Live(s)' <=> Live(s)
           /\ Live(s) => dir'[s].name = dir[s].name /\ View(s)' = View(s)

(* A name stands for the same content if no slot but h changes, and h has another name. *)
LEMMA StoreKeeps ==
  ASSUME UniqueNames, UniqueNames', NEW h, NEW n \in Names,
         \A s \in Slots \ {h} : Same(s),
         h \in Slots /\ Live(h) => dir[h].name # n,
         h \in Slots /\ Live(h)' => dir'[h].name # n
  PROVE  Store'[n] = Store[n]
<1>1. Named(n)' = Named(n)
  BY DEF Named, Same
<1>2. CASE Named(n) = {}
  <2>1. Store[n] = Absent
    BY <1>2, LooksUpNow DEF LooksUp
  <2>2. Store'[n] = Absent
    BY <1>1, <1>2, LooksUpThen DEF LooksUp, Absent
  <2> QED BY <2>1, <2>2
<1>3. CASE Named(n) # {}
  <2>1. PICK s : s \in Named(n)
    BY <1>3
  <2>2. Store[n] = View(s)
    BY <2>1, LooksUpNow DEF LooksUp
  <2>3. Store'[n] = View(s)'
    BY <1>1, <2>1, LooksUpThen DEF LooksUp
  <2>4. s \in Slots \ {h} /\ Live(s)
    BY <2>1 DEF Named
  <2> QED BY <2>2, <2>3, <2>4 DEF Same
<1> QED BY <1>2, <1>3

(* Nothing that is read changes. *)
LEMMA StoreSame ==
  ASSUME UniqueNames, UniqueNames', \A s \in Slots : Same(s)
  PROVE  Store' = Store
<1>1. 0 \notin Slots
  BY DEF Slots
<1>2. \A n \in Names : Store'[n] = Store[n]
  BY <1>1, StoreKeeps
<1> QED BY <1>2 DEF Store

(* What the name n stands for is replaced by v. *)
Becomes(n, v) == Store' = [Store EXCEPT ![n] = v]

(* Only the slot h changes, and keeps its name. *)
LEMMA StoreBecomes ==
  ASSUME UniqueNames, UniqueNames', NEW h \in Slots, NEW n \in Names,
         \A s \in Slots \ {h} : Same(s),
         Live(h), dir[h].name = n, Live(h)', dir'[h].name = n, NEW v, View(h)' = v
  PROVE  Store[n] = View(h) /\ Becomes(n, v)
<1>1. Store[n] = View(h)
  <2>1. h \in Named(n)
    BY DEF Named
  <2> QED BY <2>1, LooksUpNow DEF LooksUp
<1>2. Store'[n] = v
  <2>1. h \in Named(n)'
    BY DEF Named
  <2> QED BY <2>1, LooksUpThen DEF LooksUp
<1>3. \A m \in Names : m # n => Store'[m] = Store[m]
  BY StoreKeeps
<1>4. Store' = [m \in Names |-> Store'[m]] /\ Store = [m \in Names |-> Store[m]]
  BY DEF Store
<1> QED BY <1>1, <1>2, <1>3, <1>4 DEF Becomes

(* A file appears, or disappears, in the slot h. *)
LEMMA StoreGains ==
  ASSUME UniqueNames, UniqueNames', NEW h \in Slots, NEW n \in Names,
         \A s \in Slots \ {h} : Same(s),
         ~Live(h), Named(n) = {}, Live(h)', dir'[h].name = n, NEW v, View(h)' = v
  PROVE  Store[n] = Absent /\ Becomes(n, v)
<1>1. Store[n] = Absent
  BY LooksUpNow DEF LooksUp
<1>2. Store'[n] = v
  <2>1. h \in Named(n)'
    BY DEF Named
  <2> QED BY <2>1, LooksUpThen DEF LooksUp
<1>3. \A m \in Names : m # n => Store'[m] = Store[m]
  BY StoreKeeps
<1>4. Store' = [m \in Names |-> Store'[m]] /\ Store = [m \in Names |-> Store[m]]
  BY DEF Store
<1> QED BY <1>1, <1>2, <1>3, <1>4 DEF Becomes

(* The file in the slot h disappears. *)
LEMMA StoreLoses ==
  ASSUME UniqueNames, UniqueNames', NEW h \in Slots, NEW n \in Names,
         \A s \in Slots \ {h} : Same(s),
         Live(h), dir[h].name = n, ~Live(h)'
  PROVE  Store[n] = View(h) /\ Becomes(n, Absent)
<1>1. h \in Named(n)
  BY DEF Named
<1>2. Store[n] = View(h) /\ Named(n) = {h}
  BY <1>1, LooksUpNow DEF LooksUp
<1>3. Named(n)' = {}
  BY <1>2 DEF Named, Same
<1>4. Store'[n] = Absent
  BY <1>3, LooksUpThen DEF LooksUp, Absent
<1>5. \A m \in Names : m # n => Store'[m] = Store[m]
  BY StoreKeeps
<1>6. Store' = [m \in Names |-> Store'[m]] /\ Store = [m \in Names |-> Store[m]]
  BY DEF Store
<1> QED BY <1>2, <1>4, <1>5, <1>6 DEF Becomes

(* The file in the slot h is given another name, one that stood for none. *)
Moves(n, m) == Store' = [Store EXCEPT ![m] = Store[n], ![n] = Absent]

LEMMA StoreMoves ==
  ASSUME UniqueNames, UniqueNames', NEW h \in Slots, NEW n \in Names, NEW m \in Names,
         \A s \in Slots \ {h} : Same(s),
         Live(h), dir[h].name = n, Named(m) = {}, Live(h)', dir'[h].name = m,
         View(h)' = View(h)
  PROVE  m # n /\ Store[m] = Absent /\ Moves(n, m)
<1>1. h \in Named(n) /\ m # n
  BY DEF Named
<1>2. Store[n] = View(h) /\ Named(n) = {h} /\ Store[m] = Absent
  BY <1>1, LooksUpNow DEF LooksUp
<1>3. Named(n)' = {}
  BY <1>1, <1>2 DEF Named, Same
<1>4. Store'[n] = Absent
  BY <1>3, LooksUpThen DEF LooksUp, Absent
<1>5. Store'[m] = View(h)
  <2>1. h \in Named(m)'
    BY DEF Named
  <2> QED BY <2>1, LooksUpThen DEF LooksUp
<1>6. \A x \in Names : x # n /\ x # m => Store'[x] = Store[x]
  BY StoreKeeps
<1>7. Store' = [x \in Names |-> Store'[x]] /\ Store = [x \in Names |-> Store[x]]
  BY DEF Store
<1> QED BY <1>1, <1>2, <1>4, <1>5, <1>6, <1>7 DEF Moves

-----------------------------------------------------------------------------
(* What is read of a file stays when its entry does, and no link that counts and no    *)
(* data is written on its chain.                                                       *)
OffChain(x, s) == \A c : Linked(dir[s].first, Hops(dir[s].size), c)
                            => \A i \in 0..Hops(dir[s].size) : c[i] # x

LEMMA SameView ==
  ASSUME TypeOK, TypeOK', FilesWhole, NEW s \in Slots, Live(s),
         dir'[s].first = dir[s].first, dir'[s].size = dir[s].size, Dangling(s)' <=> Dangling(s),
         \A x \in Files : fat'[1][x] # fat[1][x]
                             => OffChain(x, s) \/ (fat[1][x] \notin Files /\ fat'[1][x] # Free),
         \A x \in Files : data'[x] # data[x] => OffChain(x, s)
  PROVE  View(s)' = View(s)
<1> DEFINE f == dir[s].first
           size == dir[s].size
           n == Hops(size)
<1>2. CASE Dangling(s)
  BY <1>2 DEF View, Torn
<1>3. CASE ~Dangling(s)
  <2>1. View(s) = ContentOf(s) /\ View(s)' = ContentOf(s)'
    BY <1>3 DEF View
  <2>2. CASE Empty(s)
    <3>1. ContentOf(s) = <<>>
      BY <2>2, ReadsNothingNow DEF ReadsNothing, Empty
    <3>2. ContentOf(s)' = <<>>
      BY <2>2, ReadsNothingThen DEF ReadsNothing, Empty
    <3> QED BY <2>1, <3>1, <3>2
  <2>3. CASE Whole(s)
    <3>1. size \in Nat /\ n \in Nat
      <4>1. size \in Nat
        BY DEF TypeOK, Entries
      <4> QED BY <4>1, HopsType
    <3>2. PICK c : Linked(f, n, c)
      BY <2>3 DEF Whole
    <3>3. c \in [0..n -> Files] /\ c[0] = f
      BY <3>2 DEF Linked, Links
    <3>4. ASSUME NEW k \in 0..n
          PROVE  /\ fat'[1][c[k]] # Free
                 /\ fat[1][c[k]] \in Files => fat'[1][c[k]] = fat[1][c[k]]
                 /\ data'[c[k]] = data[c[k]]
      <4>1. c[k] \in Files /\ ~OffChain(c[k], s) /\ fat[1][c[k]] # Free
        BY <3>2, <3>3 DEF OffChain, Linked, Links
      <4> QED BY <4>1
    <3>5. ASSUME NEW k \in 0..n - 1 PROVE fat'[1][c[k]] = c[k + 1]
      <4>1. k \in 0..n /\ k + 1 \in 0..n
        BY <3>1
      <4>2. fat[1][c[k]] = c[k + 1] /\ c[k + 1] \in Files
        BY <3>2, <3>3, <4>1 DEF Linked, Links
      <4> QED BY <3>4, <4>1, <4>2
    <3>6. Links(fat'[1], f, n, c)
      BY <3>3, <3>4, <3>5 DEF Links
    <3>7. ContentOf(s) = [i \in 1..size |-> data[c[Hops(i)]][Offset(i)]]
      BY <3>1, <3>2, ReadsChainNow DEF ReadsChain
    <3>8. ContentOf(s)' = [i \in 1..size |-> data'[c[Hops(i)]][Offset(i)]]
      BY <3>1, <3>6, ReadsChainThen DEF ReadsChain, Linked
    <3>9. \A i \in 1..size : data'[c[Hops(i)]] = data[c[Hops(i)]]
      BY <3>1, <3>4, HopsMono
    <3> QED BY <2>1, <3>7, <3>8, <3>9
  <2> QED BY <1>3, <2>2, <2>3 DEF FilesWhole
<1> QED BY <1>2, <1>3

(* The same of a slot whose entry is left alone. *)
LEMMA SameFile ==
  ASSUME TypeOK, TypeOK', FilesWhole, NEW s \in Slots, dir'[s] = dir[s], Live(s)' <=> Live(s),
         Live(s) => (Dangling(s)' <=> Dangling(s)),
         \A x \in Files : fat'[1][x] # fat[1][x]
                             => OffChain(x, s) \/ (fat[1][x] \notin Files /\ fat'[1][x] # Free),
         \A x \in Files : data'[x] # data[x] => OffChain(x, s)
  PROVE  Same(s)
<1>1. SUFFICES ASSUME Live(s) PROVE View(s)' = View(s)
  BY DEF Same
<1> QED BY <1>1, SameView

(* Steps that leave the disk alone. *)
LEMMA SameDisk ==
  ASSUME TypeOK, TypeOK', FilesWhole, fat'[1] = fat[1], dir' = dir, data' = data
  PROVE  \A s \in Slots : Same(s)
<1> SUFFICES ASSUME NEW s \in Slots PROVE Same(s)
  OBVIOUS
<1>1. dir'[s] = dir[s] /\ (Live(s)' <=> Live(s)) /\ (Dangling(s)' <=> Dangling(s))
  BY DEF Live, Dangling
<1> QED BY <1>1, SameFile

(* A free cluster is on no chain; one that only the running call's file may refer to   *)
(* is on no other's.                                                                   *)
LEMMA FreeOff ==
  ASSUME NEW x, fat[1][x] = Free, NEW s
  PROVE  OffChain(x, s)
BY DEF OffChain, Linked, Links

(* What only the file of the running call refers to is on no other chain. *)
LEMMA OwnOff ==
  ASSUME TypeOK, NEW x \in Files, OnlyOwn(x), NEW s \in Slots, Live(s), s # op.slot
  PROVE  OffChain(x, s)
<1> DEFINE f == dir[s].first
           n == Hops(dir[s].size)
<1> SUFFICES ASSUME NEW c, Linked(f, n, c), NEW i \in 0..n, c[i] = x PROVE FALSE
  BY DEF OffChain
<1>1. n \in Nat
  <2>1. dir[s].size \in Nat
    BY DEF TypeOK, Entries
  <2> QED BY <2>1, HopsType
<1> HIDE DEF n
<1>2. CASE i = 0
  <2>1. f = x /\ DirRef(s)
    BY <1>2, Sizes DEF Linked, Links, DirRef
  <2> QED BY <2>1 DEF OnlyOwn
<1>3. CASE i # 0
  <2>1. i - 1 \in 0..n - 1 /\ i - 1 \in 0..n /\ (i - 1) + 1 = i
    BY <1>1, <1>3
  <2>2. c[i - 1] \in Files /\ fat[1][c[i - 1]] = x
    BY <2>1 DEF Linked, Links
  <2> QED BY <2>2 DEF OnlyOwn, FatRef
<1> QED BY <1>2, <1>3

(* Two chains do not meet: followed back from where they would, one would begin in the *)
(* middle of the other, or both with the same cluster.                                 *)
LEMMA ChainsApart ==
  ASSUME Apart, NEW s \in Slots, NEW t \in Slots, Live(s), Live(t), s # t,
         NEW n \in Nat, NEW c, Linked(dir[s].first, n, c),
         NEW m \in Nat, NEW d, Linked(dir[t].first, m, d)
  PROVE  c[n] # d[m]
<1> SUFFICES ASSUME c[n] = d[m] PROVE FALSE
  OBVIOUS
<1> DEFINE P == {i \in Nat : i <= n /\ i <= m => c[n - i] = d[m - i]}
<1>1. 0 \in P
  OBVIOUS
<1>2. ASSUME NEW i \in P PROVE i + 1 \in P
  <2>1. SUFFICES ASSUME i + 1 <= n, i + 1 <= m PROVE c[n - (i + 1)] = d[m - (i + 1)]
    OBVIOUS
  <2> DEFINE a == n - (i + 1)
             b == m - (i + 1)
  <2>2. /\ a \in 0..n - 1 /\ b \in 0..m - 1 /\ a \in 0..n /\ b \in 0..m
        /\ a + 1 = n - i /\ b + 1 = m - i /\ a + 1 \in 0..n /\ b + 1 \in 0..m
    BY <2>1
  <2>3. c[n - i] = d[m - i]
    BY <2>1
  <2> HIDE DEF a, b
  <2>4. /\ c[a] \in Files /\ d[b] \in Files /\ fat[1][c[a]] = c[a + 1] /\ fat[1][d[b]] = d[b + 1]
        /\ c[a + 1] \in Files /\ d[b + 1] \in Files
    BY <2>2 DEF Linked, Links
  <2>5. c[a] = d[b]
    BY <2>2, <2>3, <2>4 DEF Apart, FatRef
  <2> QED BY <2>5 DEF a, b
<1>3. P = Nat
  <2>1. P \in SUBSET Nat
    OBVIOUS
  <2> HIDE DEF P
  <2> QED BY <1>1, <1>2, <2>1, NatBySteps
<1>4. \A i \in Nat : i <= n /\ i <= m => c[n - i] = d[m - i]
  BY <1>3
<1> HIDE DEF P
<1>5. DirRef(s) /\ DirRef(t) /\ c[0] = dir[s].first /\ d[0] = dir[t].first
  BY Sizes DEF Linked, Links, DirRef
<1>6. CASE n = m
  <2>1. c[n - n] = d[m - n] /\ n - n = 0 /\ m - n = 0
    BY <1>4, <1>6
  <2> QED BY <1>5, <2>1 DEF Apart
<1>7. CASE n < m
  <2>1. c[n - n] = d[m - n] /\ n - n = 0 /\ m - n - 1 \in 0..m - 1 /\ m - n - 1 \in 0..m
        /\ (m - n - 1) + 1 = m - n /\ m - n \in 0..m
    BY <1>4, <1>7
  <2> DEFINE b == m - n - 1
  <2>2. b \in 0..m - 1 /\ b \in 0..m /\ b + 1 \in 0..m /\ d[b + 1] = dir[s].first
    BY <1>5, <2>1
  <2> HIDE DEF b
  <2>3. d[b] \in Files /\ fat[1][d[b]] = d[b + 1] /\ d[b + 1] \in Files
    BY <2>2 DEF Linked, Links
  <2> QED BY <1>5, <2>2, <2>3 DEF Apart, FatRef
<1>8. CASE m < n
  <2>1. c[n - m] = d[m - m] /\ m - m = 0 /\ n - m - 1 \in 0..n - 1 /\ n - m - 1 \in 0..n
        /\ (n - m - 1) + 1 = n - m /\ n - m \in 0..n
    BY <1>4, <1>8
  <2> DEFINE b == n - m - 1
  <2>2. b \in 0..n - 1 /\ b \in 0..n /\ b + 1 \in 0..n /\ c[b + 1] = dir[t].first
    BY <1>5, <2>1
  <2> HIDE DEF b
  <2>3. c[b] \in Files /\ fat[1][c[b]] = c[b + 1] /\ c[b + 1] \in Files
    BY <2>2 DEF Linked, Links
  <2> QED BY <1>5, <2>2, <2>3 DEF Apart, FatRef
<1> QED BY <1>6, <1>7, <1>8

(* The beginning of a chain. *)
LEMMA LinksPart ==
  ASSUME NEW t, NEW f, NEW n \in Nat, NEW c, Links(t, f, n, c), NEW m \in 0..n
  PROVE  \E d : Links(t, f, m, d) /\ d[m] = c[m]
<1> DEFINE d == [k \in 0..m |-> c[k]]
<1>1. /\ \A k \in 0..m : k \in 0..n
      /\ \A k \in 0..m - 1 : k \in 0..m /\ k + 1 \in 0..m /\ k \in 0..n - 1
      /\ 0 \in 0..m /\ m \in 0..m
  OBVIOUS
<1>2. d \in [0..m -> Files] /\ \A k \in 0..m : d[k] = c[k]
  BY <1>1 DEF Links
<1> HIDE DEF d
<1>3. d[0] = f /\ d[m] = c[m]
  BY <1>1, <1>2 DEF Links
<1>4. \A k \in 0..m : t[d[k]] # Free
  BY <1>1, <1>2 DEF Links
<1>5. \A k \in 0..m - 1 : t[d[k]] = d[k + 1]
  BY <1>1, <1>2 DEF Links
<1>6. Links(t, f, m, d)
  BY <1>2, <1>3, <1>4, <1>5 DEF Links
<1> QED BY <1>3, <1>6

(* The cluster an append stands on is on no other file's chain. *)
LEMMA TailOff ==
  ASSUME TypeOK, Apart, NEW s \in Slots, NEW t \in Slots, Live(s), Live(t), s # t,
         NEW n \in Nat, NEW c, Linked(dir[s].first, n, c)
  PROVE  OffChain(c[n], t)
<1> DEFINE f == dir[t].first
           h == Hops(dir[t].size)
<1> SUFFICES ASSUME NEW d, Linked(f, h, d), NEW i \in 0..h, d[i] = c[n] PROVE FALSE
  BY DEF OffChain
<1>1. h \in Nat
  <2>1. dir[t].size \in Nat
    BY DEF TypeOK, Entries
  <2> QED BY <2>1, HopsType
<1> HIDE DEF h
<1>2. PICK e : Linked(f, i, e) /\ e[i] = d[i]
  BY <1>1, LinksPart DEF Linked
<1> QED BY <1>2, ChainsApart

-----------------------------------------------------------------------------
(* A call is about the same name from its first step to its last. *)
SameName(o) == o.todo = <<>> \/ o.name = op.name

LEMMA CallNameIdle == \A b \in BOOLEAN : SameName(Idle(b))
BY IdleOK DEF SameName

LEMMA CallNameEnds == ASSUME NEW o, NEW h, Ends(o, h), SameName(o) PROVE op'.todo = <<>> \/ op'.name = op.name
BY CallNameIdle DEF Ends, SameName

LEMMA CallNameAdvance ==
  ASSUME TypeInv, NEW o \in Calls, o.name = op.name
  PROVE  Tail(o.todo) \in Seq(StepNames) => SameName(Advance(o)) /\ Advance(o) \in Calls
<1>1. CASE Len(o.todo) = 1
  BY <1>1, CallNameIdle, IdleOK DEF Advance, CallOK
<1>2. CASE Len(o.todo) # 1
  BY <1>2 DEF Advance, SameName, Calls
<1> QED BY <1>1, <1>2

LEMMA CallNameWriteFat ==
  ASSUME NEW c, NEW v, NEW between, NEW after, WriteFat(c, v, between, after),
         \A k : SameName([between EXCEPT !.copy = k]) /\ SameName([after EXCEPT !.copy = k])
  PROVE  op'.todo = <<>> \/ op'.name = op.name
<1> DEFINE again == [between EXCEPT !.copy = @ + 1]
           next == [after EXCEPT !.copy = 1]
<1>1. SameName(again) /\ SameName(next)
  OBVIOUS
<1>2. Ends(again, {}) \/ Ends(next, {})
  BY DEF WriteFat
<1> HIDE DEF again, next
<1> QED BY <1>1, <1>2, CallNameEnds

(* No step changes the name. *)
LEMMA CallNameKept ==
  ASSUME TypeInv, Step
  PROVE  On(op', OnSlot) => op'.name = op.name
<1> SUFFICES \/ op'.todo = <<>> \/ op'.name = op.name \/ op'.todo = <<"overrun">>
  BY DEF On, OnSlot, Working
<1>1. op \in Calls /\ Ordered(op.todo)
  BY DEF TypeInv, CallOK
<1>2. op.todo # <<>> => Tail(op.todo) \in Seq(StepNames) /\ Head(op.todo) \in StepNames
  BY <1>1, OrderedTail DEF Ordered, Chained
<1>3. SameName(op)
  BY DEF SameName
<1>4. op.todo # <<>> => SameName(Advance(op)) /\ Advance(op) \in Calls
  BY <1>1, <1>2, CallNameAdvance
<1>5. \A steps : SameName(Instead(steps)) /\ \A c : SameName([Instead(steps) EXCEPT !.cluster = c])
  BY <1>1 DEF SameName, Instead, Calls
<1>6. CASE CreateRefused \/ RenameRefused \/ GrowRefused
  BY <1>6, IdleOK DEF CreateRefused, RenameRefused, GrowRefused, Refuse
<1>7. CASE RenameEntry \/ Clear \/ Erase \/ Commit \/ Resize
  <2>1. On(op, OnSlot)
    BY <1>7 DEF RenameEntry, Clear, Erase, Commit, Resize, At, On, OnSlot, Working, StepNames
  <2>2. PICK h : Ends(Advance(op), h)
    BY <1>7 DEF RenameEntry, Clear, Erase, Commit, Resize, WriteDir
  <2>3. op'.todo = <<>> \/ op'.name = op.name
    BY <1>4, <2>1, <2>2, CallNameEnds DEF On
  <2> QED BY <2>1, <2>3
<1>8. CASE FreeDone \/ GrowDone
  <2>1. On(op, OnSlot)
    BY <1>8 DEF FreeDone, GrowDone, At, On, OnSlot, Working, StepNames
  <2>2. op' = Advance(op)
    BY <1>8 DEF FreeDone, GrowDone
  <2> QED BY <1>4, <2>1, <2>2 DEF On, SameName
<1>9. CASE Choose \/ Extend \/ WalkToEnd
  <2>1. On(op, OnSlot)
    BY <1>9 DEF Choose, Extend, WalkToEnd, At, On, OnSlot, Working, StepNames
  <2>2. SameName(op')
    <3>1. CASE Choose
      BY <1>5, <3>1, CallNameIdle DEF Choose
    <3>2. CASE Extend
      BY <1>5, <3>2, CallNameIdle DEF Extend
    <3>3. CASE WalkToEnd
      BY <1>5, <3>3, CallNameIdle DEF WalkToEnd
    <3> QED BY <1>9, <3>1, <3>2, <3>3
  <2> QED BY <2>1, <2>2 DEF SameName
<1>10. CASE Fill \/ Patch \/ Grow
  <2>1. On(op, OnSlot)
    BY <1>10 DEF Fill, Patch, Grow, At, On, OnSlot, Working, StepNames
  <2>2. PICK o, c, units : WriteData(c, units, o) /\ SameName(o)
    <3>1. CASE Fill
      BY <1>4, <2>1, <3>1 DEF Fill, On
    <3>2. CASE Patch
      <4> DEFINE n == Smaller(ClusterSize - Offset(dir[op.slot].size), Len(op.buf))
      <4>1. PICK units : WriteData(op.cluster, units, [Advance(op) EXCEPT !.done = n])
        BY <3>2 DEF Patch
      <4>2. SameName([Advance(op) EXCEPT !.done = n])
        BY <1>4, <2>1 DEF On, SameName, Calls
      <4> QED BY <4>1, <4>2
    <3>3. CASE Grow
      <4> DEFINE o == [op EXCEPT !.todo = <<"mark_new", "link">> \o @, !.next = Minimum(FreeClusters)]
      <4>1. PICK c, units : WriteData(c, units, o)
        BY <3>3 DEF Grow
      <4>2. SameName(o)
        BY <1>1 DEF SameName, Calls
      <4> QED BY <4>1, <4>2
    <3> QED BY <1>10, <3>1, <3>2, <3>3
  <2>3. CASE c \in Files
    <3>1. Ends(o, {})
      BY <2>2, <2>3 DEF WriteData
    <3> QED BY <2>1, <2>2, <3>1, CallNameEnds
  <2>4. CASE c \notin Files
    BY <2>1, <2>2, <2>4, StoppedOK DEF WriteData
  <2> QED BY <2>3, <2>4
<1>11. CASE FreeCluster \/ Mark \/ MarkNew \/ Link
  <2>1. On(op, OnSlot)
    BY <1>11 DEF FreeCluster, Mark, MarkNew, Link, At, On, OnSlot, Working, StepNames
  <2>2. SameName(Advance(op)) /\ Advance(op) \in Calls
    BY <1>4, <2>1 DEF On
  <2>3. PICK between, after, c, v :
          /\ WriteFat(c, v, between, after)
          /\ \A k : SameName([between EXCEPT !.copy = k]) /\ SameName([after EXCEPT !.copy = k])
    <3> DEFINE o == Advance(op)
    <3> HIDE DEF o
    <3>1. \A k : SameName([op EXCEPT !.copy = k])
      BY <1>1 DEF SameName, Calls
    <3>2. \A k : SameName([o EXCEPT !.copy = k])
      BY <2>2 DEF SameName, Calls, o
    <3>3. CASE Mark \/ MarkNew
      BY <3>1, <3>2, <3>3 DEF Mark, MarkNew, o
    <3>4. CASE Link
      <4> DEFINE after == [o EXCEPT !.cluster = op.next, !.next = 0,
                                    !.done = Smaller(@ + ClusterSize, Len(op.buf))]
      <4>1. WriteFat(op.cluster, op.next, op, after)
        BY <3>4 DEF Link, o
      <4>2. \A k : SameName([after EXCEPT !.copy = k])
        BY <2>2 DEF SameName, Calls, o
      <4> QED BY <3>1, <4>1, <4>2
    <3>5. CASE FreeCluster
      <4> DEFINE succ == IF op.copy = 1 THEN fat[1][op.cluster] ELSE op.next
                 between == [op EXCEPT !.next = succ]
                 after == [op EXCEPT !.cluster = succ, !.next = 0]
      <4>1. WriteFat(op.cluster, Free, between, after)
        BY <3>5 DEF FreeCluster
      <4> HIDE DEF succ
      <4>2. \A k : SameName([between EXCEPT !.copy = k]) /\ SameName([after EXCEPT !.copy = k])
        BY <1>1 DEF SameName, Calls
      <4> QED BY <4>1, <4>2
    <3> QED BY <1>11, <3>3, <3>4, <3>5
  <2> QED BY <2>1, <2>3, CallNameWriteFat
<1>12. CASE CreateEntry
  <2>1. op.todo # <<>>
    BY <1>12 DEF CreateEntry, At
  <2>2. PICK h : Ends(Advance(op), h)
    BY <1>12 DEF CreateEntry
  <2> QED BY <1>4, <2>1, <2>2, CallNameEnds
<1>13. CASE Find
  <2>1. op.todo # <<>>
    BY <1>13 DEF Find, At
  <2>2. PICK s \in Found(op.name) :
          op' = IF s = Missing THEN Idle(FALSE)
                ELSE Advance([op EXCEPT !.slot = s, !.cluster = dir[s].first])
    BY <1>13 DEF Find
  <2> DEFINE o == [op EXCEPT !.slot = s, !.cluster = dir[s].first]
  <2>3. o.todo = op.todo /\ o.name = op.name
    BY <1>1 DEF Calls
  <2>4. CASE s # Missing
    <3>1. dir[s].first \in 0..EOC
      <4>1. s \in Slots
        BY <2>4, FoundSlot
      <4> QED BY <4>1, SizesAssumption DEF TypeInv, TypeOK, Entries, Clusters, EOC
    <3>2. s \in Slots
      BY <2>4, FoundSlot
    <3>3. o \in Calls
      BY <1>1, <3>1, <3>2 DEF Calls
    <3> HIDE DEF o
    <3>4. SameName(Advance(o))
      BY <1>2, <2>1, <2>3, <3>3, CallNameAdvance
    <3> QED BY <2>2, <2>4, <3>4 DEF o, SameName
  <2> QED BY <2>2, <2>4, IdleOK
<1> QED BY <1>6, <1>7, <1>8, <1>9, <1>10, <1>11, <1>12, <1>13 DEF Step

-----------------------------------------------------------------------------
(* What the running call has written so far. *)
Size == dir[op.slot].size

(* The slot it works on is its file's. *)
SlotNamed == On(op, OnSlot) => dir[op.slot].name = op.name

(* fs_write_file: the cluster holds the buffer before it is committed; a file that     *)
(* has a cluster has just one.                                                         *)
Filled == On(op, {"mark", "commit"}) => data[op.cluster] = Padded(op.buf)
Alone  == On(op, {"fill", "commit"}) /\ First # 0 => fat[1][First] = EOC

(* fs_append_file: behind the old size stands what has been appended, and in the next  *)
(* cluster what comes after it.                                                        *)
Appended == \A i \in 1..op.done :
               data[Walk(First, Hops(Size + i))][Offset(Size + i)] = op.buf[i]
Written == On(op, Adding) => Appended
NextFilled == On(op, {"mark_new", "link"})
                 => data[op.next] = Padded(SubSeq(op.buf, op.done + 1, Len(op.buf)))

Contents == SlotNamed /\ Filled /\ Alone /\ Written /\ NextFilled

(* All of it holds until a free of a chain is cut short. *)
ContentsInv == ChainsInv /\ ("cut" \notin harm => Contents)

Storing == {"fill", "mark", "commit"} \cup Adding

(* A call that is at none of these steps has nothing on the disk yet. *)
LEMMA NothingStored ==
  ASSUME ~On(op', Storing)
  PROVE  Filled' /\ Alone' /\ Written' /\ NextFilled'
BY DEF Filled, Alone, Written, NextFilled, On, Storing, Adding

(* The slot stays the file's: the three steps that change names come first or last. *)
LEMMA NamedKept == ASSUME TypeInv, TypeInv', SlotNamed, Step, ~Find PROVE SlotNamed'
<1>1. SUFFICES ASSUME On(op', OnSlot) PROVE dir'[op'.slot].name = op'.name
  BY DEF SlotNamed
<1>2. op'.name = op.name
  BY <1>1, CallNameKept
<1>3. ~CreateEntry /\ ~RenameEntry /\ ~Erase
  <2>1. ASSUME NEW a \in {"create", "rename", "erase"}, At(a), NEW h, Ends(Advance(op), h) PROVE FALSE
    <3>1. a \in Working /\ a \notin Copying /\ a # "find"
      BY DEF Working, StepNames, Copying
    <3>2. op'.todo = <<>> \/ MayFollow(a, Head(op'.todo))
      BY <2>1, <3>1, NextFields, IdleOK DEF Ends
    <3>3. op'.todo # <<>> /\ Head(op'.todo) # "find"
      BY <1>1 DEF On, OnSlot
    <3> QED BY <3>2, <3>3 DEF MayFollow
  <2>2. ~CreateEntry
    BY <2>1 DEF CreateEntry
  <2>3. ~RenameEntry
    BY <2>1 DEF RenameEntry
  <2>4. ~Erase
    BY <2>1 DEF Erase, WriteDir
  <2> QED BY <2>2, <2>3, <2>4
<1>4. On(op, OnSlot) /\ op'.slot = op.slot
  BY <1>1, <1>3, SlotKept
<1>5. op.slot \in Slots
  BY <1>4 DEF TypeInv, CallOK
<1>6. dir'[op.slot].name = dir[op.slot].name
  BY <1>3, <1>5, NameKept
<1> QED BY <1>2, <1>4, <1>6 DEF SlotNamed

(* find reads the slot of the file. *)
LEMMA NamedFind == ASSUME TypeInv, Find PROVE SlotNamed' /\ ~On(op', Storing)
<1>1. At("find") /\ "find" \in Working /\ "find" \notin OnSlot /\ "find" \notin Copying
  BY DEF Find, Working, OnSlot, StepNames, Copying
<1>2. PICK s \in Found(op.name) :
        /\ op' = IF s = Missing THEN Idle(FALSE)
                 ELSE Advance([op EXCEPT !.slot = s, !.cluster = dir[s].first])
        /\ harm' = harm \cup (IF Misread(op.name, s) THEN {"fault"} ELSE {})
  BY DEF Find
<1>3. CASE s = Missing
  BY <1>2, <1>3, IdleOK DEF SlotNamed, On
<1>4. CASE s # Missing
  <2> DEFINE o == [op EXCEPT !.slot = s, !.cluster = dir[s].first]
  <2>1. s \in Slots /\ dir[s].name = op.name
    BY <1>4, FoundSlot DEF Named
  <2>2. dir[s].first \in 0..EOC
    BY <2>1, SizesAssumption DEF TypeInv, TypeOK, Entries, Clusters, EOC
  <2>3. /\ op \in Calls /\ op.todo # <<>> /\ Head(op.todo) = "find" /\ Ordered(op.todo)
        /\ op.name \in Names /\ op.new \in Names /\ op.copy = 1
        /\ op.done <= Len(op.buf)
    BY <1>1, TypeHere
  <2>4. /\ o \in Calls /\ o.todo = op.todo /\ o.name = op.name /\ o.new = op.new
        /\ o.slot = s /\ o.buf = op.buf /\ o.done = op.done /\ o.copy = 1
    BY <2>1, <2>2, <2>3 DEF Calls
  <2>5. op' = Advance(o)
    BY <1>2, <1>4
  <2> HIDE DEF o
  <2>6. \/ Advance(o) = Idle(TRUE)
        \/ /\ Advance(o) = [o EXCEPT !.todo = Tail(@)]
           /\ Advance(o).todo # <<>>
           /\ MayFollow("find", Head(Advance(o).todo))
    BY <2>1, <2>3, <2>4, AdvanceOK
  <2>7. op'.todo = <<>> \/ (MayFollow("find", Head(op'.todo)) /\ op'.name = op.name /\ op'.slot = s)
    BY <2>4, <2>5, <2>6, IdleOK DEF Calls
  <2>8. dir' = dir
    BY DEF Find, disk
  <2> QED BY <2>1, <2>7, <2>8 DEF SlotNamed, On, Storing, Adding, MayFollow
<1> QED BY <1>3, <1>4

(* Choose fills a cluster of its own, or the only one of the file. *)
LEMMA ContentsChoose == ASSUME Sound, Contents, Choose PROVE Filled' /\ Alone' /\ Written' /\ NextFilled'
<1> DEFINE fresh == <<"fill", "mark", "commit">>
           over == <<"fill", "commit">>
           low == Minimum(FreeClusters)
<1>0. TypeInv /\ Owners
  BY DEF Sound, NamesInv
<1>1. /\ At("choose") /\ op.todo # <<>> /\ Head(op.todo) = "choose" /\ op \in Calls /\ op.slot \in Slots
  BY <1>0, TypeHere DEF Choose, Working, StepNames, OnSlot, At
<1>2. fat' = fat /\ dir' = dir
  BY DEF Choose, disk
<1>3. op.cluster = First /\ First \in {0} \cup Files
  <2>1. op.cluster = First
    BY <1>1 DEF Sound, Known, Begun, On
  <2> QED BY <1>0, <1>1, <2>1 DEF Owners, Sane, First
<1>4. CASE op' \in {Idle(FALSE), Idle(TRUE)}
  <2>1. ~On(op', Storing)
    BY <1>4, IdleOK DEF On
  <2> QED BY <2>1, NothingStored
<1>5. ASSUME NEW c, NEW steps \in {fresh, over},
             op' = [Instead(steps) EXCEPT !.cluster = c],
             First # 0 => fat[1][First] = EOC
      PROVE  Filled' /\ Alone' /\ Written' /\ NextFilled'
  <2>1. op'.todo = steps /\ op'.slot = op.slot
    BY <1>1, <1>5 DEF Instead, Calls
  <2>2. Head(steps) = "fill"
    BY <1>5
  <2> HIDE DEF fresh, over
  <2>3. First' = First
    BY <1>2, <2>1 DEF First
  <2>4. Alone'
    BY <1>2, <1>5, <2>3 DEF Alone
  <2> QED BY <2>1, <2>2, <2>4 DEF Filled, Written, NextFilled, On, Adding
<1>6. CASE op.cluster = 0 /\ op' = [Instead(fresh) EXCEPT !.cluster = low]
  <2> HIDE DEF low
  <2> QED BY <1>3, <1>5, <1>6
<1>7. CASE op.cluster >= Root /\ Follow(op.cluster) = EOC /\ op' = Instead(over)
  <2>1. op' = [Instead(over) EXCEPT !.cluster = op.cluster]
    BY <1>0, <1>7, InsteadSame
  <2>2. First # 0 => fat[1][First] = EOC
    BY <1>3, <1>7, Sizes DEF Follow
  <2> HIDE DEF fresh, over
  <2> QED BY <1>5, <2>1, <2>2
<1> QED BY <1>4, <1>6, <1>7, Chosen

(* The cluster is filled with the buffer. *)
LEMMA ContentsFill == ASSUME Sound, Contents, Fill PROVE Filled' /\ Alone' /\ Written' /\ NextFilled'
<1>0. TypeInv /\ Owners
  BY DEF Sound, NamesInv
<1>1. /\ At("fill") /\ "fill" \in Working /\ op.todo # <<>> /\ Head(op.todo) = "fill"
      /\ op \in Calls /\ "fill" \notin Copying
  BY <1>0, TypeHere DEF Fill, Working, StepNames, At, Copying
<1>2. On(op, {"fill", "mark", "commit"}) /\ On(op, {"fill", "commit"})
  BY <1>1 DEF On
<1>3. op.cluster \in Files
  BY <1>0, <1>2 DEF Owners, Owns, Writable
<1>4. fat' = fat /\ dir' = dir /\ data' = [data EXCEPT ![op.cluster] = Padded(op.buf)]
      /\ Ends(Advance(op), {})
  BY <1>3 DEF Fill, WriteData
<1>5. op'.todo = <<>> \/ op' = NextCall
  BY <1>0, <1>1, <1>4, NextFields, IdleOK DEF Ends
<1>6. CASE op'.todo = <<>>
  BY <1>6, NothingStored DEF On
<1>7. CASE op'.todo # <<>>
  <2>1. /\ MayFollow("fill", Head(op'.todo))
        /\ op'.slot = op.slot /\ op'.cluster = op.cluster /\ op'.buf = op.buf
    BY <1>0, <1>1, <1>5, <1>7, NextFields, IdleOK
  <2>2. First' = First
    BY <1>4, <2>1 DEF First
  <2>3. Filled'
    <3>1. data'[op.cluster] = Padded(op.buf)
      BY <1>0, <1>3, <1>4 DEF TypeInv, TypeOK
    <3> QED BY <2>1, <3>1 DEF Filled, Padded
  <2>4. Alone'
    BY <1>2, <1>4, <2>2 DEF Contents, Alone
  <2> QED BY <2>1, <2>3, <2>4 DEF Written, NextFilled, On, Adding, MayFollow
<1> QED BY <1>6, <1>7

(* It is marked; the file has no other one. *)
LEMMA ContentsMark == ASSUME Sound, Contents, Mark PROVE Filled' /\ Alone' /\ Written' /\ NextFilled'
<1>0. TypeInv /\ Owners
  BY DEF Sound, NamesInv
<1>1. /\ At("mark") /\ "mark" \in Working /\ op.todo # <<>> /\ Head(op.todo) = "mark"
      /\ op \in Calls
  BY <1>0, TypeHere DEF Mark, Working, StepNames, At
<1>2. On(op, {"fill", "mark", "commit"}) /\ On(op, {"mark"}) /\ On(op, {"mark", "commit"})
  BY <1>1 DEF On
<1>3. op.cluster \in Files /\ First = 0
  BY <1>0, <1>2 DEF Owners, Owns, Writable, Sound, Known, Taken, Taking
<1>4. /\ dir' = dir /\ data' = data
      /\ \/ op'.todo = <<>>
         \/ op.copy < FatCount /\ op' = [op EXCEPT !.copy = @ + 1]
         \/ op' = NextCall
  <2>1. data' = data
    BY DEF Mark, WriteFat
  <2> QED BY <1>0, <1>3, <2>1, FatStep, Sizes DEF Mark, NextCall
<1>5. CASE op'.todo = <<>>
  BY <1>5, NothingStored DEF On
<1>6. CASE op'.todo # <<>>
  <2>1. /\ op'.slot = op.slot /\ op'.cluster = op.cluster /\ op'.buf = op.buf
        /\ Head(op'.todo) \in {"mark", "commit"}
    <3>1. CASE op.copy < FatCount /\ op' = [op EXCEPT !.copy = @ + 1]
      BY <1>1, <3>1 DEF Calls
    <3>2. CASE op' = NextCall
      BY <1>0, <1>1, <1>6, <3>2, NextFields, IdleOK DEF MayFollow
    <3> QED BY <1>4, <1>6, <3>1, <3>2
  <2>2. First' = 0
    BY <1>3, <1>4, <2>1 DEF First
  <2>3. Filled'
    <3>1. data[op.cluster] = Padded(op.buf)
      BY <1>2 DEF Contents, Filled
    <3> QED BY <1>4, <2>1, <3>1 DEF Filled, Padded
  <2>4. Alone'
    BY <2>2 DEF Alone
  <2> QED BY <2>1, <2>3, <2>4 DEF Written, NextFilled, On, Adding
<1> QED BY <1>5, <1>6

(* What has been appended stays while neither the links nor the data of the chain that *)
(* holds it are written.                                                               *)
LEMMA AppendedKept ==
  ASSUME TypeInv, Appended, NEW f, f = First, NEW size \in Nat, size = Size, op.done \in Nat,
         NEW c, Linked(f, Hops(size + op.done), c), Links(fat'[1], f, Hops(size + op.done), c),
         \A k \in 0..Hops(size + op.done) : data'[c[k]] = data[c[k]]
  PROVE  \A i \in 1..op.done : data'[Walk(f, Hops(size + i))'][Offset(size + i)] = op.buf[i]
<1> DEFINE n == Hops(size + op.done)
<1>1. n \in Nat
  BY HopsType
<1> SUFFICES ASSUME NEW i \in 1..op.done
             PROVE  data'[Walk(f, Hops(size + i))'][Offset(size + i)] = op.buf[i]
  OBVIOUS
<1>2. Hops(size + i) \in 0..n
  <2>1. size + i \in 1..size + op.done /\ size + op.done \in Nat
    OBVIOUS
  <2> QED BY <2>1, HopsMono
<1> DEFINE k == Hops(size + i)
<1>3. k \in 0..n
  BY <1>2
<1> HIDE DEF n, k
<1>4. Walk(f, k) = c[k] /\ Walk(f, k)' = c[k]
  BY <1>1, <1>3, WalksNow, WalksThen DEF Walks, Linked, n
<1>5. data[Walk(f, k)][Offset(size + i)] = op.buf[i]
  BY DEF Appended, k
<1>6. data'[c[k]] = data[c[k]]
  BY <1>3 DEF n
<1> QED BY <1>4, <1>5, <1>6 DEF k

(* Steps of an append that link nothing to the chain, and write no data to it. *)
LEMMA WrittenKept ==
  ASSUME Sound, Contents, On(op, Adding), op'.slot = op.slot, op'.done = op.done, op'.buf = op.buf,
         dir' = dir, Untied, \A x \in Files : data'[x] # data[x] => fat[1][x] = Free
  PROVE  Written'
<1>0. TypeInv
  BY DEF Sound, NamesInv
<1>1. Size \in Nat /\ op.done \in Nat
  BY <1>0 DEF TypeInv, TypeOK, Entries, Size, CallOK, Calls, On, OnSlot, Working, StepNames, Adding
<1>2. PICK size \in Nat : size = Size
  BY <1>1
<1>2a. PICK f : f = First
  OBVIOUS
<1>3. On(op, Adding \cup {"patch"})
  BY DEF On
<1>4. Full = size + op.done
  BY <1>2 DEF Full, Size
<1>5. PICK c : Linked(f, Hops(size + op.done), c)
  BY <1>2a, <1>3, <1>4 DEF Sound, Known, Reached
<1>6. Links(fat'[1], f, Hops(size + op.done), c)
  <2>1. Hops(size + op.done) \in Nat
    BY <1>1, HopsType
  <2> QED BY <1>5, <2>1, LinksKept DEF Linked, Untied
<1>7. \A k \in 0..Hops(size + op.done) : data'[c[k]] = data[c[k]]
  BY <1>5 DEF Linked, Links
<1>8. Appended
  BY DEF Contents, Written
<1>9. \A i \in 1..op.done : data'[Walk(f, Hops(size + i))'][Offset(size + i)] = op.buf[i]
  BY <1>0, <1>1, <1>2, <1>2a, <1>5, <1>6, <1>7, <1>8, AppendedKept
<1>10. First' = f /\ Size' = size
  BY <1>2, <1>2a DEF First, Size
<1> QED BY <1>9, <1>10 DEF Written, Appended

(* Nothing is appended before the end of the chain has been reached. *)
LEMMA ContentsWalk == ASSUME Sound, Contents, WalkToEnd PROVE Filled' /\ Alone' /\ Written' /\ NextFilled'
<1> DEFINE size == dir[op.slot].size
           tail == Walk(op.cluster, Hops(size))
           full == <<"grow", "resize">>
           part == <<"patch">> \o full
<1>0. TypeInv
  BY DEF Sound, NamesInv
<1>1. /\ At("walk") /\ op.todo # <<>> /\ Head(op.todo) = "walk" /\ op \in Calls
  BY <1>0, TypeHere DEF WalkToEnd, Working, StepNames, OnSlot, At
<1>2. op.done = 0
  BY <1>1 DEF Sound, Known, Begun, On, Adding
<1>3. \/ op' = Idle(FALSE)
      \/ \E s \in {part, full} : op' = [Instead(s) EXCEPT !.cluster = tail]
  <2>1. <<>> \o full = full /\ part # full
    OBVIOUS
  <2> HIDE DEF full, part, tail
  <2> QED BY <2>1 DEF WalkToEnd, tail, part, full
<1>4. CASE op' = Idle(FALSE)
  BY <1>4, IdleOK, NothingStored DEF On
<1>5. ASSUME NEW s \in {part, full}, op' = [Instead(s) EXCEPT !.cluster = tail]
      PROVE  Filled' /\ Alone' /\ Written' /\ NextFilled'
  <2>1. Head(s) \in {"patch", "grow"}
    BY <1>5
  <2> HIDE DEF full, part, tail
  <2>2. op'.todo = s /\ op'.done = 0
    BY <1>1, <1>2, <1>5 DEF Instead, Calls
  <2>3. 1..op'.done = {}
    BY <2>2
  <2> QED BY <2>1, <2>2, <2>3 DEF Filled, Alone, Written, Appended, NextFilled, On
<1> QED BY <1>3, <1>4, <1>5

(* What fits into the last cluster is written behind the old end. *)
LEMMA ContentsPatch == ASSUME Sound, Contents, Patch PROVE Filled' /\ Alone' /\ Written' /\ NextFilled'
<1> DEFINE off == Offset(dir[op.slot].size)
           n == Smaller(ClusterSize - off, Len(op.buf))
           o == [Advance(op) EXCEPT !.done = n]
           units == [i \in 1..ClusterSize |-> IF i \in off + 1 .. off + n THEN op.buf[i - off]
                                              ELSE data[op.cluster][i]]
<1>0. TypeInv /\ Owners
  BY DEF Sound, NamesInv
<1>1. /\ At("patch") /\ "patch" \in Working /\ op.todo # <<>> /\ Head(op.todo) = "patch"
      /\ op \in Calls /\ op.slot \in Slots /\ "patch" \notin Copying
  BY <1>0, TypeHere DEF Patch, Working, StepNames, OnSlot, At, Copying
<1>2. On(op, Adding \cup {"patch"}) /\ op.done = 0
  BY <1>1 DEF On, Sound, Known, Begun, Adding
<1>3. PICK size \in Nat : size = dir[op.slot].size
  BY <1>0, <1>1 DEF TypeInv, TypeOK, Entries
<1>4. Full = size /\ Hops(size) \in Nat /\ off = Offset(size)
  <2>1. Full = size + 0
    BY <1>2, <1>3 DEF Full
  <2> QED BY <1>3, <2>1, HopsType
<1>5. PICK f, c : f = First /\ Linked(f, Hops(size), c) /\ c[Hops(size)] = op.cluster
  BY <1>2, <1>4 DEF Sound, Known, Reached
<1>6. op.cluster \in Files
  <2>1. Hops(size) \in 0..Hops(size)
    BY <1>4
  <2> QED BY <1>5, <2>1 DEF Linked, Links
<1>7. fat' = fat /\ dir' = dir /\ data' = [data EXCEPT ![op.cluster] = units] /\ Ends(o, {})
  BY <1>6 DEF Patch, WriteData
<1>8. data'[op.cluster] = units
  <2> HIDE DEF units
  <2> QED BY <1>0, <1>6, <1>7 DEF TypeInv, TypeOK
<1>9. n \in Nat /\ n <= ClusterSize - off /\ off \in 0..ClusterSize
  <2>1. off < ClusterSize
    BY <1>0, <1>1 DEF TypeInv
  <2>2. off \in Nat
    <3>1. CASE size = 0
      BY <1>4, <3>1, SizesAssumption DEF Offset, Hops
    <3>2. CASE size # 0
      BY <1>3, <1>4, <3>2, OffsetRange
    <3> QED BY <3>1, <3>2
  <2>3. Len(op.buf) \in Nat
    BY <1>0, Buffered DEF TypeInv, CallOK, Calls
  <2> HIDE DEF off
  <2> QED BY <2>1, <2>2, <2>3, SizesAssumption DEF Smaller
<1>10. CASE op'.todo = <<>>
  BY <1>10, NothingStored DEF On
<1>11. CASE op'.todo # <<>>
  <2>1. op' = o
    BY <1>7, <1>11, IdleOK DEF Ends
  <2>2. /\ o.todo = Advance(op).todo /\ o.slot = Advance(op).slot
        /\ o.buf = Advance(op).buf /\ o.done = n
    <3> HIDE DEF n
    <3> QED BY <1>1 DEF Advance, Calls, Idle
  <2>3. NextCall # Idle(TRUE) /\ Advance(op) = NextCall
    <3> HIDE DEF n, o
    <3> QED BY <1>0, <1>1, <1>11, <2>1, <2>2, NextFields, IdleOK
  <2> HIDE DEF n, o, off
  <2>4. /\ MayFollow("patch", Head(op'.todo)) /\ op'.slot = op.slot /\ op'.buf = op.buf
    BY <1>0, <1>1, <2>1, <2>2, <2>3, NextFields
  <2>5. op'.done = n
    BY <2>1, <2>2
  <2>6. First' = f /\ Size' = size
    BY <1>3, <1>5, <1>7, <2>4 DEF First, Size
  <2>7. ASSUME NEW i \in 1..n PROVE data'[Walk(f, Hops(size + i))'][Offset(size + i)] = op.buf[i]
    <3>1. i \in Nat /\ i <= ClusterSize - Offset(size)
      BY <1>4, <1>9, SizesAssumption
    <3>2. Hops(size + i) = Hops(size)
      BY <1>3, <3>1, HopsSame
    <3>3. Offset(size + i) = off + i
      <4>1. Hops(size) * ClusterSize \in Nat
        BY <1>4, OneMore
      <4> QED BY <1>3, <1>4, <3>1, <3>2, <4>1 DEF Offset
    <3>4. off + i \in 1..ClusterSize /\ off + i \in off + 1 .. off + n /\ (off + i) - off = i
      BY <1>9, SizesAssumption
    <3>5. units[off + i] = op.buf[i]
      BY <3>4
    <3>6. Walk(f, Hops(size))' = op.cluster
      <4>1. Hops(size) \in 0..Hops(size) /\ Hops(size) \in Nat
        BY <1>4
      <4>2. Links(fat'[1], f, Hops(size), c)
        BY <1>5, <1>7 DEF Linked
      <4> QED BY <1>5, <4>1, <4>2, WalksThen DEF Walks, Linked
    <3> HIDE DEF units
    <3> QED BY <1>8, <3>2, <3>3, <3>5, <3>6
  <2>8. Written'
    BY <2>4, <2>5, <2>6, <2>7 DEF Written, Appended
  <2> QED BY <2>4, <2>8 DEF Filled, Alone, NextFilled, On, MayFollow
<1> QED BY <1>10, <1>11

(* The rest of the buffer goes into a free cluster. *)
LEMMA ContentsGrow == ASSUME Sound, Contents, Grow PROVE Filled' /\ Alone' /\ Written' /\ NextFilled'
<1> DEFINE low == Minimum(FreeClusters)
           more == <<"mark_new", "link">> \o op.todo
           o == [op EXCEPT !.todo = more, !.next = low]
           units == Padded(SubSeq(op.buf, op.done + 1, Len(op.buf)))
<1>0. TypeInv /\ Owners
  BY DEF Sound, NamesInv
<1>1. /\ At("grow") /\ op.todo # <<>> /\ Head(op.todo) = "grow" /\ op \in Calls /\ Ordered(op.todo)
  BY <1>0, TypeHere DEF Grow, Working, StepNames, At
<1>2. ~On(op, Freeing) /\ On(op, Adding)
  BY <1>1 DEF On, Freeing, Adding
<1>3. low \in Files /\ fat[1][low] = Free
  BY <1>0, <1>2, FreeIsNoOnes, LowestFree DEF Grow, FreeClusters
<1>4. Head(more) = "mark_new" /\ more # <<>>
  BY <1>1, OrderedGrow
<1>5. /\ o.todo = more /\ o.next = low /\ o.slot = op.slot /\ o.done = op.done /\ o.buf = op.buf
  BY <1>1 DEF Calls
<1>6. WriteData(low, units, o)
  BY DEF Grow
<1> HIDE DEF low, more, o, units
<1>7. fat' = fat /\ dir' = dir /\ data' = [data EXCEPT ![low] = units]
      /\ (op' = o \/ op'.todo = <<>>)
  BY <1>3, <1>6, IdleOK DEF WriteData, Ends
<1>8. CASE op'.todo = <<>>
  BY <1>8, NothingStored DEF On
<1>9. CASE op' = o
  <2>1. Written'
    <3>1. \A x \in Files : data'[x] # data[x] => fat[1][x] = Free
      BY <1>0, <1>3, <1>7 DEF TypeInv, TypeOK
    <3>2. Untied
      BY <1>7 DEF Untied
    <3> QED BY <1>2, <1>5, <1>7, <1>9, <3>1, <3>2, WrittenKept
  <2>2. NextFilled'
    <3>1. data'[low] = units
      BY <1>0, <1>3, <1>7 DEF TypeInv, TypeOK
    <3> QED BY <1>5, <1>9, <3>1 DEF NextFilled, units, Padded
  <2> QED BY <1>4, <1>5, <1>9, <2>1, <2>2 DEF Filled, Alone, On
<1> QED BY <1>7, <1>8, <1>9

(* The whole buffer is written. *)
LEMMA ContentsGrowDone == ASSUME Sound, Contents, GrowDone PROVE Filled' /\ Alone' /\ Written' /\ NextFilled'
<1>0. TypeInv
  BY DEF Sound, NamesInv
<1>1. /\ At("grow") /\ "grow" \in Working /\ "grow" \notin Copying /\ On(op, Adding)
      /\ op' = Advance(op) /\ fat' = fat /\ dir' = dir /\ data' = data
  BY DEF GrowDone, Working, StepNames, Copying, At, On, Adding, disk
<1>2. CASE op'.todo = <<>>
  BY <1>2, NothingStored DEF On
<1>3. CASE op'.todo # <<>>
  <2>1. /\ MayFollow("grow", Head(op'.todo)) /\ op'.slot = op.slot
        /\ op'.done = op.done /\ op'.buf = op.buf
    BY <1>0, <1>1, <1>3, NextFields, IdleOK
  <2>2. Written'
    <3>1. Untied
      BY <1>1 DEF Untied
    <3> QED BY <1>1, <2>1, <3>1, WrittenKept
  <2> QED BY <2>1, <2>2 DEF Filled, Alone, NextFilled, On, MayFollow
<1> QED BY <1>2, <1>3

(* The new cluster is marked, and linked behind the last one. *)
LEMMA ContentsMarkNew == ASSUME Sound, Contents, MarkNew PROVE Filled' /\ Alone' /\ Written' /\ NextFilled'
<1>0. TypeInv /\ Owners
  BY DEF Sound, NamesInv
<1>1. /\ At("mark_new") /\ "mark_new" \in Working /\ op.todo # <<>> /\ Head(op.todo) = "mark_new"
      /\ op \in Calls
  BY <1>0, TypeHere DEF MarkNew, Working, StepNames, At
<1>2. On(op, {"mark_new"}) /\ On(op, {"mark_new", "link"}) /\ ~On(op, Freeing) /\ On(op, Adding)
  BY <1>1 DEF On, Freeing, Adding
<1>3. op.next \in Files /\ (op.copy = 1 => fat[1][op.next] = Free)
  BY <1>0, <1>2 DEF Owners, Owns, Linkable, Sound, Known, Tailed, Marking
<1>4. /\ dir' = dir
      /\ \A d \in Clusters : fat'[1][d] = IF op.copy = 1 /\ d = op.next THEN EOC ELSE fat[1][d]
      /\ \/ op'.todo = <<>>
         \/ op.copy < FatCount /\ op' = [op EXCEPT !.copy = @ + 1]
         \/ op' = NextCall
  BY <1>0, <1>3, FatStep, Sizes DEF MarkNew, NextCall
<1>5. data' = data
  BY DEF MarkNew, WriteFat
<1>6. Untied
  <2>1. Free \notin Files /\ EOC # Free
    BY Sizes DEF Free
  <2> QED BY <1>2, <1>3, <1>4, <2>1, WriteWhole
<1>7. CASE op'.todo = <<>>
  BY <1>7, NothingStored DEF On
<1>8. CASE op'.todo # <<>>
  <2>1. /\ op'.slot = op.slot /\ op'.next = op.next /\ op'.done = op.done /\ op'.buf = op.buf
        /\ Head(op'.todo) \in {"mark_new", "link"}
    <3>1. CASE op.copy < FatCount /\ op' = [op EXCEPT !.copy = @ + 1]
      BY <1>1, <3>1 DEF Calls
    <3>2. CASE op' = NextCall
      BY <1>0, <1>1, <1>8, <3>2, NextFields, IdleOK DEF MayFollow
    <3> QED BY <1>4, <1>8, <3>1, <3>2
  <2>2. Written'
    BY <1>2, <1>4, <1>5, <1>6, <2>1, WrittenKept
  <2>3. NextFilled'
    <3> DEFINE rest == SubSeq(op.buf, op.done + 1, Len(op.buf))
    <3>1. data[op.next] = Padded(rest)
      BY <1>2 DEF Contents, NextFilled
    <3> QED BY <1>5, <2>1, <3>1 DEF NextFilled, Padded
  <2> QED BY <2>1, <2>2, <2>3 DEF Filled, Alone, On
<1> QED BY <1>7, <1>8

LEMMA ContentsLink == ASSUME Sound, Contents, Link PROVE Filled' /\ Alone' /\ Written' /\ NextFilled'
<1> DEFINE n == Smaller(op.done + ClusterSize, Len(op.buf))
           after == [Advance(op) EXCEPT !.cluster = op.next, !.next = 0,
                                        !.done = Smaller(@ + ClusterSize, Len(op.buf))]
<1>0. TypeInv /\ Owners
  BY DEF Sound, NamesInv
<1>1. /\ At("link") /\ "link" \in Working /\ op.todo # <<>> /\ Head(op.todo) = "link"
      /\ op \in Calls /\ op.slot \in Slots
  BY <1>0, TypeHere DEF Link, Working, StepNames, OnSlot, At
<1>2. /\ On(op, {"link"}) /\ On(op, {"mark_new", "link"}) /\ ~On(op, Freeing)
      /\ On(op, Adding) /\ On(op, Adding \cup {"patch"}) /\ NextIsNew
  BY <1>1 DEF On, Freeing, Adding, NextIsNew
<1>3. /\ op.next \in Files /\ fat[1][op.next] = EOC /\ op.next # op.cluster
      /\ IF op.copy = 1 THEN fat[1][op.cluster] = EOC ELSE fat[1][op.cluster] = op.next
  BY <1>0, <1>2 DEF Owners, Owns, Linkable, Sound, Known, Tailed
<1>4. PICK size \in Nat : size = Size
  BY <1>0, <1>1 DEF TypeInv, TypeOK, Entries, Size
<1>5. Full = size + op.done /\ op.done \in Nat /\ Hops(Full) \in Nat /\ Hops(Full) \in 0..Hops(Full)
  <2>1. Full = size + op.done /\ op.done \in Nat
    BY <1>0, <1>4 DEF Full, Size, TypeInv, CallOK, Calls
  <2> QED BY <2>1, HopsType
<1>6. PICK f, c : f = First /\ Linked(f, Hops(Full), c) /\ c[Hops(Full)] = op.cluster
  BY <1>2 DEF Sound, Known, Reached
<1>7. op.cluster \in Files
  BY <1>5, <1>6 DEF Linked, Links
<1>8. /\ dir' = dir
      /\ \A d \in Clusters : fat'[1][d] = IF op.copy = 1 /\ d = op.cluster THEN op.next ELSE fat[1][d]
      /\ \/ op'.todo = <<>>
         \/ op.copy < FatCount /\ op' = [op EXCEPT !.copy = @ + 1]
         \/ op' = [after EXCEPT !.copy = 1]
  <2>1. WriteFat(op.cluster, op.next, op, after)
    BY DEF Link
  <2> HIDE DEF after
  <2> QED BY <1>0, <1>7, <2>1, FatStep, Sizes
<1>9. data' = data
  BY DEF Link, WriteFat
<1>10. Untied
  <2>1. EOC \notin Files /\ op.next # Free
    BY <1>3, Sizes DEF Free
  <2> QED BY <1>2, <1>3, <1>7, <1>8, <2>1, WriteWhole
<1>11. op.done < Len(op.buf) /\ Len(op.buf) \in Nat /\ AtEdge
       /\ data[op.next] = Padded(SubSeq(op.buf, op.done + 1, Len(op.buf)))
  <2>1. op.done < Len(op.buf) /\ AtEdge
    BY <1>2 DEF Sound, Known, Edge
  <2>2. Len(op.buf) \in Nat
    BY <1>0, Buffered DEF TypeInv, CallOK, Calls
  <2> QED BY <1>2, <2>1, <2>2 DEF Contents, NextFilled
<1>12. CASE op'.todo = <<>>
  BY <1>12, NothingStored DEF On
<1>13. CASE op.copy < FatCount /\ op' = [op EXCEPT !.copy = @ + 1]
  <2>1. op'.todo = op.todo /\ op'.slot = op.slot /\ op'.next = op.next
        /\ op'.done = op.done /\ op'.buf = op.buf
    BY <1>1, <1>13 DEF Calls
  <2>2. Written'
    BY <1>2, <1>8, <1>9, <1>10, <2>1, WrittenKept
  <2>3. NextFilled'
    BY <1>9, <1>11, <2>1 DEF NextFilled, Padded
  <2> QED BY <1>1, <2>1, <2>2, <2>3 DEF Filled, Alone, On
<1>14. CASE op'.todo # <<>> /\ op' = [after EXCEPT !.copy = 1]
  <2> DEFINE a == Advance(op)
  <2>0. a \in Calls
    <3>1. Tail(op.todo) \in Seq(StepNames)
      BY <1>1 DEF Calls
    <3>2. [op EXCEPT !.todo = Tail(@)] \in Calls
      BY <1>1, <3>1 DEF Calls
    <3>3. Idle(TRUE) \in Calls
      BY IdleOK DEF CallOK
    <3> QED BY <3>2, <3>3 DEF Advance
  <2> HIDE DEF a
  <2>1. op'.todo = a.todo /\ NextCall.todo = a.todo
        /\ NextCall.slot = a.slot /\ NextCall.done = a.done /\ NextCall.buf = a.buf
    <3>1. NextCall = [a EXCEPT !.copy = 1]
      BY DEF a, NextCall
    <3>2. op' = [[a EXCEPT !.cluster = op.next, !.next = 0,
                           !.done = Smaller(@ + ClusterSize, Len(op.buf))] EXCEPT !.copy = 1]
      BY <1>14 DEF a
    <3> QED BY <2>0, <3>1, <3>2 DEF Calls
  <2>2. NextCall # Idle(TRUE)
    BY <1>14, <2>1, IdleOK
  <2>3. MayFollow("link", Head(op'.todo)) /\ a.slot = op.slot /\ a.done = op.done /\ a.buf = op.buf
    BY <1>0, <1>1, <2>1, <2>2, NextFields
  <2>4. op'.slot = op.slot /\ op'.done = n /\ op'.buf = op.buf
    BY <1>14, <2>0, <2>3 DEF Calls, a
  <2>5. n \in Nat /\ n <= Len(op.buf) /\ n <= op.done + ClusterSize
    BY <1>5, <1>11, SizesAssumption DEF Smaller
  <2> HIDE DEF n, after
  <2>6. First' = f /\ Size' = size
    BY <1>4, <1>6, <1>8, <2>4 DEF First, Size
  <2>7. Links(fat'[1], f, Hops(Full), c)
    BY <1>5, <1>6, <1>10, LinksKept DEF Linked, Untied
  <2>8. \A i \in 1..op.done : data'[Walk(f, Hops(size + i))'][Offset(size + i)] = op.buf[i]
    <3>1. Appended
      BY <1>2 DEF Contents, Written
    <3>2. \A k \in 0..Hops(Full) : data'[c[k]] = data[c[k]]
      BY <1>9
    <3> QED BY <1>0, <1>4, <1>5, <1>6, <2>7, <3>1, <3>2, AppendedKept
  <2> PICK q : q = Hops(Full) + 1
    OBVIOUS
  <2>9. Walk(f, q)' = op.next
    <3>1. fat'[1][op.cluster] = op.next /\ fat'[1][op.next] = EOC
      BY <1>3, <1>7, <1>8, Sizes
    <3>2. fat'[1][c[Hops(Full)]] = op.next /\ fat'[1][op.next] # Free
      BY <1>6, <3>1, Sizes
    <3>3. PICK d : Links(fat'[1], f, Hops(Full) + 1, d) /\ d[Hops(Full) + 1] = op.next
      BY <1>3, <1>5, <2>7, <3>2, LinksMore
    <3>5. q \in 0..q /\ q \in Nat
      BY <1>5
    <3> QED BY <3>3, <3>5, WalksThen DEF Walks, Linked
  <2>10. ASSUME NEW i \in 1..n, i > op.done
         PROVE  data'[Walk(f, Hops(size + i))'][Offset(size + i)] = op.buf[i]
    <3> DEFINE m == i - op.done
    <3>0. i \in Nat /\ i <= n
      BY <2>5
    <3>1. m \in Nat /\ m > 0 /\ m <= ClusterSize /\ i = op.done + m /\ size + i = Full + m
          /\ m <= Len(op.buf) - op.done
      <4>1. ClusterSize \in Nat
        BY SizesAssumption
      <4>2. PICK e : e = op.done
        OBVIOUS
      <4>3. PICK l : l = Len(op.buf)
        OBVIOUS
      <4>4. e \in Nat /\ l \in Nat /\ n \in Nat /\ n <= l /\ n <= e + ClusterSize /\ i > e
            /\ Full = size + e
        BY <1>4, <1>5, <1>11, <2>5, <2>10, <4>2, <4>3
      <4>5. m = i - e
        BY <4>2
      <4> HIDE DEF m
      <4>6. m \in Nat /\ m > 0 /\ m <= ClusterSize /\ i = e + m /\ m <= l - e
        BY <3>0, <4>1, <4>4, <4>5
      <4>7. size + i = Full + m
        BY <3>0, <4>4, <4>5
      <4> QED BY <4>2, <4>3, <4>6, <4>7
    <3> HIDE DEF m
    <3>2. Full = (Hops(Full) + 1) * ClusterSize /\ Full \in Nat
      BY <1>4, <1>5, <1>11 DEF AtEdge
    <3>3. Hops(size + i) = Hops(Full) + 1
      BY <3>1, <3>2, HopsNext
    <3>4. Offset(size + i) = m
      <4>1. Offset(size + i) = (Full + m) - (Hops(Full) + 1) * ClusterSize
        BY <3>1, <3>3 DEF Offset
      <4> QED BY <3>1, <3>2, <4>1
    <3>5. Padded(SubSeq(op.buf, op.done + 1, Len(op.buf)))[m] = op.buf[i]
      <4> DEFINE r == SubSeq(op.buf, op.done + 1, Len(op.buf))
      <4>1. op.buf \in Seq(Nat \ {0})
        BY <1>0, Buffered DEF TypeInv, CallOK, Calls
      <4>2. Len(r) = Len(op.buf) - op.done /\ \A j \in 1..Len(r) : r[j] = op.buf[op.done + j]
        BY <1>5, <1>11, <4>1, RestOf
      <4> HIDE DEF r
      <4>3. m \in 1..ClusterSize /\ m \in 1..Len(r) /\ m <= Len(r)
        BY <1>5, <1>11, <3>1, <4>2, SizesAssumption
      <4>4. Padded(r)[m] = op.buf[op.done + m]
        BY <4>2, <4>3 DEF Padded
      <4> QED BY <3>1, <4>4 DEF r
    <3>6. PICK h : h = Hops(size + i)
      OBVIOUS
    <3>8. Walk(f, h)' = op.next
      BY <2>9, <3>3, <3>6
    <3>9. data'[Walk(f, h)'][Offset(size + i)] = op.buf[i]
      BY <1>9, <1>11, <3>4, <3>5, <3>8
    <3> QED BY <3>6, <3>9
  <2>11. \A i \in 1..n : data'[Walk(f, Hops(size + i))'][Offset(size + i)] = op.buf[i]
    BY <1>5, <2>5, <2>8, <2>10
  <2>12. Written'
    BY <2>4, <2>6, <2>11 DEF Written, Appended
  <2> QED BY <2>3, <2>12 DEF Filled, Alone, NextFilled, On, MayFollow
<1> QED BY <1>8, <1>12, <1>13, <1>14

(* Every other step is followed by one that has nothing on the disk yet. *)
LEMMA ContentsQuiet ==
  ASSUME TypeInv, Step,
         ~(Find \/ Choose \/ Fill \/ Mark \/ WalkToEnd \/ Patch \/ Grow \/ GrowDone \/ MarkNew \/ Link)
  PROVE  Filled' /\ Alone' /\ Written' /\ NextFilled'
<1> SUFFICES ~On(op', Storing)
  BY NothingStored
<1>1. CASE CreateRefused \/ RenameRefused \/ GrowRefused
  BY <1>1, IdleOK DEF CreateRefused, RenameRefused, GrowRefused, Refuse, On
<1>2. CASE Extend
  <2>1. op'.todo = <<"find", "choose">> \/ op'.todo = <<"find", "walk">>
    BY <1>2 DEF Extend, Instead, TypeInv, CallOK, Calls
  <2>2. Head(op'.todo) = "find"
    BY <2>1
  <2> QED BY <2>2 DEF On, Storing, Adding
<1>3. CASE FreeCluster
  <2> DEFINE succ == IF op.copy = 1 THEN fat[1][op.cluster] ELSE op.next
             again == [[op EXCEPT !.next = succ] EXCEPT !.copy = @ + 1]
             next == [[op EXCEPT !.cluster = succ, !.next = 0] EXCEPT !.copy = 1]
  <2>1. At("free") /\ (Ends(again, {}) \/ Ends(next, {}))
    BY <1>3 DEF FreeCluster, WriteFat
  <2>2. again.todo = op.todo /\ next.todo = op.todo
    BY DEF TypeInv, CallOK, Calls
  <2> HIDE DEF again, next
  <2>3. op'.todo = <<>> \/ op'.todo = op.todo
    BY <2>1, <2>2, IdleOK DEF Ends
  <2> QED BY <2>1, <2>3 DEF On, Storing, Adding, At
<1>4. ASSUME NEW a \in {"create", "rename", "clear", "erase", "commit", "resize", "free"}, At(a),
             op'.todo = <<>> \/ op' = Advance(op)
      PROVE  ~On(op', Storing)
  <2>1. a \in Working
    BY DEF Working, StepNames
  <2>2. Advance(op).todo = NextCall.todo
    BY DEF Advance, NextCall, Idle
  <2>3. NextCall.todo = <<>> \/ MayFollow(a, Head(NextCall.todo))
    BY <1>4, <2>1, NextFields, IdleOK
  <2> QED BY <1>4, <2>2, <2>3 DEF On, Storing, Adding, MayFollow
<1>5. \A h : Ends(Advance(op), h) => op'.todo = <<>> \/ op' = Advance(op)
  BY IdleOK DEF Ends
<1>6. CASE FreeDone
  BY <1>4, <1>6 DEF FreeDone
<1>7. CASE CreateEntry
  BY <1>4, <1>5, <1>7 DEF CreateEntry
<1>8. CASE RenameEntry
  BY <1>4, <1>5, <1>8 DEF RenameEntry
<1>9. CASE Clear \/ Erase \/ Commit \/ Resize
  BY <1>4, <1>5, <1>9 DEF Clear, Erase, Commit, Resize, WriteDir
<1> QED BY <1>1, <1>2, <1>3, <1>6, <1>7, <1>8, <1>9 DEF Step

(* The invariant holds of the fresh image, and every step keeps it. *)
LEMMA ContentsInit == Init => ContentsInv
<1> SUFFICES ASSUME Init PROVE ContentsInv
  OBVIOUS
<1>1. \A steps : ~On(op, steps)
  BY IdleOK DEF Init, On
<1> QED BY <1>1, ChainsInit DEF ContentsInv, Contents, SlotNamed, Filled, Alone, Written, NextFilled

(* What the invariant says while no free has been cut short. *)
LEMMA StillSound ==
  ASSUME ContentsInv, [Next]_vars, "cut" \notin harm'
  PROVE  Sound /\ Contents /\ Sound' /\ TypeInv /\ TypeInv'
<1>1. harm \subseteq harm'
  BY HarmGrows DEF vars
<1>2. "cut" \notin harm
  BY <1>1
<1>3. ChainsInv /\ ChainsInv' /\ Contents
  BY <1>2, ChainsNext DEF ContentsInv
<1>4. Sound /\ Sound'
  BY <1>2, <1>3 DEF ChainsInv, OwnersInv, Sound
<1> QED BY <1>3, <1>4 DEF Sound, NamesInv

LEMMA ContentsNext == ContentsInv /\ [Next]_vars => ContentsInv'
<1> SUFFICES ASSUME ContentsInv, [Next]_vars PROVE ContentsInv'
  OBVIOUS
<1>1. ChainsInv'
  BY ChainsNext DEF ContentsInv
<1>2. SUFFICES ASSUME "cut" \notin harm' PROVE Contents'
  BY <1>1 DEF ContentsInv
<1>3. Sound /\ Contents /\ TypeInv /\ TypeInv'
  BY <1>2, StillSound
<1>4. CASE Step /\ ~Find
  <2>1. SlotNamed'
    BY <1>3, <1>4, NamedKept DEF Contents
  <2>2. Filled' /\ Alone' /\ Written' /\ NextFilled'
    BY <1>3, <1>4, ContentsChoose, ContentsFill, ContentsMark, ContentsWalk, ContentsPatch,
       ContentsGrow, ContentsGrowDone, ContentsMarkNew, ContentsLink, ContentsQuiet
  <2> QED BY <2>1, <2>2 DEF Contents
<1>5. CASE Find
  BY <1>3, <1>5, NamedFind, NothingStored DEF Contents
<1>6. CASE Request \/ AccessFails \/ PowerOff \/ Boot
  <2>1. ~On(op', OnSlot)
    <3>1. CASE Request
      BY <1>3, <3>1, TypeRequest
    <3>2. CASE AccessFails \/ PowerOff \/ Boot
      <4>1. op' = Idle(FALSE) \/ op' = [Idle(FALSE) EXCEPT !.todo = <<"off">>]
        BY <3>2 DEF AccessFails, PowerOff, Boot, Refuse, Off
      <4> QED BY <4>1, IdleOK, StoppedOK DEF On, OnSlot, Working
    <3> QED BY <1>6, <3>1, <3>2
  <2>2. Storing \subseteq OnSlot
    BY DEF Storing, Adding, OnSlot, Working, StepNames
  <2>3. SlotNamed' /\ ~On(op', Storing)
    BY <2>1, <2>2 DEF SlotNamed, On
  <2> QED BY <2>3, NothingStored DEF Contents
<1>7. CASE UNCHANGED vars
  <2>1. UNCHANGED <<fat, dir, data, op>>
    BY <1>7 DEF vars
  <2>2. SlotNamed' /\ Filled' /\ NextFilled'
    BY <1>3, <2>1 DEF Contents, SlotNamed, Filled, NextFilled, On, Padded
  <2>3. Alone'
    BY <1>3, <2>1 DEF Contents, Alone, First, On
  <2>4. CASE On(op, Adding)
    <3>1. Written'
      BY <1>3, <2>1, <2>4, WrittenKept DEF Untied
    <3> QED BY <2>2, <2>3, <3>1 DEF Contents
  <2>5. CASE ~On(op, Adding)
    <3>1. Written'
      BY <2>1, <2>5 DEF Written, On
    <3> QED BY <2>2, <2>3, <3>1 DEF Contents
  <2> QED BY <2>4, <2>5
<1> QED BY <1>4, <1>5, <1>6, <1>7 DEF Next

-----------------------------------------------------------------------------
(***************************************************************************)
(* What each step does to the store.                                       *)
(***************************************************************************)
(* A step before and after which the files can be told apart and read. *)
Undamaged == Sound /\ Contents /\ UniqueNames /\ Sound' /\ UniqueNames'

(* As long as the store is not lost, no step is damaged. *)
LEMMA StillUndamaged == ASSUME ContentsInv, [Next]_vars, ~Spoiled' PROVE Undamaged /\ ~Spoiled
<1>1. harm \subseteq harm'
  BY HarmGrows DEF vars
<1>2. "cut" \notin harm' /\ "misread" \notin harm' /\ "misread" \notin harm /\ ~Spoiled
  BY <1>1 DEF Spoiled
<1>3. Sound /\ Contents /\ Sound'
  BY <1>2, StillSound
<1>4. UniqueNames /\ UniqueNames'
  BY <1>2, <1>3 DEF Sound, NamesInv, NamesStayUnique
<1> QED BY <1>2, <1>3, <1>4 DEF Undamaged

(* What is typed, and whole, in such a step. *)
LEMMA UndamagedTypes ==
  ASSUME Undamaged
  PROVE  /\ TypeInv /\ TypeOK /\ TypeOK' /\ NamesInv /\ Owners /\ FilesWhole /\ FilesWhole'
         /\ UniqueNames /\ UniqueNames'
BY DEF Undamaged, Sound, NamesInv, TypeInv

(* The file of a call that has looked it up: its slot, and what its name stands for.   *)
LEMMA OwnFile ==
  ASSUME Undamaged, On(op, OnSlot)
  PROVE  /\ op.slot \in Slots /\ Live(op.slot) /\ dir[op.slot].name = op.name /\ op.name \in Names
         /\ ~On(op, Freeing) => ~Dangling(op.slot)
         /\ dir[op.slot] \in Entries
<1>1. op.slot \in Slots /\ Live(op.slot) /\ op.name \in Names
  BY DEF Undamaged, Sound, NamesInv, TypeInv, CallOK, OnLiveSlot, On, OnSlot
<1>2. dir[op.slot].name = op.name
  BY DEF Undamaged, Contents, SlotNamed
<1>3. ~On(op, Freeing) => ~Dangling(op.slot)
  BY <1>1, UndamagedTypes, NoneDangles DEF BeingFreed
<1>4. dir[op.slot] \in Entries
  BY <1>1, UndamagedTypes DEF TypeOK
<1> QED BY <1>1, <1>2, <1>3, <1>4

(* Steps that write neither to the directory, nor to the first FAT, nor data. *)
LEMMA StoreQuiet ==
  ASSUME Undamaged, fat'[1] = fat[1], dir' = dir, data' = data
  PROVE  Store' = Store
BY UndamagedTypes, SameDisk, StoreSame

(* Links that are written to clusters without one, and data to free clusters. *)
LEMMA StoreUntied ==
  ASSUME Undamaged, Untied, dir' = dir, ~On(op, Freeing),
         \A x \in Files : data'[x] # data[x] => \A s \in Slots : OffChain(x, s)
  PROVE  Store' = Store
<1>1. \A s \in Slots : ~Dangling(s)
  BY UndamagedTypes, NoneDangles DEF BeingFreed
<1>2. ASSUME NEW s \in Slots PROVE Same(s)
  <2>1. dir'[s] = dir[s] /\ (Live(s)' <=> Live(s))
    BY DEF Live
  <2>2. ~Dangling(s)'
    <3>1. SUFFICES ASSUME Live(s), dir[s].first # 0, fat'[1][dir[s].first] = Free PROVE FALSE
      BY <2>1 DEF Dangling
    <3>2. dir[s].first \in Files
      BY <3>1, UndamagedTypes DEF Owners, Sane
    <3>3. fat[1][dir[s].first] # Free
      BY <1>1, <3>1 DEF Dangling
    <3> QED BY <3>1, <3>2, <3>3 DEF Untied
  <2>3. \A x \in Files : fat'[1][x] # fat[1][x]
                            => OffChain(x, s) \/ (fat[1][x] \notin Files /\ fat'[1][x] # Free)
    BY DEF Untied
  <2> QED BY <1>1, <2>1, <2>2, <2>3, UndamagedTypes, SameFile
<1> QED BY <1>2, UndamagedTypes, StoreSame

(* The clusters an append takes are free until they are marked, and unlinked until the *)
(* end of the chain is.                                                                *)
LEMMA StoreTakes ==
  ASSUME Undamaged, Mark \/ MarkNew \/ Link
  PROVE  Store' = Store
<1>0. Sound /\ TypeInv /\ Owners
  BY UndamagedTypes DEF Undamaged
<1>1. dir' = dir /\ data' = data
  BY DEF Mark, MarkNew, Link, WriteFat
<1>2. ~On(op, Freeing)
  BY DEF Mark, MarkNew, Link, At, On, Freeing
<1>3. Untied
  <2>1. Free \notin Files /\ EOC # Free /\ Free \notin {EOC} /\ EOC \notin Files
    BY Sizes DEF Free
  <2>2. CASE Mark
    <3>1. On(op, {"fill", "mark", "commit"}) /\ On(op, {"mark"})
      BY <2>2 DEF Mark, At, On
    <3>2. op.cluster \in Files /\ (op.copy = 1 => fat[1][op.cluster] = Free)
      BY <1>0, <3>1 DEF Owners, Owns, Writable, Sound, Known, Taken, Taking
    <3>3. \A d \in Clusters : fat'[1][d] = IF op.copy = 1 /\ d = op.cluster THEN EOC ELSE fat[1][d]
      BY <1>0, <2>2, <3>2, FatStep, Sizes DEF Mark
    <3> QED BY <1>0, <1>1, <1>2, <2>1, <3>2, <3>3, WriteWhole
  <2>3. CASE MarkNew
    <3>1. On(op, {"mark_new", "link"}) /\ On(op, {"mark_new"})
      BY <2>3 DEF MarkNew, At, On
    <3>2. op.next \in Files /\ (op.copy = 1 => fat[1][op.next] = Free)
      BY <1>0, <3>1 DEF Owners, Owns, Linkable, Sound, Known, Tailed, Marking
    <3>3. \A d \in Clusters : fat'[1][d] = IF op.copy = 1 /\ d = op.next THEN EOC ELSE fat[1][d]
      BY <1>0, <2>3, <3>2, FatStep, Sizes DEF MarkNew
    <3> QED BY <1>0, <1>1, <1>2, <2>1, <3>2, <3>3, WriteWhole
  <2>4. CASE Link
    <3> DEFINE after == [Advance(op) EXCEPT !.cluster = op.next, !.next = 0,
                                            !.done = Smaller(@ + ClusterSize, Len(op.buf))]
    <3>1. On(op, {"mark_new", "link"}) /\ On(op, {"link"}) /\ On(op, Adding \cup {"patch"})
      BY <2>4 DEF Link, At, On, Adding
    <3>2. op.next \in Files /\ (op.copy = 1 => fat[1][op.cluster] = EOC)
      BY <1>0, <3>1 DEF Owners, Owns, Linkable, Sound, Known, Tailed
    <3>3. op.cluster \in Files
      <4>1. PICK c : Linked(First, Hops(Full), c) /\ c[Hops(Full)] = op.cluster
        BY <1>0, <3>1 DEF Sound, Known, Reached
      <4>2. Full \in Nat
        BY <1>0, <3>1 DEF Full, TypeInv, TypeOK, Entries, CallOK, Calls, On, OnSlot, Working,
           StepNames, Adding
      <4>3. Hops(Full) \in 0..Hops(Full)
        BY <4>2, HopsType
      <4> QED BY <4>1, <4>3 DEF Linked, Links
    <3>4. WriteFat(op.cluster, op.next, op, after)
      BY <2>4 DEF Link
    <3> HIDE DEF after
    <3>5. \A d \in Clusters : fat'[1][d] = IF op.copy = 1 /\ d = op.cluster THEN op.next ELSE fat[1][d]
      BY <1>0, <3>3, <3>4, FatStep, Sizes
    <3>6. op.next # Free
      BY <2>1, <3>2
    <3> QED BY <1>0, <1>1, <1>2, <2>1, <3>2, <3>3, <3>5, <3>6, WriteWhole
  <2> QED BY <2>2, <2>3, <2>4
<1> QED BY <1>1, <1>2, <1>3, StoreUntied

(* The next cluster of an append is filled while it is free. *)
LEMMA StoreGrow == ASSUME Undamaged, Grow PROVE Store' = Store
<1> DEFINE low == Minimum(FreeClusters)
           rest == Padded(SubSeq(op.buf, op.done + 1, Len(op.buf)))
           o == [op EXCEPT !.todo = <<"mark_new", "link">> \o @, !.next = low]
<1>1. At("grow") /\ FreeClusters # {} /\ WriteData(low, rest, o)
  BY DEF Grow
<1> HIDE DEF rest, o
<1>2. fat[1][low] = Free
  BY <1>1, LowestFree DEF FreeClusters
<1> HIDE DEF low
<1>3. fat' = fat /\ dir' = dir /\ (data' = data \/ data' = [data EXCEPT ![low] = rest])
  BY <1>1 DEF WriteData
<1>4. Untied /\ ~On(op, Freeing)
  BY <1>1, <1>3 DEF Untied, At, On, Freeing
<1>5. \A x \in Files : data'[x] # data[x] => x = low
  BY <1>3, UndamagedTypes DEF TypeOK
<1> QED BY <1>2, <1>3, <1>4, <1>5, FreeOff, StoreUntied

(* Steps that write one entry: another file stays in the directory, with its content.  *)
LEMMA OthersSame ==
  ASSUME Undamaged, NEW h \in Slots, NEW e, dir' = [dir EXCEPT ![h] = e], e.name # "end",
         fat' = fat, data' = data
  PROVE  /\ dir'[h] = e
         /\ \A s \in Slots \ {h} : Same(s)
         /\ Live(h) /\ e.name \in Names => Live(h)'
<1>1. /\ dir'[h] = e
      /\ \A s \in Slots : s # h => dir'[s] = dir[s]
      /\ \A s \in Slots : s # h /\ Live(s)' => Live(s)
  BY UndamagedTypes, OtherLive
<1>2. \A s \in Slots : \A t \in 1..s : t \in Slots
  BY SizesAssumption DEF Slots
<1>3. \A s \in Slots : s # h /\ Live(s) => Live(s)'
  BY <1>1, <1>2 DEF Live
<1>4. ASSUME NEW s \in Slots \ {h} PROVE Same(s)
  <2>1. dir'[s] = dir[s] /\ (Live(s)' <=> Live(s))
    BY <1>1, <1>3
  <2>2. Live(s) => (Dangling(s)' <=> Dangling(s))
    BY <2>1 DEF Dangling
  <2> QED BY <2>1, <2>2, UndamagedTypes, SameFile
<1>5. Live(h) /\ e.name \in Names => Live(h)'
  BY <1>1, <1>2 DEF Live
<1> QED BY <1>1, <1>4, <1>5

(* fs_create: a name that stood for nothing stands for an empty file. *)
LEMMA StoreCreate ==
  ASSUME Undamaged, CreateEntry, "misread" \notin harm'
  PROVE  Store[op.name] = Absent /\ Becomes(op.name, <<>>)
<1> PICK h : h = Minimum(Holes)
  OBVIOUS
<1> PICK n : n = op.name
  OBVIOUS
<1> PICK e : e = [name |-> n, first |-> 0, size |-> 0]
  OBVIOUS
<1>1. /\ At("create") /\ Holes # {} /\ dir' = [dir EXCEPT ![h] = e] /\ fat' = fat /\ data' = data
      /\ Ends(Advance(op), IF Misread(n, Missing) THEN {"fault", "misread"} ELSE {})
  BY DEF CreateEntry
<1>2. h \in Slots /\ h \in Holes /\ \A s \in Holes : h <= s
  BY <1>1, LowestHole
<1>3. n \in Names
  BY <1>1, UndamagedTypes, TypeHere DEF Working, StepNames
<1>4. n # "end" /\ n # "deleted"
  BY <1>3, NamesAssumption
<1>5. Named(n) = {}
  BY <1>1 DEF Ends, Misread
<1>6. e.name = n /\ e.first = 0 /\ e.size = 0
  OBVIOUS
<1>7. dir'[h] = e /\ \A s \in Slots \ {h} : Same(s)
  BY <1>1, <1>2, <1>4, <1>6, OthersSame
<1>8. ~Live(h)
  BY <1>2, NamesAssumption DEF Live, Holes
<1>9. Live(h)'
  <2>1. ASSUME NEW t \in 1..h PROVE dir'[t].name # "end"
    <3>1. t \in Slots /\ t \in Nat /\ h \in Nat /\ t <= h
      BY <1>2, SizesAssumption DEF Slots
    <3>2. CASE t = h
      BY <1>4, <1>6, <1>7, <3>2
    <3>3. CASE t # h
      <4>1. t \notin Holes
        BY <1>2, <3>1, <3>3
      <4>2. dir'[t] = dir[t]
        BY <1>1, <1>2, <3>1, <3>3, UndamagedTypes, OtherLive
      <4> QED BY <3>1, <4>1, <4>2 DEF Holes
    <3> QED BY <3>2, <3>3
  <2> QED BY <1>3, <1>6, <1>7, <2>1 DEF Live
<1>10. View(h)' = <<>>
  <2>1. ~Dangling(h)'
    BY <1>6, <1>7 DEF Dangling
  <2>2. ContentOf(h)' = <<>>
    BY <1>2, <1>6, <1>7, ReadsNothingThen DEF ReadsNothing
  <2> QED BY <2>1, <2>2 DEF View
<1>11. dir'[h].name = n
  BY <1>6, <1>7
<1>12. Store[n] = Absent /\ Becomes(n, <<>>)
  BY <1>2, <1>3, <1>5, <1>7, <1>8, <1>9, <1>10, <1>11, UndamagedTypes, StoreGains
<1> QED BY <1>12

(* fs_truncate ends with an empty file. *)
LEMMA StoreClear ==
  ASSUME Undamaged, Clear
  PROVE  Becomes(op.name, <<>>)
<1> PICK h : h = op.slot
  OBVIOUS
<1> PICK n : n = op.name
  OBVIOUS
<1> PICK e : e = [dir[h] EXCEPT !.first = 0, !.size = 0]
  OBVIOUS
<1>1. At("clear") /\ dir' = [dir EXCEPT ![h] = e] /\ fat' = fat /\ data' = data
  BY DEF Clear, WriteDir
<1>2. /\ h \in Slots /\ Live(h) /\ dir[h].name = n /\ n \in Names /\ dir[h] \in Entries
  BY <1>1, OwnFile DEF At, On, OnSlot, Working, StepNames
<1>3. e.name = n /\ e.first = 0 /\ e.size = 0
  BY <1>2 DEF Entries
<1>4. e.name # "end" /\ e.name \in Names
  BY <1>2, <1>3, NamesAssumption
<1>4a. h \in Slots /\ Live(h) /\ dir' = [dir EXCEPT ![h] = e] /\ fat' = fat /\ data' = data
  BY <1>1, <1>2
<1>5. dir'[h] = e /\ (\A s \in Slots \ {h} : Same(s)) /\ Live(h)'
  BY <1>4, <1>4a, OthersSame
<1>6. View(h)' = <<>>
  <2>1. ~Dangling(h)'
    BY <1>3, <1>5 DEF Dangling
  <2>2. ContentOf(h)' = <<>>
    BY <1>2, <1>3, <1>5, ReadsNothingThen DEF ReadsNothing
  <2> QED BY <2>1, <2>2 DEF View
<1>7. Becomes(n, <<>>)
  BY <1>2, <1>3, <1>5, <1>6, UndamagedTypes, StoreBecomes
<1> QED BY <1>7

(* A view of a file in the directory is never what stands for none. *)
LEMMA ViewStands == ASSUME Undamaged, NEW s \in Slots, Live(s) PROVE View(s) # Absent
BY UndamagedTypes, ReadingsNow, NoContents DEF Readings, Contained, View

(* fs_delete ends with no file. *)
LEMMA StoreErase ==
  ASSUME Undamaged, Erase
  PROVE  Store[op.name] # Absent /\ Becomes(op.name, Absent)
<1> PICK h : h = op.slot
  OBVIOUS
<1> PICK n : n = op.name
  OBVIOUS
<1> PICK e : e = [name |-> "deleted", first |-> 0, size |-> 0]
  OBVIOUS
<1>1. At("erase") /\ dir' = [dir EXCEPT ![h] = e] /\ fat' = fat /\ data' = data
  BY DEF Erase, WriteDir
<1>2. /\ h \in Slots /\ Live(h) /\ dir[h].name = n /\ n \in Names
  BY <1>1, OwnFile DEF At, On, OnSlot, Working, StepNames
<1>3. e.name = "deleted" /\ "deleted" # "end" /\ "deleted" \notin Names
  BY NamesAssumption
<1>4. dir'[h] = e /\ (\A s \in Slots \ {h} : Same(s))
  BY <1>1, <1>2, <1>3, OthersSame
<1>5. ~Live(h)'
  BY <1>3, <1>4 DEF Live
<1>6. Store[n] = View(h) /\ Becomes(n, Absent)
  BY <1>2, <1>4, <1>5, UndamagedTypes, StoreLoses
<1> QED BY <1>2, <1>6, ViewStands

(* fs_rename: the content moves to a name that stood for nothing. *)
LEMMA StoreRename ==
  ASSUME Undamaged, RenameEntry, "misread" \notin harm'
  PROVE  /\ op.new \in Names /\ op.name \in Names /\ op.new # op.name
         /\ Store[op.new] = Absent /\ Moves(op.name, op.new)
<1> PICK h : h = op.slot
  OBVIOUS
<1> PICK n : n = op.name
  OBVIOUS
<1> PICK m : m = op.new
  OBVIOUS
<1> PICK e : e = [dir[h] EXCEPT !.name = m]
  OBVIOUS
<1>1. /\ At("rename") /\ dir' = [dir EXCEPT ![h] = e] /\ fat' = fat /\ data' = data
      /\ Ends(Advance(op), IF Misread(m, Missing) THEN {"fault", "misread"} ELSE {})
  BY DEF RenameEntry
<1>2. /\ h \in Slots /\ Live(h) /\ dir[h].name = n /\ n \in Names /\ dir[h] \in Entries
      /\ ~Dangling(h)
  BY <1>1, OwnFile DEF At, On, OnSlot, Working, StepNames, Freeing
<1>3. m \in Names
  BY <1>1, UndamagedTypes, TypeHere DEF Working, StepNames
<1>4. Named(m) = {}
  BY <1>1 DEF Ends, Misread
<1>5. e.name = m /\ e.first = dir[h].first /\ e.size = dir[h].size /\ m # "end"
  BY <1>2, <1>3, NamesAssumption DEF Entries
<1>6. dir'[h] = e /\ (\A s \in Slots \ {h} : Same(s)) /\ Live(h)'
  BY <1>1, <1>2, <1>3, <1>5, OthersSame
<1>7. View(h)' = View(h)
  <2>1. ~Dangling(h)'
    BY <1>1, <1>2, <1>5, <1>6 DEF Dangling
  <2>2. dir'[h].first = dir[h].first /\ dir'[h].size = dir[h].size
    BY <1>5, <1>6
  <2> QED BY <1>1, <1>2, <2>1, <2>2, UndamagedTypes, SameView
<1>8. m # n /\ Store[m] = Absent /\ Moves(n, m)
  BY <1>2, <1>3, <1>4, <1>5, <1>6, <1>7, UndamagedTypes, StoreMoves
<1> QED BY <1>2, <1>3, <1>8

(* The first cluster of a chain that is freed takes the content of the file with it. *)
LEMMA StoreFree ==
  ASSUME Undamaged, FreeCluster
  PROVE  Store[op.name] # Absent /\ Becomes(op.name, Torn)
<1> PICK h : h = op.slot
  OBVIOUS
<1> PICK n : n = op.name
  OBVIOUS
<1>1. /\ h \in Slots /\ Live(h) /\ dir' = dir
      /\ op.copy = 1 => op.cluster \in Files /\ OnlyOwn(op.cluster)
      /\ \A d \in Clusters : fat'[1][d] = IF op.copy = 1 /\ d = op.cluster THEN Free ELSE fat[1][d]
      /\ dir[h].first \in Files /\ fat'[1][dir[h].first] = Free
  BY FreesFirst DEF Undamaged, First
<1>2. dir[h].name = n /\ n \in Names
  <2>1. On(op, OnSlot)
    BY DEF FreeCluster, At, On, OnSlot, Working, StepNames
  <2> QED BY <2>1, OwnFile
<1>3. data' = data
  BY DEF FreeCluster, WriteFat
<1>4. Live(h)' /\ dir'[h].name = n
  BY <1>1, <1>2 DEF Live
<1>5. View(h)' = Torn
  <2>1. Dangling(h)'
    BY <1>1, <1>4, Sizes DEF Dangling
  <2> QED BY <2>1 DEF View, Torn
<1>6. ASSUME NEW s \in Slots \ {h} PROVE Same(s)
  <2>1. dir'[s] = dir[s] /\ (Live(s)' <=> Live(s))
    BY <1>1 DEF Live
  <2>2. \A x \in Files : fat'[1][x] # fat[1][x] => op.copy = 1 /\ x = op.cluster
    BY <1>1, Sizes
  <2>3. CASE Live(s)
    <3>1. \A x \in Files : fat'[1][x] # fat[1][x] => OffChain(x, s)
      BY <1>1, <1>6, <2>2, <2>3, UndamagedTypes, OwnOff
    <3>2. Dangling(s)' <=> Dangling(s)
      <4>1. CASE dir[s].first = 0
        BY <2>1, <4>1 DEF Dangling
      <4>2. CASE dir[s].first # 0
        <5>1. dir[s].first \in Files
          BY <4>2, UndamagedTypes DEF Owners, Sane
        <5>2. op.copy = 1 => dir[s].first # op.cluster
          BY <1>1, <1>6, <2>3, <4>2 DEF OnlyOwn, DirRef
        <5>3. fat'[1][dir[s].first] = fat[1][dir[s].first]
          BY <2>2, <5>1, <5>2
        <5> QED BY <2>1, <5>3 DEF Dangling
      <4> QED BY <4>1, <4>2
    <3> QED BY <1>3, <2>1, <3>1, <3>2, UndamagedTypes, SameFile
  <2>4. CASE ~Live(s)
    BY <2>1, <2>4 DEF Same
  <2> QED BY <2>3, <2>4
<1>7. Store[n] = View(h) /\ Becomes(n, Torn)
  BY <1>1, <1>2, <1>4, <1>5, <1>6, UndamagedTypes, StoreBecomes
<1>8. Store[n] # Absent
  BY <1>1, <1>7, ViewStands
<1> QED BY <1>7, <1>8

(* A file of one cluster is what the beginning of the cluster holds. *)
ReadsOne ==
  TypeOK /\ FilesWhole => \A s \in Slots :
    Contained(s) /\ dir[s].first # 0 /\ Hops(dir[s].size) = 0
      => View(s) = [i \in 1..dir[s].size |-> data[dir[s].first][i]]

LEMMA ReadsOneNow == ReadsOne
<1> SUFFICES ASSUME TypeOK, FilesWhole, NEW s \in Slots, Contained(s), dir[s].first # 0,
                    Hops(dir[s].size) = 0
             PROVE  View(s) = [i \in 1..dir[s].size |-> data[dir[s].first][i]]
  BY DEF ReadsOne
<1>1. dir[s].size \in Nat
  BY DEF TypeOK, Entries
<1>2. Whole(s)
  BY DEF FilesWhole, Contained, Empty
<1>3. PICK c : Linked(dir[s].first, 0, c)
  BY <1>2 DEF Whole
<1>4. c[0] = dir[s].first
  BY <1>3 DEF Linked, Links
<1>5. \A i \in 1..dir[s].size : Hops(i) = 0 /\ Offset(i) = i
  BY <1>1, FirstCluster
<1>6. ContentOf(s) = [i \in 1..dir[s].size |-> data[c[Hops(i)]][Offset(i)]]
  <2>1. TypeOK /\ s \in Slots
    OBVIOUS
  <2>2. \A m \in Nat : \A d : Linked(dir[s].first, m, d) /\ Hops(dir[s].size) <= m
          => ContentOf(s) = [i \in 1..dir[s].size |-> data[d[Hops(i)]][Offset(i)]]
    BY <2>1, ReadsChainNow DEF ReadsChain
  <2>3. 0 \in Nat /\ Hops(dir[s].size) <= 0
    OBVIOUS
  <2> QED BY <1>3, <2>2, <2>3
<1>7. View(s) = ContentOf(s)
  BY DEF Contained, View
<1> QED BY <1>4, <1>5, <1>6, <1>7

(* The same after a step. *)
LEMMA ReadsOneThen == ReadsOne'
BY ReadsOneNow, PTL

(* A chain that ends where it begins is long enough for a file of one cluster only. *)
LEMMA OneHop ==
  ASSUME TypeOK, NEW s \in Slots, Whole(s), fat[1][dir[s].first] = EOC
  PROVE  Hops(dir[s].size) = 0
<1>1. dir[s].size \in Nat
  BY DEF TypeOK, Entries
<1>2. PICK k \in Nat : k = Hops(dir[s].size)
  BY <1>1, HopsType
<1>3. PICK c : Linked(dir[s].first, k, c)
  BY <1>2 DEF Whole
<1>4. ASSUME k # 0 PROVE FALSE
  <2>1. 0 \in 0..k - 1 /\ 0 + 1 \in 0..k
    BY <1>2, <1>4
  <2>2. fat[1][c[0]] = c[0 + 1] /\ c[0] = dir[s].first /\ c[0 + 1] \in Files
    BY <1>3, <2>1 DEF Linked, Links
  <2> QED BY <2>2, Sizes
<1> QED BY <1>2, <1>4

(* What a call of fs_write_file knows of its file: it has one cluster, or none. *)
LEMMA OneOrNone ==
  ASSUME Undamaged, On(op, {"fill", "commit"})
  PROVE  /\ op.buf \in Buffers /\ op.cluster \in Files /\ OnlyOwn(op.cluster)
         /\ \/ First = 0 /\ dir[op.slot].size = 0
            \/ First = op.cluster /\ Hops(dir[op.slot].size) = 0
<1>0. Sound /\ TypeInv /\ Owners /\ Contents /\ TypeOK
  BY UndamagedTypes DEF Undamaged
<1>1. On(op, OnSlot) /\ On(op, {"fill", "mark", "commit"}) /\ ~On(op, Freeing)
  BY DEF On, OnSlot, Working, StepNames, Freeing
<1>2. op.slot \in Slots /\ Live(op.slot) /\ ~Dangling(op.slot)
  BY <1>1, OwnFile
<1>3. op.buf \in Buffers /\ First \in {0, op.cluster}
  <2>1. op.buf # <<>> /\ First \in {0, op.cluster}
    BY <1>0, <1>1 DEF Sound, Known, OneCluster
  <2> QED BY <1>0, <2>1 DEF TypeInv, CallOK, Calls
<1>4. op.cluster \in Files /\ OnlyOwn(op.cluster)
  BY <1>0, <1>1 DEF Owners, Owns, Writable
<1>5. Empty(op.slot) \/ Whole(op.slot)
  BY <1>0, <1>2 DEF Sound, FilesWhole
<1>6. CASE First = 0
  <2>1. ~Whole(op.slot)
    <3> SUFFICES ASSUME NEW c, Linked(dir[op.slot].first, Hops(dir[op.slot].size), c) PROVE FALSE
      BY DEF Whole
    <3>1. Hops(dir[op.slot].size) \in Nat
      <4>1. dir[op.slot].size \in Nat
        BY <1>0, <1>2 DEF TypeOK, Entries
      <4> QED BY <4>1, HopsType
    <3>2. c[0] = 0 /\ c[0] \in Files
      <4>1. 0 \in 0..Hops(dir[op.slot].size)
        BY <3>1
      <4> QED BY <1>6, <4>1 DEF Linked, Links, First
    <3> QED BY <3>2, Sizes
  <2> QED BY <1>3, <1>4, <1>5, <1>6, <2>1 DEF Empty
<1>7. CASE First # 0
  <2>1. fat[1][First] = EOC
    BY <1>0, <1>7 DEF Contents, Alone
  <2>2. Whole(op.slot)
    BY <1>5, <1>7 DEF Empty, First
  <2> QED BY <1>0, <1>2, <1>3, <1>4, <1>7, <2>1, <2>2, OneHop DEF First
<1> QED BY <1>6, <1>7

(* An empty file is filled unseen; another is changed in place, within its old size. *)
LEMMA StoreFill ==
  ASSUME Undamaged, Fill
  PROVE  \/ Store' = Store
         \/ /\ Store[op.name] \in Seq(Nat) /\ op.buf \in Buffers
            /\ Becomes(op.name, F!Resized(op.buf, Len(Store[op.name])))
<1> PICK h : h = op.slot
  OBVIOUS
<1> PICK n : n = op.name
  OBVIOUS
<1> PICK b : b = op.buf
  OBVIOUS
<1>1. On(op, {"fill", "commit"}) /\ On(op, OnSlot) /\ ~On(op, Freeing)
  BY DEF Fill, At, On, OnSlot, Working, StepNames, Freeing
<1>2. /\ h \in Slots /\ Live(h) /\ dir[h].name = n /\ n \in Names /\ ~Dangling(h)
      /\ dir[h] \in Entries
  BY <1>1, OwnFile
<1> PICK x : x = op.cluster
  OBVIOUS
<1>3. /\ b \in Buffers /\ x \in Files /\ OnlyOwn(x)
      /\ \/ dir[h].first = 0 /\ dir[h].size = 0
         \/ dir[h].first = x /\ Hops(dir[h].size) = 0
  BY <1>1, OneOrNone DEF First
<1>4. fat' = fat /\ dir' = dir /\ data' = [data EXCEPT ![x] = Padded(b)]
  BY <1>3 DEF Fill, WriteData
<1>5. data'[x] = Padded(b) /\ \A y \in Files : data'[y] # data[y] => y = x
  BY <1>3, <1>4, UndamagedTypes DEF TypeOK
<1>6. \A s \in Slots : dir'[s] = dir[s] /\ (Live(s)' <=> Live(s)) /\ (Dangling(s)' <=> Dangling(s))
  BY <1>4 DEF Live, Dangling
<1>7. \A s \in Slots \ {h} : Same(s)
  <2> SUFFICES ASSUME NEW s \in Slots \ {h} PROVE Same(s)
    OBVIOUS
  <2>1. CASE Live(s)
    <3>1. OffChain(x, s)
      BY <1>3, <2>1, UndamagedTypes, OwnOff
    <3> QED BY <1>4, <1>5, <1>6, <3>1, UndamagedTypes, SameFile
  <2>2. CASE ~Live(s)
    BY <1>6, <2>2 DEF Same
  <2> QED BY <2>1, <2>2
<1>8. Live(h)' /\ dir'[h].name = n /\ ~Dangling(h)'
  BY <1>2, <1>6
<1>9. CASE dir[h].first = 0 /\ dir[h].size = 0
  <2>1. ContentOf(h) = <<>> /\ ContentOf(h)' = <<>>
    BY <1>2, <1>4, <1>9, ReadsNothingNow, ReadsNothingThen DEF ReadsNothing
  <2>2. View(h)' = View(h)
    BY <1>2, <1>8, <2>1 DEF View
  <2>3. Same(h)
    BY <1>2, <1>6, <2>2 DEF Same
  <2> QED BY <1>7, <2>3, UndamagedTypes, StoreSame
<1>10. CASE dir[h].first = x /\ Hops(dir[h].size) = 0
  <2>1. PICK z \in Nat : z = dir[h].size
    BY <1>2 DEF Entries
  <2>2. x # 0
    BY <1>3, Sizes
  <2>3. View(h) \in Seq(Nat) /\ Len(View(h)) = z
    BY <1>2, <2>1, UndamagedTypes, ReadingsNow DEF Readings, Contained
  <2>4. View(h)' = [i \in 1..z |-> data'[x][i]]
    BY <1>2, <1>4, <1>6, <1>8, <1>10, <2>1, <2>2, UndamagedTypes, ReadsOneThen
       DEF ReadsOne, Contained
  <2>5. \A i \in 1..z : i \in 1..ClusterSize
    BY <1>10, <2>1, FirstCluster
  <2>6. View(h)' = F!Resized(b, z)
    <3>1. \A i \in 1..z : data'[x][i] = IF i <= Len(b) THEN b[i] ELSE 0
      BY <1>5, <2>5 DEF Padded
    <3> QED BY <2>4, <3>1 DEF F!Resized
  <2>7. PICK v : v = F!Resized(b, z)
    OBVIOUS
  <2>8. Store[n] = View(h) /\ Becomes(n, v)
    BY <1>2, <1>7, <1>8, <2>6, <2>7, UndamagedTypes, StoreBecomes
  <2> QED BY <1>3, <2>3, <2>7, <2>8
<1> QED BY <1>3, <1>9, <1>10

(* The directory entry makes the buffer the content of the file. *)
LEMMA StoreCommit ==
  ASSUME Undamaged, Commit
  PROVE  /\ Store[op.name] \in Seq(Nat) /\ op.buf \in Buffers
         /\ Store[op.name] = F!Resized(op.buf, Len(Store[op.name]))
         /\ Becomes(op.name, op.buf)
<1> PICK h : h = op.slot
  OBVIOUS
<1> PICK n : n = op.name
  OBVIOUS
<1> PICK b : b = op.buf
  OBVIOUS
<1> PICK x : x = op.cluster
  OBVIOUS
<1>1. /\ On(op, {"fill", "commit"}) /\ On(op, OnSlot) /\ ~On(op, Freeing) /\ On(op, {"mark", "commit"})
      /\ On(op, {"fill", "mark", "commit"}) /\ On(op, {"commit"})
  BY DEF Commit, At, On, OnSlot, Working, StepNames, Freeing
<1>2. /\ h \in Slots /\ Live(h) /\ dir[h].name = n /\ n \in Names /\ ~Dangling(h)
      /\ dir[h] \in Entries
  BY <1>1, OwnFile
<1>3. /\ b \in Buffers /\ x \in Files
      /\ \/ dir[h].first = 0 /\ dir[h].size = 0
         \/ dir[h].first = x /\ Hops(dir[h].size) = 0
  BY <1>1, OneOrNone DEF First
<1>4. data[x] = Padded(b) /\ fat[1][x] # Free
  BY <1>1, UndamagedTypes DEF Undamaged, Contents, Filled, Owners, Owns, Marked, InUse
<1>5. b \in Seq(Nat \ {0}) /\ Len(b) \in Nat
  BY <1>3, Buffered
<1>6. ~(Len(b) > ClusterSize)
  BY <1>1 DEF Undamaged, Sound, Known, OneCluster
<1>7. fat' = fat /\ data' = data
  BY DEF Commit, WriteDir
<1>8. PICK e : dir' = [dir EXCEPT ![h] = e] /\ e.name = n /\ e.first = x /\ e.size = Len(b)
  <2> DEFINE r == [dir[h] EXCEPT !.first = x, !.size = Len(b)]
  <2>1. dir' = [dir EXCEPT ![h] = r]
    BY DEF Commit, WriteDir
  <2>2. r.name = n /\ r.first = x /\ r.size = Len(b)
    BY <1>2 DEF Entries
  <2> HIDE DEF r
  <2> QED BY <2>1, <2>2
<1>9. e.name # "end" /\ e.name \in Names
  BY <1>2, <1>8, NamesAssumption
<1>9a. h \in Slots /\ Live(h) /\ dir' = [dir EXCEPT ![h] = e] /\ fat' = fat /\ data' = data
  BY <1>2, <1>7, <1>8
<1>10. dir'[h] = e /\ (\A s \in Slots \ {h} : Same(s)) /\ Live(h)'
  BY <1>9, <1>9a, OthersSame
<1>11. View(h) \in Seq(Nat) /\ View(h) = F!Resized(b, Len(View(h)))
  <2>1. View(h) \in Seq(Nat) /\ Len(View(h)) = dir[h].size
    BY <1>2, UndamagedTypes, ReadingsNow DEF Readings, Contained
  <2>2. CASE dir[h].first = 0 /\ dir[h].size = 0
    <3>1. View(h) = <<>> /\ F!Resized(b, 0) = <<>>
      BY <2>1, <2>2 DEF F!Resized
    <3> QED BY <2>1, <2>2, <3>1
  <2>3. CASE dir[h].first = x /\ Hops(dir[h].size) = 0
    <3>1. PICK z \in Nat : z = dir[h].size
      BY <1>2 DEF Entries
    <3>2. x # 0
      BY <1>3, Sizes
    <3>3. View(h) = [i \in 1..z |-> data[x][i]]
      BY <1>2, <2>3, <3>1, <3>2, UndamagedTypes, ReadsOneNow DEF ReadsOne, Contained
    <3>4. \A i \in 1..z : i \in 1..ClusterSize
      BY <2>3, <3>1, FirstCluster
    <3>5. \A i \in 1..z : data[x][i] = IF i <= Len(b) THEN b[i] ELSE 0
      BY <1>4, <3>4 DEF Padded
    <3>6. View(h) = F!Resized(b, z)
      BY <3>3, <3>5 DEF F!Resized
    <3> QED BY <2>1, <3>1, <3>6
  <2> QED BY <1>3, <2>2, <2>3
<1>12. View(h)' = b
  <2>1. Hops(Len(b)) = 0
    <3> PICK l \in Nat : l = Len(b)
      BY <1>5
    <3>1. 0 * ClusterSize = 0 /\ (0 + 1) * ClusterSize = ClusterSize
      BY SizesAssumption
    <3>2. CASE l = 0
      BY <3>2 DEF Hops
    <3>3. CASE l # 0
      <4>1. 0 * ClusterSize < l /\ l <= (0 + 1) * ClusterSize
        BY <1>6, <3>1, <3>3, SizesAssumption
      <4> QED BY <4>1, HopsIs
    <3> QED BY <3>2, <3>3
  <2>2. ~Dangling(h)' /\ x # 0
    BY <1>3, <1>4, <1>7, <1>8, <1>10, Sizes DEF Dangling
  <2> PICK l \in Nat : l = Len(b)
    BY <1>5
  <2>3. Hops(l) = 0 /\ dir'[h].size = l /\ dir'[h].first = x
    BY <1>8, <1>10, <2>1
  <2>4. View(h)' = [i \in 1..l |-> data'[x][i]]
    <3>1. TypeOK' /\ FilesWhole' /\ h \in Slots /\ Contained(h)'
      BY <1>2, <1>10, <2>2, UndamagedTypes DEF Contained
    <3>2. Hops(dir'[h].size) = 0 /\ dir'[h].first # 0
      BY <2>2, <2>3
    <3>3. View(h)' = [i \in 1..dir'[h].size |-> data'[dir'[h].first][i]]
      BY <3>1, <3>2, ReadsOneThen DEF ReadsOne
    <3> QED BY <2>3, <3>3
  <2>5. \A i \in 1..l : data'[x][i] = b[i]
    <3> SUFFICES ASSUME NEW i \in 1..l PROVE data'[x][i] = b[i]
      OBVIOUS
    <3>1. i \in 1..ClusterSize
      BY <2>3, FirstCluster
    <3>2. i <= Len(b)
      OBVIOUS
    <3> QED BY <1>4, <1>7, <3>1, <3>2 DEF Padded
  <2>6. b = [i \in 1..l |-> b[i]]
    BY <1>5
  <2> QED BY <2>4, <2>5, <2>6
<1>13. Store[n] = View(h) /\ Becomes(n, b)
  BY <1>2, <1>8, <1>10, <1>12, UndamagedTypes, StoreBecomes
<1> QED BY <1>3, <1>11, <1>13

(* What is added to the last cluster lies behind the end of the file. *)
LEMMA StorePatch == ASSUME Undamaged, Patch PROVE Store' = Store
<1> PICK h : h = op.slot
  OBVIOUS
<1> PICK x : x = op.cluster
  OBVIOUS
<1>0. Sound /\ TypeInv /\ Owners /\ TypeOK
  BY UndamagedTypes DEF Undamaged
<1>1. /\ On(op, OnSlot) /\ ~On(op, Freeing) /\ On(op, Adding \cup {"patch"})
      /\ On(op, {"patch", "grow", "mark_new"}) /\ op.todo # <<>> /\ ~On(op, Adding)
  BY DEF Patch, At, On, OnSlot, Working, StepNames, Freeing, Adding
<1>2. h \in Slots /\ Live(h) /\ ~Dangling(h) /\ dir[h] \in Entries
  BY <1>1, OwnFile
<1>3. PICK size \in Nat : size = dir[h].size
  BY <1>2 DEF Entries
<1>4. PICK q \in Nat : q = Hops(size)
  BY <1>3, HopsType
<1>5. Full = size
  <2>1. op.done = 0
    BY <1>0, <1>1 DEF Sound, Known, Begun
  <2> QED BY <1>3, <2>1 DEF Full
<1>6. PICK c : Linked(dir[h].first, q, c) /\ c[q] = x
  BY <1>0, <1>1, <1>4, <1>5 DEF Sound, Known, Reached, First
<1>7. x \in Files /\ fat[1][x] = EOC
  <2>1. q \in 0..q
    BY <1>4
  <2>2. fat[1][x] = EOC
    BY <1>0, <1>1 DEF Sound, Known, Tailed
  <2> QED BY <1>6, <2>1, <2>2 DEF Linked, Links
<1> PICK off : off = Offset(size)
  OBVIOUS
<1>8. PICK units : /\ fat' = fat /\ dir' = dir /\ data' = [data EXCEPT ![x] = units]
                   /\ \A i \in 1..ClusterSize : i <= off => units[i] = data[x][i]
  <2> DEFINE n == Smaller(ClusterSize - off, Len(op.buf))
             u == [i \in 1..ClusterSize |->
                      IF i \in off + 1 .. off + n THEN op.buf[i - off] ELSE data[op.cluster][i]]
  <2>1. WriteData(x, u, [Advance(op) EXCEPT !.done = n])
    BY <1>3 DEF Patch
  <2>2. off \in Int
    BY <1>3, <1>4, SizesAssumption DEF Offset
  <2>3. ASSUME NEW i \in 1..ClusterSize, i <= off PROVE u[i] = data[x][i]
    <3> HIDE DEF n
    <3>1. i \notin off + 1 .. off + n
      BY <2>2, <2>3, SizesAssumption
    <3> QED BY <3>1
  <2> HIDE DEF u
  <2> QED BY <1>7, <2>1, <2>3 DEF WriteData
<1>9. data'[x] = units /\ \A y \in Files : y # x => data'[y] = data[y]
  BY <1>0, <1>7, <1>8 DEF TypeOK
<1>10. \A s \in Slots : dir'[s] = dir[s] /\ (Live(s)' <=> Live(s)) /\ (Dangling(s)' <=> Dangling(s))
  BY <1>8 DEF Live, Dangling
<1>11. ASSUME NEW s \in Slots, s # h PROVE Same(s)
  <2>1. CASE Live(s)
    <3>1. OffChain(x, s)
      BY <1>0, <1>2, <1>4, <1>6, <1>11, <2>1, TailOff DEF Owners
    <3> QED BY <1>8, <1>9, <1>10, <1>11, <3>1, UndamagedTypes, SameFile
  <2>2. CASE ~Live(s)
    BY <1>10, <1>11, <2>2 DEF Same
  <2> QED BY <2>1, <2>2
<1>12. ContentOf(h) = [i \in 1..size |-> data[c[Hops(i)]][Offset(i)]]
  BY <1>0, <1>2, <1>3, <1>4, <1>6, ReadsChainNow DEF ReadsChain
<1>13. ContentOf(h)' = [i \in 1..size |-> data'[c[Hops(i)]][Offset(i)]]
  BY <1>2, <1>3, <1>4, <1>6, <1>8, UndamagedTypes, ReadsChainThen DEF ReadsChain, Linked
<1>14. ASSUME NEW i \in 1..size
       PROVE  data'[c[Hops(i)]][Offset(i)] = data[c[Hops(i)]][Offset(i)]
  <2>1. PICK k \in 0..q : k = Hops(i)
    BY <1>3, <1>4, HopsMono
  <2>2. CASE k = q
    <3>1. PICK r \in Nat : r = q * ClusterSize
      BY <1>4, OneMore
    <3>2. Offset(i) \in 1..ClusterSize
      BY <1>3, OffsetRange
    <3>3. Offset(i) <= off
      <4>1. Offset(i) = i - r /\ off = size - r
        BY <1>4, <2>1, <2>2, <3>1 DEF Offset
      <4> QED BY <1>3, <3>1, <4>1
    <3> QED BY <1>6, <1>8, <1>9, <2>1, <2>2, <3>2, <3>3
  <2>3. CASE k # q
    <3>1. k \in 0..q - 1 /\ k + 1 \in 0..q
      BY <1>4, <2>1, <2>3
    <3>2. c[k] \in Files /\ fat[1][c[k]] = c[k + 1] /\ c[k + 1] \in Files
      BY <1>6, <2>1, <3>1 DEF Linked, Links
    <3>3. c[k] # x
      BY <1>7, <3>2, Sizes
    <3> QED BY <1>9, <2>1, <3>2, <3>3
  <2> QED BY <2>2, <2>3
<1>15. ContentOf(h)' = ContentOf(h)
  BY <1>12, <1>13, <1>14
<1>16. Same(h)
  BY <1>2, <1>8, <1>10, <1>15 DEF Same, View
<1> QED BY <1>11, <1>16, UndamagedTypes, StoreSame

(* The new size makes what stands behind the old end part of the file. *)
LEMMA StoreResize ==
  ASSUME Undamaged, Resize
  PROVE  /\ Store[op.name] \in Seq(Nat) /\ op.buf \in Buffers \cup {<<>>}
         /\ Becomes(op.name, Store[op.name] \o op.buf)
<1> PICK h : h = op.slot
  OBVIOUS
<1> PICK n : n = op.name
  OBVIOUS
<1> PICK b : b = op.buf
  OBVIOUS
<1>0. Sound /\ TypeInv /\ Owners /\ TypeOK
  BY UndamagedTypes DEF Undamaged
<1>1. /\ On(op, OnSlot) /\ ~On(op, Freeing) /\ On(op, Adding \cup {"patch"})
      /\ On(op, {"resize"}) /\ op.todo # <<>> /\ On(op, Adding)
  BY DEF Resize, At, On, OnSlot, Working, StepNames, Freeing, Adding
<1>2. /\ h \in Slots /\ Live(h) /\ dir[h].name = n /\ n \in Names /\ ~Dangling(h)
      /\ dir[h] \in Entries
  BY <1>1, OwnFile
<1>3. b \in Buffers \cup {<<>>} /\ b \in Seq(Nat)
  <2>1. b \in Buffers \cup {<<>>}
    BY <1>0 DEF TypeInv, CallOK, Calls
  <2>2. b \in Seq(Nat \ {0})
    BY <2>1, Buffered
  <2> QED BY <2>1, <2>2
<1>4. PICK l \in Nat : l = Len(b)
  BY <1>3
<1>5. PICK size \in Nat : size = dir[h].size
  BY <1>2 DEF Entries
<1>6. PICK full \in Nat : full = size + l
  BY <1>4, <1>5
<1>7. Full = full /\ op.done = l
  <2>1. op.done = l
    BY <1>0, <1>1, <1>4 DEF Sound, Known, Edge
  <2> QED BY <1>5, <1>6, <2>1 DEF Full
<1>8. PICK q \in Nat : q = Hops(full)
  BY <1>6, HopsType
<1>9. PICK c : Linked(dir[h].first, q, c)
  BY <1>0, <1>1, <1>7, <1>8 DEF Sound, Known, Reached, First
<1>10. Hops(size) <= q
  <2>1. CASE size = 0
    BY <1>8, <2>1 DEF Hops
  <2>2. CASE size # 0
    <3>1. size \in 1..full
      BY <1>4, <1>5, <1>6, <2>2
    <3> QED BY <1>6, <1>8, <3>1, HopsMono
  <2> QED BY <2>1, <2>2
<1>11. fat' = fat /\ data' = data
  BY DEF Resize, WriteDir
<1>12. PICK e : /\ dir' = [dir EXCEPT ![h] = e] /\ e.name = n
                /\ e.first = dir[h].first /\ e.size = full
  <2> DEFINE r == [dir[h] EXCEPT !.size = @ + Len(op.buf)]
  <2>1. dir' = [dir EXCEPT ![h] = r]
    BY DEF Resize, WriteDir
  <2>2. r.name = n /\ r.first = dir[h].first /\ r.size = full
    BY <1>2, <1>4, <1>5, <1>6 DEF Entries
  <2> HIDE DEF r
  <2> QED BY <2>1, <2>2
<1>13. e.name # "end" /\ e.name \in Names
  BY <1>2, <1>12, NamesAssumption
<1>14. h \in Slots /\ Live(h) /\ dir' = [dir EXCEPT ![h] = e] /\ fat' = fat /\ data' = data
  BY <1>2, <1>11, <1>12
<1>15. dir'[h] = e /\ (\A s \in Slots \ {h} : Same(s)) /\ Live(h)'
  BY <1>13, <1>14, OthersSame
<1>16. ~Dangling(h)'
  BY <1>2, <1>11, <1>12, <1>15 DEF Dangling
<1>17. View(h) = [i \in 1..size |-> data[c[Hops(i)]][Offset(i)]]
  <2>1. ContentOf(h) = [i \in 1..size |-> data[c[Hops(i)]][Offset(i)]]
    BY <1>0, <1>2, <1>5, <1>8, <1>9, <1>10, ReadsChainNow DEF ReadsChain
  <2> QED BY <1>2, <2>1 DEF View
<1>18. View(h)' = [i \in 1..full |-> data[c[Hops(i)]][Offset(i)]]
  <2>1. dir'[h].first = dir[h].first /\ dir'[h].size = full
    BY <1>12, <1>15
  <2>2. Links(fat'[1], dir'[h].first, q, c) /\ Hops(dir'[h].size) <= q
    BY <1>8, <1>9, <1>11, <2>1 DEF Linked
  <2>3. ContentOf(h)' = [i \in 1..dir'[h].size |-> data'[c[Hops(i)]][Offset(i)]]
    <3>1. TypeOK' /\ h \in Slots
      BY <1>2, UndamagedTypes
    <3>2. \A m \in Nat : \A d : Linked(dir[h].first, m, d)' /\ Hops(dir'[h].size) <= m
            => ContentOf(h)' = [i \in 1..dir'[h].size |-> data'[d[Hops(i)]][Offset(i)]]
      BY <3>1, ReadsChainThen DEF ReadsChain
    <3>3. \A m \in Nat : Links(fat'[1], dir'[h].first, m, c) /\ Hops(dir'[h].size) <= m
            => ContentOf(h)' = [i \in 1..dir'[h].size |-> data'[c[Hops(i)]][Offset(i)]]
      BY <3>2 DEF Linked
    <3> QED BY <1>8, <2>2, <3>3
  <2> QED BY <1>11, <1>16, <2>1, <2>3 DEF View
<1>19. ASSUME NEW j \in 1..l PROVE data[c[Hops(size + j)]][Offset(size + j)] = b[j]
  <2>1. data[Walk(First, Hops(size + j))][Offset(size + j)] = b[j]
    BY <1>1, <1>5, <1>7 DEF Undamaged, Contents, Written, Appended, Size
  <2>2. Hops(size + j) \in 0..q
    <3>1. size + j \in 1..full
      BY <1>4, <1>5, <1>6
    <3> QED BY <1>6, <1>8, <3>1, HopsMono
  <2>3. Walk(First, Hops(size + j)) = c[Hops(size + j)]
    BY <1>8, <1>9, <2>2, WalksNow DEF Walks, First
  <2> QED BY <2>1, <2>3
<1>20. View(h) \in Seq(Nat) /\ Len(View(h)) = size
  BY <1>2, <1>5, UndamagedTypes, ReadingsNow DEF Readings, Contained
<1>21. PICK v : v = View(h)
  OBVIOUS
<1>22. View(h)' = v \o b
  <2>1. v \in Seq(Nat) /\ Len(v) = size /\ \A i \in 1..size : v[i] = data[c[Hops(i)]][Offset(i)]
    BY <1>17, <1>20, <1>21
  <2>2. /\ v \o b \in Seq(Nat) /\ Len(v \o b) = full
        /\ \A i \in 1..full : (v \o b)[i] = IF i <= size THEN v[i] ELSE b[i - size]
    <3>1. /\ v \o b \in Seq(Nat) /\ Len(v \o b) = Len(v) + Len(b)
          /\ \A i \in 1..Len(v) + Len(b) :
                (v \o b)[i] = IF i <= Len(v) THEN v[i] ELSE b[i - Len(v)]
      BY <1>3, <2>1, ConcatProperties
    <3>2. Len(v) = size /\ Len(v) + Len(b) = full
      BY <1>4, <1>6, <2>1
    <3> QED BY <3>1, <3>2
  <2>3. ASSUME NEW i \in 1..full PROVE (v \o b)[i] = data[c[Hops(i)]][Offset(i)]
    <3>1. CASE i <= size
      <4>1. i \in 1..size
        BY <1>5, <1>6, <3>1
      <4> QED BY <2>1, <2>2, <3>1, <4>1
    <3>2. CASE ~(i <= size)
      <4> DEFINE j == i - size
      <4>1. j \in 1..l /\ i = size + j
        BY <1>4, <1>5, <1>6, <3>2
      <4>2. (v \o b)[i] = b[j]
        BY <2>2, <3>2
      <4> HIDE DEF j
      <4>3. data[c[Hops(size + j)]][Offset(size + j)] = b[j]
        BY <1>19, <4>1
      <4> QED BY <4>1, <4>2, <4>3
    <3> QED BY <3>1, <3>2
  <2>4. v \o b = [i \in 1..full |-> (v \o b)[i]]
    <3> PICK u : u = v \o b
      OBVIOUS
    <3>1. u \in Seq(Nat) /\ Len(u) = full
      BY <2>2
    <3>2. u \in [1..Len(u) -> Nat]
      BY <3>1, LenProperties
    <3>3. u = [i \in 1..full |-> u[i]]
      BY <3>1, <3>2
    <3> QED BY <3>3
  <2> QED BY <1>18, <2>3, <2>4
<1>23. PICK w : w = v \o b
  OBVIOUS
<1>24. Store[n] = View(h) /\ Becomes(n, w)
  BY <1>2, <1>12, <1>15, <1>22, <1>23, UndamagedTypes, StoreBecomes
<1> QED BY <1>3, <1>20, <1>21, <1>23, <1>24

-----------------------------------------------------------------------------
(* Most steps leave the disk alone. *)
Reading == \/ Find \/ CreateRefused \/ RenameRefused \/ FreeDone \/ Choose \/ Extend
           \/ WalkToEnd \/ GrowRefused \/ GrowDone
Silent == Reading \/ Request \/ AccessFails \/ PowerOff \/ Boot \/ UNCHANGED vars

(* What they leave of the store: all of it. *)
LEMMA StoreSilent == ASSUME Undamaged, Silent PROVE Store' = Store
<1>1. fat' = fat /\ dir' = dir /\ data' = data
  <2>1. CASE Reading
    <3>1. disk' = disk
      <4>0. CASE Find
        BY <4>0 DEF Find
      <4>1. CASE FreeDone \/ GrowDone
        BY <4>1 DEF FreeDone, GrowDone
      <4>2. CASE CreateRefused \/ RenameRefused \/ GrowRefused
        BY <4>2 DEF CreateRefused, RenameRefused, GrowRefused, Refuse
      <4>3. CASE Choose
        BY <4>3 DEF Choose
      <4>4. CASE Extend
        BY <4>4 DEF Extend
      <4>5. CASE WalkToEnd
        BY <4>5 DEF WalkToEnd
      <4> QED BY <2>1, <4>0, <4>1, <4>2, <4>3, <4>4, <4>5 DEF Reading
    <3> QED BY <3>1 DEF disk
  <2>2. CASE Request
    BY <2>2 DEF Request, FsCreate, FsTruncate, FsDelete, FsRename, FsWrite, disk
  <2>3. CASE AccessFails \/ PowerOff \/ Boot
    BY <2>3 DEF AccessFails, PowerOff, Boot, Refuse, disk
  <2>4. CASE UNCHANGED vars
    BY <2>4 DEF vars
  <2> QED BY <2>1, <2>2, <2>3, <2>4 DEF Silent
<1> QED BY <1>1, StoreQuiet

(* The content of a file may be replaced by nothing at any time, and that of one that  *)
(* has all its clusters by what its callers write.                                     *)
LEMMA Succession ==
  /\ \A v : <<>> \in F!Successors(v)
  /\ \A v : v # Absent => Absent \in F!Successors(v)
  /\ \A v : v # Absent /\ v # Torn => Torn \in F!Successors(v)
  /\ \A v \in Seq(Nat), b \in Buffers :
       /\ F!Resized(b, Len(v)) \in F!Successors(v)
       /\ v = F!Resized(b, Len(v)) => b \in F!Successors(v)
       /\ v \o b \in F!Successors(v)
<1>1. Torn # Absent /\ \A v \in Seq(Nat) : v # Absent /\ v # Torn
  BY NoContents
<1> HIDE DEF Torn, Absent
<1>2. \A v : <<>> \in F!Successors(v)
  BY <1>1 DEF F!Successors
<1>3. \A v : v # Absent => Absent \in F!Successors(v)
  BY <1>1 DEF F!Successors
<1>4. \A v : v # Absent /\ v # Torn => Torn \in F!Successors(v)
  BY <1>1 DEF F!Successors
<1>5. ASSUME NEW v \in Seq(Nat), NEW b \in Buffers
      PROVE  /\ F!Resized(b, Len(v)) \in F!Successors(v)
             /\ v = F!Resized(b, Len(v)) => b \in F!Successors(v)
             /\ v \o b \in F!Successors(v)
  <2>1. v # Absent /\ v # Torn
    BY <1>1
  <2>2. F!Successors(v) = {Torn, <<>>, Absent} \cup {v \o d : d \in Buffers}
                            \cup {F!Resized(d, Len(v)) : d \in Buffers}
                            \cup {d \in Buffers : v = F!Resized(d, Len(v))}
    BY <2>1 DEF F!Successors
  <2> QED BY <2>2
<1> QED BY <1>2, <1>3, <1>4, <1>5

(* One name at most changes what it stands for, as the abstract store allows, or one   *)
(* takes over what another stood for.                                                  *)
Changed == op.name \in Names /\ \E v \in F!Successors(Store[op.name]) : Becomes(op.name, v)
Renamed == /\ op.name \in Names /\ op.new \in Names /\ op.new # op.name
           /\ Store[op.new] = Absent /\ Moves(op.name, op.new)

(* A call on the disk has a name. *)
LEMMA NamedByCall == ASSUME Undamaged, On(op, Working) PROVE op.name \in Names
<1> PICK a \in Working : At(a)
  BY DEF On, At
<1> QED BY UndamagedTypes, TypeHere

(* The two changes, name by name. *)
LEMMA BecomesOne ==
  ASSUME NEW n, NEW v, Becomes(n, v)
  PROVE  \A m \in Names : Store'[m] = IF m = n THEN v ELSE Store[m]
<1>1. DOMAIN Store = Names
  BY DEF Store
<1> QED BY <1>1 DEF Becomes

LEMMA MovesTwo ==
  ASSUME NEW n, NEW m, Moves(n, m), m # n
  PROVE  \A x \in Names : Store'[x] = IF x = n THEN Absent ELSE IF x = m THEN Store[n] ELSE Store[x]
<1>1. DOMAIN Store = Names
  BY DEF Store
<1> HIDE DEF Absent
<1> QED BY <1>1 DEF Moves

LEMMA SameContent == ASSUME Becomes(op.name, Store[op.name]) PROVE Store' = Store
<1> PICK n, v : n = op.name /\ v = Store[n]
  OBVIOUS
<1>1. \A m \in Names : Store'[m] = Store[m]
  BY BecomesOne
<1> QED BY <1>1 DEF Store

(* No step does anything else to the store. *)
LEMMA StoreSteps ==
  ASSUME Undamaged, [Next]_vars, "misread" \notin harm'
  PROVE  Store' = Store \/ Changed \/ Renamed
<1>1. CASE Silent
  BY <1>1, StoreSilent
<1>2. CASE Mark \/ MarkNew \/ Link
  BY <1>2, StoreTakes
<1>3. CASE Patch \/ Grow
  BY <1>3, StorePatch, StoreGrow
<1>4. CASE CreateEntry \/ FreeCluster \/ Clear \/ Erase \/ Fill \/ Commit \/ Resize \/ RenameEntry
  <2>1. op.name \in Names
    <3>1. On(op, Working)
      BY <1>4 DEF CreateEntry, FreeCluster, Clear, Erase, Fill, Commit, Resize, RenameEntry,
         At, On, Working, StepNames
    <3> QED BY <3>1, NamedByCall
  <2>2. CASE CreateEntry
    BY <2>1, <2>2, StoreCreate, Succession DEF Changed
  <2>3. CASE FreeCluster
    <3>1. Store[op.name] # Absent /\ Becomes(op.name, Torn)
      BY <2>3, StoreFree
    <3>2. CASE Store[op.name] = Torn
      <4>1. Becomes(op.name, Store[op.name])
        BY <3>1, <3>2
      <4> QED BY <4>1, SameContent
    <3>3. CASE Store[op.name] # Torn
      BY <2>1, <3>1, <3>3, Succession DEF Changed
    <3> QED BY <3>2, <3>3
  <2>4. CASE Clear
    BY <2>1, <2>4, StoreClear, Succession DEF Changed
  <2>5. CASE Erase
    BY <2>1, <2>5, StoreErase, Succession DEF Changed
  <2>6. CASE Fill
    BY <2>1, <2>6, StoreFill, Succession DEF Changed
  <2>7. CASE Commit
    BY <2>1, <2>7, StoreCommit, Succession DEF Changed
  <2>8. CASE Resize
    <3>1. /\ Store[op.name] \in Seq(Nat) /\ op.buf \in Buffers \cup {<<>>}
          /\ Becomes(op.name, Store[op.name] \o op.buf)
      BY <2>8, StoreResize
    <3>2. CASE op.buf \in Buffers
      BY <2>1, <3>1, <3>2, Succession DEF Changed
    <3>3. CASE op.buf = <<>>
      <4>1. Store[op.name] \o op.buf = Store[op.name]
        BY <3>1, <3>3, ConcatEmptySeq
      <4>2. Becomes(op.name, Store[op.name])
        BY <3>1, <4>1
      <4> QED BY <4>2, SameContent
    <3> QED BY <3>1, <3>2, <3>3
  <2>9. CASE RenameEntry
    BY <2>9, StoreRename DEF Renamed
  <2> QED BY <1>4, <2>2, <2>3, <2>4, <2>5, <2>6, <2>7, <2>8, <2>9
<1> QED BY <1>1, <1>2, <1>3, <1>4 DEF Next, Step, Silent, Reading

(***************************************************************************)
(* A call changes no file but those it names, until the store is lost.     *)
(***************************************************************************)
THEOREM OthersStayUntouched == Spec => OthersUntouched
<1>1. Init => ContentsInv
  BY ContentsInit
<1>2. ContentsInv /\ [Next]_vars => ContentsInv'
  BY ContentsNext
<1>3. ASSUME ContentsInv, [Next]_vars, disk' # disk, ~Spoiled', NEW n \in Names \ {op.name, op.new}
      PROVE  /\ n \in Present <=> n \in Present'
             /\ n \in Present => Content(n)' = Content(n)
  <2>1. Undamaged /\ "misread" \notin harm'
    BY <1>3, StillUndamaged DEF Spoiled
  <2>2. Store'[n] = Store[n]
    BY <1>3, <2>1, StoreSteps, BecomesOne, MovesTwo DEF Changed, Renamed
  <2>3. /\ n \in Present <=> Store[n] # Absent
        /\ n \in Present => Content(n) = Store[n]
    BY <2>1, UndamagedTypes, StoredNow DEF Stored
  <2>4. /\ n \in Present' <=> Store'[n] # Absent
        /\ n \in Present' => Content(n)' = Store'[n]
    BY <2>1, UndamagedTypes, StoredThen DEF Stored, Absent
  <2> QED BY <2>2, <2>3, <2>4
<1>4. ContentsInv /\ [Next]_vars =>
        [(disk' # disk /\ ~Spoiled') =>
          \A n \in Names \ {op.name, op.new} :
             /\ n \in Present <=> n \in Present'
             /\ n \in Present => Content(n)' = Content(n)]_vars
  BY <1>3
<1> QED BY <1>1, <1>2, <1>4, PTL DEF Spec, OthersUntouched

-----------------------------------------------------------------------------
(* The refinement: the disk starts as an empty store, and each step is one of it, or    *)
(* none.                                                                               *)
LEMMA StoreStarts == Init => F!FInit
<1> SUFFICES ASSUME Init PROVE F!FInit
  OBVIOUS
<1>1. Spoiled = FALSE
  BY DEF Init, Spoiled
<1>2. ASSUME NEW n \in Names PROVE Store[n] = Absent
  <2>1. ASSUME NEW s \in Slots PROVE ~Live(s)
    <3>1. dir[s].name = "end"
      BY DEF Init
    <3> QED BY <3>1, NamesAssumption DEF Live
  <2>2. Named(n) = {}
    BY <2>1 DEF Named
  <2> QED BY <2>2 DEF Store, Present
<1>3. Store = [n \in Names |-> Absent]
  BY <1>2 DEF Store
<1> QED BY <1>1, <1>3 DEF F!FInit

(* Once the store is lost, anything is allowed. *)
LEMMA StoreMovesOn ==
  ASSUME ContentsInv, [Next]_vars
  PROVE  [F!FNext]_(F!fvars)
<1>1. CASE Spoiled'
  BY <1>1 DEF F!FNext
<1>2. CASE ~Spoiled'
  <2>1. Undamaged /\ ~Spoiled /\ "misread" \notin harm'
    BY <1>2, StillUndamaged DEF Spoiled
  <2>2. Spoiled' = Spoiled
    BY <1>2, <2>1 DEF Spoiled
  <2>3. CASE Store' = Store
    BY <2>2, <2>3 DEF F!fvars
  <2>4. CASE Changed
    <3>1. PICK v : v \in F!Successors(Store[op.name]) /\ Becomes(op.name, v)
      BY <2>4 DEF Changed
    <3>2. F!Change(op.name)
      BY <2>4, <3>1, BecomesOne DEF Changed, F!Change, F!OthersKept
    <3> QED BY <2>1, <2>2, <2>4, <3>2 DEF Changed, F!FNext
  <2>5. CASE Renamed
    <3>1. F!Rename(op.name, op.new)
      BY <2>5, MovesTwo DEF Renamed, F!Rename, F!OthersKept
    <3> QED BY <2>1, <2>2, <2>5, <3>1 DEF Renamed, F!FNext
  <2> QED BY <2>1, <2>3, <2>4, <2>5, StoreSteps
<1> QED BY <1>1, <1>2

(***************************************************************************)
(* The disk implements the store of module FileStore: one directory of     *)
(* whole files, in which only an overwrite in place and a file that is     *)
(* being freed are ever seen half done.                                    *)
(***************************************************************************)
THEOREM Fat32ImplementsFileStore == Spec => ImplementsFileStore
<1>1. Init => ContentsInv
  BY ContentsInit
<1>2. ContentsInv /\ [Next]_vars => ContentsInv'
  BY ContentsNext
<1>3. Init => F!FInit
  BY StoreStarts
<1>4. ContentsInv /\ [Next]_vars => [F!FNext]_(F!fvars)
  BY StoreMovesOn
<1> QED BY <1>1, <1>2, <1>3, <1>4, PTL DEF Spec, ImplementsFileStore, F!FSpec

-----------------------------------------------------------------------------
(* The end of a call: its last step reports success, or it is refused. *)
Succeeds == op'.todo = <<>> /\ op'.ok

LEMMA Refusals == ASSUME op' = Idle(FALSE) PROVE ~Succeeds
BY DEF Idle, Succeeds

(* A call does not end with a cluster freed or filled, except as refused. *)
LEMMA NotYetDone == ASSUME TypeInv, FreeCluster \/ Fill PROVE ~Succeeds
<1>1. CASE FreeCluster
  <2> DEFINE succ == IF op.copy = 1 THEN fat[1][op.cluster] ELSE op.next
             between == [op EXCEPT !.next = succ]
             after == [op EXCEPT !.cluster = succ, !.next = 0]
             o == IF op.copy < FatCount THEN [between EXCEPT !.copy = @ + 1]
                                        ELSE [after EXCEPT !.copy = 1]
  <2>1. op \in Calls /\ op.todo # <<>>
    BY <1>1 DEF FreeCluster, At, TypeInv, CallOK
  <2>2. WriteFat(op.cluster, Free, between, after)
    BY <1>1 DEF FreeCluster
  <2> HIDE DEF succ
  <2>3. o.todo # <<>>
    BY <2>1 DEF Calls
  <2>4. Ends(o, {})
    BY <2>2 DEF WriteFat
  <2> HIDE DEF o
  <2>5. op' = o \/ op' = Idle(FALSE)
    BY <2>4 DEF Ends
  <2> QED BY <2>3, <2>5, Refusals DEF Succeeds
<1>2. CASE Fill
  <2>1. At("fill") /\ "fill" \in Working /\ "fill" \notin Copying /\ "fill" \notin MayEnd
    BY <1>2 DEF Fill, Working, StepNames, Copying, MayEnd
  <2>2. NextCall.todo # <<>> /\ Advance(op) = NextCall
    BY <2>1, NextStep
  <2>3. CASE op.cluster \in Files
    <3>1. Ends(Advance(op), {})
      BY <1>2, <2>3 DEF Fill, WriteData
    <3> QED BY <2>2, <3>1, Refusals DEF Ends, Succeeds
  <2>4. CASE op.cluster \notin Files
    <3>1. op'.todo = <<"overrun">>
      BY <1>2, <2>4, StoppedOK DEF Fill, WriteData
    <3> QED BY <3>1 DEF Succeeds
  <2> QED BY <2>3, <2>4
<1> QED BY <1>1, <1>2

(* A name that stands for a content is in the directory, and its file has it. *)
LEMMA HoldsNow ==
  ASSUME Undamaged, NEW n \in Names, Store[n] # Absent
  PROVE  n \in Present /\ Content(n) = Store[n]
BY UndamagedTypes, StoredNow DEF Stored

(* The same after a step. *)
LEMMA HoldsThen ==
  ASSUME Undamaged, NEW n \in Names, NEW v, Store'[n] = v
  PROVE  /\ v # Absent => n \in Present' /\ Content(n)' = v
         /\ v = Absent => n \notin Present'
<1>1. /\ n \in Present' <=> Store'[n] # Absent
      /\ n \in Present' => Content(n)' = Store'[n]
  BY UndamagedTypes, StoredThen DEF Stored, Absent
<1> QED BY <1>1

(* The last step of a call that succeeds has done what was asked. *)
LEMMA CallDone ==
  ASSUME ContentsInv, [Next]_vars, ~Spoiled', op.todo # <<>>, Succeeds
  PROVE  Achieved(Head(op.todo), op.buf)
<1>0. Undamaged /\ "misread" \notin harm' /\ TypeInv
  BY StillUndamaged, UndamagedTypes DEF Spoiled
<1> PICK n, m, b : n = op.name /\ m = op.new /\ b = op.buf
  OBVIOUS
<1>1. CASE \/ CreateRefused \/ RenameRefused \/ GrowRefused \/ FreeCluster \/ Fill \/ Request
           \/ AccessFails \/ PowerOff \/ Boot \/ UNCHANGED vars
  <2>1. op' # Idle(FALSE)
    BY Refusals
  <2>2. ~CreateRefused /\ ~RenameRefused /\ ~GrowRefused /\ ~Boot /\ ~AccessFails
    BY <2>1 DEF CreateRefused, RenameRefused, GrowRefused, Boot, AccessFails, Refuse
  <2>3. ~FreeCluster /\ ~Fill
    BY <1>0, NotYetDone
  <2>4. ~Request
    BY DEF Request, FsCreate, FsTruncate, FsDelete, FsRename, FsWrite, Idling
  <2>5. ~PowerOff
    <3>1. [Idle(FALSE) EXCEPT !.todo = Off].todo # <<>>
      BY DEF Idle, Off
    <3> QED BY <3>1 DEF PowerOff, Succeeds
  <2>6. ~UNCHANGED vars
    BY DEF vars, Succeeds
  <2> QED BY <1>1, <2>2, <2>3, <2>4, <2>5, <2>6
<1>2. CASE \/ Find \/ FreeDone \/ Choose \/ Extend \/ WalkToEnd \/ GrowDone
           \/ Mark \/ MarkNew \/ Link \/ Patch \/ Grow
  <2>1. Head(op.todo) \in {"find", "free", "choose", "extend", "walk", "grow", "mark", "mark_new",
                           "link", "patch"}
    <3>1. CASE Find
      BY <3>1 DEF Find, At
    <3>2. CASE Choose
      BY <3>2 DEF Choose, At
    <3>3. CASE FreeDone \/ Extend \/ GrowDone
      BY <3>3 DEF FreeDone, Extend, GrowDone, At
    <3>4. CASE WalkToEnd
      BY <3>4 DEF WalkToEnd, At
    <3>5. CASE Mark \/ MarkNew \/ Link
      BY <3>5 DEF Mark, MarkNew, Link, At
    <3>6. CASE Patch \/ Grow
      BY <3>6 DEF Patch, Grow, At
    <3> QED BY <1>2, <3>1, <3>2, <3>3, <3>4, <3>5, <3>6
  <2>2. Store' = Store
    BY <1>0, <1>2, StoreSilent, StoreTakes, StorePatch, StoreGrow DEF Silent, Reading
  <2> QED BY <2>1, <2>2 DEF Achieved
<1>3. CASE CreateEntry \/ RenameEntry \/ Clear \/ Erase \/ Commit \/ Resize
  <2>1. n \in Names
    <3>1. On(op, Working)
      BY <1>3 DEF CreateEntry, RenameEntry, Clear, Erase, Commit, Resize, At, On, Working, StepNames
    <3> QED BY <1>0, <3>1, NamedByCall
  <2>2. CASE CreateEntry \/ Clear
    <3>1. Head(op.todo) \in {"create", "clear"}
      BY <2>2 DEF CreateEntry, Clear, At
    <3>2. Becomes(n, <<>>)
      BY <1>0, <2>2, StoreCreate, StoreClear
    <3>3. Store'[n] = <<>>
      BY <2>1, <3>2, BecomesOne
    <3>4. n \in Present' /\ Content(n)' = <<>>
      BY <1>0, <2>1, <3>3, HoldsThen, NoContents
    <3> QED BY <3>1, <3>4 DEF Achieved
  <2>3. CASE Erase
    <3>1. Head(op.todo) = "erase"
      BY <2>3 DEF Erase, At
    <3>2. Store'[n] = Absent
      BY <1>0, <2>1, <2>3, StoreErase, BecomesOne
    <3>3. n \notin Present'
      BY <1>0, <2>1, <3>2, HoldsThen
    <3> QED BY <3>1, <3>3 DEF Achieved
  <2>4. CASE Commit
    <3>1. Head(op.todo) = "commit"
      BY <2>4 DEF Commit, At
    <3>2. b \in Buffers /\ Becomes(n, b)
      BY <1>0, <2>4, StoreCommit
    <3>3. Store'[n] = b
      BY <2>1, <3>2, BecomesOne
    <3>4. b # Absent
      <4>1. b \in Seq(Nat)
        BY <3>2, SizesAssumption
      <4> QED BY <4>1, NoContents
    <3>5. n \in Present' /\ Content(n)' = b
      BY <1>0, <2>1, <3>3, <3>4, HoldsThen
    <3> QED BY <3>1, <3>5 DEF Achieved
  <2>5. CASE Resize
    <3>1. Head(op.todo) = "resize"
      BY <2>5 DEF Resize, At
    <3>2. PICK v : v = Store[n] \o b
      OBVIOUS
    <3>3. Store[n] \in Seq(Nat) /\ b \in Buffers \cup {<<>>} /\ Becomes(n, v)
      BY <1>0, <2>5, <3>2, StoreResize
    <3>4. Store'[n] = v
      BY <2>1, <3>3, BecomesOne
    <3>5. Store[n] # Absent /\ v # Absent
      <4>1. b \in Seq(Nat)
        <5>1. b \in Seq(Nat \ {0})
          BY <3>3, Buffered
        <5> QED BY <5>1
      <4>2. v \in Seq(Nat)
        BY <3>2, <3>3, <4>1, ConcatProperties
      <4> QED BY <3>3, <4>2, NoContents
    <3>6. Content(n) = Store[n]
      BY <1>0, <2>1, <3>5, HoldsNow
    <3>7. n \in Present' /\ Content(n)' = Content(n) \o b
      BY <1>0, <2>1, <3>2, <3>4, <3>5, <3>6, HoldsThen
    <3> QED BY <3>1, <3>7 DEF Achieved
  <2>6. CASE RenameEntry
    <3>1. Head(op.todo) = "rename"
      BY <2>6 DEF RenameEntry, At
    <3>2. m \in Names /\ m # n /\ Moves(n, m)
      BY <1>0, <2>6, StoreRename
    <3>3. Store'[n] = Absent /\ Store'[m] = Store[n]
      BY <2>1, <3>2, MovesTwo
    <3>4. Store[n] # Absent
      <4>1. On(op, OnSlot)
        BY <2>6 DEF RenameEntry, At, On, OnSlot, Working, StepNames
      <4>2. PICK h \in Slots : Live(h) /\ dir[h].name = n
        BY <1>0, <4>1, OwnFile
      <4>3. h \in Named(n)
        BY <4>2 DEF Named
      <4>4. Store[n] = View(h)
        BY <1>0, <2>1, <4>3, UndamagedTypes, LooksUpNow DEF LooksUp
      <4> QED BY <1>0, <4>2, <4>4, ViewStands
    <3>5. Content(n) = Store[n]
      BY <1>0, <2>1, <3>4, HoldsNow
    <3>6. n \notin Present'
      BY <1>0, <2>1, <3>3, HoldsThen
    <3>7. m \in Present' /\ Content(m)' = Content(n)
      BY <1>0, <3>2, <3>3, <3>4, <3>5, HoldsThen
    <3> QED BY <3>1, <3>6, <3>7 DEF Achieved
  <2> QED BY <1>3, <2>2, <2>3, <2>4, <2>5, <2>6
<1> QED BY <1>1, <1>2, <1>3 DEF Next, Step

(***************************************************************************)
(* A call that reports success has done what it was asked: what is read    *)
(* back through the directory and the chain is what was written.           *)
(***************************************************************************)
THEOREM SuccessIsDone == Spec => SuccessMeansDone
<1>1. Init => ContentsInv
  BY ContentsInit
<1>2. ContentsInv /\ [Next]_vars => ContentsInv'
  BY ContentsNext
<1>3. ContentsInv /\ [Next]_vars =>
        [(~Idling /\ Idling' /\ op'.ok /\ ~Spoiled') => Achieved(Head(op.todo), op.buf)]_vars
  BY CallDone DEF Idling, Succeeds
<1> QED BY <1>1, <1>2, <1>3, PTL DEF Spec, SuccessMeansDone
=============================================================================
