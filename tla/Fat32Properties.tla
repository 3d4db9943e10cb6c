-------------------------- MODULE Fat32Properties --------------------------
(***************************************************************************)
(* What the FAT32 driver of module Fat32 should guarantee, and until which *)
(* kind of damage it does:                                                 *)
(*                                                                         *)
(*   "fault"    an access failed or the power went;                        *)
(*   "misread"  a directory read failed, and the name was taken for free;  *)
(*   "cut"      a truncation or a deletion ended between its first FAT     *)
(*              write and its directory write.                             *)
(***************************************************************************)
EXTENDS Fat32

(***************************************************************************)
(* Types.  The bytes written (op.done, the position in the caller's        *)
(* buffer) never run past the buffer, also when the last cluster of an     *)
(* append is partly filled.                                                *)
(***************************************************************************)
StepNames == {"find", "create", "rename", "free", "clear", "erase", "choose", "fill",
              "mark", "commit", "extend", "walk", "patch", "grow", "mark_new", "link",
              "resize", "off", "overrun"}

Entries == [name : Names \cup {"end", "deleted"}, first : Clusters, size : Nat]

Calls == [todo : Seq(StepNames),
          name : Names \cup {"none"}, new : Names \cup {"none"}, buf : Buffers \cup {<<>>},
          slot : {Missing} \cup Slots, cluster : 0..EOC, next : 0..EOC,
          copy : 1..FatCount, done : Nat, ok : BOOLEAN]

TypeOK ==
    /\ fat \in [1..FatCount -> [Clusters -> 0..EOC]]
    /\ dir \in [Slots -> Entries]
    /\ data \in [Files -> [1..ClusterSize -> Nat]]
    /\ op \in Calls /\ op.done <= Len(op.buf)
    /\ harm \subseteq {"fault", "misread", "cut"}

(* What points at a cluster: a directory slot, or the cluster before it in  *)
(* a chain.                                                                 *)
Referring == {<<"dir", s>> : s \in {t \in Slots : Live(t) /\ dir[t].first # 0}}
               \cup {<<"fat", c>> : c \in {d \in Files : fat[1][d] \in Files}}
Target(r) == IF r[1] = "dir" THEN dir[r[2]].first ELSE fat[1][r[2]]

(***************************************************************************)
(* No two files share a cluster, at any moment: two files that do corrupt  *)
(* one another from then on.                                               *)
(***************************************************************************)
OneOwner == \A q, r \in Referring : Target(q) = Target(r) => q = r

ClustersHaveOneOwner == "cut" \notin harm => OneOwner

(***************************************************************************)
(* Every file can be read to its full size, through allocated clusters     *)
(* only, also while it or another file is being changed; only a file that  *)
(* is just being freed cannot.                                             *)
(***************************************************************************)
ReadableSlot(s) ==
    dir[s].size > 0 =>
        \A k \in 0..Hops(dir[s].size) : LET c == Walk(dir[s].first, k)
                                        IN c \in Files /\ fat[1][c] # Free

Readable == "cut" \notin harm => \A s \in Slots : Live(s) /\ ~Dangling(s) => ReadableSlot(s)

(***************************************************************************)
(* A name is in the directory once (PROGRESS.md: fs_write creates "a file  *)
(* only if it does not exist", rename rejects an existing destination).    *)
(***************************************************************************)
UniqueNames == \A n \in Names, s, t \in Slots :
                  {s, t} \subseteq Named(n) => s = t

NamesStayUnique == "misread" \notin harm => UniqueNames

(* Without faults no cluster is ever lost, also when the disk fills up in   *)
(* the middle of an append.                                                 *)
NoLeak == (Idling /\ harm = {}) =>
             \A c \in Files : fat[1][c] # Free => \E r \in Referring : Target(r) = c

-----------------------------------------------------------------------------
(* What fs_read_file would return for the file in slot s; for a file that   *)
(* is just being freed, and for none, contents no buffer makes.             *)
Torn   == <<-1>>
Absent == <<-2>>

ContentOf(s) ==
    [i \in 1..dir[s].size |-> LET c == Walk(dir[s].first, Hops(i))
                              IN IF c \in Files THEN data[c][Offset(i)] ELSE -1]

Content(n) == LET s == Minimum(Named(n)) IN IF Dangling(s) THEN Torn ELSE ContentOf(s)

Present == {n \in Names : Named(n) # {}}
Store   == [n \in Names |-> IF n \in Present THEN Content(n) ELSE Absent]

Spoiled == {"cut", "misread"} \cap harm # {}

(***************************************************************************)
(* A call that reports success has done what it was asked: what is read    *)
(* back through the directory and the chain is what was written.           *)
(***************************************************************************)
Achieved(last, buf) ==
    \A n \in {op.name}, m \in {op.new} :
       CASE last \in {"create", "clear"} -> n \in Present' /\ Content(n)' = <<>>
         [] last = "commit" -> n \in Present' /\ Content(n)' = buf
         [] last = "resize" -> n \in Present' /\ Content(n)' = Content(n) \o buf
         [] last = "erase"  -> n \notin Present'
         [] last = "rename" -> /\ n \notin Present' /\ m \in Present'
                               /\ Content(m)' = Content(n)
         [] OTHER -> UNCHANGED Store

SuccessMeansDone ==
    [][(~Idling /\ Idling' /\ op'.ok /\ ~Spoiled')
           => Achieved(Head(op.todo), op.buf)]_vars

(***************************************************************************)
(* A call changes no file but those it names, whatever happens to it.      *)
(***************************************************************************)
OthersUntouched ==
    [][(disk' # disk /\ ~Spoiled') =>
          \A n \in Names \ {op.name, op.new} :
             /\ n \in Present <=> n \in Present'
             /\ n \in Present => Content(n)' = Content(n)]_vars

(***************************************************************************)
(* Refinement: the disk implements the store of module FileStore.          *)
(***************************************************************************)
F == INSTANCE FileStore WITH lost <- Spoiled,
                             files <- Store

ImplementsFileStore == F!FSpec
=============================================================================
