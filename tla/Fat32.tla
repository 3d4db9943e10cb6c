------------------------------- MODULE Fat32 -------------------------------
(***************************************************************************)
(* The FAT32 driver of MinervaOS, fs/fat32.c, over the PIO disk of         *)
(* drivers/ata.c, as the terminal, the editor and the app registry use it. *)
(*                                                                         *)
(* The driver is sequential and keeps no state between calls but the       *)
(* mounted BPB, so what makes it hard is the disk underneath: an operation *)
(* is a sequence of single-sector writes, any of which can fail, be stored *)
(* although it is reported as failed, or be the last one before the        *)
(* machine is switched off.  The model has one step per sector write; the  *)
(* reads before a write are part of its step.                              *)
(*                                                                         *)
(* A running call is a list of the steps it has left.  fs_write and the    *)
(* functions it calls one after the other are lists put end to end.  A     *)
(* step that fails ends the whole call, which then returns 0.              *)
(*                                                                         *)
(* As in the image scripts/make_fat32_image.py builds, a cluster is one    *)
(* sector and the root directory one cluster; here it has NSlots entries.  *)
(***************************************************************************)
EXTENDS Integers, Sequences

CONSTANTS
    Names,         \* valid 8.3 names
    NSlots,        \* entries of the root directory
    LastCluster,   \* max_cluster - 1
    FatCount,      \* bpb.fat_count
    ClusterSize,   \* bytes_per_cluster, in units of data
    Buffers,       \* what callers write: sequences of units
    FlagSets,      \* flags of fs_write, as sets of "create", "truncate", ...
    Faults         \* what can go wrong: subset of {"read", "write", "power"}

Root == 2                      \* bpb.root_cluster
EOC  == LastCluster + 1        \* FAT32_EOC, above every cluster number
Free == 0

ASSUME NamesAssumption == {"end", "deleted", "none"} \cap Names = {}
ASSUME SizesAssumption == /\ NSlots \in Nat \ {0}
                          /\ LastCluster \in Nat /\ LastCluster > Root
                          /\ FatCount \in Nat \ {0}
                          /\ ClusterSize \in Nat \ {0}
                          /\ Buffers \subseteq Seq(Nat \ {0})
ASSUME FaultsAssumption == Faults \subseteq {"read", "write", "power"}
ASSUME FlagsAssumption ==
    FlagSets \subseteq SUBSET {"create", "truncate", "append", "excl"}

VARIABLES
    fat,    \* fat[k][c]: entry c of copy k of the FAT
    dir,    \* the root directory, slot by slot
    data,   \* contents of the data clusters
    op,     \* the call in progress
    harm    \* history: which kinds of damage have struck so far

disk == <<fat, dir, data>>
vars == <<fat, dir, data, op, harm>>

Slots    == 1..NSlots
Clusters == 0..LastCluster     \* entries of the FAT; 0 and 1 are reserved
Files    == (Root + 1)..LastCluster
Minimum(S) == CHOOSE s \in S : \A t \in S : s <= t
Smaller(a, b) == IF a < b THEN a ELSE b

-----------------------------------------------------------------------------
(* The call in progress: its remaining steps and its local variables.  A    *)
(* call that is over leaves its result, ok.                                 *)
Idle(ok) == [todo |-> <<>>, name |-> "none", new |-> "none", buf |-> <<>>,
             slot |-> 0, cluster |-> 0, next |-> 0, copy |-> 1, done |-> 0,
             ok |-> ok]

Idling   == op.todo = <<>>
Off      == <<"off">>
At(step) == op.todo # <<>> /\ Head(op.todo) = step

Call(steps, name, new, buf) ==
    IF steps = <<>> THEN Idle(TRUE)
    ELSE [Idle(FALSE) EXCEPT !.todo = steps, !.name = name, !.new = new, !.buf = buf]

Advance(o)     == IF Len(o.todo) = 1 THEN Idle(TRUE) ELSE [o EXCEPT !.todo = Tail(@)]
Instead(steps) == [op EXCEPT !.todo = steps]
Refuse         == op' = Idle(FALSE) /\ UNCHANGED <<disk, harm>>

-----------------------------------------------------------------------------
(* find_root_entry and find_root_entry_at: the scan ends at the first entry *)
(* never used, and a failed read ends it as if there were nothing more.     *)
Live(s)  == dir[s].name \in Names /\ \A t \in 1..s : dir[t].name # "end"
Named(n) == {s \in Slots : Live(s) /\ dir[s].name = n}

Missing == 0
Found(n) == {IF Named(n) = {} THEN Missing ELSE Minimum(Named(n))}
              \cup (IF "read" \in Faults THEN {Missing} ELSE {})
Misread(n, s) == s = Missing /\ Named(n) # {}

Holes == {s \in Slots : dir[s].name \in {"end", "deleted"}}

FreeClusters == {c \in Root..LastCluster : fat[1][c] = Free}

(* The cluster k links after c, as next_cluster follows them. *)
Follow(c)  == IF c \in Clusters THEN fat[1][c] ELSE EOC
Walk(c, k) == LET w[i \in 0..k] == IF i = 0 THEN c ELSE Follow(w[i - 1]) IN w[k]

(* Links from the first cluster to the one an append starts in, and where   *)
(* in it: the end of a full cluster counts as its own, not the next one's.  *)
Hops(size)   == IF size = 0 THEN 0 ELSE (size - 1) \div ClusterSize
Offset(size) == size - Hops(size) * ClusterSize

-----------------------------------------------------------------------------
(* A directory entry whose first cluster is marked free. *)
Dangling(s) == Live(s) /\ dir[s].first # 0 /\ fat[1][dir[s].first] = Free

CutShort == IF \E s \in Slots : Dangling(s) THEN {"cut"} ELSE {}

(* The sector is on the disk; the write is reported as done, or as failed. *)
Ends(o, h) == \/ op' = o /\ harm' = harm \cup h
              \/ /\ "write" \in Faults
                 /\ op' = Idle(FALSE)
                 /\ harm' = harm \cup h \cup {"fault"} \cup CutShort'

WriteDir(s, entry, o) ==
    /\ dir' = [dir EXCEPT ![s] = entry]
    /\ UNCHANGED <<fat, data>>
    /\ Ends(o, {})

(* write_fat_entry, one copy of the FAT at a time. *)
WriteFat(c, v, between, after) ==
    /\ fat' = [fat EXCEPT ![op.copy][c] = v]
    /\ UNCHANGED <<dir, data>>
    /\ Ends(IF op.copy < FatCount THEN [between EXCEPT !.copy = @ + 1]
                                  ELSE [after EXCEPT !.copy = 1], {})

(* A cluster number below the first data cluster addresses the sectors in   *)
(* front of the data area: the FAT.  The model ends there.                  *)
WriteData(c, units, o) ==
    /\ UNCHANGED <<fat, dir>>
    /\ IF c \in Files
       THEN data' = [data EXCEPT ![c] = units] /\ Ends(o, {})
       ELSE op' = [Idle(FALSE) EXCEPT !.todo = <<"overrun">>] /\ UNCHANGED <<data, harm>>

Padded(units) == [i \in 1..ClusterSize |-> IF i <= Len(units) THEN units[i] ELSE 0]

-----------------------------------------------------------------------------
Init ==
    /\ fat = [k \in 1..FatCount |->
                 [c \in Clusters |-> IF c <= Root THEN EOC ELSE Free]]
    /\ dir = [s \in Slots |-> [name |-> "end", first |-> 0, size |-> 0]]
    /\ data = [c \in Files |-> Padded(<<>>)]
    /\ op = Idle(TRUE)
    /\ harm = {}

(***************************************************************************)
(* The calls.                                                              *)
(***************************************************************************)
FsCreate(n) ==
    /\ Idling
    /\ op' = Call(<<"create">>, n, n, <<>>)
    /\ UNCHANGED <<disk, harm>>

(* Mutant of FsTruncate: the chain is not freed. *)
TruncateKeepingChain(n) ==
    /\ Idling
    /\ op' = Call(<<"find", "clear">>, n, n, <<>>)
    /\ UNCHANGED <<disk, harm>>

FsTruncate(n) ==
    /\ Idling
    /\ op' = Call(<<"find", "free", "clear">>, n, n, <<>>)
    /\ UNCHANGED <<disk, harm>>

FsDelete(n) ==
    /\ Idling
    /\ op' = Call(<<"find", "free", "erase">>, n, n, <<>>)
    /\ UNCHANGED <<disk, harm>>

FsRename(n, m) ==
    /\ Idling
    /\ op' = Call(<<"find", "rename">>, n, m, <<>>)
    /\ UNCHANGED <<disk, harm>>

(* What fs_write calls once the file exists. *)
Writing(flags, buf) ==
    CASE "truncate" \in flags -> <<"find", "free", "clear">> \o
                                 (IF buf = <<>> THEN <<>> ELSE <<"find", "choose">>)
      [] "append" \in flags   -> IF buf = <<>> THEN <<>> ELSE <<"find", "extend">>
      [] OTHER                -> <<"find", "choose">>

FsWrite(n, buf, flags) ==
    /\ Idling
    /\ ~({"append", "truncate"} \subseteq flags)
    /\ \E s \in Found(n) :
          /\ op' = CASE s # Missing /\ "excl" \in flags   -> Idle(FALSE)
                     [] s = Missing /\ "create" \notin flags -> Idle(FALSE)
                     [] OTHER -> Call((IF s = Missing THEN <<"create">> ELSE <<>>)
                                        \o Writing(flags, buf), n, n, buf)
          /\ harm' = harm \cup (IF Misread(n, s) THEN {"fault"} ELSE {})
    /\ UNCHANGED disk

-----------------------------------------------------------------------------
(***************************************************************************)
(* The steps of a call.                                                    *)
(***************************************************************************)
Find ==
    /\ At("find")
    /\ \E s \in Found(op.name) :
          /\ op' = IF s = Missing THEN Idle(FALSE)
                   ELSE Advance([op EXCEPT !.slot = s, !.cluster = dir[s].first])
          /\ harm' = harm \cup (IF Misread(op.name, s) THEN {"fault"} ELSE {})
    /\ UNCHANGED disk

(* fs_create, from its own look-up on.  The entry goes into the first hole. *)
CreateRefused ==
    /\ Named(op.name) # {} \/ Holes = {}
    /\ At("create")
    /\ Refuse

(* Mutant of CreateEntry: the first entry is taken, in use or not. *)
CreateInFirst ==
    /\ At("create") /\ Missing \in Found(op.name) /\ Holes # {}
    /\ dir' = [dir EXCEPT ![1] = [name |-> op.name, first |-> 0, size |-> 0]]
    /\ UNCHANGED <<fat, data>>
    /\ Ends(Advance(op), IF Misread(op.name, Missing) THEN {"fault", "misread"} ELSE {})

CreateEntry ==
    /\ At("create") /\ Missing \in Found(op.name) /\ Holes # {}
    /\ dir' = [dir EXCEPT ![Minimum(Holes)] =
                   [name |-> op.name, first |-> 0, size |-> 0]]
    /\ UNCHANGED <<fat, data>>
    /\ Ends(Advance(op), IF Misread(op.name, Missing) THEN {"fault", "misread"} ELSE {})

RenameRefused == At("rename") /\ Named(op.new) # {} /\ Refuse

(* Mutant of RenameEntry: the destination is not looked up. *)
RenameUnchecked ==
    /\ At("rename")
    /\ dir' = [dir EXCEPT ![op.slot].name = op.new]
    /\ UNCHANGED <<fat, data>>
    /\ Ends(Advance(op), {})

RenameEntry ==
    /\ At("rename") /\ Missing \in Found(op.new)
    /\ dir' = [dir EXCEPT ![op.slot].name = op.new]
    /\ UNCHANGED <<fat, data>>
    /\ Ends(Advance(op), IF Misread(op.new, Missing) THEN {"fault", "misread"} ELSE {})

(* free_cluster_chain: the link is read, then the entry is cleared. *)
FreeCluster ==
    /\ At("free") /\ op.cluster \in Root..LastCluster
    /\ LET succ == IF op.copy = 1 THEN fat[1][op.cluster] ELSE op.next
       IN WriteFat(op.cluster, Free, [op EXCEPT !.next = succ],
                   [op EXCEPT !.cluster = succ, !.next = 0])

FreeDone ==
    /\ At("free") /\ op.cluster \notin Root..LastCluster
    /\ op' = Advance(op)
    /\ UNCHANGED <<disk, harm>>

(* Mutant of Clear: the size is reset, the first cluster is not. *)
ClearSizeOnly == At("clear") /\ WriteDir(op.slot, [dir[op.slot] EXCEPT !.size = 0],
                                         Advance(op))

Clear == At("clear") /\ WriteDir(op.slot, [dir[op.slot] EXCEPT !.first = 0, !.size = 0],
                                 Advance(op))

Erase == At("erase") /\ WriteDir(op.slot, [name |-> "deleted", first |-> 0, size |-> 0],
                                 Advance(op))

(* Mutant of Choose: the directory entry is written before the data. *)
ChooseCommitFirst ==
    /\ At("choose")
    /\ op' = IF op.buf # <<>> /\ Len(op.buf) <= ClusterSize /\ op.cluster = 0
               /\ FreeClusters # {}
             THEN [Instead(<<"mark", "commit", "fill">>)
                     EXCEPT !.cluster = Minimum(FreeClusters)]
             ELSE Idle(op.buf = <<>>)
    /\ UNCHANGED <<disk, harm>>

(* fs_write_file: a file of one cluster is overwritten in place, an empty   *)
(* one gets a cluster, any other is refused; nothing is done for size 0.    *)
Choose ==
    /\ At("choose")
    /\ op' = CASE Len(op.buf) > ClusterSize -> Idle(FALSE)
               [] op.buf = <<>>             -> Idle(TRUE)
               [] OTHER ->
                  CASE op.cluster = 0 /\ dir[op.slot].size = 0 /\ FreeClusters # {} ->
                         [Instead(<<"fill", "mark", "commit">>)
                            EXCEPT !.cluster = Minimum(FreeClusters)]
                    [] op.cluster >= Root /\ Follow(op.cluster) = EOC ->
                         Instead(<<"fill", "commit">>)
                    [] OTHER -> Idle(FALSE)
    /\ UNCHANGED <<disk, harm>>

Fill   == At("fill") /\ WriteData(op.cluster, Padded(op.buf), Advance(op))
Mark   == At("mark") /\ WriteFat(op.cluster, EOC, op, Advance(op))
Commit == At("commit") /\ WriteDir(op.slot, [dir[op.slot] EXCEPT !.first = op.cluster,
                                                                 !.size = Len(op.buf)],
                                   Advance(op))

(* fs_write with FS_WRITE_APPEND: the first data of an empty file is        *)
(* written by fs_write_file, more by fs_append_file.                        *)
Extend ==
    /\ At("extend")
    /\ op' = Instead(IF op.cluster = 0 THEN <<"find", "choose">> ELSE <<"find", "walk">>)
    /\ UNCHANGED <<disk, harm>>

(* Mutant of WalkToEnd: the size is written before the chain is extended. *)
WalkResizeFirst ==
    LET tail == Walk(op.cluster, Hops(dir[op.slot].size))
    IN /\ At("walk")
       /\ op' = IF op.cluster < Root \/ tail = EOC \/ Follow(tail) # EOC
                THEN Idle(FALSE)
                ELSE [Instead(<<"resize", "grow">>) EXCEPT !.cluster = tail]
       /\ UNCHANGED <<disk, harm>>

(* fs_append_file up to its first write: the file must end in the last      *)
(* cluster of its chain.                                                    *)
WalkToEnd ==
    LET size == dir[op.slot].size
        tail == Walk(op.cluster, Hops(size))
    IN /\ At("walk")
       /\ op' = IF op.cluster < Root \/ tail = EOC \/ Follow(tail) # EOC
                THEN Idle(FALSE)
                ELSE [Instead((IF Offset(size) < ClusterSize THEN <<"patch">> ELSE <<>>)
                                \o <<"grow", "resize">>) EXCEPT !.cluster = tail]
       /\ UNCHANGED <<disk, harm>>

Patch ==
    LET off == Offset(dir[op.slot].size)
        n   == Smaller(ClusterSize - off, Len(op.buf))
    IN /\ At("patch")
       /\ WriteData(op.cluster,
                    [i \in 1..ClusterSize |->
                        IF i \in off + 1 .. off + n THEN op.buf[i - off]
                        ELSE data[op.cluster][i]],
                    [Advance(op) EXCEPT !.done = n])

(* Mutant of Grow: each new cluster is filled from the start of the buffer. *)
GrowFromStart ==
    /\ At("grow") /\ op.done < Len(op.buf) /\ FreeClusters # {}
    /\ WriteData(Minimum(FreeClusters), Padded(op.buf),
                 [op EXCEPT !.todo = <<"mark_new", "link">> \o @,
                            !.next = Minimum(FreeClusters)])

Grow ==
    /\ At("grow") /\ op.done < Len(op.buf) /\ FreeClusters # {}
    /\ WriteData(Minimum(FreeClusters),
                 Padded(SubSeq(op.buf, op.done + 1, Len(op.buf))),
                 [op EXCEPT !.todo = <<"mark_new", "link">> \o @,
                            !.next = Minimum(FreeClusters)])

GrowRefused == At("grow") /\ op.done < Len(op.buf) /\ FreeClusters = {} /\ Refuse

GrowDone ==
    /\ At("grow") /\ op.done = Len(op.buf)
    /\ op' = Advance(op)
    /\ UNCHANGED <<disk, harm>>

MarkNew == At("mark_new") /\ WriteFat(op.next, EOC, op, Advance(op))

(* Mutant of Link: a whole cluster is counted as written. *)
LinkCountingWhole ==
    /\ At("link")
    /\ WriteFat(op.cluster, op.next, op,
                [Advance(op) EXCEPT !.cluster = op.next, !.next = 0,
                                    !.done = @ + ClusterSize])

Link ==
    /\ At("link")
    /\ WriteFat(op.cluster, op.next, op,
                [Advance(op) EXCEPT !.cluster = op.next, !.next = 0,
                                    !.done = Smaller(@ + ClusterSize, Len(op.buf))])

Resize == At("resize") /\ WriteDir(op.slot, [dir[op.slot] EXCEPT !.size = @ + Len(op.buf)],
                                   Advance(op))

-----------------------------------------------------------------------------
(***************************************************************************)
(* What the disk and the machine do to a call: a read fails, a write fails *)
(* without being stored, the power goes.  Nothing is repaired at boot.     *)
(***************************************************************************)
AccessFails ==
    /\ Faults \cap {"read", "write"} # {}
    /\ ~Idling /\ op.todo # Off
    /\ op' = Idle(FALSE)
    /\ harm' = harm \cup {"fault"} \cup CutShort
    /\ UNCHANGED disk

PowerOff ==
    /\ "power" \in Faults
    /\ ~Idling /\ op.todo # Off
    /\ op' = [Idle(FALSE) EXCEPT !.todo = Off]
    /\ harm' = harm \cup {"fault"} \cup CutShort
    /\ UNCHANGED disk

Boot == op.todo = Off /\ Refuse

-----------------------------------------------------------------------------
Request == \/ \E n \in Names : FsCreate(n) \/ FsTruncate(n) \/ FsDelete(n)
           \/ \E n, m \in Names : FsRename(n, m)
           \/ \E n \in Names, b \in Buffers, f \in FlagSets : FsWrite(n, b, f)

Step == \/ Find \/ CreateRefused \/ CreateEntry \/ RenameRefused \/ RenameEntry
        \/ FreeCluster \/ FreeDone \/ Clear \/ Erase
        \/ Choose \/ Fill \/ Mark \/ Commit
        \/ Extend \/ WalkToEnd \/ Patch \/ Grow \/ GrowRefused \/ GrowDone
        \/ MarkNew \/ Link \/ Resize

Next == Request \/ Step \/ AccessFails \/ PowerOff \/ Boot

Spec == Init /\ [][Next]_vars
=============================================================================
