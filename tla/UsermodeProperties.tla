------------------------- MODULE UsermodeProperties -------------------------
(***************************************************************************)
(* What Usermode.tla is to satisfy.                                         *)
(***************************************************************************)
EXTENDS Usermode

\* The table never holds two user processes of one name, and a pid is given out
\* once (process.c: process_find_user before process_alloc, next_pid).
TableSound ==
  /\ Len(table) <= ProcessMax
  /\ \A i \in DOMAIN table : table[i].pid < nextPid
  /\ \A i, j \in DOMAIN table : table[i].pid = table[j].pid => i = j
  /\ \A i, j \in Users : table[i].name = table[j].name => i = j

InRing3(r) == at[r] \in {"user", "landing"}

\* Whoever comes back from ring 3 comes back to the kernel stack it entered from
\* and through the frame its own interrupt pushed: the one saved_kernel_esp and
\* the one TSS stack are never in use for two runs.  The launcher may be launched
\* with the gates open, since it lowers the gate around its run.
LandsHome ==
  /\ \A r \in Runners : at[r] # "lost" /\ (InRing3(r) => savedEsp = r)
  /\ ~\A r \in Runners : InRing3(r)

InProgress(name) == \E r \in Runners : at[r] # "idle" /\ job[r].name = name

\* A process marked as running is being run; one that is a zombie has run, and its
\* record says what it did in ring 3: the system call with its magic number, or
\* the page fault with its address (uproc, uctx).  Commands given while a launch
\* is under way may falsify the record.
RecordsTrue ==
  \A i \in Users :
    /\ table[i].state = "running" => InProgress(table[i].name)
    /\ table[i].state = "zombie" /\ ~raced =>
         IF table[i].name = "userfault"
         THEN table[i].context = FaultContext([vector |-> 14, address |-> 32768, cs |-> "user"])
         ELSE table[i].context = TestContext([eax |-> "USER", cs |-> "user"])
=============================================================================
