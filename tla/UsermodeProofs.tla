--------------------------- MODULE UsermodeProofs ---------------------------
(***************************************************************************)
(* That ring 3 is entered by one runner at a time and left to where it was   *)
(* entered from, and that the process table is sound, for every table size   *)
(* and every set of kernel processes.                                       *)
(***************************************************************************)
EXTENDS UsermodeProperties, TLAPS

-----------------------------------------------------------------------------
(***************************************************************************)
(* Landing.  Whoever is on its way into ring 3 or back has the processor and *)
(* the gate closed, so no tick takes the processor from it.                  *)
(***************************************************************************)
DesktopPlaces == {"idle", "call", "user", "landing", "back"}
LauncherPlaces == DesktopPlaces \cup {"picked", "marked", "restored"}
Crossing == {"call", "user", "landing", "back"}

Alone(r) == at[r] \in Crossing => cpu = r /\ ~preempt
OwnStack(r) == at[r] \in {"user", "landing"} => savedEsp = r

LandInv ==
  /\ at \in [Runners -> LauncherPlaces]
  /\ at["desktop"] \in DesktopPlaces
  /\ cpu \in Runners
  /\ \A r \in Runners : Alone(r) /\ OwnStack(r)

LEMMA LandInit == Init => LandInv
BY DEF Init, LandInv, Runners, DesktopPlaces, LauncherPlaces, Crossing, Alone, OwnStack

LEMMA LandImplies == LandInv => LandsHome
BY DEF LandInv, LandsHome, InRing3, Runners, DesktopPlaces, LauncherPlaces, Crossing, Alone, OwnStack

\* A step of r's own to another place.
LEMMA LandSteps ==
  ASSUME LandInv, NEW r \in Runners, NEW from, NEW to \in LauncherPlaces,
         Steps(r, from, to),
         r = "desktop" => to \in DesktopPlaces,
         to \in Crossing => ~preempt',
         to \in {"user", "landing"} => savedEsp' = r
  PROVE  LandInv'
BY SMTT(30) DEF LandInv, Steps, Runners, DesktopPlaces, LauncherPlaces, Crossing, Alone, OwnStack

LEMMA LandStay ==
  ASSUME LandInv, UNCHANGED <<at, cpu, savedEsp>>, preempt' => preempt
  PROVE  LandInv'
BY DEF LandInv, Runners, DesktopPlaces, LauncherPlaces, Crossing, Alone, OwnStack

LEMMA LandNext == LandInv /\ [Next]_vars => LandInv'
<1> SUFFICES ASSUME LandInv, [Next]_vars PROVE LandInv'
  OBVIOUS
<1> USE DEF processes, gates, traps, run
<1>1. CASE Poll
  BY <1>1, SMTT(30) DEF Poll, LandInv, Runners, DesktopPlaces, LauncherPlaces, Crossing, Alone, OwnStack
<1>2. CASE Tick
  BY <1>2, SMTT(30) DEF Tick, PassTo, Other, LandInv, Runners, DesktopPlaces, LauncherPlaces, Crossing, Alone, OwnStack
<1>3. CASE Interrupt
  BY <1>3, LandStay DEF Interrupt
<1>4. CASE Terminal
  <2>1. CASE Userprep \/ Usersched \/ SyscallTest \/ Mainsw
    BY <2>1, LandStay DEF Userprep, Usersched, SyscallTest, Mainsw
  <2>2. CASE Preempt
    BY <2>2, SMTT(30) DEF Preempt, AtPrompt, LandInv, Runners, DesktopPlaces, LauncherPlaces, Crossing, Alone, OwnStack
  <2>3. ASSUME NEW name, NEW entry, Enters(name, entry) PROVE LandInv'
    BY <2>3, SMTT(30) DEF Enters, AtPrompt, LandInv, Runners, DesktopPlaces, LauncherPlaces, Crossing, Alone, OwnStack
  <2>4. CASE Usertest \/ Userrun \/ Userfault
    BY <2>3, <2>4 DEF Usertest, Userrun, Userfault
  <2>5. CASE DesktopReports
    BY <2>5, LandSteps DEF DesktopReports, Runners, DesktopPlaces, LauncherPlaces, Crossing
  <2> QED BY <1>4, <2>1, <2>2, <2>4, <2>5 DEF Terminal
<1>5. CASE Launcher
  <2>1. CASE TaskIdle
    BY <2>1, SMTT(30) DEF TaskIdle, LandInv, Runners, DesktopPlaces, LauncherPlaces, Crossing, Alone, OwnStack
  <2>2. CASE TaskPick
    BY <2>2, LandSteps DEF TaskPick, Runners, DesktopPlaces, LauncherPlaces, Crossing
  <2>3. CASE TaskMark
    BY <2>3, LandSteps DEF TaskMark, Runners, DesktopPlaces, LauncherPlaces, Crossing
  <2>4. CASE TaskLower
    BY <2>4, LandSteps DEF TaskLower, Runners, DesktopPlaces, LauncherPlaces, Crossing
  <2>5. CASE TaskRestore
    BY <2>5, LandSteps DEF TaskRestore, Runners, DesktopPlaces, LauncherPlaces, Crossing
  <2>6. CASE TaskReport
    BY <2>6, SMTT(30) DEF TaskReport, Returns, LandInv, Runners, DesktopPlaces, LauncherPlaces, Crossing, Alone, OwnStack
  <2> QED BY <1>5, <2>1, <2>2, <2>3, <2>4, <2>5, <2>6 DEF Launcher
<1>6. ASSUME NEW r \in Runners, Enter(r) \/ Syscall(r) \/ Fault(r) \/ Land(r) PROVE LandInv'
  <2>1. at[r] \in Crossing /\ cpu = r => ~preempt
    BY DEF LandInv, Alone
  <2>2. CASE Enter(r)
    BY <2>1, <2>2, LandSteps DEF Enter, Steps, DesktopPlaces, LauncherPlaces, Crossing
  <2>3. CASE Syscall(r) \/ Fault(r)
    <3>1. savedEsp = r
      BY <2>3 DEF LandInv, OwnStack, Syscall, Fault, Steps
    <3> QED BY <2>1, <2>3, <3>1, LandSteps DEF Syscall, Fault, Steps, DesktopPlaces, LauncherPlaces, Crossing
  <2>4. CASE Land(r)
    <3>1. savedEsp = r
      BY <2>4 DEF LandInv, OwnStack, Land, Steps
    <3> QED BY <2>1, <2>4, <3>1, LandSteps DEF Land, Steps, DesktopPlaces, LauncherPlaces, Crossing
  <2> QED BY <1>6, <2>2, <2>3, <2>4
<1>7. CASE UNCHANGED vars
  BY <1>7, LandStay DEF vars
<1> QED BY <1>1, <1>2, <1>3, <1>4, <1>5, <1>6, <1>7 DEF Next

\* One saved ESP and one TSS stack are enough: nobody lands on another's stack,
\* however ticks fall and whenever the launcher is armed.
THEOREM RingThreeLandsHome == Spec => []LandsHome
<1>1. Spec => []LandInv
  BY LandInit, LandNext, PTL DEF Spec
<1> QED BY <1>1, LandImplies, PTL

-----------------------------------------------------------------------------
(***************************************************************************)
(* The process table.                                                       *)
(***************************************************************************)
UserNames == {"usertest", "userfault"}
States == {"ready", "running", "zombie"}
EntryOf(name) == IF name = "userfault" THEN "fault" ELSE "test"
Names == {KernelTasks[i] : i \in DOMAIN KernelTasks} \cup UserNames
Traps == [eax : {"none", "USER", "MINV"}, cs : {"none", "user", "kernel"}]
Faults == [vector : {0, 14}, address : {0, 32768}, cs : {"none", "user"}]
Contexts == [entry : {"test", "fault"}, syscall : Traps, fault : Faults]
Rows == [pid : Nat, name : Names, kernel : BOOLEAN, state : States, context : Contexts]

\* A user process is one of two, and only the one that makes a system call is
\* ever made ready; each is run from its own entry.
UserRow(p) ==
  ~p.kernel => /\ p.name \in UserNames
               /\ p.context.entry = EntryOf(p.name)
               /\ p.state = "ready" => p.name = "usertest"

TableInv ==
  /\ table \in Seq(Rows)
  /\ nextPid \in Nat
  /\ \A i \in DOMAIN table : UserRow(table[i])
  /\ TableSound

LEMMA TableInit == Init => TableInv
<1> SUFFICES ASSUME Init PROVE TableInv
  OBVIOUS
<1> USE UsermodeAssumption
<1>1. TestContext(NoTrap) \in Contexts
  BY DEF TestContext, NoTrap, NoFault, Contexts, Traps, Faults
<1>2. \A i \in DOMAIN KernelTasks :
        table[i] = Process(i, KernelTasks[i], TRUE, "ready", TestContext(NoTrap))
  BY DEF Init
<1>3. /\ DOMAIN table = DOMAIN KernelTasks /\ DOMAIN KernelTasks = 1 .. Len(KernelTasks)
      /\ table \in [1 .. Len(KernelTasks) -> Rows]
  BY <1>1 DEF Init, Process, Rows, States, Names
<1>4. table \in Seq(Rows) /\ Len(table) = Len(KernelTasks)
  BY <1>3
<1>5. \A i \in DOMAIN table : table[i].kernel /\ table[i].pid = i
  BY <1>2, <1>3 DEF Process
<1>6. Users = {}
  BY <1>5 DEF Users
<1>7. nextPid = Len(KernelTasks) + 1
  BY DEF Init
<1>8. TableSound
  BY <1>3, <1>4, <1>5, <1>6, <1>7 DEF TableSound
<1>9. \A i \in DOMAIN table : UserRow(table[i])
  BY <1>5 DEF UserRow
<1> QED BY <1>4, <1>7, <1>8, <1>9 DEF TableInv

\* What Record does to the table: one row of that name changes its context and
\* its state, or a row is added; all the others stay.
LEMMA TableRecord ==
  ASSUME TableInv, NEW name \in UserNames, NEW context \in Contexts,
         NEW state \in States, Record(name, context, state),
         context.entry = EntryOf(name), state = "ready" => name = "usertest"
  PROVE  /\ TableInv'
         /\ \A i \in DOMAIN table' : ~table'[i].kernel =>
              \/ table'[i].name = name /\ table'[i].context = context
                 /\ table'[i].state = state
              \/ i \in DOMAIN table /\ table'[i] = table[i] /\ table[i].name # name
<1>0. /\ DOMAIN table = 1 .. Len(table) /\ Len(table) \in Nat
      /\ \A i \in DOMAIN table : table[i] \in Rows /\ table[i].pid \in Nat
  <2>1. table \in Seq(Rows)
    BY DEF TableInv
  <2>2. DOMAIN table = 1 .. Len(table) /\ Len(table) \in Nat
        /\ \A i \in DOMAIN table : table[i] \in Rows
    BY <2>1
  <2>3. \A p \in Rows : p.pid \in Nat
    BY DEF Rows
  <2> QED BY <2>2, <2>3
<1>1. CASE Named(name) # {}
  <2>1. /\ table' = [i \in DOMAIN table |->
                    IF i \in Named(name)
                    THEN [table[i] EXCEPT !.context = context, !.state = state]
                    ELSE table[i]]
        /\ nextPid' = nextPid
    BY <1>1 DEF Record
  <2>2. ASSUME NEW i \in DOMAIN table
        PROVE  /\ table'[i] \in Rows
               /\ table'[i].pid = table[i].pid /\ table'[i].name = table[i].name
               /\ table'[i].kernel = table[i].kernel
               /\ IF i \in Named(name)
                  THEN table'[i].context = context /\ table'[i].state = state
                  ELSE table'[i] = table[i]
    <3>1. table[i] \in Rows
      BY <1>0
    <3>2. CASE i \in Named(name)
      <4>1. table'[i] = [table[i] EXCEPT !.context = context, !.state = state]
        BY <2>1, <3>2
      <4> QED BY <3>1, <3>2, <4>1 DEF Rows
    <3>3. CASE i \notin Named(name)
      BY <2>1, <3>1, <3>3
    <3> QED BY <3>2, <3>3
  <2>3. /\ table' \in Seq(Rows) /\ Len(table') = Len(table)
        /\ DOMAIN table' = DOMAIN table
    <3>1. table' \in [1 .. Len(table) -> Rows]
      BY <1>0, <2>1, <2>2
    <3> QED BY <1>0, <3>1
  <2>4. Users' = Users
    BY <2>2, <2>3 DEF Users
  <2>5. TableSound'
    <3>1. TableSound
      BY DEF TableInv
    <3>2. Users \subseteq DOMAIN table
      BY DEF Users
    <3>3. Len(table') <= ProcessMax
      BY <2>3, <3>1 DEF TableSound
    <3>4. \A i \in DOMAIN table' : table'[i].pid < nextPid'
      BY <2>1, <2>2, <2>3, <3>1 DEF TableSound
    <3>5. \A i, j \in DOMAIN table' : table'[i].pid = table'[j].pid => i = j
      BY <2>2, <2>3, <3>1 DEF TableSound
    <3>6. \A i, j \in Users' : table'[i].name = table'[j].name => i = j
      BY <2>2, <2>3, <2>4, <3>1, <3>2 DEF TableSound
    <3> QED BY <3>3, <3>4, <3>5, <3>6 DEF TableSound
  <2>6. \A i \in DOMAIN table' : UserRow(table'[i])
    BY <2>2, <2>3, <2>4 DEF TableInv, UserRow, Named, Users
  <2> QED BY <2>1, <2>2, <2>3, <2>4, <2>5, <2>6 DEF TableInv, Named, Users
<1>2. CASE Named(name) = {}
  <2> DEFINE new == Process(nextPid, name, FALSE, state, context)
  <2>1. /\ table' = Append(table, new) /\ Len(table) < ProcessMax
        /\ nextPid' = nextPid + 1
    BY <1>2 DEF Record
  <2>2. new \in Rows
    BY DEF Process, Rows, TableInv, Names
  <2>3. /\ table' \in Seq(Rows) /\ Len(table') = Len(table) + 1
        /\ DOMAIN table' = DOMAIN table \cup {Len(table) + 1}
        /\ table'[Len(table) + 1] = new
        /\ \A i \in DOMAIN table : table'[i] = table[i]
    <3> HIDE DEF new
    <3> QED BY <2>1, <2>2 DEF TableInv
  <2>4. /\ new.pid = nextPid /\ new.name = name /\ ~new.kernel
        /\ new.context = context /\ new.state = state
    BY DEF Process
  <2> HIDE DEF new
  <2>5. Users' = Users \cup {Len(table) + 1}
    BY <2>3, <2>4 DEF Users
  <2>6. \A i \in Users : table[i].name # name
    BY <1>2 DEF Named
  <2>7. Len(table) + 1 \notin DOMAIN table /\ Users \subseteq DOMAIN table
    BY DEF TableInv, Users
  <2>8. TableSound'
    <3>1. Len(table') <= ProcessMax
      BY <2>1, <2>3, UsermodeAssumption DEF TableInv
    <3>2. \A i \in DOMAIN table : table[i].pid < nextPid /\ table[i].pid \in Nat
      BY <1>0 DEF TableInv, TableSound
    <3>3. \A i \in DOMAIN table' : table'[i].pid < nextPid'
      BY <2>1, <2>3, <2>4, <3>2 DEF TableInv
    <3>4. \A i, j \in DOMAIN table' : table'[i].pid = table'[j].pid => i = j
      BY <2>3, <2>4, <3>2 DEF TableInv, TableSound
    <3>5. \A i, j \in Users' : table'[i].name = table'[j].name => i = j
      BY <2>3, <2>4, <2>5, <2>6, <2>7 DEF TableInv, TableSound
    <3> QED BY <3>1, <3>3, <3>4, <3>5 DEF TableSound
  <2>9. \A i \in DOMAIN table' : UserRow(table'[i])
    BY <2>3, <2>4 DEF TableInv, UserRow
  <2> QED BY <2>1, <2>3, <2>4, <2>5, <2>6, <2>8, <2>9 DEF TableInv, Users
<1> QED BY <1>1, <1>2

-----------------------------------------------------------------------------
(***************************************************************************)
(* What the records say.  Until a command disturbs a launch, what a run did  *)
(* in ring 3 is still in the handlers' variables when it is reported.        *)
(***************************************************************************)
Called == [eax |-> "USER", cs |-> "user"]
Caught == [vector |-> 14, address |-> 32768, cs |-> "user"]

Jobs == [name : UserNames \cup {"none"}, entry : {"test", "fault"}]
Sensible(r) == at[r] # "idle" =>
  /\ job[r].name \in UserNames /\ job[r].entry = EntryOf(job[r].name)
  /\ r = "launcher" => job[r].name = "usertest"
Noted(r) == at[r] \in {"landing", "back", "restored"} /\ ~raced =>
  IF job[r].entry = "fault" THEN fault = Caught ELSE syscall = Called

JobInv ==
  /\ job \in [Runners -> Jobs]
  /\ syscall \in Traps /\ fault \in Faults /\ raced \in BOOLEAN
  /\ \A r \in Runners : Sensible(r) /\ Noted(r)

RowTrue(i) ==
  /\ table[i].state = "running" => InProgress(table[i].name)
  /\ table[i].state = "zombie" /\ ~raced =>
       table[i].context = IF table[i].name = "userfault" THEN FaultContext(Caught)
                                                         ELSE TestContext(Called)

RecordsInv == LandInv /\ TableInv /\ JobInv /\ RecordsTrue

LEMMA RowsTrue == RecordsTrue <=> \A i \in Users : RowTrue(i)
BY DEF RecordsTrue, RowTrue, Called, Caught

LEMMA RecordsInit == Init => RecordsInv
<1> SUFFICES ASSUME Init PROVE RecordsInv
  OBVIOUS
<1>1. JobInv
  <2>1. syscall \in Traps /\ fault \in Faults
    BY DEF Init, Traps, Faults, NoTrap, NoFault
  <2>4. raced \in BOOLEAN
    BY DEF Init
  <2>2. job \in [Runners -> Jobs]
    BY DEF Init, Jobs
  <2>3. \A r \in Runners : at[r] = "idle"
    BY DEF Init
  <2> QED BY <2>1, <2>2, <2>3, <2>4 DEF JobInv, Sensible, Noted
<1>2. TableInv /\ Users = {}
  <2>1. table \in Seq(Rows) /\ DOMAIN table = DOMAIN KernelTasks
    BY TableInit DEF TableInv, Init
  <2>2. \A i \in DOMAIN table : table[i].kernel
    BY <2>1 DEF Init, Process
  <2> QED BY <2>2, TableInit DEF Users
<1> QED BY <1>1, <1>2, LandInit DEF RecordsInv, RecordsTrue

LEMMA ContextFits ==
  ASSUME JobInv, NEW r \in Runners, at[r] # "idle"
  PROVE  /\ Context(r) \in Contexts /\ job[r].name \in UserNames
         /\ Context(r).entry = EntryOf(job[r].name)
         /\ at[r] \in {"back", "restored"} /\ ~raced =>
              Context(r) = IF job[r].name = "userfault" THEN FaultContext(Caught)
                                                        ELSE TestContext(Called)
<1>1. Sensible(r) /\ Noted(r)
  BY DEF JobInv
<1>2. NoTrap \in Traps /\ NoFault \in Faults /\ syscall \in Traps /\ fault \in Faults
  BY DEF NoTrap, NoFault, Traps, Faults, JobInv
<1>3. \A t \in Traps : TestContext(t) \in Contexts /\ TestContext(t).entry = "test"
  BY <1>2 DEF TestContext, Contexts
<1>4. \A f \in Faults : FaultContext(f) \in Contexts /\ FaultContext(f).entry = "fault"
  BY <1>2 DEF FaultContext, Contexts
<1> QED BY <1>1, <1>2, <1>3, <1>4 DEF Context, Sensible, Noted, EntryOf, UserNames

\* A step that leaves the table alone and takes no run that is in progress away.
LEMMA RecordsKept ==
  ASSUME RecordsInv, UNCHANGED processes, raced => raced',
         raced' \in BOOLEAN,
         \A r \in Runners : at[r] # "idle" =>
           at'[r] # "idle" /\ job'[r].name = job[r].name
  PROVE  TableInv' /\ RecordsTrue'
<1>1. Users' = Users
  BY DEF Users, processes
<1>2. TableInv'
  BY <1>1 DEF RecordsInv, TableInv, TableSound, processes
<1>3. \A name : InProgress(name) => InProgress(name)'
  BY DEF InProgress
<1>4. raced \in BOOLEAN
  BY DEF RecordsInv, JobInv
<1>5. ASSUME NEW i \in Users PROVE RowTrue(i)'
  <2>1. RowTrue(i)
    BY RowsTrue DEF RecordsInv
  <2> QED BY <2>1, <1>3, <1>4 DEF RowTrue, processes
<1>6. RecordsTrue'
  BY <1>1, <1>5 DEF RecordsTrue, RowTrue, Called, Caught
<1> QED BY <1>2, <1>6

\* A step that records the process of one name.
LEMMA RecordsWritten ==
  ASSUME RecordsInv, NEW name \in UserNames, NEW context \in Contexts, NEW state \in States,
         Record(name, context, state), context.entry = EntryOf(name),
         state = "ready" => name = "usertest",
         raced => raced', raced' \in BOOLEAN,
         \A r \in Runners : at[r] # "idle" /\ job[r].name # name =>
           at'[r] # "idle" /\ job'[r].name = job[r].name,
         state = "running" => InProgress(name)',
         state = "zombie" /\ ~raced' =>
           context = IF name = "userfault" THEN FaultContext(Caught) ELSE TestContext(Called)
  PROVE  TableInv' /\ RecordsTrue'
<1>1. /\ TableInv'
      /\ \A i \in DOMAIN table' : ~table'[i].kernel =>
              \/ table'[i].name = name /\ table'[i].context = context
                 /\ table'[i].state = state
              \/ i \in DOMAIN table /\ table'[i] = table[i] /\ table[i].name # name
  BY TableRecord DEF RecordsInv
<1>2. \A other : other # name /\ InProgress(other) => InProgress(other)'
  BY DEF InProgress
<1>3. raced \in BOOLEAN
  BY DEF RecordsInv, JobInv
<1>4. ASSUME NEW i \in Users' PROVE RowTrue(i)'
  <2>1. i \in DOMAIN table' /\ ~table'[i].kernel
    BY <1>4 DEF Users
  <2>2. CASE table'[i].name = name /\ table'[i].context = context /\ table'[i].state = state
    BY <2>2 DEF RowTrue
  <2>3. CASE i \in DOMAIN table /\ table'[i] = table[i] /\ table[i].name # name
    <3>1. RowTrue(i)
      BY <2>1, <2>3, RowsTrue DEF RecordsInv, Users
    <3> QED BY <1>2, <1>3, <2>3, <3>1 DEF RowTrue
  <2> QED BY <1>1, <2>1, <2>2, <2>3
<1>5. RecordsTrue'
  BY <1>4 DEF RecordsTrue, RowTrue, Called, Caught
<1> QED BY <1>1, <1>5

Holding == {"landing", "back", "restored"}

LEMMA JobKept ==
  ASSUME JobInv, UNCHANGED <<job, syscall, fault>>, raced => raced', raced' \in BOOLEAN,
         \A r \in Runners : /\ at'[r] # "idle" => at[r] # "idle"
                            /\ at'[r] \in Holding => at[r] \in Holding
  PROVE  JobInv'
BY DEF JobInv, Sensible, Noted, Holding

\* Both runners of a step, one moved and the other where it was.
LEMMA Moved ==
  ASSUME LandInv, NEW r \in Runners, NEW to, at' = [at EXCEPT ![r] = to]
  PROVE  at'[r] = to /\ \A q \in Runners \ {r} : at'[q] = at[q]
BY DEF LandInv

LEMMA RecordsNext == RecordsInv /\ [Next]_vars => RecordsInv'
<1> SUFFICES ASSUME RecordsInv, [Next]_vars PROVE JobInv' /\ TableInv' /\ RecordsTrue'
  BY LandNext DEF RecordsInv
<1>0. LandInv /\ JobInv /\ raced \in BOOLEAN /\ TableInv
  BY DEF RecordsInv, JobInv
<1> USE DEF gates, traps, run
<1>a. NoTrap \in Traps /\ NoFault \in Faults
  BY DEF NoTrap, NoFault, Traps, Faults
<1>b. ASSUME UNCHANGED <<processes, job, syscall, fault, raced>>, NEW r \in Runners,
             NEW from, NEW to, at[r] = from, at' = [at EXCEPT ![r] = to],
             to # "idle", from # "idle", to \in Holding => from \in Holding
      PROVE  JobInv' /\ TableInv' /\ RecordsTrue'
  BY <1>0, <1>b, Moved, JobKept, RecordsKept
<1>1. CASE Poll \/ Interrupt \/ Usersched \/ Preempt \/ Mainsw \/ TaskIdle \/ UNCHANGED vars
  <2>1. UNCHANGED <<processes, at, job, syscall, fault, raced>>
    BY <1>1 DEF Poll, Interrupt, Usersched, Preempt, Mainsw, TaskIdle, vars, processes
  <2> QED BY <1>0, <2>1, JobKept, RecordsKept
<1>2. CASE Tick
  <2>1. UNCHANGED <<processes, job, syscall, fault, raced>>
    BY <1>2 DEF Tick, PassTo
  <2>2. \A r \in Runners : at'[r] = at[r] \/ (at[r] = "user" /\ at'[r] = "lost")
    <3> DEFINE o == Other(cpu)
    <3>1. o \in Runners
      BY DEF Other, Runners
    <3>2. at' = at \/ (at[o] = "user" /\ at' = [at EXCEPT ![o] = "lost"])
      BY <1>2 DEF Tick, PassTo
    <3> HIDE DEF o
    <3>3. CASE at' = at
      BY <3>3
    <3>4. CASE at[o] = "user" /\ at' = [at EXCEPT ![o] = "lost"]
      BY <1>0, <3>1, <3>4, Moved
    <3> QED BY <3>2, <3>3, <3>4
  <2> QED BY <1>0, <2>1, <2>2, JobKept, RecordsKept DEF Holding
<1>3. ASSUME NEW r \in Runners, Enter(r) PROVE JobInv' /\ TableInv' /\ RecordsTrue'
  BY <1>3, <1>b DEF Enter, Steps, Holding
<1>4. ASSUME NEW r \in Runners, Land(r) PROVE JobInv' /\ TableInv' /\ RecordsTrue'
  BY <1>4, <1>b DEF Land, Steps, Holding
<1>5. ASSUME NEW r \in Runners, Syscall(r) \/ Fault(r)
      PROVE  JobInv' /\ TableInv' /\ RecordsTrue'
  <2>1. /\ UNCHANGED <<processes, job, raced>>
        /\ at[r] = "user" /\ at' = [at EXCEPT ![r] = "landing"]
        /\ \/ job[r].entry = "test" /\ syscall' = Called /\ fault' = fault
           \/ job[r].entry = "fault" /\ fault' = Caught /\ syscall' = syscall
    BY <1>5 DEF Syscall, Fault, Steps, Called, Caught
  <2>2. at'[r] = "landing" /\ \A q \in Runners \ {r} : at'[q] = at[q]
    BY <1>0, <2>1, Moved
  <2>3. Called \in Traps /\ Caught \in Faults
    BY DEF Called, Caught, Traps, Faults
  <2>4. JobInv'
    BY <1>0, <2>1, <2>2, <2>3 DEF JobInv, Sensible, Noted
  <2>5. \A q \in Runners : at[q] # "idle" => at'[q] # "idle" /\ job'[q].name = job[q].name
    BY <2>1, <2>2
  <2> QED BY <1>0, <2>1, <2>4, <2>5, RecordsKept
<1>6. CASE SyscallTest
  <2>1. /\ UNCHANGED <<processes, at, job, fault>> /\ at["desktop"] = "idle"
        /\ raced' = (raced \/ at["launcher"] # "idle")
        /\ syscall' = [eax |-> "MINV", cs |-> "kernel"]
    BY <1>6 DEF SyscallTest, AtPrompt, Launching
  <2>2. syscall' \in Traps
    BY <2>1 DEF Traps
  <2>3. raced' \in BOOLEAN /\ (raced => raced')
    BY <1>0, <2>1
  <2>4. \A r \in Runners : at[r] = "idle" \/ raced'
    BY <2>1 DEF Runners
  <2>5. JobInv'
    BY <1>0, <2>1, <2>2, <2>3, <2>4 DEF JobInv, Sensible, Noted
  <2> QED BY <1>0, <2>1, <2>3, <2>5, RecordsKept
<1>7. CASE Userprep
  <2>1. /\ UNCHANGED <<at, job, syscall, fault>>
        /\ raced' = (raced \/ at["launcher"] # "idle")
        /\ Record("usertest", TestContext(NoTrap), "ready")
    BY <1>7 DEF Userprep, Launching
  <2>2. raced' \in BOOLEAN /\ (raced => raced')
    BY <1>0, <2>1
  <2>3. TestContext(NoTrap) \in Contexts /\ TestContext(NoTrap).entry = EntryOf("usertest")
    BY <1>a DEF TestContext, Contexts, EntryOf
  <2>4. TableInv' /\ RecordsTrue'
    BY <1>0, <2>1, <2>2, <2>3, RecordsWritten DEF UserNames, States
  <2> QED BY <1>0, <2>1, <2>2, <2>4, JobKept
<1>8. ASSUME NEW name \in UserNames, NEW entry, entry = EntryOf(name), Enters(name, entry)
      PROVE  /\ JobInv' /\ InProgress(name)' /\ raced' \in BOOLEAN /\ (raced => raced')
             /\ \A r \in Runners : at[r] # "idle" =>
                  at'[r] # "idle" /\ job'[r].name = job[r].name
  <2>1. /\ at["desktop"] = "idle" /\ at' = [at EXCEPT !["desktop"] = "call"]
        /\ job' = [job EXCEPT !["desktop"] = [name |-> name, entry |-> entry]]
        /\ UNCHANGED <<syscall, fault>> /\ raced' = (raced \/ at["launcher"] # "idle")
    BY <1>8 DEF Enters, AtPrompt, Launching
  <2>2. at'["desktop"] = "call" /\ at'["launcher"] = at["launcher"]
    BY <1>0, <2>1, Moved DEF Runners
  <2>3. /\ job'["desktop"] = [name |-> name, entry |-> entry]
        /\ job'["launcher"] = job["launcher"] /\ job' \in [Runners -> Jobs]
    BY <1>0, <1>8, <2>1 DEF JobInv, Runners, Jobs, EntryOf
  <2>4. raced' \in BOOLEAN /\ (raced => raced')
    BY <1>0, <2>1
  <2>5. \A r \in Runners : Sensible(r)' /\ Noted(r)'
    BY <1>0, <1>8, <2>1, <2>2, <2>3, <2>4 DEF JobInv, Sensible, Noted, Runners
  <2>6. JobInv'
    BY <1>0, <2>1, <2>3, <2>4, <2>5 DEF JobInv
  <2>7. InProgress(name)'
    BY <2>2, <2>3 DEF InProgress, Runners
  <2> QED BY <2>1, <2>2, <2>3, <2>4, <2>6, <2>7 DEF Runners
<1>9. CASE Usertest
  BY <1>8, <1>9, RecordsKept DEF Usertest, UserNames, EntryOf
<1>10. CASE Userrun
  <2>1. PICK i \in Named("usertest") : Record("usertest", table[i].context, "running")
    BY <1>10 DEF Userrun
  <2>2. /\ table[i].context \in Contexts
        /\ table[i].context.entry = EntryOf("usertest")
    <3>1. i \in DOMAIN table /\ ~table[i].kernel /\ table[i].name = "usertest"
      BY DEF Named, Users
    <3>2. table[i] \in Rows /\ UserRow(table[i])
      BY <1>0, <3>1 DEF TableInv
    <3> QED BY <3>1, <3>2 DEF UserRow, Rows
  <2>3. Enters("usertest", "test")
    BY <1>10 DEF Userrun
  <2> QED BY <1>8, <2>1, <2>2, <2>3, RecordsWritten DEF UserNames, EntryOf, States
<1>11. CASE Userfault
  <2>1. FaultContext(NoFault) \in Contexts /\ FaultContext(NoFault).entry = "fault"
    BY <1>a DEF FaultContext, Contexts
  <2> QED BY <1>8, <1>11, <2>1, RecordsWritten DEF Userfault, UserNames, EntryOf, States
<1>12. CASE DesktopReports
  <2>1. /\ at["desktop"] = "back" /\ at' = [at EXCEPT !["desktop"] = "idle"]
        /\ UNCHANGED <<job, syscall, fault, raced>>
        /\ Record(job["desktop"].name, Context("desktop"), "zombie")
    BY <1>12 DEF DesktopReports, Steps
  <2>2. at'["desktop"] = "idle" /\ at'["launcher"] = at["launcher"]
    BY <1>0, <2>1, Moved DEF Runners
  <2>3. JobInv'
    BY <1>0, <2>1, <2>2, JobKept DEF Runners, Holding
  <2>4. TableInv' /\ RecordsTrue'
    BY <1>0, <2>1, <2>2, ContextFits, RecordsWritten DEF Runners, States
  <2> QED BY <2>3, <2>4
<1>13. CASE TaskPick
  <2>1. /\ at["launcher"] = "idle" /\ at' = [at EXCEPT !["launcher"] = "picked"]
        /\ job' = [job EXCEPT !["launcher"] =
             [name |-> table[FirstReady].name, entry |-> table[FirstReady].context.entry]]
        /\ UNCHANGED <<processes, syscall, fault, raced>>
    BY <1>13 DEF TaskPick, Steps
  <2>2. at'["launcher"] = "picked" /\ at'["desktop"] = at["desktop"]
    BY <1>0, <2>1, Moved DEF Runners
  <2>3. table[FirstReady].name = "usertest" /\ table[FirstReady].context.entry = "test"
    <3>1. FirstReady \in ReadyUsers
      <4>1. ReadyUsers # {} /\ ReadyUsers \subseteq Nat
        BY <1>0, <1>13 DEF TaskPick, TableInv, ReadyUsers, Users
      <4>2. \E i \in ReadyUsers : \A j \in ReadyUsers : i <= j
        <5>1. \A i, j \in ReadyUsers : i = j
          BY <1>0 DEF TableInv, TableSound, ReadyUsers, Users, UserRow
        <5>2. PICK i \in ReadyUsers : TRUE
          BY <4>1
        <5>3. \A j \in ReadyUsers : i <= j
          BY <4>1, <5>1
        <5> QED BY <5>3
      <4> QED BY <4>2 DEF FirstReady
    <3> QED BY <1>0, <3>1 DEF TableInv, ReadyUsers, Users, UserRow, EntryOf
  <2>4. /\ job'["launcher"] = [name |-> "usertest", entry |-> "test"]
        /\ job'["desktop"] = job["desktop"] /\ job' \in [Runners -> Jobs]
    BY <1>0, <2>1, <2>3 DEF JobInv, Runners, Jobs, UserNames
  <2>5. \A r \in Runners : Sensible(r)' /\ Noted(r)'
    BY <1>0, <2>1, <2>2, <2>4 DEF JobInv, Sensible, Noted, Runners, UserNames, EntryOf
  <2>6. JobInv'
    BY <1>0, <2>1, <2>4, <2>5 DEF JobInv
  <2>7. \A r \in Runners : at[r] # "idle" => at'[r] # "idle" /\ job'[r].name = job[r].name
    BY <2>1, <2>2, <2>4 DEF Runners
  <2> QED BY <1>0, <2>1, <2>6, <2>7, RecordsKept
<1>14. CASE TaskMark
  <2>1. /\ at["launcher"] = "picked" /\ at' = [at EXCEPT !["launcher"] = "marked"]
        /\ UNCHANGED <<job, syscall, fault, raced>>
        /\ Record(job["launcher"].name, TestContext(NoTrap), "running")
    BY <1>14 DEF TaskMark, Steps
  <2>2. at'["launcher"] = "marked" /\ at'["desktop"] = at["desktop"]
    BY <1>0, <2>1, Moved DEF Runners
  <2>3. TestContext(NoTrap) \in Contexts /\ TestContext(NoTrap).entry = "test"
    BY <1>a DEF TestContext, Contexts
  <2>4. job["launcher"].name = "usertest"
    BY <1>0, <2>1 DEF JobInv, Sensible, Runners
  <2>5. InProgress("usertest")'
    BY <2>1, <2>2, <2>4 DEF InProgress, Runners
  <2>6. JobInv'
    BY <1>0, <2>1, <2>2, JobKept DEF Runners, Holding
  <2>7. TableInv' /\ RecordsTrue'
    BY <1>0, <2>1, <2>2, <2>3, <2>4, <2>5, RecordsWritten
       DEF Runners, States, UserNames, EntryOf
  <2> QED BY <2>6, <2>7
<1>15. CASE TaskLower \/ TaskRestore
  <2> "launcher" \in Runners
    BY DEF Runners
  <2> QED BY <1>15, <1>b DEF TaskLower, TaskRestore, Steps, Holding
<1>16. CASE TaskReport
  <2>1. /\ at["launcher"] = "restored" /\ at' = [at EXCEPT !["launcher"] = "idle"]
        /\ UNCHANGED <<job, syscall, fault, raced>>
        /\ Record(job["launcher"].name, TestContext(syscall), "zombie")
    BY <1>16 DEF TaskReport, Returns
  <2>2. at'["launcher"] = "idle" /\ at'["desktop"] = at["desktop"]
    BY <1>0, <2>1, Moved DEF Runners
  <2>3. TestContext(syscall) = Context("launcher")
    BY <1>0, <2>1 DEF JobInv, Sensible, Context, EntryOf, Runners
  <2>4. JobInv'
    BY <1>0, <2>1, <2>2, JobKept DEF Runners, Holding
  <2>5. TableInv' /\ RecordsTrue'
    BY <1>0, <2>1, <2>2, <2>3, ContextFits, RecordsWritten DEF Runners, States
  <2> QED BY <2>4, <2>5
<1> QED BY <1>1, <1>2, <1>3, <1>4, <1>5, <1>6, <1>7, <1>9, <1>10, <1>11, <1>12, <1>13,
           <1>14, <1>15, <1>16 DEF Next, Terminal, Launcher

\* One row for each name and one pid for each row, for any number of slots.
THEOREM ProcessTableSound == Spec => []TableSound
<1>1. Spec => []RecordsInv
  BY RecordsInit, RecordsNext, PTL DEF Spec
<1>2. RecordsInv => TableSound
  BY DEF RecordsInv, TableInv
<1> QED BY <1>1, <1>2, PTL

\* What uproc and uctx show of a run is what the run did, unless a command came
\* in between.
THEOREM ProcessRecordsTrue == Spec => []RecordsTrue
<1>1. Spec => []RecordsInv
  BY RecordsInit, RecordsNext, PTL DEF Spec
<1>2. RecordsInv => RecordsTrue
  BY DEF RecordsInv
<1> QED BY <1>1, <1>2, PTL
=============================================================================
