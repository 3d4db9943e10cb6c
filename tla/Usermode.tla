------------------------------ MODULE Usermode ------------------------------
(***************************************************************************)
(* Ring 3: the process table of src/kernel/process.c, the entry and the      *)
(* landing pads of src/kernel/usermode.asm, the system call and the page     *)
(* fault of src/interrupts/interrupts.c, the terminal's commands and the     *)
(* launcher task of src/kernel/user_scheduler.c.                             *)
(*                                                                         *)
(* Two runners enter ring 3: the desktop, for a command, and the launcher.   *)
(* There is one variable for the kernel stack to come back to and one TSS    *)
(* stack for what interrupts ring 3.  The scheduler is Scheduler.tla's; here *)
(* a poll or a tick passes the processor on, and what a runner left on its   *)
(* own stack is still there when it is resumed.  Counters are left out.      *)
(***************************************************************************)
EXTENDS Integers, Sequences

CONSTANTS
  ProcessMax,      \* the slots of the process table
  KernelTasks      \* the names of the kernel's processes, as they are created

ASSUME UsermodeAssumption ==
  /\ ProcessMax \in Nat
  /\ KernelTasks \in Seq(STRING) /\ Len(KernelTasks) + 2 <= ProcessMax

Runners == {"desktop", "launcher"}
Other(r) == IF r = "desktop" THEN "launcher" ELSE "desktop"

VARIABLES
  table,           \* processes: the used slots, which are never given back
  nextPid,         \* next_pid
  armed,           \* user_scheduler.c: the launcher is to launch
  preempt, mainsw, \* the scheduler's gates
  syscall,         \* syscall_last_eax, syscall_last_cs
  fault,           \* user_fault_vector, user_fault_address, user_fault_cs
  cpu,             \* the runner that has the processor
  at,              \* where each runner is
  job,             \* what each runner runs: the name and the saved context
  savedEsp,        \* saved_kernel_esp: the runner on whose stack it points
  tss,             \* the runner whose frame was last pushed on the TSS stack
  wasPreemptive,   \* the launcher's local
  raced            \* a command changed under a launch what it was to record

vars == <<table, nextPid, armed, preempt, mainsw, syscall, fault, cpu, at, job,
          savedEsp, tss, wasPreemptive, raced>>
processes == <<table, nextPid>>
gates == <<preempt, mainsw>>
traps == <<syscall, fault, savedEsp, tss>>
run == <<cpu, at, job>>

-----------------------------------------------------------------------------
(***************************************************************************)
(* The process table.                                                       *)
(***************************************************************************)
NoTrap == [eax |-> "none", cs |-> "none"]
NoFault == [vector |-> 0, address |-> 0, cs |-> "none"]

\* usermode_fill_test_context and usermode_fill_fault_context.
TestContext(s) == [entry |-> "test", syscall |-> s, fault |-> NoFault]
FaultContext(f) == [entry |-> "fault", syscall |-> NoTrap, fault |-> f]

Process(pid, name, kernel, state, context) ==
  [pid |-> pid, name |-> name, kernel |-> kernel, state |-> state, context |-> context]

Users == {i \in DOMAIN table : ~table[i].kernel}
Named(name) == {i \in Users : table[i].name = name}
ReadyUsers == {i \in Users : table[i].state = "ready"}
FirstReady == CHOOSE i \in ReadyUsers : \A j \in ReadyUsers : i <= j

\* Mutant: a process of that name is not looked for.
RecordAnew(name, context, state) ==
  /\ table' = Append(table, Process(nextPid, name, FALSE, state, context))
  /\ nextPid' = nextPid + 1

\* process_record_user: the record of that name, or a new one if there is room.
Record(name, context, state) ==
  \/ /\ Named(name) # {}
     /\ table' = [i \in DOMAIN table |->
                    IF i \in Named(name)
                    THEN [table[i] EXCEPT !.context = context, !.state = state]
                    ELSE table[i]]
     /\ UNCHANGED nextPid
  \/ /\ Named(name) = {} /\ Len(table) < ProcessMax
     /\ table' = Append(table, Process(nextPid, name, FALSE, state, context))
     /\ nextPid' = nextPid + 1

Init ==
  /\ table = [i \in DOMAIN KernelTasks |->
                Process(i, KernelTasks[i], TRUE, "ready", TestContext(NoTrap))]
  /\ nextPid = Len(KernelTasks) + 1
  /\ armed = FALSE
  /\ preempt = FALSE /\ mainsw = FALSE
  /\ syscall = NoTrap /\ fault = NoFault
  /\ cpu = "desktop"
  /\ at = [r \in Runners |-> "idle"]
  /\ job = [r \in Runners |-> [name |-> "none", entry |-> "test"]]
  /\ savedEsp = "none" /\ tss = "none"
  /\ wasPreemptive = FALSE
  /\ raced = FALSE

-----------------------------------------------------------------------------
(***************************************************************************)
(* Switching.  A runner that was interrupted in ring 3 comes back through    *)
(* the frame on the TSS stack, whosever it is by then.                      *)
(***************************************************************************)
Interruptible(r) == at[r] # "landing"

PassTo(r) ==
  /\ cpu' = r
  /\ at' = IF at[r] = "user" /\ tss' # r THEN [at EXCEPT ![r] = "lost"] ELSE at
  /\ UNCHANGED job

\* scheduler_poll: the launcher's turn, from the top of its function.
Poll ==
  /\ cpu = "desktop" /\ at["desktop"] = "idle" /\ at["launcher"] = "idle"
  /\ cpu' = "launcher"
  /\ UNCHANGED <<processes, armed, gates, traps, at, job, wasPreemptive, raced>>

\* The timer: in ring 3 its frame goes to the TSS stack.
Tick ==
  /\ preempt /\ mainsw /\ Interruptible(cpu)
  /\ tss' = IF at[cpu] = "user" THEN cpu ELSE tss
  /\ PassTo(Other(cpu))
  /\ UNCHANGED <<processes, armed, gates, syscall, fault, savedEsp, wasPreemptive, raced>>

\* Any other interrupt, and a tick that switches nothing.
Interrupt ==
  /\ at[cpu] = "user" /\ tss' = cpu
  /\ UNCHANGED <<processes, armed, gates, syscall, fault, savedEsp, run, wasPreemptive, raced>>

Steps(r, from, to) ==
  /\ cpu = r /\ at[r] = from
  /\ at' = [at EXCEPT ![r] = to]
  /\ UNCHANGED cpu

-----------------------------------------------------------------------------
(***************************************************************************)
(* usermode.asm, the same for both runners.                                 *)
(***************************************************************************)
\* Interrupts are off until iretd.
Enter(r) ==
  /\ Steps(r, "call", "user")
  /\ savedEsp' = r
  /\ UNCHANGED <<processes, armed, gates, syscall, fault, tss, job, wasPreemptive, raced>>

\* int 0x80 with the magic in EAX: the frame is turned to the landing pad.
Syscall(r) ==
  /\ Steps(r, "user", "landing")
  /\ job[r].entry = "test"
  /\ tss' = r
  /\ syscall' = [eax |-> "USER", cs |-> "user"]
  /\ UNCHANGED <<processes, armed, gates, fault, savedEsp, job, wasPreemptive, raced>>

\* The read of a supervisor page.
Fault(r) ==
  /\ Steps(r, "user", "landing")
  /\ job[r].entry = "fault"
  /\ tss' = r
  /\ fault' = [vector |-> 14, address |-> 32768, cs |-> "user"]
  /\ UNCHANGED <<processes, armed, gates, syscall, savedEsp, job, wasPreemptive, raced>>

Land(r) ==
  /\ Steps(r, "landing", IF savedEsp = r THEN "back" ELSE "lost")
  /\ UNCHANGED <<processes, armed, gates, traps, job, wasPreemptive, raced>>

-----------------------------------------------------------------------------
(***************************************************************************)
(* The terminal.                                                            *)
(***************************************************************************)
AtPrompt == cpu = "desktop" /\ at["desktop"] = "idle"
Launching == at["launcher"] # "idle"

\* userprep and userreset.
Userprep ==
  /\ AtPrompt
  /\ Record("usertest", TestContext(NoTrap), "ready")
  /\ raced' = (raced \/ Launching)
  /\ UNCHANGED <<armed, gates, traps, run, wasPreemptive>>

Usersched ==
  /\ AtPrompt
  /\ armed' = (ReadyUsers # {})
  /\ UNCHANGED <<processes, gates, traps, run, wasPreemptive, raced>>

\* int 0x80 from the kernel with another number: nothing but the record changes.
SyscallTest ==
  /\ AtPrompt
  /\ syscall' = [eax |-> "MINV", cs |-> "kernel"]
  /\ raced' = (raced \/ Launching)
  /\ UNCHANGED <<processes, armed, gates, fault, savedEsp, tss, run, wasPreemptive>>

Preempt ==
  /\ AtPrompt
  /\ preempt' = ~preempt
  /\ UNCHANGED <<processes, armed, mainsw, traps, run, wasPreemptive, raced>>
Mainsw ==
  /\ AtPrompt
  /\ mainsw' = ~mainsw
  /\ UNCHANGED <<processes, armed, preempt, traps, run, wasPreemptive, raced>>

\* Nothing lowers the gate for these: they are for when it is closed.
Enters(name, entry) ==
  /\ AtPrompt /\ ~preempt
  /\ at' = [at EXCEPT !["desktop"] = "call"]
  /\ job' = [job EXCEPT !["desktop"] = [name |-> name, entry |-> entry]]
  /\ raced' = (raced \/ Launching)
  /\ UNCHANGED <<armed, gates, traps, cpu, wasPreemptive>>

Usertest == Enters("usertest", "test") /\ UNCHANGED processes

\* Whatever the state of the process is.
Userrun ==
  /\ \E i \in Named("usertest") : Record("usertest", table[i].context, "running")
  /\ Enters("usertest", "test")

Userfault ==
  /\ Record("userfault", FaultContext(NoFault), "running")
  /\ Enters("userfault", "fault")

\* What the handlers noted is read when the run is over.
Context(r) ==
  IF job[r].entry = "fault" THEN FaultContext(fault) ELSE TestContext(syscall)

DesktopReports ==
  /\ Steps("desktop", "back", "idle")
  /\ Record(job["desktop"].name, Context("desktop"), "zombie")
  /\ UNCHANGED <<armed, gates, traps, job, wasPreemptive, raced>>

Terminal ==
  \/ Userprep \/ Usersched \/ SyscallTest \/ Preempt \/ Mainsw
  \/ Usertest \/ Userrun \/ Userfault \/ DesktopReports

-----------------------------------------------------------------------------
(***************************************************************************)
(* user_scheduler_task.                                                     *)
(***************************************************************************)
TaskIdle ==
  /\ cpu = "launcher" /\ at["launcher"] = "idle"
  /\ ~armed \/ ReadyUsers = {}
  /\ armed' = FALSE
  /\ cpu' = "desktop"
  /\ UNCHANGED <<processes, gates, traps, at, job, wasPreemptive, raced>>

TaskPick ==
  /\ Steps("launcher", "idle", "picked")
  /\ armed /\ ReadyUsers # {}
  /\ job' = [job EXCEPT !["launcher"] =
               [name |-> table[FirstReady].name, entry |-> table[FirstReady].context.entry]]
  /\ UNCHANGED <<processes, armed, gates, traps, wasPreemptive, raced>>

TaskMark ==
  /\ Steps("launcher", "picked", "marked")
  /\ armed' = FALSE
  /\ Record(job["launcher"].name, TestContext(NoTrap), "running")
  /\ wasPreemptive' = preempt
  /\ UNCHANGED <<gates, traps, job, raced>>

\* Mutant: the gate is left as it is.
TaskRunOpen ==
  /\ Steps("launcher", "marked", "call")
  /\ UNCHANGED <<processes, armed, gates, traps, job, wasPreemptive, raced>>

TaskLower ==
  /\ Steps("launcher", "marked", "call")
  /\ preempt' = FALSE
  /\ UNCHANGED <<processes, armed, mainsw, traps, job, wasPreemptive, raced>>

TaskRestore ==
  /\ Steps("launcher", "back", "restored")
  /\ preempt' = wasPreemptive
  /\ UNCHANGED <<processes, armed, mainsw, traps, job, wasPreemptive, raced>>

\* The task's function returns, and its trampoline yields.
Returns ==
  /\ cpu = "launcher" /\ at["launcher"] = "restored"
  /\ at' = [at EXCEPT !["launcher"] = "idle"]
  /\ cpu' = "desktop"
  /\ UNCHANGED job

\* Mutant: the process stays marked as running.
TaskReportRunning ==
  /\ Returns
  /\ Record(job["launcher"].name, TestContext(syscall), "running")
  /\ UNCHANGED <<armed, gates, traps, wasPreemptive, raced>>

TaskReport ==
  /\ Returns
  /\ Record(job["launcher"].name, TestContext(syscall), "zombie")
  /\ UNCHANGED <<armed, gates, traps, wasPreemptive, raced>>

Launcher == TaskIdle \/ TaskPick \/ TaskMark \/ TaskLower \/ TaskRestore \/ TaskReport

Next ==
  \/ Poll \/ Tick \/ Interrupt \/ Terminal \/ Launcher
  \/ \E r \in Runners : Enter(r) \/ Syscall(r) \/ Fault(r) \/ Land(r)

Spec == Init /\ [][Next]_vars
=============================================================================
