-------------------------- MODULE SchedulerProofs --------------------------
(***************************************************************************)
(* Proofs about module Scheduler, for any number of tasks and any quantum: *)
(* first for any commands of the operator, then for the kernel as it ships *)
(* (GatesClosed), then for the one with both gates open (GatesStayOpen).   *)
(***************************************************************************)
EXTENDS SchedulerProperties, WellFoundedInduction, TLAPS

-----------------------------------------------------------------------------
(* Every non-empty set of naturals has a least element.                    *)
LessThan == {p \in Nat \X Nat : p[1] < p[2]}

LEMMA LessThanWellFounded == IsWellFoundedOn(LessThan, Nat)
  BY NatLessThanWellFounded DEF LessThan, OpToRel

LEMMA LeastNatural ==
  ASSUME NEW T, T \subseteq Nat, T # {}
  PROVE  \E x \in T : \A y \in T : x <= y
<1>1. PICK x \in T : \A y \in T : ~(<<y, x>> \in LessThan)
  BY LessThanWellFounded, WFMin
<1>2. ASSUME NEW y \in T PROVE x <= y
  <2>1. <<y, x>> \in Nat \X Nat
    OBVIOUS
  <2>2. <<y, x>> \in LessThan <=> y < x
    BY <2>1 DEF LessThan
  <2> QED BY <1>1, <2>2
<1> QED BY <1>2

(* The search of scheduler_poll and scheduler_next_active_irq_task returns *)
(* one of the candidates whenever there is one.                            *)
LEMMA NearestIsCandidate ==
  ASSUME current_task \in -1..NTasks, task_count \in Nat,
         NEW S, S \subseteq Nat, S # {}
  PROVE  Nearest(S) \in S
<1> USE TasksAssumption
<1> DEFINE Far(t)  == Distance(current_task, t)
           Rank(t) == Far(t) + NTasks
           Ranks   == {Rank(t) : t \in S}
<1>1. \A t \in S : Far(t) \in Int /\ Rank(t) \in Nat
  BY DEF Distance
<1>2. Ranks \subseteq Nat /\ Ranks # {}
  BY <1>1
<1>3. PICK r \in Ranks : \A q \in Ranks : r <= q
  <2> HIDE DEF Ranks
  <2> QED BY <1>2, LeastNatural
<1>4. PICK t \in S : r = Rank(t)
  OBVIOUS
<1>5. \A u \in S : Far(t) <= Far(u)
  <2>1. SUFFICES ASSUME NEW u \in S PROVE Far(t) <= Far(u)
    OBVIOUS
  <2>2. Rank(t) <= Rank(u)
    BY <1>3, <1>4
  <2>3. Far(t) \in Int /\ Far(u) \in Int
    BY <1>1
  <2>4. NTasks \in Int
    OBVIOUS
  <2> HIDE DEF Far
  <2> QED BY <2>2, <2>3, <2>4
<1> QED BY <1>5 DEF Nearest

-----------------------------------------------------------------------------
(* What resuming a frame may do: the machine keeps its type, the CPU goes  *)
(* on with a frame that was in memory (or has crashed), and no frame comes *)
(* into being.                                                             *)
LEMMA ResumeFromMemory ==
  ASSUME stack \in Ctx, NEW m \in [Addr -> Frame], NEW a \in Addr,
         ResumeFrom(m, a)
  PROVE  /\ stack' \in Ctx
         /\ cpu' \in Frame
         /\ mem' \in [Addr -> Frame]
         /\ cpu' = At("crashed") \/ cpu' = m[a]
         /\ \A b \in Addr : mem'[b] = m[b] \/ mem'[b] = Gone
<1>1. /\ At("crashed") \in Frame
      /\ Gone \in Frame
  BY TasksAssumption DEF At, Gone, Frame, PC, MainPC, TaskPC, Null, Addr, Ctx
<1>2. a.of \in Ctx
  BY DEF Addr
<1>3. CASE m[a] # Gone
  BY <1>1, <1>2, <1>3 DEF ResumeFrom
<1>4. CASE ~(m[a] # Gone)
  BY <1>1, <1>4 DEF ResumeFrom
<1> QED BY <1>3, <1>4

LEMMA ContextsAndAddresses ==
  /\ Main \in Ctx /\ Tasks \subseteq Ctx /\ Main \notin Tasks /\ 0 \in Tasks
  /\ Null \in Addr
  /\ \A c \in Ctx : /\ First(c) \in Addr /\ Coop(c) \in Addr
                    /\ Irq(c) \in Addr /\ Syn(c) \in Addr
  /\ \A p \in PC : At(p) \in Frame /\ At(p).pc = p
BY TasksAssumption
   DEF Ctx, Tasks, Main, Addr, Null, First, Coop, Irq, Syn, Frame, At

-----------------------------------------------------------------------------
(* What keeps a launch from being suspended: the preempt gate is closed    *)
(* throughout it.                                                          *)
UserHoldsGate == cpu.pc = "user" => ~preemptive_enabled

(***************************************************************************)
(* The phases of the boot: what is registered, and what may already be     *)
(* suspended, at each of them.  An index is read out of current_task,      *)
(* main_task_id or a search only in a phase where it is a slot.            *)
(***************************************************************************)
BootPC == {"create", "boot"}

Phases ==
    /\ cpu.pc \in BootPC <=> main_task_id = -1
    /\ main_task_id = -1 => stack = Main /\ ~in_task /\ task_count <= NTasks
    /\ main_task_id = Main => task_count = NTasks + 1
    /\ cpu.pc = "boot" => task_count = NTasks
    /\ task_count > 0 => current_task >= 0
    /\ \A a \in Addr : mem[a].pc \notin BootPC

(* The inductive invariant behind the theorems on types and on ring 3.     *)
IInv == TypeOK /\ Phases /\ UserHoldsGate /\ LaunchNeverSuspended

USE TasksAssumption, QuantumAssumption, CommandsAssumption

LEMMA IInvInit == Init => IInv
<1> SUFFICES ASSUME Init PROVE IInv
  OBVIOUS
<1> USE ContextsAndAddresses DEF Init
<1>1. At("create") \in Frame /\ Gone \in Frame /\ At("create").pc = "create"
      /\ Gone.pc = "gone"
  BY DEF Gone, PC, MainPC, TaskPC
<1>2. TypeOK
  <2>1. /\ esp \in [Ctx -> Addr] /\ irq_esp \in [Ctx -> Addr]
        /\ mem \in [Addr -> Frame]
    BY <1>1
  <2>2. task_count \in 0..(NTasks + 1) /\ current_task \in -1..NTasks
        /\ ticks_in_quantum \in 0..(Quantum - 1) /\ round_trips \in Int
    OBVIOUS
  <2> QED BY <1>1, <2>1, <2>2 DEF TypeOK
<1>3. Phases
  BY <1>1 DEF Phases, BootPC, Main
<1>4. UserHoldsGate /\ LaunchNeverSuspended
  BY <1>1 DEF UserHoldsGate, LaunchNeverSuspended
<1> QED BY <1>2, <1>3, <1>4 DEF IInv

(* The boot actions.                                                       *)
LEMMA IInvBoot == IInv /\ Boot => IInv'
<1> SUFFICES ASSUME IInv, Boot PROVE IInv'
  OBVIOUS
<1> USE ContextsAndAddresses
    DEF IInv, slots, gates, clock, view, ctxs, OnMain, Goto, BootPC
<1>0. At("run") \in Frame /\ At("run").pc = "run" /\ At("land") \in Frame
      /\ At("land").pc = "land" /\ At("loop") \in Frame /\ At("loop").pc = "loop"
  BY DEF PC, MainPC, TaskPC
<1>1. CASE CreateTask
  <2> DEFINE id == task_count
             frame == [At("land") EXCEPT !.to = First(id)]
  <2>1. id \in Tasks /\ id \in Ctx /\ id < NTasks /\ main_task_id = -1
    BY <1>1 DEF CreateTask, TypeOK, Phases, Tasks, Ctx
  <2>2. frame \in Frame /\ frame.pc = "land"
    BY <1>0, <2>1 DEF Frame
  <2>3. mem' \in [Addr -> Frame]
    BY <1>0, <1>1, <2>1, <2>2 DEF CreateTask, TypeOK
  <2>4. \A a \in Addr : mem'[a].pc \in {mem[a].pc, "run", "land"}
    BY <1>0, <1>1, <2>1, <2>2 DEF CreateTask, TypeOK
  <2>5. TypeOK'
    BY <1>1, <2>1, <2>3 DEF CreateTask, TypeOK
  <2>6. Phases'
    BY <1>1, <2>1, <2>4 DEF CreateTask, TypeOK, Phases, Main
  <2>7. (UserHoldsGate /\ LaunchNeverSuspended)'
    BY <1>1, <2>4 DEF CreateTask, UserHoldsGate, LaunchNeverSuspended
  <2> QED BY <2>5, <2>6, <2>7
<1>2. CASE EnableInterrupts
  <2>1. cpu' \in Frame /\ cpu'.pc = "boot" /\ cpu.pc = "create"
    BY <1>2 DEF EnableInterrupts, TypeOK, Frame, PC, MainPC
  <2>2. TypeOK'
    BY <1>2, <2>1 DEF EnableInterrupts, TypeOK
  <2>3. Phases'
    BY <1>2, <2>1 DEF EnableInterrupts, Phases
  <2>4. (UserHoldsGate /\ LaunchNeverSuspended)'
    BY <1>2, <2>1 DEF EnableInterrupts, UserHoldsGate, LaunchNeverSuspended
  <2> QED BY <2>2, <2>3, <2>4
<1>3. CASE RegisterMain
  <2>1. task_count = NTasks /\ main_task_id = -1
    BY <1>3 DEF RegisterMain, TypeOK, Phases
  <2>2. TypeOK'
    BY <1>0, <1>3, <2>1 DEF RegisterMain, TypeOK, Main
  <2>3. Phases'
    BY <1>0, <1>3, <2>1 DEF RegisterMain, TypeOK, Phases, Main
  <2>4. (UserHoldsGate /\ LaunchNeverSuspended)'
    BY <1>0, <1>3 DEF RegisterMain, UserHoldsGate, LaunchNeverSuspended
  <2> QED BY <2>2, <2>3, <2>4
<1> QED BY <1>1, <1>2, <1>3 DEF Boot

(***************************************************************************)
(* Frames past the boot: with the desktop registered, a step that resumes  *)
(* a frame from a memory free of boot and ring-3 frames keeps the part of  *)
(* the invariant that speaks of the machine.                               *)
(***************************************************************************)
Suspendable(m) == /\ m \in [Addr -> Frame]
                  /\ \A a \in Addr : m[a].pc \notin BootPC \cup {"user"}

LEMMA ResumeKeepsPhases ==
  ASSUME stack \in Ctx, NEW m, Suspendable(m), NEW a \in Addr, ResumeFrom(m, a)
  PROVE  /\ stack' \in Ctx /\ cpu' \in Frame /\ mem' \in [Addr -> Frame]
         /\ cpu'.pc \notin BootPC \cup {"user"}
         /\ Suspendable(mem)'
<1>1. /\ stack' \in Ctx /\ cpu' \in Frame /\ mem' \in [Addr -> Frame]
      /\ cpu' = At("crashed") \/ cpu' = m[a]
      /\ \A b \in Addr : mem'[b] = m[b] \/ mem'[b] = Gone
  BY ResumeFromMemory DEF Suspendable
<1>2. At("crashed").pc = "crashed" /\ Gone.pc = "gone"
  BY DEF At, Gone
<1>3. cpu'.pc \notin BootPC \cup {"user"}
  BY <1>1, <1>2 DEF Suspendable, BootPC
<1>4. \A b \in Addr : mem'[b].pc \notin BootPC \cup {"user"}
  BY <1>1, <1>2 DEF Suspendable, BootPC
<1> QED BY <1>1, <1>3, <1>4 DEF Suspendable

(* The timer interrupt.                                                    *)
LEMMA IInvTick == IInv /\ Tick => IInv'
<1> SUFFICES ASSUME IInv, Tick PROVE IInv'
  OBVIOUS
<1> USE ContextsAndAddresses
    DEF IInv, slots, gates, clock, view, ctxs, hw
<1>1. ASSUME PitTick PROVE ticks_in_quantum' \in 0..(Quantum - 1)
  BY <1>1 DEF PitTick, Expires, TypeOK
<1>2. CASE TickIdle
  <2>1. TypeOK'
    BY <1>1, <1>2 DEF TickIdle, TypeOK, Expires
  <2>2. (Phases /\ UserHoldsGate /\ LaunchNeverSuspended)'
    BY <1>2 DEF TickIdle, Phases, UserHoldsGate, LaunchNeverSuspended
  <2> QED BY <2>1, <2>2
<1>3. CASE TickRefused
  <2>1. TypeOK'
    BY <1>1, <1>3 DEF TickRefused, TypeOK
  <2>2. (Phases /\ UserHoldsGate /\ LaunchNeverSuspended)'
    BY <1>3 DEF TickRefused, Phases, UserHoldsGate, LaunchNeverSuspended
  <2> QED BY <2>1, <2>2
<1>4. ASSUME TickGranted, main_task_id = Main
      PROVE  /\ Suspendable(Pushed)
             /\ Interrupted \in Addr
             /\ NextIrq \in Ctx
             /\ ticks_in_quantum' \in 0..(Quantum - 1)
             /\ switch_pending' \in BOOLEAN /\ irq_candidate_ready' \in BOOLEAN
  <2>1. Interrupted \in Addr
    BY DEF Interrupted, TypeOK
  <2>2. cpu \in Frame /\ cpu.pc \notin BootPC \cup {"user"}
    BY <1>4 DEF TickGranted, Allowed, TypeOK, Phases, UserHoldsGate, Main
  <2>3. Suspendable(Pushed)
    BY <2>1, <2>2
       DEF Pushed, Suspendable, TypeOK, Phases, LaunchNeverSuspended
  <2>4. NextIrq \in IrqReady
    <3>1. IrqReady \subseteq Nat /\ IrqReady # {} /\ task_count \in Nat
      BY <1>4 DEF TickGranted, Wanted, IrqReady, TypeOK
    <3> QED BY <3>1, NearestIsCandidate DEF NextIrq, TypeOK
  <2>5. IrqReady \subseteq Ctx
    BY DEF IrqReady, TypeOK, Ctx
  <2>6. ticks_in_quantum' \in 0..(Quantum - 1)
    BY <1>1, <1>4 DEF TickGranted
  <2> QED BY <1>4, <2>1, <2>3, <2>4, <2>5, <2>6 DEF TickGranted
<1>5. CASE SwitchFromMain
  <2>1. main_task_id = Main
    BY <1>5 DEF SwitchFromMain, TickGranted, Allowed, TypeOK
  <2>2. TickGranted
    BY <1>5 DEF SwitchFromMain
  <2>3. /\ Suspendable(Pushed) /\ Interrupted \in Addr /\ NextIrq \in Ctx
        /\ ticks_in_quantum' \in 0..(Quantum - 1)
        /\ switch_pending' \in BOOLEAN /\ irq_candidate_ready' \in BOOLEAN
    BY <1>4, <2>1, <2>2
  <2>4. irq_esp' \in [Ctx -> Addr]
    BY <1>5, <2>1, <2>3 DEF SwitchFromMain, TypeOK
  <2>5. irq_esp'[NextIrq] \in Addr
    BY <2>3, <2>4
  <2>6. ResumeFrom(Pushed, irq_esp'[NextIrq])
    BY <1>5 DEF SwitchFromMain
  <2>7. /\ stack' \in Ctx /\ cpu' \in Frame /\ mem' \in [Addr -> Frame]
        /\ cpu'.pc \notin BootPC \cup {"user"} /\ Suspendable(mem)'
    BY <2>3, <2>5, <2>6, ResumeKeepsPhases DEF TypeOK
  <2>8. TypeOK'
    BY <1>5, <2>3, <2>4, <2>7 DEF SwitchFromMain, TypeOK, Ctx
  <2>9. Phases'
    BY <1>5, <2>1, <2>3, <2>7 DEF SwitchFromMain, Phases, Suspendable, Ctx, Main, BootPC
  <2>10. (UserHoldsGate /\ LaunchNeverSuspended)'
    BY <2>7 DEF UserHoldsGate, LaunchNeverSuspended, Suspendable
  <2> QED BY <2>8, <2>9, <2>10
<1>6. CASE SwitchFromTask
  <2>1. main_task_id = Main /\ current_task \in Ctx
    BY <1>6 DEF SwitchFromTask, TickGranted, Allowed, TypeOK, Phases, Ctx
  <2>2. TickGranted
    BY <1>6 DEF SwitchFromTask
  <2>3. /\ Suspendable(Pushed) /\ Interrupted \in Addr /\ NextIrq \in Ctx
        /\ ticks_in_quantum' \in 0..(Quantum - 1)
        /\ switch_pending' \in BOOLEAN /\ irq_candidate_ready' \in BOOLEAN
    BY <1>4, <2>1, <2>2
  <2>4. irq_esp' \in [Ctx -> Addr]
    BY <1>6, <2>1, <2>3 DEF SwitchFromTask, TypeOK
  <2>5. irq_esp[NextIrq] \in Addr
    BY <2>3 DEF TypeOK
  <2>6. ResumeFrom(Pushed, irq_esp[NextIrq])
    BY <1>6 DEF SwitchFromTask
  <2>7. /\ stack' \in Ctx /\ cpu' \in Frame /\ mem' \in [Addr -> Frame]
        /\ cpu'.pc \notin BootPC \cup {"user"} /\ Suspendable(mem)'
    BY <2>3, <2>5, <2>6, ResumeKeepsPhases DEF TypeOK
  <2>8. TypeOK'
    BY <1>6, <2>3, <2>4, <2>7 DEF SwitchFromTask, TypeOK, Ctx
  <2>9. Phases'
    BY <1>6, <2>1, <2>3, <2>7 DEF SwitchFromTask, Phases, Suspendable, Ctx, Main, BootPC
  <2>10. (UserHoldsGate /\ LaunchNeverSuspended)'
    BY <2>7 DEF UserHoldsGate, LaunchNeverSuspended, Suspendable
  <2> QED BY <2>8, <2>9, <2>10
<1> QED BY <1>2, <1>3, <1>5, <1>6 DEF Tick

(* A frame keeps its type when one of its fields is set.                   *)
LEMMA FrameUpdate ==
  ASSUME NEW f \in Frame
  PROVE  /\ \A p \in PC : /\ [f EXCEPT !.pc = p] \in Frame
                          /\ [f EXCEPT !.pc = p].pc = p
         /\ \A c \in Ctx : /\ [f EXCEPT !.id = c] \in Frame
                           /\ [f EXCEPT !.id = c].pc = f.pc
         /\ \A a \in Addr : /\ [f EXCEPT !.to = a] \in Frame
                            /\ [f EXCEPT !.to = a].pc = f.pc
         /\ \A b \in BOOLEAN : /\ [f EXCEPT !.was = b] \in Frame
                               /\ [f EXCEPT !.was = b].pc = f.pc
BY DEF Frame

(***************************************************************************)
(* A step past the boot that leaves the registration alone keeps the       *)
(* invariant if it keeps the types, goes on outside the boot and, in ring  *)
(* 3, with the gate closed, and files only suspendable frames.             *)
(***************************************************************************)
LEMMA StepPastBoot ==
  ASSUME IInv, TypeOK', main_task_id = Main, UNCHANGED <<main_task_id, task_count>>,
         cpu'.pc \notin BootPC, UserHoldsGate', Suspendable(mem)',
         current_task' >= 0
  PROVE  IInv'
BY DEF IInv, Phases, LaunchNeverSuspended, Suspendable, BootPC, Main, TypeOK

LEMMA SuspendableMemory == IInv => Suspendable(mem)
BY DEF IInv, TypeOK, Phases, LaunchNeverSuspended, Suspendable

(* The desktop loop.                                                       *)
LEMMA IInvDesktop == IInv /\ Desktop => IInv'
<1> SUFFICES ASSUME IInv, Desktop PROVE IInv'
  OBVIOUS
<1> USE ContextsAndAddresses, SuspendableMemory
    DEF slots, gates, clock, view, ctxs
<1>0. /\ {"loop", "poll_test", "poll_set", "poll_in", "poll_saved", "poll_back"}
             \subseteq PC \ (BootPC \cup {"user"})
  BY DEF PC, MainPC, TaskPC, BootPC
<1>1. /\ TypeOK /\ Phases /\ main_task_id = Main /\ stack = Main
      /\ current_task >= 0
  BY DEF IInv, Desktop, OnMain, PollTest, PollPick, PollEnter, PollSave, PollSwap,
         PollReturn, Phases, BootPC, TypeOK, Main
<1>2. CASE PollTest
  <2>1. cpu' \in Frame /\ cpu'.pc = "poll_test"
    BY <1>0, <1>1, <1>2, FrameUpdate DEF PollTest, Goto, TypeOK
  <2>2. TypeOK'
    BY <1>1, <1>2, <2>1 DEF PollTest, TypeOK
  <2> QED BY <1>0, <1>1, <1>2, <2>1, <2>2, StepPastBoot
          DEF PollTest, UserHoldsGate, Suspendable
<1>3. CASE PollPick
  <2>1. Nearest(HasEntry) \in Ctx
    <3>1. 0 \in HasEntry /\ HasEntry \subseteq Nat /\ HasEntry \subseteq Ctx
      BY <1>1 DEF HasEntry, TypeOK, Phases, Main, Ctx
    <3>2. current_task \in -1..NTasks /\ task_count \in Nat
      BY <1>1 DEF TypeOK
    <3>3. Nearest(HasEntry) \in HasEntry
      BY <3>1, <3>2, NearestIsCandidate
    <3> QED BY <3>1, <3>3
  <2>2. cpu' \in Frame /\ cpu'.pc = "poll_set"
    BY <1>0, <1>3, <2>1, FrameUpdate DEF PollPick
  <2>3. TypeOK'
    <3>1. current_task' \in -1..NTasks
      BY <1>3, <2>1 DEF PollPick, Ctx
    <3>2. /\ switch_pending' = FALSE
          /\ UNCHANGED <<task_count, main_task_id, armed, preemptive_enabled,
                         main_switch_enabled, ticks_in_quantum,
                         irq_candidate_ready, in_task, main_paused_via_irq,
                         round_trips, esp, irq_esp, stack, mem>>
      BY <1>3 DEF PollPick
    <3> QED BY <1>1, <2>2, <3>1, <3>2 DEF TypeOK
  <2>4. current_task' >= 0
    BY <1>3, <2>1 DEF PollPick, Ctx
  <2> QED BY <1>0, <1>1, <1>3, <2>2, <2>3, <2>4, StepPastBoot
          DEF PollPick, UserHoldsGate, Suspendable
<1>4. CASE PollEnter
  <2>1. esp[cpu.id] \in Addr
    BY <1>1 DEF TypeOK, Frame
  <2>2. cpu' \in Frame /\ cpu'.pc = "poll_in"
    BY <1>0, <1>4, <2>1, FrameUpdate DEF PollEnter
  <2>3. TypeOK'
    BY <1>1, <1>4, <2>2 DEF PollEnter, TypeOK
  <2> QED BY <1>0, <1>1, <1>4, <2>2, <2>3, StepPastBoot
          DEF PollEnter, UserHoldsGate, Suspendable
<1>5. CASE PollSave
  <2>1. cpu' \in Frame /\ cpu'.pc = "poll_saved"
    BY <1>0, <1>1, <1>5, FrameUpdate DEF PollSave, Goto, TypeOK
  <2>2. Suspendable(mem)'
    BY <1>0, <1>1, <1>5 DEF PollSave, Suspendable
  <2>3. TypeOK'
    BY <1>1, <1>5, <2>1, <2>2 DEF PollSave, TypeOK, Suspendable
  <2> QED BY <1>0, <1>1, <1>5, <2>1, <2>2, <2>3, StepPastBoot
          DEF PollSave, UserHoldsGate
<1>6. CASE PollSwap
  <2>1. /\ stack' \in Ctx /\ cpu' \in Frame /\ mem' \in [Addr -> Frame]
        /\ cpu'.pc \notin BootPC \cup {"user"} /\ Suspendable(mem)'
    BY <1>1, <1>6, ResumeKeepsPhases DEF PollSwap, TypeOK, Frame
  <2>2. TypeOK'
    BY <1>1, <1>6, <2>1 DEF PollSwap, TypeOK
  <2> QED BY <1>1, <1>6, <2>1, <2>2, StepPastBoot DEF PollSwap, UserHoldsGate
<1>7. CASE PollReturn
  <2>1. cpu' \in Frame /\ cpu'.pc = "loop"
    BY <1>0, <1>7 DEF PollReturn
  <2>2. TypeOK'
    BY <1>1, <1>7, <2>1 DEF PollReturn, TypeOK
  <2> QED BY <1>0, <1>1, <1>7, <2>1, <2>2, StepPastBoot
          DEF PollReturn, UserHoldsGate, Suspendable
<1> QED BY <1>2, <1>3, <1>4, <1>5, <1>6, <1>7 DEF Desktop

(* The terminal commands: given in the loop, never from ring 3.            *)
LEMMA IInvOperator == IInv /\ Operator => IInv'
<1> SUFFICES ASSUME IInv, Operator PROVE IInv'
  OBVIOUS
<1> USE DEF IInv, slots, gates, clock, view, ctxs, hw, OnMain
<1>1. CASE \E v \in PreemptCmds : PreemptCommand(v)
  BY <1>1 DEF PreemptCommand, TypeOK, Phases, UserHoldsGate, LaunchNeverSuspended
<1>2. CASE \E v \in MainswCmds : MainswCommand(v)
  BY <1>2 DEF MainswCommand, TypeOK, Phases, UserHoldsGate, LaunchNeverSuspended
<1>3. CASE UserschedCommand
  BY <1>3 DEF UserschedCommand, TypeOK, Phases, UserHoldsGate, LaunchNeverSuspended
<1> QED BY <1>1, <1>2, <1>3 DEF Operator

(* What a yielding task files for a slot is suspendable.                   *)
LEMMA SavedForSuspendable ==
  ASSUME Suspendable(mem), stack \in Ctx, NEW id \in Ctx
  PROVE  Suspendable(SavedFor(id))
<1>1. Coop(stack) \in Addr /\ Syn(id) \in Addr
  BY ContextsAndAddresses
<1>2. At("run") \in Frame /\ At("run").pc = "run"
  BY ContextsAndAddresses DEF PC, TaskPC
<1> DEFINE m1 == [mem EXCEPT ![Coop(stack)] = At("run")]
           f  == [m1[Syn(id)] EXCEPT !.to = Coop(stack)]
<1>3. m1 \in [Addr -> Frame] /\ \A a \in Addr : m1[a].pc \notin BootPC \cup {"user"}
  BY <1>1, <1>2 DEF Suspendable, BootPC
<1>4. f \in Frame /\ f.pc = m1[Syn(id)].pc
  <2> HIDE DEF m1
  <2> QED BY <1>1, <1>3, FrameUpdate
<1>5. SavedFor(id) = [m1 EXCEPT ![Syn(id)] = f]
  BY <1>1 DEF SavedFor
<1> HIDE DEF m1, f
<1> QED BY <1>1, <1>3, <1>4, <1>5 DEF Suspendable

(* The kernel tasks.                                                       *)
LEMMA IInvTask == IInv /\ Task => IInv'
<1> SUFFICES ASSUME IInv, Task PROVE IInv'
  OBVIOUS
<1> USE ContextsAndAddresses, SuspendableMemory
    DEF slots, gates, clock, view, ctxs
<1>0. {"run", "done", "launch", "user", "yield_iret", "yield_coop", "yield_saved"}
         \subseteq PC \ BootPC
  BY DEF PC, MainPC, TaskPC, BootPC
<1>1. /\ TypeOK /\ Phases /\ UserHoldsGate
      /\ main_task_id = Main /\ stack \in Tasks
      /\ current_task \in Ctx /\ current_task >= 0
  <2>1. stack \in Tasks
    BY DEF Task, OnTask, RunEntry, LaunchBegin, LaunchLower, LaunchEnd, Yield,
           YieldSave, YieldSwap, YieldIret, Land
  <2> QED BY <2>1 DEF IInv, TypeOK, Phases, Main, Ctx
<1>2. CASE RunEntry
  <2>1. cpu' \in Frame /\ cpu'.pc = "done"
    BY <1>0, <1>1, <1>2, FrameUpdate DEF RunEntry, Goto, TypeOK
  <2>2. TypeOK'
    BY <1>1, <1>2, <2>1 DEF RunEntry, TypeOK
  <2> QED BY <1>0, <1>1, <1>2, <2>1, <2>2, StepPastBoot
          DEF RunEntry, UserHoldsGate, Suspendable
<1>3. CASE LaunchBegin
  <2>1. cpu' \in Frame /\ cpu'.pc = "launch"
    BY <1>0, <1>1, <1>3, FrameUpdate DEF LaunchBegin, TypeOK
  <2>2. TypeOK'
    BY <1>1, <1>3, <2>1 DEF LaunchBegin, TypeOK
  <2> QED BY <1>0, <1>1, <1>3, <2>1, <2>2, StepPastBoot
          DEF LaunchBegin, UserHoldsGate, Suspendable
<1>4. CASE LaunchLower
  <2>1. cpu' \in Frame /\ cpu'.pc = "user"
    BY <1>0, <1>1, <1>4, FrameUpdate DEF LaunchLower, Goto, TypeOK
  <2>2. TypeOK'
    BY <1>1, <1>4, <2>1 DEF LaunchLower, TypeOK
  <2> QED BY <1>0, <1>1, <1>4, <2>1, <2>2, StepPastBoot
          DEF LaunchLower, UserHoldsGate, Suspendable
<1>5. CASE LaunchEnd
  <2>1. cpu' \in Frame /\ cpu'.pc = "done" /\ preemptive_enabled' \in BOOLEAN
    BY <1>0, <1>1, <1>5 DEF LaunchEnd, TypeOK, Frame
  <2>2. TypeOK'
    BY <1>1, <1>5, <2>1 DEF LaunchEnd, TypeOK
  <2> QED BY <1>0, <1>1, <1>5, <2>1, <2>2, StepPastBoot
          DEF LaunchEnd, UserHoldsGate, Suspendable
<1>6. CASE Yield
  <2>1. esp[main_task_id] \in Addr
    BY <1>1 DEF TypeOK
  <2>2. [At("yield_coop") EXCEPT !.id = current_task, !.to = esp[main_task_id]]
          \in [pc : {"yield_coop"}, id : Ctx, to : Addr, was : BOOLEAN]
    BY <1>1, <2>1 DEF At
  <2>3. cpu' \in Frame /\ cpu'.pc \in {"run", "yield_iret", "yield_coop"}
    BY <1>0, <1>6, <2>2 DEF Yield, YieldPath, Frame
  <2>4. TypeOK'
    BY <1>1, <1>6, <2>3 DEF Yield, TypeOK
  <2> QED BY <1>0, <1>1, <1>6, <2>3, <2>4, StepPastBoot
          DEF Yield, UserHoldsGate, Suspendable
<1>7. CASE YieldSave
  <2>1. cpu' \in Frame /\ cpu'.pc = "yield_saved" /\ cpu.id \in Ctx
    BY <1>0, <1>1, <1>7, FrameUpdate DEF YieldSave, Goto, TypeOK, Frame
  <2>2. Suspendable(mem)'
    BY <1>1, <1>7, <2>1, SavedForSuspendable DEF YieldSave, Suspendable
  <2>3. TypeOK'
    BY <1>1, <1>7, <2>1, <2>2 DEF YieldSave, TypeOK, Suspendable
  <2> QED BY <1>0, <1>1, <1>7, <2>1, <2>2, <2>3, StepPastBoot
          DEF YieldSave, UserHoldsGate
<1>8. CASE YieldSwap
  <2>1. /\ stack' \in Ctx /\ cpu' \in Frame /\ mem' \in [Addr -> Frame]
        /\ cpu'.pc \notin BootPC \cup {"user"} /\ Suspendable(mem)'
    BY <1>1, <1>8, ResumeKeepsPhases DEF YieldSwap, TypeOK, Frame
  <2>2. TypeOK'
    BY <1>1, <1>8, <2>1 DEF YieldSwap, TypeOK
  <2> QED BY <1>1, <1>8, <2>1, <2>2, StepPastBoot DEF YieldSwap, UserHoldsGate
<1>9. CASE YieldIret
  <2>1. Suspendable(SavedFor(current_task)) /\ irq_esp[main_task_id] \in Addr
    BY <1>1, SavedForSuspendable DEF TypeOK
  <2>2. /\ stack' \in Ctx /\ cpu' \in Frame /\ mem' \in [Addr -> Frame]
        /\ cpu'.pc \notin BootPC \cup {"user"} /\ Suspendable(mem)'
    BY <1>1, <1>9, <2>1, ResumeKeepsPhases DEF YieldIret, TypeOK
  <2>3. esp' \in [Ctx -> Addr] /\ irq_esp' \in [Ctx -> Addr]
    BY <1>1, <1>9 DEF YieldIret, TypeOK
  <2>4. TypeOK'
    <3>1. /\ current_task' = Main /\ round_trips' = round_trips - 1
          /\ in_task' = FALSE /\ main_paused_via_irq' = FALSE
          /\ UNCHANGED <<task_count, main_task_id, armed, preemptive_enabled,
                         main_switch_enabled, ticks_in_quantum, switch_pending,
                         irq_candidate_ready>>
      BY <1>1, <1>9 DEF YieldIret
    <3>2. current_task' \in -1..NTasks /\ round_trips' \in Int
      BY <1>1, <3>1 DEF TypeOK, Main
    <3> QED BY <1>1, <2>2, <2>3, <3>1, <3>2 DEF TypeOK
  <2> QED BY <1>1, <1>9, <2>2, <2>4, StepPastBoot
          DEF YieldIret, UserHoldsGate, Main
<1>10. CASE Land
  <2>1. /\ stack' \in Ctx /\ cpu' \in Frame /\ mem' \in [Addr -> Frame]
        /\ cpu'.pc \notin BootPC \cup {"user"} /\ Suspendable(mem)'
    BY <1>1, <1>10, ResumeKeepsPhases DEF Land, TypeOK, Frame
  <2>2. TypeOK'
    BY <1>1, <1>10, <2>1 DEF Land, TypeOK
  <2> QED BY <1>1, <1>10, <2>1, <2>2, StepPastBoot DEF Land, UserHoldsGate
<1> QED BY <1>2, <1>3, <1>4, <1>5, <1>6, <1>7, <1>8, <1>9, <1>10 DEF Task

LEMMA IInvNext == IInv /\ [Next]_vars => IInv'
<1>1. IInv /\ UNCHANGED vars => IInv'
  BY DEF IInv, vars, slots, gates, clock, view, ctxs, hw, TypeOK, Phases,
         UserHoldsGate, LaunchNeverSuspended
<1> QED BY <1>1, IInvBoot, IInvTick, IInvDesktop, IInvTask, IInvOperator
        DEF Next, Execute

THEOREM InvariantHolds == Spec => []IInv
<1> QED BY IInvInit, IInvNext, PTL DEF Spec

(***************************************************************************)
(* In every regime of the gates the scheduler keeps its types: no search,  *)
(* no index into tasks[] and no filed frame ever leaves the task table.    *)
(***************************************************************************)
THEOREM TypeCorrect == Spec => []TypeOK
<1>1. IInv => TypeOK
  BY DEF IInv
<1> QED BY <1>1, InvariantHolds, PTL

(***************************************************************************)
(* In every regime of the gates, whatever the operator types and whenever, *)
(* a ring-3 run started by the launcher (user_scheduler_task) is never     *)
(* suspended half-way, so saved_kernel_esp and the TSS stack serve one     *)
(* launcher run at a time.                                                 *)
(***************************************************************************)
THEOREM LaunchesAreNotPreempted == Spec => []LaunchNeverSuspended
<1>1. IInv => LaunchNeverSuspended
  BY DEF IInv
<1> QED BY <1>1, InvariantHolds, PTL

-----------------------------------------------------------------------------
(***************************************************************************)
(* Proofs about the scheduler as it ships: the preempt gate stays closed   *)
(* (SCHED_PREEMPTIVE_ENABLED is 0 and nobody types "preempt on"), the      *)
(* mainsw gate and the user launcher are free.                             *)
(***************************************************************************)

GatesClosed == PreemptCmds \subseteq {FALSE}

(***************************************************************************)
(* The shape of a kernel whose preempt gate has never been opened: who     *)
(* holds the CPU, what the scheduler believes and where everybody else     *)
(* waits, at each point of the code.                                       *)
(***************************************************************************)
InPoll == cpu.pc \in {"poll_in", "poll_saved", "poll_back"}

WaitsIn(t) == /\ esp[t] \in {First(t), Coop(t)}
              /\ mem[esp[t]] = At("run")

DesktopWaits == esp[Main] = Coop(Main) /\ mem[Coop(Main)] = At("poll_back")

CoopMachine ==
    /\ ~preemptive_enabled /\ ~cpu.was /\ ~main_paused_via_irq
    /\ irq_esp[Main] = Null
    /\ round_trips = 0
    /\ \A c \in Ctx : mem[Irq(c)] = Gone
    /\ stack = Main => cpu.pc \in MainPC
    /\ stack # Main => cpu.pc \in TaskPC \ {"land", "yield_iret"}

CoopBelief ==
    /\ in_task = (stack # Main \/ InPoll)
    /\ stack # Main => current_task = stack
    /\ cpu.pc \in {"poll_set", "poll_in", "poll_saved"} => current_task \in Tasks
    /\ cpu.pc = "poll_set" => cpu.id = current_task

CoopFrames ==
    /\ \A t \in Tasks : t < task_count =>
          /\ irq_esp[t] = Syn(t)
          /\ mem[Syn(t)].pc = "land" /\ mem[Syn(t)].to = esp[t]
          /\ esp[t] \in {First(t), Coop(t)}
          /\ t # stack => WaitsIn(t)
    /\ stack # Main => DesktopWaits
    /\ cpu.pc = "poll_saved" => DesktopWaits
    /\ cpu.pc \in {"poll_in", "poll_saved"} => cpu.to = esp[current_task]
    /\ cpu.pc \in {"yield_coop", "yield_saved"} =>
          cpu.id = stack /\ cpu.to = Coop(Main)
    /\ cpu.pc = "yield_saved" => WaitsIn(stack)

CoopInv == CoopMachine /\ CoopBelief /\ CoopFrames

LEMMA AddressesDiffer ==
  \A c, d \in Ctx :
     /\ First(c) # Coop(d) /\ First(c) # Syn(d) /\ First(c) # Irq(d)
     /\ Coop(c) # Syn(d) /\ Coop(c) # Irq(d) /\ Syn(c) # Irq(d)
     /\ Syn(c) # Null /\ Irq(c) # Null
     /\ c # d => First(c) # First(d) /\ Coop(c) # Coop(d)
                 /\ Syn(c) # Syn(d) /\ Irq(c) # Irq(d)
BY DEF First, Coop, Syn, Irq, Null

LEMMA TaskIds == \A t \in Tasks : t \in Ctx /\ t # Main /\ t < NTasks /\ t < NTasks + 1
BY TasksAssumption DEF Tasks, Ctx, Main

(* Resuming an intact cooperative frame of context t: the CPU goes on      *)
(* there, and only frames of that one stack are used up.                   *)
LEMMA ResumeCoop ==
  ASSUME mem \in [Addr -> Frame], NEW t \in Ctx, NEW a \in {First(t), Coop(t)},
         NEW p \in {"run", "poll_back"}, mem[a] = At(p), ResumeFrom(mem, a)
  PROVE  /\ stack' = t /\ cpu' = At(p)
         /\ \A c \in Ctx :
               /\ mem'[Syn(c)] = mem[Syn(c)]
               /\ mem'[Irq(c)] \in {mem[Irq(c)], Gone}
               /\ c # t => mem'[First(c)] = mem[First(c)]
                           /\ mem'[Coop(c)] = mem[Coop(c)]
<1>1. At(p) # Gone
  BY DEF At, Gone
<1>2. a.of = t /\ PoppedWith(a) = {First(t), Coop(t), Irq(t)}
  BY DEF PoppedWith, First, Coop
<1>3. /\ stack' = t /\ cpu' = At(p)
      /\ mem' = [b \in Addr |-> IF b \in {First(t), Coop(t), Irq(t)} THEN Gone
                                ELSE mem[b]]
  BY <1>1, <1>2 DEF ResumeFrom
<1> HIDE DEF PoppedWith
<1> QED BY <1>3, ContextsAndAddresses, AddressesDiffer

-----------------------------------------------------------------------------
LEMMA CoopInit == Init => CoopInv
<1> SUFFICES ASSUME Init PROVE CoopInv
  OBVIOUS
<1> USE ContextsAndAddresses DEF Init
<1>1. At("create").pc = "create" /\ ~At("create").was
  BY DEF At
<1>2. CoopMachine
  BY <1>1 DEF CoopMachine, MainPC, BootPC
<1>3. CoopBelief
  BY <1>1 DEF CoopBelief, InPoll
<1>4. CoopFrames
  BY <1>1 DEF CoopFrames, Tasks
<1> QED BY <1>2, <1>3, <1>4 DEF CoopInv

(* The timer interrupt only keeps time.                                    *)
LEMMA CoopTick == CoopInv /\ Tick => CoopInv'
<1> SUFFICES ASSUME CoopInv, Tick PROVE CoopInv'
  OBVIOUS
<1>1. TickIdle \/ TickRefused
  BY DEF Tick, SwitchFromMain, SwitchFromTask, TickGranted, Allowed, CoopInv,
         CoopMachine
<1>2. UNCHANGED <<slots, gates, view, ctxs, hw>>
  BY <1>1 DEF TickIdle, TickRefused
<1> QED BY <1>2 DEF CoopInv, CoopMachine, CoopBelief, CoopFrames, InPoll, WaitsIn,
                    DesktopWaits, slots, gates, view, ctxs, hw

LEMMA CoopOperator ==
  ASSUME GatesClosed PROVE CoopInv /\ Operator => CoopInv'
<1> SUFFICES ASSUME CoopInv, Operator PROVE CoopInv'
  OBVIOUS
<1>1. ~preemptive_enabled'
  BY DEF Operator, PreemptCommand, MainswCommand, UserschedCommand, GatesClosed,
         gates, CoopInv, CoopMachine
<1>2. UNCHANGED <<task_count, main_task_id, view, ctxs, hw>>
  BY DEF Operator, PreemptCommand, MainswCommand, UserschedCommand, slots
<1> QED BY <1>1, <1>2 DEF CoopInv, CoopMachine, CoopBelief, CoopFrames, InPoll,
                          WaitsIn, DesktopWaits, view, ctxs, hw

LEMMA CoopBoot == IInv /\ CoopInv /\ Boot => CoopInv'
<1> SUFFICES ASSUME IInv, CoopInv, Boot PROVE CoopInv'
  OBVIOUS
<1> USE ContextsAndAddresses, AddressesDiffer
    DEF slots, gates, clock, view, ctxs, OnMain, Goto
<1>0. /\ At("run").pc = "run" /\ At("loop").pc = "loop" /\ ~At("loop").was
      /\ At("land").pc = "land"
  BY DEF At
<1>1. CASE CreateTask
  <2> DEFINE id == task_count
             frame == [At("land") EXCEPT !.to = First(id)]
  <2>1. id \in Tasks /\ id \in Ctx /\ id # Main /\ stack = Main
        /\ task_count' = id + 1 /\ cpu.pc = "create" /\ id \in Nat
    BY <1>1 DEF CreateTask, IInv, TypeOK, Tasks, Ctx, Main
  <2>2. frame.pc = "land" /\ frame.to = First(id)
    BY DEF At
  <2>3. /\ mem' = [mem EXCEPT ![First(id)] = At("run"), ![Syn(id)] = frame]
        /\ esp' = [esp EXCEPT ![id] = First(id)]
        /\ irq_esp' = [irq_esp EXCEPT ![id] = Syn(id)]
    BY <1>1 DEF CreateTask
  <2> HIDE DEF frame
  <2>4. /\ mem'[First(id)] = At("run") /\ mem'[Syn(id)] = frame
        /\ esp'[id] = First(id) /\ irq_esp'[id] = Syn(id)
        /\ esp'[Main] = esp[Main] /\ irq_esp'[Main] = irq_esp[Main]
    BY <2>1, <2>3 DEF IInv, TypeOK
  <2>5. \A c \in Ctx : /\ mem'[Irq(c)] = mem[Irq(c)]
                       /\ mem'[Coop(c)] = mem[Coop(c)]
                       /\ c # id => /\ mem'[First(c)] = mem[First(c)]
                                    /\ mem'[Syn(c)] = mem[Syn(c)]
                                    /\ esp'[c] = esp[c] /\ irq_esp'[c] = irq_esp[c]
    BY <2>1, <2>3 DEF IInv, TypeOK
  <2>6. CoopMachine'
    BY <1>1, <2>1, <2>4, <2>5 DEF CreateTask, CoopInv, CoopMachine
  <2>7. CoopBelief'
    BY <1>1, <2>1 DEF CreateTask, CoopInv, CoopBelief, InPoll
  <2>8. \A t \in Tasks : t < task_count' => t = id \/ t < task_count
    BY <2>1 DEF Tasks
  <2>9. CoopFrames'
    <3>1. ASSUME NEW t \in Tasks, t < task_count'
          PROVE  /\ irq_esp'[t] = Syn(t)
                 /\ mem'[Syn(t)].pc = "land" /\ mem'[Syn(t)].to = esp'[t]
                 /\ esp'[t] \in {First(t), Coop(t)}
                 /\ mem'[esp'[t]] = At("run")
      <4>1. CASE t = id
        BY <2>2, <2>4, <4>1
      <4>2. CASE t # id /\ t < task_count /\ t # stack
        BY <2>5, <4>2 DEF CoopInv, CoopFrames, WaitsIn
      <4> QED BY <2>1, <2>8, <3>1, <4>1, <4>2
    <3>2. stack' = Main /\ cpu'.pc = "create"
      BY <1>1, <2>1 DEF CreateTask
    <3> QED BY <3>1, <3>2 DEF CoopFrames, WaitsIn
  <2> QED BY <2>6, <2>7, <2>9 DEF CoopInv
<1>2. CASE EnableInterrupts
  <2>1. cpu.pc = "create" /\ cpu'.pc = "boot" /\ cpu'.was = cpu.was /\ stack = Main
    BY <1>2 DEF EnableInterrupts, IInv, TypeOK, Frame
  <2>2. CoopMachine' /\ CoopBelief'
    BY <1>2, <2>1 DEF EnableInterrupts, CoopInv, CoopMachine, CoopBelief, InPoll,
                      MainPC
  <2>3. CoopFrames'
    BY <1>2, <2>1 DEF EnableInterrupts, CoopInv, CoopFrames, WaitsIn, DesktopWaits
  <2> QED BY <2>2, <2>3 DEF CoopInv
<1>3. CASE RegisterMain
  <2>1. task_count = NTasks /\ cpu.pc = "boot" /\ stack = Main /\ stack' = Main
    BY <1>3 DEF RegisterMain, IInv, TypeOK, Phases
  <2>2. /\ irq_esp' = [irq_esp EXCEPT ![Main] = Null]
        /\ esp' = [esp EXCEPT ![Main] = Null]
        /\ mem' = mem
    BY <1>3, <2>1 DEF RegisterMain, Main
  <2>3. /\ irq_esp'[Main] = Null
        /\ \A t \in Tasks : irq_esp'[t] = irq_esp[t] /\ esp'[t] = esp[t]
    BY <2>2 DEF IInv, TypeOK
  <2>4. CoopMachine' /\ CoopBelief'
    BY <1>0, <1>3, <2>1, <2>2, <2>3
       DEF RegisterMain, CoopInv, CoopMachine, CoopBelief, InPoll, MainPC
  <2>5. \A t \in Tasks : t < task_count
    BY <2>1, TaskIds
  <2>6. CoopFrames'
    BY <1>0, <1>3, <2>1, <2>2, <2>3, <2>5
       DEF RegisterMain, CoopInv, CoopFrames, WaitsIn
  <2> QED BY <2>4, <2>6 DEF CoopInv
<1> QED BY <1>1, <1>2, <1>3 DEF Boot

(* The desktop loop dispatches a task whose cooperative frame is intact.   *)
LEMMA CoopDesktop == IInv /\ CoopInv /\ Desktop => CoopInv'
<1> SUFFICES ASSUME IInv, CoopInv, Desktop PROVE CoopInv'
  OBVIOUS
<1>0. /\ TypeOK /\ stack = Main /\ main_task_id = Main /\ Main \in Ctx
      /\ \A t \in Tasks : t < task_count
  <2>1. stack = Main /\ cpu.pc \notin BootPC
    BY DEF Desktop, OnMain, PollTest, PollPick, PollEnter, PollSave, PollSwap,
           PollReturn, BootPC
  <2> QED BY <2>1, TaskIds, ContextsAndAddresses DEF IInv, TypeOK, Phases
<1> USE DEF slots, gates, clock, view, ctxs, OnMain, Goto
<1>1. CASE PollTest
  <2>1. cpu'.pc = "poll_test" /\ cpu'.was = cpu.was /\ cpu.pc = "loop"
    BY <1>0, <1>1 DEF PollTest, TypeOK, Frame
  <2> QED BY <1>0, <1>1, <2>1
          DEF PollTest, CoopInv, CoopMachine, CoopBelief, CoopFrames, InPoll,
              WaitsIn, DesktopWaits, MainPC
<1>2. CASE PollPick
  <2>1. current_task' \in Tasks
    <3>1. 0 \in HasEntry /\ HasEntry \subseteq Nat /\ HasEntry \subseteq Tasks
      BY <1>0, ContextsAndAddresses
         DEF HasEntry, IInv, TypeOK, Phases, Main, Tasks
    <3>2. current_task \in -1..NTasks /\ task_count \in Nat
      BY <1>0 DEF TypeOK
    <3>3. Nearest(HasEntry) \in HasEntry
      BY <3>1, <3>2, NearestIsCandidate
    <3> QED BY <1>2, <3>1, <3>3 DEF PollPick
  <2>2. cpu'.pc = "poll_set" /\ cpu'.id = current_task' /\ ~cpu'.was
    BY <1>2 DEF PollPick, At
  <2> QED BY <1>0, <1>2, <2>1, <2>2
          DEF PollPick, CoopInv, CoopMachine, CoopBelief, CoopFrames, InPoll,
              WaitsIn, DesktopWaits, MainPC
<1>3. CASE PollEnter
  <2>1. cpu'.pc = "poll_in" /\ cpu'.to = esp[current_task] /\ ~cpu'.was
    BY <1>3 DEF PollEnter, At, CoopInv, CoopBelief
  <2> QED BY <1>0, <1>3, <2>1
          DEF PollEnter, CoopInv, CoopMachine, CoopBelief, CoopFrames, InPoll,
              WaitsIn, DesktopWaits, MainPC
<1>4. CASE PollSave
  <2>1. /\ cpu'.pc = "poll_saved" /\ cpu'.to = esp[current_task] /\ ~cpu'.was
        /\ current_task \in Tasks
    BY <1>0, <1>4
       DEF PollSave, CoopInv, CoopMachine, CoopBelief, CoopFrames, TypeOK, Frame
  <2>2. /\ mem' = [mem EXCEPT ![Coop(Main)] = At("poll_back")]
        /\ esp' = [esp EXCEPT ![Main] = Coop(Main)]
    BY <1>0, <1>4 DEF PollSave
  <2>3. /\ DesktopWaits'
        /\ \A c \in Ctx : /\ mem'[Irq(c)] = mem[Irq(c)]
                          /\ mem'[Syn(c)] = mem[Syn(c)]
                          /\ mem'[First(c)] = mem[First(c)]
                          /\ c # Main => mem'[Coop(c)] = mem[Coop(c)]
                                         /\ esp'[c] = esp[c]
    BY <1>0, <2>2, ContextsAndAddresses, AddressesDiffer DEF TypeOK, DesktopWaits
  <2>4. /\ UNCHANGED <<gates, view, irq_esp, stack, task_count>>
    BY <1>4 DEF PollSave
  <2>5. CoopMachine' /\ CoopBelief'
    BY <1>0, <1>4, <2>1, <2>3, <2>4
       DEF CoopInv, CoopMachine, CoopBelief, InPoll, MainPC, PollSave
  <2>6. CoopFrames'
    BY <1>0, <2>1, <2>3, <2>4, TaskIds DEF CoopInv, CoopFrames, WaitsIn
  <2> QED BY <2>5, <2>6 DEF CoopInv
<1>5. CASE PollSwap
  <2> DEFINE t == current_task
  <2>1. /\ t \in Tasks /\ t \in Ctx /\ t # Main /\ t < task_count
        /\ esp[t] \in {First(t), Coop(t)} /\ mem[esp[t]] = At("run")
        /\ cpu.to = esp[t] /\ DesktopWaits
    BY <1>0, <1>5, TaskIds
       DEF PollSwap, CoopInv, CoopBelief, CoopFrames, WaitsIn
  <2>2. ResumeFrom(mem, esp[t])
    BY <1>5, <2>1 DEF PollSwap
  <2>3. /\ stack' = t /\ cpu' = At("run")
        /\ \A c \in Ctx :
              /\ mem'[Syn(c)] = mem[Syn(c)]
              /\ mem'[Irq(c)] \in {mem[Irq(c)], Gone}
              /\ c # t => mem'[First(c)] = mem[First(c)]
                          /\ mem'[Coop(c)] = mem[Coop(c)]
    BY <1>0, <2>1, <2>2, ResumeCoop DEF TypeOK
  <2>4. UNCHANGED <<slots, gates, clock, view, ctxs>>
    BY <1>5 DEF PollSwap
  <2>5. cpu'.pc = "run" /\ ~cpu'.was
    BY <2>3 DEF At
  <2>6. CoopMachine' /\ CoopBelief'
    BY <1>0, <1>5, <2>1, <2>3, <2>4, <2>5
       DEF CoopInv, CoopMachine, CoopBelief, InPoll, TaskPC, MainPC, BootPC, PollSwap
  <2>7. CoopFrames'
    BY <1>0, <2>1, <2>3, <2>4, <2>5, TaskIds
       DEF CoopInv, CoopFrames, WaitsIn, DesktopWaits
  <2> QED BY <2>6, <2>7 DEF CoopInv
<1>6. CASE PollReturn
  <2>1. cpu'.pc = "loop" /\ ~cpu'.was
    BY <1>6 DEF PollReturn, At
  <2> QED BY <1>0, <1>6, <2>1
          DEF PollReturn, CoopInv, CoopMachine, CoopBelief, CoopFrames, InPoll,
              WaitsIn, DesktopWaits, MainPC
<1> QED BY <1>1, <1>2, <1>3, <1>4, <1>5, <1>6 DEF Desktop

(* A task yields only after filing the frame it will be resumed by.        *)
LEMMA CoopTask == IInv /\ CoopInv /\ Task => CoopInv'
<1> SUFFICES ASSUME IInv, CoopInv, Task PROVE CoopInv'
  OBVIOUS
<1>0. /\ TypeOK /\ stack \in Tasks /\ stack \in Ctx /\ stack # Main
      /\ main_task_id = Main /\ Main \in Ctx
      /\ \A t \in Tasks : t < task_count
      /\ current_task = stack /\ DesktopWaits
      /\ cpu.pc \in TaskPC \ {"land", "yield_iret"}
  <2>1. stack \in Tasks
    BY DEF Task, OnTask, RunEntry, LaunchBegin, LaunchLower, LaunchEnd, Yield,
           YieldSave, YieldSwap, YieldIret, Land
  <2>2. cpu.pc \notin BootPC
    BY <2>1, TaskIds DEF IInv, Phases, CoopInv, CoopMachine, BootPC, TaskPC
  <2> QED BY <2>1, <2>2, TaskIds, ContextsAndAddresses
          DEF IInv, TypeOK, Phases, CoopInv, CoopMachine, CoopBelief, CoopFrames
<1> USE DEF slots, gates, clock, view, ctxs, OnTask, Goto
(* Five actions move the task within its own code and nothing else. *)
<1>1. ASSUME UNCHANGED <<task_count, view, ctxs, stack, mem>>, ~preemptive_enabled',
             ~cpu'.was, cpu'.pc \in {"run", "launch", "user", "done", "yield_coop"},
             cpu'.pc = "yield_coop" => cpu'.id = stack /\ cpu'.to = Coop(Main)
      PROVE  CoopInv'
  BY <1>0, <1>1 DEF CoopInv, CoopMachine, CoopBelief, CoopFrames, InPoll, WaitsIn,
                    DesktopWaits, MainPC, TaskPC, BootPC
<1>2. CASE RunEntry
  <2>1. cpu'.pc = "done" /\ cpu'.was = cpu.was
    BY <1>0, <1>2 DEF RunEntry, TypeOK, Frame
  <2> QED BY <1>1, <1>2, <2>1 DEF RunEntry, CoopInv, CoopMachine
<1>3. CASE LaunchBegin
  <2>1. cpu'.pc = "launch" /\ cpu'.was = preemptive_enabled
    BY <1>3 DEF LaunchBegin, At
  <2> QED BY <1>1, <1>3, <2>1 DEF LaunchBegin, CoopInv, CoopMachine
<1>4. CASE LaunchLower
  <2>1. cpu'.pc = "user" /\ cpu'.was = cpu.was
    BY <1>0, <1>4 DEF LaunchLower, TypeOK, Frame
  <2> QED BY <1>1, <1>4, <2>1 DEF LaunchLower, CoopInv, CoopMachine
<1>5. CASE LaunchEnd
  <2>1. cpu'.pc = "done" /\ ~cpu'.was
    BY <1>5 DEF LaunchEnd, At
  <2> QED BY <1>1, <1>5, <2>1 DEF LaunchEnd, CoopInv, CoopMachine
<1>6. CASE Yield
  <2>1. YieldPath = At("run")
        \/ YieldPath = [At("yield_coop") EXCEPT !.id = current_task, !.to = esp[Main]]
    BY <1>0 DEF YieldPath, CoopInv, CoopMachine
  <2>2. esp[Main] = Coop(Main)
    BY <1>0 DEF DesktopWaits
  <2>3. /\ ~cpu'.was /\ cpu'.pc \in {"run", "yield_coop"}
        /\ cpu'.pc = "yield_coop" => cpu'.id = stack /\ cpu'.to = Coop(Main)
    <3>1. CASE cpu' = At("run")
      BY <3>1 DEF At
    <3>2. CASE cpu' = [At("yield_coop") EXCEPT !.id = current_task, !.to = esp[Main]]
      BY <1>0, <2>2, <3>2 DEF At
    <3> QED BY <1>6, <2>1, <3>1, <3>2 DEF Yield
  <2> QED BY <1>1, <1>6, <2>3 DEF Yield, CoopInv, CoopMachine
<1>7. CASE YieldSave
  <2>1. cpu.id = stack /\ cpu.to = Coop(Main) /\ cpu.pc = "yield_coop" /\ ~cpu.was
    BY <1>7 DEF YieldSave, CoopInv, CoopFrames, CoopMachine
  <2>2. /\ cpu'.pc = "yield_saved" /\ cpu'.id = stack /\ cpu'.to = Coop(Main)
        /\ ~cpu'.was
    BY <1>0, <1>7, <2>1 DEF YieldSave, TypeOK, Frame
  <2>3. /\ esp' = [esp EXCEPT ![stack] = Coop(stack)]
        /\ mem' = [mem EXCEPT ![Coop(stack)] = At("run"),
                              ![Syn(stack)].to = Coop(stack)]
        /\ UNCHANGED <<slots, gates, clock, view, irq_esp, stack>>
    BY <1>7, <2>1 DEF YieldSave, SavedFor
  <2>4. /\ esp'[stack] = Coop(stack)
        /\ mem'[Coop(stack)] = At("run")
        /\ mem'[Syn(stack)].to = Coop(stack)
        /\ mem'[Syn(stack)].pc = mem[Syn(stack)].pc
    <3>1. Coop(stack) \in Addr /\ Syn(stack) \in Addr /\ Coop(stack) # Syn(stack)
      BY <1>0, ContextsAndAddresses, AddressesDiffer
    <3>2. mem[Syn(stack)] \in Frame /\ mem \in [Addr -> Frame]
          /\ esp \in [Ctx -> Addr]
      BY <1>0, <3>1 DEF TypeOK
    <3> QED BY <1>0, <2>3, <3>1, <3>2 DEF Frame
  <2>5. \A c \in Ctx : /\ mem'[Irq(c)] = mem[Irq(c)]
                       /\ mem'[First(c)] = mem[First(c)]
                       /\ c # stack => /\ mem'[Coop(c)] = mem[Coop(c)]
                                       /\ mem'[Syn(c)] = mem[Syn(c)]
                                       /\ esp'[c] = esp[c]
    BY <1>0, <2>3, ContextsAndAddresses, AddressesDiffer DEF TypeOK
  <2>6. CoopMachine' /\ CoopBelief'
    BY <1>0, <2>2, <2>3, <2>5
       DEF CoopInv, CoopMachine, CoopBelief, InPoll, TaskPC, MainPC, BootPC
  <2>7. CoopFrames'
    <3>1. ASSUME NEW t \in Tasks
          PROVE  /\ irq_esp'[t] = Syn(t)
                 /\ mem'[Syn(t)].pc = "land" /\ mem'[Syn(t)].to = esp'[t]
                 /\ esp'[t] \in {First(t), Coop(t)}
                 /\ mem'[esp'[t]] = At("run")
      <4>1. CASE t = stack
        BY <1>0, <2>3, <2>4, <4>1 DEF ctxs, CoopInv, CoopFrames
      <4>2. CASE t # stack
        <5>1. /\ irq_esp[t] = Syn(t) /\ mem[Syn(t)].pc = "land"
              /\ mem[Syn(t)].to = esp[t] /\ esp[t] \in {First(t), Coop(t)}
              /\ mem[esp[t]] = At("run")
          BY <1>0, <4>2 DEF CoopInv, CoopFrames, WaitsIn
        <5>2. /\ mem'[First(t)] = mem[First(t)] /\ mem'[Coop(t)] = mem[Coop(t)]
              /\ mem'[Syn(t)] = mem[Syn(t)] /\ esp'[t] = esp[t]
          BY <2>5, <4>2, TaskIds
        <5>3. irq_esp' = irq_esp
          BY <2>3
        <5> QED BY <5>1, <5>2, <5>3
      <4> QED BY <4>1, <4>2
    <3>2. \A t \in Tasks : WaitsIn(t)'
      BY <3>1 DEF WaitsIn
    <3>3. DesktopWaits'
      BY <1>0, <2>5 DEF DesktopWaits
    <3>4. cpu'.pc = "yield_saved" /\ stack' = stack
      BY <2>2, <2>3
    <3> QED BY <1>0, <2>2, <3>1, <3>2, <3>3, <3>4 DEF CoopFrames
  <2> QED BY <2>6, <2>7 DEF CoopInv
<1>8. CASE YieldSwap
  <2>1. cpu.to = Coop(Main) /\ mem[Coop(Main)] = At("poll_back") /\ WaitsIn(stack)
    BY <1>0, <1>8 DEF YieldSwap, CoopInv, CoopFrames, DesktopWaits
  <2>2. /\ stack' = Main /\ cpu' = At("poll_back")
        /\ \A c \in Ctx :
              /\ mem'[Syn(c)] = mem[Syn(c)]
              /\ mem'[Irq(c)] \in {mem[Irq(c)], Gone}
              /\ c # Main => mem'[First(c)] = mem[First(c)]
                             /\ mem'[Coop(c)] = mem[Coop(c)]
    BY <1>0, <1>8, <2>1, ResumeCoop DEF YieldSwap, TypeOK
  <2>3. UNCHANGED <<slots, gates, clock, view, ctxs>>
    BY <1>8 DEF YieldSwap
  <2>4. cpu'.pc = "poll_back" /\ ~cpu'.was
    BY <2>2 DEF At
  <2>5. CoopMachine' /\ CoopBelief'
    BY <1>0, <2>2, <2>3, <2>4
       DEF CoopInv, CoopMachine, CoopBelief, InPoll, MainPC, BootPC
  <2>6. \A t \in Tasks : WaitsIn(t)
    BY <1>0, <2>1 DEF CoopInv, CoopFrames
  <2>7. CoopFrames'
    BY <1>0, <2>2, <2>3, <2>4, <2>6, TaskIds DEF CoopInv, CoopFrames, WaitsIn
  <2> QED BY <2>5, <2>7 DEF CoopInv
<1>9. ~YieldIret /\ ~Land
  BY <1>0 DEF YieldIret, Land
<1> QED BY <1>2, <1>3, <1>4, <1>5, <1>6, <1>7, <1>8, <1>9 DEF Task

LEMMA CoopNext == ASSUME GatesClosed PROVE IInv /\ CoopInv /\ [Next]_vars => CoopInv'
<1>1. CoopInv /\ UNCHANGED vars => CoopInv'
  BY DEF vars, slots, gates, clock, view, ctxs, hw, CoopInv, CoopMachine, CoopBelief,
         CoopFrames, InPoll, WaitsIn, DesktopWaits
<1> QED BY <1>1, CoopBoot, CoopTick, CoopDesktop, CoopTask, CoopOperator
        DEF Next, Execute

(***************************************************************************)
(* With the preempt gate closed the kernel has the cooperative shape for   *)
(* ever, whatever the operator and the launcher do.                        *)
(***************************************************************************)
THEOREM CoopHolds == ASSUME GatesClosed PROVE Spec => [](IInv /\ CoopInv)
<1>1. Init => IInv /\ CoopInv
  BY IInvInit, CoopInit
<1>2. (IInv /\ CoopInv) /\ [Next]_vars => (IInv /\ CoopInv)'
  BY IInvNext, CoopNext
<1> QED BY <1>1, <1>2, PTL DEF Spec

(***************************************************************************)
(* With the preempt gate closed no switch ever loads an ESP whose frame    *)
(* has been popped: scheduler_poll and scheduler_yield always find the     *)
(* frame they are about to resume.                                         *)
(***************************************************************************)
THEOREM CoopNoStaleResume == ASSUME GatesClosed PROVE Spec => []NoStaleResume
<1>1. CoopInv => NoStaleResume
  BY DEF CoopInv, CoopMachine, MainPC, TaskPC, NoStaleResume
<1> QED BY <1>1, CoopHolds, PTL

(* In the cooperative shape a suspended context can be resumed through any *)
(* slot.                                                                   *)
LEMMA CoopIsResumable == IInv /\ CoopInv => Resumable
<1> SUFFICES ASSUME IInv, CoopInv PROVE Resumable
  OBVIOUS
<1>1. ASSUME NEW t \in 0..(task_count - 1), t # stack, irq_esp[t] # Null
      PROVE  irq_esp[t].of = t /\ LeadsBack(irq_esp[t])
  <2>1. t \in Tasks /\ t < task_count
    <3>1. task_count \in 0..(NTasks + 1) /\ t # NTasks
      BY <1>1 DEF IInv, TypeOK, CoopInv, CoopMachine, Main
    <3> QED BY <1>1, <3>1, TasksAssumption DEF Tasks
  <2>2. /\ irq_esp[t] = Syn(t) /\ mem[Syn(t)].to = esp[t]
        /\ mem[esp[t]] = At("run")
    BY <1>1, <2>1 DEF CoopInv, CoopFrames, WaitsIn
  <2>3. At("run") # Gone
    BY DEF At, Gone
  <2>4. Syn(t).of = t /\ Syn(t).kind = "syn"
    BY DEF Syn
  <2> QED BY <2>2, <2>3, <2>4 DEF LeadsBack, Intact
<1>2. ASSUME stack # Main
      PROVE  ~main_paused_via_irq /\ esp[Main] = Coop(Main) /\ Intact(Coop(Main))
  <2>1. At("poll_back") # Gone
    BY DEF At, Gone
  <2> QED BY <1>2, <2>1 DEF CoopInv, CoopMachine, CoopFrames, DesktopWaits, Intact
<1> QED BY <1>1, <1>2 DEF Resumable

(***************************************************************************)
(* With the preempt gate closed every suspended context can be resumed     *)
(* through whichever slot scheduler_poll, scheduler_yield or the timer     *)
(* picker would use for it, at every step of every routine.                *)
(***************************************************************************)
THEOREM CoopResumable == ASSUME GatesClosed PROVE Spec => []Resumable
<1> QED BY CoopIsResumable, CoopHolds, PTL

(***************************************************************************)
(* With the preempt gate closed in_task and current_task never lie to the  *)
(* timer handler outside the window of scheduler_poll.                     *)
(***************************************************************************)
THEOREM CoopBeliefIsTrue == ASSUME GatesClosed PROVE Spec => []BeliefIsTrue
<1>1. CoopInv => BeliefIsTrue
  BY DEF CoopInv, CoopMachine, CoopBelief, InPoll, InPollWindow, BeliefIsTrue
<1> QED BY <1>1, CoopHolds, PTL

-----------------------------------------------------------------------------
(***************************************************************************)
(* Refinement.  A task always waits at the top of its trampoline's loop,   *)
(* the desktop inside scheduler_poll, whatever else their stacks hold.     *)
(***************************************************************************)
OldFrames == \A t \in Tasks : mem[Coop(t)] \in {Gone, At("run")}

LEMMA OldFramesNext ==
  IInv /\ CoopInv /\ OldFrames /\ [Next]_vars => OldFrames'
<1> SUFFICES ASSUME IInv, CoopInv, OldFrames, [Next]_vars,
                    NEW t \in Tasks, mem'[Coop(t)] # mem[Coop(t)]
             PROVE  mem'[Coop(t)] \in {Gone, At("run")}
  BY DEF OldFrames
<1>0. /\ mem \in [Addr -> Frame] /\ t \in Ctx /\ t # Main /\ Coop(t) \in Addr
      /\ ~TickGranted /\ ~YieldIret /\ ~Land
  BY TaskIds, ContextsAndAddresses
     DEF IInv, TypeOK, TickGranted, Allowed, CoopInv, CoopMachine, YieldIret, Land,
         OnTask, Tasks, Main
<1> USE AddressesDiffer, ContextsAndAddresses
<1>1. CreateTask \/ PollSave \/ PollSwap \/ YieldSave \/ YieldSwap
  BY <1>0 DEF Next, Execute, Boot, EnableInterrupts, RegisterMain, Desktop, PollTest,
        PollPick, PollEnter, PollReturn, Task, RunEntry, LaunchBegin, LaunchLower,
        LaunchEnd, Yield, Tick, TickIdle, TickRefused, SwitchFromMain,
        SwitchFromTask, Operator, PreemptCommand, MainswCommand, UserschedCommand,
        vars, hw
<1>2. ASSUME NEW a, ResumeFrom(mem, a) PROVE mem'[Coop(t)] \in {Gone, mem[Coop(t)]}
  BY <1>0, <1>2 DEF ResumeFrom
<1>3. CASE CreateTask
  <2>1. task_count \in Ctx
    BY <1>3, TasksAssumption DEF CreateTask, IInv, TypeOK, Ctx
  <2> QED BY <1>0, <1>3, <2>1 DEF CreateTask
<1>4. CASE PollSave
  BY <1>0, <1>4 DEF PollSave, OnMain
<1>5. CASE PollSwap \/ YieldSwap
  BY <1>2, <1>5 DEF PollSwap, YieldSwap
<1>6. CASE YieldSave
  <2>1. mem' = SavedFor(stack) /\ stack \in Ctx
    BY <1>6, TaskIds DEF YieldSave, OnTask, CoopInv, CoopFrames
  <2>2. mem' = [mem EXCEPT ![Coop(stack)] = At("run"), ![Syn(stack)].to = Coop(stack)]
    BY <2>1 DEF SavedFor
  <2>3. mem'[Coop(t)] \in {mem[Coop(t)], At("run")}
    BY <1>0, <2>1, <2>2
  <2> QED BY <2>3
<1> QED BY <1>1, <1>3, <1>4, <1>5, <1>6

(* The CPU changes hands only at the two stack switches.                   *)
LEMMA SwitchesOnly ==
  IInv /\ CoopInv /\ [Next]_vars =>
     \/ stack' = stack
     \/ cpu'.pc = IF stack' = Main THEN "poll_back" ELSE "run"
<1> SUFFICES ASSUME IInv, CoopInv, [Next]_vars, stack' # stack
             PROVE  cpu'.pc = IF stack' = Main THEN "poll_back" ELSE "run"
  OBVIOUS
<1>0. /\ mem \in [Addr -> Frame] /\ Main \in Ctx
      /\ ~TickGranted /\ ~YieldIret /\ ~Land
  BY TaskIds, ContextsAndAddresses
     DEF IInv, TypeOK, TickGranted, Allowed, CoopInv, CoopMachine, YieldIret, Land,
         OnTask, Tasks, Main
<1>1. PollSwap \/ YieldSwap
  BY <1>0 DEF Next, Execute, Boot, CreateTask, EnableInterrupts, RegisterMain,
        Desktop, PollTest, PollPick, PollEnter, PollSave, PollReturn, Task, RunEntry,
        LaunchBegin, LaunchLower, LaunchEnd, Yield, YieldSave, Tick, TickIdle,
        TickRefused, SwitchFromMain, SwitchFromTask, Operator, PreemptCommand,
        MainswCommand, UserschedCommand, vars, hw
<1>2. At("run").pc = "run" /\ At("poll_back").pc = "poll_back"
  BY DEF At
<1>3. CASE PollSwap
  <2>1. /\ current_task \in Tasks /\ main_task_id = Main
        /\ cpu.to = esp[current_task] /\ stack = Main
    BY <1>3 DEF PollSwap, OnMain, CoopInv, CoopBelief, CoopFrames, IInv, TypeOK,
                Phases, BootPC
  <2>2. current_task < task_count /\ current_task \in Ctx /\ current_task # Main
    BY <2>1, TaskIds DEF IInv, Phases
  <2>3. cpu.to \in {First(current_task), Coop(current_task)} /\ mem[cpu.to] = At("run")
    BY <2>1, <2>2 DEF CoopInv, CoopFrames, WaitsIn
  <2>4. stack' = current_task /\ cpu' = At("run")
    BY <1>0, <1>3, <2>2, <2>3, ResumeCoop DEF PollSwap
  <2> QED BY <1>2, <2>2, <2>4
<1>4. CASE YieldSwap
  <2>1. cpu.to = Coop(Main) /\ mem[Coop(Main)] = At("poll_back")
    BY <1>4, TaskIds DEF YieldSwap, OnTask, CoopInv, CoopFrames, DesktopWaits
  <2>2. stack' = Main /\ cpu' = At("poll_back")
    BY <1>0, <1>4, <2>1, ResumeCoop DEF YieldSwap
  <2> QED BY <1>2, <2>2
<1> QED BY <1>1, <1>3, <1>4

Points == MainPC \cup TaskPC

KnownPoints ==
  /\ stack \in Ctx /\ cpu.pc \in Points
  /\ \A c \in Ctx : PointOf(c) = IF c = stack THEN cpu.pc
                                 ELSE IF c = Main THEN "poll_back" ELSE "run"

LEMMA PointsKnown == IInv /\ CoopInv /\ OldFrames => KnownPoints
<1> SUFFICES ASSUME IInv, CoopInv, OldFrames PROVE KnownPoints
  OBVIOUS
<1>1. stack \in Ctx /\ cpu.pc \in Points /\ cpu.pc # "land"
  BY DEF IInv, TypeOK, CoopInv, CoopMachine, Points, MainPC
<1>2. At("run").pc = "run" /\ At("poll_back").pc = "poll_back" /\ At("poll_back") # Gone
  BY DEF At, Gone
<1>3. ASSUME NEW c \in Ctx, c # stack
      PROVE  Waiting(c) = IF c = Main THEN "poll_back" ELSE "run"
  <2>1. ~Intact(Irq(c))
    BY <1>3 DEF CoopInv, CoopMachine, Intact
  <2>2. CASE c = Main
    BY <1>2, <1>3, <2>1, <2>2 DEF CoopInv, CoopFrames, DesktopWaits, Waiting, Intact
  <2>3. CASE c # Main
    <3>1. c \in Tasks
      BY <2>3, TasksAssumption DEF Ctx, Tasks, Main
    <3>2. mem[Coop(c)] \in {Gone, At("run")}
      BY <3>1 DEF OldFrames
    <3> QED BY <1>2, <2>1, <2>3, <3>2 DEF Waiting, Intact
  <2> QED BY <2>2, <2>3
<1> QED BY <1>1, <1>3 DEF PointOf, KnownPoints

(***************************************************************************)
(* With the preempt gate closed the scheduler implements coroutines: every *)
(* step of every routine moves the running thread of control or hands the  *)
(* CPU to one that continues exactly where it was left.                    *)
(***************************************************************************)
THEOREM CoopImplementsCoroutines ==
  ASSUME GatesClosed PROVE Spec => ImplementsCoroutines
<1> DEFINE Inv == IInv /\ CoopInv /\ OldFrames
<1>1. Init => Inv
  <2>1. Init => OldFrames
    BY TaskIds, ContextsAndAddresses DEF Init, OldFrames
  <2> QED BY <2>1, IInvInit, CoopInit
<1>2. Inv /\ [Next]_vars => Inv'
  BY IInvNext, CoopNext, OldFramesNext
<1>3. Init => C!CInit
  <2> SUFFICES ASSUME Init PROVE C!CInit
    OBVIOUS
  <2>1. stack \in Ctx /\ \A c \in Ctx : PointOf(c) \in Points
    <3>1. Inv
      BY <1>1
    <3> QED BY <3>1, PointsKnown DEF KnownPoints, Points, MainPC, TaskPC
  <2> QED BY <2>1 DEF C!CInit, Points
<1>4. Inv' => KnownPoints'
  BY PointsKnown, PTL
<1>5. Inv /\ Inv' /\ [Next]_vars => [C!CNext]_C!cvars
  <2> SUFFICES ASSUME Inv, Inv', [Next]_vars PROVE C!CNext
    BY DEF C!CNext
  <2>1. /\ stack \in Ctx /\ cpu.pc \in Points
        /\ \A c \in Ctx : PointOf(c) = IF c = stack THEN cpu.pc
                                       ELSE IF c = Main THEN "poll_back" ELSE "run"
    BY PointsKnown DEF KnownPoints
  <2>2. /\ stack' \in Ctx /\ cpu'.pc \in Points
        /\ \A c \in Ctx : PointOf(c)' = IF c = stack' THEN cpu'.pc
                                       ELSE IF c = Main THEN "poll_back" ELSE "run"
    BY <1>4 DEF KnownPoints
  <2>3. \/ stack' = stack
        \/ cpu'.pc = IF stack' = Main THEN "poll_back" ELSE "run"
    BY SwitchesOnly
  <2> DEFINE p == [c \in Ctx |-> PointOf(c)]
  <2>4. /\ p \in [Ctx -> Points]
        /\ p' = [c \in Ctx |-> PointOf(c)']
        /\ p'[stack] \in Points
    BY <2>1, <2>2 DEF Points, MainPC, TaskPC
  <2>5. p' = [p EXCEPT ![stack] = p'[stack]]
    <3>1. \A c \in Ctx : c # stack => p'[c] = p[c]
      BY <2>1, <2>2, <2>3, <2>4
    <3> HIDE DEF p
    <3> QED BY <2>4, <3>1
  <2>6. C!Move(stack', p'[stack])
    BY <2>5 DEF C!Move
  <2> QED BY <2>2, <2>4, <2>6 DEF C!CNext, Points
<1> QED BY <1>1, <1>2, <1>3, <1>5, PTL DEF Spec, ImplementsCoroutines, C!CSpec

-----------------------------------------------------------------------------
(***************************************************************************)
(* Proofs about the scheduler with both gates open.  The operator is the   *)
(* disciplined one of module Scheduler, who opens the preempt gate after   *)
(* the mainsw gate and never closes it again; nothing is launched in       *)
(* ring 3 (a launch lowers the gate by itself); and there are at least two *)
(* kernel tasks, as kernel_main creates them: with a single one the timer  *)
(* may find no slot to hand the desktop's CPU to.                          *)
(***************************************************************************)

GatesStayOpen == PreemptCmds \subseteq {TRUE} /\ Launchers = {} /\ NTasks > 1

(***************************************************************************)
(* The shape of the kernel once the preempt gate is open: the desktop is   *)
(* only ever captured in its loop, by the timer, and given back by a       *)
(* yielding task or by the timer; scheduler_poll is never entered, because *)
(* every quantum that ends finds a slot to switch to and leaves no request *)
(* behind.                                                                 *)
(***************************************************************************)
OpenPC == {"run", "done", "yield_iret"}

(* A landing pad leads to the top of the loop of task t's trampoline.      *)
StartsWith(f, t) ==
    f.pc = "land" /\ f.to \in {First(t), Coop(t)} /\ mem[f.to] = At("run")

OpenMachine ==
    /\ preemptive_enabled /\ main_switch_enabled /\ ~switch_pending
    /\ main_task_id = Main
    /\ in_task = (stack # Main) /\ main_paused_via_irq = in_task
    /\ in_task => current_task = stack
    /\ round_trips = IF in_task THEN 1 ELSE 0

OpenCpu ==
    /\ mem[Irq(stack)] = Gone
    /\ stack = Main => cpu.pc = "loop" /\ irq_esp[Main] = Null
    /\ stack # Main => /\ irq_esp[Main] = Irq(Main) /\ mem[Irq(Main)].pc = "loop"
                       /\ cpu.pc \in OpenPC \/ StartsWith(cpu, stack)

(* Task t waits at the top of its loop, or where the timer stopped it.     *)
OpenWaits(t) ==
    \/ irq_esp[t] = Syn(t) /\ StartsWith(mem[Syn(t)], t) /\ mem[Irq(t)] = Gone
    \/ irq_esp[t] = Irq(t) /\ mem[Irq(t)].pc \in OpenPC

OpenTasks ==
    \A t \in Tasks : /\ irq_esp[t] # Null /\ mem[Syn(t)].pc = "land"
                     /\ t # stack => OpenWaits(t)

OpenInv == OpenMachine /\ OpenCpu /\ OpenTasks

(* A step of the open kernel gives the CPU to a context only through the   *)
(* frame filed for it, and leaves what every other context was doing.      *)
OpenMove ==
    /\ \A c \in Ctx : mem'[Coop(c)] \in {mem[Coop(c)], Gone, At("run")}
    /\ \A c \in Ctx \ {stack} : IF c = stack' THEN cpu' = mem[irq_esp[c]]
                                ELSE mem'[Irq(c)] = mem[Irq(c)]

(* Everybody has registered, and a frame with a program counter is intact. *)
LEMMA OpenFacts ==
  ASSUME IInv, OpenInv
  PROVE  /\ TypeOK /\ task_count = NTasks + 1 /\ stack \in Ctx
         /\ stack # Main => stack \in Tasks
         /\ \A t \in Tasks : t \in Ctx /\ t # Main /\ t < task_count
<1>1. stack \in Ctx /\ task_count = NTasks + 1 /\ TypeOK
  BY DEF IInv, TypeOK, Phases, OpenInv, OpenMachine
<1>2. stack # Main => stack \in Tasks
  BY <1>1, TasksAssumption DEF Ctx, Tasks, Main
<1> QED BY <1>1, <1>2, TaskIds

LEMMA ProgramCounters ==
  /\ Gone.pc = "gone" /\ At("run").pc = "run" /\ At("run") # Gone
  /\ \A p : At(p).to = Null /\ ~At(p).was
BY DEF At, Gone

(* Resuming a context through the frame the timer or a landing pad left:   *)
(* an interrupt frame is used up, a synthetic one is not.                  *)
LEMMA ResumeWaiting ==
  ASSUME NEW m \in [Addr -> Frame], NEW b \in Ctx, NEW a \in {Syn(b), Irq(b)},
         m[a].pc # "gone", ResumeFrom(m, a)
  PROVE  /\ stack' = b /\ cpu' = m[a]
         /\ mem'[Irq(b)] = IF a = Irq(b) THEN Gone ELSE m[Irq(b)]
         /\ \A c \in Ctx : /\ mem'[First(c)] = m[First(c)]
                           /\ mem'[Coop(c)] = m[Coop(c)]
                           /\ mem'[Syn(c)] = m[Syn(c)]
                           /\ c # b => mem'[Irq(c)] = m[Irq(c)]
<1>1. m[a] # Gone
  BY ProgramCounters
<1>2. a.of = b
  BY DEF Syn, Irq
<1>3. PoppedWith(a) = IF a = Irq(b) THEN {a} ELSE {}
  <2>1. CASE a = Irq(b)
    BY <2>1 DEF PoppedWith, Irq
  <2>2. CASE a = Syn(b)
    BY <2>2, AddressesDiffer DEF PoppedWith, Syn
  <2> QED BY <2>1, <2>2
<1>4. /\ stack' = b /\ cpu' = m[a]
      /\ mem' = [x \in Addr |-> IF x \in PoppedWith(a) THEN Gone ELSE m[x]]
  BY <1>1, <1>2 DEF ResumeFrom
<1> QED BY <1>3, <1>4, ContextsAndAddresses, AddressesDiffer

-----------------------------------------------------------------------------
(* The command that opens the gate finds the cooperative shape.            *)
LEMMA OpeningTheGate ==
  ASSUME IInv, CoopInv, ~switch_pending, main_switch_enabled, PreemptCommand(TRUE)
  PROVE  OpenInv'
<1>1. /\ stack = Main /\ cpu.pc = "loop" /\ preemptive_enabled'
      /\ UNCHANGED <<slots, main_switch_enabled, clock, view, ctxs, hw>>
  BY DEF PreemptCommand, OnMain
<1>2. /\ main_task_id = Main /\ Main \in Ctx
      /\ \A t \in Tasks : t \in Ctx /\ t # Main /\ t < task_count
  <2>1. cpu.pc \notin BootPC
    BY <1>1 DEF BootPC
  <2> QED BY <2>1, TaskIds, ContextsAndAddresses DEF IInv, TypeOK, Phases
<1>3. ~in_task /\ ~main_paused_via_irq /\ round_trips = 0 /\ irq_esp[Main] = Null
      /\ \A c \in Ctx : mem[Irq(c)] = Gone
  BY <1>1 DEF CoopInv, CoopMachine, CoopBelief, InPoll
<1>4. OpenMachine'
  BY <1>1, <1>2, <1>3 DEF OpenMachine, slots, clock, view, hw, IInv, TypeOK
<1>5. OpenCpu'
  BY <1>1, <1>2, <1>3 DEF OpenCpu, ctxs, hw
<1>6. ASSUME NEW t \in Tasks
      PROVE  irq_esp[t] # Null /\ mem[Syn(t)].pc = "land" /\ OpenWaits(t)
  BY <1>1, <1>2, <1>3, AddressesDiffer
     DEF CoopInv, CoopFrames, WaitsIn, OpenWaits, StartsWith
<1>7. OpenTasks'
  BY <1>1, <1>6 DEF OpenTasks, OpenWaits, StartsWith, ctxs, hw
<1> QED BY <1>4, <1>5, <1>7 DEF OpenInv

(* Once it is open, no command of the disciplined operator closes a gate.  *)
LEMMA OpenOperator ==
  ASSUME GatesStayOpen, OpenInv, DisciplinedOperator PROVE OpenInv'
<1> USE DEF slots, gates, clock, view, ctxs, hw
<1>1. preemptive_enabled /\ main_switch_enabled
  BY DEF OpenInv, OpenMachine
<1>2. preemptive_enabled' /\ main_switch_enabled'
      /\ UNCHANGED <<task_count, main_task_id, clock, view, ctxs, hw>>
  <2>1. CASE \E v \in PreemptCmds : PreemptCommand(v)
    <3>1. PreemptCommand(TRUE)
      BY <2>1 DEF GatesStayOpen
    <3> QED BY <1>1, <3>1 DEF PreemptCommand
  <2>2. CASE \E v \in MainswCmds : (preemptive_enabled => v) /\ MainswCommand(v)
    BY <1>1, <2>2 DEF MainswCommand
  <2>3. CASE UserschedCommand
    BY <2>3 DEF UserschedCommand, GatesStayOpen
  <2> QED BY <2>1, <2>2, <2>3 DEF DisciplinedOperator
<1> QED BY <1>2 DEF OpenInv, OpenMachine, OpenCpu, OpenTasks, OpenWaits, StartsWith,
                    clock, view, ctxs, hw

-----------------------------------------------------------------------------
(* In the open shape some other context always waits with an interrupt     *)
(* ESP filed, so the end of a quantum finds a slot to switch to.           *)
LEMMA AlwaysSomebody ==
  ASSUME GatesStayOpen, IInv, OpenInv PROVE IrqReady # {}
<1> USE OpenFacts
<1>1. CASE stack = Main
  <2>1. 0 \in Tasks /\ 1 \in Tasks
    BY TasksAssumption DEF Tasks, GatesStayOpen
  <2>2. 0 \in 0..(task_count - 1) /\ 1 \in 0..(task_count - 1)
    BY <2>1, TasksAssumption DEF GatesStayOpen
  <2>3. irq_esp[0] # Null /\ irq_esp[1] # Null
    BY <2>1 DEF OpenInv, OpenTasks
  <2> QED BY <2>2, <2>3 DEF IrqReady
<1>2. CASE stack # Main
  <2>1. Main \in 0..(task_count - 1) /\ Main # current_task
    <3>1. in_task /\ current_task = stack
      BY <1>2 DEF OpenInv, OpenMachine, TypeOK
    <3>2. NTasks \in 0..(NTasks + 1 - 1)
      BY TasksAssumption
    <3> QED BY <1>2, <3>1, <3>2 DEF Main
  <2>2. irq_esp[Main] # Null
    BY <1>2, AddressesDiffer, ContextsAndAddresses DEF OpenInv, OpenCpu
  <2> QED BY <2>1, <2>2 DEF IrqReady
<1> QED BY <1>1, <1>2

(* What a switch granted to the timer finds.                               *)
LEMMA GrantedSwitch ==
  ASSUME GatesStayOpen, IInv, OpenInv, TickGranted
  PROVE  /\ NextIrq \in Ctx /\ NextIrq # current_task /\ irq_esp[NextIrq] # Null
         /\ Pushed \in [Addr -> Frame]
         /\ stack = Main => NextIrq \in Tasks
         /\ switch_pending' = FALSE
<1>1. NextIrq \in IrqReady
  <2>1. IrqReady \subseteq Nat /\ IrqReady # {} /\ task_count \in Nat
    BY AlwaysSomebody, OpenFacts DEF IrqReady, TypeOK
  <2> QED BY <2>1, NearestIsCandidate, OpenFacts DEF NextIrq, TypeOK
<1>2. NextIrq \in Ctx /\ NextIrq # current_task /\ irq_esp[NextIrq] # Null
  <2>1. \A t \in IrqReady : t \in Ctx /\ t # current_task /\ irq_esp[t] # Null
    BY OpenFacts, TasksAssumption DEF IrqReady, Ctx
  <2> QED BY <1>1, <2>1
<1>3. Interrupted \in Addr
  BY OpenFacts, ContextsAndAddresses DEF Interrupted
<1>4. Pushed \in [Addr -> Frame]
  BY <1>3, OpenFacts DEF Pushed, TypeOK
<1>5. stack = Main => NextIrq \in Tasks
  BY <1>2, TasksAssumption DEF OpenInv, OpenCpu, Ctx, Tasks, Main
<1> QED BY <1>2, <1>4, <1>5 DEF TickGranted

(* What the interrupt pushes: the interrupted point on an ordinary stack,  *)
(* the synthetic frame itself on an interrupt stack.                       *)
LEMMA PushedFrames ==
  ASSUME IInv, OpenInv
  PROVE  /\ \A c \in Ctx : /\ Pushed[First(c)] = mem[First(c)]
                           /\ Pushed[Coop(c)] = mem[Coop(c)]
                           /\ c # stack => /\ Pushed[Syn(c)] = mem[Syn(c)]
                                           /\ Pushed[Irq(c)] = mem[Irq(c)]
         /\ cpu.pc = "land" => /\ Interrupted = Syn(stack)
                               /\ Pushed[Syn(stack)] = cpu
                               /\ Pushed[Irq(stack)] = mem[Irq(stack)]
         /\ cpu.pc # "land" => /\ Interrupted = Irq(stack)
                               /\ Pushed[Irq(stack)] = cpu
                               /\ Pushed[Syn(stack)] = mem[Syn(stack)]
<1>1. mem \in [Addr -> Frame] /\ stack \in Ctx
  BY OpenFacts DEF TypeOK
<1> QED BY <1>1, ContextsAndAddresses, AddressesDiffer DEF Pushed, Interrupted

(* The timer takes the CPU from the desktop's loop.                        *)
LEMMA OpenSwitchFromMain ==
  ASSUME GatesStayOpen, IInv, OpenInv, SwitchFromMain PROVE OpenInv' /\ OpenMove
<1>0. /\ TickGranted /\ ~in_task /\ stack = Main /\ cpu.pc = "loop"
      /\ main_task_id = Main /\ round_trips = 0 /\ Main \in Ctx
      /\ TypeOK /\ TypeOK' /\ mem \in [Addr -> Frame]
  BY OpenFacts, ContextsAndAddresses, IInvTick
     DEF SwitchFromMain, OpenInv, OpenMachine, OpenCpu, IInv, TypeOK, Tick
<1>1. PICK b \in Tasks : b = NextIrq
  BY <1>0, GrantedSwitch
<1>2. b \in Ctx /\ b # Main /\ b < task_count
  BY OpenFacts
<1>3. PICK a \in Addr : a = irq_esp[b]
  BY <1>0, <1>2 DEF TypeOK
<1>4. PICK m \in [Addr -> Frame] : m = Pushed
  BY <1>0, GrantedSwitch
<1>5. /\ OpenWaits(b) /\ a \in {Syn(b), Irq(b)} /\ m[a].pc # "gone"
  <2>1. OpenWaits(b)
    BY <1>0, <1>2 DEF OpenInv, OpenTasks
  <2> QED BY <1>0, <1>2, <1>3, <1>4, <2>1, PushedFrames
          DEF OpenWaits, StartsWith, OpenPC
<1>6. /\ irq_esp' = [irq_esp EXCEPT ![Main] = Irq(Main)]
      /\ main_paused_via_irq' = TRUE /\ current_task' = b /\ in_task' = TRUE
      /\ round_trips' = 1 /\ switch_pending' = FALSE
      /\ ResumeFrom(m, a)
      /\ UNCHANGED <<slots, gates, esp>>
  <2>1. Interrupted = Irq(Main)
    BY <1>0, PushedFrames
  <2>2. irq_esp'[b] = irq_esp[b]
    BY <1>0, <1>2, <2>1 DEF SwitchFromMain, TypeOK
  <2> QED BY <1>0, <1>1, <1>3, <1>4, <2>1, <2>2, GrantedSwitch DEF SwitchFromMain
<1>7. /\ stack' = b /\ cpu' = m[a]
      /\ mem'[Irq(b)] = IF a = Irq(b) THEN Gone ELSE m[Irq(b)]
      /\ \A c \in Ctx : /\ mem'[First(c)] = m[First(c)]
                        /\ mem'[Coop(c)] = m[Coop(c)]
                        /\ mem'[Syn(c)] = m[Syn(c)]
                        /\ c # b => mem'[Irq(c)] = m[Irq(c)]
  BY <1>2, <1>5, <1>6, ResumeWaiting
<1>8. /\ m[Irq(Main)].pc = "loop"
      /\ \A c \in Ctx : /\ m[First(c)] = mem[First(c)] /\ m[Coop(c)] = mem[Coop(c)]
                        /\ m[Syn(c)] = mem[Syn(c)]
                        /\ c # Main => m[Irq(c)] = mem[Irq(c)]
  BY <1>0, <1>4, PushedFrames
<1>9. \A c \in Ctx : /\ mem'[First(c)] = mem[First(c)]
                     /\ mem'[Coop(c)] = mem[Coop(c)]
                     /\ mem'[Syn(c)] = mem[Syn(c)]
                     /\ c \notin {b, Main} => mem'[Irq(c)] = mem[Irq(c)]
  BY <1>7, <1>8
<1>10. OpenMachine'
  BY <1>0, <1>2, <1>6, <1>7 DEF OpenInv, OpenMachine, slots, gates
<1>11. OpenCpu'
  <2>1. mem'[Irq(b)] = Gone
    BY <1>2, <1>3, <1>5, <1>7, <1>8 DEF OpenWaits
  <2>2. cpu'.pc \in OpenPC \/ StartsWith(cpu, b)'
    <3>1. CASE a = Irq(b)
      BY <1>2, <1>3, <1>5, <1>7, <1>8, <3>1, AddressesDiffer DEF OpenWaits
    <3>2. CASE a = Syn(b)
      <4>1. StartsWith(mem[Syn(b)], b) /\ cpu' = mem[Syn(b)]
        BY <1>2, <1>3, <1>5, <1>7, <1>8, <3>2, AddressesDiffer DEF OpenWaits
      <4> QED BY <1>2, <1>9, <4>1 DEF StartsWith
    <3> QED BY <1>5, <3>1, <3>2
  <2>3. irq_esp'[Main] = Irq(Main) /\ mem'[Irq(Main)].pc = "loop"
    BY <1>0, <1>2, <1>6, <1>7, <1>8 DEF TypeOK
  <2> QED BY <1>2, <1>7, <2>1, <2>2, <2>3 DEF OpenCpu, StartsWith
<1>12. OpenTasks'
  <2>1. ASSUME NEW t \in Tasks
        PROVE  /\ irq_esp'[t] # Null /\ mem'[Syn(t)].pc = "land"
               /\ t # b => OpenWaits(t)'
    <3>1. t \in Ctx /\ t # Main /\ irq_esp'[t] = irq_esp[t]
      BY <1>0, <1>6, OpenFacts DEF TypeOK
    <3>2. irq_esp[t] # Null /\ mem[Syn(t)].pc = "land" /\ OpenWaits(t)
      BY <1>0, <3>1 DEF OpenInv, OpenTasks
    <3> QED BY <1>9, <3>1, <3>2 DEF OpenWaits, StartsWith
  <2> QED BY <1>7, <2>1 DEF OpenTasks
<1>13. OpenMove
  BY <1>0, <1>2, <1>3, <1>5, <1>7, <1>8, <1>9, AddressesDiffer DEF OpenMove
<1> QED BY <1>10, <1>11, <1>12, <1>13 DEF OpenInv

(* The timer takes the CPU from a task, for another one or the desktop.    *)
LEMMA OpenSwitchFromTask ==
  ASSUME GatesStayOpen, IInv, OpenInv, SwitchFromTask PROVE OpenInv' /\ OpenMove
<1>0. /\ TickGranted /\ in_task /\ stack # Main /\ stack \in Tasks /\ stack \in Ctx
      /\ current_task = stack /\ main_paused_via_irq
      /\ main_task_id = Main /\ round_trips = 1 /\ Main \in Ctx
      /\ TypeOK /\ TypeOK' /\ mem \in [Addr -> Frame]
  BY OpenFacts, ContextsAndAddresses, IInvTick
     DEF SwitchFromTask, OpenInv, OpenMachine, IInv, TypeOK, Tick
<1>1. PICK b \in Ctx : b = NextIrq
  BY <1>0, GrantedSwitch
<1>2. b # stack /\ (b # Main => b \in Tasks)
  BY <1>0, <1>1, GrantedSwitch, TasksAssumption DEF Ctx, Tasks, Main
<1>3. PICK a \in Addr : a = irq_esp[b]
  BY <1>0 DEF TypeOK
<1>4. PICK m \in [Addr -> Frame] : m = Pushed
  BY <1>0, GrantedSwitch
<1>5. PICK s \in Tasks : s = stack
  BY <1>0
<1>6. PICK i \in {Syn(s), Irq(s)} : i = Interrupted
  BY <1>5 DEF Interrupted
<1>7. /\ irq_esp' = [c \in Ctx |-> CASE c = s             -> i
                                  [] b = Main /\ c = b  -> Null
                                  [] OTHER             -> irq_esp[c]]
      /\ main_paused_via_irq' = (b # Main) /\ in_task' = (b # Main)
      /\ current_task' = b /\ switch_pending' = FALSE
      /\ round_trips' = IF b # Main THEN 1 ELSE 0
      /\ ResumeFrom(m, a)
      /\ UNCHANGED <<slots, gates, esp>>
  BY <1>0, <1>1, <1>3, <1>4, <1>5, <1>6, GrantedSwitch DEF SwitchFromTask
<1>8. /\ a \in {Syn(b), Irq(b)} /\ mem[a].pc \in OpenPC \cup {"loop", "land"}
      /\ b = Main => a = Irq(b) /\ mem[a].pc = "loop"
      /\ b # Main => OpenWaits(b)
  BY <1>0, <1>2, <1>3 DEF OpenInv, OpenCpu, OpenTasks, OpenWaits, StartsWith
<1>9. /\ \A c \in Ctx : /\ m[First(c)] = mem[First(c)] /\ m[Coop(c)] = mem[Coop(c)]
                        /\ c # s => m[Syn(c)] = mem[Syn(c)] /\ m[Irq(c)] = mem[Irq(c)]
      /\ cpu.pc = "land" => i = Syn(s) /\ m[Syn(s)] = cpu /\ m[Irq(s)] = Gone
      /\ cpu.pc # "land" => i = Irq(s) /\ m[Irq(s)] = cpu
                             /\ m[Syn(s)] = mem[Syn(s)]
  BY <1>4, <1>5, <1>6, PushedFrames DEF OpenInv, OpenCpu
<1>10. m[a] = mem[a] /\ m[a].pc # "gone"
  BY <1>2, <1>5, <1>8, <1>9 DEF OpenPC
<1>11. /\ stack' = b /\ cpu' = mem[a]
       /\ mem'[Irq(b)] = IF a = Irq(b) THEN Gone ELSE mem[Irq(b)]
       /\ \A c \in Ctx : /\ mem'[First(c)] = mem[First(c)]
                         /\ mem'[Coop(c)] = mem[Coop(c)]
                         /\ mem'[Syn(c)] = m[Syn(c)]
                         /\ c # b => mem'[Irq(c)] = m[Irq(c)]
  <2>1. /\ stack' = b /\ cpu' = m[a]
        /\ mem'[Irq(b)] = IF a = Irq(b) THEN Gone ELSE m[Irq(b)]
        /\ \A c \in Ctx : /\ mem'[First(c)] = m[First(c)]
                          /\ mem'[Coop(c)] = m[Coop(c)]
                          /\ mem'[Syn(c)] = m[Syn(c)]
                          /\ c # b => mem'[Irq(c)] = m[Irq(c)]
    BY <1>7, <1>8, <1>10, ResumeWaiting
  <2> QED BY <1>2, <1>5, <1>9, <1>10, <2>1
<1>12. OpenMachine'
  BY <1>0, <1>7, <1>11 DEF OpenInv, OpenMachine, slots, gates
<1>13. OpenCpu'
  <2>1. mem'[Irq(b)] = Gone
    BY <1>3, <1>8, <1>11 DEF OpenWaits
  <2>2. CASE b = Main
    BY <1>7, <1>8, <1>11, <2>1, <2>2, <1>2, <1>5 DEF OpenCpu
  <2>3. CASE b # Main
    <3>1. cpu'.pc \in OpenPC \/ StartsWith(cpu, b)'
      <4>1. CASE a = Irq(b)
        BY <1>3, <1>8, <1>11, <2>3, <4>1, AddressesDiffer DEF OpenWaits
      <4>2. CASE a = Syn(b)
        <5>1. StartsWith(mem[Syn(b)], b) /\ cpu' = mem[Syn(b)]
          BY <1>3, <1>8, <1>11, <2>3, <4>2, AddressesDiffer DEF OpenWaits
        <5> QED BY <1>11, <5>1 DEF StartsWith
      <4> QED BY <1>8, <4>1, <4>2
    <3>2. irq_esp'[Main] = Irq(Main) /\ mem'[Irq(Main)].pc = "loop"
      BY <1>0, <1>5, <1>7, <1>9, <1>11, <2>3 DEF OpenInv, OpenCpu
    <3> QED BY <1>11, <2>1, <2>3, <3>1, <3>2 DEF OpenCpu, StartsWith
  <2> QED BY <2>2, <2>3
<1>14. OpenTasks'
  <2>1. ASSUME NEW t \in Tasks
        PROVE  /\ irq_esp'[t] # Null /\ mem'[Syn(t)].pc = "land"
               /\ t # b => OpenWaits(t)'
    <3>1. t \in Ctx /\ t # Main
      BY OpenFacts
    <3>2. CASE t = s
      <4>1. irq_esp'[t] = i /\ t # b
        BY <1>2, <1>5, <1>7, <3>1, <3>2
      <4>2. CASE cpu.pc = "land"
        <5>1. StartsWith(cpu, s)
          BY <1>0, <1>5, <4>2 DEF OpenInv, OpenCpu, OpenPC
        <5>2. /\ mem'[Syn(t)] = cpu /\ mem'[Irq(t)] = Gone /\ i = Syn(t)
              /\ mem'[First(t)] = mem[First(t)] /\ mem'[Coop(t)] = mem[Coop(t)]
          BY <1>9, <1>11, <3>1, <3>2, <4>1, <4>2
        <5> QED BY <3>1, <3>2, <4>1, <5>1, <5>2, AddressesDiffer
                DEF OpenWaits, StartsWith
      <4>3. CASE cpu.pc # "land"
        <5>1. cpu.pc \in OpenPC /\ mem[Syn(t)].pc = "land"
          BY <1>0, <1>5, <3>2, <4>3 DEF OpenInv, OpenCpu, OpenTasks, StartsWith
        <5>2. mem'[Irq(t)] = cpu /\ mem'[Syn(t)] = mem[Syn(t)] /\ i = Irq(t)
          BY <1>9, <1>11, <3>1, <3>2, <4>1, <4>3
        <5> QED BY <3>1, <3>2, <4>1, <5>1, <5>2, AddressesDiffer DEF OpenWaits
      <4> QED BY <4>2, <4>3
    <3>3. CASE t # s
      <4>1. irq_esp[t] # Null /\ mem[Syn(t)].pc = "land" /\ OpenWaits(t)
        BY <1>5, <3>3 DEF OpenInv, OpenTasks
      <4>2. /\ irq_esp'[t] = irq_esp[t] /\ mem'[Syn(t)] = mem[Syn(t)]
            /\ mem'[First(t)] = mem[First(t)] /\ mem'[Coop(t)] = mem[Coop(t)]
            /\ t # b => mem'[Irq(t)] = mem[Irq(t)]
        BY <1>7, <1>9, <1>11, <3>1, <3>3
      <4> QED BY <4>1, <4>2 DEF OpenWaits, StartsWith
    <3> QED BY <3>2, <3>3
  <2> QED BY <1>11, <2>1 DEF OpenTasks
<1>15. OpenMove
  BY <1>3, <1>5, <1>9, <1>11 DEF OpenMove
<1> QED BY <1>12, <1>13, <1>14, <1>15 DEF OpenInv

(* An open gate refuses nothing, and a tick that changes no stack ends no  *)
(* quantum and leaves no request.                                          *)
LEMMA OpenTick ==
  ASSUME GatesStayOpen, IInv, OpenInv, Tick PROVE OpenInv' /\ OpenMove
<1>1. CASE TickIdle
  <2>1. ~Expires
    BY <1>1, AlwaysSomebody DEF TickIdle, Wanted
  <2>2. switch_pending' = FALSE /\ UNCHANGED <<slots, gates, view, ctxs, hw>>
    BY <1>1, <2>1 DEF TickIdle, OpenInv, OpenMachine
  <2> QED BY <2>2 DEF OpenInv, OpenMachine, OpenCpu, OpenTasks, OpenWaits, StartsWith,
                      OpenMove, slots, gates, view, ctxs, hw
<1>2. ~TickRefused
  BY ContextsAndAddresses, OpenFacts, TasksAssumption
     DEF TickRefused, Allowed, OpenInv, OpenMachine, Ctx, Main
<1> QED BY <1>1, <1>2, OpenSwitchFromMain, OpenSwitchFromTask DEF Tick

(* The yield of a task that the timer put there: it files the cooperative  *)
(* frame and its synthetic twin, and gives the desktop its frame back.     *)
LEMMA OpenYieldIret ==
  ASSUME IInv, OpenInv, YieldIret PROVE OpenInv' /\ OpenMove
<1>0. /\ in_task /\ stack # Main /\ stack \in Tasks /\ stack \in Ctx
      /\ current_task = stack /\ main_task_id = Main /\ round_trips = 1
      /\ Main \in Ctx /\ irq_esp[Main] = Irq(Main) /\ mem[Irq(Main)].pc = "loop"
      /\ mem[Irq(stack)] = Gone /\ mem[Syn(stack)].pc = "land"
      /\ TypeOK /\ mem \in [Addr -> Frame]
  BY OpenFacts, ContextsAndAddresses
     DEF YieldIret, OnTask, Tasks, Main, OpenInv, OpenMachine, OpenCpu, OpenTasks,
         IInv, TypeOK
<1>1. PICK s \in Tasks : s = stack
  BY <1>0
<1>2. PICK m \in [Addr -> Frame] : m = SavedFor(s)
  BY <1>0, <1>1, SavedForSuspendable, SuspendableMemory DEF Suspendable
<1>3. /\ m[Coop(s)] = At("run") /\ m[Syn(s)].pc = "land" /\ m[Syn(s)].to = Coop(s)
      /\ \A c \in Ctx : /\ m[Irq(c)] = mem[Irq(c)] /\ m[First(c)] = mem[First(c)]
                        /\ c # s => m[Coop(c)] = mem[Coop(c)] /\ m[Syn(c)] = mem[Syn(c)]
  <2>1. m = [mem EXCEPT ![Coop(s)] = At("run"), ![Syn(s)].to = Coop(s)]
    BY <1>1, <1>2 DEF SavedFor
  <2>2. Coop(s) \in Addr /\ Syn(s) \in Addr /\ Coop(s) # Syn(s)
    BY <1>0, <1>1, ContextsAndAddresses, AddressesDiffer
  <2>3. mem[Syn(s)] \in Frame /\ mem[Syn(s)].pc = "land"
    BY <1>0, <1>1, <2>2
  <2>4. m[Coop(s)] = At("run") /\ m[Syn(s)].pc = "land" /\ m[Syn(s)].to = Coop(s)
    BY <1>0, <2>1, <2>2, <2>3 DEF Frame
  <2> QED BY <1>0, <1>1, <2>1, <2>4, ContextsAndAddresses, AddressesDiffer
<1>4. /\ irq_esp' = [irq_esp EXCEPT ![s] = Syn(s), ![Main] = Null]
      /\ main_paused_via_irq' = FALSE /\ current_task' = Main /\ in_task' = FALSE
      /\ round_trips' = 0
      /\ ResumeFrom(m, Irq(Main))
      /\ UNCHANGED <<slots, gates, clock>>
  BY <1>0, <1>1, <1>2 DEF YieldIret
<1>5. /\ stack' = Main /\ cpu'.pc = "loop" /\ mem'[Irq(Main)] = Gone
      /\ \A c \in Ctx : /\ mem'[First(c)] = m[First(c)] /\ mem'[Coop(c)] = m[Coop(c)]
                        /\ mem'[Syn(c)] = m[Syn(c)]
                        /\ c # Main => mem'[Irq(c)] = m[Irq(c)]
  BY <1>0, <1>3, <1>4, ResumeWaiting
<1>6. OpenMachine'
  BY <1>0, <1>4, <1>5 DEF OpenInv, OpenMachine, slots, gates, clock
<1>7. OpenCpu'
  BY <1>0, <1>4, <1>5 DEF OpenCpu, TypeOK
<1>8. OpenTasks'
  <2>1. ASSUME NEW t \in Tasks
        PROVE  irq_esp'[t] # Null /\ mem'[Syn(t)].pc = "land" /\ OpenWaits(t)'
    <3>1. t \in Ctx /\ t # Main
      BY OpenFacts
    <3>2. CASE t = s
      <4>1. irq_esp'[t] = Syn(t)
        BY <1>0, <1>4, <3>1, <3>2 DEF TypeOK
      <4>2. /\ mem'[Syn(t)].pc = "land" /\ mem'[Syn(t)].to = Coop(t)
            /\ mem'[Coop(t)] = At("run") /\ mem'[Irq(t)] = Gone
        BY <1>0, <1>1, <1>3, <1>5, <3>1, <3>2
      <4> QED BY <3>1, <4>1, <4>2, AddressesDiffer DEF OpenWaits, StartsWith
    <3>3. CASE t # s
      <4>1. irq_esp[t] # Null /\ mem[Syn(t)].pc = "land" /\ OpenWaits(t)
        BY <1>1, <3>3 DEF OpenInv, OpenTasks
      <4>2. /\ irq_esp'[t] = irq_esp[t] /\ mem'[Syn(t)] = mem[Syn(t)]
            /\ mem'[First(t)] = mem[First(t)] /\ mem'[Coop(t)] = mem[Coop(t)]
            /\ mem'[Irq(t)] = mem[Irq(t)]
        BY <1>0, <1>3, <1>4, <1>5, <3>1, <3>3 DEF TypeOK
      <4> QED BY <4>1, <4>2 DEF OpenWaits, StartsWith
    <3> QED BY <3>2, <3>3
  <2> QED BY <2>1 DEF OpenTasks
<1>9. OpenMove
  <2>1. cpu' = m[Irq(Main)]
    BY <1>0, <1>3, <1>4, ResumeWaiting
  <2> QED BY <1>0, <1>1, <1>3, <1>5, <2>1 DEF OpenMove
<1> QED BY <1>6, <1>7, <1>8, <1>9 DEF OpenInv

(* The landing pad starts the task at the top of its loop.                 *)
LEMMA OpenLand ==
  ASSUME IInv, OpenInv, Land PROVE OpenInv' /\ OpenMove
<1>0. /\ stack \in Tasks /\ stack \in Ctx /\ stack # Main /\ StartsWith(cpu, stack)
      /\ irq_esp[Main] = Irq(Main) /\ mem[Irq(Main)].pc = "loop"
      /\ Main \in Ctx /\ mem[Irq(stack)] = Gone /\ mem \in [Addr -> Frame]
  BY OpenFacts, ContextsAndAddresses
     DEF Land, OnTask, OpenInv, OpenCpu, OpenPC, Tasks, Main, TypeOK
<1>1. /\ ResumeFrom(mem, cpu.to) /\ UNCHANGED <<slots, gates, clock, view, ctxs>>
  BY DEF Land
<1>2. /\ stack' = stack /\ cpu' = At("run")
      /\ mem' = [x \in Addr |->
                   IF x \in {First(stack), Coop(stack), Irq(stack)} THEN Gone
                   ELSE mem[x]]
  <2>1. cpu.to.of = stack
        /\ PoppedWith(cpu.to) = {First(stack), Coop(stack), Irq(stack)}
    BY <1>0 DEF StartsWith, PoppedWith, First, Coop
  <2>2. mem[cpu.to] = At("run") /\ At("run") # Gone
    BY <1>0, ProgramCounters DEF StartsWith
  <2> QED BY <1>1, <2>1, <2>2 DEF ResumeFrom
<1>3. /\ mem'[Irq(stack)] = Gone
      /\ \A c \in Ctx : /\ mem'[Syn(c)] = mem[Syn(c)]
                        /\ c # stack => /\ mem'[First(c)] = mem[First(c)]
                                        /\ mem'[Coop(c)] = mem[Coop(c)]
                                        /\ mem'[Irq(c)] = mem[Irq(c)]
  BY <1>0, <1>2, ContextsAndAddresses, AddressesDiffer
<1>4. OpenMachine'
  BY <1>1, <1>2 DEF OpenInv, OpenMachine, slots, gates, clock, view
<1>5. OpenCpu'
  BY <1>0, <1>1, <1>2, <1>3, ProgramCounters DEF OpenCpu, OpenPC, ctxs
<1>6. OpenTasks'
  <2>1. ASSUME NEW t \in Tasks
        PROVE  /\ irq_esp'[t] # Null /\ mem'[Syn(t)].pc = "land"
               /\ t # stack => OpenWaits(t)'
    <3>1. /\ irq_esp[t] # Null /\ mem[Syn(t)].pc = "land"
          /\ t # stack => OpenWaits(t)
      BY DEF OpenInv, OpenTasks
    <3>2. t \in Ctx /\ irq_esp'[t] = irq_esp[t]
      BY <1>1, OpenFacts DEF ctxs
    <3> QED BY <1>3, <3>1, <3>2 DEF OpenWaits, StartsWith
  <2> QED BY <1>2, <2>1 DEF OpenTasks
<1>7. OpenMove
  BY <1>0, <1>2, <1>3, ContextsAndAddresses DEF OpenMove
<1> QED BY <1>4, <1>5, <1>6, <1>7 DEF OpenInv

(* Which code runs while the gate is open: neither the boot nor            *)
(* scheduler_poll, no launch and no cooperative switch.                    *)
LEMMA OpenCode ==
  ASSUME GatesStayOpen, IInv, OpenInv, Execute
  PROVE  RunEntry \/ Yield \/ YieldIret \/ Land
<1>1. stack = Main => cpu.pc = "loop"
  BY DEF OpenInv, OpenCpu
<1>2. stack # Main => cpu.pc \in OpenPC \cup {"land"}
  BY DEF OpenInv, OpenCpu, StartsWith
<1>3. ~Boot
  BY <1>1 DEF Boot, CreateTask, EnableInterrupts, RegisterMain, OnMain
<1>4. ~Desktop
  BY <1>1 DEF Desktop, PollTest, PollPick, PollEnter, PollSave, PollSwap, PollReturn,
              OnMain, OpenInv, OpenMachine
<1>5. \A p : OnTask(p) => p \in OpenPC \cup {"land"}
  BY <1>2, TaskIds DEF OnTask
<1>6. ~LaunchBegin /\ ~LaunchLower /\ ~LaunchEnd /\ ~YieldSave /\ ~YieldSwap
  BY <1>5 DEF GatesStayOpen, OpenPC, LaunchBegin, LaunchLower, LaunchEnd, YieldSave,
              YieldSwap
<1> QED BY <1>3, <1>4, <1>6 DEF Execute, Task

LEMMA OpenExecute ==
  ASSUME GatesStayOpen, IInv, OpenInv, Execute PROVE OpenInv' /\ OpenMove
(* Two of the four only move the task within its own code. *)
<1>1. ASSUME UNCHANGED <<main_task_id, gates, clock, view, ctxs, stack, mem>>,
             stack # Main, cpu'.pc \in OpenPC
      PROVE  OpenInv' /\ OpenMove
  BY <1>1 DEF OpenInv, OpenMachine, OpenCpu, OpenTasks, OpenWaits, StartsWith, OpenMove,
              gates, clock, view, ctxs
<1>2. \A p : OnTask(p) => stack # Main
  BY TaskIds DEF OnTask
<1>3. CASE RunEntry
  <2>1. cpu'.pc = "done"
    BY <1>3, OpenFacts DEF RunEntry, Goto, TypeOK, Frame
  <2>2. stack # Main /\ UNCHANGED <<main_task_id, gates, clock, view, ctxs, stack, mem>>
    BY <1>2, <1>3 DEF RunEntry
  <2> QED BY <1>1, <2>1, <2>2 DEF OpenPC
<1>4. CASE Yield
  <2>1. stack # Main /\ stack \in Tasks
    BY <1>2, <1>4 DEF Yield, OnTask
  <2>2. /\ in_task /\ main_paused_via_irq /\ current_task = stack
        /\ main_task_id = Main /\ irq_esp[Main] = Irq(Main) /\ Irq(Main) # Null
    BY <2>1, AddressesDiffer, ContextsAndAddresses, OpenFacts
       DEF OpenInv, OpenMachine, OpenCpu, TypeOK
  <2>3. ~(current_task < 0) /\ main_task_id >= 0
    BY <2>1, <2>2, TasksAssumption DEF Tasks, Main
  <2>4. YieldPath = At("yield_iret")
    <3>1. ~(~in_task \/ current_task < 0)
      BY <2>2, <2>3
    <3>2. main_paused_via_irq /\ main_task_id >= 0 /\ irq_esp[main_task_id] # Null
      BY <2>2, <2>3
    <3>3. ~(main_task_id < 0)
      BY <2>2, TasksAssumption DEF Main
    <3> QED BY <3>1, <3>2, <3>3, Zenon DEF YieldPath
  <2>5. cpu'.pc = "yield_iret"
    BY <1>4, <2>4 DEF Yield, At
  <2>6. UNCHANGED <<main_task_id, gates, clock, view, ctxs, stack, mem>>
    BY <1>4 DEF Yield, slots
  <2> QED BY <1>1, <2>1, <2>5, <2>6 DEF OpenPC
<1> QED BY <1>3, <1>4, OpenCode, OpenYieldIret, OpenLand

-----------------------------------------------------------------------------
(***************************************************************************)
(* The inductive invariant: the kernel has the cooperative shape until the *)
(* command that opens the preempt gate, and the open shape from then on.   *)
(***************************************************************************)
GateInv == IInv /\ OldFrames /\ (CoopInv \/ OpenInv)

LEMMA GateInit == Init => GateInv
<1>1. Init => OldFrames
  BY TaskIds, ContextsAndAddresses DEF Init, OldFrames
<1> QED BY <1>1, IInvInit, CoopInit DEF GateInv

LEMMA DisciplinedIsNext == [DisciplinedNext]_vars => [Next]_vars
<1>1. DisciplinedOperator => Operator
  BY DEF DisciplinedOperator, Operator
<1> QED BY <1>1 DEF DisciplinedNext, Next

(* The cooperative shape lasts until the gate is opened.                   *)
LEMMA CoopOrOpening ==
  ASSUME GatesStayOpen, IInv, CoopInv, [DisciplinedNext]_vars
  PROVE  CoopInv' \/ (OpenInv' /\ UNCHANGED hw)
<1>1. CASE \E v \in PreemptCmds :
              ~switch_pending /\ (v => main_switch_enabled) /\ PreemptCommand(v)
  <2>1. ~switch_pending /\ main_switch_enabled /\ PreemptCommand(TRUE)
    BY <1>1 DEF GatesStayOpen
  <2> QED BY <2>1, OpeningTheGate DEF PreemptCommand
<1>2. CASE (\E v \in MainswCmds : MainswCommand(v)) \/ UserschedCommand
  <2>1. UNCHANGED <<task_count, main_task_id, preemptive_enabled, view, ctxs, hw>>
    BY <1>2 DEF MainswCommand, UserschedCommand, slots, gates
  <2> QED BY <2>1 DEF CoopInv, CoopMachine, CoopBelief, CoopFrames, InPoll, WaitsIn,
                      DesktopWaits, view, ctxs, hw
<1>3. CASE Execute \/ Tick
  BY <1>3, CoopBoot, CoopTick, CoopDesktop, CoopTask DEF Execute
<1>4. CASE UNCHANGED vars
  BY <1>4 DEF vars, slots, gates, clock, view, ctxs, hw, CoopInv, CoopMachine,
              CoopBelief, CoopFrames, InPoll, WaitsIn, DesktopWaits
<1> QED BY <1>1, <1>2, <1>3, <1>4 DEF DisciplinedNext, DisciplinedOperator

(* The open shape lasts for ever, and every step of it is orderly.         *)
LEMMA OpenNext ==
  ASSUME GatesStayOpen, IInv, OpenInv, [DisciplinedNext]_vars
  PROVE  OpenInv' /\ (OpenMove \/ UNCHANGED hw)
<1>1. CASE DisciplinedOperator
  <2>1. UNCHANGED hw
    BY <1>1 DEF DisciplinedOperator, PreemptCommand, MainswCommand, UserschedCommand
  <2> QED BY <1>1, <2>1, OpenOperator
<1>2. CASE UNCHANGED vars
  BY <1>2 DEF OpenInv, OpenMachine, OpenCpu, OpenTasks, OpenWaits, StartsWith, vars,
              slots, gates, clock, view, ctxs, hw
<1> QED BY <1>1, <1>2, OpenExecute, OpenTick DEF DisciplinedNext

LEMMA GateNext ==
  ASSUME GatesStayOpen PROVE GateInv /\ [DisciplinedNext]_vars => GateInv'
<1> SUFFICES ASSUME GateInv, [DisciplinedNext]_vars PROVE GateInv'
  OBVIOUS
<1>1. IInv' /\ (CoopInv' \/ OpenInv')
  BY IInvNext, DisciplinedIsNext, CoopOrOpening, OpenNext DEF GateInv
<1>2. OldFrames'
  <2>1. CASE CoopInv
    BY <2>1, OldFramesNext, DisciplinedIsNext DEF GateInv
  <2>2. CASE OpenInv
    BY <2>2, OpenNext, TaskIds DEF GateInv, OldFrames, OpenMove, hw
  <2> QED BY <2>1, <2>2 DEF GateInv
<1> QED BY <1>1, <1>2 DEF GateInv

THEOREM GateHolds == ASSUME GatesStayOpen PROVE DisciplinedSpec => []GateInv
<1> QED BY GateInit, GateNext, PTL DEF DisciplinedSpec

(***************************************************************************)
(* With both gates open, for any number of tasks and any quantum, no       *)
(* switch ever loads an ESP whose frame has been popped: neither the timer *)
(* handler, nor scheduler_yield's return to the paused desktop, nor        *)
(* scheduler_resume_from_saved_esp.                                        *)
(***************************************************************************)
THEOREM OpenNoStaleResume ==
  ASSUME GatesStayOpen PROVE DisciplinedSpec => []NoStaleResume
<1>1. GateInv => NoStaleResume
  BY DEF GateInv, CoopInv, CoopMachine, MainPC, TaskPC, OpenInv, OpenCpu, OpenPC,
         StartsWith, NoStaleResume
<1> QED BY <1>1, GateHolds, PTL

(***************************************************************************)
(* With both gates open every suspended context can be resumed through the *)
(* slot that the timer picker or scheduler_yield would use for it.         *)
(***************************************************************************)
THEOREM OpenResumable == ASSUME GatesStayOpen PROVE DisciplinedSpec => []Resumable
<1>1. IInv /\ OpenInv => Resumable
  <2> SUFFICES ASSUME IInv, OpenInv PROVE Resumable
    OBVIOUS
  <2>1. ASSUME NEW t \in 0..(task_count - 1), t # stack, irq_esp[t] # Null
        PROVE  irq_esp[t].of = t /\ LeadsBack(irq_esp[t])
    <3>1. t \in Ctx /\ (t # Main => t \in Tasks)
      BY <2>1, OpenFacts, TasksAssumption DEF Ctx, Tasks, Main
    <3>2. /\ Syn(t).of = t /\ Syn(t).kind = "syn"
          /\ Irq(t).of = t /\ Irq(t).kind = "irq"
      BY DEF Syn, Irq
    <3>3. CASE t = Main
      <4>1. irq_esp[t] = Irq(t) /\ mem[Irq(t)].pc = "loop"
        BY <2>1, <3>3 DEF OpenInv, OpenCpu
      <4> QED BY <3>2, <4>1, ProgramCounters DEF LeadsBack, Intact
    <3>4. CASE t # Main
      <4>1. OpenWaits(t)
        BY <2>1, <3>1, <3>4 DEF OpenInv, OpenTasks
      <4> QED BY <3>2, <4>1, ProgramCounters
              DEF OpenWaits, StartsWith, OpenPC, LeadsBack, Intact
    <3> QED BY <3>3, <3>4
  <2>2. stack # Main => main_paused_via_irq /\ irq_esp[Main] = Irq(Main)
    BY OpenFacts DEF OpenInv, OpenMachine, OpenCpu, TypeOK
  <2> QED BY <2>1, <2>2 DEF Resumable
<1>2. GateInv => Resumable
  BY <1>1, CoopIsResumable DEF GateInv
<1> QED BY <1>2, GateHolds, PTL

(***************************************************************************)
(* With both gates open in_task and current_task never lie to the timer    *)
(* handler, which files the interrupted frame by them.                     *)
(***************************************************************************)
THEOREM OpenBeliefIsTrue ==
  ASSUME GatesStayOpen PROVE DisciplinedSpec => []BeliefIsTrue
<1>1. GateInv => BeliefIsTrue
  BY DEF GateInv, CoopInv, CoopMachine, CoopBelief, InPoll, InPollWindow, OpenInv,
         OpenMachine, BeliefIsTrue
<1> QED BY <1>1, GateHolds, PTL

(***************************************************************************)
(* With both gates open main_paused_via_irq, by which scheduler_yield      *)
(* chooses its path, is set exactly while the desktop's slot holds an      *)
(* interrupt frame.                                                        *)
(***************************************************************************)
THEOREM OpenPausedFlagExact ==
  ASSUME GatesStayOpen PROVE DisciplinedSpec => []PausedFlagExact
<1>1. IInv /\ CoopInv => PausedFlagExact
  BY DEF IInv, TypeOK, CoopInv, CoopMachine, PausedFlagExact
<1>2. IInv /\ OpenInv => PausedFlagExact
  <2> SUFFICES ASSUME IInv, OpenInv PROVE PausedFlagExact
    OBVIOUS
  <2>1. main_task_id >= 0
    BY TasksAssumption DEF OpenInv, OpenMachine, Main
  <2>2. irq_esp[Main] # Null <=> stack # Main
    BY AddressesDiffer, ContextsAndAddresses DEF OpenInv, OpenCpu
  <2> QED BY <2>1, <2>2 DEF OpenInv, OpenMachine, PausedFlagExact
<1>3. GateInv => PausedFlagExact
  BY <1>1, <1>2 DEF GateInv
<1> QED BY <1>3, GateHolds, PTL

(***************************************************************************)
(* With both gates open the round-trip counters of the scheduler stay in   *)
(* lockstep: every capture of the desktop is undone by exactly one return. *)
(***************************************************************************)
THEOREM OpenLockstep == ASSUME GatesStayOpen PROVE DisciplinedSpec => []Lockstep
<1>1. GateInv => Lockstep
  BY DEF GateInv, CoopInv, CoopMachine, OpenInv, OpenMachine, Lockstep
<1> QED BY <1>1, GateHolds, PTL

-----------------------------------------------------------------------------
(***************************************************************************)
(* Refinement.  Where each context of the open kernel is: the interrupt    *)
(* frame of a suspended one tells, and one without waits at the top of its *)
(* loop.                                                                   *)
(***************************************************************************)
OpenPoint(c) ==
    CASE c = stack /\ cpu.pc # "land" -> cpu.pc
      [] c # stack /\ mem[Irq(c)] # Gone -> mem[Irq(c)].pc
      [] OTHER -> "run"

LEMMA OpenPoints ==
  ASSUME IInv, OldFrames, OpenInv, NEW c \in Ctx
  PROVE  PointOf(c) = OpenPoint(c) /\ PointOf(c) \in Points
<1>1. c # Main => c \in Tasks /\ mem[Coop(c)] \in {Gone, At("run")}
  BY TasksAssumption DEF OldFrames, Ctx, Tasks, Main
<1>2. {"run", "done", "yield_iret", "loop"} \subseteq Points
  BY DEF Points, MainPC, TaskPC
<1>3. CASE c = stack /\ cpu.pc # "land"
  <2>1. cpu.pc \in OpenPC \cup {"loop"}
    BY <1>3 DEF OpenInv, OpenCpu, StartsWith
  <2> QED BY <1>2, <1>3, <2>1 DEF PointOf, OpenPoint, OpenPC
<1>4. CASE c = stack /\ cpu.pc = "land"
  <2>1. c # Main /\ mem[Irq(c)] = Gone
    BY <1>4 DEF OpenInv, OpenCpu
  <2>2. Waiting(c) = "run"
    BY <1>1, <2>1, ProgramCounters DEF Waiting, Intact
  <2> QED BY <1>2, <1>4, <2>2 DEF PointOf, OpenPoint
<1>5. CASE c # stack /\ c = Main
  <2>1. mem[Irq(c)].pc = "loop" /\ mem[Irq(c)] # Gone
    BY <1>5, ProgramCounters DEF OpenInv, OpenCpu
  <2> QED BY <1>2, <1>5, <2>1 DEF PointOf, Waiting, Intact, OpenPoint
<1>6. CASE c # stack /\ c # Main
  <2>1. mem[Irq(c)] = Gone \/ mem[Irq(c)].pc \in OpenPC
    BY <1>1, <1>6 DEF OpenInv, OpenTasks, OpenWaits
  <2> QED BY <1>1, <1>2, <1>6, <2>1, ProgramCounters
          DEF PointOf, Waiting, Intact, OpenPoint, OpenPC
<1> QED BY <1>3, <1>4, <1>5, <1>6

(* Only the context that leaves the CPU moves.                             *)
OthersStay == \A c \in Ctx \ {stack} : PointOf(c)' = PointOf(c)

LEMMA OpenOthersStay ==
  ASSUME GateInv, OpenInv, OpenMove,
         stack' \in Ctx, \A c \in Ctx : PointOf(c)' = OpenPoint(c)'
  PROVE  OthersStay
<1> SUFFICES ASSUME NEW c \in Ctx, c # stack PROVE PointOf(c)' = PointOf(c)
  BY DEF OthersStay
<1>1. PointOf(c) = IF mem[Irq(c)] # Gone THEN mem[Irq(c)].pc ELSE "run"
  <2>1. PointOf(c) = OpenPoint(c)
    BY OpenPoints DEF GateInv
  <2> QED BY <2>1 DEF OpenPoint
<1>2. CASE c # stack'
  <2>1. mem'[Irq(c)] = mem[Irq(c)]
    BY <1>2 DEF OpenMove
  <2>2. PointOf(c)' = IF mem'[Irq(c)] # Gone THEN mem'[Irq(c)].pc ELSE "run"
    BY <1>2 DEF OpenPoint
  <2> QED BY <1>1, <2>1, <2>2
<1>3. CASE c = stack'
  <2>1. cpu' = mem[irq_esp[c]]
    BY <1>3 DEF OpenMove
  <2>2. PointOf(c)' = IF cpu'.pc # "land" THEN cpu'.pc ELSE "run"
    BY <1>3 DEF OpenPoint
  <2>3. \/ irq_esp[c] = Irq(c) /\ mem[Irq(c)].pc \in OpenPC \cup {"loop"}
        \/ irq_esp[c] = Syn(c) /\ mem[Syn(c)].pc = "land" /\ mem[Irq(c)] = Gone
    <3>1. CASE c = Main
      BY <3>1 DEF OpenInv, OpenCpu
    <3>2. CASE c # Main
      BY <3>2, TasksAssumption
         DEF OpenInv, OpenTasks, OpenWaits, StartsWith, Ctx, Tasks, Main
    <3> QED BY <3>1, <3>2
  <2> QED BY <1>1, <2>1, <2>2, <2>3, ProgramCounters DEF OpenPC
<1> QED BY <1>2, <1>3

LEMMA CoopOthersStay ==
  ASSUME KnownPoints, KnownPoints',
         stack' = stack \/ cpu'.pc = IF stack' = Main THEN "poll_back" ELSE "run"
  PROVE  OthersStay
BY DEF KnownPoints, OthersStay

(* A step that leaves the other contexts where they are is one of          *)
(* Coroutines.                                                             *)
LEMMA MoveOfOne ==
  ASSUME OthersStay, stack \in Ctx, stack' \in Ctx,
         \A c \in Ctx : PointOf(c) \in Points, \A c \in Ctx : PointOf(c)' \in Points
  PROVE  C!CNext
<1> DEFINE p == [c \in Ctx |-> PointOf(c)]
<1>1. /\ p \in [Ctx -> Points]
      /\ p' = [c \in Ctx |-> PointOf(c)']
      /\ p'[stack] \in Points
  OBVIOUS
<1>2. p' = [p EXCEPT ![stack] = p'[stack]]
  <2>1. \A c \in Ctx : c # stack => p'[c] = p[c]
    BY <1>1 DEF OthersStay
  <2> HIDE DEF p
  <2> QED BY <1>1, <2>1
<1>3. C!Move(stack', p'[stack])
  BY <1>2 DEF C!Move
<1> QED BY <1>1, <1>3 DEF C!CNext, Points

(* Every context of the running kernel is at a point of its code.          *)
LEMMA PointsInBothShapes ==
  ASSUME GateInv PROVE stack \in Ctx /\ \A c \in Ctx : PointOf(c) \in Points
<1>1. CASE CoopInv
  <2>1. KnownPoints
    BY <1>1, PointsKnown DEF GateInv
  <2> QED BY <2>1 DEF KnownPoints, Points, MainPC, TaskPC
<1>2. CASE OpenInv
  BY <1>2, OpenPoints, OpenFacts DEF GateInv
<1> QED BY <1>1, <1>2 DEF GateInv

(***************************************************************************)
(* With both gates open the scheduler implements coroutines: the timer, a  *)
(* yield or a landing pad hands the CPU only to a context that continues   *)
(* exactly where it was left.                                              *)
(***************************************************************************)
THEOREM OpenImplementsCoroutines ==
  ASSUME GatesStayOpen PROVE DisciplinedSpec => ImplementsCoroutines
<1>1. Init => C!CInit
  BY GateInit, PointsInBothShapes DEF C!CInit, Points
<1>2. GateInv' => (stack \in Ctx /\ \A c \in Ctx : PointOf(c) \in Points)'
  BY PointsInBothShapes, PTL
<1>3. IInv' /\ CoopInv' /\ OldFrames' => KnownPoints'
  BY PointsKnown, PTL
<1>4. IInv' /\ OldFrames' /\ OpenInv' => (\A c \in Ctx : PointOf(c) = OpenPoint(c))'
  <2>1. IInv /\ OldFrames /\ OpenInv => \A c \in Ctx : PointOf(c) = OpenPoint(c)
    BY OpenPoints
  <2> QED BY <2>1, PTL
<1>5. GateInv /\ GateInv' /\ [DisciplinedNext]_vars => [C!CNext]_C!cvars
  <2> SUFFICES ASSUME GateInv, GateInv', [DisciplinedNext]_vars
               PROVE  [C!CNext]_C!cvars
    OBVIOUS
  <2>1. CASE UNCHANGED hw
    BY <2>1 DEF hw, C!cvars, PointOf, Waiting, Intact
  <2>2. CASE OthersStay
    <3>1. /\ stack \in Ctx /\ \A c \in Ctx : PointOf(c) \in Points
          /\ stack' \in Ctx /\ \A c \in Ctx : PointOf(c)' \in Points
      BY <1>2, PointsInBothShapes
    <3> QED BY <2>2, <3>1, MoveOfOne
  <2>3. CASE CoopInv /\ ~UNCHANGED hw
    <3>1. CoopInv'
      BY <2>3, CoopOrOpening DEF GateInv
    <3>2. KnownPoints /\ KnownPoints'
      BY <1>3, <2>3, <3>1, PointsKnown DEF GateInv
    <3>3. \/ stack' = stack
          \/ cpu'.pc = IF stack' = Main THEN "poll_back" ELSE "run"
      BY <2>3, SwitchesOnly, DisciplinedIsNext DEF GateInv
    <3> QED BY <2>2, <3>2, <3>3, CoopOthersStay
  <2>4. CASE OpenInv /\ ~UNCHANGED hw
    <3>1. OpenInv' /\ OpenMove
      BY <2>4, OpenNext DEF GateInv
    <3>2. stack' \in Ctx /\ \A c \in Ctx : PointOf(c)' = OpenPoint(c)'
      BY <1>2, <1>4, <3>1 DEF GateInv
    <3> QED BY <2>2, <2>4, <3>1, <3>2, OpenOthersStay
  <2> QED BY <2>1, <2>3, <2>4 DEF GateInv
<1> QED BY <1>1, <1>5, GateHolds, PTL
        DEF DisciplinedSpec, ImplementsCoroutines, C!CSpec

=============================================================================
