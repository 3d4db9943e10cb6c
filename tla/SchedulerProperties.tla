------------------------ MODULE SchedulerProperties ------------------------
(***************************************************************************)
(* What the scheduler of module Scheduler should guarantee.                *)
(***************************************************************************)
EXTENDS Scheduler

(* The slots and the machine have their types: every index the scheduler   *)
(* computes stays inside the task table, and every frame it files or loads *)
(* belongs to a context that exists.                                       *)
TypeOK ==
    /\ task_count \in 0..(NTasks + 1)
    /\ current_task \in -1..NTasks
    /\ main_task_id \in {-1, Main}
    /\ in_task \in BOOLEAN
    /\ ticks_in_quantum \in 0..(Quantum - 1)
    /\ switch_pending \in BOOLEAN
    /\ irq_candidate_ready \in BOOLEAN
    /\ preemptive_enabled \in BOOLEAN
    /\ main_switch_enabled \in BOOLEAN
    /\ main_paused_via_irq \in BOOLEAN
    /\ armed \in BOOLEAN
    /\ esp \in [Ctx -> Addr]
    /\ irq_esp \in [Ctx -> Addr]
    /\ round_trips \in Int
    /\ stack \in Ctx
    /\ cpu \in Frame
    /\ mem \in [Addr -> Frame]

(***************************************************************************)
(* No switch ever loads an ESP whose frame has been popped already: the    *)
(* failure of PROGRESS.md "Root Cause" (a consumed frame restored from     *)
(* stale stack contents) cannot recur.                                     *)
(***************************************************************************)
NoStaleResume == cpu.pc # "crashed"

(***************************************************************************)
(* Suspended work is never lost: whenever the CPU is elsewhere, the slot   *)
(* each kind of switch would use for a context leads to an intact frame.   *)
(* A task that has ever an address filed can be resumed through it, the    *)
(* paused desktop through the frame it left.                               *)
(***************************************************************************)
LeadsBack(a) == \/ a.kind = "syn" /\ Intact(mem[a].to)
                \/ a.kind = "irq" /\ Intact(a)

Resumable ==
    /\ \A t \in 0..(task_count - 1) :
          (t # stack /\ irq_esp[t] # Null)
              => (irq_esp[t].of = t /\ LeadsBack(irq_esp[t]))
    /\ (main_task_id >= 0 /\ stack # Main) =>
          IF main_paused_via_irq THEN irq_esp[Main] = Irq(Main)
                                 ELSE esp[Main] = Coop(Main) /\ Intact(Coop(Main))

(***************************************************************************)
(* What the interrupt handler believes is true: outside the stretch of     *)
(* scheduler_poll that sets in_task before it has left the desktop's stack *)
(* and clears it after it is back, in_task says whether a task's stack is  *)
(* in use, and then current_task says whose.  Filing an interrupted frame  *)
(* under the right slot depends on it.                                     *)
(***************************************************************************)
InPollWindow == stack = Main /\ cpu.pc \in {"poll_in", "poll_saved", "poll_back"}

BeliefIsTrue == ~InPollWindow => /\ in_task = (stack # Main)
                                 /\ in_task => current_task = stack

(***************************************************************************)
(* main_paused_via_irq says exactly that the desktop's slot holds an       *)
(* interrupt frame, so scheduler_yield chooses its path correctly.         *)
(***************************************************************************)
PausedFlagExact ==
    main_paused_via_irq = (main_task_id >= 0 /\ irq_esp[Main] # Null)

(***************************************************************************)
(* A launch is never suspended in ring 3.  usermode_run_context keeps the  *)
(* kernel ESP in one global and its interrupts all use the one esp0 of the *)
(* TSS, so a run must end before another starts; the launcher relies on    *)
(* its lowered gate for that, whatever the operator types.  (The runs the  *)
(* terminal starts on the desktop's own stack lower no gate; they are not  *)
(* part of module Scheduler.)                                              *)
(***************************************************************************)
LaunchNeverSuspended == \A a \in Addr : mem[a].pc # "user"

(***************************************************************************)
(* The round-trip counters stay in lockstep (PROGRESS.md: M->T and Y->M    *)
(* "advancing in lockstep"): every capture of the desktop is undone by     *)
(* exactly one return to it, through a yield or through the picker.        *)
(***************************************************************************)
Lockstep == round_trips = IF main_paused_via_irq THEN 1 ELSE 0

(***************************************************************************)
(* Refinement: the scheduler implements coroutines.  A suspended context's *)
(* point is the one in the innermost frame its stack holds; the landing    *)
(* pad of a synthetic frame stands for the point it leads to.              *)
(***************************************************************************)
Waiting(c) == IF Intact(Irq(c)) THEN mem[Irq(c)].pc
              ELSE IF Intact(Coop(c)) THEN mem[Coop(c)].pc ELSE "run"

PointOf(c) == IF c # stack \/ cpu.pc = "land" THEN Waiting(c) ELSE cpu.pc

C == INSTANCE Coroutines WITH Threads <- Ctx, Points <- MainPC \cup TaskPC,
                              running <- stack, point <- [c \in Ctx |-> PointOf(c)]

ImplementsCoroutines == C!CSpec

(***************************************************************************)
(* Liveness.  Every kernel task keeps getting the CPU (PROGRESS.md:        *)
(* "round-robin switching for kernel tasks").                              *)
(***************************************************************************)
EveryTaskRuns == \A t \in Tasks : []<>(stack = t /\ cpu.pc = "run")

(* The desktop always gets the CPU back from the tasks, also when the      *)
(* timer took it away in the middle of its loop.                           *)
DesktopReturns == []<>(stack = Main /\ cpu.pc = "loop")

(* A request raised by the quantum is served: it does not stay pending.    *)
RequestServed == switch_pending ~> ~switch_pending
=============================================================================
