---------------------------- MODULE Scheduler ----------------------------
(***************************************************************************)
(* The MinervaOS kernel scheduler: kernel/scheduler.c, the context-switch  *)
(* routines of kernel/switch.asm, the timer half of the interrupt path     *)
(* (interrupts/isr.asm, interrupts.c, pit.c), the boot sequence and the    *)
(* desktop loop of kernel.c as far as they drive it, and the ring-3        *)
(* launcher task of kernel/user_scheduler.c.                               *)
(*                                                                         *)
(* One CPU executes one stack at a time: the stack of a kernel task, or    *)
(* the stack of the desktop loop (first the boot stack, then main_stack).  *)
(* Where another stack would continue is only known from the frames it     *)
(* holds in memory, so the model keeps                                     *)
(*                                                                         *)
(*   stack  the context whose stack ESP points into;                       *)
(*   cpu    what a frame saves: the program counter and the registers a    *)
(*          suspended call of the scheduler still needs;                   *)
(*   mem    the frames, by address.  A frame is intact from the moment it  *)
(*          is pushed until ESP moves back over it.                        *)
(*                                                                         *)
(* Loading ESP from an address whose frame is no longer intact is          *)
(* undefined behaviour in the code (it pops whatever the stack holds by    *)
(* then); the model stops there, with cpu.pc = "crashed".                  *)
(***************************************************************************)
EXTENDS Integers, FiniteSets

CONSTANTS
    NTasks,        \* kernel tasks created at boot (task-a, task-b, user-sched)
    MaxTasks,      \* SCHED_MAX_TASKS
    Quantum,       \* timer ticks per quantum
    Launchers,     \* tasks whose entry is user_scheduler_task
    PreemptCmds,   \* values the operator may give the preempt gate
    MainswCmds     \* values the operator may give the mainsw gate

ASSUME TasksAssumption == /\ NTasks \in Nat \ {0}
                          /\ MaxTasks \in Nat
                          /\ NTasks < MaxTasks
ASSUME QuantumAssumption == Quantum \in Nat \ {0}
ASSUME CommandsAssumption == /\ Launchers \subseteq 0..(NTasks - 1)
                             /\ PreemptCmds \subseteq BOOLEAN
                             /\ MainswCmds \subseteq BOOLEAN

Tasks == 0..(NTasks - 1)
Main  == NTasks                 \* the slot the desktop loop will register
Ctx   == 0..NTasks

-----------------------------------------------------------------------------
(***************************************************************************)
(* Addresses.  "first" is the frame make_initial_esp builds at the top of  *)
(* a task's stack, "coop" the one the switch routines push in              *)
(* scheduler_yield or scheduler_poll (always at the same depth, hence one  *)
(* address per stack), "irq" the frame an interrupt pushes, and "syn" the  *)
(* synthetic frame at the top of irq_stacks[id], which popping does not    *)
(* destroy.  Null is the zero of an empty ESP slot.                        *)
(***************************************************************************)
Addr     == [kind : {"null", "first", "coop", "irq", "syn"}, of : Ctx]
Null     == [kind |-> "null",  of |-> 0]
First(c) == [kind |-> "first", of |-> c]
Coop(c)  == [kind |-> "coop",  of |-> c]
Irq(c)   == [kind |-> "irq",   of |-> c]
Syn(c)   == [kind |-> "syn",   of |-> c]

MainPC == {"create", "boot", "loop", "poll_test", "poll_set", "poll_in",
           "poll_saved", "poll_back"}
TaskPC == {"land", "run", "launch", "user", "done",
           "yield_iret", "yield_coop", "yield_saved"}
PC     == MainPC \cup TaskPC \cup {"crashed", "gone"}

(***************************************************************************)
(* A frame: where to continue; the slot being switched away from and the   *)
(* ESP being switched to, once scheduler_poll or scheduler_yield has read  *)
(* them; and the launcher's local was_preemptive.                          *)
(***************************************************************************)
Frame == [pc : PC, id : Ctx, to : Addr, was : BOOLEAN]
At(p) == [pc |-> p, id |-> 0, to |-> Null, was |-> FALSE]
Gone  == At("gone")             \* nothing intact at this address

VARIABLES
    task_count, current_task, main_task_id,
    in_task,              \* belief: a kernel task, not the desktop, is running
    ticks_in_quantum,
    switch_pending, irq_candidate_ready,
    preemptive_enabled, main_switch_enabled,
    main_paused_via_irq,
    esp, irq_esp,         \* tasks[id].context.esp and .irq_esp
    round_trips,          \* main_to_task - irq_to_main - yield_to_main
    armed,                \* user_scheduler.c: a user launch is requested
    stack, cpu, mem

slots == <<task_count, main_task_id, armed>>
gates == <<preemptive_enabled, main_switch_enabled>>
clock == <<ticks_in_quantum, switch_pending, irq_candidate_ready>>
view  == <<current_task, in_task, main_paused_via_irq, round_trips>>
ctxs  == <<esp, irq_esp>>
hw    == <<stack, cpu, mem>>
vars  == <<slots, gates, clock, view, ctxs, hw>>

Intact(a)   == mem[a] # Gone
Goto(p)     == cpu' = [cpu EXCEPT !.pc = p]
OnMain(p)   == stack = Main /\ cpu.pc = p
OnTask(p)   == stack \in Tasks /\ cpu.pc = p

(***************************************************************************)
(* The frames that popping the one at address a destroys: a frame the      *)
(* stack grew past (an interrupt frame below a cooperative one) goes with  *)
(* it.                                                                     *)
(***************************************************************************)
PoppedWith(a) == CASE a.kind = "syn" -> {}
                   [] a.kind = "irq" -> {a}
                   [] OTHER -> {First(a.of), Coop(a.of), Irq(a.of)}

(* ESP := a, pop the frame found there and continue, starting from memory m. *)
ResumeFrom(m, a) ==
    IF m[a] # Gone
    THEN /\ stack' = a.of
         /\ cpu' = m[a]
         /\ mem' = [b \in Addr |-> IF b \in PoppedWith(a) THEN Gone ELSE m[b]]
    ELSE /\ cpu' = At("crashed")
         /\ mem' = m
         /\ UNCHANGED stack

-----------------------------------------------------------------------------
(* How far round the table id t is from slot c, as the search loops walk it. *)
Distance(c, t) == IF t > c THEN t - c ELSE t - c + task_count

(* Mutant of Nearest: the search always starts at slot 0. *)
LowestOf(S) == CHOOSE t \in S : \A u \in S : t <= u

Nearest(S) == CHOOSE t \in S : \A u \in S : Distance(current_task, t)
                                            <= Distance(current_task, u)

IrqReady  == {t \in 0..(task_count - 1) : t # current_task /\ irq_esp[t] # Null}
HasEntry  == {t \in 0..(task_count - 1) : t # main_task_id}

-----------------------------------------------------------------------------
Init ==
    /\ task_count = 0
    /\ current_task = -1
    /\ main_task_id = -1
    /\ in_task = FALSE
    /\ ticks_in_quantum = 0
    /\ switch_pending = FALSE
    /\ irq_candidate_ready = FALSE
    /\ preemptive_enabled = FALSE
    /\ main_switch_enabled = FALSE
    /\ main_paused_via_irq = FALSE
    /\ esp = [c \in Ctx |-> Null]
    /\ irq_esp = [c \in Ctx |-> Null]
    /\ round_trips = 0
    /\ armed = FALSE
    /\ stack = Main
    /\ cpu = At("create")
    /\ mem = [a \in Addr |-> Gone]

(***************************************************************************)
(* Boot.  kernel_main creates the kernel tasks with interrupts off, turns  *)
(* them on, and only much later registers the desktop loop as a slot and   *)
(* moves it to its own stack.                                              *)
(***************************************************************************)
CreateTask ==
    LET id == task_count IN
    /\ OnMain("create") /\ id < NTasks /\ id < MaxTasks
    /\ esp' = [esp EXCEPT ![id] = First(id)]
    /\ irq_esp' = [irq_esp EXCEPT ![id] = Syn(id)]
    /\ mem' = [mem EXCEPT ![First(id)] = At("run"),
                          ![Syn(id)] = [At("land") EXCEPT !.to = First(id)]]
    /\ task_count' = id + 1
    /\ current_task' = IF current_task < 0 THEN 0 ELSE current_task
    /\ UNCHANGED <<main_task_id, armed, gates, clock, in_task,
                   main_paused_via_irq, round_trips, stack, cpu>>

EnableInterrupts ==
    /\ OnMain("create") /\ task_count = NTasks
    /\ Goto("boot")
    /\ UNCHANGED <<slots, gates, clock, view, ctxs, stack, mem>>

RegisterMain ==
    /\ OnMain("boot") /\ task_count < MaxTasks /\ main_task_id < 0
    /\ esp' = [esp EXCEPT ![task_count] = Null]
    /\ irq_esp' = [irq_esp EXCEPT ![task_count] = Null]
    /\ main_task_id' = task_count
    /\ task_count' = task_count + 1
    /\ cpu' = At("loop")
    /\ UNCHANGED <<armed, gates, clock, view, stack, mem>>

-----------------------------------------------------------------------------
(***************************************************************************)
(* The timer interrupt: pit_tick, the decision of                          *)
(* scheduler_on_timer_interrupt and the epilogue of isr_common_stub run    *)
(* with interrupts off, so the whole handler is one step.                  *)
(***************************************************************************)
Masked == cpu.pc \in {"create", "crashed"}

(* Mutant of Expires: the quantum is compared with > instead of >=. *)
ExpiresLate == ticks_in_quantum + 1 > Quantum

Expires  == ticks_in_quantum + 1 >= Quantum
Wanted   == (switch_pending \/ Expires) /\ (irq_candidate_ready \/ Expires)
             /\ IrqReady # {}
NextIrq  == Nearest(IrqReady)

PitTick == ticks_in_quantum' = IF Expires THEN 0 ELSE ticks_in_quantum + 1

(* Where the interrupted stack's frame lies.  On an irq stack it falls on   *)
(* the synthetic frame itself, and rewrites it unchanged.                   *)
Interrupted == IF cpu.pc = "land" THEN Syn(stack) ELSE Irq(stack)
Pushed      == [mem EXCEPT ![Interrupted] = cpu]

(* No request, no candidate, or no slot to hand the CPU to. *)
TickIdle ==
    /\ ~Masked /\ ~Wanted
    /\ PitTick
    /\ switch_pending' = (switch_pending \/ Expires)
    /\ irq_candidate_ready' = (irq_candidate_ready \/ Expires)
    /\ UNCHANGED <<slots, gates, view, ctxs, hw>>

(* The desktop may be interrupted for a task only through both gates, and  *)
(* only once it has a slot; a task, through the preempt gate alone.        *)
Allowed == /\ preemptive_enabled
           /\ IF in_task THEN current_task >= 0
                         ELSE main_switch_enabled /\ main_task_id >= 0

(* A gate is closed: the candidate is spent, the request stays pending. *)
TickRefused ==
    /\ ~Masked /\ Wanted /\ ~Allowed
    /\ PitTick
    /\ switch_pending' = TRUE
    /\ irq_candidate_ready' = FALSE
    /\ UNCHANGED <<slots, gates, view, ctxs, hw>>

TickGranted ==
    /\ ~Masked /\ Wanted /\ Allowed
    /\ PitTick
    /\ switch_pending' = FALSE
    /\ irq_candidate_ready' = FALSE

(* Mutant of SwitchFromMain: the capture of the desktop is not counted. *)
SwitchFromMainUncounted ==
    /\ TickGranted /\ ~in_task
    /\ irq_esp' = [irq_esp EXCEPT ![main_task_id] = Interrupted]
    /\ main_paused_via_irq' = TRUE
    /\ current_task' = NextIrq
    /\ in_task' = TRUE
    /\ ResumeFrom(Pushed, irq_esp'[NextIrq])
    /\ UNCHANGED <<slots, gates, esp, round_trips>>

(* Mutant of SwitchFromMain: main_paused_via_irq is not raised. *)
SwitchFromMainUnflagged ==
    /\ TickGranted /\ ~in_task
    /\ irq_esp' = [irq_esp EXCEPT ![main_task_id] = Interrupted]
    /\ current_task' = NextIrq
    /\ in_task' = TRUE
    /\ round_trips' = round_trips + 1
    /\ ResumeFrom(Pushed, irq_esp'[NextIrq])
    /\ UNCHANGED <<slots, gates, esp, main_paused_via_irq>>

(* in_task is clear: the interrupted frame is filed as the desktop's. *)
SwitchFromMain ==
    /\ TickGranted /\ ~in_task
    /\ irq_esp' = [irq_esp EXCEPT ![main_task_id] = Interrupted]
    /\ main_paused_via_irq' = TRUE
    /\ current_task' = NextIrq
    /\ in_task' = TRUE
    /\ round_trips' = round_trips + 1
    /\ ResumeFrom(Pushed, irq_esp'[NextIrq])
    /\ UNCHANGED <<slots, gates, esp>>

(* in_task is set: the interrupted frame is filed under current_task. *)
SwitchFromTask ==
    /\ TickGranted /\ in_task
    /\ LET back == NextIrq = main_task_id IN
       /\ irq_esp' = [c \in Ctx |->
                         CASE c = current_task    -> Interrupted
                           [] back /\ c = NextIrq -> Null
                           [] OTHER               -> irq_esp[c]]
       /\ main_paused_via_irq' = (main_paused_via_irq /\ ~back)
       /\ in_task' = ~back
       /\ round_trips' = IF back THEN round_trips - 1 ELSE round_trips
    /\ current_task' = NextIrq
    /\ ResumeFrom(Pushed, irq_esp[NextIrq])
    /\ UNCHANGED <<slots, gates, esp>>

Tick == TickIdle \/ TickRefused \/ SwitchFromMain \/ SwitchFromTask

-----------------------------------------------------------------------------
(***************************************************************************)
(* The desktop loop: scheduler_poll, one statement per step, and the       *)
(* terminal commands that reach the scheduler.                             *)
(***************************************************************************)
PollTest ==
    /\ OnMain("loop") /\ switch_pending
    /\ Goto("poll_test")
    /\ UNCHANGED <<slots, gates, clock, view, ctxs, stack, mem>>

(* Mutant of PollPick: the request is not taken back. *)
PollPickKeepingRequest ==
    /\ OnMain("poll_test")
    /\ current_task' = Nearest(HasEntry)
    /\ cpu' = [At("poll_set") EXCEPT !.id = Nearest(HasEntry)]
    /\ UNCHANGED <<slots, gates, clock, in_task, main_paused_via_irq,
                   round_trips, ctxs, stack, mem>>

PollPick ==
    /\ OnMain("poll_test")
    /\ switch_pending' = FALSE
    /\ current_task' = Nearest(HasEntry)
    /\ cpu' = [At("poll_set") EXCEPT !.id = Nearest(HasEntry)]
    /\ UNCHANGED <<slots, gates, ticks_in_quantum, irq_candidate_ready,
                   in_task, main_paused_via_irq, round_trips, ctxs, stack, mem>>

PollEnter ==
    /\ OnMain("poll_set")
    /\ in_task' = TRUE
    /\ cpu' = [At("poll_in") EXCEPT !.to = esp[cpu.id]]
    /\ UNCHANGED <<slots, gates, clock, current_task, main_paused_via_irq,
                   round_trips, ctxs, stack, mem>>

(* Mutant of PollSave: the desktop's ESP is filed under the task's slot. *)
PollSaveMisfiled ==
    /\ OnMain("poll_in")
    /\ esp' = [esp EXCEPT ![current_task] = Coop(stack)]
    /\ mem' = [mem EXCEPT ![Coop(stack)] = At("poll_back")]
    /\ Goto("poll_saved")
    /\ UNCHANGED <<slots, gates, clock, view, irq_esp, stack>>

PollSave ==
    /\ OnMain("poll_in")
    /\ esp' = [esp EXCEPT ![main_task_id] = Coop(stack)]
    /\ mem' = [mem EXCEPT ![Coop(stack)] = At("poll_back")]
    /\ Goto("poll_saved")
    /\ UNCHANGED <<slots, gates, clock, view, irq_esp, stack>>

PollSwap ==
    /\ OnMain("poll_saved")
    /\ ResumeFrom(mem, cpu.to)
    /\ UNCHANGED <<slots, gates, clock, view, ctxs>>

(* Mutant of PollReturn: in_task is not cleared. *)
PollReturnInTask ==
    /\ OnMain("poll_back")
    /\ cpu' = At("loop")
    /\ UNCHANGED <<slots, gates, clock, view, ctxs, stack, mem>>

PollReturn ==
    /\ OnMain("poll_back")
    /\ in_task' = FALSE
    /\ cpu' = At("loop")
    /\ UNCHANGED <<slots, gates, clock, current_task, main_paused_via_irq,
                   round_trips, ctxs, stack, mem>>

PreemptCommand(v) ==
    /\ OnMain("loop")
    /\ preemptive_enabled' = v
    /\ UNCHANGED <<slots, main_switch_enabled, clock, view, ctxs, hw>>

MainswCommand(v) ==
    /\ OnMain("loop")
    /\ main_switch_enabled' = v
    /\ UNCHANGED <<slots, preemptive_enabled, clock, view, ctxs, hw>>

UserschedCommand ==
    /\ OnMain("loop") /\ Launchers # {}
    /\ armed' \in BOOLEAN       \* FALSE: no READY user process
    /\ UNCHANGED <<task_count, main_task_id, gates, clock, view, ctxs, hw>>

-----------------------------------------------------------------------------
(***************************************************************************)
(* A kernel task: scheduler_task_trampoline calls the entry of             *)
(* current_task, then scheduler_yield, for ever.                           *)
(***************************************************************************)
(* The entry returns without a launch: a demo task, no entry, nothing      *)
(* armed, or armed with no READY process left.                             *)
RunEntry ==
    /\ OnTask("run")
    /\ Goto("done")
    /\ armed' = (armed /\ current_task \notin Launchers)
    /\ UNCHANGED <<task_count, main_task_id, gates, clock, view, ctxs, stack, mem>>

(* user_scheduler_task: was_preemptive is read, then the gate is lowered   *)
(* around the ring-3 run and put back.                                     *)
LaunchBegin ==
    /\ OnTask("run") /\ current_task \in Launchers /\ armed
    /\ armed' = FALSE
    /\ cpu' = [At("launch") EXCEPT !.was = preemptive_enabled]
    /\ UNCHANGED <<task_count, main_task_id, gates, clock, view, ctxs, stack, mem>>

(* Mutant of LaunchLower: the preempt gate stays as it is. *)
LaunchUngated ==
    /\ OnTask("launch")
    /\ Goto("user")
    /\ UNCHANGED <<slots, gates, clock, view, ctxs, stack, mem>>

LaunchLower ==
    /\ OnTask("launch")
    /\ preemptive_enabled' = FALSE
    /\ Goto("user")
    /\ UNCHANGED <<slots, main_switch_enabled, clock, view, ctxs, stack, mem>>

LaunchEnd ==
    /\ OnTask("user")
    /\ preemptive_enabled' = cpu.was
    /\ cpu' = At("done")
    /\ UNCHANGED <<slots, main_switch_enabled, clock, view, ctxs, stack, mem>>

(* Mutant of YieldPath: always by the cooperative ESP. *)
YieldPathCoopOnly ==
    IF ~in_task \/ current_task < 0 \/ main_task_id < 0
    THEN At("run")
    ELSE [At("yield_coop") EXCEPT !.id = current_task, !.to = esp[main_task_id]]

(* Mutant of YieldPath: only to a desktop that was paused by an interrupt. *)
YieldPathIretOnly ==
    IF in_task /\ current_task >= 0 /\ main_paused_via_irq
    THEN At("yield_iret") ELSE At("run")

(* scheduler_yield picks its path, with interrupts still on. *)
YieldPath ==
    LET paused == /\ main_paused_via_irq
                  /\ main_task_id >= 0
                  /\ irq_esp[main_task_id] # Null
    IN CASE ~in_task \/ current_task < 0 -> At("run")
         [] OTHER ->
            CASE paused           -> At("yield_iret")
              [] main_task_id < 0 -> At("run")
              [] OTHER            -> [At("yield_coop") EXCEPT !.id = current_task,
                                                              !.to = esp[main_task_id]]

Yield ==
    /\ OnTask("done")
    /\ cpu' = YieldPath
    /\ UNCHANGED <<slots, gates, clock, view, ctxs, stack, mem>>

(* Mutant of SavedFor: the synthetic frame keeps its old EAX, as after the *)
(* plain scheduler_context_switch.                                         *)
SavedForPlain(id) == [mem EXCEPT ![Coop(stack)] = At("run")]

(* What the "update_irq" switch routines store for slot id before they     *)
(* leave: its cooperative ESP, and the EAX of its synthetic frame.         *)
SavedFor(id) == [mem EXCEPT ![Coop(stack)] = At("run"),
                            ![Syn(id)].to = Coop(stack)]

YieldSave ==
    /\ OnTask("yield_coop")
    /\ esp' = [esp EXCEPT ![cpu.id] = Coop(stack)]
    /\ mem' = SavedFor(cpu.id)
    /\ Goto("yield_saved")
    /\ UNCHANGED <<slots, gates, clock, view, irq_esp, stack>>

YieldSwap ==
    /\ OnTask("yield_saved")
    /\ ResumeFrom(mem, cpu.to)
    /\ UNCHANGED <<slots, gates, clock, view, ctxs>>

(* From cli to iretd: one step.  Everything is read again after the cli. *)
YieldIret ==
    /\ OnTask("yield_iret")
    /\ irq_esp' = [irq_esp EXCEPT ![current_task] = Syn(current_task),
                                  ![main_task_id] = Null]
    /\ main_paused_via_irq' = FALSE
    /\ current_task' = main_task_id
    /\ in_task' = FALSE
    /\ round_trips' = round_trips - 1
    /\ esp' = [esp EXCEPT ![current_task] = Coop(stack)]
    /\ ResumeFrom(SavedFor(current_task), irq_esp[main_task_id])
    /\ UNCHANGED <<slots, gates, clock>>

(* scheduler_resume_from_saved_esp: mov esp, eax and return through it. *)
Land ==
    /\ OnTask("land")
    /\ ResumeFrom(mem, cpu.to)
    /\ UNCHANGED <<slots, gates, clock, view, ctxs>>

-----------------------------------------------------------------------------
Boot == CreateTask \/ EnableInterrupts \/ RegisterMain

Desktop == PollTest \/ PollPick \/ PollEnter \/ PollSave \/ PollSwap \/ PollReturn

Task == \/ RunEntry \/ LaunchBegin \/ LaunchLower \/ LaunchEnd
        \/ Yield \/ YieldSave \/ YieldSwap \/ YieldIret \/ Land

Operator == \/ \E v \in PreemptCmds : PreemptCommand(v)
            \/ \E v \in MainswCmds : MainswCommand(v)
            \/ UserschedCommand

Execute == Boot \/ Desktop \/ Task

Next == Execute \/ Tick \/ Operator

Spec == Init /\ [][Next]_vars

(***************************************************************************)
(* The CPU always executes its next instruction, and the PIT keeps         *)
(* ticking; nothing is assumed about the operator, nor about where in the  *)
(* code a tick falls.                                                      *)
(***************************************************************************)
FairSpec == Spec /\ WF_vars(Execute) /\ WF_vars(Tick)

(***************************************************************************)
(* A disciplined operator changes a gate only while no request is parked,  *)
(* and has the mainsw gate open whenever the preempt gate is.              *)
(***************************************************************************)
DisciplinedOperator ==
    \/ /\ ~switch_pending
       /\ \E v \in PreemptCmds : (v => main_switch_enabled) /\ PreemptCommand(v)
    \/ /\ ~switch_pending
       /\ \E v \in MainswCmds : (preemptive_enabled => v) /\ MainswCommand(v)
    \/ UserschedCommand

DisciplinedNext == Execute \/ Tick \/ DisciplinedOperator

DisciplinedSpec == Init /\ [][DisciplinedNext]_vars
FairDisciplinedSpec == DisciplinedSpec /\ WF_vars(Execute) /\ WF_vars(Tick)
=============================================================================
