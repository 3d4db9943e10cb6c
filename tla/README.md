# MinervaOS: TLA+ models, model checking and proofs

MinervaOS is a 32-bit x86 hobby operating system: a boot loader, a kernel with a
small scheduler and ring-3 launches, drivers (ATA, e1000, PS/2, VGA), a FAT32 file
system, a TCP/IP and TLS 1.2 client, and a windowed desktop with applications. This
directory models the parts whose correctness depends on the order in which things
happen, and the curve arithmetic its TLS client trusts.  Line references are to `src/`.

`PROJECT.json` is the index: components, runs, the source lines behind every
definition, the hazards and the property that watches each, the disagreements found
between documentation and code, and the theorems.

## 1. Inventory

| Component | State it keeps | Operations | Hard behaviour | What makes it correct |
|---|---|---|---|---|
| **Kernel scheduler** `kernel/scheduler.c`, `switch.asm` | task table (entry, `context.esp`, `irq_esp`), `current_task`, `in_task`, `main_task_id`, quantum counter, `switch_pending`, `irq_candidate_ready`, two gates, `main_paused_via_irq`; one stack and one landing stack per task | create task, register main, timer decision, poll, yield, gate commands | the timer interrupts between any two instructions; two switching mechanisms, cooperative and interrupt-driven, share slots and stacks | no frame is popped twice; suspended work is resumed where it stopped; beliefs match the stack in use; nobody starves |
| **User launcher** `kernel/user_scheduler.c` | `armed` flag, a local copy of the gate | arm, run | lowers a gate, runs ring 3, puts the gate back; the timer and the operator act in between | a ring-3 run started by it is not preempted |
| **Process table, ring 3, system calls** `kernel/process.c`, `usermode.*`, `gdt.*`, `interrupts.c` | process records, `saved_kernel_esp`, one TSS stack, what the last system call and fault noted | record, run, return by syscall or by fault, reset | one global and one stack for all runs; commands while a launch is under way | a run comes home to the stack it left; the table tells what happened |
| **Interrupt entry, timer** `interrupts/*` | the frame on the interrupted stack | `isr_common_stub`, `pit_tick` | ESP may be exchanged before `iretd` | filed under the right slot |
| **Boot, desktop loop** `kernel.c`, `kernel/main_stack.asm` | boot stage; the applications' windows | create tasks, `sti`, register main, loop | ticks arrive before main has a slot | no switch to or from an unregistered main |
| **FAT32** `fs/fat32.c` | mounted BPB; on disk: FAT copies, root directory, data | create, write (create / truncate / append / excl), truncate, delete, rename, read, list | a call is several sector writes, each may fail, be stored and reported failed, or be the last before power-off | clusters have one owner; files stay readable; a name occurs once; success means done; other files untouched |
| **ATA** `drivers/ata.c` | none | read/write sector, PIO | time-outs, errors after data was taken | a write is flushed before the next |
| **Network stack** `drivers/net.c` | gateway's MAC, last DNS answer, the target of the connection, TLS session: transcript, keys, records in pieces | HTTP get, HTTPS get, TCP connect; inside them ARP, DNS, connect, request, handshake | lost, late, doubled and overtaken frames; spin-count time-outs; records split over segments; the end of a call is not the end of its connection | what is returned is the page of the server asked; what counts as sent was received; every call returns |
| **e1000** `drivers/e1000.c` | RX and TX rings | send, receive | the card owns descriptors concurrently; the transmit wait gives up | a frame is seen once; a full ring is survived |
| **Cryptography** `p256.c`, `sha256.c`, AES-GCM in `net.c` | none | limb and field arithmetic, scalars, points; ECDSA, ECDH | carries, borrows, one value too many in a range, special cases of the point formulas, results written over operands | the textbook group; a signature is accepted exactly when its key's owner could make it |
| **Desktop, windows** `desktop.c`, `window.c`, `kernel.c` | window list, focus, minimized flags, drag pointer, the button last seen | process, redraw, open, close, raise, minimize, drag | windows are pointers into a heap that gives out an address again; handlers must say when to redraw | list, pointers, focus and heap agree; the screen shows what there is |
| **Keyboard, mouse** `keyboard.c`, `mouse.c` | key ring; packet assembly, button | interrupt handlers; has key, read key | the interrupt fills what the loop drains | keys in order, each once |
| **Memory** `memory/*` | best-fit block list; page bitmap | `kmalloc`, `kfree`, page alloc/free | sequences of split and join | blocks fill the heap and do not overlap |
| **Terminal, registry, packages** `drivers/term_window.c` | line buffer, receipts | commands | commands call every other component | what those components promise |
| **Applications** browser, editor, viewers | page, history, text | event handlers | sequences of file and network calls | what is saved is what was edited |
| **Display, sound, clock, serial; build scripts** | device registers | output | none | none modelled |

How they interact: there is one flow of control per stack. Interrupt handlers run with
interrupts off on the interrupted stack; they set flags and rings that the desktop
loop drains, and only IRQ0 may exchange ESP. The desktop loop (`kernel.c`:142-174)
calls, in order, `scheduler_poll`, the window code and, through typed commands and
clicks, the file system, the network and the ring-3 runs, and waits for each. Kernel tasks
call only `scheduler_yield` and their counters; the launcher task also enters ring 3. Hence
the file system and the network stack have one caller, and what makes them hard is the
disk and the network; the scheduler, ring 3 and the input rings are where interleaving
matters.

## 2. Plan

| # | Module(s) | Content | State |
|---|---|---|---|
| 1 | `Scheduler`, `SchedulerProperties`, `Coroutines` | switching, gates, launcher; abstract coroutines | done |
| 2 | `SchedulerProofs` | types and launches; the shipped regime and the one with both gates open, completely, with their refinements | done |
| 3 | `Fat32`, `Fat32Properties`, `FileStore` | sector-level file operations; abstract store | done |
| 4 | `TlsRecords`, `Internet`, `Net`, `NetProperties` | the network calls over a faulty network and card | done |
| 5 | `P256`, `Ecdsa`, `EcdsaProperties` | limb arithmetic, points, signatures, agreement | done |
| 6 | `Windows`, `Desktop`, `DeskView`, `DesktopProperties` | windows on the heap, clicks, key ring; abstract view | done |
| 7 | `Usermode`, `UsermodeProperties`, `UsermodeProofs` | process table, ring 3, launcher; its three invariants proved | done |
| 8 | `Fat32Proofs`, `Fat32ContentProofs` | every property of the run `fat`, completely, with the refinement | done |
| 9 | `DesktopProofs` | windows, heap, screen and key ring, completely, with the refinement | done |
| 10 | `NetReceiveProofs`, `NetProofs`, `NetPageProofs` | types, `AckedIsTrue`, `RightOrder`, `SecurePageIsOwn`, `GenuinePage`, proved | done |

Which module composes which: `Net` = `TlsRecords` (parser) + `Internet` (name server and
servers) + the card's rings; `Ecdsa` = `P256` + the two uses the TLS client makes of it;
`Desktop` = `Windows` (list on the heap) + the interrupts + the main loop. `Scheduler` and
`Usermode` look at the launcher from two sides: the frames, and the process it runs.
Abstract specifications: `Coroutines` for `Scheduler`, `FileStore` for `Fat32`, `DeskView`
for `Desktop`; `EcdsaProperties` holds the textbook group that `P256` is compared with.

## 3. Modules and how they correspond to the code

### `Scheduler`

A *context* is a kernel task or the desktop (`Main`, whose slot is `NTasks` because it
registers last). The variables named as in C are the statics of `scheduler.c`; three
more are the machine:

* `stack`: the stack ESP points into. `cpu`: program counter and the values a suspended
  scheduler call still needs (`id` and `to` are what it has read before the switch;
  `was` is the launcher's `was_preemptive`, which the compiler keeps in a register that
  the switch routines save).
* `mem`: the frames in memory by address. `First(t)` is what `make_initial_esp` builds,
  `Coop(c)` the frame of a cooperative switch, `Irq(c)` an interrupt frame, `Syn(t)` the
  synthetic frame on the landing stack. Pushing makes a frame intact; moving ESP above
  it destroys it, and everything below it.

Loading ESP from an address without an intact frame pops garbage. That is undefined in
the code; the model stops with `cpu.pc = "crashed"` instead of inventing an outcome.

One action per statement between which the timer can act: `PollTest … PollReturn` are
`scheduler_poll` (297-312) with the two halves of `scheduler_context_switch`,
`Yield … YieldIret` the two ways of `scheduler_yield` (317-346), `Land` the landing pad.
The whole timer handler is one action because interrupts are off; its four cases are
`TickIdle`, `TickRefused`, `SwitchFromMain`, `SwitchFromTask` (212-295). The launcher is
`LaunchBegin`, `LaunchLower`, `LaunchEnd`, its local read and the gate write separate
steps. `Operator` is the terminal's `preempt` and `mainsw` commands in the desktop loop.

`DisciplinedOperator` issues gate commands only while no request is parked, and has
`mainsw` open whenever `preempt` is.

### `Coroutines`

Named threads, one running; a switch changes who runs and touches nobody's point of
execution. `Scheduler` implements it with `point` read from the innermost intact frame.

### `Fat32`

`fat`, `dir`, `data` are the disk; `op` is the call in progress: the list of steps left
and the local variables they share. The driver's functions call one another strictly in
sequence, and any failing access makes all of them return 0, so a list of steps is all
the control there is. One step per sector write (`WriteDir`, `WriteFat`, `WriteData`),
the reads in front of a write belonging to its step:

| Code | Steps |
|---|---|
| `fs_create` 372-405 | `create` |
| `fs_truncate_file` 598-619 | `find`, `free` (one write per cluster and FAT copy), `clear` |
| `fs_delete_file` 658-678 | `find`, `free`, `erase` |
| `fs_rename_file` 680-698 | `find`, `rename` |
| `fs_write_file` 496-527 | `find`, `choose`, `fill`, [`mark`], `commit` |
| `fs_append_file` 530-596 | `find`, `walk`, [`patch`], { `grow`, `mark_new`, `link` }, `resize` |
| `fs_write` 621-656 | the above put end to end, after the look-ups of 627-636 |

Faults: `AccessFails` is a read or write that fails with nothing stored; the second
disjunct of `Ends` is a write that was stored and is reported failed (`ata_write_sector`
waits for the flush and may time out after the data was taken); `Found` may miss an
existing name because a failed directory read ends the look-up as "not found" (216,
243); `PowerOff`/`Boot` is a power cut between two sector writes. Sector writes are
ordered, because each flushes the drive cache before the next begins. A sector is
written whole or not at all; sectors torn by a power cut are not modelled. `harm` is a
history variable recording which damage has struck.

Abstractions: a name is a model value (a valid 8.3 name, on which the driver's two
parsers agree); as in the image of `scripts/make_fat32_image.py` a cluster is one sector
and the root directory one cluster; data are units, `ClusterSize` of them per cluster;
`fs_read` is the operator `ContentOf`; file handles live within one command and are left
out; the 32-bit overflow test of the new size and `free_cluster_chain`'s exits for
corrupt chains guard states the model shows unreachable. A write to a cluster number
below the first data cluster would land in the FAT; that happens only after a cut, and
the model ends there (`"overrun"`).

### `FileStore`

What a caller may rely on: each name has a content, absent, or torn (being freed); a
step changes one name to one of its `Successors`, or renames; once `lost`, nothing.

### `Usermode`

Two *runners* enter ring 3: the desktop, for `usertest`, `userrun` and `userfault`, and
the launcher task. `at` says where each is; `cpu` which one has the processor. `savedEsp`
is `saved_kernel_esp` as the runner whose stack it points into, `tss` the runner whose
frame was last pushed on the TSS stack. A runner resumed in ring 3 through another's frame,
or landing on another's stack, is `"lost"`.

| Code | Actions |
|---|---|
| `user_scheduler_task` 26-58 | `TaskIdle`, `TaskPick`, `TaskMark`, `TaskLower`, `TaskRestore`, `TaskReport`, one per access the timer can come between |
| `usermode_run_test`, `usermode_run_context`, `int 0x80`, page fault, landing pads | `Enter`, `Syscall`, `Fault`, `Land` |
| terminal commands (`term_window.c`:1878-1976, 2420-2431) | `Userprep`, `Usersched`, `SyscallTest`, `Usertest`, `Userrun`, `Userfault`, `DesktopReports`, `Preempt`, `Mainsw` |
| `scheduler_poll`, the timer, other interrupts | `Poll`, `Tick`, `Interrupt`: only who gets the processor; how is `Scheduler`'s |

The terminal's runs lower no gate. They are modelled for a closed preempt gate,
the kernel's default; with it open a tick in such a run lets the
launcher overwrite `saved_kernel_esp` (hazard `usermode.asm:44`). `raced` is a history
variable: a command given while a launch is under way changed what the launch records.

### `TlsRecords`, `Internet`, `Net`

`g` and `tls` are `g_net` and the statics of `net.c`; `call` is the C stack of the one
caller (which loop it waits in, the addresses left, the attempts left); `nic` the two rings
of the card; `wire` what is on its way; `peers` the servers' connections. A payload is a
sequence of *units* (a record header counts two, so that a segment may end inside it; a
handshake header, a part of a body or a sealed piece counts one), each marked with the
connection it belongs to. Sequence numbers count units.

| Code | Actions |
|---|---|
| `net_http_get_url` 3591-3641, `net_https_get_url`, `net_tcp_connect_dns` | `Caller` (`GetUrl`, `ConnectDns`), `Query`, `NoTargetLeft`, `Fail`, `AppDone`, `HttpDone`, `HttpFailed` |
| `net_arp_probe_gateway`, `net_dns_query_current` | `Ask`, `ArpSent`, `ArpDone`, `DnsSent`, `DnsDone` |
| `net_tcp_connect_to` 2734-2780 | `Connect` (drains the ring, sends the SYN), `ConnectAsks`, `SynSent`, `Connected`, `NotConnected`, `FinalSent` |
| the request, the TLS flight, `net_tls_send_client_key_exchange`, `net_tls_derive_keys`, `net_tls_send_finished`, `net_tls_send_http_get` | `RequestSent`, `FlightDone`, `SendClientKeyExchange`, `CkeSent`, `DeriveKeys`, `FinishedSent`, `SendHttpGet`, `AppSent` |
| `e1000_send_frame` and the three attempts of `net_send_tcp_segment` | `HandOver`, `HandOverRefused`, `Sent`, `TxTimeout`, `RetryPoll` |
| the wait loops with `net_poll_frames` | `Poll`, `AckSent`; a loop ends when its condition holds, or when nothing is under way any more, or (fault `"late"`) before |

`TlsRecords` is `net_tls_capture_payload` (2317-2435) with the pending record, the pending
handshake message and the pending application record, as functions of the parser's state.
Cryptography is ideal in it: a record opens with the key and the sequence number it was
sealed with, and only whole and in order (every sealed unit knows its place in the record,
as the tag covers all of it); a Finished message stands for the transcript it covers.

`Internet` is external: a gateway, a name server with zero to two addresses, servers that
acknowledge in order, answer what the client sends and may cut a payload anywhere. Faults
(each behaviour has at most `MaxFaults`): `"loss"`, `"again"` (a server retransmits),
`"reorder"`, `"late"` (an answer after the loop gave up), `"slow"` (the card sends after
the driver's wait). `harm` records what the call met that it cannot cope with by design: a
property says which of these it excuses.

### `P256`, `Ecdsa`

Every function of `p256.c` has an operator of the same name. Numbers are sequences of
`Limbs` limbs of `LimbBits` bits, least significant first, as in the code; carries,
borrows, the conditional subtraction, the shift-and-add product, inversion by Fermat, and
each branch of the point formulas are the code's. The 256-bit constants are parameters, so a
small curve takes the same paths. `Ecdsa` runs the doubling-and-adding loop one bit per
step for the two products of a verification (`net_tls_verify_ecdsa_p256`) and of a key
agreement; `Calculate` is one call of the field and scalar operations, `P256Command` the
terminal's self-test.

### `Windows`, `Desktop`, `DeskView`

`Windows` is `window.c` on `allocator.c`: a window is the address `kmalloc` returned, the
list is the pointers in the nodes, and the heap is what the header at each place where a
block begins says of it. The joining walk of `kfree` is stated by its result: the blocks it
leaves, and how far a free one among them reaches.
`Desktop` adds the pointers others keep (`win` for `g_tw->win`, `g_about` and the
applications' statics, `drag`), the button and the key ring that the interrupts write, and
the main loop in three steps (process, test for a key, read it, handle it) between which
the interrupts come. A click hits any window that is shown, an icon, a taskbar button or
nothing; what it hits on a window is the close box, the minimize box, the title or the
content. `screen` is the list of windows the last redraw painted.

`DeskView` promises: windows in the order they were touched; keys handled in the order
they were typed, each once; lost only those that find `Room` of them waiting.

## 4. Runs

| Run | Instance | Shows |
|---|---|---|
| `closed` | 3 tasks, quantum 10, one launcher, `mainsw` free, `preempt` never opened: the kernel as shipped | `Resumable`, `BeliefIsTrue`, implements `Coroutines`, `EveryTaskRuns`, `RequestServed` |
| `gates_open` | 3 tasks, quantum 2, no launcher, both gates opened at any quiet moment | `NoStaleResume`, `Resumable`, `BeliefIsTrue`, `PausedFlagExact`, `Lockstep`, implements `Coroutines`, `DesktopReturns` |
| `launch` | 2 tasks, one a launcher, gates opened and closed | `TypeOK`, `LaunchNeverSuspended`, also in the regimes that crash |
| `usermode` | the four processes of the kernel, 16 slots, all commands | `TableSound`, `LandsHome`, `RecordsTrue` |
| `fat` | 2 names, 2 directory entries, 3 data clusters, buffers of 0, 1 and 3 units, all flags the callers use and the exclusive ones, all faults | all of `Fat32Properties` |
| `net` | 1 host with 2 addresses, 2 calls of any kind, rings of 3, 2 attempts everywhere, 2 faults | `TypeOK`, `SoundCallsSucceed`, `GenuinePage`, `SecurePageIsOwn`, `RightOrder`, `AckedIsTrue`, `CallsReturn` |
| `ecdsa` | 3 limbs of 2 bits, y^2 = x^3 - 3x + 47 mod 53, order 41 | `TypeOK`, `ArithmeticExact`, `LoopExact`, `VerdictExact` |
| `desktop` | 4 applications, a heap for 3 windows, a key ring of 3 slots | `TypeOK`, `WindowsSound`, `ScreenFresh`, implements `DeskView` |
| `launch_crash` *(violation)* | both gates on, launcher active | `NoStaleResume` fails |
| `fat_cut` *(violation)* | power cuts only | `OneOwner` fails |
| `net_late` *(violation)* | 2 HTTP calls, no fault | `NothingStale` fails |
| `tls_race` *(violation)* | 1 HTTPS call, no fault | `TranscriptComplete` fails |

### What the violating runs mean

* **`launch_crash`.** A quantum ending while the launcher holds the gate down is refused
  but stays parked (245-246). When the gate is up again the desktop's `scheduler_poll`
  serves it cooperatively, through an ESP saved before the task was last suspended by an
  interrupt. Closing the gate while a task is suspended by an interrupt has the same
  outcome, as has `preempt on` without `mainsw on` (a tick between `in_task = 1` and the
  stack swap of `scheduler_poll` files the desktop's frame as the task's), which is why the
  disciplined operator of `gates_open` only opens, and opens `mainsw` first. Related and
  visible in `launch`: the launcher restores what it read, so a `preempt off` typed in
  between is undone.
* **`fat_cut`.** Truncate and delete free the chain (611, 671) before the directory
  entry lets go of it (613, 673); nothing is repaired at boot. After a cut the freed
  cluster goes to a second file. PROGRESS.md:349-350 calls the order safe.
* **`net_late`.** The HTTP wait ends at the status line (3080). If the rest of the page
  comes while the *next* call resolves its name, target and port are still those of the old
  connection (2452), the segment passes, and the next call's response begins with it.
  PROGRESS.md:1189-1190 relies on the match of address and port and on the draining before
  each SYN, which comes too late.
* **`tls_race`.** The wait for the server's flight ends once ServerKeyExchange is there
  (3150). If ServerHelloDone is in a later segment, the client's transcript lacks it, or has
  it after ClientKeyExchange; PROGRESS.md:2043-2044 lists it before. The handshake then
  fails at the server, so the call fails: safe, but a matter of timing.

Two more things the models show without a run of their own: with both gates open a yield
to the interrupted desktop leaves `current_task` at the last slot (`scheduler.c`:334), so
task 0 is favoured and the others may starve, which is why `EveryTaskRuns` is checked in
`closed` and only `DesktopReturns` in `gates_open`; and one failed directory read lets
create or rename put a second entry of a name in the directory, which is why
`NamesStayUnique` holds until `"misread"`.

### Bounds, and why they are enough

* *Scheduler.* Three kernel tasks are the number the kernel creates. `Quantum` is the
  real 10 where it is affordable; 2 keeps both an expiring and a non-expiring tick. The
  counters that only grow are folded into `round_trips`, which the regimes that keep
  `Lockstep` leave in 0..1; in `launch` it can drift and `TripsBound` stops following
  it outside -1..1. `launch` disables the deadlock check because a crashed kernel has no
  next step. Stack frames need no bound: each stack holds at most one frame per address.
* *FAT32.* Two entries make the directory fill up and slots be reused; three data
  clusters let an append run out of space in the middle of a chain while a second file
  owns a cluster; buffers of 1 and 3 units against clusters of 2 give partial, exact and
  multi-cluster tails. Names are interchangeable, hence the symmetry. `NotSpoiled` stops
  following a disk after `"cut"` or `"misread"`, where every checked property is vacuous
  by its own statement. A file never has more clusters than the disk, so sizes are bounded
  by the disk.
* *Usermode.* The state is finite as it is: at most two user processes exist, and what the
  handlers note takes three values. 16 slots and four kernel processes are the kernel's.
* *Net.* Two calls are needed for anything left over to matter, and a third would meet
  the same leftovers; two addresses are needed for a connection to fail and the next to be
  tried. Attempts of 2 have both a retry and a last one; rings of 3 can be full and hold
  what two calls leave. Two faults per behaviour let a fault strike its own repair. A page
  of two units has a status line and a rest, and its record arrives in up to three
  segments, so that pieces can be overtaken or missing in its middle; other payloads come in up
  to two. The capture holds 3: less than two pages, so that it fills up. The deadlock check is off because after `MaxCalls` calls nothing more
  happens.
* *Ecdsa.* With two-bit limbs every carry pattern occurs; three limbs have a lowest, a middle
  and a highest one. The curve has prime order below the prime and a sum of two coordinates
  may not fit the limbs, as for P-256. All scalars, and for the field operations all first
  operands, are enumerated. The branches for equal and for opposite points inside the
  loop are not reached with scalars below the order, in the model as in the code.
  The deadlock check is off because a finished computation stops.
* *Desktop.* Three windows give a first, a middle and a last one; the fourth application
  meets a full heap, and a freed address is given out again, also after joining blocks. Of
  the six applications, the terminal, the about window and two that a command can open differ
  in how they are opened; the remaining two are like those. A ring of 3 slots holds 2 keys: one
  wrap-around, full and empty.

### Fairness

`Scheduler`'s `FairSpec` has `WF(Execute)`: the CPU executes the next instruction of whatever
stack ESP points into, and `WF(Tick)`: the PIT keeps interrupting (masked only during creation).
No choice of the operator is fair, nor is the moment of a tick. `EveryTaskRuns` under
these assumptions is about the kernel's two counting tasks and the launcher, which all
call `scheduler_yield` in a loop; it says nothing of an entry that never yields with the
preempt gate closed. `Net`'s `FairSpec` is weak fairness of the caller's own steps, of the
card (it stores and sends frames) and of time: every wait loop counts its spins, so a loop
whose frames no longer come ends. No fault and no call is fair. The other modules claim no
liveness: a file call is a finite list, and nothing forces the user to type.

### What the properties say in short

`Fat32Properties` states invariants until a named kind of damage: after failed accesses,
stored-but-failed writes and power cuts outside the window of truncate and delete,
clusters have one owner, files are readable to their full size, names are unique;
without any fault no cluster leaks. `SuccessMeansDone` reads the file back through the
directory and the chain after each call that returned success; `OthersUntouched` is
about every step. What a caller must know and `FileStore` makes explicit: an overwrite in
place may be seen half done, and `fs_write` with `TRUNCATE` is empty in between, so the
old text is lost if its second half fails. An append that fails after linking a cluster
leaves a chain longer than the size, and later appends are refused until a truncate.

`NetProperties` separates what holds whatever happens (`SecurePageIsOwn`: a page returned
over HTTPS is the answer of the server this call connected to, whole at its beginning;
`RightOrder`: no server gets a request twice although the driver repeats a send that
timed out; `AckedIsTrue`; `CallsReturn`) from what plain HTTP can promise (`GenuinePage`,
excused by lost, doubled or overtaken segments, because the receiver compares no sequence
numbers) and from progress (`SoundCallsSucceed`: without anything it cannot cope with, a
call returns its page).

## 5. Proofs

Checked by TLAPS for every number of tasks, quantum, set of launchers and commands
satisfying the named assumptions of `Scheduler` (`TasksAssumption`,
`QuantumAssumption`, `CommandsAssumption`), and for every process table and set of kernel
processes satisfying `UsermodeAssumption`.

**`SchedulerProofs`, for any commands.** The inductive invariant is
`IInv == TypeOK + Phases + UserHoldsGate + LaunchNeverSuspended`. `TypeOK` alone is not
inductive: that the picker of `scheduler_poll` finds a task needs at least one task to
exist whenever the loop runs (`Phases`: how far the boot has come at each program
counter). `LaunchNeverSuspended` needs `UserHoldsGate`: in ring 3 the CPU is at the
launcher and the preempt gate is down, because no operator command can run while a task
holds the stack. `NearestIsCandidate` proves that the modular search returns one of the
candidates, from well-foundedness of `<` on the naturals. Theorems: `InvariantHolds`,
`TypeCorrect`, `LaunchesAreNotPreempted`.

**`SchedulerProofs`, as it ships.** Assumption `GatesClosed`: nobody types `preempt on` (the
shipped default). `CoopInv` adds to `IInv` where the CPU is (`CoopMachine`), what the
handler believes at each program counter (`CoopBelief`) and which frame every other
context waits in (`CoopFrames`). Theorems: `CoopHolds`, `CoopNoStaleResume`,
`CoopResumable`, `CoopBeliefIsTrue`, and the refinement `CoopImplementsCoroutines`: each
step is a stutter, a move of the running thread, or a switch that leaves all points
alone. `OldFrames` is the one fact it adds: whatever a
task's stack still holds, the task waits at the top of its trampoline's loop.

**`SchedulerProofs`, both gates open.** The regime of `gates_open`, for any number of tasks and any quantum.
Assumption `GatesStayOpen`: the operator only opens the preempt gate (`DisciplinedSpec` says
when), there is no launcher, which would lower it, and `NTasks > 1`. `GateInv` is a
disjunction: `CoopInv` until the gate opens, `OpenInv` from then on. `OpenInv` says that the
desktop is only ever captured in its loop, that each task waits either for its landing pad,
which leads to the top of its loop, or in an interrupt frame, and that no request is
parked. The last is what keeps `scheduler_poll`, whose window would break the belief, from being
entered: a quantum that ends always finds somebody to switch to (`AlwaysSomebody`). With one
task that fails, because the picker never returns `current_task` itself; hence `NTasks > 1`.
Theorems: `GateHolds`, then every safety property of the run: `OpenNoStaleResume`,
`OpenResumable`, `OpenBeliefIsTrue`, `OpenPausedFlagExact`, `OpenLockstep`, and the refinement
`OpenImplementsCoroutines`, from the fact that a step passes the CPU only through the frame
filed for the context it resumes (`OpenMove`).

**`UsermodeProofs`.** Three invariants, each with its strengthening. *Landing*: `LandInv`
says that whoever is between its call and its return has the processor and the preempt
gate is closed (`Alone`), and that `savedEsp` is its own while it is in ring 3
(`OwnStack`); `LandsHome` alone does not know why no tick comes. *The table*: pids in use
are below `next_pid`, and the names of user processes are unique because every record goes
through the look-up. *Records*: which process each runner has marked, and what the
handlers must have noted by the time it is back. Theorems: `RingThreeLandsHome`,
`ProcessTableSound`, `ProcessRecordsTrue`.

**`Fat32Proofs`, `Fat32ContentProofs`.** One invariant on top of the other,
for every number of directory entries, clusters and FAT copies, every cluster size and every
set of faults (`NamesAssumption`, `SizesAssumption`, `FaultsAssumption`, `FlagsAssumption`).

*Types* (`Fat32Types`). A call is the list of the steps it has left, so the invariant says
which step may follow which (`Ordered`), and what the call's variables hold at each
(`CallOK`). The walk along a chain is a recursive function; that one more link is one more
`Follow` is shown by induction, in a form the provers take: the numbers for which a fact
holds are a set that has 0 and the successor of each of its members (`NatBySteps`, from the
least element of a set of numbers).

*Names* (`NamesUniqueForever`). Uniqueness is not inductive, because the look-up ends at the
first entry never used: a new entry in the first hole could uncover an old one behind it.
`EndsLast` says there is none, `OnLiveSlot` that the slot a call has found still holds a
file when it is renamed or erased. The theorem holds until a failed read hides a name.

*Owners* (`OneOwnerForever`). Chains are not followed: whatever refers to a cluster, an
entry or the cluster before it, is alone in doing so (`Apart`). An allocation may not break
that, so a free cluster must be referred to by nothing but the file being freed
(`LinksTaken`, `EntriesTaken`); and a call knows what it holds between two writes (`Owns`):
the cluster it frees next belongs to its own file only, the one it fills is its own and is
marked before the entry is committed, the one it links was nobody's and is marked before
it is linked. This is where the order of the writes in `fat32.c` is used. With several FAT
copies the first is the one that is read, so each write counts when it reaches that one.
The theorem holds until a truncate or delete is cut after its first FAT write.

*Readable* (`ReadableForever`). Here chains are followed: a file is whole if there is a
sequence of clusters in use, each linked to the next, from its first to the one its last
byte is in (`Whole`); `LinkedWalk` shows that `next_cluster` walks along it. Apart from a
free, links are only written to clusters that had none (`Untied`), so all sequences stay
(`LinksKept`); and what a free takes away belongs to no other file (`OnlyOwn`, from the proof
before). It remains that a size is written only when the chain is long enough for it. For that
the append must know where it stands: on the last cluster of a chain that holds the old size
and what has been written since (`Reached`), which is full if there is more to write
(`Edge`), ends the chain, and is not the new cluster (`Tailed`). The step from one cluster to
the next is arithmetic of division (`HopsNext`, `HopsSame`, `OffsetEdge`). A truncate frees the
first cluster first (`Freed`), so that a file half freed is known to be one.

*No leak* (`NoClusterLost`). Without faults a cluster in use is referred to, or is the one the
call holds: the rest of the chain it frees, the cluster it has marked and not yet committed
or linked (`Held`). An entry is only overwritten once its first cluster is free (`Freed`), or
by one with the same first cluster (`OneCluster`).

*Contents* (`OthersStayUntouched`, `SuccessIsDone`, `Fat32ImplementsFileStore`). What is read
of a file is a function of its entry, the links of its chain and the data on it, so a write
that leaves these alone leaves the content alone (`SameFile`); the proofs of owners say that no
other file's chain is met. What they do not say is what the running call has stored so far, and
that is the new part of the invariant (`ContentsInv == ChainsInv /\ Contents`, the latter until a
free is cut short): its slot bears its name (`SlotNamed`); the cluster it is about to commit
holds the buffer (`Filled`), and a file that has a cluster then has no other (`Alone`); behind
the old size stands what has been appended (`Written`), and in the cluster that will be linked
what comes next (`NextFilled`). From it each step is read as a step of the store: nothing moves
(`Silent`), one file takes a content that `FileStore` allows it (`Becomes`: created, emptied,
torn, patched in place, resized, gone), or one takes another's place (`StoreRename`). Nothing can
be said of a name any more once a failed directory read has been taken for a missing file:
hence `Spoiled` in the three properties. For `SuccessIsDone` it remains that no other step ends a
call with success: a refusal does not (`Refusals`), and after a cluster is freed or filled
there is always a step to come (`NotYetDone`).

**`DesktopProofs`.** Every property of the run `desktop`, for every size of heap, header and
window (`HeapAssumption`: a window fits in the empty heap, as 224 KiB does), every set of
applications and every ring of two places or more (`DesktopAssumption`). The inductive
invariant is `Inv == WindowsKept /\ KeysKept`. *Windows.* The properties speak of walks along
the pointers, which no step can be followed through; the invariant says instead that there is
a sequence of different windows that every node's two pointers agree with (`Chain`), and
`ChainIsOrder` shows that the walks give it and its reverse (`WalkAlong`, by `NatBySteps`; a
list is never longer than the heap by `ListsAreShort`). What an operation does to the list
is then an operation on that sequence: `RaiseFronts`, `AddFronts`, `KeptDestroy`. Within a
handler less holds than between two: a new window is in front before it has the focus, so
`Kept` leaves out what `Sound` adds. *Heap.* `SplitHeap` and `KfreeHeap`: one more block is
given out, one nobody has, or the one given is taken back, and the blocks still fill the heap
without free neighbours. That `kfree` joins all that it should needs that every block but
the first has one before it (`BlockBefore`). *Screen* needs no invariant. *Keys.* Those between
tail and head were typed (`KeysIn`), and the main loop holds the one at the tail until it
moves the tail on, whatever the interrupt stores meanwhile: `StoredKeys` and `TakenKeys` are
the ring as a queue. Theorems: `TypesAlwaysOK`, `WindowsAlwaysSound`, `ScreenAlwaysFresh`, and
the refinement `DesktopImplementsDeskView`.

**`NetReceiveProofs`, `NetProofs`, `NetPageProofs`.** For every page, set of answers, layout of the flight and
way of cutting a stream into segments, every size of the rings and of the capture, every
number of attempts and of faults (`PageAssumption`, `AnswersAssumption`, `CutsAssumption`,
`RingsAssumption`, `TriesAssumption`, `CallsAssumption`, `SizesAssumption`, `CaptureAssumption`). The
invariant `IInv` ties four parties together. *What is on its way to the machine* (`Arriving`, `FrameOK`) never
acknowledges more than its server has got, and holds a server's Finished only if that
server took the client's. *What is on its way out* (`Leaving`, `SendOK`) carries, at each
sequence number, the one unit that is due there in the protocol of its connection, so a
frame sent again or late is refused or is the one the server waits for; an encrypted
request comes only after an accepted Finished. *The servers* (`PeersOK`) have got a beginning of
that protocol. *The call* (`CallOK`) knows its connection: `last_ack` acknowledges nothing
the server has not got (`Known`), the session is verified only for a server that accepted
(`ConnectionOK`), and the point of the code a call has reached says how many units are
acknowledged (`StageOK`), because each wait ends on an acknowledgement or gives up. That
`tcp_payload_acked` cannot be set by an old connection's number is `EndOK`: the
acknowledgement waited for belongs to a port number of this call. Everything said of a server stays true
when it goes on (`Grown...`), so a step of the world is `ReactionsOK` and a step of the
machine leaves the world alone. The receiver is walked through from the inside out:
`NextMessageOK`, `NextRecordOK`, `TlsPayloadOK`, `HandleOK`, and the loops over messages,
records and frames by `NatBySteps`; whatever is in a payload, a parser's step verifies the
session only if a server's Finished was in it. What a call over HTTPS shows needs a second
invariant on top of `IInv`, since `IInv` says nothing of what is kept of a page: `SInv` says
that nothing decrypted is left over between two payloads, that while a call has a
connection what is kept of an application record is that connection's own (`Own`: the
pieces of the one record sealed for this port number), and that from the moment the request
is sealed, which empties the page, what is shown begins with that server's answer and holds
nothing else (`Shows`). The page is empty or whole at its beginning because a record is
opened only when all of it is there, in its order (`AppDataOK`); a second copy opens too, and
comes behind the first. `Secure` is what the receiver adds to its promise for it, and
`SafeStep` the step of `SInv`. That a page is *genuine* (`PageAlwaysGenuine`) is a fact about a whole
stream, and only as long as a call meets nothing but delays and cut payloads (`Mild`); the
third invariant, `PInv`, says what the stream then is. The frames in the ring and on the wire,
one after the other, carry the page of the dialed server from the unit `n`, up to which the call
has taken it, to the unit `e`, up to which the server has sent it (`Runs`); over TLS they carry the end of its one
record once or not at all (`Once`, `Closes`). What has been taken is the first `n` units, as
far as the capture holds them (`Took`). So polling takes from the front and moves `n`, the card
moves frames within the run, the server extends it, and all else leaves it alone. Three facts
keep other frames out. Whatever can be taken comes from the address and port that were dialed
(`MatchOK`); nothing has been sent for a port before it is dialed (`NoneFor`, `DialOK`); and
before its first connection a call has no port for which payload could be taken, between two of
them nothing that is shown (`OffOK`). An HTTP call returns after `n > 0`, and the capture is not empty
(`CaptureAssumption`; it is 8192 bytes), so the page is not either. Each segment goes through the receiver in
`NetPageProofs` a second time, for what it does to the capture (`Sole...`, the loops again by
`NatBySteps`); `PageInvStep` is the step of `PInv`. Theorems: `InvAlways`, `TypesAlwaysOK`,
`AckedIsAlwaysTrue`, `OrderAlwaysRight`, `SecurePageAlwaysOwn`, `PageAlwaysGenuine`.

**Model-checked only.** All liveness
(fairness and ENABLED are outside the proof system); of `Net`
`SoundCallsSucceed`, which says how far the receiver gets with a whole handshake that met no
harm; `P256`, whose operations are recursive over limbs and bits.

## 6. Not modelled

Device output, image and media decoding, build scripts and string routines: no ordering
and no state a property would be about. SHA-256, AES-GCM, HMAC and the key schedule: fixed
sequences of bit operations, for test vectors. Stack depth within a task's 1 KiB stack:
a fact of compiled code; so is that `usermode_run_context` overwrites EDI
(`usermode.asm`:45), which its C callers expect back. IDT, PIC, paging and mode-switch
set-up, PCI scan and card set-up: straight-line hardware configuration. In the network stack: the
terminal's step-by-step TLS commands, payloads over 160 bytes, a transcript longer than its
buffer, the certificate's fields. On the desktop: geometry, the assembly of mouse
packets, the cursor's saved background, and the contents of the applications' windows
(editing, browser history and page layout, registry and package files), which are
single-threaded data handling on top of the modelled file and network calls. Application
content is painted after all frames in a fixed order (`kernel.c`:77-98), so it may cover
a window in front of it; `screen` is about the frames.
