# The xeros kernel in TLA+

A verification project for the xeros teaching kernel (`src/`): a single-processor
kernel with 64 process slots, four priorities with round robin, two counting
semaphores, a sleep device, signals with nested handlers, waiting for a process,
a memory manager, and three devices. The modules here model, from
the C source, the kernel with its devices and the programs that run on it, and beside it the
memory manager, the console and parts of the C library; TLC checks them on small instances.
TLAPS proves, for any value of the constants, that the scheduler's linked lists implement an
abstract scheduler with FIFO queues, and the invariants of types, pids, signals, the device layer
with the keyboard driver, and the memory manager.

## 1. Inventory

| Component | Code | State it keeps | Operations | Here |
|---|---|---|---|---|
| Process table, ready queue | `c/pcb.c`, `c/create.c` | `pcbTable`, `head`, `tail`, `pcb_id` | `create`, `next`, `ready`, `cleanup`, `getPCB`, `removeFromQueue` | `Pcb` |
| Semaphores | `c/sem.c` | value and per-priority lists | `P_kern`, `V_kern`, `removeFromBlockQueue` | `Sem` |
| Sleep device | `c/sleep.c` | delta list `dl`, `tick` of a pcb | `sleep`, `tick`, `removeFromSleepQueue` | `Sleep` |
| Signals | `c/signal.c` | `sigTable`, `sig_mask`, `sig_ignored`, frames on the stack | `set_signal`, `signal`, sigreturn | `Signal` |
| Waiting | `c/signal.c` | `wait_head`, `wait_tail`, `waiting_on` | `addToWaitQueue`, `removeFromWaitQueue`, `restoreToReadyQueue` | `Signal` |
| Dispatcher | `c/disp.c`, `c/ctsw.c`, `c/syscall.c`, `c/init.c` | the current process | one case per request | `Kernel`, `Devices` |
| Memory manager | `c/mem.c`, `c/memHeader.c` | the free list in memory | `kmeminit`, `kmalloc`, `kfree` | `Memory` |
| Device layer | `c/di_calls.c`, `c/zerorand.c` | descriptor table of a pcb | `di_open` ... `di_ioctl`, the zero and the random device | `Devices` |
| Keyboard driver | `c/kbd.c` | `kbd`: owner, buffer, eof, echo; the flags of held keys | upper half, `kbdint_handler`, `buf_copy`; `kbtoa` | `Devices`, `ScanCodes` |
| User processes | `c/user.c` | `milliseconds`, `shellpid`, the locals of each process | `root`, `shell`, `k`, `a`, `t`, `sig21`, `token` | `Shell`, `Tokens` |
| CPU times | `c/disp.c` | none | `getCPUtimes` | not modelled |
| Test processes | `c/test.c`, `Testing.txt` | none | | not modelled |
| Console | `c/kprintf.c` | the screen, `Crtat` | `kbmputc` | `Console` |
| C library | `lib/libxc` | none | `qsort`, `_doprnt`, `atoi`, `_doscan`; string routines | `Sort`, `Format`, `Scan` |
| Machine, vectors | `c/i386.c`, `c/evec.c`, `c/*.S`, `c/xint.s` | hardware registers | | not modelled |
| Boot loader, build | `boot`, `compile` | | | not modelled |

How they interact. There is one kernel stack, and the kernel runs with interrupts
disabled. A user process enters it by `int` (a system call) or is interrupted by the
timer or the keyboard; `contextswitch` returns the request to `dispatch`, the handler
runs to its end, and `dispatch` resumes the process `pcb` points to. So the components
share memory, above all the `next` and `prev` pointers of a pcb, which thread the ready
queues, the semaphores' lists, the delta list and the waiters' lists in turn: a pcb must
be in one list at a time and that list must be the one its state names. A signal is the
one operation that reaches into any of these lists from outside.

What is hard. Not parallelism within the kernel but the order in which user processes,
timer and signals make their calls: which list a process is in when somebody else
reaches for it, pointers that stay behind when it leaves, slots that are reused, ticks
that are unsigned, handlers that nest, keys that arrive while their reader is in a handler. `hazards` in `PROJECT.json` lists each with its line.

What makes each part correct:

- ready queue: each queue holds exactly the ready processes of its priority, once, in
  order; the process resumed is the only running one and owns its stack;
- semaphores: the lists hold exactly the blocked processes; none is blocked while units
  are left; the first of the highest priority is served first;
- sleep: everyone wakes at the interrupt asked for, whoever else sleeps;
- signals: the mask is the state of the running handler; handlers nest upwards; a masked
  signal is delivered when it can be;
- waiting: a waiter resumes when its target terminates, and not before;
- memory: slots, free or owned, never overlap and cover the memory; freeing undoes allocating;
- keyboard: it has one owner, whom the interrupt handler serves; a read returns the keys
  typed, in order, once, and counts them; a reader does not wait for what is there;
- user processes: root and the shell hand the keyboard to each other and never use it
  without a descriptor; root's buffers are not overrun; a password is not echoed; a login
  follows a logout;
- console: the screen is the end of what was printed;
- library: the sort sorts in place with little stack; a number printed is read back.

## 2. Modules

`Pcb` <- `Sem` <- `Sleep` <- `Signal` <- `Kernel` extend each other, as the C files call
each other. The first four have no variables: each C function is an operator that takes
the kernel memory `k` to the memory the function leaves. `Kernel` has one variable, `k`,
and one action for each case of `dispatch`.

The record `k` has a field for each static variable (`head`, `tail`, `pcb_id`, `dl`,
`sem`, and `pcb`, the local variable of `dispatch`) and, for each field of
`struct process_control_block`, a function from slots to values. Pointers to a pcb are
slot numbers or `NULL`. What the data is abstracted to:

- `esp` and the frames stacked on a process's stack are `frames`, a sequence of the
  signal and the shift that `sigframe_t` holds;
- `addr_start` is `stack`, whether `kmalloc` gave the block out and `kfree` has not taken
  it back;
- a mask is the set of its 1 bits; `<<` and `>>` are `ShiftLeft` and `ShiftRight`, the
  latter copying the top bit as a signed shift does;
- `tick` is unsigned and wraps at `UINT_MAX`;
- `rc`, `buf`, `bufflen` and `fdt` are in the second record, `d`, of module `Devices`;
  `args` and `cpuTime` are left out;
- `fault` is not in the code. It becomes `"null"` or `"loop"` where a handler would
  follow a null pointer or not end (a loop over a list that takes more turns than there are slots); no process takes a step after it. `FAIL` prints and
  goes on in the default build, so an assertion of the code is a property here and not a
  guard.

`Kernel!Init` is what `initproc` leaves when `dispatch` has called `next` for the first
time. A step is one turn of the loop of `dispatch`, from the entry into the kernel to the
process it resumes. Its guards say who may enter: the process whose stack is being
resumed, with any call of the workload (`UserCall`); the idle process, which only halts,
through the timer alone; a process interrupted by signal 31, whose handler is `sysstop`,
through `SYS_STOP` (`Killed`).

| Module | What it is |
|---|---|
| `Pcb`, `Sem`, `Sleep`, `Signal` | the functions of the C files |
| `Kernel` | the dispatcher; types, and the invariants the proofs are about |
| `PriorityScheduler` | the abstract specification: FIFO queues as sequences, the highest served first |
| `Scheduling` | the queues' invariants, the refinement mapping to `PriorityScheduler`, liveness |
| `Sleeping` | the kernel with, beside it, the time each sleeper asked for |
| `Waiting` | who waits for whom |
| `Signalling` | masks, remembered signals, nesting |
| `Suspending` | what takes a suspended process out of its list, and what that does to the others |
| `Devices` | the device layer, the drivers, return values; adds the variable `d` to `Kernel` |
| `Reading` | `Devices` with, beside it, the keys that no read has returned yet |
| `Shell` | the programs of `c/user.c` over `Devices`; adds the variable `u` |
| `ScanCodes` | the tables of `c/kbd.c` and `kbtoa` |
| `Console`, `Sort`, `Format`, `Scan`, `Tokens` | `kbmputc`; `qsort`; `_doprnt` and `atoi`; `_doscan` over a string; `token` |
| `Library` | drives `ScanCodes` and the five modules after it over all inputs up to a bound |
| `Memory` | `kmeminit`, `kmalloc`, `kfree` and the functions of `memHeader.c` |
| `Allocating` | the invariants of memory |
| `Recursion` | lemmas on induction and on recursive functions |
| `QueueLemmas` | lemmas about linked lists |
| `KernelProofs` | proofs of the scheduler's invariant |
| `SchedulerProofs` | proofs that the scheduler implements `PriorityScheduler` |
| `KernelEffects` | proofs of types and pids, in every workload |
| `SignalProofs` | proofs about masks and remembered signals |
| `DeviceProofs` | proofs about devices and the keyboard |
| `MemoryProofs` | proofs about the memory manager |
| `SchedulerCheck` | the properties of `Scheduling` together with the inductive invariant of the proofs, for TLC |

`Devices` composes with `Kernel` as the C files do: an operation takes the record `m` of
both memories to what it leaves, and each case of `dispatch` is an action that sets `k'`
and `d'`. A process executes in a context, its own or that of the handler on top of its
stack. `d.text` has, for each context, the characters in the buffer of the read it made
last, so that the value `rc` can be compared with them; `d.saved` has the `returnValue`
of each signal frame. The result of a call that is not a device call is the one value
`Other`. `serve` looks at the owner's slot and nothing else, like
`kbdint_handler`, so a stale owner would show. That the keyboard's interrupt line is
masked is `irq`; keys come only while it is not. The zero and the random device keep no
state: of the bytes a read gives only whether they can be other than zero is modelled.

`Shell` replaces the arbitrary calls of `Kernel` by those of `root` and the programs it
starts. A step of a process goes from the return of one call to the next; `u.at` is the
call it makes next, and its result is in `d.rc`. What is typed decides where a line or the
file ends; which command a line holds and whether a login is valid is any choice.
Interrupts may come between any two calls.

`Library` has one behaviour for each routine, in which the input grows by one key, character, element
or bit at a time, so that TLC visits every input up to the bound. The scan codes' run is not bounded:
the state of `kbtoa` and the keys held are finite.

`Memory` stands alone, with variables of its own: `Kernel` knows of memory only whether a
slot's stack is allocated. Its record `mem` has `memList` and, for each address where a
slot begins, the header there. `sanityCheck` is a boolean, whether it holds the address of
its own slot, which is all that the function of that name tests. Where a merge makes a
header part of another slot's data, the header leaves `mem`. The loops of `findMemSlot`
and `insertToMemList` are stated by what they find. That a process may overwrite the header next to its stack is not modelled. `live` has the addresses
that processes keep in `addr_start`, with the size asked for.

An operator commented `Fault:` stands before the operator it is a faulty variant of: a
dropped test, a swapped order, a pointer that is not moved. No specification uses it.
`PROJECT.json` lists, under `mutants`, which property each of them must break when it
takes the place of the real one: that is how each property is known to say something
about the code.

## 3. Runs

| Run | Workload (calls) | Slots, priorities, semaphores, signals | What it shows |
|---|---|---|---|
| `scheduler` | create, yield, stop, setprio, P, V, timer | 4, 2, 1, - | types; queue invariants; the process resumed owns its stack; pids lead to their owners; the assertion of `next` cannot fire; the proofs' invariant; the lists implement `PriorityScheduler` |
| `fairness` | create, setprio, P, V, timer | 4, 2, 1, - | no top-priority process starves, of the processor or of a semaphore |
| `sleeping` | create, stop, setprio, sleep, timer | 4, 2, 0, - | everyone wakes on time until a request the delta list cannot record; after it, only sleepers are woken; the ready queue implements `PriorityScheduler` with suspended processes |
| `suspending` | create, kill, timer, and either yield, stop, wait or P, V, sleep | 5, 1, 1, 1 | a waiter resumes exactly when its target terminates or a signal comes; a signal to one of up to three processes that are blocked or asleep costs the others neither their place nor their time, as long as lists are linked both ways |
| `signals` | create, wait, sleep, kill, signal, sigreturn, timer | 3, 1, 0, 3 | masks, nesting and remembered signals; signals to ready, waiting, sleeping and stopped processes never make the kernel resume a freed stack |
| `memory` | kmalloc of 1, 3, 6 or 63 units, kfree in any order | see below | until a slot is torn, no two slots share an address, the free list is sorted and merged, nothing is lost, and all of it comes back |
| `devices` | create, kill, signal, sigreturn, open, close, read, write, ioctl, keys, timer | 3, 1, 0, 2 | the keyboard has one owner; no reader is blocked by what is there; reads count their characters and return the keys in order, once |
| `shell` | the programs of `c/user.c`, keys, timer | 4, 1, 0, 2 | the keyboard is handed over; root's index stays in its buffer; echo follows the prompts; one login at a time |
| `library` | keys, characters, arrays, numbers, lines | see below | the end of file comes from its key; the screen is a window on what was printed; arrays are sorted; numbers are read back; a line is cut into its words |
| `two_waiters` | create, stop, wait | 4, 1, 0, - | violation: the second waiter is never restored |
| `stale_slot` | create, stop, signal | 3, 1, 0, 2 | violation: a new process has the handlers of the slot's last owner |
| `lost_sleeper` | create, sleep | 4, 1, 0, - | violation: a process that falls asleep between two sleepers is in no list |

Slot 0 is always the idle process, so 4 slots are three processes.

**Bounds.** `PCB_TABLE_SIZE`, `PQ_SIZE`, `NUM_SEMAPHORES`, `SIG_TABLE_SIZE` are 64, 4, 2, 32
in the code. Three processes fill one queue, which has then a first, a middle and a last
member; two priorities make one queue overtake another; one semaphore suffices since two
share nothing but the ready queue; four processes are needed for a delta list that has
a middle and an insertion (`sleeping`), and for a target, its waiter, and two others
(`suspending`). Two ordinary signals and the kill signal let handlers nest, with a
signal between them (`signals`). `MaxPid` bounds how often slots are reused (once or twice), `MaxSem`
the value up to which `sysV` is called, `MaxFrames` the nesting of handlers. Where they bound they
only remove steps; every kernel reached is one the code reaches. `UINT_MAX` is 7 so that
wrapping happens within a few interrupts.

In `devices` two processes compete for the keyboard, each with one descriptor, and slots are
reused once. The driver's buffer has two characters instead of four and a read asks for
two, so that a read is completed by its length, by a newline or by the end of file, in one
piece or key by key, and keys are dropped when the buffer is full. One handler deep is enough for
a read to be broken off and for the handler to read too. Only the keyboard is opened in
this run, the `Write` and the commands are those it refuses or obeys.

In `shell` there are three processes besides the idle one: root, the shell and a command's.
`BUFFERSIZE` is 4 and root reads 2 characters at a time (4 of 128 in the code), so
that a line fills root's buffer exactly after two reads. The driver's buffer has one
character: keys that come while nobody reads are kept and lost. `MaxPid` is 4: after
root, shell and command one more process is created, a second command or a second shell.

In `library` the screen has 2 rows of 4 columns with tab stops of 2, 6 characters are
printed from three places the boot loader may leave the cursor at; arrays have up to 7 elements of 3 values, which takes
`qs1` through every branch and three levels of calls; numbers have 13 bits, with 1000 in
place of 10^9, so that an unsigned number has as in the code more than `BILLION` and up
to several times it; lines have up to 8 characters and strings up to 5, with a precision of 3.

In `memory` a unit stands for 8 bytes: a header has 2, sizes are rounded up to 2 (16 bytes)
and the smallest is 2. The region below the hole has 13 units (3 to 16), the one above 9
(20 to 29), so that three stacks fit in the one and two in the other and a slot can be freed between two
free neighbours. Neither region is a whole number of grains; `kmeminit` rounds the size of the upper slot down and
leaves that of the lower odd. The requests are one below the minimum, one that is rounded, one that takes most of a
region and one whose rounding wraps, `ULONG_MAX` being 63. In this layout every hazard of `memHeader.c` happens within
a few calls: slots are torn, and the list drops slots.

In `suspending`, `suspend` says from the start how the processes of a behaviour suspend themselves: they wait for each other
and stop (`WaitStep`), or block and sleep (`QueueStep`). With both at once there are too many states. In the second case three processes can be blocked or asleep while the fourth signals, so that a first, a middle and a
last member are taken out. One signal, the kill signal, is enough: what a signal does to lists does not depend on its
number. Sleeps last one interrupt or two, so that a sleeper is put in front of the first too.

**Restrictions.** Some defects make later behaviour meaningless, so the models step around
them, and the passing runs say what holds of the code when its programs do too:

- `CautiousNext` in `Kernel`: a new process gets a slot that had no owner (`CreateFresh`)
  and nobody signals the idle process (`KillUser`), in `suspending` and `signals`. `MaxWaiters`,
  the processes that wait for the same one, is 1 in the passing runs and 2 in `two_waiters`.
- `signals` has two user processes and is about masks and frames, not about queues: with three, a signal can meet a
  pointer that another removal left stale (section 5). Handlers are not removed there (`UNSIGNAL` is not among
  its calls), since `PendingIsMasked` fails when the handler of a remembered signal is
  (`c/disp.c:126`); the shell's handler removes itself in `shell`.
- `QueueStep` of `Suspending` follows the kernel up to the step that leaves a list linked in one
  direction only (`BothWays`) and no further (`Unlinked` is a stutter): a `V` that does not empty the list, a removal
  that is not the last member's, an insertion in the middle of the delta list. The step itself is still checked, so what the properties say is that
  the `next` pointers and the ticks are right after it, and that only `prev` pointers are left behind.
- `Sleeping` has `disturbed`, a history variable: `WakesOnTime` is promised until the
  first request that the delta list cannot record.
- `Allocating` has `dropped`, which records that an allocation took the last slot of the list
  exactly (`c/memHeader.c:33`), and `torn`, which records that a slot was split whose rest has no room for its header
  (`c/memHeader.c:38`). A torn slot's header lies on other data, so the memory is not followed after it (`Broken` is a
  stutter). `NothingLost` and `FreshWhenEmpty` are promised until either happens, the other invariants until a slot is torn; theorem `WholeGrainsNotTorn` says where
  that cannot happen. `RoomForStack` excepts requests whose rounding wraps.
- `BlockedReader` excepts an end-of-file character that a key gives (section 5).
- `Shell`: no process ends that would wake one which does not wait for it (`WakesWaiter`: a
  slot keeps the waiters of its last owner; without the test TLC finds the kernel looping at
  root's second login), and a killed sleeper sleeps alone (`SleepsAlone`, `c/sleep.c:108`).
  `k` kills the shell or a command, not root or the idle process. A killed process takes
  no other step than the `sysstop` of its handler.
- `Library`: no backspace at the first cell of the screen, which `kbmputc` takes to the place
  in front of it; the cursor is within the screen at first; no binary number longer than the string
  it is put in; a line is shorter than `BUFFERSIZE`, as a longer one is refused by the shell, and begins with a word.

**Fairness.** `FairSpec` assumes weak fairness of `TimerInt` and of nothing else.
`contextinit` calls `initPIT`, which programs the timer to interrupt periodically, and
every process runs with the interrupt flag set (`INTERRUPT_FLAG` in `c/create.c`,
`eflags` 0x3200 in `c/signal.c`), so an interrupt that is pending is taken when the process resumes.
Nothing is assumed of user processes; they may compute for ever. `NoPassing` therefore
has as its premise that the semaphore is signalled again and again.

**Deadlock** is checked in all runs. In `memory` something can always be allocated or freed, or the memory is torn; in the others the timer can always interrupt (in `suspending`, until a list is linked one way), unless `fault` is set
or a freed stack is resumed, so the absence of deadlock says that neither happens.

## 4. Proofs

Every theorem holds for all values of the constants that the named assumptions allow: any
number of slots, priorities, semaphores, signals, descriptors, any size of the driver's buffer,
of the regions of memory and of the requests.
The bounds `MaxPid`, `MaxSem`, `MaxFrames`, `MaxWaiters` are constants too, so they may
be as large as one likes.

| Theorem | States | Workload |
|---|---|---|
| `SchedulerInvariant` | `IInv`: places, pids and well-linked queues | scheduler calls |
| `SchedulerTypes` | `TypeOK` | scheduler calls |
| `SchedulerResumesOwner` | `ResumesOwner` | scheduler calls |
| `SchedulerPidFindsOwner` | `PidFindsOwner` | scheduler calls |
| `SchedulerAssertions` | `NextAssertion`, `UnblockAssertion` | scheduler calls |
| `SchedulerServes` | `QIInv`: nobody blocked while units are left, idle only when nobody is ready | scheduler calls |
| `SchedulerImplements` | `ImplementsQueues`: the refinement of `PriorityScheduler` | scheduler calls |
| `SchedulerReadyQueues` | `ReadyQueues` | scheduler calls |
| `SchedulerSemaphoreQueues` | `SemaphoreQueues` | scheduler calls |
| `KernelTypes` | `TypeOK`; the process resumed is running or ready | every call |
| `KernelPids` | no two slots carry the same pid | every call |
| `SignalMasks` | `MaskMatchesHandler` | every call |
| `SignalsNest` | `HandlersNestUpwards` | every call |
| `SignalsPending` | `PendingIsMasked` | every call but `UNSIGNAL`, under `CautiousNext` |
| `DevicesInvariant` | `DIInv` | every call, devices and keys |
| `DeviceTypes` | `DTypeOK` | the same |
| `KeyboardHasOneOwner` | `OneDescriptor` | the same |
| `ReadersAreServed` | `BlockedReader` | the same |
| `ReadsAreCounted` | `ReadCountsBytes` | the same |
| `KeysAreReadInOrder` | `KeysInOrder` | the same, under `RSpec` |
| `MemoryInvariant` | `MIInv` | any layout, any requests, freed in any order |
| `StacksApart` | `SlotsApart` | the same |
| `FreeListInOrder` | `FreeListOrdered` | the same |
| `MemoryNotLost` | `NothingLost` | the same |
| `MemoryMerged` | `FreshWhenEmpty` | the same |
| `StacksFit` | `RoomForStack` | the same |
| `OwnersAccepted` | `OwnersCanFree` | the same |
| `WholeGrainsNotTorn` | no slot is ever torn | the same, in a lower region of whole grains |

*Assumptions.* Besides the `ASSUME`s of the constants, which TLC evaluates in the runs, there are three:

- "scheduler calls" is `Calls \subseteq SchedulerCalls`: create, yield, stop, setprio, P, V and
  the timer. The other calls link pcbs in ways that do not stay well formed in every workload
  (section 5), so the queues' invariant is not theirs.
- `SleepsFit`, in the theorems from `KernelTypes` to `KeysAreReadInOrder`: the ticks of each argument of `syssleep`
  fit the tick field. In the code the argument is an unsigned number that is divided.
- `"UNSIGNAL" \notin Calls` and `CautiousNext` in `SignalsPending`: `PendingIsMasked` does fail when a
  remembered signal's handler is removed (`c/disp.c:126`), when a new process gets a slot that
  remembers signals of the last one, or when the idle process is signalled.

The theorems about memory need none of these. `MemoryAssumption` says that the hole lies between two regions that each
have room for a header, and `MachineAssumption` what the machine and `h/mem.h` fix: addresses and requests are unsigned words, the
grain divides the range of a word, and a header takes one grain (`sizeof(memHeader)` and the unit of rounding are both 16).
Nothing is assumed of where the kernel ends, which the linker decides (`c/i386.c:84`), nor of the requests, which
`kmalloc` does not look at; what depends on them, `torn` and the wrapped requests, is in the properties.

### The scheduler

*Why an invariant is needed.* None of the properties is inductive: that `next` finds a ready
process at the head of a queue depends on every queue being well linked, on no process
being in two of them, and on the tail being a member when the head is not null. `IInv`
says this locally, without following pointers: there is a ranking of the slots by natural
numbers such that, in every queue, each member but the last has a `next` that is a member of
higher rank with no member in between, the head has the lowest and the tail the highest rank
(`IsQueue` in `QueueLemmas`). Two lemmas there, about any set of members, say that taking the
head off and linking a process behind the tail keep this.

*In the middle of a handler* a process is in no list. `Core(m, R, X)` is the invariant of
a memory `m` with running processes `R` and processes on the way `X`; `IInv` is
`Core(k, {k.pcb}, {})`. Each function of the C code has one lemma about `Core`: `ReadyCore`
takes a process out of `X`, `NextCore` makes one running when `R` is empty, `BlockCore`,
`UnblockCore`, `CleanupCore`, `CreateCore`, `SetPrioCore`, `ValueCore`. `StepInv` then has one
step for each action, which chains the lemmas in the order the handler calls the functions.
The calls outside the workload are disabled by their own guards (`Kill` and the others by
`UserCall`; a process is never `Killed` since `frames` is empty). TLC checks the same
invariant, with ranks below the number of slots, in run `scheduler`.

*From ranks to lists.* The refinement reads each queue with `Chain`, a recursive function that
follows the pointers for `PCB_TABLE_SIZE` turns. `QueueLemmas` shows by induction on the natural
numbers (`NaturalInduction` in `Recursion`, stated for a set of numbers, and `LoopExists`, that a function
defined by such a recursion exists) that the chain of a queue lists its members, each once,
first to last (`ChainLists`): the chain cannot end early, as only the last member's `next` is null, and cannot
run in a circle, as ranks grow. Such a listing is the only one (`ListingIsChain`), so the effect of a
function on a list needs no second induction: one exhibits a listing, and it is the chain. Links
outside a queue do not matter to it (`ChainFrame`), linking a process behind the tail appends
it (`ChainAppend`), moving the head to its `next` takes the tail of the list (`ChainTail`).

*The refinement.* `SchedulerProofs` has a lemma for each function (`ReadyJoins`,
`NextDispatched`, `BlockJoins`, `UnblockLeaves`, `CreateJoins`, ...) that gives its effect on all lists,
and a lemma for each action:

| Action of `Kernel` | Step of `PriorityScheduler` |
|---|---|
| `Create` | `Create`, or a stutter when no slot is free |
| `Yield`, `Stop`, `SetPrio` | `Yield`, `Stop`, `SetPriority` |
| `P(s)` | `Take(s)` when the value is not 0, else `Block(s)` |
| `V(s)` | `Release(s)`, keeping the unit or passing it to the first of the highest list |
| `TimerInt` | `Yield` of the running process; a stutter when it is the idle one |

`IInv` is not enough for this. Where `P` takes a unit or blocks, nothing of the abstract
scheduler asks who else waits, but `SemaphoreQueues` does; and a timer interrupt of the idle
process is a stutter only if nobody is ready. So `QIInv` is `IInv` with `Served` (no list of a
semaphore with units has a member) and `Conserved` (all ready queues are empty while the idle
process runs), and `StepQueues` proves that each step keeps `QIInv` and is a step of the abstract
scheduler or a stutter. `SchedulerReadyQueues` and `SchedulerSemaphoreQueues` then follow from the
listings.

### Every workload

`KernelEffects` assumes nothing of the queues: they may be broken or cyclic. For each C function
it says only which fields the function may change and between which states a process may go; `Turn(k, S, k')` is the
effect of the calls that create, kill and signal nobody. `Active(m)` (the types, and that the process
resumed is running or ready unless `fault` is set) is inductive with that, and so is
`DistinctPids`: `create` gives out `pcb_id` and increments it, and nothing else writes a `pid`. The loops of
`tick`, `restoreToReadyQueue` and their like are recursive functions; what each turn
keeps, all turns do (`LoopExists` and induction).

`SignalProofs` adds `HandlerIInv`: the frames of each slot are nested, each has the distance to the
signal below it, and the mask is the set of the signals from the running handler's up
(`From(Base(frames))`). That the mask is of this form, and not any set, is why shifting it left by the
distance and right again, with the sign bit copied in, gives it back (`MaskShifts`); a slot nobody owned yet has no mask, and
is told apart by lacking a handler for the kill signal. `PendingIInv` adds `DistinctPids`, since `SYS_SIGRETURN`
sends the remembered signal to the pid of its caller, and for each slot that remembered signals have handlers, are
masked, and are none where no process has been.

`DeviceProofs` adds to `Active`, `DistinctPids` and `Owned` (a stopped slot has no stack) the
relation `Devised` of the two memories:

- `Described`: one descriptor refers to the keyboard while it is on and none while it is off,
  its slot is `kbd.pcb`, the interrupt line follows `state` and `eof_flag`;
- `Buffered`: the buffer holds at most `BUF_LEN` characters, and an end of file is the last of them;
- `Counted`: in each context of each process the result and the text of the last call agree;
- `Requested`: a blocked reader is the owner, its request is for the context it was made in, it is short of
  what it asked for, and the buffer is empty.

Each disturbs the others: a key completes a request, which changes `rc` and a text, of a
process that a signal may have taken out of the read before, whose handler may have closed the keyboard. `Framed` is what does not depend on who waits; it
lets the operations, which change one memory and then the other, be followed one function at a time. `BlockedReader` and
`Requested` except an end-of-file character that a key gives (section 5).

`KeysInOrder` is about the history variable `typed` of `Reading`: it is the waiting reader's part and then the driver's
buffer (`Unread`). `RIInv` adds to `DIInv` that equality, and that a keyboard that is off has an
empty buffer, without which the next owner would read what the last one left. Each action is shown to do one of
three things to what was typed, and each operation of `Devices` to do it at its own level:

- `Passes`: the driver's buffer, the owner and the waiting reader's text stay. A reader that a signal takes out of its
  read has the count of its text in `rc`, which is where `Requested` is needed;
- `Moved`: characters go from the front of the buffer to the end of the owner's text, in a read or when a key is served;
- `Toggles`: the keyboard is opened or closed, while nobody waits.

### Memory

The properties are about what chains of links lead to, so once more the invariant is local. `MIInv` says that until a
slot is torn there is a set `L` of slots, those in the free list, such that (`Sound`, `AtHead`, `MergedBut`):

- `Chained`: the `next` of a slot of `L` is the next higher slot of `L`, or null when there is none, and `prev` is the inverse;
  `memList` is the slot without a `prev`. Addresses themselves are the ranking here;
- `Outside`, `Unowned`: slots outside `L` have no link into it, and no slot has a link to an owned one, which has none itself;
- `Laid`: slots are apart, inside their region, and where one ends another begins or the region ends; their sizes are whole
  grains above the hole, and below it if that region is (`Graned`);
- a slot of `L` ends before the next of them begins;
- `Owners`: the marked slots are those that processes own, with room for what they asked for, unless its rounding wraps (`Fits`);
- `Whole`, until `dropped`: what is not owned is in `L`.

That `L` is not all the slots that are free, and that those outside it keep links among themselves, is what an exact fit
of the last slot leaves (`c/memHeader.c:33`). All but the last two conjuncts and the merging are kept by each function by itself. `Exact`, `Cut`,
`Inserted` and `Absorbed` state what the two ways to allocate, the insertion and the merge with one neighbour change, field by field; `ExactIs`, `CutIs`, `InsertIs`,
`AbsorbIs` show that the functions do that; `ExactSound`, `CutSound`, `InsertSound`, `AbsorbSound`
show that it keeps `Sound`. In `kfree` two neighbours may touch between the insertion and the two merges; `MergedBut(m, L, S)`
excepts the slots `S`, first the freed one and the one before it, then one of them, then none.

`FreeList` and the loop of `reallocateMemPtr` are recursive functions over the slots themselves. That they exist
follows by induction on the address (`RecursionExists` in `Recursion`), and `FreeListIs` shows that the list has every slot of `L`,
in order. `NothingLost` then comes from `Laid` by taking the last slot at or before an address (`SlotBefore`), and `FreshWhenEmpty` from
`RegionsWhole`: a region whose slots are all in the list, none touching the next, is one slot.

Why a slot is torn is seen where `Cut` is shown to keep the invariant: the rest must have room for its header, that is, the slot
exceeds the request by `MEM_HEADER_SIZE` at least (`TearsSlot` is the contrary). With sizes of whole grains that is so, as
both sizes are multiples of the grain and not the same and the header is one grain (`TakeWhole`); with an odd region it need not be. So `MIInv` has two more
conjuncts: `torn` leaves nothing to keep, and a lower region of whole grains is never torn, which is `WholeGrainsNotTorn`.

### Only model-checked

- Liveness (`TopPriorityRuns`, `NoPassing`), which is out of the prover's reach.
- `RankedIInv`, the bounded form of `IInv`, which TLC can evaluate.
- Sleeping and waiting (`WakesOnTime`, `WakesOnlySleepers`, `JoinComplete`, `JoinSafe`), and the refinement
  with suspended processes: the delta list and the waiters' lists keep stale pointers, so their
  invariants hold only as long as certain requests are not made.
- What a signal does to the lists (`BlockedKeepOrder`, `SleepersKeepTime`), for the same reason.
- The programs of `Shell`, and the library, most of whose functions are recursive.

## 5. Where code and documentation disagree

Three are runs that TLC finds violated: `two_waiters`, `stale_slot` and `lost_sleeper` (`findings` in `PROJECT.json`). Others were met while modelling, and the model has
them as the code does:

- `c/signal.c:127` assigns `wait_tail` to itself, so a third waiter unlinks the second.
- `c/create.c:47` also leaves `wait_head`: when the new owner of a slot stops, a process
  that waits for something else may be made ready.
- `c/sleep.c:72`: a sleep of 0 ms is counted down from 0 to the largest unsigned value; the
  test at line 75 is never true.
- `c/sem.c:161`, `c/sleep.c:110`: the new head's `prev` keeps pointing to the process that
  left, and `removeFromBlockQueue` and `removeFromSleepQueue` judge the position of a process by it; with three
  processes, one that is signalled stays at the head of the list it left: under `CautiousNext` with P, V and kill
  TLC finds `SemaphoreQueues` violated.
- `c/signal.c:55`: signal 31 is delivered to the idle process, although `Testing.txt:227`
  says that signalling it fails (the test uses a signal without a handler).
- `c/disp.c:126`: a remembered signal whose handler has been removed stays the highest and
  keeps lower ones from being sent again.
- `c/memHeader.c:33`: when the last of several free slots fits exactly, `memList` becomes
  null and the free slots before it are in no list from then on: without `dropped`, `NothingLost` is violated.
- `c/memHeader.c:38`: a slot with no room for a header besides the request is split all
  the same and the size of the rest wraps. It takes a slot whose size is not a multiple of
  16: `kmeminit` rounds the size of the upper slot and not that of the lower one. The run `memory` reaches it (`Broken`).
- `c/mem.c:43`: rounding up wraps for a size within 15 bytes of the largest, which the
  kernel's own callers never ask for. Without its exception `RoomForStack` is violated.
- `c/sleep.c:88` stores to a null `dl` when the last sleeper wakes; not modelled, since the
  address is not the kernel's data.
- `c/kbd.c:244`: the end of file is told from a key by `eof_flag` only. A process that
  sets its end-of-file character to one that can be typed may be left
  blocked: the key is taken for the end of the file after the keyboard has been silenced.
  Without its exception `BlockedReader` is violated.
- `c/kbd.c:233`: the comment says that `buf_copy` copies the maximum of its two lengths; it
  copies the minimum, as its callers need.
- `c/signal.c:85`: a process that signals itself has the `rc` of its previous call saved, which its
  `syskill` then returns when the handler is done.
- `c/kbd.c`: `EXTESC` has the bit `KEY_UP`, so `kbtoa` takes it for a released key; the
  branches for extended keys are never reached. Releasing one of two shift or control keys clears the
  flag for both; caps lock works like a shift key that is held; alt with a key that has no
  character gives 0x80.
- A process that stops with the keyboard open leaves it taken: `cleanup` closes nothing.
- `c/zerorand.c:46`: the comment says that each byte of a read from the random device is
  random. `rand` has 15 bits, so the third and the fourth of every four bytes are zero.
- `c/user.c:149`: all alarms share `milliseconds`, which a process reads when it first runs;
  a second `a &` typed before that changes the first. `Shell` has the race; nothing promises an outcome.
- `c/user.c:401`: the comment says that `&` is ignored only as the last character; the
  tokenizer leaves it out wherever it is: the line `a&a` has the one word `aa`. `WordsOfLine` speaks of the words of lines that have it only
  at their end. A line that begins with a blank or `&` gives an empty first word.
- `c/user.c:284`: `k 1` kills root and `k 0` the idle process; there is no test.
- `lib/libxc/doprnt.c:42`: a binary number may need 33 characters of a string of 20.
  `lib/libxc/doprnt.c:196`: an unknown conversion also prints whatever is in that string.
  `%-0` pads a number on its right with zeros.
- `lib/libxc/doscan.c:90`: a directive that does not match does not end the scan; the next one is
  tried at the same place. `lib/libxc/doscan.c:277`: the test for a set that is not closed
  is never true, since `c` has been incremented; such a format is read past its end.

## 6. Not modelled, and why

- The boot loader, the decompressor, assembly stubs, port and vector set-up, build files: they run
  before the kernel or access hardware and keep none of its state.
- `sysgetpid`, `sysputs`, `sysgetcputimes` with `getCPUtimes`, and the table that `p` prints,
  which only read. The command `test` and the programs of `c/test.c`: test programs, whose
  calls are among those the runs try in any order.
- The string routines of the library, which are plain loops over characters; floating point
  (`atof`, `ecvt`, which the kernel does not use); reading from a device (`getch` in `scanf.c`, which calls
  a `control` that the kernel does not define).
- Conversions of `Scan` that no input of `library` has: lengths, `*`, `h` and `^`.
- `setPriority` and `removeFromReadyQueue` are never reached (`signal` calls
  `removeFromQueue` only for processes that are neither ready nor running). A failing
  `kmalloc` leaves everything as it was.
- Bytes of stack frames, attributes of the screen, the probe for the display adapter.
- That a process writes where it should not, for example to the header beside its stack.

## 7. What is left

The scheduler came first, then sleeping, waiting, signals and memory, then devices, programs and
library; then the proofs of section 4. Worth doing next:

1. The scheduler's invariant extended with waiting when `MaxWaiters` is 1, and with sleeping
   until the first request that the delta list cannot record.
2. A run in which the keyboard's owner is a parent that waits for a child with descriptors of
   the other devices.
