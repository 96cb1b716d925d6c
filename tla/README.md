# Verification of the ART-Pi bootloader and its RT-Thread Nano kernel

The repository is the external-flash bootloader of the ART-Pi board (STM32H750):
`src/applications` brings a W25Q128 NOR flash into QPI, maps it at `0x90000000`
and jumps into it, on top of the kernel RT-Thread Nano 3.1.4 (`src/rt-thread`).
This directory holds TLA+ models of the parts of it that have state and
interleavings, TLC instances that check them, and TLAPS proofs about them.

Configuration (`src/rtconfig.h`, `src/drivers/board.h`): 32 priorities, 1000
ticks per second, `RT_DEBUG` assertions on; semaphores, mutexes and mailboxes are
compiled in, the heap is not (`RT_USING_NOHEAP`), nor are soft timers and hooks.
`RT_USING_DEVICE` is defined, but no driver of this configuration registers a
device, so the console falls back to `rt_hw_console_getchar` and
`rt_hw_console_output`. The shell is msh only, without history.
`BSP_QSPI_USING_EXAMPLE` and `BSP_QSPI_USR_MEM_MAP` are on. Events, message
queues, memory pools and the heap are in `src/` but configured out of this
firmware; they are modelled from their source as the kernel ships them.

## 1. Inventory

| Component | State | Operations | Interacts with |
| --- | --- | --- | --- |
| list, `rtservice.h` | `next`/`prev` of intrusive nodes | insert before/after, remove, is-empty | everything below |
| scheduler, `scheduler.c` | ready lists per priority, ready bitmap, current thread, lock nest | insert, remove, `rt_schedule`, enter/exit critical, start | called at the end of every kernel call and of the tick |
| threads, `thread.c` | state, priority, remaining ticks, thread timer, error number | startup, suspend, resume, sleep, yield, control, exit, detach, timeout | scheduler; timers (callback `rt_thread_timeout`) |
| CPU port, `context_gcc.S`, `cpuport.c` | PRIMASK, PendSV pending, switch flag, from/to thread, core registers, frames on the stacks | interrupt disable/enable, context switch, PendSV, stack set-up | scheduler |
| timers and tick, `timer.c`, `clock.c` | `rt_tick`, sorted timer list, ACTIVATED and PERIODIC flags | start, stop, control, detach, `rt_timer_check`, `rt_tick_increase` | callbacks from the tick interrupt |
| semaphore, `ipc.c` | value, wait list | take, release, control, detach | threads, scheduler, thread timer, interrupts |
| mutex, `ipc.c` | value, owner, hold, original priority, wait list | take, release, detach | the same, and the owner's priority |
| event, `ipc.c` | flag set, wait list, per thread what it asked for | send, recv, control, detach | the same |
| mailbox, `ipc.c` | ring, two offsets, count, two wait lists | send, send_wait, recv, control, detach | the same |
| message queue, `ipc.c` | chain of messages, chain of free blocks, count, two wait lists | send, send_wait, urgent, recv, control, detach | the same; copies with interrupts enabled |
| memory pool, `mempool.c` | free chain, first word of each block, count, wait list | alloc, free, detach | the same |
| heap, `mem.c` | chain of block headers, lowest free block, used bytes | malloc, realloc, free | its own semaphore |
| flash driver, `w25qxx.c` | `w25qxx_mode`, 4 KB sector buffer, the chip | init, mode changes, read, write, erase, memory mapping | HAL, chip |
| HAL polling calls, `stm32h7xx_hal_qspi.c` | `hqspi.State` | command, transmit, receive, memory mapping | flash driver |
| boot, `main.c` | `qspi_ready`, caches, SysTick | main | flash driver |
| shell, `finsh/` | line buffer, two positions, key state, command table | key loop, completion, execution | console |
| console, `drv_usart.c` | one received byte | poll, output | shell |
| QSPI device, clock set-up, device layer, HAL | registers | initialisation, transfers | hardware |
| kernel objects, services | containers, strings | init, detach, format | everything |

What is hard about it, and what correctness means:

* **One core, but interrupts everywhere.** Every kernel call is a chain of short
  critical sections; a tick, a timeout or a release from an interrupt may fall in
  any window between them. *Correct*: ready lists, bitmap and thread states
  describe the same set of threads; the CPU goes to the most urgent ready thread
  unless the scheduler is locked, and equals share it; a timeout always finds a
  suspended thread.
* **A context switch is only requested.** Until PendSV runs, the old thread
  executes and further requests change the target. *Correct*: the thread that is
  saved is the one that executes, and nobody sees another thread's registers.
* **A thread is put on a wait list before it stops running.** A release, its
  timeout, a reset or a detach may find it there before it has called
  `rt_schedule()`. *Correct*: a token, mutex, flag, mail, message or block goes to
  exactly one thread, a woken thread is in no list, nobody waits beside what it
  waits for.
* **Calls in several critical sections.** The message queue copies between two of
  them, `rt_realloc` grows in three, and a woken receiver may find its mail gone.
  *Correct*: queues behave as bounded queues, every block is in one place, a user's
  bytes stay its own.
* **Priority inheritance.** *Correct*: no waiter is more urgent than the owner,
  the most urgent waiter gets the mutex even if middle threads compute for ever,
  and a boost ends.
* **Wrap-around of the tick** and callbacks that stop, restart, re-time or detach
  the timer that is just firing. *Correct*: a timer fires in the tick it is due,
  the list keeps timers of one tick in the order they were started, the check ends
  unless its callbacks start due timers for ever.
* **A flash chip that remembers its mode while the MCU does not**, driver calls
  that report their failures to nobody, a HAL that refuses everything once a
  command has timed out, and an erase unit (4 KB) other than the program unit (256
  bytes). *Correct*: chip and driver agree on the mode before a mode-dependent
  command matters; a write stores its range and preserves the rest, or spoils only
  where the failure happened; `main` jumps only into the mapped window.
* **A polled console.** Escape sequences arrive byte by byte, with polls that find
  nothing in between, and a line that fills the buffer is given up without being
  cleared. *Correct*: the command that runs, and its arguments, are those of the line
  that was edited.

`PROJECT.json` lists every hazard with its line and the properties aimed at it.

## 2. Modules

| Module | Models | Composes |
| --- | --- | --- |
| `RtList` | the list as a sequence of nodes | |
| `RtSched` | `scheduler.c`, `thread.c`, tick and thread timeouts of `clock.c`, start of the system | `RtList` |
| `RtSwitch` | the CPU port: masks, requests, PendSV, the frames with and without FPU registers | |
| `ThreadContexts` | abstract: every thread has registers of its own | implemented by `RtSwitch` |
| `RtIpc` | what the objects share: thread states, wait lists, block, wake, dispatch, sleep, timeout | `RtList` |
| `RtSem`, `RtMutex`, `RtEvent`, `RtMailbox`, `RtMsgQueue`, `RtMempool` | the object of that name, with the threads, interrupts and timeouts that use it | `RtIpc` |
| `MailQueue`, `MessageQueue` | abstract: bounded FIFO queue; the same with urgent messages | implemented by `RtMailbox`, `RtMsgQueue` |
| `RtTimer` | `timer.c` on a wrapping tick | `RtList` |
| `TimerService` | abstract: a countdown in real time | implemented by `RtTimer` |
| `RtHeap` | `mem.c`: block chain, split, merge, `rt_realloc` in its steps | |
| `W25qWrite` | `W25QXX_Write` and what it calls, with the HAL's failures | |
| `W25qBoot` | `main`, `W25QXX_Init`, mode changes, memory mapping, HAL failures, resets of the MCU | |
| `Msh` | `msh_exec`: the command a line names, and its arguments, as functions of the line | |
| `FinshShell` | the key loop of `finsh_thread_entry` over the polled console | `Msh` |
| `LineEditor` | abstract: a line with a cursor, and what a line given up left behind | implemented by `FinshShell` |
| `MCSched`, `MCSem`, `MCMutex`, `MCTimer`, `MCShell` | instances for TLC | the module of the name |
| `MCObjects` | mailbox, event, message queue, memory pool and two ordered mutexes in one instance | those modules |
| `MCServices` | flash write, boot, heap, context switch and shell in one instance | those modules |
| `RtListLemmas`, `RtIpcLemmas`, `*Proofs` | theorems | see section 5 |

### How state and actions correspond to the code

* A region between `rt_hw_interrupt_disable()` and `rt_hw_interrupt_enable()` is
  one action, as is a whole interrupt. Where a call has interrupts enabled it is
  split, and `pc[t]` says in which window thread `t` is. Only the thread in
  `rt_current_thread` (`cur`) takes steps; the tick, timeouts and interrupts
  may come at any moment.
* A list is the sequence of the nodes reached from its head. A thread has one
  node (`tlist`), so removing it is one operation whichever list holds it. The
  chains of the message queue and the pool, whose links share memory with data,
  are modelled link by link.
* The layers rest on each other. `RtSwitch` shows that the CPU executes the
  current thread or is about to switch to it (`CpuFollowsScheduler`), which lets
  `RtSched` take a step of a thread only while it is `cur`. `RtSched` shows that a
  thread is linked exactly while it is READY and that `rt_schedule()` picks a top
  one (`ListsMatchStates`, `DispatchesHighest`), so in `RtIpc` a dispatch is any
  READY thread of the best priority and ready lists are not repeated there.
  `RtTimer` shows when a timer fires (`FiresOnTime`), so in the other modules an
  armed timer may fire at any moment.
* History variables: `credit` in `RtSem` counts tokens as users see them, `depth`
  in `RtMutex` the takes a thread was told succeeded, `owed` in `RtSched` that a
  call such as `rt_thread_resume` changed a ready list without rescheduling,
  `mqGot` and `taken` in the queue and the pool what a caller was given.
* `RtSwitch`: PendSV is two steps, because its entry takes the frame of the
  interrupted thread and its end returns to the frame of another; the FPU is the
  flag `fpca`, set by the first floating-point instruction of a thread.
* `RtHeap` counts offsets in words and marks the words a user holds, so that a
  header written into a user's data would be seen. A user refills what a
  `rt_realloc` gave back to it, also when the size stayed the same
  (`SameSize`).
* `W25qWrite` is one bus operation per action; a byte is `Blank`, `Old`, the
  caller's byte for that address, or `Junk` (programmed over something not
  blank). `W25qBoot` is one HAL call per action.
* `FinshShell` is one byte per action. A key is one byte or an escape sequence;
  a poll may find nothing (0xFF) before any byte. A NUL is dropped like 0xFF
  (shell.c:647). The buffer is modelled with what lies behind `line_position`: ENTER
  passes the buffer and a length, and `msh_split` writes a NUL behind every argument
  but one that reaches that length, so the last argument is read on to the next NUL of
  the buffer (`Overrun`). `ran` is the last line that was a command, with its arguments.
* `rt_timer_detach` and the `rt_object_detach` in it are one action (`Detach`).
* Definitions whose comment starts with *Mutant* are deliberately wrong
  variants of the definition below them. Nothing uses them in a specification;
  each breaks one property of one run, which shows the property can fail.

### The fault model

* HAL (`stm32h7xx_hal_qspi.c`): a call on a handle that is not READY is refused
  with `HAL_BUSY`; a timeout in `HAL_QSPI_Command` leaves the handle in
  `HAL_QSPI_STATE_ERROR`, so everything after it is refused until the next
  `HAL_QSPI_Init`; a timeout in `HAL_QSPI_Receive` or `HAL_QSPI_Transmit` does not.
  A failed command may or may not have reached the chip; a failed read leaves the
  rest of the buffer as it was. The driver ignores most results, and so do the
  models wherever it does.
* MCU: a reset at any step of the boot; the chip keeps its mode.
* Console: any poll may find no byte.
* Kernel: a timeout may come in every window in which interrupts are enabled, and
  releases, sends and frees come from interrupt handlers as well as from threads.

### What a pass takes as given

The kernel relies on its callers; where it does, the runs say so by a constant:

| Constant | Meaning | Without it |
| --- | --- | --- |
| `Serialised` (`RtSched`) | a thread is managed by one thread at a time, and not while its own timer runs | a timeout between unlink and timer stop of `rt_thread_detach` inserts a closed thread; `ListsMatchStates` fails |
| `MayEnd` (`RtSched`) | no thread ends itself with the scheduler locked | nothing would run in its place |
| `QuietDetach` (`RtSem`) | a semaphore is detached without timed waiters | finding `sem_detach` |
| `Ordered` (`RtMutex`) | mutexes are taken in rank order and released in reverse | `original_priority` of one mutex may hold a boost of the other and put it back for good |
| `ModeInCallback = FALSE` (`RtTimer`) | a callback does not change the mode of its own timer | finding `timer_mode` |
| the exception of `CheckEnds` (`RtTimer`) | callbacks do not for ever start timers of 0 ticks, and no periodic timer of 0 ticks stays started | such a timer is due at once and `rt_timer_check` never ends; the model has these starts, and every safety property and the refinement hold of them |
| `OverwriteAnywhere = FALSE` (`W25qWrite`) | only sector 0 is overwritten | finding `write_anywhere` |
| `QeFromFactory` (`W25qBoot`) | the chip's QE bit is set | `W25QXX_WriteSR(2, ..)` writes SR1, the chip stays in SPI, driver and chip disagree |
| guard of `TabKey` (`FinshShell`) | TAB only while `rt_strlen` finds a NUL in the buffer | after an overflow the buffer may have none, and completion reads past it |
| `Quote` (`FinshShell`) | no `"` is typed | `msh_split` keeps the blanks of a string in quotes, which `Msh` leaves out |

The other objects are detached without timed waiters; `RtSem` has that race, and
all of them share `rt_ipc_list_resume_all`.

## 3. Runs

| Run | Instance | Shows |
| --- | --- | --- |
| `sched` | tidle, a manager and two equal workers; 3 priorities, slices of 1 and 2 ticks, lock nest up to 1 | lists, bitmap, states and CPU agree in every window of startup, suspend, resume, detach (also of itself), sleep (also under the lock), exit; equals share the CPU |
| `sem` | 3 threads, two equal; value up to 2, reset to 0 or 1, interrupts that release | tokens and wake-ups conserved; the most urgent timed take returns |
| `sem_detach` | as `sem`, timed waiters at the detach (no other use of the semaphore meets it) | finding |
| `mutex` | 3 priorities, one mutex, nesting up to 2, detach | mutual exclusion through hand-over and timeout; inheritance; the most urgent thread gets it |
| `mutex_inherit` | 3 priorities, two mutexes in a lock order | finding |
| `objects` | 3 threads, two equal, FIFO wait lists; five parts, see below | queues implement queues, flags serve whom they satisfy, blocks stay in one place, boosts of nested mutexes end |
| `timer` | 3 timers of 0 to 2 ticks, `RT_TICK_MAX` 7, one of them re-timed, made periodic or one-shot, and detached | sorted list, flags, refinement of the countdown, the check ends unless callbacks start due timers for ever |
| `timer_mode` | as `timer`, mode changed in the callback | finding |
| `services` | five parts, see below | flash writes, boot, heap, context switch, shell |
| `write_anywhere` | overwriting outside sector 0 | finding |
| `boot_ready` | one failing HAL call, two resets | finding |
| `shell_keys` | the shell with empty polls | finding |

**Parts.** `objects` and `services` each put systems side by side that do not
interact. `part` is chosen in the initial state and never changes; every other
variable keeps its initial value. A state of such a run is a state of one part, so
a property of a part is checked exactly as in a run of its own, and a violation in
one part shows up as one in the run. `objects`: a mailbox of two slots, an event of
two flags with an AND, an OR and a keeping receiver, a message queue of two
blocks, a pool of two blocks, two mutexes taken in order (`ObjectsTypeOK` and
`NestedBoostEnds` say which part they are about). `services`: two sectors
of two pages of two bytes with one failing bus sector; the boot with one HAL
failure and two resets; a heap of 12 words with two users that hold up to two
blocks each; three threads with switches and FPU use; a shell with a line of four
characters, two commands of which one is a prefix of the other, up to two arguments,
and seven keys.

### Why the bounds are enough

* Three threads give every role at once: one inside a call, one waiting, one
  woken and not yet run, with a pair of equals (round robin, FIFO among equals)
  or three priorities (a middle thread between owner and waiter). For the context
  switch, three threads let a request be replaced by one that is neither the old
  nor the first new thread.
* `value`, `hold`, ring, queue and pool are small so that their limits
  (`RT_SEM_VALUE_MAX`, `RT_MUTEX_HOLD_MAX`, `mb->size`, `max_msgs`,
  `block_total_count`) are reached and passed; every limit is a constant and the
  code only compares with it.
* `RT_TICK_MAX` is 7, so the tick wraps every 8 ticks, and timeouts stay below the
  half range as `rt_timer_start` asserts. With three timers one can be before,
  at and after another when it is removed or restarted.
* Two sectors of two pages of two bytes give ranges that begin or end inside,
  at, or across a page and a sector, and that skip none, one or both. The code
  uses the sizes only through `/`, `%` and comparisons.
* A heap of 12 words with a header of 2 and requests of 1, 2 and 4 holds three
  blocks: one can have a free, a used, or no neighbour on either side, and requests
  split, use whole blocks and fail.
* A line of four characters is reached by every kind of key, overflows, and lets
  the cursor be before, inside and after the text. It holds up to two words, so a
  line has no, fewer, or as many arguments as `FINSH_ARG_MAX`, and what an overflow
  left is read on from a first or a second argument.
* One failing HAL call reaches each error, and as a timed-out command it makes all
  that follow fail; two resets reach a boot that starts from what an interrupted
  one left.
* `VIEW`s drop values that are written before they are read again (the settings
  of an unused timer, the error of a thread outside a call, an empty slot, a free
  word of the heap, the locals and the buffer of a write that is past them), and what
  a caller was given (`ran`, `got`, `mqGot`), which no action reads. No invariant of
  those runs reads a dropped value, except for its type; the refinements do
  read `ran`, `got` and `mqGot`, but only what a step writes to them, and TLC checks each
  step it generates before it compares the new state with those seen. The parts that
  do not run contribute nothing to the view, since they never change.

### Fairness

* `WF(tick)` in `sched`, `WF(Interrupt)` in `timer`: SysTick is a hardware timer,
  and the check of a tick runs with interrupts disabled.
* Fairness of `InCall(t)`: a thread that has the CPU gets on with the kernel call
  it is in. Weak in `sched` and `sem`, whose most urgent thread is never
  preempted; strong in `mutex`, where an owner is preempted again and again
  yet gets the CPU back.
* `WF(Timeout(t))`: an armed timer fires, which `RtTimer` shows (`FiresOnTime`).
* `SF(LetGo)`, `SF(ReleaseNested)`, `WF(ExitCritical)`: the application's part. No
  kernel call helps when the owner of a mutex never releases it.
* `WF(Boot /\ UNCHANGED halFaults)` in the boot part: the CPU goes on executing
  `main`, and a failing HAL call is never owed.
* No fairness is assumed of application calls otherwise: a thread may compute
  for ever. The other parts of `objects` and `services` are checked for safety and
  refinement, without fairness.

## 4. Findings

| Run | What |
| --- | --- |
| `sem_detach` | `rt_ipc_list_resume_all` (ipc.c:169) tests the list with interrupts enabled; the timeout of the last waiter, which waits for a time, empties it before the take, and the list head is used as a thread |
| `timer_mode` | `rt_timer_check` (timer.c:574) keeps ACTIVATED on a timer that its callback made one-shot, though it is in no list |
| `write_anywhere` | `W25QXX_Write` (w25qxx.c:523) erases at the byte address `sec_pos`, a sector number: any sector but the first is not erased, sector 0 is |
| `boot_ready` | `main` (main.c:35) sets `qspi_ready` whatever the driver calls met, although the flag is documented as readiness of the mapping |
| `mutex_inherit` | `rt_mutex_release` (ipc.c:849) of one of two mutexes drops the owner's boost although a more urgent thread still waits for the other |
| `shell_keys` | an empty poll between the ESC and the `[` of a cursor key (shell.c:576) ends the sequence, and the rest of the key is inserted into the line as text |

One more has no run of its own, because the abstract specification states it: a line that
fills the buffer is discarded by resetting the positions (shell.c:760) and its bytes
stay, and `msh_split` (msh.c:182) does not end the last argument of the next line, so
the command gets those bytes with it. `LineEditor` keeps them in `left` and lets `Enter`
read on into them; `ShellEditsLine` shows that nothing else gets into an argument, and
nothing at all when no line was discarded since the last ENTER.

## 5. Proofs

TLC decides the instances of section 3. The theorems below hold for every value
of the constants that the named assumptions of the modules allow: any number of
threads, priorities, timers, mutexes, blocks, slots and flags, any page, sector
and heap size, any `RT_TICK_MAX`, both list orders (`ByPriority`), and all the
windows between critical sections that the models have. Every invariant and every
action property or refinement that a passing run checks is stated by one of them.

| Module | Proved |
| --- | --- |
| `RtListLemmas` | what `rt_list_insert_before`, `rt_list_remove` and taking the first node do to a list of any length: which nodes it holds afterwards, each once; least elements of sets of naturals (`LeastNatural`) |
| `RtIpcLemmas` | `rt_ipc_list_suspend` links a thread once, drops nobody and keeps the priority order; removal keeps the order; a dispatch gives the CPU to a READY thread or to tidle |
| `RtSchedProofs` | `ListsMatchStates`, `RunsHighest`, `TimeoutFindsSuspended` are invariants of `RtSched` and `DispatchesHighest` holds of its steps, when calls about a thread are serialised |
| `RtSemProofs` | `TypeOK`, `WaitersAreBlocked`, `NoWaiterBesideToken`, `TokensConserved`, `RunsHighest` are invariants of `RtSem` |
| `RtMutexProofs` | `TypeOK`, `FreeOrOwned`, `MutualExclusion`, `WaitersAreBlocked` are invariants of `RtMutex`; so are `OwnerInherits` with one mutex (`OneMutex`) and `BoostEnds` with mutexes taken in order and not detached (`Nested`) |
| `RtTimerProofs` | `SortedList` is an invariant of `RtTimer`, and it implements `TimerService` (`FiresOnTime`); `ActiveMeansLinked` is one when callbacks leave their own mode alone |
| `RtObjectsProofs` | mailbox: types, `RingConsistent`, `NoLostWakeup`, and it implements `MailQueue`; event: types, `EventNoneOverlooked`, and `EventGivesOnce` of its steps; memory pool: types, `BlocksConserved`, `MpNoLostWakeup`; message queue: types, `BlocksInOnePlace`, `MqNoLostWakeup`, and it implements `MessageQueue`; `ObjectsTypeOK` and `NestedBoostEnds` of `MCObjects` |
| `ServicesProofs` | context switch: types, `CpuFollowsScheduler`, and `RtSwitch` implements `ThreadContexts`; boot: `ModesAgree`, `JumpsToImage`; flash writes: `SplitRespectsPages`, `DamageIsLocal`, `WriteStores` (the last two in `SafeUse`); heap: `HeapWellFormed`, `HeldStaysIntact`; shell: `FinshShell` implements `LineEditor` |

**Assumptions.** Each module that declares constants has one named assumption
about them (`IpcAssumption`, `MutexAssumption`, `SemAssumption`,
`MailboxAssumption`, `EventAssumption`, `MsgQueueAssumption`, `MempoolAssumption`,
`SchedAssumption`, `SwitchAssumption`, `TimerAssumption`, `HeapAssumption`,
`WriteAssumption`, `BootAssumption`, `MshAssumption`, `ShellAssumption`,
`NestedAssumption`), which
TLC evaluates in the runs. They say that threads, interrupt handlers and null
values are apart, that priorities and limits are natural numbers, that the page
size divides the sector size, that threads, blocks and slots are finitely many (they are
counted), that no command name is as long as the line and that no key is a quote.

**Hypotheses.** Some theorems have one, because the code relies on it (section 2,
*What a pass takes as given*) or because the property is about such a use:

| Theorem | Hypothesis | Why |
| --- | --- | --- |
| `RtSchedProofs` | `Serialised` | a thread is managed by one thread at a time |
| `MutexOwnerInherits` | `OneMutex`: one mutex, `RT_IPC_FLAG_PRIO` | with two the finding `mutex_inherit` refutes it; in FIFO order the next owner need not be the most urgent |
| `MutexBoostsEnd` | `Nested`: `Ordered`, no detach | without the order a boost outlives its mutex; `rt_mutex_detach` does not restore the owner |
| `FlagMeansLinked` | `ModeInCallback = FALSE` | finding `timer_mode` |
| `WriteDamageIsLocal`, `WriteStoresInSafeUse` | `SafeUse`: `OverwriteAnywhere = FALSE`, no more sectors than bytes in a sector | finding `write_anywhere`; with `Sectors <= SectorSize` (W25Q128: 4096 of 4096 bytes) the sector number that the driver erases at always lies in sector 0 |
| boot theorems | `QeFromFactory` | `W25QXX_WriteSR(2, ..)` writes SR1 |

The proofs about exclusion and waiting on the mutex need neither `Ordered` nor
quiet behaviour of the application, those about the semaphore do not need
`QuietDetach`; they say nothing of what follows once the drain of `sem_detach` has
met the empty list, where the model has no next step. The other objects are
detached without timed waiters, as in their runs.

**The inductive invariants.** The checked invariants are not inductive as they
stand. `rt_mutex_release` gives a mutex to a waiter, and `rt_sem_release` a token,
before that thread runs again; what makes this safe is spread over the thread's
state. `Handshake` adds it: a thread with an armed timer is suspended (so the
timeout of a thread that was handed something cannot come any more), a thread in
a wait list has error number `RT_EOK` (so only a wake-up without a reason to fail
is a grant), and a thread that runs and has left its wait is READY (so
it was taken off the list). With it every action preserves the conjunction; there
is one lemma per action, and one that puts them together. The mailbox (`BoxInv`),
the event (`EvInv`), the pool (`MpInv`) and the message queue (`MqInv`) have the
same kind of invariant about their own lists.

**The scheduler.** `ListsMatchStates` needs three more parts. `Calls` says what holds
of a thread while another one is inside a call about it: it stays SUSPEND, without a
timer and off the CPU while it is resumed, so `rt_schedule_insert_thread` never
links a linked node; it stays out of every list while it is detached. `Current` says
that the running thread was started and is SUSPEND only under the scheduler lock or
on its way to `rt_schedule()`. `TimeoutFindsSuspended` makes the tick's insertion one
of an unlinked thread. Serialisation enters in one lemma, `Unmanaged`. `RunsHighest`
then follows from what insertion and removal do to the list `rt_schedule()` looks
at: the bitmap's lowest priority exists because the natural numbers are well-founded
(`TopFacts`), and taking out a thread other than the picked one leaves the pick
alone (`PickKept`). That tidle is always linked (`IdleLinked`) is why a pick always
exists.

**The context switch.** `CpuFollowsScheduler` is inductive beside the types. The
refinement needs it at one point: PendSV stores the core's registers on the stack of
`rt_interrupt_from_thread`, and because that is the executing thread the
registers of every thread, wherever they are, stay the same.

**The boot.** `FaultlessInv` gives, step by step, the mode of chip and driver
and the HAL's state while nothing has failed; `JumpInv` what holds whatever failed.
Failures are counted and never forgotten, so the two do not interfere.

**Priority inheritance.** `InheritInv`: the wait list is sorted, and no thread in it is
the owner or more urgent than it. Hand-over keeps this because the next owner was
the head of the sorted list. `BoostInv`: of the mutexes a thread owns, the one of
lowest rank (`First`) remembers the thread's own priority, and a thread that owns none
has it. A waiter asks for a higher rank than that of anything it owns
(`AsksUpwards`), so a mutex handed over to it is its first only if it owned
none; giving back the first one means that no other is left.

**Counting tokens, mails and blocks.** `TokensConserved` equates `credit` with
`value` plus the number of threads that were woken with a token and have not
returned. Each step leaves that set alone, adds one thread (a release that finds a
waiter) or removes one (the return of the take), which `SameCarriers`, `OneMore` and
`OneLess` turn into its cardinality. The lost wake-ups of mailbox, queue and pool
are counted the same way. `RunsHighest` of `RtSem` needs `HighInv`: whoever is READY above the
running thread was woken by somebody who has yet to call `rt_schedule()`.

**The ring.** `Contents` reads the ring with `%`. `Wrapped` and `SlotFacts` replace
it by one subtraction; `PutRing` and `TakeRing` then show that a send appends to
the sequence and a receive takes its head, at every offset and also when the box
is full. A sender that was woken tries again with the mail it went to sleep with;
`SendersHoldMail` says it still has it. Every action is one of `Put`, `Get` and
`Clear` of `MailQueue` or stutters, so the refinement follows step by step.

**Chains in shared memory.** The free chain of the pool and the two chains of the
message queue share their link words with data. `PoolInv` and `BlockInv` say that
there are sequences of blocks, each once, along which the words link, and that the
blocks nobody has are exactly theirs; then a push or a pop is an operation on
a sequence. The messages of the queue (`MqImplementsQueue`) are the texts along the
first of them, which copies with interrupts enabled do not touch, because a
block that is copied is in neither chain.

**The timer list.** Deadlines are compared by unsigned subtraction, so the list is
sorted by the time left, and stays so only while no deadline is half the range of
`rt_tick` ahead, nor more than the tick late that is being checked: `Near`, the heart
of `ListInv`. `FlagInv` relates ACTIVATED to the list. A step of the list is then a step of
the countdown, whose counters are the times left. `TimerService` states no fairness, so this
refinement is safety and provable; that the check ends is not.

**Flash writes.** `WriteInv` follows the cursor through the nested loops of
`W25QXX_Write` and `W25QXX_Write_NoCheck`: what remains in the page, the sector and the range
always add up. `DamageInv` says that the sectors ahead are as they were, that those
passed hold the range or, after a HAL timeout, are as they were, and how much of the current one is
programmed. A sector is only spoilt by a bus failure in it (`hit`).

**The heap.** `HeapInv` is `Sound` and `Owned`. `Sound`: the headers along `next` form
an increasing chain to `heap_end` whose `prev` links lead back, no two neighbours are
free, `lfree` is the lowest free one and `used_mem` the room of the used ones. `Owned`: the
blocks in use are exactly those given out, one each, and the words behind their
headers hold what their owner wrote. A block chain is given by its *set* of
headers (`BlockChain`), so that split and merge add or take one element (`IsCut` and
`Resized` name the two effects), and no induction along the chain is needed.

**Recursive walks.** The heap's first fit, the walk of `rt_event_send` and the
search in the timer list are recursive functions on the natural numbers. What is
needed of them is proved by the least counterexample (`LeastNatural`): if the walk
missed something, there would be a first place where it did, and the step before
contradicts it.

**The shell.** `LineInv` is inductive: the characters before `line_position` are not
NUL, the cursor is in the line, and what an overflow left behind the line comes after
any NULs there (`NulsFirst`), so that it is one sequence, `Behind`: `LeftAt` and the
lemmas on it say that a key leaves it alone or takes its first byte, and `OverrunFacts`
that the last argument is read on into nothing else. What the key handlers do to the buffer by moving bytes is what
`InsertAt` and `RemoveAt` do to its text (`InsertedText`, `RemovedText`). For TAB,
`rt_strlen` of the buffer is `line_position` exactly if a NUL follows the line, the
longest common prefix of the matching commands exists because it is bounded by any of
them (`CompletionFacts`), and it begins with the line.

**The shared runs.** In `MCObjects` a behaviour of one part is a behaviour of
that object (`OnePartRuns`), so its invariants follow from theirs; its two mutexes are
an instance of `RtMutex`, whose theorems come from the same instance of
`RtMutexProofs` (`SameMutexes`, `MutexesFit`).

### What is only model-checked

* Liveness: `EqualsShare`, `UrgentTakeReturns`, `UrgentGetsMutex`, `CheckEnds`,
  `BootPartEnds`. The prover does not reason about fairness and ENABLED.
* The findings of section 4 are counterexamples of TLC; there is nothing to prove.
* The runs go through the parts of `MCServices` and `MCObjects` side by side; the
  theorems about `MCServices`' parts are stated for each part's own
  specification.

## 6. What is not modelled, and why

Most of the 440 000 lines under `src/` are the vendor's HAL and CMSIS headers, of
which the firmware calls a few dozen functions. They are register programming
without interleavings of their own; the models take from them what their callers
can observe. The map therefore covers the kernel, the drivers' own logic and the
application, and a small share of the whole.

* The QSPI device driver (`drv_qspi.c`): its registration is compiled out by
  `BSP_QSPI_USING_EXAMPLE`, and nothing in the firmware calls it. The device layer
  (`device.c`): nothing registers a device. Clock set-up: straight-line HAL calls.
* Kernel objects and services: containers without interleavings of their own,
  string formatting. An object's membership is `alive` or `known` in its module.
* Of the scheduler: `rt_thread_delay_until`, the defunct list (without a heap
  nothing enters it), the cleanup callback, stack checking. Waiting on objects with
  the scheduler locked: a thread sleeps so in `RtSched`, but the modules of the
  objects have no lock.
* Of the timers: `rt_tick_set`, which nothing calls, and soft timers, which are
  compiled out.
* Of the shell: strings in quotes on a command line, a TAB on a buffer without a NUL,
  the output of the commands, and the history, which is compiled out.
* Of the CPU port: `HardFault_Handler` and its exception hook, which print and stop.
* Of the flash driver: `W25QXX_ChipErase`, `W25QXX_MftrDeviceID`,
  `W25QXX_UniqueID`, which nothing calls; the chip's write enable latch.

## 7. Plan

1. Safety below the liveness properties: a variant for each that ends in a bounded
   number of steps (the timers `rt_timer_check` may still fire in one tick, the
   commands of the boot), proved to decrease, which leaves only the fairness to TLC.
2. `RtMutex`: what holds of inheritance with several mutexes, as far as finding
   `mutex_inherit` leaves something to prove, and after `rt_mutex_detach`.
3. The layers as theorems: the thread layer `RtIpc` as an abstraction of `RtSched`,
   which the modules of the objects take from its invariants by argument.
4. New models: `drv_qspi` and the device layer's open and close counts, should a
   configuration register them.
