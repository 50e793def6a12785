# A formal model of xtremkernel

xtremkernel is a small preemptive kernel for the LPC1768 (one ARM Cortex-M3
core) with a PS/2 keyboard, a terminal, an SD card and a FAT file system on top of it. This
directory holds TLA+ modules translated from its C and assembly sources, TLC
configurations that check them on small instances, and TLAPS proofs of safety
properties of every component modelled, for all sizes, and of what five of them promise as refinements. `PROJECT.json` lists the runs, which
definition models which lines, the known hazards and the properties that answer
them.

To check a run: `tlc -config X.cfg M.tla`. To check the proofs: `tlapm M.tla` for M in
`KernelProofs`, `SchedulerProofs`, `SemaphoreProofs` (each of these rests on those before it),
`TaskExitProofs`, `MutexProofs` (on the first), `SdProofs`, `ShellProofs` and `ComponentProofs`.

## The system

| Component | Source | State | Operations | Modelled in |
|---|---|---|---|---|
| Scheduler | `task.c`, `kernel.c` | ready lists by priority and their bitmap, list of timeouts, `next_task_to_run`, `current_running_task`, the TCBs | `create_task`, `sleep`, the tick, the timer task, `set_task_as_runnable`, `task_to_non_runnable`, `task_curr_to_wait_action`, `task_wait_complete` | Kernel, Scheduler, PriorityScheduler, SleepTiming |
| End of a task | `task.c`, `hardware.c`, `launch_os.s` | the same | `exit_task`, `switch_context_exit` | TaskExit, ExitLinks, Mutexes |
| Interrupts, context switch | `launch_os.s`, `kernel.c` | PRIMASK, the pending bit of PendSV, the running task | `SysTick_Handler`, `UART0_IRQHandler`, `PendSV_Handler`, `switch_context`, `int_exit` | Scheduler |
| Queues | `utilities.c` | two pointers per link | insert, remove, contains, empty | Queues, QueueLists, Lists |
| FIFO | `utilities.c` | array, two indexes | `fifo_add`, `fifo_read` | Fifo, BoundedFifo |
| Keyboard | `keyboard.c` | place in the frame, code so far, "next is a release"; ring of 20 characters, two indexes | `EINT3_IRQHandler`, `read_character_in_buffer` | KeyboardFrames, Keyboard |
| Shell | `main.c` | line buffer | collect a line, execute it | Shell |
| Load statistics | `kernel.c` | `idle_count`, `current_performance` | idle loop, `calc_performance` | Performance |
| Semaphores | `semaphore.c` | count, wait queue | create, delete, signal, acquire, polling variants, variants for interrupt handlers | Semaphores, CountingSemaphore |
| Mutexes, priority inheritance | `mutex.c`, `task.c` | locker, wait queue, links of held mutexes | lock, try, unlock, delete, hand-over | Mutexes |
| SD card | `sd.c`, `spi.c` | chip select, error code, block buffer | reset, read block | SdCard |
| Terminal | `terminal.c`, `spi.c` | cursor, screen buffer, picture memory | put char, scroll | Terminal, ScrollingWindow |
| Block device, mount | `fat/src/diskio.c`, `pff.c` | mounted volume | `disk_initialize`, `disk_readp`, `pf_mount` | Mount |
| Files | `fat/src/pff.c` | open file, place in it | `pf_open`, `pf_read` | FatFiles |
| UART output | `uart.c` | transmit FIFO | `send_data_uart0_str` | Uart |
| Number and string utilities | `utilities.c` | static buffer | `itoa`, `x_strcmp` | Utilities |
| Memory, start-up, FatFs, CPU headers | `memory.c`, `hardware.c`, `*.s`, `fat/ff.c`, `fat/option/`, `cpu/`, `LPC176x.h` | – | – | not modelled |

How they interact. Everything runs on one core. SysTick comes every millisecond;
its handler rotates a ready list when a slice is over, makes the timer task (the
only task of priority 0) runnable and next, and pends PendSV. PendSV saves the
registers of the running task and loads those of `next_task_to_run`. The timer
task creates the application's tasks once, then in a loop masks interrupts,
walks the list of timeouts, counts each one down, wakes those that ended, and
waits for the next tick. Application tasks call `sleep`, which unlinks the caller from
its ready list, chooses the next task, enables interrupts and *then* pends
PendSV. The shell is an application task that polls the keyboard's ring, which the keyboard
interrupt fills; its commands use the terminal and the SD card, which share
one SPI bus with a chip select each. The idle task counts its turns for the load figure.

What is hard: the window between `enable_interrupt` and `switch_context`; the
next task being maintained incrementally in four places; the scan that unlinks the
element it stands on; ticks that merge; `exit_task`, which never masks interrupts; the
keyboard ring shared without protection and without a test for "full"; frames told apart by
counting edges; the idle counter with two writers; waits that end by a signal, a time-out or a
deletion; inherited priorities that must go when the mutex does; a card that
may be exchanged between two commands, on a bus shared with the terminal; a
UART without a lock; reads that cut sectors and clusters anywhere, and chains of clusters that come from the disk.

What must hold, component by component: ready
lists, bitmap, timeouts and states agree and the next task is right (scheduler);
sleeps end, and not early (timer task); no exited or waiting task runs (exit);
lists stay whole (queues); nothing is lost or reordered (FIFO, keyboard, UART with one sender); the line
typed is the command executed (shell); first come, first served, and no unit lost (semaphores);
locker, held mutexes and lines agree, and holders inherit (mutexes); success means ready, the
block is the one asked for, calls return, the bus is released (card); the screen
shows the last lines printed (terminal); what is mounted is a volume, the file
opened is the one named and reads deliver its bytes (FAT).

## The modules

**Lists** – lists as sequences: `InsertLast`, `Without`, `HeadToTail`.

**Kernel** – the state of the kernel as one record `k` and each C function that
changes it as an operator from a state to the next. Field and operator names are the code's.
The bitmap is the set of priorities whose bit is set; a task found in an empty list is
the list head cast to a TASK, written `ListHead`. `create_task` on a wrong
priority or option is `create_task_accepts`.

**Scheduler** – the running system: `k`, the program counter of each task, the
cursor of the timer task's scan, PRIMASK and PendSV's pending bit. A critical
section is one step since the core does nothing else meanwhile; the scan has
one step per list element; the window after `enable_interrupt` is a state of
its own (`pc = "switch"`). Exceptions are taken only between steps of thread
code with PRIMASK clear, PendSV before SysTick (lower exception number, equal priority).
Application tasks may do anything the API allows at any time: sleep for a time
or for ever, create a task with any accepted priority and option. Their initial
TCBs hold no task (`"NONE"`).

**PriorityScheduler** – the promise: lines of ready tasks, and the CPU given only
to the first of the most urgent line. `Scheduler` implements it with
`line <- k.runnable_tasks_list`; bitmap, next task, timeouts and PendSV vanish.

**SleepTiming** – `Scheduler` with history variables: ticks asked for, ticks come
since, and the list of timeouts as a scan found it.

**TaskExit** – `Scheduler` plus `exit_task`, one action per store that others can see or the loads before
it, because interrupts are enabled throughout. The attribute passed to it is whatever
the task function left in r0, so the task is deleted or not, nondeterministically. The model
stops where a list head has been dispatched as a task. One thing is *assumed* and not guaranteed by
the code (`ExitNext`): no tick and no switch to another task comes between the loads and the two stores of the unlinking
(`utilities.c:97-98`), since a list that is half unlinked is not a sequence.

**ExitLinks** – the same system with the `next` and `previous` pointers of the ready lists, heads and tasks, where
half a list can be said. Each of the two statements of `queue_remove_element` is its loads (`loaded`) and its
store, and the functions of `task.c` work on links; steps that touch none are TaskExit's (`Code`).
`LinksSpec` is what the code does, with ticks anywhere; `WholeSpec` makes the assumption, and is shown to implement TaskExit
with the lists read off the `next` pointers (`list_kernel`; `list_at` joins two places that differ in `loaded` only).

**Queues** – `utilities.c` pointer by pointer. `Elements(h)` is what a loop over the list
meets. Callers insert only elements that are in no list and remove only
elements that are in one or were reset, as the kernel does; the functions test neither.
**QueueLists** is the promise in terms of `Lists`, with walks that unlink elements.

**Fifo** and **BoundedFifo** – the ring and the queue of `size - 1` items it implements.

**Keyboard** and **Shell** – the interrupt, the reader in four steps (test, copy, advance,
wrap) that the interrupt can separate, and the shell's line buffer. `unread` is a
history variable: what was typed and not read. One interrupt step stands for the
eleven edges of a frame.

**Performance** – `idle_count++` as a load and a store, against the sampling tick.

**CountingSemaphore** and **Semaphores** – the promise: units, a line of clients, and
an answer for each (granted, timed out, deleted). `Semaphores` extends
`Scheduler`: each function is one step because it masks interrupts for its
whole body; a call that blocks or wakes goes on to the window before `switch_context`;
`delete_semaphore` opens that window once per task it wakes. The `_i` functions
are called by a handler that ends with `int_exit`. `semaphore.c` is not in the build
and spells some names in two ways (`rc`/`return_code`); they are one here.

**Mutexes** – extends `Scheduler` with `mutex.c` and the half of it in `task.c`: `Raised` is
the loop of `set_current_priority` along a chain of holders,
`RecalculatedHolder` the mutex branch of `task_wait_complete`, which the timer
task's scan reaches too. `disable_interrupt` saves PRIMASK and `enable_interrupt`
restores what was saved; `unlock_mutex` never restores. The model stops where a
task begins to wait while masked (`Runaway`), and where `exit_task` has been
called with a mutex held, because what follows are stores through a wrong
address. The UART's interrupt and endless sleeps, which `Scheduler` covers, are left out.

**KeyboardFrames** – the interrupt edge by edge, with the whole table of codes
and edges that are lost or added. The table holds twice the keys' scan codes: it is right
when one edge more has been counted than received, which the EdgesBefore of the run supposes.

**SdCard** – driver, card and chip selects. A command is one step; a loop has
one step per turn; the card may be one of three kinds, may be put in and taken
out at any moment, and may fail to answer any command. `sd_read_block` sends the number of the block
as it is (`//block <<= 9;`, `sd.c:128`), which is right for cards that are addressed by block. A card addressed by byte
takes it for a place: it refuses a number that is no multiple of `BLOCK_SIZE` and sends, with success, block
`number / BLOCK_SIZE` for one that is (`Addressed`). **Mount** composes it
with `disk_initialize`, `disk_readp` and `pf_mount`, one step per call of the driver, and with the
shell that calls `sd_reset` and `sd_read_block` too. `misread` is a history variable: the second boot record
could not be read. A volume is spoken of where the driver looks for it (`VolumeAt`), so "No filesystem" may be said of a card
addressed by byte that has a volume in a partition.

**FatFiles** – `pf_open` and `pf_read`, one step per sector read, each of which may fail and otherwise delivers the sector asked for, as it does on cards addressed by block.
A directory sector is a sequence of entries, a byte of a file is the place it is read from. `create_name`,
`dir_rewind`, `dir_next`, `dir_find`, `get_fat` and `clust2sect` are operators or steps of their names.
What a path means (`Meant`) is said without them, by what stands in the directories: the files of the last name in the
directories of the names before it. `OpensTheNamedFile` compares the two where this is one file at most.
The volume is `Sound`: there are directories, among them all that an entry of them leads to, whose clusters end and in
which no name stands twice (labels, deleted entries, `.` and `..` are not names). The path `Fits`: `create_name` takes the character
after a full body or extension for a slash, whatever it is (`pff.c:601-604`), so that
`bcx` is read as `bc/` and what follows `x`, and it accepts a dot with nothing behind it; the entries have no such names.
The run has such a path (`bcxbc`), for the other properties. Only `f_mount` is called by the shell; `pff.o` is in the build.

**ScrollingWindow** and **Terminal** – the promise: an endless sheet of lines seen through
a window on the last ones. `Terminal` implements it with a picture memory that cannot be read
back and a copy of it moved up by one line.

**Uart** – several tasks that send through one FIFO, byte by byte, with the kernel's
priorities. **Utilities** – `itoa` and `x_strcmp`, a turn of the loop at a time,
against what a numeral denotes and the order of a dictionary.

**MC\*** – values of constants for TLC. **KernelProofs, SchedulerProofs,
SemaphoreProofs, MutexProofs, TaskExitProofs, SdProofs, ShellProofs, ComponentProofs** (FIFO, load figure,
the queues' pointers, terminal, UART, frames of the keyboard, numbers and strings) – see "What is proved".

Operators and actions marked `MUTANT` are deliberately wrong variants, used to
confirm that each property can fail; no specification uses them.

## The runs

| Run | Module | Shows | Instance |
|---|---|---|---|
| Scheduler | MCSleepTiming | lists, bitmap, timeouts, states and next task agree in every interleaving; a waiting task only switches; no sleep ends early; a scan counts each timeout once | 3 tasks, 4 priorities, timeouts 1–2 and infinite, symmetric tasks |
| SchedulerLive | MCScheduler | finite sleeps end; equals with slices share the CPU; the scheduler implements PriorityScheduler with its fairness | 2 tasks, 4 priorities, timeouts 1 and infinite, slices of 1 tick at priority 1 and none at 2 |
| ExitLinks | MCExitLinks | if no unlinking is disturbed: the pointers implement TaskExit, an exited task is in no list, only RUNNABLE tasks are dispatched | 3 tasks, 4 priorities, timeouts 1 and infinite, symmetric tasks |
| ExitTorn | MCExitLinks | **violated**: a waiting task is the first of a ready list, after a tick between the two stores of an unlinking | 2 tasks, otherwise as ExitLinks |
| TaskExitWild | MCTaskExit | **violated**: a list head is dispatched as a task | as ExitLinks |
| TaskExitLost | MCTaskExit | **violated**: a RUNNABLE task is in no ready list | as ExitLinks |
| Semaphores | MCSemaphores | wait lists match states, no waiter while there are units, refinement of CountingSemaphore | 2 tasks, 4 priorities, 1 semaphore, up to 2 units, timeouts 1–2 and infinite, symmetric tasks |
| SemaphoresLive | MCSemaphores | `acquire_semaphore` with a timeout comes back | 2 tasks, 3 priorities, 1 unit |
| Mutexes | MCMutexes | locker, queues and lines agree; answers are true; inheritance comes and goes | 3 tasks, 2 mutexes, 4 priorities, timeouts 1 and infinite, symmetric tasks and mutexes |
| Components | MCComponents | the seven components below | see below |
| Card | MCMount | a successful read is of the block at the place sent, the bus is released, error codes belong to the call, what is mounted is a volume, calls and mounts return | 1 retry per loop (none for the token), 3 blocks of 2 bytes, 3 kinds of card, 6 contents |
| ShellFiles | MCShellFiles | two systems, see below: ring, reader and command line are right under any interleaving and after overruns, and a line ended with Return is executed if the ring was never overrun; reads deliver the file, errors and short reads are true, the named file is opened, no read outside the volume and no endless search | ring of 3, line of 3, up to 4 unread; 13 paths, reads of up to 4 bytes, sectors of 2 bytes and 2 entries; 2 sound volumes, and 180 with every FAT of 2 clusters under a file and a directory that start anywhere |

Run Components takes seven modules that share no variable. What one of them does cannot touch
another, so `part`, chosen at the start, says which one moves while the others rest: the
states explored are the sum of the seven, not their product.

| `part` | Shows | Instance |
|---|---|---|
| queues | the pointers implement sequences, walks that unlink included; a link in one direction only shows in a later call | 2 lists, 3 elements |
| fifo | refinement of BoundedFifo | sizes 0 to 4, 2 data |
| utilities | `itoa` and `x_strcmp` | every number of 8 bits (`INT_MAX` = 127), every pair of strings of up to 3 characters |
| uart | bytes of a text keep their order; what is sent alone arrives whole | 3 tasks, 2 priorities, FIFO of 2, 2 texts of up to 5 bytes |
| performance | what the unprotected counter can hold | 3 ticks per sample, counts up to 6 |
| terminal | the screen shows the last lines; the copy is ready to scroll | 3 lines of 3 columns, 1 character and a blank, characters without a picture |
| keyboard | two frames in phase are read right, whatever came before | the 27 keys of the table and 2 that are not in it, up to 2 edges lost or added |

Run ShellFiles does the same with Shell and FatFiles, which share no variable either. Slices (run SchedulerLive)
are a configuration of the model only: `kernel_main` sets `NO_TIME_SLICE` for every priority (`kernel.c:105`), and nothing
sets another number, but the code that rotates is there (`kernel.c:299`).

Why these bounds are enough. Three tasks of symmetric names give lists of zero, one, two and
three elements, a task that outranks, equals or yields to another, and a middle
element to unlink. Four priorities are the two reserved ones (0 for the timer task, the last for
idle) and two for applications. Timeouts of one and two ticks distinguish
"ends now", "goes on" and neighbours in the list that end in the same scan; a
longer one repeats the middle. A ring or buffer of three wraps around with
zero, one and two characters in it, and four unread characters are more than one lap ahead. Two mutexes and three tasks give a chain of inheritance
(a waits for b, which waits for c) and a holder with two lines. Two units tell "some" from
"all". One retry has a first and a last turn; more repeat the
first. Three blocks of two bytes are a boot record, a partition in each of the other places, and both ends
of the question of addressing: to a card addressed by byte 1 is no place where a block begins, and 2 is block 1. Sectors of two bytes in clusters of one and two sectors, and
files of up to seven bytes in up to three clusters out of order, make reads
begin and end at, before and behind every boundary. Texts of up to five bytes
are two full portions of the FIFO and one byte. Numbers of eight bits have all numbers of digits, both
signs and the least int without an opposite. All state spaces are explored
completely; `MaxTimeout`, `MaxAhead`, `MaxCount`, `MaxUnits`, `MaxFaults`, `MaxLength`,
`MaxTexts`, `MaxString` and `MaxRead` are the only bounds, each a
constant used in a guard or an input set.

Some properties begin with the type invariant of their module, and are then also the run's check of types;
those of Fifo, Terminal, SdCard, Shell and Performance are proved.

The deadlock check is off in `TaskExit*`, `Exit*` and `Mutexes`, whose models stop where
the code goes wild, and in `Components`, where the texts to print and the calls of
`itoa` come to an end. Symmetry is used in runs without liveness only.

### The violations

`exit_task` (`task.c:367-423`) calls `task_to_non_runnable` with interrupts enabled. Each trace is a tick, or a switch
that it leads to, between two of its steps.

* *TaskExitWild*: the exiting task is the only one of its priority. It is
  unlinked; the tick comes before its bitmap bit is cleared; the timer task
  runs, waits, and looks for the next task: the bit points to an empty list,
  and `find_next_task_to_run` returns the head as a TASK, which PendSV dispatches.
  `kernel.c:33` says of `current_running_task` "The task that is currently running".
* *TaskExitLost*: the task is unlinked and preempted before it is dormant. It
  is RUNNABLE and in no list, though `kernel.c:24` says the lists hold "all RUNNABLE
  tasks"; it never finishes its exit, and its number is never given back.
* *ExitTorn*: the exiting task A stands before N in a ready list. It has stored `head->next` = N
  (`utilities.c:97`) and is preempted before the other store (`utilities.c:98`), so `N->previous` is still A. When N sleeps,
  its own unlinking writes to A, and `head->next` stays N: a waiting task is the first of a list of "all RUNNABLE
  tasks" (`kernel.c:24`), which never looks empty again, and six steps later it is dispatched (`OnlyRunnableIsDispatched`, put in the place of
  `ListedIsRunnable` in `ExitTorn.cfg`, shows it). If N ends instead, a DORMANT task stays
  linked. This is why the lists of TaskExit need the assumption, and what `DormantIsNowhere` and `OnlyRunnableIsDispatched`
  of run ExitLinks do not cover.

### Further divergences

What a comment says and the code does not do. Each is written out as a definition of its module
("Does not hold"); adding it to the INVARIANTS of the run named, or dropping the
stated exception, gives the counterexample.

Mutexes (run Mutexes), in code that the build leaves out:

* `CallsRestoreInterrupts`: `unlock_mutex` returns (`mutex.c:242`, `254`) above its "enable_interrupt();
  switch_context();" (`mutex.c:260`): the task goes on with interrupts masked.
* `NoPriorityInversion`: `mutex.c:119` says "Base priority inheritance protocol"; `unlock_mutex` hands
  the mutex to the first in line without raising it to the priority of those still in line.
  `HoldersInherit`, which leaves such mutexes out, does hold.
* `ExitUnlocksMutexes`: `task.c:387` says "Unlock all mutexes, locked by the task"; the address
  handed on was computed with the other link's offset (`get_mutex_in_queue`, `task.c:323`).

Devices:

* `FramesFromStartBitDecode` (Components): `keyboard.c:58` calls the first skipped edge the start bit, but the codes of
  `ps2_to_ascii` are those read when the count is one edge ahead. Then the code of a key is read as twice its scan
  code, and twice 112, keypad 0, is 224, which stands for the release of a key: the next key typed is lost.
* `ErrorCodeIsOfThisCall` (Card) excepts `ERROR_SET_BLOCK_SIZE`: `last_sd_error_code = response;` stands below a
  `return` (`sd.c:114-115`); after "Error, unable to set block size" the shell prints the code of an earlier call.
* `NoFilesystemMeansNone`, a part of `MountAnswersTruly` (Card), excepts a mount whose second boot record could not be read: `pff.c:721`
  has "3:Error" for `check_fs`; a failing second read gives 1, and
  the shell says "No filesystem" of a card that has one.
* `MountAnswersTruly` (Card) speaks of volumes where the driver looks for them: `diskio.c:47` calls the number
  of a block "Sector number (LBA)", and `sd.c:128`, which would make a place of it for cards addressed by byte, is a
  comment. Such a card says "No filesystem" or fails although it has a volume in a partition, and `ReadsTheBlock` says
  only that the block that begins at that place was read.
* `BufferHasAllCharacters` (Components): `terminal.c:9` says "contains all characters on screen"; line 0 is never
  stored. Scrolling does not need it.
* `HereFifoIsEmpty` (Components): `uart.c:42` says "here - UART Tx FIFO is empty"; another task may have filled it.

## Fairness

`FairSpec` of Scheduler assumes: a pending PendSV is taken (WF); the tick keeps
coming (SF, because it is held back while PRIMASK or PendSV are set); the timer task, when it has
the CPU again and again, advances (SF: a preempted task is not continuously
enabled); a task in the window before `switch_context` gets through it (SF), also
between two ticks: the window is a few instructions and a tick is about 10^5 of
them. Nothing is assumed of application code: a task need never sleep, and an
interrupt of the UART may come at any time. `FairSpec` of Shell (in `MCSpec` for run ShellFiles) assumes only that
the shell goes on polling; nobody has to type, and what it types may overrun the ring. With fairness, symmetry is off.

`SemFairSpec` takes over Scheduler's: nobody has to release a unit.
SdCard: the driver, once called, goes on (WF of `DriverStep`); its caller is the
only task that uses the bus. Mount adds the same for `pf_mount`'s own steps. Nothing is
assumed of the card. FatFiles: a call that has begun goes on (WF of
`FatStep`).

## What is proved

`SchedulerProofs` proves, for any sets of tasks and wait objects, any number of priorities
>= 2, any timeouts and any slices, under the assumptions `TasksAssumption` and
`SizesAssumption` of Kernel (distinct names, sizes are numbers):

* `TypeCorrect`, `ReadyListsCorrect`, `TimersCorrect`, `NextIsCorrect`,
  `WaitingTasksSwitch`: `Spec => []P` for the five properties of run Scheduler;
* `Invariant`: the inductive invariant they follow from;
* `SchedulesByPriority`: every step of Scheduler is a step of PriorityScheduler or a stutter.

The argument. None of the five is inductive. The kernel's functions keep the lists right only when they
are called for the right task: `task_curr_to_wait_action` for a RUNNABLE task, `timer_visit`
for a waiting one, `create_task` for a TCB in no list. So `IInv` joins three
things. `KInv(k)`: every list is free of duplicates and holds exactly the tasks whose
state and priority say so, bitmap and next task agree with the lists, the timer task alone has
priority 0 and the idle task alone the last one and is always RUNNABLE, and what the
wait fields of a task may be in each state. `ProgramCounters`:
which places each task's code has, and that PRIMASK is set across
steps only in the scan, which the running timer task does. And
`WaitingTaskOnlySwitches`, which gives the missing link: a task that executes
anything but its switch is RUNNABLE. `KernelProofs` has one lemma per kernel function
("from `KInv` and this precondition to `KInv` and this effect"), resting
on lemmas about lists (`InsertLast`, `Without`, `HeadToTail` on sequences without
duplicates; linking, unlinking, rotating, choosing the next task). `SchedulerProofs` then has one lemma per kind of step.
The idle task is what makes the choice of the next task total: it never
leaves its list, so the bitmap is never empty. The refinement needs of each function
what it does to the lines: that it links, unlinks or rotates one task and nothing else, and that the task
dispatched is the first of the most urgent line at that moment and not of an earlier one.

The second half of `SchedulerProofs` proves `SleepsLastLongEnough` and `ScanCountsOnce`, the two properties of
SleepTiming, for any tasks and timeouts. The invariant (`TimesAreCounted`) is an account: for a sleeping task the ticks
that came since its call (`elapsed`) are at least those the scans have counted down, and one more while the
timer task has been woken and its scan has not come to this task (`Owed`). Ticks that
merge make it an inequality. For the scan under way `VisitedOnce` says of every task it found in the list that its
timeout is one less if it stands before the cursor, unchanged if behind it, and that it was 1 if
the task is in the list no longer. `TimerGoesFirst` keeps other tasks from running between the tick and the
scan, where a new sleep would be counted against a tick that came before it.

`SemaphoreProofs` proves `WaitListsCorrect`, that each wait queue always holds exactly the tasks
that wait for its object, `KernelStaysCorrect`, that the calls of `semaphore.c` keep the ready
lists, the timers and the next task right, and `SemaphoresKeepTheirPromise`, that they implement
CountingSemaphore, for any tasks, semaphores and counts. The
invariant is `IInv` with the types of the semaphores and of the calls under way. Its central
lemma is `WaitComplete`: ending a wait before its time takes the task out of its wait queue and,
if it counts ticks, out of the list of timeouts, and makes it RUNNABLE. One lemma per call rests on it;
every other step is one of Scheduler's and is covered by its lemmas. The refinement adds
`CallsMatchWaits`: a task whose call is under way either waits for that semaphore, or has left the wait with the answer
in its return code, and is on its way back to report it.

`MutexProofs` proves the four invariants of run Mutexes for any tasks, mutexes, priorities and timeouts:
`LockersAgreeWithQueues`, `GrantIsLock`, `InheritanceEnds` and `InheritanceReachesTheHolder`. The inductive
invariant is `MInv`, whose heart is `Right`: `KInv`; `Chains` (a task that waits for a mutex waits for one that is
locked, and not by itself; a locker is a user task that runs or waits); `CallsMatch` (a task that waits for a mutex is in
`lock_mutex` of that one, and one that woke in it has the mutex exactly if its return code says so); `Inherited` (no
priority below the base, above it only while holding, and holders as urgent as their lines). The other parts are
`QueuesMatch`, `MutexPlaces` and `WaitingTaskOnlySwitches`. The hard step is inheritance: the loop of
`set_current_priority` raises the tasks of a chain of unknown length and ends with the first that runs.
`Raised` is the least set closed under "waits for a mutex of", so that no induction is needed: `OneIsRunnable` shows
that a chain ends with its first RUNNABLE task, `RaisedAreUsers` that it never leaves the user tasks,
`RaisingKeeps` that raising it keeps `Inherited` for all mutexes at once, also when the chain closes a circle
(a deadlock of tasks, which the code does not prevent). `FallsBack` and `HandingOverIsRight` do the same for the way
down, `RecalculationKeeps` for waits that a timeout or a deletion ends. `MInv` itself was checked on the instance of the run.

`TaskExitProofs` proves `ExitedIsNowhere` and `DispatchedIsRunnable` for the system in which tasks call `exit_task`, under the
assumption in `ExitNext`: an unlinking under way is not disturbed between its loads and stores. The code does not guarantee
it, and both fail without it (see ExitTorn above); ticks between all other steps are included. There
`KInv` is false, as TaskExitWild and TaskExitLost show, so `ExitInv` says what is left of it: the lists hold only RUNNABLE
tasks and the list of timeouts only waiting ones, without duplicates, and the next task is
RUNNABLE; but a RUNNABLE task may be in no list, and a bit of the bitmap may be stale
(`Sound`). `Exiting` says that a task on its way out is RUNNABLE or DORMANT by how far it has got, but in no ready list
from its first store on, so that nothing chooses it again; `OthersOnlySwitch` is `WaitingTaskOnlySwitches` for the tasks
that do not exit. `MovesOnly` is what a kernel function called in such a state still guarantees: one task changes, and the next
task is the old one, that task, or one from a list.

`SdProofs` proves `SdTypes`, `SuccessIsReady`, `ReadIsTheBlock`, `BusIsReleased` and `ErrorCodeIsCurrent` for any
numbers of retries, any blocks and any block length, of cards of either addressing: what `ReadIsTheBlock` says of a card addressed
by byte is which block it is that was read instead of the one asked for. `SuccessIsReady`, that a reset which succeeds leaves a
card initialised and its block length set, is proved only. The invariant adds what makes them inductive: which
function was called at each place of the driver (`CodeIsCalled`), and that a
card that sends and was not exchanged sends the block at the place it was given
(`SendsTheBlock`). One lemma says what a card may become by a command; then there is one lemma per step.
On top of it `MountIsTruthful` proves `MountAnswersTruly` for any contents of cards, where a volume is one that the driver's reads
meet (`VolumeAt`), and with the exceptions the property names. `MountInv` relates
the mount to the call of the driver it waits for (`MountCalls`), to the card (`CardStays`: in a mount that goes well the card
is the one it began with), and to the sectors read (`SectorIsRead`, `FoundSoFar`). The proof showed an earlier
`MountedIsAVolume`, which TLC had confirmed for six contents, to be false in general: when the second read of `check_fs` fails, a
boot record is taken for a partition table, and what stands in the place of its first entry may lead to a
volume although the card has none where `pf_mount` looks for one. The property excepts this case, and the run has such a record
among its contents.

`ShellProofs` proves `RingIsFaithful` and `LineIsExecuted` for a ring and a command buffer of any size and any
typing. After an overrun the indexes say nothing of how much was lost. `ShellInv` therefore
ties them to the history variable: the ring holds the newest characters typed (`RingKeepsTheNewest`), the distance of
the indexes is the number of unread ones modulo the size (`DistanceIsUnread`), and between test and copy there
is one to read (`ReaderHasOne`).

Its second half is about files, on any volume: any cluster size, any contents of the FAT, circles and wrong entries
included. `FilesInvariant` is the inductive invariant, `ReadsStayInVolume` and `FileIsRead` follow. For `pf_open`
it says how the index of an entry, the cluster and the sector hang together, and that the cluster
is one the FAT led to. For `pf_read` it says that `curr_clust` is the cluster of the chain that the byte before `fptr`
is in (`Chain`, unrolled one link at a time), and that `dsect` is its sector; `HasRead`, that the bytes read so far
are the first `fptr` bytes of the file. On a sound volume a file has all the clusters its size needs
(`HasClusters`), so that an error is a sector that could not be read.

Its third part is `NamedFileIsOpened`, for any path and any volume: any number of directories, one in the other or in a
circle, of any size. The inductive invariant is `OpenInv`, `FilesInv` and
`Follows`: what is left of the path means in the directory searched what the whole path means in the root, no entry
before the one looked at has the name searched for, and that directory is one
of the sound ones. Three groups of lemmas carry it. On names: `create_name` of a name that fits is the one name that is
spelled so, and no entry has a name that begins with a dot. On directories: the sectors read one after
the other hold exactly the entries of `Entries`, whether they follow each other in the root or along a chain
(`EntriesAre`, `ChainEnds`). On paths: `Meant` is a function over the places in the path from its end backwards, which is
unrolled one name at a time. The proof made three conditions of the property explicit that the first
instance could not show: that names may be too long for an entry, that
the links `..` are directories too, and that a deleted entry keeps its name but for the first character.

`ComponentProofs` proves of seven components, each for all sizes:

* `FifoTypes` and `FifoIsABoundedFifo`, that a ring of any size implements
BoundedFifo: the items are the cells from the read index up to the write index,
modulo the size, and each of the two functions is one step of the queue. The
invariant is the type invariant; the work is in arithmetic at the wrap-around.
* `TurnsAreCounted`: for any sampling period the load figure is the idle task's turns since the last
sample plus what a store that was due at the sample brought back; the invariant says which value
the idle task holds between its load and its store.
* `TerminalTypes`, `BufferIsReady` and `ShowsLastLines`, that `TermSpec` implements ScrollingWindow, for screens of any
size with a picture memory larger than the screen (`TerminalAssumption`). The inductive
invariant adds `BelowIsBlank` to the two: the lines below the screen, which
scrolling moves in, show nothing, in the picture and in the copy. Without it the copy
could be right and the line that appears not blank. `Scrolled` is the central lemma: from a picture
and a copy that match, possibly with a character below the screen, to ones that match again.
* `PointersMakeRings` and `QueuesAreLists`, that the two pointers of every link implement the sequences of QueueLists, for
any queues and elements. `RingsOf` says that there are sequences, without duplicates and apart from each other, along
which the `next` pointers run from each head and the `previous` pointers back, and where a walk stands in its ring. What a loop over a queue meets
(`Path`, a recursive function) is that sequence: `PathAlong`, by induction along the ring, whose length is
bounded by the number of links. `SpliceIn` and its counterpart are insertion and removal anywhere.
* `TextsGoOut`: whatever way several tasks' bytes interleave, the bytes of each text come in order, and those of a task that
sends alone come all. The places that a sender counts on (`tx_bytes`) are free only while no
other sends (`AloneIsWhole`); `InOrder` relates the byte a sender is to write next to
all that went before it.
* `FramesAreDecoded`: whatever edges were lost or added, once the count has been one ahead for two whole frames the
second is read right. `CountFollowsPlace` says where the count is at each place of a frame, `FrameIsTaken` which bits
of the code have been added up and `SecondFrame` what the first left behind (a release that still holds).
* `AnswersAreCorrect`: `itoa` writes any int, the least one included, as its numeral into its buffer, which it
does not leave if the buffer has digits for the largest (`UtilitiesAssumption`), and `x_strcmp` returns the order of
any two strings and reads neither past its end. The invariant of `itoa` is that the number left times the power of
ten of the digits written, and what these denote, make up the argument (`PartsOfTheNumber`).

Where a definition is recursive (`Path`, `Chain`, `FlattenSeq`, `TenTo`, the value of a numeral) it is a function over
the naturals, and the proofs unroll it: `LeastMember` and `Induction` state induction for a set of naturals, from the
library's theorem that these are well founded, and lemmas such as `Recursion` and `JoinsExists` that the function exists.

Only model-checked. Liveness, and with it the fairness parts of the two refinements that have one, is beyond the prover
(it has no rule for ENABLED). Every safety property that a run checks is
a theorem but those of ExitLinks: that its pointers implement TaskExit, and the two properties it states again of
the pointers, were checked on three tasks; of the lists of TaskExit they are proved.

## What is not modelled

* That every printed text ends: a statement about what the other tasks, and their number, do with the UART.
* Register contents, stacks and their overflow: data no property is about.
* `suspend_count`, `wakeup_count`, `activate_count`, events and data queues: set to zero and never incremented, so
  the branches on them are dead. `current_task_to_wait_state` is an uncalled copy of `task_curr_to_wait_action`.
* A task created on a TCB that is in use: no caller does it, nothing tests it.
* That `UART0_IRQHandler` never reads the byte it was called for.
* What mutexes do after one of their three divergences: the code works on wild addresses or waits while masked.
* `x_malloc` (`memory.c`): never called, its heap never initialised, so that its first search reads
  whatever memory holds; there is no reachable state to state anything of.
* Start-up and board set-up (`hardware.c`, `*.s`, `terminal_init`, `keyboard_init`, `uart_init`): register
  writes in a straight line; what they lead to is in the initial states.
* `fat/ff.c`, `fat/diskio.c`, `fat/option/`: vendored FatFs. The tree stands between
  Petit FatFs and FatFs: `main.c` calls `f_mount(&sd_fat)` with Petit FatFs's argument, and the
  `VPATH` finds FatFs's `diskio.c`, a skeleton that does not compile. The pair that fits together,
  `fat/src/pff.c` and `fat/src/diskio.c`, is the one modelled; what `pffconf.h`
  compiles out of it (seeking, listing, writing, FAT12, FAT32) is not.
* `cpu/`, `LPC176x.h`: vendored register definitions, the latter twice in the tree.

Most of the tree's lines are therefore out of a model's reach: 31,000 lines are tables of
character codes in `fat/option/`, 4,600 are FatFs, 2,800 are register definitions and another
thousand start-up code, fonts and the parts of Petit FatFs that are compiled out. Of the kernel's and
the drivers' own code every function that keeps state is modelled.

## Plan

The plan this project began with is done: every component named above is modelled as far as the table says, and every
safety property that a run checks is proved, with the exception of ExitLinks. What is left is the
proof of that refinement, and a model of `exit_task` that masks interrupts, to show that this alone removes the
assumption and the three violations.
