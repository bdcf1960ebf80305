# A TLA+ model of proso-fib

The repository holds two programs. `src/zeos` is ZeOS, a small teaching
operating system for the i386. `src/kernel-module` is a pair of Linux 2.6
modules: a monitor that redirects five system calls and counts them, and a
character device that gives the counts to programs. They share no code. This
directory models what in them has state and can go wrong over several steps,
checks it with TLC on small instances, and proves the invariants of the ZeOS
kernel and the correctness of its boot loader for instances of any size with TLAPS.

## The system and its parts

| part | code | model |
|---|---|---|
| processes, scheduler | `sched.c`, `sys.c`, `include/list.h` | `Sched` |
| semaphores | `sys.c` | `Sched`, `Semaphores` |
| page frames, user page table | `mm.c` | `PageFrames`, `Sched`, `Boot` |
| clock, exceptions, system call entry | `interrupt.c`, `entry.S` | `Sched` |
| keyboard | `devices.c`, `interrupt.c` | `Keyboard`, `CharStream` |
| files: directory, open files, FAT, disk | `filesystem.c`, `devices.c`, `sys.c` | `Files`, `FileStore` |
| image builder, boot sector, start of the kernel | `build.c`, `bootsect.S`, `system.c`, `mm.c` | `Boot` |
| console, hardware registers, libc, utilities | `io.c`, `hardware.c`, ... | not modelled |
| system call monitor | `syscalls_mon.c` | `Monitor` |
| statistics reader | `syscalls_mon_reader.c` | `Reader` |

In ZeOS everything meets in the task structure: fork copies it, exit and the
exceptions free it, the scheduler and the semaphores link it into lists, and its
descriptors lead to the open files. Every gate of the IDT is an interrupt gate,
so kernel code runs with interrupts off: one handler is one atomic step, and
what interleaves is whole system calls, clock ticks and exceptions of different
processes. In the Linux modules a call can sleep inside the original system
call, and anything can happen meanwhile.

## Modules

**`Sched`** holds the kernel proper. `task[]` is a set of functions over slots
(`task_pid`, `quantum`, `ph_pages`, ...), a `list_head` queue is a sequence of
slots, the page table is the entries from the first data page on, including the
window fork copies through. Each system call, the clock routine and the
exceptions are one action each, early returns included; `sys_exit` is several
steps, because it loops over the semaphores, and nothing else runs while it
does (`mode = "exit"`). The value a call returns is kept in `eax`, since the code
writes the result of a call that blocked into the saved stack of the blocked
process. `schedule` and `task_switch` are operators that the actions use. Which frames
exist and what `alloc_frame` hands out is in **`PageFrames`**, which `Boot` shares.
**`Semaphores`** is the abstract specification of the semaphores: Dijkstra's, with a
value that counts units left or processes waiting, and with destruction. `Sched`
instantiates it (`SemSpec`) with `sem_value` and the sets of waiters.

**`Keyboard`** extends `Sched` by the circular buffer, `sys_read_keyboard` and
`keyboard_routine`, so keys interleave with clock ticks, faults and all calls of all
processes. A character is the number of its key stroke; the frame behind the first
data page of a process is what a read writes, and the interrupt reaches it through
the window of the page table, as the code does. More characters than the local
array of `copy_from_circ_buffer` holds is undefined, and the model stops there.
Nothing stops the keys: more may be typed ahead than the buffer holds, and the
oldest are overwritten. **`CharStream`** is the abstract specification: every read takes
the next characters of one stream, in order, none left out and none twice. Once
more characters are counted than the buffer has places (`overrun`), until the count is
0 again, a read gets as many characters as it asks for, all typed before, and that is
all it promises.

**`Boot`** goes from object files to the first user instruction: the loops and patches
of `build`, the loader of the boot sector with its 16-bit registers, then `init_mm`,
`set_user_pages`, `init_task0` and the move of the user program. Memory is kept by
slots of 512 bytes that hold the number of a sector, so that a gap, an overlap or a
shift shows. `StartsSched` ties its end to the initial state of `Sched`. The BIOS is
external and does what it is asked; the loader does not look at its errors.

**`Files`** holds the file system. Descriptors are indices into `fdt`, entries of
`fdt` refer to `dir`, files are chains of blocks in `fat`, bytes lie in `disk`.
Any process that exists may make the next call. `balloc`, `freeb`, `write_byte`
and `read_byte` follow the loops of the code; a write that runs past a block lands
in the next one, as it does in the C array. Calls that return an error change
nothing (a full disk in mid-write excepted), so the returned value is not kept.
`FileStore` is the abstract specification: a file is a sequence of bytes under a
name, and a write appends the bytes it was given, or the first of them when the
disk fills up. `Files` instantiates it with the content read off FAT and disk, and
keeps in `arg` what the last write was asked to write.

**`Monitor`** and **`Reader`**. The statistics of a process lie in its kernel stack
page, which is modelled apart from the process so that the next owner finds
what the last one left. A monitored call is four steps: dispatch through the
table, the trap up to the original call, the trap after it, the return. Only
within the original call others may run, unless `Preempt` is true. `Reader`
extends `Monitor` by the device and composes the two with processes that are
created, call and end; loading and unloading are actions too. Loading the reader
can fail after the device number is reserved, which stays reserved (`region`). The call
selected by `CHANGE_SYSCALL` is left out: only `read`, which changes nothing, uses it. `delete_module`,
process creation and the handling of open files belong to Linux and are modelled
as the modules rely on them.

**`MCSched`**, **`MCKeyboard`**, **`MCFiles`**, **`MCReader`** and **`MCBoot`** instantiate
them for TLC. The theorems are in **`SchedProofs`**, **`SemaphoreProofs`**, **`FrameProofs`**,
**`ProcessProofs`**, **`KeyboardProofs`** and **`BootProofs`**.

## What the callers may do

Programs make any call with any of the arguments the constants allow, valid and
invalid. Some restrictions are part of the models. A process that has exited
makes no more calls (it may fault). Pointers are valid and no path is empty.
`Closable` says which descriptors programs close: the passing runs leave 0 to 2
open, because 1 and 2 of init share an entry that counts one reference
(`sched.c:74`). `Overwrites` says whether programs write before the end of a file:
the passing runs do not, and the run `overwrite` shows why. `Unruly` says whether
programs make two kinds of reads that the code mishandles: they block for
characters while some are in the buffer, too few for them or meant for a reader that
already waits; and they read 0 characters while another process waits. The run `kernel` lets them do neither (`may_read`; it has no reads of 0 at all), and
`typed_ahead` shows why. So `StreamSpec` is shown of
programs that ask for what is there or wait with an empty buffer (init, which is
refused, may always ask). Init takes no characters while it runs in the frames
mapped at boot, since they would go to its other frames (run `init_pages`). `Images`
are the sizes of the two programs that `build` gets, at most `SYSSIZE` paragraphs
together and more than the header it patches; `Protected` are the pages of
`task_protect`.

## Runs

| run | bounds | what it checks |
|---|---|---|
| `sched` | 4 slots, frames for 3 processes, 1 semaphore, counter modulo 2, 2 quanta, all faults, fairness below | type, `QueuesExact`, `CurrentFirst`, `InitReady`, `NoLostWakeup`, `OwnAddressSpace`, `ReturnWritten`, `TicksAgree`, `OneOwner`, `FramesExact`, `WaitInOrder`, `SemSpec` (implements `Semaphores`), `ReadyRuns` |
| `kernel` | 3 slots, buffer of 2, reads of 1 to 3, 4 keys | `QueuesExact`, `Accounted`, `BufferExact`, `OthersUntouched`, `StreamSpec` (implements `CharStream`) |
| `boot` | the real disk geometry, segments and kernel pages; 8 image sizes | `LoadedInPlace`, `TransfersFit`, `BootSectorKept`, `StartsSched`, `UserInPlace`, `Boots` |
| `files` | 2 processes, 2 free entries of `fdt` and of `dir`, 3 blocks | type, `RefsAgree`, `DescriptorsCounted`, `UniqueNames`, `FatExact` |
| `file_data` | 1 process, 2 blocks of 2 bytes, transfers up to 3 bytes, 2 values | `FatExact`, `BlocksNeeded`, `ReadsContent`, `StoreSpec` (implements `FileStore`) |
| `reader` | 3 pids on 2 stack pages, 2 of them with root's rights, 3 calls, 2 counted calls, 1 load | type, `TotalsAgree`, `GlobalExact`, `RefsExact`, `TableRestored`, `OneOpener` |

In `sched` there are at most init and two other processes at a time: init can own a
semaphore on which both wait. A fourth slot is free then, so that fork fails for want
of frames, after it has got one of the two it needs, and has to give it back.
`UINT_SPAN` makes the counter of a semaphore
wrap within reach. `MaxPid` bounds the number of forks and lets slots be
reused. In `files` every table can fill up; in `file_data` the disk fills up in
the middle of a write and blocks change their owner; a transfer of three bytes
crosses a block boundary within one call. In `reader` there are fewer pages than
pids, so that a page passes from one process to another. `MaxForks`, `MaxCalls`
and `MaxLoads` bound what would otherwise grow without end. The stack pages of
`reader` are interchangeable and declared symmetric. In `kernel` a read of 3 is
longer than the buffer, so it is served in parts while a second reader may queue
up behind it; `MaxKeys` bounds the keys, and lets the buffer be overrun by up to two
characters, be emptied, and be used in order again. In `boot` the sizes end inside a sector, at the end of a
sector, of a segment and of two segments, fill all the room there is, or do not fit
the user pages; only data pages and total frames are fewer than in the code (3 and
280 for 20 and 1024).

Deadlock is not checked in the passing runs, because all these systems may stop: an
exception halts the kernel, a fault in `sys_open` does, so does an overflow of the array
of `copy_from_circ_buffer`, `build` gives up, the machine has booted, or the bounds on
calls are used up. That the kernel itself does not run into a state where nobody can run
is `InitReady`, and, with fairness, `ReadyRuns`.

**Fairness.** `FairSpec` assumes weak fairness of `clock_routine`, the timer that
the hardware keeps firing as long as it gets its EOI, and of `exit_step`, kernel
code that runs to its end. Programs are assumed to do nothing in particular.
`ReadyRuns` then says that a process on the runqueue gets the processor, unless
a process that has exited keeps it or an exception stops the machine. `FairSpec` of `Boot` assumes weak fairness of the
programs' own steps (`step`): nothing runs beside them. `die` is not fair, and ends in
a state `Boots` allows.

### Disagreements between code and comments

Six runs show behaviour that contradicts what the code says of itself.

* `exit_returns`: `exit` comes back when it leaves init alone on the runqueue
  (`sched.c:177`), while `libc.c:160` says that it "will NEVER return".
* `init_pages`: `init_task0` gives init a second set of frames. The first time init
  runs again its memory is not the one it had (`sched.c:46-49`). The comment there says
  that the loop gives task 0 its data pages, and its author asks to have that checked
  ("è così? CONTROLLARE"): this run is the answer.
* `destroy_eintr`: the waiters of a destroyed semaphore return with -1, which is `EPERM`
  (`sys.c:274`), and not with the EINTR of the comment at `sys.c:264-265`. The comment at
  `sys.c:272-273` agrees with the code.
* `typed_ahead`: a read for more characters than are stored moves `start` past the stored
  ones (`devices.c:74`): they are lost, what older places hold is delivered, and the
  characters come out of order.
* `overwrite`: a write before the end of a file allocates blocks it does not need
  and puts the byte in the wrong one (`devices.c:174-188`).
* `reset_in_flight`: a reset while a monitored call sleeps leaves statistics that
  are not coherent (`syscalls_mon.h:48-49`).

Read off the code while modelling, without a run of their own: descriptors 1 and 2
of init share an entry with one reference, so after `close(1)` stderr writes into
whatever file is opened next (`sched.c:74`); `sys_open` cannot see the errors of
`create_file`, because it compares a pointer with 0 (`sys.c:406`), and faults;
`copy_from_circ_buffer` leaves its window mapped to the pages of the running process
and flushes the TLB only after the copy (`devices.c:142-149`); the loader ignores the
errors of the BIOS; `build` does not refuse an image that is too large; the buffer of
the keyboard does not behave like the FIFO of the comment at `devices.c:95` once more
characters are typed ahead than it holds, since `start` stays where it is: the newest
comes first and some come twice (3, 2, 3 for the keys 1, 2, 3 and a buffer of 2) until
it is empty; a read of 0 characters while another process waits blocks, and the key that
wakes it is lost (`devices.c:71`); a `fork` that fails for want of frames has already
copied its caller into the free slot, which is harmless, since the slot is free again and
the next fork copies over it; `sys_read_file` may return fewer bytes than there are (`devices.c:226`); `sys_exit`
closes no descriptor; `readstats_read_dev` returns what `copy_to_user` returns, 0,
and not the number of bytes; `syscalls_mon_reader.h:12` says that "the device can be
accessed by one process at time", but the children of the process that opened it inherit
the open file, and on a preemptible kernel two processes can pass the test of the lock
before either takes it (`Preempt` set to true violates `OneOpener`); a driver that fails
to load leaves its number reserved, and no later load succeeds
(`syscalls_mon_reader.c:37-48`); a call that enters a trap between the check of
`delete_module` and `syscalls_mon_exit` returns into freed memory; `reset_values`
does not notice that the process is gone.

## Proofs

All theorems hold for every value of the constants that satisfies the named
assumptions: sizes are naturals, most of them positive (`SchedAssumption`,
`FramesAssumption`, `KeyboardAssumption`), the frames of init can be allocated at boot
(`BootFits`), the image fits (`BootAssumption`).

| module | theorem | statement |
|---|---|---|
| `SchedProofs` | `TypeCorrect`, `QueuesExactAlways`, `CurrentFirstAlways`, `InitReadyAlways`, `NoLostWakeupAlways` | `Spec => []` of the property each is named after |
| `SemaphoreProofs` | `SemaphoresRefined` | `Spec => SemSpec`: the semaphores implement `Semaphores` |
| `FrameProofs` | `FramesExactAlways`, `OwnAddressSpaceAlways` | no frame is leaked or shared; a process other than init runs in its own pages |
| `ProcessProofs` | `OneOwnerAlways`, `ReturnWrittenAlways`, `TicksAgreeAlways`, `WaitInOrderAlways` | ownership, return values, ticks, and the action property that wait lists are served in order |
| `KeyboardProofs` | `KernelQueuesExact`, `KernelSemaphores` | the queues stay exact and the semaphores Dijkstra's in the kernel with its keyboard |
| `BootProofs` | `LoaderCorrect` | `LoadedInPlace`, `TransfersFit`, `BootSectorKept` for images of every size that fits |

*Queues.* None of the properties in `SchedProofs` is inductive by itself. That a
wake-up does not duplicate a process needs `QueuesExact`; that `QueuesExact` survives a
blocking `sem_wait` needs `CurrentFirst` (the process that unlinks itself is the one at
the head) and `InitReady` (somebody else is left to run); that `sem_init` loses nobody
when it empties the wait list needs `NoLostWakeup`; that init stays ready needs to know
that `exit` is never under way for it (`ExitsNotInit`). `QueueInv` is the conjunction of
all these with `TypeOK`. `QueueStep` shows that every step keeps it, by one lemma per
action on top of lemmas about `Append`, `list_del` and `Head` on sequences without
repetition.

*Semaphores.* Under `QueueInv` each of `sem_init`, `sem_wait`, `sem_signal` and destruction,
also the one in the loop of `exit`, is a step of `Semaphores` or changes nothing there;
`NoLostWakeup` makes the counter and the number of waiters one value.

*Frames and processes.* `FramesExact` and `OwnAddressSpace` need to know in addition that
the frames of a process that has exited and still has the processor are free
(`DeadFree`; together `FrameInv`), and that a fork that fails gives back exactly the
frames it has got (`RollbackExact`). `OneOwner` needs to know which semaphores the loop of
`exit` has dealt with (`ExitOwns`; together `OwnerInv`). `TicksAgree` needs that no
process has an empty quantum. `ReturnWritten` and `WaitInOrder` follow from `QueueInv`.

*Keyboard.* `KernelStep` shows that blocking in a read, and waking from it, keep
`QueueInv`; every other step is one of `Sched` and is covered by `QueueStep`.

*Boot loader.* `LoadInv` says that before each transfer the sectors below the current
position of memory are in place and that disk position, segment and offset agree
(`Progress`). The lemma `Transfer` bounds the number of sectors read next, in 16-bit
arithmetic; `SizeFits` shows that the loop ends before the boot sector.

Only model-checked: `Accounted`, `BufferExact`, `OthersUntouched`, `StreamSpec`,
`StartsSched`, `UserInPlace`, everything about files and the Linux modules. `ReadyRuns` and
`Boots` stay with TLC, as liveness under fairness is beyond the prover, and so do the
loops of `Files`, whose results need induction over data.

## Not modelled

A20, PIC, mode switch, GDT, IDT, TSS and segment registers are set up once and in a
line; nothing in the repository reads them back. The pointers of `list.h` are sequences
here: that every node is linked once, which is what makes this sound, is
`QueuesExact`. The TLB is left out: after a change of the page table the model uses the
new entries at once. The clock on the screen, other screen output, number formatting
and printing have no state that anything depends on. The user library only traps.
`get_stats` and the `read` of the device change nothing. Address checks and copies
between user and kernel are assumed to succeed. The table of key codes and the tests
on the descriptor in front of `sys_read_keyboard` are not in `Keyboard` (the latter are in
`Files`). In `Monitor` counters are incremented in one step each, as on one processor.

Processes and files are not composed: `Files` has its own fork and exit, which act on
the descriptors only. They share no variable with `Sched` but the slot, and in the
code neither side reads what the other changes.
