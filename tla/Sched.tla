-------------------------------- MODULE Sched --------------------------------
(***************************************************************************)
(* Processes, scheduler, semaphores and page frames of ZeOS                *)
(* (src/zeos/sched.c, sys.c, mm.c, interrupt.c, entry.S).                  *)
(*                                                                         *)
(* Every entry of the IDT, the system call included, is an interrupt gate  *)
(* (interrupt.c, flags 0x8E00), so kernel code runs with interrupts off    *)
(* and one action is one complete handler.  The one exception is sys_exit, *)
(* whose loop over the semaphores is unrolled into steps; while it runs    *)
(* (mode = "exit") nothing else is enabled.                                *)
(*                                                                         *)
(* A list_head queue is a sequence of slots of task[].                     *)
(***************************************************************************)
EXTENDS Integers, Sequences, FiniteSets, Functions, PageFrames

CONSTANTS
    NR_TASKS,           \* slots of task[]
    SEM_MAX_VALUE,      \* semaphores
    UINT_SPAN,          \* number of values of the unsigned sem.count (2^32)
    INIT_QUANTUM,       \* quantum of task 0 (60)
    Quanta,             \* arguments user programs give to nice
    SemValues,          \* initial values user programs give to sem_init
    Faults,             \* exceptions user programs raise: "page", "other"
    MaxPid              \* bound: fork is called only while pid < MaxPid

ASSUME SchedAssumption ==
    /\ NR_TASKS \in Nat \ {0}
    /\ SEM_MAX_VALUE \in Nat
    /\ UINT_SPAN \in Nat \ {0}
    /\ INIT_QUANTUM \in Nat \ {0}
    /\ Quanta \subseteq Int
    /\ SemValues \subseteq 0 .. UINT_SPAN - 1
    /\ Faults \subseteq {"page", "other"}
    /\ MaxPid \in Nat

VARIABLES
    current,            \* slot whose kernel stack is in use: current()
    mode,               \* "user", "exit" (inside sys_exit) or "halted"
    exit_sem,           \* loop index of sys_exit
    pid,                \* the pid counter
    task_pid,           \* task[i].pid, -1 when the slot is free
    quantum,            \* task[i].quantum
    remaining,          \* task[i].remaining
    owned_sems,         \* task[i].owned_sems as a set
    ph_pages,           \* task[i].ph_pages
    eax,                \* eax of the running process, saved eax of the others
    runqueue,           \* processes that are ready, the running one included
    keyboard_queue,     \* processes blocked in a keyboard read
    wait_list,          \* sem[s].wait_list
    sem_count,          \* sem[s].count
    sem_init,           \* sem[s].init
    left4current,       \* ticks left to the running process
    in_service,         \* the PIC still waits for the EOI of the clock
    phys_mem,           \* the frames marked USED_FRAME
    pagusr_table        \* entries of the page table from the first data page on

procVars == <<pid, task_pid, quantum, owned_sems>>
semVars  == <<wait_list, sem_count, sem_init>>
cpuVars  == <<current, remaining, left4current, in_service>>
memVars  == <<ph_pages, phys_mem, pagusr_table>>
modeVars == <<mode, exit_sem>>
vars == <<procVars, semVars, cpuVars, memVars, modeVars, eax, runqueue, keyboard_queue>>

-----------------------------------------------------------------------------
Slots == 0 .. NR_TASKS - 1
Sems  == 0 .. SEM_MAX_VALUE - 1

\* The data pages of the running process, then the window of NUM_PAG_DATA
\* pages that sys_fork maps while it copies; an empty entry is 0.
Entries == 0 .. 2 * NUM_PAG_DATA - 1

EPERM  == 1
EINTR  == 4
EAGAIN == 11
EBUSY  == 16
EINVAL == 22
ENOSYS == 38

\* What a saved eax holds besides return values: the number of the call that
\* blocked, as SAVE_ALL pushed it, or whatever the user program had there.
BLOCKED_EAX == 1000
USER_EAX    == 1001

-----------------------------------------------------------------------------
(* Queues (list.h) *)

list_add_tail(q, x) == Append(q, x)

\* Unlinks x; a node that is on no list is left as it is.
list_del(q, x) ==
    IF x \in Range(q)
    THEN LET k == CHOOSE k \in 1 .. Len(q) : q[k] = x
         IN [i \in 1 .. Len(q) - 1 |-> IF i < k THEN q[i] ELSE q[i + 1]]
    ELSE q

-----------------------------------------------------------------------------
(* Initial state: init_mm, init_sched, init_task0.  The slots and semaphores *)
(* that are not in use hold zeros (static storage).                          *)

init_sched ==
    /\ keyboard_queue = <<>>
    /\ in_service = FALSE
    /\ mode = "user"
    /\ exit_sem = 0
    /\ wait_list = [s \in Sems |-> <<>>]
    /\ sem_count = [s \in Sems |-> 0]
    /\ sem_init = [s \in Sems |-> 0]

init_task0 ==
    /\ current = 0
    /\ pid = 1
    /\ task_pid = [t \in Slots |-> IF t = 0 THEN 0 ELSE -1]
    /\ quantum = [t \in Slots |-> IF t = 0 THEN INIT_QUANTUM ELSE 0]
    /\ remaining = quantum
    /\ left4current = INIT_QUANTUM
    /\ owned_sems = [t \in Slots |-> {}]
    /\ ph_pages = [t \in Slots |-> IF t = 0 THEN BootPages ELSE [i \in Pages |-> 0]]
    /\ phys_mem = Reserved \cup Range(BootMapped) \cup Range(BootPages)
    /\ pagusr_table = [i \in Entries |-> IF i \in Pages THEN BootMapped[i] ELSE 0]
    /\ eax = [t \in Slots |-> USER_EAX]
    /\ runqueue = <<0>>

Init == init_sched /\ init_task0

-----------------------------------------------------------------------------
(* Scheduler *)

\* Mutant of map_pages: the page table is left as it is.
map_pages_skipped(t) == pagusr_table

\* The page table entries once the address space of t is mapped; the window
\* used by sys_fork is left alone.
map_pages(t) ==
    [i \in Entries |-> IF i \in Pages THEN ph_pages[t][i] ELSE pagusr_table[i]]

\* Mutant of next_task: runqueue.prev for runqueue.next.
next_task_last(rq) == rq[Len(rq)]

\* The process that runs next: list_head_to_task_struct(runqueue.next).
next_task(rq) == Head(rq)

\* Mutant of eoi: task_switch forgets the EOI.
eoi_forgotten(irq, it_is_int) == irq

\* irq: an interrupt is in service.  task_switch never returns to its caller,
\* so on an interrupt it has to send the EOI itself, which it does when
\* it_is_int = 1.
eoi(irq, it_is_int) == irq /\ it_is_int # 1

\* Mutant of task_switch: t->task.remaining is not set.
task_switch_stale(t, rem, irq, it_is_int) ==
    /\ current' = t
    /\ left4current' = quantum[t]
    /\ remaining' = rem
    /\ pagusr_table' = map_pages(t)
    /\ in_service' = eoi(irq, it_is_int)

task_switch(t, rem, irq, it_is_int) ==
    /\ current' = t
    /\ left4current' = quantum[t]
    /\ remaining' = [rem EXCEPT ![t] = quantum[t]]
    /\ pagusr_table' = map_pages(t)
    /\ in_service' = eoi(irq, it_is_int)

\* Mutant of requeue: list_add_tail without the list_del.
requeue_twice(alive, rq) == IF alive THEN list_add_tail(rq, current) ELSE rq

\* The order in which schedule leaves the queue: the old task goes to the
\* end, unless it has exited.
requeue(alive, rq) ==
    IF alive THEN list_add_tail(list_del(rq, current), current) ELSE rq

\* The body of schedule when the time of the current process is over; alive is
\* old_task->pid != -1 at that moment, rem the tick counts so far.
schedule(alive, rq, rem, irq, from_int) ==
    \/ /\ Len(rq) <= 1
       /\ left4current' = quantum[current]
       /\ remaining' = [rem EXCEPT ![current] = quantum[current]]
       /\ runqueue' = rq
       /\ in_service' = FALSE
       /\ UNCHANGED <<current, pagusr_table>>
    \/ /\ Len(rq) > 1
       /\ runqueue' = requeue(alive, rq)
       /\ task_switch(next_task(requeue(alive, rq)), rem, irq, from_int)

\* The timer interrupt.  What the user program had in eax is saved.
clock_routine ==
    LET rem == [remaining EXCEPT ![current] = @ - 1]
    IN  /\ mode = "user"
        /\ ~in_service
        /\ \/ /\ left4current - 1 > 0
              /\ left4current' = left4current - 1
              /\ remaining' = rem
              /\ in_service' = FALSE
              /\ UNCHANGED <<current, pagusr_table, runqueue>>
           \/ /\ left4current - 1 <= 0
              /\ schedule(task_pid[current] # -1, runqueue, rem, TRUE, 1)
        /\ eax' = [eax EXCEPT ![current] = USER_EAX]
        /\ UNCHANGED <<procVars, semVars, modeVars, ph_pages, phys_mem, keyboard_queue>>

-----------------------------------------------------------------------------
(* System calls of the running process.  A program issues none after exit,  *)
(* even when exit comes back to it.                                         *)

Running == mode = "user" /\ task_pid[current] # -1

Return(v) == eax' = [eax EXCEPT ![current] = v]

\* A call number outside the table, or one without a service.
sys_ni_syscall ==
    /\ Running
    /\ Return(-ENOSYS)
    /\ UNCHANGED <<procVars, semVars, cpuVars, memVars, modeVars, runqueue, keyboard_queue>>

sys_getpid ==
    /\ Running
    /\ Return(task_pid[current])
    /\ UNCHANGED <<procVars, semVars, cpuVars, memVars, modeVars, runqueue, keyboard_queue>>

sys_nice(q) ==
    /\ Running
    /\ \/ q > 0 /\ quantum' = [quantum EXCEPT ![current] = q] /\ Return(quantum[current])
       \/ q <= 0 /\ UNCHANGED quantum /\ Return(-EINVAL)
    /\ UNCHANGED <<pid, task_pid, owned_sems>>
    /\ UNCHANGED <<semVars, cpuVars, memVars, modeVars, runqueue, keyboard_queue>>

-----------------------------------------------------------------------------
(* fork *)

\* The free slot of lowest index, if there is one.
srch_free_task ==
    {t \in Slots : task_pid[t] < 0 /\ \A u \in Slots : u < t => task_pid[u] >= 0}

\* Mutant of child_sems: the copy of the father's owned_sems is kept.
child_sems_kept == owned_sems[current]

\* Semaphores the child owns.
child_sems == {}

\* Mutant of rollback: the loop ends at j > 0.
rollback_short(fr) ==
    (phys_mem \cup Range(fr)) \ {fr[j] : j \in DOMAIN fr \ {0}}

\* The frames in use after sys_fork has given up: those it had got before
\* alloc_frame returned -1 were marked used, and are freed one by one.
rollback(fr) ==
    (phys_mem \cup Range(fr)) \ {fr[j] : j \in DOMAIN fr}

\* No free slot, or not enough frames.  What was copied from the father to the
\* free slot stays there, under pid -1, until a fork that succeeds overwrites it.
sys_fork_fails ==
    /\ Running
    /\ \/ srch_free_task = {} /\ UNCHANGED phys_mem
       \/ /\ srch_free_task # {}
          /\ \E fr \in alloc_frame_fails(phys_mem) : phys_mem' = rollback(fr)
    /\ Return(-EAGAIN)
    /\ UNCHANGED <<procVars, semVars, cpuVars, modeVars, runqueue, keyboard_queue>>
    /\ UNCHANGED <<ph_pages, pagusr_table>>

\* The child starts as a copy of the father: same quantum, its own frames, no
\* semaphores, 0 in its saved eax.  The copying window is unmapped again.
sys_fork ==
    /\ Running
    /\ pid < MaxPid
    /\ \E new \in srch_free_task, fr \in alloc_frame(phys_mem) :
          /\ ph_pages' = [ph_pages EXCEPT ![new] = fr]
          /\ phys_mem' = phys_mem \cup Range(fr)
          /\ task_pid' = [task_pid EXCEPT ![new] = pid]
          /\ quantum' = [quantum EXCEPT ![new] = quantum[current]]
          /\ remaining' = [remaining EXCEPT ![new] = quantum[current]]
          /\ owned_sems' = [owned_sems EXCEPT ![new] = child_sems]
          /\ eax' = [eax EXCEPT ![new] = 0, ![current] = pid]
          /\ runqueue' = list_add_tail(runqueue, new)
    /\ pid' = pid + 1
    /\ pagusr_table' = [i \in Entries |-> IF i \in Pages THEN pagusr_table[i] ELSE 0]
    /\ UNCHANGED <<semVars, modeVars, keyboard_queue, current, left4current, in_service>>

-----------------------------------------------------------------------------
(* Semaphores *)

Initialised(n) == n \in Sems /\ sem_init[n] = 1

sys_sem_init(n, value) ==
    /\ Running
    /\ \/ /\ n \notin Sems
          /\ Return(-EINVAL)
          /\ UNCHANGED <<semVars, owned_sems>>
       \/ /\ Initialised(n)
          /\ Return(-EBUSY)
          /\ UNCHANGED <<semVars, owned_sems>>
       \/ /\ n \in Sems
          /\ ~Initialised(n)
          /\ sem_count' = [sem_count EXCEPT ![n] = value]
          /\ sem_init' = [sem_init EXCEPT ![n] = 1]
          /\ wait_list' = [wait_list EXCEPT ![n] = <<>>]
          /\ owned_sems' = [owned_sems EXCEPT ![current] = @ \cup {n}]
          /\ Return(0)
    /\ UNCHANGED <<pid, task_pid, quantum>>
    /\ UNCHANGED <<cpuVars, memVars, modeVars, runqueue, keyboard_queue>>

\* The process leaves the runqueue for the wait list, and the next one runs.
\* Its return value is left to whoever wakes it.
sem_block(n) ==
    LET rq == list_del(runqueue, current)
    IN  /\ runqueue' = rq
        /\ wait_list' = [wait_list EXCEPT ![n] = list_add_tail(@, current)]
        /\ Return(BLOCKED_EAX)
        /\ task_switch(next_task(rq), remaining, FALSE, 0)
        /\ UNCHANGED sem_count

\* Init may not wait.
may_wait == task_pid[current] # 0

sys_sem_wait(n) ==
    /\ Running
    /\ \/ ~may_wait /\ Return(-EPERM) /\ UNCHANGED <<wait_list, sem_count, cpuVars, pagusr_table, runqueue>>
       \/ /\ may_wait /\ ~Initialised(n)
          /\ Return(-EINVAL)
          /\ UNCHANGED <<wait_list, sem_count, cpuVars, pagusr_table, runqueue>>
       \/ /\ may_wait /\ Initialised(n) /\ sem_count[n] > 0
          /\ sem_count' = [sem_count EXCEPT ![n] = @ - 1]
          /\ Return(0)
          /\ UNCHANGED <<wait_list, cpuVars, pagusr_table, runqueue>>
       \/ may_wait /\ Initialised(n) /\ sem_count[n] <= 0 /\ sem_block(n)
    /\ UNCHANGED <<procVars, sem_init, ph_pages, phys_mem, modeVars, keyboard_queue>>

\* Mutant of count_up: a counter without the width of its type.
count_up_wide(c) == c + 1

\* The counter is unsigned.
count_up(c) == (c + 1) % UINT_SPAN

\* Mutant of first_waiter: wait_list.prev for wait_list.next.
last_waiter(n) == wait_list[n][Len(wait_list[n])]

\* The waiter that a signal wakes.
first_waiter(n) == Head(wait_list[n])

\* Mutant of signal_wakes: the counter is incremented although somebody waits.
signal_adds(n) ==
    /\ sem_count' = [sem_count EXCEPT ![n] = count_up(@)]
    /\ eax' = [eax EXCEPT ![current] = 0]
    /\ UNCHANGED <<wait_list, runqueue>>

\* Mutant of signal_wakes: while for if, all waiters share the one unit.
signal_wakes_all(n) ==
    /\ runqueue' = runqueue \o wait_list[n]
    /\ wait_list' = [wait_list EXCEPT ![n] = <<>>]
    /\ eax' = [t \in Slots |-> IF t \in {current} \cup Range(wait_list[n]) THEN 0 ELSE eax[t]]
    /\ UNCHANGED sem_count

\* Mutant of signal_wakes: the saved eax of the waiter is not written.
signal_silent(n) ==
    /\ wait_list' = [wait_list EXCEPT ![n] = list_del(@, first_waiter(n))]
    /\ runqueue' = list_add_tail(runqueue, first_waiter(n))
    /\ eax' = [eax EXCEPT ![current] = 0]
    /\ UNCHANGED sem_count

signal_wakes(n) ==
    /\ wait_list' = [wait_list EXCEPT ![n] = list_del(@, first_waiter(n))]
    /\ runqueue' = list_add_tail(runqueue, first_waiter(n))
    /\ eax' = [eax EXCEPT ![first_waiter(n)] = 0, ![current] = 0]
    /\ UNCHANGED sem_count

sys_sem_signal(n) ==
    /\ Running
    /\ \/ ~Initialised(n) /\ Return(-EINVAL) /\ UNCHANGED <<wait_list, sem_count, runqueue>>
       \/ Initialised(n) /\ wait_list[n] # <<>> /\ signal_wakes(n)
       \/ /\ Initialised(n) /\ wait_list[n] = <<>>
          /\ sem_count' = [sem_count EXCEPT ![n] = count_up(@)]
          /\ Return(0)
          /\ UNCHANGED <<wait_list, runqueue>>
    /\ UNCHANGED <<procVars, sem_init, cpuVars, memVars, modeVars, keyboard_queue>>

\* The waiters move to the runqueue in their order, each with -1 to return.
destroyed_eax(n) ==
    [t \in Slots |-> IF t \in Range(wait_list[n]) THEN -1 ELSE eax[t]]

destroy(n) ==
    /\ runqueue' = runqueue \o wait_list[n]
    /\ wait_list' = [wait_list EXCEPT ![n] = <<>>]
    /\ sem_init' = [sem_init EXCEPT ![n] = 0]
    /\ owned_sems' = [owned_sems EXCEPT ![current] = @ \ {n}]
    /\ UNCHANGED sem_count

sys_sem_destroy(n) ==
    /\ Running
    /\ \/ /\ ~Initialised(n)
          /\ Return(-EINVAL)
          /\ UNCHANGED <<semVars, owned_sems, runqueue>>
       \/ /\ Initialised(n) /\ n \notin owned_sems[current]
          /\ Return(-EPERM)
          /\ UNCHANGED <<semVars, owned_sems, runqueue>>
       \/ /\ Initialised(n) /\ n \in owned_sems[current]
          /\ destroy(n)
          /\ eax' = [destroyed_eax(n) EXCEPT ![current] = 0]
    /\ UNCHANGED <<pid, task_pid, quantum, cpuVars, memVars, modeVars, keyboard_queue>>

-----------------------------------------------------------------------------
(* exit.  The call is void: what is left in eax is of no use to the program. *)

\* Mutant of may_exit: the test for init is missing.
may_exit_always == TRUE

\* Init may not end.
may_exit == task_pid[current] # 0

sys_exit ==
    /\ Running
    /\ \/ ~may_exit /\ UNCHANGED modeVars
       \/ may_exit /\ mode' = "exit" /\ exit_sem' = 0
    /\ Return(USER_EAX)
    /\ UNCHANGED <<procVars, semVars, cpuVars, memVars, runqueue, keyboard_queue>>

\* One turn of the loop that destroys the semaphores of the process.
exit_sems ==
    /\ mode = "exit"
    /\ exit_sem < SEM_MAX_VALUE
    /\ exit_sem' = exit_sem + 1
    /\ \/ /\ exit_sem \in owned_sems[current] /\ Initialised(exit_sem)
          /\ destroy(exit_sem)
          /\ eax' = destroyed_eax(exit_sem)
       \/ /\ ~(exit_sem \in owned_sems[current] /\ Initialised(exit_sem))
          /\ UNCHANGED <<semVars, owned_sems, runqueue, eax>>
    /\ UNCHANGED <<mode, pid, task_pid, quantum, cpuVars, memVars, keyboard_queue>>

\* Mutant of freed: sys_exit does not free the frames.
freed_none == phys_mem

\* Frames in use once the pages of the exiting process are freed.
freed == phys_mem \ Range(ph_pages[current])

\* The rest of sys_exit.  schedule finds left4current = 0; with one process
\* left on the runqueue it does not switch and sys_exit returns.
exit_last ==
    /\ mode = "exit"
    /\ exit_sem = SEM_MAX_VALUE
    /\ task_pid' = [task_pid EXCEPT ![current] = -1]
    /\ phys_mem' = freed
    /\ schedule(FALSE, list_del(runqueue, current), remaining, FALSE, 0)
    /\ mode' = "user"
    /\ exit_sem' = 0
    /\ UNCHANGED <<pid, quantum, owned_sems, semVars, ph_pages, eax, keyboard_queue>>

-----------------------------------------------------------------------------
(* Exceptions *)

\* A page fault ends the process like sys_exit, and the system if it is init.
\* A process that has exited and still runs faults again and again.
page_fault_routine ==
    /\ mode = "user"
    /\ "page" \in Faults
    /\ \/ task_pid[current] = 0 /\ mode' = "halted" /\ UNCHANGED exit_sem
       \/ task_pid[current] # 0 /\ mode' = "exit" /\ exit_sem' = 0
    /\ UNCHANGED <<procVars, semVars, cpuVars, memVars, eax, runqueue, keyboard_queue>>

\* Every other exception routine prints a message and loops.
exception_routine ==
    /\ mode = "user"
    /\ "other" \in Faults
    /\ mode' = "halted"
    /\ UNCHANGED <<exit_sem, procVars, semVars, cpuVars, memVars, eax, runqueue, keyboard_queue>>

-----------------------------------------------------------------------------
\* Semaphore identifiers programs pass: the valid ones and one on each side.
SemArgs == -1 .. SEM_MAX_VALUE

sys_call_table ==
    \/ sys_ni_syscall
    \/ sys_getpid
    \/ \E q \in Quanta : sys_nice(q)
    \/ sys_fork_fails
    \/ sys_fork
    \/ \E n \in SemArgs, v \in SemValues : sys_sem_init(n, v)
    \/ \E n \in SemArgs : sys_sem_wait(n)
    \/ \E n \in SemArgs : sys_sem_signal(n)
    \/ \E n \in SemArgs : sys_sem_destroy(n)
    \/ sys_exit

exit_step == exit_sems \/ exit_last

Next ==
    \/ sys_call_table
    \/ exit_step
    \/ clock_routine
    \/ page_fault_routine
    \/ exception_routine

Spec == Init /\ [][Next]_vars

\* The timer keeps ticking, and kernel code runs to its end.
FairSpec == Spec /\ WF_vars(clock_routine) /\ WF_vars(exit_step)

-----------------------------------------------------------------------------
(* Properties *)

Live == {t \in Slots : task_pid[t] # -1}

\* Every variable keeps to the values its C declaration and the code allow.
TypeOK ==
    /\ current \in Slots
    /\ mode \in {"user", "exit", "halted"}
    /\ exit_sem \in 0 .. SEM_MAX_VALUE
    /\ pid \in Nat
    /\ task_pid \in [Slots -> Nat \cup {-1}]
    /\ quantum \in [Slots -> Nat]
    /\ remaining \in [Slots -> Int]
    /\ owned_sems \in [Slots -> SUBSET Sems]
    /\ ph_pages \in [Slots -> [Pages -> Frames]]
    /\ eax \in [Slots -> Int]
    /\ runqueue \in Seq(Slots)
    /\ keyboard_queue \in Seq(Slots)
    /\ wait_list \in [Sems -> Seq(Slots)]
    /\ sem_count \in [Sems -> 0 .. UINT_SPAN - 1]
    /\ sem_init \in [Sems -> {0, 1}]
    /\ left4current \in Int
    /\ in_service \in BOOLEAN
    /\ phys_mem \subseteq Frames
    /\ pagusr_table \in [Entries -> Frames]

\* A process that exists is linked on exactly one list, exactly once, and a
\* free slot of task[] on none: the run_list node is never shared or lost by
\* fork, exit, block, wake-up and requeue (sched.c, sys.c).
QueuesExact ==
    /\ IsInjective(runqueue)
    /\ IsInjective(keyboard_queue)
    /\ \A s \in Sems : IsInjective(wait_list[s])
    /\ Range(runqueue) \cap Range(keyboard_queue) = {}
    /\ \A s \in Sems : /\ Range(wait_list[s]) \cap Range(runqueue) = {}
                       /\ Range(wait_list[s]) \cap Range(keyboard_queue) = {}
    /\ \A s, r \in Sems : s # r => Range(wait_list[s]) \cap Range(wait_list[r]) = {}
    /\ Live = Range(runqueue) \cup Range(keyboard_queue)
                 \cup UNION {Range(wait_list[s]) : s \in Sems}

\* The running process is the first of the runqueue as long as it exists, so
\* "runqueue.next" after it has left is the next one (sys.c:203, sched.c:190).
CurrentFirst == current \in Live => runqueue # <<>> /\ Head(runqueue) = current

\* Init is never blocked and never ends, which is what guarantees that
\* task_switch always finds a process to run.
InitReady == task_pid[0] = 0 /\ 0 \in Range(runqueue)

\* No lost wake-up: nobody waits on a semaphore that has units left, nor on
\* one that is not initialised.
NoLostWakeup ==
    \A s \in Sems : wait_list[s] # <<>> => sem_init[s] = 1 /\ sem_count[s] = 0

\* An initialised semaphore has exactly one owner among the processes, so
\* somebody can always destroy it; an uninitialised one has none.
OneOwner ==
    /\ \A s \in Sems : sem_init[s] = 1 => \E t \in Live : s \in owned_sems[t]
    /\ \A t \in Live : \A s \in owned_sems[t] :
          /\ sem_init[s] = 1
          /\ \A u \in Live : s \in owned_sems[u] => u = t

Owned == UNION {Range(ph_pages[t]) : t \in Live}

\* The frames in use are exactly those of the kernel, of the code, of the
\* mapping made at boot, and of the processes; no frame belongs to two
\* processes, or to two pages of one.  Neither fork (its rollback included)
\* nor exit leaks or shares a frame.
FramesExact ==
    /\ phys_mem = Reserved \cup Range(BootMapped) \cup Owned
    /\ Owned \cap (Reserved \cup Range(BootMapped)) = {}
    /\ \A t \in Live : IsInjective(ph_pages[t])
    /\ \A t, u \in Live : t # u => Range(ph_pages[t]) \cap Range(ph_pages[u]) = {}

\* While a process other than init runs, the page table maps its own pages.
OwnAddressSpace ==
    current \in Live /\ current # 0 =>
        \A i \in Pages : pagusr_table[i] = ph_pages[current][i]

\* init_task0 "sets all the pages of data to task0" (sched.c:46): a process,
\* init included, that loses the processor leaves its memory in the frames
\* that task_switch will map for it again.
MemoryKept ==
    [][current' # current /\ current \in Live' =>
          \A i \in Pages : pagusr_table[i] = ph_pages[current][i]]_vars

\* A process that was blocked never resumes with the call number SAVE_ALL
\* pushed: whoever puts it back on the runqueue has written its return value.
ReturnWritten ==
    /\ \A s \in Sems : \A t \in Range(wait_list[s]) : eax[t] = BLOCKED_EAX
    /\ \A t \in Range(runqueue) : t # current => eax[t] # BLOCKED_EAX

\* What get_stats reports as remaining is what the scheduler counts, and a
\* process never runs with its time used up.
TicksAgree == mode = "user" => left4current = remaining[current] /\ left4current > 0

\* How a step changes wait list s: the running process joins at the end because
\* there are no units; the one that has waited longest leaves for the end of the
\* runqueue with 0 to return; or the semaphore is destroyed and all leave, in
\* their order.
InOrder(s) ==
    \/ /\ wait_list'[s] = Append(wait_list[s], current)
       /\ sem_count[s] = 0
    \/ /\ wait_list[s] = <<Head(wait_list[s])>> \o wait_list'[s]
       /\ runqueue' = Append(runqueue, Head(wait_list[s]))
       /\ eax'[Head(wait_list[s])] = 0
       /\ sem_init'[s] = 1
    \/ /\ wait_list'[s] = <<>>
       /\ sem_init'[s] = 0
       /\ runqueue' = runqueue \o wait_list[s]

\* A wait list changes in no other way (sys_sem_wait, sys_sem_signal,
\* sys_sem_destroy and sys_exit, sys.c).
WaitInOrder ==
    [][\A s \in Sems : wait_list'[s] # wait_list[s] => InOrder(s)]_vars

\* The processes that wait on a semaphore when it is destroyed "will be returned
\* by sem_wait with a EINTR error code" (sys.c:265).
WaitersInterrupted ==
    [][\A s \in Sems : sem_init[s] = 1 /\ sem_init'[s] = 0 =>
          \A t \in Range(wait_list[s]) : eax'[t] = -EINTR]_vars

\* What Semaphores calls the value of a semaphore.
sem_value(s) == IF sem_init[s] = 1 THEN sem_count[s] - Len(wait_list[s]) ELSE 0

Dijkstra == INSTANCE Semaphores WITH
    Procs   <- Slots,
    Sem     <- Sems,
    Span    <- UINT_SPAN,
    open    <- {s \in Sems : sem_init[s] = 1},
    value   <- [s \in Sems |-> sem_value(s)],
    waiting <- [s \in Sems |-> Range(wait_list[s])]

\* The semaphores are counting semaphores: over any sequence of calls, exits
\* and faults, a unit given by a signal goes to exactly one waiter or stays,
\* none is given to a process that no longer waits, and a semaphore that is
\* initialised again starts without the waiters and units it had before.
SemSpec == Dijkstra!Spec

\* Round robin: a process on the runqueue gets the processor, unless a process
\* that has exited keeps it or an exception stops the machine.
ReadyRuns ==
    \A t \in Slots : t \in Range(runqueue) ~>
                        (current = t \/ current \notin Live \/ mode = "halted")

\* exit "will NEVER return" (libc.c): user code runs only in processes that exist.
ExitNeverReturns == mode = "user" => current \in Live

=============================================================================
