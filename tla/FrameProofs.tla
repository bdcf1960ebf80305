------------------------------ MODULE FrameProofs -----------------------------
(***************************************************************************)
(* The page frames: fork and exit neither leak nor share one, and the page *)
(* table follows the running process, for every number of processes, pages *)
(* and frames.                                                             *)
(***************************************************************************)
EXTENDS SchedProofs

\* A process that has exited and still runs has given its frames back, so that
\* a page fault may run sys_exit for it once more without harm.
DeadFree == current \notin Live => Range(ph_pages[current]) \cap phys_mem = {}

\* The invariant of the memory.
FrameInv == FramesExact /\ DeadFree /\ OwnAddressSpace

\* How a step may change the process that runs.
Switches ==
    \/ current' = current /\ \A i \in Pages : pagusr_table'[i] = pagusr_table[i]
    \/ current' \in Live' /\ \A i \in Pages : pagusr_table'[i] = ph_pages[current'][i]

\* task_switch maps the pages of the process it switches to.
LEMMA TaskSwitchMaps ==
    ASSUME NEW t, NEW rem, NEW irq, NEW it_is_int, task_switch(t, rem, irq, it_is_int)
    PROVE  current' = t /\ \A i \in Pages : pagusr_table'[i] = ph_pages[t][i]
<1>1. \A i \in Pages : i \in Entries
  BY FramesAssumption DEF Pages, Entries
<1> QED
  BY <1>1 DEF task_switch, map_pages

\* schedule leaves mapped the process that runs next.
LEMMA ScheduleMaps ==
    ASSUME NEW alive, NEW rq, NEW rem, NEW irq, NEW from_int,
           schedule(alive, rq, rem, irq, from_int)
    PROVE  \/ current' = current /\ pagusr_table' = pagusr_table
           \/ \A i \in Pages : pagusr_table'[i] = ph_pages[current'][i]
<1>1. CASE UNCHANGED <<current, pagusr_table>>
  BY <1>1
<1>2. CASE task_switch(next_task(requeue(alive, rq)), rem, irq, from_int)
  BY <1>2, TaskSwitchMaps, Zenon
<1> QED
  BY <1>1, <1>2, Zenon DEF schedule

\* The process that schedule or sem_block switch to exists.
LEMMA SwitchedLive ==
    ASSUME QueueInv', runqueue' # <<>>, current' = Head(runqueue')
    PROVE  current' \in Live'
<1>1. runqueue' \in Seq(Slots')
  BY DEF QueueInv, TypeOK
<1>2. Head(runqueue') \in Range(runqueue')
  BY <1>1, First
<1> QED
  BY <1>2 DEF QueueInv, QueuesExact

\* A step that neither creates nor ends a process.
LEMMA PlainFrames ==
    ASSUME QueueInv, FrameInv, UNCHANGED <<task_pid, ph_pages, phys_mem>>, Switches
    PROVE  FrameInv'
<1>1. Live' = Live
  BY DEF Live
<1>2. Owned' = Owned
  BY <1>1 DEF Owned
<1>3. FramesExact'
  BY <1>1, <1>2 DEF FrameInv, FramesExact
<1>4. DeadFree'
  BY <1>1 DEF FrameInv, DeadFree, Switches
<1>5. OwnAddressSpace'
  BY <1>1 DEF FrameInv, OwnAddressSpace, Switches
<1> QED
  BY <1>3, <1>4, <1>5 DEF FrameInv

\* The timer interrupt.
LEMMA ClockFrames ==
    ASSUME QueueInv, FrameInv, clock_routine
    PROVE  FrameInv'
<1> DEFINE rem == [remaining EXCEPT ![current] = @ - 1]
<1>1. UNCHANGED <<task_pid, ph_pages, phys_mem>>
  BY DEF clock_routine, procVars
<1>2. QueueInv'
  BY ClockQueue
<1>3. CASE UNCHANGED <<current, pagusr_table>>
  BY <1>1, <1>3, PlainFrames DEF Switches
<1>4. CASE schedule(task_pid[current] # -1, runqueue, rem, TRUE, 1)
  <2>1. /\ runqueue \in Seq(Slots) /\ IsInjective(runqueue) /\ TypeOK
        /\ rem \in [Slots -> Int] /\ current \in Slots
    <3>1. TypeOK /\ IsInjective(runqueue)
      BY DEF QueueInv, QueuesExact
    <3>2. runqueue \in Seq(Slots) /\ remaining \in [Slots -> Int] /\ current \in Slots
      BY <3>1 DEF TypeOK
    <3>3. rem \in [Slots -> Int]
      BY <3>2
    <3> QED
      BY <3>1, <3>2, <3>3
  <2>2. task_pid[current] # -1 => current \in Range(runqueue)
    BY <2>1, First DEF QueueInv, CurrentFirst, Live
  <2> HIDE DEF rem
  <2>3. \/ current' = current
        \/ runqueue' # <<>> /\ current' = Head(runqueue')
    <3>1. (task_pid[current] # -1) \in BOOLEAN /\ TRUE \in BOOLEAN
      OBVIOUS
    <3> QED
      BY <1>4, <2>1, <2>2, <3>1, ScheduleQueue
  <2>4. \/ current' = current /\ pagusr_table' = pagusr_table
        \/ \A i \in Pages : pagusr_table'[i] = ph_pages[current'][i]
    BY <1>4, ScheduleMaps
  <2>5. Live' = Live
    BY <1>1 DEF Live
  <2>6. Switches \/ (current' = current /\ current \notin Live)
    BY <1>2, <2>3, <2>4, <2>5, SwitchedLive DEF Switches
  <2>7. CASE current' = current /\ current \notin Live
    <3>1. FramesExact'
      BY <1>1, <2>5 DEF FrameInv, FramesExact, Owned
    <3> QED
      BY <1>1, <2>5, <2>7, <3>1 DEF FrameInv, DeadFree, OwnAddressSpace
  <2> QED
    BY <1>1, <2>6, <2>7, PlainFrames
<1> QED
  BY <1>3, <1>4, Zenon DEF clock_routine

\* A wait that blocks.
LEMMA WaitFrames ==
    ASSUME QueueInv, FrameInv, NEW n \in SemArgs, sys_sem_wait(n)
    PROVE  FrameInv'
<1>1. UNCHANGED <<task_pid, ph_pages, phys_mem>>
  BY DEF sys_sem_wait, procVars
<1>2. QueueInv'
  BY SemWaitQueue
<1>3. CASE UNCHANGED <<cpuVars, pagusr_table>>
  BY <1>1, <1>3, PlainFrames DEF Switches, cpuVars
<1>4. CASE may_wait /\ sem_block(n)
  <2> DEFINE rq == list_del(runqueue, current)
  <2>1. runqueue' = rq /\ task_switch(Head(rq), remaining, FALSE, 0)
    BY <1>4 DEF sem_block, next_task
  <2>2. current' = Head(rq) /\ \A i \in Pages : pagusr_table'[i] = ph_pages[Head(rq)][i]
    BY <2>1, TaskSwitchMaps
  <2> HIDE DEF rq
  <2>3. runqueue' # <<>>
    BY <1>2, First DEF QueueInv, InitReady, TypeOK
  <2>4. current' \in Live'
    BY <1>2, <2>1, <2>2, <2>3, SwitchedLive
  <2> QED
    BY <1>1, <2>2, <2>4, PlainFrames DEF Switches
<1> QED
  BY <1>3, <1>4, Zenon DEF sys_sem_wait

\* The child gets frames of its own.
LEMMA ForkFrames ==
    ASSUME QueueInv, FrameInv, sys_fork
    PROVE  FrameInv'
<1>1. PICK new \in srch_free_task, fr \in alloc_frame(phys_mem) :
          /\ ph_pages' = [ph_pages EXCEPT ![new] = fr]
          /\ phys_mem' = phys_mem \cup Range(fr)
          /\ task_pid' = [task_pid EXCEPT ![new] = pid]
  BY DEF sys_fork
<1>2. /\ new \in Slots /\ task_pid[new] = -1 /\ new \notin Live /\ pid \in Nat
      /\ task_pid \in [Slots -> Nat \cup {-1}] /\ ph_pages \in [Slots -> [Pages -> Frames]]
  BY DEF srch_free_task, QueueInv, TypeOK, Live
<1>3. Live' = Live \cup {new}
  BY <1>1, <1>2 DEF Live
<1>4. Range(fr) \cap phys_mem = {} /\ IsInjective(fr)
  BY AllocFrame
<1>5. ph_pages'[new] = fr /\ \A t \in Live : ph_pages'[t] = ph_pages[t] /\ t # new
  BY <1>1, <1>2 DEF Live
<1>6. Owned' = Owned \cup Range(fr)
  <2>1. Owned' = UNION {Range(ph_pages'[t]) : t \in Live \cup {new}}
    BY <1>3 DEF Owned
  <2> QED
    BY <1>5, <2>1 DEF Owned
<1>7. FramesExact'
  <2>1. /\ phys_mem = Reserved \cup Range(BootMapped) \cup Owned
        /\ Owned \cap (Reserved \cup Range(BootMapped)) = {}
    BY DEF FrameInv, FramesExact
  <2>2. phys_mem' = Reserved \cup Range(BootMapped) \cup Owned'
    BY <1>1, <1>6, <2>1
  <2>3. Owned' \cap (Reserved \cup Range(BootMapped)) = {}
    BY <1>4, <1>6, <2>1
  <2>4. \A t \in Live' : IsInjective(ph_pages'[t])
    BY <1>3, <1>4, <1>5 DEF FrameInv, FramesExact
  <2>5. \A t \in Live : Range(ph_pages[t]) \subseteq phys_mem
    BY <2>1 DEF Owned
  <2>6. \A t \in Live : Range(ph_pages'[t]) \cap Range(fr) = {}
    BY <1>4, <1>5, <2>5
  <2>7. \A t, u \in Live' : t # u => Range(ph_pages'[t]) \cap Range(ph_pages'[u]) = {}
    <3>1. \A t, u \in Live : t # u => Range(ph_pages'[t]) \cap Range(ph_pages'[u]) = {}
      BY <1>5 DEF FrameInv, FramesExact
    <3> QED
      BY <1>3, <1>5, <2>6, <3>1
  <2> QED
    BY <2>2, <2>3, <2>4, <2>7 DEF FramesExact
<1>8. current' = current /\ current \in Live
  BY DEF sys_fork, Running, Live, QueueInv, TypeOK
<1>9. \A i \in Pages : pagusr_table'[i] = pagusr_table[i]
  <2>1. \A i \in Pages : i \in Entries
    BY FramesAssumption DEF Pages, Entries
  <2> QED
    BY <2>1 DEF sys_fork
<1>10. DeadFree' /\ OwnAddressSpace'
  BY <1>3, <1>5, <1>8, <1>9 DEF FrameInv, DeadFree, OwnAddressSpace
<1> QED
  BY <1>7, <1>10 DEF FrameInv

\* The frames of the process that ends are free again, and no others.
LEMMA ExitFrames ==
    ASSUME QueueInv, FrameInv, exit_last
    PROVE  FrameInv'
<1> DEFINE own == Range(ph_pages[current])
<1>1. /\ task_pid' = [task_pid EXCEPT ![current] = -1]
      /\ phys_mem' = phys_mem \ own
      /\ ph_pages' = ph_pages
      /\ schedule(FALSE, list_del(runqueue, current), remaining, FALSE, 0)
  BY Zenon DEF exit_last, freed
<1>2. QueueInv' /\ current \in Slots
  BY ExitLastQueue DEF QueueInv, TypeOK
<1>3. Live' = Live \ {current}
  BY <1>1, <1>2 DEF Live, QueueInv, TypeOK
<1>4. /\ phys_mem = Reserved \cup Range(BootMapped) \cup Owned
      /\ Owned \cap (Reserved \cup Range(BootMapped)) = {}
      /\ \A t, u \in Live : t # u => Range(ph_pages[t]) \cap Range(ph_pages[u]) = {}
  BY DEF FrameInv, FramesExact
<1>5. Owned' = Owned \ own
  <2>1. Owned' = UNION {Range(ph_pages[t]) : t \in Live \ {current}}
    BY <1>1, <1>3 DEF Owned
  <2>2. CASE current \in Live
    <3>1. \A t \in Live \ {current} : Range(ph_pages[t]) \cap own = {}
      BY <1>4, <2>2
    <3> QED
      BY <2>1, <2>2, <3>1 DEF Owned
  <2>3. CASE current \notin Live
    <3>1. own \cap Owned = {}
      BY <1>4, <2>3 DEF FrameInv, DeadFree
    <3> QED
      BY <2>1, <2>3, <3>1 DEF Owned
  <2> QED
    BY <2>2, <2>3
<1>6. own \cap (Reserved \cup Range(BootMapped)) = {}
  <2>1. CASE current \in Live
    BY <1>4, <2>1 DEF Owned
  <2>2. CASE current \notin Live
    BY <1>4, <2>2 DEF FrameInv, DeadFree
  <2> QED
    BY <2>1, <2>2
<1> HIDE DEF own
<1>7. FramesExact'
  <2>1. phys_mem' = Reserved \cup Range(BootMapped) \cup Owned'
    BY <1>1, <1>4, <1>5, <1>6
  <2>2. Owned' \cap (Reserved \cup Range(BootMapped)) = {}
    BY <1>4, <1>5
  <2>3. /\ \A t \in Live' : IsInjective(ph_pages'[t])
        /\ \A t, u \in Live' : t # u => Range(ph_pages'[t]) \cap Range(ph_pages'[u]) = {}
    BY <1>1, <1>3 DEF FrameInv, FramesExact
  <2> QED
    BY <2>1, <2>2, <2>3 DEF FramesExact
<1>8. \/ current' = current /\ current' \notin Live'
      \/ current' \in Live' /\ \A i \in Pages : pagusr_table'[i] = ph_pages[current'][i]
  <2> DEFINE rq == list_del(runqueue, current)
  <2>1. rq \in Seq(Slots) /\ IsInjective(rq)
    BY Del DEF QueueInv, TypeOK, QueuesExact
  <2> HIDE DEF rq
  <2>2. /\ schedule(FALSE, rq, remaining, FALSE, 0) /\ FALSE \in BOOLEAN
        /\ TypeOK /\ remaining \in [Slots -> Int]
    BY <1>1 DEF rq, QueueInv, TypeOK
  <2>3. \/ current' = current
        \/ runqueue' # <<>> /\ current' = Head(runqueue')
    <3>1. FALSE => current \in Range(rq)
      OBVIOUS
    <3> QED
      BY <2>1, <2>2, <3>1, ScheduleQueue
  <2>4. \/ current' = current /\ pagusr_table' = pagusr_table
        \/ \A i \in Pages : pagusr_table'[i] = ph_pages[current'][i]
    BY <2>2, ScheduleMaps
  <2>5. current \notin Live'
    BY <1>3
  <2> QED
    BY <1>2, <2>3, <2>4, <2>5, SwitchedLive
<1>9. DeadFree' /\ OwnAddressSpace'
  BY <1>1, <1>8 DEF DeadFree, OwnAddressSpace, own
<1> QED
  BY <1>7, <1>9 DEF FrameInv

\* The frames at boot.
LEMMA FrameStart == Init => FrameInv
<1> SUFFICES ASSUME Init PROVE FrameInv
  OBVIOUS
<1>1. /\ phys_mem = Reserved \cup Range(BootMapped) \cup Range(BootPages)
      /\ current = 0 /\ 0 \in Slots
      /\ ph_pages[0] = BootPages
      /\ Live = {0}
  BY SchedAssumption DEF Init, init_sched, init_task0, Live, Slots
<1>2. Owned = Range(BootPages)
  BY <1>1 DEF Owned
<1>3. Range(BootPages) \cap (Reserved \cup Range(BootMapped)) = {} /\ IsInjective(BootPages)
  BY Boot, AllocFrame
<1> QED
  BY <1>1, <1>2, <1>3 DEF FrameInv, FramesExact, DeadFree, OwnAddressSpace

\* Every step preserves the invariant of the memory.
THEOREM FrameStep == QueueInv /\ FrameInv /\ [Next]_vars => FrameInv'
<1> SUFFICES ASSUME QueueInv, FrameInv, [Next]_vars
             PROVE  FrameInv'
  OBVIOUS
<1>1. CASE clock_routine
  BY <1>1, ClockFrames
<1>2. CASE \E n \in SemArgs : sys_sem_wait(n)
  BY <1>2, WaitFrames
<1>3. CASE sys_fork
  BY <1>3, ForkFrames
<1>4. CASE exit_last
  BY <1>4, ExitFrames
<1>5. CASE \/ sys_ni_syscall \/ sys_getpid \/ sys_fork_fails
           \/ \E q \in Quanta : sys_nice(q)
           \/ \E n \in SemArgs, v \in SemValues : sys_sem_init(n, v)
           \/ \E n \in SemArgs : sys_sem_signal(n) \/ sys_sem_destroy(n)
           \/ sys_exit \/ exit_sems \/ page_fault_routine \/ exception_routine
           \/ UNCHANGED vars
  <2>1. UNCHANGED <<task_pid, ph_pages, phys_mem, current, pagusr_table>>
    BY <1>5, ForkFailsFrames, Zenon DEF sys_ni_syscall, sys_getpid, sys_fork_fails, sys_nice, sys_sem_init,
         sys_sem_signal, sys_sem_destroy, sys_exit, exit_sems, page_fault_routine,
         exception_routine, vars, procVars, cpuVars, memVars
  <2> QED
    BY <2>1, PlainFrames DEF Switches
<1> QED
  BY <1>1, <1>2, <1>3, <1>4, <1>5, Zenon DEF Next, sys_call_table, exit_step

-----------------------------------------------------------------------------
\* The frames in use are exactly those of the kernel, the code, the mapping made
\* at boot and the processes, and no two pages share one (mm.c, sys.c).
THEOREM FramesExactAlways == Spec => []FramesExact
<1>1. FrameInv => FramesExact
  BY DEF FrameInv
<1> QED
  BY <1>1, FrameStart, FrameStep, QueueSafe, PTL DEF Spec

\* The page table maps the pages of the running process, unless that is init.
THEOREM OwnAddressSpaceAlways == Spec => []OwnAddressSpace
<1>1. FrameInv => OwnAddressSpace
  BY DEF FrameInv
<1> QED
  BY <1>1, FrameStart, FrameStep, QueueSafe, PTL DEF Spec

=============================================================================
