---------------------------- MODULE KeyboardProofs ----------------------------
(***************************************************************************)
(* The kernel with its keyboard keeps the invariant of its queues, for     *)
(* every number of slots, every size of the buffer and every read: what    *)
(* SchedProofs shows of the system calls and the clock, together with the  *)
(* reads that block and the interrupt that wakes.  The semaphores are still *)
(* those of Semaphores.                                                    *)
(***************************************************************************)
EXTENDS Keyboard, SemaphoreProofs

\* The window maps existing frames.
LEMMA WindowType ==
    ASSUME TypeOK, NEW t \in Slots
    PROVE  window(t) \in [Entries -> Frames]
<1>1. \A i \in Entries : i \notin Pages => i - NUM_PAG_DATA \in Pages
  BY FramesAssumption DEF Entries, Pages
<1>2. /\ pagusr_table \in [Entries -> Frames]
      /\ ph_pages[t] \in [Pages -> Frames]
  BY DEF TypeOK
<1>3. \A i \in Entries : i \notin Pages => ph_pages[t][i - NUM_PAG_DATA] \in Frames
  BY <1>1, <1>2
<1> QED
  BY <1>2, <1>3 DEF window

\* A step that, of the variables of Sched, changes at most the mode to halted, the
\* page table and the eax of some process.
LEMMA PlainStep ==
    ASSUME QueueInv, UNCHANGED <<procVars, semVars, cpuVars, ph_pages, phys_mem, exit_sem>>,
           UNCHANGED <<runqueue, keyboard_queue>>,
           mode' = mode \/ mode' = "halted",
           eax' \in [Slots -> Int], pagusr_table' \in [Entries -> Frames]
    PROVE  QueueInv'
<1> USE DEF QueueInv
<1>1. /\ UNCHANGED <<pid, task_pid, quantum, owned_sems, wait_list, sem_count, sem_init>>
      /\ UNCHANGED <<current, remaining, left4current>>
      /\ in_service' = in_service
  BY Zenon DEF procVars, semVars, cpuVars
<1>2. TypeOK'
  BY <1>1 DEF TypeOK
<1>3. QueuesExact' /\ CurrentFirst' /\ InitReady'
  BY <1>1, QueuesUnchanged
<1> QED
  BY <1>1, <1>2, <1>3 DEF NoLostWakeup, ExitsNotInit

\* A read that blocks moves the running process from the runqueue to the
\* keyboard queue, and runs the next one.
LEMMA ReadBlocksQueue ==
    ASSUME QueueInv, NEW n \in ReadSizes, Running, read_blocks(n),
           UNCHANGED <<procVars, semVars, ph_pages, phys_mem, exit_sem>>
    PROVE  QueueInv'
<1> USE DEF QueueInv
<1> DEFINE rq == list_del(runqueue, current)
           kq == list_add_tail(keyboard_queue, current)
<1>1. /\ UNCHANGED <<pid, task_pid, quantum, owned_sems, wait_list, sem_count, sem_init>>
      /\ UNCHANGED <<ph_pages, phys_mem, exit_sem, mode>>
      /\ runqueue' = rq
      /\ keyboard_queue' = kq
      /\ eax' = [eax EXCEPT ![current] = n]
      /\ task_pid[current] # 0
      /\ current \in Live
  BY DEF read_blocks, block_into_kbd, Return, procVars, semVars, Running, Live, TypeOK
<1>2. task_switch(Head(rq), remaining, FALSE, 0)
  BY <1>1 DEF read_blocks, next_task
<1>3. rq \in Seq(Slots) /\ IsInjective(rq) /\ Range(rq) = Range(runqueue) \ {current}
  BY Del DEF TypeOK, QueuesExact
<1>4. current \in Range(runqueue) /\ current \in Slots
  BY <1>1, First DEF CurrentFirst, TypeOK
<1>5. /\ keyboard_queue \in Seq(Slots) /\ IsInjective(keyboard_queue)
      /\ current \notin Range(keyboard_queue)
  BY <1>4 DEF TypeOK, QueuesExact
<1>6. kq \in Seq(Slots) /\ IsInjective(kq) /\ Range(kq) = Range(keyboard_queue) \cup {current}
  BY <1>4, <1>5, AddTail
<1> HIDE DEF rq, kq
<1>7. rq # <<>> /\ Head(rq) \in Slots
  BY <1>1, <1>3, First DEF InitReady
<1>8. /\ current' = Head(rq)
      /\ left4current' \in Int
      /\ remaining' \in [Slots -> Int]
      /\ pagusr_table' \in [Entries -> Frames]
      /\ in_service' \in BOOLEAN
  <2>1. remaining \in [Slots -> Int] /\ FALSE \in BOOLEAN
    BY DEF TypeOK
  <2> QED
    BY <1>2, <1>7, <2>1, TaskSwitchType
<1>9. eax' \in [Slots -> Int]
  BY <1>1, <1>4, KeyboardAssumption DEF TypeOK
<1>10. TypeOK'
  BY <1>1, <1>3, <1>6, <1>7, <1>8, <1>9 DEF TypeOK
<1>11. Live' = Live
  BY <1>1 DEF Live
<1>12. QueuesExact'
  <2>1. /\ Range(runqueue') = Range(runqueue) \ {current}
        /\ Range(keyboard_queue') = Range(keyboard_queue) \cup {current}
        /\ wait_list' = wait_list
    BY <1>1, <1>3, <1>6
  <2>2. /\ Range(runqueue) \cap Range(keyboard_queue) = {}
        /\ \A s \in Sems : /\ current \notin Range(wait_list[s])
                          /\ Range(wait_list[s]) \cap Range(runqueue) = {}
                          /\ Range(wait_list[s]) \cap Range(keyboard_queue) = {}
    BY <1>4 DEF QueuesExact
  <2>3. /\ Range(runqueue') \cap Range(keyboard_queue') = {}
        /\ \A s \in Sems : /\ Range(wait_list'[s]) \cap Range(runqueue') = {}
                          /\ Range(wait_list'[s]) \cap Range(keyboard_queue') = {}
    BY <2>1, <2>2
  <2>4. /\ Live = Range(runqueue) \cup Range(keyboard_queue)
                    \cup UNION {Range(wait_list[s]) : s \in Sems}
        /\ \A s \in Sems : IsInjective(wait_list[s])
        /\ \A s, r \in Sems : s # r => Range(wait_list[s]) \cap Range(wait_list[r]) = {}
    BY DEF QueuesExact
  <2>5. Live = Range(runqueue') \cup Range(keyboard_queue')
                  \cup UNION {Range(wait_list[s]) : s \in Sems}
    BY <1>4, <2>1, <2>4
  <2>6. IsInjective(runqueue') /\ IsInjective(keyboard_queue')
    BY <1>1, <1>3, <1>6
  <2>7. Live' = Range(runqueue') \cup Range(keyboard_queue')
                  \cup UNION {Range(wait_list'[s]) : s \in Sems}
    BY <1>11, <2>1, <2>5
  <2> QED
    BY <2>1, <2>3, <2>4, <2>6, <2>7, Zenon DEF QueuesExact
<1>13. CurrentFirst' /\ InitReady'
  BY <1>1, <1>3, <1>7, <1>8 DEF CurrentFirst, InitReady
<1> QED
  BY <1>1, <1>10, <1>12, <1>13 DEF NoLostWakeup, ExitsNotInit, Running

\* The three outcomes of a read from the keyboard.
LEMMA ReadQueue ==
    ASSUME QueueInv, NEW n \in ReadSizes, sys_read_keyboard(n)
    PROVE  QueueInv'
<1>1. /\ Running
      /\ UNCHANGED <<procVars, semVars, ph_pages, phys_mem, exit_sem>>
  BY DEF sys_read_keyboard
<1>2. CASE read_blocks(n)
  BY <1>1, <1>2, ReadBlocksQueue
<1>3. CASE read_now(n) \/ read_refused(n)
  <2>1. UNCHANGED <<cpuVars, runqueue, keyboard_queue>>
    BY <1>3 DEF read_now, read_refused
  <2>2. mode' = mode \/ mode' = "halted"
    BY <1>3 DEF read_now, read_refused
  <2>3. eax' \in [Slots -> Int]
    <3>1. eax' = eax \/ Return(n) \/ Return(-EPERM)
      BY <1>3, Zenon DEF read_now, read_refused
    <3>2. n \in Int /\ -EPERM \in Int
      BY KeyboardAssumption DEF EPERM
    <3>3. eax \in [Slots -> Int] /\ current \in Slots
      BY DEF QueueInv, TypeOK
    <3> QED
      BY <3>1, <3>2, <3>3 DEF Return
  <2>4. pagusr_table' \in [Entries -> Frames]
    BY <1>3, WindowType DEF read_now, read_refused, completed, QueueInv, TypeOK
  <2> QED
    BY <1>1, <2>1, <2>2, <2>3, <2>4, PlainStep
<1> QED
  BY <1>2, <1>3 DEF sys_read_keyboard

\* The key stroke that completes a read moves the first reader to the runqueue.
LEMMA WakeQueue ==
    ASSUME QueueInv, keyboard_queue # <<>>, unblock_and_enqueque(Head(keyboard_queue)),
           UNCHANGED <<procVars, semVars, cpuVars, ph_pages, phys_mem, exit_sem, mode, eax>>,
           pagusr_table' \in [Entries -> Frames]
    PROVE  QueueInv'
<1> USE DEF QueueInv
<1> DEFINE b  == Head(keyboard_queue)
           kq == list_del(keyboard_queue, b)
           rq == list_add_tail(runqueue, b)
<1>1. /\ UNCHANGED <<pid, task_pid, quantum, owned_sems, wait_list, sem_count, sem_init>>
      /\ UNCHANGED <<current, remaining, left4current>>
      /\ UNCHANGED <<ph_pages, phys_mem, exit_sem, mode, eax>>
      /\ in_service' = in_service
  BY Zenon DEF procVars, semVars, cpuVars
<1>2. runqueue' = rq /\ keyboard_queue' = kq
  BY DEF unblock_and_enqueque
<1>3. keyboard_queue \in Seq(Slots) /\ IsInjective(keyboard_queue)
  BY DEF TypeOK, QueuesExact
<1>4. b \in Range(keyboard_queue) /\ b \in Slots
  BY <1>3, First
<1>5. kq \in Seq(Slots) /\ IsInjective(kq) /\ Range(kq) = Range(keyboard_queue) \ {b}
  BY <1>3, Del
<1>6. runqueue \in Seq(Slots) /\ IsInjective(runqueue) /\ b \notin Range(runqueue)
  BY <1>4 DEF TypeOK, QueuesExact
<1>7. /\ rq \in Seq(Slots) /\ IsInjective(rq) /\ rq # <<>>
      /\ Range(rq) = Range(runqueue) \cup {b}
      /\ runqueue # <<>> => Head(rq) = Head(runqueue)
  <2> HIDE DEF b
  <2> QED
    BY <1>4, <1>6, AddTail
<1> HIDE DEF b, kq, rq
<1>8. TypeOK'
  BY <1>1, <1>2, <1>5, <1>7 DEF TypeOK
<1>9. Live' = Live
  BY <1>1 DEF Live
<1>10. QueuesExact'
  <2>1. /\ Range(runqueue') = Range(runqueue) \cup {b}
        /\ Range(keyboard_queue') = Range(keyboard_queue) \ {b}
        /\ wait_list' = wait_list
    BY <1>1, <1>2, <1>5, <1>7
  <2>2. /\ Range(runqueue) \cap Range(keyboard_queue) = {}
        /\ \A s \in Sems : /\ b \notin Range(wait_list[s])
                          /\ Range(wait_list[s]) \cap Range(runqueue) = {}
                          /\ Range(wait_list[s]) \cap Range(keyboard_queue) = {}
    BY <1>4 DEF QueuesExact
  <2>3. /\ Range(runqueue') \cap Range(keyboard_queue') = {}
        /\ \A s \in Sems : /\ Range(wait_list'[s]) \cap Range(runqueue') = {}
                          /\ Range(wait_list'[s]) \cap Range(keyboard_queue') = {}
    BY <2>1, <2>2
  <2>4. /\ Live = Range(runqueue) \cup Range(keyboard_queue)
                    \cup UNION {Range(wait_list[s]) : s \in Sems}
        /\ \A s \in Sems : IsInjective(wait_list[s])
        /\ \A s, r \in Sems : s # r => Range(wait_list[s]) \cap Range(wait_list[r]) = {}
    BY DEF QueuesExact
  <2>5. Live = Range(runqueue') \cup Range(keyboard_queue')
                  \cup UNION {Range(wait_list[s]) : s \in Sems}
    BY <1>4, <2>1, <2>4
  <2>6. IsInjective(runqueue') /\ IsInjective(keyboard_queue')
    BY <1>2, <1>5, <1>7
  <2>7. Live' = Range(runqueue') \cup Range(keyboard_queue')
                  \cup UNION {Range(wait_list'[s]) : s \in Sems}
    BY <1>9, <2>1, <2>5
  <2> QED
    BY <2>1, <2>3, <2>4, <2>6, <2>7, Zenon DEF QueuesExact
<1>11. CurrentFirst' /\ InitReady'
  BY <1>1, <1>2, <1>7, <1>9 DEF CurrentFirst, InitReady
<1> QED
  BY <1>1, <1>8, <1>10, <1>11 DEF NoLostWakeup, ExitsNotInit

\* The keyboard interrupt.
LEMMA KeyQueue ==
    ASSUME QueueInv, keyboard_routine
    PROVE  QueueInv'
<1> DEFINE b    == Head(keyboard_queue)
           circ == [circular EXCEPT ![p] = typed + 1]
<1>1. /\ UNCHANGED <<procVars, semVars, cpuVars, ph_pages, phys_mem, exit_sem, eax>>
      /\ \/ key_kept
         \/ /\ keyboard_queue # <<>>
            /\ key_awaited(b) \/ key_fills(b, circ) \/ key_completes(b, circ)
  BY DEF keyboard_routine
<1>2. eax' \in [Slots -> Int] /\ current \in Slots
  BY <1>1 DEF QueueInv, TypeOK
<1>3. window(current) \in [Entries -> Frames] /\ pagusr_table \in [Entries -> Frames]
  BY <1>2, WindowType DEF QueueInv, TypeOK
<1> HIDE DEF circ, b
<1>4. CASE key_kept \/ key_awaited(b)
  <2>1. UNCHANGED <<mode, pagusr_table, runqueue, keyboard_queue>>
    BY <1>4 DEF key_kept, key_awaited
  <2> QED
    BY <1>1, <1>2, <1>3, <2>1, PlainStep
<1>5. CASE key_fills(b, circ)
  <2>1. UNCHANGED <<mode, runqueue, keyboard_queue>> /\ pagusr_table' = window(current)
    BY <1>5 DEF key_fills
  <2> QED
    BY <1>1, <1>2, <1>3, <2>1, PlainStep
<1>6. CASE keyboard_queue # <<>> /\ key_completes(b, circ)
  <2>1. CASE overflows(size[b])
    <3>1. UNCHANGED <<pagusr_table, runqueue, keyboard_queue>> /\ mode' = "halted"
      BY <1>6, <2>1 DEF key_completes
    <3> QED
      BY <1>1, <1>2, <1>3, <3>1, PlainStep
  <2>2. CASE ~overflows(size[b])
    <3>1. unblock_and_enqueque(b) /\ mode' = mode /\ pagusr_table' = window(current)
      BY <1>6, <2>2 DEF key_completes, completed
    <3> QED
      BY <1>1, <1>3, <1>6, <3>1, WakeQueue DEF b
  <2> QED
    BY <2>1, <2>2
<1> QED
  BY <1>1, <1>4, <1>5, <1>6

-----------------------------------------------------------------------------
\* Every step of the kernel with its keyboard preserves QueueInv.
THEOREM KernelStep == QueueInv /\ [KNext]_kernelVars => QueueInv'
<1> SUFFICES ASSUME QueueInv, [KNext]_kernelVars
             PROVE  QueueInv'
  OBVIOUS
<1>1. CASE other_step
  BY <1>1, QueueStep DEF other_step
<1>2. CASE \E n \in ReadSizes : sys_read_keyboard(n)
  BY <1>2, ReadQueue
<1>3. CASE keyboard_routine
  BY <1>3, KeyQueue
<1>4. CASE UNCHANGED kernelVars
  <2>1. UNCHANGED vars
    BY <1>4 DEF kernelVars
  <2> QED
    BY <2>1, QueueStep
<1> QED
  BY <1>1, <1>2, <1>3, <1>4 DEF KNext

\* In the kernel with its keyboard a process is always on exactly one of the
\* runqueue, the keyboard queue and the wait lists, and init on the first, for
\* every sequence of calls, key strokes, ticks and faults.
THEOREM KernelQueuesExact == KSpec => [](QueuesExact /\ InitReady /\ NoLostWakeup)
<1>1. KInit => QueueInv
  BY QueueInit DEF KInit
<1>2. QueueInv => QueuesExact /\ InitReady /\ NoLostWakeup
  BY DEF QueueInv
<1> QED
  BY <1>1, <1>2, KernelStep, PTL DEF KSpec

\* A blocked reader never disturbs the semaphores: with the keyboard too, they
\* are counting semaphores.
THEOREM KernelSemaphores == KSpec => SemSpec
<1>1. KInit => Dijkstra!Init /\ QueueInv
  BY SemStart, QueueInit DEF KInit
<1>2. QueueInv /\ [KNext]_kernelVars => [Dijkstra!Next]_(Dijkstra!vars)
  <2> SUFFICES ASSUME QueueInv, [KNext]_kernelVars
               PROVE  [Dijkstra!Next]_(Dijkstra!vars)
    OBVIOUS
  <2>1. CASE other_step \/ UNCHANGED kernelVars
    <3>1. [Next]_vars
      BY <2>1, Zenon DEF other_step, kernelVars
    <3> QED
      BY <3>1, SemRefines
  <2>2. CASE keyboard_routine \/ \E n \in ReadSizes : sys_read_keyboard(n)
    <3>1. UNCHANGED semVars
      BY <2>2, Zenon DEF keyboard_routine, sys_read_keyboard
    <3> QED
      BY <3>1, SemStutter DEF semVars
  <2> QED
    BY <2>1, <2>2 DEF KNext
<1> QED
  BY <1>1, <1>2, KernelStep, PTL DEF KSpec, SemSpec, Dijkstra!Spec

=============================================================================
