----------------------------- MODULE ProcessProofs ----------------------------
(***************************************************************************)
(* What the processes can rely on, for every number of them: semaphores    *)
(* have one owner and serve in order, a process that was blocked resumes   *)
(* with a return value, and the two counts of ticks agree.                 *)
(***************************************************************************)
EXTENDS FrameProofs

-----------------------------------------------------------------------------
(* Ownership of semaphores *)

\* The loop of sys_exit has dealt with the semaphores before exit_sem, and a
\* process that has exited and still runs owns none.
ExitOwns ==
    /\ mode = "exit" => \A s \in owned_sems[current] : s >= exit_sem
    /\ current \notin Live => owned_sems[current] = {}

OwnerInv == OneOwner /\ ExitOwns

\* A step that leaves the semaphores, their owners and the processes alone.
LEMMA PlainOwner ==
    ASSUME QueueInv, OwnerInv, UNCHANGED <<task_pid, owned_sems, sem_init>>,
           \/ current' \in Live'
           \/ current' = current,
           mode' = "exit" => (mode = "exit" /\ UNCHANGED <<current, exit_sem>>) \/ exit_sem' = 0
    PROVE  OwnerInv'
<1>1. Live' = Live
  BY DEF Live
<1>2. OneOwner'
  BY <1>1 DEF OwnerInv, OneOwner
<1>3. current' \in Slots'
  BY <1>1 DEF QueueInv, TypeOK, Live
<1>4. \A s \in owned_sems'[current'] : s \in Nat
  <2>1. owned_sems[current'] \subseteq Sems
    BY <1>3 DEF QueueInv, TypeOK
  <2> QED
    BY <2>1, SchedAssumption DEF Sems
<1>5. mode' = "exit" => \A s \in owned_sems'[current'] : s >= exit_sem'
  BY <1>4 DEF OwnerInv, ExitOwns
<1>6. current' \notin Live' => owned_sems'[current'] = {}
  BY <1>1 DEF OwnerInv, ExitOwns
<1> QED
  BY <1>2, <1>5, <1>6 DEF OwnerInv, ExitOwns

\* The running process is the one it was, or exists.
LEMMA StepCurrent ==
    ASSUME QueueInv, QueueInv',
           \/ clock_routine
           \/ exit_last
           \/ \E n \in SemArgs : sys_sem_wait(n)
    PROVE  current' = current \/ current' \in Live'
<1>1. CASE clock_routine
  <2> DEFINE rem == [remaining EXCEPT ![current] = @ - 1]
  <2>0. TypeOK /\ IsInjective(runqueue)
    BY DEF QueueInv, QueuesExact
  <2>1. /\ runqueue \in Seq(Slots) /\ current \in Slots
        /\ rem \in [Slots -> Int]
    BY <2>0 DEF TypeOK
  <2>2. task_pid[current] # -1 => current \in Range(runqueue)
    BY <2>1, First DEF QueueInv, CurrentFirst, Live
  <2>3. CASE schedule(task_pid[current] # -1, runqueue, rem, TRUE, 1)
    <3> HIDE DEF rem
    <3>1. (task_pid[current] # -1) \in BOOLEAN /\ TRUE \in BOOLEAN
      OBVIOUS
    <3>2. \/ current' = current
          \/ runqueue' # <<>> /\ current' = Head(runqueue')
      BY <2>0, <2>1, <2>2, <2>3, <3>1, ScheduleQueue
    <3> QED
      BY <3>2, SwitchedLive
  <2> QED
    BY <1>1, <2>3, Zenon DEF clock_routine
<1>2. CASE exit_last
  <2> DEFINE rq == list_del(runqueue, current)
  <2>1. rq \in Seq(Slots) /\ IsInjective(rq) /\ TypeOK /\ remaining \in [Slots -> Int]
    BY Del DEF QueueInv, TypeOK, QueuesExact
  <2> HIDE DEF rq
  <2>2. schedule(FALSE, rq, remaining, FALSE, 0) /\ FALSE \in BOOLEAN
    BY <1>2, Zenon DEF exit_last, rq
  <2>3. FALSE => current \in Range(rq)
    OBVIOUS
  <2>4. \/ current' = current
        \/ runqueue' # <<>> /\ current' = Head(runqueue')
    BY <2>1, <2>2, <2>3, ScheduleQueue
  <2> QED
    BY <2>4, SwitchedLive
<1>3. ASSUME NEW n \in SemArgs, sys_sem_wait(n)
      PROVE  current' = current \/ current' \in Live'
  <2>1. CASE UNCHANGED cpuVars
    BY <2>1 DEF cpuVars
  <2>2. CASE sem_block(n)
    <3>1. current' = Head(runqueue')
      BY <2>2 DEF sem_block, task_switch, next_task
    <3>2. runqueue' # <<>>
      BY First DEF QueueInv, InitReady, TypeOK
    <3> QED
      BY <3>1, <3>2, SwitchedLive
  <2> QED
    BY <1>3, <2>1, <2>2, Zenon DEF sys_sem_wait
<1> QED
  BY <1>1, <1>2, <1>3

\* sys_sem_init makes the running process the owner.
LEMMA InitOwner ==
    ASSUME QueueInv, OwnerInv, NEW n \in SemArgs, NEW v \in SemValues, sys_sem_init(n, v)
    PROVE  OwnerInv'
<1>1. UNCHANGED <<task_pid, current, mode, exit_sem>> /\ current \in Live /\ mode = "user"
  BY DEF sys_sem_init, cpuVars, modeVars, Running, Live, QueueInv, TypeOK
<1>2. Live' = Live
  BY <1>1 DEF Live
<1>3. CASE UNCHANGED <<semVars, owned_sems>>
  BY <1>1, <1>2, <1>3, PlainOwner DEF semVars
<1>4. CASE /\ n \in Sems /\ ~Initialised(n)
           /\ sem_init' = [sem_init EXCEPT ![n] = 1]
           /\ owned_sems' = [owned_sems EXCEPT ![current] = @ \cup {n}]
  <2>1. /\ sem_init \in [Sems -> {0, 1}] /\ owned_sems \in [Slots -> SUBSET Sems]
        /\ current \in Slots /\ sem_init[n] # 1 /\ Live \subseteq Slots
    BY <1>4 DEF QueueInv, TypeOK, Initialised, Live
  <2>2. \A t \in Live : n \notin owned_sems[t]
    BY <2>1 DEF OwnerInv, OneOwner
  <2>3. OneOwner'
    <3>1. sem_init'[n] = 1 /\ \A s \in Sems : s # n => sem_init'[s] = sem_init[s]
      BY <1>4, <2>1
    <3>2. \A t \in Slots : owned_sems'[t] = IF t = current THEN owned_sems[t] \cup {n}
                                                          ELSE owned_sems[t]
      BY <1>4, <2>1
    <3>a. \A t \in Live : \A s : s \in owned_sems'[t] <=>
                                     s \in owned_sems[t] \/ (t = current /\ s = n)
      BY <2>1, <3>2
    <3>b. /\ \A s \in Sems : sem_init[s] = 1 => \E t \in Live : s \in owned_sems[t]
          /\ \A t \in Live : \A s \in owned_sems[t] :
                sem_init[s] = 1 /\ \A u \in Live : s \in owned_sems[u] => u = t
      BY DEF OwnerInv, OneOwner
    <3>c. \A t \in Live : \A s \in owned_sems[t] : s \in Sems /\ s # n
      BY <2>1, <2>2
    <3>3. \A s \in Sems : sem_init'[s] = 1 => \E t \in Live : s \in owned_sems'[t]
      <4> SUFFICES ASSUME NEW s \in Sems, sem_init'[s] = 1
                   PROVE  \E t \in Live : s \in owned_sems'[t]
        OBVIOUS
      <4>1. CASE s = n
        BY <1>1, <3>a, <4>1
      <4>2. CASE s # n
        BY <3>1, <3>a, <3>b, <4>2
      <4> QED
        BY <4>1, <4>2
    <3>4. \A t \in Live : \A s \in owned_sems'[t] :
             sem_init'[s] = 1 /\ \A u \in Live : s \in owned_sems'[u] => u = t
      <4> SUFFICES ASSUME NEW t \in Live, NEW s \in owned_sems'[t]
                   PROVE  sem_init'[s] = 1 /\ \A u \in Live : s \in owned_sems'[u] => u = t
        OBVIOUS
      <4>1. CASE s = n
        BY <1>4, <3>1, <3>a, <3>c, <4>1, Zenon
      <4>2. CASE s # n
        <5>1. s \in owned_sems[t] /\ \A u \in Live : s \in owned_sems'[u] => s \in owned_sems[u]
          BY <3>a, <4>2
        <5>2. sem_init[s] = 1 /\ \A u \in Live : s \in owned_sems[u] => u = t
          BY <3>b, <5>1, Zenon
        <5>3. sem_init'[s] = sem_init[s]
          BY <3>1, <3>c, <4>2, <5>1, Zenon
        <5> QED
          BY <5>1, <5>2, <5>3, Zenon
      <4> QED
        BY <4>1, <4>2
    <3> QED
      BY <1>2, <3>3, <3>4 DEF OneOwner
  <2> QED
    BY <1>1, <1>2, <2>3 DEF OwnerInv, ExitOwns
<1> QED
  BY <1>3, <1>4, Zenon DEF sys_sem_init

\* A child owns nothing.
LEMMA ForkOwner ==
    ASSUME QueueInv, OwnerInv, sys_fork
    PROVE  OwnerInv'
<1>1. PICK new \in srch_free_task : /\ task_pid' = [task_pid EXCEPT ![new] = pid]
                                    /\ owned_sems' = [owned_sems EXCEPT ![new] = {}]
  BY DEF sys_fork, child_sems
<1>2. UNCHANGED <<sem_init, current, mode, exit_sem>> /\ current \in Live /\ mode = "user"
  BY DEF sys_fork, semVars, modeVars, Running, Live, QueueInv, TypeOK
<1>3. /\ new \in Slots /\ new \notin Live /\ pid \in Nat
      /\ task_pid \in [Slots -> Nat \cup {-1}] /\ owned_sems \in [Slots -> SUBSET Sems]
  BY DEF srch_free_task, QueueInv, TypeOK, Live
<1>4. Live' = Live \cup {new}
  BY <1>1, <1>3 DEF Live
<1>5. owned_sems'[new] = {} /\ \A t \in Live : owned_sems'[t] = owned_sems[t]
  BY <1>1, <1>3 DEF Live
<1>6. OneOwner'
  BY <1>2, <1>4, <1>5 DEF OwnerInv, OneOwner
<1> QED
  BY <1>2, <1>4, <1>6 DEF OwnerInv, ExitOwns

\* A semaphore is destroyed by its owner.
LEMMA DestroyOwner ==
    ASSUME QueueInv, OwnerInv, NEW n \in Sems, Initialised(n), n \in owned_sems[current],
           destroy(n), UNCHANGED <<task_pid, current>>
    PROVE  /\ OneOwner'
           /\ owned_sems'[current] = owned_sems[current] \ {n}
           /\ current \in Live
<1>1. /\ sem_init \in [Sems -> {0, 1}] /\ owned_sems \in [Slots -> SUBSET Sems]
      /\ current \in Slots /\ Live \subseteq Slots
  BY DEF QueueInv, TypeOK, Live
<1>2. current \in Live /\ Live' = Live
  BY DEF OwnerInv, ExitOwns, Live
<1>3. \A s \in Sems : sem_init'[s] = IF s = n THEN 0 ELSE sem_init[s]
  BY <1>1 DEF destroy
<1>4. \A t \in Slots : owned_sems'[t] = IF t = current THEN owned_sems[t] \ {n}
                                                      ELSE owned_sems[t]
  BY <1>1 DEF destroy
<1>5. \A t \in Live : n \in owned_sems[t] => t = current
  BY <1>2 DEF OwnerInv, OneOwner
<1>a. \A t \in Live : \A s : s \in owned_sems'[t] <=> s \in owned_sems[t] /\ s # n
  <2> SUFFICES ASSUME NEW t \in Live, NEW s
               PROVE  s \in owned_sems'[t] <=> s \in owned_sems[t] /\ s # n
    OBVIOUS
  <2>1. CASE t = current
    BY <1>1, <1>4, <2>1
  <2>2. CASE t # current
    BY <1>1, <1>4, <1>5, <2>2
  <2> QED
    BY <2>1, <2>2
<1>b. /\ \A s \in Sems : sem_init[s] = 1 => \E t \in Live : s \in owned_sems[t]
      /\ \A t \in Live : \A s \in owned_sems[t] :
            sem_init[s] = 1 /\ \A u \in Live : s \in owned_sems[u] => u = t
  BY DEF OwnerInv, OneOwner
<1>c. \A t \in Live : \A s \in owned_sems[t] : s \in Sems
  BY <1>1
<1>d. \A s \in Sems : sem_init'[s] = 1 => s # n /\ sem_init[s] = 1
  BY <1>3
<1>e. \A s \in Sems : s # n => sem_init'[s] = sem_init[s]
  BY <1>3
<1>6. \A s \in Sems : sem_init'[s] = 1 => \E t \in Live : s \in owned_sems'[t]
  BY <1>a, <1>b, <1>d, Zenon
<1>7. \A t \in Live : \A s \in owned_sems'[t] :
         sem_init'[s] = 1 /\ \A u \in Live : s \in owned_sems'[u] => u = t
  BY <1>a, <1>b, <1>c, <1>e, Zenon
<1> QED
  BY <1>1, <1>2, <1>4, <1>6, <1>7 DEF OneOwner

\* sem_destroy takes the semaphore from its owner.
LEMMA SemDestroyOwner ==
    ASSUME QueueInv, OwnerInv, NEW n \in SemArgs, sys_sem_destroy(n)
    PROVE  OwnerInv'
<1>1. UNCHANGED <<task_pid, current, mode, exit_sem>> /\ mode = "user"
  BY DEF sys_sem_destroy, cpuVars, modeVars, Running
<1>2. CASE UNCHANGED <<semVars, owned_sems>>
  BY <1>1, <1>2, PlainOwner DEF semVars
<1>3. CASE Initialised(n) /\ n \in owned_sems[current] /\ destroy(n)
  <2>1. OneOwner' /\ current \in Live
    BY <1>1, <1>3, DestroyOwner DEF Initialised
  <2> QED
    BY <1>1, <2>1 DEF OwnerInv, ExitOwns, Live
<1> QED
  BY <1>2, <1>3, Zenon DEF sys_sem_destroy

\* The loop of sys_exit destroys what the process owns, one by one.
LEMMA ExitSemsOwner ==
    ASSUME QueueInv, OwnerInv, exit_sems
    PROVE  OwnerInv'
<1>1. /\ UNCHANGED <<task_pid, current, mode>> /\ mode = "exit"
      /\ exit_sem' = exit_sem + 1 /\ exit_sem < SEM_MAX_VALUE
  BY DEF exit_sems, cpuVars
<1>2. /\ exit_sem \in Sems /\ exit_sem \in Nat /\ current \in Slots
      /\ \A s \in owned_sems[current] : s \in Nat /\ s >= exit_sem /\ s \in Sems
  BY <1>1, SchedAssumption DEF QueueInv, TypeOK, Sems, OwnerInv, ExitOwns
<1>3. Live' = Live
  BY <1>1 DEF Live
<1>4. CASE exit_sem \in owned_sems[current] /\ Initialised(exit_sem) /\ destroy(exit_sem)
  <2>1. OneOwner' /\ owned_sems'[current] = owned_sems[current] \ {exit_sem} /\ current \in Live
    BY <1>1, <1>2, <1>4, DestroyOwner
  <2>2. \A s \in owned_sems'[current] : s >= exit_sem'
    BY <1>1, <1>2, <2>1
  <2> QED
    BY <1>1, <1>3, <2>1, <2>2 DEF OwnerInv, ExitOwns
<1>5. CASE /\ ~(exit_sem \in owned_sems[current] /\ Initialised(exit_sem))
           /\ UNCHANGED <<semVars, owned_sems>>
  <2>1. exit_sem \notin owned_sems[current]
    BY <1>2, <1>5 DEF OwnerInv, OneOwner, ExitOwns, Initialised
  <2>2. \A s \in owned_sems'[current] : s >= exit_sem'
    BY <1>1, <1>2, <1>5, <2>1
  <2>3. OneOwner'
    BY <1>3, <1>5 DEF OwnerInv, OneOwner, semVars
  <2> QED
    BY <1>1, <1>3, <1>5, <2>2, <2>3 DEF OwnerInv, ExitOwns
<1> QED
  BY <1>4, <1>5, Zenon DEF exit_sems

\* A process that ends has no semaphore left.
LEMMA ExitLastOwner ==
    ASSUME QueueInv, OwnerInv, exit_last
    PROVE  OwnerInv'
<1>1. /\ task_pid' = [task_pid EXCEPT ![current] = -1]
      /\ UNCHANGED <<owned_sems, sem_init>>
      /\ mode = "exit" /\ mode' = "user" /\ exit_sem = SEM_MAX_VALUE
  BY DEF exit_last, semVars
<1>2. current \in Slots /\ owned_sems[current] \subseteq Sems
  BY DEF QueueInv, TypeOK
<1>3. owned_sems[current] = {}
  BY <1>1, <1>2, SchedAssumption DEF OwnerInv, ExitOwns, Sems
<1>4. Live' = Live \ {current}
  BY <1>1, <1>2 DEF Live, QueueInv, TypeOK
<1>5. OneOwner'
  BY <1>1, <1>3, <1>4 DEF OwnerInv, OneOwner
<1>6. QueueInv'
  BY ExitLastQueue
<1>7. current' = current \/ current' \in Live'
  BY <1>6, StepCurrent
<1> QED
  BY <1>1, <1>3, <1>5, <1>7 DEF OwnerInv, ExitOwns

\* At the start nobody owns a semaphore and none is initialised.
LEMMA OwnerStart == Init => OwnerInv
<1> SUFFICES ASSUME Init PROVE OwnerInv
  OBVIOUS
<1>1. /\ sem_init = [s \in Sems |-> 0] /\ owned_sems = [t \in Slots |-> {}]
      /\ mode = "user" /\ current = 0 /\ 0 \in Slots /\ Live \subseteq Slots
  BY SchedAssumption DEF Init, init_sched, init_task0, Live, Slots
<1> QED
  BY <1>1 DEF OwnerInv, OneOwner, ExitOwns

\* Every step preserves the ownership of semaphores.
LEMMA OwnerStep == QueueInv /\ OwnerInv /\ [Next]_vars => OwnerInv'
<1> SUFFICES ASSUME QueueInv, OwnerInv, [Next]_vars
             PROVE  OwnerInv'
  OBVIOUS
<1>1. CASE \E n \in SemArgs, v \in SemValues : sys_sem_init(n, v)
  BY <1>1, InitOwner
<1>2. CASE \E n \in SemArgs : sys_sem_destroy(n)
  BY <1>2, SemDestroyOwner
<1>3. CASE sys_fork
  BY <1>3, ForkOwner
<1>4. CASE exit_sems
  BY <1>4, ExitSemsOwner
<1>5. CASE exit_last
  BY <1>5, ExitLastOwner
<1>6. CASE clock_routine \/ \E n \in SemArgs : sys_sem_wait(n)
  <2>1. QueueInv'
    BY <1>6, ClockQueue, SemWaitQueue
  <2>2. UNCHANGED <<task_pid, owned_sems, sem_init, mode, exit_sem>> /\ mode = "user"
    BY <1>6 DEF clock_routine, sys_sem_wait, procVars, semVars, modeVars, Running
  <2> QED
    BY <1>6, <2>1, <2>2, StepCurrent, PlainOwner
<1>7. CASE \/ sys_ni_syscall \/ sys_getpid \/ sys_fork_fails
           \/ \E q \in Quanta : sys_nice(q)
           \/ \E n \in SemArgs : sys_sem_signal(n)
           \/ sys_exit \/ page_fault_routine \/ exception_routine
           \/ UNCHANGED vars
  <2>1. UNCHANGED <<task_pid, owned_sems, sem_init, current>>
    BY <1>7, Zenon DEF sys_ni_syscall, sys_getpid, sys_fork_fails, sys_nice,
         sys_sem_signal, sys_exit, page_fault_routine, exception_routine,
         vars, procVars, semVars, cpuVars
  <2>2. UNCHANGED <<mode, exit_sem>> \/ exit_sem' = 0 \/ mode' = "halted"
    BY <1>7, Zenon DEF sys_ni_syscall, sys_getpid, sys_fork_fails, sys_nice,
         sys_sem_signal, sys_exit, page_fault_routine, exception_routine, vars, modeVars
  <2> QED
    BY <2>1, <2>2, PlainOwner
<1> QED
  BY <1>1, <1>2, <1>3, <1>4, <1>5, <1>6, <1>7, Zenon DEF Next, sys_call_table, exit_step

\* A semaphore that is initialised has exactly one owner, and sys_exit leaves none
\* without (sys.c).
THEOREM OneOwnerAlways == Spec => []OneOwner
<1>1. OwnerInv => OneOwner
  BY DEF OwnerInv
<1> QED
  BY <1>1, OwnerStart, OwnerStep, QueueSafe, PTL DEF Spec

-----------------------------------------------------------------------------
(* Return values *)

\* The running process waits on no semaphore.
LEMMA CurrentNotWaiting ==
    ASSUME QueueInv, NEW s \in Sems
    PROVE  current \notin Range(wait_list[s])
<1>1. CASE current \in Live
  <2>1. current \in Range(runqueue)
    BY <1>1, First DEF QueueInv, CurrentFirst, TypeOK
  <2> QED
    BY <2>1 DEF QueueInv, QueuesExact
<1>2. CASE current \notin Live
  BY <1>2 DEF QueueInv, QueuesExact
<1> QED
  BY <1>1, <1>2

\* A step that moves nobody to the runqueue and writes at most the eax of the
\* running process, which it does not leave ready with that of a blocked one.
LEMMA PlainReturn ==
    ASSUME QueueInv, ReturnWritten, wait_list' = wait_list,
           Range(runqueue') \subseteq Range(runqueue),
           \A t \in Slots : t # current => eax'[t] = eax[t],
           \/ current' = current
           \/ eax'[current] # BLOCKED_EAX
           \/ current \notin Range(runqueue')
    PROVE  ReturnWritten'
<1>1. \A s \in Sems : Range(wait_list[s]) \subseteq Slots /\ current \notin Range(wait_list[s])
  BY CurrentNotWaiting, First DEF QueueInv, TypeOK
<1>2. Range(runqueue) \subseteq Slots
  BY First DEF QueueInv, TypeOK
<1>3. \A s \in Sems : \A t \in Range(wait_list'[s]) : eax'[t] = BLOCKED_EAX
  BY <1>1 DEF ReturnWritten
<1>4. \A t \in Range(runqueue') : t # current' => eax'[t] # BLOCKED_EAX
  <2> SUFFICES ASSUME NEW t \in Range(runqueue'), t # current'
               PROVE  eax'[t] # BLOCKED_EAX
    OBVIOUS
  <2>1. t \in Range(runqueue) /\ t \in Slots
    BY <1>2
  <2>2. CASE t = current
    BY <2>2
  <2>3. CASE t # current
    BY <2>1, <2>3 DEF ReturnWritten
  <2> QED
    BY <2>2, <2>3
<1> QED
  BY <1>3, <1>4 DEF ReturnWritten

\* The clock saves what the running program has in eax.
LEMMA ClockReturn ==
    ASSUME QueueInv, ReturnWritten, clock_routine
    PROVE  ReturnWritten'
<1> DEFINE rem == [remaining EXCEPT ![current] = @ - 1]
<1>1. wait_list' = wait_list /\ eax' = [eax EXCEPT ![current] = USER_EAX]
  BY DEF clock_routine, semVars
<1>2. TypeOK /\ IsInjective(runqueue)
  BY DEF QueueInv, QueuesExact
<1>3. /\ runqueue \in Seq(Slots) /\ current \in Slots
      /\ rem \in [Slots -> Int] /\ eax \in [Slots -> Int]
  BY <1>2 DEF TypeOK
<1>4. task_pid[current] # -1 => current \in Range(runqueue)
  BY <1>3, First DEF QueueInv, CurrentFirst, Live
<1>5. /\ eax'[current] # BLOCKED_EAX
      /\ \A t \in Slots : t # current => eax'[t] = eax[t]
  BY <1>1, <1>3 DEF USER_EAX, BLOCKED_EAX
<1>6. CASE runqueue' = runqueue
  BY <1>1, <1>5, <1>6, PlainReturn
<1>7. CASE schedule(task_pid[current] # -1, runqueue, rem, TRUE, 1)
  <2> HIDE DEF rem
  <2>1. (task_pid[current] # -1) \in BOOLEAN /\ TRUE \in BOOLEAN
    OBVIOUS
  <2>2. Range(runqueue') = Range(runqueue)
    BY <1>2, <1>3, <1>4, <1>7, <2>1, ScheduleQueue
  <2> QED
    BY <1>1, <1>5, <2>2, PlainReturn
<1> QED
  BY <1>6, <1>7, Zenon DEF clock_routine

\* The child joins the runqueue with 0 to return.
LEMMA ForkReturn ==
    ASSUME QueueInv, ReturnWritten, sys_fork
    PROVE  ReturnWritten'
<1>1. PICK new \in srch_free_task : /\ eax' = [eax EXCEPT ![new] = 0, ![current] = pid]
                                    /\ runqueue' = list_add_tail(runqueue, new)
  BY DEF sys_fork
<1>2. wait_list' = wait_list /\ current' = current
  BY DEF sys_fork, semVars
<1>3. /\ new \in Slots /\ new \notin Live /\ current \in Slots
      /\ runqueue \in Seq(Slots) /\ eax \in [Slots -> Int]
  BY DEF srch_free_task, QueueInv, TypeOK, Live
<1>4. Range(runqueue') = Range(runqueue) \cup {new} /\ Range(runqueue) \subseteq Slots
  <2>1. Range(list_add_tail(runqueue, new)) = Range(runqueue) \cup {new}
    BY <1>3, AddTail
  <2>2. Range(runqueue) \subseteq Slots
    BY <1>3, First
  <2> QED
    BY <1>1, <2>1, <2>2
<1>5. \A s \in Sems : /\ new \notin Range(wait_list[s]) /\ current \notin Range(wait_list[s])
                      /\ Range(wait_list[s]) \subseteq Slots
  <2> SUFFICES ASSUME NEW s \in Sems
               PROVE  /\ new \notin Range(wait_list[s]) /\ current \notin Range(wait_list[s])
                      /\ Range(wait_list[s]) \subseteq Slots
    OBVIOUS
  <2>1. Range(wait_list[s]) \subseteq Live
    BY DEF QueueInv, QueuesExact
  <2>2. wait_list[s] \in Seq(Slots)
    BY DEF QueueInv, TypeOK
  <2>3. Range(wait_list[s]) \subseteq Slots
    BY <2>2, First
  <2> QED
    BY <1>3, <2>1, <2>3, CurrentNotWaiting
<1>6. /\ \A t \in Slots : t # new /\ t # current => eax'[t] = eax[t]
      /\ new # current => eax'[new] = 0
  BY <1>1, <1>3
<1>7. \A s \in Sems : \A t \in Range(wait_list'[s]) : eax'[t] = BLOCKED_EAX
  BY <1>2, <1>5, <1>6 DEF ReturnWritten
<1>8. \A t \in Range(runqueue') : t # current => eax'[t] # BLOCKED_EAX
  BY <1>4, <1>6 DEF ReturnWritten, BLOCKED_EAX
<1> QED
  BY <1>2, <1>7, <1>8 DEF ReturnWritten

\* Who blocks leaves the runqueue with no value to return yet.
LEMMA WaitReturn ==
    ASSUME QueueInv, ReturnWritten, NEW n \in SemArgs, sys_sem_wait(n)
    PROVE  ReturnWritten'
<1>1. current \in Slots /\ eax \in [Slots -> Int] /\ wait_list \in [Sems -> Seq(Slots)]
  BY DEF QueueInv, TypeOK
<1>2. \E v : Return(v)
  BY Zenon DEF sys_sem_wait, sem_block
<1>3. \A t \in Slots : t # current => eax'[t] = eax[t]
  BY <1>1, <1>2 DEF Return
<1>4. CASE UNCHANGED <<wait_list, cpuVars, runqueue>>
  BY <1>3, <1>4, PlainReturn DEF cpuVars
<1>5. CASE Initialised(n) /\ sem_block(n)
  <2>1. /\ wait_list' = [wait_list EXCEPT ![n] = list_add_tail(@, current)]
        /\ runqueue' = list_del(runqueue, current)
        /\ eax' = [eax EXCEPT ![current] = BLOCKED_EAX]
        /\ n \in Sems
    BY <1>5 DEF sem_block, Return, Initialised
  <2>2. Range(runqueue') = Range(runqueue) \ {current} /\ Range(runqueue) \subseteq Slots
    BY <2>1, Del, First DEF QueueInv, TypeOK, QueuesExact
  <2>3. /\ Range(wait_list'[n]) = Range(wait_list[n]) \cup {current}
        /\ \A s \in Sems : s # n => wait_list'[s] = wait_list[s]
    <3>1. wait_list[n] \in Seq(Slots) /\ wait_list'[n] = list_add_tail(wait_list[n], current)
      BY <1>1, <2>1
    <3>2. \A s \in Sems : s # n => wait_list'[s] = wait_list[s]
      BY <1>1, <2>1
    <3> QED
      BY <1>1, <3>1, <3>2, AddTail
  <2>4. \A s \in Sems : Range(wait_list[s]) \subseteq Slots
    BY <1>1, First
  <2>5. eax'[current] = BLOCKED_EAX
    BY <1>1, <2>1
  <2>6. \A s \in Sems : \A t \in Range(wait_list'[s]) : eax'[t] = BLOCKED_EAX
    BY <1>3, <2>1, <2>3, <2>4, <2>5 DEF ReturnWritten
  <2>7. \A t \in Range(runqueue') : t # current' => eax'[t] # BLOCKED_EAX
    BY <1>3, <2>2 DEF ReturnWritten
  <2> QED
    BY <2>6, <2>7 DEF ReturnWritten
<1> QED
  BY <1>4, <1>5, Zenon DEF sys_sem_wait

\* Who is woken joins the runqueue with 0 to return.
LEMMA SignalReturn ==
    ASSUME QueueInv, ReturnWritten, NEW n \in SemArgs, sys_sem_signal(n)
    PROVE  ReturnWritten'
<1>1. /\ current \in Slots /\ eax \in [Slots -> Int] /\ wait_list \in [Sems -> Seq(Slots)]
      /\ runqueue \in Seq(Slots) /\ current' = current
  BY DEF QueueInv, TypeOK, sys_sem_signal, cpuVars
<1>2. CASE UNCHANGED <<wait_list, runqueue>> /\ \E v : Return(v)
  <2>1. \A t \in Slots : t # current => eax'[t] = eax[t]
    BY <1>1, <1>2 DEF Return
  <2> QED
    BY <1>1, <1>2, <2>1, PlainReturn
<1>3. CASE Initialised(n) /\ wait_list[n] # <<>> /\ signal_wakes(n)
  <2> DEFINE h == Head(wait_list[n])
  <2>1. /\ wait_list' = [wait_list EXCEPT ![n] = list_del(wait_list[n], h)]
        /\ runqueue' = list_add_tail(runqueue, h)
        /\ eax' = [eax EXCEPT ![h] = 0, ![current] = 0]
        /\ n \in Sems
    BY <1>3 DEF signal_wakes, first_waiter, Initialised
  <2>2. wait_list[n] \in Seq(Slots) /\ IsInjective(wait_list[n])
    BY <1>1, <2>1 DEF QueueInv, QueuesExact
  <2>3. h \in Range(wait_list[n]) /\ h \in Slots
    BY <1>3, <2>2, First
  <2>4. /\ Range(wait_list'[n]) = Range(wait_list[n]) \ {h}
        /\ \A s \in Sems : s # n => wait_list'[s] = wait_list[s]
    <3>1. wait_list'[n] = list_del(wait_list[n], h)
      BY <1>1, <2>1
    <3>2. \A s \in Sems : s # n => wait_list'[s] = wait_list[s]
      BY <1>1, <2>1
    <3> QED
      BY <2>2, <3>1, <3>2, Del
  <2>5. \A s \in Sems : s # n => h \notin Range(wait_list[s])
    BY <2>1, <2>3 DEF QueueInv, QueuesExact
  <2> HIDE DEF h
  <2>6. Range(runqueue') = Range(runqueue) \cup {h} /\ Range(runqueue) \subseteq Slots
    BY <1>1, <2>1, <2>3, AddTail, First
  <2>7. \A t \in Slots : eax'[t] = IF t = h \/ t = current THEN 0 ELSE eax[t]
    BY <1>1, <2>1, <2>3
  <2>8. \A s \in Sems : /\ Range(wait_list[s]) \subseteq Slots
                        /\ current \notin Range(wait_list[s])
    BY <1>1, First, CurrentNotWaiting
  <2>9. \A s \in Sems : \A t \in Range(wait_list'[s]) : eax'[t] = BLOCKED_EAX
    <3> SUFFICES ASSUME NEW s \in Sems, NEW t \in Range(wait_list'[s])
                 PROVE  eax'[t] = BLOCKED_EAX
      OBVIOUS
    <3>1. t \in Range(wait_list[s]) /\ t # h
      BY <2>4, <2>5
    <3>2. t \in Slots /\ t # current
      BY <2>8, <3>1
    <3> QED
      BY <2>7, <3>1, <3>2 DEF ReturnWritten
  <2>10. \A t \in Range(runqueue') : t # current' => eax'[t] # BLOCKED_EAX
    BY <1>1, <2>3, <2>6, <2>7 DEF ReturnWritten, BLOCKED_EAX
  <2> QED
    BY <2>9, <2>10 DEF ReturnWritten
<1> QED
  BY <1>2, <1>3, Zenon DEF sys_sem_signal

\* All that waited on a semaphore that is destroyed return -1.
LEMMA DestroyReturn ==
    ASSUME QueueInv, ReturnWritten, NEW n \in Sems, destroy(n), current' = current,
           \A t \in Slots : t # current => eax'[t] = destroyed_eax(n)[t]
    PROVE  ReturnWritten'
<1>1. /\ current \in Slots /\ eax \in [Slots -> Int] /\ wait_list \in [Sems -> Seq(Slots)]
      /\ runqueue \in Seq(Slots)
  BY DEF QueueInv, TypeOK
<1>2. \A s \in Sems : /\ Range(wait_list[s]) \subseteq Slots
                      /\ current \notin Range(wait_list[s])
  BY <1>1, First, CurrentNotWaiting
<1>3. Range(runqueue') = Range(runqueue) \cup Range(wait_list[n]) /\ Range(runqueue) \subseteq Slots
  BY <1>1, Concat, First DEF destroy
<1>4. wait_list'[n] = <<>> /\ \A s \in Sems : s # n => wait_list'[s] = wait_list[s]
  BY <1>1 DEF destroy
<1>5. \A s \in Sems : s # n => Range(wait_list[s]) \cap Range(wait_list[n]) = {}
  BY DEF QueueInv, QueuesExact
<1>6. \A t \in Slots : t # current =>
         eax'[t] = IF t \in Range(wait_list[n]) THEN -1 ELSE eax[t]
  BY DEF destroyed_eax
<1>7. \A s \in Sems : \A t \in Range(wait_list'[s]) : eax'[t] = BLOCKED_EAX
  <2>1. Range(<<>>) = {}
    BY DEF Range
  <2> QED
    BY <1>2, <1>4, <1>5, <1>6, <2>1 DEF ReturnWritten
<1>8. \A t \in Range(runqueue') : t # current' => eax'[t] # BLOCKED_EAX
  BY <1>2, <1>3, <1>6 DEF ReturnWritten, BLOCKED_EAX
<1> QED
  BY <1>7, <1>8 DEF ReturnWritten

\* sem_destroy and exit write a value for all they wake.
LEMMA DestroyingReturn ==
    ASSUME QueueInv, ReturnWritten, exit_sems \/ \E n \in SemArgs : sys_sem_destroy(n)
    PROVE  ReturnWritten'
<1>1. /\ current' = current /\ current \in Slots /\ eax \in [Slots -> Int]
      /\ runqueue \in Seq(Slots)
  BY DEF exit_sems, sys_sem_destroy, cpuVars, QueueInv, TypeOK
<1>2. CASE exit_sems
  <2>1. CASE UNCHANGED <<semVars, runqueue, eax>>
    BY <1>1, <2>1, PlainReturn DEF semVars
  <2>2. CASE Initialised(exit_sem) /\ destroy(exit_sem) /\ eax' = destroyed_eax(exit_sem)
    BY <1>1, <2>2, DestroyReturn DEF Initialised
  <2> QED
    BY <1>2, <2>1, <2>2, Zenon DEF exit_sems
<1>3. ASSUME NEW n \in SemArgs, sys_sem_destroy(n)
      PROVE  ReturnWritten'
  <2>1. CASE UNCHANGED <<semVars, runqueue>> /\ \E v : Return(v)
    <3>1. \A t \in Slots : t # current => eax'[t] = eax[t]
      BY <1>1, <2>1 DEF Return
    <3> QED
      BY <1>1, <2>1, <3>1, PlainReturn DEF semVars
  <2>2. CASE /\ Initialised(n) /\ destroy(n)
             /\ eax' = [destroyed_eax(n) EXCEPT ![current] = 0]
    <3>1. \A t \in Slots : t # current => eax'[t] = destroyed_eax(n)[t]
      BY <2>2 DEF destroyed_eax
    <3> QED
      BY <1>1, <2>2, <3>1, DestroyReturn DEF Initialised
  <2> QED
    BY <1>3, <2>1, <2>2, Zenon DEF sys_sem_destroy
<1> QED
  BY <1>2, <1>3

\* Every step writes the return value of the processes it wakes.
LEMMA ReturnStep == QueueInv /\ ReturnWritten /\ [Next]_vars => ReturnWritten'
<1> SUFFICES ASSUME QueueInv, ReturnWritten, [Next]_vars
             PROVE  ReturnWritten'
  OBVIOUS
<1>0. current \in Slots /\ eax \in [Slots -> Int] /\ runqueue \in Seq(Slots)
  BY DEF QueueInv, TypeOK
<1>1. CASE clock_routine
  BY <1>1, ClockReturn
<1>2. CASE sys_fork
  BY <1>2, ForkReturn
<1>3. CASE \E n \in SemArgs : sys_sem_wait(n)
  BY <1>3, WaitReturn
<1>4. CASE \E n \in SemArgs : sys_sem_signal(n)
  BY <1>4, SignalReturn
<1>5. CASE exit_sems \/ \E n \in SemArgs : sys_sem_destroy(n)
  BY <1>5, DestroyingReturn
<1>6. ASSUME NEW n \in SemArgs, NEW v \in SemValues, sys_sem_init(n, v)
      PROVE  ReturnWritten'
  <2>1. wait_list' = wait_list
    <3>1. CASE UNCHANGED semVars
      BY <3>1 DEF semVars
    <3>2. CASE n \in Sems /\ ~Initialised(n) /\ wait_list' = [wait_list EXCEPT ![n] = <<>>]
      <4>1. wait_list[n] = <<>> /\ wait_list \in [Sems -> Seq(Slots)]
        BY <3>2 DEF QueueInv, NoLostWakeup, Initialised, TypeOK
      <4> QED
        BY <3>2, <4>1
    <3> QED
      BY <1>6, <3>1, <3>2, Zenon DEF sys_sem_init
  <2>2. UNCHANGED <<current, runqueue>> /\ \E r : Return(r)
    BY <1>6, Zenon DEF sys_sem_init, cpuVars
  <2>3. \A t \in Slots : t # current => eax'[t] = eax[t]
    BY <1>0, <2>2 DEF Return
  <2> QED
    BY <2>1, <2>2, <2>3, PlainReturn
<1>7. CASE exit_last
  <2> DEFINE rq == list_del(runqueue, current)
  <2>1. /\ rq \in Seq(Slots) /\ IsInjective(rq) /\ TypeOK /\ remaining \in [Slots -> Int]
        /\ Range(rq) = Range(runqueue) \ {current}
    BY Del DEF QueueInv, TypeOK, QueuesExact
  <2> HIDE DEF rq
  <2>2. schedule(FALSE, rq, remaining, FALSE, 0) /\ FALSE \in BOOLEAN
    BY <1>7, Zenon DEF exit_last, rq
  <2>3. FALSE => current \in Range(rq)
    OBVIOUS
  <2>4. Range(runqueue') = Range(runqueue) \ {current}
    BY <2>1, <2>2, <2>3, ScheduleQueue
  <2>5. UNCHANGED <<wait_list, eax>>
    BY <1>7, Zenon DEF exit_last, semVars
  <2> QED
    BY <2>4, <2>5, PlainReturn
<1>8. CASE \/ sys_ni_syscall \/ sys_getpid \/ sys_fork_fails
           \/ \E q \in Quanta : sys_nice(q)
           \/ sys_exit \/ page_fault_routine \/ exception_routine
           \/ UNCHANGED vars
  <2>1. UNCHANGED <<wait_list, current, runqueue>>
    BY <1>8, Zenon DEF sys_ni_syscall, sys_getpid, sys_fork_fails, sys_nice, sys_exit,
         page_fault_routine, exception_routine, vars, semVars, cpuVars
  <2>2. eax' = eax \/ \E v : Return(v)
    BY <1>8, Zenon DEF sys_ni_syscall, sys_getpid, sys_fork_fails, sys_nice, sys_exit,
         page_fault_routine, exception_routine, vars
  <2>3. \A t \in Slots : t # current => eax'[t] = eax[t]
    BY <1>0, <2>2 DEF Return
  <2> QED
    BY <2>1, <2>3, PlainReturn
<1> QED
  BY <1>1, <1>2, <1>3, <1>4, <1>5, <1>6, <1>7, <1>8, Zenon DEF Next, sys_call_table, exit_step

\* Whoever puts a process back on the runqueue has written its return value
\* (sys.c): it never resumes with the number of the call that blocked it.
THEOREM ReturnWrittenAlways == Spec => []ReturnWritten
<1>1. Init => ReturnWritten
  <2> SUFFICES ASSUME Init PROVE ReturnWritten
    OBVIOUS
  <2>1. Range(<<>>) = {} /\ Range(<<0>>) = {0}
    BY DEF Range
  <2>2. wait_list = [s \in Sems |-> <<>>] /\ runqueue = <<0>> /\ current = 0
    BY DEF Init, init_sched, init_task0
  <2> QED
    BY <2>1, <2>2 DEF ReturnWritten
<1> QED
  BY <1>1, ReturnStep, QueueSafe, PTL DEF Spec

-----------------------------------------------------------------------------
(* Ticks *)

\* Nobody has an empty quantum.
QuantumPositive == \A t \in Slots : t \in Live \/ t = current => quantum[t] > 0

TicksInv == TicksAgree /\ QuantumPositive

\* A process that gets the processor has its whole quantum before it.
Fresh == left4current' = quantum[current'] /\ remaining'[current'] = quantum[current']

\* task_switch gives the next process its quantum.
LEMMA TaskSwitchFresh ==
    ASSUME NEW t \in Slots, NEW rem \in [Slots -> Int], NEW irq, NEW it_is_int,
           task_switch(t, rem, irq, it_is_int)
    PROVE  Fresh
BY DEF task_switch, Fresh

\* schedule does so too, whether or not it switches.
LEMMA ScheduleFresh ==
    ASSUME NEW alive, NEW rq, NEW rem \in [Slots -> Int], NEW irq, NEW from_int,
           current \in Slots, current' \in Slots,
           schedule(alive, rq, rem, irq, from_int)
    PROVE  Fresh
<1>1. CASE /\ left4current' = quantum[current]
           /\ remaining' = [rem EXCEPT ![current] = quantum[current]]
           /\ current' = current
  BY <1>1 DEF Fresh
<1>2. CASE task_switch(next_task(requeue(alive, rq)), rem, irq, from_int)
  <2>1. next_task(requeue(alive, rq)) = current'
    BY <1>2 DEF task_switch
  <2> QED
    BY <1>2, <2>1, TaskSwitchFresh
<1> QED
  BY <1>1, <1>2, Zenon DEF schedule

\* A step after which the running process has its whole quantum.
LEMMA FreshTicks ==
    ASSUME QueueInv, QueueInv', TicksInv, Fresh, quantum' = quantum, Live' \subseteq Live,
           current' = current \/ current' \in Live'
    PROVE  TicksInv'
<1>1. current \in Slots /\ current' \in Slots
  BY DEF QueueInv, TypeOK
<1>2. QuantumPositive'
  BY <1>1 DEF TicksInv, QuantumPositive
<1>3. quantum[current'] > 0
  BY <1>1, <1>2 DEF QuantumPositive
<1> QED
  BY <1>2, <1>3 DEF TicksInv, TicksAgree, Fresh

\* A step that lets the process run on.
LEMMA PlainTicks ==
    ASSUME QueueInv, TicksInv,
           UNCHANGED <<current, left4current, remaining, quantum, task_pid>>,
           mode' = "user" => mode = "user"
    PROVE  TicksInv'
<1>1. Live' = Live
  BY DEF Live
<1> QED
  BY <1>1 DEF TicksInv, TicksAgree, QuantumPositive

\* The clock takes one tick from both counts, or starts a new quantum.
LEMMA ClockTicks ==
    ASSUME QueueInv, TicksInv, clock_routine
    PROVE  TicksInv'
<1> DEFINE rem == [remaining EXCEPT ![current] = @ - 1]
<1>1. UNCHANGED <<quantum, task_pid, mode>> /\ mode = "user"
  BY DEF clock_routine, procVars, modeVars
<1>2. Live' = Live
  BY <1>1 DEF Live
<1>3. QueueInv' /\ (current' = current \/ current' \in Live')
  BY ClockQueue, StepCurrent
<1>4. /\ current \in Slots /\ current' \in Slots /\ remaining \in [Slots -> Int]
      /\ left4current \in Int
  BY <1>3 DEF QueueInv, TypeOK
<1>5. CASE /\ left4current - 1 > 0
           /\ left4current' = left4current - 1
           /\ remaining' = rem
           /\ current' = current
  <2>1. left4current' = remaining'[current']
    BY <1>1, <1>4, <1>5 DEF TicksInv, TicksAgree
  <2> QED
    BY <1>1, <1>2, <1>5, <2>1 DEF TicksInv, TicksAgree, QuantumPositive
<1>6. CASE schedule(task_pid[current] # -1, runqueue, rem, TRUE, 1)
  <2>1. rem \in [Slots -> Int]
    BY <1>4
  <2> HIDE DEF rem
  <2>2. Fresh
    BY <1>4, <1>6, <2>1, ScheduleFresh
  <2> QED
    BY <1>1, <1>2, <1>3, <2>2, FreshTicks
<1> QED
  BY <1>5, <1>6, Zenon DEF clock_routine

\* The child has the quantum of its father.
LEMMA ForkTicks ==
    ASSUME QueueInv, TicksInv, sys_fork
    PROVE  TicksInv'
<1>1. PICK new \in srch_free_task :
          /\ task_pid' = [task_pid EXCEPT ![new] = pid]
          /\ quantum' = [quantum EXCEPT ![new] = quantum[current]]
          /\ remaining' = [remaining EXCEPT ![new] = quantum[current]]
  BY DEF sys_fork
<1>2. UNCHANGED <<current, left4current, mode>> /\ mode = "user" /\ current \in Live
  BY DEF sys_fork, Running, modeVars, Live, QueueInv, TypeOK
<1>3. /\ new \in Slots /\ new \notin Live /\ pid \in Nat /\ current \in Slots
      /\ task_pid \in [Slots -> Nat \cup {-1}] /\ quantum \in [Slots -> Nat]
      /\ remaining \in [Slots -> Int]
  BY DEF srch_free_task, QueueInv, TypeOK, Live
<1>4. Live' = Live \cup {new}
  BY <1>1, <1>3 DEF Live
<1>5. QuantumPositive'
  BY <1>1, <1>2, <1>3, <1>4 DEF TicksInv, QuantumPositive
<1>6. TicksAgree'
  BY <1>1, <1>2, <1>3 DEF TicksInv, TicksAgree
<1> QED
  BY <1>5, <1>6 DEF TicksInv

\* nice takes no quantum that is not positive, and leaves the running one.
LEMMA NiceTicks ==
    ASSUME QueueInv, TicksInv, NEW q \in Quanta, sys_nice(q)
    PROVE  TicksInv'
<1>1. UNCHANGED <<current, left4current, remaining, task_pid, mode>>
  BY DEF sys_nice, cpuVars, modeVars
<1>2. quantum \in [Slots -> Nat] /\ current \in Slots /\ Live' = Live
  BY <1>1 DEF QueueInv, TypeOK, Live
<1>3. CASE q > 0 /\ quantum' = [quantum EXCEPT ![current] = q]
  BY <1>1, <1>2, <1>3 DEF TicksInv, TicksAgree, QuantumPositive
<1>4. CASE quantum' = quantum
  BY <1>1, <1>4, PlainTicks
<1> QED
  BY <1>3, <1>4, Zenon DEF sys_nice

\* Blocking in sem_wait switches.
LEMMA WaitTicks ==
    ASSUME QueueInv, TicksInv, NEW n \in SemArgs, sys_sem_wait(n)
    PROVE  TicksInv'
<1>1. UNCHANGED <<quantum, task_pid, mode>>
  BY DEF sys_sem_wait, procVars, modeVars
<1>2. Live' = Live
  BY <1>1 DEF Live
<1>3. QueueInv' /\ (current' = current \/ current' \in Live')
  BY SemWaitQueue, StepCurrent
<1>4. CASE UNCHANGED cpuVars
  BY <1>1, <1>4, PlainTicks DEF cpuVars
<1>5. CASE sem_block(n)
  <2>1. task_switch(next_task(list_del(runqueue, current)), remaining, FALSE, 0)
    BY <1>5 DEF sem_block
  <2>2. next_task(list_del(runqueue, current)) = current'
    BY <2>1 DEF task_switch
  <2>3. current' \in Slots /\ remaining \in [Slots -> Int]
    BY <1>3 DEF QueueInv, TypeOK
  <2>4. Fresh
    BY <2>1, <2>2, <2>3, TaskSwitchFresh
  <2> QED
    BY <1>1, <1>2, <1>3, <2>4, FreshTicks
<1> QED
  BY <1>4, <1>5, Zenon DEF sys_sem_wait

\* So does the end of a process.
LEMMA ExitTicks ==
    ASSUME QueueInv, TicksInv, exit_last
    PROVE  TicksInv'
<1>1. /\ quantum' = quantum /\ task_pid' = [task_pid EXCEPT ![current] = -1]
      /\ schedule(FALSE, list_del(runqueue, current), remaining, FALSE, 0)
  BY Zenon DEF exit_last
<1>2. QueueInv' /\ (current' = current \/ current' \in Live')
  BY ExitLastQueue, StepCurrent
<1>3. current \in Slots /\ current' \in Slots /\ remaining \in [Slots -> Int]
  BY <1>2 DEF QueueInv, TypeOK
<1>4. Live' \subseteq Live
  BY <1>1, <1>3 DEF Live, QueueInv, TypeOK
<1>5. Fresh
  BY <1>1, <1>3, ScheduleFresh
<1> QED
  BY <1>1, <1>2, <1>4, <1>5, FreshTicks

\* Every step keeps the two counts equal.
LEMMA TicksStep == QueueInv /\ TicksInv /\ [Next]_vars => TicksInv'
<1> SUFFICES ASSUME QueueInv, TicksInv, [Next]_vars
             PROVE  TicksInv'
  OBVIOUS
<1>1. CASE clock_routine
  BY <1>1, ClockTicks
<1>2. CASE sys_fork
  BY <1>2, ForkTicks
<1>3. CASE \E q \in Quanta : sys_nice(q)
  BY <1>3, NiceTicks
<1>4. CASE \E n \in SemArgs : sys_sem_wait(n)
  BY <1>4, WaitTicks
<1>5. CASE exit_last
  BY <1>5, ExitTicks
<1>6. CASE \/ sys_ni_syscall \/ sys_getpid \/ sys_fork_fails
           \/ \E n \in SemArgs, v \in SemValues : sys_sem_init(n, v)
           \/ \E n \in SemArgs : sys_sem_signal(n) \/ sys_sem_destroy(n)
           \/ sys_exit \/ exit_sems \/ page_fault_routine \/ exception_routine
           \/ UNCHANGED vars
  <2>1. UNCHANGED <<current, left4current, remaining, quantum, task_pid>>
    BY <1>6, Zenon DEF sys_ni_syscall, sys_getpid, sys_fork_fails, sys_sem_init,
         sys_sem_signal, sys_sem_destroy, sys_exit, exit_sems, page_fault_routine,
         exception_routine, vars, procVars, cpuVars
  <2>2. mode' = mode \/ mode' \in {"exit", "halted"}
    BY <1>6 DEF sys_ni_syscall, sys_getpid, sys_fork_fails, sys_sem_init,
         sys_sem_signal, sys_sem_destroy, sys_exit, exit_sems, page_fault_routine,
         exception_routine, vars, modeVars
  <2> QED
    BY <2>1, <2>2, PlainTicks
<1> QED
  BY <1>1, <1>2, <1>3, <1>4, <1>5, <1>6, Zenon DEF Next, sys_call_table, exit_step

\* The two tick counts agree, and no process runs with its time used up
\* (schedule, task_switch and clock_routine).
THEOREM TicksAgreeAlways == Spec => []TicksAgree
<1>1. Init => TicksInv
  BY SchedAssumption DEF Init, init_sched, init_task0, TicksInv, TicksAgree, QuantumPositive,
                         Live, Slots
<1>2. TicksInv => TicksAgree
  BY DEF TicksInv
<1> QED
  BY <1>1, <1>2, TicksStep, QueueSafe, PTL DEF Spec

-----------------------------------------------------------------------------
(* The order of the wait lists *)

\* What WaitInOrder says of a step.
Ordered == \A s \in Sems : wait_list'[s] # wait_list[s] => InOrder(s)

\* Taking the first element out of a list leaves the others as they were.
LEMMA DelHead ==
    ASSUME NEW S, NEW q \in Seq(S), IsInjective(q), q # <<>>
    PROVE  q = <<Head(q)>> \o list_del(q, Head(q))
<1> DEFINE d == [i \in 1 .. Len(q) - 1 |-> q[i + 1]]
<1>1. Len(q) \in Nat \ {0} /\ DOMAIN q = 1 .. Len(q) /\ Head(q) = q[1]
  OBVIOUS
<1>2. \A k \in 1 .. Len(q) : q[k] = q[1] => k = 1
  BY <1>1 DEF IsInjective
<1>3. Head(q) \in Range(q)
  BY First
<1>4. (CHOOSE k \in 1 .. Len(q) : q[k] = Head(q)) = 1
  BY <1>1, <1>2
<1>5. list_del(q, Head(q)) = [i \in 1 .. Len(q) - 1 |-> IF i < 1 THEN q[i] ELSE q[i + 1]]
  BY <1>3, <1>4 DEF list_del
<1>6. list_del(q, Head(q)) = d
  BY <1>1, <1>5
<1>7. d \in Seq(S) /\ Len(d) = Len(q) - 1
  BY <1>1
<1>8. /\ <<Head(q)>> \o d \in Seq(S)
      /\ Len(<<Head(q)>> \o d) = Len(q)
      /\ \A i \in 1 .. Len(q) : (<<Head(q)>> \o d)[i] = q[i]
  BY <1>1, <1>7
<1>9. <<Head(q)>> \o d = q
  <2> DEFINE c == <<Head(q)>> \o d
  <2>1. c \in Seq(S) /\ Len(c) = Len(q) /\ \A i \in 1 .. Len(q) : c[i] = q[i]
    BY <1>8
  <2> HIDE DEF c
  <2>2. c = q
    BY <2>1
  <2> QED
    BY <2>2 DEF c
<1> QED
  BY <1>6, <1>9

\* A step that changes no wait list.
LEMMA SameOrdered == ASSUME wait_list' = wait_list PROVE Ordered
BY DEF Ordered

\* sem_init empties a list that is empty.
LEMMA InitOrdered ==
    ASSUME QueueInv, NEW n \in SemArgs, NEW v \in SemValues, sys_sem_init(n, v)
    PROVE  Ordered
<1>1. CASE UNCHANGED semVars
  BY <1>1, SameOrdered DEF semVars
<1>2. CASE /\ n \in Sems /\ ~Initialised(n)
           /\ wait_list' = [wait_list EXCEPT ![n] = <<>>]
  <2>1. wait_list[n] = <<>> /\ wait_list \in [Sems -> Seq(Slots)]
    BY <1>2 DEF QueueInv, TypeOK, NoLostWakeup, Initialised
  <2>2. wait_list' = wait_list
    BY <1>2, <2>1
  <2> QED
    BY <2>2, SameOrdered
<1> QED
  BY <1>1, <1>2, Zenon DEF sys_sem_init

\* Who blocks in sem_wait goes to the end.
LEMMA WaitOrdered ==
    ASSUME QueueInv, NEW n \in SemArgs, sys_sem_wait(n)
    PROVE  Ordered
<1>1. CASE wait_list' = wait_list
  BY <1>1, SameOrdered
<1>2. CASE Initialised(n) /\ sem_count[n] <= 0 /\ sem_block(n)
  <2>1. /\ wait_list' = [wait_list EXCEPT ![n] = Append(wait_list[n], current)]
        /\ n \in Sems
    BY <1>2 DEF sem_block, list_add_tail, Initialised
  <2>2. wait_list \in [Sems -> Seq(Slots)] /\ sem_count \in [Sems -> 0 .. UINT_SPAN - 1]
    BY DEF QueueInv, TypeOK
  <2>3. sem_count[n] = 0
    BY <1>2, <2>1, <2>2
  <2>4. wait_list'[n] = Append(wait_list[n], current)
    BY <2>1, <2>2
  <2>5. \A s \in Sems : s # n => wait_list'[s] = wait_list[s]
    BY <2>1, <2>2
  <2> QED
    BY <2>3, <2>4, <2>5, Zenon DEF Ordered, InOrder
<1> QED
  BY <1>1, <1>2, Zenon DEF sys_sem_wait

\* sem_signal takes the first out.
LEMMA SignalOrdered ==
    ASSUME QueueInv, NEW n \in SemArgs, sys_sem_signal(n)
    PROVE  Ordered
<1>1. CASE wait_list' = wait_list
  BY <1>1, SameOrdered
<1>2. CASE Initialised(n) /\ wait_list[n] # <<>> /\ signal_wakes(n)
  <2> DEFINE h == Head(wait_list[n])
  <2>1. /\ wait_list' = [wait_list EXCEPT ![n] = list_del(wait_list[n], h)]
        /\ runqueue' = Append(runqueue, h)
        /\ eax' = [eax EXCEPT ![h] = 0, ![current] = 0]
        /\ n \in Sems /\ sem_init[n] = 1
    BY <1>2 DEF signal_wakes, first_waiter, Initialised, list_add_tail
  <2>2. sem_init' = sem_init
    BY DEF sys_sem_signal
  <2>3. /\ wait_list \in [Sems -> Seq(Slots)] /\ eax \in [Slots -> Int] /\ current \in Slots
        /\ IsInjective(wait_list[n])
    BY <2>1 DEF QueueInv, QueuesExact, TypeOK
  <2>4. wait_list[n] \in Seq(Slots)
    BY <2>1, <2>3
  <2>5. h \in Slots
    BY <1>2, <2>4, First
  <2>6. wait_list[n] = <<h>> \o list_del(wait_list[n], h)
    BY <1>2, <2>3, <2>4, DelHead
  <2>7. wait_list'[n] = list_del(wait_list[n], h)
    BY <2>1, <2>3
  <2>8. \A s \in Sems : s # n => wait_list'[s] = wait_list[s]
    BY <2>1, <2>3
  <2>9. eax'[h] = 0
    BY <2>1, <2>3, <2>5
  <2>10. InOrder(n)
    BY <2>1, <2>2, <2>6, <2>7, <2>9, Zenon DEF InOrder
  <2> QED
    BY <2>8, <2>10, Zenon DEF Ordered
<1> QED
  BY <1>1, <1>2, Zenon DEF sys_sem_signal

\* The end of a semaphore sends all of them away in their order.
LEMMA DestroyOrdered ==
    ASSUME QueueInv, NEW n \in Sems, destroy(n)
    PROVE  Ordered
<1>1. /\ wait_list \in [Sems -> Seq(Slots)] /\ sem_init \in [Sems -> {0, 1}]
  BY DEF QueueInv, TypeOK
<1>2. /\ wait_list'[n] = <<>>
      /\ sem_init'[n] = 0
      /\ runqueue' = runqueue \o wait_list[n]
  BY <1>1 DEF destroy
<1>3. \A s \in Sems : s # n => wait_list'[s] = wait_list[s]
  BY <1>1 DEF destroy
<1>4. InOrder(n)
  BY <1>2, Zenon DEF InOrder
<1> QED
  BY <1>3, <1>4, Zenon DEF Ordered

\* sem_destroy and exit destroy; they do nothing else to a wait list.
LEMMA DestroyingOrdered ==
    ASSUME QueueInv, exit_sems \/ \E n \in SemArgs : sys_sem_destroy(n)
    PROVE  Ordered
<1>1. CASE UNCHANGED semVars
  BY <1>1, SameOrdered DEF semVars
<1>2. CASE \E n \in SemArgs : Initialised(n) /\ destroy(n)
  BY <1>2, DestroyOrdered DEF Initialised
<1>3. CASE Initialised(exit_sem) /\ destroy(exit_sem)
  BY <1>3, DestroyOrdered DEF Initialised
<1> QED
  BY <1>1, <1>2, <1>3, Zenon DEF exit_sems, sys_sem_destroy

\* Every step keeps the order.
LEMMA OrderStep == QueueInv /\ [Next]_vars => Ordered
<1> SUFFICES ASSUME QueueInv, [Next]_vars
             PROVE  Ordered
  OBVIOUS
<1>1. CASE \E n \in SemArgs, v \in SemValues : sys_sem_init(n, v)
  BY <1>1, InitOrdered
<1>2. CASE \E n \in SemArgs : sys_sem_wait(n)
  BY <1>2, WaitOrdered
<1>3. CASE \E n \in SemArgs : sys_sem_signal(n)
  BY <1>3, SignalOrdered
<1>4. CASE exit_sems \/ \E n \in SemArgs : sys_sem_destroy(n)
  BY <1>4, DestroyingOrdered
<1>5. CASE \/ clock_routine \/ sys_ni_syscall \/ sys_getpid \/ sys_fork \/ sys_fork_fails
           \/ \E q \in Quanta : sys_nice(q)
           \/ sys_exit \/ exit_last \/ page_fault_routine \/ exception_routine
           \/ UNCHANGED vars
  <2>1. wait_list' = wait_list
    BY <1>5, Zenon DEF clock_routine, sys_ni_syscall, sys_getpid, sys_fork, sys_fork_fails,
         sys_nice, sys_exit, exit_last, page_fault_routine, exception_routine, vars, semVars
  <2> QED
    BY <2>1, SameOrdered
<1> QED
  BY <1>1, <1>2, <1>3, <1>4, <1>5, Zenon DEF Next, sys_call_table, exit_step

\* Semaphores are first come, first served, and destroying one sends its waiters
\* away in their order (sys_sem_wait, sys_sem_signal,
\* sys_sem_destroy and sys_exit).
THEOREM WaitInOrderAlways == Spec => WaitInOrder
<1>1. QueueInv /\ [Next]_vars => [Ordered]_vars
  BY OrderStep
<1>2. [][Ordered]_vars <=> WaitInOrder
  BY DEF Ordered, WaitInOrder
<1> QED
  BY <1>1, <1>2, QueueSafe, PTL DEF Spec

=============================================================================
