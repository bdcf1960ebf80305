----------------------------- MODULE SchedProofs -----------------------------
(***************************************************************************)
(* Proofs about Sched, for every number of slots, semaphores, pages and    *)
(* frames.                                                                 *)
(***************************************************************************)
EXTENDS Sched, SequenceTheorems, TLAPS

-----------------------------------------------------------------------------
(* Facts about the list operations on sequences without repetition. *)

\* What list_add_tail does to the members of a list.
LEMMA AddTail ==
    ASSUME NEW S, NEW q \in Seq(S), NEW x \in S
    PROVE  /\ list_add_tail(q, x) \in Seq(S)
           /\ list_add_tail(q, x) # <<>>
           /\ Range(list_add_tail(q, x)) = Range(q) \cup {x}
           /\ IsInjective(q) /\ x \notin Range(q) => IsInjective(list_add_tail(q, x))
           /\ q # <<>> => Head(list_add_tail(q, x)) = Head(q)
<1> DEFINE a == Append(q, x)
<1>1. a \in Seq(S) /\ Len(a) = Len(q) + 1 /\ a # <<>>
  BY AppendProperties
<1>2. \A i \in 1 .. Len(q) : a[i] = q[i]
  OBVIOUS
<1>3. a[Len(q) + 1] = x
  OBVIOUS
<1>4. DOMAIN a = 1 .. Len(q) + 1 /\ DOMAIN q = 1 .. Len(q)
  BY <1>1
<1>5. Range(a) = Range(q) \cup {x}
  BY <1>2, <1>3, <1>4 DEF Range
<1>6. IsInjective(q) /\ x \notin Range(q) => IsInjective(a)
  BY <1>2, <1>3, <1>4 DEF Range, IsInjective
<1>7. q # <<>> => Head(a) = Head(q)
  BY <1>2
<1> QED
  BY <1>1, <1>5, <1>6, <1>7 DEF list_add_tail

\* What list_del does to the members of a list.
LEMMA Del ==
    ASSUME NEW S, NEW q \in Seq(S), NEW x, IsInjective(q)
    PROVE  /\ list_del(q, x) \in Seq(S)
           /\ Range(list_del(q, x)) = Range(q) \ {x}
           /\ IsInjective(list_del(q, x))
<1>1. CASE x \notin Range(q)
  BY <1>1 DEF list_del
<1>2. CASE x \in Range(q)
  <2> DEFINE k == CHOOSE k \in 1 .. Len(q) : q[k] = x
             d == [i \in 1 .. Len(q) - 1 |-> IF i < k THEN q[i] ELSE q[i + 1]]
  <2>1. k \in 1 .. Len(q) /\ q[k] = x
    BY <1>2 DEF Range
  <2>2. list_del(q, x) = d
    BY <1>2 DEF list_del
  <2> HIDE DEF k
  <2>3. Len(q) - 1 \in Nat /\ DOMAIN q = 1 .. Len(q)
    BY <2>1
  <2>4. d \in Seq(S) /\ DOMAIN d = 1 .. Len(q) - 1
    BY <2>1, <2>3
  <2>5. \A i, j \in 1 .. Len(q) : q[i] = q[j] => i = j
    BY <2>3 DEF IsInjective
  <2>6. \A i \in 1 .. Len(q) - 1 : d[i] \in Range(q) /\ d[i] # x
    BY <2>1, <2>3, <2>5 DEF Range
  <2>7. \A i \in 1 .. Len(q) : q[i] # x => q[i] \in Range(d)
    <3> SUFFICES ASSUME NEW i \in 1 .. Len(q), q[i] # x
                 PROVE  q[i] \in Range(d)
      OBVIOUS
    <3>1. CASE i < k
      <4>1. i \in 1 .. Len(q) - 1 /\ d[i] = q[i]
        BY <3>1, <2>1, <2>3
      <4> QED
        BY <4>1, <2>4 DEF Range
    <3>2. CASE i > k
      <4>1. i - 1 \in 1 .. Len(q) - 1 /\ ~(i - 1 < k) /\ (i - 1) + 1 = i
        BY <3>2, <2>1, <2>3
      <4>2. d[i - 1] = q[i]
        BY <4>1
      <4> QED
        BY <4>1, <4>2, <2>4 DEF Range
    <3> QED
      BY <3>1, <3>2, <2>1
  <2>8. Range(d) = Range(q) \ {x}
    BY <2>3, <2>4, <2>6, <2>7 DEF Range
  <2>9. IsInjective(d)
    BY <2>1, <2>4, <2>5 DEF IsInjective
  <2> QED
    BY <2>2, <2>4, <2>8, <2>9
<1> QED
  BY <1>1, <1>2

\* What appending one list to another does to their members.
LEMMA Concat ==
    ASSUME NEW S, NEW q \in Seq(S), NEW r \in Seq(S)
    PROVE  /\ q \o r \in Seq(S)
           /\ Range(q \o r) = Range(q) \cup Range(r)
           /\ IsInjective(q) /\ IsInjective(r) /\ Range(q) \cap Range(r) = {}
                => IsInjective(q \o r)
           /\ q # <<>> => q \o r # <<>> /\ Head(q \o r) = Head(q)
<1> DEFINE c == q \o r
<1>1. c \in Seq(S) /\ Len(c) = Len(q) + Len(r)
  OBVIOUS
<1>2. \A i \in 1 .. Len(q) : c[i] = q[i]
  OBVIOUS
<1>3. \A i \in 1 .. Len(r) : c[Len(q) + i] = r[i]
  OBVIOUS
<1>4. /\ DOMAIN c = 1 .. Len(q) + Len(r)
      /\ DOMAIN q = 1 .. Len(q)
      /\ DOMAIN r = 1 .. Len(r)
      /\ Len(q) \in Nat /\ Len(r) \in Nat
  BY <1>1
<1>5. \A i \in Len(q) + 1 .. Len(q) + Len(r) : i - Len(q) \in 1 .. Len(r) /\ c[i] = r[i - Len(q)]
  BY <1>3, <1>4
<1>6. Range(c) \subseteq Range(q) \cup Range(r)
  BY <1>2, <1>4, <1>5 DEF Range
<1>7. Range(q) \subseteq Range(c)
  BY <1>2, <1>4 DEF Range
<1>8. Range(r) \subseteq Range(c)
  <2> SUFFICES ASSUME NEW i \in 1 .. Len(r) PROVE r[i] \in Range(c)
    BY <1>4 DEF Range
  <2>1. Len(q) + i \in DOMAIN c
    BY <1>4
  <2> QED
    BY <2>1, <1>3 DEF Range
<1>9. ASSUME IsInjective(q), IsInjective(r), Range(q) \cap Range(r) = {}
      PROVE  IsInjective(c)
  <2> SUFFICES ASSUME NEW i \in DOMAIN c, NEW j \in DOMAIN c, c[i] = c[j], i <= j
               PROVE  i = j
    BY <1>4 DEF IsInjective
  <2>1. CASE j <= Len(q)
    BY <2>1, <1>2, <1>4, <1>9 DEF IsInjective
  <2>2. CASE i > Len(q)
    <3>1. i - Len(q) = j - Len(q)
      BY <2>2, <1>4, <1>5, <1>9 DEF IsInjective
    <3> QED
      BY <3>1, <1>4
  <2>3. CASE i <= Len(q) /\ j > Len(q)
    <3>1. c[i] \in Range(q) /\ c[j] \in Range(r)
      BY <2>3, <1>2, <1>4, <1>5 DEF Range
    <3> QED
      BY <3>1, <1>9
  <2> QED
    BY <2>1, <2>2, <2>3, <1>4
<1>10. q # <<>> => c # <<>> /\ Head(c) = Head(q)
  BY <1>1, <1>2
<1> QED
  BY <1>1, <1>6, <1>7, <1>8, <1>9, <1>10

\* A list is empty when it has no members, and its first node is a member.
LEMMA First ==
    ASSUME NEW S, NEW q \in Seq(S)
    PROVE  /\ q # <<>> => Head(q) \in Range(q)
           /\ Range(q) # {} => q # <<>>
           /\ Range(q) \subseteq S
           /\ Range(<<>>) = {}
           /\ IsInjective(<<>>)
<1>1. DOMAIN q = 1 .. Len(q) /\ Len(q) \in Nat
  OBVIOUS
<1>2. q # <<>> => 1 \in DOMAIN q /\ Head(q) = q[1]
  OBVIOUS
<1>3. q # <<>> => Head(q) \in Range(q)
  BY <1>2 DEF Range
<1>4. Range(<<>>) = {} /\ IsInjective(<<>>)
  BY DEF Range, IsInjective
<1>5. Range(q) \subseteq S
  BY <1>1 DEF Range
<1> QED
  BY <1>3, <1>4, <1>5

-----------------------------------------------------------------------------
(* Facts about frames. *)

\* alloc_frame only hands out free frames that exist, each of them once.
LEMMA AllocFrame ==
    ASSUME NEW used, NEW fr \in alloc_frame(used)
    PROVE  /\ fr \in [Pages -> Frames]
           /\ Range(fr) \subseteq Frames
           /\ Range(fr) \cap used = {}
           /\ IsInjective(fr)
<1>1. fr \in [Pages -> Allocatable \ used] /\ Successive(fr, used)
  BY DEF alloc_frame
<1>2. Allocatable \subseteq Frames
  BY DEF Allocatable
<1>3. Frames \subseteq Int
  BY SchedAssumption, FramesAssumption DEF Frames
<1>4. \A i, j \in Pages : i < j => fr[i] < fr[j]
  BY <1>1 DEF Successive
<1>5. \A i \in Pages : fr[i] \in Int /\ i \in Int
  <2>1. \A i \in Pages : fr[i] \in Frames
    BY <1>1, <1>2
  <2>2. \A i \in Pages : i \in Int
    BY SchedAssumption, FramesAssumption DEF Pages
  <2> QED
    BY <2>1, <2>2, <1>3
<1>6. \A i, j \in Pages : fr[i] = fr[j] => i = j
  BY <1>4, <1>5
<1>7. DOMAIN fr = Pages /\ \A i \in Pages : fr[i] \in Allocatable \ used
  BY <1>1
<1>8. fr \in [Pages -> Frames]
  BY <1>1, <1>2
<1>9. Range(fr) \subseteq Frames /\ Range(fr) \cap used = {}
  BY <1>2, <1>7 DEF Range
<1> QED
  BY <1>6, <1>7, <1>8, <1>9 DEF IsInjective

\* The two sets of frames that task 0 gets at boot.
LEMMA Boot ==
    /\ BootMapped \in alloc_frame(Reserved)
    /\ BootPages \in alloc_frame(Reserved \cup Range(BootMapped))
BY BootFits DEF BootMapped, BootPages

\* The frames of the kernel and of the code exist.
LEMMA ReservedFrames == Reserved \subseteq Frames
BY SchedAssumption, FramesAssumption DEF Reserved, Frames

-----------------------------------------------------------------------------
(* Queues: the type invariant, the exactness of the queues, the place of the *)
(* running process, the readiness of init and the absence of lost wake-ups   *)
(* are inductive together.                                                   *)

\* sys_exit runs for any process but init.
ExitsNotInit == mode = "exit" => task_pid[current] # 0

\* The conjunction that every handler preserves.
QueueInv ==
    /\ TypeOK
    /\ QueuesExact
    /\ CurrentFirst
    /\ InitReady
    /\ NoLostWakeup
    /\ ExitsNotInit

\* The state that init_mm, init_sched and init_task0 leave satisfies QueueInv.
THEOREM QueueInit == Init => QueueInv
<1> SUFFICES ASSUME Init PROVE QueueInv
  OBVIOUS
<1> USE SchedAssumption, FramesAssumption DEF Init, init_sched, init_task0
<1>1. /\ BootMapped \in [Pages -> Frames] /\ Range(BootMapped) \subseteq Frames
      /\ BootPages \in [Pages -> Frames] /\ Range(BootPages) \subseteq Frames
  BY Boot, AllocFrame
<1>2. 0 \in Slots /\ 0 \in Frames
  BY DEF Slots, Frames
<1>3. Range(<<0>>) = {0} /\ IsInjective(<<0>>) /\ Head(<<0>>) = 0 /\ <<0>> # <<>>
  BY DEF Range, IsInjective
<1>4. Range(<<>>) = {} /\ IsInjective(<<>>)
  BY DEF Range, IsInjective
<1>5. TypeOK
  <2>1. ph_pages \in [Slots -> [Pages -> Frames]]
    BY <1>1, <1>2
  <2>2. pagusr_table \in [Entries -> Frames]
    BY <1>1, <1>2
  <2>3. phys_mem \subseteq Frames
    BY <1>1, ReservedFrames
  <2>4. runqueue \in Seq(Slots) /\ keyboard_queue \in Seq(Slots) /\ wait_list \in [Sems -> Seq(Slots)]
    BY <1>2
  <2>5. quantum \in [Slots -> Nat] /\ remaining \in [Slots -> Int] /\ left4current \in Int
    BY <1>2
  <2>6. task_pid \in [Slots -> Nat \cup {-1}] /\ eax \in [Slots -> Int] /\ owned_sems \in [Slots -> SUBSET Sems]
    BY DEF USER_EAX
  <2>7. sem_count \in [Sems -> 0 .. UINT_SPAN - 1] /\ sem_init \in [Sems -> {0, 1}]
    OBVIOUS
  <2>8. exit_sem \in 0 .. SEM_MAX_VALUE
    OBVIOUS
  <2>9. mode \in {"user", "exit", "halted"} /\ in_service \in BOOLEAN
    BY Zenon
  <2> QED
    BY <1>2, <2>1, <2>2, <2>3, <2>4, <2>5, <2>6, <2>7, <2>8, <2>9 DEF TypeOK
<1>6. Live = {0}
  BY <1>2 DEF Live
<1>7. QueuesExact
  BY <1>3, <1>4, <1>6 DEF QueuesExact
<1>8. CurrentFirst /\ InitReady /\ NoLostWakeup /\ ExitsNotInit
  BY <1>2, <1>3 DEF CurrentFirst, InitReady, NoLostWakeup, ExitsNotInit
<1> QED
  BY <1>5, <1>7, <1>8 DEF QueueInv

\* task_switch keeps the types of what it writes.
LEMMA TaskSwitchType ==
    ASSUME TypeOK, NEW t \in Slots, NEW rem \in [Slots -> Int],
           NEW irq \in BOOLEAN, NEW it_is_int, task_switch(t, rem, irq, it_is_int)
    PROVE  /\ current' = t
           /\ left4current' \in Int
           /\ remaining' \in [Slots -> Int]
           /\ pagusr_table' \in [Entries -> Frames]
           /\ in_service' \in BOOLEAN
<1>1. current' = t /\ left4current' \in Int /\ remaining' \in [Slots -> Int]
  BY DEF TypeOK, task_switch
<1>2. pagusr_table' \in [Entries -> Frames]
  BY DEF TypeOK, task_switch, map_pages
<1>3. in_service' \in BOOLEAN
  BY Zenon DEF task_switch, eoi
<1> QED
  BY <1>1, <1>2, <1>3

\* schedule neither loses nor duplicates a process of the runqueue it is given,
\* and the process it switches to is the first one.
LEMMA ScheduleQueue ==
    ASSUME TypeOK, NEW rq \in Seq(Slots), IsInjective(rq), NEW alive \in BOOLEAN,
           alive => current \in Range(rq), NEW rem \in [Slots -> Int],
           NEW irq \in BOOLEAN, NEW from_int,
           schedule(alive, rq, rem, irq, from_int)
    PROVE  /\ runqueue' \in Seq(Slots)
           /\ IsInjective(runqueue')
           /\ Range(runqueue') = Range(rq)
           /\ \/ current' = current /\ runqueue' = rq
              \/ runqueue' # <<>> /\ current' = Head(runqueue')
           /\ current' \in Slots
           /\ left4current' \in Int
           /\ remaining' \in [Slots -> Int]
           /\ pagusr_table' \in [Entries -> Frames]
           /\ in_service' \in BOOLEAN
<1>1. CASE Len(rq) <= 1
  <2>1. /\ left4current' = quantum[current]
        /\ remaining' = [rem EXCEPT ![current] = quantum[current]]
        /\ runqueue' = rq
        /\ in_service' = FALSE
        /\ current' = current
        /\ pagusr_table' = pagusr_table
    BY <1>1 DEF schedule
  <2>2. in_service' \in BOOLEAN
    BY <2>1, Zenon
  <2>3. left4current' \in Int /\ remaining' \in [Slots -> Int]
    BY <2>1 DEF TypeOK
  <2> QED
    BY <2>1, <2>2, <2>3 DEF TypeOK
<1>2. CASE Len(rq) > 1
  <2> DEFINE r == requeue(alive, rq)
  <2>1. runqueue' = r /\ task_switch(next_task(r), rem, irq, from_int)
    BY <1>2 DEF schedule
  <2>2. current \in Slots
    BY DEF TypeOK
  <2>3. r \in Seq(Slots) /\ IsInjective(r) /\ Range(r) = Range(rq) /\ r # <<>>
    <3>1. CASE alive
      <4> DEFINE d == list_del(rq, current)
      <4>1. d \in Seq(Slots) /\ IsInjective(d) /\ Range(d) = Range(rq) \ {current}
        BY Del
      <4>2. /\ list_add_tail(d, current) \in Seq(Slots)
            /\ IsInjective(list_add_tail(d, current))
            /\ Range(list_add_tail(d, current)) = Range(d) \cup {current}
            /\ list_add_tail(d, current) # <<>>
        <5> HIDE DEF d
        <5>1. d \in Seq(Slots) /\ IsInjective(d) /\ current \notin Range(d)
          BY <4>1
        <5> QED
          BY <2>2, <5>1, AddTail, SMTT(30)
      <4> QED
        BY <3>1, <4>1, <4>2 DEF requeue
    <3>2. CASE ~alive
      BY <3>2, <1>2 DEF requeue
    <3> QED
      BY <3>1, <3>2
  <2> HIDE DEF r
  <2>4. Head(r) \in Slots
    BY <2>3, First
  <2>5. task_switch(Head(r), rem, irq, from_int)
    BY <2>1 DEF next_task
  <2> QED
    BY <2>1, <2>3, <2>4, <2>5, TaskSwitchType
<1>3. Len(rq) \in Nat
  OBVIOUS
<1> QED
  BY <1>1, <1>2, <1>3

\* A step that leaves the processes and their queues alone.
LEMMA QueuesUnchanged ==
    ASSUME QueueInv, UNCHANGED <<task_pid, runqueue, keyboard_queue, wait_list, current>>
    PROVE  QueuesExact' /\ CurrentFirst' /\ InitReady'
BY DEF QueueInv, QueuesExact, CurrentFirst, InitReady, Live

\* The timer interrupt.
LEMMA ClockQueue ==
    ASSUME QueueInv, clock_routine
    PROVE  QueueInv'
<1> USE DEF QueueInv
<1> DEFINE rem == [remaining EXCEPT ![current] = @ - 1]
<1>1. /\ UNCHANGED <<pid, task_pid, quantum, owned_sems, wait_list, sem_count, sem_init>>
      /\ UNCHANGED <<mode, exit_sem, ph_pages, phys_mem, keyboard_queue>>
      /\ eax' = [eax EXCEPT ![current] = USER_EAX]
      /\ mode = "user"
  BY DEF clock_routine, procVars, semVars, modeVars
<1>2. rem \in [Slots -> Int] /\ current \in Slots /\ eax' \in [Slots -> Int]
  BY <1>1 DEF TypeOK, USER_EAX
<1>3. CASE left4current - 1 > 0
  <2>0. ~(left4current - 1 <= 0)
    BY <1>3 DEF TypeOK
  <2>1. /\ left4current' = left4current - 1
        /\ remaining' = rem
        /\ in_service' = FALSE
        /\ UNCHANGED <<current, pagusr_table, runqueue>>
    BY <2>0, Zenon DEF clock_routine
  <2>2. in_service' \in BOOLEAN
    BY <2>1, Zenon
  <2>3. left4current' \in Int /\ remaining' \in [Slots -> Int]
    BY <1>2, <2>1 DEF TypeOK
  <2>4. TypeOK'
    BY <1>1, <1>2, <2>1, <2>2, <2>3 DEF TypeOK
  <2>5. QueuesExact' /\ CurrentFirst' /\ InitReady'
    BY <1>1, <2>1, QueuesUnchanged
  <2> QED
    BY <1>1, <2>4, <2>5 DEF ExitsNotInit, NoLostWakeup
<1>4. CASE ~(left4current - 1 > 0)
  <2> DEFINE alive == task_pid[current] # -1
  <2>1. schedule(alive, runqueue, rem, TRUE, 1)
    BY <1>4 DEF clock_routine, TypeOK
  <2>2. alive => current \in Range(runqueue)
    <3>1. runqueue \in Seq(Slots)
      BY DEF TypeOK
    <3>b. alive => current \in Live
      BY <1>2, Zenon DEF Live
    <3>2. alive => runqueue # <<>> /\ current = Head(runqueue)
      BY <3>b, Zenon DEF CurrentFirst
    <3> QED
      BY <3>1, <3>2, First
  <2>3. runqueue \in Seq(Slots) /\ IsInjective(runqueue)
    BY DEF TypeOK, QueuesExact
  <2> HIDE DEF rem
  <2>4. /\ runqueue' \in Seq(Slots)
        /\ IsInjective(runqueue')
        /\ Range(runqueue') = Range(runqueue)
        /\ \/ current' = current /\ runqueue' = runqueue
           \/ runqueue' # <<>> /\ current' = Head(runqueue')
        /\ current' \in Slots
        /\ left4current' \in Int
        /\ remaining' \in [Slots -> Int]
        /\ pagusr_table' \in [Entries -> Frames]
        /\ in_service' \in BOOLEAN
    BY <1>2, <2>1, <2>2, <2>3, ScheduleQueue
  <2>5. TypeOK'
    BY <1>1, <1>2, <2>4 DEF TypeOK
  <2>6. Live' = Live
    BY <1>1 DEF Live
  <2>7. QueuesExact'
    BY <1>1, <2>4, <2>6 DEF QueuesExact
  <2>8. CurrentFirst'
    BY <2>4, <2>6 DEF CurrentFirst
  <2>9. InitReady' /\ NoLostWakeup' /\ ExitsNotInit'
    BY <1>1, <2>4 DEF InitReady, NoLostWakeup, ExitsNotInit
  <2> QED
    BY <2>5, <2>7, <2>8, <2>9
<1> QED
  BY <1>3, <1>4

\* A fork that runs out of frames gives back exactly those it had got (sys.c:80-84).
LEMMA RollbackExact ==
    ASSUME NEW fr \in alloc_frame_fails(phys_mem)
    PROVE  rollback(fr) = phys_mem
<1>1. Range(fr) = Allocatable \ phys_mem
  BY DEF alloc_frame_fails
<1>2. Range(fr) = {fr[j] : j \in DOMAIN fr}
  BY DEF Range
<1> QED
  BY <1>1, <1>2, Zenon DEF rollback

\* So a fork that fails changes no frame.
LEMMA ForkFailsFrames ==
    ASSUME sys_fork_fails
    PROVE  phys_mem' = phys_mem
  BY RollbackExact, Zenon DEF sys_fork_fails

\* The calls that only return a value or change the quantum.
LEMMA PlainCallQueue ==
    ASSUME QueueInv,
           sys_ni_syscall \/ sys_getpid \/ sys_fork_fails \/ \E q \in Quanta : sys_nice(q)
    PROVE  QueueInv'
<1> USE DEF QueueInv
<1>1. /\ UNCHANGED <<task_pid, runqueue, keyboard_queue, wait_list, sem_count, sem_init>>
      /\ UNCHANGED <<current, remaining, left4current, pid, owned_sems>>
      /\ UNCHANGED <<ph_pages, pagusr_table, mode, exit_sem>>
      /\ in_service' = in_service
  BY Zenon DEF sys_ni_syscall, sys_getpid, sys_fork_fails, sys_nice, procVars, semVars,
               cpuVars, memVars, modeVars
<1>2. quantum' \in [Slots -> Nat]
  <2>1. CASE UNCHANGED quantum
    BY <2>1 DEF TypeOK
  <2>2. CASE \E q \in Quanta : sys_nice(q)
    <3>1. PICK q \in Quanta : sys_nice(q)
      BY <2>2
    <3>2. q \in Int
      BY SchedAssumption, FramesAssumption
    <3>3. UNCHANGED quantum \/ (q > 0 /\ quantum' = [quantum EXCEPT ![current] = q])
      BY <3>1, Zenon DEF sys_nice
    <3>4. q > 0 => q \in Nat
      BY <3>2
    <3> QED
      BY <3>3, <3>4 DEF TypeOK
  <2> QED
    BY <2>1, <2>2 DEF sys_ni_syscall, sys_getpid, sys_fork_fails, procVars
<1>3. phys_mem' = phys_mem
  BY ForkFailsFrames, Zenon DEF sys_ni_syscall, sys_getpid, sys_nice, memVars
<1>4. eax' \in [Slots -> Int]
  <2>1. task_pid[current] \in Int /\ quantum[current] \in Int
    BY DEF TypeOK
  <2>2. \E v \in Int : Return(v)
    BY <2>1 DEF sys_ni_syscall, sys_getpid, sys_fork_fails, sys_nice, ENOSYS, EAGAIN, EINVAL
  <2> QED
    BY <2>2 DEF Return, TypeOK
<1>5. TypeOK'
  BY <1>1, <1>2, <1>3, <1>4 DEF TypeOK
<1>6. QueuesExact' /\ CurrentFirst' /\ InitReady'
  BY <1>1, QueuesUnchanged
<1> QED
  BY <1>1, <1>5, <1>6 DEF NoLostWakeup, ExitsNotInit

\* A free slot, which fork takes, is on no list.
LEMMA ForkQueue ==
    ASSUME QueueInv, sys_fork
    PROVE  QueueInv'
<1> USE DEF QueueInv
<1>1. PICK new \in srch_free_task, fr \in alloc_frame(phys_mem) :
          /\ ph_pages' = [ph_pages EXCEPT ![new] = fr]
          /\ phys_mem' = phys_mem \cup Range(fr)
          /\ task_pid' = [task_pid EXCEPT ![new] = pid]
          /\ quantum' = [quantum EXCEPT ![new] = quantum[current]]
          /\ remaining' = [remaining EXCEPT ![new] = quantum[current]]
          /\ owned_sems' = [owned_sems EXCEPT ![new] = child_sems]
          /\ eax' = [eax EXCEPT ![new] = 0, ![current] = pid]
          /\ runqueue' = list_add_tail(runqueue, new)
  BY DEF sys_fork
<1>2. /\ pid' = pid + 1
      /\ pagusr_table' = [i \in Entries |-> IF i \in Pages THEN pagusr_table[i] ELSE 0]
      /\ UNCHANGED <<wait_list, sem_count, sem_init, mode, exit_sem>>
      /\ UNCHANGED <<keyboard_queue, current, left4current>>
      /\ in_service' = in_service
      /\ mode = "user"
  BY Zenon DEF sys_fork, semVars, modeVars, Running
<1>3. new \in Slots /\ task_pid[new] = -1 /\ new \notin Live /\ pid \in Nat
  BY DEF srch_free_task, TypeOK, Live
<1>4. /\ runqueue' \in Seq(Slots)
      /\ runqueue' # <<>>
      /\ Range(runqueue') = Range(runqueue) \cup {new}
      /\ IsInjective(runqueue')
      /\ runqueue # <<>> => Head(runqueue') = Head(runqueue)
  <2>1. new \notin Range(runqueue) /\ IsInjective(runqueue) /\ runqueue \in Seq(Slots)
    BY <1>3 DEF QueuesExact, TypeOK
  <2>2. /\ list_add_tail(runqueue, new) \in Seq(Slots)
        /\ list_add_tail(runqueue, new) # <<>>
        /\ Range(list_add_tail(runqueue, new)) = Range(runqueue) \cup {new}
        /\ IsInjective(list_add_tail(runqueue, new))
        /\ runqueue # <<>> => Head(list_add_tail(runqueue, new)) = Head(runqueue)
    BY <1>3, <2>1, AddTail
  <2> QED
    BY <1>1, <2>2
<1>5. TypeOK'
  <2>1. fr \in [Pages -> Frames] /\ Range(fr) \subseteq Frames
    BY AllocFrame
  <2>2. ph_pages' \in [Slots -> [Pages -> Frames]] /\ phys_mem' \subseteq Frames
    BY <1>1, <2>1 DEF TypeOK
  <2>3. 0 \in Frames
    BY SchedAssumption, FramesAssumption DEF Frames
  <2>4. pagusr_table' \in [Entries -> Frames]
    BY <1>2, <2>3 DEF TypeOK
  <2>5. /\ task_pid' \in [Slots -> Nat \cup {-1}]
        /\ quantum' \in [Slots -> Nat]
        /\ remaining' \in [Slots -> Int]
        /\ eax' \in [Slots -> Int]
        /\ pid' \in Nat
    BY <1>1, <1>2, <1>3 DEF TypeOK
  <2>6. owned_sems' \in [Slots -> SUBSET Sems]
    BY <1>1 DEF TypeOK, child_sems
  <2> QED
    BY <1>2, <1>4, <2>2, <2>4, <2>5, <2>6 DEF TypeOK
<1>6. Live' = Live \cup {new}
  BY <1>1, <1>3 DEF Live, TypeOK
<1>7. QueuesExact'
  <2>1. new \notin Range(keyboard_queue) /\ \A s \in Sems : new \notin Range(wait_list[s])
    BY <1>3 DEF QueuesExact
  <2> QED
    BY <1>2, <1>4, <1>6, <2>1 DEF QueuesExact
<1>8. CurrentFirst'
  BY <1>2, <1>3, <1>4, <1>6 DEF CurrentFirst, sys_fork, Running, Live, TypeOK
<1>9. InitReady'
  <2>1. new # 0
    BY <1>3 DEF InitReady
  <2>2. task_pid'[0] = 0
    BY <1>1, <2>1 DEF InitReady, TypeOK
  <2> QED
    BY <1>4, <2>2 DEF InitReady
<1> QED
  BY <1>2, <1>5, <1>7, <1>8, <1>9 DEF NoLostWakeup, ExitsNotInit

\* sem_init finds the wait list empty, so that resetting it loses nobody.
LEMMA SemInitQueue ==
    ASSUME QueueInv, NEW n \in SemArgs, NEW value \in SemValues, sys_sem_init(n, value)
    PROVE  QueueInv'
<1> USE DEF QueueInv
<1>1. /\ UNCHANGED <<task_pid, pid, quantum, current, remaining, left4current>>
      /\ UNCHANGED <<ph_pages, phys_mem, pagusr_table, mode, exit_sem>>
      /\ UNCHANGED <<runqueue, keyboard_queue>>
      /\ in_service' = in_service
  BY Zenon DEF sys_sem_init, cpuVars, memVars, modeVars
<1>2. eax' \in [Slots -> Int]
  <2>1. \E v \in Int : Return(v)
    BY DEF sys_sem_init, EINVAL, EBUSY
  <2> QED
    BY <2>1 DEF Return, TypeOK
<1>3. CASE UNCHANGED <<semVars, owned_sems>>
  <2>1. TypeOK'
    BY <1>1, <1>2, <1>3 DEF TypeOK, semVars
  <2> QED
    BY <1>1, <1>3, <2>1, QueuesUnchanged DEF semVars, NoLostWakeup, ExitsNotInit
<1>4. CASE ~(UNCHANGED <<semVars, owned_sems>>)
  <2>1. /\ n \in Sems
        /\ sem_init[n] # 1
        /\ sem_count' = [sem_count EXCEPT ![n] = value]
        /\ sem_init' = [sem_init EXCEPT ![n] = 1]
        /\ wait_list' = [wait_list EXCEPT ![n] = <<>>]
        /\ owned_sems' = [owned_sems EXCEPT ![current] = @ \cup {n}]
    BY <1>4, Zenon DEF sys_sem_init, Initialised
  <2>2. wait_list[n] = <<>>
    BY <2>1 DEF NoLostWakeup
  <2>3. wait_list' = wait_list
    BY <2>1, <2>2 DEF TypeOK
  <2>4. value \in 0 .. UINT_SPAN - 1
    BY SchedAssumption, FramesAssumption
  <2>5. TypeOK'
    BY <1>1, <1>2, <2>1, <2>3, <2>4 DEF TypeOK
  <2>6. NoLostWakeup'
    BY <2>1, <2>2, <2>3 DEF NoLostWakeup, TypeOK
  <2> QED
    BY <1>1, <2>3, <2>5, <2>6, QueuesUnchanged DEF ExitsNotInit
<1> QED
  BY <1>3, <1>4

\* sem_wait moves the running process, which is not init, from one list to
\* another; init is left on the runqueue.
LEMMA SemWaitQueue ==
    ASSUME QueueInv, NEW n \in SemArgs, sys_sem_wait(n)
    PROVE  QueueInv'
<1> USE DEF QueueInv
<1>1. /\ UNCHANGED <<pid, task_pid, quantum, owned_sems, sem_init, ph_pages, phys_mem>>
      /\ UNCHANGED <<mode, exit_sem, keyboard_queue>>
      /\ mode = "user" /\ current \in Slots /\ current \in Live
  BY DEF sys_sem_wait, procVars, modeVars, Running, TypeOK, Live
<1>2. eax' \in [Slots -> Int]
  <2>1. Return(-EPERM) \/ Return(-EINVAL) \/ Return(0) \/ Return(BLOCKED_EAX)
    BY Zenon DEF sys_sem_wait, sem_block
  <2> QED
    BY <2>1 DEF Return, TypeOK, EPERM, EINVAL, BLOCKED_EAX
<1>3. CASE UNCHANGED <<wait_list, sem_count, cpuVars, pagusr_table, runqueue>>
  <2>1. /\ UNCHANGED <<wait_list, sem_count, current, remaining, left4current>>
        /\ UNCHANGED <<pagusr_table, runqueue>>
        /\ in_service' = in_service
    BY <1>3, Zenon DEF cpuVars
  <2>2. TypeOK'
    BY <1>1, <1>2, <2>1 DEF TypeOK
  <2> QED
    BY <1>1, <2>1, <2>2, QueuesUnchanged DEF NoLostWakeup, ExitsNotInit
<1>4. CASE /\ Initialised(n) /\ sem_count[n] > 0
           /\ sem_count' = [sem_count EXCEPT ![n] = @ - 1]
           /\ UNCHANGED <<wait_list, cpuVars, pagusr_table, runqueue>>
  <2>1. /\ UNCHANGED <<wait_list, current, remaining, left4current>>
        /\ UNCHANGED <<pagusr_table, runqueue>>
        /\ in_service' = in_service
        /\ n \in Sems
    BY <1>4, Zenon DEF cpuVars, Initialised
  <2>2. sem_count' \in [Sems -> 0 .. UINT_SPAN - 1]
    <3>1. sem_count[n] \in 0 .. UINT_SPAN - 1 /\ sem_count[n] > 0
      BY <1>4, <2>1 DEF TypeOK
    <3>2. sem_count[n] - 1 \in 0 .. UINT_SPAN - 1
      BY <3>1, SchedAssumption, FramesAssumption
    <3> QED
      BY <1>4, <3>2 DEF TypeOK
  <2>3. TypeOK'
    BY <1>1, <1>2, <2>1, <2>2 DEF TypeOK
  <2>4. NoLostWakeup'
    BY <1>1, <1>4, <2>1 DEF NoLostWakeup, TypeOK
  <2> QED
    BY <1>1, <2>1, <2>3, <2>4, QueuesUnchanged DEF ExitsNotInit
<1>5. CASE may_wait /\ Initialised(n) /\ sem_count[n] <= 0 /\ sem_block(n)
  <2> DEFINE rq == list_del(runqueue, current)
             w == list_add_tail(wait_list[n], current)
  <2>1. /\ runqueue' = rq
        /\ wait_list' = [wait_list EXCEPT ![n] = w]
        /\ sem_count' = sem_count
        /\ n \in Sems /\ sem_init[n] = 1
        /\ current # 0
    BY <1>5 DEF sem_block, may_wait, InitReady, Initialised
  <2>1a. task_switch(Head(rq), remaining, FALSE, 0)
    BY <1>5 DEF sem_block, next_task
  <2>2. rq \in Seq(Slots) /\ IsInjective(rq) /\ Range(rq) = Range(runqueue) \ {current}
    BY Del DEF TypeOK, QueuesExact
  <2>3. current \in Range(runqueue)
    BY <1>1, First DEF CurrentFirst, TypeOK
  <2>4. wait_list[n] \in Seq(Slots) /\ IsInjective(wait_list[n]) /\ current \notin Range(wait_list[n])
    BY <2>1, <2>3 DEF TypeOK, QueuesExact
  <2>5. w \in Seq(Slots) /\ IsInjective(w) /\ Range(w) = Range(wait_list[n]) \cup {current}
    BY <1>1, <2>4, AddTail
  <2> HIDE DEF rq, w
  <2>6. rq # <<>> /\ Head(rq) \in Slots
    BY <2>1, <2>2, First DEF InitReady
  <2>7. /\ current' = Head(rq)
        /\ left4current' \in Int
        /\ remaining' \in [Slots -> Int]
        /\ pagusr_table' \in [Entries -> Frames]
        /\ in_service' \in BOOLEAN
    <3>1. remaining \in [Slots -> Int] /\ FALSE \in BOOLEAN
      BY DEF TypeOK
    <3> QED
      BY <2>1a, <2>6, <3>1, TaskSwitchType
  <2>8. TypeOK'
    BY <1>1, <1>2, <2>1, <2>2, <2>5, <2>6, <2>7 DEF TypeOK
  <2>9. Live' = Live
    BY <1>1 DEF Live
  <2>10. \A s \in Sems : wait_list'[s] = IF s = n THEN w ELSE wait_list[s]
    BY <2>1 DEF TypeOK
  <2>11. QueuesExact'
    <3>0. Range(runqueue') = Range(runqueue) \ {current}
      BY <2>1, <2>2
    <3>1. \A s \in Sems : current \notin Range(wait_list[s])
      BY <2>3 DEF QueuesExact
    <3>2. current \notin Range(keyboard_queue)
      BY <2>3 DEF QueuesExact
    <3>3. \A s \in Sems : IsInjective(wait_list'[s])
      BY <2>5, <2>10 DEF QueuesExact
    <3>4. /\ Range(wait_list'[n]) = Range(wait_list[n]) \cup {current}
          /\ \A s \in Sems : s # n => Range(wait_list'[s]) = Range(wait_list[s])
      BY <2>1, <2>5, <2>10
    <3>5. \A s, r \in Sems : s # r => Range(wait_list'[s]) \cap Range(wait_list'[r]) = {}
      BY <3>1, <3>4 DEF QueuesExact
    <3>6. \A s \in Sems : /\ Range(wait_list'[s]) \cap Range(runqueue') = {}
                         /\ Range(wait_list'[s]) \cap Range(keyboard_queue) = {}
      <4>1. \A s \in Sems : /\ Range(wait_list[s]) \cap Range(runqueue) = {}
                           /\ Range(wait_list[s]) \cap Range(keyboard_queue) = {}
        BY DEF QueuesExact
      <4> QED
        BY <3>0, <3>2, <3>4, <4>1
    <3>7. Live = Range(runqueue') \cup Range(keyboard_queue)
                   \cup UNION {Range(wait_list'[s]) : s \in Sems}
      <4>1. Live = Range(runqueue) \cup Range(keyboard_queue)
                     \cup UNION {Range(wait_list[s]) : s \in Sems}
        BY DEF QueuesExact
      <4>2. current \in Range(wait_list'[n])
        BY <2>1, <3>4
      <4> QED
        BY <2>1, <2>3, <3>0, <3>4, <4>1, <4>2
    <3> QED
      BY <1>1, <2>1, <2>2, <2>9, <3>3, <3>5, <3>6, <3>7 DEF QueuesExact
  <2>12. CurrentFirst' /\ InitReady'
    BY <1>1, <2>1, <2>2, <2>6, <2>7 DEF CurrentFirst, InitReady
  <2>13. NoLostWakeup'
    BY <1>1, <1>5, <2>1, <2>10 DEF NoLostWakeup, TypeOK
  <2> QED
    BY <1>1, <2>8, <2>11, <2>12, <2>13 DEF ExitsNotInit
<1> QED
  BY <1>3, <1>4, <1>5, Zenon DEF sys_sem_wait

\* sem_signal moves the first waiter to the runqueue, or adds a unit when
\* nobody waits.
LEMMA SemSignalQueue ==
    ASSUME QueueInv, NEW n \in SemArgs, sys_sem_signal(n)
    PROVE  QueueInv'
<1> USE DEF QueueInv
<1>1. /\ UNCHANGED <<pid, task_pid, quantum, owned_sems, sem_init, ph_pages, phys_mem>>
      /\ UNCHANGED <<pagusr_table, mode, exit_sem, keyboard_queue>>
      /\ UNCHANGED <<current, remaining, left4current>>
      /\ in_service' = in_service
  BY Zenon DEF sys_sem_signal, procVars, cpuVars, memVars, modeVars
<1>2. CASE Return(-EINVAL) /\ UNCHANGED <<wait_list, sem_count, runqueue>>
  <2>1. eax' \in [Slots -> Int]
    BY <1>2 DEF Return, TypeOK, EINVAL
  <2>2. TypeOK'
    BY <1>1, <1>2, <2>1 DEF TypeOK
  <2> QED
    BY <1>1, <1>2, <2>2, QueuesUnchanged DEF NoLostWakeup, ExitsNotInit
<1>3. CASE /\ Initialised(n) /\ wait_list[n] = <<>>
           /\ sem_count' = [sem_count EXCEPT ![n] = count_up(@)]
           /\ Return(0)
           /\ UNCHANGED <<wait_list, runqueue>>
  <2>1. n \in Sems /\ eax' \in [Slots -> Int]
    BY <1>3 DEF Initialised, Return, TypeOK
  <2>2. count_up(sem_count[n]) \in 0 .. UINT_SPAN - 1
    BY <2>1, SchedAssumption, FramesAssumption DEF count_up, TypeOK
  <2>3. TypeOK'
    BY <1>1, <1>3, <2>1, <2>2 DEF TypeOK
  <2>4. NoLostWakeup'
    BY <1>1, <1>3, <2>1 DEF NoLostWakeup, TypeOK
  <2> QED
    BY <1>1, <1>3, <2>3, <2>4, QueuesUnchanged DEF ExitsNotInit
<1>4. CASE Initialised(n) /\ wait_list[n] # <<>> /\ signal_wakes(n)
  <2> DEFINE h == Head(wait_list[n])
             w == list_del(wait_list[n], h)
             rq == list_add_tail(runqueue, h)
  <2>1. /\ n \in Sems
        /\ wait_list' = [wait_list EXCEPT ![n] = w]
        /\ runqueue' = rq
        /\ eax' = [eax EXCEPT ![h] = 0, ![current] = 0]
        /\ sem_count' = sem_count
    BY <1>4 DEF signal_wakes, first_waiter, Initialised
  <2>2. wait_list[n] \in Seq(Slots) /\ IsInjective(wait_list[n])
    BY <2>1 DEF TypeOK, QueuesExact
  <2>3. h \in Range(wait_list[n]) /\ h \in Slots
    BY <1>4, <2>2, First
  <2>4. w \in Seq(Slots) /\ IsInjective(w) /\ Range(w) = Range(wait_list[n]) \ {h}
    BY <2>2, Del
  <2>5. runqueue \in Seq(Slots) /\ IsInjective(runqueue) /\ h \notin Range(runqueue)
    BY <2>1, <2>3 DEF TypeOK, QueuesExact
  <2>6. /\ rq \in Seq(Slots) /\ IsInjective(rq) /\ rq # <<>>
        /\ Range(rq) = Range(runqueue) \cup {h}
        /\ runqueue # <<>> => Head(rq) = Head(runqueue)
    <3> HIDE DEF h
    <3> QED
      BY <2>3, <2>5, AddTail
  <2> HIDE DEF h, w, rq
  <2>7. TypeOK'
    <3>1. eax' \in [Slots -> Int]
      BY <2>1, <2>3 DEF TypeOK
    <3>2. wait_list' \in [Sems -> Seq(Slots)]
      BY <2>1, <2>4 DEF TypeOK
    <3> QED
      BY <1>1, <2>1, <2>6, <3>1, <3>2 DEF TypeOK
  <2>8. Live' = Live
    BY <1>1 DEF Live
  <2>9. wait_list'[n] = w /\ \A s \in Sems : s # n => wait_list'[s] = wait_list[s]
    BY <2>1 DEF TypeOK
  <2>10. QueuesExact'
    <3>0. Range(runqueue') = Range(runqueue) \cup {h}
      BY <2>1, <2>6
    <3>1. /\ Range(wait_list'[n]) = Range(wait_list[n]) \ {h}
          /\ \A s \in Sems : s # n => Range(wait_list'[s]) = Range(wait_list[s])
      BY <2>4, <2>9
    <3>2. \A s \in Sems : IsInjective(wait_list'[s])
      BY <2>4, <2>9 DEF QueuesExact
    <3>3. \A s, r \in Sems : s # r => Range(wait_list'[s]) \cap Range(wait_list'[r]) = {}
      BY <3>1 DEF QueuesExact
    <3>4. h \notin Range(keyboard_queue) /\ \A s \in Sems : s # n => h \notin Range(wait_list[s])
      BY <2>1, <2>3 DEF QueuesExact
    <3>5. \A s \in Sems : /\ Range(wait_list'[s]) \cap Range(runqueue') = {}
                         /\ Range(wait_list'[s]) \cap Range(keyboard_queue) = {}
      BY <3>0, <3>1, <3>4 DEF QueuesExact
    <3>6. Live = Range(runqueue') \cup Range(keyboard_queue)
                   \cup UNION {Range(wait_list'[s]) : s \in Sems}
      <4>1. Live = Range(runqueue) \cup Range(keyboard_queue)
                     \cup UNION {Range(wait_list[s]) : s \in Sems}
        BY DEF QueuesExact
      <4> QED
        BY <2>1, <2>3, <3>0, <3>1, <4>1
    <3>7. Range(runqueue') \cap Range(keyboard_queue) = {}
      BY <3>0, <3>4 DEF QueuesExact
    <3> QED
      BY <1>1, <2>1, <2>6, <2>8, <3>2, <3>3, <3>5, <3>6, <3>7 DEF QueuesExact
  <2>11. CurrentFirst' /\ InitReady'
    BY <1>1, <2>1, <2>6, <2>8 DEF CurrentFirst, InitReady
  <2>12. NoLostWakeup'
    <3>1. wait_list'[n] # <<>> => sem_init[n] = 1 /\ sem_count[n] = 0
      BY <1>4, <2>1 DEF NoLostWakeup
    <3> QED
      BY <1>1, <2>1, <2>9, <3>1 DEF NoLostWakeup
  <2> QED
    BY <1>1, <2>7, <2>10, <2>11, <2>12 DEF ExitsNotInit
<1> QED
  BY <1>2, <1>3, <1>4, Zenon DEF sys_sem_signal

\* Destroying a semaphore moves all its waiters behind the runqueue.
LEMMA DestroyQueue ==
    ASSUME QueueInv, NEW n \in Sems, destroy(n),
           UNCHANGED <<task_pid, keyboard_queue, current>>
    PROVE  /\ QueuesExact' /\ CurrentFirst' /\ InitReady' /\ NoLostWakeup'
           /\ runqueue' \in Seq(Slots)
           /\ wait_list' \in [Sems -> Seq(Slots)]
           /\ sem_init' \in [Sems -> {0, 1}]
           /\ owned_sems' \in [Slots -> SUBSET Sems]
<1> USE DEF QueueInv
<1> DEFINE w == wait_list[n]
<1>1. /\ runqueue' = runqueue \o w
      /\ wait_list' = [wait_list EXCEPT ![n] = <<>>]
      /\ sem_init' = [sem_init EXCEPT ![n] = 0]
      /\ owned_sems' = [owned_sems EXCEPT ![current] = @ \ {n}]
      /\ sem_count' = sem_count
  BY DEF destroy
<1>2. /\ w \in Seq(Slots) /\ IsInjective(w)
      /\ runqueue \in Seq(Slots) /\ IsInjective(runqueue)
      /\ Range(runqueue) \cap Range(w) = {}
  BY DEF TypeOK, QueuesExact
<1>3. /\ runqueue' \in Seq(Slots)
      /\ IsInjective(runqueue')
      /\ Range(runqueue') = Range(runqueue) \cup Range(w)
      /\ runqueue # <<>> => runqueue' # <<>> /\ Head(runqueue') = Head(runqueue)
  BY <1>1, <1>2, Concat
<1>4. wait_list'[n] = <<>> /\ \A s \in Sems : s # n => wait_list'[s] = wait_list[s]
  BY <1>1 DEF TypeOK
<1>5. Range(<<>>) = {} /\ IsInjective(<<>>)
  BY <1>2, First
<1>6. Live' = Live
  BY DEF Live
<1>7. QueuesExact'
  <2>1. /\ Range(wait_list'[n]) = {}
        /\ \A s \in Sems : s # n => Range(wait_list'[s]) = Range(wait_list[s])
    BY <1>4, <1>5
  <2>2. \A s \in Sems : IsInjective(wait_list'[s])
    BY <1>4, <1>5 DEF QueuesExact
  <2>3. \A s, r \in Sems : s # r => Range(wait_list'[s]) \cap Range(wait_list'[r]) = {}
    BY <2>1 DEF QueuesExact
  <2>4. \A s \in Sems : /\ Range(wait_list'[s]) \cap Range(runqueue') = {}
                       /\ Range(wait_list'[s]) \cap Range(keyboard_queue) = {}
    BY <1>3, <2>1 DEF QueuesExact
  <2>5. Live = Range(runqueue') \cup Range(keyboard_queue)
                 \cup UNION {Range(wait_list'[s]) : s \in Sems}
    <3>1. Live = Range(runqueue) \cup Range(keyboard_queue)
                   \cup UNION {Range(wait_list[s]) : s \in Sems}
      BY DEF QueuesExact
    <3> QED
      BY <1>3, <2>1, <3>1
  <2>6. Range(runqueue') \cap Range(keyboard_queue) = {}
    BY <1>3 DEF QueuesExact
  <2> QED
    BY <1>3, <1>6, <2>2, <2>3, <2>4, <2>5, <2>6 DEF QueuesExact
<1>8. CurrentFirst' /\ InitReady'
  BY <1>3, <1>6 DEF CurrentFirst, InitReady
<1>9. NoLostWakeup'
  BY <1>1, <1>4 DEF NoLostWakeup, TypeOK
<1>10. /\ wait_list' \in [Sems -> Seq(Slots)]
       /\ sem_init' \in [Sems -> {0, 1}]
       /\ owned_sems' \in [Slots -> SUBSET Sems]
  BY <1>1 DEF TypeOK
<1> QED
  BY <1>3, <1>7, <1>8, <1>9, <1>10

\* sem_destroy, called by a program.
LEMMA SemDestroyQueue ==
    ASSUME QueueInv, NEW n \in SemArgs, sys_sem_destroy(n)
    PROVE  QueueInv'
<1> USE DEF QueueInv
<1>1. /\ UNCHANGED <<pid, task_pid, quantum, ph_pages, phys_mem, pagusr_table>>
      /\ UNCHANGED <<mode, exit_sem, keyboard_queue, current, remaining, left4current>>
      /\ in_service' = in_service
  BY Zenon DEF sys_sem_destroy, cpuVars, memVars, modeVars
<1>2. ExitsNotInit'
  BY <1>1 DEF ExitsNotInit
<1>3. CASE /\ Return(-EINVAL) \/ Return(-EPERM)
           /\ UNCHANGED <<wait_list, sem_count, sem_init, owned_sems, runqueue>>
  <2>1. eax' \in [Slots -> Int]
    BY <1>3 DEF Return, TypeOK, EINVAL, EPERM
  <2>2. TypeOK'
    BY <1>1, <1>3, <2>1 DEF TypeOK
  <2> QED
    BY <1>1, <1>2, <1>3, <2>2, QueuesUnchanged DEF NoLostWakeup
<1>4. CASE /\ Initialised(n)
           /\ destroy(n)
           /\ eax' = [destroyed_eax(n) EXCEPT ![current] = 0]
  <2>1. n \in Sems
    BY <1>4 DEF Initialised
  <2>2. /\ QueuesExact' /\ CurrentFirst' /\ InitReady' /\ NoLostWakeup'
        /\ runqueue' \in Seq(Slots)
        /\ wait_list' \in [Sems -> Seq(Slots)]
        /\ sem_init' \in [Sems -> {0, 1}]
        /\ owned_sems' \in [Slots -> SUBSET Sems]
    BY <1>1, <1>4, <2>1, DestroyQueue
  <2>3. eax' \in [Slots -> Int] /\ sem_count' = sem_count
    BY <1>4 DEF destroy, destroyed_eax, TypeOK
  <2>4. TypeOK'
    BY <1>1, <2>2, <2>3 DEF TypeOK
  <2> QED
    BY <1>2, <2>2, <2>4
<1> QED
  BY <1>3, <1>4, Zenon DEF sys_sem_destroy, semVars

\* exit begins, a page fault begins one, another exception halts.
LEMMA ModeQueue ==
    ASSUME QueueInv, sys_exit \/ page_fault_routine \/ exception_routine
    PROVE  QueueInv'
<1> USE DEF QueueInv
<1>1. /\ UNCHANGED <<pid, task_pid, quantum, ph_pages, phys_mem, pagusr_table, owned_sems>>
      /\ UNCHANGED <<wait_list, sem_count, sem_init, runqueue, keyboard_queue>>
      /\ UNCHANGED <<current, remaining, left4current>>
      /\ in_service' = in_service
  BY Zenon DEF sys_exit, page_fault_routine, exception_routine, procVars, semVars, cpuVars, memVars
<1>2. eax' \in [Slots -> Int]
  BY DEF sys_exit, page_fault_routine, exception_routine, Return, TypeOK, USER_EAX
<1>3. mode' \in {"user", "exit", "halted"} /\ exit_sem' \in 0 .. SEM_MAX_VALUE
  BY SchedAssumption, FramesAssumption DEF sys_exit, page_fault_routine, exception_routine, modeVars, TypeOK
<1>4. mode' = "exit" => task_pid[current] # 0
  BY DEF sys_exit, may_exit, page_fault_routine, exception_routine, modeVars, ExitsNotInit
<1>5. TypeOK'
  BY <1>1, <1>2, <1>3 DEF TypeOK
<1> QED
  BY <1>1, <1>4, <1>5, QueuesUnchanged DEF NoLostWakeup, ExitsNotInit

\* One turn of the loop of sys_exit.
LEMMA ExitSemsQueue ==
    ASSUME QueueInv, exit_sems
    PROVE  QueueInv'
<1> USE DEF QueueInv
<1>1. /\ UNCHANGED <<mode, pid, task_pid, quantum, ph_pages, phys_mem, pagusr_table>>
      /\ UNCHANGED <<keyboard_queue, current, remaining, left4current>>
      /\ in_service' = in_service
  BY Zenon DEF exit_sems, cpuVars, memVars
<1>2. exit_sem \in Sems /\ exit_sem' \in 0 .. SEM_MAX_VALUE
  BY SchedAssumption, FramesAssumption DEF exit_sems, TypeOK, Sems
<1>3. ExitsNotInit'
  BY <1>1 DEF ExitsNotInit
<1>4. CASE UNCHANGED <<wait_list, sem_count, sem_init, owned_sems, runqueue, eax>>
  <2>1. TypeOK'
    BY <1>1, <1>2, <1>4 DEF TypeOK
  <2> QED
    BY <1>1, <1>3, <1>4, <2>1, QueuesUnchanged DEF NoLostWakeup
<1>5. CASE destroy(exit_sem) /\ eax' = destroyed_eax(exit_sem)
  <2>1. /\ QueuesExact' /\ CurrentFirst' /\ InitReady' /\ NoLostWakeup'
        /\ runqueue' \in Seq(Slots)
        /\ wait_list' \in [Sems -> Seq(Slots)]
        /\ sem_init' \in [Sems -> {0, 1}]
        /\ owned_sems' \in [Slots -> SUBSET Sems]
    BY <1>1, <1>2, <1>5, DestroyQueue
  <2>2. eax' \in [Slots -> Int] /\ sem_count' = sem_count
    BY <1>5 DEF destroy, destroyed_eax, TypeOK
  <2>3. TypeOK'
    BY <1>1, <1>2, <2>1, <2>2 DEF TypeOK
  <2> QED
    BY <1>3, <2>1, <2>3
<1> QED
  BY <1>4, <1>5, Zenon DEF exit_sems, semVars

\* The end of sys_exit: the process leaves the runqueue and task[].
LEMMA ExitLastQueue ==
    ASSUME QueueInv, exit_last
    PROVE  QueueInv'
<1> USE DEF QueueInv
<1> DEFINE rq == list_del(runqueue, current)
<1>1. /\ UNCHANGED <<pid, quantum, owned_sems, wait_list, sem_count, sem_init>>
      /\ UNCHANGED <<ph_pages, eax, keyboard_queue>>
      /\ task_pid' = [task_pid EXCEPT ![current] = -1]
      /\ phys_mem' = freed
      /\ mode = "exit" /\ mode' = "user" /\ exit_sem' = 0
  BY DEF exit_last, semVars
<1>2. schedule(FALSE, rq, remaining, FALSE, 0)
  BY Zenon DEF exit_last
<1>3. current \in Slots /\ remaining \in [Slots -> Int] /\ FALSE \in BOOLEAN
  BY DEF TypeOK
<1>4. rq \in Seq(Slots) /\ IsInjective(rq) /\ Range(rq) = Range(runqueue) \ {current}
  BY <1>3, Del DEF TypeOK, QueuesExact
<1> HIDE DEF rq
<1>5. /\ runqueue' \in Seq(Slots)
      /\ IsInjective(runqueue')
      /\ Range(runqueue') = Range(rq)
      /\ \/ current' = current /\ runqueue' = rq
         \/ runqueue' # <<>> /\ current' = Head(runqueue')
      /\ current' \in Slots
      /\ left4current' \in Int
      /\ remaining' \in [Slots -> Int]
      /\ pagusr_table' \in [Entries -> Frames]
      /\ in_service' \in BOOLEAN
  <2>1. FALSE => current \in Range(rq)
    OBVIOUS
  <2> QED
    BY <1>2, <1>3, <1>4, <2>1, ScheduleQueue
<1>6. task_pid' \in [Slots -> Nat \cup {-1}] /\ phys_mem' \subseteq Frames
  BY <1>1 DEF TypeOK, freed
<1>7. TypeOK'
  <2>1. mode' \in {"user", "exit", "halted"} /\ exit_sem' \in 0 .. SEM_MAX_VALUE
    BY <1>1, SchedAssumption, FramesAssumption
  <2>2. pid' = pid /\ quantum' = quantum /\ owned_sems' = owned_sems /\ wait_list' = wait_list
        /\ sem_count' = sem_count /\ sem_init' = sem_init /\ ph_pages' = ph_pages
        /\ eax' = eax /\ keyboard_queue' = keyboard_queue
    BY <1>1
  <2> QED
    BY <1>5, <1>6, <2>1, <2>2 DEF TypeOK
<1>8. Live' = Live \ {current}
  BY <1>1, <1>3 DEF Live, TypeOK
<1>9. Range(runqueue') = Range(runqueue) \ {current}
  BY <1>4, <1>5
<1>10. /\ current \notin Range(keyboard_queue)
       /\ \A s \in Sems : current \notin Range(wait_list[s])
  <2>1. CASE current \in Live
    <3>1. current \in Range(runqueue)
      BY <2>1, First DEF CurrentFirst, TypeOK
    <3> QED
      BY <3>1 DEF QueuesExact
  <2>2. CASE current \notin Live
    BY <2>2 DEF QueuesExact
  <2> QED
    BY <2>1, <2>2
<1>11. QueuesExact'
  <2>1. Live' = Range(runqueue') \cup Range(keyboard_queue)
                  \cup UNION {Range(wait_list[s]) : s \in Sems}
    <3>1. Live = Range(runqueue) \cup Range(keyboard_queue)
                   \cup UNION {Range(wait_list[s]) : s \in Sems}
      BY DEF QueuesExact
    <3> QED
      BY <1>8, <1>9, <1>10, <3>1
  <2>2. \A s \in Sems : /\ Range(wait_list[s]) \cap Range(runqueue') = {}
                       /\ Range(wait_list[s]) \cap Range(keyboard_queue) = {}
    BY <1>9 DEF QueuesExact
  <2>3. Range(runqueue') \cap Range(keyboard_queue) = {}
    BY <1>9 DEF QueuesExact
  <2> QED
    BY <1>1, <1>5, <2>1, <2>2, <2>3 DEF QueuesExact
<1>12. CurrentFirst'
  BY <1>5, <1>8 DEF CurrentFirst
<1>13. InitReady'
  BY <1>1, <1>3, <1>9 DEF InitReady, ExitsNotInit, TypeOK
<1>14. NoLostWakeup' /\ ExitsNotInit'
  BY <1>1 DEF NoLostWakeup, ExitsNotInit
<1> QED
  BY <1>7, <1>11, <1>12, <1>13, <1>14

\* Every step of the kernel preserves QueueInv.
THEOREM QueueStep == QueueInv /\ [Next]_vars => QueueInv'
<1> SUFFICES ASSUME QueueInv, [Next]_vars
             PROVE  QueueInv'
  OBVIOUS
<1>1. CASE sys_call_table
  <2>1. CASE sys_ni_syscall \/ sys_getpid \/ sys_fork_fails \/ \E q \in Quanta : sys_nice(q)
    BY <2>1, PlainCallQueue
  <2>2. CASE sys_fork
    BY <2>2, ForkQueue
  <2>3. CASE \E n \in SemArgs, v \in SemValues : sys_sem_init(n, v)
    BY <2>3, SemInitQueue
  <2>4. CASE \E n \in SemArgs : sys_sem_wait(n)
    BY <2>4, SemWaitQueue
  <2>5. CASE \E n \in SemArgs : sys_sem_signal(n)
    BY <2>5, SemSignalQueue
  <2>6. CASE \E n \in SemArgs : sys_sem_destroy(n)
    BY <2>6, SemDestroyQueue
  <2>7. CASE sys_exit
    BY <2>7, ModeQueue
  <2> QED
    BY <1>1, <2>1, <2>2, <2>3, <2>4, <2>5, <2>6, <2>7 DEF sys_call_table
<1>2. CASE exit_step
  BY <1>2, ExitSemsQueue, ExitLastQueue DEF exit_step
<1>3. CASE clock_routine
  BY <1>3, ClockQueue
<1>4. CASE page_fault_routine \/ exception_routine
  BY <1>4, ModeQueue
<1>5. CASE UNCHANGED vars
  <2>1. /\ UNCHANGED <<pid, task_pid, quantum, owned_sems, wait_list, sem_count, sem_init>>
        /\ UNCHANGED <<current, remaining, left4current, ph_pages, phys_mem, pagusr_table>>
        /\ UNCHANGED <<mode, exit_sem, eax, runqueue, keyboard_queue>>
        /\ in_service' = in_service
    BY <1>5, Zenon DEF vars, procVars, semVars, cpuVars, memVars, modeVars
  <2>2. TypeOK'
    BY <2>1 DEF QueueInv, TypeOK
  <2> QED
    BY <2>1, <2>2, QueuesUnchanged DEF QueueInv, NoLostWakeup, ExitsNotInit
<1> QED
  BY <1>1, <1>2, <1>3, <1>4, <1>5 DEF Next

\* QueueInv holds in every reachable state, for every number of slots,
\* semaphores and frames.
THEOREM QueueSafe == Spec => []QueueInv
BY QueueInit, QueueStep, PTL DEF Spec

\* Type correctness (the declarations of sched.h, sys.c and mm.c).
THEOREM TypeCorrect == Spec => []TypeOK
<1>1. QueueInv => TypeOK
  BY DEF QueueInv
<1> QED
  BY <1>1, QueueSafe, PTL

\* Every existing process is on exactly one list, once; a free slot on none.
THEOREM QueuesExactAlways == Spec => []QueuesExact
<1>1. QueueInv => QueuesExact
  BY DEF QueueInv
<1> QED
  BY <1>1, QueueSafe, PTL

\* The running process, while it exists, heads the runqueue.
THEOREM CurrentFirstAlways == Spec => []CurrentFirst
<1>1. QueueInv => CurrentFirst
  BY DEF QueueInv
<1> QED
  BY <1>1, QueueSafe, PTL

\* Init is always ready, so task_switch always has a process to switch to.
THEOREM InitReadyAlways == Spec => []InitReady
<1>1. QueueInv => InitReady
  BY DEF QueueInv
<1> QED
  BY <1>1, QueueSafe, PTL

\* sem_wait and sem_signal lose no wake-up.
THEOREM NoLostWakeupAlways == Spec => []NoLostWakeup
<1>1. QueueInv => NoLostWakeup
  BY DEF QueueInv
<1> QED
  BY <1>1, QueueSafe, PTL

=============================================================================
